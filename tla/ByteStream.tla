---------------------------- MODULE ByteStream -----------------------------
(***************************************************************************)
(* What a reader of a response promises its caller: the bytes of the body, *)
(* each once and in order.  A byte is its number in the body, from 1.      *)
(***************************************************************************)
EXTENDS Naturals, Sequences

VARIABLES
  given,  \* the number of bytes handed out
  out     \* the bytes of the last read

vars == <<given, out>>

Init == given = 0 /\ out = <<>>

\* Another response.
Open == given' = 0 /\ out' = <<>>

Take ==
  /\ given' = given + Len(out')
  /\ \A i \in DOMAIN out' : out'[i] = given + i

Next == Open \/ Take

Spec == Init /\ [][Next]_vars
=============================================================================
