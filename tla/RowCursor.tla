----------------------------- MODULE RowCursor -----------------------------
(***************************************************************************)
(* What a result set promises: a window that moves forward over the rows   *)
(* of the response.  Windows do not overlap and leave no gap; a row is at  *)
(* its own position or, where the response could not be read, is torn.     *)
(***************************************************************************)
EXTENDS Naturals, Sequences

CONSTANTS Torn

VARIABLES
  shown,   \* the rows of the window
  passed   \* the number of rows shown so far, those of the window included

vars == <<shown, passed>>

Init == shown = <<>> /\ passed = 0

\* A new result set, or none.
Open == shown' = <<>> /\ passed' = 0

Hide == shown' = <<>> /\ UNCHANGED passed

Show ==
  /\ shown = <<>>
  /\ passed' = passed + Len(shown')
  /\ \A i \in DOMAIN shown' : shown'[i] \in {passed + i, Torn}

Next == Open \/ Hide \/ Show

Spec == Init /\ [][Next]_vars
=============================================================================
