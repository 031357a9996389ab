---------------------------- MODULE HandleTree -----------------------------
(***************************************************************************)
(* What a driver promises about handles: they form a forest, each below    *)
(* the handle that owns it; freeing one frees all that is below it and     *)
(* nothing else, an owner only after what it owns.                         *)
(***************************************************************************)
CONSTANTS Root, None

VARIABLES
  owner,   \* the owner of each handle, or Root: a function on the handles
  freeing  \* the handle being freed, or None

vars == <<owner, freeing>>

Init == owner = [h \in {} |-> Root] /\ freeing = None

Up(h) == IF h \in DOMAIN owner THEN owner[h] ELSE Root

\* A handle with all below it: there are four levels.
Subtree(h) ==
  {x \in DOMAIN owner : h \in {x, Up(x), Up(Up(x)), Up(Up(Up(x)))}}

Allocate ==
  /\ freeing = None
  /\ DOMAIN owner \subseteq DOMAIN owner'
  /\ \A h \in DOMAIN owner : owner'[h] = owner[h]
  /\ \A h \in DOMAIN owner' : owner'[h] \in DOMAIN owner' \cup {Root}
  /\ UNCHANGED freeing

Free(h) ==
  /\ freeing = None
  /\ freeing' = h
  /\ UNCHANGED owner

\* One handle goes, once nothing is below it.
Remove(h) ==
  /\ freeing # None
  /\ h \in Subtree(freeing)
  /\ \A x \in DOMAIN owner : owner[x] # h
  /\ owner' = [x \in DOMAIN owner \ {h} |-> owner[x]]
  /\ freeing' = IF h = freeing THEN None ELSE freeing

Next == Allocate \/ \E h \in DOMAIN owner : Free(h) \/ Remove(h)

Spec == Init /\ [][Next]_vars
=============================================================================
