-------------------------- MODULE BoundParameters --------------------------
(***************************************************************************)
(* What an application may expect of the parameters it binds: a binding is *)
(* the one given last for its number, and no call about one parameter, or  *)
(* about columns, changes another.  A failed call leaves its own parameter *)
(* open.  Calls on the descriptors themselves may change anything.         *)
(***************************************************************************)
EXTENDS Naturals

CONSTANT Params

VARIABLES
  bound,  \* what would be sent for each parameter, or Unbound
  call    \* the latest call

bvars == <<bound, call>>

Unbound == <<>>

Kept(i) == bound[i] # Unbound => bound'[i] = bound[i]

Init == bound = [i \in Params |-> Unbound] /\ call.op = "none"

Bind(i) ==
  /\ call'.op = "bind" /\ call'.num = i
  /\ bound'[i] = call'.param
  /\ \A j \in Params \ {i} : Kept(j)

BindFails(i) ==
  /\ call'.op = "failed" /\ call'.num = i
  /\ \A j \in Params \ {i} : Kept(j)

Unbind(i) ==
  /\ call'.op = "unbind" /\ call'.num = i
  /\ bound'[i] = Unbound
  /\ \A j \in Params \ {i} : Kept(j)

Reset == call'.op = "reset" /\ bound' = [i \in Params |-> Unbound]

Prepare == call'.op = "prepare" /\ \A i \in Params : Kept(i)

Columns == call'.op = "columns" /\ bound' = bound

Direct == call'.op = "direct"

Next ==
  \/ \E i \in Params : Bind(i) \/ BindFails(i) \/ Unbind(i)
  \/ Reset \/ Prepare \/ Columns \/ Direct

Spec == Init /\ [][Next]_bvars
=============================================================================
