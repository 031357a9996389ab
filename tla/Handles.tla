------------------------------ MODULE Handles ------------------------------
(***************************************************************************)
(* The handles an application holds and the objects behind them: the       *)
(* driver's registry, which every call looks its handle up in, and the     *)
(* maps and pointers that keep environments, connections, statements and   *)
(* descriptors alive.  A handle is the address of its object, and is used  *)
(* again once that is gone.                                                *)
(*                                                                         *)
(* Destruction is a step per destructor and per member it destroys, in the *)
(* order the classes declare them, since each one calls back into objects  *)
(* that are being destroyed around it.                                     *)
(*                                                                         *)
(* Calls find their object in the registry.  Built with                    *)
(* WORKAROUND_ALLOW_UNSAFE_DISPATCH (driver.h:263), a call that names a    *)
(* type takes the handle for a pointer instead: the same for a handle of   *)
(* that type in use, undefined for any other.                              *)
(***************************************************************************)
CONSTANTS
  Handle,    \* the addresses objects can have
  AppRoles,  \* roles of the application's descriptors (ARD, APD)
  ImpRoles,  \* roles of the implementation's descriptors (IRD, IPD)
  None       \* no handle

ASSUME NoneAssumption == None \notin Handle
ASSUME RolesAssumption == AppRoles \cap ImpRoles = {}

Roles == AppRoles \cup ImpRoles

VARIABLES
  kind,          \* the class of the object at an address, "none" if there is none
  parent,        \* Child::parent
  descendants,   \* Driver::descendants: the class a handle is registered as
  environments,  \* Driver::environments
  connections,   \* Environment::connections, of each environment
  statements,    \* Connection::statements, of each connection
  descriptors,   \* Connection::descriptors, of each connection
  implicit,      \* implicit_ard and the like, of each statement
  explicit,      \* explicit_ard and the like: None once the descriptor is gone
  alloc_type,    \* SQL_DESC_ALLOC_TYPE of each descriptor
  destroying,    \* the objects whose destructors are running
  unmapped,      \* the connections whose descriptors member is destroyed
  returned       \* what the last call returned

objectVars == <<kind, parent, descendants>>
mapVars == <<environments, connections, statements, descriptors>>
descVars == <<implicit, explicit, alloc_type>>
vars == <<objectVars, mapVars, descVars, destroying, unmapped, returned>>

Kinds == {"env", "dbc", "stmt", "desc"}

TypeOK ==
  /\ kind \in [Handle -> Kinds \cup {"none"}]
  /\ parent \in [Handle -> Handle \cup {None}]
  /\ descendants \in [Handle -> Kinds \cup {"none"}]
  /\ environments \in SUBSET Handle
  /\ connections \in [Handle -> SUBSET Handle]
  /\ statements \in [Handle -> SUBSET Handle]
  /\ descriptors \in [Handle -> SUBSET Handle]
  /\ implicit \in [Handle -> [Roles -> Handle \cup {None}]]
  /\ explicit \in [Handle -> [AppRoles -> Handle \cup {None}]]
  /\ alloc_type \in [Handle -> {"auto", "user"}]
  /\ destroying \in SUBSET Handle
  /\ unmapped \in SUBSET Handle
  /\ returned \in {"none", "success", "error", "invalid", "HY024", "HY017"}

Init ==
  /\ kind = [h \in Handle |-> "none"]
  /\ parent = [h \in Handle |-> None]
  /\ descendants = [h \in Handle |-> "none"]
  /\ environments = {}
  /\ connections = [h \in Handle |-> {}]
  /\ statements = [h \in Handle |-> {}]
  /\ descriptors = [h \in Handle |-> {}]
  /\ implicit = [h \in Handle |-> [r \in Roles |-> None]]
  /\ explicit = [h \in Handle |-> [r \in AppRoles |-> None]]
  /\ alloc_type = [h \in Handle |-> "auto"]
  /\ destroying = {}
  /\ unmapped = {}
  /\ returned = "none"

Idle == destroying = {}

Free == {h \in Handle : kind[h] = "none"}

\* A statement keeps d alive, whatever the connection's map says.
HeldImplicitly(d) ==
  \E s \in Handle, r \in Roles : kind[s] = "stmt" /\ implicit[s][r] = d

-----------------------------------------------------------------------------
(* Allocation.                                                             *)

\* Child's constructor: the object is registered under its address.
Construct(new, class, p) ==
  /\ kind' = [h \in Handle |-> IF h \in new THEN class[h] ELSE kind[h]]
  /\ parent' = [h \in Handle |-> IF h \in new THEN p ELSE parent[h]]
  /\ descendants' = [h \in Handle |-> IF h \in new THEN class[h] ELSE descendants[h]]

AllocEnv(e) ==
  /\ Idle
  /\ e \in Free
  /\ Construct({e}, [h \in {e} |-> "env"], None)
  /\ environments' = environments \cup {e}
  /\ returned' = "success"
  /\ UNCHANGED <<connections, statements, descriptors, descVars, destroying, unmapped>>

AllocConnect(e, c) ==
  /\ Idle
  /\ descendants[e] = "env" /\ c \in Free
  /\ Construct({c}, [h \in {c} |-> "dbc"], e)
  /\ connections' = [connections EXCEPT ![e] = @ \cup {c}]
  /\ returned' = "success"
  /\ UNCHANGED <<environments, statements, descriptors, descVars, destroying, unmapped>>

\* The statement's constructor allocates a descriptor for each role.
AllocStmt(c, s, desc) ==
  /\ Idle
  /\ descendants[c] = "dbc"
  /\ s \in Free
  /\ \A r \in Roles : desc[r] \in Free \ {s}
  /\ \A r, q \in Roles : desc[r] = desc[q] => r = q
  /\ LET descs == {desc[r] : r \in Roles}
     IN  /\ Construct({s} \cup descs,
                      [h \in {s} \cup descs |-> IF h = s THEN "stmt" ELSE "desc"], c)
         /\ descriptors' = [descriptors EXCEPT ![c] = @ \cup descs]
         /\ alloc_type' = [h \in Handle |-> IF h \in descs THEN "auto" ELSE alloc_type[h]]
  /\ statements' = [statements EXCEPT ![c] = @ \cup {s}]
  /\ implicit' = [implicit EXCEPT ![s] = desc]
  /\ returned' = "success"
  /\ UNCHANGED <<environments, connections, explicit, destroying, unmapped>>

AllocDesc(c, d) ==
  /\ Idle
  /\ descendants[c] = "dbc" /\ d \in Free
  /\ Construct({d}, [h \in {d} |-> "desc"], c)
  /\ descriptors' = [descriptors EXCEPT ![c] = @ \cup {d}]
  /\ alloc_type' = [alloc_type EXCEPT ![d] = "user"]
  /\ returned' = "success"
  /\ UNCHANGED <<environments, connections, statements, implicit, explicit, destroying, unmapped>>

-----------------------------------------------------------------------------
(* Descriptors of a statement.                                             *)

\* SQLSetDescField lets the application write SQL_DESC_ALLOC_TYPE.
SetAllocType(d, type) ==
  /\ Idle
  /\ descendants[d] = "desc"
  /\ alloc_type' = [alloc_type EXCEPT ![d] = type]
  /\ returned' = "success"
  /\ UNCHANGED <<objectVars, mapVars, implicit, explicit, destroying, unmapped>>

\* SQLSetStmtAttr(SQL_ATTR_IMP_ROW_DESC), SQL_ATTR_IMP_PARAM_DESC: read-only.
RefuseImplementation(s) ==
  /\ Idle
  /\ descendants[s] = "stmt"
  /\ returned' = "error"
  /\ UNCHANGED <<objectVars, mapVars, descVars, destroying, unmapped>>

\* SQLSetStmtAttr(SQL_ATTR_APP_ROW_DESC), SQL_ATTR_APP_PARAM_DESC with a handle
\* that is not a descriptor the statement may use.
RefuseDescriptor(s, d) ==
  /\ Idle
  /\ descendants[s] = "stmt"
  /\ \/ descendants[d] # "desc" /\ returned' = "HY024"
     \/ descendants[d] = "desc" /\ parent[d] # parent[s] /\ returned' = "HY024"
     \/ /\ descendants[d] = "desc" /\ parent[d] = parent[s]
        /\ alloc_type[d] = "auto"
        /\ returned' = "HY017"
  /\ UNCHANGED <<objectVars, mapVars, descVars, destroying, unmapped>>

SetExplicitDescriptor(s, r, d) ==
  /\ Idle
  /\ descendants[s] = "stmt" /\ descendants[d] = "desc"
  /\ parent[d] = parent[s]
  /\ alloc_type[d] = "user"
  /\ explicit' = [explicit EXCEPT ![s][r] = d]
  /\ returned' = "success"
  /\ UNCHANGED <<objectVars, mapVars, implicit, alloc_type, destroying, unmapped>>

SetImplicitDescriptor(s, r) ==
  /\ Idle
  /\ descendants[s] = "stmt"
  /\ explicit' = [explicit EXCEPT ![s][r] = None]
  /\ returned' = "success"
  /\ UNCHANGED <<objectVars, mapVars, implicit, alloc_type, destroying, unmapped>>

-----------------------------------------------------------------------------
(* Freeing.                                                                *)

\* SQLFreeHandle on what is not a handle.
FreeInvalid(h) ==
  /\ Idle
  /\ descendants[h] = "none"
  /\ returned' = "invalid"
  /\ UNCHANGED <<objectVars, mapVars, descVars, destroying, unmapped>>

FreeHandle_KeepDescriptor(h) ==
  /\ Idle
  /\ descendants[h] # "none"
  /\ environments' = environments \ {h}
  /\ connections' = [p \in Handle |-> connections[p] \ {h}]
  /\ statements' = [p \in Handle |-> statements[p] \ {h}]
  /\ destroying' = IF HeldImplicitly(h) THEN {} ELSE {h}
  /\ returned' = "success"
  /\ UNCHANGED <<objectVars, descriptors, descVars, unmapped>>

\* SQLFreeHandle, SQLFreeStmt(SQL_DROP): the parent's map lets go of the object,
\* and it is destroyed unless a statement holds it too.  The check for an
\* automatically allocated descriptor is never true: std::decay<...> is not the
\* type it decays to, and no pointer to it converts to Descriptor *.
FreeHandle(h) ==
  /\ Idle
  /\ descendants[h] # "none"
  /\ environments' = environments \ {h}
  /\ connections' = [p \in Handle |-> connections[p] \ {h}]
  /\ statements' = [p \in Handle |-> statements[p] \ {h}]
  /\ descriptors' = [p \in Handle |-> descriptors[p] \ {h}]
  /\ destroying' = IF HeldImplicitly(h) THEN {} ELSE {h}
  /\ returned' = "success"
  /\ UNCHANGED <<objectVars, descVars, unmapped>>

\* The destructors that run inside one another are of an environment, one of its
\* connections, one of its statements and one of its descriptors.
Inside(h) ==
  CASE kind[h] = "env"  -> {"dbc", "stmt", "desc"}
    [] kind[h] = "dbc"  -> {"stmt", "desc"}
    [] kind[h] = "stmt" -> {"desc"}
    [] OTHER            -> {}

Innermost(h) ==
  h \in destroying /\ \A x \in destroying : kind[x] \notin Inside(h)

\* ~Environment() destroys connections, one after the other.
DestroyConnections(e) ==
  /\ Innermost(e) /\ kind[e] = "env"
  /\ \E c \in connections[e] :
       /\ connections' = [connections EXCEPT ![e] = @ \ {c}]
       /\ destroying' = destroying \cup {c}
  /\ UNCHANGED <<objectVars, environments, statements, descriptors, descVars, unmapped, returned>>

\* ~Connection() destroys statements first, the last member declared.
DestroyStatements(c) ==
  /\ Innermost(c) /\ kind[c] = "dbc"
  /\ \E s \in statements[c] :
       /\ statements' = [statements EXCEPT ![c] = @ \ {s}]
       /\ destroying' = destroying \cup {s}
  /\ UNCHANGED <<objectVars, environments, connections, descriptors, descVars, unmapped, returned>>

DestroyDescriptors_First(c) ==
  /\ Innermost(c) /\ kind[c] = "dbc"
  /\ unmapped' = unmapped \cup {c}
  /\ \E d \in descriptors[c] :
       /\ descriptors' = [descriptors EXCEPT ![c] = @ \ {d}]
       /\ destroying' = IF HeldImplicitly(d) THEN destroying ELSE destroying \cup {d}
  /\ UNCHANGED <<objectVars, environments, connections, statements, descVars, returned>>

\* Then descriptors.
DestroyDescriptors(c) ==
  /\ Innermost(c) /\ kind[c] = "dbc"
  /\ statements[c] = {}
  /\ unmapped' = unmapped \cup {c}
  /\ \E d \in descriptors[c] :
       /\ descriptors' = [descriptors EXCEPT ![c] = @ \ {d}]
       /\ destroying' = IF HeldImplicitly(d) THEN destroying ELSE destroying \cup {d}
  /\ UNCHANGED <<objectVars, environments, connections, statements, descVars, returned>>

DeallocateImplicit_PointerOnly(s) ==
  /\ Innermost(s) /\ kind[s] = "stmt"
  /\ \E r \in Roles :
       /\ implicit[s][r] # None
       /\ implicit' = [implicit EXCEPT ![s][r] = None]
       /\ destroying' = IF implicit[s][r] \in descriptors[parent[s]]
                        THEN destroying ELSE destroying \cup {implicit[s][r]}
  /\ UNCHANGED <<objectVars, mapVars, explicit, alloc_type, unmapped, returned>>

\* ~Statement() deallocates its descriptors: out of the connection's map, then
\* the last pointer to it.
DeallocateImplicit(s) ==
  /\ Innermost(s) /\ kind[s] = "stmt"
  /\ \E r \in Roles :
       /\ implicit[s][r] # None
       /\ descriptors' = [descriptors EXCEPT ![parent[s]] = @ \ {implicit[s][r]}]
       /\ destroying' = destroying \cup {implicit[s][r]}
  /\ UNCHANGED <<objectVars, environments, connections, statements, descVars, unmapped, returned>>

Emptied_Statements(h) ==
  CASE kind[h] = "env"  -> connections[h] = {}
    [] kind[h] = "dbc"  -> statements[h] = {}
    [] kind[h] = "stmt" -> \A r \in Roles : implicit[h][r] = None
    [] OTHER            -> TRUE

Emptied(h) ==
  CASE kind[h] = "env"  -> connections[h] = {}
    [] kind[h] = "dbc"  -> statements[h] = {} /\ descriptors[h] = {}
    [] kind[h] = "stmt" -> \A r \in Roles : implicit[h][r] = None
    [] OTHER            -> TRUE

Forget_Erase(p, h) ==
  [s \in Handle |-> [r \in {q \in DOMAIN p[s] : p[s][q] # h} |-> p[s][r]]]

\* The pointers to a descriptor, once it is gone.
Forget(p, h) == [s \in Handle |-> [r \in DOMAIN p[s] |-> IF p[s][r] = h THEN None ELSE p[s][r]]]

Unregister_KeepEntry(h) ==
  /\ Innermost(h) /\ Emptied(h)
  /\ kind' = [kind EXCEPT ![h] = "none"]
  /\ descendants' = IF kind[h] = "desc" THEN descendants ELSE [descendants EXCEPT ![h] = "none"]
  /\ parent' = [parent EXCEPT ![h] = None]
  /\ implicit' = Forget(implicit, h)
  /\ explicit' = [Forget(explicit, h) EXCEPT ![h] = [r \in AppRoles |-> None]]
  /\ unmapped' = unmapped \ {h}
  /\ alloc_type' = [alloc_type EXCEPT ![h] = "auto"]
  /\ destroying' = destroying \ {h}
  /\ UNCHANGED <<mapVars, returned>>

Unregister_KeepExplicit(h) ==
  /\ Innermost(h) /\ Emptied(h)
  /\ kind' = [kind EXCEPT ![h] = "none"]
  /\ descendants' = [descendants EXCEPT ![h] = "none"]
  /\ parent' = [parent EXCEPT ![h] = None]
  /\ implicit' = Forget(implicit, h)
  /\ explicit' = [explicit EXCEPT ![h] = [r \in AppRoles |-> None]]
  /\ unmapped' = unmapped \ {h}
  /\ alloc_type' = [alloc_type EXCEPT ![h] = "auto"]
  /\ destroying' = destroying \ {h}
  /\ UNCHANGED <<mapVars, returned>>

\* ~Child(), with nothing left inside the object: it leaves the registry, which
\* it reaches through its parent.
Unregister(h) ==
  /\ Innermost(h) /\ Emptied(h)
  /\ kind' = [kind EXCEPT ![h] = "none"]
  /\ descendants' = [descendants EXCEPT ![h] = "none"]
  /\ parent' = [parent EXCEPT ![h] = None]
  /\ implicit' = Forget(implicit, h)
  /\ explicit' = [Forget(explicit, h) EXCEPT ![h] = [r \in AppRoles |-> None]]
  /\ unmapped' = unmapped \ {h}
  /\ alloc_type' = [alloc_type EXCEPT ![h] = "auto"]
  /\ destroying' = destroying \ {h}
  /\ UNCHANGED <<mapVars, returned>>

Next ==
  \/ \E h \in Handle : AllocEnv(h) \/ FreeInvalid(h) \/ FreeHandle(h)
  \/ \E p, h \in Handle : AllocConnect(p, h) \/ AllocDesc(p, h)
  \/ \E c, s \in Handle, desc \in [Roles -> Handle] : AllocStmt(c, s, desc)
  \/ \E d \in Handle, type \in {"auto", "user"} : SetAllocType(d, type)
  \/ \E s \in Handle : RefuseImplementation(s)
  \/ \E s, d \in Handle : RefuseDescriptor(s, d)
  \/ \E s, d \in Handle, r \in AppRoles : SetExplicitDescriptor(s, r, d)
  \/ \E s \in Handle, r \in AppRoles : SetImplicitDescriptor(s, r)
  \/ \E h \in Handle : DestroyConnections(h) \/ DestroyStatements(h) \/ DestroyDescriptors(h)
                       \/ DeallocateImplicit(h) \/ Unregister(h)

Spec == Init /\ [][Next]_vars

-----------------------------------------------------------------------------
(* What must hold.                                                         *)

\* Between calls the registry knows every object by its class and nothing else:
\* a handle in use dispatches to its own object, one that was freed to none,
\* also when its address has been used again for another class.
RegistryExact == Idle => descendants = kind

ParentKind(h) ==
  CASE kind[h] = "env" -> "none"
    [] kind[h] = "dbc" -> "env"
    [] OTHER           -> "dbc"

ParentOutlives ==
  \A h \in Handle :
    kind[h] \in {"dbc", "stmt", "desc"} => parent[h] # None /\ kind[parent[h]] = ParentKind(h)

DescriptorsOutliveStatements ==
  \A s \in Handle : kind[s] = "stmt" => parent[s] \notin unmapped

\* An object never outlives its parent, not even while both are destroyed: every
\* destructor reaches the driver through it, and a statement deallocates its
\* descriptors out of the connection's map, which must still be there.
NothingOutlivesParent == ParentOutlives /\ DescriptorsOutliveStatements

Held ==
  \A h \in Handle \ destroying :
    /\ kind[h] = "env" => h \in environments
    /\ kind[h] = "dbc" => h \in connections[parent[h]]
    /\ kind[h] = "stmt" => h \in statements[parent[h]]
    /\ kind[h] = "desc" => h \in descriptors[parent[h]] \/ HeldImplicitly(h)

Holds(class, map) ==
  \A p \in Handle : \A h \in map[p] : kind[h] = class /\ parent[h] = p /\ h \notin destroying

\* The map of a parent, or a statement, holds every object that is not being
\* destroyed, and holds no other: nothing leaks, nothing dangles.
HeldByOwner ==
  /\ Held
  /\ \A h \in environments : kind[h] = "env" /\ h \notin destroying
  /\ Holds("dbc", connections)
  /\ Holds("stmt", statements)
  /\ Holds("desc", descriptors)

\* getEffectiveDescriptor() always has a living descriptor of the statement's
\* own connection to return, whatever was freed in the meantime, and a
\* descriptor of its own to fall back to.
StatementHasDescriptors ==
  Idle =>
    \A s \in Handle : kind[s] = "stmt" =>
      /\ \A r \in Roles : /\ implicit[s][r] # None
                          /\ kind[implicit[s][r]] = "desc"
                          /\ parent[implicit[s][r]] = parent[s]
      /\ \A r \in AppRoles : explicit[s][r] # None =>
           kind[explicit[s][r]] = "desc" /\ parent[explicit[s][r]] = parent[s]
      /\ \A t \in Handle, r, q \in Roles :
           implicit[s][r] = implicit[t][q] => s = t /\ r = q

\* A descriptor that came with a statement goes with the statement.
Owner(h) ==
  IF kind[h] = "desc" /\ HeldImplicitly(h)
  THEN CHOOSE s \in Handle : kind[s] = "stmt" /\ \E r \in Roles : implicit[s][r] = h
  ELSE parent[h]

Freed == IF destroying = {} THEN None
         ELSE CHOOSE h \in destroying : \A x \in destroying : kind[h] \notin Inside(x)

Tree == INSTANCE HandleTree WITH
          Root <- None,
          owner <- [h \in {x \in Handle : kind[x] # "none"} |-> Owner(h)],
          freeing <- Freed

\* Freeing a handle frees all that is below it, from the leaves, and nothing
\* else.
FreesSubtrees == Tree!Spec

-----------------------------------------------------------------------------
(* The invariant that the safety properties follow from.                   *)

\* An implicit descriptor belongs to one statement, in one role, and to the
\* statement's connection.
ImplicitInPlace ==
  \A s \in Handle, r \in Roles : implicit[s][r] # None =>
    /\ kind[s] = "stmt"
    /\ kind[implicit[s][r]] = "desc"
    /\ parent[implicit[s][r]] = parent[s]
    /\ \A t \in Handle, q \in Roles : implicit[t][q] = implicit[s][r] => t = s /\ q = r

\* A weak pointer is to a living descriptor of the statement's connection.
ExplicitInPlace ==
  \A s \in Handle, r \in AppRoles : explicit[s][r] # None =>
    /\ kind[s] = "stmt"
    /\ kind[explicit[s][r]] = "desc"
    /\ parent[explicit[s][r]] = parent[s]

\* A statement loses its descriptors only in its destructor, and they are not
\* destroyed before.
StatementWhole ==
  \A s \in Handle \ destroying, r \in Roles : kind[s] = "stmt" =>
    implicit[s][r] \notin {None} \cup destroying

\* A map is gone only in its connection's destructor.
UnmappedDestroyed == unmapped \subseteq destroying

IInv ==
  /\ TypeOK
  /\ descendants = kind
  /\ ParentOutlives
  /\ HeldByOwner
  /\ DescriptorsOutliveStatements
  /\ ImplicitInPlace
  /\ ExplicitInPlace
  /\ StatementWhole
  /\ UnmappedDestroyed

\* The destructors that are running are of different classes, each inside that
\* of the owner: a chain down from the object the call frees.
Chain ==
  /\ \A h \in destroying : kind[h] \in Kinds
  /\ \A x, y \in destroying : kind[x] = kind[y] => x = y
  /\ \A h \in destroying :
       (\A x \in destroying : kind[h] \notin Inside(x)) \/ Owner(h) \in destroying

\* Environments are below nothing.
EnvironmentsOnTop == \A h \in Handle : kind[h] = "env" => parent[h] = None
=============================================================================
