---------------------------- MODULE Handles_proofs --------------------------
(***************************************************************************)
(* What holds of Handles for every set of addresses and of roles.          *)
(***************************************************************************)
EXTENDS Handles, TLAPS

\* A pointer is one to an address, or to nothing; forgetting keeps that.
LEMMA ForgetFacts ==
  ASSUME NEW R, NEW p \in [Handle -> [R -> Handle \cup {None}]], NEW h \in Handle
  PROVE  Forget(p, h) \in [Handle -> [R -> Handle \cup {None}]]
  BY DEF Forget

\* Registering objects keeps the types of what is known of them.
LEMMA ConstructFacts ==
  ASSUME TypeOK, NEW new \in SUBSET Handle, NEW class, NEW p \in Handle \cup {None},
         \A h \in new : class[h] \in Kinds, Construct(new, class, p)
  PROVE  /\ kind' \in [Handle -> Kinds \cup {"none"}]
         /\ parent' \in [Handle -> Handle \cup {None}]
         /\ descendants' \in [Handle -> Kinds \cup {"none"}]
  BY DEF TypeOK, Construct

\* The same for one object.
LEMMA ConstructOne ==
  ASSUME TypeOK, NEW h \in Handle, NEW k \in Kinds, NEW p \in Handle \cup {None},
         Construct({h}, [x \in {h} |-> k], p)
  PROVE  /\ kind' \in [Handle -> Kinds \cup {"none"}]
         /\ parent' \in [Handle -> Handle \cup {None}]
         /\ descendants' \in [Handle -> Kinds \cup {"none"}]
<1> DEFINE class == [x \in {h} |-> k]
<1>1. \A x \in {h} : class[x] \in Kinds
  OBVIOUS
<1>2. {h} \in SUBSET Handle /\ Construct({h}, class, p)
  OBVIOUS
<1> HIDE DEF class
<1> QED
  BY <1>1, <1>2, ConstructFacts

\* Every step keeps the types.
LEMMA TypeStep == TypeOK /\ [Next]_vars => TypeOK'
<1> SUFFICES ASSUME TypeOK, [Next]_vars PROVE TypeOK'
  OBVIOUS
<1> USE DEF objectVars, mapVars, descVars, Idle, Free
<1>1. ASSUME UNCHANGED vars PROVE TypeOK'
  BY <1>1 DEF vars, TypeOK
<1>2. ASSUME NEW e \in Handle, AllocEnv(e) PROVE TypeOK'
  <2>1. Construct({e}, [h \in {e} |-> "env"], None)
    BY <1>2 DEF AllocEnv
  <2>2. /\ kind' \in [Handle -> Kinds \cup {"none"}]
        /\ parent' \in [Handle -> Handle \cup {None}]
        /\ descendants' \in [Handle -> Kinds \cup {"none"}]
    BY <2>1, ConstructOne DEF Kinds
  <2> QED
    BY <1>2, <2>2 DEF AllocEnv, TypeOK
<1>3. ASSUME NEW e \in Handle, NEW c \in Handle, AllocConnect(e, c) PROVE TypeOK'
  <2>1. Construct({c}, [h \in {c} |-> "dbc"], e)
    BY <1>3 DEF AllocConnect
  <2>2. /\ kind' \in [Handle -> Kinds \cup {"none"}]
        /\ parent' \in [Handle -> Handle \cup {None}]
        /\ descendants' \in [Handle -> Kinds \cup {"none"}]
    BY <2>1, ConstructOne DEF Kinds
  <2> QED
    BY <1>3, <2>2 DEF AllocConnect, TypeOK
<1>4. ASSUME NEW c \in Handle, NEW d \in Handle, AllocDesc(c, d) PROVE TypeOK'
  <2>1. Construct({d}, [h \in {d} |-> "desc"], c)
    BY <1>4 DEF AllocDesc
  <2>2. /\ kind' \in [Handle -> Kinds \cup {"none"}]
        /\ parent' \in [Handle -> Handle \cup {None}]
        /\ descendants' \in [Handle -> Kinds \cup {"none"}]
    BY <2>1, ConstructOne DEF Kinds
  <2> QED
    BY <1>4, <2>2 DEF AllocDesc, TypeOK
<1>5. ASSUME NEW c \in Handle, NEW s \in Handle, NEW desc \in [Roles -> Handle],
             AllocStmt(c, s, desc)
      PROVE  TypeOK'
  <2> DEFINE descs == {desc[r] : r \in Roles}
             class == [h \in {s} \cup descs |-> IF h = s THEN "stmt" ELSE "desc"]
  <2>1. descs \in SUBSET Handle /\ {s} \cup descs \in SUBSET Handle
    OBVIOUS
  <2>2. \A h \in {s} \cup descs : class[h] \in Kinds
    BY DEF Kinds
  <2>3. Construct({s} \cup descs, class, c)
    BY <1>5 DEF AllocStmt
  <2>4. /\ kind' \in [Handle -> Kinds \cup {"none"}]
        /\ parent' \in [Handle -> Handle \cup {None}]
        /\ descendants' \in [Handle -> Kinds \cup {"none"}]
    <3> HIDE DEF descs, class
    <3> QED
      BY <2>1, <2>2, <2>3, ConstructFacts
  <2>5. /\ descriptors' \in [Handle -> SUBSET Handle]
        /\ statements' \in [Handle -> SUBSET Handle]
        /\ implicit' \in [Handle -> [Roles -> Handle \cup {None}]]
    <3>1. descriptors' = [descriptors EXCEPT ![c] = @ \cup descs]
      BY <1>5 DEF AllocStmt
    <3>2. desc \in [Roles -> Handle \cup {None}]
      OBVIOUS
    <3> HIDE DEF descs
    <3> QED
      BY <1>5, <2>1, <3>1, <3>2 DEF AllocStmt, TypeOK
  <2>6. alloc_type' \in [Handle -> {"auto", "user"}]
    BY <1>5 DEF AllocStmt, TypeOK
  <2> QED
    BY <1>5, <2>4, <2>5, <2>6 DEF AllocStmt, TypeOK
<1>6. ASSUME NEW d \in Handle, NEW type \in {"auto", "user"}, SetAllocType(d, type)
      PROVE  TypeOK'
  BY <1>6 DEF SetAllocType, TypeOK
<1>7. ASSUME NEW s \in Handle, RefuseImplementation(s) PROVE TypeOK'
  BY <1>7 DEF RefuseImplementation, TypeOK
<1>8. ASSUME NEW s \in Handle, NEW d \in Handle, RefuseDescriptor(s, d) PROVE TypeOK'
  BY <1>8 DEF RefuseDescriptor, TypeOK
<1>9. ASSUME NEW s \in Handle, NEW d \in Handle, NEW r \in AppRoles,
             SetExplicitDescriptor(s, r, d)
      PROVE  TypeOK'
  BY <1>9 DEF SetExplicitDescriptor, TypeOK
<1>10. ASSUME NEW s \in Handle, NEW r \in AppRoles, SetImplicitDescriptor(s, r)
       PROVE  TypeOK'
  BY <1>10 DEF SetImplicitDescriptor, TypeOK
<1>11. ASSUME NEW h \in Handle, FreeInvalid(h) PROVE TypeOK'
  BY <1>11 DEF FreeInvalid, TypeOK
<1>12. ASSUME NEW h \in Handle, FreeHandle(h) PROVE TypeOK'
  BY <1>12 DEF FreeHandle, TypeOK
<1>13. ASSUME NEW h \in Handle, DestroyConnections(h) PROVE TypeOK'
  BY <1>13 DEF DestroyConnections, TypeOK
<1>14. ASSUME NEW h \in Handle, DestroyStatements(h) PROVE TypeOK'
  BY <1>14 DEF DestroyStatements, TypeOK
<1>15. ASSUME NEW h \in Handle, DestroyDescriptors(h) PROVE TypeOK'
  BY <1>15 DEF DestroyDescriptors, TypeOK
<1>16. ASSUME NEW h \in Handle, DeallocateImplicit(h) PROVE TypeOK'
  <2>1. PICK r \in Roles :
          /\ implicit[h][r] # None
          /\ descriptors' = [descriptors EXCEPT ![parent[h]] = @ \ {implicit[h][r]}]
          /\ destroying' = destroying \cup {implicit[h][r]}
    BY <1>16 DEF DeallocateImplicit
  <2>2. implicit[h][r] \in Handle
    BY <2>1 DEF TypeOK
  <2> QED
    BY <1>16, <2>1, <2>2 DEF DeallocateImplicit, TypeOK
<1>17. ASSUME NEW h \in Handle, Unregister(h) PROVE TypeOK'
  <2>1. implicit' \in [Handle -> [Roles -> Handle \cup {None}]]
    BY <1>17, ForgetFacts DEF Unregister, TypeOK
  <2>2. Forget(explicit, h) \in [Handle -> [AppRoles -> Handle \cup {None}]]
    BY ForgetFacts DEF TypeOK
  <2>3. explicit' \in [Handle -> [AppRoles -> Handle \cup {None}]]
    BY <1>17, <2>2 DEF Unregister
  <2> QED
    BY <1>17, <2>1, <2>3 DEF Unregister, TypeOK
<1> QED
  BY <1>1, <1>2, <1>3, <1>4, <1>5, <1>6, <1>7, <1>8, <1>9, <1>10, <1>11, <1>12, <1>13,
     <1>14, <1>15, <1>16, <1>17 DEF Next

\* Nothing refers to an address that no object has.
LEMMA FreshFacts ==
  ASSUME IInv, NEW h \in Free
  PROVE  /\ h \notin environments
         /\ \A p \in Handle : h \notin connections[p] \cup statements[p] \cup descriptors[p]
         /\ \A s \in Handle, r \in Roles : implicit[s][r] # h
         /\ \A s \in Handle, r \in AppRoles : explicit[s][r] # h
         /\ \A r \in Roles : implicit[h][r] = None
         /\ \A r \in AppRoles : explicit[h][r] = None
         /\ \A x \in Handle : kind[x] \in {"dbc", "stmt", "desc"} => parent[x] # h
<1> USE DEF IInv, Free
<1>1. h \notin environments
  BY DEF HeldByOwner
<1>2. \A p \in Handle : h \notin connections[p] \cup statements[p] \cup descriptors[p]
  BY DEF HeldByOwner, Holds
<1>3. \A s \in Handle, r \in Roles : implicit[s][r] # h
  BY NoneAssumption DEF ImplicitInPlace
<1>4. \A s \in Handle, r \in AppRoles : explicit[s][r] # h
  BY NoneAssumption DEF ExplicitInPlace
<1>5. \A r \in Roles : implicit[h][r] = None
  BY DEF ImplicitInPlace
<1>6. \A r \in AppRoles : explicit[h][r] = None
  BY DEF ExplicitInPlace
<1>7. \A x \in Handle : kind[x] \in {"dbc", "stmt", "desc"} => parent[x] # h
  BY DEF ParentOutlives, ParentKind
<1> QED
  BY <1>1, <1>2, <1>3, <1>4, <1>5, <1>6, <1>7

\* Between calls nothing is being destroyed, so that no map is gone.
LEMMA IdleFacts ==
  ASSUME IInv, Idle
  PROVE  destroying = {} /\ unmapped = {}
  BY DEF IInv, Idle, UnmappedDestroyed

\* A call that touches no object, no map and no pointer keeps the invariant.
LEMMA QuietStep ==
  ASSUME IInv, TypeOK',
         UNCHANGED <<objectVars, mapVars, implicit, explicit, destroying, unmapped>>
  PROVE  IInv'
<1> USE DEF objectVars, mapVars
<1>1. (descendants = kind)' /\ ParentOutlives' /\ DescriptorsOutliveStatements'
  BY DEF IInv, ParentOutlives, ParentKind, DescriptorsOutliveStatements
<1>2. HeldByOwner'
  BY DEF IInv, HeldByOwner, Held, Holds, HeldImplicitly
<1>3. ImplicitInPlace' /\ ExplicitInPlace' /\ StatementWhole' /\ UnmappedDestroyed'
  BY DEF IInv, ImplicitInPlace, ExplicitInPlace, StatementWhole, UnmappedDestroyed
<1> QED
  BY <1>1, <1>2, <1>3 DEF IInv

\* A new object is in the map of its parent, and changes nothing for the others.
LEMMA AllocStep ==
  ASSUME IInv, TypeOK', Idle, NEW h \in Free, NEW k \in {"env", "dbc", "desc"},
         NEW p \in Handle \cup {None}, p # h, k = "env" \/ kind[p] = IF k = "dbc" THEN "env" ELSE "dbc",
         k # "env" => p \in Handle,
         Construct({h}, [x \in {h} |-> k], p),
         environments' = IF k = "env" THEN environments \cup {h} ELSE environments,
         connections' = IF k = "dbc" THEN [connections EXCEPT ![p] = @ \cup {h}] ELSE connections,
         descriptors' = IF k = "desc" THEN [descriptors EXCEPT ![p] = @ \cup {h}] ELSE descriptors,
         UNCHANGED <<statements, implicit, explicit, destroying, unmapped>>
  PROVE  IInv'
<1>1. destroying = {} /\ unmapped = {}
  BY IdleFacts
<1>2. /\ kind' = [kind EXCEPT ![h] = k]
      /\ parent' = [parent EXCEPT ![h] = p]
      /\ descendants' = [descendants EXCEPT ![h] = k]
  BY DEF Construct, IInv, TypeOK
<1>3. h \in Handle /\ kind[h] = "none"
  BY DEF Free
<1>4. /\ h \notin environments
      /\ \A q \in Handle : h \notin connections[q] \cup statements[q] \cup descriptors[q]
      /\ \A s \in Handle, r \in Roles : implicit[s][r] # h
      /\ \A s \in Handle, r \in AppRoles : explicit[s][r] # h
      /\ \A r \in Roles : implicit[h][r] = None
      /\ \A r \in AppRoles : explicit[h][r] = None
      /\ \A x \in Handle : kind[x] \in {"dbc", "stmt", "desc"} => parent[x] # h
  BY FreshFacts
<1>5. (descendants = kind)'
  BY <1>2 DEF IInv
<1>6. ParentOutlives'
  BY <1>2, <1>3, <1>4, NoneAssumption DEF IInv, TypeOK, ParentOutlives, ParentKind
<1>7. Held'
  <2>1. ASSUME NEW x \in Handle, x # h, kind[x] = "desc"
        PROVE  kind'[x] = "desc" /\ (x \in descriptors'[parent'[x]] \/ HeldImplicitly(x)')
    <3>1. x \in descriptors[parent[x]] \/ HeldImplicitly(x)
      BY <1>1, <2>1 DEF IInv, HeldByOwner, Held
    <3>2. CASE x \in descriptors[parent[x]]
      BY <1>2, <2>1, <3>2 DEF IInv, TypeOK, ParentOutlives
    <3>3. CASE HeldImplicitly(x)
      BY <1>2, <1>3, <2>1, <3>3 DEF IInv, TypeOK, HeldImplicitly
    <3> QED
      BY <3>1, <3>2, <3>3
  <2>2. ASSUME NEW x \in Handle, x # h
        PROVE  /\ kind'[x] = "env" => x \in environments'
               /\ kind'[x] = "dbc" => x \in connections'[parent'[x]]
               /\ kind'[x] = "stmt" => x \in statements'[parent'[x]]
    BY <1>1, <1>2, <2>2 DEF IInv, TypeOK, HeldByOwner, Held, ParentOutlives
  <2>3. /\ k = "env" => h \in environments'
        /\ k = "dbc" => h \in connections'[p]
        /\ k = "desc" => h \in descriptors'[p]
    BY DEF IInv, TypeOK
  <2>4. kind'[h] = k /\ parent'[h] = p
    BY <1>2, <1>3 DEF IInv, TypeOK
  <2>5. \A x \in Handle : x # h => kind'[x] = kind[x]
    BY <1>2 DEF IInv, TypeOK
  <2> QED
    BY <2>1, <2>2, <2>3, <2>4, <2>5 DEF Held
<1>8. /\ \A x \in environments' : kind'[x] = "env" /\ x \notin destroying'
      /\ Holds("dbc", connections)'
      /\ Holds("stmt", statements)'
      /\ Holds("desc", descriptors)'
  BY <1>1, <1>2, <1>3, <1>4 DEF IInv, TypeOK, HeldByOwner, Holds
<1>9. DescriptorsOutliveStatements' /\ UnmappedDestroyed'
  BY <1>1, <1>2 DEF IInv, TypeOK, DescriptorsOutliveStatements, UnmappedDestroyed
<1>10. ImplicitInPlace' /\ ExplicitInPlace'
  BY <1>2, <1>3, <1>4, NoneAssumption DEF IInv, TypeOK, ImplicitInPlace, ExplicitInPlace
<1>11. StatementWhole'
  BY <1>1, <1>2, <1>3 DEF IInv, TypeOK, StatementWhole
<1> QED
  BY <1>5, <1>6, <1>7, <1>8, <1>9, <1>10, <1>11 DEF IInv, HeldByOwner

\* A new statement comes with descriptors that nothing else refers to.
LEMMA AllocStmtStep ==
  ASSUME IInv, TypeOK', NEW c \in Handle, NEW s \in Handle, NEW desc \in [Roles -> Handle],
         AllocStmt(c, s, desc)
  PROVE  IInv'
<1> DEFINE descs == {desc[r] : r \in Roles}
           new == {s} \cup descs
<1>1. destroying = {} /\ unmapped = {} /\ UNCHANGED <<destroying, unmapped>>
  BY IdleFacts DEF AllocStmt
<1>2. new \in SUBSET Free /\ s \notin descs /\ c \notin new /\ kind[c] = "dbc"
  BY DEF AllocStmt, Free, IInv
<1>3. /\ \A h \in Handle : kind'[h] = IF h = s THEN "stmt" ELSE IF h \in descs THEN "desc" ELSE kind[h]
      /\ \A h \in Handle : descendants'[h] = IF h = s THEN "stmt" ELSE IF h \in descs THEN "desc" ELSE descendants[h]
      /\ \A h \in Handle : parent'[h] = IF h \in new THEN c ELSE parent[h]
  BY DEF AllocStmt, Construct
<1>4. /\ descriptors' = [descriptors EXCEPT ![c] = @ \cup descs]
      /\ statements' = [statements EXCEPT ![c] = @ \cup {s}]
      /\ implicit' = [implicit EXCEPT ![s] = desc]
      /\ UNCHANGED <<environments, connections, explicit>>
  BY DEF AllocStmt
<1>5. \A r, q \in Roles : desc[r] = desc[q] => r = q
  BY DEF AllocStmt
<1>6. \A r \in Roles : desc[r] \in descs /\ desc[r] # None
  BY NoneAssumption
<1>7. \A h \in new :
        /\ h \in Handle /\ kind[h] = "none"
        /\ h \notin environments
        /\ \A q \in Handle : h \notin connections[q] \cup statements[q] \cup descriptors[q]
        /\ \A t \in Handle, r \in Roles : implicit[t][r] # h
        /\ \A t \in Handle, r \in AppRoles : explicit[t][r] # h
        /\ \A r \in Roles : implicit[h][r] = None
        /\ \A r \in AppRoles : explicit[h][r] = None
        /\ \A x \in Handle : kind[x] \in {"dbc", "stmt", "desc"} => parent[x] # h
  BY <1>2, FreshFacts DEF Free
<1>8. s \in new /\ descs \subseteq new
  OBVIOUS
<1> HIDE DEF descs, new
<1>9. (descendants = kind)'
  <2>1. \A h \in Handle : descendants'[h] = kind'[h]
    BY <1>3 DEF IInv
  <2> QED
    BY <2>1 DEF TypeOK
<1>10. ParentOutlives'
  <2>1. ASSUME NEW x \in Handle, x \in new
        PROVE  /\ kind'[x] \in {"stmt", "desc"}
               /\ parent'[x] = c /\ c # None /\ kind'[c] = "dbc"
    BY <1>2, <1>3, <1>8, <2>1, NoneAssumption DEF new
  <2>2. ASSUME NEW x \in Handle, x \notin new, kind'[x] \in {"dbc", "stmt", "desc"}
        PROVE  parent'[x] # None /\ kind'[parent'[x]] = ParentKind(x)'
    <3>1. kind'[x] = kind[x] /\ parent'[x] = parent[x]
      BY <1>3, <1>8, <2>2
    <3>2. parent[x] \in Handle \ new /\ kind[parent[x]] = ParentKind(x)
      BY <1>7, <2>2, <3>1 DEF IInv, TypeOK, ParentOutlives
    <3> QED
      BY <1>3, <1>8, <3>1, <3>2, NoneAssumption DEF ParentKind
  <2> QED
    BY <2>1, <2>2 DEF ParentOutlives, ParentKind
<1>11. Held'
  <2>1. ASSUME NEW x \in Handle, x \notin new, kind[x] = "desc"
        PROVE  x \in descriptors'[parent'[x]] \/ HeldImplicitly(x)'
    <3>1. x \in descriptors[parent[x]] \/ HeldImplicitly(x)
      BY <1>1, <2>1 DEF IInv, HeldByOwner, Held
    <3>2. CASE x \in descriptors[parent[x]]
      BY <1>3, <1>4, <2>1, <3>2 DEF IInv, TypeOK, ParentOutlives
    <3>3. CASE HeldImplicitly(x)
      <4>1. PICK t \in Handle, r \in Roles : kind[t] = "stmt" /\ implicit[t][r] = x
        BY <3>3 DEF HeldImplicitly
      <4>2. t # s /\ t \notin descs
        BY <1>7, <1>8, <4>1
      <4> QED
        BY <1>3, <1>4, <4>1, <4>2 DEF IInv, TypeOK, HeldImplicitly
    <3> QED
      BY <3>1, <3>2, <3>3
  <2>2. ASSUME NEW x \in Handle, x \notin new
        PROVE  /\ kind'[x] = kind[x]
               /\ kind'[x] = "env" => x \in environments'
               /\ kind'[x] = "dbc" => x \in connections'[parent'[x]]
               /\ kind'[x] = "stmt" => x \in statements'[parent'[x]]
    BY <1>1, <1>3, <1>4, <1>8, <2>2 DEF IInv, TypeOK, HeldByOwner, Held, ParentOutlives
  <2>3. ASSUME NEW x \in new
        PROVE  \/ kind'[x] = "stmt" /\ x \in statements'[parent'[x]]
               \/ kind'[x] = "desc" /\ x \in descriptors'[parent'[x]]
    <3>1. x \in Handle /\ parent'[x] = c
      BY <1>3, <1>7
    <3>2. CASE x = s
      BY <1>3, <1>4, <3>1, <3>2 DEF IInv, TypeOK
    <3>3. CASE x \in descs /\ x # s
      BY <1>3, <1>4, <3>1, <3>3 DEF IInv, TypeOK
    <3> QED
      BY <3>2, <3>3 DEF new
  <2> QED
    BY <2>1, <2>2, <2>3 DEF Held
<1>12. /\ \A x \in environments' : kind'[x] = "env" /\ x \notin destroying'
       /\ Holds("dbc", connections)'
  BY <1>1, <1>3, <1>4, <1>7, <1>8 DEF IInv, TypeOK, HeldByOwner, Holds
<1>13. Holds("stmt", statements)'
  BY <1>1, <1>2, <1>3, <1>4, <1>7, <1>8 DEF IInv, TypeOK, HeldByOwner, Holds
<1>14. Holds("desc", descriptors)'
  BY <1>1, <1>2, <1>3, <1>4, <1>7, <1>8 DEF IInv, TypeOK, HeldByOwner, Holds
<1>15. DescriptorsOutliveStatements' /\ UnmappedDestroyed'
  BY <1>1 DEF DescriptorsOutliveStatements, UnmappedDestroyed
<1>16. ImplicitInPlace'
  <2>1. ASSUME NEW t \in Handle, t # s, NEW r \in Roles, implicit[t][r] # None
        PROVE  /\ implicit'[t][r] = implicit[t][r]
               /\ kind'[t] = "stmt" /\ kind'[implicit[t][r]] = "desc"
               /\ parent'[implicit[t][r]] = parent'[t]
               /\ implicit[t][r] \notin descs
    <3>1. /\ kind[t] = "stmt" /\ kind[implicit[t][r]] = "desc"
          /\ parent[implicit[t][r]] = parent[t]
      BY <2>1 DEF IInv, ImplicitInPlace
    <3>2. implicit[t][r] \in Handle /\ implicit[t][r] \notin new /\ t \notin new
      BY <1>7, <2>1, <3>1 DEF IInv, TypeOK
    <3> QED
      BY <1>3, <1>4, <1>8, <2>1, <3>1, <3>2 DEF IInv, TypeOK
  <2>2. ASSUME NEW r \in Roles
        PROVE  /\ implicit'[s][r] = desc[r]
               /\ kind'[s] = "stmt" /\ kind'[desc[r]] = "desc"
               /\ parent'[desc[r]] = parent'[s]
    BY <1>2, <1>3, <1>4, <1>6, <1>7, <1>8 DEF IInv, TypeOK
  <2>3. ASSUME NEW t \in Handle, NEW q \in Roles, NEW u \in Handle, NEW r \in Roles,
               implicit'[u][r] # None, implicit'[t][q] = implicit'[u][r]
        PROVE  t = u /\ q = r
    <3>1. CASE t = s /\ u = s
      BY <1>5, <2>2, <2>3, <3>1
    <3>2. CASE t # s /\ u # s
      <4>1. implicit'[t] = implicit[t] /\ implicit'[u] = implicit[u]
        BY <1>4, <3>2 DEF IInv, TypeOK
      <4> QED
        BY <2>3, <4>1 DEF IInv, ImplicitInPlace
    <3>3. CASE (t = s) # (u = s)
      <4>1. \A v \in Handle, w \in Roles : v # s /\ implicit'[v][w] # None => implicit'[v][w] \notin descs
        <5>1. \A v \in Handle : v # s => implicit'[v] = implicit[v]
          BY <1>4 DEF IInv, TypeOK
        <5> QED
          BY <2>1, <5>1
      <4> QED
        BY <1>6, <2>2, <2>3, <3>3, <4>1
    <3> QED
      BY <3>1, <3>2, <3>3
  <2>4. \A t \in Handle : t # s => implicit'[t] = implicit[t]
    BY <1>4 DEF IInv, TypeOK
  <2>5. ASSUME NEW t \in Handle, NEW r \in Roles, implicit'[t][r] # None
        PROVE  /\ kind'[t] = "stmt"
               /\ kind'[implicit'[t][r]] = "desc"
               /\ parent'[implicit'[t][r]] = parent'[t]
    <3>1. CASE t = s
      BY <2>2, <3>1
    <3>2. CASE t # s
      BY <2>1, <2>4, <2>5, <3>2
    <3> QED
      BY <3>1, <3>2
  <2> QED
    BY <2>3, <2>5 DEF ImplicitInPlace
<1>17. ExplicitInPlace'
  <2>1. ASSUME NEW t \in Handle, NEW r \in AppRoles, explicit[t][r] # None
        PROVE  /\ kind'[t] = "stmt"
               /\ kind'[explicit[t][r]] = "desc"
               /\ parent'[explicit[t][r]] = parent'[t]
    <3>1. /\ kind[t] = "stmt" /\ kind[explicit[t][r]] = "desc"
          /\ parent[explicit[t][r]] = parent[t]
      BY <2>1 DEF IInv, ExplicitInPlace
    <3>2. explicit[t][r] \in Handle /\ explicit[t][r] \notin new /\ t \notin new
      BY <1>7, <2>1, <3>1 DEF IInv, TypeOK
    <3> QED
      BY <1>3, <1>8, <3>1, <3>2
  <2> QED
    BY <1>4, <2>1 DEF ExplicitInPlace
<1>18. StatementWhole'
  <2>1. ASSUME NEW t \in Handle, NEW r \in Roles, kind'[t] = "stmt"
        PROVE  implicit'[t][r] # None
    <3>1. CASE t = s
      BY <1>4, <1>6, <3>1 DEF IInv, TypeOK
    <3>2. CASE t # s
      <4>1. kind[t] = "stmt" /\ implicit'[t] = implicit[t]
        BY <1>3, <1>4, <2>1, <3>2 DEF IInv, TypeOK
      <4> QED
        BY <1>1, <4>1 DEF IInv, StatementWhole
    <3> QED
      BY <3>1, <3>2
  <2> QED
    BY <1>1, <2>1 DEF StatementWhole
<1> QED
  BY <1>9, <1>10, <1>11, <1>12, <1>13, <1>14, <1>15, <1>16, <1>17, <1>18 DEF IInv, HeldByOwner

\* A statement is given another's descriptor only if it is its connection's.
LEMMA ExplicitStep ==
  ASSUME IInv, TypeOK', NEW s \in Handle, NEW r \in AppRoles, NEW d \in Handle \cup {None},
         d # None => kind[s] = "stmt" /\ kind[d] = "desc" /\ parent[d] = parent[s],
         explicit' = [explicit EXCEPT ![s][r] = d],
         UNCHANGED <<objectVars, mapVars, implicit, destroying, unmapped>>
  PROVE  IInv'
<1> USE DEF objectVars, mapVars
<1>1. (descendants = kind)' /\ ParentOutlives' /\ DescriptorsOutliveStatements'
  BY DEF IInv, ParentOutlives, ParentKind, DescriptorsOutliveStatements
<1>2. HeldByOwner'
  BY DEF IInv, HeldByOwner, Held, Holds, HeldImplicitly
<1>3. ImplicitInPlace' /\ StatementWhole' /\ UnmappedDestroyed'
  BY DEF IInv, ImplicitInPlace, StatementWhole, UnmappedDestroyed
<1>4. ExplicitInPlace'
  <2>1. \A t \in Handle, q \in AppRoles :
          explicit'[t][q] = IF t = s /\ q = r THEN d ELSE explicit[t][q]
    BY DEF IInv, TypeOK
  <2> QED
    BY <2>1 DEF IInv, ExplicitInPlace
<1> QED
  BY <1>1, <1>2, <1>3, <1>4 DEF IInv

\* A freed handle leaves every map, and nothing that a statement holds is
\* destroyed.
LEMMA FreeStep ==
  ASSUME IInv, TypeOK', NEW h \in Handle, FreeHandle(h)
  PROVE  IInv'
<1> USE DEF objectVars, descVars
<1>1. destroying = {} /\ unmapped = {}
  BY IdleFacts DEF FreeHandle
<1>2. /\ environments' = environments \ {h}
      /\ \A p \in Handle : connections'[p] = connections[p] \ {h}
      /\ \A p \in Handle : statements'[p] = statements[p] \ {h}
      /\ \A p \in Handle : descriptors'[p] = descriptors[p] \ {h}
      /\ destroying' = IF HeldImplicitly(h) THEN {} ELSE {h}
      /\ UNCHANGED <<kind, parent, descendants, implicit, explicit, unmapped>>
  BY DEF FreeHandle
<1>3. (descendants = kind)' /\ ParentOutlives' /\ DescriptorsOutliveStatements'
  BY <1>2 DEF IInv, ParentOutlives, ParentKind, DescriptorsOutliveStatements
<1>4. HeldImplicitly(h) => kind[h] = "desc"
  BY NoneAssumption DEF IInv, ImplicitInPlace, HeldImplicitly
<1>5. \A x \in Handle : HeldImplicitly(x) <=> HeldImplicitly(x)'
  BY <1>2 DEF HeldImplicitly
<1>6. Held'
  <2>1. ASSUME NEW x \in Handle, x \notin destroying'
        PROVE  /\ kind'[x] = "env" => x \in environments'
               /\ kind'[x] = "dbc" => x \in connections'[parent'[x]]
               /\ kind'[x] = "stmt" => x \in statements'[parent'[x]]
               /\ kind'[x] = "desc" => x \in descriptors'[parent'[x]] \/ HeldImplicitly(x)'
    <3>1. CASE x = h
      BY <1>2, <1>4, <1>5, <2>1, <3>1
    <3>2. CASE x # h
      BY <1>1, <1>2, <1>5, <3>2 DEF IInv, TypeOK, HeldByOwner, Held, ParentOutlives
    <3> QED
      BY <3>1, <3>2
  <2> QED
    BY <2>1 DEF Held
<1>7. /\ \A x \in environments' : kind'[x] = "env" /\ x \notin destroying'
      /\ Holds("dbc", connections)' /\ Holds("stmt", statements)' /\ Holds("desc", descriptors)'
  BY <1>1, <1>2 DEF IInv, HeldByOwner, Holds
<1>8. ImplicitInPlace' /\ ExplicitInPlace' /\ UnmappedDestroyed'
  BY <1>1, <1>2 DEF IInv, ImplicitInPlace, ExplicitInPlace, UnmappedDestroyed
<1>9. StatementWhole'
  <2>1. ASSUME NEW s \in Handle, NEW r \in Roles, kind[s] = "stmt"
        PROVE  implicit[s][r] # None /\ implicit[s][r] \notin destroying'
    BY <1>1, <1>2, <2>1 DEF IInv, StatementWhole, HeldImplicitly
  <2> QED
    BY <1>2, <2>1 DEF StatementWhole
<1> QED
  BY <1>3, <1>6, <1>7, <1>8, <1>9 DEF IInv, HeldByOwner

\* A child leaves its parent's map as its own destruction begins.
LEMMA DestroyChildStep ==
  ASSUME IInv, TypeOK', NEW p \in Handle, NEW x \in connections[p] \cup statements[p],
         connections' = [connections EXCEPT ![p] = @ \ {x}],
         statements' = [statements EXCEPT ![p] = @ \ {x}],
         destroying' = destroying \cup {x},
         UNCHANGED <<objectVars, environments, descriptors, implicit, explicit, unmapped>>
  PROVE  IInv'
<1> USE DEF objectVars
<1>1. x \in Handle /\ kind[x] \in {"dbc", "stmt"} /\ parent[x] = p
  BY DEF IInv, TypeOK, HeldByOwner, Holds
<1>2. (descendants = kind)' /\ ParentOutlives' /\ DescriptorsOutliveStatements'
  BY DEF IInv, ParentOutlives, ParentKind, DescriptorsOutliveStatements
<1>3. \A y \in Handle : HeldImplicitly(y) <=> HeldImplicitly(y)'
  BY DEF HeldImplicitly
<1>4. Held'
  <2>1. ASSUME NEW y \in Handle, y \notin destroying, y # x
        PROVE  /\ kind'[y] = "env" => y \in environments'
               /\ kind'[y] = "dbc" => y \in connections'[parent'[y]]
               /\ kind'[y] = "stmt" => y \in statements'[parent'[y]]
               /\ kind'[y] = "desc" => y \in descriptors'[parent'[y]] \/ HeldImplicitly(y)'
    BY <1>3, <2>1 DEF IInv, TypeOK, HeldByOwner, Held, ParentOutlives
  <2> QED
    BY <2>1 DEF Held
<1>5. /\ \A y \in environments' : kind'[y] = "env" /\ y \notin destroying'
      /\ Holds("desc", descriptors)'
  BY <1>1 DEF IInv, HeldByOwner, Holds
<1>6. Holds("dbc", connections)' /\ Holds("stmt", statements)'
  BY <1>1 DEF IInv, TypeOK, HeldByOwner, Holds
<1>7. ImplicitInPlace' /\ ExplicitInPlace' /\ UnmappedDestroyed'
  BY DEF IInv, ImplicitInPlace, ExplicitInPlace, UnmappedDestroyed
<1>8. StatementWhole'
  BY <1>1 DEF IInv, StatementWhole, ImplicitInPlace
<1> QED
  BY <1>2, <1>4, <1>5, <1>6, <1>7, <1>8 DEF IInv, HeldByOwner

\* Nothing is left of what was inside an object whose destructor comes to the
\* point where its maps are empty.
LEMMA LeftInside ==
  ASSUME IInv, NEW h \in Handle, Innermost(h),
         kind[h] = "env" => connections[h] = {},
         kind[h] = "dbc" => statements[h] = {}
  PROVE  \A x \in Handle : kind[x] \in {"dbc", "stmt"} => parent[x] # h
<1> SUFFICES ASSUME NEW x \in Handle, kind[x] \in {"dbc", "stmt"}, parent[x] = h PROVE FALSE
  OBVIOUS
<1>1. kind[h] = IF kind[x] = "dbc" THEN "env" ELSE "dbc"
  BY DEF IInv, ParentOutlives, ParentKind
<1>2. x \notin destroying
  BY <1>1 DEF Innermost, Inside
<1>3. CASE kind[x] = "dbc"
  BY <1>1, <1>2, <1>3 DEF IInv, HeldByOwner, Held
<1>4. CASE kind[x] = "stmt"
  BY <1>1, <1>2, <1>4 DEF IInv, HeldByOwner, Held
<1> QED
  BY <1>3, <1>4

\* A descriptor leaves the map of a connection whose statements are gone.
LEMMA DestroyDescriptorsStep ==
  ASSUME IInv, TypeOK', NEW c \in Handle, DestroyDescriptors(c)
  PROVE  IInv'
<1> USE DEF objectVars, descVars
<1>1. PICK d \in descriptors[c] :
        /\ descriptors' = [descriptors EXCEPT ![c] = @ \ {d}]
        /\ destroying' = IF HeldImplicitly(d) THEN destroying ELSE destroying \cup {d}
  BY DEF DestroyDescriptors
<1>2. /\ c \in destroying /\ unmapped' = unmapped \cup {c}
      /\ UNCHANGED <<kind, parent, descendants, implicit, explicit, environments,
                    connections, statements>>
  BY DEF DestroyDescriptors, Innermost
<1>3. d \in Handle /\ kind[d] = "desc" /\ parent[d] = c /\ d \notin destroying
  BY DEF IInv, TypeOK, HeldByOwner, Holds
<1>4. (descendants = kind)' /\ ParentOutlives'
  BY <1>2 DEF IInv, ParentOutlives, ParentKind
<1>5. DescriptorsOutliveStatements'
  <2>1. \A s \in Handle : kind[s] = "stmt" => parent[s] # c
    BY LeftInside DEF DestroyDescriptors
  <2> QED
    BY <1>2, <2>1 DEF IInv, DescriptorsOutliveStatements
<1>6. \A y \in Handle : HeldImplicitly(y) <=> HeldImplicitly(y)'
  BY <1>2 DEF HeldImplicitly
<1>7. Held'
  <2>1. ASSUME NEW y \in Handle, y \notin destroying'
        PROVE  /\ kind'[y] = "env" => y \in environments'
               /\ kind'[y] = "dbc" => y \in connections'[parent'[y]]
               /\ kind'[y] = "stmt" => y \in statements'[parent'[y]]
               /\ kind'[y] = "desc" => y \in descriptors'[parent'[y]] \/ HeldImplicitly(y)'
    <3>1. CASE y = d
      BY <1>1, <1>2, <1>3, <1>6, <2>1, <3>1
    <3>2. CASE y # d
      BY <1>1, <1>2, <1>6, <2>1, <3>2 DEF IInv, TypeOK, HeldByOwner, Held, ParentOutlives
    <3> QED
      BY <3>1, <3>2
  <2> QED
    BY <2>1 DEF Held
<1>8. /\ \A x \in environments' : kind'[x] = "env" /\ x \notin destroying'
      /\ Holds("dbc", connections)' /\ Holds("stmt", statements)'
  BY <1>1, <1>2, <1>3 DEF IInv, HeldByOwner, Holds
<1>9. Holds("desc", descriptors)'
  BY <1>1, <1>2, <1>3 DEF IInv, TypeOK, HeldByOwner, Holds
<1>10. ImplicitInPlace' /\ ExplicitInPlace' /\ UnmappedDestroyed'
  BY <1>1, <1>2 DEF IInv, ImplicitInPlace, ExplicitInPlace, UnmappedDestroyed
<1>11. StatementWhole'
  BY <1>1, <1>2, <1>3 DEF IInv, StatementWhole, HeldImplicitly
<1> QED
  BY <1>4, <1>5, <1>7, <1>8, <1>9, <1>10, <1>11 DEF IInv, HeldByOwner

\* A statement that is being destroyed lets go of a descriptor that is no other's.
LEMMA DeallocateStep ==
  ASSUME IInv, TypeOK', NEW s \in Handle, DeallocateImplicit(s)
  PROVE  IInv'
<1> USE DEF objectVars, descVars
<1>1. PICK r \in Roles :
        /\ implicit[s][r] # None
        /\ descriptors' = [descriptors EXCEPT ![parent[s]] = @ \ {implicit[s][r]}]
        /\ destroying' = destroying \cup {implicit[s][r]}
  BY DEF DeallocateImplicit
<1>2. /\ s \in destroying /\ kind[s] = "stmt"
      /\ UNCHANGED <<kind, parent, descendants, implicit, explicit, environments,
                    connections, statements, unmapped>>
  BY DEF DeallocateImplicit, Innermost
<1> DEFINE d == implicit[s][r]
<1>3. /\ d \in Handle /\ kind[d] = "desc" /\ parent[d] = parent[s] /\ parent[s] \in Handle
      /\ \A t \in Handle, q \in Roles : implicit[t][q] = d => t = s
  BY <1>1, <1>2 DEF IInv, TypeOK, ImplicitInPlace, ParentOutlives
<1>4. /\ descriptors' = [descriptors EXCEPT ![parent[s]] = @ \ {d}]
      /\ destroying' = destroying \cup {d}
  BY <1>1
<1> HIDE DEF d
<1>5. (descendants = kind)' /\ ParentOutlives' /\ DescriptorsOutliveStatements'
  BY <1>2 DEF IInv, ParentOutlives, ParentKind, DescriptorsOutliveStatements
<1>6. \A y \in Handle : HeldImplicitly(y) <=> HeldImplicitly(y)'
  BY <1>2 DEF HeldImplicitly
<1>7. Held'
  <2>1. ASSUME NEW y \in Handle, y \notin destroying, y # d
        PROVE  /\ kind'[y] = "env" => y \in environments'
               /\ kind'[y] = "dbc" => y \in connections'[parent'[y]]
               /\ kind'[y] = "stmt" => y \in statements'[parent'[y]]
               /\ kind'[y] = "desc" => y \in descriptors'[parent'[y]] \/ HeldImplicitly(y)'
    BY <1>2, <1>3, <1>4, <1>6, <2>1 DEF IInv, TypeOK, HeldByOwner, Held, ParentOutlives
  <2> QED
    BY <1>4, <2>1 DEF Held
<1>8. /\ \A x \in environments' : kind'[x] = "env" /\ x \notin destroying'
      /\ Holds("dbc", connections)' /\ Holds("stmt", statements)'
  BY <1>2, <1>3, <1>4 DEF IInv, HeldByOwner, Holds
<1>9. Holds("desc", descriptors)'
  BY <1>2, <1>3, <1>4 DEF IInv, TypeOK, HeldByOwner, Holds
<1>10. ImplicitInPlace' /\ ExplicitInPlace' /\ UnmappedDestroyed'
  BY <1>2, <1>4 DEF IInv, ImplicitInPlace, ExplicitInPlace, UnmappedDestroyed
<1>11. StatementWhole'
  BY <1>2, <1>3, <1>4 DEF IInv, StatementWhole
<1> QED
  BY <1>5, <1>7, <1>8, <1>9, <1>10, <1>11 DEF IInv, HeldByOwner

\* What is unregistered has nothing below it and no pointer to it is left.
LEMMA UnregisterStep ==
  ASSUME IInv, TypeOK', NEW h \in Handle, Unregister(h)
  PROVE  IInv'
<1> USE DEF mapVars
<1>1. /\ h \in destroying /\ Innermost(h) /\ Emptied(h)
      /\ \A x \in Handle : kind'[x] = IF x = h THEN "none" ELSE kind[x]
      /\ \A x \in Handle : parent'[x] = IF x = h THEN None ELSE parent[x]
      /\ \A x \in Handle : descendants'[x] = IF x = h THEN "none" ELSE descendants[x]
      /\ destroying' = destroying \ {h} /\ unmapped' = unmapped \ {h}
      /\ UNCHANGED <<environments, connections, statements, descriptors>>
  BY DEF Unregister, Innermost, IInv, TypeOK
<1>2. \A s \in Handle, r \in Roles :
        implicit'[s][r] = IF implicit[s][r] = h THEN None ELSE implicit[s][r]
  BY DEF Unregister, Forget, IInv, TypeOK
<1>3. \A s \in Handle, r \in AppRoles :
        explicit'[s][r] = IF s = h \/ explicit[s][r] = h THEN None ELSE explicit[s][r]
  BY DEF Unregister, Forget, IInv, TypeOK
<1>4. (descendants = kind)'
  BY <1>1 DEF IInv, TypeOK
<1>5. \A x \in Handle : kind[x] \in {"dbc", "stmt"} => parent[x] # h
  BY <1>1, LeftInside DEF Emptied
<1>6. \A r \in Roles : implicit[h][r] = None
  BY <1>1 DEF IInv, ImplicitInPlace, Emptied
<1>7. \A x \in Handle : kind[x] = "desc" => parent[x] # h
  <2> SUFFICES ASSUME NEW x \in Handle, kind[x] = "desc", parent[x] = h PROVE FALSE
    OBVIOUS
  <2>1. kind[h] = "dbc" /\ descriptors[h] = {}
    BY <1>1 DEF IInv, ParentOutlives, ParentKind, Emptied
  <2>2. x \notin destroying
    BY <1>1, <2>1 DEF Innermost, Inside
  <2>3. HeldImplicitly(x)
    BY <2>1, <2>2 DEF IInv, HeldByOwner, Held
  <2>4. PICK s \in Handle, r \in Roles : kind[s] = "stmt" /\ implicit[s][r] = x
    BY <2>3 DEF HeldImplicitly
  <2>5. parent[s] = h
    BY <2>4, NoneAssumption DEF IInv, ImplicitInPlace
  <2> QED
    BY <1>5, <2>4, <2>5
<1>8. ParentOutlives'
  <2>1. ASSUME NEW x \in Handle, x # h, kind[x] \in {"dbc", "stmt", "desc"}
        PROVE  parent'[x] # None /\ kind'[parent'[x]] = ParentKind(x)'
    BY <1>1, <1>5, <1>7, <2>1 DEF IInv, TypeOK, ParentOutlives, ParentKind
  <2> QED
    BY <1>1, <2>1 DEF ParentOutlives
<1>9. Held'
  <2>1. ASSUME NEW x \in Handle, x # h, HeldImplicitly(x) PROVE HeldImplicitly(x)'
    <3>1. PICK s \in Handle, r \in Roles : kind[s] = "stmt" /\ implicit[s][r] = x
      BY <2>1 DEF HeldImplicitly
    <3>2. s # h
      BY <1>6, <3>1, NoneAssumption
    <3> QED
      BY <1>1, <1>2, <2>1, <3>1, <3>2 DEF HeldImplicitly
  <2>2. ASSUME NEW x \in Handle, x # h, x \notin destroying
        PROVE  /\ kind'[x] = "env" => x \in environments'
               /\ kind'[x] = "dbc" => x \in connections'[parent'[x]]
               /\ kind'[x] = "stmt" => x \in statements'[parent'[x]]
               /\ kind'[x] = "desc" => x \in descriptors'[parent'[x]] \/ HeldImplicitly(x)'
    BY <1>1, <2>1, <2>2 DEF IInv, HeldByOwner, Held
  <2> QED
    BY <1>1, <2>2 DEF Held
<1>10. /\ \A x \in environments' : kind'[x] = "env" /\ x \notin destroying'
       /\ Holds("dbc", connections)' /\ Holds("stmt", statements)' /\ Holds("desc", descriptors)'
  BY <1>1 DEF IInv, TypeOK, HeldByOwner, Holds
<1>11. DescriptorsOutliveStatements' /\ UnmappedDestroyed'
  BY <1>1 DEF IInv, DescriptorsOutliveStatements, UnmappedDestroyed
<1>12. ImplicitInPlace'
  <2>1. \A s \in Handle, r \in Roles : implicit'[s][r] # None =>
          s # h /\ implicit'[s][r] = implicit[s][r] /\ implicit[s][r] \in Handle \ {h}
    BY <1>2, <1>6 DEF IInv, TypeOK
  <2> QED
    BY <1>1, <2>1 DEF IInv, ImplicitInPlace
<1>13. ExplicitInPlace'
  <2>1. \A s \in Handle, r \in AppRoles : explicit'[s][r] # None =>
          s # h /\ explicit'[s][r] = explicit[s][r] /\ explicit[s][r] \in Handle \ {h}
    BY <1>3 DEF IInv, TypeOK
  <2> QED
    BY <1>1, <2>1 DEF IInv, ExplicitInPlace
<1>14. StatementWhole'
  <2>1. ASSUME NEW s \in Handle, s # h, s \notin destroying, NEW r \in Roles, kind[s] = "stmt"
        PROVE  implicit'[s][r] \notin {None} \cup destroying'
    BY <1>1, <1>2, <2>1 DEF IInv, StatementWhole
  <2> QED
    BY <1>1, <2>1 DEF StatementWhole
<1> QED
  BY <1>4, <1>8, <1>9, <1>10, <1>11, <1>12, <1>13, <1>14 DEF IInv, HeldByOwner

\* The variables keep their types (object.h, driver.h and the maps of the parents).
THEOREM TypeCorrect == Spec => []TypeOK
<1>1. Init => TypeOK
  BY DEF Init, TypeOK
<1> QED
  BY <1>1, TypeStep, PTL DEF Spec

\* Every step keeps the invariant.
LEMMA InvStep == IInv /\ [Next]_vars => IInv'
<1> SUFFICES ASSUME IInv, [Next]_vars PROVE IInv'
  OBVIOUS
<1>0. TypeOK'
  BY TypeStep DEF IInv
<1>1. ASSUME UNCHANGED vars PROVE IInv'
  BY <1>0, <1>1, QuietStep DEF vars, descVars
<1>2. ASSUME NEW e \in Handle, AllocEnv(e) PROVE IInv'
  <2>1. e \in Free /\ Idle /\ None # e
    BY <1>2, NoneAssumption DEF AllocEnv, Free
  <2>2. Construct({e}, [x \in {e} |-> "env"], None)
    BY <1>2 DEF AllocEnv
  <2>3. /\ environments' = environments \cup {e}
        /\ UNCHANGED <<connections, descriptors, statements, implicit, explicit, destroying, unmapped>>
    BY <1>2 DEF AllocEnv, descVars
  <2> QED
    BY <1>0, <2>1, <2>2, <2>3, AllocStep
<1>3. ASSUME NEW e \in Handle, NEW c \in Handle, AllocConnect(e, c) PROVE IInv'
  <2>1. c \in Free /\ Idle /\ kind[e] = "env" /\ e # c
    BY <1>3 DEF AllocConnect, Free, IInv
  <2>2. Construct({c}, [x \in {c} |-> "dbc"], e)
    BY <1>3 DEF AllocConnect
  <2>3. /\ connections' = [connections EXCEPT ![e] = @ \cup {c}]
        /\ UNCHANGED <<environments, descriptors, statements, implicit, explicit, destroying, unmapped>>
    BY <1>3 DEF AllocConnect, descVars
  <2> QED
    BY <1>0, <2>1, <2>2, <2>3, AllocStep
<1>4. ASSUME NEW c \in Handle, NEW d \in Handle, AllocDesc(c, d) PROVE IInv'
  <2>1. d \in Free /\ Idle /\ kind[c] = "dbc" /\ c # d
    BY <1>4 DEF AllocDesc, Free, IInv
  <2>2. Construct({d}, [x \in {d} |-> "desc"], c)
    BY <1>4 DEF AllocDesc
  <2>3. /\ descriptors' = [descriptors EXCEPT ![c] = @ \cup {d}]
        /\ UNCHANGED <<environments, connections, statements, implicit, explicit, destroying, unmapped>>
    BY <1>4 DEF AllocDesc
  <2> QED
    BY <1>0, <2>1, <2>2, <2>3, AllocStep
<1>5. ASSUME NEW c \in Handle, NEW s \in Handle, NEW desc \in [Roles -> Handle],
             AllocStmt(c, s, desc)
      PROVE  IInv'
  BY <1>0, <1>5, AllocStmtStep
<1>6. ASSUME NEW d \in Handle, NEW type \in {"auto", "user"}, SetAllocType(d, type)
      PROVE  IInv'
  BY <1>0, <1>6, QuietStep DEF SetAllocType
<1>7. ASSUME NEW s \in Handle, RefuseImplementation(s) PROVE IInv'
  BY <1>0, <1>7, QuietStep DEF RefuseImplementation, descVars
<1>8. ASSUME NEW s \in Handle, NEW d \in Handle, RefuseDescriptor(s, d) PROVE IInv'
  BY <1>0, <1>8, QuietStep DEF RefuseDescriptor, descVars
<1>9. ASSUME NEW s \in Handle, NEW d \in Handle, NEW r \in AppRoles,
             SetExplicitDescriptor(s, r, d)
      PROVE  IInv'
  <2>1. d \in Handle \cup {None} /\ kind[s] = "stmt" /\ kind[d] = "desc" /\ parent[d] = parent[s]
    BY <1>9 DEF SetExplicitDescriptor, IInv
  <2> QED
    BY <1>0, <1>9, <2>1, ExplicitStep DEF SetExplicitDescriptor
<1>10. ASSUME NEW s \in Handle, NEW r \in AppRoles, SetImplicitDescriptor(s, r)
       PROVE  IInv'
  BY <1>0, <1>10, ExplicitStep DEF SetImplicitDescriptor
<1>11. ASSUME NEW h \in Handle, FreeInvalid(h) PROVE IInv'
  BY <1>0, <1>11, QuietStep DEF FreeInvalid, descVars
<1>12. ASSUME NEW h \in Handle, FreeHandle(h) PROVE IInv'
  BY <1>0, <1>12, FreeStep
<1>13. ASSUME NEW e \in Handle, DestroyConnections(e) PROVE IInv'
  <2>1. PICK c \in connections[e] :
          /\ connections' = [connections EXCEPT ![e] = @ \ {c}]
          /\ destroying' = destroying \cup {c}
    BY <1>13 DEF DestroyConnections
  <2>2. c \notin statements[e]
    BY DEF IInv, HeldByOwner, Holds
  <2>3. statements' = [statements EXCEPT ![e] = @ \ {c}]
    BY <1>13, <2>2 DEF DestroyConnections, IInv, TypeOK
  <2>4. UNCHANGED <<objectVars, environments, descriptors, implicit, explicit, unmapped>>
    BY <1>13 DEF DestroyConnections, descVars
  <2> QED
    BY <1>0, <2>1, <2>3, <2>4, DestroyChildStep
<1>14. ASSUME NEW c \in Handle, DestroyStatements(c) PROVE IInv'
  <2>1. PICK s \in statements[c] :
          /\ statements' = [statements EXCEPT ![c] = @ \ {s}]
          /\ destroying' = destroying \cup {s}
    BY <1>14 DEF DestroyStatements
  <2>2. s \notin connections[c]
    BY DEF IInv, HeldByOwner, Holds
  <2>3. connections' = [connections EXCEPT ![c] = @ \ {s}]
    BY <1>14, <2>2 DEF DestroyStatements, IInv, TypeOK
  <2>4. UNCHANGED <<objectVars, environments, descriptors, implicit, explicit, unmapped>>
    BY <1>14 DEF DestroyStatements, descVars
  <2> QED
    BY <1>0, <2>1, <2>3, <2>4, DestroyChildStep
<1>15. ASSUME NEW c \in Handle, DestroyDescriptors(c) PROVE IInv'
  BY <1>0, <1>15, DestroyDescriptorsStep
<1>16. ASSUME NEW s \in Handle, DeallocateImplicit(s) PROVE IInv'
  BY <1>0, <1>16, DeallocateStep
<1>17. ASSUME NEW h \in Handle, Unregister(h) PROVE IInv'
  BY <1>0, <1>17, UnregisterStep
<1> QED
  BY <1>1, <1>2, <1>3, <1>4, <1>5, <1>6, <1>7, <1>8, <1>9, <1>10, <1>11, <1>12, <1>13,
     <1>14, <1>15, <1>16, <1>17 DEF Next

\* The invariant the theorems below follow from.
THEOREM Invariant == Spec => []IInv
<1>1. Init => IInv
  <2> SUFFICES ASSUME Init PROVE IInv
    OBVIOUS
  <2>1. TypeOK /\ descendants = kind
    BY DEF Init, TypeOK
  <2>2. ParentOutlives /\ HeldByOwner /\ DescriptorsOutliveStatements
    BY DEF Init, ParentOutlives, HeldByOwner, Held, Holds, DescriptorsOutliveStatements
  <2>3. ImplicitInPlace /\ ExplicitInPlace /\ StatementWhole /\ UnmappedDestroyed
    BY DEF Init, ImplicitInPlace, ExplicitInPlace, StatementWhole, UnmappedDestroyed
  <2> QED
    BY <2>1, <2>2, <2>3 DEF IInv
<1> QED
  BY <1>1, InvStep, PTL DEF Spec

\* Between calls a handle in use dispatches to its own object and a freed one to
\* none, also after its address was used again (Driver::call, Child).
THEOREM RegistryStaysExact == Spec => []RegistryExact
<1>1. IInv => RegistryExact
  BY DEF IInv, RegistryExact
<1> QED
  BY <1>1, Invariant, PTL

\* No object outlives its parent, through all the destructors that run inside
\* one another (~Child reaches the driver through the parent), and when a statement
\* takes its descriptors out of its connection's map, in ~Statement, the map is
\* still there.
THEOREM ParentsOutliveChildren == Spec => []NothingOutlivesParent
<1>1. IInv => NothingOutlivesParent
  BY DEF IInv, NothingOutlivesParent
<1> QED
  BY <1>1, Invariant, PTL

\* Nothing leaks and nothing dangles: the maps and the statements hold exactly
\* what is not being destroyed.
THEOREM ObjectsStayHeld == Spec => []HeldByOwner
<1>1. IInv => HeldByOwner
  BY DEF IInv
<1> QED
  BY <1>1, Invariant, PTL

\* getEffectiveDescriptor finds a living descriptor of the statement's own
\* connection, whatever was freed before.
THEOREM StatementsKeepDescriptors == Spec => []StatementHasDescriptors
<1>1. IInv => StatementHasDescriptors
  <2> SUFFICES ASSUME IInv, Idle, NEW s \in Handle, kind[s] = "stmt"
               PROVE  /\ \A r \in Roles : /\ implicit[s][r] # None
                                          /\ kind[implicit[s][r]] = "desc"
                                          /\ parent[implicit[s][r]] = parent[s]
                      /\ \A r \in AppRoles : explicit[s][r] # None =>
                           kind[explicit[s][r]] = "desc" /\ parent[explicit[s][r]] = parent[s]
                      /\ \A t \in Handle, r, q \in Roles :
                           implicit[s][r] = implicit[t][q] => s = t /\ r = q
    BY DEF StatementHasDescriptors
  <2>1. \A r \in Roles : implicit[s][r] # None
    BY IdleFacts DEF IInv, StatementWhole
  <2>2. \A r \in Roles : kind[implicit[s][r]] = "desc" /\ parent[implicit[s][r]] = parent[s]
    BY <2>1 DEF IInv, ImplicitInPlace
  <2>3. \A t \in Handle, r, q \in Roles : implicit[s][r] = implicit[t][q] => s = t /\ r = q
    BY <2>1 DEF IInv, ImplicitInPlace
  <2>4. \A r \in AppRoles : explicit[s][r] # None =>
          kind[explicit[s][r]] = "desc" /\ parent[explicit[s][r]] = parent[s]
    BY DEF IInv, ExplicitInPlace
  <2> QED
    BY <2>1, <2>2, <2>3, <2>4
<1> QED
  BY <1>1, Invariant, PTL

-----------------------------------------------------------------------------
\* The forest of HandleTree.

\* An implicit descriptor is owned by its statement, all else by the parent.
LEMMA OwnerIs ==
  IInv => \A x \in Handle :
    /\ \A s \in Handle, r \in Roles : implicit[s][r] = x => Owner(x) = s
    /\ (\A s \in Handle, r \in Roles : implicit[s][r] # x) => Owner(x) = parent[x]
<1> SUFFICES ASSUME IInv, NEW x \in Handle
             PROVE  /\ \A s \in Handle, r \in Roles : implicit[s][r] = x => Owner(x) = s
                    /\ (\A s \in Handle, r \in Roles : implicit[s][r] # x) => Owner(x) = parent[x]
  OBVIOUS
<1>1. ASSUME NEW s \in Handle, NEW r \in Roles, implicit[s][r] = x PROVE Owner(x) = s
  <2> DEFINE P(t) == kind[t] = "stmt" /\ \E q \in Roles : implicit[t][q] = x
  <2>1. kind[s] = "stmt" /\ kind[x] = "desc"
    BY <1>1, NoneAssumption DEF IInv, ImplicitInPlace
  <2>2. Owner(x) = CHOOSE t \in Handle : P(t)
    BY <1>1, <2>1 DEF Owner, HeldImplicitly
  <2>3. P(s)
    BY <1>1, <2>1
  <2>4. \A t \in Handle : P(t) => t = s
    BY <1>1, NoneAssumption DEF IInv, ImplicitInPlace
  <2> HIDE DEF P
  <2> QED
    BY <2>2, <2>3, <2>4
<1>2. (\A s \in Handle, r \in Roles : implicit[s][r] # x) => Owner(x) = parent[x]
  BY DEF Owner, HeldImplicitly
<1> QED
  BY <1>1, <1>2

LEMMA OwnerIsNext ==
  (IInv => \A x \in Handle :
    /\ \A s \in Handle, r \in Roles : implicit[s][r] = x => Owner(x) = s
    /\ (\A s \in Handle, r \in Roles : implicit[s][r] # x) => Owner(x) = parent[x])'
  BY OwnerIs, PTL

\* An object keeps its owner while it keeps its parent and the pointers to it.
LEMMA OwnerSame ==
  ASSUME IInv, IInv', NEW x \in Handle, parent'[x] = parent[x],
         \A s \in Handle, r \in Roles : implicit'[s][r] = x <=> implicit[s][r] = x
  PROVE  Owner(x)' = Owner(x)
<1>1. CASE \E s \in Handle, r \in Roles : implicit[s][r] = x
  BY <1>1, OwnerIs, OwnerIsNext
<1>2. CASE \A s \in Handle, r \in Roles : implicit[s][r] # x
  <2>1. Owner(x) = parent[x]
    BY <1>2, OwnerIs
  <2>2. \A s \in Handle, r \in Roles : implicit'[s][r] # x
    BY <1>2
  <2>3. Owner(x)' = parent'[x]
    BY <2>2, OwnerIsNext
  <2> QED
    BY <2>1, <2>3
<1> QED
  BY <1>1, <1>2

\* Owners are objects, of a class that has the owned one's inside.
LEMMA OwnerAbove ==
  IInv => \A x \in Handle : kind[x] \in {"dbc", "stmt", "desc"} =>
    Owner(x) \in Handle /\ kind[x] \in Inside(Owner(x))
<1> SUFFICES ASSUME IInv, NEW x \in Handle, kind[x] \in {"dbc", "stmt", "desc"}
             PROVE  Owner(x) \in Handle /\ kind[x] \in Inside(Owner(x))
  OBVIOUS
<1>1. CASE \E s \in Handle, r \in Roles : implicit[s][r] = x
  <2>1. PICK s \in Handle, r \in Roles : implicit[s][r] = x
    BY <1>1
  <2>2. kind[s] = "stmt" /\ kind[x] = "desc" /\ Owner(x) = s
    BY <2>1, OwnerIs, NoneAssumption DEF IInv, ImplicitInPlace
  <2> QED
    BY <2>2 DEF Inside
<1>2. CASE \A s \in Handle, r \in Roles : implicit[s][r] # x
  <2>1. Owner(x) = parent[x]
    BY <1>2, OwnerIs
  <2>2. parent[x] \in Handle /\ kind[parent[x]] = ParentKind(x)
    BY DEF IInv, ParentOutlives, TypeOK
  <2>3. CASE kind[x] = "dbc"
    BY <2>1, <2>2, <2>3 DEF Inside, ParentKind
  <2>4. CASE kind[x] \in {"stmt", "desc"}
    <3>1. kind[Owner(x)] = "dbc"
      BY <2>1, <2>2, <2>4 DEF ParentKind
    <3> QED
      BY <2>1, <2>2, <2>4, <3>1 DEF Inside
  <2> QED
    BY <2>3, <2>4
<1> QED
  BY <1>1, <1>2

-----------------------------------------------------------------------------
\* The outermost of the destructors that are running.
Top(h) == h \in destroying /\ \A x \in destroying : kind[h] \notin Inside(x)

LEMMA TopFacts ==
  ASSUME Chain
  PROVE  /\ \A x, y : Top(x) /\ Top(y) => x = y
         /\ destroying # {} => \E h : Top(h)
<1>1. \A x, y \in destroying : \/ x = y \/ kind[x] \in Inside(y) \/ kind[y] \in Inside(x)
  BY DEF Chain, Inside, Kinds
<1>2. \A x, y : Top(x) /\ Top(y) => x = y
  BY <1>1 DEF Top
<1>3. ASSUME destroying # {} PROVE \E h : Top(h)
  <2>1. CASE \E h \in destroying : kind[h] = "env"
    BY <2>1 DEF Top, Inside
  <2>2. CASE (\A h \in destroying : kind[h] # "env") /\ \E h \in destroying : kind[h] = "dbc"
    BY <2>2 DEF Top, Inside
  <2>3. CASE (\A h \in destroying : kind[h] \notin {"env", "dbc"}) /\ \E h \in destroying : kind[h] = "stmt"
    BY <2>3 DEF Top, Inside
  <2>4. CASE \A h \in destroying : kind[h] \notin {"env", "dbc", "stmt"}
    BY <1>3, <2>4 DEF Top, Inside
  <2> QED
    BY <2>1, <2>2, <2>3, <2>4
<1> QED
  BY <1>2, <1>3

\* The object that is being freed is that one.
LEMMA FreedIs ==
  Chain => /\ \A h : Top(h) => Freed = h
           /\ destroying # {} => Top(Freed)
           /\ destroying = {} => Freed = None
<1> SUFFICES ASSUME Chain
             PROVE  /\ \A h : Top(h) => Freed = h
                    /\ destroying # {} => Top(Freed)
                    /\ destroying = {} => Freed = None
  OBVIOUS
<1>1. destroying = {} => Freed = None
  BY DEF Freed
<1>2. ASSUME NEW h, Top(h) PROVE Freed = h
  <2> DEFINE P(y) == \A x \in destroying : kind[y] \notin Inside(x)
  <2>1. h \in destroying /\ P(h)
    BY <1>2 DEF Top
  <2>2. Freed = CHOOSE y \in destroying : P(y)
    BY <2>1 DEF Freed
  <2>3. \A y \in destroying : P(y) => y = h
    BY <1>2, TopFacts DEF Top
  <2> HIDE DEF P
  <2> QED
    BY <2>1, <2>2, <2>3
<1>3. destroying # {} => Top(Freed)
  BY <1>2, TopFacts
<1> QED
  BY <1>1, <1>2, <1>3

LEMMA FreedIsNext ==
  (Chain => /\ \A h : Top(h) => Freed = h
            /\ destroying # {} => Top(Freed)
            /\ destroying = {} => Freed = None)'
  BY FreedIs, PTL

Objects == {x \in Handle : kind[x] # "none"}

LEMMA UpIsOwner ==
  ASSUME NEW x \in Objects
  PROVE  Tree!Up(x) = Owner(x)
  BY DEF Tree!Up, Objects

\* What is being destroyed is below what is being freed.
LEMMA DestroyedIsBelow ==
  ASSUME IInv, Chain, NEW h \in destroying
  PROVE  h \in Tree!Subtree(Freed)
<1>0. \A x \in destroying : x \in Handle /\ x \in Objects /\ kind[x] \in Kinds /\ kind[x] # "none"
  BY DEF IInv, TypeOK, Chain, Objects, Kinds
<1>1. \A x \in destroying : x = Freed \/ (Owner(x) \in destroying /\ kind[x] \in Inside(Owner(x)))
  <2> SUFFICES ASSUME NEW x \in destroying, x # Freed
               PROVE  Owner(x) \in destroying /\ kind[x] \in Inside(Owner(x))
    OBVIOUS
  <2>1. ~Top(x)
    BY FreedIs
  <2>2. Owner(x) \in destroying /\ kind[x] # "env"
    BY <2>1 DEF Top, Chain, Inside
  <2> QED
    BY <1>0, <2>2, OwnerAbove DEF Kinds
<1>2. \A x \in destroying : Tree!Up(x) = Owner(x)
  BY <1>0, UpIsOwner
<1>3. \A x \in destroying : kind[x] = "env" => x = Freed
  BY <1>1 DEF Inside
<1>4. \A x \in destroying : kind[x] = "dbc" => Freed \in {x, Tree!Up(x)}
  <2> SUFFICES ASSUME NEW x \in destroying, kind[x] = "dbc", x # Freed PROVE Freed = Tree!Up(x)
    OBVIOUS
  <2>1. Owner(x) \in destroying /\ kind[Owner(x)] = "env"
    BY <1>1 DEF Inside, Kinds
  <2> QED
    BY <1>2, <1>3, <2>1
<1>5. \A x \in destroying : kind[x] = "stmt" => Freed \in {x, Tree!Up(x), Tree!Up(Tree!Up(x))}
  <2> SUFFICES ASSUME NEW x \in destroying, kind[x] = "stmt", x # Freed
               PROVE  Freed \in {Tree!Up(x), Tree!Up(Tree!Up(x))}
    OBVIOUS
  <2>1. Owner(x) \in destroying /\ kind[Owner(x)] \in {"env", "dbc"}
    BY <1>1 DEF Inside, Kinds
  <2> QED
    BY <1>2, <1>3, <1>4, <2>1
<1>6. \A x \in destroying : kind[x] = "desc" =>
        Freed \in {x, Tree!Up(x), Tree!Up(Tree!Up(x)), Tree!Up(Tree!Up(Tree!Up(x)))}
  <2> SUFFICES ASSUME NEW x \in destroying, kind[x] = "desc", x # Freed
               PROVE  Freed \in {Tree!Up(x), Tree!Up(Tree!Up(x)), Tree!Up(Tree!Up(Tree!Up(x)))}
    OBVIOUS
  <2>1. Owner(x) \in destroying /\ kind[Owner(x)] \in {"env", "dbc", "stmt"}
    BY <1>1 DEF Inside, Kinds
  <2> QED
    BY <1>2, <1>3, <1>4, <1>5, <2>1
<1>7. Freed \in {h, Tree!Up(h), Tree!Up(Tree!Up(h)), Tree!Up(Tree!Up(Tree!Up(h)))}
  BY <1>0, <1>3, <1>4, <1>5, <1>6 DEF Kinds
<1>8. h \in {x \in Handle : kind[x] # "none"}
  BY <1>0
<1> QED
  BY <1>7, <1>8 DEF Tree!Subtree

\* Nothing is below an object whose destructor has come to its end.
LEMMA NothingBelow ==
  ASSUME IInv, EnvironmentsOnTop, NEW h \in Handle, Innermost(h), Emptied(h)
  PROVE  \A x \in Handle : kind[x] # "none" => Owner(x) # h
<1> SUFFICES ASSUME NEW x \in Handle, kind[x] # "none", Owner(x) = h PROVE FALSE
  OBVIOUS
<1>1. kind[x] \in {"dbc", "stmt", "desc"}
  <2>1. kind[x] = "env" => Owner(x) = None
    <3>1. kind[x] = "env" => \A s \in Handle, r \in Roles : implicit[s][r] # x
      BY NoneAssumption DEF IInv, ImplicitInPlace
    <3> QED
      BY <3>1, OwnerIs DEF EnvironmentsOnTop
  <2> QED
    BY <2>1, NoneAssumption DEF IInv, TypeOK, Kinds
<1>2. kind[x] \in Inside(h)
  BY <1>1, OwnerAbove
<1>3. x \notin destroying
  BY <1>2 DEF Innermost
<1>4. CASE \E s \in Handle, r \in Roles : implicit[s][r] = x
  <2>1. PICK s \in Handle, r \in Roles : implicit[s][r] = x
    BY <1>4
  <2>2. kind[s] = "stmt" /\ s = h
    BY <2>1, OwnerIs, NoneAssumption DEF IInv, ImplicitInPlace
  <2> QED
    BY <2>1, <2>2, NoneAssumption DEF Emptied
<1>5. CASE \A s \in Handle, r \in Roles : implicit[s][r] # x
  <2>1. parent[x] = h
    BY <1>5, OwnerIs
  <2>2. ~HeldImplicitly(x)
    BY <1>5 DEF HeldImplicitly
  <2>3. kind[h] = ParentKind(x)
    BY <1>1, <2>1 DEF IInv, ParentOutlives
  <2>4. /\ kind[x] = "dbc" => x \in connections[h]
        /\ kind[x] = "stmt" => x \in statements[h]
        /\ kind[x] = "desc" => x \in descriptors[h]
    BY <1>3, <2>1, <2>2 DEF IInv, HeldByOwner, Held
  <2>5. kind[x] = "dbc" => kind[h] = "env"
    BY <2>3 DEF ParentKind
  <2>6. kind[x] \in {"stmt", "desc"} => kind[h] = "dbc"
    BY <2>3 DEF ParentKind
  <2> QED
    BY <1>1, <2>4, <2>5, <2>6 DEF Emptied
<1> QED
  BY <1>4, <1>5

-----------------------------------------------------------------------------
\* The steps of a HandleTree.

\* A step that touches no object and no pointer to an implicit descriptor
\* leaves the forest as it is.
LEMMA ForestSame ==
  ASSUME IInv, IInv', EnvironmentsOnTop, UNCHANGED <<kind, parent, implicit>>
  PROVE  /\ EnvironmentsOnTop'
         /\ \A x \in Handle : Owner(x)' = Owner(x) /\ Inside(x)' = Inside(x)
         /\ [h \in {x \in Handle : kind[x] # "none"} |-> Owner(h)]' =
              [h \in {x \in Handle : kind[x] # "none"} |-> Owner(h)]
<1>1. \A x \in Handle : Owner(x)' = Owner(x)
  BY OwnerSame
<1>2. \A x \in Handle : Inside(x)' = Inside(x)
  BY DEF Inside
<1>3. [h \in {x \in Handle : kind[x] # "none"} |-> Owner(h)]' =
        [h \in {x \in Handle : kind[x] # "none"} |-> Owner(h)]
  BY <1>1
<1> QED
  BY <1>1, <1>2, <1>3 DEF EnvironmentsOnTop

\* The same while what is being destroyed does not change either.
LEMMA SameStep ==
  ASSUME IInv, IInv', Chain, EnvironmentsOnTop, UNCHANGED <<kind, parent, implicit, destroying>>
  PROVE  Chain' /\ EnvironmentsOnTop' /\ UNCHANGED Tree!vars
<1>1. \A x \in destroying : x \in Handle
  BY DEF IInv, TypeOK
<1>2. Chain'
  BY <1>1, ForestSame DEF Chain
<1>3. Freed' = Freed
  <2>1. CASE destroying = {}
    BY <2>1, <1>2, FreedIs, FreedIsNext
  <2>2. CASE destroying # {}
    <3>1. Top(Freed)
      BY <2>2, FreedIs
    <3>2. \A h : Top(h) => Top(h)'
      BY <1>1, ForestSame DEF Top
    <3>3. \E h : Top(h) /\ Top(h)'
      BY <3>1, <3>2
    <3> QED
      BY <1>2, <3>3, FreedIs, FreedIsNext
  <2> QED
    BY <2>1, <2>2
<1> QED
  BY <1>2, <1>3, ForestSame DEF Tree!vars

\* A destructor begins inside the innermost one: the forest is as it was, and
\* so is what is being freed.
LEMMA DescendStep ==
  ASSUME IInv, IInv', Chain, EnvironmentsOnTop, UNCHANGED <<kind, parent, implicit>>,
         NEW p \in Handle, Innermost(p), NEW x \in Handle,
         kind[x] \in Inside(p), Owner(x) = p,
         destroying' = destroying \cup {x}
  PROVE  Chain' /\ EnvironmentsOnTop' /\ UNCHANGED Tree!vars
<1>1. \A y \in destroying : y \in Handle
  BY DEF IInv, TypeOK
<1>2. /\ \A y \in Handle : Owner(y)' = Owner(y) /\ Inside(y)' = Inside(y)
      /\ kind' = kind
  BY ForestSame
<1>3. p \in destroying /\ \A y \in destroying : kind[y] \notin Inside(p)
  BY DEF Innermost
<1>4. kind[x] \in Kinds /\ Inside(x) \subseteq Inside(p)
  <2>1. kind[p] \in Kinds
    BY <1>3 DEF Chain
  <2> QED
    BY <2>1 DEF Inside, Kinds
<1>5. \A y \in destroying : (\A z \in destroying : kind[y] \notin Inside(z)) => kind[y] \notin Inside(x)
  BY <1>3, <1>4
<1>6. Chain'
  <2>1. \A y \in destroying' : kind'[y] \in Kinds
    BY <1>2, <1>4 DEF Chain
  <2>2. \A y, z \in destroying' : kind'[y] = kind'[z] => y = z
    <3>1. \A y \in destroying : kind[y] # kind[x]
      BY <1>3
    <3> QED
      BY <1>2, <3>1 DEF Chain
  <2>3. \A y \in destroying' : (\A z \in destroying' : kind'[y] \notin Inside(z)') \/ Owner(y)' \in destroying'
    <3>1. Owner(x)' \in destroying'
      BY <1>2, <1>3
    <3>2. ASSUME NEW y \in destroying
          PROVE  (\A z \in destroying' : kind'[y] \notin Inside(z)') \/ Owner(y)' \in destroying'
      <4>1. CASE Owner(y) \in destroying
        BY <1>1, <1>2, <4>1
      <4>2. CASE \A z \in destroying : kind[y] \notin Inside(z)
        BY <1>1, <1>2, <1>5, <4>2
      <4> QED
        BY <4>1, <4>2 DEF Chain
    <3> QED
      BY <3>1, <3>2
  <2> QED
    BY <2>1, <2>2, <2>3 DEF Chain
<1>7. Freed' = Freed
  <2>1. Top(Freed)
    BY <1>3, FreedIs
  <2>2. \A h : Top(h) => Top(h)'
    BY <1>1, <1>2, <1>5 DEF Top
  <2>3. \E h : Top(h) /\ Top(h)'
    BY <2>1, <2>2
  <2> QED
    BY <1>6, <2>3, FreedIs, FreedIsNext
<1> QED
  BY <1>6, <1>7, ForestSame DEF Tree!vars

\* A call that frees a handle begins with it.
LEMMA FreeBegins ==
  ASSUME IInv, IInv', Chain, EnvironmentsOnTop, NEW h \in Handle, FreeHandle(h)
  PROVE  Chain' /\ EnvironmentsOnTop' /\ (Tree!Next \/ UNCHANGED Tree!vars)
<1>1. destroying = {} /\ UNCHANGED <<kind, parent, implicit>> /\ kind[h] # "none"
  BY DEF FreeHandle, Idle, objectVars, descVars, IInv
<1>2. CASE HeldImplicitly(h)
  <2>1. UNCHANGED destroying
    BY <1>1, <1>2 DEF FreeHandle
  <2> QED
    BY <1>1, <2>1, SameStep
<1>3. CASE ~HeldImplicitly(h)
  <2>1. destroying' = {h}
    BY <1>3 DEF FreeHandle
  <2>2. kind[h] \in Kinds /\ kind[h] \notin Inside(h)
    BY <1>1 DEF IInv, TypeOK, Inside, Kinds
  <2>3. Inside(h)' = Inside(h) /\ kind' = kind
    BY <1>1, ForestSame
  <2>4. Chain' /\ Top(h)'
    BY <2>1, <2>2, <2>3 DEF Chain, Top
  <2>5. Freed = None /\ Freed' = h
    BY <1>1, <2>4, FreedIs, FreedIsNext
  <2>6. Tree!Free(h)
    BY <1>1, <2>5, ForestSame DEF Tree!Free
  <2>7. h \in DOMAIN [x \in {y \in Handle : kind[y] # "none"} |-> Owner(x)]
    BY <1>1
  <2>8. Tree!Next
    BY <2>6, <2>7 DEF Tree!Next
  <2> QED
    BY <1>1, <2>4, <2>8, ForestSame
<1> QED
  BY <1>2, <1>3

\* An object is allocated, with what it brings, under owners that exist.
LEMMA AllocBegins ==
  ASSUME IInv, IInv', Chain, EnvironmentsOnTop, Idle, UNCHANGED destroying,
         \A x \in Handle : kind[x] # "none" =>
           /\ kind'[x] = kind[x] /\ parent'[x] = parent[x]
           /\ \A s \in Handle, r \in Roles : implicit'[s][r] = x <=> implicit[s][r] = x,
         \A x \in Handle : kind[x] = "none" /\ kind'[x] = "env" => parent'[x] = None
  PROVE  Chain' /\ EnvironmentsOnTop' /\ Tree!Allocate
<1>1. destroying = {} /\ destroying' = {}
  BY DEF Idle
<1>2. Chain'
  BY <1>1 DEF Chain
<1>3. EnvironmentsOnTop'
  BY DEF EnvironmentsOnTop
<1>4. Freed = None /\ Freed' = None
  BY <1>1, <1>2, FreedIs, FreedIsNext
<1>5. \A x \in Handle : kind[x] # "none" => kind'[x] # "none" /\ Owner(x)' = Owner(x)
  BY OwnerSame
<1>6. \A x \in Handle : kind'[x] # "none" => Owner(x)' = None \/ (Owner(x)' \in Handle /\ kind'[Owner(x)'] # "none")
  <2> SUFFICES ASSUME NEW x \in Handle, kind'[x] # "none"
               PROVE  Owner(x)' = None \/ (Owner(x)' \in Handle /\ kind'[Owner(x)'] # "none")
    OBVIOUS
  <2>1. CASE kind'[x] = "env"
    <3>1. \A s \in Handle, r \in Roles : implicit'[s][r] # x
      BY <2>1, NoneAssumption DEF IInv, ImplicitInPlace
    <3>2. Owner(x)' = parent'[x]
      BY <3>1, OwnerIsNext
    <3> QED
      BY <1>3, <2>1, <3>2 DEF EnvironmentsOnTop
  <2>2. CASE kind'[x] # "env"
    <3>1. kind'[x] \in {"dbc", "stmt", "desc"}
      BY <2>2 DEF IInv, TypeOK, Kinds
    <3>2. CASE \E s \in Handle, r \in Roles : implicit'[s][r] = x
      <4>1. PICK s \in Handle, r \in Roles : implicit'[s][r] = x
        BY <3>2
      <4>2. kind'[s] = "stmt" /\ Owner(x)' = s
        BY <4>1, OwnerIsNext, NoneAssumption DEF IInv, ImplicitInPlace
      <4> QED
        BY <4>2
    <3>3. CASE \A s \in Handle, r \in Roles : implicit'[s][r] # x
      <4>1. Owner(x)' = parent'[x]
        BY <3>3, OwnerIsNext
      <4>2. parent'[x] \in Handle /\ kind'[parent'[x]] = ParentKind(x)'
        BY <3>1 DEF IInv, ParentOutlives, TypeOK
      <4>3. ParentKind(x)' # "none"
        BY <3>1 DEF ParentKind
      <4> QED
        BY <4>1, <4>2, <4>3
    <3> QED
      BY <3>2, <3>3
  <2> QED
    BY <2>1, <2>2
<1> DEFINE before == [h \in {x \in Handle : kind[x] # "none"} |-> Owner(h)]
           after == [h \in {x \in Handle : kind'[x] # "none"} |-> Owner(h)']
<1>7. /\ DOMAIN before \subseteq DOMAIN after
      /\ \A h \in DOMAIN before : after[h] = before[h]
      /\ \A h \in DOMAIN after : after[h] \in DOMAIN after \cup {None}
  BY <1>5, <1>6
<1> QED
  BY <1>2, <1>3, <1>4, <1>7 DEF Tree!Allocate

\* The innermost destructor ends, and its object goes.
LEMMA RemoveStep ==
  ASSUME IInv, IInv', Chain, EnvironmentsOnTop, NEW h \in Handle, Unregister(h)
  PROVE  Chain' /\ EnvironmentsOnTop' /\ Tree!Next
<1>1. /\ h \in destroying /\ Innermost(h) /\ Emptied(h)
      /\ destroying' = destroying \ {h}
      /\ kind' = [kind EXCEPT ![h] = "none"] /\ parent' = [parent EXCEPT ![h] = None]
      /\ implicit' = Forget(implicit, h)
  BY DEF Unregister, Innermost
<1>2. \A y \in destroying : y \in Handle
  BY DEF IInv, TypeOK
<1>3. \A x \in Handle \ {h} : /\ kind'[x] = kind[x] /\ parent'[x] = parent[x]
                              /\ Inside(x)' = Inside(x)
  <2>1. \A x \in Handle \ {h} : kind'[x] = kind[x] /\ parent'[x] = parent[x]
    BY <1>1 DEF IInv, TypeOK
  <2> QED
    BY <2>1 DEF Inside
<1>4. kind'[h] = "none"
  BY <1>1 DEF IInv, TypeOK
<1>5. \A x \in Handle \ {h} : \A s \in Handle, r \in Roles : implicit'[s][r] = x <=> implicit[s][r] = x
  <2>1. \A s \in Handle, r \in Roles :
          implicit'[s][r] = IF implicit[s][r] = h THEN None ELSE implicit[s][r]
    BY <1>1 DEF Forget, IInv, TypeOK
  <2> QED
    BY <2>1, NoneAssumption
<1>6. \A x \in Handle \ {h} : Owner(x)' = Owner(x)
  BY <1>3, <1>5, OwnerSame
<1>7. \A x \in Handle : kind[x] # "none" => Owner(x) # h
  BY <1>1, NothingBelow
<1>8. kind[h] # "none" /\ \A y \in destroying : kind[y] # "none"
  BY <1>1 DEF Chain, Kinds
<1>9. Chain'
  <2>1. \A y \in destroying' : kind'[y] \in Kinds
    BY <1>1, <1>2, <1>3 DEF Chain
  <2>2. \A y, z \in destroying' : kind'[y] = kind'[z] => y = z
    BY <1>1, <1>2, <1>3 DEF Chain
  <2>3. ASSUME NEW y \in destroying'
        PROVE  (\A z \in destroying' : kind'[y] \notin Inside(z)') \/ Owner(y)' \in destroying'
    <3>1. y \in destroying /\ y # h /\ y \in Handle /\ kind'[y] = kind[y] /\ Owner(y)' = Owner(y)
      BY <1>1, <1>2, <1>3, <1>6
    <3>2. CASE Owner(y) \in destroying
      BY <1>1, <1>7, <1>8, <3>1, <3>2
    <3>3. CASE \A z \in destroying : kind[y] \notin Inside(z)
      BY <1>1, <1>2, <1>3, <3>1, <3>3
    <3> QED
      BY <3>1, <3>2, <3>3 DEF Chain
  <2> QED
    BY <2>1, <2>2, <2>3 DEF Chain
<1>10. EnvironmentsOnTop'
  BY <1>3, <1>4 DEF EnvironmentsOnTop
<1>11. Freed' = IF h = Freed THEN None ELSE Freed
  <2>1. CASE destroying = {h}
    <3>1. Top(Freed)
      BY <2>1, FreedIs
    <3>2. Freed = h
      BY <2>1, <3>1 DEF Top
    <3>3. Freed' = None
      BY <1>1, <1>9, <2>1, FreedIsNext
    <3> QED
      BY <3>2, <3>3
  <2>2. CASE destroying # {h}
    <3>1. PICK y \in destroying : y # h
      BY <1>1, <2>2
    <3>2. kind[y] \in Kinds /\ kind[h] \in Kinds /\ kind[y] # kind[h] /\ kind[y] \notin Inside(h)
      BY <1>1, <3>1 DEF Chain, Innermost
    <3>3. kind[h] \in Inside(y)
      BY <3>2 DEF Inside, Kinds
    <3>4. Top(Freed) /\ Freed # h
      BY <1>1, <3>1, <3>3, FreedIs DEF Top
    <3>5. \A x : Top(x) /\ x # h => Top(x)'
      BY <1>1, <1>2, <1>3 DEF Top
    <3>6. \E x : x = Freed /\ Top(x)'
      BY <3>4, <3>5
    <3> QED
      BY <1>9, <3>4, <3>6, FreedIsNext
  <2> QED
    BY <2>1, <2>2
<1>12. Freed # None
  BY <1>1, <1>2, FreedIs, NoneAssumption DEF Top
<1> DEFINE before == [x \in {y \in Handle : kind[y] # "none"} |-> Owner(x)]
           after == [x \in {y \in Handle : kind'[y] # "none"} |-> Owner(x)']
<1>13. /\ h \in DOMAIN before
       /\ \A x \in DOMAIN before : before[x] # h
  BY <1>7, <1>8
<1>14. after = [x \in DOMAIN before \ {h} |-> before[x]]
  <2>1. {y \in Handle : kind'[y] # "none"} = DOMAIN before \ {h}
    BY <1>3, <1>4
  <2> QED
    BY <1>6, <2>1
<1>15. h \in Tree!Subtree(Freed)
  BY <1>1, DestroyedIsBelow
<1>16. Tree!Remove(h)
  BY <1>11, <1>12, <1>13, <1>14, <1>15 DEF Tree!Remove
<1>17. Tree!Next
  BY <1>13, <1>16 DEF Tree!Next
<1> QED
  BY <1>9, <1>10, <1>17

\* Every step is one of the forest's, or none.
LEMMA TreeStep ==
  ASSUME IInv, IInv', Chain, EnvironmentsOnTop, [Next]_vars
  PROVE  Chain' /\ EnvironmentsOnTop' /\ (Tree!Next \/ UNCHANGED Tree!vars)
<1> DEFINE Goal == Chain' /\ EnvironmentsOnTop' /\ (Tree!Next \/ UNCHANGED Tree!vars)
<1> USE DEF objectVars, descVars
<1>1. UNCHANGED <<kind, parent, implicit, destroying>> => Goal
  BY SameStep
<1>2. Tree!Allocate => Tree!Next
  BY DEF Tree!Next
<1>3. ASSUME NEW h \in Free, NEW k \in Kinds, NEW p,
             k = "env" => p = None,
             Construct({h}, [x \in {h} |-> k], p), Idle, UNCHANGED <<implicit, destroying>>
      PROVE  Goal
  <2>1. \A x \in Handle : /\ kind'[x] = IF x = h THEN k ELSE kind[x]
                          /\ parent'[x] = IF x = h THEN p ELSE parent[x]
    BY <1>3 DEF Construct
  <2>2. \A x \in Handle : kind[x] # "none" => x # h
    BY DEF Free
  <2> QED
    BY <1>2, <1>3, <2>1, <2>2, AllocBegins
<1>4. ASSUME NEW e \in Handle, AllocEnv(e) PROVE Goal
  <2>1. e \in Free /\ Construct({e}, [x \in {e} |-> "env"], None) /\ Idle /\ UNCHANGED <<implicit, destroying>>
    BY <1>4 DEF AllocEnv
  <2> QED
    BY <1>3, <2>1 DEF Kinds
<1>5. ASSUME NEW e \in Handle, NEW c \in Handle, AllocConnect(e, c) PROVE Goal
  <2>1. c \in Free /\ Construct({c}, [x \in {c} |-> "dbc"], e) /\ Idle /\ UNCHANGED <<implicit, destroying>>
    BY <1>5 DEF AllocConnect
  <2> QED
    BY <1>3, <2>1 DEF Kinds
<1>6. ASSUME NEW c \in Handle, NEW d \in Handle, AllocDesc(c, d) PROVE Goal
  <2>1. d \in Free /\ Construct({d}, [x \in {d} |-> "desc"], c) /\ Idle /\ UNCHANGED <<implicit, destroying>>
    BY <1>6 DEF AllocDesc
  <2> QED
    BY <1>3, <2>1 DEF Kinds
<1>7. ASSUME NEW c \in Handle, NEW s \in Handle, NEW desc \in [Roles -> Handle], AllocStmt(c, s, desc)
      PROVE  Goal
  <2> DEFINE new == {s} \cup {desc[r] : r \in Roles}
             class == [x \in new |-> IF x = s THEN "stmt" ELSE "desc"]
  <2>1. /\ Idle /\ UNCHANGED destroying /\ Construct(new, class, c)
        /\ implicit' = [implicit EXCEPT ![s] = desc]
        /\ s \in Free /\ \A r \in Roles : desc[r] \in Free
    BY <1>7 DEF AllocStmt
  <2>2. \A x \in Handle : /\ x \in new => kind[x] = "none" /\ kind'[x] \in {"stmt", "desc"}
                          /\ x \notin new => kind'[x] = kind[x] /\ parent'[x] = parent[x]
    BY <2>1 DEF Construct, Free
  <2>3. ASSUME NEW x \in Handle, kind[x] # "none", NEW t \in Handle, NEW r \in Roles
        PROVE  implicit'[t][r] = x <=> implicit[t][r] = x
    <3>1. CASE t # s
      BY <2>1, <3>1 DEF IInv, TypeOK
    <3>2. CASE t = s
      <4>1. implicit'[s][r] = desc[r] /\ desc[r] # x
        BY <2>1, <2>3 DEF IInv, TypeOK, Free
      <4>2. implicit[s][r] = None
        BY <2>1, FreshFacts
      <4> QED
        BY <3>2, <4>1, <4>2, NoneAssumption
    <3> QED
      BY <3>1, <3>2
  <2> HIDE DEF new
  <2>4. \A x \in Handle : kind[x] # "none" => kind'[x] = kind[x] /\ parent'[x] = parent[x]
    BY <2>2
  <2>5. \A x \in Handle : kind[x] = "none" /\ kind'[x] = "env" => parent'[x] = None
    BY <2>2
  <2> QED
    BY <1>2, <2>1, <2>3, <2>4, <2>5, AllocBegins
<1>8. ASSUME NEW e \in Handle, DestroyConnections(e) PROVE Goal
  <2>1. PICK c \in connections[e] : destroying' = destroying \cup {c}
    BY <1>8 DEF DestroyConnections
  <2>2. c \in Handle /\ kind[c] = "dbc" /\ parent[c] = e
    BY <1>8 DEF IInv, TypeOK, HeldByOwner, Holds
  <2>3. Owner(c) = e
    BY <2>2, OwnerIs, NoneAssumption DEF IInv, ImplicitInPlace
  <2>4. kind[c] \in Inside(e) /\ Innermost(e)
    BY <1>8, <2>2 DEF DestroyConnections, Inside
  <2> QED
    BY <1>8, <2>1, <2>2, <2>3, <2>4, DescendStep DEF DestroyConnections
<1>9. ASSUME NEW c \in Handle, DestroyStatements(c) PROVE Goal
  <2>1. PICK s \in statements[c] : destroying' = destroying \cup {s}
    BY <1>9 DEF DestroyStatements
  <2>2. s \in Handle /\ kind[s] = "stmt" /\ parent[s] = c
    BY <1>9 DEF IInv, TypeOK, HeldByOwner, Holds
  <2>3. Owner(s) = c
    BY <2>2, OwnerIs, NoneAssumption DEF IInv, ImplicitInPlace
  <2>4. kind[s] \in Inside(c) /\ Innermost(c)
    BY <1>9, <2>2 DEF DestroyStatements, Inside
  <2> QED
    BY <1>9, <2>1, <2>2, <2>3, <2>4, DescendStep DEF DestroyStatements
<1>10. ASSUME NEW c \in Handle, DestroyDescriptors(c) PROVE Goal
  <2>1. PICK d \in descriptors[c] :
          destroying' = IF HeldImplicitly(d) THEN destroying ELSE destroying \cup {d}
    BY <1>10 DEF DestroyDescriptors
  <2>2. d \in Handle /\ kind[d] = "desc" /\ parent[d] = c
    BY <1>10 DEF IInv, TypeOK, HeldByOwner, Holds
  <2>3. CASE HeldImplicitly(d)
    BY <1>1, <1>10, <2>1, <2>3 DEF DestroyDescriptors
  <2>4. CASE ~HeldImplicitly(d)
    <3>1. Owner(d) = c
      BY <2>2, <2>4 DEF Owner
    <3>2. kind[d] \in Inside(c) /\ Innermost(c)
      BY <1>10, <2>2 DEF DestroyDescriptors, Inside
    <3> QED
      BY <1>10, <2>1, <2>2, <2>4, <3>1, <3>2, DescendStep DEF DestroyDescriptors
  <2> QED
    BY <2>3, <2>4
<1>11. ASSUME NEW s \in Handle, DeallocateImplicit(s) PROVE Goal
  <2>1. PICK r \in Roles : implicit[s][r] # None /\ destroying' = destroying \cup {implicit[s][r]}
    BY <1>11 DEF DeallocateImplicit
  <2>2. implicit[s][r] \in Handle /\ kind[implicit[s][r]] = "desc" /\ kind[s] = "stmt"
    BY <2>1 DEF IInv, TypeOK, ImplicitInPlace
  <2>3. Owner(implicit[s][r]) = s
    BY <2>2, OwnerIs
  <2>4. kind[implicit[s][r]] \in Inside(s) /\ Innermost(s)
    BY <1>11, <2>2 DEF DeallocateImplicit, Inside
  <2>5. \E d \in Handle : /\ kind[d] \in Inside(s) /\ Owner(d) = s
                         /\ destroying' = destroying \cup {d}
    BY <2>1, <2>2, <2>3, <2>4
  <2> QED
    BY <1>11, <2>4, <2>5, DescendStep DEF DeallocateImplicit
<1>12. ASSUME NEW h \in Handle, FreeHandle(h) PROVE Goal
  BY <1>12, FreeBegins
<1>13. ASSUME NEW h \in Handle, Unregister(h) PROVE Goal
  BY <1>13, RemoveStep
<1>14. ASSUME \/ \E d \in Handle, type \in {"auto", "user"} : SetAllocType(d, type)
              \/ \E s \in Handle : RefuseImplementation(s) \/ FreeInvalid(s)
              \/ \E s, d \in Handle : RefuseDescriptor(s, d)
              \/ \E s, d \in Handle, r \in AppRoles : SetExplicitDescriptor(s, r, d)
              \/ \E s \in Handle, r \in AppRoles : SetImplicitDescriptor(s, r)
       PROVE  Goal
  BY <1>1, <1>14 DEF SetAllocType, RefuseImplementation, FreeInvalid, RefuseDescriptor,
                     SetExplicitDescriptor, SetImplicitDescriptor
<1>15. UNCHANGED vars => Goal
  BY <1>1 DEF vars
<1> QED
  BY ONLY [Next]_vars, <1>4, <1>5, <1>6, <1>7, <1>8, <1>9, <1>10, <1>11, <1>12, <1>13, <1>14, <1>15
     DEF Next

\* Freeing a handle frees what is below it and nothing else, an owner after
\* what it owns: the handles implement HandleTree (impl.cpp:41-89, object.h).
THEOREM FreesTheSubtree == Spec => FreesSubtrees
<1>1. Init => Chain /\ EnvironmentsOnTop /\ Tree!Init
  <2> SUFFICES ASSUME Init PROVE Chain /\ EnvironmentsOnTop /\ Tree!Init
    OBVIOUS
  <2>1. destroying = {} /\ {x \in Handle : kind[x] # "none"} = {}
    BY DEF Init
  <2>2. Chain
    BY <2>1 DEF Chain
  <2>3. Freed = None
    BY <2>1, <2>2, FreedIs
  <2>4. [h \in {x \in Handle : kind[x] # "none"} |-> Owner(h)] = [h \in {} |-> None]
    BY <2>1
  <2> QED
    BY <2>2, <2>3, <2>4 DEF Tree!Init, EnvironmentsOnTop, Init
<1>2. IInv /\ IInv' /\ Chain /\ EnvironmentsOnTop /\ [Next]_vars =>
        Chain' /\ EnvironmentsOnTop' /\ [Tree!Next]_(Tree!vars)
  BY TreeStep
<1> QED
  BY <1>1, <1>2, Invariant, PTL DEF Spec, FreesSubtrees, Tree!Spec
=============================================================================
