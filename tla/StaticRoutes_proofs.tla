------------------------ MODULE StaticRoutes_proofs ------------------------
(* Proofs about StaticRoutes for every value of its constants.              *)
EXTENDS StaticRoutes, TLAPS

USE DEF Ids

(* What an update writes is a row, when the row it names is still there.    *)
LEMMA WrittenType ==
  ASSUME TypeOK, NEW r \in Requests, req[r].pc = "update_commit",
         req[r].id \in DOMAIN routes
  PROVE  Written(r) \in Row
BY DEF TypeOK, Written, Row, Request

(* A router call leaves the router well typed.                              *)
LEMMA RouterType ==
  ASSUME TypeOK, NEW row \in Row
  PROVE  /\ SetRoute(row) \in [Paths -> Dist \union {Absent}]
         /\ DeleteRoute(row) \in [Paths -> Dist \union {Absent}]
BY DEF TypeOK, SetRoute, DeleteRoute, PathOf, Row, Paths

(* Every reachable state is well typed.                                     *)
THEOREM TypeCorrect == Spec => []TypeOK
<1>1. Init => TypeOK
  BY ConstantsAssumption DEF Init, TypeOK, Idle, Request, Phases, Paths, Row
<1>2. TypeOK /\ [Next]_vars => TypeOK'
  <2> SUFFICES ASSUME TypeOK, [Next]_vars PROVE TypeOK'
    OBVIOUS
  <2> USE DEF Idle, Request, Phases
  <2>1. ASSUME NEW r \in Requests, NEW new \in Row, CreateCheck(r, new)
        PROVE TypeOK'
    BY <2>1 DEF CreateCheck, TypeOK, Row
  <2>2. ASSUME NEW r \in Requests, NEW answer \in Answers, CreateSet(r, answer)
        PROVE TypeOK'
    <3>1. req[r].new \in Row
      BY <2>2 DEF CreateSet, TypeOK
    <3>2. router' \in [Paths -> Dist \union {Absent}]
      BY <2>2, <3>1, RouterType DEF CreateSet, Call, TypeOK
    <3> QED BY <2>2, <3>2 DEF CreateSet, GoTo, Finish, TypeOK
  <2>3. ASSUME NEW r \in Requests, CreateCommit(r) PROVE TypeOK'
    <3>1. req[r].new \in Row
      BY <2>3 DEF CreateCommit, TypeOK
    <3>2. DOMAIN routes' \subseteq Ids /\ routes' \in [DOMAIN routes' -> Row]
      <4>1. CASE UNCHANGED routes
        BY <4>1 DEF TypeOK
      <4>2. ASSUME NEW n \in Ids, routes' = [k \in DOMAIN routes \union {n} |->
                                     IF k = n THEN req[r].new ELSE routes[k]]
            PROVE  DOMAIN routes' \subseteq Ids /\ routes' \in [DOMAIN routes' -> Row]
        BY <3>1, <4>2 DEF TypeOK
      <4> QED BY <2>3, <4>1, <4>2 DEF CreateCommit
    <3> QED BY <2>3, <3>2 DEF CreateCommit, Finish, TypeOK
  <2>4. ASSUME NEW r \in Requests, NEW u \in Users, NEW id \in Ids,
               NEW dest \in Dests, NEW hop \in Hops, NEW dist \in Dist,
               UpdateLoad(r, u, id, dest, hop, dist)
        PROVE TypeOK'
    <3> DEFINE new == [routes[id] EXCEPT !.dest = dest, !.hop = hop, !.dist = dist]
               phase == IF PathOf(new) # PathOf(routes[id])
                        THEN "update_delete" ELSE "update_set"
    <3>1. routes[id] \in Row
      BY <2>4 DEF UpdateLoad, TypeOK
    <3>2. new \in Row
      BY <3>1 DEF Row
    <3>3. Load(r, u, id, new, phase) /\ phase \in {"update_delete", "update_set"}
      BY <2>4 DEF UpdateLoad
    <3> HIDE DEF new, phase
    <3>4. /\ req' = [req EXCEPT ![r] = [pc |-> phase, by |-> u, id |-> id,
                                        row |-> routes[id], new |-> new]]
          /\ UNCHANGED <<routes, router, journal, broken, cut>>
      BY <3>3 DEF Load
    <3>5. [pc |-> phase, by |-> u, id |-> id, row |-> routes[id], new |-> new] \in Request
      BY <3>1, <3>2, <3>3
    <3> QED BY <3>1, <3>2, <3>3, <3>4, <3>5 DEF TypeOK
  <2>5. ASSUME NEW r \in Requests, NEW answer \in Answers, UpdateDelete(r, answer)
        PROVE TypeOK'
    <3>1. req[r].row \in Row
      BY <2>5 DEF UpdateDelete, TypeOK
    <3>2. router' \in [Paths -> Dist \union {Absent}]
      BY <2>5, <3>1, RouterType DEF UpdateDelete, Call, TypeOK
    <3> QED BY <2>5, <3>2 DEF UpdateDelete, GoTo, Finish, TypeOK
  <2>6. ASSUME NEW r \in Requests, NEW answer \in Answers, UpdateSet(r, answer)
        PROVE TypeOK'
    <3>1. req[r].new \in Row /\ req[r].id \in Ids
      BY <2>6 DEF UpdateSet, TypeOK
    <3>2. router' \in [Paths -> Dist \union {Absent}]
      BY <2>6, <3>1, RouterType DEF UpdateSet, Call, TypeOK
    <3> QED BY <2>6, <3>1, <3>2 DEF UpdateSet, GoTo, Finish, GivesUp, TypeOK
  <2>7. ASSUME NEW r \in Requests, UpdateCommit(r) PROVE TypeOK'
    <3>1. req[r].id \in Ids
      BY <2>7 DEF UpdateCommit, TypeOK
    <3>2. CASE UNCHANGED <<routes, cut>> /\ Finish(r) /\ GivesUp(r)
      BY <2>7, <3>1, <3>2 DEF UpdateCommit, Finish, GivesUp, TypeOK
    <3>3. CASE /\ req[r].id \in DOMAIN routes
               /\ routes' = [routes EXCEPT ![req[r].id] = Written(r)]
               /\ broken' = broken \ {req[r].id}
               /\ cut' = cut \ {PathOf(Written(r))}
               /\ GoTo(r, "update_journal")
      <4>1. Written(r) \in Row
        BY <2>7, <3>3, WrittenType DEF UpdateCommit
      <4> QED BY <2>7, <3>3, <4>1 DEF UpdateCommit, GoTo, TypeOK
    <3> QED BY <2>7, <3>2, <3>3 DEF UpdateCommit
  <2>8. ASSUME NEW r \in Requests, UpdateJournal(r) PROVE TypeOK'
    BY <2>8 DEF UpdateJournal, Finish, Entry, TypeOK
  <2>9. ASSUME NEW r \in Requests, NEW u \in Users, NEW id \in Ids, DeleteLoad(r, u, id)
        PROVE TypeOK'
    BY <2>9 DEF DeleteLoad, Load, TypeOK
  <2>10. ASSUME NEW r \in Requests, NEW answer \in Answers, DeleteRouter(r, answer)
         PROVE TypeOK'
    <3>1. req[r].row \in Row
      BY <2>10 DEF DeleteRouter, TypeOK
    <3>2. router' \in [Paths -> Dist \union {Absent}]
      BY <2>10, <3>1, RouterType DEF DeleteRouter, Call, TypeOK
    <3> QED BY <2>10, <3>2 DEF DeleteRouter, GoTo, Finish, TypeOK
  <2>11. ASSUME NEW r \in Requests, DeleteCommit(r) PROVE TypeOK'
    BY <2>11 DEF DeleteCommit, GoTo, TypeOK
  <2>12. ASSUME NEW r \in Requests, DeleteJournal(r) PROVE TypeOK'
    BY <2>12 DEF DeleteJournal, Finish, Entry, TypeOK
  <2>13. CASE Crash
    <3>1. ASSUME NEW r \in Requests, TookDown(r) PROVE req[r].id \in Ids
      BY <3>1 DEF TookDown, TypeOK
    <3>2. req' \in [Requests -> Request] /\ \A r \in Requests : req'[r].pc = "idle"
      BY <2>13 DEF Crash
    <3>3. broken' \subseteq Ids /\ cut' \subseteq Paths
      BY <2>13, <3>1 DEF Crash, TypeOK
    <3> QED BY <2>13, <3>2, <3>3 DEF Crash, TypeOK
  <2>14. CASE UNCHANGED vars
    BY <2>14 DEF vars, TypeOK
  <2> QED
    BY <2>1, <2>2, <2>3, <2>4, <2>5, <2>6, <2>7, <2>8, <2>9, <2>10, <2>11,
       <2>12, <2>13, <2>14 DEF Next, Create, Update, Delete
<1> QED BY <1>1, <1>2, PTL DEF Spec

-----------------------------------------------------------------------------
UpdatePhases == {"update_delete", "update_set", "update_commit", "update_journal"}

(* An update never asks for another owner.                                  *)
SameOwner ==
  \A r \in Requests : req[r].pc \in UpdatePhases => req[r].new.user = req[r].row.user

(* An update in flight wants the owner its row was loaded with.             *)
LEMMA SameOwnerStep ==
  ASSUME TypeOK, SameOwner, [Next]_vars PROVE SameOwner'
<1> USE DEF SameOwner, UpdatePhases
<1>1. ASSUME NEW r \in Requests, NEW phase \in Phases, GoTo(r, phase),
             phase \in UpdatePhases => req[r].pc \in UpdatePhases
      PROVE SameOwner'
  BY <1>1 DEF GoTo, TypeOK, Request
<1>2. ASSUME NEW r \in Requests, Finish(r) PROVE SameOwner'
  BY <1>2 DEF Finish, Idle, TypeOK
<1>3. ASSUME NEW r \in Requests, NEW new \in Row, CreateCheck(r, new) PROVE SameOwner'
  BY <1>3 DEF CreateCheck, Idle, TypeOK
<1>4. ASSUME NEW r \in Requests, NEW u \in Users, NEW id \in Ids,
             NEW dest \in Dests, NEW hop \in Hops, NEW dist \in Dist,
             UpdateLoad(r, u, id, dest, hop, dist)
      PROVE SameOwner'
  <2> DEFINE new == [routes[id] EXCEPT !.dest = dest, !.hop = hop, !.dist = dist]
             phase == IF PathOf(new) # PathOf(routes[id])
                      THEN "update_delete" ELSE "update_set"
  <2>1. routes[id] \in Row
    BY <1>4 DEF UpdateLoad, TypeOK
  <2>2. new.user = routes[id].user
    BY <2>1 DEF Row
  <2>3. Load(r, u, id, new, phase)
    BY <1>4 DEF UpdateLoad
  <2> HIDE DEF new, phase
  <2>4. req' = [req EXCEPT ![r] = [pc |-> phase, by |-> u, id |-> id,
                                   row |-> routes[id], new |-> new]]
    BY <2>3 DEF Load
  <2> QED BY <2>2, <2>4 DEF TypeOK
<1>5. ASSUME NEW r \in Requests, NEW u \in Users, NEW id \in Ids, DeleteLoad(r, u, id)
      PROVE SameOwner'
  BY <1>5 DEF DeleteLoad, Load, TypeOK
<1>6. CASE Crash
  BY <1>6 DEF Crash, Idle
<1>7. CASE UNCHANGED vars
  BY <1>7 DEF vars
<1>8. ASSUME NEW r \in Requests, NEW answer \in Answers,
             \/ CreateSet(r, answer) \/ UpdateDelete(r, answer)
             \/ UpdateSet(r, answer) \/ DeleteRouter(r, answer)
      PROVE SameOwner'
  BY <1>1, <1>2, <1>8 DEF CreateSet, UpdateDelete, UpdateSet, DeleteRouter, Phases
<1>9. ASSUME NEW r \in Requests,
             \/ CreateCommit(r) \/ UpdateCommit(r) \/ UpdateJournal(r)
             \/ DeleteCommit(r) \/ DeleteJournal(r)
      PROVE SameOwner'
  BY <1>1, <1>2, <1>9
     DEF CreateCommit, UpdateCommit, UpdateJournal, DeleteCommit, DeleteJournal, Phases
<1> QED
  BY <1>3, <1>4, <1>5, <1>6, <1>7, <1>8, <1>9 DEF Next, Create, Update, Delete

(* The three actions that write the table.                                  *)
LEMMA TableWriters ==
  ASSUME [Next]_vars, routes' # routes
  PROVE  \E r \in Requests : CreateCommit(r) \/ UpdateCommit(r) \/ DeleteCommit(r)
<1>1. ASSUME NEW r \in Requests, Create(r) PROVE CreateCommit(r)
  BY <1>1 DEF Create, CreateCheck, CreateSet
<1>2. ASSUME NEW r \in Requests, Update(r) PROVE UpdateCommit(r)
  <2>1. ASSUME NEW u \in Users, NEW id \in Ids, NEW dest \in Dests, NEW hop \in Hops,
               NEW dist \in Dist, UpdateLoad(r, u, id, dest, hop, dist)
        PROVE  FALSE
    BY <2>1 DEF UpdateLoad, Load
  <2>2. ASSUME NEW answer \in Answers, UpdateDelete(r, answer) \/ UpdateSet(r, answer)
        PROVE  FALSE
    BY <2>2 DEF UpdateDelete, UpdateSet
  <2>3. ~UpdateJournal(r)
    BY DEF UpdateJournal
  <2> QED BY <1>2, <2>1, <2>2, <2>3 DEF Update
<1>3. ASSUME NEW r \in Requests, Delete(r) PROVE DeleteCommit(r)
  BY <1>3 DEF Delete, DeleteLoad, Load, DeleteRouter, DeleteJournal
<1>4. ~Crash /\ ~UNCHANGED vars
  BY DEF Crash, vars
<1> QED BY <1>1, <1>2, <1>3, <1>4 DEF Next

(* An insert changes nothing, or adds one row under an id not in use whose  *)
(* key no row has.                                                          *)
LEMMA CommitAdds ==
  ASSUME TypeOK, NEW r \in Requests, CreateCommit(r)
  PROVE  \/ routes' = routes
         \/ /\ \A k \in DOMAIN routes : ~SameKey(routes[k], req[r].new)
            /\ \E n \in Ids \ DOMAIN routes :
                 routes' = [k \in DOMAIN routes \union {n} |->
                              IF k = n THEN req[r].new ELSE routes[k]]
<1>1. CASE \E k \in DOMAIN routes : SameKey(routes[k], req[r].new)
  BY <1>1 DEF CreateCommit
<1>2. CASE \A k \in DOMAIN routes : ~SameKey(routes[k], req[r].new)
  <2>1. PICK n \in Ids : /\ FreshId(n)
                         /\ routes' = [k \in DOMAIN routes \union {n} |->
                              IF k = n THEN req[r].new ELSE routes[k]]
    BY <1>2 DEF CreateCommit
  <2>2. n \notin DOMAIN routes
    BY <2>1, ConstantsAssumption DEF FreshId, TypeOK
  <2> QED BY <1>2, <2>1, <2>2
<1> QED BY <1>1, <1>2

(* The owner of a row that stays never changes, whatever requests overlap.  *)
THEOREM OwnerNeverChanges == Spec => OwnerKept
<1>1. Init => SameOwner
  BY DEF Init, Idle, SameOwner, UpdatePhases
<1>2. ASSUME TypeOK, SameOwner, [Next]_vars
      PROVE  \A id \in DOMAIN routes \intersect DOMAIN routes' :
               routes'[id].user = routes[id].user
  <2> SUFFICES ASSUME NEW id \in DOMAIN routes, id \in DOMAIN routes', routes' # routes
               PROVE  routes'[id].user = routes[id].user
    OBVIOUS
  <2>1. PICK r \in Requests : CreateCommit(r) \/ UpdateCommit(r) \/ DeleteCommit(r)
    BY <1>2, TableWriters
  <2>2. CASE CreateCommit(r)
    BY <1>2, <2>2, CommitAdds
  <2>3. CASE UpdateCommit(r)
    <3>1. routes' = [routes EXCEPT ![req[r].id] = Written(r)]
      BY <2>3 DEF UpdateCommit
    <3>2. req[r].new.user = req[r].row.user
      BY <1>2, <2>3 DEF UpdateCommit, SameOwner, UpdatePhases
    <3>3. Written(r).user = routes[req[r].id].user
      BY <3>2 DEF Written
    <3> QED BY <1>2, <3>1, <3>3 DEF TypeOK
  <2>4. CASE DeleteCommit(r)
    BY <2>4 DEF DeleteCommit
  <2> QED BY <2>1, <2>2, <2>3, <2>4
<1>3. TypeOK /\ SameOwner /\ [Next]_vars => SameOwner'
  BY SameOwnerStep
<1> QED BY <1>1, <1>2, <1>3, TypeCorrect, PTL DEF Spec, OwnerKept

(* However requests overlap, crash or time out, a user's routes stay        *)
(* distinct.                                                                *)
THEOREM RoutesStayUnique == Spec => []UniqueRoutes
<1>1. Init => UniqueRoutes
  BY DEF Init, UniqueRoutes
<1>2. TypeOK /\ UniqueRoutes /\ [Next]_vars => UniqueRoutes'
  <2> SUFFICES ASSUME TypeOK, UniqueRoutes, [Next]_vars, routes' # routes
               PROVE  UniqueRoutes'
    BY DEF UniqueRoutes, SameKey, PathOf
  <2>1. PICK r \in Requests : CreateCommit(r) \/ UpdateCommit(r) \/ DeleteCommit(r)
    BY TableWriters
  <2>2. CASE CreateCommit(r)
    <3>1. PICK n \in Ids \ DOMAIN routes :
            routes' = [k \in DOMAIN routes \union {n} |->
                         IF k = n THEN req[r].new ELSE routes[k]]
      BY <2>2, CommitAdds
    <3>2. \A k \in DOMAIN routes : ~SameKey(routes[k], req[r].new)
      BY <2>2, CommitAdds
    <3> QED BY <3>1, <3>2 DEF UniqueRoutes, SameKey, PathOf
  <2>3. CASE UpdateCommit(r)
    <3> DEFINE id == req[r].id
               w  == Written(r)
    <3>1. /\ id \in DOMAIN routes
          /\ routes' = [routes EXCEPT ![id] = w]
          /\ \A k \in DOMAIN routes \ {id} : ~SameKey(routes[k], w)
      BY <2>3 DEF UpdateCommit
    <3>2. /\ DOMAIN routes' = DOMAIN routes
          /\ \A k \in DOMAIN routes : routes'[k] = IF k = id THEN w ELSE routes[k]
      BY <3>1 DEF TypeOK
    <3> HIDE DEF id, w
    <3> QED BY <3>1, <3>2 DEF UniqueRoutes, SameKey, PathOf
  <2>4. CASE DeleteCommit(r)
    BY <2>4 DEF DeleteCommit, UniqueRoutes, SameKey, PathOf
  <2> QED BY <2>1, <2>2, <2>3, <2>4
<1> QED BY <1>1, <1>2, TypeCorrect, PTL DEF Spec

-----------------------------------------------------------------------------
(* What the table accepts of an insert: no row has its key.                 *)
LEMMA FreeKey ==
  ASSUME TypeOK, NEW row \in Row, \A k \in DOMAIN routes : ~SameKey(routes[k], row)
  PROVE  Table!Free(row, {})
BY DEF Table!Free, Table!Key, SameKey, PathOf

(* However requests overlap, time out or are cut short by a restart, the    *)
(* handlers implement the abstract table.                                   *)
THEOREM HandlersImplementTable == Spec => ImplementsTable
<1>1. Init => Table!Init
  BY DEF Init, Table!Init
<1>2. ASSUME TypeOK, SameOwner, [Next]_vars PROVE [Table!Next]_routes
  <2> SUFFICES ASSUME routes' # routes PROVE Table!Next
    OBVIOUS
  <2>1. PICK r \in Requests : CreateCommit(r) \/ UpdateCommit(r) \/ DeleteCommit(r)
    BY <1>2, TableWriters
  <2>2. CASE CreateCommit(r)
    <3>1. PICK n \in Ids \ DOMAIN routes :
            routes' = [k \in DOMAIN routes \union {n} |->
                         IF k = n THEN req[r].new ELSE routes[k]]
      BY <1>2, <2>2, CommitAdds
    <3>2. \A k \in DOMAIN routes : ~SameKey(routes[k], req[r].new)
      BY <1>2, <2>2, CommitAdds
    <3>3. req[r].new \in Row
      BY <1>2, <2>2 DEF CreateCommit, TypeOK
    <3>4. Table!Insert(n, req[r].new)
      BY <1>2, <3>1, <3>2, <3>3, FreeKey DEF Table!Insert
    <3> QED BY <3>3, <3>4 DEF Table!Next
  <2>3. CASE UpdateCommit(r)
    <3> DEFINE id == req[r].id
               w  == Written(r)
    <3>1. /\ id \in DOMAIN routes
          /\ routes' = [routes EXCEPT ![id] = w]
          /\ \A k \in DOMAIN routes \ {id} : ~SameKey(routes[k], w)
      BY <2>3 DEF UpdateCommit
    <3>2. w \in Row
      BY <1>2, <2>3, <3>1, WrittenType DEF UpdateCommit
    <3>3. w.user = routes[id].user
      BY <1>2, <2>3 DEF UpdateCommit, SameOwner, UpdatePhases, Written
    <3>4. id \in Ids
      BY <1>2, <3>1 DEF TypeOK
    <3> HIDE DEF id, w
    <3>5. Table!Free(w, {id})
      BY <3>1 DEF Table!Free, Table!Key, SameKey, PathOf
    <3>6. Table!Change(id, w)
      BY <3>1, <3>3, <3>5 DEF Table!Change
    <3> QED BY <3>2, <3>4, <3>6 DEF Table!Next
  <2>4. CASE DeleteCommit(r)
    <3>1. routes' = [k \in DOMAIN routes \ {req[r].id} |-> routes[k]]
      BY <2>4 DEF DeleteCommit
    <3>2. req[r].id \in DOMAIN routes
      BY <1>2, <3>1 DEF TypeOK
    <3>3. req[r].id \in Ids
      BY <1>2, <3>2 DEF TypeOK
    <3> QED BY <3>1, <3>2, <3>3 DEF Table!Next, Table!Remove
  <2> QED BY <2>1, <2>2, <2>3, <2>4
<1>3. Init => SameOwner
  BY DEF Init, Idle, SameOwner, UpdatePhases
<1>4. TypeOK /\ SameOwner /\ [Next]_vars => SameOwner'
  BY SameOwnerStep
<1> QED BY <1>1, <1>2, <1>3, <1>4, TypeCorrect, PTL DEF Spec, ImplementsTable, Table!Spec

-----------------------------------------------------------------------------
(* One request at a time, every router call answered truly; restarts may    *)
(* come between any two steps.                                              *)
Serial == /\ \E r \in Requests : Requests = {r}
          /\ Answers \subseteq {"ok", "refused"}

(* The inductive form of NoOrphanRoute.  A path without a row is the one    *)
(* the request is about to store, or one a restart came between; what the   *)
(* request loaded is still in the table; the path it took down stays down   *)
(* until it stores the new one.                                             *)
Settled(r, p) == HasRow(p) \/ p \in cut \/ AboutToStore(r, p)

SlotInv(r) ==
  /\ \A p \in Paths : router[p] # Absent => Settled(r, p)
  /\ req[r].pc \in {"update_delete", "update_set", "update_commit",
                    "delete_router", "delete_commit"}
       => req[r].id \in DOMAIN routes /\ routes[req[r].id] = req[r].row
  /\ TookDown(r) => router[PathOf(req[r].row)] = Absent

SerialInv == \A r \in Requests : SlotInv(r)

(* A call touches only the path it names.                                   *)
LEMMA OtherPaths ==
  ASSUME TypeOK, NEW x \in Row, NEW p \in Paths
  PROVE  /\ p # PathOf(x) => SetRoute(x)[p] = router[p] /\ DeleteRoute(x)[p] = router[p]
         /\ DeleteRoute(x)[PathOf(x)] = Absent
<1>1. PathOf(x) \in Paths
  BY DEF Row, Paths, PathOf
<1> QED BY <1>1 DEF TypeOK, SetRoute, DeleteRoute

(* The serial invariant is preserved by every step when the router answers  *)
(* truthfully and one request is in flight.                                 *)
LEMMA SerialStep ==
  ASSUME Serial, TypeOK, SerialInv, [Next]_vars PROVE SerialInv'
<1>1. PICK r \in Requests : Requests = {r}
  BY DEF Serial
<1> DEFINE row == req[r].row
           new == req[r].new
           id  == req[r].id
<1>2. SlotInv(r)
  BY DEF SerialInv, SlotInv
<1> SUFFICES SlotInv(r)'
  BY <1>1 DEF SerialInv, SlotInv
<1>3. /\ req \in [Requests -> Request]
      /\ routes \in [DOMAIN routes -> Row]
  BY DEF TypeOK
<1>4. \A p : routes' = routes => HasRow(p)' = HasRow(p)
  BY DEF HasRow
<1>5. ASSUME NEW phase \in Phases, GoTo(r, phase)
      PROVE  req'[r].pc = phase /\ row' = row /\ new' = new /\ id' = id
  BY <1>3, <1>5 DEF GoTo, Request
<1>6. ASSUME Finish(r) PROVE req'[r].pc = "idle"
  BY <1>3, <1>6 DEF Finish, Idle
<1> USE DEF SlotInv, Settled, AboutToStore, TookDown
<1>7. ASSUME routes' = routes, router' = router, cut' = cut, Finish(r),
             req[r].pc \notin {"create_commit", "update_commit"}
      PROVE  SlotInv(r)'
  BY <1>2, <1>4, <1>6, <1>7
<1>8. ASSUME NEW x \in Row, CreateCheck(r, x) PROVE SlotInv(r)'
  <2>1. req'[r].pc = "create_set"
    BY <1>3, <1>8 DEF CreateCheck, Idle
  <2> QED BY <1>2, <1>4, <1>8, <2>1 DEF CreateCheck
<1>9. ASSUME NEW answer \in Answers, CreateSet(r, answer) PROVE SlotInv(r)'
  <2>1. CASE answer = "ok"
    <3>1. /\ new \in Row
          /\ router' = SetRoute(new)
          /\ routes' = routes
          /\ req'[r].pc = "create_commit" /\ new' = new
      BY <1>5, <1>9, <2>1 DEF CreateSet, Call, TypeOK, Phases
    <3>2. \A p \in Paths : p # PathOf(new) => router'[p] = router[p]
      BY <3>1, OtherPaths
    <3> QED BY <1>2, <1>4, <1>9, <3>1, <3>2 DEF CreateSet
  <2>2. CASE answer # "ok"
    BY <1>7, <1>9, <2>2 DEF CreateSet, Call, Serial
  <2> QED BY <2>1, <2>2
<1>10. ASSUME CreateCommit(r) PROVE SlotInv(r)'
  <2>1. req'[r].pc = "idle" /\ router' = router /\ new \in Row
    BY <1>6, <1>10 DEF CreateCommit, TypeOK
  <2>2. \A p : HasRow(p) => HasRow(p)'
    BY <1>10, CommitAdds DEF HasRow
  <2>3. \A p : p = PathOf(new) => HasRow(p)'
    <3>1. CASE \E k \in DOMAIN routes : SameKey(routes[k], new)
      BY <1>10, <3>1 DEF CreateCommit, HasRow, SameKey
    <3>2. CASE ~\E k \in DOMAIN routes : SameKey(routes[k], new)
      BY <1>10, <3>2 DEF CreateCommit, HasRow
    <3> QED BY <3>1, <3>2
  <2>4. \A p \in cut : p \in cut' \/ p = PathOf(new)
    BY <1>10 DEF CreateCommit
  <2> QED BY <1>2, <2>1, <2>2, <2>3, <2>4
<1>11. ASSUME NEW u, NEW k \in Ids, NEW x, NEW phase, Load(r, u, k, x, phase),
              \/ phase \in {"update_delete", "delete_router"}
              \/ phase = "update_set" /\ PathOf(x) = PathOf(routes[k])
       PROVE  SlotInv(r)'
  <2>1. /\ req'[r] = [pc |-> phase, by |-> u, id |-> k, row |-> routes[k], new |-> x]
        /\ k \in DOMAIN routes /\ req[r].pc = "idle"
        /\ routes' = routes /\ router' = router /\ cut' = cut
    BY <1>3, <1>11 DEF Load
  <2> QED BY <1>2, <1>4, <1>11, <2>1
<1>12. ASSUME NEW answer \in Answers, UpdateDelete(r, answer) PROVE SlotInv(r)'
  <2>1. CASE answer = "ok"
    <3>1. /\ row \in Row
          /\ router' = DeleteRoute(row)
          /\ routes' = routes
          /\ req'[r].pc = "update_set" /\ row' = row /\ id' = id
      BY <1>5, <1>12, <2>1 DEF UpdateDelete, Call, TypeOK, Phases
    <3>2. \A p \in Paths : router'[p] # Absent => router[p] # Absent
      BY <3>1, OtherPaths
    <3>3. router'[PathOf(row)] = Absent
      <4>1. PathOf(row) \in Paths
        BY <3>1 DEF Row, Paths, PathOf
      <4> QED BY <3>1, <4>1, OtherPaths
    <3> QED BY <1>2, <1>4, <1>12, <3>1, <3>2, <3>3 DEF UpdateDelete
  <2>2. CASE answer # "ok"
    BY <1>7, <1>12, <2>2 DEF UpdateDelete, Call, Serial
  <2> QED BY <2>1, <2>2
<1>13. ASSUME NEW answer \in Answers, UpdateSet(r, answer) PROVE SlotInv(r)'
  <2>1. CASE answer = "ok"
    <3>1. /\ new \in Row /\ row \in Row
          /\ router' = SetRoute(new)
          /\ routes' = routes
          /\ req'[r].pc = "update_commit" /\ row' = row /\ new' = new /\ id' = id
      BY <1>5, <1>13, <2>1 DEF UpdateSet, Call, TypeOK, Phases
    <3>2. \A p \in Paths : p # PathOf(new) => router'[p] = router[p]
      BY <3>1, OtherPaths
    <3>3. PathOf(row) \in Paths
      BY <3>1 DEF Row, Paths, PathOf
    <3> QED BY <1>2, <1>4, <1>13, <3>1, <3>2, <3>3 DEF UpdateSet
  <2>2. CASE answer # "ok"
    BY <1>7, <1>13, <2>2 DEF UpdateSet, Call, Serial
  <2> QED BY <2>1, <2>2
<1>14. ASSUME UpdateCommit(r) PROVE SlotInv(r)'
  <2>1. /\ id \in DOMAIN routes /\ routes[id] = row /\ router' = router
        /\ req[r].pc = "update_commit" /\ new \in Row /\ row \in Row
    BY <1>2, <1>14 DEF UpdateCommit, TypeOK
  <2>2. Written(r) = new
    BY <2>1 DEF Written, Row
  <2>3. CASE \E k \in DOMAIN routes \ {id} : SameKey(routes[k], new)
    <3>1. HasRow(PathOf(new)) /\ routes' = routes /\ cut' = cut /\ req'[r].pc = "idle"
      BY <1>6, <1>14, <2>2, <2>3 DEF UpdateCommit, HasRow, SameKey
    <3> QED BY <1>2, <1>4, <2>1, <3>1
  <2>4. CASE ~\E k \in DOMAIN routes \ {id} : SameKey(routes[k], new)
    <3>1. routes' = [routes EXCEPT ![id] = new] /\ req'[r].pc = "update_journal"
      BY <1>5, <1>14, <2>1, <2>2, <2>4 DEF UpdateCommit, Phases
    <3>2. \A p : p = PathOf(new) => HasRow(p)'
      BY <2>1, <3>1 DEF HasRow
    <3>3. \A p : HasRow(p) /\ p # PathOf(row) => HasRow(p)'
      BY <2>1, <3>1 DEF HasRow
    <3>4. \A p \in cut : p \in cut' \/ p = PathOf(new)
      BY <1>14, <2>2 DEF UpdateCommit
    <3> QED BY <1>2, <2>1, <3>1, <3>2, <3>3, <3>4
  <2> QED BY <2>3, <2>4
<1>15. ASSUME NEW answer \in Answers, DeleteRouter(r, answer) PROVE SlotInv(r)'
  <2>1. CASE answer = "ok"
    <3>1. /\ row \in Row
          /\ router' = DeleteRoute(row)
          /\ routes' = routes
          /\ req'[r].pc = "delete_commit" /\ row' = row /\ id' = id
      BY <1>5, <1>15, <2>1 DEF DeleteRouter, Call, TypeOK, Phases
    <3>2. PathOf(row) \in Paths
      BY <3>1 DEF Row, Paths, PathOf
    <3>3. /\ router'[PathOf(row)] = Absent
          /\ \A p \in Paths : router'[p] # Absent => router[p] # Absent
      BY <3>1, <3>2, OtherPaths
    <3> QED BY <1>2, <1>4, <1>15, <3>1, <3>3 DEF DeleteRouter
  <2>2. CASE answer # "ok"
    BY <1>7, <1>15, <2>2 DEF DeleteRouter, Call, Serial
  <2> QED BY <2>1, <2>2
<1>16. ASSUME DeleteCommit(r) PROVE SlotInv(r)'
  <2>1. /\ routes[id] = row /\ router' = router /\ cut' = cut
        /\ routes' = [k \in DOMAIN routes \ {id} |-> routes[k]]
        /\ router[PathOf(row)] = Absent
        /\ req'[r].pc = "delete_journal" /\ req[r].pc = "delete_commit"
    BY <1>2, <1>5, <1>16 DEF DeleteCommit, Phases
  <2>2. \A p : HasRow(p) /\ p # PathOf(row) => HasRow(p)'
    BY <2>1 DEF HasRow
  <2> QED BY <1>2, <2>1, <2>2
<1>17. ASSUME NEW u \in Users, NEW k \in Ids, NEW dest \in Dests, NEW hop \in Hops,
              NEW dist \in Dist, UpdateLoad(r, u, k, dest, hop, dist)
       PROVE  SlotInv(r)'
  BY <1>11, <1>17 DEF UpdateLoad
<1>18. ASSUME UpdateJournal(r) \/ DeleteJournal(r) PROVE SlotInv(r)'
  BY <1>7, <1>18 DEF UpdateJournal, DeleteJournal
<1>19. CASE UNCHANGED vars
  BY <1>2, <1>4, <1>19 DEF vars
<1>20. CASE \E rr \in Requests : Create(rr)
  BY <1>1, <1>8, <1>9, <1>10, <1>20 DEF Create
<1>21. CASE \E rr \in Requests : Update(rr)
  BY <1>1, <1>12, <1>13, <1>14, <1>17, <1>18, <1>21 DEF Update
<1>22. CASE \E rr \in Requests : Delete(rr)
  BY <1>1, <1>11, <1>15, <1>16, <1>18, <1>22 DEF Delete, DeleteLoad
<1>23. CASE Crash
  <2>1. req'[r].pc = "idle" /\ routes' = routes /\ router' = router
    BY <1>23 DEF Crash, Idle
  <2>2. \A p \in Paths : HasRow(p) \/ p \in cut \/ AboutToStore(r, p) => HasRow(p) \/ p \in cut'
    BY <1>23 DEF Crash
  <2> QED BY <1>2, <1>4, <2>1, <2>2
<1> QED BY <1>19, <1>20, <1>21, <1>22, <1>23 DEF Next

(* Requests served one at a time, with truthful answers from the router,    *)
(* leave it forwarding along a path the table does not know only when a     *)
(* restart came between setting that path and storing its row.              *)
THEOREM NoOrphanWhenSerial ==
  ASSUME Serial PROVE Spec => []NoOrphanRoute
<1>1. Init => SerialInv
  BY DEF Init, SerialInv, SlotInv, TookDown, Idle
<1>2. TypeOK /\ SerialInv /\ [Next]_vars => SerialInv'
  BY SerialStep
<1>3. SerialInv => NoOrphanRoute
  BY DEF SerialInv, SlotInv, Serial, NoOrphanRoute, Quiet, Settled, AboutToStore
<1> QED BY <1>1, <1>2, <1>3, TypeCorrect, PTL DEF Spec

-----------------------------------------------------------------------------
OneAccount == \A u, v \in Users : u = v

(* The inductive form of MissingOnlyAfterFailure.  The path about to        *)
(* be stored is on the router, and only an update that moves a row takes a  *)
(* path down; a row whose path is missing has lost it to its own failed     *)
(* update, or to the request in hand.                                       *)
Placed(r) ==
  /\ req[r].pc \in {"create_commit", "update_commit"} => router[PathOf(req[r].new)] # Absent
  /\ req[r].pc = "update_delete" => PathOf(req[r].new) # PathOf(req[r].row)

TakenDown(r, id) == req[r].id = id /\ TookDown(r)

Present(r, id) ==
  router[PathOf(routes[id])] = Absent => id \in broken \/ TakenDown(r, id)

PresentInv == \A r \in Requests : Placed(r) /\ \A id \in DOMAIN routes : Present(r, id)

(* A set command leaves its path on the router, and takes none away.        *)
LEMMA SetPlaces ==
  ASSUME TypeOK, NEW x \in Row
  PROVE  /\ SetRoute(x)[PathOf(x)] # Absent
         /\ \A p \in Paths : router[p] # Absent => SetRoute(x)[p] # Absent
<1>1. PathOf(x) \in Paths /\ x.dist \in Dist
  BY DEF Row, Paths, PathOf
<1> QED BY <1>1, ConstantsAssumption DEF TypeOK, SetRoute

(* With one account the unique key is the path.                             *)
LEMMA UniquePaths ==
  ASSUME TypeOK, OneAccount, UniqueRoutes
  PROVE  \A i, j \in DOMAIN routes : i # j => PathOf(routes[i]) # PathOf(routes[j])
<1>1. \A i \in DOMAIN routes : routes[i].user \in Users
  BY DEF TypeOK, Row
<1> QED BY <1>1 DEF OneAccount, UniqueRoutes, SameKey

(* The invariant is preserved by every step when one account's requests     *)
(* come one at a time and the router answers truthfully.                    *)
LEMMA PresentStep ==
  ASSUME Serial, OneAccount, TypeOK, SerialInv, UniqueRoutes, PresentInv, [Next]_vars
  PROVE  PresentInv'
<1>1. PICK r \in Requests : Requests = {r}
  BY DEF Serial
<1> DEFINE row == req[r].row
           new == req[r].new
           id  == req[r].id
           Safe == Placed(r) /\ \A k \in DOMAIN routes : Present(r, k)
<1>2. Safe /\ SlotInv(r)
  BY DEF PresentInv, SerialInv
<1> SUFFICES Safe'
  BY <1>1 DEF PresentInv
<1>3. /\ req \in [Requests -> Request]
      /\ routes \in [DOMAIN routes -> Row]
      /\ \A k \in DOMAIN routes : PathOf(routes[k]) \in Paths
  BY DEF TypeOK, Row, Paths, PathOf
<1>4. \A x \in Row : PathOf(x) \in Paths
  BY DEF Row, Paths, PathOf
<1>5. ASSUME NEW phase \in Phases, GoTo(r, phase)
      PROVE  req'[r].pc = phase /\ row' = row /\ new' = new /\ id' = id
  BY <1>3, <1>5 DEF GoTo, Request
<1>6. ASSUME Finish(r) PROVE req'[r].pc = "idle"
  BY <1>3, <1>6 DEF Finish, Idle
<1> USE DEF Placed, Present, TakenDown, TookDown
(* Steps that touch neither the table nor the router.                       *)
<1>7. ASSUME UNCHANGED <<routes, router, broken>>, Finish(r),
             \A k \in DOMAIN routes : ~TakenDown(r, k)
      PROVE  Safe'
  BY <1>2, <1>6, <1>7
<1>8. ASSUME UNCHANGED <<routes, router, broken>>, req[r].pc = "idle",
             \/ req'[r].pc \in {"create_set", "delete_router"}
             \/ req'[r].pc = "update_delete" /\ PathOf(new') # PathOf(row')
             \/ req'[r].pc = "update_set" /\ PathOf(new') = PathOf(row')
      PROVE  Safe'
  BY <1>2, <1>8
(* An update that gives up after it took its path down is recorded.         *)
<1>a. ASSUME UNCHANGED <<routes, router>>, Finish(r), GivesUp(r),
             req[r].pc \in {"update_set", "update_commit"}
      PROVE  Safe'
  <2>1. req'[r].pc = "idle"
    BY <1>6, <1>a
  <2>2. \A k : k \in broken \/ TakenDown(r, k) => k \in broken'
    BY <1>a DEF GivesUp
  <2>3. \A k \in DOMAIN routes : router[PathOf(routes[k])] = Absent => k \in broken'
    BY <1>2, <2>2 DEF Present
  <2> QED BY <1>a, <2>1, <2>3
<1>9. ASSUME NEW x \in Row, CreateCheck(r, x) PROVE Safe'
  <2>1. req'[r].pc = "create_set" /\ req[r].pc = "idle"
    BY <1>3, <1>9 DEF CreateCheck, Idle
  <2> QED BY <1>8, <1>9, <2>1 DEF CreateCheck
<1>10. ASSUME NEW answer \in Answers, CreateSet(r, answer) PROVE Safe'
  <2>1. CASE answer = "ok"
    <3>1. /\ new \in Row /\ router' = SetRoute(new) /\ UNCHANGED <<routes, broken>>
          /\ req'[r].pc = "create_commit" /\ new' = new /\ req[r].pc = "create_set"
      BY <1>5, <1>10, <2>1 DEF CreateSet, Call, TypeOK, Phases
    <3>2. /\ router'[PathOf(new)] # Absent
          /\ \A p \in Paths : router[p] # Absent => router'[p] # Absent
      BY <3>1, SetPlaces
    <3> QED BY <1>2, <1>3, <3>1, <3>2
  <2>2. CASE answer # "ok"
    BY <1>7, <1>10, <2>2 DEF CreateSet, Call, Serial
  <2> QED BY <2>1, <2>2
<1>11. ASSUME CreateCommit(r) PROVE Safe'
  <2>1. /\ req[r].pc = "create_commit" /\ req'[r].pc = "idle"
        /\ UNCHANGED <<router, broken>> /\ router[PathOf(new)] # Absent
    BY <1>2, <1>6, <1>11 DEF CreateCommit
  <2>2. \A k \in DOMAIN routes' : (k \in DOMAIN routes /\ routes'[k] = routes[k])
                                 \/ routes'[k] = new
    <3>1. ASSUME NEW n, routes' = [k \in DOMAIN routes \union {n} |->
                                     IF k = n THEN new ELSE routes[k]]
          PROVE  \A k \in DOMAIN routes' : (k \in DOMAIN routes /\ routes'[k] = routes[k])
                                         \/ routes'[k] = new
      BY <3>1
    <3> QED BY <1>11, <3>1, CommitAdds
  <2> QED BY <1>2, <2>1, <2>2
<1>12. ASSUME NEW u, NEW k \in Ids, NEW x, NEW phase, Load(r, u, k, x, phase),
              \/ phase = "delete_router"
              \/ phase = "update_delete" /\ PathOf(x) # PathOf(routes[k])
              \/ phase = "update_set" /\ PathOf(x) = PathOf(routes[k])
       PROVE  Safe'
  <2>1. /\ req'[r] = [pc |-> phase, by |-> u, id |-> k, row |-> routes[k], new |-> x]
        /\ req[r].pc = "idle" /\ UNCHANGED <<routes, router, broken>>
    BY <1>3, <1>12 DEF Load
  <2> QED BY <1>8, <1>12, <2>1
(* The one row that has the path that is taken down is the one in hand.     *)
<1>13. ASSUME NEW answer \in Answers,
              UpdateDelete(r, answer) \/ DeleteRouter(r, answer)
       PROVE  Safe'
  <2>1. CASE answer = "ok"
    <3>1. /\ row \in Row /\ router' = DeleteRoute(row) /\ UNCHANGED <<routes, broken>>
          /\ row' = row /\ new' = new /\ id' = id
          /\ req[r].pc \in {"update_delete", "delete_router"}
          /\ req'[r].pc = IF req[r].pc = "update_delete" THEN "update_set" ELSE "delete_commit"
      BY <1>5, <1>13, <2>1 DEF UpdateDelete, DeleteRouter, Call, TypeOK, Phases
    <3>2. id \in DOMAIN routes /\ routes[id] = row
      BY <1>2, <3>1 DEF SlotInv
    <3>3. \A k \in DOMAIN routes \ {id} : router'[PathOf(routes[k])] = router[PathOf(routes[k])]
      BY <1>3, <3>1, <3>2, UniquePaths, OtherPaths
    <3>4. req[r].pc = "update_delete" => PathOf(new) # PathOf(row)
      BY <1>2, <3>1
    <3> QED BY <1>2, <3>1, <3>2, <3>3, <3>4
  <2>2. CASE answer # "ok"
    BY <1>7, <1>13, <2>2 DEF UpdateDelete, DeleteRouter, Call, Serial
  <2> QED BY <2>1, <2>2
<1>14. ASSUME NEW answer \in Answers, UpdateSet(r, answer) PROVE Safe'
  <2>1. CASE answer = "ok"
    <3>1. /\ new \in Row /\ router' = SetRoute(new) /\ UNCHANGED <<routes, broken>>
          /\ row' = row /\ new' = new /\ id' = id
          /\ req[r].pc = "update_set" /\ req'[r].pc = "update_commit"
      BY <1>5, <1>14, <2>1 DEF UpdateSet, Call, TypeOK, Phases
    <3>2. /\ router'[PathOf(new)] # Absent
          /\ \A p \in Paths : router[p] # Absent => router'[p] # Absent
      BY <3>1, SetPlaces
    <3> QED BY <1>2, <1>3, <3>1, <3>2
  <2>2. CASE answer # "ok"
    BY <1>a, <1>14, <2>2 DEF UpdateSet, Call, Serial
  <2> QED BY <2>1, <2>2
<1>15. ASSUME UpdateCommit(r) PROVE Safe'
  <2>1. /\ id \in DOMAIN routes /\ routes[id] = row /\ router' = router
        /\ req[r].pc = "update_commit" /\ new \in Row /\ row \in Row
        /\ router[PathOf(new)] # Absent
    BY <1>2, <1>15 DEF UpdateCommit, SlotInv, TypeOK
  <2>2. Written(r) = new
    BY <2>1 DEF Written, Row
  <2>3. CASE UNCHANGED <<routes, cut>> /\ Finish(r) /\ GivesUp(r)
    BY <1>a, <2>1, <2>3
  <2>4. CASE /\ routes' = [routes EXCEPT ![id] = Written(r)]
             /\ broken' = broken \ {id} /\ GoTo(r, "update_journal")
    <3>1. req'[r].pc = "update_journal"
      BY <1>5, <2>4 DEF Phases
    <3>2. /\ DOMAIN routes' = DOMAIN routes /\ routes'[id] = new
          /\ \A k \in DOMAIN routes \ {id} : routes'[k] = routes[k]
      BY <2>1, <2>2, <2>4
    <3> QED BY <1>2, <2>1, <2>4, <3>1, <3>2
  <2> QED BY <1>15, <2>3, <2>4 DEF UpdateCommit
<1>16. ASSUME DeleteCommit(r) PROVE Safe'
  <2>1. /\ routes' = [k \in DOMAIN routes \ {id} |-> routes[k]] /\ router' = router
        /\ broken' = broken \ {id} /\ req'[r].pc = "delete_journal"
    BY <1>5, <1>16 DEF DeleteCommit, Phases
  <2> QED BY <1>2, <2>1
<1>17. ASSUME NEW u \in Users, NEW k \in Ids, NEW dest \in Dests, NEW hop \in Hops,
              NEW dist \in Dist, UpdateLoad(r, u, k, dest, hop, dist)
       PROVE  Safe'
  BY <1>12, <1>17 DEF UpdateLoad
<1>18. ASSUME UpdateJournal(r) \/ DeleteJournal(r) PROVE Safe'
  BY <1>7, <1>18 DEF UpdateJournal, DeleteJournal
<1>19. CASE UNCHANGED vars
  BY <1>2, <1>19 DEF vars
<1>20. CASE \E rr \in Requests : Create(rr)
  BY <1>1, <1>9, <1>10, <1>11, <1>20 DEF Create
<1>21. CASE \E rr \in Requests : Update(rr)
  BY <1>1, <1>13, <1>14, <1>15, <1>17, <1>18, <1>21 DEF Update
<1>22. CASE \E rr \in Requests : Delete(rr)
  BY <1>1, <1>12, <1>13, <1>16, <1>18, <1>22 DEF Delete, DeleteLoad
<1>23. CASE Crash
  <2>1. req'[r].pc = "idle" /\ routes' = routes /\ router' = router
    BY <1>23 DEF Crash, Idle
  <2>2. \A k : k \in broken \/ TakenDown(r, k) => k \in broken'
    BY <1>23 DEF Crash
  <2> QED BY <1>2, <2>1, <2>2
<1> QED BY <1>19, <1>20, <1>21, <1>22, <1>23 DEF Next

(* One account's requests, served one at a time with truthful answers, lose *)
(* a stored route from the router only by an update or a delete that failed *)
(* half way or that a restart ended.                                        *)
THEOREM MissingWhenSerial ==
  ASSUME Serial, OneAccount PROVE Spec => []MissingOnlyAfterFailure
<1>1. Init => SerialInv /\ PresentInv
  BY DEF Init, SerialInv, SlotInv, TookDown, PresentInv, Placed, Present, Idle
<1>2. TypeOK /\ SerialInv /\ [Next]_vars => SerialInv'
  BY SerialStep
<1>3. TypeOK /\ SerialInv /\ UniqueRoutes /\ PresentInv /\ [Next]_vars => PresentInv'
  BY PresentStep
<1>4. PresentInv => MissingOnlyAfterFailure
  BY DEF PresentInv, Present, TakenDown, TookDown, Serial, MissingOnlyAfterFailure, Quiet
<1> QED BY <1>1, <1>2, <1>3, <1>4, TypeCorrect, RoutesStayUnique, PTL DEF Spec
=============================================================================
