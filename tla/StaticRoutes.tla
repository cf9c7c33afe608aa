---------------------------- MODULE StaticRoutes ----------------------------
(***************************************************************************)
(* Static routes (src/routers/static_routes.py, src/crud.py): the rows of   *)
(* table static_routes, the routes configured on the VyOS router, and the   *)
(* requests that change both.  A handler is a coroutine that gives way at   *)
(* every await, so each of its awaits (the SELECT, every router call, the   *)
(* COMMIT, the journal entry) ends an action here and other requests        *)
(* interleave between two actions.                                          *)
(*                                                                          *)
(* A request refused by a guard (404, 403, 409) changes nothing and is not  *)
(* a step.  Reads and descriptions are left out; `distance' stands for the  *)
(* attributes that a path carries on the router.                            *)
(***************************************************************************)
EXTENDS Integers, FiniteSets

CONSTANTS
  Users, Admins,      \* accounts, and those with the admin role
  Dests, Hops,        \* destination networks and next hops
  Distances,          \* administrative distances
  NoDistance,         \* the column is NULL
  Absent,             \* the router has no such path
  NoRow,              \* a request that holds no row
  Requests,           \* request slots: at most this many are in flight
  MaxId,              \* bound on the row ids ever assigned
  Answers,            \* how a router call may end, a subset of AllAnswers
  Crashes             \* may the API process be killed and restarted?

(* "ok": applied and acknowledged.  "refused": an error, nothing applied.   *)
(* "lost": applied, but the caller sees the 30 s timeout (or a broken       *)
(* connection); a lost request that was not applied looks like "refused".   *)
AllAnswers == {"ok", "refused", "lost"}

Ids   == 1..MaxId
Paths == Dests \X Hops
Dist  == Distances \union {NoDistance}
Row   == [user: Users, dest: Dests, hop: Hops, dist: Dist]

ASSUME ConstantsAssumption ==
  /\ Admins \subseteq Users
  /\ MaxId \in Nat
  /\ Answers \subseteq AllAnswers
  /\ Crashes \in BOOLEAN
  /\ Absent \notin Dist
  /\ NoRow \notin Row
  /\ 0 \notin Users
  /\ IsFiniteSet(Requests)

VARIABLES
  routes,    \* table static_routes: id -> Row, for the ids in use
  router,    \* protocols static route <dest> next-hop <hop>: path -> distance
  req,       \* what each request slot is doing
  journal,   \* the latest change_journal entry about a static route
  broken,    \* history: rows whose last change failed after taking their path down
  cut        \* history: paths set for a row that a restart kept out of the table

vars == <<routes, router, req, journal, broken, cut>>

PathOf(row) == <<row.dest, row.hop>>
HasRow(p)   == \E id \in DOMAIN routes : PathOf(routes[id]) = p

Phases == {"idle", "create_set", "create_commit",
           "update_delete", "update_set", "update_commit", "update_journal",
           "delete_router", "delete_commit", "delete_journal"}

(* by: the account; id: the row loaded; row: its values when loaded;        *)
(* new: the values the request wants stored.                                *)
Request == [pc: Phases, by: Users \union {0}, id: Ids \union {0},
            row: Row \union {NoRow}, new: Row \union {NoRow}]

Idle == [pc |-> "idle", by |-> 0, id |-> 0, row |-> NoRow, new |-> NoRow]

Entry == [op: {"update", "delete"}, before: Row, after: Row \union {NoRow}]

Init ==
  /\ routes = [k \in {} |-> NoRow]
  /\ router = [p \in Paths |-> Absent]
  /\ req = [r \in Requests |-> Idle]
  /\ journal = NoRow
  /\ broken = {}
  /\ cut = {}

-----------------------------------------------------------------------------
(* The VyOS configuration tree.  A set command names the path and, when it  *)
(* is given, the distance: without one an earlier distance stays.           *)
SetRoute(row) ==
  [router EXCEPT ![PathOf(row)] =
     IF row.dist = NoDistance /\ router[PathOf(row)] # Absent
     THEN router[PathOf(row)] ELSE row.dist]

DeleteRoute(row) == [router EXCEPT ![PathOf(row)] = Absent]

(* vyos_api_call: whatever is not an acknowledgement becomes VyOSAPIError.  *)
Call(answer, after) == router' = IF answer = "refused" THEN router ELSE after

Finish(r) == req' = [req EXCEPT ![r] = Idle]
GoTo(r, phase) == req' = [req EXCEPT ![r].pc = phase]
Allowed(u, row) == u \in Admins \/ row.user = u

(* _destination_nexthop_user_uc                                             *)
SameKey(a, b) == PathOf(a) = PathOf(b) /\ a.user = b.user

(* SQLite's INTEGER PRIMARY KEY: one more than the largest id in the table, *)
(* so that the id of a deleted last row is given out again.                 *)
FreshId(n) == /\ \A k \in DOMAIN routes : k < n
              /\ n = 1 \/ n - 1 \in DOMAIN routes

-----------------------------------------------------------------------------
(* MaxId: a create starts only while there is an id for every slot.         *)
CreateCheck(r, new) ==
  /\ req[r].pc = "idle"
  /\ \A k \in DOMAIN routes : k + Cardinality(Requests) <= MaxId
  /\ \A k \in DOMAIN routes : ~SameKey(routes[k], new)
  /\ req' = [req EXCEPT ![r] = [Idle EXCEPT !.pc = "create_set",
                                            !.by = new.user, !.new = new]]
  /\ UNCHANGED <<routes, router, journal, broken, cut>>

(* Mutated: the row is stored although the router refused the route.        *)
CreateSetAnyway(r, answer) ==
  /\ req[r].pc = "create_set"
  /\ Call(answer, SetRoute(req[r].new))
  /\ GoTo(r, "create_commit")
  /\ UNCHANGED <<routes, journal, broken, cut>>

CreateSet(r, answer) ==
  /\ req[r].pc = "create_set"
  /\ Call(answer, SetRoute(req[r].new))
  /\ IF answer = "ok" THEN GoTo(r, "create_commit") ELSE Finish(r)
  /\ UNCHANGED <<routes, journal, broken, cut>>

CreateCommit(r) ==
  /\ req[r].pc = "create_commit"
  /\ IF \E k \in DOMAIN routes : SameKey(routes[k], req[r].new)
     THEN UNCHANGED <<routes, cut>>                       \* IntegrityError
     ELSE /\ \E n \in Ids : /\ FreshId(n)
                            /\ routes' = [k \in DOMAIN routes \union {n} |->
                                 IF k = n THEN req[r].new ELSE routes[k]]
          /\ cut' = cut \ {PathOf(req[r].new)}
  /\ Finish(r)
  /\ UNCHANGED <<router, journal, broken>>

-----------------------------------------------------------------------------
(* Mutated: the handler does not keep the row it loaded.                    *)
LoadWithoutRow(r, u, id, new, phase) ==
  /\ req[r].pc = "idle" /\ id \in DOMAIN routes /\ Allowed(u, routes[id])
  /\ req' = [req EXCEPT ![r] = [Idle EXCEPT !.pc = phase, !.by = u, !.id = id, !.new = new]]
  /\ UNCHANGED <<routes, router, journal, broken, cut>>

Load(r, u, id, new, phase) ==
  /\ req[r].pc = "idle"
  /\ id \in DOMAIN routes
  /\ Allowed(u, routes[id])
  /\ req' = [req EXCEPT ![r] = [pc |-> phase, by |-> u, id |-> id,
                                row |-> routes[id], new |-> new]]
  /\ UNCHANGED <<routes, router, journal, broken, cut>>

UpdateLoad(r, u, id, dest, hop, dist) ==
  /\ id \in DOMAIN routes
  /\ LET new == [routes[id] EXCEPT !.dest = dest, !.hop = hop, !.dist = dist]
     IN Load(r, u, id, new,
             IF PathOf(new) # PathOf(routes[id]) THEN "update_delete" ELSE "update_set")

(* Mutated: the update goes on although the old path is still there.        *)
UpdateDeleteAnyway(r, answer) ==
  /\ req[r].pc = "update_delete"
  /\ Call(answer, DeleteRoute(req[r].row))
  /\ GoTo(r, "update_set")
  /\ UNCHANGED <<routes, journal, broken, cut>>

UpdateDelete(r, answer) ==
  /\ req[r].pc = "update_delete"
  /\ Call(answer, DeleteRoute(req[r].row))
  /\ IF answer = "ok" THEN GoTo(r, "update_set") ELSE Finish(r)
  /\ UNCHANGED <<routes, journal, broken, cut>>

(* broken: the old path is gone from the router, the row still names it.    *)
GivesUp(r) ==
  broken' = IF PathOf(req[r].new) # PathOf(req[r].row)
            THEN broken \union {req[r].id} ELSE broken

UpdateSet(r, answer) ==
  /\ req[r].pc = "update_set"
  /\ Call(answer, SetRoute(req[r].new))
  /\ IF answer = "ok"
     THEN GoTo(r, "update_commit") /\ UNCHANGED broken
     ELSE Finish(r) /\ GivesUp(r)
  /\ UNCHANGED <<routes, journal, cut>>

(* Mutated: every column is written.                                        *)
WrittenWhole(r) == req[r].new

(* The UPDATE statement names the row by its id and only the columns that   *)
(* differ from the values loaded.                                           *)
Written(r) ==
  LET now == routes[req[r].id]
      Net(wanted, loaded, stored) == IF wanted # loaded THEN wanted ELSE stored
      new == req[r].new
      row == req[r].row
  IN  [user |-> Net(new.user, row.user, now.user),
       dest |-> Net(new.dest, row.dest, now.dest),
       hop  |-> Net(new.hop,  row.hop,  now.hop),
       dist |-> Net(new.dist, row.dist, now.dist)]

(* Mutated: the unique constraint does not hold for an UPDATE.              *)
UpdateCommitUnchecked(r) ==
  /\ req[r].pc = "update_commit"
  /\ IF req[r].id \notin DOMAIN routes
     THEN /\ Finish(r)
          /\ GivesUp(r)
          /\ UNCHANGED <<routes, cut>>
     ELSE /\ routes' = [routes EXCEPT ![req[r].id] = Written(r)]
          /\ broken' = broken \ {req[r].id}
          /\ cut' = cut \ {PathOf(Written(r))}
          /\ GoTo(r, "update_journal")
  /\ UNCHANGED <<router, journal>>

UpdateCommit(r) ==
  /\ req[r].pc = "update_commit"
  /\ IF \/ req[r].id \notin DOMAIN routes                 \* StaleDataError
        \/ \E k \in DOMAIN routes \ {req[r].id} :         \* IntegrityError
              SameKey(routes[k], Written(r))
     THEN /\ Finish(r)
          /\ GivesUp(r)
          /\ UNCHANGED <<routes, cut>>
     ELSE /\ routes' = [routes EXCEPT ![req[r].id] = Written(r)]
          /\ broken' = broken \ {req[r].id}
          /\ cut' = cut \ {PathOf(Written(r))}
          /\ GoTo(r, "update_journal")
  /\ UNCHANGED <<router, journal>>

(* refresh() re-reads the row before the entry's `before' is filled in.     *)
UpdateJournal(r) ==
  /\ req[r].pc = "update_journal"
  /\ IF req[r].id \in DOMAIN routes
     THEN journal' = [op |-> "update", before |-> routes[req[r].id],
                      after |-> req[r].new]
     ELSE UNCHANGED journal
  /\ Finish(r)
  /\ UNCHANGED <<routes, router, broken, cut>>

-----------------------------------------------------------------------------
DeleteLoad(r, u, id) == Load(r, u, id, NoRow, "delete_router")

DeleteRouter(r, answer) ==
  /\ req[r].pc = "delete_router"
  /\ Call(answer, DeleteRoute(req[r].row))
  /\ IF answer = "ok" THEN GoTo(r, "delete_commit") ELSE Finish(r)
  /\ UNCHANGED <<routes, journal, broken, cut>>

(* DELETE ... WHERE id = ?; matching no row is only a warning.              *)
DeleteCommit(r) ==
  /\ req[r].pc = "delete_commit"
  /\ routes' = [k \in DOMAIN routes \ {req[r].id} |-> routes[k]]
  /\ broken' = broken \ {req[r].id}
  /\ GoTo(r, "delete_journal")
  /\ UNCHANGED <<router, journal, cut>>

DeleteJournal(r) ==
  /\ req[r].pc = "delete_journal"
  /\ journal' = [op |-> "delete", before |-> req[r].row, after |-> NoRow]
  /\ Finish(r)
  /\ UNCHANGED <<routes, router, broken, cut>>

-----------------------------------------------------------------------------
(* The process dies: requests in flight are gone, the table and the router  *)
(* keep what they have.                                                     *)
TookDown(r) ==
  \/ req[r].pc = "delete_commit"
  \/ /\ req[r].pc \in {"update_set", "update_commit"}
     /\ PathOf(req[r].new) # PathOf(req[r].row)

AboutToStore(r, p) ==
  req[r].pc \in {"create_commit", "update_commit"} /\ p = PathOf(req[r].new)

Crash ==
  /\ Crashes
  /\ \E r \in Requests : req[r] # Idle
  /\ req' = [r \in Requests |-> Idle]
  /\ broken' = broken \union {req[r].id : r \in {q \in Requests : TookDown(q)}}
  /\ cut' = cut \union {p \in Paths : ~HasRow(p) /\ \E r \in Requests : AboutToStore(r, p)}
  /\ UNCHANGED <<routes, router, journal>>

Create(r) ==
  \/ \E new \in Row : CreateCheck(r, new)
  \/ \E answer \in Answers : CreateSet(r, answer)
  \/ CreateCommit(r)

Update(r) ==
  \/ \E u \in Users, id \in Ids, dest \in Dests, hop \in Hops, dist \in Dist :
       UpdateLoad(r, u, id, dest, hop, dist)
  \/ \E answer \in Answers : UpdateDelete(r, answer) \/ UpdateSet(r, answer)
  \/ UpdateCommit(r)
  \/ UpdateJournal(r)

Delete(r) ==
  \/ \E u \in Users, id \in Ids : DeleteLoad(r, u, id)
  \/ \E answer \in Answers : DeleteRouter(r, answer)
  \/ DeleteCommit(r)
  \/ DeleteJournal(r)

Next == Crash \/ \E r \in Requests : Create(r) \/ Update(r) \/ Delete(r)

Spec == Init /\ [][Next]_vars

-----------------------------------------------------------------------------
(* Type invariant: the table, the router and every request slot hold values *)
(* of their type (crud.py's handlers over models.StaticRoute).              *)
TypeOK ==
  /\ DOMAIN routes \subseteq Ids /\ routes \in [DOMAIN routes -> Row]
  /\ router \in [Paths -> Dist \union {Absent}]
  /\ req \in [Requests -> Request]
  /\ \A r \in Requests : req[r].pc # "idle" =>
       /\ req[r].pc \notin {"delete_router", "delete_commit", "delete_journal"}
            => req[r].new \in Row
       /\ req[r].pc \notin {"create_set", "create_commit"}
            => req[r].row \in Row /\ req[r].id \in Ids
  /\ journal \in Entry \union {NoRow}
  /\ broken \subseteq Ids
  /\ cut \subseteq Paths

(* What the table of RouteTable keeps, used by the proofs: a user never     *)
(* owns two rows for one destination and next hop (models.py's constraint). *)
UniqueRoutes ==
  \A i, j \in DOMAIN routes : i # j => ~SameKey(routes[i], routes[j])

(* A row that stays in the table keeps its owner, even when an update lands *)
(* on an id that was deleted and given to another user's new row meanwhile. *)
OwnerKept ==
  [][\A id \in DOMAIN routes \intersect DOMAIN routes' :
        routes'[id].user = routes[id].user]_vars

Table == INSTANCE RouteTable WITH rows <- routes

(* The handlers implement the table of RouteTable: every step of a request, *)
(* overlapping, timed out or cut short by a restart, inserts, changes or    *)
(* removes one row by its rules, or leaves the table alone.                 *)
ImplementsTable == Table!Spec

Quiet == \A r \in Requests : req[r].pc = "idle"

(* Between requests the router forwards along no path that the table does   *)
(* not know, except one that a restart came between setting and storing:    *)
(* create's router-first order, update's delete-then-set and delete's       *)
(* router-first order leave none behind when calls end definitely and       *)
(* requests do not overlap, even when the database rejects the change, and  *)
(* what a restart leaves is gone from the exceptions once a row names it.   *)
NoOrphanRoute ==
  Quiet => \A p \in Paths : router[p] # Absent => HasRow(p) \/ p \in cut

(* With one account, a stored route that the router lacks is one whose last *)
(* change had deleted the path when it failed or the process restarted: an  *)
(* update that moves the row, or a delete.  Create, a delete that the       *)
(* router refuses and an update in place never cause it, and an update that *)
(* succeeds later repairs it.                                               *)
MissingOnlyAfterFailure ==
  Quiet => \A id \in DOMAIN routes : router[PathOf(routes[id])] = Absent => id \in broken

-----------------------------------------------------------------------------
(* What the repository's text says, and overlapping requests, lost answers  *)
(* or the code itself contradict.                                           *)

(* "Users can only update their own routes. Admins can update any."         *)
(* (routers/static_routes.py): the row written is one the requester may     *)
(* write.                                                                   *)
UpdatesOwnRoute ==
  [][\A r \in Requests :
        req[r].pc = "update_commit" /\ req'[r].pc = "update_journal"
          => Allowed(req[r].by, routes[req[r].id])]_vars
=============================================================================
