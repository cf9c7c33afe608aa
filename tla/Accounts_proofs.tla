---------------------------- MODULE Accounts_proofs ----------------------------
(***************************************************************************)
(* Proofs about Accounts for any number of names, requests and rows.        *)
(***************************************************************************)
EXTENDS Accounts, FiniteSetTheorems, TLAPS

Slot == [pc: Phases, by: Ids \union {0}, id: Ids \union RowIds \union {0},
         name: Names \union {None}, rows: SUBSET RowIds, linked: SUBSET RowIds]

LEMMA Inserted ==
  ASSUME NEW table, NEW S, NEW T, NEW n \in S, NEW row \in T,
         DOMAIN table \subseteq S, table \in [DOMAIN table -> T]
  PROVE  /\ DOMAIN Insert(table, n, row) \subseteq S
         /\ Insert(table, n, row) \in [DOMAIN Insert(table, n, row) -> T]
BY DEF Insert

LEMMA Removed ==
  ASSUME NEW table, NEW S, NEW T, NEW gone,
         DOMAIN table \subseteq S, table \in [DOMAIN table -> T]
  PROVE  /\ DOMAIN Remove(table, gone) \subseteq S
         /\ Remove(table, gone) \in [DOMAIN Remove(table, gone) -> T]
BY DEF Remove

(* The last conjunct of the type invariant but one: the locals of a phase.  *)
Locals(slot) ==
  /\ slot.pc \in {"register_name", "register_insert", "rename_commit"} => slot.name \in Names
  /\ slot.pc = "key_insert" => slot.by \in Ids

Slots == req \in [Requests -> Slot] /\ \A r \in Requests : Locals(req[r])

Tables ==
  /\ DOMAIN users \subseteq Ids /\ users \in [DOMAIN users -> Names]
  /\ DOMAIN keys \subseteq RowIds /\ keys \in [DOMAIN keys -> Ids]
  /\ DOMAIN journal \subseteq RowIds /\ journal \in [DOMAIN journal -> Ids \union {None}]
  /\ DOMAIN tasks \subseteq RowIds /\ tasks \in [DOMAIN tasks -> Ids]
  /\ late \in [keys: SUBSET RowIds, tasks: SUBSET RowIds]

LEMMA TypesSplit == TypeOK <=> Tables /\ Slots
BY DEF TypeOK, Tables, Slots, Slot, Locals

LEMMA SlotSet ==
  ASSUME Slots, NEW r \in Requests, NEW slot \in Slot, Locals(slot),
         req' = [req EXCEPT ![r] = slot]
  PROVE  Slots'
BY DEF Slots

LEMMA Finished ==
  ASSUME Slots, NEW r \in Requests, Finish(r)
  PROVE  Slots'
<1>1. Idle \in Slot /\ Locals(Idle)
  BY DEF Idle, Slot, Locals, Phases
<1> QED BY <1>1, SlotSet DEF Finish

LEMMA Begun ==
  ASSUME Slots, NEW r \in Requests, NEW phase \in Phases, NEW by \in Ids \union {0},
         NEW id \in Ids \union RowIds \union {0}, NEW name \in Names \union {None},
         phase \in {"register_name", "register_insert", "rename_commit"} => name \in Names,
         phase = "key_insert" => by \in Ids,
         Begin(r, phase, by, id, name)
  PROVE  Slots'
<1> DEFINE slot == [Idle EXCEPT !.pc = phase, !.by = by, !.id = id, !.name = name]
<1>1. slot \in Slot /\ Locals(slot)
  BY DEF Idle, Slot, Locals, Phases
<1>2. req' = [req EXCEPT ![r] = slot]
  BY DEF Begin
<1> HIDE DEF slot
<1> QED BY <1>1, <1>2, SlotSet

(* Tables and request slots keep their types, whatever requests overlap.    *)
THEOREM TypeCorrect == Spec => []TypeOK
<1>1. Init => TypeOK
  BY DEF Init, TypeOK, Idle, Phases
<1>2. TypeOK /\ [Next]_vars => TypeOK'
  <2> SUFFICES ASSUME Tables, Slots, [Next]_vars PROVE Tables' /\ Slots'
    BY TypesSplit DEF TypeOK, Tables, Slots, Slot, Locals
  <2>1. CASE UNCHANGED vars
    BY <2>1 DEF vars, Tables, Slots
  <2>2. CASE OwnedRows
    <3>1. ASSUME NEW u \in Ids, JournalEntry(u) PROVE Tables' /\ Slots'
      <4>1. PICK n \in RowIds : journal' = Insert(journal, n, u)
        BY <3>1 DEF JournalEntry
      <4>2. DOMAIN journal' \subseteq RowIds /\ journal' \in [DOMAIN journal' -> Ids \union {None}]
        <5>1. /\ DOMAIN Insert(journal, n, u) \subseteq RowIds
              /\ Insert(journal, n, u) \in [DOMAIN Insert(journal, n, u) -> Ids \union {None}]
          BY Inserted DEF Tables
        <5> QED BY <4>1, <5>1
      <4> QED BY <3>1, <4>2 DEF JournalEntry, Tables, Slots
    <3>2. ASSUME NEW u \in Ids, TaskCreate(u) PROVE Tables' /\ Slots'
      <4>1. PICK n \in RowIds :
              /\ tasks' = Insert(tasks, n, u)
              /\ late' = [late EXCEPT !.tasks = IF u \notin DOMAIN users \/ PastTasks(u)
                                                THEN @ \union {n} ELSE @ \ {n}]
        BY <3>2 DEF TaskCreate
      <4>2. DOMAIN tasks' \subseteq RowIds /\ tasks' \in [DOMAIN tasks' -> Ids]
        BY <4>1, Inserted DEF Tables
      <4> QED BY <3>2, <4>1, <4>2 DEF TaskCreate, Tables, Slots
    <3>3. ASSUME NEW n \in RowIds, TaskDelete(n) PROVE Tables' /\ Slots'
      BY <3>3, Removed DEF TaskDelete, Tables, Slots
    <3> QED BY <2>2, <3>1, <3>2, <3>3 DEF OwnedRows
  <2>3. ASSUME NEW r \in Requests, Register(r) PROVE Tables' /\ Slots'
    <3>1. ASSUME NEW name \in Names, RegisterFirst(r, name) PROVE Tables' /\ Slots'
      BY <3>1, Begun DEF RegisterFirst, Tables, Phases
    <3>2. CASE RegisterName(r)
      <4>1. Slots'
        BY <3>2, Finished DEF RegisterName, Slots, Slot, Locals, Phases
      <4> QED BY <3>2, <4>1 DEF RegisterName, Tables
    <3>3. CASE RegisterInsert(r)
      <4>1. req[r].name \in Names
        BY <3>3 DEF RegisterInsert, Slots, Locals
      <4>2. users' = users \/ \E n \in Ids : users' = Insert(users, n, req[r].name)
        BY <3>3 DEF RegisterInsert
      <4>3. DOMAIN users' \subseteq Ids /\ users' \in [DOMAIN users' -> Names]
        <5>1. ASSUME NEW n \in Ids, users' = Insert(users, n, req[r].name)
              PROVE  DOMAIN users' \subseteq Ids /\ users' \in [DOMAIN users' -> Names]
          BY <4>1, <5>1 DEF Tables, Insert
        <5> QED BY <4>2, <5>1 DEF Tables
      <4> QED BY <3>3, <4>3, Finished DEF RegisterInsert, Tables
    <3> QED BY <2>3, <3>1, <3>2, <3>3 DEF Register
  <2>4. ASSUME NEW r \in Requests, UpdateUser(r) PROVE Tables' /\ Slots'
    <3>1. ASSUME NEW u \in Ids, NEW id \in Ids, NEW name \in Names,
                 RenameLoad(r, u, id, name)
          PROVE  Tables' /\ Slots'
      BY <3>1, Begun DEF RenameLoad, Tables, Phases
    <3>2. CASE RenameCommit(r)
      <4>1. req[r].name \in Names
        BY <3>2 DEF RenameCommit, Slots, Locals
      <4> QED BY <3>2, <4>1, Finished DEF RenameCommit, Tables
    <3> QED BY <2>4, <3>1, <3>2 DEF UpdateUser
  <2>5. ASSUME NEW r \in Requests, DeleteUser(r) PROVE Tables' /\ Slots'
    <3>1. ASSUME NEW u \in Ids, NEW id \in Ids, DeleteLoad(r, u, id) PROVE Tables' /\ Slots'
      BY <3>1, Begun DEF DeleteLoad, Tables, Phases
    <3>2. CASE DeleteCollect(r)
      <4> DEFINE found == {k \in DOMAIN keys : keys[k] = req[r].id}
      <4> DEFINE slot == [req[r] EXCEPT !.pc = "delete_link", !.rows = found]
      <4>1. found \in SUBSET RowIds
        BY DEF Tables
      <4> HIDE DEF found
      <4>2. slot \in Slot /\ Locals(slot)
        BY <4>1 DEF Slots, Slot, Locals, Phases
      <4>3. req' = [req EXCEPT ![r] = slot]
        BY <3>2 DEF DeleteCollect, Slots, found
      <4> HIDE DEF slot
      <4>4. Slots'
        BY <4>2, <4>3, SlotSet
      <4> QED BY <3>2, <4>4 DEF DeleteCollect, Tables
    <3>3. CASE DeleteLink(r)
      <4>1. {k \in DOMAIN journal : journal[k] = req[r].id} \in SUBSET RowIds
        BY DEF Tables
      <4>2. Slots'
        BY <3>3, <4>1, Finished DEF DeleteLink, Slots, Slot, Locals, Phases
      <4> QED BY <3>3, <4>2 DEF DeleteLink, Tables
    <3>4. CASE DeleteCommit(r)
      <4>1. /\ DOMAIN users' \subseteq Ids /\ users' \in [DOMAIN users' -> Names]
            /\ DOMAIN keys' \subseteq RowIds /\ keys' \in [DOMAIN keys' -> Ids]
        BY <3>4, Removed DEF DeleteCommit, Tables
      <4> QED BY <3>4, <4>1, Finished DEF DeleteCommit, Tables
    <3> QED BY <2>5, <3>1, <3>2, <3>3, <3>4 DEF DeleteUser
  <2>6. ASSUME NEW r \in Requests, ApiKeys(r) PROVE Tables' /\ Slots'
    <3>1. ASSUME NEW u \in Ids, KeyStart(r, u) PROVE Tables' /\ Slots'
      BY <3>1, Begun DEF KeyStart, Tables, Phases
    <3>2. CASE KeyInsert(r)
      <4>1. req[r].by \in Ids
        BY <3>2 DEF KeyInsert, Slots, Locals
      <4>2. PICK n \in RowIds :
              /\ keys' = Insert(keys, n, req[r].by)
              /\ late' = [late EXCEPT !.keys =
                   IF req[r].by \notin DOMAIN users \/ PastKeys(req[r].by)
                   THEN @ \union {n} ELSE @ \ {n}]
        BY <3>2 DEF KeyInsert
      <4>3. DOMAIN keys' \subseteq RowIds /\ keys' \in [DOMAIN keys' -> Ids]
        BY <4>1, <4>2, Inserted DEF Tables
      <4> QED BY <3>2, <4>2, <4>3, Finished DEF KeyInsert, Tables
    <3>3. ASSUME NEW u \in Ids, NEW k \in RowIds, KeyDeleteLoad(r, u, k)
          PROVE  Tables' /\ Slots'
      BY <3>3, Begun DEF KeyDeleteLoad, Tables, Phases
    <3>4. CASE KeyDelete(r)
      <4>1. DOMAIN keys' \subseteq RowIds /\ keys' \in [DOMAIN keys' -> Ids]
        BY <3>4, Removed DEF KeyDelete, Tables
      <4> QED BY <3>4, <4>1, Finished DEF KeyDelete, Tables
    <3> QED BY <2>6, <3>1, <3>2, <3>3, <3>4 DEF ApiKeys
  <2> QED BY <2>1, <2>2, <2>3, <2>4, <2>5, <2>6 DEF Next
<1> QED BY <1>1, <1>2, PTL DEF Spec

-----------------------------------------------------------------------------
(* User names stay unique however registrations, renames and deletions      *)
(* overlap (auth.py).                                                       *)
THEOREM NamesStayUnique == Spec => []UniqueNames
<1>1. Init => UniqueNames
  BY DEF Init, UniqueNames
<1>2. UniqueNames /\ [Next]_vars => UniqueNames'
  <2> SUFFICES ASSUME UniqueNames, [Next]_vars, users' # users
               PROVE  UniqueNames'
    BY DEF UniqueNames
  <2>1. PICK r \in Requests : RegisterInsert(r) \/ RenameCommit(r) \/ DeleteCommit(r)
    BY DEF Next, vars, OwnedRows, Register, UpdateUser, DeleteUser, ApiKeys,
           JournalEntry, TaskCreate, TaskDelete, RegisterFirst, RegisterName, RenameLoad,
           DeleteLoad, DeleteCollect, DeleteLink, KeyStart, KeyInsert, KeyDeleteLoad,
           KeyDelete
  <2>2. CASE RegisterInsert(r)
    <3>1. ~NameTaken(req[r].name, {})
      BY <2>2 DEF RegisterInsert
    <3>2. PICK n \in Ids : users' = Insert(users, n, req[r].name)
      BY <2>2 DEF RegisterInsert
    <3>3. /\ DOMAIN users' = DOMAIN users \union {n}
          /\ \A k \in DOMAIN users' : users'[k] = IF k = n THEN req[r].name ELSE users[k]
      BY <3>2 DEF Insert
    <3> QED BY <3>1, <3>3 DEF UniqueNames, NameTaken
  <2>3. CASE RenameCommit(r)
    BY <2>3 DEF RenameCommit, UniqueNames, NameTaken
  <2>4. CASE DeleteCommit(r)
    BY <2>4 DEF DeleteCommit, Remove, UniqueNames
  <2> QED BY <2>1, <2>2, <2>3, <2>4
<1> QED BY <1>1, <1>2, PTL DEF Spec

(* The journal outlives accounts: no entry goes, and an entry loses its     *)
(* account only in the step that deletes it (crud.py, remove_user).         *)
THEOREM JournalOutlives == Spec => JournalKept
<1> DEFINE Linked == \A r \in Requests : req[r].pc = "delete_commit" =>
              /\ req[r].linked \subseteq DOMAIN journal
              /\ \A k \in req[r].linked : journal[k] \in {req[r].id, None}
<1>1. Init => Linked
  BY DEF Init, Idle
<1>2. ASSUME TypeOK, NEW n \in RowIds, FreshId(journal, n) PROVE n \notin DOMAIN journal
  BY <1>2, ConstantsAssumption DEF FreshId, TypeOK, RowIds
<1>3. TypeOK /\ Linked /\ [Next]_vars => Linked'
  <2> SUFFICES ASSUME TypeOK, Linked, [Next]_vars PROVE Linked'
    OBVIOUS
  <2>1. /\ DOMAIN req = Requests
        /\ \A r \in Requests : req[r] \in Slot
    BY DEF TypeOK, Slot
  <2>2. CASE journal' = journal
    <3>1. ASSUME NEW r \in Requests, req'[r].pc = "delete_commit"
          PROVE  \/ req'[r] = req[r]
                 \/ req'[r].linked = {k \in DOMAIN journal : journal[k] = req'[r].id}
      <4>1. CASE req'[r] = req[r]
        BY <4>1
      <4>2. ASSUME NEW q \in Requests, DeleteLink(q), req'[r] # req[r]
            PROVE  req'[r].linked = {k \in DOMAIN journal : journal[k] = req'[r].id}
        BY <2>1, <3>1, <4>2 DEF DeleteLink, Finish, Idle, Slot
      <4>3. ASSUME NEW q \in Requests, NEW phase, NEW by, NEW id, NEW name,
                   Begin(q, phase, by, id, name), phase # "delete_commit", req'[r] # req[r]
            PROVE  FALSE
        BY <2>1, <3>1, <4>3 DEF Begin, Idle
      <4>4. ASSUME NEW q \in Requests, Finish(q), req'[r] # req[r]
            PROVE  FALSE
        BY <2>1, <3>1, <4>4 DEF Finish, Idle
      <4>5. ASSUME NEW q \in Requests, RegisterName(q) \/ DeleteCollect(q), req'[r] # req[r]
            PROVE  FALSE
        BY <2>1, <3>1, <4>4, <4>5 DEF RegisterName, DeleteCollect, Slot
      <4> QED BY <4>1, <4>2, <4>3, <4>4, <4>5
              DEF Next, vars, OwnedRows, Register, UpdateUser, DeleteUser, ApiKeys,
                  JournalEntry, TaskCreate, TaskDelete, RegisterFirst, RegisterInsert,
                  RenameLoad, RenameCommit, DeleteLoad, DeleteCommit, KeyStart,
                  KeyInsert, KeyDeleteLoad, KeyDelete
    <3> QED BY <2>2, <3>1
  <2>3. ASSUME NEW u \in Ids, JournalEntry(u) PROVE Linked'
    <3>1. PICK n \in RowIds : FreshId(journal, n) /\ journal' = Insert(journal, n, u)
      BY <2>3 DEF JournalEntry
    <3>2. n \notin DOMAIN journal
      BY <1>2, <3>1
    <3>3. /\ DOMAIN journal \subseteq DOMAIN journal'
          /\ \A k \in DOMAIN journal : journal'[k] = journal[k]
      BY <3>1, <3>2 DEF Insert
    <3> QED BY <2>3, <3>3 DEF JournalEntry
  <2>4. ASSUME NEW r \in Requests, DeleteCommit(r) PROVE Linked'
    <3>1. /\ DOMAIN journal' = DOMAIN journal
          /\ \A k \in DOMAIN journal : journal'[k] = journal[k] \/ journal'[k] = None
      BY <2>4 DEF DeleteCommit
    <3>2. \A q \in Requests : req'[q] = IF q = r THEN Idle ELSE req[q]
      BY <2>1, <2>4 DEF DeleteCommit, Finish
    <3> QED BY <3>1, <3>2 DEF Idle
  <2> QED BY <2>2, <2>3, <2>4
          DEF Next, vars, OwnedRows, Register, UpdateUser, DeleteUser, ApiKeys,
              TaskCreate, TaskDelete, RegisterFirst, RegisterName, RegisterInsert,
              RenameLoad, RenameCommit, DeleteLoad, DeleteCollect, DeleteLink, KeyStart,
              KeyInsert, KeyDeleteLoad, KeyDelete
<1>4. ASSUME TypeOK, Linked, [Next]_vars
      PROVE  \A k \in DOMAIN journal :
               /\ k \in DOMAIN journal'
               /\ journal'[k] # journal[k]
                    => journal'[k] = None /\ journal[k] \notin DOMAIN users'
  <2>1. CASE journal' = journal
    BY <2>1
  <2>2. ASSUME NEW u \in Ids, JournalEntry(u)
        PROVE  DOMAIN journal \subseteq DOMAIN journal'
               /\ \A k \in DOMAIN journal : journal'[k] = journal[k]
    BY <1>2, <1>4, <2>2 DEF JournalEntry, Insert
  <2>3. ASSUME NEW r \in Requests, DeleteCommit(r), NEW k \in DOMAIN journal
        PROVE  /\ k \in DOMAIN journal'
               /\ journal'[k] # journal[k]
                    => journal'[k] = None /\ journal[k] \notin DOMAIN users'
    BY <1>4, <2>3 DEF DeleteCommit, Remove
  <2> QED BY <1>4, <2>1, <2>2, <2>3
          DEF Next, vars, OwnedRows, Register, UpdateUser, DeleteUser, ApiKeys,
              TaskCreate, TaskDelete, RegisterFirst, RegisterName, RegisterInsert,
              RenameLoad, RenameCommit, DeleteLoad, DeleteCollect, DeleteLink, KeyStart,
              KeyInsert, KeyDeleteLoad, KeyDelete
<1> QED BY <1>1, <1>3, <1>4, TypeCorrect, PTL DEF Spec, JournalKept

-----------------------------------------------------------------------------
(* However first registrations overlap, there are never more accounts than  *)
(* requests (auth.py, register_user).                                       *)
Registering == {r \in Requests : req[r].pc \in {"register_name", "register_insert"}}

Counted == Cardinality(DOMAIN users) + Cardinality(Registering) <= Cardinality(Requests)

LEMMA Finite ==
  /\ IsFiniteSet(Ids) /\ IsFiniteSet(Requests)
  /\ \A S \in SUBSET Ids : IsFiniteSet(S) /\ Cardinality(S) \in Nat
  /\ \A S \in SUBSET Requests : /\ IsFiniteSet(S) /\ Cardinality(S) \in Nat
                                /\ Cardinality(S) <= Cardinality(Requests)
<1>1. IsFiniteSet(Ids) /\ IsFiniteSet(Requests)
  BY ConstantsAssumption, FS_Interval DEF Ids
<1> QED BY <1>1, FS_Subset, FS_CardinalityType

THEOREM AccountsStayBounded == Spec => []AccountsBounded
<1>1. Init => Counted
  <2> SUFFICES ASSUME Init PROVE Counted
    OBVIOUS
  <2>1. DOMAIN users = {} /\ Registering = {}
    BY DEF Init, Idle, Registering
  <2> QED BY <2>1, Finite, FS_EmptySet DEF Counted
<1>2. TypeOK /\ Counted /\ [Next]_vars => Counted'
  <2> SUFFICES ASSUME TypeOK, Counted, [Next]_vars PROVE Counted'
    OBVIOUS
  <2>1. /\ DOMAIN req = Requests
        /\ \A r \in Requests : req[r] \in Slot
        /\ DOMAIN users \in SUBSET Ids
    BY DEF TypeOK, Slot
  <2>2. Registering \in SUBSET Requests /\ Registering' \in SUBSET Requests
    BY DEF Registering
  <2>3. /\ Cardinality(DOMAIN users) \in Nat /\ Cardinality(Registering) \in Nat
        /\ Cardinality(Registering') \in Nat /\ Cardinality(Requests) \in Nat
        /\ Cardinality(Registering') <= Cardinality(Requests)
    BY <2>1, <2>2, Finite
  \* Everybody stays, or leaves.
  <2>4. ASSUME DOMAIN users' \subseteq DOMAIN users, Registering' \subseteq Registering
        PROVE  Counted'
    <3>1. /\ Cardinality(DOMAIN users') <= Cardinality(DOMAIN users)
          /\ Cardinality(Registering') <= Cardinality(Registering)
      BY <2>1, <2>2, <2>4, Finite, FS_Subset
    <3>2. Cardinality(DOMAIN users') \in Nat
      BY <2>1, <2>4, Finite
    <3> QED BY <2>3, <3>1, <3>2 DEF Counted
  <2>5. ASSUME NEW r \in Requests, NEW name \in Names, RegisterFirst(r, name)
        PROVE  Counted'
    <3>1. DOMAIN users' = {}
      BY <2>5 DEF RegisterFirst
    <3> QED BY <2>3, <3>1, FS_EmptySet DEF Counted
  <2>6. ASSUME NEW r \in Requests, RegisterInsert(r) PROVE Counted'
    <3>1. r \in Registering /\ Registering' = Registering \ {r}
      BY <2>1, <2>6 DEF RegisterInsert, Registering, Finish, Idle
    <3>2. Cardinality(Registering') = Cardinality(Registering) - 1
      BY <2>2, <3>1, Finite, FS_RemoveElement
    <3>3. DOMAIN users' = DOMAIN users \/ \E n \in Ids : DOMAIN users' = DOMAIN users \union {n}
      BY <2>6 DEF RegisterInsert, Insert
    <3>4. /\ Cardinality(DOMAIN users') \in Nat
          /\ Cardinality(DOMAIN users') <= Cardinality(DOMAIN users) + 1
      <4>1. ASSUME NEW n \in Ids, DOMAIN users' = DOMAIN users \union {n}
            PROVE  /\ Cardinality(DOMAIN users') \in Nat
                   /\ Cardinality(DOMAIN users') <= Cardinality(DOMAIN users) + 1
        <5>1. IsFiniteSet(DOMAIN users)
          BY <2>1, Finite
        <5>2. Cardinality(DOMAIN users \union {n}) =
                IF n \in DOMAIN users THEN Cardinality(DOMAIN users)
                ELSE Cardinality(DOMAIN users) + 1
          BY <5>1, FS_AddElement
        <5> QED BY <2>3, <4>1, <5>2
      <4>2. CASE DOMAIN users' = DOMAIN users
        <5>1. Cardinality(DOMAIN users') = Cardinality(DOMAIN users)
          BY <4>2
        <5> QED BY <2>3, <5>1
      <4> QED BY <3>3, <4>1, <4>2
    <3> QED BY <2>3, <3>2, <3>4 DEF Counted
  <2>7. ASSUME NEW r \in Requests, RegisterName(r) PROVE Counted'
    <3>1. Registering' \subseteq Registering
      BY <2>1, <2>7 DEF RegisterName, Registering, Finish, Idle, Slot
    <3> QED BY <2>4, <2>7, <3>1 DEF RegisterName
  <2>8. ASSUME NEW r \in Requests, DOMAIN users' \subseteq DOMAIN users,
               Finish(r) \/ DeleteCollect(r) \/ DeleteLink(r)
        PROVE  Counted'
    <3>1. Registering' \subseteq Registering
      BY <2>1, <2>8 DEF DeleteCollect, DeleteLink, Registering, Finish, Idle, Slot
    <3> QED BY <2>4, <2>8, <3>1
  <2>9. ASSUME NEW r \in Requests, NEW phase \in Phases, NEW by, NEW id, NEW name,
               Begin(r, phase, by, id, name), users' = users,
               phase \notin {"register_name", "register_insert"}
        PROVE  Counted'
    <3>1. Registering' \subseteq Registering
      BY <2>1, <2>9 DEF Begin, Registering, Idle
    <3> QED BY <2>4, <2>9, <3>1
  <2>10. CASE OwnedRows \/ UNCHANGED vars
    <3>1. users' = users /\ req' = req
      BY <2>10 DEF OwnedRows, JournalEntry, TaskCreate, TaskDelete, vars
    <3> QED BY <3>1 DEF Counted, Registering
  <2>11. ASSUME NEW r \in Requests, Register(r) PROVE Counted'
    BY <2>5, <2>6, <2>7, <2>11 DEF Register
  <2>12. ASSUME NEW r \in Requests, UpdateUser(r) PROVE Counted'
    <3>1. CASE RenameCommit(r)
      BY <2>8, <3>1 DEF RenameCommit
    <3> QED BY <2>9, <2>12, <3>1 DEF UpdateUser, RenameLoad, Phases
  <2>13. ASSUME NEW r \in Requests, DeleteUser(r) PROVE Counted'
    <3>1. CASE DeleteCommit(r)
      BY <2>8, <3>1 DEF DeleteCommit, Remove
    <3>2. CASE DeleteCollect(r) \/ DeleteLink(r)
      BY <2>8, <3>2 DEF DeleteCollect, DeleteLink
    <3> QED BY <2>9, <2>13, <3>1, <3>2 DEF DeleteUser, DeleteLoad, Phases
  <2>14. ASSUME NEW r \in Requests, ApiKeys(r) PROVE Counted'
    <3>1. CASE KeyInsert(r) \/ KeyDelete(r)
      BY <2>8, <3>1 DEF KeyInsert, KeyDelete
    <3> QED BY <2>9, <2>14, <3>1 DEF ApiKeys, KeyStart, KeyDeleteLoad, Phases
  <2> QED BY <2>10, <2>11, <2>12, <2>13, <2>14 DEF Next
<1>3. TypeOK /\ Counted => AccountsBounded
  <2> SUFFICES ASSUME TypeOK, Counted PROVE AccountsBounded
    OBVIOUS
  <2>1. DOMAIN users \in SUBSET Ids /\ Registering \in SUBSET Requests
    BY DEF TypeOK, Registering
  <2>2. Cardinality(DOMAIN users) \in Nat /\ Cardinality(Registering) \in Nat
        /\ Cardinality(Requests) \in Nat
    BY <2>1, Finite
  <2> QED BY <2>2 DEF Counted, AccountsBounded
<1> QED BY <1>1, <1>2, <1>3, TypeCorrect, PTL DEF Spec

-----------------------------------------------------------------------------
(* What happens to an account while it is being deleted.                    *)
Collected ==
  \A r \in Requests :
    /\ req[r].pc \in {"delete_link", "delete_commit"} =>
         \A k \in DOMAIN keys : keys[k] = req[r].id => k \in req[r].rows \/ k \in late.keys
    /\ req[r].pc = "delete_commit" =>
         \A k \in DOMAIN tasks : tasks[k] = req[r].id => k \in late.tasks

(* An administrator deletes somebody else.                                  *)
Others == \A r \in Requests :
  req[r].pc \in {"delete_collect", "delete_link", "delete_commit"} => req[r].by # req[r].id

(* A deletion moves on from what the step before it left.                   *)
LEMMA DeletePhases ==
  ASSUME TypeOK, [Next]_vars, NEW r \in Requests,
         req'[r].pc \in {"delete_collect", "delete_link", "delete_commit"}
  PROVE  \/ req'[r] = req[r]
         \/ /\ req'[r].pc = "delete_collect" /\ req'[r].by # req'[r].id
            /\ UNCHANGED <<users, keys, tasks, late>>
         \/ /\ req[r].pc = "delete_collect" /\ req'[r].pc = "delete_link"
            /\ req'[r].by = req[r].by /\ req'[r].id = req[r].id
            /\ req'[r].rows = {k \in DOMAIN keys : keys[k] = req[r].id}
            /\ UNCHANGED <<users, keys, tasks, late>>
         \/ /\ req[r].pc = "delete_link" /\ req'[r].pc = "delete_commit"
            /\ req'[r].by = req[r].by /\ req'[r].id = req[r].id
            /\ req'[r].rows = req[r].rows
            /\ \A k \in DOMAIN tasks : tasks[k] # req[r].id
            /\ UNCHANGED <<users, keys, tasks, late>>
<1>1. /\ DOMAIN req = Requests
      /\ \A q \in Requests : req[q] \in Slot
  BY DEF TypeOK, Slot
<1>2. SUFFICES ASSUME req'[r] # req[r]
               PROVE  \/ \E u \in Ids, id \in Ids : DeleteLoad(r, u, id)
                      \/ DeleteCollect(r) \/ (DeleteLink(r) /\ ~Finish(r))
  <2>1. ASSUME NEW u \in Ids, NEW id \in Ids, DeleteLoad(r, u, id)
        PROVE  /\ req'[r].pc = "delete_collect" /\ req'[r].by # req'[r].id
               /\ UNCHANGED <<users, keys, tasks, late>>
    BY <1>1, <2>1 DEF DeleteLoad, Begin, Idle
  <2>2. ASSUME DeleteCollect(r)
        PROVE  /\ req[r].pc = "delete_collect" /\ req'[r].pc = "delete_link"
               /\ req'[r].by = req[r].by /\ req'[r].id = req[r].id
               /\ req'[r].rows = {k \in DOMAIN keys : keys[k] = req[r].id}
               /\ UNCHANGED <<users, keys, tasks, late>>
    BY <1>1, <2>2 DEF DeleteCollect, Slot
  <2>3. ASSUME DeleteLink(r), ~Finish(r)
        PROVE  /\ req[r].pc = "delete_link" /\ req'[r].pc = "delete_commit"
               /\ req'[r].by = req[r].by /\ req'[r].id = req[r].id
               /\ req'[r].rows = req[r].rows
               /\ \A k \in DOMAIN tasks : tasks[k] # req[r].id
               /\ UNCHANGED <<users, keys, tasks, late>>
    BY <1>1, <2>3 DEF DeleteLink, Slot
  <2> QED BY <2>1, <2>2, <2>3
<1>3. ASSUME NEW q \in Requests, Finish(q) PROVE FALSE
  BY <1>1, <1>2, <1>3 DEF Finish, Idle
<1>4. ASSUME NEW q \in Requests, NEW phase, NEW by, NEW id, NEW name,
             Begin(q, phase, by, id, name),
             phase \notin {"delete_collect", "delete_link", "delete_commit"}
      PROVE  FALSE
  BY <1>1, <1>2, <1>4 DEF Begin, Idle
<1>5. ASSUME NEW q \in Requests, RegisterName(q) PROVE FALSE
  BY <1>1, <1>2, <1>3, <1>5 DEF RegisterName, Slot
<1>6. ASSUME NEW q \in Requests, DeleteUser(q)
      PROVE  \/ \E u \in Ids, id \in Ids : DeleteLoad(r, u, id)
             \/ DeleteCollect(r) \/ (DeleteLink(r) /\ ~Finish(r))
  <2>1. q = r \/ req'[r] = req[r]
    BY <1>1, <1>6 DEF DeleteUser, DeleteLoad, Begin, DeleteCollect, DeleteLink,
                      DeleteCommit, Finish
  <2> QED BY <1>2, <1>3, <1>6, <2>1 DEF DeleteUser, DeleteCommit
<1> QED BY <1>2, <1>3, <1>4, <1>5, <1>6
        DEF Next, vars, OwnedRows, Register, UpdateUser, ApiKeys, JournalEntry,
            TaskCreate, TaskDelete, RegisterFirst, RegisterInsert, RenameLoad,
            RenameCommit, KeyStart, KeyInsert, KeyDeleteLoad, KeyDelete

(* Admins cannot delete themselves: the last account goes only through a    *)
(* request whose own account was deleted while it was under way (auth.py,   *)
(* remove_user).                                                            *)
THEOREM LastAccountStays == Spec => LastAccountNeedsOverlap
<1>1. Init => Others
  BY DEF Init, Idle, Others
<1>2. TypeOK /\ Others /\ [Next]_vars => Others'
  BY DeletePhases DEF Others
<1>3. ASSUME Others, [Next]_vars
      PROVE  DOMAIN users # {} /\ DOMAIN users' = {} =>
               \E r \in Requests : req[r].pc = "delete_commit" /\ req[r].by \notin DOMAIN users
  <2> SUFFICES ASSUME DOMAIN users # {}, DOMAIN users' = {}
               PROVE  \E r \in Requests : /\ req[r].pc = "delete_commit"
                                          /\ req[r].by \notin DOMAIN users
    OBVIOUS
  <2>1. PICK r \in Requests : RegisterInsert(r) \/ RenameCommit(r) \/ DeleteCommit(r)
    BY <1>3 DEF Next, vars, OwnedRows, Register, UpdateUser, DeleteUser, ApiKeys,
           JournalEntry, TaskCreate, TaskDelete, RegisterFirst, RegisterName, RenameLoad,
           DeleteLoad, DeleteCollect, DeleteLink, KeyStart, KeyInsert, KeyDeleteLoad,
           KeyDelete
  <2>2. CASE RegisterInsert(r)
    BY <2>2 DEF RegisterInsert, Insert
  <2>3. CASE RenameCommit(r)
    BY <2>3 DEF RenameCommit
  <2>4. CASE DeleteCommit(r)
    BY <1>3, <2>4 DEF DeleteCommit, Remove, Others
  <2> QED BY <2>1, <2>2, <2>3, <2>4
<1> QED BY <1>1, <1>2, <1>3, TypeCorrect, PTL DEF Spec, LastAccountNeedsOverlap
(* remove_user leaves no key and no task that names the account, except     *)
(* those stored while the deletion was past looking for them, or for an     *)
(* account that was not there (crud.py, models.User).                       *)
THEOREM NothingStaysBehind == Spec => []NothingLeftBehind
<1>1. Init => Collected /\ NothingLeftBehind
  BY DEF Init, Idle, Collected, NothingLeftBehind
<1>2. TypeOK /\ Collected /\ NothingLeftBehind /\ [Next]_vars
        => Collected' /\ NothingLeftBehind'
  <2> SUFFICES ASSUME TypeOK, Collected, NothingLeftBehind, [Next]_vars
               PROVE  Collected' /\ NothingLeftBehind'
    OBVIOUS
  <2>1. /\ DOMAIN req = Requests
        /\ \A r \in Requests : req[r] \in Slot
        /\ late \in [keys: SUBSET RowIds, tasks: SUBSET RowIds]
    BY DEF TypeOK, Slot
  \* What a deletion had looked at is what it had, unless this step starts it.
  <2>2. ASSUME users' = users \/ \E n, name : users' = Insert(users, n, name),
               UNCHANGED <<keys, tasks, late>>
        PROVE  Collected' /\ NothingLeftBehind'
    <3>1. Collected'
      BY <2>2, DeletePhases DEF Collected
    <3>2. DOMAIN users \subseteq DOMAIN users'
      BY <2>2 DEF Insert
    <3> QED BY <2>2, <3>1, <3>2 DEF NothingLeftBehind
  <2>3. ASSUME NEW r \in Requests, RenameCommit(r) PROVE Collected' /\ NothingLeftBehind'
    <3>1. DOMAIN users' = DOMAIN users /\ UNCHANGED <<keys, tasks, late>>
      BY <2>3 DEF RenameCommit
    <3>2. Collected'
      BY <3>1, DeletePhases DEF Collected
    <3> QED BY <3>1, <3>2 DEF NothingLeftBehind
  <2>4. ASSUME NEW r \in Requests, DeleteCommit(r) PROVE Collected' /\ NothingLeftBehind'
    <3>1. /\ users' = Remove(users, {req[r].id}) /\ tasks' = tasks
          /\ keys' = Remove(keys, req[r].rows)
          /\ late'.tasks = late.tasks /\ late'.keys = late.keys \ req[r].rows
      BY <2>1, <2>4 DEF DeleteCommit
    <3>2. \A q \in Requests : req'[q] = IF q = r THEN Idle ELSE req[q]
      BY <2>1, <2>4 DEF DeleteCommit, Finish
    <3>3. Collected'
      BY <3>1, <3>2 DEF Collected, Remove, Idle
    <3>4. req[r].pc = "delete_commit"
      BY <2>4 DEF DeleteCommit
    <3>5. NothingLeftBehind'
      BY <3>1, <3>4 DEF NothingLeftBehind, Collected, Remove
    <3> QED BY <3>3, <3>5
  <2>5. ASSUME NEW r \in Requests, KeyInsert(r) PROVE Collected' /\ NothingLeftBehind'
    <3>1. PICK n \in RowIds :
            /\ keys' = Insert(keys, n, req[r].by)
            /\ late' = [late EXCEPT !.keys =
                 IF req[r].by \notin DOMAIN users \/ PastKeys(req[r].by)
                 THEN @ \union {n} ELSE @ \ {n}]
      BY <2>5 DEF KeyInsert
    <3>2. /\ UNCHANGED <<users, tasks>> /\ late'.tasks = late.tasks
          /\ \A k \in DOMAIN keys' \ {n} : /\ k \in DOMAIN keys /\ keys'[k] = keys[k]
                                           /\ k \in late'.keys <=> k \in late.keys
          /\ keys'[n] = req[r].by
          /\ req[r].by \notin DOMAIN users \/ PastKeys(req[r].by) => n \in late'.keys
      BY <2>1, <2>5, <3>1 DEF KeyInsert, Insert
    <3>3. \A q \in Requests : req'[q] = IF q = r THEN Idle ELSE req[q]
      BY <2>1, <2>5 DEF KeyInsert, Finish
    <3>4. Collected'
      BY <3>2, <3>3 DEF Collected, PastKeys, Idle
    <3> QED BY <3>2, <3>4 DEF NothingLeftBehind
  <2>6. ASSUME NEW r \in Requests, KeyDelete(r) PROVE Collected' /\ NothingLeftBehind'
    <3>1. /\ UNCHANGED <<users, tasks>> /\ keys' = Remove(keys, {req[r].id})
          /\ late'.tasks = late.tasks /\ late'.keys = late.keys \ {req[r].id}
      BY <2>1, <2>6 DEF KeyDelete
    <3>2. \A q \in Requests : req'[q] = IF q = r THEN Idle ELSE req[q]
      BY <2>1, <2>6 DEF KeyDelete, Finish
    <3> QED BY <3>1, <3>2 DEF Collected, NothingLeftBehind, Remove, Idle
  <2>7. ASSUME NEW u \in Ids, TaskCreate(u) PROVE Collected' /\ NothingLeftBehind'
    <3>1. PICK n \in RowIds :
            /\ tasks' = Insert(tasks, n, u)
            /\ late' = [late EXCEPT !.tasks = IF u \notin DOMAIN users \/ PastTasks(u)
                                              THEN @ \union {n} ELSE @ \ {n}]
      BY <2>7 DEF TaskCreate
    <3>2. /\ UNCHANGED <<users, keys, req>> /\ late'.keys = late.keys
          /\ \A k \in DOMAIN tasks' \ {n} : /\ k \in DOMAIN tasks /\ tasks'[k] = tasks[k]
                                            /\ k \in late'.tasks <=> k \in late.tasks
          /\ tasks'[n] = u
          /\ u \notin DOMAIN users \/ PastTasks(u) => n \in late'.tasks
      BY <2>1, <2>7, <3>1 DEF TaskCreate, Insert
    <3> QED BY <3>2 DEF Collected, NothingLeftBehind, PastTasks
  <2>8. ASSUME NEW n \in RowIds, TaskDelete(n) PROVE Collected' /\ NothingLeftBehind'
    <3>1. /\ UNCHANGED <<users, keys, req>> /\ tasks' = Remove(tasks, {n})
          /\ late'.keys = late.keys /\ late'.tasks = late.tasks \ {n}
      BY <2>1, <2>8 DEF TaskDelete
    <3> QED BY <3>1 DEF Collected, NothingLeftBehind, Remove
  <2>9. ASSUME NEW r \in Requests, RegisterInsert(r) PROVE Collected' /\ NothingLeftBehind'
    BY <2>2, <2>9 DEF RegisterInsert
  <2> QED BY <2>2, <2>3, <2>4, <2>5, <2>6, <2>7, <2>8, <2>9
          DEF Next, vars, OwnedRows, Register, UpdateUser, DeleteUser, ApiKeys,
              JournalEntry, RegisterFirst, RegisterName, RenameLoad, DeleteLoad,
              DeleteCollect, DeleteLink, KeyStart, KeyDeleteLoad
<1> QED BY <1>1, <1>2, TypeCorrect, PTL DEF Spec
=============================================================================
