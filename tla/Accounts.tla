------------------------------ MODULE Accounts ------------------------------
(***************************************************************************)
(* Accounts (src/auth.py, src/crud.py, src/models.py): table users, and     *)
(* what the rows that belong to an account become when it is deleted.       *)
(*                                                                          *)
(* Only the first registration succeeds: with an account in the table       *)
(* register_user calls get_current_active_user without its user and fails.  *)
(* It forces the admin role, and an update that names roles fails on the    *)
(* missing attribute roles_list, so every account is an administrator and   *)
(* roles are not modelled.  Passwords and tokens are data: a request is     *)
(* made by an account that exists when it starts.                           *)
(*                                                                          *)
(* Rows that belong to an account, by what models.User says of them:        *)
(*   keys     removed with it: api_keys, and likewise firewall_policies,    *)
(*            static_routes, user_role_assignments;                         *)
(*   journal  user_id becomes NULL: change_journal, and likewise            *)
(*            notification_rules, secrets, integrations, quotas;            *)
(*   tasks    scheduled_tasks.user_id is NOT NULL: the deletion fails.      *)
(* SQLite is not asked to enforce foreign keys.                             *)
(***************************************************************************)
EXTENDS Integers, FiniteSets

CONSTANTS
  Names,       \* user names
  Requests,    \* request slots
  MaxId,       \* bound on account ids
  MaxRow,      \* bound on the ids of each table of rows
  None

Ids    == 1..MaxId
RowIds == 1..MaxRow

ASSUME ConstantsAssumption ==
  /\ MaxId \in Nat /\ MaxRow \in Nat
  /\ IsFiniteSet(Requests)
  /\ None \notin Ids

VARIABLES
  users,      \* table users: id -> name
  keys,       \* table api_keys: id -> the account it belongs to
  journal,    \* table change_journal: id -> account or None (NULL)
  tasks,      \* table scheduled_tasks: id -> account
  req,        \* what each request slot is doing
  late        \* history: keys and tasks stored for an account that was
              \* being deleted or was not there

vars == <<users, keys, journal, tasks, req, late>>

Idle == [pc |-> "idle", by |-> 0, id |-> 0, name |-> None, rows |-> {}, linked |-> {}]

Init ==
  /\ users = [k \in {} |-> None]
  /\ keys = [k \in {} |-> 0]
  /\ journal = [k \in {} |-> 0]
  /\ tasks = [k \in {} |-> 0]
  /\ req = [r \in Requests |-> Idle]
  /\ late = [keys |-> {}, tasks |-> {}]

-----------------------------------------------------------------------------
FreshId(table, n) == /\ \A k \in DOMAIN table : k < n
                     /\ n = 1 \/ n - 1 \in DOMAIN table
Insert(table, n, row) == [k \in DOMAIN table \union {n} |-> IF k = n THEN row ELSE table[k]]
Remove(table, gone) == [k \in DOMAIN table \ gone |-> table[k]]
NameTaken(name, except) == \E k \in DOMAIN users \ except : users[k] = name

Finish(r) == req' = [req EXCEPT ![r] = Idle]
Begin(r, phase, by, id, name) ==
  /\ req[r].pc = "idle"
  /\ req' = [req EXCEPT ![r] = [Idle EXCEPT !.pc = phase, !.by = by, !.id = id, !.name = name]]

(* The dependencies of an endpoint: an account that is there.               *)
Authenticated(u) == u \in DOMAIN users

-----------------------------------------------------------------------------
(* register_user.                                                           *)
(* Mutated: the check for earlier accounts is dropped.                      *)
RegisterAlways(r, name) ==
  /\ Begin(r, "register_name", 0, 0, name)
  /\ UNCHANGED <<users, keys, journal, tasks, late>>

RegisterFirst(r, name) ==
  /\ DOMAIN users = {}
  /\ Begin(r, "register_name", 0, 0, name)
  /\ UNCHANGED <<users, keys, journal, tasks, late>>

RegisterName(r) ==
  /\ req[r].pc = "register_name"
  /\ IF NameTaken(req[r].name, {}) THEN Finish(r)
     ELSE req' = [req EXCEPT ![r].pc = "register_insert"]
  /\ UNCHANGED <<users, keys, journal, tasks, late>>

RegisterInsert(r) ==
  /\ req[r].pc = "register_insert"
  /\ IF NameTaken(req[r].name, {})
     THEN UNCHANGED users                                 \* IntegrityError
     ELSE \E n \in Ids : FreshId(users, n) /\ users' = Insert(users, n, req[r].name)
  /\ Finish(r)
  /\ UNCHANGED <<keys, journal, tasks, late>>

(* update_existing_user: the name of any account; a password is data.       *)
RenameLoad(r, u, id, name) ==
  /\ Authenticated(u)
  /\ id \in DOMAIN users
  /\ users[id] # name
  /\ Begin(r, "rename_commit", u, id, name)
  /\ UNCHANGED <<users, keys, journal, tasks, late>>

RenameCommit(r) ==
  /\ req[r].pc = "rename_commit"
  /\ IF \/ req[r].id \notin DOMAIN users                  \* StaleDataError
        \/ NameTaken(req[r].name, {req[r].id})            \* IntegrityError
     THEN UNCHANGED users
     ELSE users' = [users EXCEPT ![req[r].id] = req[r].name]
  /\ Finish(r)
  /\ UNCHANGED <<keys, journal, tasks, late>>

-----------------------------------------------------------------------------
(* remove_user.                                                             *)
(* Mutated: an account may delete itself.                                   *)
DeleteLoadSelf(r, u, id) ==
  /\ Authenticated(u)
  /\ id \in DOMAIN users
  /\ Begin(r, "delete_collect", u, id, None)
  /\ UNCHANGED <<users, keys, journal, tasks, late>>

DeleteLoad(r, u, id) ==
  /\ Authenticated(u)
  /\ id \in DOMAIN users
  /\ id # u
  /\ Begin(r, "delete_collect", u, id, None)
  /\ UNCHANGED <<users, keys, journal, tasks, late>>

(* db.delete loads what goes with the account; the flush inside commit      *)
(* loads what is only linked to it.                                         *)
DeleteCollect(r) ==
  /\ req[r].pc = "delete_collect"
  /\ req' = [req EXCEPT ![r].pc = "delete_link",
                        ![r].rows = {k \in DOMAIN keys : keys[k] = req[r].id}]
  /\ UNCHANGED <<users, keys, journal, tasks, late>>

DeleteLink(r) ==
  /\ req[r].pc = "delete_link"
  /\ IF \E k \in DOMAIN tasks : tasks[k] = req[r].id
     THEN Finish(r)                                       \* user_id NOT NULL
     ELSE req' = [req EXCEPT ![r].pc = "delete_commit",
                             ![r].linked = {k \in DOMAIN journal : journal[k] = req[r].id}]
  /\ UNCHANGED <<users, keys, journal, tasks, late>>

(* Mutated: the account goes without its keys; the journal goes with it.    *)
DeleteCommitOnly(r) ==
  /\ req[r].pc = "delete_commit"
  /\ users' = Remove(users, {req[r].id})
  /\ journal' = [k \in DOMAIN journal |-> IF k \in req[r].linked THEN None ELSE journal[k]]
  /\ Finish(r)
  /\ UNCHANGED <<keys, tasks, late>>
DeleteCommitAll(r) ==
  /\ req[r].pc = "delete_commit"
  /\ users' = Remove(users, {req[r].id})
  /\ keys' = Remove(keys, req[r].rows)
  /\ journal' = Remove(journal, req[r].linked)
  /\ late' = [late EXCEPT !.keys = @ \ req[r].rows]
  /\ Finish(r)
  /\ UNCHANGED tasks

DeleteCommit(r) ==
  /\ req[r].pc = "delete_commit"
  /\ users' = Remove(users, {req[r].id})
  /\ keys' = Remove(keys, req[r].rows)
  /\ journal' = [k \in DOMAIN journal |-> IF k \in req[r].linked THEN None ELSE journal[k]]
  /\ late' = [late EXCEPT !.keys = @ \ req[r].rows]
  /\ Finish(r)
  /\ UNCHANGED tasks

(* The deletion of account u no longer looks for keys, for tasks.           *)
PastKeys(u)  == \E r \in Requests :
                  req[r].id = u /\ req[r].pc \in {"delete_link", "delete_commit"}
PastTasks(u) == \E r \in Requests : req[r].id = u /\ req[r].pc = "delete_commit"

-----------------------------------------------------------------------------
(* create_user_api_key and delete_user_api_key, of the account itself.      *)
(* Mutated: the request does not keep its account.                          *)
KeyStartAnonymous(r, u) ==
  /\ Authenticated(u)
  /\ Begin(r, "key_insert", 0, 0, None)
  /\ UNCHANGED <<users, keys, journal, tasks, late>>

KeyStart(r, u) ==
  /\ Authenticated(u)
  /\ Begin(r, "key_insert", u, 0, None)
  /\ UNCHANGED <<users, keys, journal, tasks, late>>

KeyInsert(r) ==
  /\ req[r].pc = "key_insert"
  /\ \E n \in RowIds :
       /\ FreshId(keys, n)
       /\ keys' = Insert(keys, n, req[r].by)
       /\ late' = [late EXCEPT !.keys = IF req[r].by \notin DOMAIN users \/ PastKeys(req[r].by)
                                        THEN @ \union {n} ELSE @ \ {n}]
  /\ Finish(r)
  /\ UNCHANGED <<users, journal, tasks>>

KeyDeleteLoad(r, u, k) ==
  /\ Authenticated(u)
  /\ k \in DOMAIN keys /\ keys[k] = u
  /\ Begin(r, "key_delete", u, k, None)
  /\ UNCHANGED <<users, keys, journal, tasks, late>>

KeyDelete(r) ==
  /\ req[r].pc = "key_delete"
  /\ keys' = Remove(keys, {req[r].id})
  /\ late' = [late EXCEPT !.keys = @ \ {req[r].id}]
  /\ Finish(r)
  /\ UNCHANGED <<users, journal, tasks>>

(* An entry of the journal is written for the account of a request; nothing *)
(* deletes one.                                                             *)
JournalEntry(u) ==
  /\ Authenticated(u)
  /\ \E n \in RowIds : FreshId(journal, n) /\ journal' = Insert(journal, n, u)
  /\ UNCHANGED <<users, keys, tasks, req, late>>

(* The user_id of a scheduled task is what the client sent.                 *)
TaskCreate(u) ==
  /\ \E n \in RowIds :
       /\ FreshId(tasks, n)
       /\ tasks' = Insert(tasks, n, u)
       /\ late' = [late EXCEPT !.tasks = IF u \notin DOMAIN users \/ PastTasks(u)
                                         THEN @ \union {n} ELSE @ \ {n}]
  /\ UNCHANGED <<users, keys, journal, req>>

TaskDelete(n) ==
  /\ n \in DOMAIN tasks
  /\ tasks' = Remove(tasks, {n})
  /\ late' = [late EXCEPT !.tasks = @ \ {n}]
  /\ UNCHANGED <<users, keys, journal, req>>

-----------------------------------------------------------------------------
Register(r) ==
  \/ \E name \in Names : RegisterFirst(r, name)
  \/ RegisterName(r) \/ RegisterInsert(r)

UpdateUser(r) ==
  \/ \E u \in Ids, id \in Ids, name \in Names : RenameLoad(r, u, id, name)
  \/ RenameCommit(r)

DeleteUser(r) ==
  \/ \E u \in Ids, id \in Ids : DeleteLoad(r, u, id)
  \/ DeleteCollect(r) \/ DeleteLink(r) \/ DeleteCommit(r)

ApiKeys(r) ==
  \/ \E u \in Ids : KeyStart(r, u)
  \/ KeyInsert(r)
  \/ \E u \in Ids, k \in RowIds : KeyDeleteLoad(r, u, k)
  \/ KeyDelete(r)

OwnedRows ==
  \/ \E u \in Ids : JournalEntry(u) \/ TaskCreate(u)
  \/ \E n \in RowIds : TaskDelete(n)

Next == OwnedRows \/ \E r \in Requests : Register(r) \/ UpdateUser(r) \/ DeleteUser(r) \/ ApiKeys(r)

Spec == Init /\ [][Next]_vars

-----------------------------------------------------------------------------
Phases == {"idle", "register_name", "register_insert", "rename_commit",
           "delete_collect", "delete_link", "delete_commit", "key_insert", "key_delete"}

(* Type invariant of the tables and the request slots (models.User,         *)
(* models.APIKey, models.ChangeJournal, models.ScheduledTask).              *)
TypeOK ==
  /\ DOMAIN users \subseteq Ids /\ users \in [DOMAIN users -> Names]
  /\ DOMAIN keys \subseteq RowIds /\ keys \in [DOMAIN keys -> Ids]
  /\ DOMAIN journal \subseteq RowIds /\ journal \in [DOMAIN journal -> Ids \union {None}]
  /\ DOMAIN tasks \subseteq RowIds /\ tasks \in [DOMAIN tasks -> Ids]
  /\ req \in [Requests -> [pc: Phases, by: Ids \union {0}, id: Ids \union RowIds \union {0},
                           name: Names \union {None}, rows: SUBSET RowIds,
                           linked: SUBSET RowIds]]
  /\ \A r \in Requests :
       /\ req[r].pc \in {"register_name", "register_insert", "rename_commit"}
            => req[r].name \in Names
       /\ req[r].pc = "key_insert" => req[r].by \in Ids
  /\ late \in [keys: SUBSET RowIds, tasks: SUBSET RowIds]

(* User names stay unique although registration and rename look for a       *)
(* taken name, or do not look at all, long before they commit               *)
(* (models.User.username, UNIQUE).                                          *)
UniqueNames ==
  \A i, j \in DOMAIN users : i # j => users[i] # users[j]

(* register_user makes an administrator of whoever finds the table empty:   *)
(* there are never more accounts than requests that can overlap, one if     *)
(* they do not.                                                             *)
AccountsBounded == Cardinality(DOMAIN users) <= Cardinality(Requests)

(* remove_user leaves no key and no task behind that names the account,     *)
(* except those that a call stored while the deletion was past looking for  *)
(* them, or for an account that was not there.                              *)
NothingLeftBehind ==
  /\ \A k \in DOMAIN keys : keys[k] \notin DOMAIN users => k \in late.keys
  /\ \A k \in DOMAIN tasks : tasks[k] \notin DOMAIN users => k \in late.tasks

(* The journal outlives accounts: no entry goes, and an entry loses its     *)
(* account only in the step that deletes it (User.change_journal_entries    *)
(* has no delete cascade).                                                  *)
JournalKept ==
  [][\A k \in DOMAIN journal :
       /\ k \in DOMAIN journal'
       /\ journal'[k] # journal[k]
            => journal'[k] = None /\ journal[k] \notin DOMAIN users']_vars

(* "Admins cannot delete themselves": the last account goes only through a  *)
(* request whose own account was deleted while it was under way.            *)
LastAccountNeedsOverlap ==
  [][DOMAIN users # {} /\ DOMAIN users' = {} =>
       \E r \in Requests : req[r].pc = "delete_commit" /\ req[r].by \notin DOMAIN users]_vars
=============================================================================
