----------------------------- MODULE PortMappings -----------------------------
(***************************************************************************)
(* Port mappings (src/routers/port_mapping.py): table subnet_port_mappings. *)
(* The generator of the router commands (generate_port_forward_commands) is *)
(* a placeholder that returns none: every call is made, waited for and may  *)
(* fail, and it configures nothing.  So a call is only its outcome here.    *)
(*                                                                          *)
(* Only the columns of the key and the subnet are told apart; `port' stands *)
(* for the external port with its protocol.  An update that gives neither   *)
(* an address, a port nor a protocol changes only the description and is    *)
(* left out.  Every handler fails on the audit entry after its COMMIT.      *)
(* Subnets stay.                                                            *)
(***************************************************************************)
EXTENDS Integers

CONSTANTS
  Subnets, Ips,       \* subnets, external addresses
  Ports,              \* external port with protocol
  None,
  MaxMapping,         \* bound on ids
  Requests, Answers

MappingIds == 1..MaxMapping
Mapping    == [subnet: Subnets, ip: Ips, port: Ports]

VARIABLES
  mappings,   \* table subnet_port_mappings: id -> Mapping
  op          \* what each request slot is doing

vars == <<mappings, op>>

Idle == [pc |-> "idle", id |-> 0, row |-> None, new |-> None]

Init ==
  /\ mappings = [k \in {} |-> None]
  /\ op = [r \in Requests |-> Idle]

-----------------------------------------------------------------------------
FreshId(n) == /\ \A k \in DOMAIN mappings : k < n
              /\ n = 1 \/ n - 1 \in DOMAIN mappings
Finish(r) == op' = [op EXCEPT ![r] = Idle]
GoTo(r, phase) == op' = [op EXCEPT ![r].pc = phase]
Begin(r, phase, id, row, new) ==
  /\ op[r].pc = "idle"
  /\ op' = [op EXCEPT ![r] = [pc |-> phase, id |-> id, row |-> row, new |-> new]]

(* A call for which any outcome but `ok' is an exception.                   *)
CallThen(r, answer, phase) == IF answer = "ok" THEN GoTo(r, phase) ELSE Finish(r)

(* _subnet_port_mapping_uc                                                  *)
SameExternal(a, b) == a.ip = b.ip /\ a.port = b.port

-----------------------------------------------------------------------------
(* create_port_mapping                                                      *)
CreateCheck(r, row) ==
  /\ \A k \in DOMAIN mappings : ~SameExternal(mappings[k], row)
  /\ Begin(r, "create_set", 0, None, row)
  /\ UNCHANGED mappings

CreateSet(r, answer) ==
  /\ op[r].pc = "create_set"
  /\ CallThen(r, answer, "create_insert")
  /\ UNCHANGED mappings

CreateInsert(r) ==
  /\ op[r].pc = "create_insert"
  /\ IF \E k \in DOMAIN mappings : SameExternal(mappings[k], op[r].new)
     THEN UNCHANGED mappings                              \* IntegrityError
     ELSE \E n \in MappingIds : FreshId(n) /\ mappings' =
            [k \in DOMAIN mappings \union {n} |->
               IF k = n THEN op[r].new ELSE mappings[k]]
  /\ Finish(r)

-----------------------------------------------------------------------------
(* update_port_mapping: fields that are given count as changed; the subnet  *)
(* is not among them.                                                       *)
UpdateLoad(r, id, ip, port) ==
  /\ id \in DOMAIN mappings
  /\ Begin(r, "update_delete", id, mappings[id],
           [mappings[id] EXCEPT !.ip = ip, !.port = port])
  /\ UNCHANGED mappings

UpdateDelete(r, answer) ==
  /\ op[r].pc = "update_delete"
  /\ CallThen(r, answer, "update_set")
  /\ UNCHANGED mappings

UpdateSet(r, answer) ==
  /\ op[r].pc = "update_set"
  /\ GoTo(r, IF answer = "ok" THEN "update_commit" ELSE "update_rollback")
  /\ UNCHANGED mappings

(* The call that would put the old forward back; its failure is ignored.    *)
UpdateRollback(r) ==
  /\ op[r].pc = "update_rollback"
  /\ Finish(r)
  /\ UNCHANGED mappings

Net(wanted, loaded, stored) == IF wanted # loaded THEN wanted ELSE stored

(* Mutated: the whole row is written back as it was loaded and changed.     *)
WrittenWhole(r) == op[r].new

(* The UPDATE writes the columns that differ from the values loaded.        *)
Written(r) ==
  LET new == op[r].new
      row == op[r].row
  IN  [mappings[op[r].id] EXCEPT !.ip   = Net(new.ip, row.ip, @),
                                 !.port = Net(new.port, row.port, @)]

(* Nothing tests the new values for a duplicate before the router is told.  *)
UpdateCommit(r) ==
  /\ op[r].pc = "update_commit"
  /\ LET id == op[r].id
     IN IF \/ id \notin DOMAIN mappings                   \* StaleDataError
           \/ \E k \in DOMAIN mappings \ {id} : SameExternal(mappings[k], Written(r))
        THEN UNCHANGED mappings
        ELSE mappings' = [mappings EXCEPT ![id] = Written(r)]
  /\ Finish(r)

-----------------------------------------------------------------------------
(* delete_port_mapping                                                      *)
DeleteLoad(r, id) ==
  /\ id \in DOMAIN mappings
  /\ Begin(r, "delete_router", id, mappings[id], None)
  /\ UNCHANGED mappings

DeleteRouter(r, answer) ==
  /\ op[r].pc = "delete_router"
  /\ CallThen(r, answer, "delete_commit")
  /\ UNCHANGED mappings

DeleteCommit(r) ==
  /\ op[r].pc = "delete_commit"
  /\ mappings' = [k \in DOMAIN mappings \ {op[r].id} |-> mappings[k]]
  /\ Finish(r)

-----------------------------------------------------------------------------
Create(r) ==
  \/ \E row \in Mapping : CreateCheck(r, row)
  \/ \E answer \in Answers : CreateSet(r, answer)
  \/ CreateInsert(r)

Update(r) ==
  \/ \E id \in MappingIds, ip \in Ips, port \in Ports : UpdateLoad(r, id, ip, port)
  \/ \E answer \in Answers : UpdateDelete(r, answer) \/ UpdateSet(r, answer)
  \/ UpdateRollback(r)
  \/ UpdateCommit(r)

Delete(r) ==
  \/ \E id \in MappingIds : DeleteLoad(r, id)
  \/ \E answer \in Answers : DeleteRouter(r, answer)
  \/ DeleteCommit(r)

Next == \E r \in Requests : Create(r) \/ Update(r) \/ Delete(r)

Spec == Init /\ [][Next]_vars

-----------------------------------------------------------------------------
(* Type invariant of the table (models.SubnetPortMapping).                  *)
TypeOK ==
  /\ DOMAIN mappings \subseteq MappingIds /\ mappings \in [DOMAIN mappings -> Mapping]
  /\ DOMAIN op = Requests

(* A mapping stays with its subnet: an update that commits after its row    *)
(* was deleted, and the id given to a mapping of another subnet, changes    *)
(* the address and port of that one but never moves it.                     *)
SubnetKept ==
  [][\A k \in DOMAIN mappings \intersect DOMAIN mappings' :
        mappings'[k].subnet = mappings[k].subnet]_vars
=============================================================================
