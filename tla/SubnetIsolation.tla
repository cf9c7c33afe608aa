-------------------------- MODULE SubnetIsolation --------------------------
(***************************************************************************)
(* Subnets and the rules that connect them (src/routers/subnets.py,         *)
(* src/routers/subnet_connections.py, the command generators of             *)
(* src/vyos_core.py): tables subnets and subnet_connection_rules against    *)
(* the router's firewall policies and the single policy slot of eth1 `in'.  *)
(*                                                                          *)
(* Three facts of the code shape the control flow:                          *)
(*  - the role dependency returns no user, so a handler that reaches an     *)
(*    audit_log_action raises there: every `except' branch that logs and    *)
(*    means to go on ends the request instead;                              *)
(*  - COMMIT expires the subnets loaded before it, so the connection        *)
(*    handlers fail, after their commit, on the first `.cidr' they read;    *)
(*  - the generator of isolation commands returns none for a subnet whose   *)
(*    new state is `not isolated'.                                          *)
(* CIDRs are unique like names and are not modelled apart from them.        *)
(***************************************************************************)
EXTENDS Integers, FiniteSets

CONSTANTS
  Names,          \* subnet names
  Services,       \* protocol and ports of a connection rule
  Nullable,       \* those with a NULL port: no UNIQUE constraint applies
  Requests,       \* request slots
  MaxId,          \* bound on subnet ids
  MaxRule,        \* bound on rule ids
  Answers,        \* outcomes of a router call: "ok", "refused", "lost"
  Crashes,
  None            \* no row; nothing bound to eth1

Ids     == 1..MaxId
RuleIds == 1..MaxRule
Subnet  == [name: Names, isolated: BOOLEAN]
Rule    == [src: Ids, dst: Ids, svc: Services, enabled: BOOLEAN]

ASSUME ConstantsAssumption ==
  /\ MaxId \in Nat /\ MaxRule \in Nat
  /\ Nullable \subseteq Services
  /\ Answers \subseteq {"ok", "refused", "lost"}
  /\ Crashes \in BOOLEAN
  /\ IsFiniteSet(Requests)

(* firewall name SUBNET_<id>_ISOLATION and SUBNET_<src>_TO_<dst>            *)
Isolation(id)   == <<id, id, "isolation">>
Connection(row) == <<row.src, row.dst, "connection">>
Policies == Ids \X Ids \X {"isolation", "connection"}

VARIABLES
  subnets,    \* table subnets: id -> Subnet
  rules,      \* table subnet_connection_rules: id -> Rule
  router,     \* policies: those that exist; accepting: those with an accept
              \* rule; bound: interfaces ethernet eth1 firewall in name
  req,        \* what each request slot is doing
  unapplied,  \* history: subnets whose policy the router did not get, or lost
              \* to a deletion that a restart ended
  released    \* history: subnets whose policy an update or a restart left behind

vars == <<subnets, rules, router, req, unapplied, released>>

Idle == [pc |-> "idle", id |-> 0, old |-> None, new |-> None, plan |-> "none"]

Init ==
  /\ subnets = [k \in {} |-> None]
  /\ rules = [k \in {} |-> None]
  /\ router = [policies |-> {}, accepting |-> {}, bound |-> None]
  /\ req = [r \in Requests |-> Idle]
  /\ unapplied = {}
  /\ released = {}

-----------------------------------------------------------------------------
(* The router.  A policy slot holds one policy: `set' takes it over, and    *)
(* `delete' empties it only if it holds the policy named.                   *)
Unbind(cfg, policy) == IF cfg.bound = policy THEN None ELSE cfg.bound

SetIsolation(cfg, id) ==
  [cfg EXCEPT !.policies = @ \union {Isolation(id)}, !.bound = Isolation(id)]

(* Mutated: the policy goes but the interface still names it.               *)
DeletePolicyOnly(cfg, id) == [cfg EXCEPT !.policies = @ \ {Isolation(id)}]

DeleteIsolation(cfg, id) ==
  [cfg EXCEPT !.policies = @ \ {Isolation(id)}, !.bound = Unbind(cfg, Isolation(id))]

SetConnection(cfg, rule) ==
  [cfg EXCEPT !.policies = @ \union {Connection(rule)},
              !.accepting = @ \union {Connection(rule)},
              !.bound = Connection(rule)]

(* Only the numbered rule goes, the policy stays.                           *)
DeleteConnection(cfg, rule) ==
  [cfg EXCEPT !.accepting = @ \ {Connection(rule)},
              !.bound = Unbind(cfg, Connection(rule))]

Call(answer, after) == router' = IF answer = "refused" THEN router ELSE after

Finish(r) == req' = [req EXCEPT ![r] = Idle]
GoTo(r, phase) == req' = [req EXCEPT ![r].pc = phase]
Begin(r, phase, id, old, new, plan) ==
  /\ req[r].pc = "idle"
  /\ req' = [req EXCEPT ![r] = [pc |-> phase, id |-> id, old |-> old,
                                new |-> new, plan |-> plan]]

(* SQLite row ids: the id of a deleted last row is used again.  A create    *)
(* starts only while every slot would find an id.                           *)
FreshId(table, n) == /\ \A k \in DOMAIN table : k < n
                     /\ n = 1 \/ n - 1 \in DOMAIN table
Room(table, max) == \A k \in DOMAIN table : k + Cardinality(Requests) <= max
Insert(table, n, row) == [k \in DOMAIN table \union {n} |-> IF k = n THEN row ELSE table[k]]
Remove(table, n) == [k \in DOMAIN table \ {n} |-> table[k]]
NameTaken(name, except) == \E k \in DOMAIN subnets \ except : subnets[k].name = name

-----------------------------------------------------------------------------
(* create_subnet                                                            *)
CreateCheck(r, new) ==
  /\ Room(subnets, MaxId)
  /\ ~NameTaken(new.name, {})
  /\ Begin(r, "create_insert", 0, None, new, "none")
  /\ UNCHANGED <<subnets, rules, router, unapplied, released>>

CreateInsert(r) ==
  /\ req[r].pc = "create_insert"
  /\ IF NameTaken(req[r].new.name, {})
     THEN Finish(r) /\ UNCHANGED <<subnets, unapplied, released>>   \* IntegrityError
     ELSE \E n \in Ids :
            /\ FreshId(subnets, n)
            /\ subnets' = Insert(subnets, n, req[r].new)
            /\ unapplied' = unapplied \ {n}
            /\ released' = IF req[r].new.isolated THEN released \ {n} ELSE released
            /\ req' = [req EXCEPT ![r].pc = "create_refresh", ![r].id = n]
  /\ UNCHANGED <<rules, router>>

CreateRefresh(r) ==
  /\ req[r].pc = "create_refresh"
  /\ IF req[r].id \in DOMAIN subnets /\ subnets[req[r].id].isolated
     THEN GoTo(r, "create_isolate") ELSE Finish(r)
  /\ UNCHANGED <<subnets, rules, router, unapplied, released>>

CreateIsolate(r, answer) ==
  /\ req[r].pc = "create_isolate"
  /\ Call(answer, SetIsolation(router, req[r].id))
  /\ unapplied' = IF answer = "ok" THEN unapplied ELSE unapplied \union {req[r].id}
  /\ Finish(r)
  /\ UNCHANGED <<subnets, rules, released>>

(* update_subnet: a router call only when the subnet becomes isolated.      *)
UpdateLoad(r, id, new) ==
  /\ id \in DOMAIN subnets
  /\ new.name # subnets[id].name => ~NameTaken(new.name, {})
  /\ Begin(r, IF new.isolated /\ ~subnets[id].isolated THEN "update_isolate"
              ELSE "update_commit", id, subnets[id], new, "none")
  /\ UNCHANGED <<subnets, rules, router, unapplied, released>>

(* Mutated: the row is updated although the router refused the policy.      *)
UpdateIsolateAnyway(r, answer) ==
  /\ req[r].pc = "update_isolate"
  /\ Call(answer, SetIsolation(router, req[r].id))
  /\ GoTo(r, "update_commit")
  /\ UNCHANGED <<subnets, rules, unapplied, released>>

UpdateIsolate(r, answer) ==
  /\ req[r].pc = "update_isolate"
  /\ Call(answer, SetIsolation(router, req[r].id))
  /\ IF answer = "ok"
     THEN GoTo(r, "update_commit") /\ unapplied' = unapplied \ {req[r].id}
     ELSE Finish(r) /\ UNCHANGED unapplied
  /\ UNCHANGED <<subnets, rules, released>>

(* Mutated: two columns are swapped.                                        *)
MergedSwapped(row, old, new) == [name |-> new.isolated, isolated |-> row.isolated]

(* Only the columns that differ from the row loaded are written.            *)
Merged(row, old, new) ==
  [name     |-> IF new.name # old.name THEN new.name ELSE row.name,
   isolated |-> IF new.isolated # old.isolated THEN new.isolated ELSE row.isolated]

(* released: the row is stored as not isolated, and no call was made.       *)
UpdateCommit(r) ==
  /\ req[r].pc = "update_commit"
  /\ LET id  == req[r].id
         old == req[r].old
         new == req[r].new
     IN IF \/ id \notin DOMAIN subnets                    \* StaleDataError
           \/ new.name # old.name /\ NameTaken(new.name, {id})
        THEN UNCHANGED <<subnets, released>>
        ELSE /\ subnets' = [subnets EXCEPT ![id] = Merged(@, old, new)]
             /\ released' = IF new.isolated = old.isolated THEN released
                            ELSE IF new.isolated THEN released \ {id}
                            ELSE released \union {id}
  /\ Finish(r)
  /\ UNCHANGED <<rules, router, unapplied>>

(* delete_subnet: the flag loaded decides whether the policy is removed;    *)
(* rules and mappings that name the subnet are not looked at.               *)
(* Mutated: the deletion leaves the router alone.                           *)
DeleteLoadRowOnly(r, id) ==
  /\ id \in DOMAIN subnets
  /\ Begin(r, "delete_commit", id, subnets[id], None, "none")
  /\ UNCHANGED <<subnets, rules, router, unapplied, released>>

DeleteLoad(r, id) ==
  /\ id \in DOMAIN subnets
  /\ Begin(r, IF subnets[id].isolated THEN "delete_isolation" ELSE "delete_commit",
           id, subnets[id], None, "none")
  /\ UNCHANGED <<subnets, rules, router, unapplied, released>>

DeleteIsolationStep(r, answer) ==
  /\ req[r].pc = "delete_isolation"
  /\ Call(answer, DeleteIsolation(router, req[r].id))
  /\ IF answer = "ok" THEN GoTo(r, "delete_commit") ELSE Finish(r)
  /\ released' = IF answer = "refused" THEN released ELSE released \ {req[r].id}
  /\ UNCHANGED <<subnets, rules, unapplied>>

DeleteCommit(r) ==
  /\ req[r].pc = "delete_commit"
  /\ subnets' = Remove(subnets, req[r].id)
  /\ unapplied' = unapplied \ {req[r].id}
  /\ Finish(r)
  /\ UNCHANGED <<rules, router, released>>

-----------------------------------------------------------------------------
(* create_subnet_connection_rule: after the commit the handler reads the    *)
(* expired source_subnet.cidr, so an enabled rule never reaches the router. *)
SameRule(a, b) == a.src = b.src /\ a.dst = b.dst /\ a.svc = b.svc

ConnectCheck(r, new) ==
  /\ Room(rules, MaxRule)
  /\ {new.src, new.dst} \subseteq DOMAIN subnets
  /\ \A k \in DOMAIN rules : ~SameRule(rules[k], new)
  /\ Begin(r, "connect_insert", 0, None, new, "none")
  /\ UNCHANGED <<subnets, rules, router, unapplied, released>>

ConnectInsert(r) ==
  /\ req[r].pc = "connect_insert"
  /\ IF /\ req[r].new.svc \notin Nullable
        /\ \E k \in DOMAIN rules : SameRule(rules[k], req[r].new)
     THEN UNCHANGED rules                                 \* IntegrityError
     ELSE \E n \in RuleIds : FreshId(rules, n) /\ rules' = Insert(rules, n, req[r].new)
  /\ Finish(r)
  /\ UNCHANGED <<subnets, router, unapplied, released>>

(* update_subnet_connection_rule: the two subnets are loaded before the     *)
(* commit.  Unless both are gone, reading the `.cidr' of the one that is    *)
(* there fails after it, and no call is made.                               *)
Plan(rule, enabled) ==
  IF {rule.src, rule.dst} \intersect DOMAIN subnets # {} THEN "none"
  ELSE IF enabled = rule.enabled THEN "recreate"
  ELSE IF enabled THEN "set" ELSE "delete"

SwitchLoad(r, k, svc, enabled) ==
  /\ k \in DOMAIN rules
  /\ Begin(r, "switch_commit", k, rules[k],
           [rules[k] EXCEPT !.svc = svc, !.enabled = enabled], Plan(rules[k], enabled))
  /\ UNCHANGED <<subnets, rules, router, unapplied, released>>

(* What an update may store: the columns it was given that differ from the  *)
(* row loaded.  Protocol and ports are three columns, so that two updates   *)
(* that both change them may mix into any service.                          *)
Switched(now, old, new) ==
  {[now EXCEPT !.svc = svc,
               !.enabled = IF new.enabled # old.enabled THEN new.enabled ELSE now.enabled] :
     svc \in IF new.svc = old.svc THEN {now.svc}
            ELSE IF now.svc = old.svc THEN {new.svc} ELSE Services}

SwitchCommit(r) ==
  /\ req[r].pc = "switch_commit"
  /\ IF req[r].id \in DOMAIN rules
     THEN \E row \in Switched(rules[req[r].id], req[r].old, req[r].new) :
            IF /\ row.svc \notin Nullable                 \* IntegrityError
               /\ \E k \in DOMAIN rules \ {req[r].id} : SameRule(rules[k], row)
            THEN Finish(r) /\ UNCHANGED rules
            ELSE /\ rules' = [rules EXCEPT ![req[r].id] = row]
                 /\ IF req[r].plan = "none" THEN Finish(r) ELSE GoTo(r, "switch_refresh")
     ELSE Finish(r) /\ UNCHANGED rules                    \* StaleDataError
  /\ UNCHANGED <<subnets, router, unapplied, released>>

SwitchRefresh(r) ==
  /\ req[r].pc = "switch_refresh"
  /\ IF /\ req[r].id \in DOMAIN rules
        /\ req[r].plan = "delete" \/ rules[req[r].id].enabled
     THEN req' = [req EXCEPT ![r].pc = "switch_apply", ![r].new = rules[req[r].id]]
     ELSE Finish(r)
  /\ UNCHANGED <<subnets, rules, router, unapplied, released>>

SwitchApply(r, answer) ==
  /\ req[r].pc = "switch_apply"
  /\ Call(answer,
          CASE req[r].plan = "set"    -> SetConnection(router, req[r].new)
            [] req[r].plan = "delete" -> DeleteConnection(router, req[r].new)
            [] OTHER -> SetConnection(DeleteConnection(router, req[r].new), req[r].new))
  /\ Finish(r)
  /\ UNCHANGED <<subnets, rules, unapplied, released>>

(* delete_subnet_connection_rule: no commit comes before the call.          *)
DisconnectLoad(r, k) ==
  /\ k \in DOMAIN rules
  /\ Begin(r, IF rules[k].enabled THEN "disconnect_call" ELSE "disconnect_commit",
           k, rules[k], None, "none")
  /\ UNCHANGED <<subnets, rules, router, unapplied, released>>

DisconnectCall(r, answer) ==
  /\ req[r].pc = "disconnect_call"
  /\ Call(answer, DeleteConnection(router, req[r].old))
  /\ IF answer = "ok" THEN GoTo(r, "disconnect_commit") ELSE Finish(r)
  /\ UNCHANGED <<subnets, rules, unapplied, released>>

DisconnectCommit(r) ==
  /\ req[r].pc = "disconnect_commit"
  /\ rules' = Remove(rules, req[r].id)
  /\ Finish(r)
  /\ UNCHANGED <<subnets, router, unapplied, released>>

-----------------------------------------------------------------------------
(* The process dies: requests in flight are gone, the tables and the router *)
(* keep what they have.                                                     *)
CutOff(phases) == {req[r].id : r \in {q \in Requests : req[q].pc \in phases}}

Isolates(r) == req[r].pc = "update_commit" /\ req[r].new.isolated /\ ~req[r].old.isolated

Crash ==
  /\ Crashes
  /\ \E r \in Requests : req[r] # Idle
  /\ req' = [r \in Requests |-> Idle]
  /\ unapplied' = unapplied \union
       (CutOff({"create_refresh", "create_isolate", "delete_commit"}) \intersect DOMAIN subnets)
  /\ released' = released \union {req[r].id : r \in {q \in Requests : Isolates(q)}}
  /\ UNCHANGED <<subnets, rules, router>>

SubnetStep(r) ==
  \/ \E new \in Subnet : CreateCheck(r, new)
  \/ CreateInsert(r) \/ CreateRefresh(r)
  \/ \E id \in Ids, new \in Subnet : UpdateLoad(r, id, new)
  \/ UpdateCommit(r)
  \/ \E id \in Ids : DeleteLoad(r, id)
  \/ DeleteCommit(r)
  \/ \E answer \in Answers :
       CreateIsolate(r, answer) \/ UpdateIsolate(r, answer) \/ DeleteIsolationStep(r, answer)

RuleStep(r) ==
  \/ \E new \in Rule : ConnectCheck(r, new)
  \/ ConnectInsert(r)
  \/ \E k \in RuleIds, svc \in Services, enabled \in BOOLEAN : SwitchLoad(r, k, svc, enabled)
  \/ SwitchCommit(r) \/ SwitchRefresh(r)
  \/ \E k \in RuleIds : DisconnectLoad(r, k)
  \/ DisconnectCommit(r)
  \/ \E answer \in Answers : SwitchApply(r, answer) \/ DisconnectCall(r, answer)

Next == Crash \/ \E r \in Requests : SubnetStep(r) \/ RuleStep(r)

Spec == Init /\ [][Next]_vars

-----------------------------------------------------------------------------
Phases == {"idle", "create_insert", "create_refresh", "create_isolate",
           "update_isolate", "update_commit", "delete_isolation", "delete_commit",
           "connect_insert", "switch_commit", "switch_refresh", "switch_apply",
           "disconnect_call", "disconnect_commit"}

(* Type invariant of the two tables, the router and the request slots       *)
(* (models.Subnet, models.SubnetConnectionRule and the handlers' locals).   *)
TypeOK ==
  /\ DOMAIN subnets \subseteq Ids /\ subnets \in [DOMAIN subnets -> Subnet]
  /\ DOMAIN rules \subseteq RuleIds /\ rules \in [DOMAIN rules -> Rule]
  /\ router \in [policies: SUBSET Policies, accepting: SUBSET Policies,
                 bound: Policies \union {None}]
  /\ \A r \in Requests :
       /\ req[r].pc \in Phases /\ req[r].id \in Ids \union RuleIds \union {0}
       /\ req[r].old \in Subnet \union Rule \union {None}
       /\ req[r].new \in Subnet \union Rule \union {None}
       /\ req[r].plan \in {"none", "set", "delete", "recreate"}
  /\ unapplied \subseteq Ids /\ released \subseteq Ids

Quiet == \A r \in Requests : req[r].pc = "idle"

(* Between requests that did not overlap, a subnet stored as isolated has   *)
(* its policy on the router unless the call of its creation failed, or a    *)
(* restart ended its creation before the call or its deletion after it: no  *)
(* failing update or delete, in whatever order, loses it.                   *)
IsolatedHasPolicy ==
  Quiet => \A id \in DOMAIN subnets :
    subnets[id].isolated => Isolation(id) \in router.policies \/ id \in unapplied

(* Between such requests the router has no isolation policy but those of    *)
(* isolated subnets, whatever is deleted, rejected and created again under  *)
(* the same id: only an update that ends the isolation, which makes no      *)
(* call, and a restart that comes between an update's call and its COMMIT   *)
(* leave one behind, until the id is isolated again or its policy deleted.  *)
NoStrayPolicy ==
  Quiet => \A id \in Ids : Isolation(id) \in router.policies =>
    (id \in DOMAIN subnets /\ subnets[id].isolated) \/ id \in released

(* eth1 is never left bound to a policy that does not exist, whatever       *)
(* requests overlap, are lost or are cut off: every list of commands that   *)
(* removes a policy also takes it off the interface.                        *)
BoundPolicyExists == router.bound # None => router.bound \in router.policies

-----------------------------------------------------------------------------
(* What the repository's text says and the code does otherwise.             *)

(* "If true, hosts in this subnet cannot see hosts in other subnets"        *)
(* (docs/user/subnet-management.md): the policy of every isolated subnet is *)
(* in force on the interface.                                               *)
IsolationInForce ==
  Quiet => \A id \in DOMAIN subnets : subnets[id].isolated => router.bound = Isolation(id)
=============================================================================
