--------------------------- MODULE FirewallPolicies ---------------------------
(***************************************************************************)
(* Firewall policies and their rules (src/crud.py, src/routers/firewall.py):*)
(* tables firewall_policies and firewall_rules, and the rules configured    *)
(* under `firewall name <name> rule <number>' on the router.                *)
(*                                                                          *)
(* default_action is an enum member once the row has been read back, and    *)
(* the journal's JSON column cannot hold it: create_firewall_policy and     *)
(* update_firewall_policy end with that error right after their COMMIT, so  *)
(* the router is never told of a new policy nor of a rename, and            *)
(* delete_firewall_policy ends with it after everything else.  The rule     *)
(* functions write no journal entry; the endpoints omit their policy_name   *)
(* (TypeError), so here a caller has looked the policy up as they do.       *)
(*                                                                          *)
(* Descriptions, default actions and matches are data; `value' stands for   *)
(* what a rule says.  A name's uniqueness test runs in the step that loads  *)
(* the policy.                                                              *)
(***************************************************************************)
EXTENDS Integers, FiniteSets

CONSTANTS
  Users, Names, Numbers, Values,
  Absent,             \* the router has no such rule
  None,
  MaxPolicy, MaxRule, \* bounds on ids
  Requests, Answers

PolicyIds == 1..MaxPolicy
RuleIds   == 1..MaxRule
Policy    == [user: Users, name: Names]
Rule      == [policy: PolicyIds, number: Numbers, value: Values]

VARIABLES
  policies,   \* table firewall_policies: id -> Policy
  rules,      \* table firewall_rules: id -> Rule
  filter,     \* the router: <<policy name, rule number>> -> value
  call,       \* what each request slot is doing
  disturbed,  \* history: requests overlapped, or an answer was lost
  drifted,    \* history: rules whose update failed, or whose policy was renamed
  late        \* history: rules stored while their policy went away

vars == <<policies, rules, filter, call, disturbed, drifted, late>>

Idle == [pc |-> "idle", id |-> 0, row |-> None, old |-> None, name |-> None, found |-> {}]

Init ==
  /\ policies = [k \in {} |-> None]
  /\ rules = [k \in {} |-> None]
  /\ filter = [p \in Names \X Numbers |-> Absent]
  /\ call = [r \in Requests |-> Idle]
  /\ disturbed = FALSE
  /\ drifted = {}
  /\ late = {}

-----------------------------------------------------------------------------
FreshId(table, n) == /\ \A k \in DOMAIN table : k < n
                     /\ n = 1 \/ n - 1 \in DOMAIN table
Put(table, n, row) == [k \in DOMAIN table \union {n} |-> IF k = n THEN row ELSE table[k]]
Remove(table, ids) == [k \in DOMAIN table \ ids |-> table[k]]

Finish(r) == call' = [call EXCEPT ![r] = Idle]
GoTo(r, phase) == call' = [call EXCEPT ![r].pc = phase]

(* row, old: the values wanted and those loaded; name: the policy name the  *)
(* caller passes; found: the rules a delete of the policy takes along.      *)
Begin(r, phase, id, row, old, name) ==
  /\ call[r].pc = "idle"
  /\ call' = [call EXCEPT ![r] = [pc |-> phase, id |-> id, row |-> row, old |-> old,
                                  name |-> name, found |-> {}]]
  /\ disturbed' = (disturbed \/ \E q \in Requests : call[q].pc # "idle")

SetRule(name, row) == [filter EXCEPT ![<<name, row.number>>] = row.value]
DeleteRule(name, number) == [filter EXCEPT ![<<name, number>>] = Absent]
DeletePolicy(name) ==
  [p \in DOMAIN filter |-> IF p[1] = name THEN Absent ELSE filter[p]]

(* vyos_api_call                                                            *)
Call(answer, after) ==
  /\ filter' = IF answer = "refused" THEN filter ELSE after
  /\ disturbed' = (disturbed \/ answer = "lost")

NameTaken(name, except) == \E k \in DOMAIN policies \ except : policies[k].name = name
SameNumber(a, b) == a.policy = b.policy /\ a.number = b.number
OfPolicy(id) == {k \in DOMAIN rules : rules[k].policy = id}

-----------------------------------------------------------------------------
(* Mutated: the arguments are swapped.                                      *)
PolicyCheckSwapped(r, u, name) ==
  /\ Begin(r, "policy_insert", 0, [user |-> name, name |-> u], None, None)
  /\ UNCHANGED <<policies, rules, filter, drifted, late>>

(* create_firewall_policy                                                   *)
PolicyCheck(r, u, name) ==
  /\ \A k \in DOMAIN policies : policies[k] # [user |-> u, name |-> name]
  /\ Begin(r, "policy_insert", 0, [user |-> u, name |-> name], None, None)
  /\ UNCHANGED <<policies, rules, filter, drifted, late>>

PolicyInsert(r) ==
  /\ call[r].pc = "policy_insert"
  /\ IF NameTaken(call[r].row.name, {})
     THEN UNCHANGED policies                              \* IntegrityError
     ELSE \E n \in PolicyIds :
            FreshId(policies, n) /\ policies' = Put(policies, n, call[r].row)
  /\ Finish(r)
  /\ UNCHANGED <<rules, filter, disturbed, drifted, late>>

(* update_firewall_policy: renames                                          *)
RenameLoad(r, u, id, name) ==
  /\ id \in DOMAIN policies
  /\ policies[id].user = u /\ policies[id].name # name
  /\ \A k \in DOMAIN policies : policies[k] # [user |-> u, name |-> name]
  /\ Begin(r, "rename_commit", id, None, None, name)
  /\ UNCHANGED <<policies, rules, filter, drifted, late>>

RenameCommit(r) ==
  /\ call[r].pc = "rename_commit"
  /\ IF call[r].id \notin DOMAIN policies \/ NameTaken(call[r].name, {call[r].id})
     THEN UNCHANGED <<policies, drifted>>       \* StaleDataError, IntegrityError
     ELSE /\ policies' = [policies EXCEPT ![call[r].id].name = call[r].name]
          /\ drifted' = drifted \union OfPolicy(call[r].id)
  /\ Finish(r)
  /\ UNCHANGED <<rules, filter, disturbed, late>>

(* delete_firewall_policy: a failed call is only logged.                    *)
PolicyDeleteLoad(r, u, id) ==
  /\ id \in DOMAIN policies
  /\ policies[id].user = u
  /\ Begin(r, "policy_router", id, None, None, policies[id].name)
  /\ UNCHANGED <<policies, rules, filter, drifted, late>>

PolicyDeleteRouter(r, answer) ==
  /\ call[r].pc = "policy_router"
  /\ Call(answer, DeletePolicy(call[r].name))
  /\ GoTo(r, "policy_collect")
  /\ UNCHANGED <<policies, rules, drifted, late>>

(* db.delete loads the rules that go along.                                 *)
PolicyDeleteCollect(r) ==
  /\ call[r].pc = "policy_collect"
  /\ call' = [call EXCEPT ![r].pc = "policy_commit", ![r].found = OfPolicy(call[r].id)]
  /\ UNCHANGED <<policies, rules, filter, disturbed, drifted, late>>

(* Mutated: the relationship does not cascade.                              *)
PolicyDeleteCommitOnly(r) ==
  /\ call[r].pc = "policy_commit"
  /\ policies' = Remove(policies, {call[r].id})
  /\ Finish(r)
  /\ UNCHANGED <<rules, filter, disturbed, drifted, late>>

PolicyDeleteCommit(r) ==
  /\ call[r].pc = "policy_commit"
  /\ policies' = Remove(policies, {call[r].id})
  /\ rules' = Remove(rules, call[r].found)
  /\ drifted' = drifted \ call[r].found
  /\ late' = late \ call[r].found
  /\ Finish(r)
  /\ UNCHANGED <<filter, disturbed>>

-----------------------------------------------------------------------------
(* create_firewall_rule                                                     *)
RuleCheck(r, id, number, value) ==
  /\ id \in DOMAIN policies
  /\ LET row == [policy |-> id, number |-> number, value |-> value]
     IN /\ \A k \in DOMAIN rules : ~SameNumber(rules[k], row)
        /\ Begin(r, "rule_insert", 0, row, None, policies[id].name)
  /\ UNCHANGED <<policies, rules, filter, drifted, late>>

(* The policy is gone, or a delete has already collected its rules.         *)
Leaving(id) ==
  \/ id \notin DOMAIN policies
  \/ \E q \in Requests : call[q].pc = "policy_commit" /\ call[q].id = id

Stored(r, n) ==
  /\ rules' = Put(rules, n, call[r].row)
  /\ late' = IF Leaving(call[r].row.policy) THEN late \union {n} ELSE late
  /\ call' = [call EXCEPT ![r].pc = "rule_refresh", ![r].id = n]

RuleInsert(r) ==
  /\ call[r].pc = "rule_insert"
  /\ IF \E k \in DOMAIN rules : SameNumber(rules[k], call[r].row)
     THEN Finish(r) /\ UNCHANGED <<rules, late>>          \* IntegrityError
     ELSE \E n \in RuleIds : FreshId(rules, n) /\ Stored(r, n)
  /\ UNCHANGED <<policies, filter, disturbed, drifted>>

(* refresh: what is sent to the router is what the table then holds.        *)
Refresh(r, phase) ==
  /\ call[r].id \in DOMAIN rules
  /\ call' = [call EXCEPT ![r].pc = phase, ![r].row = rules[call[r].id]]

RuleRefresh(r) ==
  /\ \/ call[r].pc = "rule_refresh" /\ Refresh(r, "rule_apply")
     \/ call[r].pc = "update_refresh" /\ Refresh(r, "update_apply")
     \/ /\ call[r].pc \in {"rule_refresh", "update_refresh"}
        /\ call[r].id \notin DOMAIN rules                 \* InvalidRequestError
        /\ Finish(r)
  /\ UNCHANGED <<policies, rules, filter, disturbed, drifted, late>>

(* Mutated: the row stays although the router refused the rule.             *)
RuleApplyKept(r, answer) ==
  /\ call[r].pc = "rule_apply"
  /\ Call(answer, SetRule(call[r].name, call[r].row))
  /\ Finish(r)
  /\ UNCHANGED <<policies, rules, drifted, late>>

RuleApply(r, answer) ==
  /\ call[r].pc = "rule_apply"
  /\ Call(answer, SetRule(call[r].name, call[r].row))
  /\ IF answer = "ok" THEN Finish(r) ELSE GoTo(r, "rule_delete")
  /\ UNCHANGED <<policies, rules, drifted, late>>

(* The COMMIT of delete_firewall_rule, or the one that takes back a rule    *)
(* the router refused.                                                      *)
RuleDelete(r) ==
  /\ call[r].pc = "rule_delete"
  /\ rules' = Remove(rules, {call[r].id})
  /\ drifted' = drifted \ {call[r].id}
  /\ late' = late \ {call[r].id}
  /\ Finish(r)
  /\ UNCHANGED <<policies, filter, disturbed>>

(* update_firewall_rule                                                     *)
RuleUpdateLoad(r, k, number, value) ==
  /\ k \in DOMAIN rules
  /\ rules[k].policy \in DOMAIN policies
  /\ LET new == [rules[k] EXCEPT !.number = number, !.value = value]
     IN /\ new # rules[k]
        /\ \A j \in DOMAIN rules \ {k} : ~SameNumber(rules[j], new)
        /\ Begin(r, "update_commit", k, new, rules[k], policies[rules[k].policy].name)
  /\ UNCHANGED <<policies, rules, filter, drifted, late>>

(* The UPDATE writes the columns that differ from the values loaded.        *)
Written(r) ==
  LET now == rules[call[r].id]
      Net(wanted, loaded, stored) == IF wanted # loaded THEN wanted ELSE stored
  IN  [now EXCEPT !.number = Net(call[r].row.number, call[r].old.number, @),
                  !.value  = Net(call[r].row.value, call[r].old.value, @)]

RuleUpdateCommit(r) ==
  /\ call[r].pc = "update_commit"
  /\ LET k == call[r].id
     IN IF \/ k \notin DOMAIN rules                       \* StaleDataError
           \/ \E j \in DOMAIN rules \ {k} : SameNumber(rules[j], Written(r))
        THEN Finish(r) /\ UNCHANGED rules
        ELSE rules' = [rules EXCEPT ![k] = Written(r)] /\ GoTo(r, "update_refresh")
  /\ UNCHANGED <<policies, filter, disturbed, drifted, late>>

(* The row stays as it is when the router does not follow.                  *)
RuleUpdateApply(r, answer) ==
  /\ call[r].pc = "update_apply"
  /\ Call(answer, SetRule(call[r].name, call[r].row))
  /\ drifted' = IF answer = "ok" THEN drifted \ {call[r].id}
                ELSE drifted \union {call[r].id}
  /\ Finish(r)
  /\ UNCHANGED <<policies, rules, late>>

(* delete_firewall_rule: a failed call is only logged.                      *)
RuleDeleteLoad(r, k) ==
  /\ k \in DOMAIN rules
  /\ rules[k].policy \in DOMAIN policies
  /\ Begin(r, "rule_router", k, rules[k], None, policies[rules[k].policy].name)
  /\ UNCHANGED <<policies, rules, filter, drifted, late>>

RuleDeleteRouter(r, answer) ==
  /\ call[r].pc = "rule_router"
  /\ Call(answer, DeleteRule(call[r].name, call[r].row.number))
  /\ GoTo(r, "rule_delete")
  /\ UNCHANGED <<policies, rules, drifted, late>>

-----------------------------------------------------------------------------
Policies(r) ==
  \/ \E u \in Users, name \in Names : PolicyCheck(r, u, name)
  \/ PolicyInsert(r)
  \/ \E u \in Users, id \in PolicyIds, name \in Names : RenameLoad(r, u, id, name)
  \/ RenameCommit(r)
  \/ \E u \in Users, id \in PolicyIds : PolicyDeleteLoad(r, u, id)
  \/ \E answer \in Answers : PolicyDeleteRouter(r, answer)
  \/ PolicyDeleteCollect(r)
  \/ PolicyDeleteCommit(r)

Rules(r) ==
  \/ \E id \in PolicyIds, number \in Numbers, value \in Values :
       RuleCheck(r, id, number, value)
  \/ RuleInsert(r)
  \/ RuleRefresh(r)
  \/ \E answer \in Answers : RuleApply(r, answer)
  \/ \E k \in RuleIds, number \in Numbers, value \in Values :
       RuleUpdateLoad(r, k, number, value)
  \/ RuleUpdateCommit(r)
  \/ \E answer \in Answers : RuleUpdateApply(r, answer)
  \/ \E k \in RuleIds : RuleDeleteLoad(r, k)
  \/ \E answer \in Answers : RuleDeleteRouter(r, answer)
  \/ RuleDelete(r)

Next == \E r \in Requests : Policies(r) \/ Rules(r)

Spec == Init /\ [][Next]_vars

-----------------------------------------------------------------------------
(* Type invariant of the two tables, the router and the history             *)
(* (models.FirewallPolicy, models.FirewallRule).                            *)
TypeOK ==
  /\ DOMAIN policies \subseteq PolicyIds /\ policies \in [DOMAIN policies -> Policy]
  /\ DOMAIN rules \subseteq RuleIds /\ rules \in [DOMAIN rules -> Rule]
  /\ filter \in [Names \X Numbers -> Values \union {Absent}]
  /\ DOMAIN call = Requests
  /\ disturbed \in BOOLEAN
  /\ drifted \subseteq RuleIds /\ late \subseteq DOMAIN rules

(* A policy name is one user's, although create and rename look only among  *)
(* the user's own policies and long before the COMMIT.                      *)
UniquePolicyNames ==
  \A i, j \in DOMAIN policies : i # j => policies[i].name # policies[j].name

(* A rule number occurs once in a policy, however creations and updates     *)
(* overlap (_policy_rule_uc).                                               *)
UniqueRuleNumbers ==
  \A i, j \in DOMAIN rules : i # j => ~SameNumber(rules[i], rules[j])

(* delete_firewall_policy leaves no rule behind, except one that was stored *)
(* after it had collected the rules: no foreign key is enforced, and such a *)
(* rule belongs to whichever policy is given the id next.                   *)
RulesHavePolicy ==
  \A k \in DOMAIN rules : rules[k].policy \in DOMAIN policies \/ k \in late

(* Requests one at a time, no answer lost: a stored rule is in force under  *)
(* its policy's name unless its own last update failed or the policy was    *)
(* renamed (the router never learns of a rename); creations that fail and   *)
(* deletions whose call fails do no harm to it.                             *)
RulesInForce ==
  ~disturbed /\ (\A r \in Requests : call[r].pc = "idle") =>
    \A k \in DOMAIN rules \ drifted :
      filter[<<policies[rules[k].policy].name, rules[k].number>>] = rules[k].value
=============================================================================
