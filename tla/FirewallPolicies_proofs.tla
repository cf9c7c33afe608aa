------------------------ MODULE FirewallPolicies_proofs ------------------------
(***************************************************************************)
(* Proofs about FirewallPolicies for any number of users, names, numbers,   *)
(* requests and rows.                                                       *)
(***************************************************************************)
EXTENDS FirewallPolicies, TLAPS

Phases == {"idle", "policy_insert", "rename_commit", "policy_router", "policy_collect",
           "policy_commit", "rule_insert", "rule_refresh", "rule_apply", "rule_delete",
           "update_commit", "update_refresh", "update_apply", "rule_router"}

Slot == [pc: Phases, id: PolicyIds \union RuleIds \union {0},
         row: Policy \union Rule \union {None}, old: Rule \union {None},
         name: Names \union {None}, found: SUBSET RuleIds]

(* What the phase a request is in will use.                                 *)
Locals(slot) ==
  /\ slot \in Slot
  /\ slot.pc = "policy_insert" => slot.row \in Policy
  /\ slot.pc \in {"rule_insert", "rule_apply", "update_commit", "update_apply",
                  "rule_router"} => slot.row \in Rule
  /\ slot.pc = "update_commit" => slot.old \in Rule
  /\ slot.pc \in {"rule_refresh", "update_commit", "update_refresh", "update_apply"}
       => slot.id \in RuleIds
  /\ slot.pc \notin {"idle", "policy_insert"} => slot.name \in Names

Slots == call \in [Requests -> Slot] /\ \A r \in Requests : Locals(call[r])

Tables ==
  /\ DOMAIN policies \subseteq PolicyIds /\ policies \in [DOMAIN policies -> Policy]
  /\ DOMAIN rules \subseteq RuleIds /\ rules \in [DOMAIN rules -> Rule]
  /\ filter \in [Names \X Numbers -> Values \union {Absent}]
  /\ disturbed \in BOOLEAN
  /\ drifted \subseteq RuleIds /\ late \subseteq DOMAIN rules

Types == Tables /\ Slots

LEMMA SlotSet ==
  ASSUME Slots, NEW r \in Requests, NEW slot, Locals(slot),
         call' = [call EXCEPT ![r] = slot]
  PROVE  Slots'
BY DEF Slots, Locals

LEMMA Finished ==
  ASSUME Slots, NEW r \in Requests, Finish(r)
  PROVE  Slots'
<1>1. Locals(Idle)
  BY DEF Locals, Slot, Phases, Idle
<1> QED BY <1>1, SlotSet DEF Finish

LEMMA Moved ==
  ASSUME Slots, NEW r \in Requests, NEW phase \in Phases, GoTo(r, phase),
         Locals([call[r] EXCEPT !.pc = phase])
  PROVE  Slots'
<1>1. call' = [call EXCEPT ![r] = [call[r] EXCEPT !.pc = phase]]
  BY DEF GoTo, Slots
<1> QED BY <1>1, SlotSet

LEMMA Begun ==
  ASSUME Slots, Tables, NEW r \in Requests, NEW phase, NEW id, NEW row, NEW old, NEW name,
         Begin(r, phase, id, row, old, name),
         Locals([pc |-> phase, id |-> id, row |-> row, old |-> old, name |-> name,
                 found |-> {}])
  PROVE  Slots' /\ disturbed' \in BOOLEAN
BY SlotSet DEF Begin, Tables

LEMMA CallTyped ==
  ASSUME Tables, NEW answer, NEW after, Call(answer, after),
         after \in [Names \X Numbers -> Values \union {Absent}]
  PROVE  filter' \in [Names \X Numbers -> Values \union {Absent}] /\ disturbed' \in BOOLEAN
BY DEF Call, Tables

LEMMA PolicyTypes ==
  ASSUME Types, NEW r \in Requests, Policies(r)
  PROVE  Types'
<1> USE DEF Types
<1>0. call[r] \in Slot /\ Locals(call[r])
  BY DEF Slots
<1>1. ASSUME NEW u \in Users, NEW name \in Names, PolicyCheck(r, u, name) PROVE Types'
  <2> DEFINE row == [user |-> u, name |-> name]
  <2>1. row \in Policy
    BY DEF Policy
  <2> HIDE DEF row
  <2>2. Locals([pc |-> "policy_insert", id |-> 0, row |-> row, old |-> None,
                name |-> None, found |-> {}])
    BY <2>1 DEF Locals, Slot, Phases
  <2>3. Begin(r, "policy_insert", 0, row, None, None)
    BY <1>1 DEF PolicyCheck, row
  <2>4. Slots' /\ disturbed' \in BOOLEAN
    BY <2>2, <2>3, Begun
  <2> QED BY <1>1, <2>4 DEF PolicyCheck, Tables
<1>2. CASE PolicyInsert(r)
  <2>1. call[r].row \in Policy
    BY <1>0, <1>2 DEF PolicyInsert, Locals
  <2>2. policies' = policies \/ \E n \in PolicyIds : policies' = Put(policies, n, call[r].row)
    BY <1>2 DEF PolicyInsert
  <2>3. DOMAIN policies' \subseteq PolicyIds /\ policies' \in [DOMAIN policies' -> Policy]
    BY <2>1, <2>2 DEF Put, Tables
  <2> QED BY <1>2, <2>3, Finished DEF PolicyInsert, Tables
<1>3. ASSUME NEW u \in Users, NEW id \in PolicyIds, NEW name \in Names,
             RenameLoad(r, u, id, name)
      PROVE  Types'
  <2>1. Locals([pc |-> "rename_commit", id |-> id, row |-> None, old |-> None,
                name |-> name, found |-> {}])
    BY DEF Locals, Slot, Phases
  <2> QED BY <1>3, <2>1, Begun DEF RenameLoad, Tables
<1>4. CASE RenameCommit(r)
  <2>1. call[r].name \in Names
    BY <1>0, <1>4 DEF RenameCommit, Locals
  <2>2. OfPolicy(call[r].id) \subseteq RuleIds
    BY DEF OfPolicy, Tables
  <2>3. \/ policies' = policies
        \/ policies' = [policies EXCEPT ![call[r].id].name = call[r].name]
    BY <1>4 DEF RenameCommit
  <2>4. DOMAIN policies' \subseteq PolicyIds /\ policies' \in [DOMAIN policies' -> Policy]
    BY <2>1, <2>3 DEF Policy, Tables
  <2> QED BY <1>4, <2>2, <2>4, Finished DEF RenameCommit, Tables
<1>5. ASSUME NEW u \in Users, NEW id \in PolicyIds, PolicyDeleteLoad(r, u, id) PROVE Types'
  <2>1. policies[id].name \in Names
    BY <1>5 DEF PolicyDeleteLoad, Tables, Policy
  <2>2. Locals([pc |-> "policy_router", id |-> id, row |-> None, old |-> None,
                name |-> policies[id].name, found |-> {}])
    BY <2>1 DEF Locals, Slot, Phases
  <2> QED BY <1>5, <2>2, Begun DEF PolicyDeleteLoad, Tables
<1>6. ASSUME NEW answer \in Answers, PolicyDeleteRouter(r, answer) PROVE Types'
  <2>1. call[r].name \in Names /\ Locals([call[r] EXCEPT !.pc = "policy_collect"])
    BY <1>0, <1>6 DEF PolicyDeleteRouter, Locals, Slot, Phases
  <2>2. DeletePolicy(call[r].name) \in [Names \X Numbers -> Values \union {Absent}]
    BY DEF DeletePolicy, Tables
  <2> QED BY <1>6, <2>1, <2>2, CallTyped, Moved DEF PolicyDeleteRouter, Tables, Phases
<1>7. CASE PolicyDeleteCollect(r)
  <2> DEFINE found == OfPolicy(call[r].id)
  <2> DEFINE slot == [call[r] EXCEPT !.pc = "policy_commit", !.found = found]
  <2>1. found \subseteq RuleIds
    BY DEF OfPolicy, Tables
  <2> HIDE DEF found
  <2>2. Locals(slot)
    BY <1>0, <1>7, <2>1 DEF PolicyDeleteCollect, Locals, Slot, Phases
  <2>3. call' = [call EXCEPT ![r] = slot]
    BY <1>7 DEF PolicyDeleteCollect, Slots, found
  <2> HIDE DEF slot
  <2> QED BY <1>7, <2>2, <2>3, SlotSet DEF PolicyDeleteCollect, Tables
<1>8. CASE PolicyDeleteCommit(r)
  <2>1. /\ DOMAIN policies' \subseteq PolicyIds /\ policies' \in [DOMAIN policies' -> Policy]
        /\ DOMAIN rules' \subseteq RuleIds /\ rules' \in [DOMAIN rules' -> Rule]
        /\ DOMAIN rules' = DOMAIN rules \ call[r].found
    BY <1>8 DEF PolicyDeleteCommit, Remove, Tables
  <2> QED BY <1>8, <2>1, Finished DEF PolicyDeleteCommit, Tables
<1> QED BY <1>1, <1>2, <1>3, <1>4, <1>5, <1>6, <1>7, <1>8 DEF Policies

LEMMA RuleTypes ==
  ASSUME Types, NEW r \in Requests, Rules(r)
  PROVE  Types'
<1> USE DEF Types
<1>0. call[r] \in Slot /\ Locals(call[r])
  BY DEF Slots
<1>1. ASSUME NEW id \in PolicyIds, NEW number \in Numbers, NEW value \in Values,
             RuleCheck(r, id, number, value)
      PROVE  Types'
  <2> DEFINE row == [policy |-> id, number |-> number, value |-> value]
  <2>1. row \in Rule /\ policies[id].name \in Names
    BY <1>1 DEF RuleCheck, Rule, Tables, Policy
  <2> HIDE DEF row
  <2>2. Locals([pc |-> "rule_insert", id |-> 0, row |-> row, old |-> None,
                name |-> policies[id].name, found |-> {}])
    BY <2>1 DEF Locals, Slot, Phases
  <2>3. Begin(r, "rule_insert", 0, row, None, policies[id].name)
    BY <1>1 DEF RuleCheck, row
  <2>4. Slots' /\ disturbed' \in BOOLEAN
    BY <2>2, <2>3, Begun
  <2> QED BY <1>1, <2>4 DEF RuleCheck, Tables
<1>2. CASE RuleInsert(r)
  <2>1. call[r].row \in Rule
    BY <1>0, <1>2 DEF RuleInsert, Locals
  <2>2. CASE Finish(r) /\ UNCHANGED <<rules, late>>
    BY <1>2, <2>2, Finished DEF RuleInsert, Tables
  <2>3. ASSUME NEW n \in RuleIds, Stored(r, n) PROVE Types'
    <3> DEFINE slot == [call[r] EXCEPT !.pc = "rule_refresh", !.id = n]
    <3>1. Locals(slot)
      BY <1>0, <1>2 DEF RuleInsert, Locals, Slot, Phases
    <3>2. call' = [call EXCEPT ![r] = slot]
      BY <2>3 DEF Stored, Slots
    <3> HIDE DEF slot
    <3>3. Slots'
      BY <3>1, <3>2, SlotSet
    <3>4. /\ DOMAIN rules' \subseteq RuleIds /\ rules' \in [DOMAIN rules' -> Rule]
          /\ DOMAIN rules \subseteq DOMAIN rules' /\ n \in DOMAIN rules'
      BY <2>1, <2>3 DEF Stored, Put, Tables
    <3> QED BY <1>2, <2>3, <3>3, <3>4 DEF RuleInsert, Stored, Tables
  <2> QED BY <1>2, <2>2, <2>3 DEF RuleInsert
<1>3. CASE RuleRefresh(r)
  <2>1. UNCHANGED <<policies, rules, filter, disturbed, drifted, late>>
    BY <1>3 DEF RuleRefresh
  <2>2. ASSUME NEW phase \in {"rule_apply", "update_apply"}, Refresh(r, phase),
               call[r].pc \in {"rule_refresh", "update_refresh"}
        PROVE  Slots'
    <3> DEFINE slot == [call[r] EXCEPT !.pc = phase, !.row = rules[call[r].id]]
    <3>1. rules[call[r].id] \in Rule
      BY <2>2 DEF Refresh, Tables
    <3>2. Locals(slot)
      BY <1>0, <2>2, <3>1 DEF Locals, Slot, Phases
    <3>3. call' = [call EXCEPT ![r] = slot]
      BY <2>2 DEF Refresh, Slots
    <3> HIDE DEF slot
    <3> QED BY <3>2, <3>3, SlotSet
  <2>3. Slots'
    BY <1>3, <2>2, Finished DEF RuleRefresh
  <2> QED BY <2>1, <2>3 DEF Tables
<1>4. ASSUME NEW answer \in Answers, RuleApply(r, answer) PROVE Types'
  <2>1. call[r].name \in Names /\ call[r].row \in Rule
        /\ Locals([call[r] EXCEPT !.pc = "rule_delete"])
    BY <1>0, <1>4 DEF RuleApply, Locals, Slot, Phases
  <2>2. Slots'
    BY <1>4, <2>1, Moved, Finished DEF RuleApply, Phases
  <2>3. SetRule(call[r].name, call[r].row) \in [Names \X Numbers -> Values \union {Absent}]
    BY <2>1 DEF SetRule, Tables, Rule
  <2> QED BY <1>4, <2>2, <2>3, CallTyped DEF RuleApply, Tables
<1>5. ASSUME NEW k \in RuleIds, NEW number \in Numbers, NEW value \in Values,
             RuleUpdateLoad(r, k, number, value)
      PROVE  Types'
  <2> DEFINE new == [rules[k] EXCEPT !.number = number, !.value = value]
  <2>1. /\ rules[k] \in Rule /\ new \in Rule
        /\ policies[rules[k].policy].name \in Names
    BY <1>5 DEF RuleUpdateLoad, Rule, Tables, Policy
  <2> HIDE DEF new
  <2>2. Locals([pc |-> "update_commit", id |-> k, row |-> new, old |-> rules[k],
                name |-> policies[rules[k].policy].name, found |-> {}])
    BY <2>1 DEF Locals, Slot, Phases
  <2>3. Begin(r, "update_commit", k, new, rules[k], policies[rules[k].policy].name)
    BY <1>5 DEF RuleUpdateLoad, new
  <2>4. Slots' /\ disturbed' \in BOOLEAN
    BY <2>2, <2>3, Begun
  <2> QED BY <1>5, <2>4 DEF RuleUpdateLoad, Tables
<1>6. CASE RuleUpdateCommit(r)
  <2>1. /\ call[r].row \in Rule /\ call[r].old \in Rule
        /\ Locals([call[r] EXCEPT !.pc = "update_refresh"])
    BY <1>0, <1>6 DEF RuleUpdateCommit, Locals, Slot, Phases
  <2>2. call[r].id \in DOMAIN rules => Written(r) \in Rule
    BY <2>1 DEF Written, Rule, Tables
  <2>3. DOMAIN rules' = DOMAIN rules /\ rules' \in [DOMAIN rules' -> Rule]
    BY <1>6, <2>2 DEF RuleUpdateCommit, Tables
  <2>4. Slots'
    BY <1>6, <2>1, Moved, Finished DEF RuleUpdateCommit, Phases
  <2> QED BY <1>6, <2>3, <2>4 DEF RuleUpdateCommit, Tables
<1>7. ASSUME NEW answer \in Answers, RuleUpdateApply(r, answer) PROVE Types'
  <2>1. /\ call[r].name \in Names /\ call[r].row \in Rule
        /\ call[r].id \in RuleIds
    BY <1>7, <1>0 DEF RuleUpdateApply, Locals
  <2>2. SetRule(call[r].name, call[r].row) \in [Names \X Numbers -> Values \union {Absent}]
    BY <2>1 DEF SetRule, Tables, Rule
  <2> QED BY <1>7, <2>1, <2>2, CallTyped, Finished DEF RuleUpdateApply, Tables
<1>8. ASSUME NEW k \in RuleIds, RuleDeleteLoad(r, k) PROVE Types'
  <2>1. rules[k] \in Rule /\ policies[rules[k].policy].name \in Names
    BY <1>8 DEF RuleDeleteLoad, Rule, Tables, Policy
  <2>2. Locals([pc |-> "rule_router", id |-> k, row |-> rules[k], old |-> None,
                name |-> policies[rules[k].policy].name, found |-> {}])
    BY <2>1 DEF Locals, Slot, Phases
  <2>3. Slots' /\ disturbed' \in BOOLEAN
    BY <1>8, <2>2, Begun DEF RuleDeleteLoad
  <2> QED BY <1>8, <2>3 DEF RuleDeleteLoad, Tables
<1>9. ASSUME NEW answer \in Answers, RuleDeleteRouter(r, answer) PROVE Types'
  <2>1. call[r].name \in Names /\ call[r].row \in Rule
        /\ Locals([call[r] EXCEPT !.pc = "rule_delete"])
    BY <1>0, <1>9 DEF RuleDeleteRouter, Locals, Slot, Phases
  <2>2. DeleteRule(call[r].name, call[r].row.number)
          \in [Names \X Numbers -> Values \union {Absent}]
    BY <2>1 DEF DeleteRule, Tables, Rule
  <2> QED BY <1>9, <2>1, <2>2, CallTyped, Moved DEF RuleDeleteRouter, Tables, Phases
<1>10. CASE RuleDelete(r)
  <2>1. /\ DOMAIN rules' \subseteq RuleIds /\ rules' \in [DOMAIN rules' -> Rule]
        /\ DOMAIN rules' = DOMAIN rules \ {call[r].id}
    BY <1>10 DEF RuleDelete, Remove, Tables
  <2> QED BY <1>10, <2>1, Finished DEF RuleDelete, Tables
<1> QED BY <1>1, <1>2, <1>3, <1>4, <1>5, <1>6, <1>7, <1>8, <1>9, <1>10 DEF Rules

LEMMA InitTypes == Init => Types
<1> SUFFICES ASSUME Init PROVE Types
  OBVIOUS
<1>1. Tables
  BY DEF Init, Tables
<1>2. Locals(Idle)
  BY DEF Locals, Slot, Phases, Idle
<1>3. Slots
  BY <1>2 DEF Init, Slots, Locals
<1> QED BY <1>1, <1>3 DEF Types

LEMMA TypesHold == Spec => []Types
<1>2. Types /\ [Next]_vars => Types'
  <2> SUFFICES ASSUME Types, [Next]_vars PROVE Types'
    OBVIOUS
  <2>1. CASE UNCHANGED vars
    BY <2>1 DEF vars, Types, Tables, Slots
  <2> QED BY <2>1, PolicyTypes, RuleTypes DEF Next
<1> QED BY InitTypes, <1>2, PTL DEF Spec

(* The tables, the router and the history keep their types                  *)
(* (models.FirewallPolicy, models.FirewallRule).                            *)
THEOREM TypeCorrect == Spec => []TypeOK
<1>1. Types => TypeOK
  BY DEF Types, Tables, Slots, TypeOK
<1> QED BY <1>1, TypesHold, PTL

-----------------------------------------------------------------------------
(* Only the three steps that write table firewall_policies matter.          *)
LEMMA NamesStep ==
  ASSUME Types, UniquePolicyNames, [Next]_vars
  PROVE  UniquePolicyNames'
<1> USE DEF UniquePolicyNames
<1>1. CASE UNCHANGED policies
  BY <1>1
<1>2. ASSUME NEW r \in Requests, PolicyInsert(r) PROVE UniquePolicyNames'
  <2> DEFINE row == call[r].row
  <2>1. \/ UNCHANGED policies
        \/ /\ \A k \in DOMAIN policies : policies[k].name # row.name
           /\ \E n \in PolicyIds : policies' = Put(policies, n, row)
    BY <1>2 DEF PolicyInsert, NameTaken
  <2> HIDE DEF row
  <2>2. ASSUME NEW n \in PolicyIds, policies' = Put(policies, n, row),
               \A k \in DOMAIN policies : policies[k].name # row.name
        PROVE  UniquePolicyNames'
    <3>1. /\ DOMAIN policies' = DOMAIN policies \union {n} /\ policies'[n] = row
          /\ \A k \in DOMAIN policies : k # n => policies'[k] = policies[k]
      BY <2>2 DEF Put
    <3> QED BY <2>2, <3>1
  <2>3. UNCHANGED policies => UniquePolicyNames'
    OBVIOUS
  <2> QED BY <2>1, <2>2, <2>3
<1>3. ASSUME NEW r \in Requests, RenameCommit(r) PROVE UniquePolicyNames'
  BY <1>3 DEF RenameCommit, NameTaken, Types, Tables, Policy
<1>4. ASSUME NEW r \in Requests, PolicyDeleteCommit(r) PROVE UniquePolicyNames'
  BY <1>4 DEF PolicyDeleteCommit, Remove
<1>5. ASSUME NEW r \in Requests, Policies(r)
      PROVE  UNCHANGED policies \/ PolicyInsert(r) \/ RenameCommit(r) \/ PolicyDeleteCommit(r)
  BY <1>5 DEF Policies, PolicyCheck, RenameLoad, PolicyDeleteLoad, PolicyDeleteRouter,
              PolicyDeleteCollect
<1>6. ASSUME NEW r \in Requests, Rules(r) PROVE UNCHANGED policies
  BY <1>6 DEF Rules, RuleCheck, RuleInsert, RuleRefresh, RuleApply, RuleUpdateLoad,
              RuleUpdateCommit, RuleUpdateApply, RuleDeleteLoad, RuleDeleteRouter, RuleDelete
<1> QED BY <1>1, <1>2, <1>3, <1>4, <1>5, <1>6 DEF Next, vars

(* What a step may do to table firewall_rules.                              *)
LEMMA RuleWriters ==
  ASSUME [Next]_vars
  PROVE  \/ UNCHANGED rules
         \/ \E r \in Requests : \/ PolicyDeleteCommit(r) \/ RuleInsert(r)
                                \/ RuleUpdateCommit(r) \/ RuleDelete(r)
<1>1. ASSUME NEW r \in Requests, Policies(r) PROVE UNCHANGED rules \/ PolicyDeleteCommit(r)
  BY <1>1 DEF Policies, PolicyCheck, PolicyInsert, RenameLoad, RenameCommit, PolicyDeleteLoad,
              PolicyDeleteRouter, PolicyDeleteCollect
<1>2. ASSUME NEW r \in Requests, Rules(r)
      PROVE  UNCHANGED rules \/ RuleInsert(r) \/ RuleUpdateCommit(r) \/ RuleDelete(r)
  BY <1>2 DEF Rules, RuleCheck, RuleRefresh, RuleApply, RuleUpdateLoad,
              RuleUpdateApply, RuleDeleteLoad, RuleDeleteRouter
<1> QED BY <1>1, <1>2 DEF Next, vars

LEMMA NumbersStep ==
  ASSUME Types, UniqueRuleNumbers, [Next]_vars
  PROVE  UniqueRuleNumbers'
<1> USE DEF UniqueRuleNumbers, SameNumber
<1>1. CASE UNCHANGED rules
  BY <1>1
<1>2. ASSUME NEW r \in Requests, PolicyDeleteCommit(r) PROVE UniqueRuleNumbers'
  BY <1>2 DEF PolicyDeleteCommit, Remove
<1>3. ASSUME NEW r \in Requests, RuleInsert(r) PROVE UniqueRuleNumbers'
  <2> DEFINE row == call[r].row
  <2>1. \/ UNCHANGED rules
        \/ /\ \A k \in DOMAIN rules : ~SameNumber(rules[k], row)
           /\ \E n \in RuleIds : rules' = Put(rules, n, row)
    BY <1>3 DEF RuleInsert, Stored
  <2> HIDE DEF row
  <2>2. ASSUME NEW n \in RuleIds, rules' = Put(rules, n, row),
               \A k \in DOMAIN rules : ~SameNumber(rules[k], row)
        PROVE  UniqueRuleNumbers'
    <3>1. /\ DOMAIN rules' = DOMAIN rules \union {n} /\ rules'[n] = row
          /\ \A k \in DOMAIN rules : k # n => rules'[k] = rules[k]
      BY <2>2 DEF Put
    <3> QED BY <2>2, <3>1
  <2>3. UNCHANGED rules => UniqueRuleNumbers'
    OBVIOUS
  <2> QED BY <2>1, <2>2, <2>3
<1>4. ASSUME NEW r \in Requests, RuleUpdateCommit(r) PROVE UniqueRuleNumbers'
  <2> DEFINE k == call[r].id
  <2> DEFINE new == Written(r)
  <2>1. \/ UNCHANGED rules
        \/ /\ rules' = [rules EXCEPT ![k] = new]
           /\ \A j \in DOMAIN rules \ {k} : ~SameNumber(rules[j], new)
    BY <1>4 DEF RuleUpdateCommit
  <2> HIDE DEF k, new
  <2> QED BY <2>1
<1>5. ASSUME NEW r \in Requests, RuleDelete(r) PROVE UniqueRuleNumbers'
  BY <1>5 DEF RuleDelete, Remove
<1> QED BY <1>1, <1>2, <1>3, <1>4, <1>5, RuleWriters

(* A delete that has collected the rules of its policy has them all, apart  *)
(* from those stored since.                                                 *)
Collected ==
  \A q \in Requests : call[q].pc = "policy_commit" =>
    \A k \in DOMAIN rules : rules[k].policy = call[q].id => k \in call[q].found \union late

Owned == RulesHavePolicy /\ Collected

LEMMA OwnedByPolicies ==
  ASSUME Types, Owned, NEW r \in Requests, Policies(r)
  PROVE  Owned'
<1> USE DEF Owned, RulesHavePolicy, Collected, Types, Slots
<1>1. CASE PolicyInsert(r)
  <2>1. DOMAIN policies \subseteq DOMAIN policies'
    BY <1>1 DEF PolicyInsert, Put
  <2> QED BY <1>1, <2>1 DEF PolicyInsert, Finish, Idle
<1>2. CASE RenameCommit(r)
  <2>1. DOMAIN policies' = DOMAIN policies
    BY <1>2 DEF RenameCommit
  <2> QED BY <1>2, <2>1 DEF RenameCommit, Finish, Idle
<1>3. CASE PolicyDeleteCollect(r)
  <2>1. UNCHANGED <<policies, rules, late>>
    BY <1>3 DEF PolicyDeleteCollect
  <2>2. \A q \in Requests \ {r} : call'[q] = call[q]
    BY <1>3 DEF PolicyDeleteCollect
  <2>3. call'[r].id = call[r].id /\ call'[r].found = OfPolicy(call[r].id)
    BY <1>3 DEF PolicyDeleteCollect, Slot
  <2> QED BY <2>1, <2>2, <2>3 DEF OfPolicy
<1>4. CASE PolicyDeleteCommit(r)
  <2>1. \A q \in Requests : call'[q] = IF q = r THEN Idle ELSE call[q]
    BY <1>4 DEF PolicyDeleteCommit, Finish
  <2>2. /\ DOMAIN policies' = DOMAIN policies \ {call[r].id}
        /\ DOMAIN rules' = DOMAIN rules \ call[r].found
        /\ \A k \in DOMAIN rules' : rules'[k] = rules[k]
        /\ late' = late \ call[r].found
    BY <1>4 DEF PolicyDeleteCommit, Remove
  <2>3. call[r].pc = "policy_commit"
    BY <1>4 DEF PolicyDeleteCommit
  <2> QED BY <2>1, <2>2, <2>3 DEF Idle
<1>5. CASE UNCHANGED <<policies, rules, late>>
           /\ \A q \in Requests : call'[q].pc # "policy_commit" \/ call'[q] = call[q]
  BY <1>5
<1>6. ASSUME NEW phase \in Phases \ {"policy_commit"}, NEW id, NEW row, NEW old, NEW name,
             Begin(r, phase, id, row, old, name)
      PROVE  \A q \in Requests : call'[q].pc # "policy_commit" \/ call'[q] = call[q]
  BY <1>6 DEF Begin
<1>7. \/ PolicyInsert(r) \/ RenameCommit(r) \/ PolicyDeleteCollect(r) \/ PolicyDeleteCommit(r)
      \/ UNCHANGED <<policies, rules, late>>
         /\ \A q \in Requests : call'[q].pc # "policy_commit" \/ call'[q] = call[q]
  BY <1>6 DEF Policies, PolicyCheck, RenameLoad, PolicyDeleteLoad, PolicyDeleteRouter, GoTo,
              Phases, Slot
<1> QED BY <1>1, <1>2, <1>3, <1>4, <1>5, <1>7

LEMMA OwnedByRules ==
  ASSUME Types, Owned, NEW r \in Requests, Rules(r)
  PROVE  Owned'
<1> USE DEF Owned, RulesHavePolicy, Collected, Types, Slots
<1>0. UNCHANGED policies
  BY DEF Rules, RuleCheck, RuleInsert, RuleRefresh, RuleApply, RuleUpdateLoad,
         RuleUpdateCommit, RuleUpdateApply, RuleDeleteLoad, RuleDeleteRouter, RuleDelete
<1>1. \A q \in Requests : call'[q].pc # "policy_commit" \/ call'[q] = call[q]
  <2>1. ASSUME NEW phase \in Phases \ {"policy_commit"}, NEW id, NEW row, NEW old, NEW name,
               Begin(r, phase, id, row, old, name)
        PROVE  \A q \in Requests : call'[q].pc # "policy_commit" \/ call'[q] = call[q]
    BY <2>1 DEF Begin
  <2>2. ASSUME Finish(r)
        PROVE  \A q \in Requests : call'[q].pc # "policy_commit" \/ call'[q] = call[q]
    BY <2>2 DEF Finish, Idle
  <2>3. ASSUME NEW phase \in Phases \ {"policy_commit"}, GoTo(r, phase) \/ Refresh(r, phase)
        PROVE  \A q \in Requests : call'[q].pc # "policy_commit" \/ call'[q] = call[q]
    BY <2>3 DEF GoTo, Refresh, Slot
  <2>4. ASSUME NEW n, Stored(r, n)
        PROVE  \A q \in Requests : call'[q].pc # "policy_commit" \/ call'[q] = call[q]
    BY <2>4 DEF Stored, Slot
  <2> QED BY <2>1, <2>2, <2>3, <2>4
       DEF Rules, RuleCheck, RuleInsert, RuleRefresh, RuleApply, RuleUpdateLoad,
           RuleUpdateCommit, RuleUpdateApply, RuleDeleteLoad, RuleDeleteRouter, RuleDelete,
           Phases
<1>2. CASE UNCHANGED <<rules, late>>
  BY <1>0, <1>1, <1>2
<1>3. ASSUME NEW n \in RuleIds, FreshId(rules, n), Stored(r, n), call[r].pc = "rule_insert"
      PROVE  Owned'
  <2>1. /\ DOMAIN rules' = DOMAIN rules \union {n}
        /\ \A k \in DOMAIN rules : k # n => rules'[k] = rules[k]
        /\ rules'[n] = call[r].row
        /\ late' = IF Leaving(call[r].row.policy) THEN late \union {n} ELSE late
    BY <1>3 DEF Stored, Put
  <2> QED BY <1>0, <1>1, <2>1 DEF Leaving
<1>4. CASE RuleUpdateCommit(r)
  <2>1. DOMAIN rules' = DOMAIN rules /\ late' = late
    BY <1>4 DEF RuleUpdateCommit
  <2>2. call[r].id \in DOMAIN rules => Written(r).policy = rules[call[r].id].policy
    BY DEF Written, Tables, Rule
  <2>3. \A k \in DOMAIN rules : rules'[k].policy = rules[k].policy
    BY <1>4, <2>2 DEF RuleUpdateCommit
  <2> QED BY <1>0, <1>1, <2>1, <2>3
<1>5. CASE RuleDelete(r)
  <2>1. /\ DOMAIN rules' = DOMAIN rules \ {call[r].id}
        /\ \A k \in DOMAIN rules' : rules'[k] = rules[k]
        /\ late' = late \ {call[r].id}
    BY <1>5 DEF RuleDelete, Remove
  <2> QED BY <1>0, <1>1, <2>1
<1>6. \/ UNCHANGED <<rules, late>> \/ RuleUpdateCommit(r) \/ RuleDelete(r)
      \/ call[r].pc = "rule_insert" /\ \E n \in RuleIds : FreshId(rules, n) /\ Stored(r, n)
  BY DEF Rules, RuleCheck, RuleInsert, RuleRefresh, RuleApply, RuleUpdateLoad,
         RuleUpdateApply, RuleDeleteLoad, RuleDeleteRouter
<1> QED BY <1>2, <1>3, <1>4, <1>5, <1>6

(* The tables hold together whatever the requests do.                       *)
Whole == Types /\ UniquePolicyNames /\ UniqueRuleNumbers /\ Owned

LEMMA WholeStep ==
  ASSUME Whole, [Next]_vars
  PROVE  Whole'
<1>1. Types'
  <2>1. CASE UNCHANGED vars
    BY <2>1 DEF vars, Whole, Types, Tables, Slots
  <2> QED BY <2>1, PolicyTypes, RuleTypes DEF Whole, Next
<1>2. Owned'
  <2>1. CASE UNCHANGED vars
    BY <2>1 DEF vars, Whole, Owned, RulesHavePolicy, Collected
  <2> QED BY <2>1, OwnedByPolicies, OwnedByRules DEF Whole, Next
<1> QED BY <1>1, <1>2, NamesStep, NumbersStep DEF Whole

LEMMA WholeHolds == Spec => []Whole
<1>1. Init => Whole
  <2> SUFFICES ASSUME Init PROVE Whole
    OBVIOUS
  <2>1. Types
    BY InitTypes
  <2> QED BY <2>1 DEF Init, Idle, Whole, UniquePolicyNames, UniqueRuleNumbers, Owned,
                  RulesHavePolicy, Collected
<1> QED BY <1>1, WholeStep, PTL DEF Spec

(* A policy name is one user's, although create and rename look only among  *)
(* the user's own policies and long before the COMMIT.                      *)
THEOREM PolicyNamesStayUnique == Spec => []UniquePolicyNames
BY WholeHolds, PTL DEF Whole

(* A rule number occurs once in a policy, however creations and updates     *)
(* overlap (_policy_rule_uc).                                               *)
THEOREM RuleNumbersStayUnique == Spec => []UniqueRuleNumbers
BY WholeHolds, PTL DEF Whole

(* delete_firewall_policy leaves no rule behind, except one that was stored *)
(* after it had collected the rules.                                        *)
THEOREM RulesKeepPolicy == Spec => []RulesHavePolicy
BY WholeHolds, PTL DEF Whole, Owned

-----------------------------------------------------------------------------
(* While nothing overlaps and no answer is lost there is one request at     *)
(* most, what it holds is what the tables hold, and the rules it has in     *)
(* hand are the only ones the router may not have.                          *)
Alone == \A q, s \in Requests : call[q].pc # "idle" /\ call[s].pc # "idle" => q = s

NameOf(k) == policies[rules[k].policy].name

Own(q) ==
  /\ call[q].pc \in {"policy_router", "policy_collect", "policy_commit"} =>
       call[q].id \in DOMAIN policies /\ call[q].name = policies[call[q].id].name
  /\ call[q].pc = "rule_insert" =>
       /\ call[q].row.policy \in DOMAIN policies
       /\ call[q].name = policies[call[q].row.policy].name
  /\ call[q].pc \in {"rule_refresh", "rule_apply", "update_commit", "update_refresh",
                     "update_apply", "rule_router"} =>
       /\ call[q].id \in DOMAIN rules /\ rules[call[q].id].policy \in DOMAIN policies
       /\ call[q].name = NameOf(call[q].id)
  /\ call[q].pc \in {"rule_apply", "update_apply", "rule_router"} =>
       call[q].row = rules[call[q].id]

InHand(q, k) ==
  \/ /\ call[q].pc \in {"rule_refresh", "rule_apply", "rule_delete", "update_refresh",
                        "update_apply"}
     /\ call[q].id = k
  \/ /\ call[q].pc \in {"policy_collect", "policy_commit"}
     /\ call[q].id = rules[k].policy

Followed(k) == filter[<<NameOf(k), rules[k].number>>] = rules[k].value

Enforced == \A k \in DOMAIN rules \ drifted : Followed(k) \/ \E q \in Requests : InHand(q, k)

Quiet == Alone /\ late = {} /\ (\A q \in Requests : Own(q)) /\ Enforced

Calm == ~disturbed => Quiet

(* A step of the only request leaves it the only one.                       *)
LEMMA StillAlone ==
  ASSUME Quiet, NEW r \in Requests, \A q \in Requests \ {r} : call[q].pc = "idle",
         \A q \in Requests \ {r} : call'[q] = call[q], Own(r)'
  PROVE  Alone' /\ \A q \in Requests : Own(q)'
BY DEF Quiet, Alone, Own

(* Nothing but the request's own rule is under its policy's name and number.*)
LEMMA OneKey ==
  ASSUME Whole, late = {}, NEW i \in DOMAIN rules, NEW j \in DOMAIN rules, i # j
  PROVE  <<NameOf(i), rules[i].number>> # <<NameOf(j), rules[j].number>>
BY DEF Whole, UniquePolicyNames, UniqueRuleNumbers, SameNumber, NameOf, Owned, RulesHavePolicy

LEMMA Keys ==
  ASSUME Whole, late = {}, NEW k \in DOMAIN rules
  PROVE  /\ rules[k] \in Rule /\ rules[k].policy \in DOMAIN policies
         /\ <<NameOf(k), rules[k].number>> \in Names \X Numbers
BY DEF Whole, Types, Tables, Rule, Policy, NameOf, Owned, RulesHavePolicy

LEMMA CalmPolicies ==
  ASSUME Whole, Calm, NEW r \in Requests, Policies(r)
  PROVE  Calm'
<1> SUFFICES ASSUME ~disturbed' PROVE Quiet'
  BY DEF Calm
<1> USE DEF Quiet, Whole, Types, Slots
<1>0. ~disturbed /\ Quiet
  <2>1. ASSUME NEW phase, NEW id, NEW row, NEW old, NEW name, Begin(r, phase, id, row, old, name)
        PROVE  ~disturbed
    BY <2>1 DEF Begin
  <2>2. ASSUME NEW answer, NEW after, Call(answer, after) PROVE ~disturbed
    BY <2>2 DEF Call
  <2>3. ~disturbed
    BY <2>1, <2>2 DEF Policies, PolicyCheck, PolicyInsert, RenameLoad, RenameCommit,
       PolicyDeleteLoad, PolicyDeleteRouter, PolicyDeleteCollect, PolicyDeleteCommit
  <2> QED BY <2>3 DEF Calm
<1>a. ASSUME call[r].pc # "idle" PROVE \A q \in Requests \ {r} : call[q].pc = "idle"
  BY <1>0, <1>a DEF Alone
<1>b. ASSUME NEW phase, NEW id, NEW row, NEW old, NEW name, Begin(r, phase, id, row, old, name)
      PROVE  /\ \A q \in Requests : call[q].pc = "idle"
             /\ \A q \in Requests \ {r} : call'[q] = call[q]
             /\ call'[r].pc = phase /\ call'[r].id = id /\ call'[r].row = row
             /\ call'[r].name = name
  BY <1>b DEF Begin
<1>c. ASSUME Finish(r)
      PROVE  call'[r].pc = "idle" /\ \A q \in Requests \ {r} : call'[q] = call[q]
  BY <1>c DEF Finish, Idle
<1>d. ASSUME call'[r].pc = "idle" PROVE Own(r)'
  BY <1>d DEF Own
<1>1. ASSUME NEW u \in Users, NEW name \in Names, PolicyCheck(r, u, name) PROVE Quiet'
  <2>1. /\ \A q \in Requests : call[q].pc = "idle"
        /\ \A q \in Requests \ {r} : call'[q] = call[q]
        /\ call'[r].pc = "policy_insert"
        /\ UNCHANGED <<policies, rules, filter, drifted, late>>
    BY <1>1, <1>b DEF PolicyCheck
  <2>2. Own(r)'
    BY <2>1 DEF Own
  <2> QED BY <1>0, <2>1, <2>2, StillAlone DEF Enforced, InHand, Followed, NameOf
<1>2. CASE PolicyInsert(r)
  <2>1. UNCHANGED <<rules, filter, drifted, late>> /\ call[r].pc = "policy_insert"
    BY <1>2 DEF PolicyInsert
  <2>2. \A i \in DOMAIN policies : i \in DOMAIN policies' /\ policies'[i] = policies[i]
    <3>1. ASSUME NEW n \in PolicyIds, FreshId(policies, n),
                 policies' = Put(policies, n, call[r].row)
          PROVE  \A i \in DOMAIN policies : i \in DOMAIN policies' /\ policies'[i] = policies[i]
      BY <3>1 DEF Put, FreshId, Tables, PolicyIds
    <3> QED BY <1>2, <3>1 DEF PolicyInsert
  <2>3. Alone' /\ \A q \in Requests : Own(q)'
    BY <1>0, <1>2, <1>a, <1>c, <1>d, StillAlone DEF PolicyInsert
  <2>4. ASSUME NEW k \in DOMAIN rules PROVE NameOf(k)' = NameOf(k)
    BY <1>0, <2>1, <2>2, Keys DEF NameOf
  <2>5. \A q \in Requests, k \in DOMAIN rules : ~InHand(q, k)
    BY <2>1, <1>a DEF InHand
  <2> QED BY <1>0, <2>1, <2>3, <2>4, <2>5 DEF Enforced, Followed
<1>3. ASSUME NEW u \in Users, NEW id \in PolicyIds, NEW name \in Names,
             RenameLoad(r, u, id, name)
      PROVE  Quiet'
  <2>1. /\ \A q \in Requests : call[q].pc = "idle"
        /\ \A q \in Requests \ {r} : call'[q] = call[q]
        /\ call'[r].pc = "rename_commit"
        /\ UNCHANGED <<policies, rules, filter, drifted, late>>
    BY <1>3, <1>b DEF RenameLoad
  <2>2. Own(r)'
    BY <2>1 DEF Own
  <2> QED BY <1>0, <2>1, <2>2, StillAlone DEF Enforced, InHand, Followed, NameOf
<1>4. CASE RenameCommit(r)
  <2>1. UNCHANGED <<rules, filter, late>> /\ call[r].pc = "rename_commit"
    BY <1>4 DEF RenameCommit
  <2>2. Alone' /\ \A q \in Requests : Own(q)'
    BY <1>0, <1>4, <1>a, <1>c, <1>d, StillAlone DEF RenameCommit
  <2>3. \A q \in Requests, k \in DOMAIN rules : ~InHand(q, k)
    BY <2>1, <1>a DEF InHand
  <2>4. ASSUME NEW k \in DOMAIN rules \ drifted' PROVE k \notin drifted /\ NameOf(k)' = NameOf(k)
    BY <1>0, <1>4, <2>1, Keys DEF RenameCommit, NameOf, OfPolicy, Tables
  <2> QED BY <1>0, <2>1, <2>2, <2>3, <2>4 DEF Enforced, Followed
<1>5. ASSUME NEW u \in Users, NEW id \in PolicyIds, PolicyDeleteLoad(r, u, id) PROVE Quiet'
  <2>1. /\ \A q \in Requests : call[q].pc = "idle"
        /\ \A q \in Requests \ {r} : call'[q] = call[q]
        /\ call'[r].pc = "policy_router" /\ call'[r].id = id
        /\ call'[r].name = policies[id].name /\ id \in DOMAIN policies
        /\ UNCHANGED <<policies, rules, filter, drifted, late>>
    BY <1>5, <1>b DEF PolicyDeleteLoad
  <2>2. Own(r)'
    BY <2>1 DEF Own
  <2> QED BY <1>0, <2>1, <2>2, StillAlone DEF Enforced, InHand, Followed, NameOf
<1>6. ASSUME NEW answer \in Answers, PolicyDeleteRouter(r, answer) PROVE Quiet'
  <2>1. /\ UNCHANGED <<policies, rules, drifted, late>>
        /\ call[r].pc = "policy_router" /\ call'[r].pc = "policy_collect"
        /\ call'[r].id = call[r].id /\ call'[r].name = call[r].name
        /\ \A q \in Requests \ {r} : call'[q] = call[q]
    BY <1>6 DEF PolicyDeleteRouter, GoTo, Slot
  <2>2. Own(r)'
    BY <1>0, <2>1 DEF Own
  <2>3. \A q \in Requests, k \in DOMAIN rules : ~InHand(q, k)
    BY <2>1, <1>a DEF InHand
  <2>4. filter' = filter \/ filter' = DeletePolicy(call[r].name)
    BY <1>6 DEF PolicyDeleteRouter, Call
  <2>5. ASSUME NEW k \in DOMAIN rules \ drifted, rules[k].policy # call[r].id
        PROVE  Followed(k)'
    <3>1. NameOf(k) # call[r].name
      <4>1. rules[k].policy \in DOMAIN policies
        BY <1>0, Keys
      <4>2. call[r].id \in DOMAIN policies /\ call[r].name = policies[call[r].id].name
        BY <1>0, <2>1 DEF Own
      <4> QED BY <2>5, <4>1, <4>2 DEF NameOf, UniquePolicyNames
    <3>2. filter'[<<NameOf(k), rules[k].number>>] = filter[<<NameOf(k), rules[k].number>>]
      BY <1>0, <2>4, <3>1, Keys DEF DeletePolicy, Tables
    <3> QED BY <1>0, <2>1, <2>3, <3>2 DEF Enforced, Followed, NameOf
  <2> QED BY <1>0, <1>a, <2>1, <2>2, <2>5, StillAlone DEF Enforced, InHand
<1>7. CASE PolicyDeleteCollect(r)
  <2>1. /\ UNCHANGED <<policies, rules, filter, drifted, late>>
        /\ call[r].pc = "policy_collect" /\ call'[r].pc = "policy_commit"
        /\ call'[r].id = call[r].id /\ call'[r].name = call[r].name
        /\ \A q \in Requests \ {r} : call'[q] = call[q]
    BY <1>7 DEF PolicyDeleteCollect, Slot
  <2>2. Own(r)'
    BY <1>0, <2>1 DEF Own
  <2>3. ASSUME NEW k \in DOMAIN rules, NEW q \in Requests, InHand(q, k) PROVE InHand(r, k)'
    BY <2>1, <1>a, <2>3 DEF InHand
  <2>4. ASSUME NEW k \in DOMAIN rules, Followed(k) PROVE Followed(k)'
    BY <2>1, <2>4 DEF Followed, NameOf
  <2> QED BY <1>0, <1>a, <2>1, <2>2, <2>3, <2>4, StillAlone DEF Enforced
<1>8. CASE PolicyDeleteCommit(r)
  <2>1. /\ call[r].pc = "policy_commit" /\ filter' = filter
        /\ DOMAIN policies' = DOMAIN policies \ {call[r].id}
        /\ \A i \in DOMAIN policies' : policies'[i] = policies[i]
        /\ DOMAIN rules' = DOMAIN rules \ call[r].found
        /\ \A k \in DOMAIN rules' : rules'[k] = rules[k]
        /\ drifted' = drifted \ call[r].found /\ late' = late \ call[r].found
    BY <1>8 DEF PolicyDeleteCommit, Remove
  <2>2. Alone' /\ \A q \in Requests : Own(q)'
    BY <1>0, <1>8, <1>a, <1>c, <1>d, StillAlone DEF PolicyDeleteCommit
  <2>3. ASSUME NEW k \in DOMAIN rules' \ drifted' PROVE Followed(k)'
    <3>1. k \in DOMAIN rules \ drifted /\ rules[k].policy # call[r].id
      BY <1>0, <2>1 DEF Owned, Collected
    <3>2. \A q \in Requests : ~InHand(q, k)
      BY <1>a, <2>1, <3>1 DEF InHand
    <3>3. NameOf(k)' = NameOf(k) /\ rules'[k] = rules[k]
      BY <1>0, <2>1, <3>1, Keys DEF NameOf
    <3> QED BY <1>0, <2>1, <3>1, <3>2, <3>3 DEF Enforced, Followed
  <2> QED BY <1>0, <2>1, <2>2, <2>3 DEF Enforced
<1> QED BY <1>1, <1>2, <1>3, <1>4, <1>5, <1>6, <1>7, <1>8 DEF Policies

(* A router call for rule k's own place leaves every other rule's alone.    *)
LEMMA OthersUntouched ==
  ASSUME Whole, late = {}, NEW k \in DOMAIN rules, NEW j \in DOMAIN rules, k # j,
         NEW value,
         filter' = filter \/ filter' = [filter EXCEPT ![<<NameOf(k), rules[k].number>>] = value]
  PROVE  filter'[<<NameOf(j), rules[j].number>>] = filter[<<NameOf(j), rules[j].number>>]
BY OneKey, Keys DEF Whole, Types, Tables

LEMMA CalmRules ==
  ASSUME Whole, Calm, NEW r \in Requests, Rules(r)
  PROVE  Calm'
<1> SUFFICES ASSUME ~disturbed' PROVE Quiet'
  BY DEF Calm
<1> USE DEF Quiet, Whole, Types, Slots
<1>0. ~disturbed /\ Quiet
  <2>1. ASSUME NEW phase, NEW id, NEW row, NEW old, NEW name, Begin(r, phase, id, row, old, name)
        PROVE  ~disturbed
    BY <2>1 DEF Begin
  <2>2. ASSUME NEW answer, NEW after, Call(answer, after) PROVE ~disturbed
    BY <2>2 DEF Call
  <2>3. ~disturbed
    BY <2>1, <2>2 DEF Rules, RuleCheck, RuleInsert, RuleRefresh, RuleApply, RuleUpdateLoad,
       RuleUpdateCommit, RuleUpdateApply, RuleDeleteLoad, RuleDeleteRouter, RuleDelete
  <2> QED BY <2>3 DEF Calm
<1>a. ASSUME call[r].pc # "idle" PROVE \A q \in Requests \ {r} : call[q].pc = "idle"
  BY <1>0, <1>a DEF Alone
<1>b. ASSUME NEW phase, NEW id, NEW row, NEW old, NEW name, Begin(r, phase, id, row, old, name)
      PROVE  /\ \A q \in Requests : call[q].pc = "idle"
             /\ \A q \in Requests \ {r} : call'[q] = call[q]
             /\ call'[r].pc = phase /\ call'[r].id = id /\ call'[r].row = row
             /\ call'[r].name = name
  BY <1>b DEF Begin
<1>c. ASSUME Finish(r)
      PROVE  call'[r].pc = "idle" /\ \A q \in Requests \ {r} : call'[q] = call[q]
  BY <1>c DEF Finish, Idle
<1>d. ASSUME call'[r].pc = "idle" PROVE Own(r)'
  BY <1>d DEF Own
<1>e. ASSUME NEW phase, GoTo(r, phase)
      PROVE  /\ call'[r].pc = phase /\ call'[r].id = call[r].id /\ call'[r].row = call[r].row
             /\ call'[r].name = call[r].name
             /\ \A q \in Requests \ {r} : call'[q] = call[q]
  BY <1>e DEF GoTo, Slot
(* Steps that leave tables and router alone and start no request's business *)
(* with a rule that was in hand.                                            *)
<1>f. ASSUME UNCHANGED <<policies, rules, filter, drifted, late>>, Own(r)',
             \A q \in Requests \ {r} : call[q].pc = "idle" /\ call'[q] = call[q],
             \A k \in DOMAIN rules : InHand(r, k) => InHand(r, k)'
      PROVE  Quiet'
  <2>1. ASSUME NEW k \in DOMAIN rules, Followed(k) PROVE Followed(k)'
    BY <1>f, <2>1 DEF Followed, NameOf
  <2>2. ASSUME NEW k \in DOMAIN rules, NEW q \in Requests, InHand(q, k) PROVE InHand(r, k)'
    BY <1>f, <2>2 DEF InHand
  <2> QED BY <1>0, <1>f, <2>1, <2>2, StillAlone DEF Enforced
<1>1. ASSUME NEW id \in PolicyIds, NEW number \in Numbers, NEW value \in Values,
             RuleCheck(r, id, number, value)
      PROVE  Quiet'
  <2> DEFINE row == [policy |-> id, number |-> number, value |-> value]
  <2>1. /\ Begin(r, "rule_insert", 0, row, None, policies[id].name)
        /\ UNCHANGED <<policies, rules, filter, drifted, late>>
        /\ id \in DOMAIN policies
    BY <1>1 DEF RuleCheck
  <2>2. row.policy = id
    OBVIOUS
  <2> HIDE DEF row
  <2>3. Own(r)'
    BY <2>1, <2>2, <1>b DEF Own
  <2> QED BY <1>b, <1>f, <2>1, <2>3 DEF InHand
<1>2. CASE RuleInsert(r)
  <2>1. call[r].pc = "rule_insert" /\ UNCHANGED <<policies, filter, drifted>>
    BY <1>2 DEF RuleInsert
  <2>2. CASE Finish(r) /\ UNCHANGED <<rules, late>>
    BY <1>a, <1>c, <1>d, <1>f, <2>1, <2>2 DEF InHand
  <2>3. ASSUME NEW n \in RuleIds, FreshId(rules, n), Stored(r, n) PROVE Quiet'
    <3>1. /\ call[r].row.policy \in DOMAIN policies
          /\ call[r].name = policies[call[r].row.policy].name
      BY <1>0, <2>1 DEF Own
    <3>2. ~Leaving(call[r].row.policy)
      BY <1>a, <2>1, <3>1 DEF Leaving
    <3>3. /\ DOMAIN rules' = DOMAIN rules \union {n}
          /\ \A k \in DOMAIN rules : k # n => rules'[k] = rules[k]
          /\ rules'[n] = call[r].row /\ late' = late
      BY <2>3, <3>2 DEF Stored, Put
    <3>4. /\ call'[r].pc = "rule_refresh" /\ call'[r].id = n
          /\ call'[r].name = call[r].name
          /\ \A q \in Requests \ {r} : call'[q] = call[q]
      BY <2>3 DEF Stored, Slot
    <3>5. Own(r)'
      BY <2>1, <3>1, <3>3, <3>4 DEF Own, NameOf
    <3>6. InHand(r, n)'
      BY <3>4 DEF InHand
    <3>7. ASSUME NEW k \in DOMAIN rules \ drifted, k # n PROVE Followed(k)'
      <4>1. \A q \in Requests : ~InHand(q, k)
        BY <1>a, <2>1 DEF InHand
      <4>2. Followed(k)
        BY <1>0, <3>7, <4>1 DEF Enforced
      <4>3. rules'[k] = rules[k] /\ NameOf(k)' = NameOf(k)
        BY <2>1, <3>3, <3>7 DEF NameOf
      <4> QED BY <2>1, <4>2, <4>3 DEF Followed
    <3> QED BY <1>0, <1>a, <2>1, <3>3, <3>4, <3>5, <3>6, <3>7, StillAlone DEF Enforced
  <2> QED BY <1>2, <2>2, <2>3 DEF RuleInsert
<1>3. CASE RuleRefresh(r)
  <2>0. UNCHANGED <<policies, rules, filter, drifted, late>>
    BY <1>3 DEF RuleRefresh
  <2>1. ASSUME NEW phase \in {"rule_apply", "update_apply"}, Refresh(r, phase),
               call[r].pc \in {"rule_refresh", "update_refresh"}
        PROVE  Quiet'
    <3>1. /\ call'[r].pc = phase /\ call'[r].id = call[r].id /\ call'[r].name = call[r].name
          /\ call'[r].row = rules[call[r].id]
          /\ \A q \in Requests \ {r} : call'[q] = call[q]
      BY <2>1 DEF Refresh, Slot
    <3>2. Own(r)'
      BY <1>0, <2>0, <2>1, <3>1 DEF Own, NameOf
    <3> QED BY <1>a, <1>f, <2>0, <2>1, <3>1, <3>2 DEF InHand
  <2>2. CASE Finish(r) /\ call[r].pc \in {"rule_refresh", "update_refresh"}
    <3>1. call[r].id \in DOMAIN rules
      BY <1>0, <2>2 DEF Own
    <3>2. call[r].id \notin DOMAIN rules
      <4>1. Finish(r) => call'[r].pc = "idle"
        BY <1>c
      <4>2. ASSUME NEW phase \in {"rule_apply", "update_apply"}
            PROVE  Refresh(r, phase) => call'[r].pc # "idle"
        BY DEF Refresh, Slot
      <4> QED BY <1>3, <2>2, <4>1, <4>2 DEF RuleRefresh
    <3> QED BY <3>1, <3>2
  <2> QED BY <1>3, <2>1, <2>2 DEF RuleRefresh
<1>4. ASSUME NEW answer \in Answers, RuleApply(r, answer) PROVE Quiet'
  <2> PICK k : k = call[r].id
    OBVIOUS
  <2>1. /\ call[r].pc = "rule_apply" /\ UNCHANGED <<policies, rules, drifted, late>>
        /\ \A q \in Requests \ {r} : call[q].pc = "idle" /\ call'[q] = call[q]
    BY <1>4, <1>a, <1>c, <1>e DEF RuleApply
  <2>2. /\ k \in DOMAIN rules /\ call[r].name = NameOf(k) /\ call[r].row = rules[k]
    BY <1>0, <2>1 DEF Own
  <2>3. \/ filter' = filter /\ answer = "refused"
        \/ filter' = [filter EXCEPT ![<<NameOf(k), rules[k].number>>] = rules[k].value]
    BY <1>4, <2>2 DEF RuleApply, Call, SetRule
  <2>4. ASSUME NEW j \in DOMAIN rules \ drifted, j # k PROVE Followed(j)'
    <3>1. \A q \in Requests : ~InHand(q, j)
      BY <2>1, <2>4 DEF InHand
    <3>2. filter'[<<NameOf(j), rules[j].number>>] = filter[<<NameOf(j), rules[j].number>>]
      BY <1>0, <2>2, <2>3, <2>4, OthersUntouched
    <3> QED BY <1>0, <2>1, <2>4, <3>1, <3>2 DEF Enforced, Followed, NameOf
  <2>5. CASE answer = "ok"
    <3>1. call'[r].pc = "idle"
      BY <1>4, <2>5, <1>c DEF RuleApply
    <3>2. Followed(k)'
      BY <1>0, <2>1, <2>2, <2>3, <2>5, Keys DEF Followed, NameOf, Tables
    <3> QED BY <1>0, <1>d, <2>1, <2>2, <2>4, <3>1, <3>2, StillAlone DEF Enforced
  <2>6. CASE answer # "ok"
    <3>1. call'[r].pc = "rule_delete" /\ call'[r].id = k
      BY <1>4, <2>6, <1>e DEF RuleApply
    <3>2. Own(r)' /\ InHand(r, k)'
      BY <3>1 DEF Own, InHand
    <3> QED BY <1>0, <2>1, <2>4, <3>2, StillAlone DEF Enforced
  <2> QED BY <2>5, <2>6
<1>5. ASSUME NEW k \in RuleIds, NEW number \in Numbers, NEW value \in Values,
             RuleUpdateLoad(r, k, number, value)
      PROVE  Quiet'
  <2> DEFINE new == [rules[k] EXCEPT !.number = number, !.value = value]
  <2>1. /\ Begin(r, "update_commit", k, new, rules[k], policies[rules[k].policy].name)
        /\ UNCHANGED <<policies, rules, filter, drifted, late>>
        /\ k \in DOMAIN rules /\ rules[k].policy \in DOMAIN policies
    BY <1>5 DEF RuleUpdateLoad
  <2> HIDE DEF new
  <2>2. Own(r)'
    BY <2>1, <1>b DEF Own, NameOf
  <2> QED BY <1>b, <1>f, <2>1, <2>2 DEF InHand
<1>6. CASE RuleUpdateCommit(r)
  <2> PICK k : k = call[r].id
    OBVIOUS
  <2>1. /\ call[r].pc = "update_commit" /\ UNCHANGED <<policies, filter, drifted, late>>
    BY <1>6 DEF RuleUpdateCommit
  <2>2. /\ k \in DOMAIN rules /\ rules[k].policy \in DOMAIN policies
        /\ call[r].name = NameOf(k)
    BY <1>0, <2>1 DEF Own
  <2>3. CASE Finish(r) /\ UNCHANGED rules
    BY <1>a, <1>c, <1>d, <1>f, <2>1, <2>3 DEF InHand
  <2>4. CASE rules' = [rules EXCEPT ![k] = Written(r)] /\ GoTo(r, "update_refresh")
    <3>1. /\ call'[r].pc = "update_refresh" /\ call'[r].id = k
          /\ call'[r].name = call[r].name
          /\ \A q \in Requests \ {r} : call'[q] = call[q]
      BY <2>4, <1>e
    <3>2. /\ DOMAIN rules' = DOMAIN rules
          /\ \A j \in DOMAIN rules : j # k => rules'[j] = rules[j]
      BY <2>4
    <3>3. rules'[k].policy = rules[k].policy
      BY <2>2, <2>4 DEF Written, Tables, Rule
    <3>4. Own(r)' /\ InHand(r, k)'
      BY <2>1, <2>2, <3>1, <3>2, <3>3 DEF Own, NameOf, InHand
    <3>5. ASSUME NEW j \in DOMAIN rules \ drifted, j # k PROVE Followed(j)'
      <4>1. \A q \in Requests : ~InHand(q, j)
        BY <1>a, <2>1 DEF InHand
      <4>2. Followed(j)
        BY <1>0, <3>5, <4>1 DEF Enforced
      <4> QED BY <2>1, <3>2, <3>5, <4>2 DEF Followed, NameOf
    <3> QED BY <1>0, <1>a, <2>1, <3>1, <3>2, <3>4, <3>5, StillAlone DEF Enforced
  <2> QED BY <1>6, <2>3, <2>4 DEF RuleUpdateCommit
<1>7. ASSUME NEW answer \in Answers, RuleUpdateApply(r, answer) PROVE Quiet'
  <2> PICK k : k = call[r].id
    OBVIOUS
  <2>1. /\ call[r].pc = "update_apply" /\ UNCHANGED <<policies, rules, late>>
        /\ call'[r].pc = "idle"
        /\ \A q \in Requests \ {r} : call[q].pc = "idle" /\ call'[q] = call[q]
        /\ drifted' = IF answer = "ok" THEN drifted \ {k} ELSE drifted \union {k}
    BY <1>7, <1>a, <1>c DEF RuleUpdateApply
  <2>2. /\ k \in DOMAIN rules /\ call[r].name = NameOf(k) /\ call[r].row = rules[k]
    BY <1>0, <2>1 DEF Own
  <2>3. \/ filter' = filter /\ answer = "refused"
        \/ filter' = [filter EXCEPT ![<<NameOf(k), rules[k].number>>] = rules[k].value]
    BY <1>7, <2>2 DEF RuleUpdateApply, Call, SetRule
  <2>4. ASSUME NEW j \in DOMAIN rules \ drifted, j # k PROVE Followed(j)'
    <3>1. \A q \in Requests : ~InHand(q, j)
      BY <2>1, <2>4 DEF InHand
    <3>2. filter'[<<NameOf(j), rules[j].number>>] = filter[<<NameOf(j), rules[j].number>>]
      BY <1>0, <2>2, <2>3, <2>4, OthersUntouched
    <3> QED BY <1>0, <2>1, <2>4, <3>1, <3>2 DEF Enforced, Followed, NameOf
  <2>5. answer = "ok" => Followed(k)'
    BY <1>0, <2>1, <2>2, <2>3, Keys DEF Followed, NameOf, Tables
  <2> QED BY <1>0, <1>d, <2>1, <2>2, <2>4, <2>5, StillAlone DEF Enforced
<1>8. ASSUME NEW k \in RuleIds, RuleDeleteLoad(r, k) PROVE Quiet'
  <2>1. /\ Begin(r, "rule_router", k, rules[k], None, policies[rules[k].policy].name)
        /\ UNCHANGED <<policies, rules, filter, drifted, late>>
        /\ k \in DOMAIN rules /\ rules[k].policy \in DOMAIN policies
    BY <1>8 DEF RuleDeleteLoad
  <2>2. Own(r)'
    BY <2>1, <1>b DEF Own, NameOf
  <2> QED BY <1>b, <1>f, <2>1, <2>2 DEF InHand
<1>9. ASSUME NEW answer \in Answers, RuleDeleteRouter(r, answer) PROVE Quiet'
  <2> PICK k : k = call[r].id
    OBVIOUS
  <2>1. /\ call[r].pc = "rule_router" /\ UNCHANGED <<policies, rules, drifted, late>>
        /\ call'[r].pc = "rule_delete" /\ call'[r].id = k
        /\ \A q \in Requests \ {r} : call[q].pc = "idle" /\ call'[q] = call[q]
    BY <1>9, <1>a, <1>e DEF RuleDeleteRouter
  <2>2. /\ k \in DOMAIN rules /\ call[r].name = NameOf(k) /\ call[r].row = rules[k]
    BY <1>0, <2>1 DEF Own
  <2>3. \/ filter' = filter
        \/ filter' = [filter EXCEPT ![<<NameOf(k), rules[k].number>>] = Absent]
    BY <1>9, <2>2 DEF RuleDeleteRouter, Call, DeleteRule
  <2>4. ASSUME NEW j \in DOMAIN rules \ drifted, j # k PROVE Followed(j)'
    <3>1. \A q \in Requests : ~InHand(q, j)
      BY <2>1, <2>4 DEF InHand
    <3>2. filter'[<<NameOf(j), rules[j].number>>] = filter[<<NameOf(j), rules[j].number>>]
      BY <1>0, <2>2, <2>3, <2>4, OthersUntouched
    <3> QED BY <1>0, <2>1, <2>4, <3>1, <3>2 DEF Enforced, Followed, NameOf
  <2>5. Own(r)' /\ InHand(r, k)'
    BY <2>1 DEF Own, InHand
  <2> QED BY <1>0, <2>1, <2>4, <2>5, StillAlone DEF Enforced
<1>10. CASE RuleDelete(r)
  <2> PICK k : k = call[r].id
    OBVIOUS
  <2>1. /\ call[r].pc = "rule_delete" /\ UNCHANGED <<policies, filter>>
        /\ DOMAIN rules' = DOMAIN rules \ {k}
        /\ \A j \in DOMAIN rules' : rules'[j] = rules[j]
        /\ drifted' = drifted \ {k} /\ late' = late \ {k}
        /\ call'[r].pc = "idle"
        /\ \A q \in Requests \ {r} : call[q].pc = "idle" /\ call'[q] = call[q]
    BY <1>10, <1>a, <1>c DEF RuleDelete, Remove
  <2>2. ASSUME NEW j \in DOMAIN rules' \ drifted' PROVE Followed(j)'
    <3>1. \A q \in Requests : ~InHand(q, j)
      BY <2>1, <2>2 DEF InHand
    <3> QED BY <1>0, <2>1, <2>2, <3>1 DEF Enforced, Followed, NameOf
  <2> QED BY <1>0, <1>d, <2>1, <2>2, StillAlone DEF Enforced
<1> QED BY <1>1, <1>2, <1>3, <1>4, <1>5, <1>6, <1>7, <1>8, <1>9, <1>10 DEF Rules

(* Requests one at a time, no answer lost: a stored rule is in force under  *)
(* its policy's name unless its own last update failed or the policy was    *)
(* renamed.                                                                 *)
THEOREM RulesStayInForce == Spec => []RulesInForce
<1>1. Init => Calm
  BY DEF Init, Idle, Calm, Quiet, Alone, Own, Enforced
<1>2. Whole /\ Calm /\ [Next]_vars => Calm'
  <2> SUFFICES ASSUME Whole, Calm, [Next]_vars PROVE Calm'
    OBVIOUS
  <2>1. CASE UNCHANGED vars
    BY <2>1 DEF vars, Calm, Quiet, Alone, Own, Enforced, Followed, InHand, NameOf
  <2> QED BY <2>1, CalmPolicies, CalmRules DEF Next
<1>3. Calm => RulesInForce
  BY DEF Calm, Quiet, Enforced, InHand, Followed, NameOf, RulesInForce
<1> QED BY WholeHolds, <1>1, <1>2, <1>3, PTL DEF Spec
=============================================================================
