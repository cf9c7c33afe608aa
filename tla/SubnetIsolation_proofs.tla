------------------------ MODULE SubnetIsolation_proofs ------------------------
(***************************************************************************)
(* Proofs about SubnetIsolation for any number of subnets, rules, names and *)
(* requests, with lost answers and crashes.                                 *)
(***************************************************************************)
EXTENDS SubnetIsolation, TLAPS

(* Which statements call the router.                                        *)
LEMMA RouterWriters ==
  ASSUME [Next]_vars, router' # router
  PROVE  \E r \in Requests, answer \in Answers :
           \/ CreateIsolate(r, answer) \/ UpdateIsolate(r, answer)
           \/ DeleteIsolationStep(r, answer)
           \/ SwitchApply(r, answer) \/ DisconnectCall(r, answer)
BY DEF Next, vars, Crash, SubnetStep, RuleStep, CreateCheck, CreateInsert,
       CreateRefresh, UpdateLoad, UpdateCommit, DeleteLoad, DeleteCommit,
       ConnectCheck, ConnectInsert, SwitchLoad, SwitchCommit, SwitchRefresh,
       DisconnectLoad, DisconnectCommit

-----------------------------------------------------------------------------
(* Types.  A request slot holds what its phase will write.                  *)
Slot == [pc: Phases, id: Ids \union RuleIds \union {0},
         old: Subnet \union Rule \union {None}, new: Subnet \union Rule \union {None},
         plan: {"none", "set", "delete", "recreate"}]

Locals(slot) ==
  /\ slot \in Slot
  /\ slot.pc \in {"create_insert", "update_isolate", "update_commit"} => slot.new \in Subnet
  /\ slot.pc \in {"update_isolate", "update_commit"} => slot.old \in Subnet
  /\ slot.pc \in {"create_isolate", "create_refresh", "update_isolate", "update_commit",
                  "delete_isolation"} => slot.id \in Ids
  /\ slot.pc \in {"connect_insert", "switch_commit", "switch_refresh", "switch_apply"}
       => slot.new \in Rule
  /\ slot.pc = "disconnect_call" => slot.old \in Rule

Slots == req \in [Requests -> Slot] /\ \A r \in Requests : Locals(req[r])

Router == [policies: SUBSET Policies, accepting: SUBSET Policies,
           bound: Policies \union {None}]

Tables ==
  /\ DOMAIN subnets \subseteq Ids /\ subnets \in [DOMAIN subnets -> Subnet]
  /\ DOMAIN rules \subseteq RuleIds /\ rules \in [DOMAIN rules -> Rule]
  /\ unapplied \subseteq Ids /\ released \subseteq Ids

Types == Tables /\ router \in Router /\ Slots

LEMMA SlotSet ==
  ASSUME Slots, NEW r \in Requests, NEW slot, Locals(slot),
         req' = [req EXCEPT ![r] = slot]
  PROVE  Slots'
BY DEF Slots, Locals

LEMMA Finished ==
  ASSUME Slots, NEW r \in Requests, Finish(r)
  PROVE  Slots'
<1>1. Locals(Idle)
  BY DEF Locals, Slot, Phases, Idle
<1> QED BY <1>1, SlotSet DEF Finish

LEMMA Moved ==
  ASSUME Slots, NEW r \in Requests, NEW phase \in Phases, GoTo(r, phase),
         Locals([req[r] EXCEPT !.pc = phase])
  PROVE  Slots'
<1>1. req' = [req EXCEPT ![r] = [req[r] EXCEPT !.pc = phase]]
  BY DEF GoTo, Slots
<1> QED BY <1>1, SlotSet

(* Rows put in, changed or taken out.                                       *)
LEMMA Inserted ==
  ASSUME NEW table, NEW S, NEW T, NEW n \in S, NEW row \in T,
         DOMAIN table \subseteq S, table \in [DOMAIN table -> T]
  PROVE  /\ DOMAIN Insert(table, n, row) \subseteq S
         /\ Insert(table, n, row) \in [DOMAIN Insert(table, n, row) -> T]
BY DEF Insert

LEMMA Removed ==
  ASSUME NEW table, NEW S, NEW T, NEW n,
         DOMAIN table \subseteq S, table \in [DOMAIN table -> T]
  PROVE  /\ DOMAIN Remove(table, n) \subseteq S
         /\ Remove(table, n) \in [DOMAIN Remove(table, n) -> T]
BY DEF Remove

(* The generators of commands configure the router with policies.           *)
LEMMA GeneratorsTyped ==
  ASSUME NEW cfg \in Router
  PROVE  /\ \A id \in Ids : /\ SetIsolation(cfg, id) \in Router
                            /\ DeleteIsolation(cfg, id) \in Router
         /\ \A rule \in Rule : /\ SetConnection(cfg, rule) \in Router
                               /\ DeleteConnection(cfg, rule) \in Router
<1>1. ASSUME NEW id \in Ids
      PROVE  SetIsolation(cfg, id) \in Router /\ DeleteIsolation(cfg, id) \in Router
  <2>1. Isolation(id) \in Policies
    BY DEF Isolation, Policies
  <2> QED BY <2>1 DEF SetIsolation, DeleteIsolation, Unbind, Router
<1>2. ASSUME NEW rule \in Rule
      PROVE  SetConnection(cfg, rule) \in Router /\ DeleteConnection(cfg, rule) \in Router
  <2>1. Connection(rule) \in Policies
    BY DEF Connection, Policies, Rule
  <2> QED BY <2>1 DEF SetConnection, DeleteConnection, Unbind, Router
<1> QED BY <1>1, <1>2

LEMMA SubnetStepTypes ==
  ASSUME Types, NEW r \in Requests, SubnetStep(r)
  PROVE  Types'
<1> USE DEF Types
<1>0. req[r] \in Slot /\ Locals(req[r])
  BY DEF Slots
<1>1. ASSUME NEW new \in Subnet, CreateCheck(r, new) PROVE Types'
  <2> DEFINE slot == [pc |-> "create_insert", id |-> 0, old |-> None, new |-> new,
                      plan |-> "none"]
  <2>1. Locals(slot)
    BY DEF Locals, Slot, Phases
  <2> QED BY <1>1, <2>1, SlotSet DEF CreateCheck, Begin, Tables
<1>2. CASE CreateInsert(r)
  <2>1. CASE Finish(r) /\ UNCHANGED <<subnets, unapplied, released>>
    BY <1>2, <2>1, Finished DEF CreateInsert, Tables
  <2>2. ASSUME NEW n \in Ids, subnets' = Insert(subnets, n, req[r].new),
               unapplied' = unapplied \ {n}, released' \subseteq released,
               req' = [req EXCEPT ![r].pc = "create_refresh", ![r].id = n]
        PROVE  Types'
    <3> DEFINE slot == [req[r] EXCEPT !.pc = "create_refresh", !.id = n]
    <3>1. Locals(slot)
      BY <1>0 DEF Locals, Slot, Phases
    <3>2. req' = [req EXCEPT ![r] = slot]
      BY <2>2 DEF Slots
    <3>3. req[r].new \in Subnet
      BY <1>0, <1>2 DEF CreateInsert, Locals
    <3> HIDE DEF slot
    <3>4. DOMAIN subnets' \subseteq Ids /\ subnets' \in [DOMAIN subnets' -> Subnet]
      BY <2>2, <3>3, Inserted DEF Tables
    <3> QED BY <1>2, <2>2, <3>1, <3>2, <3>4, SlotSet DEF CreateInsert, Tables
  <2> QED BY <1>2, <2>1, <2>2 DEF CreateInsert
<1>3. CASE CreateRefresh(r)
  <2>1. Locals([req[r] EXCEPT !.pc = "create_isolate"])
    BY <1>0, <1>3 DEF CreateRefresh, Locals, Slot, Phases
  <2> QED BY <1>3, <2>1, Moved, Finished DEF CreateRefresh, Tables, Phases
<1>4. ASSUME NEW id \in Ids, NEW new \in Subnet, UpdateLoad(r, id, new) PROVE Types'
  <2> DEFINE slot(phase) == [pc |-> phase, id |-> id, old |-> subnets[id], new |-> new,
                             plan |-> "none"]
  <2>1. subnets[id] \in Subnet
    BY <1>4 DEF UpdateLoad, Tables
  <2>2. Locals(slot("update_isolate")) /\ Locals(slot("update_commit"))
    BY <2>1 DEF Locals, Slot, Phases
  <2>3. \/ req' = [req EXCEPT ![r] = slot("update_isolate")]
        \/ req' = [req EXCEPT ![r] = slot("update_commit")]
    BY <1>4 DEF UpdateLoad, Begin
  <2> HIDE DEF slot
  <2>4. Slots'
    BY <2>2, <2>3, SlotSet
  <2> QED BY <1>4, <2>4 DEF UpdateLoad, Tables
<1>5. CASE UpdateCommit(r)
  <2> DEFINE row == Merged(subnets[req[r].id], req[r].old, req[r].new)
  <2>1. subnets' = subnets \/ /\ req[r].id \in DOMAIN subnets
                              /\ subnets' = [subnets EXCEPT ![req[r].id] = row]
    BY <1>5 DEF UpdateCommit
  <2>2. req[r].id \in DOMAIN subnets => row \in Subnet
    BY <1>0, <1>5 DEF UpdateCommit, Merged, Locals, Subnet, Tables
  <2>3. released' \subseteq Ids
    BY <1>0, <1>5 DEF UpdateCommit, Tables, Locals
  <2> HIDE DEF row
  <2> QED BY <1>5, <2>1, <2>2, <2>3, Finished DEF UpdateCommit, Tables
<1>6. ASSUME NEW id \in Ids, DeleteLoad(r, id) PROVE Types'
  <2> DEFINE slot(phase) == [pc |-> phase, id |-> id, old |-> subnets[id], new |-> None,
                             plan |-> "none"]
  <2>1. subnets[id] \in Subnet
    BY <1>6 DEF DeleteLoad, Tables
  <2>2. Locals(slot("delete_isolation")) /\ Locals(slot("delete_commit"))
    BY <2>1 DEF Locals, Slot, Phases
  <2>3. \/ req' = [req EXCEPT ![r] = slot("delete_isolation")]
        \/ req' = [req EXCEPT ![r] = slot("delete_commit")]
    BY <1>6 DEF DeleteLoad, Begin
  <2> HIDE DEF slot
  <2>4. Slots'
    BY <2>2, <2>3, SlotSet
  <2> QED BY <1>6, <2>4 DEF DeleteLoad, Tables
<1>7. CASE DeleteCommit(r)
  <2>1. DOMAIN subnets' \subseteq Ids /\ subnets' \in [DOMAIN subnets' -> Subnet]
    BY <1>7, Removed DEF DeleteCommit, Tables
  <2> QED BY <1>7, <2>1, Finished DEF DeleteCommit, Tables
<1>8. ASSUME NEW answer \in Answers, CreateIsolate(r, answer) PROVE Types'
  <2>1. req[r].id \in Ids
    BY <1>0, <1>8 DEF CreateIsolate, Locals
  <2> QED BY <1>8, <2>1, Finished, GeneratorsTyped DEF CreateIsolate, Call, Tables
<1>9. ASSUME NEW answer \in Answers, UpdateIsolate(r, answer) PROVE Types'
  <2>1. req[r].id \in Ids /\ Locals([req[r] EXCEPT !.pc = "update_commit"])
    BY <1>0, <1>9 DEF UpdateIsolate, Locals, Slot, Phases
  <2>2. Slots'
    BY <1>9, <2>1, Finished, Moved DEF UpdateIsolate, Phases
  <2> QED BY <1>9, <2>1, <2>2, GeneratorsTyped DEF UpdateIsolate, Call, Tables
<1>10. ASSUME NEW answer \in Answers, DeleteIsolationStep(r, answer) PROVE Types'
  <2>1. req[r].id \in Ids /\ Locals([req[r] EXCEPT !.pc = "delete_commit"])
    BY <1>0, <1>10 DEF DeleteIsolationStep, Locals, Slot, Phases
  <2>2. Slots'
    BY <1>10, <2>1, Finished, Moved DEF DeleteIsolationStep, Phases
  <2> QED BY <1>10, <2>1, <2>2, GeneratorsTyped DEF DeleteIsolationStep, Call, Tables
<1> QED BY <1>1, <1>2, <1>3, <1>4, <1>5, <1>6, <1>7, <1>8, <1>9, <1>10 DEF SubnetStep

LEMMA RuleStepTypes ==
  ASSUME Types, NEW r \in Requests, RuleStep(r)
  PROVE  Types'
<1> USE DEF Types
<1>0. req[r] \in Slot /\ Locals(req[r])
  BY DEF Slots
<1>1. ASSUME NEW new \in Rule, ConnectCheck(r, new) PROVE Types'
  <2> DEFINE slot == [pc |-> "connect_insert", id |-> 0, old |-> None, new |-> new,
                      plan |-> "none"]
  <2>1. Locals(slot)
    BY DEF Locals, Slot, Phases
  <2> QED BY <1>1, <2>1, SlotSet DEF ConnectCheck, Begin, Tables
<1>2. CASE ConnectInsert(r)
  <2>1. req[r].new \in Rule
    BY <1>0, <1>2 DEF ConnectInsert, Locals
  <2>2. DOMAIN rules' \subseteq RuleIds /\ rules' \in [DOMAIN rules' -> Rule]
    <3>1. rules' = rules \/ \E n \in RuleIds : rules' = Insert(rules, n, req[r].new)
      BY <1>2 DEF ConnectInsert
    <3>2. ASSUME NEW n \in RuleIds, rules' = Insert(rules, n, req[r].new)
          PROVE  DOMAIN rules' \subseteq RuleIds /\ rules' \in [DOMAIN rules' -> Rule]
      BY <2>1, <3>2, Inserted DEF Tables
    <3> QED BY <3>1, <3>2 DEF Tables
  <2> QED BY <1>2, <2>2, Finished DEF ConnectInsert, Tables
<1>3. ASSUME NEW k \in RuleIds, NEW svc \in Services, NEW enabled \in BOOLEAN,
             SwitchLoad(r, k, svc, enabled)
      PROVE  Types'
  <2> DEFINE new == [rules[k] EXCEPT !.svc = svc, !.enabled = enabled]
             slot == [pc |-> "switch_commit", id |-> k, old |-> rules[k], new |-> new,
                      plan |-> Plan(rules[k], enabled)]
  <2>1. rules[k] \in Rule /\ new \in Rule
    BY <1>3 DEF SwitchLoad, Tables, Rule
  <2>2. Plan(rules[k], enabled) \in {"none", "set", "delete", "recreate"}
    BY DEF Plan
  <2>3. Locals(slot)
    BY <2>1, <2>2 DEF Locals, Slot, Phases
  <2>4. req' = [req EXCEPT ![r] = slot]
    BY <1>3 DEF SwitchLoad, Begin
  <2> HIDE DEF slot, new
  <2> QED BY <1>3, <2>3, <2>4, SlotSet DEF SwitchLoad, Tables
<1>4. CASE SwitchCommit(r)
  <2>1. Locals([req[r] EXCEPT !.pc = "switch_refresh"])
    BY <1>0, <1>4 DEF SwitchCommit, Locals, Slot, Phases
  <2>2. Finish(r) \/ GoTo(r, "switch_refresh")
    BY <1>4 DEF SwitchCommit
  <2>3. Slots'
    BY <2>1, <2>2, Finished, Moved DEF Phases
  <2>4. req[r].new \in Rule
    BY <1>0, <1>4 DEF SwitchCommit, Locals
  <2>5. DOMAIN rules' \subseteq RuleIds /\ rules' \in [DOMAIN rules' -> Rule]
    <3>1. CASE rules' = rules
      BY <3>1 DEF Tables
    <3>2. ASSUME req[r].id \in DOMAIN rules,
                 NEW row \in Switched(rules[req[r].id], req[r].old, req[r].new),
                 rules' = [rules EXCEPT ![req[r].id] = row]
          PROVE  DOMAIN rules' \subseteq RuleIds /\ rules' \in [DOMAIN rules' -> Rule]
      <4>1. PICK svc \in Services, flag \in BOOLEAN :
              row = [rules[req[r].id] EXCEPT !.svc = svc, !.enabled = flag]
        <5>1. /\ rules[req[r].id].svc \in Services /\ rules[req[r].id].enabled \in BOOLEAN
              /\ req[r].new.svc \in Services /\ req[r].new.enabled \in BOOLEAN
          BY <2>4, <3>2 DEF Tables, Rule
        <5> QED BY <3>2, <5>1 DEF Switched
      <4>2. row \in Rule
        BY <3>2, <4>1 DEF Tables, Rule
      <4> HIDE <4>1
      <4> QED BY <3>2, <4>2 DEF Tables
    <3> QED BY <1>4, <3>1, <3>2 DEF SwitchCommit
  <2> QED BY <1>4, <2>3, <2>5 DEF SwitchCommit, Tables
<1>5. CASE SwitchRefresh(r)
  <2> DEFINE slot == [req[r] EXCEPT !.pc = "switch_apply", !.new = rules[req[r].id]]
  <2>1. CASE Finish(r)
    BY <1>5, <2>1, Finished DEF SwitchRefresh, Tables
  <2>2. CASE /\ req[r].id \in DOMAIN rules
             /\ req' = [req EXCEPT ![r].pc = "switch_apply", ![r].new = rules[req[r].id]]
    <3>1. rules[req[r].id] \in Rule
      BY <2>2 DEF Tables
    <3>2. Locals(slot)
      BY <1>0, <3>1 DEF Locals, Slot, Phases
    <3>3. req' = [req EXCEPT ![r] = slot]
      BY <2>2 DEF Slots
    <3> HIDE DEF slot
    <3> QED BY <1>5, <3>2, <3>3, SlotSet DEF SwitchRefresh, Tables
  <2> QED BY <1>5, <2>1, <2>2 DEF SwitchRefresh
<1>6. ASSUME NEW k \in RuleIds, DisconnectLoad(r, k) PROVE Types'
  <2> DEFINE slot(phase) == [pc |-> phase, id |-> k, old |-> rules[k], new |-> None,
                             plan |-> "none"]
  <2>1. rules[k] \in Rule
    BY <1>6 DEF DisconnectLoad, Tables
  <2>2. Locals(slot("disconnect_call")) /\ Locals(slot("disconnect_commit"))
    BY <2>1 DEF Locals, Slot, Phases
  <2>3. \/ req' = [req EXCEPT ![r] = slot("disconnect_call")]
        \/ req' = [req EXCEPT ![r] = slot("disconnect_commit")]
    BY <1>6 DEF DisconnectLoad, Begin
  <2> HIDE DEF slot
  <2>4. Slots'
    BY <2>2, <2>3, SlotSet
  <2> QED BY <1>6, <2>4 DEF DisconnectLoad, Tables
<1>7. CASE DisconnectCommit(r)
  <2>1. DOMAIN rules' \subseteq RuleIds /\ rules' \in [DOMAIN rules' -> Rule]
    BY <1>7, Removed DEF DisconnectCommit, Tables
  <2> QED BY <1>7, <2>1, Finished DEF DisconnectCommit, Tables
<1>8. ASSUME NEW answer \in Answers, SwitchApply(r, answer) PROVE Types'
  <2> DEFINE rule == req[r].new
  <2>1. rule \in Rule
    BY <1>0, <1>8 DEF SwitchApply, Locals
  <2>2. \E after \in Router : Call(answer, after)
    BY <1>8, <2>1, GeneratorsTyped DEF SwitchApply
  <2> QED BY <1>8, <2>2, Finished DEF SwitchApply, Call, Tables
<1>9. ASSUME NEW answer \in Answers, DisconnectCall(r, answer) PROVE Types'
  <2>1. req[r].old \in Rule /\ Locals([req[r] EXCEPT !.pc = "disconnect_commit"])
    BY <1>0, <1>9 DEF DisconnectCall, Locals, Slot, Phases
  <2>2. Slots'
    BY <1>9, <2>1, Finished, Moved DEF DisconnectCall, Phases
  <2> QED BY <1>9, <2>1, <2>2, GeneratorsTyped DEF DisconnectCall, Call, Tables
<1> QED BY <1>1, <1>2, <1>3, <1>4, <1>5, <1>6, <1>7, <1>8, <1>9 DEF RuleStep

LEMMA TypesHold == Spec => []Types
<1>1. Init => Types
  BY DEF Init, Idle, Types, Tables, Router, Slots, Locals, Slot, Phases
<1>2. Types /\ [Next]_vars => Types'
  <2> SUFFICES ASSUME Types, [Next]_vars PROVE Types'
    OBVIOUS
  <2>1. CASE Crash
    <3>1. Locals(Idle)
      BY DEF Locals, Slot, Phases, Idle
    <3>2. \A r \in Requests : Isolates(r) => req[r].id \in Ids
      BY DEF Isolates, Types, Slots, Locals
    <3>3. unapplied' \subseteq Ids /\ released' \subseteq Ids
      BY <2>1, <3>2 DEF Crash, Types, Tables
    <3> QED BY <2>1, <3>1, <3>3 DEF Crash, Types, Tables, Slots, Locals
  <2>2. CASE UNCHANGED vars
    BY <2>2 DEF vars, Types, Tables, Slots
  <2> QED BY <2>1, <2>2, SubnetStepTypes, RuleStepTypes DEF Next
<1> QED BY <1>1, <1>2, PTL DEF Spec

(* Tables, router and request slots keep their types, whatever overlaps.    *)
THEOREM TypeCorrect == Spec => []TypeOK
<1>1. Types => TypeOK
  BY DEF Types, Tables, Slots, Slot, Router, TypeOK
<1> QED BY <1>1, TypesHold, PTL

-----------------------------------------------------------------------------
(* A configuration in which eth1 is bound to a policy that exists.          *)
Sound(cfg) ==
  /\ DOMAIN cfg = {"policies", "accepting", "bound"}
  /\ cfg.bound # None => cfg.bound \in cfg.policies

(* Every list of commands leaves a sound configuration sound.               *)
LEMMA GeneratorsSound ==
  ASSUME NEW cfg, Sound(cfg), NEW id, NEW rule
  PROVE  /\ Sound(SetIsolation(cfg, id))
         /\ Sound(DeleteIsolation(cfg, id))
         /\ Sound(SetConnection(cfg, rule))
         /\ Sound(DeleteConnection(cfg, rule))
<1>1. Sound(SetIsolation(cfg, id))
  BY DEF Sound, SetIsolation
<1>2. Sound(DeleteIsolation(cfg, id))
  BY DEF Sound, DeleteIsolation, Unbind
<1>3. Sound(SetConnection(cfg, rule))
  BY DEF Sound, SetConnection
<1>4. Sound(DeleteConnection(cfg, rule))
  BY DEF Sound, DeleteConnection, Unbind
<1> QED BY <1>1, <1>2, <1>3, <1>4

(* Whatever requests overlap, are lost or are cut off, eth1 is never left   *)
(* bound to a policy that does not exist (vyos_core.py, the generators of   *)
(* subnet isolation and connection commands).                               *)
THEOREM BoundStaysDefined == Spec => []BoundPolicyExists
<1>1. Init => Sound(router)
  BY DEF Init, Sound
<1>2. Sound(router) /\ [Next]_vars => Sound(router)'
  <2> SUFFICES ASSUME Sound(router), [Next]_vars, router' # router
               PROVE  Sound(router')
    BY DEF Sound
  <2>1. PICK r \in Requests, answer \in Answers :
           \/ CreateIsolate(r, answer) \/ UpdateIsolate(r, answer)
           \/ DeleteIsolationStep(r, answer)
           \/ SwitchApply(r, answer) \/ DisconnectCall(r, answer)
    BY RouterWriters
  <2>2. ASSUME NEW after, Sound(after), Call(answer, after)
        PROVE  Sound(router')
    BY <2>2 DEF Call
  <2>3. CASE CreateIsolate(r, answer) \/ UpdateIsolate(r, answer)
    <3>1. Call(answer, SetIsolation(router, req[r].id))
      BY <2>3 DEF CreateIsolate, UpdateIsolate
    <3> QED BY <2>2, <3>1, GeneratorsSound
  <2>4. CASE DeleteIsolationStep(r, answer)
    <3>1. Call(answer, DeleteIsolation(router, req[r].id))
      BY <2>4 DEF DeleteIsolationStep
    <3> QED BY <2>2, <3>1, GeneratorsSound
  <2>5. CASE DisconnectCall(r, answer)
    <3>1. Call(answer, DeleteConnection(router, req[r].old))
      BY <2>5 DEF DisconnectCall
    <3> QED BY <2>2, <3>1, GeneratorsSound
  <2>6. CASE SwitchApply(r, answer)
    <3> DEFINE rule == req[r].new
    <3> DEFINE recreated == SetConnection(DeleteConnection(router, rule), rule)
    <3>1. \/ Call(answer, SetConnection(router, rule))
          \/ Call(answer, DeleteConnection(router, rule))
          \/ Call(answer, recreated)
      BY <2>6 DEF SwitchApply
    <3>2. Sound(DeleteConnection(router, rule))
      BY GeneratorsSound
    <3>3. Sound(recreated)
      BY <3>2, GeneratorsSound
    <3> QED BY <2>2, <3>1, <3>2, <3>3, GeneratorsSound
  <2> QED BY <2>1, <2>3, <2>4, <2>5, <2>6
<1>3. Sound(router) => BoundPolicyExists
  BY DEF Sound, BoundPolicyExists
<1> QED BY <1>1, <1>2, <1>3, PTL DEF Spec

-----------------------------------------------------------------------------
(* Requests one at a time, every call answered truly; restarts may come     *)
(* between any two steps.                                                   *)
Serial == (\A p, q \in Requests : p = q) /\ Answers \subseteq {"ok", "refused"}

(* A subnet that is isolated has its policy, or                             *)
(* its creation failed, or is not over yet, or its deletion is about to     *)
(* commit;                                                                  *)
Kept ==
  \A id \in DOMAIN subnets : subnets[id].isolated =>
    \/ Isolation(id) \in router.policies
    \/ id \in unapplied
    \/ \E r \in Requests : /\ req[r].id = id
                           /\ req[r].pc \in {"create_refresh", "create_isolate",
                                             "delete_commit"}

(* and an update that isolates one commits only after the policy is there.  *)
Ready ==
  \A r \in Requests :
    /\ req[r].pc = "update_commit" => (req[r].new.isolated /\ ~req[r].old.isolated
         => Isolation(req[r].id) \in router.policies)
    /\ req[r].pc = "update_isolate" => req[r].new.isolated /\ ~req[r].old.isolated

LEMMA IsolationsDiffer ==
  \A i, j, k : /\ Isolation(i) = Isolation(j) => i = j
               /\ Isolation(i) # Connection(k)
BY DEF Isolation, Connection

(* What the generators leave of the isolation policies.                     *)
LEMMA PoliciesLeft ==
  ASSUME NEW cfg \in Router, NEW id
  PROVE  /\ \A k \in Ids : Isolation(k) \in cfg.policies =>
              /\ Isolation(k) \in SetIsolation(cfg, id).policies
              /\ k # id => Isolation(k) \in DeleteIsolation(cfg, id).policies
         /\ Isolation(id) \in SetIsolation(cfg, id).policies
         /\ \A rule : /\ cfg.policies \subseteq SetConnection(cfg, rule).policies
                      /\ cfg.policies \subseteq DeleteConnection(cfg, rule).policies
BY IsolationsDiffer
   DEF SetIsolation, DeleteIsolation, SetConnection, DeleteConnection, Router

RulePhases == {"idle", "connect_insert", "switch_commit", "switch_refresh", "switch_apply",
               "disconnect_call", "disconnect_commit"}

(* What the handlers of connection rules leave alone.                       *)
LEMMA RuleStepFrame ==
  ASSUME NEW r \in Requests, RuleStep(r), req[r] \in Slot, DOMAIN req = Requests
  PROVE  /\ UNCHANGED <<subnets, unapplied, released>>
         /\ req[r].pc \in RulePhases /\ req'[r].pc \in RulePhases
<1>1. ASSUME Finish(r) PROVE req'[r].pc = "idle"
  BY <1>1 DEF Finish, Idle
<1>2. ASSUME NEW phase, GoTo(r, phase) PROVE req'[r].pc = phase
  BY <1>2 DEF GoTo, Slot
<1>3. ASSUME NEW phase, NEW id, NEW old, NEW new, NEW plan, Begin(r, phase, id, old, new, plan)
      PROVE  req[r].pc = "idle" /\ req'[r].pc = phase
  BY <1>3 DEF Begin
<1> USE DEF RulePhases
<1>4. ASSUME NEW new \in Rule, ConnectCheck(r, new)
      PROVE  /\ UNCHANGED <<subnets, unapplied, released>>
             /\ req[r].pc \in RulePhases /\ req'[r].pc \in RulePhases
  BY <1>3, <1>4 DEF ConnectCheck
<1>5. CASE ConnectInsert(r) \/ DisconnectCommit(r)
  BY <1>1, <1>5 DEF ConnectInsert, DisconnectCommit
<1>6. ASSUME NEW k \in RuleIds, NEW svc \in Services, NEW enabled \in BOOLEAN,
             SwitchLoad(r, k, svc, enabled)
      PROVE  /\ UNCHANGED <<subnets, unapplied, released>>
             /\ req[r].pc \in RulePhases /\ req'[r].pc \in RulePhases
  BY <1>3, <1>6 DEF SwitchLoad
<1>7. CASE SwitchCommit(r)
  <2>1. Finish(r) \/ GoTo(r, "switch_refresh")
    BY <1>7 DEF SwitchCommit
  <2> QED BY <1>1, <1>2, <1>7, <2>1 DEF SwitchCommit
<1>8. CASE SwitchRefresh(r)
  BY <1>1, <1>8 DEF SwitchRefresh, Slot
<1>9. ASSUME NEW k \in RuleIds, DisconnectLoad(r, k)
      PROVE  /\ UNCHANGED <<subnets, unapplied, released>>
             /\ req[r].pc \in RulePhases /\ req'[r].pc \in RulePhases
  BY <1>3, <1>9 DEF DisconnectLoad
<1>10. ASSUME NEW answer \in Answers, SwitchApply(r, answer) \/ DisconnectCall(r, answer)
       PROVE  /\ UNCHANGED <<subnets, unapplied, released>>
              /\ req[r].pc \in RulePhases /\ req'[r].pc \in RulePhases
  BY <1>1, <1>2, <1>10 DEF SwitchApply, DisconnectCall
<1> QED BY <1>4, <1>5, <1>6, <1>7, <1>8, <1>9, <1>10 DEF RuleStep

(* With one request at a time and a true answer to every call, no sequence  *)
(* of creations, updates and deletions, whatever the router refuses, leaves *)
(* a subnet isolated in the table and not on the router, except a subnet    *)
(* whose creation could not reach it or whose creation or deletion a        *)
(* restart ended (routers/subnets.py).                                      *)
THEOREM IsolationKept ==
  ASSUME Serial PROVE Spec => []IsolatedHasPolicy
<1> USE DEF Serial
<1>1. Init => Kept /\ Ready
  BY DEF Init, Idle, Kept, Ready
<1>2. Types /\ Kept /\ Ready /\ [Next]_vars => Kept' /\ Ready'
  <2> SUFFICES ASSUME Types, Kept, Ready, [Next]_vars PROVE Kept' /\ Ready'
    OBVIOUS
  <2>1. CASE UNCHANGED vars
    BY <2>1 DEF vars, Kept, Ready
  <2>2. ASSUME NEW r \in Requests, SubnetStep(r) \/ RuleStep(r) PROVE Kept' /\ Ready'
    <3> DEFINE Open == {"create_refresh", "create_isolate", "delete_commit"}
    <3>1. /\ \A q \in Requests : q = r
          /\ req[r] \in Slot /\ Locals(req[r]) /\ router \in Router
          /\ DOMAIN req = Requests
      BY DEF Types, Slots
    <3>2. \A id \in DOMAIN subnets : /\ id \in Ids
                                     /\ subnets[id].isolated
                                     /\ ~(req[r].id = id /\ req[r].pc \in Open)
                                     => Isolation(id) \in router.policies \/ id \in unapplied
      BY <3>1 DEF Kept
    \* A step that only moves on, outside of what the invariant looks at.
    <3>3. ASSUME UNCHANGED <<subnets, unapplied>>,
                 router.policies \subseteq router'.policies,
                 req[r].pc \notin Open,
                 req'[r].pc \notin {"update_commit", "update_isolate"}
          PROVE  Kept' /\ Ready'
      BY <3>1, <3>2, <3>3 DEF Kept, Ready, Types, Tables
    <3>4. ASSUME Finish(r) PROVE req'[r].pc = "idle"
      BY <3>1, <3>4 DEF Finish, Idle
    <3>5. ASSUME NEW new \in Subnet, CreateCheck(r, new) PROVE Kept' /\ Ready'
      BY <3>1, <3>3, <3>5 DEF CreateCheck, Begin
    <3>6. CASE CreateInsert(r)
      <4>1. CASE Finish(r) /\ UNCHANGED <<subnets, unapplied, released>>
        BY <3>3, <3>4, <3>6, <4>1 DEF CreateInsert
      <4>2. ASSUME NEW n \in Ids, FreshId(subnets, n), subnets' = Insert(subnets, n, req[r].new),
                   unapplied' = unapplied \ {n},
                   req' = [req EXCEPT ![r].pc = "create_refresh", ![r].id = n]
            PROVE  Kept' /\ Ready'
        <5>1. req'[r].pc = "create_refresh" /\ req'[r].id = n /\ router' = router
          BY <3>1, <3>6, <4>2 DEF CreateInsert, Slot
        <5>2. \A id \in DOMAIN subnets' \ {n} :
                id \in DOMAIN subnets /\ subnets'[id] = subnets[id]
          BY <4>2 DEF Insert
        <5>3. req[r].pc \notin Open
          BY <3>6 DEF CreateInsert
        <5> QED BY <3>1, <3>2, <4>2, <5>1, <5>2, <5>3 DEF Kept, Ready, Types, Tables
      <4> QED BY <3>6, <4>1, <4>2 DEF CreateInsert
    <3>7. CASE CreateRefresh(r)
      <4>1. UNCHANGED <<subnets, router, unapplied>> /\ req[r].pc = "create_refresh"
        BY <3>7 DEF CreateRefresh
      <4>2. CASE GoTo(r, "create_isolate")
        <5>1. req'[r].pc = "create_isolate" /\ req'[r].id = req[r].id
          BY <3>1, <4>2 DEF GoTo, Slot
        <5> QED BY <3>1, <3>2, <4>1, <5>1 DEF Kept, Ready, Types, Tables
      <4>3. CASE Finish(r) /\ ~(req[r].id \in DOMAIN subnets /\ subnets[req[r].id].isolated)
        BY <3>1, <3>2, <3>4, <4>1, <4>3 DEF Kept, Ready, Types, Tables
      <4> QED BY <3>7, <4>2, <4>3 DEF CreateRefresh
    <3>8. ASSUME NEW answer \in Answers, CreateIsolate(r, answer) PROVE Kept' /\ Ready'
      <4>1. /\ UNCHANGED subnets /\ req'[r].pc = "idle"
            /\ router' = IF answer = "refused" THEN router ELSE SetIsolation(router, req[r].id)
            /\ unapplied' = IF answer = "ok" THEN unapplied ELSE unapplied \union {req[r].id}
        BY <3>4, <3>8 DEF CreateIsolate, Call
      <4>2. answer = "refused" \/ answer = "ok"
        OBVIOUS
      <4> QED BY <3>1, <3>2, <4>1, <4>2, PoliciesLeft DEF Kept, Ready, Types, Tables
    <3>9. ASSUME NEW id \in Ids, NEW new \in Subnet, UpdateLoad(r, id, new)
          PROVE  Kept' /\ Ready'
      <4>1. /\ UNCHANGED <<subnets, router, unapplied>>
            /\ req[r].pc = "idle" /\ id \in DOMAIN subnets
            /\ req'[r].id = id /\ req'[r].old = subnets[id] /\ req'[r].new = new
            /\ req'[r].pc = IF new.isolated /\ ~subnets[id].isolated
                            THEN "update_isolate" ELSE "update_commit"
        BY <3>1, <3>9 DEF UpdateLoad, Begin
      <4> QED BY <3>1, <3>2, <4>1 DEF Kept, Ready, Types, Tables
    <3>10. ASSUME NEW answer \in Answers, UpdateIsolate(r, answer) PROVE Kept' /\ Ready'
      <4>1. /\ UNCHANGED subnets /\ req[r].pc = "update_isolate"
            /\ router' = IF answer = "refused" THEN router ELSE SetIsolation(router, req[r].id)
            /\ unapplied' = IF answer = "ok" THEN unapplied \ {req[r].id} ELSE unapplied
        BY <3>10 DEF UpdateIsolate, Call
      <4>2. CASE answer = "refused"
        BY <3>3, <3>4, <3>10, <4>1, <4>2 DEF UpdateIsolate
      <4>3. CASE answer = "ok"
        <5>1. req'[r].pc = "update_commit" /\ req'[r].id = req[r].id
          BY <3>1, <3>10, <4>3 DEF UpdateIsolate, GoTo, Slot
        <5>2. Isolation(req'[r].id) \in router'.policies
          BY <3>1, <4>1, <4>3, <5>1, PoliciesLeft
        <5> QED BY <3>1, <3>2, <4>1, <4>3, <5>1, <5>2, PoliciesLeft
                DEF Kept, Ready, Types, Tables
      <4> QED BY <4>2, <4>3
    <3>11. CASE UpdateCommit(r)
      <4> DEFINE row == Merged(subnets[req[r].id], req[r].old, req[r].new)
      <4>1. /\ UNCHANGED <<router, unapplied>> /\ req[r].pc = "update_commit"
            /\ req'[r].pc = "idle"
            /\ \/ subnets' = subnets
               \/ /\ req[r].id \in DOMAIN subnets
                  /\ subnets' = [subnets EXCEPT ![req[r].id] = row]
        BY <3>4, <3>11 DEF UpdateCommit
      <4>2. /\ req[r].id \in DOMAIN subnets => subnets[req[r].id].isolated \in BOOLEAN
            /\ req[r].old.isolated \in BOOLEAN /\ req[r].new.isolated \in BOOLEAN
        BY <3>1, <4>1 DEF Types, Tables, Locals, Subnet
      <4>3. row.isolated = IF req[r].new.isolated # req[r].old.isolated
                           THEN req[r].new.isolated ELSE subnets[req[r].id].isolated
        BY DEF Merged
      <4> HIDE DEF row
      <4>4. req[r].id \in DOMAIN subnets /\ row.isolated =>
              \/ Isolation(req[r].id) \in router.policies
              \/ req[r].id \in unapplied
        BY <3>2, <4>1, <4>2, <4>3 DEF Ready, Types, Tables
      <4> QED BY <3>1, <3>2, <4>1, <4>4 DEF Kept, Ready, Types, Tables
    <3>12. ASSUME NEW id \in Ids, DeleteLoad(r, id) PROVE Kept' /\ Ready'
      <4>1. /\ UNCHANGED <<subnets, router, unapplied>> /\ req[r].pc = "idle"
            /\ req'[r].pc \in {"delete_isolation", "delete_commit"}
        BY <3>1, <3>12 DEF DeleteLoad, Begin
      <4> QED BY <3>3, <4>1
    <3>13. ASSUME NEW answer \in Answers, DeleteIsolationStep(r, answer)
           PROVE  Kept' /\ Ready'
      <4>1. /\ UNCHANGED <<subnets, unapplied>> /\ req[r].pc = "delete_isolation"
            /\ router' = IF answer = "refused" THEN router
                         ELSE DeleteIsolation(router, req[r].id)
        BY <3>13 DEF DeleteIsolationStep, Call
      <4>2. CASE answer = "refused"
        BY <3>3, <3>4, <3>13, <4>1, <4>2 DEF DeleteIsolationStep
      <4>3. CASE answer = "ok"
        <5>1. req'[r].pc = "delete_commit" /\ req'[r].id = req[r].id
          BY <3>1, <3>13, <4>3 DEF DeleteIsolationStep, GoTo, Slot
        <5> QED BY <3>1, <3>2, <4>1, <4>3, <5>1, PoliciesLeft
                DEF Kept, Ready, Types, Tables
      <4> QED BY <4>2, <4>3
    <3>14. CASE DeleteCommit(r)
      <4>1. /\ DOMAIN subnets' = DOMAIN subnets \ {req[r].id}
            /\ \A id \in DOMAIN subnets' : subnets'[id] = subnets[id]
            /\ router' = router /\ unapplied' = unapplied \ {req[r].id}
            /\ req'[r].pc = "idle"
        BY <3>4, <3>14 DEF DeleteCommit, Remove
      <4> QED BY <3>1, <3>2, <4>1 DEF Kept, Ready, Types, Tables
    <3>15. CASE RuleStep(r)
      <4>1. UNCHANGED <<subnets, unapplied>> /\ req[r].pc \notin Open
        BY <3>1, <3>15, RuleStepFrame DEF RulePhases
      <4>2. req'[r].pc \notin {"update_commit", "update_isolate"}
        BY <3>1, <3>15, RuleStepFrame DEF RulePhases
      <4>3. router.policies \subseteq router'.policies
        <5>1. CASE router' = router
          BY <5>1
        <5>2. ASSUME NEW answer \in Answers, SwitchApply(r, answer)
              PROVE  router.policies \subseteq router'.policies
          <6> DEFINE cut == DeleteConnection(router, req[r].new)
          <6>1. cut \in Router
            BY <3>1, <5>2, GeneratorsTyped DEF SwitchApply, Locals
          <6>2. \/ router' = router \/ router' = SetConnection(router, req[r].new)
                \/ router' = cut \/ router' = SetConnection(cut, req[r].new)
            BY <5>2 DEF SwitchApply, Call
          <6>3. router.policies \subseteq cut.policies
            BY <3>1, PoliciesLeft
          <6> HIDE DEF cut
          <6> QED BY <3>1, <6>1, <6>2, <6>3, PoliciesLeft
        <5>3. ASSUME NEW answer \in Answers, DisconnectCall(r, answer)
              PROVE  router.policies \subseteq router'.policies
          BY <3>1, <5>3, PoliciesLeft DEF DisconnectCall, Call
        <5> QED BY <3>15, <5>1, <5>2, <5>3
                DEF RuleStep, ConnectCheck, ConnectInsert, SwitchLoad, SwitchCommit,
                    SwitchRefresh, DisconnectLoad, DisconnectCommit
      <4> QED BY <3>3, <4>1, <4>2, <4>3
    <3> QED BY <2>2, <3>5, <3>6, <3>7, <3>8, <3>9, <3>10, <3>11, <3>12, <3>13, <3>14, <3>15
            DEF SubnetStep
  <2>3. CASE Crash
    <3>1. \A r \in Requests : req'[r].pc = "idle"
      BY <2>3 DEF Crash, Idle
    <3>2. \A id \in DOMAIN subnets : id \in unapplied'
            \/ ~\E r \in Requests : /\ req[r].id = id
                                   /\ req[r].pc \in {"create_refresh", "create_isolate",
                                                     "delete_commit"}
      BY <2>3 DEF Crash, CutOff
    <3>3. UNCHANGED <<subnets, router>> /\ unapplied \subseteq unapplied'
      BY <2>3 DEF Crash
    <3> QED BY <3>1, <3>2, <3>3 DEF Kept, Ready
  <2> QED BY <2>1, <2>2, <2>3 DEF Next
<1>3. Kept => IsolatedHasPolicy
  BY DEF Kept, IsolatedHasPolicy, Quiet
<1> QED BY <1>1, <1>2, <1>3, TypesHold, PTL DEF Spec

-----------------------------------------------------------------------------
(* An isolation policy on the router is that of a subnet stored as          *)
(* isolated, or of one that an update is about to store so, or was left     *)
(* behind;                                                                  *)
Strayless ==
  \A id \in Ids : Isolation(id) \in router.policies =>
    \/ id \in DOMAIN subnets /\ subnets[id].isolated
    \/ id \in released
    \/ \E r \in Requests : Isolates(r) /\ req[r].id = id

(* an update still finds the row it loaded, and a free name; a creation     *)
(* that calls the router finds its row isolated; and a deletion about to    *)
(* commit leaves no policy but one left behind before.                      *)
Loaded ==
  \A r \in Requests :
    /\ req[r].pc \in {"update_isolate", "update_commit"} =>
         /\ req[r].id \in DOMAIN subnets /\ subnets[req[r].id] = req[r].old
         /\ req[r].new.name # req[r].old.name => ~NameTaken(req[r].new.name, {req[r].id})
    /\ req[r].pc = "update_isolate" => req[r].new.isolated /\ ~req[r].old.isolated
    /\ req[r].pc = "create_isolate" =>
         req[r].id \in DOMAIN subnets /\ subnets[req[r].id].isolated
    /\ req[r].pc = "delete_commit" =>
         Isolation(req[r].id) \notin router.policies \/ req[r].id \in released

(* No generator but SetIsolation adds an isolation policy.                  *)
LEMMA PoliciesAdded ==
  ASSUME NEW cfg \in Router, NEW id, NEW k
  PROVE  /\ Isolation(k) \in SetIsolation(cfg, id).policies =>
              Isolation(k) \in cfg.policies \/ k = id
         /\ Isolation(k) \in DeleteIsolation(cfg, id).policies =>
              Isolation(k) \in cfg.policies /\ k # id
         /\ \A rule : /\ Isolation(k) \in SetConnection(cfg, rule).policies =>
                           Isolation(k) \in cfg.policies
                      /\ DeleteConnection(cfg, rule).policies = cfg.policies
BY IsolationsDiffer
   DEF SetIsolation, DeleteIsolation, SetConnection, DeleteConnection, Router

LEMMA RuleStepPolicies ==
  ASSUME Types, NEW r \in Requests, RuleStep(r), NEW k,
         Isolation(k) \in router'.policies
  PROVE  Isolation(k) \in router.policies
<1>1. router \in Router /\ req[r] \in Slot /\ Locals(req[r])
  BY DEF Types, Slots
<1>2. CASE router' = router
  BY <1>2
<1>3. ASSUME NEW answer \in Answers, SwitchApply(r, answer)
      PROVE  Isolation(k) \in router.policies
  <2> DEFINE cut == DeleteConnection(router, req[r].new)
  <2>1. cut \in Router
    BY <1>1, <1>3, GeneratorsTyped DEF SwitchApply, Locals
  <2>2. \/ router' = router \/ router' = SetConnection(router, req[r].new)
        \/ router' = cut \/ router' = SetConnection(cut, req[r].new)
    BY <1>3 DEF SwitchApply, Call
  <2>3. cut.policies = router.policies
    BY <1>1, PoliciesAdded
  <2> HIDE DEF cut
  <2> QED BY <1>1, <2>1, <2>2, <2>3, PoliciesAdded
<1>4. ASSUME NEW answer \in Answers, DisconnectCall(r, answer)
      PROVE  Isolation(k) \in router.policies
  <2>1. router' = router \/ router' = DeleteConnection(router, req[r].old)
    BY <1>4 DEF DisconnectCall, Call
  <2> QED BY <1>1, <2>1, PoliciesAdded
<1> QED BY <1>2, <1>3, <1>4
        DEF RuleStep, ConnectCheck, ConnectInsert, SwitchLoad, SwitchCommit,
            SwitchRefresh, DisconnectLoad, DisconnectCommit

(* With one request at a time and a true answer to every call, no sequence  *)
(* of creations, updates and deletions, whatever the router refuses and     *)
(* wherever the process restarts, leaves an isolation policy without an     *)
(* isolated subnet, except that of an update that ended the isolation or    *)
(* that a restart cut off before its COMMIT (routers/subnets.py).           *)
THEOREM NoPolicyIsStray ==
  ASSUME Serial PROVE Spec => []NoStrayPolicy
<1> USE DEF Serial
<1>1. Init => Strayless /\ Loaded
  BY DEF Init, Idle, Strayless, Loaded
<1>2. Types /\ Strayless /\ Loaded /\ [Next]_vars => Strayless' /\ Loaded'
  <2> SUFFICES ASSUME Types, Strayless, Loaded, [Next]_vars
               PROVE  Strayless' /\ Loaded'
    OBVIOUS
  <2>1. CASE UNCHANGED vars
    BY <2>1 DEF vars, Strayless, Loaded, NameTaken, Isolates
  <2>2. ASSUME NEW r \in Requests, SubnetStep(r) \/ RuleStep(r)
        PROVE  Strayless' /\ Loaded'
    <3> DEFINE Isolated(id) == id \in DOMAIN subnets /\ subnets[id].isolated
               Ours == {"update_isolate", "update_commit", "create_isolate", "delete_commit"}
               known == req[r].id
    <3>1. /\ \A q \in Requests : q = r
          /\ req[r] \in Slot /\ Locals(req[r]) /\ router \in Router
          /\ DOMAIN req = Requests
      BY DEF Types, Slots
    <3>2. ASSUME NEW id \in Ids, Isolation(id) \in router.policies
          PROVE  Isolated(id) \/ id \in released \/ (Isolates(r) /\ known = id)
      BY <3>1, <3>2 DEF Strayless
    <3>3. ASSUME Finish(r) PROVE req'[r].pc = "idle"
      BY <3>1, <3>3 DEF Finish, Idle
    \* A step that only moves on, outside of what the invariant looks at.
    <3>4. ASSUME UNCHANGED <<subnets, released>>, ~Isolates(r), req'[r].pc \notin Ours,
                 \A k \in Ids : Isolation(k) \in router'.policies =>
                                Isolation(k) \in router.policies
          PROVE  Strayless' /\ Loaded'
      BY <3>1, <3>2, <3>4 DEF Strayless, Loaded
    <3>5. ASSUME NEW new \in Subnet, CreateCheck(r, new) PROVE Strayless' /\ Loaded'
      BY <3>1, <3>4, <3>5 DEF CreateCheck, Begin, Isolates
    <3>6. CASE CreateInsert(r)
      <4>0. ~Isolates(r) /\ router' = router
        BY <3>6 DEF CreateInsert, Isolates
      <4>1. CASE Finish(r) /\ UNCHANGED <<subnets, unapplied, released>>
        BY <3>3, <3>4, <4>0, <4>1
      <4>2. ASSUME NEW n \in Ids, FreshId(subnets, n),
                   subnets' = Insert(subnets, n, req[r].new),
                   released' = IF req[r].new.isolated THEN released \ {n} ELSE released,
                   req' = [req EXCEPT ![r].pc = "create_refresh", ![r].id = n]
            PROVE  Strayless' /\ Loaded'
        <5>1. req'[r].pc = "create_refresh"
          BY <3>1, <4>2 DEF Slot
        <5>2. /\ n \in DOMAIN subnets' /\ subnets'[n] = req[r].new
              /\ \A id \in DOMAIN subnets \ {n} :
                   id \in DOMAIN subnets' /\ subnets'[id] = subnets[id]
          BY <4>2 DEF Insert
        <5>3. n \notin DOMAIN subnets
          BY <4>2 DEF FreshId, Ids, Types, Tables
        <5>4. ASSUME NEW id \in Ids, Isolation(id) \in router.policies
              PROVE  (id \in DOMAIN subnets' /\ subnets'[id].isolated) \/ id \in released'
          BY <3>2, <4>0, <4>2, <5>2, <5>3, <5>4
        <5> QED BY <3>1, <4>0, <5>1, <5>4 DEF Strayless, Loaded
      <4> QED BY <3>6, <4>1, <4>2 DEF CreateInsert
    <3>7. CASE CreateRefresh(r)
      <4>1. UNCHANGED <<subnets, router, released>> /\ ~Isolates(r)
        BY <3>7 DEF CreateRefresh, Isolates
      <4>2. CASE GoTo(r, "create_isolate") /\ Isolated(known)
        <5>1. req'[r].pc = "create_isolate" /\ req'[r].id = known
          BY <3>1, <4>2 DEF GoTo, Slot
        <5> QED BY <3>1, <3>2, <4>1, <4>2, <5>1 DEF Strayless, Loaded
      <4>3. CASE Finish(r)
        BY <3>3, <3>4, <4>1, <4>3
      <4> QED BY <3>7, <4>2, <4>3 DEF CreateRefresh
    <3>8. ASSUME NEW answer \in Answers, CreateIsolate(r, answer)
          PROVE  Strayless' /\ Loaded'
      <4>1. /\ UNCHANGED <<subnets, released>> /\ req'[r].pc = "idle"
            /\ router' = router \/ router' = SetIsolation(router, known)
            /\ Isolated(known) /\ ~Isolates(r)
        BY <3>3, <3>8 DEF CreateIsolate, Call, Loaded, Isolates
      <4>2. ASSUME NEW id \in Ids, Isolation(id) \in router'.policies
            PROVE  Isolated(id) \/ id \in released
        BY <3>1, <3>2, <4>1, <4>2, PoliciesAdded
      <4> QED BY <3>1, <4>1, <4>2 DEF Strayless, Loaded
    <3>9. ASSUME NEW id \in Ids, NEW new \in Subnet, UpdateLoad(r, id, new)
          PROVE  Strayless' /\ Loaded'
      <4>1. /\ UNCHANGED <<subnets, router, released>> /\ ~Isolates(r)
            /\ id \in DOMAIN subnets
            /\ req'[r].id = id /\ req'[r].old = subnets[id] /\ req'[r].new = new
            /\ req'[r].pc = IF new.isolated /\ ~subnets[id].isolated
                            THEN "update_isolate" ELSE "update_commit"
        BY <3>1, <3>9 DEF UpdateLoad, Begin, Isolates
      <4>2. new.name # subnets[id].name => ~NameTaken(new.name, {id})
        BY <3>9 DEF UpdateLoad, NameTaken
      <4>3. Loaded'
        BY <3>1, <4>1, <4>2 DEF Loaded, NameTaken
      <4> QED BY <3>1, <3>2, <4>1, <4>3 DEF Strayless
    <3>10. ASSUME NEW answer \in Answers, UpdateIsolate(r, answer)
           PROVE  Strayless' /\ Loaded'
      <4>1. /\ UNCHANGED <<subnets, released>> /\ req[r].pc = "update_isolate"
            /\ router' = IF answer = "refused" THEN router ELSE SetIsolation(router, known)
            /\ ~Isolates(r)
        BY <3>10 DEF UpdateIsolate, Call, Isolates
      <4>2. CASE answer = "refused"
        <5>1. Finish(r) /\ router' = router
          BY <3>10, <4>1, <4>2 DEF UpdateIsolate
        <5> QED BY <3>3, <3>4, <4>1, <5>1
      <4>3. CASE answer = "ok"
        <5>1. req' = [req EXCEPT ![r].pc = "update_commit"]
          BY <3>10, <4>3 DEF UpdateIsolate, GoTo
        <5>2. /\ req'[r].pc = "update_commit" /\ req'[r].id = known
              /\ req'[r].old = req[r].old /\ req'[r].new = req[r].new
          BY <3>1, <5>1 DEF Slot
        <5>3. Loaded' /\ Isolates(r)'
          BY <3>1, <4>1, <5>2 DEF Loaded, Isolates, NameTaken
        <5>4. ASSUME NEW id \in Ids, Isolation(id) \in router'.policies
              PROVE  Isolated(id) \/ id \in released \/ known = id
          BY <3>1, <3>2, <4>1, <4>3, <5>4, PoliciesAdded
        <5> QED BY <3>1, <4>1, <5>2, <5>3, <5>4 DEF Strayless
      <4> QED BY <4>2, <4>3
    <3>11. CASE UpdateCommit(r)
      <4> DEFINE old == req[r].old
                 new == req[r].new
                 row == Merged(subnets[known], old, new)
      <4>1. /\ known \in DOMAIN subnets /\ subnets[known] = old
            /\ new.name # old.name => ~NameTaken(new.name, {known})
            /\ old \in Subnet /\ new \in Subnet /\ known \in Ids
        BY <3>1, <3>11 DEF UpdateCommit, Loaded, Locals
      <4>2. /\ subnets' = [subnets EXCEPT ![known] = row]
            /\ released' = IF new.isolated = old.isolated THEN released
                           ELSE IF new.isolated THEN released \ {known}
                           ELSE released \union {known}
            /\ router' = router /\ req'[r].pc = "idle"
        BY <3>3, <3>11, <4>1 DEF UpdateCommit
      <4>3. row.isolated = new.isolated
        BY <4>1 DEF Merged, Subnet
      <4>4. Isolates(r) => new.isolated
        BY DEF Isolates
      <4>5. old.isolated \in BOOLEAN /\ new.isolated \in BOOLEAN
        BY <4>1 DEF Subnet
      <4> HIDE DEF row, old, new
      <4>6. ASSUME NEW id \in Ids, Isolation(id) \in router'.policies
            PROVE  (id \in DOMAIN subnets' /\ subnets'[id].isolated) \/ id \in released'
        <5>1. CASE id = known
          BY <3>2, <4>1, <4>2, <4>3, <4>4, <4>5, <4>6, <5>1
        <5>2. CASE id # known
          BY <3>2, <4>2, <4>6, <5>2
        <5> QED BY <5>1, <5>2
      <4> QED BY <3>1, <4>2, <4>6 DEF Strayless, Loaded
    <3>12. ASSUME NEW id \in Ids, DeleteLoad(r, id) PROVE Strayless' /\ Loaded'
      <4>1. /\ UNCHANGED <<subnets, router, released>> /\ ~Isolates(r)
            /\ id \in DOMAIN subnets /\ req'[r].id = id
            /\ req'[r].pc = IF subnets[id].isolated THEN "delete_isolation"
                            ELSE "delete_commit"
        BY <3>1, <3>12 DEF DeleteLoad, Begin, Isolates
      <4>2. ~subnets[id].isolated => Isolation(id) \notin router.policies \/ id \in released
        BY <3>2, <4>1
      <4> QED BY <3>1, <3>2, <4>1, <4>2 DEF Strayless, Loaded
    <3>13. ASSUME NEW answer \in Answers, DeleteIsolationStep(r, answer)
           PROVE  Strayless' /\ Loaded'
      <4>1. /\ UNCHANGED subnets /\ ~Isolates(r)
            /\ answer = "refused" => Finish(r) /\ router' = router /\ released' = released
            /\ answer = "ok" => /\ GoTo(r, "delete_commit")
                                /\ router' = DeleteIsolation(router, known)
                                /\ released' = released \ {known}
        BY <3>13 DEF DeleteIsolationStep, Call, Isolates
      <4>2. CASE answer = "refused"
        BY <3>3, <3>4, <4>1, <4>2
      <4>3. CASE answer = "ok"
        <5>1. req'[r].pc = "delete_commit" /\ req'[r].id = known
          BY <3>1, <4>1, <4>3 DEF GoTo, Slot
        <5>2. ASSUME NEW id, Isolation(id) \in router'.policies
              PROVE  Isolation(id) \in router.policies /\ id # known
          BY <3>1, <4>1, <4>3, <5>2, PoliciesAdded
        <5>3. Strayless'
          BY <3>2, <4>1, <4>3, <5>2 DEF Strayless
        <5> QED BY <3>1, <5>1, <5>2, <5>3 DEF Loaded
      <4> QED BY <4>2, <4>3
    <3>14. CASE DeleteCommit(r)
      <4>1. /\ DOMAIN subnets' = DOMAIN subnets \ {known}
            /\ \A id \in DOMAIN subnets' : subnets'[id] = subnets[id]
            /\ router' = router /\ released' = released /\ req'[r].pc = "idle"
            /\ ~Isolates(r)
            /\ Isolation(known) \notin router.policies \/ known \in released
        BY <3>3, <3>14 DEF DeleteCommit, Remove, Isolates, Loaded
      <4>2. ASSUME NEW id \in Ids, Isolation(id) \in router.policies
            PROVE  (id \in DOMAIN subnets' /\ subnets'[id].isolated) \/ id \in released'
        BY <3>2, <4>1, <4>2
      <4> QED BY <3>1, <4>1, <4>2 DEF Strayless, Loaded
    <3>15. CASE RuleStep(r)
      <4>1. /\ UNCHANGED <<subnets, released>> /\ ~Isolates(r)
            /\ req'[r].pc \notin Ours
        BY <3>1, <3>15, RuleStepFrame DEF RulePhases, Isolates
      <4>2. \A k \in Ids : Isolation(k) \in router'.policies => Isolation(k) \in router.policies
        BY <3>15, RuleStepPolicies
      <4> QED BY <3>4, <4>1, <4>2
    <3> QED BY <2>2, <3>5, <3>6, <3>7, <3>8, <3>9, <3>10, <3>11, <3>12, <3>13, <3>14, <3>15
            DEF SubnetStep
  <2>3. CASE Crash
    <3>1. \A r \in Requests : req'[r].pc = "idle"
      BY <2>3 DEF Crash, Idle
    <3>2. /\ UNCHANGED <<subnets, router>> /\ released \subseteq released'
          /\ \A r \in Requests : Isolates(r) => req[r].id \in released'
      BY <2>3 DEF Crash
    <3> QED BY <3>1, <3>2 DEF Strayless, Loaded
  <2> QED BY <2>1, <2>2, <2>3 DEF Next
<1>3. Strayless => NoStrayPolicy
  BY DEF Strayless, NoStrayPolicy, Quiet, Isolates
<1> QED BY <1>1, <1>2, <1>3, TypesHold, PTL DEF Spec
=============================================================================
