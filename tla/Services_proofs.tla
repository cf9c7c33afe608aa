---------------------------- MODULE Services_proofs ----------------------------
(***************************************************************************)
(* Proofs about Services, for any number of rows, requests, addresses,      *)
(* events and deliveries.  A behaviour of the service is one of each of its *)
(* components (ComponentsRun), so each property is proved of the component  *)
(* it is about, with an inductive invariant over the component's variables, *)
(* and carried over at the end.                                             *)
(***************************************************************************)
EXTENDS Services, WellFoundedInduction, TLAPS

(* What the service does is, seen by each component, a behaviour of that    *)
(* component: the steps of the others are stutters.                         *)
THEOREM ComponentsRun == ServiceSpec => Spec /\ Forwarding!Spec /\ Notifying!Spec
<1>1. ServiceInit => Init /\ Forwarding!Init /\ Notifying!Init
  BY DEF ServiceInit
<1>2. [ServiceNext]_serviceVars => [Next]_vars
  BY DEF ServiceNext, ProvisioningStep, ForwardingStep, NotifyingStep, serviceVars
<1>3. [ServiceNext]_serviceVars => [Forwarding!Next]_(Forwarding!vars)
  BY DEF ServiceNext, ProvisioningStep, ForwardingStep, NotifyingStep, serviceVars,
         forwardingVars, Forwarding!vars
<1>4. [ServiceNext]_serviceVars => [Notifying!Next]_(Notifying!vars)
  BY DEF ServiceNext, ProvisioningStep, ForwardingStep, NotifyingStep, serviceVars,
         notifyingVars, Notifying!vars
<1> QED BY <1>1, <1>2, <1>3, <1>4, PTL
        DEF ServiceSpec, Spec, Forwarding!Spec, Notifying!Spec

-----------------------------------------------------------------------------
(* VMs and port rules.  What a slot holds, by its phase;                    *)
Fields == {"pc", "machine", "vm", "type", "port", "nat", "found"}

VmLocals(slot) ==
  /\ DOMAIN slot = Fields
  /\ slot.pc = "vm_insert" => slot.machine \in Machines
  /\ slot.pc \in Holding => slot.vm \in VmIds
  /\ slot.pc \in Looking => slot.type \in PortTypes
  /\ slot.pc \in {"find_nat", "rule_insert"} => slot.port \in 1..LastPort
  /\ slot.pc = "rule_insert" => slot.nat \in 1..LastNat

(* what its request has seen holds of every rule but those stored since;    *)
Seen(slot, behind) ==
  \A k \in DOMAIN portRules \ behind :
    /\ slot.pc \in Looking => ~(portRules[k].vm = slot.vm /\ portRules[k].type = slot.type)
    /\ slot.pc \in {"find_nat", "rule_insert"} => portRules[k].port # slot.port
    /\ slot.pc = "rule_insert" => portRules[k].nat # slot.nat

(* and its VM is stored, unless it was removed since.                       *)
Served(slot) == slot.pc \in Holding => slot.vm \in DOMAIN machines

Good(r) ==
  /\ VmLocals(job[r])
  /\ Seen(job[r], overtaken[r])
  /\ r \notin bereft => Served(job[r])

ProvisionInv == TypeOK /\ (\A r \in Requests : Good(r)) /\ RulesHaveVm

(* Every set of numbers that is not empty has a least, which the code takes.*)
LEMMA Least ==
  ASSUME NEW S \in SUBSET Nat, S # {}
  PROVE  \E n \in S : \A m \in S : n <= m
<1> DEFINE less == OpToRel(<, Nat)
<1>1. IsWellFoundedOn(less, Nat)
  BY NatLessThanWellFounded, Zenon
<1>2. \A x, y \in Nat : <<x, y>> \in less <=> x < y
  BY DEF OpToRel
<1> HIDE DEF less
<1>3. \E x \in S : \A y \in S : <<y, x>> \notin less
  BY <1>1, WFMin
<1>4. PICK n \in S : \A m \in S : ~(m < n)
  BY <1>2, <1>3
<1>5. \A a, b \in Nat : ~(b < a) => a <= b
  OBVIOUS
<1> QED BY <1>4, <1>5

LEMMA LowestIs ==
  ASSUME NEW S \in SUBSET Nat, S # {}
  PROVE  Lowest(S) \in S /\ \A m \in S : Lowest(S) <= m
BY Least DEF Lowest

(* A row put into a table.                                                  *)
LEMMA TablePut ==
  ASSUME NEW table, NEW S, NEW T, NEW n \in S, NEW row \in T,
         DOMAIN table \subseteq S, table \in [DOMAIN table -> T]
  PROVE  /\ DOMAIN Put(table, n, row) \subseteq S
         /\ Put(table, n, row) \in [DOMAIN Put(table, n, row) -> T]
BY DEF Put

(* A request that goes on, alone, while the tables of VMs and rules keep    *)
(* their rows.                                                              *)
LEMMA SlotStep ==
  ASSUME ProvisionInv, NEW r \in Requests, NEW slot,
         job' = [job EXCEPT ![r] = slot], VmLocals(slot),
         UNCHANGED <<quotas, portRules, unowned>>,
         DOMAIN machines \subseteq DOMAIN machines',
         DOMAIN machines' \subseteq VmIds, machines' \in [DOMAIN machines' -> Machines],
         overtaken' = overtaken \/ overtaken' = [overtaken EXCEPT ![r] = {}],
         bereft' = bereft \/ bereft' = bereft \ {r},
         Seen(slot, overtaken'[r]), r \notin bereft' => Served(slot)
  PROVE  ProvisionInv'
<1>1. /\ DOMAIN job' = Requests
      /\ \A q \in Requests : job'[q] = IF q = r THEN slot ELSE job[q]
  BY DEF ProvisionInv, TypeOK
<1>2. /\ overtaken' \in [Requests -> SUBSET RuleIds]
      /\ \A q \in Requests \ {r} : overtaken'[q] = overtaken[q]
  BY DEF ProvisionInv, TypeOK
<1>3. \A s : Served(s) => Served(s)'
  BY DEF Served
<1>4. \A s, b : Seen(s, b) => Seen(s, b)'
  BY DEF Seen
<1>5. TypeOK'
  BY <1>1, <1>2 DEF ProvisionInv, TypeOK
<1>6. RulesHaveVm'
  BY DEF ProvisionInv, RulesHaveVm
<1>7. Good(r)'
  <2>1. VmLocals(job[r])'
    BY <1>1 DEF VmLocals
  <2>2. Seen(job[r], overtaken[r])'
    BY <1>1 DEF Seen
  <2>3. (r \notin bereft => Served(job[r]))'
    BY <1>1 DEF Served
  <2> QED BY <2>1, <2>2, <2>3 DEF Good
<1>8. ASSUME NEW q \in Requests \ {r} PROVE Good(q)'
  <2>1. /\ job'[q] = job[q] /\ overtaken'[q] = overtaken[q]
        /\ q \in bereft <=> q \in bereft'
    BY <1>1, <1>2
  <2>2. Good(q)
    BY DEF ProvisionInv
  <2> QED BY <2>1, <2>2 DEF Good, VmLocals, Seen, Served
<1> QED BY <1>5, <1>6, <1>7, <1>8 DEF ProvisionInv

LEMMA IdleSlot == VmLocals(Idle) /\ (\A b : Seen(Idle, b)) /\ Served(Idle)
BY DEF VmLocals, Fields, Seen, Served, Idle, Looking, Holding

(* A request that ends, and one that begins.                                *)
LEMMA FinishStep ==
  ASSUME ProvisionInv, NEW r \in Requests, Finish(r),
         UNCHANGED <<quotas, machines, portRules, unowned>>
  PROVE  ProvisionInv'
<1>1. DOMAIN machines' \subseteq VmIds /\ machines' \in [DOMAIN machines' -> Machines]
  BY DEF ProvisionInv, TypeOK
<1> QED BY <1>1, IdleSlot, SlotStep DEF Finish

LEMMA BeginStep ==
  ASSUME ProvisionInv, NEW r \in Requests, NEW phase, NEW locals, DOMAIN locals = Fields,
         Begin(r, phase, locals), UNCHANGED <<quotas, machines, portRules, unowned>>,
         phase \in {"vm_insert", "next_port", "remove_calls"},
         phase = "vm_insert" => locals.machine \in Machines,
         phase = "next_port" => locals.vm \in DOMAIN machines
  PROVE  ProvisionInv'
<1> DEFINE slot == [locals EXCEPT !.pc = phase]
<1>1. /\ DOMAIN slot = Fields /\ slot.pc = phase /\ slot.machine = locals.machine
      /\ slot.vm = locals.vm
  BY DEF Fields
<1>2. job' = [job EXCEPT ![r] = slot] /\ UNCHANGED <<overtaken, bereft>>
  BY DEF Begin
<1> HIDE DEF slot
<1>3. DOMAIN machines' \subseteq VmIds /\ machines' \in [DOMAIN machines' -> Machines]
  BY DEF ProvisionInv, TypeOK
<1>4. VmLocals(slot)
  BY <1>1, <1>3 DEF VmLocals, Looking, Holding
<1>5. Seen(slot, overtaken'[r]) /\ Served(slot)
  BY <1>1 DEF Seen, Served, Looking, Holding
<1> QED BY <1>2, <1>3, <1>4, <1>5, SlotStep

-----------------------------------------------------------------------------
LEMMA QuotaStep ==
  ASSUME ProvisionInv, Quotas PROVE ProvisionInv'
<1>1. UNCHANGED <<machines, portRules, job, overtaken, bereft, unowned>>
  BY DEF Quotas, QuotaCreate, QuotaPatch
<1>2. DOMAIN quotas' \subseteq QuotaIds /\ quotas' \in [DOMAIN quotas' -> Quota]
  <2>1. ASSUME NEW u \in Users, NEW limit \in Limits, NEW usage \in Limits,
               QuotaCreate(u, limit, usage)
        PROVE  DOMAIN quotas' \subseteq QuotaIds /\ quotas' \in [DOMAIN quotas' -> Quota]
    <3> DEFINE row == [user |-> u, limit |-> limit, usage |-> usage]
    <3>1. row \in Quota
      BY DEF Quota
    <3>2. PICK n \in QuotaIds : quotas' = Put(quotas, n, row)
      BY <2>1 DEF QuotaCreate
    <3> HIDE DEF row
    <3> QED BY <3>1, <3>2, TablePut DEF ProvisionInv, TypeOK
  <2>2. ASSUME NEW k \in QuotaIds, NEW limit \in Limits, NEW usage \in Limits,
               QuotaPatch(k, limit, usage)
        PROVE  DOMAIN quotas' \subseteq QuotaIds /\ quotas' \in [DOMAIN quotas' -> Quota]
    <3> DEFINE row == [quotas[k] EXCEPT !.limit = limit, !.usage = usage]
    <3>1. k \in DOMAIN quotas /\ quotas[k] \in Quota
      BY <2>2 DEF QuotaPatch, ProvisionInv, TypeOK
    <3>2. row \in Quota
      BY <3>1 DEF Quota
    <3>3. quotas' = [quotas EXCEPT ![k] = row]
      BY <2>2 DEF QuotaPatch, ProvisionInv, TypeOK
    <3> HIDE DEF row, Quota
    <3> QED BY <3>1, <3>2, <3>3 DEF ProvisionInv, TypeOK
  <2> QED BY <2>1, <2>2 DEF Quotas
<1>3. TypeOK'
  BY <1>1, <1>2 DEF ProvisionInv, TypeOK
<1>4. \A r \in Requests : Good(r)'
  BY <1>1 DEF ProvisionInv, Good, VmLocals, Seen, Served
<1>5. RulesHaveVm'
  BY <1>1 DEF ProvisionInv, RulesHaveVm
<1> QED BY <1>3, <1>4, <1>5 DEF ProvisionInv

LEMMA VmStep ==
  ASSUME ProvisionInv, NEW r \in Requests, Vm(r) PROVE ProvisionInv'
<1>1. ASSUME NEW u \in Users, NEW m \in Machines, VmCheck(r, u, m) PROVE ProvisionInv'
  <2> DEFINE locals == [Idle EXCEPT !.machine = m]
  <2>1. DOMAIN locals = Fields /\ locals.machine = m
    BY DEF Idle, Fields
  <2>2. Begin(r, "vm_insert", locals) /\ UNCHANGED <<quotas, machines, portRules, unowned>>
    BY <1>1 DEF VmCheck
  <2> HIDE DEF locals
  <2> QED BY <2>1, <2>2, BeginStep
<1>2. ASSUME NEW clash \in BOOLEAN, VmInsert(r, clash) PROVE ProvisionInv'
  <2>1. CASE Finish(r) /\ UNCHANGED machines
    BY <1>2, <2>1, FinishStep DEF VmInsert
  <2>2. ASSUME NEW n \in VmIds, machines' = Put(machines, n, job[r].machine),
               GoTo(r, "vm_stored")
        PROVE  ProvisionInv'
    <3> DEFINE slot == [job[r] EXCEPT !.pc = "vm_stored"]
    <3>1. VmLocals(job[r]) /\ job[r].pc = "vm_insert"
      BY <1>2 DEF VmInsert, ProvisionInv, Good
    <3>2. /\ DOMAIN machines' \subseteq VmIds /\ machines' \in [DOMAIN machines' -> Machines]
          /\ DOMAIN machines \subseteq DOMAIN machines'
      <4>1. job[r].machine \in Machines
        BY <3>1 DEF VmLocals
      <4>2. DOMAIN machines \subseteq VmIds /\ machines \in [DOMAIN machines -> Machines]
        BY DEF ProvisionInv, TypeOK
      <4> HIDE DEF VmIds
      <4> QED BY <2>2, <4>1, <4>2 DEF Put
    <3>3. DOMAIN slot = Fields /\ slot.pc = "vm_stored"
      BY <3>1 DEF VmLocals, Fields
    <3>4. job' = [job EXCEPT ![r] = slot] /\ UNCHANGED <<overtaken, bereft>>
      BY <2>2 DEF GoTo, ProvisionInv, TypeOK
    <3> HIDE DEF slot
    <3>5. VmLocals(slot) /\ Seen(slot, overtaken'[r]) /\ Served(slot)
      BY <3>3 DEF VmLocals, Seen, Served, Looking, Holding
    <3>6. UNCHANGED <<quotas, portRules, unowned>>
      BY <1>2 DEF VmInsert
    <3> QED BY <3>2, <3>4, <3>5, <3>6, SlotStep
  <2> QED BY <1>2, <2>1, <2>2 DEF VmInsert
<1>3. CASE ProvisionEnds(r)
  BY <1>3, FinishStep DEF ProvisionEnds
<1> QED BY <1>1, <1>2, <1>3 DEF Vm

(* The number a helper hands out is of no rule there is.                    *)
LEMMA PortStep ==
  ASSUME ProvisionInv, NEW r \in Requests,
         \/ \E id \in VmIds : PortLoad(r, id)
         \/ \E type \in PortTypes : PortLook(r, type)
         \/ PortEnd(r) \/ FindPort(r) \/ FindNat(r)
  PROVE  ProvisionInv'
<1>0. /\ Good(r) /\ VmLocals(job[r])
      /\ DOMAIN machines \subseteq VmIds /\ machines \in [DOMAIN machines -> Machines]
  BY DEF ProvisionInv, Good, TypeOK
<1>1. UNCHANGED <<quotas, machines, portRules, unowned>>
  BY DEF PortLoad, PortLook, PortEnd, FindPort, FindNat
<1>2. ASSUME NEW id \in VmIds, PortLoad(r, id) PROVE ProvisionInv'
  <2> DEFINE locals == [Idle EXCEPT !.vm = id]
  <2>1. DOMAIN locals = Fields /\ locals.vm = id
    BY DEF Idle, Fields
  <2>2. Begin(r, "next_port", locals) /\ id \in DOMAIN machines
    BY <1>2 DEF PortLoad
  <2> HIDE DEF locals
  <2> QED BY <1>1, <2>1, <2>2, BeginStep
<1>3. ASSUME NEW type \in PortTypes, PortLook(r, type) PROVE ProvisionInv'
  <2> DEFINE slot == [job[r] EXCEPT !.pc = "find_port", !.type = type]
  <2>1. /\ job[r].pc = "next_port" /\ UNCHANGED bereft
        /\ overtaken' = [overtaken EXCEPT ![r] = {}]
        /\ job' = [job EXCEPT ![r].pc = "find_port", ![r].type = type]
        /\ \A k \in DOMAIN portRules : ~(portRules[k].vm = job[r].vm /\ portRules[k].type = type)
    BY <1>3 DEF PortLook
  <2>2. /\ DOMAIN slot = Fields /\ slot.pc = "find_port" /\ slot.type = type
        /\ slot.vm = job[r].vm
    BY <1>0 DEF VmLocals, Fields
  <2>3. job' = [job EXCEPT ![r] = slot]
    BY <2>1 DEF ProvisionInv, TypeOK
  <2> HIDE DEF slot
  <2>4. VmLocals(slot)
    BY <1>0, <2>1, <2>2 DEF VmLocals, Looking, Holding
  <2>5. Seen(slot, overtaken'[r]) /\ (r \notin bereft' => Served(slot))
    BY <1>0, <2>1, <2>2 DEF Good, Seen, Served, Looking, Holding
  <2> QED BY <1>0, <1>1, <2>1, <2>3, <2>4, <2>5, SlotStep
<1>4. CASE PortEnd(r)
  BY <1>1, <1>4, FinishStep DEF PortEnd
<1>5. ASSUME job[r].pc \in Looking, GoTo(r, "next_port") PROVE ProvisionInv'
  <2> DEFINE slot == [job[r] EXCEPT !.pc = "next_port"]
  <2>1. DOMAIN slot = Fields /\ slot.pc = "next_port" /\ slot.vm = job[r].vm
    BY <1>0 DEF VmLocals, Fields
  <2>2. job' = [job EXCEPT ![r] = slot] /\ UNCHANGED <<overtaken, bereft>>
    BY <1>5 DEF GoTo, ProvisionInv, TypeOK
  <2> HIDE DEF slot
  <2>3. VmLocals(slot)
    BY <1>0, <1>5, <2>1 DEF VmLocals, Looking, Holding
  <2>4. Seen(slot, overtaken'[r]) /\ (r \notin bereft' => Served(slot))
    BY <1>0, <1>5, <2>1, <2>2 DEF Good, Seen, Served, Looking, Holding
  <2> QED BY <1>0, <1>1, <2>2, <2>3, <2>4, SlotStep
<1>6. CASE FindPort(r)
  <2> DEFINE free == (1..LastPort) \ {portRules[k].port : k \in DOMAIN portRules}
             slot == [job[r] EXCEPT !.pc = "find_nat", !.port = Lowest(free)]
  <2>1. CASE job[r].pc = "find_port" /\ GoTo(r, "next_port")
    BY <1>5, <2>1 DEF Looking
  <2>2. CASE /\ free # {} /\ job[r].pc = "find_port" /\ UNCHANGED <<overtaken, bereft>>
             /\ job' = [job EXCEPT ![r].pc = "find_nat", ![r].port = Lowest(free)]
    <3>1. Lowest(free) \in free
      BY <2>2, LowestIs
    <3>2. /\ DOMAIN slot = Fields /\ slot.pc = "find_nat" /\ slot.port = Lowest(free)
          /\ slot.vm = job[r].vm /\ slot.type = job[r].type
      BY <1>0 DEF VmLocals, Fields
    <3>3. job' = [job EXCEPT ![r] = slot]
      BY <2>2 DEF ProvisionInv, TypeOK
    <3>4. Lowest(free) \in 1..LastPort
          /\ \A k \in DOMAIN portRules : portRules[k].port # Lowest(free)
      BY <3>1
    <3> HIDE DEF slot, free
    <3>5. VmLocals(slot)
      BY <1>0, <2>2, <3>2, <3>4 DEF VmLocals, Looking, Holding
    <3>6. Seen(slot, overtaken'[r]) /\ (r \notin bereft' => Served(slot))
      BY <1>0, <2>2, <3>2, <3>4 DEF Good, Seen, Served, Looking, Holding
    <3> QED BY <1>0, <1>1, <2>2, <3>3, <3>5, <3>6, SlotStep
  <2> QED BY <1>6, <2>1, <2>2 DEF FindPort
<1>7. CASE FindNat(r)
  <2> DEFINE free == (1..LastNat) \ {portRules[k].nat : k \in DOMAIN portRules}
             slot == [job[r] EXCEPT !.pc = "rule_insert", !.nat = Lowest(free)]
  <2>1. CASE job[r].pc = "find_nat" /\ GoTo(r, "next_port")
    BY <1>5, <2>1 DEF Looking
  <2>2. CASE /\ free # {} /\ job[r].pc = "find_nat" /\ UNCHANGED <<overtaken, bereft>>
             /\ job' = [job EXCEPT ![r].pc = "rule_insert", ![r].nat = Lowest(free)]
    <3>1. Lowest(free) \in free
      BY <2>2, LowestIs
    <3>2. /\ DOMAIN slot = Fields /\ slot.pc = "rule_insert" /\ slot.nat = Lowest(free)
          /\ slot.vm = job[r].vm /\ slot.type = job[r].type /\ slot.port = job[r].port
      BY <1>0 DEF VmLocals, Fields
    <3>3. job' = [job EXCEPT ![r] = slot]
      BY <2>2 DEF ProvisionInv, TypeOK
    <3>4. Lowest(free) \in 1..LastNat
          /\ \A k \in DOMAIN portRules : portRules[k].nat # Lowest(free)
      BY <3>1
    <3> HIDE DEF slot, free
    <3>5. VmLocals(slot)
      BY <1>0, <2>2, <3>2, <3>4 DEF VmLocals, Looking, Holding
    <3>6. Seen(slot, overtaken'[r]) /\ (r \notin bereft' => Served(slot))
      BY <1>0, <2>2, <3>2, <3>4 DEF Good, Seen, Served, Looking, Holding
    <3> QED BY <1>0, <1>1, <2>2, <3>3, <3>5, <3>6, SlotStep
  <2> QED BY <1>7, <2>1, <2>2 DEF FindNat
<1> QED BY <1>2, <1>3, <1>4, <1>6, <1>7

(* A rule that is stored is behind the back of every request that looks.    *)
LEMMA RuleInsertStep ==
  ASSUME ProvisionInv, NEW r \in Requests, RuleInsert(r) PROVE ProvisionInv'
<1>1. CASE Finish(r) /\ UNCHANGED <<portRules, unowned>>
  BY <1>1, FinishStep DEF RuleInsert
<1>2. CASE ~(Finish(r) /\ UNCHANGED <<portRules, unowned>>)
  <2> DEFINE row == [vm |-> job[r].vm, type |-> job[r].type,
                     port |-> job[r].port, nat |-> job[r].nat]
  <2>1. PICK n \in RuleIds :
          /\ FreshId(portRules, n)
          /\ portRules' = Put(portRules, n, row)
          /\ overtaken' = [q \in Requests |->
               IF q # r /\ job[q].pc \in Looking THEN overtaken[q] \union {n} ELSE {}]
          /\ unowned' = IF r \in bereft THEN unowned \union {n} ELSE unowned \ {n}
          /\ job' = [job EXCEPT ![r] = Idle]
          /\ bereft' = bereft \ {r}
    BY <1>2 DEF RuleInsert
  <2>2. UNCHANGED <<quotas, machines>> /\ job[r].pc = "rule_insert"
    BY <1>2 DEF RuleInsert
  <2>3. Good(r)
    BY DEF ProvisionInv
  <2>4. /\ row.vm = job[r].vm /\ row.vm \in VmIds
        /\ r \notin bereft => row.vm \in DOMAIN machines
    BY <2>2, <2>3 DEF Good, VmLocals, Served, Looking, Holding
  <2>5. row \in PortRule
    BY <2>2, <2>3 DEF Good, VmLocals, Looking, Holding, PortRule
  <2> HIDE DEF row
  <2>6. /\ DOMAIN portRules' = DOMAIN portRules \union {n}
        /\ \A k \in DOMAIN portRules' : portRules'[k] = IF k = n THEN row ELSE portRules[k]
    BY <2>1 DEF Put
  <2>7. n \notin DOMAIN portRules
    BY <2>1 DEF FreshId, RuleIds
  <2>8. /\ DOMAIN job' = Requests
        /\ \A q \in Requests : job'[q] = IF q = r THEN Idle ELSE job[q]
    BY <2>1 DEF ProvisionInv, TypeOK
  <2>9. TypeOK'
    <3>1. DOMAIN portRules' \subseteq RuleIds /\ portRules' \in [DOMAIN portRules' -> PortRule]
      BY <2>1, <2>5, TablePut DEF ProvisionInv, TypeOK
    <3>2. overtaken' \in [Requests -> SUBSET RuleIds]
      BY <2>1 DEF ProvisionInv, TypeOK
    <3> QED BY <2>1, <2>2, <2>8, <3>1, <3>2 DEF ProvisionInv, TypeOK
  <2>10. ASSUME NEW q \in Requests PROVE Good(q)'
    <3>1. CASE q = r
      <4>1. job'[q] = Idle
        BY <2>8, <3>1
      <4> QED BY <4>1 DEF Good, VmLocals, Fields, Seen, Served, Looking, Holding, Idle
    <3>2. CASE q # r
      <4>1. job'[q] = job[q] /\ machines' = machines /\ (q \in bereft <=> q \in bereft')
        BY <2>1, <2>2, <2>8, <3>2
      <4>2. VmLocals(job[q]) /\ Seen(job[q], overtaken[q]) /\ (q \notin bereft => Served(job[q]))
        BY DEF ProvisionInv, Good
      <4>3. job[q].pc \in Looking =>
              overtaken'[q] = overtaken[q] \union {n}
        BY <2>1, <3>2
      <4>4. Seen(job[q], overtaken[q])'
        BY <2>6, <4>1, <4>2, <4>3 DEF Seen, Looking
      <4>5. VmLocals(job[q])' /\ (q \notin bereft => Served(job[q]))'
        BY <4>1, <4>2 DEF VmLocals, Served
      <4> QED BY <4>4, <4>5 DEF Good
    <3> QED BY <3>1, <3>2
  <2>11. RulesHaveVm'
    <3>1. ASSUME NEW k \in DOMAIN portRules' \ unowned'
          PROVE  portRules'[k].vm \in DOMAIN machines' \union {None}
      <4>1. CASE k = n
        BY <2>1, <2>2, <2>4, <2>6, <3>1, <4>1
      <4>2. CASE k # n
        BY <2>1, <2>2, <2>6, <3>1, <4>2 DEF ProvisionInv, RulesHaveVm
      <4> QED BY <4>1, <4>2
    <3> QED BY <3>1 DEF RulesHaveVm
  <2> QED BY <2>9, <2>10, <2>11 DEF ProvisionInv
<1> QED BY <1>1, <1>2

(* A VM goes with its rules, or is taken out of them.                       *)
LEMMA RemoveStep ==
  ASSUME ProvisionInv, NEW r \in Requests, Remove(r) PROVE ProvisionInv'
<1>1. ASSUME NEW id \in VmIds, RemoveLoad(r, id) PROVE ProvisionInv'
  <2> DEFINE locals == [Idle EXCEPT !.vm = id,
                          !.found = {k \in DOMAIN portRules : portRules[k].vm = id}]
  <2>1. DOMAIN locals = Fields
    BY DEF Idle, Fields
  <2>2. /\ Begin(r, "remove_calls", locals)
        /\ UNCHANGED <<quotas, machines, portRules, unowned>>
    BY <1>1 DEF RemoveLoad
  <2> HIDE DEF locals
  <2> QED BY <2>1, <2>2, BeginStep
<1>2. ASSUME NEW answer \in Answers, RemoveCalls(r, answer) PROVE ProvisionInv'
  <2>1. UNCHANGED <<quotas, machines, portRules, unowned>>
    BY <1>2 DEF RemoveCalls
  <2>2. CASE Finish(r)
    BY <2>1, <2>2, FinishStep
  <2>3. CASE GoTo(r, "remove_commit")
    <3> DEFINE slot == [job[r] EXCEPT !.pc = "remove_commit"]
    <3>1. DOMAIN slot = Fields /\ slot.pc = "remove_commit"
      BY DEF ProvisionInv, Good, VmLocals, Fields
    <3>2. job' = [job EXCEPT ![r] = slot] /\ UNCHANGED <<overtaken, bereft>>
      BY <2>3 DEF GoTo, ProvisionInv, TypeOK
    <3> HIDE DEF slot
    <3>3. VmLocals(slot) /\ Seen(slot, overtaken'[r]) /\ Served(slot)
      BY <3>1 DEF VmLocals, Seen, Served, Looking, Holding
    <3>4. DOMAIN machines' \subseteq VmIds /\ machines' \in [DOMAIN machines' -> Machines]
      BY <2>1 DEF ProvisionInv, TypeOK
    <3> QED BY <2>1, <3>2, <3>3, <3>4, SlotStep
  <2> QED BY <1>2, <2>2, <2>3 DEF RemoveCalls
<1>3. CASE RemoveCommit(r)
  <2> DEFINE id == job[r].vm
             found == job[r].found
  <2>1. /\ portRules' = Disowned(id, found)
        /\ machines' = Without(machines, {id})
        /\ job' = [job EXCEPT ![r] = Idle]
        /\ bereft' = bereft \union {q \in Requests : job[q].pc \in Holding /\ job[q].vm = id}
        /\ UNCHANGED <<quotas, overtaken, unowned>>
    BY <1>3 DEF RemoveCommit
  <2>2. /\ DOMAIN portRules' = DOMAIN portRules \ found
        /\ \A k \in DOMAIN portRules' :
             portRules'[k] = IF portRules[k].vm = id THEN [portRules[k] EXCEPT !.vm = None]
                             ELSE portRules[k]
    BY <2>1 DEF Disowned
  <2>3. \A k \in DOMAIN portRules : portRules[k] \in PortRule
    BY DEF ProvisionInv, TypeOK
  <2>4. \A k \in DOMAIN portRules' :
          /\ portRules'[k].vm = IF portRules[k].vm = id THEN None ELSE portRules[k].vm
          /\ portRules'[k].type = portRules[k].type /\ portRules'[k].port = portRules[k].port
          /\ portRules'[k].nat = portRules[k].nat
          /\ portRules'[k] \in PortRule
    BY <2>2, <2>3 DEF PortRule
  <2>5. DOMAIN machines' = DOMAIN machines \ {id} /\ \A k \in DOMAIN machines' : machines'[k] = machines[k]
    BY <2>1 DEF Without
  <2>6. /\ DOMAIN job' = Requests
        /\ \A q \in Requests : job'[q] = IF q = r THEN Idle ELSE job[q]
    BY <2>1 DEF ProvisionInv, TypeOK
  <2>7. None \notin VmIds
    BY ConstantsAssumption DEF VmIds
  <2> HIDE DEF id, found
  <2>8. TypeOK'
    <3>1. DOMAIN portRules' \subseteq RuleIds /\ portRules' \in [DOMAIN portRules' -> PortRule]
      <4>1. portRules' = [k \in DOMAIN portRules' |-> portRules'[k]]
        BY <2>1 DEF Disowned
      <4> QED BY <2>2, <2>4, <4>1 DEF ProvisionInv, TypeOK
    <3>2. DOMAIN machines' \subseteq VmIds /\ machines' \in [DOMAIN machines' -> Machines]
      BY <2>1, <2>5 DEF Without, ProvisionInv, TypeOK
    <3> QED BY <2>1, <2>6, <3>1, <3>2 DEF ProvisionInv, TypeOK
  <2>9. ASSUME NEW q \in Requests PROVE Good(q)'
    <3>1. CASE q = r
      <4>1. job'[q] = Idle
        BY <2>6, <3>1
      <4> QED BY <4>1 DEF Good, VmLocals, Fields, Seen, Served, Looking, Holding, Idle
    <3>2. CASE q # r
      <4>1. job'[q] = job[q] /\ overtaken'[q] = overtaken[q]
        BY <2>1, <2>6, <3>2
      <4>2. VmLocals(job[q]) /\ Seen(job[q], overtaken[q]) /\ (q \notin bereft => Served(job[q]))
        BY DEF ProvisionInv, Good
      <4>3. job[q].pc \in Looking => job[q].vm # None
        BY <2>7, <4>2 DEF VmLocals, Holding
      <4>4. Seen(job[q], overtaken[q])'
        BY <2>2, <2>4, <4>1, <4>2, <4>3 DEF Seen, Looking
      <4>5. (q \notin bereft => Served(job[q]))'
        BY <2>1, <2>5, <4>1, <4>2 DEF Served
      <4> QED BY <4>1, <4>2, <4>4, <4>5 DEF Good, VmLocals
    <3> QED BY <3>1, <3>2
  <2>10. RulesHaveVm'
    BY <2>1, <2>2, <2>4, <2>5 DEF ProvisionInv, RulesHaveVm
  <2> QED BY <2>8, <2>9, <2>10 DEF ProvisionInv
<1> QED BY <1>1, <1>2, <1>3 DEF Remove

LEMMA Provisioned == Spec => []ProvisionInv
<1>1. Init => ProvisionInv
  <2> SUFFICES ASSUME Init PROVE ProvisionInv
    OBVIOUS
  <2>1. TypeOK /\ RulesHaveVm
    BY DEF Init, TypeOK, RulesHaveVm
  <2>2. \A r \in Requests : job[r] = Idle /\ DOMAIN portRules = {}
    BY DEF Init
  <2> QED BY <2>1, <2>2, IdleSlot DEF ProvisionInv, Good
<1>2. ProvisionInv /\ [Next]_vars => ProvisionInv'
  <2> SUFFICES ASSUME ProvisionInv, [Next]_vars PROVE ProvisionInv'
    OBVIOUS
  <2>1. CASE UNCHANGED vars
    BY <2>1 DEF vars, ProvisionInv, TypeOK, Good, VmLocals, Seen, Served, RulesHaveVm
  <2> QED BY <2>1, QuotaStep, VmStep, PortStep, RuleInsertStep, RemoveStep DEF Next, Port
<1> QED BY <1>1, <1>2, PTL DEF Spec

LEMMA ProvisionPromises ==
  ProvisionInv => TypeOK /\ CollisionNeedsOverlap /\ SecondRuleNeedsOverlap /\ RulesHaveVm
BY DEF ProvisionInv, Good, Seen, Looking, CollisionNeedsOverlap, SecondRuleNeedsOverlap

-----------------------------------------------------------------------------
(* Port mappings.  What a slot holds, by its phase.                         *)
MappingFields == {"pc", "id", "row", "new"}
Loaded  == {"update_delete", "update_set", "update_rollback", "update_commit",
            "delete_router", "delete_commit"}
Wanting == {"create_set", "create_insert",
            "update_delete", "update_set", "update_rollback", "update_commit"}

MappingLocals(slot) ==
  /\ DOMAIN slot = MappingFields
  /\ slot.pc \in Loaded => slot.id \in Forwarding!MappingIds /\ slot.row \in Forwarding!Mapping
  /\ slot.pc \in Wanting => slot.new \in Forwarding!Mapping

MappingTypes == Forwarding!TypeOK /\ \A r \in Requests : MappingLocals(op[r])

(* A slot that gets a new record, a new phase, or becomes idle.             *)
LEMMA MappingSlotSet ==
  ASSUME MappingTypes, NEW r \in Requests, NEW slot, op' = [op EXCEPT ![r] = slot]
  PROVE  /\ DOMAIN op' = Requests
         /\ \A q \in Requests : op'[q] = IF q = r THEN slot ELSE op[q]
         /\ MappingLocals(slot) => \A q \in Requests : MappingLocals(op'[q])
<1>1. /\ DOMAIN op' = Requests
      /\ \A q \in Requests : op'[q] = IF q = r THEN slot ELSE op[q]
  BY DEF MappingTypes, Forwarding!TypeOK
<1> QED BY <1>1 DEF MappingTypes

LEMMA MappingFinished ==
  ASSUME MappingTypes, NEW r \in Requests, Forwarding!Finish(r)
  PROVE  /\ DOMAIN op' = Requests
         /\ \A q \in Requests : MappingLocals(op'[q])
         /\ op'[r].pc = "idle" /\ \A q \in Requests \ {r} : op'[q] = op[q]
<1> DEFINE slot == Forwarding!Idle
<1>1. MappingLocals(slot) /\ slot.pc = "idle"
  BY DEF Forwarding!Idle, MappingLocals, MappingFields, Loaded, Wanting
<1>2. op' = [op EXCEPT ![r] = slot]
  BY DEF Forwarding!Finish
<1> HIDE DEF slot
<1> QED BY <1>1, <1>2, MappingSlotSet

LEMMA MappingMoved ==
  ASSUME MappingTypes, NEW r \in Requests, NEW phase, Forwarding!GoTo(r, phase)
  PROVE  /\ DOMAIN op' = Requests
         /\ /\ phase \in Loaded => op[r].pc \in Loaded
            /\ phase \in Wanting => op[r].pc \in Wanting
            => \A q \in Requests : MappingLocals(op'[q])
         /\ op'[r].pc = phase /\ op'[r].id = op[r].id
         /\ op'[r].row = op[r].row /\ op'[r].new = op[r].new
         /\ \A q \in Requests \ {r} : op'[q] = op[q]
<1> DEFINE slot == [op[r] EXCEPT !.pc = phase]
<1>1. /\ DOMAIN slot = MappingFields /\ slot.pc = phase /\ slot.id = op[r].id
      /\ slot.row = op[r].row /\ slot.new = op[r].new
  BY DEF MappingTypes, MappingLocals, MappingFields
<1>2. op' = [op EXCEPT ![r] = slot]
  BY DEF Forwarding!GoTo, MappingTypes, Forwarding!TypeOK
<1> HIDE DEF slot
<1>3. (phase \in Loaded => op[r].pc \in Loaded) /\ (phase \in Wanting => op[r].pc \in Wanting)
        => MappingLocals(slot)
  BY <1>1 DEF MappingTypes, MappingLocals
<1> QED BY <1>1, <1>2, <1>3, MappingSlotSet

LEMMA MappingBegun ==
  ASSUME MappingTypes, NEW r \in Requests, NEW phase, NEW id, NEW row, NEW new,
         Forwarding!Begin(r, phase, id, row, new)
  PROVE  /\ DOMAIN op' = Requests
         /\ /\ phase \in Loaded => id \in Forwarding!MappingIds /\ row \in Forwarding!Mapping
            /\ phase \in Wanting => new \in Forwarding!Mapping
            => \A q \in Requests : MappingLocals(op'[q])
         /\ op[r].pc = "idle"
         /\ op'[r].pc = phase /\ op'[r].id = id /\ op'[r].row = row /\ op'[r].new = new
         /\ \A q \in Requests \ {r} : op'[q] = op[q]
<1> DEFINE slot == [pc |-> phase, id |-> id, row |-> row, new |-> new]
<1>1. /\ DOMAIN slot = MappingFields /\ slot.pc = phase /\ slot.id = id
      /\ slot.row = row /\ slot.new = new
  BY DEF MappingFields
<1>2. op' = [op EXCEPT ![r] = slot] /\ op[r].pc = "idle"
  BY DEF Forwarding!Begin
<1> HIDE DEF slot
<1>3. /\ phase \in Loaded => id \in Forwarding!MappingIds /\ row \in Forwarding!Mapping
      /\ phase \in Wanting => new \in Forwarding!Mapping
      => MappingLocals(slot)
  BY <1>1 DEF MappingLocals
<1> QED BY <1>1, <1>2, <1>3, MappingSlotSet

(* The row the COMMIT of an update writes is a row, of the subnet it was of. *)
LEMMA WrittenMapping ==
  ASSUME NEW r \in Requests, op[r].id \in DOMAIN mappings,
         mappings[op[r].id] \in Forwarding!Mapping,
         op[r].row \in Forwarding!Mapping, op[r].new \in Forwarding!Mapping
  PROVE  /\ Forwarding!Written(r) \in Forwarding!Mapping
         /\ Forwarding!Written(r).subnet = mappings[op[r].id].subnet
<1>0. PICK stored, loaded, new :
        stored = mappings[op[r].id] /\ loaded = op[r].row /\ new = op[r].new
  OBVIOUS
<1>1. PICK ip \in Ips, port \in Ports :
        /\ ip = Forwarding!Net(new.ip, loaded.ip, stored.ip)
        /\ port = Forwarding!Net(new.port, loaded.port, stored.port)
  BY <1>0 DEF Forwarding!Mapping, Forwarding!Net
<1>2. Forwarding!Written(r) = [stored EXCEPT !.ip = ip, !.port = port]
  BY <1>0, <1>1 DEF Forwarding!Written
<1>3. stored \in Forwarding!Mapping
  BY <1>0
<1> QED BY <1>0, <1>2, <1>3 DEF Forwarding!Mapping

(* The table and the slots stay well formed, and no row changes its subnet. *)
MappingStep ==
  /\ MappingTypes'
  /\ \A k \in DOMAIN mappings \intersect DOMAIN mappings' :
        mappings'[k].subnet = mappings[k].subnet

(* The steps that only move a slot on.                                      *)
LEMMA TableRests ==
  ASSUME MappingTypes, UNCHANGED mappings, DOMAIN op' = Requests,
         \A q \in Requests : MappingLocals(op'[q])
  PROVE  MappingStep
BY DEF MappingTypes, Forwarding!TypeOK, MappingStep

LEMMA CreateMapping ==
  ASSUME MappingTypes, NEW r \in Requests, Forwarding!Create(r) PROVE MappingStep
<1>1. ASSUME NEW row \in Forwarding!Mapping, Forwarding!CreateCheck(r, row)
      PROVE  MappingStep
  <2>1. Forwarding!Begin(r, "create_set", 0, None, row) /\ UNCHANGED mappings
    BY <1>1 DEF Forwarding!CreateCheck
  <2>2. DOMAIN op' = Requests /\ \A q \in Requests : MappingLocals(op'[q])
    BY <2>1, MappingBegun DEF Loaded
  <2> QED BY <2>1, <2>2, TableRests
<1>2. ASSUME NEW answer \in Answers, Forwarding!CreateSet(r, answer)
      PROVE  MappingStep
  <2>1. /\ op[r].pc = "create_set" /\ UNCHANGED mappings
        /\ Forwarding!GoTo(r, "create_insert") \/ Forwarding!Finish(r)
    BY <1>2 DEF Forwarding!CreateSet, Forwarding!CallThen
  <2>2. DOMAIN op' = Requests /\ \A q \in Requests : MappingLocals(op'[q])
    BY <2>1, MappingMoved, MappingFinished DEF Loaded, Wanting
  <2> QED BY <2>1, <2>2, TableRests
<1>3. CASE Forwarding!CreateInsert(r)
  <2>1. op[r].pc = "create_insert" /\ Forwarding!Finish(r)
    BY <1>3 DEF Forwarding!CreateInsert
  <2>2. op[r].new \in Forwarding!Mapping
    BY <2>1 DEF MappingTypes, MappingLocals, Wanting
  <2>3. DOMAIN op' = Requests /\ \A q \in Requests : MappingLocals(op'[q])
    BY <2>1, MappingFinished
  <2>4. CASE UNCHANGED mappings
    BY <2>3, <2>4, TableRests
  <2>5. ASSUME NEW n \in Forwarding!MappingIds, Forwarding!FreshId(n),
               mappings' = [k \in DOMAIN mappings \union {n} |->
                              IF k = n THEN op[r].new ELSE mappings[k]]
        PROVE  MappingStep
    <3>1. n \notin DOMAIN mappings
      BY <2>5 DEF Forwarding!FreshId, Forwarding!MappingIds
    <3>2. /\ DOMAIN mappings' \subseteq Forwarding!MappingIds
          /\ mappings' \in [DOMAIN mappings' -> Forwarding!Mapping]
      <4> HIDE DEF Forwarding!MappingIds, Forwarding!Mapping
      <4> QED BY <2>2, <2>5 DEF MappingTypes, Forwarding!TypeOK
    <3> QED BY <2>3, <2>5, <3>1, <3>2 DEF MappingStep, MappingTypes, Forwarding!TypeOK
  <2> QED BY <1>3, <2>4, <2>5 DEF Forwarding!CreateInsert
<1> QED BY <1>1, <1>2, <1>3 DEF Forwarding!Create

LEMMA UpdateMapping ==
  ASSUME MappingTypes, NEW r \in Requests, Forwarding!Update(r) PROVE MappingStep
<1>1. ASSUME NEW id \in Forwarding!MappingIds, NEW ip \in Ips, NEW port \in Ports,
             Forwarding!UpdateLoad(r, id, ip, port)
      PROVE  MappingStep
  <2> DEFINE row == mappings[id]
             new == [row EXCEPT !.ip = ip, !.port = port]
  <2>1. /\ Forwarding!Begin(r, "update_delete", id, row, new)
        /\ id \in DOMAIN mappings /\ UNCHANGED mappings
    BY <1>1 DEF Forwarding!UpdateLoad
  <2>2. row \in Forwarding!Mapping
    BY <2>1 DEF MappingTypes, Forwarding!TypeOK
  <2>3. new \in Forwarding!Mapping
    BY <2>2 DEF Forwarding!Mapping
  <2> HIDE DEF row, new
  <2>4. DOMAIN op' = Requests /\ \A q \in Requests : MappingLocals(op'[q])
    BY <2>1, <2>2, <2>3, MappingBegun
  <2> QED BY <2>1, <2>4, TableRests
<1>2. ASSUME NEW answer \in Answers,
             Forwarding!UpdateDelete(r, answer) \/ Forwarding!UpdateSet(r, answer)
      PROVE  MappingStep
  <2>1. /\ op[r].pc \in {"update_delete", "update_set"} /\ UNCHANGED mappings
        /\ \/ \E phase \in {"update_set", "update_commit", "update_rollback"} :
                Forwarding!GoTo(r, phase)
           \/ Forwarding!Finish(r)
    BY <1>2 DEF Forwarding!UpdateDelete, Forwarding!UpdateSet, Forwarding!CallThen
  <2>2. DOMAIN op' = Requests /\ \A q \in Requests : MappingLocals(op'[q])
    BY <2>1, MappingMoved, MappingFinished DEF Loaded, Wanting
  <2> QED BY <2>1, <2>2, TableRests
<1>3. CASE Forwarding!UpdateRollback(r)
  BY <1>3, MappingFinished, TableRests DEF Forwarding!UpdateRollback
<1>4. CASE Forwarding!UpdateCommit(r)
  <2>1. op[r].pc = "update_commit" /\ Forwarding!Finish(r)
    BY <1>4 DEF Forwarding!UpdateCommit
  <2>2. DOMAIN op' = Requests /\ \A q \in Requests : MappingLocals(op'[q])
    BY <2>1, MappingFinished
  <2>3. CASE UNCHANGED mappings
    BY <2>2, <2>3, TableRests
  <2>4. CASE /\ op[r].id \in DOMAIN mappings
             /\ mappings' = [mappings EXCEPT ![op[r].id] = Forwarding!Written(r)]
    <3>1. op[r].row \in Forwarding!Mapping /\ op[r].new \in Forwarding!Mapping
      BY <2>1 DEF MappingTypes, MappingLocals, Loaded, Wanting
    <3>2. /\ Forwarding!Written(r) \in Forwarding!Mapping
          /\ Forwarding!Written(r).subnet = mappings[op[r].id].subnet
      BY <2>4, <3>1, WrittenMapping DEF MappingTypes, Forwarding!TypeOK
    <3>3. /\ DOMAIN mappings' = DOMAIN mappings
          /\ mappings' \in [DOMAIN mappings -> Forwarding!Mapping]
          /\ \A k \in DOMAIN mappings : mappings'[k].subnet = mappings[k].subnet
      <4> HIDE DEF Forwarding!Mapping
      <4> QED BY <2>4, <3>2 DEF MappingTypes, Forwarding!TypeOK
    <3> QED BY <2>2, <3>3 DEF MappingStep, MappingTypes, Forwarding!TypeOK
  <2> QED BY <1>4, <2>3, <2>4 DEF Forwarding!UpdateCommit
<1> QED BY <1>1, <1>2, <1>3, <1>4 DEF Forwarding!Update

LEMMA DeleteMapping ==
  ASSUME MappingTypes, NEW r \in Requests, Forwarding!Delete(r) PROVE MappingStep
<1>1. ASSUME NEW id \in Forwarding!MappingIds, Forwarding!DeleteLoad(r, id)
      PROVE  MappingStep
  <2>1. /\ Forwarding!Begin(r, "delete_router", id, mappings[id], None)
        /\ id \in DOMAIN mappings /\ UNCHANGED mappings
    BY <1>1 DEF Forwarding!DeleteLoad
  <2>2. mappings[id] \in Forwarding!Mapping
    BY <2>1 DEF MappingTypes, Forwarding!TypeOK
  <2>3. DOMAIN op' = Requests /\ \A q \in Requests : MappingLocals(op'[q])
    BY <2>1, <2>2, MappingBegun DEF Wanting
  <2> QED BY <2>1, <2>3, TableRests
<1>2. ASSUME NEW answer \in Answers, Forwarding!DeleteRouter(r, answer)
      PROVE  MappingStep
  <2>1. /\ op[r].pc = "delete_router" /\ UNCHANGED mappings
        /\ Forwarding!GoTo(r, "delete_commit") \/ Forwarding!Finish(r)
    BY <1>2 DEF Forwarding!DeleteRouter, Forwarding!CallThen
  <2>2. DOMAIN op' = Requests /\ \A q \in Requests : MappingLocals(op'[q])
    BY <2>1, MappingMoved, MappingFinished DEF Loaded, Wanting
  <2> QED BY <2>1, <2>2, TableRests
<1>3. CASE Forwarding!DeleteCommit(r)
  <2>1. /\ Forwarding!Finish(r)
        /\ mappings' = [k \in DOMAIN mappings \ {op[r].id} |-> mappings[k]]
    BY <1>3 DEF Forwarding!DeleteCommit
  <2>2. DOMAIN op' = Requests /\ \A q \in Requests : MappingLocals(op'[q])
    BY <2>1, MappingFinished
  <2> QED BY <2>1, <2>2 DEF MappingStep, MappingTypes, Forwarding!TypeOK
<1> QED BY <1>1, <1>2, <1>3 DEF Forwarding!Delete

LEMMA MappingsStart == Forwarding!Init => MappingTypes
<1>1. MappingLocals(Forwarding!Idle)
  BY DEF Forwarding!Idle, MappingLocals, MappingFields, Loaded, Wanting
<1>2. ASSUME Forwarding!Init PROVE \A r \in Requests : op[r] = Forwarding!Idle
  BY <1>2 DEF Forwarding!Init
<1>3. Forwarding!Init => Forwarding!TypeOK
  BY DEF Forwarding!Init, Forwarding!TypeOK
<1> QED BY <1>1, <1>2, <1>3 DEF MappingTypes

LEMMA MappingsStep ==
  ASSUME MappingTypes, [Forwarding!Next]_(Forwarding!vars) PROVE MappingStep
<1>1. CASE Forwarding!Next
  BY <1>1, CreateMapping, UpdateMapping, DeleteMapping DEF Forwarding!Next
<1>2. CASE UNCHANGED Forwarding!vars
  BY <1>2 DEF Forwarding!vars, MappingStep, MappingTypes, Forwarding!TypeOK
<1> QED BY <1>1, <1>2

LEMMA MappingsTyped == Forwarding!Spec => []MappingTypes
<1>1. MappingTypes /\ [Forwarding!Next]_(Forwarding!vars) => MappingTypes'
  BY MappingsStep DEF MappingStep
<1> QED BY <1>1, MappingsStart, PTL DEF Forwarding!Spec

LEMMA SubnetsKept == Forwarding!Spec => Forwarding!SubnetKept
<1>1. MappingTypes /\ [Forwarding!Next]_(Forwarding!vars) =>
        [\A k \in DOMAIN mappings \intersect DOMAIN mappings' :
           mappings'[k].subnet = mappings[k].subnet]_(Forwarding!vars)
  BY MappingsStep DEF MappingStep
<1> QED BY <1>1, MappingsTyped, PTL DEF Forwarding!Spec, Forwarding!SubnetKept

-----------------------------------------------------------------------------
(* Notifications.  What a delivery keeps about itself.                      *)
TaskFields == {"pc", "via", "event", "kind", "loaded", "left", "sent", "gone",
               "closed", "detached", "expired", "several", "reply"}

First(S) == Notifying!Lowest(S)

Matching(task) == Notifying!MatchingRules(task)

TaskTypes(task) ==
  /\ DOMAIN task = TaskFields
  /\ task.event \in Events
  /\ DOMAIN task.loaded \subseteq Notifying!RuleIds
  /\ task.left \subseteq DOMAIN task.loaded /\ task.sent \subseteq DOMAIN task.loaded
  /\ task.detached \in BOOLEAN /\ task.expired \in BOOLEAN /\ task.several \in BOOLEAN

(* A delivery for the journal has served what it has passed, until a record *)
(* expires the rules: then it has served the first and is at its end.       *)
JournalServes(task) == task.via = "journal" =>
  /\ task.pc = "next" /\ ~task.expired =>
       /\ task.sent = Matching(task) \ task.left
       /\ ~task.detached => Matching(task) \subseteq task.left
  /\ task.pc = "record" =>
       /\ task.sent = (Matching(task) \ task.left) \union {First(task.left)}
       /\ First(task.left) \in Matching(task)
       /\ ~task.detached => Matching(task) \subseteq task.left
  /\ task.pc = "next" /\ task.expired =>
       ~task.detached /\ Matching(task) # {} /\ task.sent = {First(Matching(task))}
  /\ task.pc = "over" =>
       task.sent = IF task.detached \/ Matching(task) = {} THEN Matching(task)
                   ELSE {First(Matching(task))}

Many(S) == \E a, b \in S : a # b

(* A delivery of the VPN handler passes no rule over, so that it dies in    *)
(* the loop for `create' exactly if there are several.                      *)
VpnServes(task) == task.via # "journal" =>
  /\ ~task.detached
  /\ task.via # "ok" => task.event = "failure"
  /\ task.event \in {"create", "failure"}
  /\ task.via = "ok" /\ task.event = "failure" => task.several
  /\ task.event = "create" /\ task.pc = "load" => ~task.several
  /\ task.event = "create" /\ task.pc \in {"next", "record"} =>
       /\ task.several <=> Many(DOMAIN task.loaded)
       /\ ~task.expired => task.left = DOMAIN task.loaded
       /\ task.expired => \E k \in DOMAIN task.loaded : task.left = DOMAIN task.loaded \ {k}
  /\ task.pc = "over" => (task.reply = "success" <=> task.via = "ok" /\ ~task.several)

TaskInv(task) ==
  /\ TaskTypes(task) /\ JournalServes(task) /\ VpnServes(task)
  /\ task.pc = "record" => task.left # {} /\ ~task.expired

LEMMA FirstIs ==
  ASSUME NEW S \in SUBSET Notifying!RuleIds, S # {}
  PROVE  First(S) \in S /\ \A m \in S : First(S) <= m
<1>1. S \in SUBSET Nat
  BY DEF Notifying!RuleIds
<1> QED BY <1>1, Least DEF First, Notifying!Lowest

LEMMA FirstOnly ==
  ASSUME NEW S \in SUBSET Notifying!RuleIds, NEW k \in S, \A m \in S : k <= m
  PROVE  First(S) = k
<1>1. PICK f \in S : f = First(S) /\ f <= k
  BY FirstIs
<1>2. S \in SUBSET Nat
  BY DEF Notifying!RuleIds
<1>3. f \in Nat /\ k \in Nat /\ k <= f
  BY <1>2
<1> QED BY <1>1, <1>3

LEMMA MatchingIn ==
  ASSUME NEW task, TaskTypes(task)
  PROVE  Matching(task) \subseteq DOMAIN task.loaded
BY DEF Matching, Notifying!MatchingRules

LEMMA MatchingSame ==
  ASSUME NEW old, NEW new, new.via = old.via, new.kind = old.kind, new.loaded = old.loaded
  PROVE  Matching(new) = Matching(old)
BY DEF Matching, Notifying!MatchingRules, Notifying!Matches

(* What one step of a delivery keeps of it, action by action.               *)
LEMMA TaskClosed ==
  ASSUME NEW old, NEW new, TaskInv(old), DOMAIN new = TaskFields,
         old.via = "journal", old.pc \notin {"over", "lost"},
         new.detached = (old.pc # "load" /\ ~old.expired),
         new.pc = old.pc, new.via = old.via, new.event = old.event, new.kind = old.kind,
         new.loaded = old.loaded, new.left = old.left, new.sent = old.sent,
         new.expired = old.expired, new.several = old.several
  PROVE  TaskInv(new)
<1>1. TaskTypes(new)
  BY DEF TaskInv, TaskTypes
<1>2. Matching(new) = Matching(old)
  BY MatchingSame
<1>3. JournalServes(new)
  BY <1>2 DEF TaskInv, TaskTypes, JournalServes
<1>4. VpnServes(new)
  BY DEF VpnServes
<1> QED BY <1>1, <1>3, <1>4 DEF TaskInv

LEMMA TaskLoaded ==
  ASSUME NEW old, NEW new, TaskInv(old), DOMAIN new = TaskFields,
         old.pc = "load", new.pc = "next",
         NEW found \in SUBSET Notifying!RuleIds,
         DOMAIN new.loaded = found, new.left = found, new.sent = {}, ~new.expired,
         new.expired \in BOOLEAN,
         new.several = (old.several \/ Many(found)),
         new.via = old.via, new.event = old.event, new.detached = old.detached
  PROVE  TaskInv(new)
<1>1. TaskTypes(new)
  BY DEF TaskInv, TaskTypes
<1>2. Matching(new) \subseteq found
  BY <1>1, MatchingIn
<1>3. JournalServes(new)
  BY <1>2 DEF JournalServes
<1>4. VpnServes(new)
  BY DEF TaskInv, TaskTypes, VpnServes, Many
<1> QED BY <1>1, <1>3, <1>4 DEF TaskInv

LEMMA TaskSkips ==
  ASSUME NEW old, NEW new, TaskInv(old), DOMAIN new = TaskFields,
         old.pc = "next", new.pc = "next", ~old.expired, old.left # {},
         ~Notifying!Matches(old, old.loaded[First(old.left)]),
         new.left = old.left \ {First(old.left)},
         new.via = old.via, new.event = old.event, new.kind = old.kind,
         new.loaded = old.loaded, new.sent = old.sent, new.detached = old.detached,
         new.expired = old.expired, new.several = old.several
  PROVE  TaskInv(new)
<1>1. TaskTypes(new)
  BY DEF TaskInv, TaskTypes
<1>2. Matching(new) = Matching(old)
  BY MatchingSame
<1>3. First(old.left) \notin Matching(old)
  BY DEF Matching, Notifying!MatchingRules
<1>4. JournalServes(new)
  BY <1>2, <1>3 DEF TaskInv, TaskTypes, JournalServes
<1>5. new.via = "journal"
  BY DEF Notifying!Matches
<1>6. VpnServes(new)
  BY <1>5 DEF VpnServes
<1> QED BY <1>1, <1>4, <1>6 DEF TaskInv

LEMMA TaskDelivers ==
  ASSUME NEW old, NEW new, TaskInv(old), DOMAIN new = TaskFields,
         old.pc = "next", new.pc = "record", ~old.expired, old.left # {},
         Notifying!Matches(old, old.loaded[First(old.left)]),
         new.sent = old.sent \union {First(old.left)},
         new.via = old.via, new.event = old.event, new.kind = old.kind,
         new.loaded = old.loaded, new.left = old.left, new.detached = old.detached,
         new.expired = old.expired, new.several = old.several
  PROVE  TaskInv(new)
<1>1. First(old.left) \in old.left
  BY FirstIs DEF TaskInv, TaskTypes
<1>2. TaskTypes(new)
  BY <1>1 DEF TaskInv, TaskTypes
<1>3. Matching(new) = Matching(old)
  BY MatchingSame
<1>4. First(old.left) \in Matching(old)
  BY <1>1 DEF TaskInv, TaskTypes, Matching, Notifying!MatchingRules
<1>5. JournalServes(new)
  BY <1>3, <1>4 DEF TaskInv, TaskTypes, JournalServes
<1>6. VpnServes(new)
  BY DEF TaskInv, TaskTypes, VpnServes
<1> QED BY <1>2, <1>5, <1>6 DEF TaskInv

LEMMA TaskRecords ==
  ASSUME NEW old, NEW new, TaskInv(old), DOMAIN new = TaskFields,
         old.pc = "record", new.pc = "next",
         new.left = old.left \ {First(old.left)},
         new.expired = ~old.detached,
         new.via = old.via, new.event = old.event, new.kind = old.kind,
         new.loaded = old.loaded, new.sent = old.sent, new.detached = old.detached,
         new.several = old.several
  PROVE  TaskInv(new)
<1>1. PICK k : k = First(old.left)
  OBVIOUS
<1>2. k \in old.left /\ \A m \in old.left : k <= m
  BY <1>1, FirstIs DEF TaskInv, TaskTypes
<1>3. TaskTypes(new)
  BY DEF TaskInv, TaskTypes
<1>4. PICK M \in SUBSET Notifying!RuleIds : M = Matching(old) /\ M = Matching(new)
  BY MatchingSame, MatchingIn DEF TaskInv, TaskTypes
<1>5. JournalServes(new)
  <2> SUFFICES ASSUME new.via = "journal" PROVE JournalServes(new)
    BY DEF JournalServes
  <2>1. /\ old.sent = (M \ old.left) \union {k} /\ k \in M
        /\ ~old.detached => M \subseteq old.left
    BY <1>1, <1>4 DEF TaskInv, JournalServes
  <2>2. CASE old.detached
    BY <1>1, <1>2, <1>4, <2>1, <2>2 DEF JournalServes, TaskInv, TaskTypes
  <2>3. CASE ~old.detached
    <3>1. First(M) = k
      BY <1>2, <2>1, <2>3, FirstOnly
    <3>2. new.sent = {k} /\ M # {}
      BY <2>1, <2>3
    <3> QED BY <1>4, <2>3, <3>1, <3>2 DEF JournalServes
  <2> QED BY <2>2, <2>3
<1>6. VpnServes(new)
  BY <1>1, <1>2 DEF TaskInv, TaskTypes, VpnServes
<1> QED BY <1>3, <1>5, <1>6 DEF TaskInv

LEMMA TaskEnds ==
  ASSUME NEW old, NEW new, TaskInv(old), DOMAIN new = TaskFields,
         old.pc = "next", new.pc = "over", old.left = {},
         new.reply = Notifying!Reply(old.event),
         new.via = old.via, new.event = old.event, new.kind = old.kind,
         new.loaded = old.loaded, new.left = old.left, new.sent = old.sent,
         new.detached = old.detached, new.expired = old.expired, new.several = old.several
  PROVE  TaskInv(new)
<1>1. TaskTypes(new)
  BY DEF TaskInv, TaskTypes
<1>2. Matching(new) = Matching(old)
  BY MatchingSame
<1>3. JournalServes(new)
  BY <1>2 DEF TaskInv, TaskTypes, JournalServes
<1>4. VpnServes(new)
  <2> SUFFICES ASSUME new.via # "journal" PROVE VpnServes(new)
    BY DEF VpnServes
  <2>1. CASE old.event = "create"
    <3>1. ~Many(DOMAIN old.loaded)
      BY <2>1 DEF TaskInv, TaskTypes, VpnServes, Many
    <3>2. ~old.several
      BY <2>1, <3>1 DEF TaskInv, VpnServes
    <3> QED BY <2>1, <3>2 DEF TaskInv, VpnServes, Notifying!Reply
  <2>2. CASE old.event = "failure"
    BY <2>2 DEF TaskInv, VpnServes, Notifying!Reply
  <2> QED BY <2>1, <2>2 DEF TaskInv, VpnServes
<1> QED BY <1>1, <1>3, <1>4 DEF TaskInv

(* The second loop of create_vpn, after the first one died.                 *)
LEMMA TaskRetries ==
  ASSUME NEW old, NEW new, TaskInv(old), DOMAIN new = TaskFields,
         old.pc = "next", old.left # {}, old.expired,
         old.via = "ok", old.event = "create", new.pc = "load", new.event = "failure",
         new.via = old.via,
         new.loaded = old.loaded, new.left = old.left, new.sent = old.sent,
         new.detached = old.detached, new.expired = old.expired, new.several = old.several
  PROVE  TaskInv(new)
<1>1. TaskTypes(new)
  BY ServiceAssumption DEF TaskInv, TaskTypes
<1>2. JournalServes(new)
  BY DEF JournalServes
<1>3. Many(DOMAIN old.loaded)
  BY DEF TaskInv, TaskTypes, VpnServes, Many
<1>4. VpnServes(new)
  BY <1>3 DEF TaskInv, TaskTypes, VpnServes
<1> QED BY <1>1, <1>2, <1>4 DEF TaskInv

LEMMA TaskDies ==
  ASSUME NEW old, NEW new, TaskInv(old), DOMAIN new = TaskFields,
         old.pc = "next", old.left # {}, old.expired,
         old.via = "journal" \/ old.event = "failure",
         new.pc = "over", new.reply = "server error",
         new.via = old.via, new.event = old.event, new.kind = old.kind,
         new.loaded = old.loaded, new.left = old.left, new.sent = old.sent,
         new.detached = old.detached, new.expired = old.expired, new.several = old.several
  PROVE  TaskInv(new)
<1>1. TaskTypes(new)
  BY DEF TaskInv, TaskTypes
<1>2. Matching(new) = Matching(old)
  BY MatchingSame
<1>3. JournalServes(new)
  BY <1>2 DEF TaskInv, TaskTypes, JournalServes
<1>4. VpnServes(new)
  BY DEF TaskInv, TaskTypes, VpnServes
<1> QED BY <1>1, <1>3, <1>4 DEF TaskInv

(* A delivery that starts, and one that a restart forgets.                  *)
LEMMA TaskStarts ==
  ASSUME NEW via, NEW event \in Events, NEW kind,
         via # "journal" => /\ via \in Answers
                            /\ event = IF via = "ok" THEN "create" ELSE "failure"
  PROVE  TaskInv(Notifying!Task(via, event, kind))
<1> DEFINE task == Notifying!Task(via, event, kind)
<1>1. /\ DOMAIN task = TaskFields /\ task.pc = "load" /\ task.via = via /\ task.event = event
      /\ DOMAIN task.loaded = {} /\ task.left = {} /\ task.sent = {}
      /\ task.detached = FALSE /\ task.expired = FALSE /\ task.several = FALSE
  BY DEF Notifying!Task, TaskFields
<1> HIDE DEF task
<1>2. TaskTypes(task)
  BY <1>1 DEF TaskTypes
<1>3. JournalServes(task)
  BY <1>1 DEF JournalServes
<1>4. VpnServes(task)
  BY <1>1 DEF VpnServes
<1>5. TaskInv(task)
  BY <1>1, <1>2, <1>3, <1>4 DEF TaskInv
<1> QED BY <1>5 DEF task

LEMMA TaskForgotten ==
  ASSUME NEW event \in Events
  PROVE  /\ TaskInv([Notifying!Task("journal", event, AnyKind) EXCEPT !.pc = "lost"])
         /\ [Notifying!Task("journal", event, AnyKind) EXCEPT !.pc = "lost"].pc = "lost"
<1> DEFINE task == [Notifying!Task("journal", event, AnyKind) EXCEPT !.pc = "lost"]
<1>1. /\ DOMAIN task = TaskFields /\ task.pc = "lost" /\ task.via = "journal"
      /\ task.event = event
      /\ DOMAIN task.loaded = {} /\ task.left = {} /\ task.sent = {}
      /\ task.detached = FALSE /\ task.expired = FALSE /\ task.several = FALSE
  BY DEF Notifying!Task, TaskFields
<1> HIDE DEF task
<1>2. TaskInv(task)
  BY <1>1 DEF TaskInv, TaskTypes, JournalServes, VpnServes
<1> QED BY <1>1, <1>2 DEF task

(* What TaskInv is about does not include the rules known to be gone.       *)
LEMMA TaskUnmoved ==
  ASSUME NEW old, NEW new, TaskInv(old), DOMAIN new = DOMAIN old, new.pc = old.pc,
         new.via = old.via, new.event = old.event, new.kind = old.kind,
         new.loaded = old.loaded, new.left = old.left, new.sent = old.sent,
         new.detached = old.detached, new.expired = old.expired, new.several = old.several,
         new.reply = old.reply
  PROVE  TaskInv(new)
<1>1. Matching(new) = Matching(old)
  BY MatchingSame
<1>2. TaskTypes(new)
  BY DEF TaskInv, TaskTypes
<1>3. JournalServes(new)
  BY <1>1 DEF TaskInv, JournalServes
<1>4. VpnServes(new)
  BY DEF TaskInv, VpnServes
<1> QED BY <1>2, <1>3, <1>4 DEF TaskInv

(* Rows of the history that no removal overlapped are of a rule that is     *)
(* still there,                                                             *)
OwnRows ==
  \A row \in history \ stray :
    /\ row.rule \in DOMAIN notificationRules
    /\ notificationRules[row.rule].event = row.event

(* a delivery knows its rules as they are, except those it knows to be gone,*)
KnowsRules(task) ==
  task.pc \in {"next", "record"} =>
    \A k \in DOMAIN task.loaded :
      /\ task.loaded[k].event = task.event
      /\ k \notin task.gone =>
           k \in DOMAIN notificationRules /\ notificationRules[k] = task.loaded[k]

(* and a removal has found all the rows that will go with its rule.         *)
FindsRows(r) ==
  removal[r].pc = "commit" =>
    {row \in history \ stray : row.rule = removal[r].id} \subseteq removal[r].found

DeliveryTypes ==
  /\ Notifying!TypeOK
  /\ \A r \in Removers : DOMAIN removal[r] = {"pc", "id", "found"}

Deliveries == \A t \in DOMAIN tasks : TaskInv(tasks[t])

Records ==
  /\ OwnRows
  /\ \A t \in DOMAIN tasks : KnowsRules(tasks[t])
  /\ \A r \in Removers : FindsRows(r)

NotifyInv == DeliveryTypes /\ Deliveries /\ Records

(* A step that gives one delivery a new record.                             *)
LEMMA TaskSet ==
  ASSUME NotifyInv, NEW t \in DOMAIN tasks, NEW task,
         tasks' = [tasks EXCEPT ![t] = task], TaskInv(task)
  PROVE  /\ DOMAIN tasks' = DOMAIN tasks
         /\ \A s \in DOMAIN tasks : tasks'[s] = IF s = t THEN task ELSE tasks[s]
         /\ Deliveries'
<1>1. /\ DOMAIN tasks' = DOMAIN tasks
      /\ \A s \in DOMAIN tasks : tasks'[s] = IF s = t THEN task ELSE tasks[s]
  OBVIOUS
<1> QED BY <1>1 DEF NotifyInv, Deliveries

(* The type invariant follows from that of the deliveries.                  *)
LEMMA TasksTyped ==
  ASSUME Deliveries', DOMAIN tasks' \subseteq Notifying!TaskIds
  PROVE  \A t \in DOMAIN tasks' :
           /\ tasks'[t].event \in Events /\ tasks'[t].left \subseteq DOMAIN tasks'[t].loaded
           /\ tasks'[t].sent \subseteq DOMAIN tasks'[t].loaded
BY DEF Deliveries, TaskInv, TaskTypes

(* A step of one delivery that touches no table.                            *)
LEMMA TaskOnly ==
  ASSUME NotifyInv, NEW t \in DOMAIN tasks, NEW task,
         tasks' = [tasks EXCEPT ![t] = task], TaskInv(task), KnowsRules(task),
         UNCHANGED <<notificationRules, history, removal, stray>>
  PROVE  NotifyInv'
<1>1. /\ DOMAIN tasks' = DOMAIN tasks
      /\ \A s \in DOMAIN tasks : tasks'[s] = IF s = t THEN task ELSE tasks[s]
      /\ Deliveries'
  BY TaskSet
<1>2. DeliveryTypes'
  BY <1>1, TasksTyped DEF NotifyInv, DeliveryTypes, Notifying!TypeOK
<1>3. ASSUME NEW s \in DOMAIN tasks PROVE KnowsRules(tasks[s])'
  <2>1. CASE s = t
    BY <1>1, <2>1 DEF KnowsRules
  <2>2. CASE s # t
    BY <1>1, <2>2 DEF NotifyInv, Records, KnowsRules
  <2> QED BY <2>1, <2>2
<1>4. Records'
  BY <1>1, <1>3 DEF NotifyInv, Records, OwnRows, FindsRows
<1> QED BY <1>1, <1>2, <1>4 DEF NotifyInv

LEMMA CloseStep ==
  ASSUME NotifyInv, NEW t \in DOMAIN tasks, Notifying!Close(t) PROVE NotifyInv'
<1> DEFINE task == [tasks[t] EXCEPT !.closed = TRUE,
                      !.detached = tasks[t].pc # "load" /\ ~tasks[t].expired]
<1>1. DOMAIN tasks[t] = TaskFields /\ TaskInv(tasks[t]) /\ KnowsRules(tasks[t])
  BY DEF NotifyInv, Deliveries, TaskInv, TaskTypes, Records
<1>2. /\ DOMAIN task = TaskFields
      /\ task.detached = (tasks[t].pc # "load" /\ ~tasks[t].expired)
      /\ task.pc = tasks[t].pc /\ task.via = tasks[t].via /\ task.event = tasks[t].event
      /\ task.kind = tasks[t].kind /\ task.loaded = tasks[t].loaded
      /\ task.left = tasks[t].left /\ task.sent = tasks[t].sent /\ task.gone = tasks[t].gone
      /\ task.expired = tasks[t].expired /\ task.several = tasks[t].several
  BY <1>1 DEF TaskFields
<1>3. /\ tasks' = [tasks EXCEPT ![t] = task]
      /\ UNCHANGED <<notificationRules, history, removal, stray>>
      /\ tasks[t].via = "journal" /\ tasks[t].pc \notin {"over", "lost"}
  BY DEF Notifying!Close
<1> HIDE DEF task
<1>4. TaskInv(task)
  BY <1>1, <1>2, <1>3, TaskClosed
<1>5. KnowsRules(task)
  BY <1>1, <1>2 DEF KnowsRules
<1> QED BY <1>3, <1>4, <1>5, TaskOnly

LEMMA LoadStep ==
  ASSUME NotifyInv, NEW t \in DOMAIN tasks, Notifying!Load(t) PROVE NotifyInv'
<1> DEFINE found == {k \in DOMAIN notificationRules :
                       notificationRules[k].event = tasks[t].event}
           task == [tasks[t] EXCEPT !.pc = "next", !.left = found,
                      !.loaded = [k \in found |-> notificationRules[k]],
                      !.expired = FALSE, !.sent = {}, !.gone = {},
                      !.several = tasks[t].several \/ Many(found)]
<1>1. DOMAIN tasks[t] = TaskFields /\ TaskInv(tasks[t])
  BY DEF NotifyInv, Deliveries, TaskInv, TaskTypes
<1>2. /\ tasks' = [tasks EXCEPT ![t] = task] /\ tasks[t].pc = "load"
      /\ UNCHANGED <<notificationRules, history, removal, stray>>
  BY DEF Notifying!Load, Many
<1>3. /\ found \in SUBSET Notifying!RuleIds /\ found \subseteq DOMAIN notificationRules
      /\ \A k \in found : notificationRules[k].event = tasks[t].event
  BY DEF NotifyInv, DeliveryTypes, Notifying!TypeOK
<1> HIDE DEF found
<1>4. /\ DOMAIN task = TaskFields
      /\ task.pc = "next" /\ task.left = found /\ task.sent = {} /\ task.gone = {}
      /\ task.expired = FALSE
      /\ task.loaded = [k \in found |-> notificationRules[k]]
      /\ task.several = (tasks[t].several \/ Many(found))
      /\ task.via = tasks[t].via /\ task.event = tasks[t].event
      /\ task.detached = tasks[t].detached
  BY <1>1 DEF TaskFields
<1> HIDE DEF task
<1>5. DOMAIN task.loaded = found
  BY <1>4
<1>6. TaskInv(task)
  BY <1>1, <1>2, <1>3, <1>4, <1>5, TaskLoaded
<1>7. KnowsRules(task)
  BY <1>3, <1>4, <1>5 DEF KnowsRules
<1> QED BY <1>2, <1>6, <1>7, TaskOnly

LEMMA SkipStep ==
  ASSUME NotifyInv, NEW t \in DOMAIN tasks, Notifying!Skip(t) PROVE NotifyInv'
<1> DEFINE task == [tasks[t] EXCEPT !.left = @ \ {First(tasks[t].left)}]
<1>1. DOMAIN tasks[t] = TaskFields /\ TaskInv(tasks[t]) /\ KnowsRules(tasks[t])
  BY DEF NotifyInv, Deliveries, TaskInv, TaskTypes, Records
<1>2. /\ tasks' = [tasks EXCEPT ![t] = task]
      /\ UNCHANGED <<notificationRules, history, removal, stray>>
      /\ tasks[t].pc = "next" /\ ~tasks[t].expired /\ tasks[t].left # {}
      /\ ~Notifying!Matches(tasks[t], tasks[t].loaded[First(tasks[t].left)])
  BY DEF Notifying!Skip, First
<1>3. /\ DOMAIN task = TaskFields
      /\ task.left = tasks[t].left \ {First(tasks[t].left)}
      /\ task.pc = tasks[t].pc /\ task.via = tasks[t].via /\ task.event = tasks[t].event
      /\ task.kind = tasks[t].kind /\ task.loaded = tasks[t].loaded
      /\ task.sent = tasks[t].sent /\ task.gone = tasks[t].gone
      /\ task.detached = tasks[t].detached
      /\ task.expired = tasks[t].expired /\ task.several = tasks[t].several
  BY <1>1 DEF TaskFields
<1> HIDE DEF task
<1>4. TaskInv(task)
  BY <1>1, <1>2, <1>3, TaskSkips
<1>5. KnowsRules(task)
  BY <1>1, <1>3 DEF KnowsRules
<1> QED BY <1>2, <1>4, <1>5, TaskOnly

LEMMA DeliverStep ==
  ASSUME NotifyInv, NEW t \in DOMAIN tasks, Notifying!Deliver(t) PROVE NotifyInv'
<1> DEFINE task == [tasks[t] EXCEPT !.pc = "record", !.sent = @ \union {First(tasks[t].left)}]
<1>1. DOMAIN tasks[t] = TaskFields /\ TaskInv(tasks[t]) /\ KnowsRules(tasks[t])
  BY DEF NotifyInv, Deliveries, TaskInv, TaskTypes, Records
<1>2. /\ tasks' = [tasks EXCEPT ![t] = task]
      /\ UNCHANGED <<notificationRules, history, removal, stray>>
      /\ tasks[t].pc = "next" /\ ~tasks[t].expired /\ tasks[t].left # {}
      /\ Notifying!Matches(tasks[t], tasks[t].loaded[First(tasks[t].left)])
  BY DEF Notifying!Deliver, First
<1>3. /\ DOMAIN task = TaskFields
      /\ task.sent = tasks[t].sent \union {First(tasks[t].left)}
      /\ task.pc = "record" /\ task.via = tasks[t].via /\ task.event = tasks[t].event
      /\ task.kind = tasks[t].kind /\ task.loaded = tasks[t].loaded
      /\ task.left = tasks[t].left /\ task.gone = tasks[t].gone
      /\ task.detached = tasks[t].detached
      /\ task.expired = tasks[t].expired /\ task.several = tasks[t].several
  BY <1>1 DEF TaskFields
<1> HIDE DEF task
<1>4. TaskInv(task)
  BY <1>1, <1>2, <1>3, TaskDelivers
<1>5. KnowsRules(task)
  BY <1>1, <1>2, <1>3 DEF KnowsRules
<1> QED BY <1>2, <1>4, <1>5, TaskOnly

LEMMA EndStep ==
  ASSUME NotifyInv, NEW t \in DOMAIN tasks, Notifying!End(t) PROVE NotifyInv'
<1> DEFINE task == [tasks[t] EXCEPT !.pc = "over", !.reply = Notifying!Reply(tasks[t].event)]
<1>1. DOMAIN tasks[t] = TaskFields /\ TaskInv(tasks[t])
  BY DEF NotifyInv, Deliveries, TaskInv, TaskTypes
<1>2. /\ tasks' = [tasks EXCEPT ![t] = task]
      /\ UNCHANGED <<notificationRules, history, removal, stray>>
      /\ tasks[t].pc = "next" /\ tasks[t].left = {}
  BY DEF Notifying!End, Notifying!Over
<1>3. /\ DOMAIN task = TaskFields
      /\ task.pc = "over" /\ task.reply = Notifying!Reply(tasks[t].event)
      /\ task.via = tasks[t].via /\ task.event = tasks[t].event
      /\ task.kind = tasks[t].kind /\ task.loaded = tasks[t].loaded
      /\ task.left = tasks[t].left /\ task.sent = tasks[t].sent
      /\ task.detached = tasks[t].detached
      /\ task.expired = tasks[t].expired /\ task.several = tasks[t].several
  BY <1>1 DEF TaskFields
<1> HIDE DEF task
<1>4. TaskInv(task)
  BY <1>1, <1>2, <1>3, TaskEnds
<1>5. KnowsRules(task)
  BY <1>3 DEF KnowsRules
<1> QED BY <1>2, <1>4, <1>5, TaskOnly

LEMMA DieStep ==
  ASSUME NotifyInv, NEW t \in DOMAIN tasks, Notifying!Die(t) PROVE NotifyInv'
<1>1. DOMAIN tasks[t] = TaskFields /\ TaskInv(tasks[t])
  BY DEF NotifyInv, Deliveries, TaskInv, TaskTypes
<1>2. /\ UNCHANGED <<notificationRules, history, removal, stray>>
      /\ tasks[t].pc = "next" /\ tasks[t].left # {} /\ tasks[t].expired
  BY DEF Notifying!Die, Notifying!Over
<1>3. CASE /\ tasks[t].via = "ok" /\ tasks[t].event = "create"
           /\ tasks' = [tasks EXCEPT ![t].pc = "load", ![t].event = "failure"]
  <2> DEFINE task == [tasks[t] EXCEPT !.pc = "load", !.event = "failure"]
  <2>1. tasks' = [tasks EXCEPT ![t] = task]
    BY <1>3
  <2>2. /\ DOMAIN task = TaskFields
        /\ task.pc = "load" /\ task.event = "failure"
        /\ task.via = tasks[t].via /\ task.loaded = tasks[t].loaded
        /\ task.left = tasks[t].left /\ task.sent = tasks[t].sent
        /\ task.detached = tasks[t].detached
        /\ task.expired = tasks[t].expired /\ task.several = tasks[t].several
    BY <1>1 DEF TaskFields
  <2> HIDE DEF task
  <2>3. TaskInv(task)
    BY <1>1, <1>2, <1>3, <2>2, TaskRetries
  <2>4. KnowsRules(task)
    BY <2>2 DEF KnowsRules
  <2> QED BY <1>2, <2>1, <2>3, <2>4, TaskOnly
<1>4. CASE /\ tasks[t].via = "journal" \/ tasks[t].event = "failure"
           /\ tasks' = [tasks EXCEPT ![t].pc = "over", ![t].reply = "server error"]
  <2> DEFINE task == [tasks[t] EXCEPT !.pc = "over", !.reply = "server error"]
  <2>1. tasks' = [tasks EXCEPT ![t] = task]
    BY <1>4
  <2>2. /\ DOMAIN task = TaskFields
        /\ task.pc = "over" /\ task.reply = "server error"
        /\ task.via = tasks[t].via /\ task.event = tasks[t].event
        /\ task.kind = tasks[t].kind /\ task.loaded = tasks[t].loaded
        /\ task.left = tasks[t].left /\ task.sent = tasks[t].sent
        /\ task.detached = tasks[t].detached
        /\ task.expired = tasks[t].expired /\ task.several = tasks[t].several
    BY <1>1 DEF TaskFields
  <2> HIDE DEF task
  <2>3. TaskInv(task)
    BY <1>1, <1>2, <1>4, <2>2, TaskDies
  <2>4. KnowsRules(task)
    BY <2>2 DEF KnowsRules
  <2> QED BY <1>2, <2>1, <2>3, <2>4, TaskOnly
<1> QED BY <1>3, <1>4 DEF Notifying!Die, Notifying!Over

(* A delivery records what it has sent.                                     *)
LEMMA RecordStep ==
  ASSUME NotifyInv, NEW t \in DOMAIN tasks, Notifying!Record(t) PROVE NotifyInv'
<1> DEFINE k == First(tasks[t].left)
           row == [rule |-> k, task |-> t, event |-> tasks[t].event]
           task == [tasks[t] EXCEPT !.pc = "next", !.left = @ \ {k},
                                    !.expired = ~tasks[t].detached]
<1>1. DOMAIN tasks[t] = TaskFields /\ TaskInv(tasks[t]) /\ KnowsRules(tasks[t])
  BY DEF NotifyInv, Deliveries, TaskInv, TaskTypes, Records
<1>2. /\ tasks' = [tasks EXCEPT ![t] = task]
      /\ UNCHANGED <<notificationRules, removal>>
      /\ history' = history \union {row}
      /\ stray' = IF k \in tasks[t].gone \/ Notifying!Removing(k) # {}
                  THEN stray \union {row} ELSE stray
      /\ tasks[t].pc = "record"
  BY DEF Notifying!Record, First
<1>3. k \in tasks[t].left /\ k \in DOMAIN tasks[t].loaded /\ k \in Notifying!RuleIds
  BY <1>1, <1>2, FirstIs DEF TaskInv, TaskTypes
<1> HIDE DEF k
<1>4. /\ DOMAIN task = TaskFields
      /\ task.pc = "next" /\ task.left = tasks[t].left \ {k}
      /\ task.expired = ~tasks[t].detached
      /\ task.via = tasks[t].via /\ task.event = tasks[t].event
      /\ task.kind = tasks[t].kind /\ task.loaded = tasks[t].loaded
      /\ task.sent = tasks[t].sent /\ task.gone = tasks[t].gone
      /\ task.detached = tasks[t].detached /\ task.several = tasks[t].several
  BY <1>1 DEF TaskFields
<1>5. row.rule = k /\ row.event = tasks[t].event /\ row \in Notifying!Row
  <2>1. t \in Notifying!TaskIds /\ tasks[t].event \in Events
    BY <1>1 DEF NotifyInv, DeliveryTypes, Notifying!TypeOK
  <2> QED BY <1>3, <2>1 DEF Notifying!Row
<1> HIDE DEF task, row
<1>6. TaskInv(task)
  BY <1>1, <1>2, <1>4, TaskRecords DEF k
<1>7. KnowsRules(task)
  BY <1>1, <1>2, <1>4 DEF KnowsRules
<1>8. /\ DOMAIN tasks' = DOMAIN tasks
      /\ \A s \in DOMAIN tasks : tasks'[s] = IF s = t THEN task ELSE tasks[s]
      /\ Deliveries'
  BY <1>2, <1>6, TaskSet
<1>9. DeliveryTypes'
  <2>1. history' \subseteq Notifying!Row /\ stray' \subseteq history'
    BY <1>2, <1>5 DEF NotifyInv, DeliveryTypes, Notifying!TypeOK
  <2> QED BY <1>2, <1>8, <2>1, TasksTyped DEF NotifyInv, DeliveryTypes, Notifying!TypeOK
<1>10. ASSUME NEW s \in DOMAIN tasks PROVE KnowsRules(tasks[s])'
  <2>1. CASE s = t
    BY <1>2, <1>7, <1>8, <2>1 DEF KnowsRules
  <2>2. CASE s # t
    BY <1>2, <1>8, <2>2 DEF NotifyInv, Records, KnowsRules
  <2> QED BY <2>1, <2>2
<1>11. OwnRows'
  <2> SUFFICES ASSUME NEW h \in history' \ stray'
               PROVE  /\ h.rule \in DOMAIN notificationRules
                      /\ notificationRules[h.rule].event = h.event
    BY <1>2 DEF OwnRows
  <2>1. CASE h = row
    <3>1. k \notin tasks[t].gone
      BY <1>2, <2>1
    <3> QED BY <1>1, <1>2, <1>3, <1>5, <2>1, <3>1 DEF KnowsRules
  <2>2. CASE h # row
    <3>1. h \in history \ stray
      BY <1>2, <2>2
    <3> QED BY <3>1 DEF NotifyInv, Records, OwnRows
  <2> QED BY <2>1, <2>2
<1>12. ASSUME NEW r \in Removers PROVE FindsRows(r)'
  <2> SUFFICES ASSUME removal[r].pc = "commit", NEW h \in history' \ stray',
                      h.rule = removal[r].id
               PROVE  h \in removal[r].found
    BY <1>2 DEF FindsRows
  <2>1. h # row
    BY <1>2, <1>5 DEF Notifying!Removing
  <2>2. h \in history \ stray
    BY <1>2, <2>1
  <2> QED BY <2>2 DEF NotifyInv, Records, FindsRows
<1> QED BY <1>8, <1>9, <1>10, <1>11, <1>12 DEF NotifyInv, Records

(* The rules, and what a removal does to them.                              *)
LEMMA AddRuleStep ==
  ASSUME NotifyInv, NEW event \in Events, NEW wants \in Kinds \union {AnyKind},
         Notifying!AddRule(event, wants)
  PROVE  NotifyInv'
<1>1. PICK rule \in Notifying!Rule, n \in Notifying!RuleIds :
        /\ Notifying!FreshId(notificationRules, n)
        /\ notificationRules' = Notifying!Put(notificationRules, n, rule)
  <2>1. PICK rule : rule = [event |-> event, wants |-> wants]
    OBVIOUS
  <2>2. rule \in Notifying!Rule
    BY <2>1 DEF Notifying!Rule
  <2>3. \E n \in Notifying!RuleIds :
          /\ Notifying!FreshId(notificationRules, n)
          /\ notificationRules' = Notifying!Put(notificationRules, n, rule)
    BY <2>1 DEF Notifying!AddRule
  <2> QED BY <2>2, <2>3
<1>2. UNCHANGED <<history, tasks, removal, stray>>
  BY DEF Notifying!AddRule
<1>3. n \notin DOMAIN notificationRules
  BY <1>1 DEF Notifying!FreshId, Notifying!RuleIds
<1>4. /\ DOMAIN notificationRules' = DOMAIN notificationRules \union {n}
      /\ \A k \in DOMAIN notificationRules' :
           notificationRules'[k] = IF k = n THEN rule ELSE notificationRules[k]
  BY <1>1 DEF Notifying!Put
<1>5. /\ DOMAIN notificationRules' \subseteq Notifying!RuleIds
      /\ notificationRules' \in [DOMAIN notificationRules' -> Notifying!Rule]
  <2> HIDE DEF Notifying!RuleIds, Notifying!Rule
  <2> QED BY <1>1 DEF Notifying!Put, NotifyInv, DeliveryTypes, Notifying!TypeOK
<1>6. DeliveryTypes' /\ Deliveries'
  BY <1>2, <1>5 DEF NotifyInv, DeliveryTypes, Notifying!TypeOK, Deliveries
<1>7. OwnRows' /\ \A r \in Removers : FindsRows(r)'
  BY <1>2, <1>3, <1>4 DEF NotifyInv, Records, OwnRows, FindsRows
<1>8. ASSUME NEW t \in DOMAIN tasks PROVE KnowsRules(tasks[t])'
  BY <1>2, <1>3, <1>4 DEF NotifyInv, Records, KnowsRules
<1> QED BY <1>2, <1>6, <1>7, <1>8 DEF NotifyInv, Records

LEMMA RemoveLoadStep ==
  ASSUME NotifyInv, NEW r \in Removers, NEW id \in Notifying!RuleIds,
         Notifying!RemoveLoad(r, id)
  PROVE  NotifyInv'
<1> DEFINE slot == [pc |-> "commit", id |-> id, found |-> {h \in history : h.rule = id}]
<1>1. /\ removal' = [removal EXCEPT ![r] = slot]
      /\ UNCHANGED <<notificationRules, history, tasks, stray>>
  BY DEF Notifying!RemoveLoad
<1>2. /\ DOMAIN slot = {"pc", "id", "found"} /\ slot.id = id
      /\ slot.found = {h \in history : h.rule = id}
  OBVIOUS
<1> HIDE DEF slot
<1>3. /\ DOMAIN removal' = Removers
      /\ \A q \in Removers : removal'[q] = IF q = r THEN slot ELSE removal[q]
  BY <1>1 DEF NotifyInv, DeliveryTypes, Notifying!TypeOK
<1>4. DeliveryTypes' /\ Deliveries'
  BY <1>1, <1>2, <1>3 DEF NotifyInv, DeliveryTypes, Notifying!TypeOK, Deliveries
<1>5. ASSUME NEW q \in Removers PROVE FindsRows(q)'
  BY <1>1, <1>2, <1>3 DEF NotifyInv, Records, FindsRows
<1>6. OwnRows' /\ \A t \in DOMAIN tasks : KnowsRules(tasks[t])'
  BY <1>1 DEF NotifyInv, Records, OwnRows, KnowsRules
<1> QED BY <1>1, <1>4, <1>5, <1>6 DEF NotifyInv, Records

(* A rule goes with the rows the removal has found; deliveries that have it *)
(* loaded go on.                                                            *)
LEMMA RemoveCommitStep ==
  ASSUME NotifyInv, NEW r \in Removers, Notifying!RemoveCommit(r) PROVE NotifyInv'
<1>1. PICK id, found : id = removal[r].id /\ found = removal[r].found
  OBVIOUS
<1>2. /\ removal[r].pc = "commit"
      /\ notificationRules' = [k \in DOMAIN notificationRules \ {id} |-> notificationRules[k]]
      /\ history' = history \ found /\ stray' = stray \ found
      /\ removal' = [removal EXCEPT ![r] = Notifying!Idle]
  BY <1>1 DEF Notifying!RemoveCommit
<1>3. /\ DOMAIN tasks' = DOMAIN tasks
      /\ \A t \in DOMAIN tasks :
           tasks'[t] = IF tasks[t].pc # "over" /\ id \in DOMAIN tasks[t].loaded
                       THEN [tasks[t] EXCEPT !.gone = @ \union {id}] ELSE tasks[t]
  BY <1>1 DEF Notifying!RemoveCommit, Notifying!Outlive
<1>4. ASSUME NEW t \in DOMAIN tasks
      PROVE  /\ DOMAIN tasks'[t] = DOMAIN tasks[t]
             /\ tasks[t].pc # "over" /\ id \in DOMAIN tasks[t].loaded =>
                  tasks'[t].gone = tasks[t].gone \union {id}
             /\ ~(tasks[t].pc # "over" /\ id \in DOMAIN tasks[t].loaded) =>
                  tasks'[t].gone = tasks[t].gone
             /\ \A f \in TaskFields \ {"gone"} : tasks'[t][f] = tasks[t][f]
  <2>1. DOMAIN tasks[t] = TaskFields
    BY DEF NotifyInv, Deliveries, TaskInv, TaskTypes
  <2> QED BY <1>3, <2>1 DEF TaskFields
<1>5. ASSUME NEW t \in DOMAIN tasks
      PROVE  /\ DOMAIN tasks'[t] = DOMAIN tasks[t]
             /\ tasks'[t].pc = tasks[t].pc /\ tasks'[t].via = tasks[t].via
             /\ tasks'[t].event = tasks[t].event /\ tasks'[t].kind = tasks[t].kind
             /\ tasks'[t].loaded = tasks[t].loaded /\ tasks'[t].left = tasks[t].left
             /\ tasks'[t].sent = tasks[t].sent /\ tasks'[t].detached = tasks[t].detached
             /\ tasks'[t].expired = tasks[t].expired /\ tasks'[t].several = tasks[t].several
             /\ tasks'[t].reply = tasks[t].reply
  BY <1>4 DEF TaskFields
<1>6. Deliveries'
  <2> SUFFICES ASSUME NEW t \in DOMAIN tasks PROVE TaskInv(tasks'[t])
    BY <1>3 DEF Deliveries
  <2>1. TaskInv(tasks[t])
    BY DEF NotifyInv, Deliveries
  <2> QED BY <1>5, <2>1, TaskUnmoved
<1>7. /\ DOMAIN removal' = Removers
      /\ removal'[r] = Notifying!Idle
      /\ \A q \in Removers \ {r} : removal'[q] = removal[q]
  BY <1>2 DEF NotifyInv, DeliveryTypes, Notifying!TypeOK
<1>8. /\ DOMAIN Notifying!Idle = {"pc", "id", "found"} /\ Notifying!Idle.pc = "idle"
  BY DEF Notifying!Idle
<1>9. /\ DOMAIN notificationRules' \subseteq Notifying!RuleIds
      /\ notificationRules' \in [DOMAIN notificationRules' -> Notifying!Rule]
  <2> HIDE DEF Notifying!RuleIds, Notifying!Rule
  <2> QED BY <1>2 DEF NotifyInv, DeliveryTypes, Notifying!TypeOK
<1>10. DeliveryTypes'
  <2>1. history' \subseteq Notifying!Row /\ stray' \subseteq history'
    BY <1>2 DEF NotifyInv, DeliveryTypes, Notifying!TypeOK
  <2>2. DOMAIN tasks' \subseteq Notifying!TaskIds
    BY <1>3 DEF NotifyInv, DeliveryTypes, Notifying!TypeOK
  <2>3. \A q \in Removers : DOMAIN removal'[q] = {"pc", "id", "found"}
    BY <1>7, <1>8 DEF NotifyInv, DeliveryTypes
  <2> QED BY <1>6, <1>7, <1>9, <2>1, <2>2, <2>3, TasksTyped
          DEF DeliveryTypes, Notifying!TypeOK
<1>11. OwnRows'
  <2> SUFFICES ASSUME NEW h \in history' \ stray'
               PROVE  /\ h.rule \in DOMAIN notificationRules'
                      /\ notificationRules'[h.rule].event = h.event
    BY DEF OwnRows
  <2>1. h \in history \ stray /\ h \notin found
    BY <1>2
  <2>2. h.rule # id
    BY <1>1, <1>2, <2>1 DEF NotifyInv, Records, FindsRows
  <2>3. /\ h.rule \in DOMAIN notificationRules
        /\ notificationRules[h.rule].event = h.event
    BY <2>1 DEF NotifyInv, Records, OwnRows
  <2> QED BY <1>2, <2>2, <2>3
<1>12. ASSUME NEW q \in Removers PROVE FindsRows(q)'
  <2>1. CASE q = r
    BY <1>7, <1>8, <2>1 DEF FindsRows
  <2>2. CASE q # r
    BY <1>2, <1>7, <2>2 DEF NotifyInv, Records, FindsRows
  <2> QED BY <2>1, <2>2
<1>13. ASSUME NEW t \in DOMAIN tasks PROVE KnowsRules(tasks[t])'
  <2> SUFFICES ASSUME tasks[t].pc \in {"next", "record"}, NEW k \in DOMAIN tasks[t].loaded
               PROVE  /\ tasks[t].loaded[k].event = tasks[t].event
                      /\ k \notin tasks'[t].gone =>
                           /\ k \in DOMAIN notificationRules'
                           /\ notificationRules'[k] = tasks[t].loaded[k]
    BY <1>5 DEF KnowsRules
  <2>1. /\ tasks[t].loaded[k].event = tasks[t].event
        /\ k \notin tasks[t].gone =>
             k \in DOMAIN notificationRules /\ notificationRules[k] = tasks[t].loaded[k]
    BY DEF NotifyInv, Records, KnowsRules
  <2>2. k \notin tasks'[t].gone => k # id /\ k \notin tasks[t].gone
    BY <1>4
  <2> QED BY <1>2, <2>1, <2>2
<1> QED BY <1>3, <1>6, <1>10, <1>11, <1>12, <1>13 DEF NotifyInv, Records

(* A journal entry or create_vpn starts a delivery.                         *)
LEMMA StartStep ==
  ASSUME NotifyInv, NEW via, NEW event \in Events, NEW kind, Notifying!Start(via, event, kind),
         via # "journal" => /\ via \in Answers
                            /\ event = IF via = "ok" THEN "create" ELSE "failure"
  PROVE  NotifyInv'
<1>1. PICK task : task = Notifying!Task(via, event, kind)
  OBVIOUS
<1>2. PICK n \in Notifying!TaskIds : tasks' = Notifying!Put(tasks, n, task)
  BY <1>1 DEF Notifying!Start
<1>3. UNCHANGED <<notificationRules, history, removal, stray>>
  BY DEF Notifying!Start
<1>4. /\ DOMAIN tasks' = DOMAIN tasks \union {n}
      /\ \A t \in DOMAIN tasks' : tasks'[t] = IF t = n THEN task ELSE tasks[t]
  BY <1>2 DEF Notifying!Put
<1>5. TaskInv(task) /\ task.pc = "load"
  BY <1>1, TaskStarts DEF Notifying!Task
<1>6. Deliveries'
  BY <1>4, <1>5 DEF NotifyInv, Deliveries
<1>7. DeliveryTypes'
  <2>1. DOMAIN tasks' \subseteq Notifying!TaskIds
    BY <1>2, <1>4 DEF NotifyInv, DeliveryTypes, Notifying!TypeOK
  <2> QED BY <1>3, <1>6, <2>1, TasksTyped DEF NotifyInv, DeliveryTypes, Notifying!TypeOK
<1>8. ASSUME NEW t \in DOMAIN tasks' PROVE KnowsRules(tasks[t])'
  <2>1. CASE t = n
    BY <1>4, <1>5, <2>1 DEF KnowsRules
  <2>2. CASE t # n
    BY <1>3, <1>4, <2>2 DEF NotifyInv, Records, KnowsRules
  <2> QED BY <2>1, <2>2
<1>9. OwnRows' /\ \A r \in Removers : FindsRows(r)'
  BY <1>3 DEF NotifyInv, Records, OwnRows, FindsRows
<1> QED BY <1>6, <1>7, <1>8, <1>9 DEF NotifyInv, Records

LEMMA RestartStep ==
  ASSUME NotifyInv, Notifying!Crash PROVE NotifyInv'
<1>1. /\ UNCHANGED <<notificationRules, history, stray>>
      /\ DOMAIN tasks' = DOMAIN tasks
      /\ \A t \in DOMAIN tasks : tasks'[t] =
           IF tasks[t].pc = "over" THEN tasks[t]
           ELSE [Notifying!Task("journal", tasks[t].event, AnyKind) EXCEPT !.pc = "lost"]
      /\ removal' = [r \in Removers |-> Notifying!Idle]
  BY DEF Notifying!Crash
<1>2. ASSUME NEW t \in DOMAIN tasks
      PROVE  TaskInv(tasks'[t]) /\ tasks'[t].pc \notin {"next", "record"}
  <2>1. TaskInv(tasks[t]) /\ tasks[t].event \in Events
    BY DEF NotifyInv, Deliveries, TaskInv, TaskTypes
  <2>2. CASE tasks[t].pc = "over"
    BY <1>1, <2>1, <2>2
  <2>3. CASE tasks[t].pc # "over"
    BY <1>1, <2>1, <2>3, TaskForgotten
  <2> QED BY <2>2, <2>3
<1>3. Deliveries'
  BY <1>1, <1>2 DEF Deliveries
<1>4. \A r \in Removers : removal'[r].pc = "idle" /\ DOMAIN removal'[r] = {"pc", "id", "found"}
  BY <1>1 DEF Notifying!Idle
<1>5. DeliveryTypes'
  <2>1. DOMAIN tasks' \subseteq Notifying!TaskIds /\ DOMAIN removal' = Removers
    BY <1>1 DEF NotifyInv, DeliveryTypes, Notifying!TypeOK
  <2> QED BY <1>1, <1>3, <1>4, <2>1, TasksTyped DEF NotifyInv, DeliveryTypes, Notifying!TypeOK
<1>6. Records'
  BY <1>1, <1>2, <1>4 DEF NotifyInv, Records, OwnRows, KnowsRules, FindsRows
<1> QED BY <1>3, <1>5, <1>6 DEF NotifyInv

LEMMA Notified == Notifying!Spec => []NotifyInv
<1>1. Notifying!Init => NotifyInv
  BY DEF Notifying!Init, Notifying!Idle, NotifyInv, DeliveryTypes, Notifying!TypeOK,
         Deliveries, Records, OwnRows, FindsRows
<1>2. NotifyInv /\ [Notifying!Next]_(Notifying!vars) => NotifyInv'
  <2> SUFFICES ASSUME NotifyInv, [Notifying!Next]_(Notifying!vars) PROVE NotifyInv'
    OBVIOUS
  <2>1. CASE Notifying!Administer
    BY <2>1, AddRuleStep, RemoveLoadStep, RemoveCommitStep DEF Notifying!Administer
  <2>2. CASE Notifying!Trigger
    <3>1. ASSUME NEW event \in Events, NEW kind \in Kinds, Notifying!Journal(event, kind)
          PROVE  NotifyInv'
      BY <3>1, StartStep DEF Notifying!Journal
    <3>2. ASSUME NEW answer \in Answers, Notifying!CreateVpn(answer)
          PROVE  NotifyInv'
      BY <3>2, StartStep, ServiceAssumption DEF Notifying!CreateVpn
    <3> QED BY <2>2, <3>1, <3>2 DEF Notifying!Trigger
  <2>3. ASSUME NEW t \in DOMAIN tasks, Notifying!Step(t) PROVE NotifyInv'
    BY <2>3, CloseStep, LoadStep, SkipStep, DeliverStep, RecordStep, EndStep, DieStep
       DEF Notifying!Step
  <2>4. CASE UNCHANGED Notifying!vars
    BY <2>4 DEF Notifying!vars, NotifyInv, DeliveryTypes, Notifying!TypeOK, Deliveries,
                Records, OwnRows, KnowsRules, FindsRows
  <2> QED BY <2>1, <2>2, <2>3, <2>4, RestartStep DEF Notifying!Next
<1> QED BY <1>1, <1>2, PTL DEF Notifying!Spec

LEMMA NotifyPromises ==
  NotifyInv => /\ Notifying!TypeOK /\ Notifying!FirstOrAllServed
               /\ Notifying!HistoryOfItsRule /\ Notifying!VpnReply
<1> SUFFICES ASSUME NotifyInv
             PROVE  /\ Notifying!TypeOK /\ Notifying!FirstOrAllServed
                    /\ Notifying!HistoryOfItsRule /\ Notifying!VpnReply
  OBVIOUS
<1>1. Notifying!TypeOK
  BY DEF NotifyInv, DeliveryTypes
<1>2. Notifying!FirstOrAllServed
  BY DEF NotifyInv, Deliveries, TaskInv, JournalServes, Matching, First,
         Notifying!FirstOrAllServed
<1>3. Notifying!HistoryOfItsRule
  BY DEF NotifyInv, Records, OwnRows, Notifying!HistoryOfItsRule
<1>4. Notifying!VpnReply
  BY DEF NotifyInv, Deliveries, TaskInv, VpnServes, Notifying!VpnReply
<1> QED BY <1>1, <1>2, <1>3, <1>4

-----------------------------------------------------------------------------
(* The service.                                                             *)

(* The three components keep their tables, slots, deliveries and histories  *)
(* well formed (models.py).                                                 *)
THEOREM ServiceTyped == ServiceSpec => []TypesOK
<1>1. MappingTypes => Forwarding!TypeOK
  BY DEF MappingTypes
<1>2. ProvisionInv /\ MappingTypes /\ NotifyInv => TypesOK
  BY <1>1, ProvisionPromises, NotifyPromises DEF TypesOK
<1> QED BY <1>2, ComponentsRun, Provisioned, MappingsTyped, Notified, PTL

(* A request that is about to store a port rule meets a unique column only  *)
(* in a rule stored since it looked (crud.py, find_next_available_port,     *)
(* find_next_nat_rule_number, add_port_rule).                               *)
THEOREM CollisionsNeedOverlap == ServiceSpec => []CollisionNeedsOverlap
BY ComponentsRun, Provisioned, ProvisionPromises, PTL

(* It gives a VM a second rule of a type only if the first was stored since *)
(* it looked (crud.py, get_port_rule_by_vm_and_type before add_port_rule).  *)
THEOREM SecondRulesNeedOverlap == ServiceSpec => []SecondRuleNeedsOverlap
BY ComponentsRun, Provisioned, ProvisionPromises, PTL

(* A port rule names a stored VM or none, unless the request that stored it *)
(* had loaded a VM removed since, whatever rules a removal found, missed or *)
(* lost and whatever ids are given out again (routers_legacy.py,            *)
(* decommission_vm; crud.py, add_port_rule).                                *)
THEOREM RulesKeepTheirVm == ServiceSpec => []RulesHaveVm
BY ComponentsRun, Provisioned, ProvisionPromises, PTL

(* No update moves a mapping to another subnet, although it may commit on   *)
(* an id given out again (port_mapping.py, update_port_mapping).            *)
THEOREM MappingsKeepTheirSubnet == ServiceSpec => SubnetKept
<1>1. Forwarding!SubnetKept => SubnetKept
  BY DEF SubnetKept
<1> QED BY <1>1, ComponentsRun, SubnetsKept, PTL

(* A delivery that ended served the first matching rule, and all of them    *)
(* only if the request closed its session in time, however rules come and   *)
(* go meanwhile (utils_notify_dispatch.py, crud_notifications.py: each      *)
(* record of a delivery is a COMMIT).                                       *)
THEOREM FirstOrAllAreServed == ServiceSpec => []FirstOrAllServed
<1>1. NotifyInv => FirstOrAllServed
  BY NotifyPromises DEF FirstOrAllServed
<1> QED BY <1>1, ComponentsRun, Notified, PTL

(* A row of the notification history shows only under a rule of its event,  *)
(* although ids are used again, unless a removal overlapped the delivery    *)
(* (crud_notifications.py, delete_notification_rule).                       *)
THEOREM HistoryStaysWithItsRule == ServiceSpec => []HistoryOfItsRule
<1>1. NotifyInv => HistoryOfItsRule
  BY NotifyPromises DEF HistoryOfItsRule
<1> QED BY <1>1, ComponentsRun, Notified, PTL

(* create_vpn reports success exactly when the router acknowledged and no   *)
(* more than one rule waits for `create'.                                   *)
THEOREM VpnReplyFollows == ServiceSpec => []VpnReply
<1>1. NotifyInv => VpnReply
  BY NotifyPromises DEF VpnReply
<1> QED BY <1>1, ComponentsRun, Notified, PTL
=============================================================================
