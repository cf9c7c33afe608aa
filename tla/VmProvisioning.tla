---------------------------- MODULE VmProvisioning ----------------------------
(***************************************************************************)
(* VMs and the port numbers given to them (src/crud.py, src/crud_quota.py,  *)
(* src/routers/quota.py, and the handlers of src/routers_legacy.py that use *)
(* the helpers of crud.py): provision_vm, the `create' of template_ports,   *)
(* decommission_vm, and the quotas.                                         *)
(*                                                                          *)
(* COMMIT expires what a session has loaded, and an expired object cannot   *)
(* be read under asyncio:                                                   *)
(*  - provision_vm ends right after it has stored the VM, on `quota.usage'  *)
(*    or on `vm.internal_ip': no usage is counted, and its loop that stores *)
(*    port rules without looking for one is never reached;                  *)
(*  - template_ports stores at most one rule, and tells the router nothing; *)
(*  - crud.delete_vm fails on `vm.ports' before it changes anything.        *)
(* Addresses and the status of a port rule are data; a MAC or IP address    *)
(* may clash.                                                               *)
(***************************************************************************)
EXTENDS Integers, FiniteSets

CONSTANTS
  Users, Machines, PortTypes,
  Limits,             \* limits and usages of quotas for resource type "vm"
  LastPort,           \* external ports 1..LastPort, for VYOS_PORT_START..END
  LastNat,            \* NAT rule numbers 1..LastNat, for 10000..19999
  None,
  MaxQuota, MaxVm, MaxRule,  \* bounds on ids
  Requests, Answers

QuotaIds == 1..MaxQuota
VmIds    == 1..MaxVm
RuleIds  == 1..MaxRule
Quota    == [user: Users, limit: Limits, usage: Limits]
PortRule == [vm: VmIds \union {None}, type: PortTypes, port: 1..LastPort, nat: 1..LastNat]

ASSUME ConstantsAssumption ==
  /\ Limits \subseteq Int
  /\ LastPort \in Nat /\ LastNat \in Nat
  /\ None \notin Int

VARIABLES
  quotas,     \* table quotas: id -> Quota; rows stay
  machines,   \* table vms_network_config: id -> machine
  portRules,  \* table vm_port_rules: id -> PortRule
  job,        \* what each request slot is doing
  overtaken,  \* history: the rules stored since a request looked for one
  bereft,     \* history: requests whose VM was removed since they loaded it
  unowned     \* history: rules stored by such requests

vars == <<quotas, machines, portRules, job, overtaken, bereft, unowned>>

Idle == [pc |-> "idle", machine |-> None, vm |-> None,
         type |-> None, port |-> 0, nat |-> 0, found |-> {}]

Init ==
  /\ quotas = [k \in {} |-> None]
  /\ machines = [k \in {} |-> None]
  /\ portRules = [k \in {} |-> None]
  /\ job = [r \in Requests |-> Idle]
  /\ overtaken = [r \in Requests |-> {}]
  /\ bereft = {}
  /\ unowned = {}

-----------------------------------------------------------------------------
FreshId(table, n) == /\ \A k \in DOMAIN table : k < n
                     /\ n = 1 \/ n - 1 \in DOMAIN table
Put(table, n, row) == [k \in DOMAIN table \union {n} |-> IF k = n THEN row ELSE table[k]]
Without(table, S) == [k \in DOMAIN table \ S |-> table[k]]
Lowest(S) == CHOOSE n \in S : \A m \in S : n <= m
Taken(m) == \E k \in DOMAIN machines : machines[k] = m

(* The history of a request starts and ends with it.                        *)
Finish(r) ==
  /\ job' = [job EXCEPT ![r] = Idle]
  /\ overtaken' = [overtaken EXCEPT ![r] = {}]
  /\ bereft' = bereft \ {r}
Begin(r, phase, locals) ==
  /\ job[r].pc = "idle"
  /\ job' = [job EXCEPT ![r] = [locals EXCEPT !.pc = phase]]
  /\ UNCHANGED <<overtaken, bereft>>
GoTo(r, phase) == job' = [job EXCEPT ![r].pc = phase] /\ UNCHANGED <<overtaken, bereft>>

-----------------------------------------------------------------------------
(* create_quota: nothing keeps a user from having two for one resource.     *)
QuotaCreate(u, limit, usage) ==
  /\ \E n \in QuotaIds : /\ FreshId(quotas, n)
                         /\ quotas' = Put(quotas, n,
                              [user |-> u, limit |-> limit, usage |-> usage])
  /\ UNCHANGED <<machines, portRules, job, overtaken, bereft, unowned>>

(* update_quota by PATCH                                                    *)
QuotaPatch(k, limit, usage) ==
  /\ k \in DOMAIN quotas
  /\ quotas' = [quotas EXCEPT ![k].limit = limit, ![k].usage = usage]
  /\ UNCHANGED <<machines, portRules, job, overtaken, bereft, unowned>>

(* provision_vm up to the INSERT of create_vm: the machine is new, and the  *)
(* user has no quota or one that is not used up (get_quota fails when there *)
(* are two).                                                                *)
VmCheck(r, u, m) ==
  /\ ~Taken(m)
  /\ \A j, k \in DOMAIN quotas : quotas[j].user = u /\ quotas[k].user = u => j = k
  /\ \A k \in DOMAIN quotas : quotas[k].user = u => quotas[k].usage < quotas[k].limit
  /\ Begin(r, "vm_insert", [Idle EXCEPT !.machine = m])
  /\ UNCHANGED <<quotas, machines, portRules, unowned>>

(* clash: another VM has the MAC or IP address.                             *)
VmInsert(r, clash) ==
  /\ job[r].pc = "vm_insert"
  /\ IF clash \/ Taken(job[r].machine)
     THEN Finish(r) /\ UNCHANGED machines                 \* IntegrityError
     ELSE /\ \E n \in VmIds : /\ FreshId(machines, n)
                              /\ machines' = Put(machines, n, job[r].machine)
          /\ GoTo(r, "vm_stored")
  /\ UNCHANGED <<quotas, portRules, unowned>>

(* The rest of provision_vm: update_quota is not reached past `quota.usage',*)
(* nor add_port_rule past `vm.internal_ip' (MissingGreenlet).               *)
ProvisionEnds(r) ==
  /\ job[r].pc = "vm_stored"
  /\ Finish(r)
  /\ UNCHANGED <<quotas, machines, portRules, unowned>>

-----------------------------------------------------------------------------
(* template_ports, action `create': the VM is loaded once,                  *)
PortLoad(r, id) ==
  /\ id \in DOMAIN machines
  /\ Begin(r, "next_port", [Idle EXCEPT !.vm = id])
  /\ UNCHANGED <<quotas, machines, portRules, unowned>>

(* Mutated: a rule is allocated without looking for one.                    *)
PortLookNot(r, type) ==
  /\ job[r].pc = "next_port"
  /\ job' = [job EXCEPT ![r].pc = "find_port", ![r].type = type]
  /\ overtaken' = [overtaken EXCEPT ![r] = {}]
  /\ UNCHANGED <<quotas, machines, portRules, bereft, unowned>>

(* and for a type of the request get_port_rule_by_vm_and_type finds no rule.*)
PortLook(r, type) ==
  /\ job[r].pc = "next_port"
  /\ \A k \in DOMAIN portRules : ~(portRules[k].vm = job[r].vm /\ portRules[k].type = type)
  /\ job' = [job EXCEPT ![r].pc = "find_port", ![r].type = type]
  /\ overtaken' = [overtaken EXCEPT ![r] = {}]
  /\ UNCHANGED <<quotas, machines, portRules, bereft, unowned>>

(* The last type, or one that has a rule, whose COMMIT expires the VM.      *)
PortEnd(r) ==
  /\ job[r].pc = "next_port"
  /\ Finish(r)
  /\ UNCHANGED <<quotas, machines, portRules, unowned>>

(* Mutated: the range includes the number after its end.                    *)
FindPortPastEnd(r) ==
  /\ job[r].pc = "find_port"
  /\ LET free == (1..LastPort + 1) \ {portRules[k].port : k \in DOMAIN portRules}
     IN IF free = {} THEN GoTo(r, "next_port")
        ELSE /\ job' = [job EXCEPT ![r].pc = "find_nat", ![r].port = Lowest(free)]
             /\ UNCHANGED <<overtaken, bereft>>
  /\ UNCHANGED <<quotas, machines, portRules, unowned>>

(* find_next_available_port                                                 *)
FindPort(r) ==
  /\ job[r].pc = "find_port"
  /\ LET free == (1..LastPort) \ {portRules[k].port : k \in DOMAIN portRules}
     IN IF free = {} THEN GoTo(r, "next_port")             \* ResourceAllocationError
        ELSE /\ job' = [job EXCEPT ![r].pc = "find_nat", ![r].port = Lowest(free)]
             /\ UNCHANGED <<overtaken, bereft>>
  /\ UNCHANGED <<quotas, machines, portRules, unowned>>

(* Mutated: the number after as many as there are rules.                    *)
FindNatByCount(r) ==
  /\ job[r].pc = "find_nat"
  /\ Cardinality(DOMAIN portRules) < LastNat
  /\ job' = [job EXCEPT ![r].pc = "rule_insert",
                        ![r].nat = Cardinality(DOMAIN portRules) + 1]
  /\ UNCHANGED <<quotas, machines, portRules, overtaken, bereft, unowned>>

(* find_next_nat_rule_number                                                *)
FindNat(r) ==
  /\ job[r].pc = "find_nat"
  /\ LET free == (1..LastNat) \ {portRules[k].nat : k \in DOMAIN portRules}
     IN IF free = {} THEN GoTo(r, "next_port")
        ELSE /\ job' = [job EXCEPT ![r].pc = "rule_insert", ![r].nat = Lowest(free)]
             /\ UNCHANGED <<overtaken, bereft>>
  /\ UNCHANGED <<quotas, machines, portRules, unowned>>

(* vm_port_rules: external_port and nat_rule_number are UNIQUE.             *)
NumbersUnused(r) ==
  \A k \in DOMAIN portRules : /\ portRules[k].port # job[r].port
                              /\ portRules[k].nat # job[r].nat

(* The phases with a rule looked for and not found, and with a VM loaded.   *)
Looking == {"find_port", "find_nat", "rule_insert"}
Holding == {"next_port"} \union Looking

(* add_port_rule; what the handler reads after its COMMIT is expired.       *)
RuleInsert(r) ==
  /\ job[r].pc = "rule_insert"
  /\ IF NumbersUnused(r)
     THEN \E n \in RuleIds :
            /\ FreshId(portRules, n)
            /\ portRules' = Put(portRules, n,
                 [vm |-> job[r].vm, type |-> job[r].type,
                  port |-> job[r].port, nat |-> job[r].nat])
            /\ overtaken' = [q \in Requests |->
                 IF q # r /\ job[q].pc \in Looking THEN overtaken[q] \union {n} ELSE {}]
            /\ unowned' = IF r \in bereft THEN unowned \union {n} ELSE unowned \ {n}
            /\ job' = [job EXCEPT ![r] = Idle]
            /\ bereft' = bereft \ {r}
     ELSE Finish(r) /\ UNCHANGED <<portRules, unowned>>     \* IntegrityError
  /\ UNCHANGED <<quotas, machines>>

-----------------------------------------------------------------------------
(* decommission_vm: a router call for each rule of the VM, and one COMMIT.  *)
RemoveLoad(r, id) ==
  /\ id \in DOMAIN machines
  /\ Begin(r, "remove_calls",
           [Idle EXCEPT !.vm = id,
                        !.found = {k \in DOMAIN portRules : portRules[k].vm = id}])
  /\ UNCHANGED <<quotas, machines, portRules, unowned>>

(* The first call that fails ends it.                                       *)
RemoveCalls(r, answer) ==
  /\ job[r].pc = "remove_calls"
  /\ IF job[r].found # {} /\ answer # "ok" THEN Finish(r) ELSE GoTo(r, "remove_commit")
  /\ UNCHANGED <<quotas, machines, portRules, unowned>>

(* Rows are deleted by id, and the relationship (which does not cascade)    *)
(* takes the VM out of the rules that name it by then.                      *)
(* Mutated: the relationship is not looked at.                              *)
DisownedNot(id, found) == Without(portRules, found)

Disowned(id, found) ==
  [k \in DOMAIN portRules \ found |->
     IF portRules[k].vm = id THEN [portRules[k] EXCEPT !.vm = None] ELSE portRules[k]]

RemoveCommit(r) ==
  /\ job[r].pc = "remove_commit"
  /\ portRules' = Disowned(job[r].vm, job[r].found)
  /\ machines' = Without(machines, {job[r].vm})
  /\ job' = [job EXCEPT ![r] = Idle]
  /\ bereft' = bereft \union {q \in Requests : job[q].pc \in Holding /\ job[q].vm = job[r].vm}
  /\ UNCHANGED <<quotas, overtaken, unowned>>

-----------------------------------------------------------------------------
Quotas ==
  \/ \E u \in Users, limit \in Limits, usage \in Limits : QuotaCreate(u, limit, usage)
  \/ \E k \in QuotaIds, limit \in Limits, usage \in Limits : QuotaPatch(k, limit, usage)

Vm(r) ==
  \/ \E u \in Users, m \in Machines : VmCheck(r, u, m)
  \/ \E clash \in BOOLEAN : VmInsert(r, clash)
  \/ ProvisionEnds(r)

Port(r) ==
  \/ \E id \in VmIds : PortLoad(r, id)
  \/ \E type \in PortTypes : PortLook(r, type)
  \/ PortEnd(r)
  \/ FindPort(r)
  \/ FindNat(r)
  \/ RuleInsert(r)

Remove(r) ==
  \/ \E id \in VmIds : RemoveLoad(r, id)
  \/ \E answer \in Answers : RemoveCalls(r, answer)
  \/ RemoveCommit(r)

Next == Quotas \/ \E r \in Requests : Vm(r) \/ Port(r) \/ Remove(r)

Spec == Init /\ [][Next]_vars

-----------------------------------------------------------------------------
(* Type invariant of the three tables and the history (models.Quota,        *)
(* VMNetworkConfig, VMPortRule).                                            *)
TypeOK ==
  /\ DOMAIN quotas \subseteq QuotaIds /\ quotas \in [DOMAIN quotas -> Quota]
  /\ DOMAIN machines \subseteq VmIds /\ machines \in [DOMAIN machines -> Machines]
  /\ DOMAIN portRules \subseteq RuleIds /\ portRules \in [DOMAIN portRules -> PortRule]
  /\ DOMAIN job = Requests
  /\ overtaken \in [Requests -> SUBSET RuleIds]
  /\ bereft \subseteq Requests /\ unowned \subseteq RuleIds

(* A request that is about to store a rule meets a unique column only in a  *)
(* rule stored since it looked: neither helper hands out a number in use,   *)
(* whichever VMs and rules went in between.                                 *)
CollisionNeedsOverlap ==
  \A r \in Requests : job[r].pc = "rule_insert" =>
    \A k \in DOMAIN portRules \ overtaken[r] :
      portRules[k].port # job[r].port /\ portRules[k].nat # job[r].nat

(* It gives a VM a second rule of a type, which no column forbids, only if  *)
(* the first was stored since it looked.                                    *)
SecondRuleNeedsOverlap ==
  \A r \in Requests : job[r].pc = "rule_insert" =>
    \A k \in DOMAIN portRules \ overtaken[r] :
      ~(portRules[k].vm = job[r].vm /\ portRules[k].type = job[r].type)

(* A rule that names a VM names one that is stored, unless the request that *)
(* stored it had loaded a VM removed since: such a rule falls to whichever  *)
(* VM is given the id next.                                                 *)
RulesHaveVm ==
  \A k \in DOMAIN portRules \ unowned : portRules[k].vm \in DOMAIN machines \union {None}
=============================================================================
