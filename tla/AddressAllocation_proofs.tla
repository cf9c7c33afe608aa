----------------------- MODULE AddressAllocation_proofs -----------------------
(***************************************************************************)
(* Proofs about AddressAllocation for any patterns, subnets, machines,      *)
(* batches and requests.                                                    *)
(***************************************************************************)
EXTENDS AddressAllocation, SequenceTheorems, TLAPS

(* What a request holds in the phase it is in: the rows it read, or the VMs *)
(* of its batch, none of which share an address.                            *)
Locals(slot) ==
  /\ DOMAIN slot = {"pc", "id", "row", "count", "vms", "leased"}
  /\ slot.pc \in Phases
  /\ slot.pc = "template_commit" => slot.row \in Patterns
  /\ slot.pc = "reserve_insert" => slot.row \in Reservation
  /\ slot.pc = "generate_commit" =>
       /\ slot.row \in [reservation: Reservation, pattern: Patterns]
       /\ slot.row.pattern.size # 0
       /\ slot.count \in Nat \ {0}
  /\ slot.pc = "bulk_plan" => slot.id \in Subnets
  /\ slot.pc = "bulk_commit" =>
       /\ \A i \in DOMAIN slot.vms : slot.vms[i] \in Vm
       /\ \A i, j \in DOMAIN slot.vms : i # j => slot.vms[i].ip # slot.vms[j].ip

Slots == DOMAIN req = Requests /\ \A r \in Requests : Locals(req[r])

Count == [first: Int, used: Seq(Int), raced: BOOLEAN]

Tables ==
  /\ DOMAIN templates \subseteq TemplateIds /\ templates \in [DOMAIN templates -> Patterns]
  /\ DOMAIN reservations \subseteq ReservationIds
  /\ reservations \in [DOMAIN reservations -> Reservation]
  /\ leases \subseteq Lease /\ vms \subseteq Vm
  /\ counted \in [DOMAIN reservations -> Count]

LEMMA SlotSet ==
  ASSUME Slots, NEW r \in Requests, NEW slot, Locals(slot),
         req' = [req EXCEPT ![r] = slot]
  PROVE  Slots'
BY DEF Slots

LEMMA IdleLocals == Locals(Idle)
BY DEF Locals, Phases, Idle

LEMMA Finished ==
  ASSUME Slots, NEW r \in Requests, Finish(r)
  PROVE  Slots'
BY IdleLocals, SlotSet DEF Finish

LEMMA Begun ==
  ASSUME Slots, NEW r \in Requests, NEW phase \in Phases \ {"bulk_plan", "bulk_commit"},
         NEW id, NEW row, NEW count, Begin(r, phase, id, row, count),
         phase = "template_commit" => row \in Patterns,
         phase = "reserve_insert" => row \in Reservation,
         phase = "generate_commit" =>
           /\ row \in [reservation: Reservation, pattern: Patterns]
           /\ row.pattern.size # 0 /\ count \in Nat \ {0}
  PROVE  Slots'
<1> DEFINE slot == [Idle EXCEPT !.pc = phase, !.id = id, !.row = row, !.count = count]
<1>1. Locals(slot)
  BY DEF Idle, Locals
<1>2. req' = [req EXCEPT ![r] = slot]
  BY DEF Begin
<1> HIDE DEF slot
<1> QED BY <1>1, <1>2, SlotSet

(* process_ip_pattern stays in its range, wherever the counter is.          *)
LEMMA HostInRange ==
  ASSUME NEW pattern \in Patterns, pattern.size # 0, NEW counter \in Int
  PROVE  HostOf(pattern, counter) \in Span(pattern)
<1>1. pattern.low \in Nat /\ pattern.size \in Int
  BY ConstantsAssumption
<1> PICK low, size : low = pattern.low /\ size = pattern.size
  OBVIOUS
<1>2. CASE size > 0
  <2>1. (counter - 1) % size \in 0..(size - 1)
    BY <1>1, <1>2
  <2> QED BY <1>1, <1>2, <2>1 DEF HostOf, Remainder, Span
<1>3. CASE size < 0
  <2>1. (-(counter - 1)) % (-size) \in 0..(-size - 1)
    BY <1>1, <1>3
  <2> QED BY <1>1, <1>3, <2>1 DEF HostOf, Remainder, Span
<1> QED BY <1>1, <1>2, <1>3

LEMMA HostIsInt ==
  ASSUME NEW pattern \in Patterns, pattern.size # 0, NEW counter \in Int
  PROVE  HostOf(pattern, counter) \in Int
<1>1. pattern.low \in Int /\ pattern.size \in Int
  BY ConstantsAssumption
<1>2. Span(pattern) \subseteq Int
  BY <1>1 DEF Span
<1> QED BY <1>2, HostInRange

(* One field of one row set.                                                *)
LEMMA CounterSet ==
  ASSUME reservations \in [DOMAIN reservations -> Reservation],
         NEW k \in DOMAIN reservations, NEW n \in Int,
         reservations' = [reservations EXCEPT ![k].counter = n]
  PROVE  /\ DOMAIN reservations' = DOMAIN reservations
         /\ reservations' \in [DOMAIN reservations' -> Reservation]
         /\ reservations'[k].counter = n
<1> DEFINE row == [reservations[k] EXCEPT !.counter = n]
<1>1. row \in Reservation /\ row.counter = n
  BY DEF Reservation
<1>2. reservations' = [reservations EXCEPT ![k] = row]
  OBVIOUS
<1> HIDE DEF row
<1> QED BY <1>1, <1>2

(* The counters one call goes through.                                      *)
LEMMA CountersAre ==
  ASSUME NEW r \in Requests, Slots, req[r].pc = "generate_commit"
  PROVE  /\ Counters(r) \in Seq(Int) /\ Len(Counters(r)) = req[r].count
         /\ \A i \in 1..req[r].count :
              /\ Counters(r)[i] = req[r].row.reservation.counter + i - 1
              /\ Counters(r)[i] \in Int
<1>1. req[r].row.reservation.counter \in Int /\ req[r].count \in Nat
  BY DEF Slots, Locals, Reservation
<1> QED BY <1>1 DEF Counters

-----------------------------------------------------------------------------
Types == Tables /\ Slots

(* What BulkPlan keeps of a batch.                                          *)
LEMMA Planned ==
  ASSUME NEW batch \in Batches, NEW s \in Subnets, NEW machines, NEW taken,
         NEW accepted \in SUBSET DOMAIN batch, NEW chosen \in [accepted -> Hosts],
         Outcome(batch, chosen, machines, taken)
  PROVE  /\ \A i \in accepted : [machine |-> batch[i].machine, ip |-> <<s, chosen[i]>>] \in Vm
         /\ \A i, j \in accepted : i # j => chosen[i] # chosen[j]
<1>1. PICK n \in 1..MaxBatch : batch \in [1..n -> Item]
  BY DEF Batches
<1>2. ASSUME NEW i \in accepted
      PROVE  [machine |-> batch[i].machine, ip |-> <<s, chosen[i]>>] \in Vm
  <2>1. batch[i].machine \in Machines
    BY <1>1 DEF Item
  <2>2. chosen[i] \in Int
    BY ConstantsAssumption
  <2>3. <<s, chosen[i]>> \in Address
    BY <2>2 DEF Address
  <2> QED BY <2>1, <2>3 DEF Vm
<1>3. ASSUME NEW i \in accepted, NEW j \in accepted, i < j PROVE chosen[i] # chosen[j]
  BY <1>3 DEF Outcome
<1>4. \A i \in accepted : i \in Int
  BY <1>1
<1> QED BY <1>2, <1>3, <1>4

LEMMA TypesStep ==
  ASSUME Types, [Next]_vars
  PROVE  Types'
<1> USE DEF Types
<1>1. ASSUME NEW k \in ReservationIds, ReservationDelete(k) PROVE Types'
  BY <1>1 DEF ReservationDelete, Remove, Tables, Slots
<1>2. ASSUME NEW r \in Requests, Templates(r) PROVE Types'
  <2>1. ASSUME NEW t \in TemplateIds, NEW pattern \in Patterns, TemplateLoad(r, t, pattern)
        PROVE  Types'
    BY <2>1, Begun DEF TemplateLoad, Phases, Tables
  <2>2. CASE TemplateCommit(r)
    <3>1. req[r].row \in Patterns
      BY <2>2 DEF TemplateCommit, Slots, Locals
    <3> QED BY <2>2, <3>1, Finished DEF TemplateCommit, Tables
  <2>3. ASSUME NEW t \in TemplateIds, TemplateDeleteCheck(r, t) PROVE Types'
    BY <2>3, Begun DEF TemplateDeleteCheck, Phases, Tables
  <2>4. CASE TemplateDelete(r)
    BY <2>4, Finished DEF TemplateDelete, Remove, Tables
  <2> QED BY <1>2, <2>1, <2>2, <2>3, <2>4 DEF Templates
<1>3. ASSUME NEW r \in Requests, Reserve(r) PROVE Types'
  <2>1. ASSUME NEW t \in TemplateIds, NEW s \in Subnets, NEW start \in Starts,
               ReserveCheck(r, t, s, start)
        PROVE  Types'
    <3> DEFINE row == [template |-> t, subnet |-> s, counter |-> start]
    <3>1. row \in Reservation
      BY ConstantsAssumption DEF Reservation
    <3>2. Begin(r, "reserve_insert", 0, row, 0)
      BY <2>1 DEF ReserveCheck
    <3> HIDE DEF row
    <3>3. Slots'
      BY <3>1, <3>2, Begun DEF Phases
    <3> QED BY <2>1, <3>3 DEF ReserveCheck, Tables
  <2>2. CASE ReserveInsert(r)
    <3> DEFINE row == req[r].row
    <3> DEFINE start == [first |-> row.counter, used |-> <<>>, raced |-> FALSE]
    <3>1. row \in Reservation
      BY <2>2 DEF ReserveInsert, Slots, Locals
    <3>2. start \in Count
      BY <3>1 DEF Count, Reservation
    <3>3. \/ UNCHANGED <<reservations, counted>>
          \/ \E n \in ReservationIds :
               reservations' = Put(reservations, n, row) /\ counted' = Put(counted, n, start)
      BY <2>2 DEF ReserveInsert
    <3> HIDE DEF row, start
    <3>4. ASSUME NEW n \in ReservationIds, reservations' = Put(reservations, n, row),
                 counted' = Put(counted, n, start)
          PROVE  /\ DOMAIN reservations' \subseteq ReservationIds
                 /\ reservations' \in [DOMAIN reservations' -> Reservation]
                 /\ counted' \in [DOMAIN reservations' -> Count]
      BY <3>1, <3>2, <3>4 DEF Put, Tables
    <3>5. /\ DOMAIN reservations' \subseteq ReservationIds
          /\ reservations' \in [DOMAIN reservations' -> Reservation]
          /\ counted' \in [DOMAIN reservations' -> Count]
      BY <3>3, <3>4 DEF Tables
    <3> QED BY <2>2, <3>5, Finished DEF ReserveInsert, Tables
  <2> QED BY <1>3, <2>1, <2>2 DEF Reserve
<1>4. ASSUME NEW r \in Requests, Generate(r) PROVE Types'
  <2>1. ASSUME NEW k \in ReservationIds, NEW count \in Counts, GenerateLoad(r, k, count)
        PROVE  Types'
    <3> DEFINE row == [reservation |-> reservations[k],
                       pattern |-> templates[reservations[k].template]]
    <3>1. /\ row \in [reservation: Reservation, pattern: Patterns]
          /\ row.pattern.size # 0 /\ count \in Nat \ {0}
      BY <2>1, ConstantsAssumption DEF GenerateLoad, Tables
    <3>2. Begin(r, "generate_commit", k, row, count)
      BY <2>1 DEF GenerateLoad
    <3> HIDE DEF row
    <3>3. Slots'
      BY <3>1, <3>2, Begun DEF Phases
    <3> QED BY <2>1, <3>3 DEF GenerateLoad, Tables
  <2>2. CASE GenerateCommit(r)
    <3> DEFINE k == req[r].id
    <3> DEFINE loaded == req[r].row.reservation
    <3>1. /\ req[r].pc = "generate_commit" /\ loaded \in Reservation
          /\ req[r].row.pattern \in Patterns /\ req[r].row.pattern.size # 0
          /\ req[r].count \in Nat
      BY <2>2 DEF GenerateCommit, Slots, Locals
    <3>2. CASE k \in DOMAIN reservations
      <4>1. ASSUME NEW i \in 1..req[r].count
            PROVE  [ip |-> AddressOf(req[r].row.pattern, loaded.subnet, Counters(r)[i]),
                    holder |-> Template] \in Lease
        <5>1. HostOf(req[r].row.pattern, Counters(r)[i]) \in Int
          <6>1. Counters(r)[i] \in Int
            BY <3>1, CountersAre
          <6> QED BY <3>1, <6>1, HostIsInt
        <5>2. loaded.subnet \in Subnets
          BY <3>1 DEF Reservation
        <5> QED BY <5>1, <5>2 DEF AddressOf, Lease, Address
      <4>2. leases' \subseteq Lease
        BY <2>2, <3>2, <4>1 DEF GenerateCommit, Tables
      <4>3. NextCounter(r) \in Int
        BY <3>1 DEF NextCounter, Reservation
      <4>4. /\ DOMAIN reservations' = DOMAIN reservations
            /\ reservations' \in [DOMAIN reservations' -> Reservation]
        BY <2>2, <3>2, <4>3, CounterSet DEF GenerateCommit, Tables
      <4>5. counted[k].used \o Counters(r) \in Seq(Int)
        BY <3>1, <3>2, CountersAre DEF Tables, Count
      <4>6. counted' \in [DOMAIN reservations -> Count]
        <5> DEFINE used == counted[k].used \o Counters(r)
        <5> DEFINE raced == counted[k].raced \/ reservations[k].counter # loaded.counter
        <5>1. counted' = [counted EXCEPT ![k].used = used, ![k].raced = raced]
          BY <2>2, <3>2 DEF GenerateCommit
        <5>2. raced \in BOOLEAN /\ used \in Seq(Int)
          BY <4>5
        <5>3. counted \in [DOMAIN reservations -> Count]
          BY DEF Tables
        <5> HIDE DEF used, raced
        <5> QED BY <3>2, <5>1, <5>2, <5>3 DEF Count
      <4> QED BY <2>2, <4>2, <4>4, <4>6, Finished DEF GenerateCommit, Tables
    <3>3. CASE k \notin DOMAIN reservations
      BY <2>2, <3>3, Finished DEF GenerateCommit, Tables
    <3> QED BY <3>2, <3>3
  <2> QED BY <1>4, <2>1, <2>2 DEF Generate
<1>5. ASSUME NEW r \in Requests, Bulk(r) PROVE Types'
  <2>1. ASSUME NEW s \in Subnets, BulkVms(r, s) PROVE Types'
    <3> DEFINE slot == [Idle EXCEPT !.pc = "bulk_plan", !.id = s, !.row = vms]
    <3>1. Locals(slot)
      BY DEF Idle, Locals, Phases
    <3>2. req' = [req EXCEPT ![r] = slot]
      BY <2>1 DEF BulkVms
    <3> HIDE DEF slot
    <3>3. Slots'
      BY <3>1, <3>2, SlotSet
    <3> QED BY <2>1, <3>3 DEF BulkVms, Tables
  <2>2. ASSUME NEW batch \in Batches, NEW leased \in BOOLEAN, BulkPlan(r, batch, leased)
        PROVE  Types'
    <3> DEFINE s == req[r].id
    <3> DEFINE machines == {v.machine : v \in req[r].row}
    <3> DEFINE held == {v.ip : v \in req[r].row} \union {l.ip : l \in leases}
    <3> DEFINE taken == {a[2] : a \in {b \in held : b[1] = s}}
    <3>1. PICK accepted \in SUBSET DOMAIN batch : \E chosen \in [accepted -> Hosts] :
            /\ Outcome(batch, chosen, machines, taken)
            /\ IF accepted = {} THEN Finish(r)
               ELSE req' = [req EXCEPT
                      ![r].pc = "bulk_commit", ![r].row = None, ![r].leased = leased,
                      ![r].vms = [i \in accepted |->
                                    [machine |-> batch[i].machine, ip |-> <<s, chosen[i]>>]]]
      BY <2>2 DEF BulkPlan
    <3>2. PICK chosen \in [accepted -> Hosts] :
            /\ Outcome(batch, chosen, machines, taken)
            /\ IF accepted = {} THEN Finish(r)
               ELSE req' = [req EXCEPT
                      ![r].pc = "bulk_commit", ![r].row = None, ![r].leased = leased,
                      ![r].vms = [i \in accepted |->
                                    [machine |-> batch[i].machine, ip |-> <<s, chosen[i]>>]]]
      BY <3>1
    <3>3. req[r].pc = "bulk_plan" /\ s \in Subnets /\ Locals(req[r])
      BY <2>2 DEF BulkPlan, Slots, Locals
    <3> DEFINE new == [i \in accepted |-> [machine |-> batch[i].machine,
                                           ip |-> <<s, chosen[i]>>]]
    <3>4. /\ \A i \in accepted : new[i] \in Vm
          /\ \A i, j \in accepted : i # j => new[i].ip # new[j].ip
      <4> HIDE DEF s, machines, taken
      <4>0. Outcome(batch, chosen, machines, taken) /\ s \in Subnets
        BY <3>2, <3>3
      <4>1. /\ \A i \in accepted :
                 [machine |-> batch[i].machine, ip |-> <<s, chosen[i]>>] \in Vm
            /\ \A i, j \in accepted : i # j => chosen[i] # chosen[j]
        BY <4>0, Planned
      <4> QED BY <4>1
    <3>5. DOMAIN new = accepted
      OBVIOUS
    <3>6. \/ Finish(r)
          \/ req' = [req EXCEPT ![r].pc = "bulk_commit", ![r].row = None, ![r].leased = leased,
                                ![r].vms = new]
      BY <3>2
    <3> HIDE DEF new, s, machines, held, taken
    <3> DEFINE slot == [req[r] EXCEPT !.pc = "bulk_commit", !.row = None, !.leased = leased,
                                      !.vms = new]
    <3>7. Locals(slot)
      BY <3>3, <3>4, <3>5 DEF Locals, Phases
    <3>8. Finish(r) \/ req' = [req EXCEPT ![r] = slot]
      BY <3>3, <3>6 DEF Slots, Locals
    <3> HIDE DEF slot
    <3>9. Slots'
      BY <3>7, <3>8, SlotSet, Finished
    <3> QED BY <2>2, <3>9 DEF BulkPlan, Tables
  <2>3. ASSUME NEW clash \in BOOLEAN, BulkCommit(r, clash) PROVE Types'
    <3>1. \A i \in DOMAIN req[r].vms : req[r].vms[i] \in Vm
      BY <2>3 DEF BulkCommit, Slots, Locals
    <3>2. vms' \subseteq Vm
      BY <2>3, <3>1 DEF BulkCommit, Tables
    <3>3. \A i \in DOMAIN req[r].vms :
            [ip |-> req[r].vms[i].ip, holder |-> req[r].vms[i].machine] \in Lease
      BY <3>1 DEF Vm, Lease
    <3>4. leases' \subseteq Lease
      BY <2>3, <3>3 DEF BulkCommit, Tables
    <3> QED BY <2>3, <3>2, <3>4, Finished DEF BulkCommit, Tables
  <2> QED BY <1>5, <2>1, <2>2, <2>3 DEF Bulk
<1>6. CASE UNCHANGED vars
  BY <1>6 DEF vars, Tables, Slots
<1> QED BY <1>1, <1>2, <1>3, <1>4, <1>5, <1>6 DEF Next

LEMMA InitTypes == Init => Types
<1> SUFFICES ASSUME Init PROVE Types
  OBVIOUS
<1>1. Tables
  BY ConstantsAssumption DEF Init, Tables, TemplateIds
<1>2. Slots
  BY IdleLocals DEF Init, Slots
<1> QED BY <1>1, <1>2 DEF Types

LEMMA TypesHold == Spec => []Types
BY InitTypes, TypesStep, PTL DEF Spec

(* Tables and request slots keep their types (models.DHCPTemplate,          *)
(* DHCPTemplateReservation, StaticDHCPAssignment, VMNetworkConfig).         *)
THEOREM TypeCorrect == Spec => []TypeOK
<1>1. Types => TypeOK
  BY DEF Types, Tables, Slots, Locals, TypeOK, Count
<1> QED BY <1>1, TypesHold, PTL

-----------------------------------------------------------------------------
(* What a step may do to the four tables that requests write.               *)
LEMMA Writers ==
  ASSUME [Next]_vars
  PROVE  /\ \/ UNCHANGED <<reservations, counted>>
            \/ \E k \in ReservationIds : ReservationDelete(k)
            \/ \E r \in Requests : ReserveInsert(r) \/ GenerateCommit(r)
         /\ \/ UNCHANGED <<leases, vms>>
            \/ \E r \in Requests : GenerateCommit(r) \/ \E clash \in BOOLEAN : BulkCommit(r, clash)
<1>1. ASSUME NEW r \in Requests, Templates(r) PROVE UNCHANGED <<reservations, counted, leases, vms>>
  BY <1>1 DEF Templates, TemplateLoad, TemplateCommit, TemplateDeleteCheck, TemplateDelete
<1>2. ASSUME NEW r \in Requests, Reserve(r)
      PROVE  UNCHANGED <<leases, vms>> /\ (UNCHANGED <<reservations, counted>> \/ ReserveInsert(r))
  BY <1>2 DEF Reserve, ReserveCheck, ReserveInsert
<1>3. ASSUME NEW r \in Requests, Generate(r)
      PROVE  UNCHANGED <<reservations, counted, leases, vms>> \/ GenerateCommit(r)
  BY <1>3 DEF Generate, GenerateLoad
<1>4. ASSUME NEW r \in Requests, Bulk(r)
      PROVE  /\ UNCHANGED <<reservations, counted>>
             /\ UNCHANGED <<leases, vms>> \/ \E clash \in BOOLEAN : BulkCommit(r, clash)
  BY <1>4 DEF Bulk, BulkVms, BulkPlan, BulkCommit
<1>5. ASSUME NEW k \in ReservationIds, ReservationDelete(k) PROVE UNCHANGED <<leases, vms>>
  BY <1>5 DEF ReservationDelete
<1>6. CASE UNCHANGED vars
  BY <1>6 DEF vars
<1> QED BY <1>1, <1>2, <1>3, <1>4, <1>5, <1>6 DEF Next

LEMMA ReservationsStep ==
  ASSUME Types, UniqueReservations, [Next]_vars
  PROVE  UniqueReservations'
<1> USE DEF UniqueReservations, SamePlace, Types
<1>1. ASSUME NEW k \in ReservationIds, ReservationDelete(k) PROVE UniqueReservations'
  BY <1>1 DEF ReservationDelete, Remove
<1>2. ASSUME NEW r \in Requests, ReserveInsert(r) PROVE UniqueReservations'
  <2> DEFINE row == req[r].row
  <2>1. \/ UNCHANGED reservations
        \/ /\ \A k \in DOMAIN reservations : ~SamePlace(reservations[k], row)
           /\ \E n \in ReservationIds : reservations' = Put(reservations, n, row)
    BY <1>2 DEF ReserveInsert
  <2> HIDE DEF row
  <2>2. ASSUME NEW n \in ReservationIds, reservations' = Put(reservations, n, row),
               \A k \in DOMAIN reservations : ~SamePlace(reservations[k], row)
        PROVE  UniqueReservations'
    <3>1. /\ DOMAIN reservations' = DOMAIN reservations \union {n} /\ reservations'[n] = row
          /\ \A k \in DOMAIN reservations : k # n => reservations'[k] = reservations[k]
      BY <2>2 DEF Put
    <3> QED BY <2>2, <3>1
  <2>3. UNCHANGED reservations => UniqueReservations'
    OBVIOUS
  <2> QED BY <2>1, <2>2, <2>3
<1>3. ASSUME NEW r \in Requests, GenerateCommit(r) PROVE UniqueReservations'
  <2> PICK x : x = NextCounter(r)
    OBVIOUS
  <2> PICK n : n = req[r].id
    OBVIOUS
  <2>0. UNCHANGED reservations \/ reservations' = [reservations EXCEPT ![n].counter = x]
    BY <1>3 DEF GenerateCommit
  <2>1. /\ DOMAIN reservations' = DOMAIN reservations
        /\ \A k \in DOMAIN reservations : /\ reservations'[k].template = reservations[k].template
                                          /\ reservations'[k].subnet = reservations[k].subnet
    BY <2>0 DEF Tables, Reservation
  <2> QED BY <2>1
<1> QED BY <1>1, <1>2, <1>3, Writers

(* The unique key of models.DHCPTemplateReservation holds although two      *)
(* creations may both have looked before either stored its row.             *)
THEOREM ReservationsStayUnique == Spec => []UniqueReservations
<1>1. Init => UniqueReservations
  BY DEF Init, UniqueReservations
<1> QED BY <1>1, ReservationsStep, TypesHold, PTL DEF Spec

LEMMA VmsStep ==
  ASSUME Types, UniqueVms, LeaseBackedByVm, [Next]_vars
  PROVE  UniqueVms' /\ LeaseBackedByVm'
<1> USE DEF Types
<1>1. ASSUME NEW r \in Requests, GenerateCommit(r) PROVE UniqueVms' /\ LeaseBackedByVm'
  <2>0. vms' = vms
    BY <1>1 DEF GenerateCommit
  <2>1. vms' = vms /\ \A l \in leases' : l \in leases \/ l.holder = Template
    <3>1. CASE UNCHANGED leases
      BY <2>0, <3>1
    <3>2. CASE leases' = leases \union
                 {[ip |-> AddressOf(req[r].row.pattern, req[r].row.reservation.subnet,
                                    Counters(r)[i]),
                   holder |-> Template] : i \in 1..req[r].count}
      BY <2>0, <3>2
    <3> QED BY <1>1, <3>1, <3>2 DEF GenerateCommit
  <2> QED BY <2>1 DEF UniqueVms, LeaseBackedByVm
<1>2. ASSUME NEW r \in Requests, NEW clash \in BOOLEAN, BulkCommit(r, clash)
      PROVE  UniqueVms' /\ LeaseBackedByVm'
  <2>1. CASE UNCHANGED <<vms, leases>>
    BY <2>1 DEF UniqueVms, LeaseBackedByVm
  <2> DEFINE new == req[r].vms
  <2>2. /\ \A i \in DOMAIN new : new[i] \in Vm
        /\ \A i, j \in DOMAIN new : i # j => new[i].ip # new[j].ip
    BY <1>2 DEF BulkCommit, Slots, Locals
  <2>3. CASE /\ ~Collides(new)
             /\ vms' = vms \union {new[i] : i \in DOMAIN new}
             /\ leases' \subseteq leases \union
                  {[ip |-> new[i].ip, holder |-> new[i].machine] : i \in DOMAIN new}
    <3> HIDE DEF new
    <3>1. UniqueVms'
      BY <2>2, <2>3 DEF UniqueVms, Collides
    <3>2. \A i \in DOMAIN new : [machine |-> new[i].machine, ip |-> new[i].ip] = new[i]
      BY <2>2 DEF Vm
    <3>3. LeaseBackedByVm'
      BY <2>3, <3>2 DEF LeaseBackedByVm
    <3> QED BY <3>1, <3>3
  <2>4. \/ UNCHANGED <<vms, leases>>
        \/ /\ ~Collides(new)
           /\ vms' = vms \union {new[i] : i \in DOMAIN new}
           /\ leases' \subseteq leases \union
                {[ip |-> new[i].ip, holder |-> new[i].machine] : i \in DOMAIN new}
    BY <1>2 DEF BulkCommit
  <2> QED BY <2>1, <2>3, <2>4
<1>3. CASE UNCHANGED <<leases, vms>>
  BY <1>3 DEF UniqueVms, LeaseBackedByVm
<1> QED BY <1>1, <1>2, <1>3, Writers

LEMMA VmsHold == Spec => [](UniqueVms /\ LeaseBackedByVm)
<1>1. Init => UniqueVms /\ LeaseBackedByVm
  BY DEF Init, UniqueVms, LeaseBackedByVm
<1> QED BY <1>1, VmsStep, TypesHold, PTL DEF Spec

(* No two VMs share a machine id or an address, although overlapping        *)
(* batches plan from what they read before.                                 *)
THEOREM VmsStayUnique == Spec => []UniqueVms
BY VmsHold, PTL

(* An assignment made for a machine is the address of its VM: the rows of a *)
(* batch are stored together or not at all (assign_vms_to_subnet).          *)
THEOREM LeasesStayBacked == Spec => []LeaseBackedByVm
BY VmsHold, PTL

-----------------------------------------------------------------------------
(* Counting on from where a sequence of successive numbers ends.            *)
LEMMA Regroup ==
  ASSUME NEW a \in Int, NEW b \in Int, NEW d \in Int
  PROVE  (a + b) + d = a + (b + d)
OBVIOUS

LEMMA Continued ==
  ASSUME NEW used \in Seq(Int), NEW new \in Seq(Int), NEW first \in Int,
         \A i \in 1..Len(used) : used[i] = first + i - 1,
         \A i \in 1..Len(new) : new[i] = first + Len(used) + i - 1
  PROVE  /\ Len(used \o new) = Len(used) + Len(new)
         /\ \A i \in 1..Len(used \o new) : (used \o new)[i] = first + i - 1
<1> DEFINE m == Len(used)
<1> DEFINE n == Len(new)
<1>1. m \in Nat /\ n \in Nat /\ Len(used \o new) = m + n
  OBVIOUS
<1>2. \A i \in 1..m + n : (used \o new)[i] = IF i <= m THEN used[i] ELSE new[i - m]
  BY ConcatProperties
<1>3. \A i \in 1..m : used[i] = first + i - 1
  OBVIOUS
<1>4. \A i \in 1..n : new[i] = first + m + i - 1
  OBVIOUS
<1> HIDE DEF m, n
<1>5. ASSUME NEW i \in 1..m + n PROVE (used \o new)[i] = first + i - 1
  <2>1. CASE i <= m
    BY <1>1, <1>2, <1>3, <2>1
  <2>2. CASE ~(i <= m)
    <3>1. i - m \in 1..n /\ (used \o new)[i] = new[i - m]
      BY <1>1, <1>2, <2>2
    <3>2. new[i - m] = first + m + (i - m) - 1
      BY <1>4, <3>1
    <3> QED BY <1>1, <3>1, <3>2
  <2> QED BY <2>1, <2>2
<1> QED BY <1>1, <1>5 DEF m, n

(* From its first counter a reservation has gone through every number up to *)
(* the one before its current, unless generations from it overlapped.       *)
LEMMA CounterStep ==
  ASSUME Types, CounterUsedOnce, [Next]_vars
  PROVE  CounterUsedOnce'
<1> USE DEF Types
<1>1. ASSUME NEW k \in ReservationIds, ReservationDelete(k) PROVE CounterUsedOnce'
  BY <1>1 DEF ReservationDelete, Remove, CounterUsedOnce, Tables
<1>2. ASSUME NEW r \in Requests, ReserveInsert(r) PROVE CounterUsedOnce'
  <2> DEFINE row == req[r].row
  <2> DEFINE start == [first |-> row.counter, used |-> <<>>, raced |-> FALSE]
  <2>1. \/ UNCHANGED <<reservations, counted>>
        \/ \E n \in ReservationIds :
             reservations' = Put(reservations, n, row) /\ counted' = Put(counted, n, start)
    BY <1>2 DEF ReserveInsert
  <2>2. row.counter \in Int
    BY <1>2 DEF ReserveInsert, Slots, Locals, Reservation
  <2>3. row.counter = start.first + Len(start.used) /\ start.first = row.counter
        /\ Len(start.used) = 0
    BY <2>2
  <2> HIDE DEF row, start
  <2>4. ASSUME NEW n \in ReservationIds, reservations' = Put(reservations, n, row),
               counted' = Put(counted, n, start)
        PROVE  CounterUsedOnce'
    <3>1. /\ DOMAIN reservations' = DOMAIN reservations \union {n}
          /\ reservations'[n] = row /\ counted'[n] = start
          /\ \A k \in DOMAIN reservations : k # n => /\ reservations'[k] = reservations[k]
                                                     /\ counted'[k] = counted[k]
      BY <2>4 DEF Put, Tables
    <3> QED BY <2>3, <3>1 DEF CounterUsedOnce
  <2>5. UNCHANGED <<reservations, counted>> => CounterUsedOnce'
    BY DEF CounterUsedOnce
  <2> QED BY <2>1, <2>4, <2>5
<1>3. ASSUME NEW r \in Requests, GenerateCommit(r) PROVE CounterUsedOnce'
  <2> PICK k : k = req[r].id
    OBVIOUS
  <2> PICK loaded : loaded = req[r].row.reservation
    OBVIOUS
  <2> PICK new : new = Counters(r)
    OBVIOUS
  <2> PICK n : n = req[r].count
    OBVIOUS
  <2>1. /\ req[r].pc = "generate_commit" /\ loaded.counter \in Int /\ n \in Nat
        /\ new \in Seq(Int) /\ Len(new) = n
        /\ \A i \in 1..n : new[i] = loaded.counter + i - 1
    BY <1>3, CountersAre DEF GenerateCommit, Slots, Locals, Reservation
  <2>2. CASE k \notin DOMAIN reservations
    BY <1>3, <2>2 DEF GenerateCommit, CounterUsedOnce
  <2>3. CASE k \in DOMAIN reservations
    <3>1. /\ DOMAIN reservations' = DOMAIN reservations
          /\ \A j \in DOMAIN reservations : j # k => /\ reservations'[j] = reservations[j]
                                                     /\ counted'[j] = counted[j]
      BY <1>3, <2>3 DEF GenerateCommit, Tables
    <3>2. /\ reservations'[k].counter = loaded.counter + n
          /\ counted'[k].used = counted[k].used \o new
          /\ counted'[k].first = counted[k].first
          /\ ~counted'[k].raced =>
               ~counted[k].raced /\ reservations[k].counter = loaded.counter
      <4> PICK x : x = NextCounter(r)
        OBVIOUS
      <4>1. reservations' = [reservations EXCEPT ![k].counter = x] /\ x = loaded.counter + n
        BY <1>3, <2>3 DEF GenerateCommit, NextCounter
      <4>2. reservations'[k].counter = loaded.counter + n
        <5>1. x \in Int
          BY <2>1, <4>1
        <5>2. reservations \in [DOMAIN reservations -> Reservation]
          BY DEF Tables
        <5> QED BY <2>3, <4>1, <5>1, <5>2, CounterSet
      <4>3. /\ counted'[k].used = counted[k].used \o new
            /\ counted'[k].first = counted[k].first
            /\ ~counted'[k].raced =>
                 ~counted[k].raced /\ reservations[k].counter = loaded.counter
        <5> PICK z : z = (counted[k].raced \/ reservations[k].counter # loaded.counter)
          OBVIOUS
        <5>1. counted' = [counted EXCEPT ![k].used = @ \o new, ![k].raced = z]
          BY <1>3, <2>3 DEF GenerateCommit
        <5> PICK old : old = counted[k]
          OBVIOUS
        <5> PICK longer : longer = old.used \o new
          OBVIOUS
        <5>2. k \in DOMAIN counted /\ DOMAIN old = {"first", "used", "raced"}
          BY <2>3 DEF Tables, Count
        <5>3. counted'[k] = [old EXCEPT !.used = longer, !.raced = z]
          BY <5>1, <5>2
        <5>4. /\ counted'[k].used = longer /\ counted'[k].first = old.first
              /\ counted'[k].raced = z
          BY ONLY <5>2, <5>3
        <5> QED BY <5>4
      <4> QED BY <4>2, <4>3
    <3>3. ~counted'[k].raced => ~counted[k].raced /\ reservations[k].counter = loaded.counter
      BY <3>2
    <3>4. counted[k].used \in Seq(Int) /\ counted[k].first \in Int
      BY <2>3 DEF Tables, Count
    <3>5. ASSUME ~counted'[k].raced
          PROVE  /\ reservations'[k].counter = counted'[k].first + Len(counted'[k].used)
                 /\ \A i \in 1..Len(counted'[k].used) :
                      counted'[k].used[i] = counted'[k].first + i - 1
      <4> PICK used : used = counted[k].used
        OBVIOUS
      <4> PICK first : first = counted[k].first
        OBVIOUS
      <4>1. /\ used \in Seq(Int) /\ first \in Int /\ loaded.counter = first + Len(used)
            /\ \A i \in 1..Len(used) : used[i] = first + i - 1
        BY <2>3, <3>3, <3>4, <3>5 DEF CounterUsedOnce
      <4>2. \A i \in 1..Len(new) : new[i] = first + Len(used) + i - 1
        BY <2>1, <4>1
      <4>3. /\ Len(used \o new) = Len(used) + Len(new)
            /\ \A i \in 1..Len(used \o new) : (used \o new)[i] = first + i - 1
        <5>1. new \in Seq(Int)
          BY <2>1
        <5>2. used \in Seq(Int) /\ first \in Int
          BY <4>1
        <5>3. \A i \in 1..Len(used) : used[i] = first + i - 1
          BY <4>1
        <5> QED BY ONLY <4>2, <5>1, <5>2, <5>3, Continued
      <4>4. loaded.counter + n = first + (Len(used) + Len(new))
        <5> PICK m : m = Len(used)
          OBVIOUS
        <5>1. first \in Int /\ m \in Int /\ loaded.counter = first + m
          BY <4>1
        <5>2. n \in Int /\ n = Len(new)
          BY <2>1
        <5>3. (first + m) + n = first + (m + n)
          BY ONLY <5>1, <5>2, Regroup
        <5> QED BY <5>1, <5>2, <5>3
      <4> QED BY <3>2, <4>3, <4>4
    <3> QED BY <3>1, <3>5 DEF CounterUsedOnce
  <2> QED BY <2>2, <2>3
<1>4. CASE UNCHANGED <<reservations, counted>>
  BY <1>4 DEF CounterUsedOnce
<1> QED BY <1>1, <1>2, <1>3, <1>4, Writers

(* A reservation goes through its counters one by one and uses none twice,  *)
(* unless two generations from it overlapped.                               *)
THEOREM CountersAreUsedOnce == Spec => []CounterUsedOnce
<1>1. Init => CounterUsedOnce
  BY DEF Init, CounterUsedOnce
<1> QED BY <1>1, CounterStep, TypesHold, PTL DEF Spec

-----------------------------------------------------------------------------
(* A positive multiple of a number is at least that number.                 *)
LEMMA Multiple ==
  ASSUME NEW s \in Nat \ {0}, NEW d \in Int, 0 < s * d
  PROVE  s <= s * d
<1>1. d > 0
  <2>1. CASE d <= 0
    BY <2>1
  <2> QED BY <2>1
<1>2. s * d = s * (d - 1) + s
  OBVIOUS
<1>3. s * (d - 1) >= 0
  BY <1>1
<1>4. s * (d - 1) \in Int /\ s * d \in Int
  OBVIOUS
<1> QED BY <1>2, <1>3, <1>4
(* Numbers closer than the modulus have different remainders.              *)
LEMMA Residues ==
  ASSUME NEW s \in Nat \ {0}, NEW a \in Int, NEW b \in Int, 0 < b - a, b - a < s
  PROVE  a % s # b % s
<1> SUFFICES ASSUME a % s = b % s PROVE FALSE
  OBVIOUS
<1>1. a = s * (a \div s) + (a % s) /\ a \div s \in Int /\ a % s \in Int
  OBVIOUS
<1>2. b = s * (b \div s) + (b % s) /\ b \div s \in Int
  OBVIOUS
<1> DEFINE x == a \div s
<1> DEFINE y == b \div s
<1> HIDE DEF x, y
<1>3. b - a = s * (y - x)
  <2>1. s * (y - x) = s * y - s * x
    BY <1>1, <1>2 DEF x, y
  <2>2. s * y \in Int /\ s * x \in Int
    BY <1>1, <1>2 DEF x, y
  <2> QED BY <1>1, <1>2, <2>1, <2>2 DEF x, y
<1>4. s <= s * (y - x)
  BY <1>1, <1>2, <1>3, Multiple DEF x, y
<1> QED BY <1>3, <1>4

(* Two hosts of a range are different if their counters are closer than it  *)
(* is wide.                                                                 *)
LEMMA HostsDiffer ==
  ASSUME NEW pattern \in Patterns, pattern.size # 0, NEW c \in Int, NEW d \in Int,
         0 < d - c, d - c < Width(pattern)
  PROVE  HostOf(pattern, c) # HostOf(pattern, d)
<1>1. pattern.low \in Int /\ pattern.size \in Int
  BY ConstantsAssumption
<1> PICK low, size : low = pattern.low /\ size = pattern.size
  OBVIOUS
<1>2. CASE size > 0
  <2> DEFINE a == c - 1
             b == d - 1
  <2>1. a \in Int /\ b \in Int /\ 0 < b - a /\ b - a < size /\ size \in Nat \ {0}
    BY <1>1, <1>2 DEF Width
  <2>2. HostOf(pattern, c) = (a % size) + low /\ HostOf(pattern, d) = (b % size) + low
    BY <1>2 DEF HostOf, Remainder
  <2> HIDE DEF a, b
  <2>3. a % size # b % size
    BY ONLY <2>1, Residues
  <2>4. a % size \in Int /\ b % size \in Int
    BY <2>1
  <2> QED BY <1>1, <2>2, <2>3, <2>4
<1>3. CASE size < 0
  <2> DEFINE s == -size
             a == -(d - 1)
             b == -(c - 1)
  <2>1. a \in Int /\ b \in Int /\ 0 < b - a /\ b - a < s /\ s \in Nat \ {0}
    BY <1>1, <1>3 DEF Width
  <2>2. HostOf(pattern, c) = -(b % s) + low /\ HostOf(pattern, d) = -(a % s) + low
    BY <1>1, <1>3 DEF HostOf, Remainder
  <2> HIDE DEF s, a, b
  <2>3. a % s # b % s
    BY ONLY <2>1, Residues
  <2>4. a % s \in Int /\ b % s \in Int
    BY <2>1
  <2> QED BY <1>1, <2>2, <2>3, <2>4
<1> QED BY <1>1, <1>2, <1>3

(* process_ip_pattern gives out the whole of a range before it gives one of *)
(* its addresses out again, and nothing outside it, wherever the counter    *)
(* starts and whichever way round the range is written.                     *)
THEOREM RangesAreUsedUp == Spec => []RangeUsedUp
<1>1. ASSUME Types, CounterUsedOnce, NEW k \in DOMAIN reservations,
             NEW pattern \in Patterns, pattern.size # 0, NEW used, used = counted[k].used
      PROVE  \A i, j \in 1..Len(used) :
               /\ HostOf(pattern, used[i]) \in Span(pattern)
               /\ ~counted[k].raced /\ i < j /\ j - i < Width(pattern)
                    => HostOf(pattern, used[i]) # HostOf(pattern, used[j])
  <2>1. used \in Seq(Int) /\ counted[k].first \in Int
    BY <1>1 DEF Types, Tables, Count
  <2>2. \A i \in 1..Len(used) : used[i] \in Int
    BY <2>1
  <2>3. ASSUME NEW i \in 1..Len(used), NEW j \in 1..Len(used), ~counted[k].raced, i < j,
               j - i < Width(pattern)
        PROVE  HostOf(pattern, used[i]) # HostOf(pattern, used[j])
    <3>1. used[i] = counted[k].first + i - 1 /\ used[j] = counted[k].first + j - 1
      BY <1>1, <2>3 DEF CounterUsedOnce
    <3>2. used[j] - used[i] = j - i /\ i \in Int /\ j \in Int
      BY <2>1, <3>1
    <3>3. 0 < used[j] - used[i] /\ used[j] - used[i] < Width(pattern)
      BY <2>3, <3>2
    <3> QED BY <1>1, <2>2, <3>3, HostsDiffer
  <2> QED BY <1>1, <2>2, <2>3, HostInRange
<1>2. Types /\ CounterUsedOnce => RangeUsedUp
  BY <1>1 DEF RangeUsedUp
<1> QED BY <1>2, TypesHold, CountersAreUsedOnce, PTL
=============================================================================
