-------------------------- MODULE AddressAllocation --------------------------
(***************************************************************************)
(* Who hands out addresses (src/routers/dhcp_templates.py,                  *)
(* src/routers/bulk_operations.py): the counter of a template reservation,  *)
(* and the bulk assignment of VMs to a subnet, both writing to table        *)
(* static_dhcp_assignments.  Each reads, decides without an await, and      *)
(* commits once.                                                            *)
(*                                                                          *)
(* The role dependency returns no user: create_dhcp_template fails on       *)
(* `current_user.username' before it stores anything, so the templates are  *)
(* those that were inserted without the API (InitialTemplates); the other   *)
(* handlers fail on it after their commit.  delete_vm and the endpoints of  *)
(* static_dhcp.py fail before they change anything: VMs and assignments     *)
(* are never removed.                                                       *)
(*                                                                          *)
(* An address is a subnet and a host number: a pattern fills in {subnet}    *)
(* and one {host:low-high}; host names and MAC addresses are data, except   *)
(* that a random MAC address may clash.                                     *)
(***************************************************************************)
EXTENDS Integers, Sequences, FiniteSets

CONSTANTS
  Subnets,            \* ids of the subnets, which stay
  Patterns,           \* [low, size]: the range {host:low-(low+size-1)}, which
                      \* validate_ip_pattern accepts reversed or empty as well
  InitialTemplates,   \* template id -> pattern
  MaxReservation,     \* bound on reservation ids
  Starts,             \* values of start_counter
  Counts,             \* values of `count' in a generate request
  Machines,           \* machine ids of VMs
  Hosts,              \* host numbers generate_ip_in_subnet draws from
  MaxBatch,           \* bound on the VMs of one bulk request
  MaxCounter,         \* bound on the counters that generations start from
  Requests,
  None,
  Template            \* holder of an assignment made from a template

ASSUME ConstantsAssumption ==
  /\ Patterns \subseteq [low: Nat, size: Int]
  /\ InitialTemplates \in [DOMAIN InitialTemplates -> Patterns]
  /\ MaxReservation \in Nat /\ MaxBatch \in Nat /\ MaxCounter \in Int
  /\ Starts \subseteq Int /\ Counts \subseteq Nat \ {0} /\ Hosts \subseteq Nat
  /\ None \notin Nat /\ Template \notin Machines

TemplateIds    == DOMAIN InitialTemplates
ReservationIds == 1..MaxReservation
Address        == Subnets \X Int
Reservation    == [template: TemplateIds, subnet: Subnets, counter: Int]
Item           == [machine: Machines, host: Hosts \union {None}]
Batches        == UNION {[1..n -> Item] : n \in 1..MaxBatch}
Vm             == [machine: Machines, ip: Address]
Lease          == [ip: Address, holder: Machines \union {Template}]

VARIABLES
  templates,      \* table dhcp_templates: id -> pattern
  reservations,   \* table dhcp_template_reservations: id -> Reservation
  leases,         \* table static_dhcp_assignments, as the set of Leases in it
  vms,            \* table vms_network_config, a set of Vm
  req,            \* what each request slot is doing
  counted         \* history: reservation id -> its first counter, the counters
                  \* used since, and whether two generations overlapped

vars == <<templates, reservations, leases, vms, req, counted>>

Idle == [pc |-> "idle", id |-> 0, row |-> None, count |-> 0, vms |-> <<>>, leased |-> FALSE]

Init ==
  /\ templates = InitialTemplates
  /\ reservations = [k \in {} |-> None]
  /\ leases = {}
  /\ vms = {}
  /\ req = [r \in Requests |-> Idle]
  /\ counted = [k \in {} |-> None]

-----------------------------------------------------------------------------
FreshId(table, n) == /\ \A k \in DOMAIN table : k < n
                     /\ n = 1 \/ n - 1 \in DOMAIN table
Put(table, n, row) == [k \in DOMAIN table \union {n} |-> IF k = n THEN row ELSE table[k]]
Remove(table, n)   == [k \in DOMAIN table \ {n} |-> table[k]]

Finish(r) == req' = [req EXCEPT ![r] = Idle]
GoTo(r, phase) == req' = [req EXCEPT ![r].pc = phase]
Begin(r, phase, id, row, count) ==
  /\ req[r].pc = "idle"
  /\ req' = [req EXCEPT ![r] = [Idle EXCEPT !.pc = phase, !.id = id,
                                            !.row = row, !.count = count]]

(* Python's remainder has the sign of the divisor.                          *)
Remainder(a, n) == IF n > 0 THEN a % n ELSE -((-a) % (-n))

(* Mutated: a counter past the range stays at its end.                      *)
HostOfClamped(pattern, counter) ==
  IF counter <= pattern.size THEN counter - 1 + pattern.low
  ELSE pattern.low + pattern.size - 1

(* process_ip_pattern; the range is not empty.                              *)
HostOf(pattern, counter) == Remainder(counter - 1, pattern.size) + pattern.low

(* Mutated: the counter goes into {subnet}.                                 *)
AddressOfSwapped(pattern, subnet, counter) == <<HostOf(pattern, counter), subnet>>

AddressOf(pattern, subnet, counter) == <<subnet, HostOf(pattern, counter)>>

-----------------------------------------------------------------------------
(* update_dhcp_template and delete_dhcp_template.                           *)
TemplateLoad(r, t, pattern) ==
  /\ t \in DOMAIN templates
  /\ templates[t] # pattern
  /\ Begin(r, "template_commit", t, pattern, 0)
  /\ UNCHANGED <<templates, reservations, leases, vms, counted>>

TemplateCommit(r) ==
  /\ req[r].pc = "template_commit"
  /\ templates' = IF req[r].id \in DOMAIN templates
                  THEN [templates EXCEPT ![req[r].id] = req[r].row]
                  ELSE templates                          \* StaleDataError
  /\ Finish(r)
  /\ UNCHANGED <<reservations, leases, vms, counted>>

TemplateDeleteCheck(r, t) ==
  /\ t \in DOMAIN templates
  /\ \A k \in DOMAIN reservations : reservations[k].template # t
  /\ Begin(r, "template_delete", t, None, 0)
  /\ UNCHANGED <<templates, reservations, leases, vms, counted>>

TemplateDelete(r) ==
  /\ req[r].pc = "template_delete"
  /\ templates' = Remove(templates, req[r].id)
  /\ Finish(r)
  /\ UNCHANGED <<reservations, leases, vms, counted>>

-----------------------------------------------------------------------------
(* create_template_reservation and delete_template_reservation.             *)
SamePlace(a, b) == a.template = b.template /\ a.subnet = b.subnet

ReserveCheck(r, t, s, start) ==
  /\ t \in DOMAIN templates
  /\ LET row == [template |-> t, subnet |-> s, counter |-> start]
     IN /\ \A k \in DOMAIN reservations : ~SamePlace(reservations[k], row)
        /\ Begin(r, "reserve_insert", 0, row, 0)
  /\ UNCHANGED <<templates, reservations, leases, vms, counted>>

ReserveInsert(r) ==
  /\ req[r].pc = "reserve_insert"
  /\ IF \E k \in DOMAIN reservations : SamePlace(reservations[k], req[r].row)
     THEN UNCHANGED <<reservations, counted>>             \* IntegrityError
     ELSE \E n \in ReservationIds :
            /\ FreshId(reservations, n)
            /\ reservations' = Put(reservations, n, req[r].row)
            /\ counted' = Put(counted, n, [first |-> req[r].row.counter, used |-> <<>>,
                                           raced |-> FALSE])
  /\ Finish(r)
  /\ UNCHANGED <<templates, leases, vms>>

ReservationDelete(k) ==
  /\ k \in DOMAIN reservations
  /\ reservations' = Remove(reservations, k)
  /\ counted' = Remove(counted, k)
  /\ UNCHANGED <<templates, leases, vms, req>>

-----------------------------------------------------------------------------
(* generate_reservations_from_template: the join needs the template, and    *)
(* the first address of an empty range is a ZeroDivisionError.              *)
GenerateLoad(r, k, count) ==
  /\ k \in DOMAIN reservations
  /\ reservations[k].template \in DOMAIN templates
  /\ templates[reservations[k].template].size # 0
  /\ reservations[k].counter <= MaxCounter
  /\ Begin(r, "generate_commit", k,
           [reservation |-> reservations[k],
            pattern |-> templates[reservations[k].template]], count)
  /\ UNCHANGED <<templates, reservations, leases, vms, counted>>

(* The counters one call goes through, from the value loaded.               *)
Counters(r) == [i \in 1..req[r].count |-> req[r].row.reservation.counter + i - 1]

(* Mutated: the counter stops one short.                                    *)
NextCounterShort(r) == req[r].row.reservation.counter + req[r].count - 1

NextCounter(r) == req[r].row.reservation.counter + req[r].count

(* The UPDATE sets the counter to a number, not to one more than it is.     *)
GenerateCommit(r) ==
  /\ req[r].pc = "generate_commit"
  /\ LET k == req[r].id
         loaded == req[r].row.reservation
     IN IF k \notin DOMAIN reservations
        THEN UNCHANGED <<reservations, leases, counted>>  \* StaleDataError
        ELSE /\ leases' = leases \union
                  {[ip |-> AddressOf(req[r].row.pattern, loaded.subnet, Counters(r)[i]),
                    holder |-> Template] : i \in 1..req[r].count}
             /\ reservations' = [reservations EXCEPT ![k].counter = NextCounter(r)]
             /\ counted' = [counted EXCEPT
                  ![k].used = @ \o Counters(r),
                  ![k].raced = @ \/ reservations[k].counter # loaded.counter]
  /\ Finish(r)
  /\ UNCHANGED <<templates, vms>>

-----------------------------------------------------------------------------
(* assign_vms_to_subnet                                                     *)
BulkVms(r, s) ==
  /\ req[r].pc = "idle"
  /\ s \in Subnets
  /\ req' = [req EXCEPT ![r] = [Idle EXCEPT !.pc = "bulk_plan", !.id = s, !.row = vms]]
  /\ UNCHANGED <<templates, reservations, leases, vms, counted>>

(* chosen: the hosts of the accepted VMs, by their place in the batch.  A   *)
(* VM is refused if its machine was known, if its address is taken, or if   *)
(* none is left to draw.  The machines of the batch itself are not looked   *)
(* at, its addresses are.                                                   *)
Outcome(batch, chosen, machines, taken) ==
  /\ DOMAIN chosen \subseteq DOMAIN batch
  /\ \A i \in DOMAIN batch :
       LET used == taken \union {chosen[j] : j \in {n \in DOMAIN chosen : n < i}}
           free == (IF batch[i].host = None THEN Hosts ELSE {batch[i].host}) \ used
       IN IF batch[i].machine \in machines \/ free = {}
          THEN i \notin DOMAIN chosen
          ELSE i \in DOMAIN chosen /\ chosen[i] \in free

(* The assignments of the subnet are read after the VMs.                    *)
BulkPlan(r, batch, leased) ==
  /\ req[r].pc = "bulk_plan"
  /\ LET s == req[r].id
         held == {v.ip : v \in req[r].row} \union {l.ip : l \in leases}
         taken == {a[2] : a \in {b \in held : b[1] = s}}
     IN \E accepted \in SUBSET DOMAIN batch : \E chosen \in [accepted -> Hosts] :
          /\ Outcome(batch, chosen, {v.machine : v \in req[r].row}, taken)
          /\ IF accepted = {} THEN Finish(r)
             ELSE req' = [req EXCEPT
                    ![r].pc = "bulk_commit", ![r].row = None, ![r].leased = leased,
                    ![r].vms = [i \in accepted |->
                                  [machine |-> batch[i].machine, ip |-> <<s, chosen[i]>>]]]
  /\ UNCHANGED <<templates, reservations, leases, vms, counted>>

(* vms_network_config: machine_id, internal_ip and mac_address are UNIQUE.  *)
Collides(new) ==
  \E i \in DOMAIN new :
    \/ \E v \in vms : v.machine = new[i].machine \/ v.ip = new[i].ip
    \/ \E j \in DOMAIN new \ {i} : new[j].machine = new[i].machine

(* Mutated: the VMs and the assignments are committed apart.                *)
BulkCommitApart(r, clash) ==
  /\ req[r].pc = "bulk_commit"
  /\ leases' = IF req[r].leased
               THEN leases \union {[ip |-> req[r].vms[i].ip, holder |-> req[r].vms[i].machine] :
                                     i \in DOMAIN req[r].vms}
               ELSE leases
  /\ vms' = IF clash \/ Collides(req[r].vms) THEN vms
            ELSE vms \union {req[r].vms[i] : i \in DOMAIN req[r].vms}
  /\ Finish(r)
  /\ UNCHANGED <<templates, reservations, counted>>

(* One commit for all of them; clash: a random MAC address is taken.        *)
BulkCommit(r, clash) ==
  /\ req[r].pc = "bulk_commit"
  /\ LET new == req[r].vms
     IN IF clash \/ Collides(new)
        THEN UNCHANGED <<vms, leases>>                    \* IntegrityError
        ELSE /\ vms' = vms \union {new[i] : i \in DOMAIN new}
             /\ leases' = IF req[r].leased
                          THEN leases \union {[ip |-> new[i].ip, holder |-> new[i].machine] :
                                                 i \in DOMAIN new}
                          ELSE leases
  /\ Finish(r)
  /\ UNCHANGED <<templates, reservations, counted>>

-----------------------------------------------------------------------------
Templates(r) ==
  \/ \E t \in TemplateIds, pattern \in Patterns : TemplateLoad(r, t, pattern)
  \/ TemplateCommit(r)
  \/ \E t \in TemplateIds : TemplateDeleteCheck(r, t)
  \/ TemplateDelete(r)

Reserve(r) ==
  \/ \E t \in TemplateIds, s \in Subnets, start \in Starts : ReserveCheck(r, t, s, start)
  \/ ReserveInsert(r)

Generate(r) ==
  \/ \E k \in ReservationIds, count \in Counts : GenerateLoad(r, k, count)
  \/ GenerateCommit(r)

Bulk(r) ==
  \/ \E s \in Subnets : BulkVms(r, s)
  \/ \E batch \in Batches, leased \in BOOLEAN : BulkPlan(r, batch, leased)
  \/ \E clash \in BOOLEAN : BulkCommit(r, clash)

Next ==
  \/ \E k \in ReservationIds : ReservationDelete(k)
  \/ \E r \in Requests : Templates(r) \/ Reserve(r) \/ Generate(r) \/ Bulk(r)

Spec == Init /\ [][Next]_vars

-----------------------------------------------------------------------------
Phases == {"idle", "template_commit", "template_delete", "reserve_insert",
           "generate_commit", "bulk_plan", "bulk_commit"}

(* Type invariant of the four tables and the request slots                  *)
(* (models.DHCPTemplate, DHCPTemplateReservation, StaticDHCPAssignment,     *)
(* VMNetworkConfig).                                                        *)
TypeOK ==
  /\ DOMAIN templates \subseteq TemplateIds /\ templates \in [DOMAIN templates -> Patterns]
  /\ DOMAIN reservations \subseteq ReservationIds
  /\ reservations \in [DOMAIN reservations -> Reservation]
  /\ leases \subseteq Lease /\ vms \subseteq Vm
  /\ DOMAIN counted = DOMAIN reservations
  /\ \A k \in DOMAIN counted :
       counted[k] \in [first: Int, used: Seq(Int), raced: BOOLEAN]
  /\ DOMAIN req = Requests
  /\ \A r \in Requests : req[r].pc \in Phases

(* The unique key of models.DHCPTemplateReservation holds although two      *)
(* creations may both have looked before either stored its row.             *)
UniqueReservations ==
  \A i, j \in DOMAIN reservations : i # j => ~SamePlace(reservations[i], reservations[j])

(* A reservation goes through its counters one by one, from its first to    *)
(* the one before its current value, and uses none twice, unless two        *)
(* generations from it overlapped (the absolute value written by            *)
(* generate_reservations_from_template loses one of them).                  *)
CounterUsedOnce ==
  \A k \in DOMAIN reservations :
    ~counted[k].raced =>
      /\ reservations[k].counter = counted[k].first + Len(counted[k].used)
      /\ \A i \in 1..Len(counted[k].used) : counted[k].used[i] = counted[k].first + i - 1

(* The hosts a range stands for, and how many they are; a reversed range    *)
(* leaves out its lower end and the host after it.                          *)
Span(pattern)  == IF pattern.size > 0 THEN pattern.low..(pattern.low + pattern.size - 1)
                  ELSE (pattern.low + pattern.size + 1)..pattern.low
Width(pattern) == IF pattern.size > 0 THEN pattern.size ELSE -pattern.size

(* process_ip_pattern gives out the whole of a range before it gives one of *)
(* its addresses out again, and nothing outside it, wherever the counter    *)
(* starts and whichever way round the range is written.                     *)
RangeUsedUp ==
  \A k \in DOMAIN reservations : \A pattern \in {p \in Patterns : p.size # 0} :
    LET used == counted[k].used
    IN \A i, j \in 1..Len(used) :
         /\ HostOf(pattern, used[i]) \in Span(pattern)
         /\ ~counted[k].raced /\ i < j /\ j - i < Width(pattern)
              => HostOf(pattern, used[i]) # HostOf(pattern, used[j])

(* No two VMs share a machine id or an address, although overlapping        *)
(* batches plan from what they read before and a batch does not look at its *)
(* own machine ids: the constraints of models.VMNetworkConfig reject it     *)
(* whole.                                                                   *)
UniqueVms ==
  \A v, w \in vms : v # w => v.machine # w.machine /\ v.ip # w.ip

(* An assignment made for a machine is the address of its VM: the rows of a *)
(* batch are stored together or not at all (assign_vms_to_subnet).          *)
LeaseBackedByVm ==
  \A l \in leases : l.holder # Template => [machine |-> l.holder, ip |-> l.ip] \in vms
=============================================================================
