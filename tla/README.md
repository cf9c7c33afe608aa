# Specifications of the VyOS VM network automation API

This directory holds TLA+ models of the API server in this repository, the TLC
configurations that check them and the TLAPS proofs about them. `src/` below is
the repository.

The server is one FastAPI process. Its handlers are coroutines on one event
loop; each request has a database session of its own (SQLAlchemy over SQLite),
and most requests that change something change two stores: a table of the
database and the configuration of a VyOS router, reached over HTTPS with a 30 s
timeout. No transaction spans the two, nothing reconciles them later, and every
`await` lets other requests run. That is what the models are about.

## 1. Inventory

| Component | State | Operations | Hard behaviour | What makes it correct |
|---|---|---|---|---|
| Static routes (`crud.py` 773-939, `routers/static_routes.py`) | table `static_routes`; routes on the router | create, update, delete | router first, then COMMIT; update is delete + set; overlapping requests; lost answers; restart; reuse of row ids | a table with a unique key and owners for life; router and table agree |
| Scheduled tasks (`utils_scheduled_runner.py`, `crud_scheduled.py`, `routers/scheduled.py`) | table `scheduled_tasks`; the runner's place in its loop | create, set status, delete; poll, run, write back, reschedule | API calls during a handler; two commits per run; one task per poll; restart | run once, keep recurring, not too often, no starvation, cancel holds |
| Subnets and connection rules (`routers/subnets.py`, `routers/subnet_connections.py`, generators of `vyos_core.py`) | two tables; firewall policies; the one policy slot of `eth1 in` | create, update, delete of both | one order per handler; errors inside error branches; shared slot | isolated subnets have their policy and no other subnet has one, the slot names a policy that exists |
| Firewall policies and rules (`crud.py` 416-771, `routers/firewall.py`) | two tables; rule sets on the router | create, update, rename, delete | database first, router second; requests that end between the two; cascade collected before the COMMIT | rules in force, no rule without a policy |
| Port mappings (`routers/port_mapping.py`) | table `subnet_port_mappings` | create, update with rollback call, delete | two router calls between load and COMMIT; reuse of row ids; the commands are a placeholder | a mapping stays with its subnet |
| VMs, quotas, port and NAT numbers (`crud.py` 102-301, `crud_quota.py`, `routers/quota.py`, their callers in `routers_legacy.py` 160-374) | tables of quotas, VMs, port rules | provision a VM, set a quota, allocate a port rule, decommission | test before an await, write after; expired objects; a rule stored while its VM goes | no number handed out that is in use, one rule of a type, rules have their VM |
| DHCP templates, bulk assignment (`routers/dhcp_templates.py`, `routers/bulk_operations.py`) | templates, counters, assignments, VMs | change and delete templates; reserve, generate; assign a batch | read-then-write of counters; a plan made from three reads | a counter is used once, a range is used up, VMs and assignments are stored together |
| Users, API keys (`auth.py`, `crud.py` 314-414) | tables `users`, `api_keys`, rows that name an account | register, rename, delete; create and delete keys | first registration becomes administrator; cascades collected before the COMMIT | one bootstrap administrator, nothing left behind, the journal survives |
| Notifications (`crud_journal.py`, `crud_notifications.py`, `utils_notify_dispatch.py`, `routers/__init__.py` 77-105) | tables of rules and history; tasks that deliver | add and remove rules; deliver and record | a task that outlives its request's session; removal during a delivery | every matching rule is served, history shows under its rule |
| Change journal (`crud_journal.py`) | table `change_journal` | append | values read before or after the commit | `before` is what was there before |
| Rate limiter (`utils_ratelimit.py`) | times per (address, path) | one decision per request | pruning, boundary of the window | at most 5 in 60 s, no refusal without cause |
| Router API client (`vyos_core.py` 14-41) | none | one call | timeout after the router applied it | an error means an error |
| Task store (`vyos_core.py` 227-260) | dictionary | submit, run, read | restart | a submitted task ends |
| Metrics, analytics, topology, HA/DR records, secrets, integrations, RBAC | rows | CRUD | none | - |
| Static DHCP (`routers/static_dhcp.py`) | - | raw SQL that does not fit the schema | - | - |
| `routers_legacy.py` (its VM and port handlers are above), `admin.py`, `mcp.py`, `vyos.py`, `status.py` | - | not mounted by `main.py` | - | - |

Components meet through the database (VMs and assignments are written by bulk
assignment and by templates; an account's rows go with it), through the router
(isolation and connection policies share an interface slot) and through direct
calls (a route's update writes a journal entry, which starts the notification
task). The hazards, each with its line, are listed in `PROJECT.json`.

Two facts about the libraries matter everywhere:

* **Sessions expire on commit** (`config.py` sets no `expire_on_commit=False`).
  Reading an attribute of an object loaded before a commit needs a reload that
  an async session cannot make there, and raises. Handlers that do so have
  committed by then: the change stays and the client sees 500. The tests use
  `expire_on_commit=False` (`tests/conftest.py`) and do not see it.
* **`RoleChecker.__call__` returns nothing** (`auth.py` 82-100), so
  `current_user = Depends(admin_netadmin_roles)` is `None` in the routers of
  subnets, connection rules, mappings, bulk operations and templates, and
  `audit_log_action(user=current_user.username, ...)` raises. An `except`
  branch that logs and means to go on ends the request instead.

## 2. Modules

| Module | Models | Runs |
|---|---|---|
| `RouteTable` | abstract: what users of static routes may count on | `routes_concurrent` (`ImplementsTable`) |
| `StaticRoutes` | static routes against the router | `routes_*` through `MCStaticRoutes` |
| `ScheduledTasks` | the runner and the task API | `sched` through `MCScheduledTasks` |
| `SubnetIsolation` | subnets, connection rules, policies | `subnets_*` through `MCSubnetIsolation` |
| `Accounts` | users, API keys, and what a deletion does to other tables | `accounts` through `MCAccounts` |
| `AddressAllocation` | templates, reservations, generation, bulk assignment | `addresses` through `MCAddressAllocation` |
| `FirewallPolicies` | policies and rules against the router | `firewall` through `MCFirewallPolicies` |
| `PortMappings` | port mappings | `services` |
| `VmProvisioning` | quotas, VMs, port rules and their numbers | `services` |
| `Notifications` | rules, deliveries, history | `services` |
| `Services` | the last three side by side | `services` through `MCServices` |
| `RateLimiter` | the request limiter | `limiter` through `MCRateLimiter` |
| `*_proofs` (8) | theorems about the module they are named after | TLAPS |

### How handlers become actions

A request is a slot (`req[r]`, `call[r]`, `op[r]`, `job[r]`) with a phase `pc`
and the handler's locals. One action goes from one `await` to the next; between
two actions any other slot may move. The actions are named after the handler
and what its `await` was for: `UpdateLoad` (the SELECT and everything computed
from it), `UpdateDelete` and `UpdateSet` (the two router calls),
`UpdateCommit`, `UpdateJournal`. Conditions that end a handler without a change
(404, 403, 409) are guards.

A router call ends in one of three ways (`Answers`): `"ok"`, `"refused"`
(nothing applied) or `"lost"` (applied, but the caller sees an error: the 30 s
timeout). `Crash` empties every slot and keeps tables and router.

A COMMIT writes what SQLAlchemy writes: the columns that differ from the values
loaded (`Written`, `Merged`), to the row that has the id now. An UPDATE of a
missing row fails, a DELETE of one does not. A cascade removes the rows that
`db.delete` found, not those stored since (`found`, `rows`). `FreshId` is
SQLite's allocation: one more than the largest id in the table, so the id of a
deleted last row is given out again.

In `ScheduledTasks` the runner is one record with its place in the loop;
times are stored relative to the present so that the clock need not be bounded.
API calls are single steps: they read a row and write it by id, and the read
only decides the 404.

In `AddressAllocation` a range is its first host and its signed size, because
`validate_ip_pattern` accepts `{host:200-100}` and `{host:100-99}` as well:
`Remainder` is Python's `%`, which takes the sign of the divisor, so a reversed
range is folded into other hosts than its text names, and a generation from an
empty one divides by zero before it stores anything.

In `VmProvisioning` the COMMIT's expiry decides how far a handler gets:
`provision_vm` ends right after it has stored the VM (`ProvisionEnds`), on
`quota.usage` (`crud.py` 131) or on `vm.internal_ip` (`routers_legacy.py` 185,
192), so its loop that stores rules without looking for one is never reached,
and `template_ports` stores at most one rule per request. `decommission_vm`
deletes by id the rules it found, and the relationship `VMNetworkConfig.ports`,
which does not cascade, takes the VM out of those stored since.

In `PortMappings` a router call is only its outcome: the generator of its
commands returns none, so a call can fail but configures nothing.

In `Notifications` a delivery is a task with a place in its loop (`via` says
whether a journal entry or `create_vpn` started it), and closing the request's
session is an event of its own: if it comes after the task loaded the rules and
before its first COMMIT, the rules are detached with their values and the loop
can go on; otherwise the COMMIT expires them and the next one cannot be read.

In `RateLimiter` a decision is one step, because `dispatch` has no `await`
before it. The list of times is a set of positions in the history of what was
let through.

History variables say what a property allows for: `disturbed` (requests
overlapped or an answer was lost), `drifted`, `broken` and `unapplied` (rows
whose own change failed half way), `cut` and `released` (what a restart or an
un-isolation left on the router), `late` (rows stored behind a deletion's back),
`overtaken`, `bereft` and `unowned` (rules stored, and VMs removed, since a
request looked), `raced` (counters two requests worked on), `cancelled`,
`counted`, `starts`. No action reads them.

Operators preceded by a comment that begins with "Mutated:" are not part of
the specification. They are plausible mistakes in the operator below them,
listed in `PROJECT.json`; with the mistake in its place, the run named there
reports the property named there as violated.

### Composition and refinement

`Services` puts three components into one specification: it extends
`VmProvisioning` and instantiates `PortMappings` and `Notifications`. They share
neither a table nor a part of the router's configuration, so an action of one
leaves the state of the others alone, and every property is about one of them.
An interleaving of the three projects to a behaviour of each, so following one
component (`focus`) while the others rest reaches every state that a property
can tell apart, without the product of the three state spaces.

Components that do meet are in one module, because there the composition is
what matters: subnets and connection rules with the interface slot they share
(`SubnetIsolation`), templates and bulk assignment with the table of assignments
they share (`AddressAllocation`), accounts with the rows of other components
that name them (`Accounts`), journal entries and tunnels with the notification
task they start (`Notifications`).

`RouteTable` is the promise behind the four-step handlers of `StaticRoutes`: a
table in which a row appears under a new id, changes in place keeping its
owner, and disappears, one at a time, with a unique key. `ImplementsTable` is
`RouteTable!Spec` with `rows` the table; that every step of the handlers is a
step of it or a stutter is checked by TLC in `routes_concurrent` and proved for
all constants (`HandlersImplementTable`).

## 3. Runs

Passing runs:

| Run | Question | Bounds |
|---|---|---|
| `routes_serial` | type correctness; without overlap no path on the router lacks a row, but one a restart kept from being stored; a row lacks its path only after a change that failed, or was cut off by a restart, half way | 1 user, 2 destinations, 2 hops, distance NULL or 1, 3 ids, 1 slot, ok/refused, restarts |
| `routes_concurrent` | owners, and the abstract table with its unique key, whatever overlaps | 2 users, 2 slots, restarts, lost answers |
| `sched` | one-off tasks run once, recurrence is kept, intervals are respected, a cancelled task stays off the schedule unless a recurring run of its id is under way, every due task is served | 2 tasks, intervals of 1 and 4 ticks, polls of up to 2 ticks, 1 tick between polls, 1 restart, cancel and delete at any time |
| `subnets_serial` | an isolated subnet has its policy unless its creation failed on the router or a restart cut it off; no policy outlives its subnet's isolation but by the update that ends it or by a restart | 2 names, 2 ids, 1 rule, 1 slot, ok/refused, restarts |
| `subnets_concurrent` | type correctness; the interface names an existing policy | 1 name, 2 services (one with NULL ports), 2 rules, 2 slots, all answers, restarts |
| `accounts` | the number of accounts, what a deletion leaves behind, whether the journal survives it, who can delete the last account | 3 names, 3 account ids, 2 slots, 1 row of each table |
| `addresses` | counters used once, ranges used up, VMs and assignments stored together | 1 subnet, 1 template with three ranges to choose from (2-4, reversed 6-2, empty 4-3), 2 reservations, generations of 2 from counters up to 2, batches of up to 2 VMs, 2 slots |
| `firewall` | a rule has its policy; while requests come one at a time and no answer is lost, rules go missing from the router only by a failed update of the rule or a rename | 2 users, names, values, policies and rules, 1 number, 2 slots, all answers |
| `services` | mappings, port rules and their numbers, deliveries (below) | 1 quota, 2 VMs, 3 port rules, 2 rows of the other tables, 2 slots, 2 machines, 1 port type, ports 1-2, NAT numbers 1-3, all answers, 1 delivery |
| `limiter` | the window, and refusals only with cause | 2 keys, limit 2, window 3, 7 ticks, 5 admissions per key |

What `services` asks: a mapping never moves to another subnet, although updates
commit by an id that may have been given out again (`SubnetKept`); a request
about to store a port rule meets a unique column (`CollisionNeedsOverlap`) or a
rule of its VM and type (`SecondRuleNeedsOverlap`) only in a rule stored since
it looked, so that neither helper hands out a number in use and requests that
do not overlap never collide; a rule names a stored VM or none, unless it was
stored for a VM removed since it was loaded (`RulesHaveVm`); which rules a
journal entry reaches (`FirstOrAllServed`), under which rule its record shows
(`HistoryOfItsRule`), and what the client of `create_vpn` is told (`VpnReply`).

Why the bounds are enough: two slots give every pairwise overlap of two
handlers, and no handler looks at a third request; two rows are the fewest for
which a key can clash, an id be reused or a task starve another; a third id
lets a create overlap another while a row exists (`Room` and `CreateCheck`
start a create only when each slot would find an id). With one name two
overlapping creations of a subnet already compete for it; what one name leaves
out is a rename that races another. In `sched` an interval of 1 is shorter than
a poll and one of 4 longer than a poll and the pause, so a recurring task may
be due again at every poll (and starve the row after it) or not. Three NAT
numbers and two ports let a request see a number that another has chosen but
not stored, and run out of ports; a quota with limit and usage 0 or 1 is used up
or not. One delivery is enough because deliveries
meet only in the tables: another one adds history rows, which nothing in the
loop reads. In `addresses` two generations of two addresses go around a
range of three, written either way round, and one does not. Limit 2 and
window 3 let a request fall on each side of a window's edge. `firewall` and
`services` set `CHECK_DEADLOCK FALSE`: their bounds are so tight that two
creations in flight may wait for the one id that is left, and quotas and
deliveries give none back. `VIEW`s leave out
history variables that the run does not ask about and no action reads; symmetry
sets are used only where every property is a safety property.

Runs that find what the code does otherwise than the repository's text says
(`findings` quotes the lines):

| Run | Contradicts | What happens |
|---|---|---|
| `routes_own_update` | "Users can only update their own routes" (`routers/static_routes.py` 99) | permission checked on one row, COMMIT hits the row that took its id |
| `subnets_in_force` | "hosts in this subnet cannot see hosts in other subnets" (`docs/user/subnet-management.md` 50) | one slot, the last policy wins |

Other disagreements that the models contain and no run is spent on, because each
is certain once its step is taken:

* The status "cancelled" (`models.py` 444): a task cancelled while its handler
  runs is set to completed and, if it recurs, scheduled again. The second is the
  one loss that `CancelHolds` allows (`Reschedules`).
* "DB entry not deleted to maintain consistency" (`crud.py` 917): a delete whose
  answer is lost keeps the row of a route that the router has removed. A create
  whose answer is lost leaves a path that no row names.
* "Create a schema representing the final state for VyOS 'set' command"
  (`crud.py` 844): two overlapping updates, one of the destination and one of
  the next hop, store a path that neither configured (`Written`).
* The journal entry of a route's update has the new values in `before`
  (`crud.py` 887; `UpdateJournal` reads the table, `DeleteJournal` the values
  loaded).
* "Remove isolation rules if they exist" (`routers/subnets.py` 207): the test is
  of the flag, so a subnet that was un-isolated before it is deleted leaves its
  policy behind.
* "Log but proceed with deletion" (`routers/subnets.py` 220): the log call
  raises and the row stays (`DeleteIsolationStep`).
* "Apply rule to VyOS if enabled" (`routers/subnet_connections.py` 73): the
  handler reads an expired row and ends before the call (`ConnectInsert`).
* "A connection rule with these parameters already exists"
  (`routers/subnet_connections.py` 54): two overlapping creations of a rule
  without ports are both stored, because NULLs escape the unique constraint; so
  is an update that makes one rule equal to another without ports (`Switched`).
* Un-isolating a subnet makes no router call (`routers/subnets.py` 150-167): the
  policy stays (`released`).
* "Each reservation tracks its own counter" (`docs/user/dhcp-templates.md` 155):
  two overlapping generations read one value and hand out the same addresses;
  two reservations of templates with overlapping ranges do so without any
  overlap in time, as nothing compares a generated address with those given out.
  The template's `start_range` and `end_range` are stored and never used.
* "Let the system automatically assign IPs when possible to avoid conflicts"
  (`docs/user/bulk-operations.md` 115): generation from a template does not look
  at the addresses of VMs.
* "successful assignments are committed even if some fail"
  (`docs/user/bulk-operations.md` 124): a machine named twice in a batch, or
  taken by an overlapping one, makes the one COMMIT fail for all (`BulkCommit`).
* `create_firewall_policy` and `update_firewall_policy` end in an error after
  their COMMIT and before the router call, because the journal's JSON column
  cannot hold the enum member: the router never hears of a new policy or a
  rename. The endpoints that create, change and delete rules leave out
  `policy_name` and end in TypeError.
* `generate_port_forward_commands` (`vyos_core.py` 112) is a placeholder that
  returns no commands: mappings and port rules are recorded and never
  configured, and the rollback call of an update rolls nothing back.
* With the service's own sessions `create_vm` fails on `quota.usage` after it
  has stored the VM: quotas never count, and usage is what `PATCH /quota` sets.
  The rest of `provision_vm` fails on `vm.internal_ip` before it stores a rule
  (`ProvisionEnds`). The tests' sessions keep what they loaded and do not see
  it. A second quota row for a user makes `get_quota` fail before.
* "VM {machine_id} and all NAT rules removed" (`routers_legacy.py` 374): a rule
  stored since `decommission_vm` looked is not deleted with its VM but loses it (`Disowned`), and keeps its port and number for good.
* A reversed range such as `{host:200-100}` passes `validate_ip_pattern`
  (`routers/dhcp_templates.py` 35) and is folded into the hosts from 102 to 200;
  `{host:100-99}` passes too, and generating from it ends in ZeroDivisionError.
* A journal entry is delivered to the first matching notification rule only,
  unless the request that wrote it closes its session in time
  (`FirstOrAllServed`). `create_vpn` reports an error for a tunnel that was
  made when two or more rules wait for `create`, and ends in 500 when two or
  more wait for `failure` (`VpnReply`).
* Deleting an account removes its routes and firewall policies from the tables
  and leaves them on the router (`Accounts` models the tables only). An account
  that has a scheduled task cannot be deleted at all.

### Fairness

Only `sched` assumes any, and only `DueTaskServed` needs it: weak fairness of
the runner's step and of the clock (`FairSpec`). The runner is a coroutine of
the event loop that sleeps, awaits handlers that end (the one registered sleeps
for a second) and catches every exception, so it is never held up for ever;
`MaxRun` says that a poll ends within that many ticks. Nothing is assumed of
clients, and restarts are bounded by `MaxCrashes`. A poll serves one task and
starts from the first row, so a task after one that is due again at every poll
may wait for ever; `DueTaskServed` excepts exactly that (`Hogs`: an interval no
longer than a poll and the pause after it), and its mutant shows that nothing
weaker would do.

## 4. Proofs

Each theorem holds for all constants that satisfy `ConstantsAssumption`, unless
assumptions are named. An invariant that is not inductive is proved with the
strengthening named here.

`StaticRoutes_proofs`:

* `TypeCorrect`. Inductive as it stands, because `TypeOK` also says in which
  phases a request holds a row.
* `OwnerNeverChanges`. Needs `SameOwner` (an update in flight asks for the owner
  of the row it loaded), so that a COMMIT on a reused id does not write the
  owner column.
* `RoutesStayUnique`, from the shape of the three actions that write the table
  (`TableWriters`, `CommitAdds`); the next two rest on it.
* `HandlersImplementTable`: `Spec => ImplementsTable`, the refinement. Every
  step is an `Insert`, `Change` or `Remove` of `RouteTable` or a stutter;
  `Change` needs `SameOwner`, `Insert` and `Change` need the unique key.
* `NoOrphanWhenSerial`, under `Serial` (one slot, truthful answers; the process
  may restart at any point). `NoOrphanRoute` speaks only of quiet states.
  `SerialInv` extends it to every phase: a path on the router without a row is
  the one the request is about to store or one that a restart kept from being
  stored (`Settled`); the row a request loaded is still in the table; the path
  it took down stays down until its COMMIT. The case that needs all three is an
  update whose COMMIT is rejected: what is on the router then belongs to the row
  that caused the conflict.
* `MissingWhenSerial`, under `Serial` and one account (`OneAccount`; two accounts
  may have the same route, and deleting one's takes the other's path down).
  `PresentInv` extends `MissingOnlyAfterFailure` to every phase: a path that is
  missing was lost by a change of its own row or is in the hands of the request
  under way (`TakenDown`), and a COMMIT finds the path it stores on the router
  (`Placed`). It rests on `SerialInv` and on the unique key, which with one
  account makes paths unique.

`ScheduledTasks_proofs`:

* `TypeCorrect`.
* `OneOffsRunOnce`, if no call sets a task back to "scheduled". `StartedOnce`
  counts the start that a handler in flight has already made.
* `RecurrencesAreKept`, if no call sets a terminal status. `Kept` bounds, in
  every phase, the recurring tasks that have a terminal status (`Dropped`)
  without the one being served (`Serving`) by the number of restarts; the case
  that needs care is an id deleted and given out again between the two commits.
* `IntervalsAreRespected`. `Spacing`, as long as the server has not restarted:
  for a task the runner is not serving, the time since its last start and the
  time until it is due add up to its interval at least; for the one it serves,
  the time since the start is at least what the runner has spent on it.
* `CancellationsHold`. `CancelledInv`: a cancelled row is off the schedule, and
  if the runner is at work on its id, the run will not reach the recurrence: the
  row does not recur, and the runner has not found that it did (`OffSchedule`). It
  has to hold for a row created and cancelled under the id of the task being
  served, which the runner then overwrites with a terminal status.

`SubnetIsolation_proofs`:

* `TypeCorrect`.
* `BoundStaysDefined`: that the interface names no undefined policy is a property
  of the router's configuration alone (`Sound`), and every list of commands the
  generators build keeps it (`GeneratorsSound`), whatever is sent when.
* `IsolationKept`, under one slot and truthful answers (`Serial`): `Kept` and
  `Ready` say that a request that is about to commit "isolated" has configured
  the policy.
* `NoPolicyIsStray`, under the same assumptions. `Strayless` extends it to every
  phase: a policy without an isolated row is one that an update or a restart
  left behind, or is in the hands of the request under way, which holds the row
  as it is stored (`Loaded`).

`RateLimiter_proofs`:

* `TypeCorrect`.
* `AtMostMaxPerWindow`. The invariant adds that the history is in the clock's
  order and that a request missing from the pruned list has left the window
  (`Remembered`). If the request `MaxRequests` places back were still inside, it
  and all later ones would be in the list, which would then be full
  (`OldEnough`, by counting an interval).
* `RefusalJustified`.

`Accounts_proofs`:

* `TypeCorrect`, `NamesStayUnique`, `JournalOutlives`, `LastAccountStays`.
* `AccountsStayBounded`: `Counted` adds the registrations in flight to the
  accounts; a registration starts only while there is none.
* `NothingStaysBehind`: `Collected` says that a deletion past its look at a
  table has found every row of the account but the late ones.

`AddressAllocation_proofs`: `TypeCorrect`, `ReservationsStayUnique`,
`VmsStayUnique`, `LeasesStayBacked`; `CountersAreUsedOnce` by `Continued` (a
sequence of successive numbers, continued); `RangesAreUsedUp` from it by
`Residues` (numbers closer than the modulus, of either sign, have different
remainders) and `HostInRange`.

`FirewallPolicies_proofs`:

* `TypeCorrect`, `PolicyNamesStayUnique`, `RuleNumbersStayUnique`.
* `RulesKeepPolicy`: `Collected` says that a deletion past its look at the rules
  has found all of the policy but the late ones.
* `RulesStayInForce`: as long as nothing was disturbed (`Calm`), at most one
  request is under way (`Alone`), it holds what the tables hold (`Own`), and
  every rule that has not drifted is on the router or in the hands of that
  request (`InHand`), which will put it there or take the row away.

`Services_proofs` proves about the components and carries the results over to the
composition, under `ConstantsAssumption` of `VmProvisioning` and
`ServiceAssumption`. `ComponentsRun`: a behaviour of the service is a behaviour of
each component (a step of one is a stutter of the others), so whatever holds of a
component's own specification holds in `Services`.

* `ServiceTyped`: the types of the three components.
* `CollisionsNeedOverlap`, `SecondRulesNeedOverlap` and `RulesKeepTheirVm` from
  one invariant, `ProvisionInv`: what a request has seen of the port rules holds
  of every rule but those stored since (`Seen`), and its VM is stored unless it
  was removed since (`Served`).
* `MappingsKeepTheirSubnet`: an update writes back the subnet of the row that has
  the id now, whatever it loaded (`WrittenMapping`).
* `FirstOrAllAreServed`. `JournalServes` says of each place in the loop which of the
  matching rules a delivery has served: all it has passed, until a record
  expires the rules. Before that, unless they were detached, it has served none.
* `VpnReplyFollows`. `VpnServes`: a delivery started by `create_vpn` passes no rule
  over, so that it ends in the loop for `create` exactly if there are several.
* `HistoryStaysWithItsRule`. An id is given out again only after a removal, so three
  facts go together: a row of the history is of a rule that is still there
  (`OwnRows`), a delivery knows its rules as they are except those it knows to be
  gone (`KnowsRules`), and a removal about to commit has found the rows that go
  with its rule (`FindsRows`).

Some invariants are proved and checked by no run, as each restates a constraint
of the database: names of accounts and policies, rule numbers, places of
reservations, machines and addresses of VMs, the key of static routes, and the
types of `RateLimiter`.

Model-checked only: `DueTaskServed`, which is liveness under fairness and out of
TLAPS's reach. Every invariant and action property of the passing runs has a
theorem. `NoOrphanRoute` is checked for one user and proved for any number.

## 5. Assumptions and limits

* Attributes are reduced to what the properties tell apart: a path and its
  distance, a name and the isolation flag, a rule's endpoints, service and
  switch, an external and an internal end, a counter and a range. Descriptions,
  time stamps and formatting are left out. CIDRs are unique in the same way as
  names.
* Row updates are atomic, and SQLite serialises commits. Foreign keys are not
  enforced (SQLite needs a PRAGMA that nothing sets).
* Handlers that fail after their commit (see section 1) end there; the
  response is not modelled, except `create_vpn`'s.
* `time.time()` does not go back. The refusal of the limiter is raised inside
  `BaseHTTPMiddleware`; which status the client then sees is not modelled.
* A second server process on the same database is not modelled.

## 6. Not modelled, and what is left

* The task store of `vyos_core.py`: one coroutine writes each entry, once. DHCP
  pools, the status of a port on the router, backup, restore and lease reads:
  one row or one call each.
* Static DHCP endpoints (their SQL does not fit the schema), HA/DR records,
  secrets, integrations, RBAC, metrics, analytics and topology: rows that are
  created, read and deleted without shared state.
* Password hashing, tokens, and the validation of API keys, which reads a lazy
  relationship and fails: every endpoint behind a key ends in 500.
* `admin.py`, `mcp.py`, `vyos.py`, `status.py`, and what `VmProvisioning` leaves
  of `routers_legacy.py` (which imports names that are gone): not part of the
  service.

What would come next: the deletion of an account composed with `StaticRoutes` and
`FirewallPolicies`, so that what stays on the router can be stated; an abstract
store shared by routes, policies and mappings, with the refinement of each under
serial requests; how far `NoOrphanRoute` and `IsolatedHasPolicy` hold in the quiet
states of a run with overlap, as `RulesInForce` already says for its own.
