------------------------ MODULE ScheduledTasks_proofs ------------------------
(***************************************************************************)
(* Proofs about ScheduledTasks for any number of tasks, any delays and      *)
(* intervals, any poll interval and any number of crashes.                  *)
(***************************************************************************)
EXTENDS ScheduledTasks, FiniteSetTheorems, TLAPS

Runner == [pc: {"sleep", "handler", "status", "refresh", "recur"},
           sleep: 0..PollInterval, id: Ids \union {0}, result: Statuses \union {"none"},
           every: Intervals \union {OneOff}, age: 0..MaxRun]

(* What the phase the runner is in will use.                                *)
Locals ==
  /\ runner \in Runner
  /\ runner.pc # "sleep" => runner.id \in Ids
  /\ runner.pc = "status" => runner.result \in {"completed", "failed"}
  /\ runner.pc = "recur" => runner.every \in Intervals

Tables ==
  /\ DOMAIN tasks \subseteq Ids /\ tasks \in [DOMAIN tasks -> Task]
  /\ starts \in [Ids -> 0..MaxStarts] /\ since \in [Ids -> 0..Horizon]
  /\ cancelled \subseteq Ids
  /\ crashes \in 0..MaxCrashes

Types == Tables /\ Locals

LEMMA Sleeping == ASSUME NEW n \in 0..PollInterval PROVE /\ Asleep(n) \in Runner
                                                         /\ Asleep(n).pc = "sleep"
BY ConstantsAssumption DEF Asleep, Runner

LEMMA PollTypes ==
  ASSUME Types, Poll
  PROVE  Types'
<1> USE DEF Types
<1>1. UNCHANGED <<tasks, cancelled, crashes>>
  BY DEF Poll
<1>a. PICK awake : awake = Asleep(0)
  OBVIOUS
<1>b. awake \in Runner
  BY <1>a, Sleeping, ConstantsAssumption
<1>2. CASE EndPoll /\ UNCHANGED <<starts, since>>
  BY <1>1, <1>2, Sleeping, ConstantsAssumption DEF EndPoll, Tables, Locals, Asleep
<1>3. ASSUME NEW id \in Ids, runner' = [Asleep(0) EXCEPT !.pc = "handler", !.id = id],
             starts' = [starts EXCEPT ![id] = IF @ = MaxStarts THEN @ ELSE @ + 1],
             since' = [since EXCEPT ![id] = 0]
      PROVE  Types'
  <2>1. Locals'
    BY <1>3, <1>a, <1>b DEF Runner, Locals
  <2>2. MaxStarts \in Nat
    BY ConstantsAssumption DEF MaxStarts
  <2>3. starts' \in [Ids -> 0..MaxStarts]
    BY <1>3, <2>2 DEF Tables
  <2>4. since' \in [Ids -> 0..Horizon]
    BY <1>3, ConstantsAssumption DEF Tables
  <2> QED BY <1>1, <2>1, <2>3, <2>4 DEF Tables
<1>4. ASSUME NEW id \in Ids, UNCHANGED <<starts, since>>,
             runner' = [Asleep(0) EXCEPT !.pc = "status", !.id = id, !.result = "failed"]
      PROVE  Types'
  <2>1. Locals'
    BY <1>4, <1>a, <1>b DEF Runner, Locals, Statuses
  <2> QED BY <1>1, <1>4, <2>1 DEF Tables
<1> QED BY <1>2, <1>3, <1>4 DEF Poll

LEMMA RunnerTypes ==
  ASSUME Types, RunnerStep
  PROVE  Types'
<1> USE DEF Types
<1>e. ASSUME EndPoll PROVE Locals'
  BY <1>e, Sleeping, ConstantsAssumption DEF EndPoll, Locals
<1>1. ASSUME NEW result \in {"completed", "failed"}, HandlerEnds(result) PROVE Types'
  <2>1. Locals'
    BY <1>1 DEF HandlerEnds, Locals, Runner, Statuses
  <2> QED BY <1>1, <2>1 DEF HandlerEnds, Tables
<1>2. CASE WriteStatus
  <2>1. CASE runner.id \in DOMAIN tasks
    <3>1. Locals'
      BY <1>2, <2>1 DEF WriteStatus, Locals, Runner
    <3>2. runner.result \in Statuses
      BY <1>2 DEF WriteStatus, Locals, Statuses
    <3>3. DOMAIN tasks' = DOMAIN tasks /\ tasks' \in [DOMAIN tasks' -> Task]
      BY <1>2, <2>1, <3>2 DEF WriteStatus, Tables, Task
    <3> QED BY <1>2, <3>1, <3>3 DEF WriteStatus, Tables
  <2> QED BY <1>2, <1>e, <2>1 DEF WriteStatus, Tables
<1>3. CASE Refresh
  <2>1. CASE runner.id \in DOMAIN tasks /\ tasks[runner.id].every # OneOff
    <3>1. tasks[runner.id].every \in Intervals /\ tasks[runner.id].status \in Statuses
      BY <2>1 DEF Tables, Task
    <3>2. Locals'
      BY <1>3, <2>1, <3>1 DEF Refresh, Locals, Runner
    <3> QED BY <1>3, <3>2 DEF Refresh, Tables
  <2> QED BY <1>3, <1>e, <2>1 DEF Refresh, Tables
<1>4. CASE Recur
  <2>1. NextTime \in 0..Horizon
    BY <1>4, ConstantsAssumption DEF Recur, Locals, Runner, NextTime
  <2>2. runner.id \in DOMAIN tasks => NextStatus \in Statuses
    BY DEF NextStatus, Tables, Task, Statuses
  <2>3. DOMAIN tasks' = DOMAIN tasks /\ tasks' \in [DOMAIN tasks' -> Task]
    <3> DEFINE time == NextTime
    <3> DEFINE status == NextStatus
    <3> DEFINE id == runner.id
    <3>1. \/ UNCHANGED tasks
          \/ id \in DOMAIN tasks
             /\ tasks' = [tasks EXCEPT ![id].due = time, ![id].status = status]
      BY <1>4 DEF Recur
    <3>2. time \in 0..Horizon /\ (id \in DOMAIN tasks => status \in Statuses)
      BY <2>1, <2>2
    <3> HIDE DEF time, status, id
    <3> QED BY <3>1, <3>2 DEF Tables, Task
  <2> QED BY <1>4, <1>e, <2>3 DEF Recur, Tables
<1> QED BY <1>1, <1>2, <1>3, <1>4, PollTypes DEF RunnerStep

LEMMA TypesStep ==
  ASSUME Types, [Next]_vars
  PROVE  Types'
<1> USE DEF Types
<1>1. ASSUME NEW delay \in Delays, NEW every \in Intervals \union {OneOff}, NEW known \in BOOLEAN,
             Create(delay, every, known)
      PROVE  Types'
  <2> DEFINE row == [due |-> delay, every |-> every, known |-> known, status |-> "scheduled"]
  <2>1. row \in Task
    BY ConstantsAssumption DEF Task, Statuses
  <2>2. PICK n \in Ids :
          /\ tasks' = [k \in DOMAIN tasks \union {n} |-> IF k = n THEN row ELSE tasks[k]]
          /\ starts' = [starts EXCEPT ![n] = 0] /\ since' = [since EXCEPT ![n] = 0]
          /\ UNCHANGED <<runner, cancelled, crashes>>
    BY <1>1 DEF Create
  <2> HIDE DEF row
  <2>3. DOMAIN tasks' \subseteq Ids /\ tasks' \in [DOMAIN tasks' -> Task]
    BY <2>1, <2>2 DEF Tables
  <2>4. starts' \in [Ids -> 0..MaxStarts] /\ since' \in [Ids -> 0..Horizon]
    BY <2>2, ConstantsAssumption DEF Tables, MaxStarts
  <2> QED BY <2>2, <2>3, <2>4 DEF Tables, Locals
<1>2. ASSUME NEW id \in Ids, Delete(id) PROVE Types'
  BY <1>2 DEF Delete, Tables, Locals
<1>3. ASSUME NEW id \in Ids, NEW status \in Patches, SetStatus(id, status) PROVE Types'
  <2>1. DOMAIN tasks' = DOMAIN tasks /\ tasks' \in [DOMAIN tasks' -> Task]
    BY <1>3, ConstantsAssumption DEF SetStatus, Tables, Task
  <2> QED BY <1>3, <2>1 DEF SetStatus, Tables, Locals
<1>4. CASE Tick
  <2>1. /\ DOMAIN tasks' = DOMAIN tasks
        /\ \A k \in DOMAIN tasks :
             tasks'[k] = [tasks[k] EXCEPT !.due = IF @ = 0 THEN 0 ELSE @ - 1]
    BY <1>4 DEF Tick
  <2>2. ASSUME NEW k \in DOMAIN tasks PROVE tasks'[k] \in Task
    <3>1. tasks[k] \in Task
      BY DEF Tables
    <3>2. (IF tasks[k].due = 0 THEN 0 ELSE tasks[k].due - 1) \in 0..Horizon
      BY <3>1, ConstantsAssumption DEF Task
    <3> QED BY <2>1, <3>1, <3>2 DEF Task
  <2>3. tasks' \in [DOMAIN tasks' -> Task]
    BY <1>4, <2>1, <2>2 DEF Tick
  <2>4. since' \in [Ids -> 0..Horizon]
    BY <1>4, ConstantsAssumption DEF Tick, Tables, Upto
  <2>5. Locals'
    BY <1>4, ConstantsAssumption DEF Tick, Locals, Runner
  <2> QED BY <1>4, <2>1, <2>3, <2>4, <2>5 DEF Tick, Tables
<1>5. CASE Crash
  BY <1>5, Sleeping, ConstantsAssumption DEF Crash, Tables, Locals
<1>6. CASE UNCHANGED vars
  BY <1>6 DEF vars, Tables, Locals
<1> QED BY <1>1, <1>2, <1>3, <1>4, <1>5, <1>6, RunnerTypes DEF Next, Api

LEMMA InitTypes == Init => Types
BY Sleeping, ConstantsAssumption DEF Init, Types, Tables, Locals, MaxStarts

LEMMA TypesHold == Spec => []Types
BY InitTypes, TypesStep, PTL DEF Spec

(* Rows, runner locals and history hold values of their type                *)
(* (models.ScheduledTask and the locals of scheduled_task_runner).          *)
THEOREM TypeCorrect == Spec => []TypeOK
<1>1. Types => TypeOK
  BY DEF Types, Tables, Locals, Runner, TypeOK
<1> QED BY <1>1, TypesHold, PTL

-----------------------------------------------------------------------------
(* A one-off task that may still be started has been started at most once   *)
(* for each time the process died.                                          *)
Startable(id) == /\ tasks[id].status = "scheduled"
                 /\ ~(runner.pc \in {"handler", "status"} /\ runner.id = id)
Started(id) ==
  /\ starts[id] <= 1 + crashes
  /\ Startable(id) \/ (runner.pc = "recur" /\ runner.id = id) => starts[id] <= crashes

StartedOnce == \A id \in DOMAIN tasks : tasks[id].every = OneOff => Started(id)

LEMMA StartedByRunner ==
  ASSUME Types, StartedOnce, RunnerStep
  PROVE  StartedOnce'
<1> USE DEF Types
<1>0. crashes \in Nat /\ \A id \in DOMAIN tasks : starts[id] \in Nat
  BY ConstantsAssumption DEF Tables, MaxStarts
<1>e. ASSUME EndPoll PROVE runner'.pc = "sleep"
  BY <1>e DEF EndPoll, Asleep
<1>1. CASE Poll
  <2>1. UNCHANGED <<tasks, crashes>> /\ runner.pc = "sleep"
    BY <1>1 DEF Poll
  <2>2. ASSUME NEW id \in Ids, Due(id), runner' = [Asleep(0) EXCEPT !.pc = "handler", !.id = id],
               starts' = [starts EXCEPT ![id] = IF @ = MaxStarts THEN @ ELSE @ + 1]
        PROVE  StartedOnce'
    <3>1. runner'.pc = "handler" /\ runner'.id = id
      BY <2>2 DEF Asleep
    <3>2. /\ starts'[id] <= starts[id] + 1
          /\ \A k \in DOMAIN tasks \ {id} : starts'[k] = starts[k]
      BY <1>0, <2>2 DEF Due, Tables
    <3>3. id \in DOMAIN tasks /\ tasks[id].every = OneOff => starts[id] <= crashes
      BY <2>1, <2>2 DEF Due, StartedOnce, Started, Startable
    <3>4. starts'[id] \in Nat
      BY <1>0, <2>2 DEF Due, Tables
    <3>5. \A k \in DOMAIN tasks \ {id} : tasks[k].every = OneOff => Started(k)'
      BY <2>1, <3>1, <3>2 DEF StartedOnce, Started, Startable
    <3>6. id \in DOMAIN tasks /\ tasks[id].every = OneOff => Started(id)'
      <4>1. id \in DOMAIN tasks /\ tasks[id].every = OneOff => starts'[id] <= 1 + crashes
        BY <1>0, <2>2, <3>2, <3>3, <3>4 DEF Due
      <4> QED BY <2>1, <3>1, <4>1 DEF Started, Startable
    <3> QED BY <2>1, <3>5, <3>6 DEF StartedOnce
  <2>3. ASSUME NEW id \in Ids, UNCHANGED starts,
               runner' = [Asleep(0) EXCEPT !.pc = "status", !.id = id, !.result = "failed"]
        PROVE  StartedOnce'
    <3>1. runner'.pc = "status"
      BY <2>3 DEF Asleep
    <3> QED BY <2>1, <2>3, <3>1 DEF StartedOnce, Started, Startable
  <2>4. CASE EndPoll /\ UNCHANGED starts
    BY <1>e, <2>1, <2>4 DEF StartedOnce, Started, Startable
  <2> QED BY <1>1, <2>2, <2>3, <2>4 DEF Poll
<1>2. ASSUME NEW result \in {"completed", "failed"}, HandlerEnds(result) PROVE StartedOnce'
  <2>1. runner'.pc = "status" /\ runner'.id = runner.id /\ runner.pc = "handler"
    BY <1>2 DEF HandlerEnds, Locals, Runner
  <2> QED BY <1>2, <2>1 DEF HandlerEnds, StartedOnce, Started, Startable
<1>3. CASE WriteStatus
  <2>1. UNCHANGED <<starts, crashes>> /\ runner.pc = "status"
        /\ runner'.pc \in {"sleep", "refresh"}
    BY <1>3, <1>e DEF WriteStatus, Locals, Runner
  <2>2. DOMAIN tasks' = DOMAIN tasks
    BY <1>3 DEF WriteStatus
  <2>3. runner.id \in DOMAIN tasks => tasks'[runner.id].status # "scheduled"
    BY <1>3 DEF WriteStatus, Locals, Tables, Task
  <2>4. \A k \in DOMAIN tasks : /\ tasks'[k].every = tasks[k].every
                                /\ k # runner.id => tasks'[k] = tasks[k]
    BY <1>3 DEF WriteStatus, Tables, Task
  <2>5. ASSUME NEW k \in DOMAIN tasks, tasks[k].every = OneOff PROVE Started(k)'
    <3>1. Started(k)
      BY <2>5 DEF StartedOnce
    <3>2. CASE k = runner.id
      BY <2>1, <2>3, <3>1, <3>2 DEF Started, Startable
    <3>3. CASE k # runner.id
      BY <2>1, <2>4, <3>1, <3>3 DEF Started, Startable
    <3> QED BY <3>2, <3>3
  <2> QED BY <2>2, <2>4, <2>5 DEF StartedOnce
<1>4. CASE Refresh
  <2>1. UNCHANGED <<tasks, starts, crashes>> /\ runner.pc = "refresh"
    BY <1>4 DEF Refresh
  <2>2. runner'.pc = "sleep"
        \/ (runner'.pc = "recur" /\ runner'.id = runner.id /\ tasks[runner.id].every # OneOff)
    BY <1>4, <1>e DEF Refresh, Locals, Runner
  <2> QED BY <2>1, <2>2 DEF StartedOnce, Started, Startable
<1>5. CASE Recur
  <2>1. UNCHANGED <<starts, crashes>> /\ runner.pc = "recur" /\ runner'.pc = "sleep"
    BY <1>5, <1>e DEF Recur
  <2> PICK id : id = runner.id
    OBVIOUS
  <2> PICK time : time = NextTime
    OBVIOUS
  <2> PICK status : status = NextStatus
    OBVIOUS
  <2>2. UNCHANGED tasks \/ tasks' = [tasks EXCEPT ![id].due = time, ![id].status = status]
    BY <1>5 DEF Recur
  <2>3. /\ DOMAIN tasks' = DOMAIN tasks
        /\ \A k \in DOMAIN tasks : /\ tasks'[k].every = tasks[k].every
                                   /\ k # id => tasks'[k] = tasks[k]
    BY <2>2 DEF Tables, Task
  <2>4. ASSUME NEW k \in DOMAIN tasks, tasks[k].every = OneOff PROVE Started(k)'
    <3>1. Started(k)
      BY <2>4 DEF StartedOnce
    <3>2. starts[k] <= crashes \/ (k # id /\ tasks'[k] = tasks[k])
      BY <2>1, <2>3, <3>1 DEF Started
    <3> QED BY <2>1, <3>1, <3>2 DEF Started, Startable
  <2> QED BY <2>3, <2>4 DEF StartedOnce
<1> QED BY <1>1, <1>2, <1>3, <1>4, <1>5 DEF RunnerStep

(* When no client sends "scheduled", nothing makes a one-off task startable *)
(* again but a crash while it is being served.                              *)
LEMMA StartedStep ==
  ASSUME "scheduled" \notin Patches, Types, StartedOnce, [Next]_vars
  PROVE  StartedOnce'
<1> USE DEF Types
<1>0. crashes \in Nat /\ \A id \in DOMAIN tasks : starts[id] \in Nat
  BY ConstantsAssumption DEF Tables, MaxStarts
<1>1. ASSUME NEW delay \in Delays, NEW every \in Intervals \union {OneOff}, NEW known \in BOOLEAN,
             Create(delay, every, known)
      PROVE  StartedOnce'
  <2>1. PICK n \in Ids :
          /\ DOMAIN tasks' = DOMAIN tasks \union {n}
          /\ \A k \in DOMAIN tasks \ {n} : tasks'[k] = tasks[k]
          /\ starts' = [starts EXCEPT ![n] = 0]
          /\ UNCHANGED <<runner, crashes>>
    BY <1>1 DEF Create
  <2>2. starts'[n] = 0 /\ \A k \in DOMAIN tasks \ {n} : starts'[k] = starts[k]
    BY <2>1 DEF Tables
  <2> QED BY <1>0, <2>1, <2>2 DEF StartedOnce, Started, Startable
<1>2. ASSUME NEW id \in Ids, Delete(id) PROVE StartedOnce'
  BY <1>2 DEF Delete, StartedOnce, Started, Startable
<1>3. ASSUME NEW id \in Ids, NEW status \in Patches, SetStatus(id, status) PROVE StartedOnce'
  <2>1. /\ DOMAIN tasks' = DOMAIN tasks /\ UNCHANGED <<runner, starts, crashes>>
        /\ tasks'[id].status # "scheduled"
        /\ \A k \in DOMAIN tasks : /\ tasks'[k].every = tasks[k].every
                                   /\ k # id => tasks'[k] = tasks[k]
    BY <1>3 DEF SetStatus, Tables, Task
  <2>2. ASSUME NEW k \in DOMAIN tasks, tasks[k].every = OneOff PROVE Started(k)'
    <3>1. Started(k)
      BY <2>2 DEF StartedOnce
    <3> QED BY <2>1, <3>1 DEF Started, Startable
  <2> QED BY <2>1, <2>2 DEF StartedOnce
<1>4. CASE Tick
  <2>1. /\ DOMAIN tasks' = DOMAIN tasks /\ UNCHANGED <<starts, crashes>>
        /\ \A k \in DOMAIN tasks : /\ tasks'[k].every = tasks[k].every
                                   /\ tasks'[k].status = tasks[k].status
        /\ runner'.pc = runner.pc /\ runner'.id = runner.id
    BY <1>4 DEF Tick, Locals, Runner, Tables, Task
  <2> QED BY <2>1 DEF StartedOnce, Started, Startable
<1>5. CASE Crash
  <2>1. UNCHANGED <<tasks, starts>> /\ crashes' = crashes + 1 /\ runner'.pc = "sleep"
    BY <1>5 DEF Crash, Asleep
  <2> QED BY <1>0, <2>1 DEF StartedOnce, Started, Startable
<1>6. CASE UNCHANGED vars
  BY <1>6 DEF vars, StartedOnce, Started, Startable
<1> QED BY <1>1, <1>2, <1>3, <1>4, <1>5, <1>6, StartedByRunner DEF Next, Api

(* A task without recurrence is started once, and once more for each time   *)
(* the process died, provided that no client PATCHes a status back to       *)
(* "scheduled" (which asks for another run).                                *)
THEOREM OneOffsRunOnce ==
  ASSUME "scheduled" \notin Patches
  PROVE  Spec => []OneOffRunsOnce
<1>1. Init => StartedOnce
  BY DEF Init, StartedOnce
<1>2. Types /\ StartedOnce /\ [Next]_vars => StartedOnce'
  BY StartedStep
<1>3. StartedOnce => OneOffRunsOnce
  BY DEF StartedOnce, Started, OneOffRunsOnce
<1> QED BY <1>1, <1>2, <1>3, TypesHold, PTL DEF Spec

-----------------------------------------------------------------------------
(* The recurring tasks a poll has left with a terminal status, and the one  *)
(* it still holds between its two commits.                                  *)
Dropped == {id \in DOMAIN tasks :
              tasks[id].every # OneOff /\ tasks[id].status \in {"completed", "failed"}}
Serving == IF runner.pc \in {"refresh", "recur"} THEN {runner.id} ELSE {}

Kept ==
  /\ Cardinality(Dropped \ Serving) <= crashes
  /\ runner.pc = "recur" /\ runner.result = "scheduled" => runner.id \notin Dropped

LEMMA DroppedFinite ==
  ASSUME Types
  PROVE  IsFiniteSet(Dropped)
<1>1. IsFiniteSet(Ids)
  <2>1. 1 \in Int /\ MaxId \in Int
    BY ConstantsAssumption
  <2> QED BY <2>1, FS_Interval DEF Ids
<1>2. Dropped \subseteq Ids
  BY DEF Dropped, Types, Tables
<1> QED BY <1>1, <1>2, FS_Subset

LEMMA SmallerStill ==
  ASSUME Types, Kept, Types', Dropped' \ Serving' \subseteq Dropped \ Serving, crashes' = crashes
  PROVE  Cardinality(Dropped' \ Serving') <= crashes'
<1>2. IsFiniteSet(Dropped \ Serving)
  BY DroppedFinite, FS_Subset
<1>3. Cardinality(Dropped' \ Serving') <= Cardinality(Dropped \ Serving)
  BY <1>2, FS_Subset
<1>4. IsFiniteSet(Dropped' \ Serving')
  BY <1>2, FS_Subset
<1>5. /\ Cardinality(Dropped' \ Serving') \in Nat /\ Cardinality(Dropped \ Serving) \in Nat
      /\ crashes \in Nat
  BY <1>2, <1>4, FS_CardinalityType, ConstantsAssumption DEF Types, Tables
<1> QED BY <1>3, <1>5 DEF Kept

(* A crash between the two commits leaves one more.                         *)
LEMMA CrashDropsOne ==
  ASSUME Types, Kept, Crash
  PROVE  Kept'
<1>2. IsFiniteSet(Dropped)
  BY DroppedFinite
<1>3. Cardinality(Dropped) <= Cardinality(Dropped \ Serving) + 1
  <2>0. Cardinality(Dropped) \in Nat
    BY <1>2, FS_CardinalityType
  <2>1. CASE Serving = {}
    <3>1. Dropped \ Serving = Dropped
      BY <2>1
    <3> QED BY <2>0, <3>1
  <2>2. CASE Serving = {runner.id}
    <3>1. Cardinality(Dropped \ Serving) \in {Cardinality(Dropped), Cardinality(Dropped) - 1}
      BY <1>2, <2>2, FS_RemoveElement
    <3> QED BY <2>0, <3>1
  <2> QED BY <2>1, <2>2 DEF Serving
<1>4. Cardinality(Dropped) \in Nat /\ Cardinality(Dropped \ Serving) \in Nat /\ crashes \in Nat
  BY <1>2, FS_CardinalityType, FS_Subset, ConstantsAssumption DEF Types, Tables
<1>5. runner'.pc = "sleep" /\ tasks' = tasks /\ crashes' = crashes + 1
  BY DEF Crash, Asleep
<1>6. Dropped' = Dropped /\ Serving' = {}
  BY <1>5 DEF Dropped, Serving
<1>7. Dropped' \ Serving' = Dropped
  BY <1>6
<1>8. Cardinality(Dropped) <= crashes + 1
  BY <1>3, <1>4 DEF Kept
<1> QED BY <1>5, <1>7, <1>8 DEF Kept

(* What the other steps do to the two sets.                                 *)
LEMMA KeptByRunner ==
  ASSUME Types, Kept, RunnerStep
  PROVE  /\ Dropped' \ Serving' \subseteq Dropped \ Serving /\ crashes' = crashes
         /\ runner'.pc = "recur" /\ runner'.result = "scheduled" => runner'.id \notin Dropped'
<1> USE DEF Types
<1>e. ASSUME EndPoll PROVE runner'.pc = "sleep"
  BY <1>e DEF EndPoll, Asleep
<1>1. CASE Poll
  <2>1. UNCHANGED <<tasks, crashes>> /\ runner.pc = "sleep"
    BY <1>1 DEF Poll
  <2>2. runner'.pc \in {"sleep", "handler", "status"}
    BY <1>1, <1>e DEF Poll, Asleep
  <2> QED BY <2>1, <2>2 DEF Dropped, Serving
<1>2. ASSUME NEW result \in {"completed", "failed"}, HandlerEnds(result)
      PROVE  UNCHANGED <<tasks, crashes>> /\ runner.pc = "handler" /\ runner'.pc = "status"
  BY <1>2 DEF HandlerEnds, Locals, Runner
<1>3. CASE WriteStatus
  <2>1. runner.pc = "status" /\ crashes' = crashes
    BY <1>3 DEF WriteStatus
  <2>2. CASE runner.id \notin DOMAIN tasks
    BY <1>3, <1>e, <2>1, <2>2 DEF WriteStatus, Dropped, Serving
  <2>3. CASE runner.id \in DOMAIN tasks
    <3>1. /\ DOMAIN tasks' = DOMAIN tasks
          /\ \A k \in DOMAIN tasks : k # runner.id => tasks'[k] = tasks[k]
          /\ runner'.pc = "refresh" /\ runner'.id = runner.id
      BY <1>3, <2>3 DEF WriteStatus, Locals, Runner
    <3> QED BY <2>1, <3>1 DEF Dropped, Serving
  <2> QED BY <2>2, <2>3
<1>4. CASE Refresh
  <2>1. UNCHANGED <<tasks, crashes>> /\ runner.pc = "refresh"
    BY <1>4 DEF Refresh
  <2>2. CASE runner.id \in DOMAIN tasks /\ tasks[runner.id].every # OneOff
    <3>1. /\ runner'.pc = "recur" /\ runner'.id = runner.id
          /\ runner'.result = tasks[runner.id].status
      BY <1>4, <2>2 DEF Refresh, Locals, Runner
    <3> QED BY <2>1, <3>1 DEF Dropped, Serving
  <2>3. CASE ~(runner.id \in DOMAIN tasks /\ tasks[runner.id].every # OneOff)
    BY <1>4, <1>e, <2>1, <2>3 DEF Refresh, Dropped, Serving
  <2> QED BY <2>2, <2>3
<1>5. CASE Recur
  <2>1. UNCHANGED crashes /\ runner.pc = "recur" /\ runner'.pc = "sleep"
    BY <1>5, <1>e DEF Recur
  <2>2. CASE runner.id \notin DOMAIN tasks
    BY <1>5, <2>1, <2>2 DEF Recur, Dropped, Serving
  <2>3. CASE runner.id \in DOMAIN tasks
    <3> PICK id : id = runner.id
      OBVIOUS
    <3> PICK time : time = NextTime
      OBVIOUS
    <3> PICK status : status = NextStatus
      OBVIOUS
    <3>1. tasks' = [tasks EXCEPT ![id].due = time, ![id].status = status]
      BY <1>5, <2>3 DEF Recur
    <3>2. /\ DOMAIN tasks' = DOMAIN tasks
          /\ tasks'[id].every = tasks[id].every /\ tasks'[id].status = status
          /\ \A k \in DOMAIN tasks : k # id => tasks'[k] = tasks[k]
      BY <2>3, <3>1 DEF Tables, Task
    <3>3. status \in {"completed", "failed"} => runner.result = "scheduled"
                                             /\ status = tasks[id].status
      BY DEF NextStatus
    <3>4. id \notin Dropped'
      BY <2>1, <2>3, <3>2, <3>3 DEF Dropped, Kept
    <3> QED BY <2>1, <3>2, <3>4 DEF Dropped, Serving
  <2> QED BY <2>2, <2>3
<1> QED BY <1>1, <1>2, <1>3, <1>4, <1>5 DEF RunnerStep, Dropped, Serving

LEMMA KeptByOthers ==
  ASSUME Patches \intersect {"completed", "failed"} = {}, Types, Kept, Api \/ Tick
  PROVE  /\ Dropped' \ Serving' \subseteq Dropped \ Serving /\ crashes' = crashes
         /\ runner'.pc = "recur" /\ runner'.result = "scheduled" => runner'.id \notin Dropped'
<1> USE DEF Types
<1>0. ASSUME Dropped' \subseteq Dropped, crashes' = crashes, runner'.pc = runner.pc,
             runner'.id = runner.id, runner'.result = runner.result
      PROVE  /\ Dropped' \ Serving' \subseteq Dropped \ Serving /\ crashes' = crashes
             /\ runner'.pc = "recur" /\ runner'.result = "scheduled"
                  => runner'.id \notin Dropped'
  BY <1>0 DEF Serving, Kept
<1>1. ASSUME NEW delay \in Delays, NEW every \in Intervals \union {OneOff}, NEW known \in BOOLEAN,
             Create(delay, every, known)
      PROVE  Dropped' \subseteq Dropped /\ UNCHANGED <<runner, crashes>>
  <2>1. PICK n \in Ids :
          /\ DOMAIN tasks' = DOMAIN tasks \union {n} /\ tasks'[n].status = "scheduled"
          /\ \A k \in DOMAIN tasks \ {n} : tasks'[k] = tasks[k]
          /\ UNCHANGED <<runner, crashes>>
    BY <1>1 DEF Create
  <2> QED BY <2>1 DEF Dropped
<1>2. ASSUME NEW id \in Ids, Delete(id)
      PROVE  Dropped' \subseteq Dropped /\ UNCHANGED <<runner, crashes>>
  BY <1>2 DEF Delete, Dropped
<1>3. ASSUME NEW id \in Ids, NEW status \in Patches, SetStatus(id, status)
      PROVE  Dropped' \subseteq Dropped /\ UNCHANGED <<runner, crashes>>
  <2>1. /\ DOMAIN tasks' = DOMAIN tasks /\ UNCHANGED <<runner, crashes>>
        /\ tasks'[id].status \notin {"completed", "failed"}
        /\ \A k \in DOMAIN tasks : k # id => tasks'[k] = tasks[k]
    BY <1>3 DEF SetStatus, Tables, Task
  <2> QED BY <2>1 DEF Dropped
<1>4. CASE Tick
  <2>1. /\ DOMAIN tasks' = DOMAIN tasks /\ UNCHANGED crashes
        /\ \A k \in DOMAIN tasks : /\ tasks'[k].every = tasks[k].every
                                   /\ tasks'[k].status = tasks[k].status
    BY <1>4 DEF Tick, Tables, Task
  <2>2. runner'.pc = runner.pc /\ runner'.id = runner.id /\ runner'.result = runner.result
    BY <1>4 DEF Tick, Locals, Runner
  <2> QED BY <1>0, <2>1, <2>2 DEF Dropped
<1> QED BY <1>0, <1>1, <1>2, <1>3, <1>4 DEF Api

(* While the runner sleeps, a recurring task has a terminal status only if  *)
(* the process died between the poll's two commits, once for each such      *)
(* task, provided that no client PATCHes a status to a terminal one.        *)
THEOREM RecurrencesAreKept ==
  ASSUME Patches \intersect {"completed", "failed"} = {}
  PROVE  Spec => []RecurrenceKept
<1>1. Init => Kept
  <2> SUFFICES ASSUME Init PROVE Kept
    OBVIOUS
  <2>1. Dropped \ Serving = {} /\ crashes = 0 /\ runner.pc = "sleep"
    BY DEF Init, Dropped, Serving, Asleep
  <2> QED BY <2>1, FS_EmptySet DEF Kept
<1>2. Types /\ Kept /\ [Next]_vars => Kept'
  <2> SUFFICES ASSUME Types, Kept, [Next]_vars PROVE Kept'
    OBVIOUS
  <2>1. CASE RunnerStep \/ Api \/ Tick
    <3>1. /\ Dropped' \ Serving' \subseteq Dropped \ Serving /\ crashes' = crashes
          /\ runner'.pc = "recur" /\ runner'.result = "scheduled" => runner'.id \notin Dropped'
      BY <2>1, KeptByRunner, KeptByOthers
    <3>2. Cardinality(Dropped' \ Serving') <= crashes'
      BY <3>1, TypesStep, SmallerStill
    <3> QED BY <3>1, <3>2 DEF Kept
  <2>2. CASE UNCHANGED vars
    BY <2>2 DEF vars, Kept, Dropped, Serving
  <2> QED BY <2>1, <2>2, CrashDropsOne DEF Next
<1>3. Kept => RecurrenceKept
  <2> SUFFICES ASSUME Kept, runner.pc = "sleep" PROVE Cardinality(Dropped) <= crashes
    BY DEF RecurrenceKept, Dropped
  <2>1. Dropped \ Serving = Dropped
    BY DEF Serving
  <2> QED BY <2>1 DEF Kept
<1> QED BY <1>1, <1>2, <1>3, TypesHold, PTL DEF Spec

-----------------------------------------------------------------------------
(* What has passed since a recurring task was last started and what is left *)
(* until it is due again make up its interval; while it is being served,    *)
(* what has passed is the age of the poll.                                  *)
Serves(id) == runner.pc # "sleep" /\ runner.id = id

Spaced(id) ==
  /\ tasks[id].known
  /\ tasks[id].every # OneOff =>
       IF Serves(id)
       THEN since[id] >= Upto(runner.age) /\ (runner.pc = "recur" => runner.every = tasks[id].every)
       ELSE since[id] + tasks[id].due >= tasks[id].every

Spacing == crashes = 0 => \A id \in DOMAIN tasks : starts[id] > 0 => Spaced(id)

LEMMA RowTypes ==
  ASSUME Types, NEW id \in DOMAIN tasks
  PROVE  /\ id \in Ids /\ starts[id] \in Nat /\ since[id] \in 0..Horizon
         /\ tasks[id].due \in 0..Horizon /\ tasks[id].known \in BOOLEAN
         /\ tasks[id].every # OneOff => tasks[id].every \in Nat /\ tasks[id].every <= Horizon
BY ConstantsAssumption DEF Types, Tables, Task, MaxStarts

(* The rows the runner does not serve, in a step that leaves them alone.    *)
LEMMA SpacedElsewhere ==
  ASSUME NEW id, Spaced(id), ~Serves(id), ~Serves(id)', tasks'[id] = tasks[id],
         since'[id] = since[id]
  PROVE  Spaced(id)'
BY DEF Spaced

LEMMA SpacingByRunner ==
  ASSUME Types, Spacing, RunnerStep, crashes = 0
  PROVE  Spacing'
<1> USE DEF Types
<1>0. \A id \in DOMAIN tasks : starts[id] > 0 => Spaced(id)
  BY DEF Spacing
<1>e. ASSUME EndPoll PROVE runner'.pc = "sleep"
  BY <1>e DEF EndPoll, Asleep
<1>1. CASE Poll
  <2>1. UNCHANGED <<tasks, crashes>> /\ runner.pc = "sleep"
    BY <1>1 DEF Poll
  <2>2. ASSUME NEW id \in Ids, Due(id), tasks[id].known,
               runner' = [Asleep(0) EXCEPT !.pc = "handler", !.id = id],
               starts' = [starts EXCEPT ![id] = IF @ = MaxStarts THEN @ ELSE @ + 1],
               since' = [since EXCEPT ![id] = 0]
        PROVE  Spacing'
    <3>1. runner'.pc = "handler" /\ runner'.id = id /\ runner'.age = 0
      BY <2>2 DEF Asleep
    <3>2. /\ since'[id] = 0
          /\ \A k \in DOMAIN tasks \ {id} : since'[k] = since[k] /\ starts'[k] = starts[k]
      BY <2>2 DEF Tables
    <3>3. ASSUME NEW k \in DOMAIN tasks \ {id}, starts'[k] > 0 PROVE Spaced(k)'
      BY <1>0, <2>1, <3>1, <3>2, <3>3, SpacedElsewhere DEF Serves
    <3>4. Spaced(id)'
      BY <2>1, <2>2, <3>1, <3>2, ConstantsAssumption DEF Spaced, Serves, Upto
    <3> QED BY <2>1, <3>3, <3>4 DEF Spacing
  <2>3. ASSUME NEW id \in Ids, Due(id), ~tasks[id].known, UNCHANGED <<starts, since>>,
               runner' = [Asleep(0) EXCEPT !.pc = "status", !.id = id, !.result = "failed"]
        PROVE  Spacing'
    <3>1. runner'.id = id
      BY <2>3 DEF Asleep
    <3>2. ASSUME NEW k \in DOMAIN tasks, starts[k] > 0 PROVE Spaced(k)'
      <4>1. Spaced(k) /\ k # id
        BY <1>0, <2>3, <3>2 DEF Spaced
      <4> QED BY <2>1, <2>3, <3>1, <4>1, SpacedElsewhere DEF Serves
    <3> QED BY <2>1, <2>3, <3>2 DEF Spacing
  <2>4. CASE EndPoll /\ UNCHANGED <<starts, since>>
    BY <1>0, <1>e, <2>1, <2>4, SpacedElsewhere DEF Spacing, Serves
  <2> QED BY <1>1, <2>2, <2>3, <2>4 DEF Poll
<1>2. ASSUME NEW result \in {"completed", "failed"}, HandlerEnds(result) PROVE Spacing'
  <2>1. /\ UNCHANGED <<tasks, starts, since, crashes>> /\ runner.pc = "handler"
        /\ runner'.pc = "status" /\ runner'.id = runner.id /\ runner'.age = runner.age
    BY <1>2 DEF HandlerEnds, Locals, Runner
  <2> QED BY <1>0, <2>1 DEF Spacing, Spaced, Serves, Upto
<1>3. CASE WriteStatus
  <2>1. UNCHANGED <<starts, since, crashes>> /\ runner.pc = "status"
    BY <1>3 DEF WriteStatus
  <2>2. CASE runner.id \in DOMAIN tasks
    <3>1. /\ runner'.pc = "refresh" /\ runner'.id = runner.id /\ runner'.age = runner.age
          /\ DOMAIN tasks' = DOMAIN tasks
      BY <1>3, <2>2 DEF WriteStatus, Locals, Runner
    <3>2. \A k \in DOMAIN tasks : /\ tasks'[k].every = tasks[k].every
                                  /\ tasks'[k].due = tasks[k].due
                                  /\ tasks'[k].known = tasks[k].known
      BY <1>3, <2>2 DEF WriteStatus, Tables, Task
    <3>3. ASSUME NEW k \in DOMAIN tasks, starts[k] > 0 PROVE Spaced(k)'
      BY <1>0, <2>1, <3>1, <3>2, <3>3 DEF Spaced, Serves, Upto
    <3> QED BY <2>1, <3>1, <3>3 DEF Spacing
  <2>3. CASE runner.id \notin DOMAIN tasks
    <3>1. runner'.pc = "sleep" /\ UNCHANGED tasks
      BY <1>3, <1>e, <2>3 DEF WriteStatus
    <3> QED BY <1>0, <2>1, <2>3, <3>1, SpacedElsewhere DEF Spacing, Serves
  <2> QED BY <2>2, <2>3
<1>4. CASE Refresh
  <2>1. UNCHANGED <<tasks, starts, since, crashes>> /\ runner.pc = "refresh"
    BY <1>4 DEF Refresh
  <2>2. CASE runner.id \in DOMAIN tasks /\ tasks[runner.id].every # OneOff
    <3>1. /\ runner'.pc = "recur" /\ runner'.id = runner.id /\ runner'.age = runner.age
          /\ runner'.every = tasks[runner.id].every
      BY <1>4, <2>2 DEF Refresh, Locals, Runner
    <3>2. ASSUME NEW k \in DOMAIN tasks, starts[k] > 0 PROVE Spaced(k)'
      BY <1>0, <2>1, <3>1, <3>2 DEF Spaced, Serves, Upto
    <3> QED BY <2>1, <3>2 DEF Spacing
  <2>3. CASE ~(runner.id \in DOMAIN tasks /\ tasks[runner.id].every # OneOff)
    <3>1. runner'.pc = "sleep"
      BY <1>4, <1>e, <2>3 DEF Refresh
    <3> QED BY <1>0, <2>1, <2>3, <3>1 DEF Spacing, Spaced, Serves
  <2> QED BY <2>2, <2>3
<1>5. CASE Recur
  <2>1. UNCHANGED <<starts, since, crashes>> /\ runner.pc = "recur" /\ runner'.pc = "sleep"
    BY <1>5, <1>e DEF Recur
  <2>2. CASE runner.id \notin DOMAIN tasks
    BY <1>0, <1>5, <2>1, <2>2, SpacedElsewhere DEF Recur, Spacing, Serves
  <2>3. CASE runner.id \in DOMAIN tasks
    <3> PICK id : id = runner.id
      OBVIOUS
    <3> PICK time : time = NextTime
      OBVIOUS
    <3> PICK status : status = NextStatus
      OBVIOUS
    <3>1. tasks' = [tasks EXCEPT ![id].due = time, ![id].status = status]
      BY <1>5, <2>3 DEF Recur
    <3>2. /\ DOMAIN tasks' = DOMAIN tasks
          /\ tasks'[id].every = tasks[id].every /\ tasks'[id].known = tasks[id].known
          /\ tasks'[id].due = time
          /\ \A k \in DOMAIN tasks : k # id => tasks'[k] = tasks[k]
      BY <2>3, <3>1 DEF Tables, Task
    <3>3. \A k \in DOMAIN tasks \ {id} : starts[k] > 0 => Spaced(k)'
      BY <1>0, <2>1, <3>2, SpacedElsewhere DEF Serves
    <3>4. ASSUME starts[id] > 0 PROVE Spaced(id)'
      <4>1. Spaced(id) /\ Serves(id)
        BY <1>0, <2>1, <2>3, <3>4 DEF Serves
      <4>2. runner.age \in Nat /\ Horizon \in Nat
        BY ConstantsAssumption DEF Locals, Runner
      <4>3. ASSUME tasks[id].every # OneOff PROVE since[id] + time >= tasks[id].every
        <5>1. /\ tasks[id].every \in Nat /\ tasks[id].every <= Horizon /\ since[id] \in Nat
          BY <2>3, <4>3, RowTypes, ConstantsAssumption
        <5>2. since[id] >= Upto(runner.age) /\ runner.every = tasks[id].every
          BY <2>1, <4>1, <4>3 DEF Spaced
        <5>3. time = IF tasks[id].every > runner.age THEN tasks[id].every - runner.age ELSE 0
          BY <5>2 DEF NextTime
        <5> QED BY <4>2, <5>1, <5>2, <5>3 DEF Upto
      <4> QED BY <2>1, <3>2, <4>1, <4>3 DEF Spaced, Serves
    <3> QED BY <2>1, <2>3, <3>2, <3>3, <3>4 DEF Spacing
  <2> QED BY <2>2, <2>3
<1> QED BY <1>1, <1>2, <1>3, <1>4, <1>5 DEF RunnerStep

LEMMA SpacingByOthers ==
  ASSUME Types, Spacing, Api \/ Tick, crashes = 0
  PROVE  Spacing'
<1> USE DEF Types
<1>0. \A id \in DOMAIN tasks : starts[id] > 0 => Spaced(id)
  BY DEF Spacing
<1>1. ASSUME NEW delay \in Delays, NEW every \in Intervals \union {OneOff}, NEW known \in BOOLEAN,
             Create(delay, every, known)
      PROVE  Spacing'
  <2>1. PICK n \in Ids :
          /\ DOMAIN tasks' = DOMAIN tasks \union {n}
          /\ \A k \in DOMAIN tasks \ {n} : tasks'[k] = tasks[k]
          /\ starts' = [starts EXCEPT ![n] = 0] /\ since' = [since EXCEPT ![n] = 0]
          /\ UNCHANGED <<runner, crashes>>
    BY <1>1 DEF Create
  <2>2. /\ starts'[n] = 0
        /\ \A k \in DOMAIN tasks \ {n} : starts'[k] = starts[k] /\ since'[k] = since[k]
    BY <2>1 DEF Tables
  <2>3. ASSUME NEW k \in DOMAIN tasks \ {n}, starts[k] > 0 PROVE Spaced(k)'
    BY <1>0, <2>1, <2>2, <2>3 DEF Spaced, Serves, Upto
  <2> QED BY <2>1, <2>2, <2>3 DEF Spacing
<1>2. ASSUME NEW id \in Ids, Delete(id) PROVE Spacing'
  BY <1>0, <1>2 DEF Delete, Spacing, Spaced, Serves, Upto
<1>3. ASSUME NEW id \in Ids, NEW status \in Patches, SetStatus(id, status) PROVE Spacing'
  <2>1. /\ DOMAIN tasks' = DOMAIN tasks /\ UNCHANGED <<runner, starts, since, crashes>>
        /\ \A k \in DOMAIN tasks : /\ tasks'[k].every = tasks[k].every
                                   /\ tasks'[k].due = tasks[k].due
                                   /\ tasks'[k].known = tasks[k].known
    BY <1>3 DEF SetStatus, Tables, Task
  <2>2. ASSUME NEW k \in DOMAIN tasks, starts[k] > 0 PROVE Spaced(k)'
    BY <1>0, <2>1, <2>2 DEF Spaced, Serves, Upto
  <2> QED BY <2>1, <2>2 DEF Spacing
<1>4. CASE Tick
  <2>1. /\ DOMAIN tasks' = DOMAIN tasks /\ UNCHANGED <<starts, crashes>>
        /\ \A k \in DOMAIN tasks :
             /\ tasks'[k].every = tasks[k].every /\ tasks'[k].known = tasks[k].known
             /\ tasks'[k].due = IF tasks[k].due = 0 THEN 0 ELSE tasks[k].due - 1
        /\ \A k \in Ids : since'[k] = Upto(since[k] + 1)
    BY <1>4 DEF Tick, Tables, Task
  <2>2. /\ runner'.pc = runner.pc /\ runner'.id = runner.id /\ runner'.every = runner.every
        /\ runner.pc # "sleep" => runner'.age = runner.age + 1
        /\ runner.age \in Nat
    BY <1>4, ConstantsAssumption DEF Tick, Locals, Runner
  <2>3. ASSUME NEW k \in DOMAIN tasks, starts[k] > 0 PROVE Spaced(k)'
    <3>1. Spaced(k)
      BY <1>0, <2>3
    <3>2. since'[k] = Upto(since[k] + 1) /\ since[k] \in 0..Horizon /\ Horizon \in Nat
      BY <2>1, RowTypes, ConstantsAssumption
    <3>3. CASE Serves(k)
      <4>1. since[k] >= Upto(runner.age) => since'[k] >= Upto(runner.age + 1)
        BY <2>2, <3>2 DEF Upto
      <4> QED BY <2>1, <2>2, <3>1, <3>3, <4>1 DEF Spaced, Serves
    <3>4. CASE ~Serves(k)
      <4>1. ASSUME tasks[k].every # OneOff PROVE since'[k] + tasks'[k].due >= tasks[k].every
        <5>1. since[k] + tasks[k].due >= tasks[k].every
          BY <3>1, <3>4, <4>1 DEF Spaced
        <5>2. /\ tasks[k].every \in Nat /\ tasks[k].every <= Horizon
              /\ tasks[k].due \in 0..Horizon
          BY <4>1, RowTypes
        <5>3. tasks'[k].due = IF tasks[k].due = 0 THEN 0 ELSE tasks[k].due - 1
          BY <2>1
        <5> QED BY <3>2, <5>1, <5>2, <5>3 DEF Upto
      <4> QED BY <2>1, <2>2, <3>1, <3>4, <4>1 DEF Spaced, Serves
    <3> QED BY <3>3, <3>4
  <2> QED BY <2>1, <2>3 DEF Spacing
<1> QED BY <1>1, <1>2, <1>3, <1>4 DEF Api

(* Until the process dies, two runs of a recurring task are at least its    *)
(* interval apart, measured between the polls that started them.            *)
THEOREM IntervalsAreRespected == Spec => IntervalRespected
<1>1. Init => Spacing
  BY DEF Init, Spacing
<1>2. Types /\ Spacing /\ [Next]_vars => Spacing'
  <2> SUFFICES ASSUME Types, Spacing, [Next]_vars PROVE Spacing'
    OBVIOUS
  <2>1. crashes \in Nat
    BY ConstantsAssumption DEF Types, Tables
  <2>2. crashes' = 0 => crashes = 0
    <3>1. Api => crashes' = crashes
      BY DEF Api, Create, Delete, SetStatus
    <3>2. RunnerStep => crashes' = crashes
      BY DEF RunnerStep, Poll, HandlerEnds, WriteStatus, Refresh, Recur
    <3>3. Tick \/ UNCHANGED vars => crashes' = crashes
      BY DEF Tick, vars
    <3>4. Crash => crashes' = crashes + 1
      BY DEF Crash
    <3> QED BY <2>1, <3>1, <3>2, <3>3, <3>4 DEF Next
  <2>3. CASE UNCHANGED vars
    BY <2>3 DEF vars, Spacing, Spaced, Serves, Upto
  <2>4. CASE Crash
    BY <2>1, <2>4 DEF Crash, Spacing
  <2>5. CASE crashes # 0
    BY <2>2, <2>5 DEF Spacing
  <2> QED BY <2>3, <2>4, <2>5, SpacingByRunner, SpacingByOthers DEF Next
<1>3. ASSUME Types, Spacing, [Next]_vars
      PROVE  [\A id \in Ids :
                crashes = 0 /\ runner.pc = "sleep" /\ runner'.pc = "handler" /\ runner'.id = id
                  /\ starts[id] > 0 /\ tasks[id].every # OneOff
                  => since[id] >= tasks[id].every]_vars
  <2> SUFFICES ASSUME NEW id \in Ids, crashes = 0, runner.pc = "sleep", runner'.pc = "handler",
                      runner'.id = id, starts[id] > 0, tasks[id].every # OneOff, Next
               PROVE  since[id] >= tasks[id].every
    BY <1>3
  <2>1. Poll
    <3>1. ~Api
      BY DEF Api, Create, Delete, SetStatus
    <3>2. ~Tick /\ ~Crash
      BY <1>3 DEF Tick, Crash, Asleep, Types, Locals, Runner
    <3> QED BY <3>1, <3>2 DEF Next, RunnerStep, HandlerEnds, WriteStatus, Refresh, Recur
  <2>2. Due(id)
    <3>1. ASSUME NEW k \in Ids, Due(k),
                 \/ runner' = [Asleep(0) EXCEPT !.pc = "handler", !.id = k]
                 \/ runner' = [Asleep(0) EXCEPT !.pc = "status", !.id = k, !.result = "failed"]
          PROVE  Due(id)
      BY <3>1 DEF Asleep
    <3>2. EndPoll => runner'.pc = "sleep"
      BY DEF EndPoll, Asleep
    <3> QED BY <2>1, <3>1, <3>2 DEF Poll
  <2>3. Spaced(id) /\ id \in DOMAIN tasks /\ tasks[id].due = 0
    BY <1>3, <2>2 DEF Due, Spacing
  <2>4. since[id] + 0 >= tasks[id].every
    BY <2>3 DEF Spaced, Serves
  <2> QED BY <1>3, <2>3, <2>4, RowTypes
<1> QED BY <1>1, <1>2, <1>3, TypesHold, PTL DEF Spec, IntervalRespected

-----------------------------------------------------------------------------
(* The inductive form of CancelHolds: a row in `cancelled' is off the       *)
(* schedule, and the run that is under its id will not reach the            *)
(* recurrence.                                                              *)
OffSchedule(id) ==
  /\ id \in DOMAIN tasks /\ tasks[id].status # "scheduled"
  /\ runner.pc # "sleep" /\ runner.id = id => runner.pc # "recur" /\ tasks[id].every = OneOff

CancelledInv == \A id \in cancelled : OffSchedule(id)

(* A row keeps its standing when neither it nor its run changes.            *)
LEMMA OffScheduleKept ==
  ASSUME NEW id, OffSchedule(id), id \in DOMAIN tasks', tasks'[id] = tasks[id],
         runner'.pc = "sleep" \/ (runner'.pc = runner.pc /\ runner'.id = runner.id)
  PROVE  OffSchedule(id)'
BY DEF OffSchedule

LEMMA CancelledByRunner ==
  ASSUME Types, CancelledInv, RunnerStep
  PROVE  CancelledInv'
<1> USE DEF Types
<1>1. cancelled' = cancelled
  BY DEF RunnerStep, Poll, HandlerEnds, WriteStatus, Refresh, Recur
<1> SUFFICES ASSUME NEW id \in cancelled PROVE OffSchedule(id)'
  BY <1>1 DEF CancelledInv
<1>2. OffSchedule(id)
  BY DEF CancelledInv
<1>e. EndPoll => runner'.pc = "sleep"
  BY DEF EndPoll, Asleep
<1>3. CASE Poll
  <2>1. UNCHANGED tasks
    BY <1>3 DEF Poll
  <2>2. ASSUME NEW k \in Ids, Due(k), \/ runner' = [Asleep(0) EXCEPT !.pc = "handler", !.id = k]
                                      \/ runner' = [Asleep(0) EXCEPT !.pc = "status", !.id = k,
                                                                     !.result = "failed"]
        PROVE  OffSchedule(id)'
    <3>1. runner'.id = k
      BY <2>2 DEF Asleep
    <3>2. k # id
      BY <1>2, <2>2 DEF Due, OffSchedule
    <3> QED BY <1>2, <2>1, <3>1, <3>2 DEF OffSchedule
  <2>3. CASE EndPoll
    BY <1>2, <1>e, <2>1, <2>3 DEF OffSchedule
  <2> QED BY <1>3, <2>2, <2>3 DEF Poll
<1>4. ASSUME NEW result \in {"completed", "failed"}, HandlerEnds(result)
      PROVE  OffSchedule(id)'
  <2>1. /\ runner.pc = "handler" /\ runner'.pc = "status" /\ runner'.id = runner.id
        /\ UNCHANGED tasks
    BY <1>4 DEF HandlerEnds, Locals, Runner
  <2> QED BY <1>2, <2>1 DEF OffSchedule
<1>5. CASE WriteStatus
  <2>1. CASE runner.id \in DOMAIN tasks
    <3>1. /\ tasks' = [tasks EXCEPT ![runner.id].status = runner.result]
          /\ runner.pc = "status" /\ runner'.pc = "refresh" /\ runner'.id = runner.id
      BY <1>5, <2>1 DEF WriteStatus, Locals, Runner
    <3>2. runner.result # "scheduled"
      BY <3>1 DEF Locals
    <3>3. /\ DOMAIN tasks' = DOMAIN tasks
          /\ \A k \in DOMAIN tasks :
               /\ tasks'[k].every = tasks[k].every
               /\ tasks'[k].status = IF k = runner.id THEN runner.result ELSE tasks[k].status
      BY <3>1 DEF Tables, Task
    <3> QED BY <1>2, <3>1, <3>2, <3>3 DEF OffSchedule
  <2>2. CASE runner.id \notin DOMAIN tasks
    BY <1>2, <1>5, <1>e, <2>2 DEF WriteStatus, OffSchedule
  <2> QED BY <2>1, <2>2
<1>6. CASE Refresh
  <2>1. UNCHANGED tasks /\ runner.pc = "refresh"
    BY <1>6 DEF Refresh
  <2>2. CASE runner.id \in DOMAIN tasks /\ tasks[runner.id].every # OneOff
    <3>1. runner'.id = runner.id
      BY <1>6, <2>2 DEF Refresh, Locals, Runner
    <3> QED BY <1>2, <2>1, <2>2, <3>1 DEF OffSchedule
  <2>3. CASE ~(runner.id \in DOMAIN tasks /\ tasks[runner.id].every # OneOff)
    BY <1>2, <1>6, <1>e, <2>1, <2>3 DEF Refresh, OffSchedule
  <2> QED BY <2>2, <2>3
<1>7. CASE Recur
  <2> DEFINE time == NextTime
             status == NextStatus
  <2>1. /\ runner.pc = "recur" /\ runner'.pc = "sleep"
        /\ \/ UNCHANGED tasks
           \/ tasks' = [tasks EXCEPT ![runner.id].due = time, ![runner.id].status = status]
    BY <1>7, <1>e DEF Recur
  <2> HIDE DEF time, status
  <2>2. id \in DOMAIN tasks /\ id # runner.id
    BY <1>2, <2>1 DEF OffSchedule
  <2>3. id \in DOMAIN tasks' /\ tasks'[id] = tasks[id]
    BY <2>1, <2>2 DEF Tables
  <2> QED BY <1>2, <2>1, <2>3, OffScheduleKept
<1> QED BY <1>3, <1>4, <1>5, <1>6, <1>7 DEF RunnerStep

LEMMA CancelledStep ==
  ASSUME Types, CancelledInv, [Next]_vars
  PROVE  CancelledInv'
<1> USE DEF Types
<1>1. ASSUME NEW delay \in Delays, NEW every \in Intervals \union {OneOff}, NEW known \in BOOLEAN,
             Create(delay, every, known)
      PROVE  CancelledInv'
  <2>1. PICK n \in Ids :
          /\ \A k \in DOMAIN tasks : k < n
          /\ DOMAIN tasks' = DOMAIN tasks \union {n}
          /\ \A k \in DOMAIN tasks \ {n} : tasks'[k] = tasks[k]
          /\ UNCHANGED <<runner, cancelled>>
    BY <1>1 DEF Create, FreshId
  <2>2. ASSUME NEW id \in cancelled PROVE OffSchedule(id)'
    <3>1. id \in DOMAIN tasks /\ OffSchedule(id)
      BY DEF CancelledInv, OffSchedule
    <3>2. id # n
      BY <2>1, <3>1 DEF Tables, Ids
    <3> QED BY <2>1, <3>1, <3>2 DEF OffSchedule
  <2> QED BY <2>1, <2>2 DEF CancelledInv
<1>2. ASSUME NEW id \in Ids, Delete(id) PROVE CancelledInv'
  BY <1>2 DEF Delete, CancelledInv, OffSchedule
<1>3. ASSUME NEW id \in Ids, NEW status \in Patches, SetStatus(id, status) PROVE CancelledInv'
  <2>1. /\ id \in DOMAIN tasks /\ DOMAIN tasks' = DOMAIN tasks /\ UNCHANGED runner
        /\ \A k \in DOMAIN tasks : /\ tasks'[k].every = tasks[k].every
                                   /\ k # id => tasks'[k] = tasks[k]
        /\ tasks'[id].status = status
    BY <1>3 DEF SetStatus, Tables, Task
  <2>2. ASSUME NEW k \in cancelled', k # id PROVE OffSchedule(k)'
    <3>1. k \in cancelled
      BY <1>3, <2>2 DEF SetStatus
    <3> QED BY <2>1, <2>2, <3>1 DEF CancelledInv, OffSchedule
  <2>3. ASSUME id \in cancelled' PROVE OffSchedule(id)'
    <3>1. status = "cancelled" /\ ~Reschedules(id)
      BY <1>3, <2>3 DEF SetStatus
    <3> QED BY <2>1, <3>1 DEF Reschedules, OffSchedule
  <2> QED BY <2>2, <2>3 DEF CancelledInv
<1>4. CASE Tick
  <2>1. /\ DOMAIN tasks' = DOMAIN tasks /\ UNCHANGED cancelled
        /\ \A k \in DOMAIN tasks : /\ tasks'[k].every = tasks[k].every
                                   /\ tasks'[k].status = tasks[k].status
        /\ runner'.pc = runner.pc /\ runner'.id = runner.id
    BY <1>4 DEF Tick, Locals, Runner, Tables, Task
  <2> QED BY <2>1 DEF CancelledInv, OffSchedule
<1>5. CASE Crash
  <2>1. UNCHANGED <<tasks, cancelled>> /\ runner'.pc = "sleep"
    BY <1>5 DEF Crash, Asleep
  <2> QED BY <2>1 DEF CancelledInv, OffSchedule
<1>6. CASE UNCHANGED vars
  BY <1>6 DEF vars, CancelledInv, OffSchedule
<1> QED BY <1>1, <1>2, <1>3, <1>4, <1>5, <1>6, CancelledByRunner DEF Next, Api

(* Once a task is cancelled, outside a run of its id that recurs, no poll   *)
(* serves it and nothing schedules it again until a client changes it, for  *)
(* any calls, restarts and reuse of ids: what the run under way still       *)
(* writes is a terminal status, and recurrence is decided from the row.     *)
THEOREM CancellationsHold == Spec => CancelHolds
<1>1. Init => CancelledInv
  BY DEF Init, CancelledInv
<1>2. Types /\ CancelledInv /\ [Next]_vars => CancelledInv'
  BY CancelledStep
<1>3. ASSUME Types, CancelledInv, [Next]_vars
      PROVE  [\A id \in cancelled \intersect cancelled' :
                /\ id \in DOMAIN tasks' /\ tasks'[id].status # "scheduled"
                /\ runner.pc = "sleep" /\ runner'.pc # "sleep" => runner'.id # id]_vars
  <2> SUFFICES ASSUME Next, NEW id \in cancelled \intersect cancelled'
               PROVE  /\ id \in DOMAIN tasks' /\ tasks'[id].status # "scheduled"
                      /\ runner.pc = "sleep" /\ runner'.pc # "sleep" => runner'.id # id
    BY <1>3
  <2>1. OffSchedule(id) /\ OffSchedule(id)'
    BY <1>3, CancelledStep DEF CancelledInv
  <2>2. ASSUME runner.pc = "sleep", runner'.pc # "sleep" PROVE runner'.id # id
    <3>1. Poll
      <4>1. ~Api
        BY <2>2 DEF Api, Create, Delete, SetStatus
      <4>2. ~Tick /\ ~Crash
        BY <1>3, <2>2 DEF Tick, Crash, Asleep, Types, Locals, Runner
      <4> QED BY <1>3, <2>2, <4>1, <4>2 DEF Next, RunnerStep, HandlerEnds, WriteStatus, Refresh, Recur
    <3>2. ASSUME NEW k \in Ids, Due(k),
                 \/ runner' = [Asleep(0) EXCEPT !.pc = "handler", !.id = k]
                 \/ runner' = [Asleep(0) EXCEPT !.pc = "status", !.id = k, !.result = "failed"]
          PROVE  runner'.id # id
      <4>1. runner'.id = k
        BY <3>2 DEF Asleep
      <4> QED BY <2>1, <3>2, <4>1 DEF Due, OffSchedule
    <3>3. ~EndPoll
      BY <2>2 DEF EndPoll, Asleep
    <3> QED BY <3>1, <3>2, <3>3 DEF Poll
  <2> QED BY <2>1, <2>2 DEF OffSchedule
<1> QED BY <1>1, <1>2, <1>3, TypesHold, PTL DEF Spec, CancelHolds
=============================================================================
