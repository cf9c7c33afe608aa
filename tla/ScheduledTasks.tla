--------------------------- MODULE ScheduledTasks ---------------------------
(***************************************************************************)
(* Scheduled tasks (src/utils_scheduled_runner.py, src/crud_scheduled.py,   *)
(* src/routers/scheduled.py): table scheduled_tasks, the background runner  *)
(* that polls it, and the API calls that change it while the runner waits   *)
(* for a handler, a commit or a refresh.                                    *)
(*                                                                          *)
(* Time is counted in ticks and every time is stored relative to the        *)
(* present: `due' is what is left until schedule_time (0: due or overdue),  *)
(* so that the clock itself need not be bounded.                            *)
(*                                                                          *)
(* One poll serves at most one due task.  The first commit of a poll        *)
(* expires every row object its session has loaded; the loop's next         *)
(* `task.schedule_time' must reload it, which an async session cannot do    *)
(* there, and the exception ends the poll.                                  *)
(***************************************************************************)
EXTENDS Integers, FiniteSets

CONSTANTS
  MaxId,          \* bound on task ids
  Delays,         \* ticks from creation to schedule_time
  Intervals,      \* values of `recurrence' that are a number of seconds
  OneOff,         \* no recurrence, or one that int() rejects
  Patches,        \* statuses that PATCH /scheduled-tasks/{id}/status sends
  Deletable,      \* are tasks deleted?
  PollInterval,   \* ticks the runner sleeps between polls
  MaxRun,         \* bound on the ticks from a poll's start to its end
  MaxCrashes      \* bound on restarts of the process

Ids == 1..MaxId
Statuses == {"scheduled", "completed", "failed", "cancelled"}
Horizon == CHOOSE n \in Delays \union Intervals :
             \A m \in Delays \union Intervals : m <= n

(* starts counts one more than OneOffRunsOnce allows.                       *)
MaxStarts == MaxCrashes + 2

ASSUME ConstantsAssumption ==
  /\ MaxId \in Nat \ {0} /\ PollInterval \in Nat /\ MaxRun \in Nat /\ MaxCrashes \in Nat
  /\ Delays \subseteq Nat /\ Delays # {} /\ Intervals \subseteq Nat
  /\ OneOff \notin Nat
  /\ Horizon \in Nat /\ \A m \in Delays \union Intervals : m <= Horizon
  /\ Patches \subseteq Statuses
  /\ Deletable \in BOOLEAN

(* known: a handler is registered for the task_type.                        *)
Task == [due: 0..Horizon, every: Intervals \union {OneOff}, known: BOOLEAN,
         status: Statuses]

VARIABLES
  tasks,    \* table scheduled_tasks: id -> Task, for the ids in use
  runner,   \* scheduled_task_runner: its place in the loop and its locals
  starts,   \* history: handler runs begun for each row
  since,    \* history: ticks since the poll that last began one
  cancelled,  \* history: tasks cancelled since their last other change by a client
  crashes

vars == <<tasks, runner, starts, since, cancelled, crashes>>

Upto(n) == IF n > Horizon THEN Horizon ELSE n

(* sleep: ticks left in asyncio.sleep; age: ticks since the poll's `now'.   *)
Asleep(n) == [pc |-> "sleep", sleep |-> n, id |-> 0, result |-> "none",
              every |-> OneOff, age |-> 0]

Init ==
  /\ tasks = [k \in {} |-> OneOff]
  /\ runner = Asleep(0)
  /\ starts = [k \in Ids |-> 0]
  /\ since = [k \in Ids |-> 0]
  /\ cancelled = {}
  /\ crashes = 0

-----------------------------------------------------------------------------
(* The API.  PATCH and DELETE read the row and then write it by its id; the *)
(* read only decides the 404.                                               *)
FreshId(n) == /\ \A k \in DOMAIN tasks : k < n
              /\ n = 1 \/ n - 1 \in DOMAIN tasks

Create(delay, every, known) ==
  \E n \in Ids :
    /\ FreshId(n)
    /\ tasks' = [k \in DOMAIN tasks \union {n} |->
         IF k = n THEN [due |-> delay, every |-> every, known |-> known,
                        status |-> "scheduled"]
                  ELSE tasks[k]]
    /\ starts' = [starts EXCEPT ![n] = 0]
    /\ since' = [since EXCEPT ![n] = 0]
    /\ UNCHANGED <<runner, cancelled, crashes>>

(* The run under way will write "scheduled" at its end without looking: its *)
(* row recurs, or did when it was refreshed.  A row created under the id of *)
(* the task being run is in its hands too.                                  *)
Reschedules(id) ==
  runner.id = id /\ (runner.pc = "recur" \/ tasks[id].every # OneOff)

SetStatus(id, status) ==
  /\ id \in DOMAIN tasks
  /\ tasks' = [tasks EXCEPT ![id].status = status]
  /\ cancelled' = IF status = "cancelled" /\ ~Reschedules(id)
                  THEN cancelled \union {id} ELSE cancelled \ {id}
  /\ UNCHANGED <<runner, starts, since, crashes>>

Delete(id) ==
  /\ Deletable
  /\ id \in DOMAIN tasks
  /\ tasks' = [k \in DOMAIN tasks \ {id} |-> tasks[k]]
  /\ cancelled' = cancelled \ {id}
  /\ UNCHANGED <<runner, starts, since, crashes>>

-----------------------------------------------------------------------------
(* The runner.                                                              *)
(* Mutated: the poll does not filter by status.                             *)
DueByTime(id) == id \in DOMAIN tasks /\ tasks[id].due = 0

Due(id) == id \in DOMAIN tasks /\ tasks[id].status = "scheduled" /\ tasks[id].due = 0

EndPoll == runner' = Asleep(PollInterval)

(* The rows come in id order; the first one that is due is served.          *)
Poll ==
  /\ runner.pc = "sleep" /\ runner.sleep = 0
  /\ IF \E id \in Ids : Due(id)
     THEN \E id \in Ids :
            /\ Due(id) /\ \A k \in Ids : k < id => ~Due(k)
            /\ IF tasks[id].known
               THEN /\ runner' = [Asleep(0) EXCEPT !.pc = "handler", !.id = id]
                    /\ starts' = [starts EXCEPT ![id] = IF @ = MaxStarts THEN @ ELSE @ + 1]
                    /\ since' = [since EXCEPT ![id] = 0]
               ELSE /\ runner' = [Asleep(0) EXCEPT !.pc = "status", !.id = id,
                                                   !.result = "failed"]
                    /\ UNCHANGED <<starts, since>>
     ELSE EndPoll /\ UNCHANGED <<starts, since>>
  /\ UNCHANGED <<tasks, cancelled, crashes>>

HandlerEnds(result) ==
  /\ runner.pc = "handler"
  /\ runner' = [runner EXCEPT !.pc = "status", !.result = result]
  /\ UNCHANGED <<tasks, starts, since, cancelled, crashes>>

(* update_scheduled_task_status: db.get returns the object loaded by the    *)
(* poll, the UPDATE writes the row with that id whatever it holds by now.   *)
(* A row that is gone raises, and so does the handler of that exception.    *)
WriteStatus ==
  /\ runner.pc = "status"
  /\ IF runner.id \in DOMAIN tasks
     THEN /\ tasks' = [tasks EXCEPT ![runner.id].status = runner.result]
          /\ runner' = [runner EXCEPT !.pc = "refresh"]
     ELSE EndPoll /\ UNCHANGED tasks
  /\ UNCHANGED <<starts, since, cancelled, crashes>>

Refresh ==
  /\ runner.pc = "refresh"
  /\ IF runner.id \in DOMAIN tasks /\ tasks[runner.id].every # OneOff
     THEN runner' = [runner EXCEPT !.pc = "recur", !.every = tasks[runner.id].every,
                                   !.result = tasks[runner.id].status]
     ELSE EndPoll
  /\ UNCHANGED <<tasks, starts, since, cancelled, crashes>>

(* Mutated: the next run is due at once; a next run in the past.            *)
NextTimeNow == 0
NextTimeUnclamped == runner.every - runner.age

(* next_time counts from the poll's `now', not from the handler's end.      *)
NextTime == IF runner.every > runner.age THEN runner.every - runner.age ELSE 0

(* Mutated: the status of the run that ended stays.                         *)
NextStatusKept == tasks[runner.id].status

(* The status is written unless the refreshed row was "scheduled" already.  *)
NextStatus == IF runner.result = "scheduled" THEN tasks[runner.id].status ELSE "scheduled"

Recur ==
  /\ runner.pc = "recur"
  /\ IF runner.id \in DOMAIN tasks
     THEN tasks' = [tasks EXCEPT ![runner.id].due = NextTime,
                                 ![runner.id].status = NextStatus]
     ELSE UNCHANGED tasks
  /\ EndPoll
  /\ UNCHANGED <<starts, since, cancelled, crashes>>

RunnerStep ==
  \/ Poll
  \/ \E result \in {"completed", "failed"} : HandlerEnds(result)
  \/ WriteStatus
  \/ Refresh
  \/ Recur

-----------------------------------------------------------------------------
(* A tick passes unless the runner's timer has fired (the event loop is not *)
(* blocked) or its poll has taken MaxRun.                                   *)
Tick ==
  /\ IF runner.pc = "sleep" THEN runner.sleep > 0 ELSE runner.age < MaxRun
  /\ tasks' = [k \in DOMAIN tasks |->
                 [tasks[k] EXCEPT !.due = IF @ = 0 THEN 0 ELSE @ - 1]]
  /\ since' = [k \in Ids |-> Upto(since[k] + 1)]
  /\ runner' = IF runner.pc = "sleep"
               THEN [runner EXCEPT !.sleep = @ - 1]
               ELSE [runner EXCEPT !.age = @ + 1]
  /\ UNCHANGED <<starts, cancelled, crashes>>

(* Mutated: on its way up the process queues the task it was serving again. *)
CrashRequeues ==
  /\ crashes < MaxCrashes
  /\ crashes' = crashes + 1
  /\ tasks' = [k \in DOMAIN tasks |->
                 IF k = runner.id THEN [tasks[k] EXCEPT !.status = "scheduled"] ELSE tasks[k]]
  /\ runner' = Asleep(0)
  /\ UNCHANGED <<starts, since, cancelled>>

(* A restart runs the startup event again; a task whose handler was running *)
(* is still "scheduled".                                                    *)
Crash ==
  /\ crashes < MaxCrashes
  /\ crashes' = crashes + 1
  /\ runner' = Asleep(0)
  /\ UNCHANGED <<tasks, starts, since, cancelled>>

Api ==
  \/ \E delay \in Delays, every \in Intervals \union {OneOff}, known \in BOOLEAN :
       Create(delay, every, known)
  \/ \E id \in Ids : Delete(id)
  \/ \E id \in Ids, status \in Patches : SetStatus(id, status)

Next == Api \/ RunnerStep \/ Tick \/ Crash

Spec == Init /\ [][Next]_vars

(* The runner's coroutine and the clock are never held up for ever; nothing *)
(* obliges a client to call the API, and crashes are bounded.               *)
FairSpec == Spec /\ WF_vars(RunnerStep) /\ WF_vars(Tick)

-----------------------------------------------------------------------------
(* Type invariant: rows, runner locals and history hold values of their     *)
(* type (models.ScheduledTask and the locals of scheduled_task_runner).     *)
TypeOK ==
  /\ DOMAIN tasks \subseteq Ids /\ tasks \in [DOMAIN tasks -> Task]
  /\ runner \in [pc: {"sleep", "handler", "status", "refresh", "recur"},
                 sleep: 0..PollInterval, id: Ids \union {0},
                 result: Statuses \union {"none"},
                 every: Intervals \union {OneOff}, age: 0..MaxRun]
  /\ runner.pc # "sleep" => runner.id \in Ids
  /\ runner.pc = "status" => runner.result # "none"
  /\ runner.pc = "recur" => runner.every \in Intervals
  /\ starts \in [Ids -> 0..MaxStarts] /\ since \in [Ids -> 0..Horizon]
  /\ cancelled \subseteq Ids
  /\ crashes \in 0..MaxCrashes

(* A task without recurrence is started once, and once more for each time   *)
(* the process died, whatever is deleted or cancelled while its handler     *)
(* runs: the status written at the end is terminal and nothing reads a      *)
(* stale "scheduled".                                                       *)
OneOffRunsOnce ==
  \A id \in DOMAIN tasks : tasks[id].every = OneOff => starts[id] <= 1 + crashes

(* While the runner sleeps, a recurring task has the terminal status that   *)
(* a poll writes before it handles the recurrence only if the process died  *)
(* between the two commits, and each time it did so it broke one chain of   *)
(* runs; a call that lands between the commits breaks none.                 *)
RecurrenceKept ==
  runner.pc = "sleep" =>
    Cardinality({id \in DOMAIN tasks :
      tasks[id].every # OneOff /\ tasks[id].status \in {"completed", "failed"}}) <= crashes

(* Until the process dies, two runs of a recurring task are at least its    *)
(* interval apart, measured between the polls that started them.            *)
IntervalRespected ==
  [][\A id \in Ids :
        crashes = 0 /\ runner.pc = "sleep" /\ runner'.pc = "handler" /\ runner'.id = id
          /\ starts[id] > 0 /\ tasks[id].every # OneOff
          => since[id] >= tasks[id].every]_vars

(* A due task is served (or cancelled, or deleted) in the end, although a   *)
(* poll serves one task and always the first: only a row before it that is  *)
(* due again at every poll can keep it waiting.                             *)
Hogs(id) == /\ id \in DOMAIN tasks /\ tasks[id].every # OneOff
            /\ tasks[id].every <= MaxRun + PollInterval

DueTaskServed ==
  \A id \in Ids : Due(id) ~> (~Due(id) \/ \E k \in Ids : k < id /\ Hogs(k))

(* Once a task is cancelled, no poll serves it and nothing puts it back on  *)
(* the schedule until a client changes it: neither the terminal status that *)
(* the run under way writes over the cancellation, nor a restart, nor the   *)
(* recurrence of another task, nor a run of a deleted task whose id the row *)
(* was given.  The one cancellation that is lost is that of a recurring     *)
(* task while its id is being served (Reschedules).                         *)
CancelHolds ==
  [][\A id \in cancelled \intersect cancelled' :
        /\ id \in DOMAIN tasks' /\ tasks'[id].status # "scheduled"
        /\ runner.pc = "sleep" /\ runner'.pc # "sleep" => runner'.id # id]_vars
=============================================================================
