----------------------------- MODULE Notifications -----------------------------
(***************************************************************************)
(* Notification rules and their delivery (src/crud_journal.py,              *)
(* src/crud_notifications.py, src/utils_notify_dispatch.py, POST            *)
(* /vpn/create): tables notification_rules and notification_history.        *)
(*                                                                          *)
(* A journal entry starts a task that is not waited for.  The task loads    *)
(* the rules of the entry's operation with the session of the request, and  *)
(* each record of a delivery is a COMMIT that expires what that session has *)
(* loaded: the next rule cannot be read (MissingGreenlet) and the task      *)
(* dies, unless the request closed the session before, which detaches the   *)
(* rules with their values.  The VPN handler runs the same loop in its own  *)
(* request, without the filters, and starts it again for `failure' when it  *)
(* fails.  Rules are never changed; the way a rule is delivered is data,    *)
(* and a delivery that fails is recorded all the same.                      *)
(***************************************************************************)
EXTENDS Integers

CONSTANTS
  Events,             \* operations, "create" and "failure" among them
  Kinds,              \* what an entry is about: resource type and id
  AnyKind,            \* a rule that names no resource
  None,
  MaxRule, MaxTask,   \* bounds on ids
  Requests,           \* slots for overlapping rule removals
  Answers             \* outcomes of a router call

RuleIds == 1..MaxRule
TaskIds == 1..MaxTask
Rule    == [event: Events, wants: Kinds \union {AnyKind}]
Row     == [rule: RuleIds, task: TaskIds, event: Events]

VARIABLES
  rules,      \* table notification_rules: id -> Rule
  history,    \* table notification_history: a set of Row
  tasks,      \* the deliveries, in the order they started
  removal,    \* what each removal of a rule is doing
  stray       \* history: rows recorded while or after their rule was removed

vars == <<rules, history, tasks, removal, stray>>

Idle == [pc |-> "idle", id |-> 0, found |-> {}]

Init ==
  /\ rules = [k \in {} |-> None]
  /\ history = {}
  /\ tasks = [t \in {} |-> None]
  /\ removal = [r \in Requests |-> Idle]
  /\ stray = {}

-----------------------------------------------------------------------------
FreshId(table, n) == /\ \A k \in DOMAIN table : k < n
                     /\ n = 1 \/ n - 1 \in DOMAIN table
Put(table, n, row) == [k \in DOMAIN table \union {n} |-> IF k = n THEN row ELSE table[k]]
Lowest(S) == CHOOSE n \in S : \A m \in S : n <= m

(* create_notification_rule                                                 *)
AddRule(event, wants) ==
  /\ \E n \in RuleIds : FreshId(rules, n) /\
       rules' = Put(rules, n, [event |-> event, wants |-> wants])
  /\ UNCHANGED <<history, tasks, removal, stray>>

(* delete_notification_rule: db.delete loads the history that goes along.   *)
RemoveLoad(r, id) ==
  /\ removal[r].pc = "idle" /\ id \in DOMAIN rules
  /\ removal' = [removal EXCEPT ![r] =
       [pc |-> "commit", id |-> id, found |-> {h \in history : h.rule = id}]]
  /\ UNCHANGED <<rules, history, tasks, stray>>

(* A task that has loaded a rule does not see it go.                        *)
Outlive(id) ==
  tasks' = [t \in DOMAIN tasks |->
              IF tasks[t].pc # "over" /\ id \in DOMAIN tasks[t].loaded
              THEN [tasks[t] EXCEPT !.gone = @ \union {id}] ELSE tasks[t]]

(* Mutated: the relationship does not cascade.                              *)
RemoveCommitOnly(r) ==
  /\ removal[r].pc = "commit"
  /\ rules' = [k \in DOMAIN rules \ {removal[r].id} |-> rules[k]]
  /\ Outlive(removal[r].id)
  /\ removal' = [removal EXCEPT ![r] = Idle]
  /\ UNCHANGED <<history, stray>>

RemoveCommit(r) ==
  /\ removal[r].pc = "commit"
  /\ rules' = [k \in DOMAIN rules \ {removal[r].id} |-> rules[k]]
  /\ history' = history \ removal[r].found
  /\ stray' = stray \ removal[r].found
  /\ Outlive(removal[r].id)
  /\ removal' = [removal EXCEPT ![r] = Idle]

-----------------------------------------------------------------------------
(* via: the journal, or what the router answered to the VPN handler.        *)
Task(via, event, kind) ==
  [pc |-> "load", via |-> via, event |-> event, kind |-> kind,
   loaded |-> [k \in {} |-> None], left |-> {}, sent |-> {}, gone |-> {},
   closed |-> FALSE, detached |-> FALSE, expired |-> FALSE,
   several |-> FALSE, reply |-> None]

Start(via, event, kind) ==
  /\ \E t \in TaskIds : FreshId(tasks, t)
                       /\ tasks' = Put(tasks, t, Task(via, event, kind))
  /\ UNCHANGED <<rules, history, removal, stray>>

(* create_journal_entry                                                     *)
Journal(event, kind) == Start("journal", event, kind)

(* create_vpn, up to the first dispatch_notifications.                      *)
CreateVpn(answer) == Start(answer, IF answer = "ok" THEN "create" ELSE "failure", AnyKind)

(* The request of a journal entry ends and closes the session: rules it has *)
(* loaded and not expired keep their values.                                *)
Close(t) ==
  /\ tasks[t].via = "journal" /\ tasks[t].pc \notin {"over", "lost"}
  /\ ~tasks[t].closed
  /\ tasks' = [tasks EXCEPT ![t].closed = TRUE,
                 ![t].detached = tasks[t].pc # "load" /\ ~tasks[t].expired]
  /\ UNCHANGED <<rules, history, removal, stray>>

(* get_notification_rules: the rules, in the order of their ids, belong to  *)
(* the session, which a query opens again after close().                    *)
Load(t) ==
  /\ tasks[t].pc = "load"
  /\ LET found == {k \in DOMAIN rules : rules[k].event = tasks[t].event}
     IN tasks' = [tasks EXCEPT ![t] =
          [tasks[t] EXCEPT !.pc = "next", !.left = found,
             !.loaded = [k \in found |-> rules[k]],
             !.expired = FALSE, !.sent = {}, !.gone = {},
             !.several = tasks[t].several \/ \E j, k \in found : j # k]]
  /\ UNCHANGED <<rules, history, removal, stray>>

(* trigger_notifications_for_event filters, dispatch_notifications does not.*)
Matches(task, rule) == task.via # "journal" \/ rule.wants \in {AnyKind, task.kind}

Skip(t) ==
  /\ tasks[t].pc = "next" /\ ~tasks[t].expired /\ tasks[t].left # {}
  /\ LET k == Lowest(tasks[t].left)
     IN /\ ~Matches(tasks[t], tasks[t].loaded[k])
        /\ tasks' = [tasks EXCEPT ![t].left = @ \ {k}]
  /\ UNCHANGED <<rules, history, removal, stray>>

(* send_webhook, send_email                                                 *)
Deliver(t) ==
  /\ tasks[t].pc = "next" /\ ~tasks[t].expired /\ tasks[t].left # {}
  /\ LET k == Lowest(tasks[t].left)
     IN /\ Matches(tasks[t], tasks[t].loaded[k])
        /\ tasks' = [tasks EXCEPT ![t].pc = "record", ![t].sent = @ \union {k}]
  /\ UNCHANGED <<rules, history, removal, stray>>

Removing(k) == {r \in Requests : removal[r].pc = "commit" /\ removal[r].id = k}

(* Mutated: a COMMIT leaves what the session has loaded.                    *)
RecordKept(t) ==
  /\ tasks[t].pc = "record"
  /\ LET k == Lowest(tasks[t].left)
         row == [rule |-> k, task |-> t, event |-> tasks[t].event]
     IN /\ history' = history \union {row}
        /\ stray' = IF k \in tasks[t].gone \/ Removing(k) # {}
                    THEN stray \union {row} ELSE stray
        /\ tasks' = [tasks EXCEPT ![t].pc = "next", ![t].left = @ \ {k}]
  /\ UNCHANGED <<rules, removal>>

(* create_notification_history                                              *)
Record(t) ==
  /\ tasks[t].pc = "record"
  /\ LET k == Lowest(tasks[t].left)
         row == [rule |-> k, task |-> t, event |-> tasks[t].event]
     IN /\ history' = history \union {row}
        /\ stray' = IF k \in tasks[t].gone \/ Removing(k) # {}
                    THEN stray \union {row} ELSE stray
        /\ tasks' = [tasks EXCEPT ![t].pc = "next", ![t].left = @ \ {k},
                                  ![t].expired = ~tasks[t].detached]
  /\ UNCHANGED <<rules, removal>>

(* What create_vpn returns after the loop for an event.                     *)
Reply(event) == IF event = "create" THEN "success" ELSE "error"

Over(t, reply) ==
  /\ tasks' = [tasks EXCEPT ![t].pc = "over", ![t].reply = reply]
  /\ UNCHANGED <<rules, history, removal, stray>>

(* No rule is left.                                                         *)
End(t) ==
  /\ tasks[t].pc = "next" /\ tasks[t].left = {}
  /\ Over(t, Reply(tasks[t].event))

(* Mutated: an error of the first loop is left to the second one to tell.   *)
DieSilently(t) ==
  /\ tasks[t].pc = "next" /\ tasks[t].left # {} /\ tasks[t].expired
  /\ Over(t, Reply(tasks[t].event))

(* MissingGreenlet: the VPN handler turns it into a second loop.            *)
Die(t) ==
  /\ tasks[t].pc = "next" /\ tasks[t].left # {} /\ tasks[t].expired
  /\ \/ /\ tasks[t].via = "ok" /\ tasks[t].event = "create"
        /\ tasks' = [tasks EXCEPT ![t].pc = "load", ![t].event = "failure"]
        /\ UNCHANGED <<rules, history, removal, stray>>
     \/ /\ tasks[t].via = "journal" \/ tasks[t].event = "failure"
        /\ Over(t, "server error")

(* The process is restarted: what was going on is forgotten.                *)
Crash ==
  /\ tasks' = [t \in DOMAIN tasks |->
        IF tasks[t].pc = "over" THEN tasks[t]
        ELSE [Task("journal", tasks[t].event, AnyKind) EXCEPT !.pc = "lost"]]
  /\ removal' = [r \in Requests |-> Idle]
  /\ UNCHANGED <<rules, history, stray>>

-----------------------------------------------------------------------------
Administer ==
  \/ \E event \in Events, wants \in Kinds \union {AnyKind} : AddRule(event, wants)
  \/ \E r \in Requests : RemoveCommit(r) \/ \E id \in RuleIds : RemoveLoad(r, id)

Trigger ==
  \/ \E event \in Events, kind \in Kinds : Journal(event, kind)
  \/ \E answer \in Answers : CreateVpn(answer)

Step(t) == \/ Close(t) \/ Load(t) \/ Skip(t) \/ Deliver(t) \/ Record(t)
           \/ End(t) \/ Die(t)

Next ==
  \/ Administer
  \/ Trigger
  \/ \E t \in DOMAIN tasks : Step(t)
  \/ Crash

Spec == Init /\ [][Next]_vars

-----------------------------------------------------------------------------
(* Type invariant of the tables, the deliveries and the history             *)
(* (models.NotificationRule, NotificationHistory).                          *)
TypeOK ==
  /\ DOMAIN rules \subseteq RuleIds /\ rules \in [DOMAIN rules -> Rule]
  /\ history \subseteq Row /\ stray \subseteq history
  /\ DOMAIN tasks \subseteq TaskIds
  /\ \A t \in DOMAIN tasks :
       /\ tasks[t].event \in Events /\ tasks[t].left \subseteq DOMAIN tasks[t].loaded
       /\ tasks[t].sent \subseteq DOMAIN tasks[t].loaded
  /\ DOMAIN removal = Requests

MatchingRules(task) == {k \in DOMAIN task.loaded : Matches(task, task.loaded[k])}

(* A task that has run to its end has served the first rule that matches    *)
(* the journal entry, and the others only if the request closed its session *)
(* after the rules were loaded and before the first delivery was recorded.  *)
FirstOrAllServed ==
  \A t \in DOMAIN tasks : tasks[t].via = "journal" /\ tasks[t].pc = "over" =>
    LET matching == MatchingRules(tasks[t])
    IN tasks[t].sent = IF tasks[t].detached \/ matching = {} THEN matching
                       ELSE {Lowest(matching)}

(* A row of the history that shows under a rule is about that rule's event, *)
(* although ids are used again, unless it was recorded by a delivery that   *)
(* the removal of its rule overlapped.                                      *)
HistoryOfItsRule ==
  \A row \in history \ stray :
    row.rule \in DOMAIN rules => rules[row.rule].event = row.event

(* The client of create_vpn is told of success exactly when the router      *)
(* acknowledged the tunnel and no more than one rule waits for `create'.    *)
VpnReply ==
  \A t \in DOMAIN tasks : tasks[t].via # "journal" /\ tasks[t].pc = "over" =>
    (tasks[t].reply = "success" <=> tasks[t].via = "ok" /\ ~tasks[t].several)
=============================================================================
