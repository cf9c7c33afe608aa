---------------------------- MODULE RateLimiter ----------------------------
(***************************************************************************)
(* The request limiter of src/utils_ratelimit.py: a sliding window per      *)
(* (client address, path), installed by src/main.py with 5 requests in 60   *)
(* seconds.  `dispatch' decides before its first await, so a decision is    *)
(* one step.  The list attempts[key] is a set of positions in `admitted',   *)
(* the history of everything this process let through for that key.         *)
(* time.time() is taken to be non-decreasing.                               *)
(***************************************************************************)
EXTENDS Integers, Sequences, FiniteSets

CONSTANTS
  Keys,          \* pairs (client address, path)
  MaxRequests,   \* max_requests
  Window,        \* window_seconds
  MaxTime,       \* bound on the clock
  MaxLength,     \* bound on the history of a key
  None

ASSUME ConstantsAssumption ==
  /\ MaxRequests \in Nat \ {0} /\ Window \in Nat \ {0}
  /\ MaxTime \in Nat /\ MaxLength \in Nat
  /\ None \notin Keys

VARIABLES
  now,        \* the clock, in seconds
  admitted,   \* history: key -> times of the requests let through
  attempts,   \* self.attempts: key -> positions in admitted[key]
  refused     \* the key that has just been refused, or None

vars == <<now, admitted, attempts, refused>>

(* Mutated: a window one second short; a list that is never pruned.         *)
FreshShort(key) == {i \in attempts[key] : now - admitted[key][i] < Window - 1}
FreshAlways(key) == attempts[key]

Fresh(key) == {i \in attempts[key] : now - admitted[key][i] < Window}

Init ==
  /\ now = 0
  /\ admitted = [key \in Keys |-> <<>>]
  /\ attempts = [key \in Keys |-> {}]
  /\ refused = None

Admit(key) ==
  /\ Len(admitted[key]) < MaxLength
  /\ Cardinality(Fresh(key)) < MaxRequests
  /\ admitted' = [admitted EXCEPT ![key] = Append(@, now)]
  /\ attempts' = [attempts EXCEPT ![key] = Fresh(key) \union {Len(admitted[key]) + 1}]
  /\ refused' = None
  /\ UNCHANGED now

Refuse(key) ==
  /\ Cardinality(Fresh(key)) >= MaxRequests
  /\ attempts' = [attempts EXCEPT ![key] = Fresh(key)]
  /\ refused' = key
  /\ UNCHANGED <<now, admitted>>

Tick ==
  /\ now < MaxTime
  /\ now' = now + 1
  /\ refused' = None
  /\ UNCHANGED <<admitted, attempts>>

(* The lists live in the process.                                           *)
Restart ==
  /\ admitted' = [key \in Keys |-> <<>>]
  /\ attempts' = [key \in Keys |-> {}]
  /\ refused' = None
  /\ UNCHANGED now

Next == Tick \/ Restart \/ \E key \in Keys : Admit(key) \/ Refuse(key)

Spec == Init /\ [][Next]_vars

-----------------------------------------------------------------------------
(* Type invariant: the lists name requests that were let through, and the   *)
(* history is in the order of the clock (utils_ratelimit.py, attempts).     *)
TypeOK ==
  /\ now \in Nat
  /\ admitted \in [Keys -> Seq(Nat)]
  /\ \A key \in Keys : attempts[key] \subseteq 1..Len(admitted[key])
  /\ DOMAIN attempts = Keys
  /\ refused \in Keys \union {None}

(* No window of `Window' seconds holds more than MaxRequests requests of    *)
(* one key: the limiter prunes its list on every request and still forgets  *)
(* none too early.                                                          *)
WindowLimit ==
  \A key \in Keys : \A i \in 1..Len(admitted[key]) :
    i + MaxRequests <= Len(admitted[key])
      => admitted[key][i + MaxRequests] - admitted[key][i] >= Window

(* A request is refused only when MaxRequests were let through in the last  *)
(* `Window' seconds: refused requests and other keys do not count.          *)
RefusedOnlyWhenFull ==
  refused # None =>
    Cardinality({i \in 1..Len(admitted[refused]) : now - admitted[refused][i] < Window})
      >= MaxRequests
=============================================================================
