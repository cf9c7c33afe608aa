------------------------ MODULE RateLimiter_proofs ------------------------
(***************************************************************************)
(* The window of the rate limiter holds for every number of keys, limit,    *)
(* window and history.  The strengthening says what the pruned list still   *)
(* knows: a request that left it left the window too.                       *)
(***************************************************************************)
EXTENDS RateLimiter, FiniteSetTheorems, TLAPS

Ordered ==
  \A key \in Keys : \A i, j \in 1..Len(admitted[key]) :
    /\ i <= j => admitted[key][i] <= admitted[key][j]
    /\ admitted[key][i] <= now

Remembered ==
  \A key \in Keys : \A i \in 1..Len(admitted[key]) :
    now - admitted[key][i] < Window => i \in attempts[key]

IInv == TypeOK /\ Ordered /\ Remembered /\ WindowLimit

(* What is in the window stays there when it is moved to a later time.      *)
LEMMA LaterIsFresher ==
  ASSUME NEW a \in Int, NEW b \in Int, NEW c \in Int, NEW w \in Int, a <= b, c - a < w
  PROVE  c - b < w
OBVIOUS

(* A list of fewer than MaxRequests fresh entries means that the request    *)
(* MaxRequests places before the next one has left the window.              *)
LEMMA OldEnough ==
  ASSUME IInv, NEW key \in Keys, Cardinality(Fresh(key)) < MaxRequests,
         NEW i \in 1..Len(admitted[key]), i + MaxRequests = Len(admitted[key]) + 1
  PROVE  now - admitted[key][i] >= Window
<1> DEFINE n == Len(admitted[key])
<1>0. n \in Nat /\ admitted[key] \in Seq(Nat) /\ now \in Nat
      /\ MaxRequests \in Nat /\ Window \in Nat
  BY ConstantsAssumption DEF IInv, TypeOK
<1>1. SUFFICES ASSUME now - admitted[key][i] < Window PROVE FALSE
  BY <1>0
<1>2. i..n \subseteq Fresh(key)
  <2>1. SUFFICES ASSUME NEW j \in i..n PROVE j \in Fresh(key)
    OBVIOUS
  <2>2. j \in 1..n /\ i \in 1..n /\ i <= j
    BY <1>0
  <2>3. admitted[key][i] <= admitted[key][j]
    BY <2>2 DEF IInv, Ordered
  <2>4. admitted[key][i] \in Nat /\ admitted[key][j] \in Nat
    <3>1. \A s \in Seq(Nat) : \A k \in 1..Len(s) : s[k] \in Nat
      OBVIOUS
    <3> QED BY <1>0, <2>2, <3>1
  <2>5. now - admitted[key][j] < Window
    <3>1. /\ now \in Int /\ Window \in Int
          /\ admitted[key][i] \in Int /\ admitted[key][j] \in Int
      BY <1>0, <2>4
    <3> QED BY ONLY <1>1, <2>3, <3>1, LaterIsFresher
  <2> QED BY <2>2, <2>5 DEF IInv, Remembered, Fresh
<1>3. IsFiniteSet(Fresh(key))
  <2>1. Fresh(key) \in SUBSET (1..n)
    BY DEF Fresh, IInv, TypeOK
  <2>2. IsFiniteSet(1..n)
    BY <1>0, FS_Interval
  <2> QED BY <2>1, <2>2, FS_Subset
<1>4. Cardinality(i..n) = n - i + 1
  <2>1. i \in Int /\ n \in Int /\ i <= n
    BY <1>0
  <2> QED BY <2>1, FS_Interval
<1>5. Cardinality(i..n) <= Cardinality(Fresh(key))
  BY <1>2, <1>3, FS_Subset
<1>6. Cardinality(Fresh(key)) \in Nat
  BY <1>3, FS_CardinalityType
<1> QED BY <1>0, <1>4, <1>5, <1>6

(* The invariant holds at the start and after every step of the limiter.    *)
LEMMA Inductive == Spec => []IInv
<1>1. Init => IInv
  <2>1. SUFFICES ASSUME Init PROVE IInv
    OBVIOUS
  <2>2. \A key \in Keys : Len(admitted[key]) = 0
    BY <2>1 DEF Init
  <2>3. TypeOK
    BY <2>1, <2>2 DEF Init, TypeOK
  <2> QED BY <2>1, <2>2, <2>3 DEF IInv, Ordered, Remembered, WindowLimit
<1>2. IInv /\ [Next]_vars => IInv'
  <2> SUFFICES ASSUME IInv, [Next]_vars PROVE IInv'
    OBVIOUS
  <2> USE ConstantsAssumption
  <2>0. /\ now \in Nat /\ admitted \in [Keys -> Seq(Nat)] /\ Window \in Nat
        /\ \A key \in Keys : /\ Len(admitted[key]) \in Nat
                             /\ \A i \in 1..Len(admitted[key]) : admitted[key][i] \in Nat
    BY DEF IInv, TypeOK
  <2>1. CASE Tick
    <3>1. now' = now + 1 /\ admitted' = admitted /\ attempts' = attempts /\ refused' = None
      BY <2>1 DEF Tick
    <3>2. TypeOK'
      BY <2>0, <3>1 DEF IInv, TypeOK
    <3>3. Ordered'
      BY <2>0, <3>1 DEF IInv, Ordered
    <3>4. Remembered'
      BY <2>0, <3>1 DEF IInv, Remembered
    <3>5. WindowLimit'
      BY <3>1 DEF IInv, WindowLimit
    <3> QED BY <3>2, <3>3, <3>4, <3>5 DEF IInv
  <2>2. CASE Restart
    <3>1. \A key \in Keys : Len(admitted'[key]) = 0
      BY <2>2 DEF Restart
    <3>2. TypeOK'
      BY <2>0, <2>2, <3>1 DEF Restart, TypeOK
    <3> QED BY <3>1, <3>2 DEF IInv, Ordered, Remembered, WindowLimit
  <2>3. ASSUME NEW key \in Keys, Admit(key) PROVE IInv'
    <3> DEFINE n == Len(admitted[key])
    <3>0. now' = now
      BY <2>3 DEF Admit
    <3>1. /\ admitted' \in [Keys -> Seq(Nat)] /\ DOMAIN attempts' = Keys
          /\ Len(admitted'[key]) = n + 1 /\ admitted'[key][n + 1] = now
          /\ \A i \in 1..n : admitted'[key][i] = admitted[key][i]
          /\ attempts'[key] = Fresh(key) \union {n + 1}
      BY <2>0, <2>3 DEF Admit, IInv, TypeOK
    <3>2. \A k \in Keys \ {key} : admitted'[k] = admitted[k] /\ attempts'[k] = attempts[k]
      BY <2>0, <2>3 DEF Admit, IInv, TypeOK
    <3>3. TypeOK'
      <4>1. attempts'[key] \subseteq 1..(n + 1)
        BY <2>0, <3>1 DEF Fresh, IInv, TypeOK
      <4>2. \A k \in Keys : attempts'[k] \subseteq 1..Len(admitted'[k])
        BY <3>1, <3>2, <4>1 DEF IInv, TypeOK
      <4> QED BY <2>0, <2>3, <3>0, <3>1, <4>2 DEF Admit, TypeOK
    <3>4. Ordered'
      <4>1. SUFFICES ASSUME NEW k \in Keys, NEW i \in 1..Len(admitted'[k]),
                            NEW j \in 1..Len(admitted'[k])
                     PROVE  /\ i <= j => admitted'[k][i] <= admitted'[k][j]
                            /\ admitted'[k][i] <= now
        BY <3>0 DEF Ordered
      <4>2. CASE k # key
        BY <3>2, <4>1, <4>2 DEF IInv, Ordered
      <4>3. CASE k = key
        <5>1. i \in 1..(n + 1) /\ j \in 1..(n + 1)
          BY <3>1, <4>1, <4>3
        <5>2. \A m \in 1..n : admitted'[key][m] <= now
          BY <3>1 DEF IInv, Ordered
        <5>3. CASE i = n + 1 \/ j = n + 1
          <6>1. n \in Nat /\ now \in Nat /\ now <= now
            BY <2>0
          <6>2. i <= j /\ i = n + 1 => j = n + 1
            BY <5>1, <6>1
          <6> HIDE DEF n
          <6> QED BY <3>1, <4>3, <5>1, <5>2, <5>3, <6>1, <6>2
        <5>4. CASE i \in 1..n /\ j \in 1..n
          BY <3>1, <4>3, <5>4 DEF IInv, Ordered
        <5> QED BY <2>0, <5>1, <5>3, <5>4
      <4> QED BY <4>2, <4>3
    <3>5. Remembered'
      <4>1. SUFFICES ASSUME NEW k \in Keys, NEW i \in 1..Len(admitted'[k]),
                            now - admitted'[k][i] < Window
                     PROVE  i \in attempts'[k]
        BY <3>0 DEF Remembered
      <4>2. CASE k # key
        BY <3>2, <4>1, <4>2 DEF IInv, Remembered
      <4>3. CASE k = key /\ i = n + 1
        BY <3>1, <4>3
      <4>4. CASE k = key /\ i \in 1..n
        BY <3>1, <4>1, <4>4 DEF IInv, Remembered, Fresh
      <4> QED BY <2>0, <3>1, <4>1, <4>2, <4>3, <4>4
    <3>6. WindowLimit'
      <4>1. SUFFICES ASSUME NEW k \in Keys, NEW i \in 1..Len(admitted'[k]),
                            i + MaxRequests <= Len(admitted'[k])
                     PROVE  admitted'[k][i + MaxRequests] - admitted'[k][i] >= Window
        BY DEF WindowLimit
      <4>2. CASE k # key
        BY <3>2, <4>1, <4>2 DEF IInv, WindowLimit
      <4>3. CASE k = key /\ i + MaxRequests = n + 1
        <5>1. i \in 1..n
          BY <2>0, <4>1, <4>3
        <5>2. now - admitted[key][i] >= Window
          BY <2>3, <4>3, <5>1, OldEnough DEF Admit
        <5> QED BY <3>1, <4>3, <5>1, <5>2
      <4>4. CASE k = key /\ i + MaxRequests \in 1..n
        <5>1. i \in 1..n
          BY <2>0, <4>1, <4>4
        <5>2. admitted[key][i + MaxRequests] - admitted[key][i] >= Window
          BY <2>0, <4>4, <5>1 DEF IInv, WindowLimit
        <5> QED BY <3>1, <4>4, <5>1, <5>2
      <4>5. CASE k = key
        <5>1. i + MaxRequests \in 1..(n + 1)
          BY <2>0, <3>1, <4>1, <4>5
        <5>2. i + MaxRequests = n + 1 \/ i + MaxRequests \in 1..n
          <6>1. \A m \in Nat : \A x \in 1..(m + 1) : x = m + 1 \/ x \in 1..m
            OBVIOUS
          <6> QED BY <2>0, <5>1, <6>1
        <5> QED BY <4>3, <4>4, <4>5, <5>2
      <4> QED BY <4>2, <4>5
    <3> QED BY <3>3, <3>4, <3>5, <3>6 DEF IInv
  <2>4. ASSUME NEW key \in Keys, Refuse(key) PROVE IInv'
    <3>1. /\ now' = now /\ admitted' = admitted /\ refused' = key /\ DOMAIN attempts' = Keys
          /\ attempts'[key] = Fresh(key)
          /\ \A k \in Keys \ {key} : attempts'[k] = attempts[k]
      BY <2>4 DEF Refuse, IInv, TypeOK
    <3>2. TypeOK'
      BY <2>0, <3>1 DEF Fresh, IInv, TypeOK
    <3>3. Ordered' /\ WindowLimit'
      BY <3>1 DEF IInv, Ordered, WindowLimit
    <3>4. Remembered'
      BY <3>1 DEF Fresh, IInv, Remembered
    <3> QED BY <3>2, <3>3, <3>4 DEF IInv
  <2>5. CASE UNCHANGED vars
    BY <2>5 DEF vars, IInv, TypeOK, Ordered, Remembered, WindowLimit
  <2> QED BY <2>1, <2>2, <2>3, <2>4, <2>5 DEF Next
<1> QED BY <1>1, <1>2, PTL DEF Spec

(* The lists only name requests that were let through                       *)
(* (utils_ratelimit.py, attempts).                                          *)
THEOREM TypeCorrect == Spec => []TypeOK
<1>1. IInv => TypeOK
  BY DEF IInv
<1> QED BY <1>1, Inductive, PTL

(* However often the list of a key is pruned, refused against or restarted, *)
(* no `Window' seconds hold more than MaxRequests requests of that key      *)
(* (utils_ratelimit.py, dispatch).                                          *)
THEOREM AtMostMaxPerWindow == Spec => []WindowLimit
<1>1. IInv => WindowLimit
  BY DEF IInv
<1> QED BY <1>1, Inductive, PTL

(* What fills the list is what was let through within the window, so a      *)
(* refusal always has MaxRequests recent admissions behind it.              *)
LEMMA RefusalNow ==
  ASSUME IInv, NEW key \in Keys, Refuse(key) PROVE RefusedOnlyWhenFull'
<1> DEFINE recent == {i \in 1..Len(admitted[key]) : now - admitted[key][i] < Window}
<1>1. Fresh(key) \subseteq recent
  BY DEF Fresh, IInv, TypeOK
<1>2. Len(admitted[key]) \in Nat
  BY DEF IInv, TypeOK
<1>3. IsFiniteSet(recent)
  <2>1. IsFiniteSet(1..Len(admitted[key]))
    BY <1>2, FS_Interval
  <2>2. recent \in SUBSET (1..Len(admitted[key]))
    OBVIOUS
  <2> HIDE DEF recent
  <2> QED BY <2>1, <2>2, FS_Subset
<1>4. Cardinality(Fresh(key)) <= Cardinality(recent) /\ IsFiniteSet(Fresh(key))
  BY <1>1, <1>3, FS_Subset
<1>5. Cardinality(Fresh(key)) \in Nat /\ Cardinality(recent) \in Nat
  BY <1>3, <1>4, FS_CardinalityType
<1>6. Cardinality(recent) >= MaxRequests
  <2> HIDE DEF recent
  <2> QED BY <1>4, <1>5, ConstantsAssumption DEF Refuse
<1> QED BY <1>6 DEF RefusedOnlyWhenFull, Refuse

(* A client is refused only for requests of its own that were let through   *)
(* in the last `Window' seconds (utils_ratelimit.py, dispatch).             *)
THEOREM RefusalJustified == Spec => []RefusedOnlyWhenFull
<1>1. Init => RefusedOnlyWhenFull
  BY DEF Init, RefusedOnlyWhenFull
<1>2. IInv /\ RefusedOnlyWhenFull /\ [Next]_vars => RefusedOnlyWhenFull'
  <2> SUFFICES ASSUME IInv, RefusedOnlyWhenFull, [Next]_vars PROVE RefusedOnlyWhenFull'
    OBVIOUS
  <2>1. CASE Tick \/ Restart
    BY <2>1 DEF Tick, Restart, RefusedOnlyWhenFull
  <2>2. ASSUME NEW key \in Keys, Admit(key) PROVE RefusedOnlyWhenFull'
    BY <2>2 DEF Admit, RefusedOnlyWhenFull
  <2>3. ASSUME NEW key \in Keys, Refuse(key) PROVE RefusedOnlyWhenFull'
    BY <2>3, RefusalNow
  <2>4. CASE UNCHANGED vars
    BY <2>4 DEF vars, RefusedOnlyWhenFull
  <2> QED BY <2>1, <2>2, <2>3, <2>4 DEF Next
<1> QED BY <1>1, <1>2, Inductive, PTL DEF Spec
=============================================================================
