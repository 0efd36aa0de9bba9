------------------------- MODULE RateLimiterProofs -------------------------
(***************************************************************************)
(* Theorems about RateLimiter, for every burst, length of a second and     *)
(* time bound.  WindowBound is not inductive: a step that lets a request   *)
(* pass must know that what passed since any earlier tick a and what is    *)
(* still in the bucket never add up to more than the burst and what has    *)
(* dripped in since a.  That is Flow.                                      *)
(***************************************************************************)
EXTENDS RateLimiter, TLAPS

\* What passed since tick a and what the bucket holds never exceed the burst
\* and the drip since a.
Flow ==
    \A a \in 0 .. now :
      (served[now] - Before(a)) * Second + Level(now) <= Capacity + (now - a)

\* The count of the current tick goes on from that of the tick before.
CountGrows == Before(now) <= served[now]

Inv == TypeOK /\ Flow /\ WindowBound /\ CountGrows

\* A whole number of tokens that fits in c parts is at most c: what keeps the
\* counts of the model inside MaxServed.
LEMMA TokensFit ==
    ASSUME NEW n \in Nat, NEW s \in Nat \ {0}, NEW c \in Int, n * s <= c
    PROVE  n <= c
  <1>1. n <= n * s
    BY SMT
  <1> QED
    BY <1>1

LEMMA CapacityType == Capacity \in Nat /\ Capacity >= Second
  <1>1. Burst * Second >= Second
    BY BucketAssumption, SMT
  <1> QED
    BY <1>1, BucketAssumption DEF Capacity

LEMMA BeforeType ==
    ASSUME TypeOK, NEW t \in 0 .. now
    PROVE  Before(t) \in Nat
  <1> QED
    BY CapacityType, BucketAssumption DEF TypeOK, Before, MaxServed

\* The bucket starts full, and Inv holds.
LEMMA InitInv == Init => Inv
  <1> SUFFICES ASSUME Init PROVE Inv
    OBVIOUS
  <1>1. TypeOK
    BY CapacityType, BucketAssumption DEF Init, TypeOK, MaxServed
  <1>2. \A a \in 0 .. now : Before(a) = 0 /\ served[a] = 0
    BY BucketAssumption DEF Init, Before
  <1>3. Level(now) = Capacity
    BY CapacityType DEF Init, Level
  <1>4. Flow
    <2> SUFFICES ASSUME NEW a \in 0 .. now
                 PROVE  (served[now] - Before(a)) * Second + Level(now) <= Capacity + (now - a)
      BY DEF Flow
    <2>1. (served[now] - Before(a)) * Second = 0
      BY <1>2, BucketAssumption DEF Init
    <2> QED
      BY <2>1, <1>3, CapacityType DEF Init
  <1>5. WindowBound
    <2> SUFFICES ASSUME NEW a \in 0 .. now, NEW b \in 0 .. now
                 PROVE  (served[b] - Before(a)) * Second <= Capacity + (b - a)
      BY DEF WindowBound
    <2>1. (served[b] - Before(a)) * Second = 0
      BY <1>2, BucketAssumption
    <2> QED
      BY <2>1, CapacityType DEF Init
  <1>6. CountGrows
    BY <1>2 DEF Init, CountGrows
  <1> QED
    BY <1>1, <1>4, <1>5, <1>6 DEF Inv

\* A passing request takes a whole token out of the bucket.
LEMMA AllowInv == Inv /\ Allow => Inv'
  <1> SUFFICES ASSUME Inv, Allow PROVE Inv'
    OBVIOUS
  <1> USE BucketAssumption, CapacityType DEF Inv
  <1>1. now \in Nat /\ now <= MaxTime /\ now' = now /\ last' = now
    BY DEF TypeOK, Allow
  <1>2. Level(now) \in 0 .. Capacity /\ Level(now) >= Second
    BY DEF TypeOK, Allow, Level
  <1>3. tokens' = Level(now) - Second /\ Level(now)' = Level(now) - Second
    BY <1>1, <1>2 DEF Allow, Level
  <1>4. served' = [served EXCEPT ![now] = @ + 1] /\ served[now] \in Nat
    BY DEF Allow, TypeOK, MaxServed
  <1>5. \A t \in 0 .. now : Before(t)' = Before(t) /\ Before(t) \in Nat
    <2> SUFFICES ASSUME NEW t \in 0 .. now PROVE Before(t)' = Before(t) /\ Before(t) \in Nat
      OBVIOUS
    <2>1. t # 0 => t - 1 # now /\ t - 1 \in 0 .. MaxTime
      BY <1>1
    <2>2. t # 0 => served'[t - 1] = served[t - 1]
      BY <2>1, <1>4 DEF TypeOK
    <2> QED
      BY <2>2, BeforeType DEF Before
  <1>6. served'[now] = served[now] + 1
    BY <1>1, <1>4 DEF TypeOK
  <1>7. Flow'
    <2> SUFFICES ASSUME NEW a \in 0 .. now
                 PROVE  (served'[now] - Before(a)) * Second + (Level(now) - Second)
                          <= Capacity + (now - a)
      BY <1>1, <1>3, <1>5 DEF Flow
    <2>1. (served'[now] - Before(a)) * Second = (served[now] - Before(a)) * Second + Second
      BY <1>4, <1>5, <1>6
    <2>2. (served[now] - Before(a)) * Second + Level(now) <= Capacity + (now - a)
      BY DEF Flow
    <2>3. (served[now] - Before(a)) * Second \in Int
      BY <1>4, <1>5
    <2> QED
      BY <2>1, <2>2, <2>3, <1>1, <1>2
  <1>8. (served'[now] - Before(0)) * Second + (Level(now) - Second) <= Capacity + now
    BY <1>1, <1>3, <1>5, <1>7 DEF Flow
  <1>9. served'[now] \in 0 .. MaxServed
    <2>1. Before(0) = 0
      BY DEF Before
    <2>2. served'[now] * Second <= Capacity + now
      BY <1>1, <1>2, <1>4, <1>6, <1>8, <2>1
    <2>3. served'[now] <= Capacity + now
      BY <2>2, <1>1, <1>4, <1>6, TokensFit
    <2> QED
      BY <2>3, <1>1, <1>4, <1>6 DEF MaxServed
  <1>10. TypeOK'
    BY <1>1, <1>2, <1>3, <1>4, <1>9 DEF TypeOK, Allow
  <1>11. WindowBound'
    <2> SUFFICES ASSUME NEW a \in 0 .. now, NEW b \in 0 .. now, a <= b
                 PROVE  (served'[b] - Before(a)) * Second <= Capacity + (b - a)
      BY <1>1, <1>5 DEF WindowBound
    <2>1. CASE b = now
      <3>1. (served'[now] - Before(a)) * Second + (Level(now) - Second) <= Capacity + (now - a)
        BY <1>1, <1>3, <1>5, <1>7 DEF Flow
      <3>2. (served'[now] - Before(a)) * Second \in Int
        BY <1>4, <1>5, <1>6
      <3> QED
        BY <3>1, <3>2, <2>1, <1>1, <1>2
    <2>2. CASE b # now
      BY <2>2, <1>1, <1>4 DEF WindowBound, TypeOK
    <2> QED
      BY <2>1, <2>2
  <1>12. CountGrows'
    BY <1>1, <1>4, <1>5, <1>6 DEF CountGrows
  <1> QED
    BY <1>7, <1>10, <1>11, <1>12

\* In a tick at most one part drips in.
LEMMA TickInv == Inv /\ Tick => Inv'
  <1> SUFFICES ASSUME Inv, Tick PROVE Inv'
    OBVIOUS
  <1> USE BucketAssumption, CapacityType DEF Inv
  <1>1. /\ now \in Nat /\ now < MaxTime /\ now' = now + 1
        /\ last' = last /\ tokens' = tokens
    BY DEF TypeOK, Tick
  <1>2. served' = [served EXCEPT ![now + 1] = served[now]] /\ served[now] \in 0 .. MaxServed
    BY <1>1 DEF Tick, TypeOK
  <1>3. \A t \in 0 .. now : served'[t] = served[t] /\ Before(t)' = Before(t)
    <2> SUFFICES ASSUME NEW t \in 0 .. now
                 PROVE  served'[t] = served[t] /\ Before(t)' = Before(t)
      OBVIOUS
    <2>1. t # now + 1 /\ t \in 0 .. MaxTime /\ (t # 0 => t - 1 \in 0 .. MaxTime /\ t - 1 # now + 1)
      BY <1>1
    <2>2. served'[t] = served[t] /\ (t # 0 => served'[t - 1] = served[t - 1])
      BY <2>1, <1>2 DEF TypeOK
    <2> QED
      BY <2>2 DEF Before
  <1>4. served'[now + 1] = served[now] /\ \A a \in {now + 1} : Before(a)' = served[now]
    <2>1. served'[now] = served[now]
      BY <1>1, <1>3
    <2> QED
      BY <2>1, <1>1, <1>2 DEF TypeOK, Before
  <1>5. TypeOK'
    BY <1>1, <1>2 DEF TypeOK
  <1>6. Level(now)' <= Level(now) + 1 /\ Level(now)' \in 0 .. Capacity /\ Level(now) \in 0 .. Capacity
    BY <1>1 DEF Level, TypeOK
  <1>7. Flow'
    <2> SUFFICES ASSUME NEW a \in 0 .. now + 1
                 PROVE  (served'[now + 1] - Before(a)') * Second + Level(now)'
                          <= Capacity + (now + 1 - a)
      BY <1>1 DEF Flow
    <2>1. CASE a = now + 1
      <3>1. (served'[now + 1] - Before(a)') * Second = 0
        BY <2>1, <1>2, <1>4
      <3> QED
        BY <3>1, <2>1, <1>1, <1>6
    <2>2. CASE a # now + 1
      <3>1. a \in 0 .. now
        BY <2>2, <1>1
      <3>2. (served[now] - Before(a)) * Second + Level(now) <= Capacity + (now - a)
        BY <3>1 DEF Flow
      <3>3. (served[now] - Before(a)) * Second \in Int
        BY <3>1, <1>2, BeforeType
      <3> QED
        BY <3>1, <3>2, <3>3, <1>1, <1>3, <1>4, <1>6
    <2> QED
      BY <2>1, <2>2
  <1>8. WindowBound'
    <2> SUFFICES ASSUME NEW a \in 0 .. now + 1, NEW b \in 0 .. now + 1, a <= b
                 PROVE  (served'[b] - Before(a)') * Second <= Capacity + (b - a)
      BY <1>1 DEF WindowBound
    <2>1. CASE b = now + 1
      <3>1. (served'[now + 1] - Before(a)') * Second + Level(now)' <= Capacity + (now + 1 - a)
        BY <1>1, <1>7 DEF Flow
      <3>2. (served'[now + 1] - Before(a)') * Second \in Int
        <4>1. CASE a = now + 1
          BY <4>1, <1>2, <1>4 DEF MaxServed
        <4>2. CASE a \in 0 .. now
          BY <4>2, <1>2, <1>3, <1>4, BeforeType DEF MaxServed
        <4> QED
          BY <4>1, <4>2, <1>1
      <3> QED
        BY <3>1, <3>2, <2>1, <1>1, <1>6
    <2>2. CASE b # now + 1
      BY <2>2, <1>1, <1>3 DEF WindowBound
    <2> QED
      BY <2>1, <2>2
  <1>9. CountGrows'
    <2>1. Before(now)' = served[now]
      BY <1>1, <1>3 DEF Before
    <2> QED
      BY <2>1, <1>1, <1>2, <1>4 DEF CountGrows
  <1> QED
    BY <1>5, <1>7, <1>8, <1>9

\* Inv is an invariant of the limiter.
THEOREM Invariance == Spec => []Inv
  <1>1. Inv /\ [Next]_vars => Inv'
    <2> SUFFICES ASSUME Inv, [Next]_vars PROVE Inv'
      OBVIOUS
    <2>1. CASE UNCHANGED vars
      BY <2>1 DEF vars, Inv, TypeOK, Flow, WindowBound, CountGrows, Before, Level
    <2> QED
      BY <2>1, AllowInv, TickInv DEF Next, TooManyRequests
  <1> QED
    BY <1>1, InitInv, PTL DEF Spec

\* The bucket never holds less than nothing or more than the burst, and the
\* counts stay in their bound (ratelimit.go:12).
THEOREM TypesHold == Spec => []TypeOK
  <1>1. Inv => TypeOK
    BY DEF Inv
  <1> QED
    BY <1>1, Invariance, PTL

\* For every burst and refill rate, no stretch of time sees more requests pass
\* than the burst and what drips in during it (ratelimit.go:12).
THEOREM WindowBoundHolds == Spec => []WindowBound
  <1>1. Inv => WindowBound
    BY DEF Inv
  <1> QED
    BY <1>1, Invariance, PTL

=============================================================================
