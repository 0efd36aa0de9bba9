---------------------------- MODULE RateLimiter ----------------------------
(***************************************************************************)
(* The limiter of middleware/ratelimit.go: one token bucket for the whole  *)
(* HTTP server, asked once by every request, from whatever address and for *)
(* whatever path.  Allow takes the limiter's mutex, so a request is one    *)
(* step.  The bucket itself is golang.org/x/time/rate.                     *)
(*                                                                         *)
(* Time is counted in ticks, the tokens in parts of a token: one part      *)
(* drips in per tick, and Second parts make the token a request costs,     *)
(* which is what rate.Every(time.Second) says.                             *)
(***************************************************************************)
EXTENDS Integers

CONSTANTS
    Burst,   \* tokens the bucket holds: 40
    Second,  \* ticks in a second, and parts in a token
    MaxTime  \* bound: time stops here

VARIABLES
    now,     \* time.Now()
    last,    \* when the bucket was last brought up to date
    tokens,  \* what was left in it then, in parts
    served   \* history: how many requests passed up to the end of each tick

vars == <<now, last, tokens, served>>

ASSUME BucketAssumption ==
    Burst \in Nat \ {0} /\ Second \in Nat \ {0} /\ MaxTime \in Nat

Capacity == Burst * Second

\* Bound: what no bucket can exceed in MaxTime ticks.
MaxServed == Capacity + MaxTime

Init ==
    /\ now = 0 /\ last = 0
    /\ tokens = Capacity
    /\ served = [t \in 0 .. MaxTime |-> 0]

\* What the bucket holds at t.
Level(t) ==
    IF tokens + (t - last) < Capacity THEN tokens + (t - last) ELSE Capacity

\* Mutant of Allow: the bucket is asked for any part of a token.
AllowPart ==
    /\ Level(now) > 0
    /\ tokens' = Level(now) - Second
    /\ last' = now
    /\ served' = [served EXCEPT ![now] = @ + 1]
    /\ UNCHANGED now

\* Mutant of Allow: what has dripped in is counted again the next time.
AllowTwice ==
    /\ Level(now) >= Second
    /\ tokens' = Level(now) - Second
    /\ served' = [served EXCEPT ![now] = @ + 1]
    /\ UNCHANGED <<now, last>>

\* A request passes on to the next handler.
Allow ==
    /\ Level(now) >= Second
    /\ tokens' = Level(now) - Second
    /\ last' = now
    /\ served' = [served EXCEPT ![now] = @ + 1]
    /\ UNCHANGED now

\* A request is answered 429; the bucket stays as it was.
TooManyRequests == Level(now) < Second /\ UNCHANGED vars

Tick ==
    /\ now < MaxTime
    /\ now' = now + 1
    /\ served' = [served EXCEPT ![now + 1] = served[now]]
    /\ UNCHANGED <<last, tokens>>

Next == Allow \/ TooManyRequests \/ Tick

Spec == Init /\ [][Next]_vars

-----------------------------------------------------------------------------
(* Properties.                                                             *)

\* Every variable has its type.
TypeOK ==
    /\ now \in 0 .. MaxTime
    /\ last \in 0 .. now
    /\ tokens \in 0 .. Capacity
    /\ served \in [0 .. MaxTime -> 0 .. MaxServed]

\* How many requests had passed before tick t began.
Before(t) == IF t = 0 THEN 0 ELSE served[t - 1]

\* In no stretch of time do more requests pass than the burst and one for each
\* second of it (ratelimit.go:12), whatever the pattern of arrivals.  Once the
\* burst is spent that is one request per second: the 40 per second of
\* README.md:149 are the burst, not the rate.
WindowBound ==
    \A a, b \in 0 .. now :
      a <= b => (served[b] - Before(a)) * Second <= Capacity + (b - a)

=============================================================================
