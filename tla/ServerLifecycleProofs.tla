----------------------- MODULE ServerLifecycleProofs -----------------------
(***************************************************************************)
(* Proofs about ServerLifecycle, for any calls.  FrontHasConnections needs *)
(* to know that the main goroutine is still in its Serve while the server  *)
(* it waits for is up or draining (FrontWaits), that it leaves only when   *)
(* that server has stopped, by force or not (FrontStopped), that only the  *)
(* gRPC server is stopped by force (HttpUnforced), and that nothing is     *)
(* closed before (OpenWhileServing).  SignalEndsProcess itself is left to  *)
(* TLC; the last section proves what it rests on but for fairness: that a  *)
(* step towards the end is always due, and that such steps run out.        *)
(***************************************************************************)
EXTENDS ServerLifecycle, TLAPS

FrontWaits       == server[Front] \in {"up", "draining"} => main = "serve"
FrontStopped     == main \in {"closeCache", "closeDB", "return"} =>
                      server[Front] \in {"stopped", "forced"}
HttpUnforced     == server["http"] # "forced"
OpenWhileServing == /\ main = "openCache" => open = {"db"}
                    /\ main \in {"listen", "serve"} => open = {"db", "cache"}

Inv == TypeOK /\ FrontWaits /\ FrontStopped /\ HttpUnforced /\ OpenWhileServing

LEMMA FrontIsServer == Front \in Servers
  BY DEF Front, Servers

\* The end of the process keeps the invariant: nothing is left to be right about.
LEMMA EndInv == Inv /\ End => Inv'
<1> SUFFICES ASSUME Inv, End PROVE Inv'
  OBVIOUS
<1>1. Front' = Front /\ Front \in Servers
  BY DEF End, Front, Servers
<1>2. server' = [s \in Servers |-> "off"] /\ main' = "ended"
  BY DEF End
<1>3. \A c \in Calls : call'[c] # "running" /\ call'[c] \in {"none", "running", "finished", "cut"}
  BY DEF Inv, TypeOK, End
<1>4. call' \in [Calls -> {"none", "running", "finished", "cut"}]
  BY <1>3 DEF End
<1>5. \A s \in Servers : CallsTo(s) \subseteq Calls
  BY DEF CallsTo, Calls
<1>6. TypeOK'
  BY <1>2, <1>3, <1>4, <1>5 DEF Inv, TypeOK, End
<1> QED
  BY <1>1, <1>2, <1>6 DEF Inv, FrontWaits, FrontStopped, HttpUnforced, OpenWhileServing, Servers

LEMMA InvInit == Init => Inv
  BY FrontIsServer DEF Init, Inv, TypeOK, FrontWaits, FrontStopped, HttpUnforced, OpenWhileServing,
     Programs, Servers, Calls, CallsTo

\* Every step keeps the invariant.
LEMMA InvNext == Inv /\ [Next]_vars => Inv'
<1> SUFFICES ASSUME Inv, [Next]_vars PROVE Inv'
  OBVIOUS
<1> USE DEF Inv, FrontWaits, FrontStopped, HttpUnforced, OpenWhileServing
<1>front. Front \in Servers /\ (UNCHANGED program => Front' = Front)
  BY FrontIsServer DEF Front
<1>calls. \A s \in Servers : CallsTo(s) \subseteq Calls
  BY DEF CallsTo, Calls
<1>1. CASE LoadConfig \/ OpenDB \/ OpenCache \/ Listen
  BY <1>1, <1>front DEF LoadConfig, OpenDB, OpenCache, Listen, TypeOK
<1>2. CASE StartFails \/ ServeFails \/ HttpTimeout \/ Exit
  BY <1>2, EndInv DEF StartFails, ServeFails, HttpTimeout, Exit
<1>3. ASSUME NEW s \in Servers, Serve(s) PROVE Inv'
  <2>1. server' = [server EXCEPT ![s] = "up"] /\ server[s] = "off" /\ Started
    BY <1>3 DEF Serve
  <2>2. s = Front => main = "serve"
    BY <2>1 DEF Started
  <2>3. TypeOK'
    BY <1>3, <2>1, <1>calls DEF Serve, TypeOK
  <2>4. Front' = Front /\ main' = main /\ open' = open
    BY <1>3, <1>front DEF Serve
  <2>5. server'[Front] = server[Front] \/ (main = "serve" /\ server'[Front] = "up")
    BY <1>front, <2>1, <2>2 DEF TypeOK
  <2>6. server'["http"] # "forced"
    BY <2>1 DEF TypeOK, Servers
  <2> QED
    BY <2>3, <2>4, <2>5, <2>6
<1>4. ASSUME NEW s \in Servers, NEW c \in CallsTo(s), BeginCall(s, c) PROVE Inv'
  <2>1. c \in Calls /\ \A t \in Servers : c \in CallsTo(t) => t = s
    BY <1>calls, CallsAssumption DEF CallsTo, Servers
  <2>2. TypeOK'
    BY <1>4, <2>1, <1>calls DEF BeginCall, TypeOK
  <2> QED
    BY <1>4, <1>front, <2>2 DEF BeginCall
<1>5. ASSUME NEW c \in Calls, FinishCall(c) PROVE Inv'
  BY <1>5, <1>front, <1>calls DEF FinishCall, TypeOK
<1>6. ASSUME NEW signal \in Signals, Signal(signal) PROVE Inv'
  <2>1. TypeOK'
    BY <1>6 DEF Signal, Catching, TypeOK
  <2> QED
    BY <1>6, <1>front, <2>1 DEF Signal
<1>7. ASSUME NEW signal \in Signals, SignalUncaught(signal) PROVE Inv'
  BY <1>7, EndInv DEF SignalUncaught
<1>8. ASSUME NEW s \in Servers, Drain(s) PROVE Inv'
  BY <1>8, <1>front, <1>calls DEF Drain, TypeOK
<1>9. ASSUME NEW s \in Servers, Drained(s) PROVE Inv'
  <2>1. TypeOK'
    BY <1>9, <1>calls DEF Drained, TypeOK
  <2>2. Front' = Front /\ main' = main /\ open' = open
    BY <1>9, <1>front DEF Drained
  <2>3. server'[Front] \in {server[Front], "stopped"} /\ server'["http"] # "forced"
    BY <1>9, <1>front DEF Drained, TypeOK, Servers
  <2> QED
    BY <2>1, <2>2, <2>3
<1>10. CASE GrpcTimeout
  <2>1. TypeOK'
    BY <1>10, <1>calls DEF GrpcTimeout, TypeOK
  <2>2. Front' = Front /\ main' = main /\ open' = open
    BY <1>10, <1>front DEF GrpcTimeout
  <2>3. server'[Front] \in {server[Front], "forced"} /\ server'["http"] = server["http"]
    BY <1>10, <1>front DEF GrpcTimeout, TypeOK, Servers
  <2> QED
    BY <2>1, <2>2, <2>3
<1>11. CASE Return \/ CloseCache \/ CloseDB
  <2>1. TypeOK'
    BY <1>11 DEF Return, CloseCache, CloseDB, TypeOK
  <2> QED
    BY <1>11, <1>front, <2>1 DEF Return, CloseCache, CloseDB
<1>12. CASE UNCHANGED vars
  BY <1>12, <1>front DEF vars, TypeOK
<1> QED
  BY <1>1, <1>2, <1>3, <1>4, <1>5, <1>6, <1>7, <1>8, <1>9, <1>10, <1>11, <1>12 DEF Next

-----------------------------------------------------------------------------
(* Theorems.                                                               *)

\* The invariant holds in every reachable state.
THEOREM Invariance == Spec => []Inv
  BY InvInit, InvNext, PTL DEF Spec

\* No call is left running in a server whose Shutdown or GracefulStop has
\* returned (router.go:91, server.go:47-54).
THEOREM TypesHold == Spec => []TypeOK
<1>1. Inv => TypeOK
  BY DEF Inv
<1> QED
  BY <1>1, Invariance, PTL

\* The deferred closes come after the last call of the server that the main
\* goroutine serves, but for calls to cmd/grpc that outlast its deadline
\* (main.go:39, 52, router.go:91, server.go:57).
THEOREM ConnectionsOutliveCalls == Spec => []FrontHasConnections
<1>1. Inv => FrontHasConnections
  BY FrontIsServer DEF Inv, TypeOK, FrontWaits, HttpUnforced, OpenWhileServing, FrontHasConnections, Front
<1> QED
  BY <1>1, Invariance, PTL

-----------------------------------------------------------------------------
(* The cmd programs run one server.                                        *)

\* A server that the program does not run is never started.
OthersOff == \A s \in Servers : program # "main" /\ s # Front => server[s] = "off"

LEMMA OneServer ==
    ASSUME program \in Programs, program # "main", NEW s \in ServersOf(program)
    PROVE  s = Front
<1>1. CASE program = "cmd/http"
  <2>1. ServersOf(program) = {"http"}
    BY <1>1, Zenon DEF ServersOf
  <2> QED
    BY <1>1, <2>1 DEF Front
<1>2. CASE program = "cmd/grpc"
  <2>1. ServersOf(program) = {"grpc"}
    BY <1>2, Zenon DEF ServersOf
  <2> QED
    BY <1>2, <2>1 DEF Front
<1> QED
  BY <1>1, <1>2 DEF Programs

LEMMA OthersStayOff == Inv /\ OthersOff /\ [Next]_vars => OthersOff'
<1> SUFFICES ASSUME Inv, OthersOff, [Next]_vars,
                    NEW s \in Servers, program' # "main", s # Front'
             PROVE  server'[s] = "off"
  BY DEF OthersOff
<1>1. program' = program /\ Front' = Front
  BY DEF Next, vars, Front, LoadConfig, OpenDB, OpenCache, Listen, StartFails, Serve, BeginCall,
         Drain, Drained, ServeFails, FinishCall, Signal, SignalUncaught, HttpTimeout, GrpcTimeout,
         Return, CloseCache, CloseDB, Exit, End
<1>2. server[s] = "off" /\ server \in [Servers -> {"off", "up", "draining", "stopped", "forced"}]
  BY <1>1 DEF OthersOff, Inv, TypeOK
<1>3. ASSUME NEW t \in Servers, Serve(t) PROVE server'[s] = "off"
  <2>1. t = Front
    BY <1>1, <1>3, OneServer DEF Serve, Inv, TypeOK
  <2> QED
    BY <1>1, <1>2, <1>3, <2>1 DEF Serve
<1>4. ASSUME NEW t \in Servers, Drain(t) \/ Drained(t) PROVE server'[s] = "off"
  <2>1. t # s
    BY <1>2, <1>4 DEF Drain, Drained
  <2> QED
    BY <1>2, <1>4, <2>1 DEF Drain, Drained
<1>5. CASE GrpcTimeout
  BY <1>2, <1>5 DEF GrpcTimeout
<1>6. CASE End
  BY <1>6 DEF End
<1>7. CASE server' = server
  BY <1>2, <1>7
<1> QED
  BY <1>3, <1>4, <1>5, <1>6, <1>7
     DEF Next, vars, LoadConfig, OpenDB, OpenCache, Listen, StartFails, BeginCall, ServeFails,
         FinishCall, Signal, SignalUncaught, HttpTimeout, Return, CloseCache, CloseDB, Exit

\* cmd/http and cmd/grpc leave no call behind that is within its deadline: only
\* main.go, with a server that its main goroutine does not wait for, can
\* (main.go:88).
THEOREM CommandsDrain == Spec => [](program # "main" => BothDrained)
<1>1. Init => OthersOff
  BY DEF Init, OthersOff
<1>2. Inv /\ OthersOff => (program # "main" => BothDrained)
  <2> SUFFICES ASSUME Inv, OthersOff, program # "main", main = "return",
                      NEW s \in Servers, NEW c \in CallsTo(s), call[c] = "running"
               PROVE  server[s] = "forced"
    BY DEF BothDrained
  <2>1. server[s] \in {"up", "draining", "forced"}
    BY DEF Inv, TypeOK
  <2>2. s = Front
    BY <2>1 DEF OthersOff
  <2> QED
    BY <2>1, <2>2 DEF Inv, FrontStopped
<1> QED
  BY <1>1, <1>2, Invariance, OthersStayOff, PTL DEF Spec

-----------------------------------------------------------------------------
(* Stopping.  SignalEndsProcess without its fairness: after the signal the *)
(* main goroutine always has a step of its own to take, each one brings it *)
(* nearer to the end of the process, and no other step takes it back.      *)

\* Ten seconds are over.
GiveUp == IF Front = "http" THEN HttpTimeout ELSE GrpcTimeout

\* The steps that lead from the signal to the end, all of them fair.
Stop == Drain(Front) \/ Drained(Front) \/ GiveUp \/ Return \/ CloseCache \/ CloseDB \/ Exit

\* How many of them are left at most.
Remaining ==
    IF main = "serve"
      THEN IF server[Front] = "up" THEN 6 ELSE IF server[Front] = "draining" THEN 5 ELSE 4
      ELSE IF main = "closeCache" THEN 3
      ELSE IF main = "closeDB" THEN 2
      ELSE IF main = "return" THEN 1 ELSE 0

\* One of them can be taken, whatever the calls do.
StopDue ==
    \/ server[Front] = "up" /\ Front \in heard
    \/ server[Front] = "draining"
    \/ main = "serve" /\ server[Front] \in {"stopped", "forced"}
    \/ main \in {"closeCache", "closeDB", "return"}

\* A server whose channel is registered has been started.
FrontStarted == Front \in notified /\ ~Ended => Started /\ server[Front] # "off"

\* From the signal to the end of the process.
Stopping == Front \in heard /\ ~Ended

LEMMA FrontStays == Next => Front' = Front
  BY DEF Next, Front, LoadConfig, OpenDB, OpenCache, Listen, StartFails, Serve, BeginCall,
         Drain, Drained, ServeFails, FinishCall, Signal, SignalUncaught, HttpTimeout, GrpcTimeout,
         Return, CloseCache, CloseDB, Exit, End

LEMMA FrontStaysStarted == Inv /\ FrontStarted /\ [Next]_vars => FrontStarted'
<1> SUFFICES ASSUME Inv, FrontStarted, Next PROVE FrontStarted'
  BY DEF FrontStarted, Ended, Started, Front, vars
<1> USE FrontStays, FrontIsServer DEF FrontStarted, Inv, TypeOK, Ended, Started
<1>1. CASE LoadConfig \/ OpenDB \/ OpenCache \/ Listen \/ Return \/ CloseCache \/ CloseDB
  BY <1>1 DEF LoadConfig, OpenDB, OpenCache, Listen, Return, CloseCache, CloseDB
<1>2. CASE End
  BY <1>2 DEF End
<1>3. ASSUME NEW s \in Servers, Serve(s) PROVE FrontStarted'
  BY <1>3 DEF Serve
<1>4. ASSUME NEW s \in Servers, Drain(s) \/ Drained(s) PROVE FrontStarted'
  BY <1>4 DEF Drain, Drained
<1>5. CASE GrpcTimeout
  BY <1>5 DEF GrpcTimeout
<1>6. CASE UNCHANGED <<program, main, server, notified>>
  BY <1>6
<1> QED
  BY <1>1, <1>2, <1>3, <1>4, <1>5, <1>6
     DEF Next, StartFails, BeginCall, ServeFails, FinishCall, Signal, SignalUncaught,
         HttpTimeout, Exit

LEMMA StopIsDue == Inv /\ FrontStarted /\ Stopping => StopDue
  BY FrontIsServer DEF Inv, TypeOK, FrontStarted, Stopping, StopDue, Started

\* The servers go forward only, and the front one while main waits for it.
LEMMA StopAdvances ==
    ASSUME Inv, FrontStarted, Next, Stopping
    PROVE  Remaining' <= Remaining /\ (Stop => Remaining' < Remaining)
<1> USE FrontStays, FrontIsServer
    DEF FrontStarted, FrontWaits, FrontStopped, Inv, TypeOK, Ended, Started, Stopping, Remaining
<1>1. CASE Return \/ CloseCache \/ CloseDB
  BY <1>1 DEF Return, CloseCache, CloseDB
<1>2. CASE End
  BY <1>2 DEF End
<1>3. ASSUME NEW s \in Servers, Drain(s) \/ Drained(s), s = Front
      PROVE  Remaining' < Remaining
  BY <1>3 DEF Drain, Drained
<1>4. CASE GrpcTimeout /\ Front = "grpc"
  BY <1>4 DEF GrpcTimeout
<1>5. CASE main' = main /\ server'[Front] = server[Front]
  <2>1. Remaining' = Remaining
    BY <1>5
  <2>2. ~Stop
    <3>1. ~(Drain(Front) \/ Drained(Front) \/ (Front = "grpc" /\ GrpcTimeout))
      BY <1>5 DEF Drain, Drained, GrpcTimeout
    <3>2. ~(End \/ Return \/ CloseCache \/ CloseDB)
      BY <1>5 DEF End, Return, CloseCache, CloseDB
    <3> QED
      BY <3>1, <3>2 DEF Stop, GiveUp, HttpTimeout, Exit, Servers
  <2>3. Remaining \in Nat
    OBVIOUS
  <2> QED
    BY <2>1, <2>2, <2>3
<1>6. ASSUME NEW s \in Servers, Serve(s)
      PROVE  main' = main /\ server'[Front] = server[Front]
  BY <1>6 DEF Serve
<1>7. ASSUME NEW s \in Servers, Drain(s) \/ Drained(s), s # Front
      PROVE  main' = main /\ server'[Front] = server[Front]
  BY <1>7 DEF Drain, Drained
<1>8. GrpcTimeout /\ Front # "grpc" => main' = main /\ server'[Front] = server[Front]
  BY DEF GrpcTimeout
<1> QED
  BY <1>1, <1>2, <1>3, <1>4, <1>5, <1>6, <1>7, <1>8
     DEF Next, LoadConfig, OpenDB, OpenCache, Listen, StartFails, BeginCall, ServeFails, FinishCall,
         Signal, SignalUncaught, HttpTimeout, Exit

LEMMA StartedHolds == Spec => [](Inv /\ FrontStarted)
<1>1. Init => FrontStarted
  BY DEF Init, FrontStarted, Front
<1> QED
  BY <1>1, Invariance, FrontStaysStarted, PTL DEF Spec

\* From the signal on, and however calls hang, there is always a step towards the
\* end of the process to take (router.go:88-93, server.go:45-58).
THEOREM StopIsAlwaysDue == Spec => [](Stopping => StopDue)
  BY StartedHolds, StopIsDue, PTL

\* No step of clients, servers or signals ever makes the way to the end longer,
\* and there are at most six steps of it (router.go:76-93, server.go:37-58).
THEOREM StopOnlyAdvances ==
    Spec => [][Stopping => /\ Remaining' <= Remaining
                           /\ Stop => Remaining' < Remaining]_vars
<1>1. Inv /\ FrontStarted /\ [Next]_vars =>
        [Stopping => Remaining' <= Remaining /\ (Stop => Remaining' < Remaining)]_vars
  BY StopAdvances
<1> QED
  BY <1>1, StartedHolds, PTL DEF Spec

=============================================================================
