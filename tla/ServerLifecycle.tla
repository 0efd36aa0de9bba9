-------------------------- MODULE ServerLifecycle --------------------------
(***************************************************************************)
(* How the three programs start and stop.  main.go and cmd/http run        *)
(* Router.Serve on the main goroutine, cmd/grpc runs GrpcServer.Serve      *)
(* there; main.go also runs GrpcServer.Serve on a goroutine that nobody    *)
(* waits for.  Each Serve registers a channel for signals, drains its own  *)
(* server after one, and gives up after ten seconds: the HTTP server by    *)
(* log.Fatalf, the gRPC server by Stop, which leaves the handlers running. *)
(* When the Serve of the main goroutine returns, the deferred calls close  *)
(* the cache and the database, and the process ends with whatever still    *)
(* runs in it.                                                             *)
(*                                                                         *)
(* net/http, grpc-go and the runtime are modelled by what the code relies  *)
(* on: Shutdown and GracefulStop take no new call and return when the last *)
(* one is over; Stop, on a server without WaitForHandlers, returns at once *)
(* and the handlers, which do not look at their context, go on; a signal   *)
(* goes to every channel registered by then.                               *)
(***************************************************************************)
EXTENDS Naturals

CONSTANTS
    HttpCalls,  \* calls that clients may make to the HTTP server
    GrpcCalls   \* calls that clients may make to the gRPC server

VARIABLES
    program,   \* the program that runs: "main", "cmd/http" or "cmd/grpc"
    main,      \* what the main goroutine is about to do
    server,    \* the state of each server
    notified,  \* the channels registered with signal.Notify
    heard,     \* the channels a signal has been sent to
    call,      \* the state of each call: what its handler does
    open       \* the connections that are open: "db" and "cache"

vars == <<program, main, server, notified, heard, call, open>>

Programs == {"main", "cmd/http", "cmd/grpc"}
Servers  == {"http", "grpc"}
Signals  == {"SIGINT", "SIGTERM"}
Calls    == HttpCalls \cup GrpcCalls

CallsTo(s) == IF s = "http" THEN HttpCalls ELSE GrpcCalls

\* The servers a program runs, and the one its main goroutine waits for.
ServersOf(p) == CASE p = "main"     -> {"http", "grpc"}
                  [] p = "cmd/http" -> {"http"}
                  [] p = "cmd/grpc" -> {"grpc"}

Front == IF program = "cmd/grpc" THEN "grpc" ELSE "http"

Ended == main = "ended"

ASSUME CallsAssumption == HttpCalls \cap GrpcCalls = {}

-----------------------------------------------------------------------------

\* The cmd programs catch os.Interrupt from their first line on.
Init ==
    /\ program \in Programs
    /\ main = "loadConfig"
    /\ server = [s \in Servers |-> "off"]
    /\ notified = IF program = "main" THEN {} ELSE {"ctx"}
    /\ heard = {}
    /\ call = [c \in Calls |-> "none"]
    /\ open = {}

\* The process ends here: nothing that is deferred runs, and the calls that are
\* running are lost.
End ==
    /\ main' = "ended"
    /\ server' = [s \in Servers |-> "off"]
    /\ call' = [c \in Calls |-> IF call[c] = "running" THEN "cut" ELSE call[c]]
    /\ UNCHANGED <<program, notified, heard, open>>

-----------------------------------------------------------------------------
(* Starting.                                                               *)

\* Settings come from .env when there is one, and from the environment.
LoadConfig ==
    /\ main = "loadConfig"
    /\ main' = "openDB"
    /\ UNCHANGED <<program, server, notified, heard, call, open>>

OpenDB ==
    /\ main = "openDB"
    /\ main' = "openCache" /\ open' = {"db"}
    /\ UNCHANGED <<program, server, notified, heard, call>>

\* The ping runs under the context that a signal cancels.
OpenCache ==
    /\ main = "openCache" /\ "ctx" \notin heard
    /\ main' = "listen" /\ open' = {"db", "cache"}
    /\ UNCHANGED <<program, server, notified, heard, call>>

\* The services are wired and the listener is opened.
Listen ==
    /\ main = "listen"
    /\ main' = "serve"
    /\ UNCHANGED <<program, server, notified, heard, call, open>>

\* One of these steps fails: log.Fatal.
StartFails == main \in {"loadConfig", "openDB", "openCache", "listen"} /\ End

-----------------------------------------------------------------------------
(* Serving.                                                                *)

Started == main \in {"serve", "closeCache", "closeDB", "return"}

\* Router.Serve and GrpcServer.Serve: signal.Notify, then the accept loop.  The
\* goroutine that main.go starts may get to it at any time.
Serve(s) ==
    /\ Started /\ s \in ServersOf(program) /\ server[s] = "off"
    /\ server' = [server EXCEPT ![s] = "up"]
    /\ notified' = notified \cup {s}
    /\ UNCHANGED <<program, main, heard, call, open>>

\* The accept loop fails: log.Fatalf on its own goroutine.
ServeFails == (\E s \in Servers : server[s] = "up") /\ End

BeginCall(s, c) ==
    /\ server[s] = "up" /\ call[c] = "none"
    /\ call' = [call EXCEPT ![c] = "running"]
    /\ UNCHANGED <<program, main, server, notified, heard, open>>

FinishCall(c) ==
    /\ call[c] = "running"
    /\ call' = [call EXCEPT ![c] = "finished"]
    /\ UNCHANGED <<program, main, server, notified, heard, open>>

\* The context of the cmd programs is for os.Interrupt, a Serve hears SIGTERM too.
Catching(signal) == IF signal = "SIGINT" THEN notified ELSE notified \cap Servers

\* A signal goes to every channel registered for it, and is lost on those that
\* nobody reads any more; with none registered it ends the process.
Signal(signal) ==
    /\ ~Ended /\ ~(Catching(signal) \subseteq heard)
    /\ heard' = heard \cup Catching(signal)
    /\ UNCHANGED <<program, main, server, notified, call, open>>

SignalUncaught(signal) == ~Ended /\ Catching(signal) = {} /\ End

-----------------------------------------------------------------------------
(* Stopping.                                                               *)

\* <-stop, then Shutdown or GracefulStop.
Drain(s) ==
    /\ server[s] = "up" /\ s \in heard
    /\ server' = [server EXCEPT ![s] = "draining"]
    /\ UNCHANGED <<program, main, notified, heard, call, open>>

\* Mutant of Drained: the handlers are not waited for, as by http.Server.Close.
DrainedEarly(s) ==
    /\ server[s] = "draining"
    /\ server' = [server EXCEPT ![s] = "stopped"]
    /\ UNCHANGED <<program, main, notified, heard, call, open>>

\* The last call is over: Shutdown or GracefulStop returns.
Drained(s) ==
    /\ server[s] = "draining"
    /\ \A c \in CallsTo(s) : call[c] # "running"
    /\ server' = [server EXCEPT ![s] = "stopped"]
    /\ UNCHANGED <<program, main, notified, heard, call, open>>

\* Mutant of HttpTimeout: Shutdown under a context without a deadline.
HttpNoTimeout == FALSE /\ End

\* Shutdown returns the error of its context: log.Fatalf.
HttpTimeout == server["http"] = "draining" /\ End

\* Mutant of GrpcTimeout: GracefulStop is waited for without a deadline.
GrpcNoTimeout == FALSE /\ UNCHANGED vars

\* time.After(10s), then Stop: the clients lose their connections, and handlers
\* that are running run on.
GrpcTimeout ==
    /\ server["grpc"] = "draining"
    /\ server' = [server EXCEPT !["grpc"] = "forced"]
    /\ UNCHANGED <<program, main, notified, heard, call, open>>

\* Mutant of Return: Shutdown runs on a goroutine of its own and is not awaited.
ReturnEarly ==
    /\ main = "serve" /\ server[Front] \in {"draining", "stopped", "forced"}
    /\ main' = "closeCache"
    /\ UNCHANGED <<program, server, notified, heard, call, open>>

\* The Serve that the main goroutine runs returns.
Return ==
    /\ main = "serve" /\ server[Front] \in {"stopped", "forced"}
    /\ main' = "closeCache"
    /\ UNCHANGED <<program, server, notified, heard, call, open>>

\* The deferred calls, last in first out: cache.Close, then db.Close.
CloseCache ==
    /\ main = "closeCache"
    /\ main' = "closeDB" /\ open' = open \ {"cache"}
    /\ UNCHANGED <<program, server, notified, heard, call>>

CloseDB ==
    /\ main = "closeDB"
    /\ main' = "return" /\ open' = open \ {"db"}
    /\ UNCHANGED <<program, server, notified, heard, call>>

\* main returns, and with it every other goroutine stops.
Exit == main = "return" /\ End

-----------------------------------------------------------------------------

Next ==
    \/ LoadConfig
    \/ OpenDB
    \/ OpenCache
    \/ Listen
    \/ StartFails
    \/ \E s \in Servers :
         \/ Serve(s)
         \/ \E c \in CallsTo(s) : BeginCall(s, c)
         \/ Drain(s)
         \/ Drained(s)
    \/ ServeFails
    \/ \E c \in Calls : FinishCall(c)
    \/ \E signal \in Signals : Signal(signal) \/ SignalUncaught(signal)
    \/ HttpTimeout
    \/ GrpcTimeout
    \/ Return
    \/ CloseCache
    \/ CloseDB
    \/ Exit

\* Every goroutine that can take a step takes one, and the timers fire.  Nothing
\* is assumed of the clients, of a call that hangs, or of signals.
Fairness ==
    /\ WF_vars(LoadConfig) /\ WF_vars(OpenDB)
    /\ WF_vars(OpenCache \/ StartFails) /\ WF_vars(Listen)
    /\ \A s \in Servers : WF_vars(Serve(s)) /\ WF_vars(Drain(s)) /\ WF_vars(Drained(s))
    /\ WF_vars(HttpTimeout) /\ WF_vars(GrpcTimeout)
    /\ WF_vars(Return) /\ WF_vars(CloseCache) /\ WF_vars(CloseDB) /\ WF_vars(Exit)

Spec == Init /\ [][Next]_vars /\ Fairness

-----------------------------------------------------------------------------
(* Properties.                                                             *)

\* Every variable has its type, and a call runs only in a server that takes
\* calls, drains them, or was stopped without waiting for them: none is left in
\* one whose Shutdown or GracefulStop has returned.
TypeOK ==
    /\ program \in Programs
    /\ main \in {"loadConfig", "openDB", "openCache", "listen", "serve", "closeCache",
                 "closeDB", "return", "ended"}
    /\ server \in [Servers -> {"off", "up", "draining", "stopped", "forced"}]
    /\ notified \subseteq Servers \cup {"ctx"}
    /\ heard \subseteq notified
    /\ call \in [Calls -> {"none", "running", "finished", "cut"}]
    /\ open \subseteq {"db", "cache"}
    /\ \A s \in Servers : \A c \in CallsTo(s) :
         call[c] = "running" => server[s] \in {"up", "draining", "forced"}

\* The deferred closes come after the last call of the server that the main
\* goroutine serves: as long as one runs, in whatever order signals, timeouts
\* and calls come, it has its database and its cache (main.go:39, 52,
\* router.go:91).  Only cmd/grpc can close them under a call: one that outlasts
\* the ten seconds, after which Stop does not wait for it (server.go:57).
FrontHasConnections ==
    \A c \in CallsTo(Front) :
      call[c] = "running" => \/ open = {"db", "cache"}
                             \/ Front = "grpc" /\ server["grpc"] = "forced"

\* Shutting down is graceful for both servers: by the time main returns, no call
\* is running in either, unless it has outlasted its server's deadline.
BothDrained ==
    main = "return" =>
      \A s \in Servers : \A c \in CallsTo(s) : call[c] = "running" => server[s] = "forced"

\* A server that has heard a signal is not left draining by calls that hang, in
\* main.go not even when the other server has missed the signal and serves on
\* (router.go:88-93, server.go:45-58).
ServersStop == \A s \in Servers : s \in heard ~> server[s] \notin {"up", "draining"}

\* Once the server of the main goroutine has heard a signal the process ends,
\* even when calls hang forever (router.go:88-93, server.go:45-58).
SignalEndsProcess == Front \in heard ~> Ended

=============================================================================
