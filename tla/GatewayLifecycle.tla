-------------------------- MODULE GatewayLifecycle --------------------------
(***************************************************************************)
(* The gateway process from the moment its handlers are built to the       *)
(* return of run (cmd/trino-goway/main.go): binding the two listeners, the *)
(* first backend refresh, the monitor and refresh goroutines, the two HTTP *)
(* servers (internal/lifecycle/server.go), SIGTERM, and the teardown.      *)
(*                                                                         *)
(* Goroutines: main; one Serve and one Shutdown goroutine per server; the  *)
(* monitor loop; the refresh loop; and the handlers of accepted requests.  *)
(* net/http's Serve and Shutdown are modelled from their documented        *)
(* contract: Serve refuses to start after Shutdown and returns             *)
(* ErrServerClosed; Shutdown closes the listener, then returns nil once no *)
(* request is running or the context's error once the context is done.     *)
(***************************************************************************)
EXTENDS Naturals

CONSTANTS Requests,   \* HTTP requests clients may send
          None        \* no result yet

Servers == {"proxy", "admin"}
Outcomes == {"nil", "error"}

(* A request is idle, running in a handler of a server, answered, or cut   *)
(* off by the end of the process.                                          *)
ReqStates == {"idle", "done", "cut"} \cup Servers

ASSUME LifecycleAssumption == None \notin {"nil", "canceled", "error"}

VARIABLES
    main,      \* the statement of run the main goroutine is at
    result,    \* what run returned
    startErr,  \* what lc.Start returned: None, "nil", "canceled", "error"
    ctx,       \* rootCtx is done: a SIGTERM or SIGINT arrived
    srv,       \* per server: its listener and its Serve goroutine
    shut,      \* per server: its Shutdown goroutine
    req,       \* per request: its state
    mon,       \* the monitor goroutine
    monCancel, \* mon.Stop cancelled the monitor's context
    ready,     \* Admin.ready: /readyz answers 200
    late,      \* shutdownTimeout passed while mon.Stop was waiting
    refr       \* the backend refresh goroutine

vars == <<main, result, startErr, ctx, srv, shut, req, mon, monCancel, ready,
          late, refr>>

Running(s) == {r \in Requests : req[r] = s}

(* The errgroup's context: done with rootCtx, or by the first Shutdown that *)
(* failed.                                                                  *)
GroupDone == ctx \/ \E s \in Servers : shut[s] = "canceled"

Init ==
    /\ main = "listen" /\ result = None /\ startErr = None
    /\ ctx = FALSE
    /\ srv = [s \in Servers |-> "unbound"]
    /\ shut = [s \in Servers |-> "off"]
    /\ req = [r \in Requests |-> "idle"]
    /\ mon = "off" /\ monCancel = FALSE /\ ready = FALSE /\ late = FALSE
    /\ refr = "off"

-----------------------------------------------------------------------------
(* The main goroutine *)

(* run returns: main's caller ends the process, and with it every handler  *)
(* that is still running.                                                  *)
Return(out) ==
    /\ main' = "returned"
    /\ result' = out
    /\ req' = [r \in Requests |-> IF req[r] \in Servers THEN "cut" ELSE req[r]]

(* lc.Listen: both sockets are bound, or (a bind failed, and the socket    *)
(* bound first is closed again) run returns the error.                     *)
Listen ==
    /\ main = "listen"
    /\ \/ /\ srv' = [s \in Servers |-> "bound"]
          /\ main' = "start"
          /\ UNCHANGED <<result, req>>
       \/ Return("error") /\ UNCHANGED srv
    /\ UNCHANGED <<startErr, ctx, shut, mon, monCancel, ready, late, refr>>

(* The first refreshBackends (its failure is only logged), then mon.Start: *)
(* a zero interval or timeout is returned as an error, otherwise the       *)
(* monitor probes at once. The refresh loop starts, and lc.Start blocks.   *)
StartMonitor ==
    /\ main = "start"
    /\ \/ /\ mon' = "probing"
          /\ refr' = "waiting"
          /\ main' = "serve"
          /\ UNCHANGED <<result, req>>
       \/ Return("error") /\ UNCHANGED <<mon, refr>>
    /\ UNCHANGED <<startErr, ctx, srv, shut, monCancel, ready, late>>

(* lc.Start's select: a fatal error of a Serve goroutine arrives on errCh; *)
(* the servers are stopped and that error is kept ...                      *)
ServeError ==
    /\ main = "serve"
    /\ \E s \in Servers : srv[s] = "failed"
    /\ main' = "stop"
    /\ startErr' = "error"
    /\ shut' = [s \in Servers |-> "begin"]
    /\ UNCHANGED <<result, ctx, srv, req, mon, monCancel, ready, late, refr>>

(* ... or rootCtx is done and lc.Start returns what Stop returns.          *)
ServeCancelled ==
    /\ main = "serve"
    /\ ctx
    /\ main' = "stop"
    /\ shut' = [s \in Servers |-> "begin"]
    /\ UNCHANGED <<result, startErr, ctx, srv, req, mon, monCancel, ready, late,
                   refr>>

(* g.Wait: both Shutdown goroutines have returned. mon.Stop cancels the    *)
(* monitor's context and starts to wait.                                   *)
StopServers ==
    /\ main = "stop"
    /\ \A s \in Servers : shut[s] \in {"nil", "canceled"}
    /\ startErr' = IF startErr = "error" THEN "error"
                   ELSE IF \E s \in Servers : shut[s] = "canceled" THEN "canceled"
                   ELSE "nil"
    /\ main' = "monstop"
    /\ monCancel' = TRUE
    /\ UNCHANGED <<result, ctx, srv, shut, req, mon, ready, late, refr>>

(* Slip: the monitor's 30s deadline is mistaken for the monitor's exit.    *)
StopMonitorNoWait ==
    /\ main = "monstop"
    /\ main' = "join"
    /\ UNCHANGED <<result, startErr, ctx, srv, shut, req, mon, monCancel, ready,
                   late, refr>>

(* mon.Stop returns when the monitor goroutine has exited or the fresh 30s *)
(* deadline has passed, an outcome that is only logged.                    *)
StopMonitor ==
    /\ main = "monstop"
    /\ mon = "exited" \/ late
    /\ main' = "join"
    /\ UNCHANGED <<result, startErr, ctx, srv, shut, req, mon, monCancel, ready,
                   late, refr>>

(* Slip: the error of a cancelled drain is not exempted. *)
JoinCancelIsError ==
    /\ main = "join"
    /\ refr = "exited"
    /\ Return(IF startErr \in {"error", "canceled"} THEN "error" ELSE "nil")
    /\ UNCHANGED <<startErr, ctx, srv, shut, mon, monCancel, ready, late, refr>>

(* <-refreshDone, then run returns lc.Start's error unless there is none   *)
(* or it is context.Canceled.                                              *)
Join ==
    /\ main = "join"
    /\ refr = "exited"
    /\ Return(IF startErr = "error" THEN "error" ELSE "nil")
    /\ UNCHANGED <<startErr, ctx, srv, shut, mon, monCancel, ready, late, refr>>

MainLive == \/ Listen \/ StartMonitor \/ ServeError \/ ServeCancelled
            \/ StopServers \/ StopMonitor \/ Join

-----------------------------------------------------------------------------
(* The servers *)

(* A Serve goroutine starts: it accepts connections, unless Shutdown came  *)
(* first, when it closes its listener and returns ErrServerClosed.         *)
Serve(s) ==
    /\ srv[s] = "bound"
    /\ main \notin {"listen", "start"}
    /\ srv' = [srv EXCEPT ![s] = IF shut[s] \in {"off", "begin"} THEN "serving"
                                 ELSE "closed"]
    /\ UNCHANGED <<main, result, startErr, ctx, shut, req, mon, monCancel, ready,
                   late, refr>>

(* Serve returns a fatal accept error; it has closed its listener.         *)
ServeFails(s) ==
    /\ srv[s] = "serving"
    /\ srv' = [srv EXCEPT ![s] = "failed"]
    /\ UNCHANGED <<main, result, startErr, ctx, shut, req, mon, monCancel, ready,
                   late, refr>>

(* Shutdown closes the listener of a serving server, whose Serve goroutine *)
(* returns ErrServerClosed, and starts to drain.                           *)
ShutdownBegin(s) ==
    /\ shut[s] = "begin"
    /\ shut' = [shut EXCEPT ![s] = "draining"]
    /\ srv' = [srv EXCEPT ![s] = IF @ = "serving" THEN "closed" ELSE @]
    /\ UNCHANGED <<main, result, startErr, ctx, req, mon, monCancel, ready, late,
                   refr>>

(* Slip: Stop is given a context that never ends, and waits for handlers.  *)
ShutdownEndDrained(s) ==
    /\ shut[s] = "draining"
    /\ Running(s) = {}
    /\ shut' = [shut EXCEPT ![s] = "nil"]
    /\ UNCHANGED <<main, result, startErr, ctx, srv, req, mon, monCancel, ready,
                   late, refr>>

(* Shutdown returns nil once no handler is running; while one is, it       *)
(* returns the context's error as soon as the errgroup's context is done.  *)
ShutdownEnd(s) ==
    /\ shut[s] = "draining"
    /\ \/ Running(s) = {} /\ shut' = [shut EXCEPT ![s] = "nil"]
       \/ /\ Running(s) # {} /\ GroupDone
          /\ shut' = [shut EXCEPT ![s] = "canceled"]
    /\ UNCHANGED <<main, result, startErr, ctx, srv, req, mon, monCancel, ready,
                   late, refr>>

(* A connection is accepted and its handler starts; a handler answers.     *)
Accept(r, s) ==
    /\ req[r] = "idle" /\ srv[s] = "serving" /\ main # "returned"
    /\ req' = [req EXCEPT ![r] = s]
    /\ UNCHANGED <<main, result, startErr, ctx, srv, shut, mon, monCancel, ready,
                   late, refr>>

Answer(r) ==
    /\ req[r] \in Servers
    /\ req' = [req EXCEPT ![r] = "done"]
    /\ UNCHANGED <<main, result, startErr, ctx, srv, shut, mon, monCancel, ready,
                   late, refr>>

ServerLive == \E s \in Servers : Serve(s) \/ ShutdownBegin(s) \/ ShutdownEnd(s)

-----------------------------------------------------------------------------
(* The background goroutines *)

(* probe ends (its requests end with their timeout or the context) and its *)
(* deferred first-tick callback marks the admin handler ready.             *)
ProbeDone ==
    /\ mon = "probing"
    /\ mon' = "waiting"
    /\ ready' = TRUE
    /\ UNCHANGED <<main, result, startErr, ctx, srv, shut, req, monCancel, late,
                   refr>>

(* Monitor.run's select: a tick starts the next probe, a done context ends *)
(* the loop. With both ready, Go's select picks either.                    *)
MonitorTick ==
    /\ mon = "waiting"
    /\ mon' = "probing"
    /\ UNCHANGED <<main, result, startErr, ctx, srv, shut, req, monCancel, ready,
                   late, refr>>

MonitorExit ==
    /\ mon = "waiting"
    /\ ctx \/ monCancel
    /\ mon' = "exited"
    /\ UNCHANGED <<main, result, startErr, ctx, srv, shut, req, monCancel, ready,
                   late, refr>>

(* runBackendRefresh's select and the database call of refreshBackends.    *)
RefreshTick ==
    /\ refr = "waiting"
    /\ refr' = "calling"
    /\ UNCHANGED <<main, result, startErr, ctx, srv, shut, req, mon, monCancel,
                   ready, late>>

RefreshDone ==
    /\ refr = "calling"
    /\ refr' = "waiting"
    /\ UNCHANGED <<main, result, startErr, ctx, srv, shut, req, mon, monCancel,
                   ready, late>>

RefreshExit ==
    /\ refr = "waiting"
    /\ ctx
    /\ refr' = "exited"
    /\ UNCHANGED <<main, result, startErr, ctx, srv, shut, req, mon, monCancel,
                   ready, late>>

(* The environment: a signal, and the deadline of mon.Stop passing.        *)
Signal ==
    /\ ~ctx /\ main # "returned"
    /\ ctx' = TRUE
    /\ UNCHANGED <<main, result, startErr, srv, shut, req, mon, monCancel, ready,
                   late, refr>>

DeadlinePasses ==
    /\ main = "monstop" /\ ~late
    /\ late' = TRUE
    /\ UNCHANGED <<main, result, startErr, ctx, srv, shut, req, mon, monCancel,
                   ready, refr>>

Background == \/ ProbeDone \/ MonitorTick \/ MonitorExit
              \/ RefreshTick \/ RefreshDone \/ RefreshExit

Next ==
    \/ MainLive
    \/ /\ main # "returned"
       /\ \/ ServerLive \/ Background
          \/ \E s \in Servers : ServeFails(s)
          \/ \E r \in Requests : Answer(r) \/ \E s \in Servers : Accept(r, s)
    \/ Signal
    \/ DeadlinePasses

Spec == Init /\ [][Next]_vars

(* Goroutines that can run do run while the process lives, and a select    *)
(* whose context stays done takes that branch after finitely many ticks    *)
(* (Go chooses among ready cases at random). Clients, signals, accept      *)
(* errors and the deadline owe nothing; handlers may run for ever.         *)
FairSpec ==
    /\ Spec
    /\ WF_vars(MainLive)
    /\ \A s \in Servers : /\ WF_vars(main # "returned" /\ Serve(s))
                          /\ WF_vars(main # "returned" /\ ShutdownBegin(s))
                          /\ WF_vars(main # "returned" /\ ShutdownEnd(s))
    /\ WF_vars(main # "returned" /\ ProbeDone)
    /\ SF_vars(main # "returned" /\ MonitorExit)
    /\ WF_vars(main # "returned" /\ RefreshDone)
    /\ SF_vars(main # "returned" /\ RefreshExit)

(* As FairSpec, and every handler answers in the end.                      *)
AnsweringSpec ==
    FairSpec /\ \A r \in Requests : WF_vars(main # "returned" /\ Answer(r))

-----------------------------------------------------------------------------
(* Properties *)

(* Every variable has its type, and run has a result exactly when it has   *)
(* returned.                                                               *)
TypeOK ==
    /\ main \in {"listen", "start", "serve", "stop", "monstop", "join", "returned"}
    /\ result \in Outcomes \cup {None}
    /\ main = "returned" <=> result # None
    /\ startErr \in {None, "nil", "canceled", "error"}
    /\ ctx \in BOOLEAN /\ monCancel \in BOOLEAN
    /\ ready \in BOOLEAN /\ late \in BOOLEAN
    /\ srv \in [Servers -> {"unbound", "bound", "serving", "failed", "closed"}]
    /\ shut \in [Servers -> {"off", "begin", "draining", "nil", "canceled"}]
    /\ req \in [Requests -> ReqStates]
    /\ mon \in {"off", "probing", "waiting", "exited"}
    /\ refr \in {"off", "waiting", "calling", "exited"}

(* When run returns (and its deferred calls close the database) neither    *)
(* background goroutine is left: the refresh loop has exited, and so has   *)
(* the monitor unless mon.Stop ran into its deadline.                      *)
WorkersJoined ==
    main = "returned" => /\ refr \in {"off", "exited"}
                         /\ mon \in {"off", "exited"} \/ late

(* The exit status tells the truth: run returns nil only after a signal,   *)
(* and an error only if it never served or a server failed by itself. A    *)
(* drain that was cancelled is not an error.                               *)
ExitStatusTrue ==
    /\ result = "nil" => ctx
    /\ result = "error" => \/ startErr = None
                           \/ \E s \in Servers : srv[s] = "failed"

(* A signal ends the process, whatever the handlers, the probes and the    *)
(* refresh loop are doing, and even if a handler never answers.            *)
SignalEndsRun == ctx ~> main = "returned"

(* docs/USE_STORIES.md 6.3: SIGTERM drains in-flight requests instead of   *)
(* dropping them: no request is cut off while its 30s have not passed.     *)
DrainInFlight == \A r \in Requests : req[r] = "cut" => late

(* main.go: run "Returns the first fatal error": a server that fails by    *)
(* itself makes run return.                                                *)
FatalErrorReturns ==
    (\E s \in Servers : srv[s] = "failed") ~> main = "returned"
=============================================================================
