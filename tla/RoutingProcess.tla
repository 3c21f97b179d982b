--------------------------- MODULE RoutingProcess ---------------------------
(***************************************************************************)
(* The process of the routing service: main, its three listeners (Route,    *)
(* the kill switch, /metrics) each blocked in its own Start until the       *)
(* signal context is done or its accept loop fails, and the calls being     *)
(* handled on them.  main waits in srv.Start and reads the results of the   *)
(* other two only after that.  A listener is                                *)
(*   off -> starting -> serving -> draining -> stopped   (Start returned    *)
(*   nil), or serving -> broken -> failed (Start returned an error).        *)
(* external: the sockets, and gRPC's GracefulStop and Stop.                 *)
(***************************************************************************)
EXTENDS Naturals, FiniteSets

CONSTANTS RouteCalls, AdminCalls, Scrapes, \* bound: calls of one run of the process
          None

VARIABLES mainAt,   \* what main executes or waits for
          ctxDone,  \* SIGTERM or SIGINT has arrived
          listener, \* listener[l]: the state of a server
          rpc,      \* rpc[c]: none, running, done (answered) or cut (no answer)
          hardStop, \* servers whose grace period has run out
          exitCode  \* None while the process runs

processVars == <<mainAt, ctxDone, listener, rpc, hardStop, exitCode>>

Listeners == {"route", "admin", "metrics"}
Calls == RouteCalls \union AdminCalls \union Scrapes
CallsOf(l) == CASE l = "route" -> RouteCalls [] l = "admin" -> AdminCalls [] OTHER -> Scrapes

Alive == exitCode = None
Cut(calls) == [c \in Calls |-> IF c \in calls /\ rpc[c] = "running" THEN "cut" ELSE rpc[c]]

\* The end of the process: os.Exit, or the return of main.
Exit(code) ==
    /\ exitCode' = code /\ mainAt' = "gone"
    /\ rpc' = Cut(Calls)
    /\ UNCHANGED <<ctxDone, listener, hardStop>>
-----------------------------------------------------------------------------
\* main

\* config.Load and the pipeline's methods, before signals are caught.
LoadConfig ==
    /\ mainAt = "load"
    /\ \/ Exit(1)
       \/ mainAt' = "init" /\ UNCHANGED <<ctxDone, listener, rpc, hardStop, exitCode>>

\* Evaluator, tracing (which may fail) and server are built; /metrics starts on
\* its goroutine.
StartMetrics ==
    /\ mainAt = "init"
    /\ \/ Exit(1)
       \/ /\ mainAt' = "watch" /\ listener' = [listener EXCEPT !["metrics"] = "starting"]
          /\ UNCHANGED <<ctxDone, rpc, hardStop, exitCode>>

\* The watcher starts, or main exits under the metrics listener; then the
\* kill-switch server's goroutine, and srv.Start on main's own.
StartServers ==
    /\ mainAt = "watch"
    /\ \/ Exit(1)
       \/ /\ mainAt' = "route"
          /\ listener' = [listener EXCEPT !["admin"] = "starting", !["route"] = "starting"]
          /\ UNCHANGED <<ctxDone, rpc, hardStop, exitCode>>

NextWait == [route |-> "admin", admin |-> "metrics", metrics |-> "defers"]

\* Mutant: main selects over the three results instead of waiting in order.
AwaitServersAny ==
    /\ mainAt \in Listeners
    /\ \/ \E l \in Listeners : listener[l] = "failed" /\ Exit(1)
       \/ /\ listener[mainAt] = "stopped"
          /\ mainAt' = NextWait[mainAt]
          /\ UNCHANGED <<ctxDone, listener, rpc, hardStop, exitCode>>

\* srv.Start, then <-adminErr, then <-metricsErr: an error exits at once.
AwaitServers ==
    /\ mainAt \in Listeners
    /\ \/ listener[mainAt] = "failed" /\ Exit(1)
       \/ /\ listener[mainAt] = "stopped"
          /\ mainAt' = NextWait[mainAt]
          /\ UNCHANGED <<ctxDone, listener, rpc, hardStop, exitCode>>

\* The defers: admin.Stop on a server already stopped (bounded by its timer
\* again), watcher.Stop, the tracer's flush (5 s at most) and stop.
RunDefers == mainAt = "defers" /\ Exit(0)

\* NotifyContext; a signal that comes before it ends the process.
Signal ==
    /\ Alive /\ ~ctxDone
    /\ IF mainAt = "load" THEN Exit(143)
       ELSE ctxDone' = TRUE /\ UNCHANGED <<mainAt, listener, rpc, hardStop, exitCode>>
-----------------------------------------------------------------------------
\* The listeners

To(l, s) == listener' = [listener EXCEPT ![l] = s]

\* Start: net.Listen, and Serve on a goroutine.
Start(l) ==
    /\ Alive /\ listener[l] = "starting"
    /\ \E s \in {"serving", "failed"} : To(l, s)
    /\ UNCHANGED <<mainAt, ctxDone, rpc, hardStop, exitCode>>

\* Serve returns an error; the connections it has accepted stay.
ServeBreaks(l) ==
    /\ Alive /\ listener[l] = "serving"
    /\ To(l, "broken")
    /\ UNCHANGED <<mainAt, ctxDone, rpc, hardStop, exitCode>>

\* The select of StartOnListener: whichever of the two cases is ready.
Select(l) ==
    /\ Alive
    /\ \/ ctxDone /\ listener[l] \in {"serving", "broken"} /\ To(l, "draining")
       \/ listener[l] = "broken" /\ To(l, "failed")
    /\ UNCHANGED <<mainAt, ctxDone, rpc, hardStop, exitCode>>

\* GracefulStop (or Shutdown) returns: every call accepted has been answered.
Drained(l) ==
    /\ Alive /\ listener[l] = "draining"
    /\ \A c \in CallsOf(l) : rpc[c] # "running"
    /\ To(l, "stopped")
    /\ UNCHANGED <<mainAt, ctxDone, rpc, hardStop, exitCode>>

\* The timer fires first.  gRPC's Stop closes the connections and does not wait
\* for the handlers; Shutdown's context expires and leaves the scrape alone.
GraceRunsOut(l) ==
    /\ Alive /\ listener[l] = "draining"
    /\ To(l, "stopped") /\ hardStop' = hardStop \union {l}
    /\ rpc' = IF l = "metrics" THEN rpc ELSE Cut(CallsOf(l))
    /\ UNCHANGED <<mainAt, ctxDone, exitCode>>

gracefulStopWithTimeout == Drained("route") \/ GraceRunsOut("route")

\* Mutant: the kill-switch server is stopped without a cap.
stopWithTimeoutUncapped == Drained("admin")
stopWithTimeout == Drained("admin") \/ GraceRunsOut("admin")
Shutdown == Drained("metrics") \/ GraceRunsOut("metrics")

RouteServer == Start("route") \/ Select("route") \/ gracefulStopWithTimeout
AdminServer == Start("admin") \/ Select("admin") \/ stopWithTimeout
MetricsServer == Start("metrics") \/ Select("metrics") \/ Shutdown
-----------------------------------------------------------------------------
\* The calls: a handler runs as long as it likes, and need not return.
Accept(l, c) ==
    /\ Alive /\ c \in CallsOf(l) /\ rpc[c] = "none"
    /\ listener[l] \in {"serving", "broken", "failed"}
    /\ rpc' = [rpc EXCEPT ![c] = "running"]
    /\ UNCHANGED <<mainAt, ctxDone, listener, hardStop, exitCode>>

Finish(c) ==
    /\ Alive /\ rpc[c] = "running"
    /\ rpc' = [rpc EXCEPT ![c] = "done"]
    /\ UNCHANGED <<mainAt, ctxDone, listener, hardStop, exitCode>>

ProcessInit ==
    /\ mainAt = "load" /\ ctxDone = FALSE
    /\ listener = [l \in Listeners |-> "off"]
    /\ rpc = [c \in Calls |-> "none"]
    /\ hardStop = {} /\ exitCode = None

Main == LoadConfig \/ StartMetrics \/ StartServers \/ AwaitServers \/ RunDefers

ProcessNext ==
    \/ Main \/ Signal
    \/ RouteServer \/ AdminServer \/ MetricsServer
    \/ \E l \in Listeners : ServeBreaks(l) \/ \E c \in Calls : Accept(l, c)
    \/ \E c \in Calls : Finish(c)
-----------------------------------------------------------------------------
\* A Route call the service has accepted goes unanswered only if it outlived the
\* 30 s of gracefulStopWithTimeout, or the data plane's own accept loop failed:
\* no failure of the kill-switch or metrics listener, and no signal, cuts it.
RouteCallsDrained ==
    \A c \in RouteCalls :
       rpc[c] = "cut" => "route" \in hardStop \/ listener["route"] = "failed"

\* Once a signal has arrived the process ends, whatever the handlers in flight
\* do and whichever listener has failed.
SignalEndsService == ctxDone ~> exitCode # None
=============================================================================
