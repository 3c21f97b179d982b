---------------------------- MODULE MCProcesses ----------------------------
(***************************************************************************)
(* The two processes of a deployment, the gateway and the routing service,  *)
(* from boot to exit.  They share no state and are coupled only through     *)
(* calls that either may lose at any time, so a behaviour follows one of    *)
(* them, `process`, with the other at its initial state.                    *)
(***************************************************************************)
EXTENDS MCGatewayLifecycle

CONSTANTS RouteCalls, AdminCalls, Scrapes

\* A call is made to one of the three listeners.
ASSUME CallsAssumption ==
    /\ RouteCalls \intersect AdminCalls = {}
    /\ RouteCalls \intersect Scrapes = {}

VARIABLES process, mainAt, ctxDone, listener, rpc, hardStop, exitCode

Service == INSTANCE RoutingProcess

Gateway == process = "gateway"
Routing == process = "routing"
serviceV == <<mainAt, ctxDone, listener, rpc, hardStop, exitCode>>

ProcessesInit == process \in {"gateway", "routing"} /\ Init /\ Service!ProcessInit

ProcessesNext ==
    /\ UNCHANGED process
    /\ \/ Gateway /\ Next /\ UNCHANGED serviceV
       \/ Routing /\ Service!ProcessNext /\ UNCHANGED vars

\* The fairness of FairSpec, while the gateway is the process.
GatewayFair ==
    LET Alive == Gateway /\ main # "returned" IN
    /\ WF_vars(Gateway /\ MainLive)
    /\ \A s \in Servers : /\ WF_vars(Alive /\ Serve(s))
                          /\ WF_vars(Alive /\ ShutdownBegin(s))
                          /\ WF_vars(Alive /\ ShutdownEnd(s))
    /\ WF_vars(Alive /\ ProbeDone) /\ SF_vars(Alive /\ MonitorExit)
    /\ WF_vars(Alive /\ RefreshDone) /\ SF_vars(Alive /\ RefreshExit)

\* main and the goroutine of each server are scheduled; a timer that has run out
\* fires.  Handlers, clients, signals and accept errors owe nothing.
RoutingFair ==
    /\ WF_serviceV(Routing /\ Service!Main)
    /\ WF_serviceV(Routing /\ Service!RouteServer)
    /\ WF_serviceV(Routing /\ Service!AdminServer)
    /\ WF_serviceV(Routing /\ Service!MetricsServer)

ProcessesSpec ==
    /\ ProcessesInit /\ [][ProcessesNext]_<<process, vars, serviceV>>
    /\ GatewayFair /\ RoutingFair
-----------------------------------------------------------------------------
\* No failure of the kill-switch or metrics listener and no signal cuts a Route
\* call that the routing service has accepted (gracefulStopWithTimeout, main).
RouteCallsDrained == Service!RouteCallsDrained

\* A signalled routing service exits, whatever its handlers and listeners do.
SignalEndsService == Service!SignalEndsService
=============================================================================
