---------------------------- MODULE HealthMonitor ----------------------------
(* The health monitor (internal/monitor/monitor.go) and those it publishes  *)
(* to: BackendMetrics (internal/metrics/backend.go) and StatsStore          *)
(* (internal/clusterstats).  The status map is an atomic pointer: a reader  *)
(* sees a whole map, a writer that copies it may store an old one.  Who     *)
(* calls SetBackends and SetBackendStatus is ControlPlane's business.       *)
EXTENDS Naturals, FiniteSets, Functions, TLC

CONSTANTS
    Names,         \* names of backends
    Urls,          \* their URLs
    Admins,        \* admin requests that run concurrently
    MaxFlaps,      \* cluster changes and database errors in a behaviour
    None

VARIABLES
    cluster,       \* what each URL's /v1/info would say now
    backends,      \* Monitor.backends: name -> URL
    status,        \* Monitor.status: URL -> verdict, for the URLs it knows
    mpc,           \* where each goroutine is
    carry,         \* the map each goroutine carries between two steps
    probe,         \* the probe under way
    gauge,         \* BackendMetrics: URL -> status label, for its series
    stats,         \* StatsStore: name -> verdict of the last snapshot
    ready,         \* admin readyz
    flaps

monitorVars == <<cluster, backends, status, mpc, carry, probe, gauge, stats,
                 ready, flaps>>

Prober == "prober"
Refresher == "refresher"
Threads == Admins \cup {Prober, Refresher}

Empty == [x \in {} |-> None]
NoProbe == [list |-> Empty, todo |-> {}, found |-> Empty]

-----------------------------------------------------------------------------
(* What the code computes.                                                  *)

(* checkOne: no answer, a bad one, or not 200 is unhealthy.                 *)
CheckOne(u) ==
    CASE cluster[u] = "up"       -> "healthy"
      [] cluster[u] = "starting" -> "pending"
      [] OTHER                   -> "unhealthy"

(* Monitor.Status.                                                          *)
Status(u) == IF u \in DOMAIN status THEN status[u] ELSE "unknown"

(* statusLabel: both say that no health is confirmed yet.                   *)
StatusLabel(s) == IF s = "unknown" THEN "pending" ELSE s

(* StatsStore.Stats: a backend not collected yet has the zero statistics.   *)
Stats(n) == IF n \in DOMAIN stats THEN stats[n] ELSE "unknown"

(* infoAPICollector.Collect and noopCollector.Collect reuse the verdict.    *)
Collect(u) == Status(u)

(* ObserveStatuses drops the series of URLs that left the snapshot and sets *)
(* those that are in it, under one mutex.                                   *)
ObserveKeepsSeries(snap) ==
    [u \in DOMAIN snap |-> StatusLabel(snap[u])] @@ gauge
ObserveStatuses(snap) == [u \in DOMAIN snap |-> StatusLabel(snap[u])]

Flap ==
    /\ flaps < MaxFlaps
    /\ flaps' = flaps + 1

-----------------------------------------------------------------------------
MonitorInit ==
    /\ cluster = [u \in Urls |-> "starting"]
    /\ backends = Empty
    /\ status = Empty
    /\ mpc = [t \in Threads |-> CASE t = Prober    -> "unstarted"
                                  [] t = Refresher -> "first"
                                  [] OTHER         -> "idle"]
    /\ carry = [t \in Threads |-> Empty]
    /\ probe = NoProbe
    /\ gauge = Empty
    /\ stats = Empty
    /\ ready = FALSE
    /\ flaps = 0

(* notifyObserver, the tail of SetBackends, SetBackendStatus and probe: the *)
(* URLs under the lock, then the map (a backend not yet probed is pending), *)
(* then ObserveStatuses outside any lock.                                   *)
NotifyNames(t) ==
    /\ mpc[t] = "names"
    /\ carry' = [carry EXCEPT ![t] = [u \in Range(backends) |-> "pending"]]
    /\ mpc' = [mpc EXCEPT ![t] = "load"]
    /\ UNCHANGED <<cluster, backends, status, probe, gauge, stats, ready, flaps>>

NotifyLoad(t) ==
    /\ mpc[t] = "load"
    /\ carry' = [carry EXCEPT ![t] =
                    [u \in DOMAIN @ |-> IF u \in DOMAIN status THEN status[u] ELSE @[u]]]
    /\ mpc' = [mpc EXCEPT ![t] = "observe"]
    /\ UNCHANGED <<cluster, backends, status, probe, gauge, stats, ready, flaps>>

NotifyObserver(t) ==
    /\ mpc[t] = "observe"
    /\ gauge' = ObserveStatuses(carry[t])
    /\ carry' = [carry EXCEPT ![t] = Empty]
    /\ mpc' = [mpc EXCEPT ![t] = IF t = Prober THEN "collect" ELSE "idle"]
    /\ UNCHANGED <<cluster, backends, status, probe, stats, ready, flaps>>

Notify(t) == NotifyNames(t) \/ NotifyLoad(t) \/ NotifyObserver(t)

(* SetBackends(list), the refresher's.                                      *)
SetBackends(list) ==
    /\ backends' = list
    /\ mpc' = [mpc EXCEPT ![Refresher] = "names"]
    /\ carry' = [carry EXCEPT ![Refresher] = Empty]
    /\ UNCHANGED <<cluster, status, probe, gauge, stats, ready, flaps>>

(* SetBackendStatus: a copy of the map with one verdict set, then the       *)
(* store, which does not compare: a map published in between is lost.       *)
SetBackendStatusLoad(t, u, verdict) ==
    /\ carry' = [carry EXCEPT ![t] = [x \in {u} |-> verdict] @@ status]
    /\ mpc' = [mpc EXCEPT ![t] = "store"]
    /\ UNCHANGED <<cluster, backends, status, probe, gauge, stats, ready, flaps>>

SetBackendStatusStore(t) ==
    /\ mpc[t] = "store"
    /\ status' = carry[t]
    /\ carry' = [carry EXCEPT ![t] = Empty]
    /\ mpc' = [mpc EXCEPT ![t] = "names"]
    /\ UNCHANGED <<cluster, backends, probe, gauge, stats, ready, flaps>>

-----------------------------------------------------------------------------
(* Start and run: probe at once, then on every tick.                        *)
Start ==
    /\ mpc[Prober] = "unstarted"
    /\ mpc[Refresher] = "idle"
    /\ mpc' = [mpc EXCEPT ![Prober] = "tick"]
    /\ UNCHANGED <<cluster, backends, status, carry, probe, gauge, stats, ready, flaps>>

(* probe with no backends returns at once: what it knew stays as it is, and *)
(* the deferred first tick runs all the same.                               *)
ProbeNothingSkipsTick ==
    /\ mpc[Prober] = "tick"
    /\ backends = Empty
    /\ UNCHANGED monitorVars

ProbeNothing ==
    /\ mpc[Prober] = "tick"
    /\ backends = Empty
    /\ ready' = TRUE
    /\ UNCHANGED <<cluster, backends, status, mpc, carry, probe, gauge, stats, flaps>>

ProbeBegin ==
    /\ mpc[Prober] = "tick"
    /\ backends # Empty
    /\ probe' = [NoProbe EXCEPT !.list = backends, !.todo = DOMAIN backends]
    /\ mpc' = [mpc EXCEPT ![Prober] = "check"]
    /\ UNCHANGED <<cluster, backends, status, carry, gauge, stats, ready, flaps>>

(* One goroutine per backend; the last of two that share a URL wins.        *)
ProbeOne(n) ==
    /\ mpc[Prober] = "check"
    /\ n \in probe.todo
    /\ probe' = [probe EXCEPT !.todo = @ \ {n},
                    !.found = [u \in {probe.list[n]} |-> CheckOne(u)] @@ @]
    /\ UNCHANGED <<cluster, backends, status, mpc, carry, gauge, stats, ready, flaps>>

(* The swap: verdicts of URLs that left the list are dropped with it.       *)
ProbeSwapMerges ==
    /\ mpc[Prober] = "check"
    /\ probe.todo = {}
    /\ status' = probe.found @@ status
    /\ probe' = [probe EXCEPT !.todo = DOMAIN probe.list, !.found = Empty]
    /\ mpc' = [mpc EXCEPT ![Prober] = "names"]
    /\ UNCHANGED <<cluster, backends, carry, gauge, stats, ready, flaps>>

ProbeSwap ==
    /\ mpc[Prober] = "check"
    /\ probe.todo = {}
    /\ status' = probe.found
    /\ probe' = [probe EXCEPT !.todo = DOMAIN probe.list, !.found = Empty]
    /\ mpc' = [mpc EXCEPT ![Prober] = "names"]
    /\ UNCHANGED <<cluster, backends, carry, gauge, stats, ready, flaps>>

(* collectStats: a collector per backend, then one snapshot by name, and    *)
(* the first tick.                                                          *)
CollectOne(n) ==
    /\ mpc[Prober] = "collect"
    /\ n \in probe.todo
    /\ probe' = [probe EXCEPT !.todo = @ \ {n},
                    !.found = [x \in {n} |-> Collect(probe.list[n])] @@ @]
    /\ UNCHANGED <<cluster, backends, status, mpc, carry, gauge, stats, ready, flaps>>

ObserveStats ==
    /\ mpc[Prober] = "collect"
    /\ probe.todo = {}
    /\ stats' = probe.found
    /\ ready' = TRUE
    /\ probe' = NoProbe
    /\ mpc' = [mpc EXCEPT ![Prober] = "tick"]
    /\ UNCHANGED <<cluster, backends, status, carry, gauge, flaps>>

(* A cluster that starts comes up, goes away and starts again; a probe may  *)
(* miss any of it.                                                          *)
ClusterChanges(u) ==
    /\ Flap
    /\ cluster' = [cluster EXCEPT ![u] =
                      CASE @ = "starting" -> "up" [] @ = "up" -> "down" [] OTHER -> "starting"]
    /\ UNCHANGED <<backends, status, mpc, carry, probe, gauge, stats, ready>>

ProberStep ==
    \/ ProbeNothing \/ ProbeBegin \/ ProbeSwap \/ ObserveStats
    \/ \E n \in Names : ProbeOne(n) \/ CollectOne(n)
    \/ Notify(Prober)
=============================================================================
