----------------------------- MODULE ControlPlane -----------------------------
(* The gateway's control plane: the table gateway_backend                   *)
(* (internal/persistence/backend.go), the admin handlers that write and     *)
(* show it (internal/admin/backend.go, webapp.go), the refresh loop of      *)
(* cmd/trino-goway/main.go and the health monitor it feeds.                 *)
EXTENDS HealthMonitor

CONSTANT MaxEdits       \* admin writes in a behaviour

VARIABLES
    table,              \* gateway_backend: name -> [url, active]
    edits

controlVars == <<monitorVars, table, edits>>

Row == [url : Urls, active : BOOLEAN]

-----------------------------------------------------------------------------
(* BackendDAO.                                                              *)
List == table
ListActive ==
    LET active == {n \in DOMAIN table : table[n].active}
    IN  [n \in active |-> table[n].url]

Upsert(n, row) == table' = [x \in {n} |-> row] @@ table

Delete(n) == table' = [x \in DOMAIN table \ {n} |-> table[x]]

(* An UPDATE that matches no row is no error.                               *)
SetActive(n, active) ==
    table' = [x \in DOMAIN table |->
                 IF x = n THEN [table[x] EXCEPT !.active = active] ELSE table[x]]

-----------------------------------------------------------------------------
ControlInit ==
    /\ MonitorInit
    /\ table = [n \in {CHOOSE n \in Names : TRUE} |->
                   [url |-> CHOOSE u \in Urls : TRUE, active |-> TRUE]]
    /\ edits = 0

(* The admin handlers that write.  One that fails to decode its body or     *)
(* whose statement fails answers with an error and changes nothing.         *)
Edit(a) ==
    /\ mpc[a] = "idle"
    /\ edits < MaxEdits
    /\ edits' = edits + 1

addBackend(n, row) == Upsert(n, row)
updateBackend(n, row) == Upsert(n, row)
webappSaveBackend(n, row) == Upsert(n, row)
webappUpdateBackend(n, row) == Upsert(n, row)
deleteBackend(n) == Delete(n)
webappDeleteBackend(n) == Delete(n)
activateBackend(n) == SetActive(n, TRUE)
deactivateBackend(n) == SetActive(n, FALSE)

WriteTable(a) ==
    /\ Edit(a)
    /\ \E n \in Names :
          \/ \E row \in Row : \/ addBackend(n, row)
                              \/ updateBackend(n, row)
                              \/ webappSaveBackend(n, row)
                              \/ webappUpdateBackend(n, row)
          \/ deleteBackend(n) \/ webappDeleteBackend(n)
          \/ activateBackend(n) \/ deactivateBackend(n)
    /\ UNCHANGED monitorVars

(* upsertEntity writes the row, then overrides the verdict of its URL.      *)
upsertEntity(a, n, row) ==
    /\ Edit(a)
    /\ Upsert(n, row)
    /\ mpc' = [mpc EXCEPT ![a] = "override"]
    /\ carry' = [carry EXCEPT ![a] =
                    [u \in {row.url} |-> IF row.active THEN "pending" ELSE "unhealthy"]]
    /\ UNCHANGED <<cluster, backends, status, probe, gauge, stats, ready, flaps>>

OverrideVerdict(a) ==
    /\ mpc[a] = "override"
    /\ \E u \in DOMAIN carry[a] : SetBackendStatusLoad(a, u, carry[a][u])
    /\ UNCHANGED <<table, edits>>

(* refreshBackends: main runs it once before the monitor starts and then on *)
(* every tick of runBackendRefresh.  An error leaves the old list in place. *)
RefreshTick ==
    \/ mpc[Refresher] = "first"
    \/ mpc[Refresher] = "idle" /\ mpc[Prober] # "unstarted"

RefreshBackends ==
    /\ RefreshTick
    /\ carry' = [carry EXCEPT ![Refresher] = ListActive]
    /\ mpc' = [mpc EXCEPT ![Refresher] = "listed"]
    /\ UNCHANGED <<cluster, backends, status, probe, gauge, stats, ready, flaps, table, edits>>

RefreshSet ==
    /\ mpc[Refresher] = "listed"
    /\ SetBackends(carry[Refresher])
    /\ UNCHANGED <<table, edits>>

RefreshFails ==
    /\ RefreshTick
    /\ Flap
    /\ mpc' = [mpc EXCEPT ![Refresher] = "idle"]
    /\ UNCHANGED <<cluster, backends, status, carry, probe, gauge, stats, ready, table, edits>>

AdminStep(a) ==
    \/ OverrideVerdict(a)
    \/ (SetBackendStatusStore(a) \/ Notify(a)) /\ UNCHANGED <<table, edits>>

RefresherStep ==
    \/ RefreshBackends \/ RefreshSet
    \/ (Start \/ Notify(Refresher)) /\ UNCHANGED <<table, edits>>

ControlNext ==
    \/ \E a \in Admins : WriteTable(a) \/ AdminStep(a)
    \/ \E a \in Admins, n \in Names, row \in Row : upsertEntity(a, n, row)
    \/ RefresherStep \/ RefreshFails
    \/ ProberStep /\ UNCHANGED <<table, edits>>
    \/ (\E u \in Urls : ClusterChanges(u)) /\ UNCHANGED <<table, edits>>

(* The prober and the refresher run on tickers, a handler runs to its end.  *)
(* Clusters, operators and the database owe nothing.                        *)
ControlFair ==
    /\ WF_controlVars(ProberStep /\ UNCHANGED <<table, edits>>)
    /\ WF_controlVars(RefresherStep)
    /\ \A a \in Admins : WF_controlVars(AdminStep(a))

ControlSpec == ControlInit /\ [][ControlNext]_controlVars /\ ControlFair

-----------------------------------------------------------------------------
(* What the handlers that read show.                                        *)

(* The lists of the public and gateway endpoints: the public one holds      *)
(* every backend, active or not, as do /gateway/backend/all and /entity.    *)
proxyBackend(n) == [name |-> n, proxyTo |-> table[n].url, active |-> table[n].active]
listPublicBackends == [n \in DOMAIN List |-> proxyBackend(n)]
listActiveBackends == [n \in DOMAIN ListActive |-> proxyBackend(n)]
getPublicBackend(n) == IF n \in DOMAIN List THEN proxyBackend(n) ELSE None

(* backendResponseFromPersistence and webappGetAllBackends.                 *)
backendResponse(n) ==
    [backend |-> proxyBackend(n), status |-> Status(table[n].url), collected |-> Stats(n)]
webappGetAllBackends == [n \in DOMAIN List |-> backendResponse(n)]

(* getPublicBackendState: 404 is None.                                      *)
clusterStatsResponse(n, cs) == [proxyTo |-> table[n].url, status |-> Status(table[n].url), counts |-> cs]
getPublicBackendState(n) ==
    IF n \in DOMAIN List THEN clusterStatsResponse(n, Stats(n)) ELSE None

(* The totals of webappGetDistribution.                                     *)
distribution ==
    [total   |-> Cardinality(DOMAIN table),
     online  |-> Cardinality({n \in DOMAIN table : table[n].active}),
     healthy |-> Cardinality({n \in DOMAIN table : Status(table[n].url) = "healthy"})]

-----------------------------------------------------------------------------
(* The gateway becomes ready whatever the database and the clusters do: the *)
(* first probe, even one of no backends, flips readyz (probe's deferred     *)
(* onFirstTick; "Stats must never gate or abort readiness").                *)
BecomesReady == <>ready

(* Once operators, clusters and the database rest, the gauges show exactly  *)
(* the active backends with their true health, whatever notifyObserver      *)
(* calls were under way or reordered outside the lock.                      *)
GaugesSettle ==
    <>[](gauge = [u \in Range(ListActive) |-> CheckOne(u)])

(* Likewise what the handlers show: the backends listed as active are those *)
(* the monitor probes, each with the verdict of its cluster in every view,  *)
(* by URL and by name, though an override may have stored an old map over a *)
(* newer one; no verdict of a backend that left survives, unless the last   *)
(* one left, for then probe returns before the swap; and the totals of the  *)
(* dashboard agree with the series of the gauges.                           *)
ViewsSettle ==
    <>[](/\ backends = [n \in DOMAIN listActiveBackends |-> listActiveBackends[n].proxyTo]
         /\ \A n \in DOMAIN backends :
               LET v == CheckOne(getPublicBackend(n).proxyTo) IN
               /\ webappGetAllBackends[n].status = v
               /\ webappGetAllBackends[n].collected = v
               /\ getPublicBackendState(n).status = getPublicBackendState(n).counts
         /\ DOMAIN backends # {} =>
               /\ DOMAIN status = Range(backends)
               /\ DOMAIN stats = DOMAIN backends
               /\ distribution.healthy =
                     Cardinality({n \in DOMAIN listPublicBackends :
                        LET u == listPublicBackends[n].proxyTo
                        IN  u \in DOMAIN gauge /\ gauge[u] = "healthy"}))
=============================================================================
