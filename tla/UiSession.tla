----------------------------- MODULE UiSession -----------------------------
(***************************************************************************)
(* The cluster-stats collectors (internal/clusterstats).  A tick of the     *)
(* monitor runs one goroutine per backend over ONE collector.  The UI_API   *)
(* collector keeps one session for all of them: the first goroutine that    *)
(* finds none logs in, at its own backend and holding the mutex; the others *)
(* copy the jar; a 401 drops the session whoever made it.  A coordinator    *)
(* restart forgets its sessions.  The METRICS collector keeps nothing and   *)
(* gates on thresholds.  A jar is [owner, gen]: the backend that was logged *)
(* in to, and which run of its coordinator; external: the coordinator.      *)
(***************************************************************************)
EXTENDS Naturals, FiniteSets

CONSTANTS Fleets,      \* the sets of backends the collector may be given
          Retries,     \* monitor.retries
          MaxUiFaults, \* bound: transport errors and coordinator restarts
          None

VARIABLES fleet,       \* the backends of this run of the gateway
          collector,   \* the collector that NewCollector built, or None
          gen,         \* gen[b]: how often b's coordinator has restarted
          session,     \* the collector's jar, or None (not logged in)
          loginMu,     \* who holds the mutex during a login, or None
          job,         \* job[b]: the goroutine of b in this tick
          stats,       \* stats[b]: what this tick's Collect returned so far
          uiFaults

uiVars == <<fleet, collector, gen, session, loginMu, job, stats, uiFaults>>

\* statsBuilder: the identity fields and no verdict; answered is the history of
\* the tick: what b told the collector.
statsBuilder == [status |-> "UNKNOWN", counts |-> FALSE, users |-> FALSE, answered |-> "nothing"]
Idle == [pc |-> "idle", jar |-> None, tries |-> 0]
Done == [Idle EXCEPT !.pc = "done"]

Accepts(b, jar) == jar # None /\ jar.owner = b /\ jar.gen = gen[b]

\* The collector of the configured monitor type is built with no session.
NewCollector(type, f) ==
    /\ collector = None
    /\ collector' = type /\ fleet' = f
    /\ UNCHANGED <<gen, session, loginMu, job, stats, uiFaults>>

\* Mutant: the previous tick's record is the starting point of the next.
CollectKeepsRecord ==
    /\ collector # None
    /\ \A b \in fleet : job[b].pc \in {"idle", "done"}
    /\ job' = [b \in DOMAIN job |-> IF b \in fleet THEN [Idle EXCEPT !.pc = "start"] ELSE Idle]
    /\ stats' = [b \in DOMAIN stats |-> [stats[b] EXCEPT !.answered = "nothing"]]
    /\ UNCHANGED <<fleet, collector, gen, session, loginMu, uiFaults>>

\* collectStats: a goroutine per backend, once those of the last tick are done.
CollectStats ==
    /\ collector # None
    /\ \A b \in fleet : job[b].pc \in {"idle", "done"}
    /\ job' = [b \in DOMAIN job |-> IF b \in fleet THEN [Idle EXCEPT !.pc = "start"] ELSE Idle]
    /\ stats' = [b \in DOMAIN stats |-> statsBuilder]
    /\ UNCHANGED <<fleet, collector, gen, session, loginMu, uiFaults>>
----------------------------------------------------------------------------
\* UI_API

\* With a session there is nothing to do; without one the mutex is kept for the
\* whole login.
ensureLogin(b) ==
    /\ collector = "UI_API" /\ job[b].pc = "start" /\ loginMu = None
    /\ IF session # None
       THEN job' = [job EXCEPT ![b].pc = "stats"] /\ UNCHANGED loginMu
       ELSE job' = [job EXCEPT ![b].pc = "login"] /\ loginMu' = b
    /\ UNCHANGED <<fleet, collector, gen, session, stats, uiFaults>>

\* Any answer counts as a login, whatever its status.
LoginAnswered(b) ==
    /\ job[b].pc = "login"
    /\ session' = [owner |-> b, gen |-> gen[b]]
    /\ job' = [job EXCEPT ![b].pc = "stats"]
    /\ loginMu' = None
    /\ UNCHANGED <<fleet, collector, gen, stats, uiFaults>>

LoginFails(b) ==
    /\ job[b].pc = "login" /\ uiFaults < MaxUiFaults
    /\ uiFaults' = uiFaults + 1
    /\ job' = [job EXCEPT ![b] = Done]
    /\ loginMu' = None
    /\ UNCHANGED <<fleet, collector, gen, session, stats>>

\* get: the jar is copied under the mutex and used after it is released.
CopyJar(b) ==
    /\ job[b].pc \in {"stats", "queued"} /\ loginMu = None
    /\ job' = [job EXCEPT ![b] = [pc |-> IF @.pc = "stats" THEN "getStats" ELSE "getQueued",
                                  jar |-> session, tries |-> 0]]
    /\ UNCHANGED <<fleet, collector, gen, session, loginMu, stats, uiFaults>>

\* A transport error is retried until the attempts or the deadline run out.
GetFails(b) ==
    /\ job[b].pc \in {"getStats", "getQueued"} /\ uiFaults < MaxUiFaults
    /\ uiFaults' = uiFaults + 1
    /\ \/ job[b].tries < Retries /\ job' = [job EXCEPT ![b].tries = @ + 1]
       \/ job' = [job EXCEPT ![b] = Done]
    /\ UNCHANGED <<fleet, collector, gen, session, loginMu, stats>>

\* Mutant: a 401 is treated like any other empty answer.
KeepOn401(b) ==
    /\ job[b].pc \in {"getStats", "getQueued"} /\ loginMu = None
    /\ ~Accepts(b, job[b].jar)
    /\ job' = [job EXCEPT ![b] = Done]
    /\ UNCHANGED <<fleet, collector, gen, session, loginMu, stats, uiFaults>>

\* invalidateSession: the session held now is dropped, whichever jar was refused.
Unauthorized(b) ==
    /\ job[b].pc \in {"getStats", "getQueued"} /\ loginMu = None
    /\ ~Accepts(b, job[b].jar)
    /\ session' = None
    /\ job' = [job EXCEPT ![b] = Done]
    /\ UNCHANGED <<fleet, collector, gen, loginMu, stats, uiFaults>>

\* The worker count decides the verdict; the queued query follows.
StatsAnswered(b, workers) ==
    /\ job[b].pc = "getStats" /\ Accepts(b, job[b].jar)
    /\ stats' = [stats EXCEPT ![b] = [status |-> IF workers > 0 THEN "HEALTHY" ELSE "UNHEALTHY",
                    counts |-> TRUE, users |-> FALSE,
                    answered |-> IF workers > 0 THEN "good" ELSE "bad"]]
    /\ job' = [job EXCEPT ![b] = [Idle EXCEPT !.pc = "queued"]]
    /\ UNCHANGED <<fleet, collector, gen, session, loginMu, uiFaults>>

QueuedAnswered(b) ==
    /\ job[b].pc = "getQueued" /\ Accepts(b, job[b].jar)
    /\ stats' = [stats EXCEPT ![b].users = TRUE]
    /\ job' = [job EXCEPT ![b] = Done]
    /\ UNCHANGED <<fleet, collector, gen, session, loginMu, uiFaults>>

CoordinatorRestarts(b) ==
    /\ b \in fleet /\ uiFaults < MaxUiFaults
    /\ uiFaults' = uiFaults + 1
    /\ gen' = [gen EXCEPT ![b] = @ + 1]
    /\ UNCHANGED <<fleet, collector, session, loginMu, job, stats>>
----------------------------------------------------------------------------
\* METRICS, INFO_API and NOOP

Metrics == {"running", "queued", "nodes"}
Values == {"missing", "unparsable", "0", "1"}
Minimum == [nodes |-> 1]
Maximum == [queued |-> 0]

\* A line whose value does not parse is skipped; one required metric missing
\* rejects the whole response.
parseMetrics(body) ==
    LET read == {m \in Metrics : body[m] \in {"0", "1"}}
    IN  IF read = Metrics THEN [m \in read |-> IF body[m] = "1" THEN 1 ELSE 0] ELSE <<>>

metricsCollect(body) ==
    LET m == parseMetrics(body)
        healthy == /\ m # <<>>
                   /\ \A n \in DOMAIN Minimum : m[n] >= Minimum[n]
                   /\ \A n \in DOMAIN Maximum : m[n] <= Maximum[n]
    IN  [statsBuilder EXCEPT !.status = IF healthy THEN "HEALTHY" ELSE "UNHEALTHY",
                             !.counts = healthy]

\* The scrape answers with some body, or not at all (retries included).
CollectMetrics(b) ==
    /\ collector = "METRICS" /\ job[b].pc = "start"
    /\ \E body \in [Metrics -> Values] :
         stats' = [stats EXCEPT ![b] = [metricsCollect(body) EXCEPT
             !.answered = IF body.nodes = "1" /\ body.queued = "0" THEN "good" ELSE "bad"]]
    /\ job' = [job EXCEPT ![b] = Done]
    /\ UNCHANGED <<fleet, collector, gen, session, loginMu, uiFaults>>

ScrapeFails(b) ==
    /\ collector = "METRICS" /\ job[b].pc = "start"
    /\ stats' = [stats EXCEPT ![b].status = "UNHEALTHY"]
    /\ job' = [job EXCEPT ![b] = Done]
    /\ UNCHANGED <<fleet, collector, gen, session, loginMu, uiFaults>>

\* INFO_API and NOOP copy the monitor's verdict on the backend, no request made.
CollectVerdict(b, verdict) ==
    /\ collector = "INFO_API" /\ job[b].pc = "start"
    /\ stats' = [stats EXCEPT ![b].status = verdict, ![b].answered = IF verdict = "HEALTHY" THEN "good" ELSE "bad"]
    /\ job' = [job EXCEPT ![b] = Done]
    /\ UNCHANGED <<fleet, collector, gen, session, loginMu, uiFaults>>
----------------------------------------------------------------------------
UiInit ==
    LET all == UNION Fleets
    IN  /\ fleet = {} /\ collector = None
        /\ gen = [b \in all |-> 0]
        /\ session = None /\ loginMu = None
        /\ job = [b \in all |-> Idle]
        /\ stats = [b \in all |-> statsBuilder]
        /\ uiFaults = 0

\* The steps a goroutine takes by itself: its requests are answered.
Collect(b) ==
    \/ ensureLogin(b) \/ LoginAnswered(b) \/ CopyJar(b) \/ Unauthorized(b)
    \/ \E workers \in {0, 1} : StatsAnswered(b, workers)
    \/ QueuedAnswered(b) \/ CollectMetrics(b)
    \/ \E verdict \in {"HEALTHY", "PENDING"} : CollectVerdict(b, verdict)

UiNext ==
    \/ \E type \in {"UI_API", "METRICS", "INFO_API"}, f \in Fleets : NewCollector(type, f)
    \/ CollectStats
    \/ \E b \in UNION Fleets :
         Collect(b) \/ LoginFails(b) \/ GetFails(b) \/ CoordinatorRestarts(b) \/ ScrapeFails(b)

UiSpec == UiInit /\ [][UiNext]_uiVars
----------------------------------------------------------------------------
\* A backend shown HEALTHY has said so in this very tick: a failed login, a 401, a
\* transport error or a rejected scrape never leaves the last verdict standing.
HealthyIsFresh ==
    \A b \in UNION Fleets : stats[b].status = "HEALTHY" => stats[b].answered = "good"

\* With one backend, whatever logins fail and however often its coordinator
\* forgets the session, full statistics (with the queued users) come back: a 401
\* costs the rest of that tick and no more.
CollectionRecovers ==
    []<>(collector = "UI_API" /\ Cardinality(fleet) = 1 =>
            \A b \in fleet : stats[b].users)
============================================================================
