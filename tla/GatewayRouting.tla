--------------------------- MODULE GatewayRouting ---------------------------
(***************************************************************************)
(* The request path of the gateway: the proxy handlers of                  *)
(* internal/proxy/forward.go, the decision order of Router.Route           *)
(* (internal/routing/router.go), the bounded query cache, the recovery     *)
(* chain with its singleflight group (internal/routing/recovery.go), and   *)
(* the two tables they share through the database.                         *)
(*                                                                         *)
(* A request is a process that takes one step per access to shared state:  *)
(* the cache, the singleflight map, a database read or write, a call to    *)
(* the external router, a backend.  Requests run concurrently on any of    *)
(* the gateway replicas; clients disconnect, the database may fail, the    *)
(* administrator edits the backend table and a replica may crash, losing   *)
(* its cache and its requests.                                             *)
(*                                                                         *)
(* Trino's query ids are unique, so the query a statement creates is named *)
(* by the request that submitted it: owner[q] is the backend on which      *)
(* statement q started its query.  Past queries were started through an    *)
(* earlier incarnation of the gateway, which may have recorded them.       *)
(***************************************************************************)
EXTENDS Naturals, Sequences

CONSTANTS
    Requests,       \* client requests (each is used once)
    Past,           \* queries started before the replicas were
    Backends,       \* Trino clusters, by URL
    Groups,         \* routing groups
    Gateways,       \* gateway replicas sharing one database
    DefaultGroup,   \* routing.defaultGroup
    CacheSize,      \* capacity of the query cache (4096 in the code)
    Kinds,          \* the kinds of request clients send
    DBMayFail,      \* whether a database call may fail
    MaxAdminOps,    \* bound on edits of the backend table
    MaxRestarts,    \* bound on crashes of a replica
    MaxCancels,     \* bound on client disconnects
    None            \* "no such thing"; the empty string of the code

ASSUME RoutingAssumption ==
    /\ None \notin Requests \cup Past \cup Backends \cup Groups
    /\ None \notin {"submit", "kill", "poll", "other"}
    /\ Past \cap Requests = {}
    /\ DefaultGroup \in Groups
    /\ CacheSize \in Nat \ {0}
    /\ Kinds \subseteq {"submit", "kill", "poll", "other"}
    /\ DBMayFail \in BOOLEAN
    /\ MaxAdminOps \in Nat /\ MaxRestarts \in Nat /\ MaxCancels \in Nat

VARIABLES
    rowGroup, active,        \* table gateway_backend: routing_group, active
    history,                 \* table query_history: query -> backend
    owner,                   \* the backend that really runs a query
    cached, lru,             \* queryCache of a replica: entries, use order
    inflight,                \* singleFlightGroup.inflight: query -> leader
    pc, kind, gw, target,    \* the request, and where it is in its handler
    call, val, signalled,    \* call it leads or joined; call.val; wg.Done
    listed,                  \* backends the recovery chain is probing
    choice, outcome,         \* BackendURL and Outcome of its RouteResult
    cancelled,               \* its context is done: the client went away
    adminOps, restarts, cancels,
    \* Observations of the request's past, for the properties only:
    alive,                   \* backends active at every moment since arrival
    known,                   \* history had the target when it arrived
    sticky,                  \* its replica had already answered the target
    failed,                  \* one of its own database calls failed
    forgot                   \* queries a replica evicted or lost in a crash

tables   == <<rowGroup, active, history, owner>>
cache    == <<cached, lru>>
flight   == <<inflight, call, val, signalled>>
result   == <<choice, outcome>>
identity == <<kind, gw, target>>
bounds   == <<adminOps, restarts, cancels>>
seenVars == <<alive, known, sticky, failed, forgot>>
vars     == <<tables, cache, flight, result, identity, bounds, seenVars,
              pc, listed, cancelled>>

Query == Requests \cup Past

(* The handler steps, in the order of Route and of the proxy handlers.     *)
Running  == {"recover", "lookup", "signal", "delete", "await", "list",
             "probe", "cache", "external", "first", "forward", "write",
             "insert"}
(* "error" is a 400, 500 or 502 answered after a backend was chosen.       *)
Finished == {"answered", "nobackend", "error", "crashed"}
Steps    == {"idle"} \cup Running \cup Finished

Active == {b \in Backends : active[b]}

Goto(r, step) == pc' = [pc EXCEPT ![r] = step]

(* A database call of r fails when its context is done, and may fail       *)
(* whenever the database does.                                             *)
DBFails(r) == cancelled[r] \/ DBMayFail
DBWorks(r) == ~cancelled[r]
NoteFailure(r) == failed' = [failed EXCEPT ![r] = TRUE]

-----------------------------------------------------------------------------
(* The query cache: an LRU map.  lru lists the cached queries, the least   *)
(* recently used first.                                                    *)

Without(s, i) == [j \in 1 .. Len(s) - 1 |-> IF j < i THEN s[j] ELSE s[j + 1]]

Touch(s, q) ==
    Append(IF \E i \in 1 .. Len(s) : s[i] = q
           THEN Without(s, CHOOSE i \in 1 .. Len(s) : s[i] = q) ELSE s, q)

CacheGet(g, q) ==
    /\ lru' = [lru EXCEPT ![g] = Touch(@, q)]
    /\ UNCHANGED cached

(* Slip: a full cache keeps its oldest entry as well.                      *)
CacheSetUnbounded(g, q, b) ==
    /\ cached' = [cached EXCEPT ![g][q] = b]
    /\ lru' = [lru EXCEPT ![g] = Touch(@, q)]
    /\ UNCHANGED forgot

(* queryCache.set: a new entry pushes the least recently used one out of a *)
(* full cache.                                                             *)
CacheSet(g, q, b) ==
    LET full == cached[g][q] = None /\ Len(lru[g]) = CacheSize
        old  == Head(lru[g])
        keep == IF full THEN [cached[g] EXCEPT ![old] = None] ELSE cached[g]
    IN /\ cached' = [cached EXCEPT ![g] = [keep EXCEPT ![q] = b]]
       /\ lru' = [lru EXCEPT ![g] = IF full THEN Append(Tail(@), q)
                                            ELSE Touch(@, q)]
       /\ forgot' = [forgot EXCEPT ![g] = IF full THEN @ \cup {old} ELSE @]

-----------------------------------------------------------------------------
Init ==
    /\ rowGroup \in [Backends -> Groups]
    /\ active = [b \in Backends |-> TRUE]
    /\ owner \in [Query -> Backends \cup {None}]
    /\ \A q \in Query : owner[q] = None <=> q \in Requests
    /\ history \in [Query -> Backends \cup {None}]
    /\ \A q \in Query : history[q] \in {None, owner[q]}
    /\ cached = [g \in Gateways |-> [q \in Query |-> None]]
    /\ lru = [g \in Gateways |-> << >>]
    /\ inflight = [g \in Gateways |-> [q \in Query |-> None]]
    /\ pc = [r \in Requests |-> "idle"]
    /\ kind = [r \in Requests |-> None]
    /\ gw \in [Requests -> Gateways]
    /\ target = [r \in Requests |-> None]
    /\ call = [r \in Requests |-> None]
    /\ val = [r \in Requests |-> None]
    /\ signalled = [r \in Requests |-> FALSE]
    /\ listed = [r \in Requests |-> {}]
    /\ choice = [r \in Requests |-> None]
    /\ outcome = [r \in Requests |-> None]
    /\ cancelled = [r \in Requests |-> FALSE]
    /\ adminOps = 0 /\ restarts = 0 /\ cancels = 0
    /\ alive = [r \in Requests |-> {}]
    /\ known = [r \in Requests |-> FALSE]
    /\ sticky = [r \in Requests |-> FALSE]
    /\ failed = [r \in Requests |-> FALSE]
    /\ forgot = [g \in Gateways |-> {}]

-----------------------------------------------------------------------------
(* Arrival.  A client polls or kills a query that exists.                  *)

Admit(r, k, q, step) ==
    /\ pc[r] = "idle" /\ k \in Kinds
    /\ Goto(r, step)
    /\ kind' = [kind EXCEPT ![r] = k]
    /\ target' = [target EXCEPT ![r] = q]
    /\ alive' = [alive EXCEPT ![r] = Active]
    /\ UNCHANGED <<tables, cache, flight, result, bounds, gw, listed,
                   cancelled, failed, forgot>>

(* POST /v1/statement with an ordinary statement, and any other path than  *)
(* /v1/query/<id>: Route starts at the external router.                    *)
Submit(r) ==
    /\ \E k \in {"submit", "other"} : Admit(r, k, None, "external")
    /\ UNCHANGED <<known, sticky>>

(* POST /v1/statement with KILL QUERY: Route starts with the recovery      *)
(* chain.  GET /v1/query/<id>: Route starts at the cache.                  *)
Ask(r, q) ==
    /\ owner[q] # None
    /\ \/ Admit(r, "kill", q, "recover")
       \/ Admit(r, "poll", q, "cache")
    /\ known' = [known EXCEPT ![r] = history[q] # None]
    /\ sticky' = [sticky EXCEPT ![r] =
                     q \in Requests /\ pc[q] = "answered" /\ gw[q] = gw[r]]

-----------------------------------------------------------------------------
(* Route, step 2: the cache.                                               *)

Decide(r, b, how) ==
    /\ choice' = [choice EXCEPT ![r] = b]
    /\ outcome' = [outcome EXCEPT ![r] = how]
    /\ Goto(r, "forward")

CacheLookup(r) ==
    LET g == gw[r]
        q == target[r]
    IN /\ pc[r] = "cache"
       /\ \/ /\ cached[g][q] # None
             /\ CacheGet(g, q)
             /\ Decide(r, cached[g][q], "ok")
          \/ /\ cached[g][q] = None
             /\ Goto(r, "external")
             /\ UNCHANGED <<cache, choice, outcome>>
       /\ UNCHANGED <<tables, flight, identity, bounds, seenVars,
                      listed, cancelled>>

(* Route, steps 3 and 4: the external router names a group; when it names  *)
(* none, or both transports fail, the default group is used.  Then the     *)
(* first active backend of the group, in whatever order the database lists *)
(* them.  When there is none, or the read fails, a poll goes on to the     *)
(* recovery chain and any other request to the first active backend.       *)
ResolveGroup(r) ==
    /\ pc[r] = "external"
    /\ \E answer \in IF cancelled[r] THEN {None} ELSE Groups \cup {None} :
         LET group == IF answer = None THEN DefaultGroup ELSE answer
             how == IF answer = None THEN "fallback" ELSE "ok"
             InGroup == {b \in Active : rowGroup[b] = group}
             Otherwise ==
                 /\ Goto(r, IF kind[r] = "poll" THEN "recover" ELSE "first")
                 /\ outcome' = [outcome EXCEPT ![r] = how]
                 /\ UNCHANGED choice
         IN \/ /\ DBWorks(r)
               /\ \/ \E b \in InGroup : Decide(r, b, how)
                  \/ InGroup = {} /\ Otherwise
               /\ UNCHANGED failed
            \/ DBFails(r) /\ Otherwise /\ NoteFailure(r)
    /\ UNCHANGED <<tables, cache, flight, identity, bounds, alive, known,
                   sticky, forgot, listed, cancelled>>

(* Slip: the last resort looks in the default group again.                 *)
FirstDefaultBackend(r) ==
    /\ pc[r] = "first"
    /\ \/ \E b \in Active : /\ rowGroup[b] = DefaultGroup
                            /\ Decide(r, b, "fallback")
       \/ /\ \A b \in Active : rowGroup[b] # DefaultGroup
          /\ Goto(r, "nobackend")
          /\ UNCHANGED result
    /\ UNCHANGED <<tables, cache, flight, identity, bounds, seenVars, listed,
                   cancelled>>

(* Route, last resort: the first active backend of any group; without one  *)
(* the handler answers 502 "no backend available".                         *)
FirstActiveBackend(r) ==
    /\ pc[r] = "first"
    /\ \/ /\ DBWorks(r)
          /\ \/ \E b \in Active : Decide(r, b, "fallback")
             \/ /\ Active = {}
                /\ Goto(r, "nobackend")
                /\ UNCHANGED result
          /\ UNCHANGED failed
       \/ /\ DBFails(r)
          /\ Goto(r, "nobackend")
          /\ NoteFailure(r)
          /\ UNCHANGED result
    /\ UNCHANGED <<tables, cache, flight, identity, bounds, alive,
                   known, sticky, forgot, listed, cancelled>>

-----------------------------------------------------------------------------
(* The recovery chain.  Step 1: look the query up in the history, the      *)
(* concurrent lookups of one query on one replica coalesced by             *)
(* singleFlightGroup.do.                                                   *)

(* Slip: the leader does not register its call.                            *)
FlightEnterUnregistered(r) ==
    /\ pc[r] = "recover"
    /\ call' = [call EXCEPT ![r] = r]
    /\ Goto(r, "lookup")
    /\ UNCHANGED <<tables, cache, result, identity, bounds, seenVars, inflight,
                   val, signalled, listed, cancelled>>

(* do, under the mutex: join the call in flight, or become its leader.     *)
FlightEnter(r) ==
    LET g == gw[r]
        q == target[r]
    IN /\ pc[r] = "recover"
       /\ \/ /\ inflight[g][q] # None
             /\ call' = [call EXCEPT ![r] = inflight[g][q]]
             /\ Goto(r, "await")
             /\ UNCHANGED inflight
          \/ /\ inflight[g][q] = None
             /\ inflight' = [inflight EXCEPT ![g][q] = r]
             /\ call' = [call EXCEPT ![r] = r]
             /\ Goto(r, "lookup")
       /\ UNCHANGED <<tables, cache, result, identity, bounds, seenVars, val,
                      signalled, listed, cancelled>>

(* Slip: a failed lookup returns without wg.Done.                          *)
FlightLookupNoDone(r) ==
    /\ pc[r] = "lookup"
    /\ \/ /\ DBWorks(r)
          /\ val' = [val EXCEPT ![r] = history[target[r]]]
          /\ Goto(r, "signal")
          /\ UNCHANGED failed
       \/ DBFails(r) /\ NoteFailure(r) /\ Goto(r, "delete") /\ UNCHANGED val
    /\ UNCHANGED <<tables, cache, result, identity, bounds, alive, known,
                   sticky, forgot, inflight, call, signalled, listed,
                   cancelled>>

(* fn, run by the leader under its own context: LookupByQueryID.           *)
FlightLookup(r) ==
    /\ pc[r] = "lookup"
    /\ \/ /\ DBWorks(r)
          /\ val' = [val EXCEPT ![r] = history[target[r]]]
          /\ UNCHANGED failed
       \/ DBFails(r) /\ NoteFailure(r) /\ UNCHANGED val
    /\ Goto(r, "signal")
    /\ UNCHANGED <<tables, cache, result, identity, bounds, alive, known,
                   sticky, forgot, inflight, call, signalled, listed,
                   cancelled>>

FlightDone(r) ==
    /\ pc[r] = "signal"
    /\ signalled' = [signalled EXCEPT ![r] = TRUE]
    /\ Goto(r, "delete")
    /\ UNCHANGED <<tables, cache, result, identity, bounds, seenVars,
                   inflight, call, val, listed, cancelled>>

(* A chain that finds a backend decides the route; one that does not lets  *)
(* a KILL QUERY continue with step 2 of Route and a poll with its last     *)
(* resort.                                                                 *)
Recovered(r, b) ==
    Decide(r, b, IF kind[r] = "kill" THEN "kill_query" ELSE "fallback")
NotRecovered(r) ==
    /\ Goto(r, IF kind[r] = "kill" THEN "external" ELSE "first")
    /\ UNCHANGED result

(* do returns url: a hit ends the chain.                                   *)
FlightReturn(r, url) ==
    /\ \/ url # None /\ Recovered(r, url)
       \/ url = None /\ Goto(r, "list") /\ UNCHANGED result
    /\ UNCHANGED <<tables, cache, identity, bounds, seenVars, call, val,
                   signalled, listed, cancelled>>

(* Slip: the leader returns "" instead of the value of its call.           *)
FlightDeleteEmpty(r) ==
    /\ pc[r] = "delete"
    /\ inflight' = [inflight EXCEPT ![gw[r]][target[r]] = None]
    /\ FlightReturn(r, None)

FlightDelete(r) ==
    /\ pc[r] = "delete"
    /\ inflight' = [inflight EXCEPT ![gw[r]][target[r]] = None]
    /\ FlightReturn(r, val[r])

(* wg.Wait, which the follower's own context does not interrupt.           *)
FlightAwait(r) ==
    /\ pc[r] = "await"
    /\ signalled[call[r]]
    /\ UNCHANGED inflight
    /\ FlightReturn(r, val[call[r]])

(* Step 2: the active backends, read once for the probes and the default.  *)
RecoverList(r) ==
    /\ pc[r] = "list"
    /\ \/ /\ DBWorks(r)
          /\ listed' = [listed EXCEPT ![r] = Active]
          /\ \/ Active # {} /\ Goto(r, "probe") /\ UNCHANGED result
             \/ Active = {} /\ NotRecovered(r)
          /\ UNCHANGED failed
       \/ DBFails(r) /\ NotRecovered(r) /\ NoteFailure(r) /\ UNCHANGED listed
    /\ UNCHANGED <<tables, cache, flight, identity, bounds, alive,
                   known, sticky, forgot, cancelled>>

(* Steps 2 and 3: the HEAD probes find the owner if it is listed and       *)
(* answers 200 within the timeout; otherwise the first listed backend.     *)
HeadProbe(r) ==
    /\ pc[r] = "probe"
    /\ \/ /\ ~cancelled[r] /\ owner[target[r]] \in listed[r]
          /\ Recovered(r, owner[target[r]])
       \/ \E b \in listed[r] : Recovered(r, b)
    /\ listed' = [listed EXCEPT ![r] = {}]
    /\ UNCHANGED <<tables, cache, flight, identity, bounds, seenVars,
                   cancelled>>

-----------------------------------------------------------------------------
(* Forwarding: the rest of handleStatement and of handleStream.            *)

ForwardFrame == UNCHANGED <<rowGroup, active, history, cache, flight, result,
                            identity, bounds, seenVars, listed, cancelled>>

(* Proxy.PropagateErrors: the errors of the external router are returned   *)
(* for a statement instead of forwarding it.                               *)
PropagateErrors(r) ==
    /\ pc[r] = "forward" /\ kind[r] \in {"submit", "kill"}
    /\ outcome[r] # "kill_query"
    /\ Goto(r, "error")
    /\ UNCHANGED owner
    /\ ForwardFrame

(* Slip: the statement is answered without going through the cache write.  *)
UpstreamStatementUncached(r) ==
    /\ pc[r] = "forward" /\ kind[r] \in {"submit", "kill"} /\ ~cancelled[r]
    /\ owner' = [owner EXCEPT ![r] = choice[r]]
    /\ Goto(r, "insert")
    /\ ForwardFrame

(* A statement that reaches its backend starts a query there.  The answer  *)
(* may still be lost, cut short or larger than the configured limit.       *)
UpstreamStatement(r) ==
    /\ pc[r] = "forward" /\ kind[r] \in {"submit", "kill"} /\ ~cancelled[r]
    /\ owner' = [owner EXCEPT ![r] = choice[r]]
    /\ \E step \in {"write", "error"} : Goto(r, step)
    /\ ForwardFrame

(* applyCookies refuses a tampered gateway cookie with 500; otherwise the  *)
(* answer is written to the client.                                        *)
Respond(r) == \E step \in {"answered", "error"} : Goto(r, step)

(* An answer that carries no query id, or the answer to another path.      *)
UpstreamOther(r) ==
    /\ pc[r] = "forward" /\ ~cancelled[r]
    /\ Respond(r)
    /\ UNCHANGED owner
    /\ ForwardFrame

UpstreamError(r) ==
    /\ pc[r] = "forward"
    /\ Goto(r, "error")
    /\ UNCHANGED owner
    /\ ForwardFrame

(* Slip: the id is taken from the KILL QUERY text, not from the answer.    *)
WriteCacheTarget(r) ==
    /\ pc[r] = "write"
    /\ CacheSet(gw[r], IF kind[r] = "kill" THEN target[r] ELSE r, choice[r])
    /\ Goto(r, "insert")
    /\ UNCHANGED <<tables, flight, result, identity, bounds, alive, known,
                   sticky, failed, listed, cancelled>>

(* WriteCache, before anything is written to the client.                   *)
WriteCache(r) ==
    /\ pc[r] = "write"
    /\ CacheSet(gw[r], r, choice[r])
    /\ Goto(r, "insert")
    /\ UNCHANGED <<tables, flight, result, identity, bounds, alive, known,
                   sticky, failed, listed, cancelled>>

(* history.Insert under the request's context; a row already there stays   *)
(* and an error is only logged.  Then the answer is written.               *)
HistoryInsert(r) ==
    /\ pc[r] = "insert"
    /\ \/ /\ DBWorks(r)
          /\ history' = [history EXCEPT ![r] = IF @ = None THEN choice[r] ELSE @]
          /\ UNCHANGED failed
       \/ DBFails(r) /\ NoteFailure(r) /\ UNCHANGED history
    /\ Respond(r)
    /\ UNCHANGED <<rowGroup, active, owner, cache, flight, result, identity,
                   bounds, alive, known, sticky, forgot, listed, cancelled>>

-----------------------------------------------------------------------------
(* The environment: clients that go away, the administrator, crashes.      *)

ClientGone(r) ==
    /\ pc[r] \in Running /\ ~cancelled[r] /\ cancels < MaxCancels
    /\ cancelled' = [cancelled EXCEPT ![r] = TRUE]
    /\ cancels' = cancels + 1
    /\ UNCHANGED <<tables, cache, flight, result, identity, seenVars, pc,
                   listed, adminOps, restarts>>

(* addBackend, updateBackend, upsertEntity and the web UI's save: Upsert.  *)
(* activateBackend and deactivateBackend: SetActive.  deleteBackend.       *)
EditBackend(b, grp, act) ==
    /\ adminOps < MaxAdminOps
    /\ adminOps' = adminOps + 1
    /\ rowGroup' = [rowGroup EXCEPT ![b] = grp]
    /\ active' = [active EXCEPT ![b] = act]
    /\ alive' = [r \in Requests |-> IF act THEN alive[r] ELSE alive[r] \ {b}]
    /\ UNCHANGED <<history, owner, cache, flight, result, identity, restarts,
                   cancels, known, sticky, failed, forgot, pc, listed,
                   cancelled>>

Upsert(b) == \E grp \in Groups, act \in BOOLEAN : EditBackend(b, grp, act)
SetActive(b) ==
    rowGroup[b] # None /\ EditBackend(b, rowGroup[b], ~active[b])
Delete(b) == rowGroup[b] # None /\ EditBackend(b, None, FALSE)

(* A replica dies and restarts with an empty cache and no requests.        *)
Restart(g) ==
    /\ restarts < MaxRestarts
    /\ restarts' = restarts + 1
    /\ cached' = [cached EXCEPT ![g] = [q \in Query |-> None]]
    /\ lru' = [lru EXCEPT ![g] = << >>]
    /\ inflight' = [inflight EXCEPT ![g] = [q \in Query |-> None]]
    /\ forgot' = [forgot EXCEPT ![g] =
                     @ \cup {q \in Query : cached[g][q] # None}]
    /\ pc' = [r \in Requests |-> IF gw[r] = g /\ pc[r] \in Running
                                 THEN "crashed" ELSE pc[r]]
    /\ UNCHANGED <<tables, result, identity, adminOps, cancels, alive, known,
                   sticky, failed, call, val, signalled, listed, cancelled>>

Step(r) ==
    \/ CacheLookup(r) \/ ResolveGroup(r) \/ FirstActiveBackend(r)
    \/ FlightEnter(r) \/ FlightLookup(r) \/ FlightDone(r) \/ FlightDelete(r)
    \/ FlightAwait(r) \/ RecoverList(r) \/ HeadProbe(r)
    \/ PropagateErrors(r) \/ UpstreamStatement(r) \/ UpstreamOther(r)
    \/ UpstreamError(r) \/ WriteCache(r) \/ HistoryInsert(r)

Next ==
    \/ \E r \in Requests : Submit(r) \/ Step(r) \/ ClientGone(r)
    \/ \E r \in Requests, q \in Query : Ask(r, q)
    \/ \E b \in Backends : Upsert(b) \/ SetActive(b) \/ Delete(b)
    \/ \E g \in Gateways : Restart(g)

Spec == Init /\ [][Next]_vars

(* Every handler goroutine keeps running; every call it waits for returns  *)
(* or times out.  Nothing is assumed of clients, administrators, crashes.  *)
FairSpec == Spec /\ \A r \in Requests : WF_vars(Step(r))

-----------------------------------------------------------------------------
TablesOK ==
    /\ rowGroup \in [Backends -> Groups \cup {None}]
    /\ active \in [Backends -> BOOLEAN]
    /\ history \in [Query -> Backends \cup {None}]
    /\ owner \in [Query -> Backends \cup {None}]
CacheOK ==
    /\ cached \in [Gateways -> [Query -> Backends \cup {None}]]
    /\ lru \in [Gateways -> Seq(Query)]
    /\ forgot \in [Gateways -> SUBSET Query]
FlightOK ==
    /\ inflight \in [Gateways -> [Query -> Requests \cup {None}]]
    /\ call \in [Requests -> Requests \cup {None}]
    /\ val \in [Requests -> Backends \cup {None}]
    /\ signalled \in [Requests -> BOOLEAN]
RequestOK ==
    /\ pc \in [Requests -> Steps]
    /\ kind \in [Requests -> Kinds \cup {None}]
    /\ gw \in [Requests -> Gateways]
    /\ target \in [Requests -> Query \cup {None}]
    /\ cancelled \in [Requests -> BOOLEAN]
ResultOK ==
    /\ listed \in [Requests -> SUBSET Backends]
    /\ choice \in [Requests -> Backends \cup {None}]
    /\ outcome \in [Requests -> {None, "ok", "fallback", "kill_query"}]
BoundsOK ==
    /\ adminOps \in 0..MaxAdminOps
    /\ restarts \in 0..MaxRestarts
    /\ cancels \in 0..MaxCancels
SeenOK ==
    /\ alive \in [Requests -> SUBSET Backends]
    /\ known \in [Requests -> BOOLEAN]
    /\ sticky \in [Requests -> BOOLEAN]
    /\ failed \in [Requests -> BOOLEAN]
(* Every variable has its type; in particular a request only ever chooses  *)
(* a backend that has a URL.                                               *)
TypeOK == /\ TablesOK /\ CacheOK /\ FlightOK /\ RequestOK /\ ResultOK
          /\ BoundsOK /\ SeenOK

(* Whatever requests run concurrently, and whatever is evicted, lost in a  *)
(* crash or left out by a failed insert, no replica's cache and no history *)
(* row ever names another backend than the one that runs the query.        *)
RecordsNameOwner ==
    \A q \in Query :
        /\ history[q] \in {None, owner[q]}
        /\ \A g \in Gateways : cached[g][q] \in {None, owner[q]}

(* Hard Invariant 3 (WriteCache before the response is flushed): a client  *)
(* that has received the answer to its statement and polls /v1/query/<id>  *)
(* at the same replica is forwarded to the backend that runs the query,    *)
(* even if that backend has been deactivated or deleted meanwhile, as long *)
(* as the replica has neither evicted the entry nor restarted.             *)
PollIsSticky ==
    \A r \in Requests :
        /\ kind[r] = "poll" /\ choice[r] # None
        /\ sticky[r] /\ target[r] \notin forgot[gw[r]]
        => choice[r] = owner[target[r]]

(* The bounded LRU cache never holds more than CacheSize entries, and its  *)
(* use order lists exactly the cached queries, each once.                  *)
CacheConsistent ==
    \A g \in Gateways :
        LET places == 1 .. Len(lru[g])
        IN /\ Len(lru[g]) <= CacheSize
           /\ \A i, j \in places : lru[g][i] = lru[g][j] => i = j
           /\ \A q \in Query : cached[g][q] # None
                                <=> \E i \in places : lru[g][i] = q

(* singleFlightGroup.do: concurrent recoveries of one query on one replica *)
(* never have two history lookups running.                                 *)
OneLookupPerQuery ==
    \A r, s \in Requests :
        pc[r] = "lookup" /\ pc[s] = "lookup" /\ gw[r] = gw[s]
        /\ target[r] = target[s] => r = s

(* A request that runs its own history lookup, without a database error,   *)
(* for a query whose row was there when it arrived, goes to the backend    *)
(* that runs the query.                                                    *)
LeaderFollowsHistory ==
    \A r \in Requests :
        known[r] /\ call[r] = r /\ ~failed[r] /\ choice[r] # None
        => choice[r] = owner[target[r]]

(* 502 "no backend available" is answered only if the request's own        *)
(* database calls failed, or no backend stayed active since it arrived:    *)
(* the several reads of the backend table that Route makes, with edits     *)
(* between them, do not miss a backend that was active throughout.         *)
NoSpurious502 ==
    \A r \in Requests :
        pc[r] = "nobackend" => failed[r] \/ alive[r] = {}

(* Every request is eventually answered or dies with its replica; in       *)
(* particular no follower waits forever for the leader of its call.        *)
EveryRequestFinishes ==
    \A r \in Requests : pc[r] \in Running ~> pc[r] \in Finished

(* docs/USE_STORIES.md 1.3: the query of a KILL QUERY is looked up in the  *)
(* history and on a hit the statement is forwarded to that backend.  Here  *)
(* for a statement whose own database calls do not fail, when the row was  *)
(* written before it and before the leader of its lookup arrived.          *)
KillFollowsHistory ==
    \A r \in Requests :
        /\ kind[r] = "kill" /\ choice[r] # None
        /\ known[r] /\ known[call[r]] /\ ~failed[r]
        => choice[r] = owner[target[r]]

(* docs/USE_STORIES.md 1.4: a poll that misses the cache and that the      *)
(* external router does not answer runs the recovery chain, which starts   *)
(* with the history; so it reaches the backend the history names.          *)
MissFollowsHistory ==
    \A r \in Requests :
        /\ kind[r] = "poll" /\ outcome[r] = "fallback"
        /\ known[r] /\ ~failed[r] /\ choice[r] # None
        => choice[r] = owner[target[r]]
=============================================================================
