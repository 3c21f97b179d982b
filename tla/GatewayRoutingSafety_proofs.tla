------------------- MODULE GatewayRoutingSafety_proofs -------------------
(***************************************************************************)
(* Proofs of the safety properties of GatewayRouting.  None is inductive   *)
(* by itself.  The inductive invariant is built in layers on the type      *)
(* invariant: FlightInv (the singleflight map), TruthInv (what is recorded *)
(* is true), StickyInv (what an answered statement leaves in the cache),   *)
(* LeaderInv (what the leader of a lookup carries) and AliveInv (which     *)
(* backends a request may count on).  Each layer has a lemma that every    *)
(* step preserves it, given the layers it rests on: a step of one request  *)
(* for the others (which it does not change) and for the request itself, a *)
(* step aside, and a crash.                                                *)
(***************************************************************************)
EXTENDS GatewayRouting_proofs

(* How long the provers may try a step that names none.                    *)
USE SMTT(15), ZenonT(20)

-----------------------------------------------------------------------------
(* The singleflight map. A request that leads a call is registered for its *)
(* replica and its query; whatever is registered is such a leader; and a   *)
(* follower's call belongs to an admitted request for the same query.      *)
Leading == {"lookup", "signal", "delete"}
FlightOf(r) ==
    /\ pc[r] \in Leading => inflight[gw[r]][target[r]] = r
    /\ pc[r] = "await" => pc[call[r]] # "idle" /\ target[call[r]] = target[r]
Registered(g, q) ==
    inflight[g][q] # None => /\ pc[inflight[g][q]] \in Leading
                             /\ gw[inflight[g][q]] = g
                             /\ target[inflight[g][q]] = q
FlightInv == /\ \A r \in Requests : FlightOf(r)
             /\ \A g \in Gateways, q \in Query : Registered(g, q)

(* Writing the owner of a query to a cache keeps the caches true.          *)
LEMMA CacheSetTrue ==
    ASSUME CacheOK, RecordsNameOwner, NEW g \in Gateways, NEW q \in Query,
           NEW b \in Backends, CacheSet(g, q, b), owner[q] = b,
           NEW h \in Gateways, NEW p \in Query
    PROVE  cached'[h][p] \in {None, owner[p]}
<1>1. /\ h = g /\ p = q => cached'[h][p] = b
      /\ ~(h = g /\ p = q) => cached'[h][p] \in {None, cached[h][p]}
  BY CacheSetValue
<1>2. cached[h][p] \in {None, owner[p]}
  BY Zenon DEF RecordsNameOwner
<1> QED BY <1>1, <1>2

(* The types the singleflight map needs.                                   *)
LEMMA FlightBasis ==
    ASSUME TypeInv
    PROVE  /\ None \notin Requests /\ None \notin Query
           /\ gw \in [Requests -> Gateways] /\ pc \in [Requests -> Steps]
           /\ inflight \in [Gateways -> [Query -> Requests \cup {None}]]
           /\ \A s \in Requests : pc[s] \in Asking => target[s] \in Query
           /\ \A s \in Requests : pc[s] = "await" => call[s] \in Requests
<1>1. None \notin Requests /\ None \notin Query
  BY RoutingAssumption DEF Query
<1>2. /\ gw \in [Requests -> Gateways] /\ pc \in [Requests -> Steps]
      /\ inflight \in [Gateways -> [Query -> Requests \cup {None}]]
  BY Zenon DEF TypeInv, TypeOK, RequestOK, FlightOK
<1>3. /\ \A s \in Requests : pc[s] \in Asking => target[s] \in Query
      /\ \A s \in Requests : pc[s] = "await" => call[s] \in Requests
  BY Zenon DEF TypeInv, PathOK
<1> QED BY <1>1, <1>2, <1>3

(* A step that neither begins nor ends a lead and joins no call leaves the *)
(* map right.                                                              *)
LEMMA FlightQuiet ==
    ASSUME TypeInv, FlightInv, NEW r \in Requests, OthersKeep(r),
           pc[r] # "idle", pc'[r] \notin {"idle", "await"},
           pc[r] \in Leading <=> pc'[r] \in Leading,
           call' = call, inflight' = inflight, gw' = gw, target' = target
    PROVE  FlightInv'
<1>1. \A s \in Requests : s # r => pc'[s] = pc[s]
  BY Zenon DEF OthersKeep
<1>2. ASSUME NEW s \in Requests PROVE FlightOf(s)'
  BY <1>1, FlightBasis DEF FlightInv, FlightOf
<1>3. ASSUME NEW g \in Gateways, NEW q \in Query PROVE Registered(g, q)'
  BY <1>1, FlightBasis DEF FlightInv, Registered
<1> QED BY <1>2, <1>3 DEF FlightInv

(* So does the arrival of a request: nobody waits for it yet.              *)
LEMMA FlightArrive ==
    ASSUME TypeInv, FlightInv, NEW r \in Requests, OthersKeep(r),
           pc[r] = "idle", pc'[r] \in {"external", "recover", "cache"},
           call' = call, inflight' = inflight, gw' = gw
    PROVE  FlightInv'
<1>1. \A s \in Requests : s # r => pc'[s] = pc[s] /\ target'[s] = target[s]
  BY Zenon DEF OthersKeep
<1>2. ASSUME NEW s \in Requests PROVE FlightOf(s)'
  <2>1. CASE s = r BY <2>1 DEF FlightOf, Leading
  <2>2. CASE s # r
    <3>1. /\ pc[s] \in Leading => inflight[gw[s]][target[s]] = s
          /\ pc[s] = "await" => /\ call[s] \in Requests \ {r}
                               /\ pc[call[s]] # "idle"
                               /\ target[call[s]] = target[s]
      BY FlightBasis DEF FlightInv, FlightOf
    <3> QED BY <1>1, <2>2, <3>1 DEF FlightOf
  <2> QED BY <2>1, <2>2
<1>3. ASSUME NEW g \in Gateways, NEW q \in Query PROVE Registered(g, q)'
  BY <1>1, FlightBasis DEF FlightInv, Registered, Leading
<1> QED BY <1>2, <1>3 DEF FlightInv

(* The step of do under the mutex joins the registered call or registers.  *)
LEMMA FlightEnters ==
    ASSUME TypeInv, FlightInv, NEW r \in Requests, OthersKeep(r), FlightEnter(r)
    PROVE  FlightInv'
<1> DEFINE g == gw[r]
           q == target[r]
<1>1. /\ pc[r] = "recover" /\ gw' = gw /\ target' = target
      /\ g \in Gateways /\ q \in Query
  BY FlightBasis DEF FlightEnter, identity, Asking
<1>2. \A s \in Requests : s # r => pc'[s] = pc[s] /\ call'[s] = call[s]
  BY Zenon DEF OthersKeep
<1>3. CASE inflight[g][q] # None
  <2>1. pc'[r] = "await" /\ call'[r] = inflight[g][q] /\ inflight' = inflight
    <3>1. /\ call' = [call EXCEPT ![r] = inflight[g][q]]
          /\ pc' = [pc EXCEPT ![r] = "await"] /\ inflight' = inflight
      BY <1>3, Zenon DEF FlightEnter, Goto
    <3>2. call \in [Requests -> Requests \cup {None}]
      BY Zenon DEF TypeInv, TypeOK, FlightOK
    <3> QED BY <3>1, <3>2, FlightBasis
  <2>2. /\ call'[r] \in Requests /\ pc[call'[r]] \in Leading
        /\ target[call'[r]] = q
    BY <1>1, <1>3, <2>1, FlightBasis DEF FlightInv, Registered
  <2>3. call'[r] # r /\ pc'[call'[r]] # "idle"
    BY <1>1, <1>2, <2>2 DEF Leading
  <2>4. ASSUME NEW s \in Requests PROVE FlightOf(s)'
    <3>1. CASE s = r BY <1>1, <2>1, <2>2, <2>3, <3>1 DEF FlightOf, Leading
    <3>2. CASE s # r
      BY <1>1, <1>2, <2>1, <3>2, FlightBasis DEF FlightInv, FlightOf
    <3> QED BY <3>1, <3>2
  <2>5. ASSUME NEW h \in Gateways, NEW p \in Query PROVE Registered(h, p)'
    BY <1>1, <1>2, <2>1, FlightBasis DEF FlightInv, Registered, Leading
  <2> QED BY <2>4, <2>5 DEF FlightInv
<1>4. CASE inflight[g][q] = None
  <2>1. /\ inflight' = [inflight EXCEPT ![g][q] = r]
        /\ pc' = [pc EXCEPT ![r] = "lookup"]
    BY <1>4, Zenon DEF FlightEnter, Goto
  <2>2. /\ pc'[r] = "lookup" /\ inflight'[g][q] = r
        /\ \A h \in Gateways, p \in Query :
              h # g \/ p # q => inflight'[h][p] = inflight[h][p]
    BY <1>1, <2>1, FlightBasis
  <2>3. ASSUME NEW s \in Requests PROVE FlightOf(s)'
    <3>1. CASE s = r BY <1>1, <2>2, <3>1 DEF FlightOf
    <3>2. CASE s # r
      <4>1. /\ pc'[s] = pc[s] /\ call'[s] = call[s]
            /\ pc[s] \in Leading => /\ inflight[gw[s]][target[s]] = s
                                    /\ target[s] \in Query
        BY <1>2, <3>2, FlightBasis DEF FlightInv, FlightOf, Leading, Asking
      <4>2. pc[s] \in Leading => inflight'[gw[s]][target[s]] = s
        BY <1>1, <1>4, <2>2, <4>1, FlightBasis
      <4>3. pc[s] = "await" => /\ pc'[call[s]] # "idle"
                               /\ target[call[s]] = target[s]
        BY <1>2, <2>2, FlightBasis DEF FlightInv, FlightOf
      <4> QED BY <1>1, <4>1, <4>2, <4>3 DEF FlightOf
    <3> QED BY <3>1, <3>2
  <2>4. ASSUME NEW h \in Gateways, NEW p \in Query PROVE Registered(h, p)'
    <3>1. CASE h = g /\ p = q
      BY <1>1, <2>2, <3>1 DEF Registered, Leading
    <3>2. CASE ~(h = g /\ p = q)
      BY <1>1, <1>2, <2>2, <3>2, FlightBasis DEF FlightInv, Registered, Leading
    <3> QED BY <3>1, <3>2
  <2> QED BY <2>3, <2>4 DEF FlightInv
<1> QED BY <1>3, <1>4

(* The leader that leaves takes its own registration with it.              *)
LEMMA FlightLeaves ==
    ASSUME TypeInv, FlightInv, NEW r \in Requests, OthersKeep(r),
           FlightDelete(r)
    PROVE  FlightInv'
<1> DEFINE g == gw[r]
           q == target[r]
<1>1. /\ pc[r] = "delete" /\ gw' = gw /\ target' = target /\ call' = call
      /\ inflight' = [inflight EXCEPT ![g][q] = None]
  BY DEF FlightDelete, FlightReturn, identity
<1>2. pc'[r] \in {"forward", "list"}
  BY FlightBasis DEF FlightDelete, FlightReturn, Recovered, Decide, Goto
<1>3. \A s \in Requests : s # r => pc'[s] = pc[s]
  BY Zenon DEF OthersKeep
<1>4. g \in Gateways /\ q \in Query /\ inflight[g][q] = r
  BY <1>1, FlightBasis DEF FlightInv, FlightOf, Leading, Asking
<1>5. /\ inflight'[g][q] = None
      /\ \A h \in Gateways, p \in Query :
            h # g \/ p # q => inflight'[h][p] = inflight[h][p]
  BY <1>1, <1>4, FlightBasis
<1>6. ASSUME NEW s \in Requests PROVE FlightOf(s)'
  <2>1. CASE s = r BY <1>2, <2>1 DEF FlightOf, Leading
  <2>2. CASE s # r
    <3>1. /\ pc[s] \in Leading => /\ inflight[gw[s]][target[s]] = s
                                  /\ target[s] \in Query
          /\ pc[s] = "await" => /\ call[s] \in Requests
                               /\ pc[call[s]] # "idle"
                               /\ target[call[s]] = target[s]
      BY FlightBasis DEF FlightInv, FlightOf, Leading, Asking
    <3>2. pc[s] \in Leading => inflight'[gw[s]][target[s]] = s
      BY <1>4, <1>5, <2>2, <3>1, FlightBasis
    <3> QED BY <1>1, <1>2, <1>3, <2>2, <3>1, <3>2 DEF FlightOf
  <2> QED BY <2>1, <2>2
<1>7. ASSUME NEW h \in Gateways, NEW p \in Query PROVE Registered(h, p)'
  <2>1. CASE h = g /\ p = q BY <1>5, <2>1 DEF Registered
  <2>2. CASE ~(h = g /\ p = q)
    <3>1. inflight[h][p] # r \/ inflight[h][p] = None
      BY <2>2, <1>4 DEF FlightInv, Registered
    <3> QED BY <1>1, <1>3, <1>5, <2>2, <3>1, FlightBasis
            DEF FlightInv, Registered
  <2> QED BY <2>1, <2>2
<1> QED BY <1>6, <1>7 DEF FlightInv

(* A crash ends the requests of its replica and empties its map.           *)
LEMMA FlightRestart ==
    ASSUME TypeInv, FlightInv, NEW g \in Gateways, Restart(g) PROVE FlightInv'
<1>1. /\ inflight' = [inflight EXCEPT ![g] = [q \in Query |-> None]]
      /\ pc' = [r \in Requests |-> IF gw[r] = g /\ pc[r] \in Running
                                   THEN "crashed" ELSE pc[r]]
      /\ gw' = gw /\ target' = target /\ call' = call
  BY DEF Restart, identity
<1>2. /\ \A q \in Query : inflight'[g][q] = None
      /\ \A h \in Gateways : h # g => inflight'[h] = inflight[h]
  BY <1>1, FlightBasis
<1>3. \A s \in Requests : /\ pc'[s] \in {pc[s], "crashed"}
                          /\ gw[s] # g => pc'[s] = pc[s]
                          /\ gw[s] = g => pc'[s] \notin Leading \cup {"await"}
  BY <1>1 DEF Running, Leading
<1>4. ASSUME NEW s \in Requests PROVE FlightOf(s)'
  <2>1. CASE gw[s] = g BY <1>1, <1>3, <2>1 DEF FlightOf
  <2>2. CASE gw[s] # g
    BY <1>1, <1>2, <1>3, <2>2, FlightBasis DEF FlightInv, FlightOf
  <2> QED BY <2>1, <2>2
<1>5. ASSUME NEW h \in Gateways, NEW p \in Query PROVE Registered(h, p)'
  <2>1. CASE h = g BY <1>2, <2>1 DEF Registered
  <2>2. CASE h # g
    BY <1>1, <1>2, <1>3, <2>2, FlightBasis DEF FlightInv, Registered
  <2> QED BY <2>1, <2>2
<1> QED BY <1>4, <1>5 DEF FlightInv

(* The steps of Route around the singleflight, and all steps after Route,  *)
(* are quiet.                                                              *)
LEMMA QuietSteps ==
    ASSUME TypeInv, FlightInv, NEW r \in Requests, OthersKeep(r),
           \/ RouteStep(r) /\ ~FlightEnter(r) /\ ~FlightDelete(r)
           \/ ForwardStep(r)
    PROVE  FlightInv'
<1> DEFINE Quiet == /\ pc[r] # "idle" /\ pc'[r] \notin {"idle", "await"}
                    /\ pc[r] \in Leading <=> pc'[r] \in Leading
           Same == /\ call' = call /\ inflight' = inflight
                   /\ gw' = gw /\ target' = target
<1>1. pc \in [Requests -> Steps]
  BY FlightBasis
<1>2. CASE CacheLookup(r)
  <2>1. Quiet BY <1>1, <1>2 DEF CacheLookup, Decide, Goto, Leading
  <2>2. Same BY <1>2 DEF CacheLookup, flight, identity
  <2> QED BY <2>1, <2>2, FlightQuiet
<1>3. CASE ResolveGroup(r)
  <2>1. Quiet BY <1>1, <1>3 DEF ResolveGroup, Decide, Goto, Leading
  <2>2. Same BY <1>3 DEF ResolveGroup, flight, identity
  <2> QED BY <2>1, <2>2, FlightQuiet
<1>4. CASE FirstActiveBackend(r)
  <2>1. Quiet BY <1>1, <1>4 DEF FirstActiveBackend, Decide, Goto, Leading
  <2>2. Same BY <1>4 DEF FirstActiveBackend, flight, identity
  <2> QED BY <2>1, <2>2, FlightQuiet
<1>5. CASE FlightLookup(r)
  <2>1. Quiet BY <1>1, <1>5 DEF FlightLookup, Goto, Leading
  <2>2. Same BY <1>5 DEF FlightLookup, identity
  <2> QED BY <2>1, <2>2, FlightQuiet
<1>6. CASE FlightDone(r)
  <2>1. Quiet BY <1>1, <1>6 DEF FlightDone, Goto, Leading
  <2>2. Same BY <1>6 DEF FlightDone, identity
  <2> QED BY <2>1, <2>2, FlightQuiet
<1>7. CASE FlightAwait(r)
  <2>1. Quiet
    BY <1>1, <1>7 DEF FlightAwait, FlightReturn, Recovered, Decide, Goto, Leading
  <2>2. Same BY <1>7 DEF FlightAwait, FlightReturn, identity
  <2> QED BY <2>1, <2>2, FlightQuiet
<1>8. CASE RecoverList(r)
  <2>1. Quiet BY <1>1, <1>8 DEF RecoverList, NotRecovered, Goto, Leading
  <2>2. Same BY <1>8 DEF RecoverList, flight, identity
  <2> QED BY <2>1, <2>2, FlightQuiet
<1>9. CASE HeadProbe(r)
  <2>1. Quiet BY <1>1, <1>9 DEF HeadProbe, Recovered, Decide, Goto, Leading
  <2>2. Same BY <1>9 DEF HeadProbe, flight, identity
  <2> QED BY <2>1, <2>2, FlightQuiet
<1>10. CASE ForwardStep(r)
  <2>1. Quiet
    <3>1. Forwards(r) BY <1>10, ForwardSteps
    <3> QED BY <3>1 DEF Forwards, Leading
  <2>2. Same
    BY <1>10, Zenon DEF ForwardStep, PropagateErrors, UpstreamStatement,
         UpstreamOther, UpstreamError, WriteCache, HistoryInsert,
         ForwardFrame, flight, identity
  <2> QED BY <2>1, <2>2, FlightQuiet
<1> QED
  BY ZenonT(40), <1>2, <1>3, <1>4, <1>5, <1>6, <1>7, <1>8, <1>9, <1>10
     DEF RouteStep

(* Every step of the system keeps the singleflight map right.              *)
LEMMA FlightStep == TypeInv /\ FlightInv /\ [Next]_vars => FlightInv'
<1> SUFFICES ASSUME TypeInv, FlightInv, [Next]_vars PROVE FlightInv'
  OBVIOUS
<1>1. ASSUME NEW r \in Requests, Moves(r) PROVE FlightInv'
  <2>1. OthersKeep(r) BY <1>1, MovesKeepOthers
  <2>2. CASE Submit(r) \/ \E q \in Query : Ask(r, q)
    <3>1. \E step \in {"external", "recover", "cache"} :
             \E k, q : Admit(r, k, q, step)
      BY <2>2, Zenon DEF Submit, Ask
    <3>2. pc[r] = "idle" /\ pc'[r] \in {"external", "recover", "cache"}
      BY <3>1, FlightBasis DEF Admit, Goto
    <3>3. call' = call /\ inflight' = inflight /\ gw' = gw
      BY <3>1 DEF Admit, flight
    <3> QED BY <2>1, <3>2, <3>3, FlightArrive
  <2>3. CASE RouteStep(r)
    <3>1. CASE FlightEnter(r) BY <2>1, <3>1, FlightEnters
    <3>2. CASE FlightDelete(r) BY <2>1, <3>2, FlightLeaves
    <3>3. CASE ~FlightEnter(r) /\ ~FlightDelete(r)
      BY <2>1, <2>3, <3>3, QuietSteps
    <3> QED BY <3>1, <3>2, <3>3
  <2>4. CASE ForwardStep(r) BY <2>1, <2>4, QuietSteps
  <2> QED BY <1>1, <2>2, <2>3, <2>4, MoveCases, Zenon
<1>2. CASE Aside
  <2>1. UNCHANGED <<pc, gw, target, call, inflight>>
    BY <1>2, AsideKeeps
  <2> QED BY <2>1 DEF FlightInv, FlightOf, Registered
<1>3. CASE \E g \in Gateways : Restart(g)
  BY <1>3, FlightRestart
<1> QED BY <1>1, <1>2, <1>3, NextCases

-----------------------------------------------------------------------------
(* What is recorded is true. Until its statement has reached a backend a   *)
(* request has no query; from then on its choice is the owner; a query     *)
(* someone asks for exists; and the value of a call is the owner of its    *)
(* query.                                                                  *)
TruthOf(r) ==
    /\ pc[r] \in Before => owner[r] = None
    /\ pc[r] \in {"write", "insert"} => owner[r] = choice[r]
    /\ pc[r] = "idle" => val[r] = None
    /\ target[r] \in Query => owner[target[r]] # None
    /\ val[r] # None => target[r] \in Query /\ val[r] = owner[target[r]]
TruthInv == (\A r \in Requests : TruthOf(r)) /\ RecordsNameOwner

(* A query that exists keeps its owner: only a statement that has none yet *)
(* is given one.                                                           *)
LEMMA OwnersStay ==
    ASSUME TypeInv, TruthInv, NEW r \in Requests, Moves(r),
           NEW q \in Query, owner[q] # None
    PROVE  owner'[q] = owner[q]
<1>1. CASE UpstreamStatement(r)
  <2>1. owner[r] = None
    BY <1>1 DEF UpstreamStatement, TruthInv, TruthOf, Before
  <2>2. TablesKeep(r)
    BY MovesKeepTables
  <2> QED BY <2>1, <2>2 DEF TablesKeep
<1>2. CASE ~UpstreamStatement(r)
  <2>1. owner' = owner
    BY <1>2, Zenon DEF Moves, Step, Submit, Ask, Admit, CacheLookup,
         ResolveGroup, FirstActiveBackend, FlightEnter, FlightLookup,
         FlightDone, FlightDelete, FlightAwait, FlightReturn, RecoverList,
         HeadProbe, PropagateErrors, UpstreamOther, UpstreamError,
         WriteCache, HistoryInsert, ForwardFrame, tables
  <2> QED BY <2>1
<1> QED BY <1>1, <1>2

(* A step of one request leaves true what the others are about to record.  *)
LEMMA TruthOthers ==
    ASSUME TypeInv, TruthInv, NEW r \in Requests, Moves(r),
           NEW s \in Requests, s # r
    PROVE  TruthOf(s)'
<1>1. OthersKeep(r) /\ TablesKeep(r)
  BY MovesKeepOthers, MovesKeepTables
<1>2. TruthOf(s)
  BY DEF TruthInv
<1>3. target[s] \in Query => owner'[target[s]] = owner[target[s]]
  BY <1>2, OwnersStay DEF TruthOf
<1>4. /\ pc'[s] = pc[s] /\ choice'[s] = choice[s] /\ val'[s] = val[s]
      /\ target'[s] = target[s] /\ owner'[s] = owner[s]
  BY <1>1 DEF OthersKeep, TablesKeep, Query
<1> QED
  BY <1>2, <1>3, <1>4 DEF TruthOf

(* A step of one request leaves its own records true.                      *)
LEMMA TruthOwn ==
    ASSUME TypeInv, FlightInv, TruthInv, NEW r \in Requests, Moves(r)
    PROVE  TruthOf(r)'
<1>1. TruthOf(r) /\ None \notin Query
  BY RoutingAssumption DEF TruthInv, Query
<1>2. target[r] \in Query => owner'[target[r]] = owner[target[r]]
  BY <1>1, OwnersStay DEF TruthOf
<1>3. /\ pc \in [Requests -> Steps] /\ val \in [Requests -> Backends \cup {None}]
      /\ target \in [Requests -> Query \cup {None}]
      /\ owner \in [Query -> Backends \cup {None}] /\ r \in Query
  BY Zenon DEF TypeInv, TypeOK, RequestOK, FlightOK, TablesOK, Query
<1>4. CASE Submit(r)
  <2>1. /\ pc[r] = "idle" /\ pc'[r] = "external" /\ target'[r] = None
        /\ owner' = owner /\ val' = val
    BY <1>3, <1>4 DEF Submit, Admit, Goto, tables, flight
  <2> QED BY <1>1, <2>1 DEF TruthOf, Before, Deciding, Asking
<1>5. ASSUME NEW q \in Query, Ask(r, q) PROVE TruthOf(r)'
  <2>1. /\ pc[r] = "idle" /\ pc'[r] \in {"recover", "cache"}
        /\ target'[r] = q /\ owner[q] # None /\ owner' = owner /\ val' = val
    BY <1>3, <1>5 DEF Ask, Admit, Goto, tables, flight
  <2> QED BY <1>1, <2>1 DEF TruthOf, Before, Deciding, Asking
<1>6. CASE RouteStep(r)
  <2>1. Routes(r)
    BY <1>6, RouteSteps, ZenonT(40)
  <2>3. val'[r] # None => target[r] \in Query /\ val'[r] = owner[target[r]]
    <3>1. CASE ~FlightLookup(r)
      <4>1. val' = val
        BY <1>6, <3>1, ZenonT(40) DEF RouteStep, CacheLookup, ResolveGroup,
             flight, FirstActiveBackend, FlightEnter, FlightDone,
             FlightDelete, FlightAwait, FlightReturn, RecoverList, HeadProbe
      <4> QED BY <1>1, <4>1, Zenon DEF TruthOf
    <3>2. CASE FlightLookup(r)
      <4>1. pc[r] = "lookup" BY <3>2, Zenon DEF FlightLookup
      <4>2. target[r] \in Query BY <4>1, FlightBasis DEF Asking
      <4>3. history[target[r]] \in {None, owner[target[r]]}
        BY <4>2, Zenon DEF TruthInv, RecordsNameOwner
      <4>4. \/ val' = val
            \/ val' = [val EXCEPT ![r] = history[target[r]]]
        BY <3>2, Zenon DEF FlightLookup
      <4>5. CASE val' = val BY <1>1, <4>5, Zenon DEF TruthOf
      <4>6. CASE val' = [val EXCEPT ![r] = history[target[r]]]
        <5>1. val'[r] = history[target[r]] BY <1>3, <4>6, Zenon
        <5> QED BY <4>2, <4>3, <5>1
      <4> QED BY <4>4, <4>5, <4>6
    <3> QED BY <3>1, <3>2
  <2> QED
    BY <1>1, <2>1, <2>3, Zenon DEF TruthOf, Before, Routes, Kept, Deciding, Asking
<1>7. CASE ForwardStep(r)
  <2>1. Forwards(r)
    BY <1>7, ForwardSteps, ZenonT(40)
  <2>2. pc'[r] \in {"write", "insert"} => owner'[r] = choice[r]
    <3>1. CASE UpstreamStatement(r)
      BY <1>3, <3>1 DEF UpstreamStatement
    <3>2. CASE WriteCache(r)
      BY <1>1, <3>2 DEF WriteCache, tables, TruthOf
    <3>3. CASE ~UpstreamStatement(r) /\ ~WriteCache(r)
      <4>1. pc'[r] \in {"answered", "error"}
        BY <1>3, <1>7, <3>3 DEF ForwardStep, PropagateErrors, UpstreamOther,
             UpstreamError, HistoryInsert, Respond, Goto
      <4> QED BY <4>1
    <3> QED BY <3>1, <3>2, <3>3
  <2> QED
    BY <1>1, <1>2, <2>1, <2>2
       DEF TruthOf, Before, Forwards, Kept, Deciding, Asking
<1> QED
  BY <1>4, <1>5, <1>6, <1>7, MoveCases

(* A step of one request leaves the records of all true.                   *)
LEMMA TruthRecords ==
    ASSUME TypeInv, TruthInv, NEW r \in Requests, Moves(r)
    PROVE  RecordsNameOwner'
<1>1. /\ owner \in [Query -> Backends \cup {None}] /\ r \in Query
      /\ history \in [Query -> Backends \cup {None}] /\ CacheOK
  BY Zenon DEF TypeInv, TypeOK, TablesOK, Query
<1>2. TablesKeep(r) /\ TruthOf(r) /\ RecordsNameOwner
  BY MovesKeepTables DEF TruthInv
<1> SUFFICES ASSUME NEW q \in Query
             PROVE  /\ history'[q] \in {None, owner'[q]}
                    /\ \A g \in Gateways : cached'[g][q] \in {None, owner'[q]}
  BY DEF RecordsNameOwner
<1>3. history[q] # None => owner'[q] = owner[q]
  BY <1>2, OwnersStay DEF RecordsNameOwner
<1>4. \A g \in Gateways : cached[g][q] # None => owner'[q] = owner[q]
  BY <1>2, OwnersStay DEF RecordsNameOwner
<1>5. CASE HistoryInsert(r)
  <2>1. /\ history'[q] \in {history[q], choice[r]}
        /\ q # r => history'[q] = history[q]
        /\ owner' = owner /\ cached' = cached /\ owner[r] = choice[r]
    BY <1>1, <1>2, <1>5 DEF HistoryInsert, cache, TruthOf
  <2> QED BY <1>2, <2>1 DEF RecordsNameOwner
<1>6. CASE WriteCache(r)
  <2>1. /\ CacheSet(gw[r], r, choice[r]) /\ choice[r] \in Backends
        /\ gw[r] \in Gateways /\ owner[r] = choice[r]
    BY <1>2, <1>6 DEF WriteCache, TypeInv, TypeOK, PathOK, RequestOK, TruthOf
  <2>2. owner' = owner /\ history' = history
    BY <1>6, Zenon DEF WriteCache, tables
  <2>3. ASSUME NEW g \in Gateways PROVE cached'[g][q] \in {None, owner[q]}
    BY <1>1, <1>2, <2>1, CacheSetTrue, Zenon
  <2> QED BY <1>2, <2>2, <2>3 DEF RecordsNameOwner
<1>7. CASE ~HistoryInsert(r) /\ ~WriteCache(r)
  <2>1. history' = history /\ cached' = cached
    BY <1>7, Zenon DEF Moves, Step, Submit, Ask, Admit, CacheLookup,
         CacheGet, ResolveGroup, FirstActiveBackend, FlightEnter,
         FlightLookup, FlightDone, FlightDelete, FlightAwait, FlightReturn,
         RecoverList, HeadProbe, PropagateErrors, UpstreamStatement,
         UpstreamOther, UpstreamError, ForwardFrame, tables, cache
  <2> QED BY <1>2, <1>3, <1>4, <2>1 DEF RecordsNameOwner
<1> QED BY <1>5, <1>6, <1>7

(* Every step of the system keeps the records true.                        *)
LEMMA TruthStep ==
    TypeInv /\ FlightInv /\ TruthInv /\ [Next]_vars => TruthInv'
<1> SUFFICES ASSUME TypeInv, FlightInv, TruthInv, [Next]_vars PROVE TruthInv'
  OBVIOUS
<1>1. ASSUME NEW r \in Requests, Moves(r) PROVE TruthInv'
  <2>1. \A s \in Requests : TruthOf(s)'
    BY <1>1, TruthOwn, TruthOthers
  <2> QED BY <1>1, <2>1, TruthRecords DEF TruthInv
<1>2. CASE Aside
  <2>1. /\ pc' = pc /\ owner' = owner /\ choice' = choice /\ val' = val
        /\ target' = target /\ history' = history /\ cached' = cached
    BY <1>2, AsideKeeps
  <2> QED BY <2>1 DEF TruthInv, TruthOf, RecordsNameOwner
<1>3. ASSUME NEW g \in Gateways, Restart(g) PROVE TruthInv'
  <2>1. /\ owner' = owner /\ choice' = choice /\ val' = val
        /\ target' = target /\ history' = history
    BY <1>3, Zenon DEF Restart, tables, result, identity
  <2>2. \A s \in Requests : pc'[s] \in {pc[s], "crashed"}
    BY <1>3 DEF Restart
  <2>3. \A h \in Gateways, q \in Query : cached'[h][q] \in {None, cached[h][q]}
    BY <1>3 DEF Restart, TypeInv, TypeOK, CacheOK
  <2>4. \A s \in Requests : TruthOf(s)'
    BY <2>1, <2>2 DEF TruthInv, TruthOf, Before, Deciding, Asking
  <2> QED BY <2>1, <2>3, <2>4 DEF TruthInv, RecordsNameOwner
<1> QED BY <1>1, <1>2, <1>3, NextCases
-----------------------------------------------------------------------------
(* Stickiness. The query of an answered statement is in the cache of its   *)
(* replica, or the replica has lost it; so a poll for it that has passed   *)
(* the cache without a hit asks for a query the replica has lost.          *)
Missed == Deciding \ {"cache"}
StickyOf(r) ==
    /\ pc[r] \in {"insert", "answered"} /\ owner[r] # None
       => cached[gw[r]][r] # None \/ r \in forgot[gw[r]]
    /\ pc[r] = "idle" => ~sticky[r]
    /\ pc[r] \in Before \ {"forward"} => choice[r] = None
    /\ sticky[r] => /\ target[r] \in Requests /\ gw[target[r]] = gw[r]
                    /\ pc[target[r]] = "answered"
    /\ kind[r] = "poll" /\ sticky[r] /\ (choice[r] # None \/ pc[r] \in Missed)
       => target[r] \in forgot[gw[r]] \/ choice[r] = owner[target[r]]
StickyInv == \A r \in Requests : StickyOf(r)

(* What a sticky request relies on stays: the statement it asks about is   *)
(* answered, keeps its owner, and is not remembered again once forgotten.  *)
LEMMA StickyBasis ==
    ASSUME TypeInv, TruthInv, StickyInv, NEW r \in Requests, Moves(r),
           NEW s \in Requests, sticky[s]
    PROVE  /\ target[s] \in Requests /\ gw[target[s]] = gw[s]
           /\ pc'[target[s]] = "answered" /\ gw' = gw
           /\ owner[target[s]] # None /\ owner'[target[s]] = owner[target[s]]
           /\ target[s] \in forgot[gw[s]] => target[s] \in forgot'[gw[s]]
<1>1. StickyOf(s) /\ TruthOf(s)
  BY DEF StickyInv, TruthInv
<1>2. /\ target[s] \in Requests /\ target[s] \in Query
      /\ gw[target[s]] = gw[s] /\ pc[target[s]] = "answered"
  BY <1>1 DEF StickyOf, Query
<1>3. owner[target[s]] # None /\ owner'[target[s]] = owner[target[s]]
  BY <1>1, <1>2, OwnersStay DEF TruthOf
<1>4. OthersKeep(r) /\ TablesKeep(r) /\ CacheKeeps
  BY MovesKeepOthers, MovesKeepTables, MovesKeepCache
<1>5. gw[s] \in Gateways
  BY DEF TypeInv, TypeOK, RequestOK
<1>6. target[s] \in forgot[gw[s]] => target[s] \in forgot'[gw[s]]
  BY <1>2, <1>4, <1>5 DEF CacheKeeps
<1>7. pc[r] # "answered"
  <2>1. Submit(r) \/ (\E q \in Query : Ask(r, q)) => pc[r] = "idle"
    BY DEF Submit, Ask, Admit
  <2>2. RouteStep(r) => Routes(r)
    BY RouteSteps, ZenonT(40)
  <2>3. ForwardStep(r) => Forwards(r)
    BY ForwardSteps, ZenonT(40)
  <2>4. \/ Submit(r) \/ (\E q \in Query : Ask(r, q))
        \/ RouteStep(r) \/ ForwardStep(r)
    BY MoveCases
  <2> QED
    BY <2>1, <2>2, <2>3, <2>4 DEF Routes, Forwards, Deciding, Asking
<1>8. pc'[target[s]] = "answered"
  BY <1>2, <1>4, <1>7, Zenon DEF OthersKeep
<1> QED
  BY <1>2, <1>3, <1>4, <1>6, <1>8 DEF TablesKeep

(* A step of one request keeps the polls of the others sticky.             *)
LEMMA StickyOthers ==
    ASSUME TypeInv, TruthInv, StickyInv, NEW r \in Requests, Moves(r),
           NEW s \in Requests, s # r
    PROVE  StickyOf(s)'
<1>1. StickyOf(s)
  BY DEF StickyInv
<1>2. /\ pc'[s] = pc[s] /\ kind'[s] = kind[s] /\ target'[s] = target[s]
      /\ choice'[s] = choice[s] /\ sticky'[s] = sticky[s]
  BY MovesKeepOthers, Zenon DEF OthersKeep
<1>3. gw' = gw /\ owner'[s] = owner[s]
  BY MovesKeepTables DEF TablesKeep, Query
<1>4. cached[gw[s]][s] # None \/ s \in forgot[gw[s]]
      => cached'[gw[s]][s] # None \/ s \in forgot'[gw[s]]
  BY MovesKeepCache DEF CacheKeeps, TypeInv, TypeOK, RequestOK, Query
<1>5. sticky[s] => /\ pc'[target[s]] = "answered"
                   /\ owner'[target[s]] = owner[target[s]]
                   /\ target[s] \in forgot[gw[s]] => target[s] \in forgot'[gw[s]]
  BY StickyBasis
<1> QED
  BY <1>1, <1>2, <1>3, <1>4, <1>5, Zenon DEF StickyOf

(* A write of the cache is there afterwards.                               *)
LEMMA CacheSetOwn ==
    ASSUME CacheOK, NEW g \in Gateways, NEW q \in Query, NEW b \in Backends, CacheSet(g, q, b)
    PROVE  cached'[g][q] = b
BY CacheSetValue

(* A step of one request keeps its own poll sticky.                        *)
LEMMA StickyOwn ==
    ASSUME TypeInv, TruthInv, StickyInv, NEW r \in Requests, Moves(r)
    PROVE  StickyOf(r)'
<1>1. StickyOf(r) /\ TruthOf(r) /\ None \notin Query /\ None \notin Backends
  BY RoutingAssumption DEF StickyInv, TruthInv, Query
<1>2. /\ pc \in [Requests -> Steps] /\ kind \in [Requests -> Kinds \cup {None}]
      /\ target \in [Requests -> Query \cup {None}]
      /\ sticky \in [Requests -> BOOLEAN] /\ gw[r] \in Gateways
      /\ choice \in [Requests -> Backends \cup {None}] /\ r \in Query
  BY Zenon DEF TypeInv, TypeOK, RequestOK, ResultOK, SeenOK, Query
<1>3. gw' = gw
  BY MovesKeepTables DEF TablesKeep
<1>4. sticky[r] => /\ target[r] \in Requests /\ gw[target[r]] = gw[r]
                   /\ pc'[target[r]] = "answered" /\ owner[target[r]] # None
                   /\ owner'[target[r]] = owner[target[r]]
                   /\ target[r] \in forgot[gw[r]] => target[r] \in forgot'[gw[r]]
  BY StickyBasis, Zenon
<1>5. CASE Submit(r)
  <2>1. /\ pc[r] = "idle" /\ pc'[r] = "external"
        /\ choice' = choice /\ sticky' = sticky
    BY <1>2, <1>5 DEF Submit, Admit, Goto, result
  <2> QED BY <1>1, <2>1 DEF StickyOf, Before, Deciding, Asking, Missed
<1>6. ASSUME NEW q \in Query, Ask(r, q) PROVE StickyOf(r)'
  <2>1. PICK k \in {"kill", "poll"}, step \in {"recover", "cache"} :
            (k = "kill" \/ step = "cache") /\ Admit(r, k, q, step)
    BY <1>6 DEF Ask
  <2>2. pc[r] = "idle" /\ choice' = choice
    BY <2>1, Zenon DEF Admit, result
  <2>3. pc'[r] = step /\ kind'[r] = k /\ target'[r] = q
    BY <1>2, <2>1 DEF Admit, Goto
  <2>4. sticky'[r] => q \in Requests /\ pc[q] = "answered" /\ gw[q] = gw[r]
    BY <1>2, <1>6, Zenon DEF Ask
  <2>5. sticky'[r] => pc'[q] = "answered"
    BY <2>2, <2>4, MovesKeepOthers DEF OthersKeep
  <2> QED
    BY <1>1, <1>3, <2>1, <2>2, <2>3, <2>4, <2>5, Zenon
       DEF StickyOf, Before, Deciding, Asking, Missed
<1>7. CASE RouteStep(r)
  <2>1. Routes(r)
    BY <1>7, RouteSteps, ZenonT(40)
  <2>2. choice[r] = None
    BY <1>1, <2>1 DEF Routes, StickyOf, Before, Deciding, Asking
  <2>3. CASE pc[r] # "cache"
    <3>1. kind[r] = "poll" /\ sticky[r] => target[r] \in forgot'[gw[r]]
      BY <1>1, <1>4, <2>1, <2>2, <2>3 DEF Routes, StickyOf, Missed
    <3> QED
      BY <1>1, <1>3, <1>4, <2>1, <2>2, <3>1, Zenon
         DEF Routes, Kept, StickyOf, Before, Deciding, Asking
  <2>4. CASE pc[r] = "cache"
    <3>1. CacheLookup(r)
      BY <1>7, <2>4, Zenon DEF RouteStep, ResolveGroup, FirstActiveBackend,
           FlightEnter, FlightLookup, FlightDone, FlightDelete, FlightAwait,
           RecoverList, HeadProbe
    <3>2. target[r] \in Query
      BY <2>4 DEF TypeInv, PathOK, Asking
    <3>3. \/ cached[gw[r]][target[r]] = None /\ pc'[r] = "external"
             /\ choice'[r] = None
          \/ /\ cached[gw[r]][target[r]] # None /\ pc'[r] = "forward"
             /\ choice'[r] = cached[gw[r]][target[r]]
      BY <1>2, <2>2, <3>1, Zenon DEF CacheLookup, Decide, Goto
    <3>4. cached[gw[r]][target[r]] \in {None, owner[target[r]]}
      BY <1>2, <3>2, Zenon DEF TruthInv, RecordsNameOwner
    <3>5. sticky[r] => cached[gw[r]][target[r]] # None
                       \/ target[r] \in forgot[gw[r]]
      <4> SUFFICES ASSUME sticky[r] PROVE cached[gw[r]][target[r]] # None
                                          \/ target[r] \in forgot[gw[r]]
        OBVIOUS
      <4>1. pc[target[r]] = "answered" /\ target[r] \in Requests
        BY <1>1, Zenon DEF StickyOf
      <4>2. StickyOf(target[r])
        BY <4>1, Zenon DEF StickyInv
      <4> QED BY <1>4, <4>1, <4>2 DEF StickyOf
    <3>6. sticky[r] => choice'[r] = owner'[target[r]]
                       \/ target[r] \in forgot'[gw[r]]
      BY <1>4, <3>3, <3>4, <3>5
    <3> QED
      BY <1>1, <1>3, <1>4, <2>1, <3>3, <3>6, Zenon
         DEF Routes, Kept, StickyOf, Before, Deciding, Asking
  <2> QED BY <2>3, <2>4
<1>8. CASE ForwardStep(r)
  <2>1. Forwards(r)
    BY <1>8, ForwardSteps, ZenonT(40)
  <2>2. pc'[r] \in {"insert", "answered"} /\ owner'[r] # None
        => cached'[gw[r]][r] # None \/ r \in forgot'[gw[r]]
    <3>1. CASE WriteCache(r)
      <4>1. CacheSet(gw[r], r, choice[r]) /\ choice[r] \in Backends /\ CacheOK
        BY <3>1 DEF WriteCache, TypeInv, TypeOK, PathOK
      <4>2. cached'[gw[r]][r] = choice[r]
        <5>1. gw[r] \in Gateways /\ r \in Query
          BY Zenon DEF TypeInv, TypeOK, RequestOK, Query
        <5> QED BY <4>1, <5>1, CacheSetOwn, Zenon
      <4>3. choice[r] # None BY <4>1, RoutingAssumption, Zenon
      <4> QED BY <4>2, <4>3, Zenon
    <3>2. CASE HistoryInsert(r)
      <4>1. /\ pc[r] = "insert" /\ owner' = owner
            /\ cached' = cached /\ forgot' = forgot
        BY <3>2, Zenon DEF HistoryInsert, cache
      <4> QED BY <1>1, <4>1, Zenon DEF StickyOf
    <3>3. CASE UpstreamOther(r)
      <4>1. pc[r] = "forward" /\ owner' = owner
        BY <3>3 DEF UpstreamOther
      <4> QED BY <1>1, <4>1 DEF TruthOf, Before
    <3>4. CASE PropagateErrors(r) \/ UpstreamStatement(r) \/ UpstreamError(r)
      <4>1. pc'[r] \in {"write", "error"}
        BY <1>2, <3>4 DEF PropagateErrors, UpstreamStatement, UpstreamError,
             Goto
      <4> QED BY <4>1
    <3> QED BY <1>8, <3>1, <3>2, <3>3, <3>4 DEF ForwardStep
  <2>3. choice[r] # None
    <3>1. pc[r] \in {"forward", "write", "insert"} BY <2>1, Zenon DEF Forwards
    <3>2. choice[r] \in Backends BY <3>1, Zenon DEF TypeInv, PathOK
    <3> QED BY <3>2, RoutingAssumption, Zenon
  <2>4. /\ pc'[r] \in {"write", "insert", "answered", "error"} /\ choice'[r] = choice[r]
        /\ kind'[r] = kind[r] /\ target'[r] = target[r] /\ sticky'[r] = sticky[r]
    BY <2>1, Zenon DEF Forwards, Kept
  <2>5. pc'[r] # "idle" /\ pc'[r] \notin Before \ {"forward"}
    BY <2>4 DEF Before, Deciding, Asking
  <2>6. sticky'[r] => /\ target'[r] \in Requests /\ gw'[target'[r]] = gw'[r]
                      /\ pc'[target'[r]] = "answered"
    BY <1>3, <1>4, <2>4, Zenon
  <2>7. ASSUME kind'[r] = "poll", sticky'[r]
        PROVE  target'[r] \in forgot'[gw'[r]] \/ choice'[r] = owner'[target'[r]]
    <3>1. target[r] \in forgot[gw[r]] \/ choice[r] = owner[target[r]]
      BY <1>1, <2>3, <2>4, <2>7, Zenon DEF StickyOf
    <3> QED BY <1>3, <1>4, <2>4, <2>7, <3>1, Zenon
  <2> QED BY <1>3, <2>2, <2>5, <2>6, <2>7, Zenon DEF StickyOf
<1> QED
  BY <1>5, <1>6, <1>7, <1>8, MoveCases

(* A crash turns every entry of the cache into a lost one.                 *)
LEMMA StickyRestart ==
    ASSUME TypeInv, StickyInv, NEW g \in Gateways, Restart(g)
    PROVE  StickyInv'
<1> SUFFICES ASSUME NEW s \in Requests PROVE StickyOf(s)'
  BY Zenon DEF StickyInv
<1>1. \A r \in Requests :
          pc'[r] = pc[r] \/ (pc'[r] = "crashed" /\ pc[r] \in Running)
  BY Zenon DEF Restart
<1>2. /\ forgot[gw[s]] \subseteq forgot'[gw[s]]
      /\ cached[gw[s]][s] # None => cached'[gw[s]][s] # None
                                   \/ s \in forgot'[gw[s]]
  BY DEF Restart, TypeInv, TypeOK, CacheOK, RequestOK, Query
<1>3. UNCHANGED <<owner, choice, gw, target, kind, sticky>>
  BY Zenon DEF Restart, tables, result, identity
<1>4. "answered" \notin Running
  BY DEF Running
<1>5. StickyOf(s)
  BY DEF StickyInv
<1> QED
  BY <1>1, <1>2, <1>3, <1>4, <1>5, Zenon DEF StickyOf, Before, Missed, Deciding, Asking

(* Every step of the system keeps polls sticky.                            *)
LEMMA StickyStep ==
    TypeInv /\ TruthInv /\ StickyInv /\ [Next]_vars => StickyInv'
<1> SUFFICES ASSUME TypeInv, TruthInv, StickyInv, [Next]_vars PROVE StickyInv'
  OBVIOUS
<1>1. ASSUME NEW r \in Requests, Moves(r) PROVE StickyInv'
  BY <1>1, StickyOwn, StickyOthers DEF StickyInv
<1>2. CASE Aside
  <2>1. /\ pc' = pc /\ owner' = owner /\ choice' = choice /\ kind' = kind
        /\ target' = target /\ gw' = gw /\ sticky' = sticky
        /\ cached' = cached /\ forgot' = forgot
    BY <1>2, AsideKeeps
  <2> QED BY <2>1 DEF StickyInv, StickyOf
<1>3. ASSUME NEW g \in Gateways, Restart(g) PROVE StickyInv'
  BY <1>3, StickyRestart
<1> QED BY <1>1, <1>2, <1>3, NextCases

-----------------------------------------------------------------------------
(* The leader of a lookup. History rows are never removed, so a row seen   *)
(* on arrival is still there when the leader reads it; unless the read     *)
(* fails, the leader carries the owner from then on.                       *)
LeaderOf(r) ==
    /\ known[r] => target[r] \in Query /\ history[target[r]] # None
    /\ pc[r] = "idle" => ~known[r]
    /\ pc[r] \in {"idle", "cache", "recover", "await"} => call[r] # r
    /\ pc[r] = "external" /\ kind[r] = "poll" => call[r] # r
    /\ call[r] = r /\ known[r] /\ ~failed[r] =>
         \/ pc[r] \in {"lookup", "crashed"} /\ choice[r] = None
         \/ pc[r] \in {"signal", "delete"} /\ val[r] = owner[target[r]]
         \/ /\ choice[r] = owner[target[r]]
            /\ pc[r] \in {"forward", "write", "insert"} \cup Finished
LeaderInv == \A r \in Requests : LeaderOf(r)

(* A query whose row was seen keeps its row and its owner.                 *)
LEMMA LeaderBasis ==
    ASSUME TypeInv, TruthInv, LeaderInv, NEW r \in Requests, Moves(r),
           NEW s \in Requests, known[s]
    PROVE  /\ target[s] \in Query /\ history'[target[s]] # None
           /\ history[target[s]] = owner[target[s]]
           /\ owner[target[s]] # None /\ owner'[target[s]] = owner[target[s]]
<1>1. target[s] \in Query /\ history[target[s]] # None
  BY DEF LeaderInv, LeaderOf
<1>2. history[target[s]] = owner[target[s]]
  BY <1>1 DEF TruthInv, RecordsNameOwner
<1>3. owner'[target[s]] = owner[target[s]]
  BY <1>1, <1>2, OwnersStay
<1>4. history'[target[s]] = history[target[s]]
  BY <1>1, MovesKeepTables DEF TablesKeep
<1> QED BY <1>1, <1>2, <1>3, <1>4

(* A step of one request keeps the promise made to other leaders.          *)
LEMMA LeaderOthers ==
    ASSUME TypeInv, TruthInv, LeaderInv, NEW r \in Requests, Moves(r),
           NEW s \in Requests, s # r
    PROVE  LeaderOf(s)'
<1>1. LeaderOf(s)
  BY DEF LeaderInv
<1>2. /\ pc'[s] = pc[s] /\ kind'[s] = kind[s] /\ target'[s] = target[s]
      /\ call'[s] = call[s] /\ val'[s] = val[s] /\ choice'[s] = choice[s]
      /\ known'[s] = known[s] /\ failed'[s] = failed[s]
  BY MovesKeepOthers, Zenon DEF OthersKeep
<1>3. known[s] => /\ target[s] \in Query /\ history'[target[s]] # None
                  /\ owner'[target[s]] = owner[target[s]]
  BY LeaderBasis, Zenon
<1> QED BY <1>1, <1>2, <1>3 DEF LeaderOf

(* A step of Route by a request that is not an undisturbed leader gives it *)
(* no promise to keep.                                                     *)
LEMMA LeaderQuiet ==
    ASSUME TypeInv, TruthInv, LeaderInv, NEW r \in Requests, Moves(r),
           Routes(r), pc[r] \notin {"lookup", "signal", "delete"},
           pc'[r] \notin {"await", "cache"}, call'[r] = call[r],
           failed[r] => failed'[r],
           pc'[r] = "recover" => pc[r] = "external" /\ kind[r] = "poll",
           pc'[r] = "external" => pc[r] = "cache" \/ kind[r] # "poll"
    PROVE  LeaderOf(r)'
<1>1. LeaderOf(r)
  BY Zenon DEF LeaderInv
<1>2. known[r] => target[r] \in Query /\ history'[target[r]] # None
  BY LeaderBasis, Zenon
<1>3. ~(call[r] = r /\ known[r] /\ ~failed[r])
  BY <1>1 DEF LeaderOf, Routes, Deciding, Asking, Finished
<1>4. pc'[r] \notin {"idle", "cache", "await"}
  BY Zenon DEF Routes, Deciding, Asking
<1> QED BY <1>1, <1>2, <1>3, <1>4, Zenon DEF LeaderOf, Routes, Kept

(* A step of Route keeps the promise made to the request that takes it.    *)
LEMMA LeaderRoutes ==
    ASSUME TypeInv, FlightInv, TruthInv, StickyInv, LeaderInv,
           NEW r \in Requests, Moves(r), RouteStep(r)
    PROVE  LeaderOf(r)'
<1>1. LeaderOf(r) /\ None \notin Requests
  BY RoutingAssumption DEF LeaderInv
<1>2. known[r] => /\ target[r] \in Query /\ history'[target[r]] # None
                  /\ history[target[r]] = owner[target[r]]
                  /\ owner[target[r]] # None
                  /\ owner'[target[r]] = owner[target[r]]
  BY LeaderBasis, Zenon
<1>3. Routes(r)
  BY RouteSteps, ZenonT(40)
<1>4. choice[r] = None
  BY <1>3 DEF Routes, StickyInv, StickyOf, Before, Deciding, Asking
<1>5. /\ pc \in [Requests -> Steps] /\ call \in [Requests -> Requests \cup {None}]
      /\ val \in [Requests -> Backends \cup {None}]
      /\ failed \in [Requests -> BOOLEAN]
      /\ choice \in [Requests -> Backends \cup {None}]
  BY Zenon DEF TypeInv, TypeOK, RequestOK, FlightOK, SeenOK, ResultOK
<1>6. CASE FlightEnter(r)
  <2>1. pc[r] = "recover" /\ gw[r] \in Gateways /\ target[r] \in Query
    BY <1>6 DEF FlightEnter, TypeInv, TypeOK, RequestOK, PathOK, Asking
  <2>2. inflight[gw[r]][target[r]] # r
    BY <1>1, <2>1 DEF FlightInv, Registered, Leading
  <2>3. \/ pc'[r] = "await" /\ call'[r] = inflight[gw[r]][target[r]]
        \/ pc'[r] = "lookup"
    BY <1>5, <1>6 DEF FlightEnter, Goto
  <2> QED
    BY <1>2, <1>3, <1>4, <2>2, <2>3, Zenon DEF LeaderOf, Routes, Kept
<1>7. CASE FlightLookup(r)
  <2>1. /\ pc'[r] = "signal" /\ call' = call
        /\ val'[r] = history[target[r]] \/ failed'[r]
    BY <1>5, <1>7 DEF FlightLookup, NoteFailure, Goto
  <2> QED BY <1>2, <1>3, <2>1, Zenon DEF LeaderOf, Routes, Kept
<1>8. CASE FlightDone(r)
  <2>1. /\ pc[r] = "signal" /\ pc'[r] = "delete"
        /\ call' = call /\ val' = val /\ failed' = failed
    BY <1>5, <1>8 DEF FlightDone, Goto, seenVars
  <2> QED BY <1>1, <1>2, <1>3, <2>1, Zenon DEF LeaderOf, Routes, Kept, Finished
<1>9. CASE FlightDelete(r)
  <2>1. /\ pc[r] = "delete" /\ call' = call /\ failed' = failed
        /\ \/ pc'[r] = "forward" /\ choice'[r] = val[r]
           \/ pc'[r] = "list" /\ val[r] = None
    BY <1>5, <1>9 DEF FlightDelete, FlightReturn, Recovered, Decide, Goto,
         seenVars
  <2> QED BY <1>1, <1>2, <1>3, <2>1, Zenon DEF LeaderOf, Routes, Kept, Finished
<1>10. CASE CacheLookup(r)
  <2>1. /\ pc[r] = "cache" /\ pc'[r] \in {"forward", "external"}
        /\ call' = call /\ failed' = failed
    BY <1>5, <1>10, Zenon DEF CacheLookup, Decide, Goto, flight, seenVars
  <2> QED BY <1>3, <2>1, LeaderQuiet, Zenon
<1>11. CASE ResolveGroup(r)
  <2>1. /\ pc[r] = "external" /\ call' = call /\ (failed[r] => failed'[r])
    BY <1>5, <1>11, Zenon DEF ResolveGroup, NoteFailure, flight
  <2>2. \/ pc'[r] \in {"forward", "first"}
        \/ pc'[r] = "recover" /\ kind[r] = "poll"
    BY <1>5, <1>11, Zenon DEF ResolveGroup, Decide, Goto
  <2> QED BY <1>3, <2>1, <2>2, LeaderQuiet, Zenon
<1>12. CASE FirstActiveBackend(r)
  <2>1. /\ pc[r] = "first" /\ pc'[r] \in {"forward", "nobackend"}
        /\ call' = call /\ (failed[r] => failed'[r])
    BY <1>5, <1>12 DEF FirstActiveBackend, Decide, Goto, NoteFailure, flight
  <2> QED BY <1>3, <2>1, LeaderQuiet, Zenon
<1>13. CASE FlightAwait(r)
  <2>1. /\ pc[r] = "await" /\ pc'[r] \in {"forward", "list"}
        /\ call' = call /\ failed' = failed
    BY <1>5, <1>13, Zenon DEF FlightAwait, FlightReturn, Recovered, Decide, Goto,
         seenVars
  <2> QED BY <1>3, <2>1, LeaderQuiet, Zenon
<1>14. CASE RecoverList(r)
  <2>1. /\ pc[r] = "list" /\ call' = call /\ (failed[r] => failed'[r])
    BY <1>5, <1>14, Zenon DEF RecoverList, NoteFailure, flight
  <2>2. \/ pc'[r] \in {"probe", "first"}
        \/ pc'[r] = "external" /\ kind[r] = "kill"
    BY <1>5, <1>14, Zenon DEF RecoverList, NotRecovered, Goto
  <2> QED BY <1>3, <2>1, <2>2, LeaderQuiet, Zenon
<1>15. CASE HeadProbe(r)
  <2>1. /\ pc[r] = "probe" /\ pc'[r] = "forward"
        /\ call' = call /\ failed' = failed
    BY <1>5, <1>15, Zenon DEF HeadProbe, Recovered, Decide, Goto, flight, seenVars
  <2> QED BY <1>3, <2>1, LeaderQuiet, Zenon
<1> QED
  BY ZenonT(40), <1>6, <1>7, <1>8, <1>9, <1>10, <1>11, <1>12, <1>13, <1>14,
     <1>15 DEF RouteStep

(* A step of one request keeps the promise made to it.                     *)
LEMMA LeaderOwn ==
    ASSUME TypeInv, FlightInv, TruthInv, StickyInv, LeaderInv,
           NEW r \in Requests, Moves(r)
    PROVE  LeaderOf(r)'
<1>1. LeaderOf(r)
  BY DEF LeaderInv
<1>2. /\ pc \in [Requests -> Steps] /\ kind \in [Requests -> Kinds \cup {None}]
      /\ target \in [Requests -> Query \cup {None}]
      /\ known \in [Requests -> BOOLEAN] /\ failed \in [Requests -> BOOLEAN]
  BY ZenonT(40) DEF TypeInv, TypeOK, RequestOK, SeenOK
<1>3. CASE Submit(r)
  <2>1. PICK k \in {"submit", "other"} : Admit(r, k, None, "external")
    BY <1>3 DEF Submit
  <2>2. /\ pc[r] = "idle" /\ pc'[r] = "external" /\ kind'[r] = k
        /\ call' = call
    BY <1>2, <2>1 DEF Admit, Goto, flight
  <2>3. known' = known
    BY <1>3, ZenonT(40) DEF Submit
  <2> QED BY <1>1, <2>2, <2>3, Zenon DEF LeaderOf
<1>4. ASSUME NEW q \in Query, Ask(r, q) PROVE LeaderOf(r)'
  <2>1. PICK k \in {"kill", "poll"}, step \in {"recover", "cache"} :
             Admit(r, k, q, step)
    BY <1>4, Zenon DEF Ask
  <2>2. /\ pc[r] = "idle" /\ pc'[r] = step /\ target'[r] = q
        /\ call' = call /\ history' = history
    BY <1>2, <2>1 DEF Admit, Goto, flight, tables
  <2>3. known'[r] => history[q] # None
    BY <1>2, <1>4, Zenon DEF Ask
  <2> QED BY <1>1, <2>2, <2>3, Zenon DEF LeaderOf
<1>5. CASE RouteStep(r)
  BY <1>5, LeaderRoutes
<1>6. CASE ForwardStep(r)
  <2>1. Forwards(r)
    BY <1>6, ForwardSteps, ZenonT(40)
  <2>2. known[r] => /\ target[r] \in Query /\ history'[target[r]] # None
                    /\ owner'[target[r]] = owner[target[r]]
    BY LeaderBasis, Zenon
  <2>3. failed[r] => failed'[r]
    BY <1>2, <1>6, Zenon DEF ForwardStep, PropagateErrors, UpstreamStatement,
         UpstreamOther, UpstreamError, WriteCache, HistoryInsert, NoteFailure,
         ForwardFrame, seenVars
  <2> QED BY <1>1, <2>1, <2>2, <2>3, Zenon DEF LeaderOf, Forwards, Kept, Finished
<1> QED
  BY <1>3, <1>4, <1>5, <1>6, MoveCases

(* Every step of the system keeps the promise made to leaders.             *)
LEMMA LeaderStep ==
    TypeInv /\ FlightInv /\ TruthInv /\ StickyInv /\ LeaderInv /\ [Next]_vars
    => LeaderInv'
<1> SUFFICES ASSUME TypeInv, FlightInv, TruthInv, StickyInv, LeaderInv,
                    [Next]_vars
             PROVE  LeaderInv'
  OBVIOUS
<1>1. ASSUME NEW r \in Requests, Moves(r) PROVE LeaderInv'
  BY <1>1, LeaderOwn, LeaderOthers DEF LeaderInv
<1>2. CASE Aside
  <2>1. /\ pc' = pc /\ kind' = kind /\ target' = target /\ call' = call
        /\ val' = val /\ choice' = choice /\ known' = known
        /\ failed' = failed /\ history' = history /\ owner' = owner
    BY <1>2, AsideKeeps
  <2> QED BY <2>1, Zenon DEF LeaderInv, LeaderOf
<1>3. ASSUME NEW g \in Gateways, Restart(g) PROVE LeaderInv'
  <2>1. /\ history' = history /\ owner' = owner /\ choice' = choice
        /\ target' = target /\ kind' = kind /\ call' = call /\ val' = val
        /\ known' = known /\ failed' = failed
    BY <1>3, Zenon DEF Restart, tables, result, identity
  <2> SUFFICES ASSUME NEW s \in Requests PROVE LeaderOf(s)'
    BY DEF LeaderInv
  <2>2. pc'[s] = pc[s] \/ pc'[s] = "crashed"
    BY <1>3 DEF Restart
  <2>3. LeaderOf(s) /\ StickyOf(s)
    BY DEF LeaderInv, StickyInv
  <2> QED BY <2>1, <2>2, <2>3, Zenon DEF LeaderOf, StickyOf, Before, Deciding,
               Asking, Finished
<1> QED BY <1>1, <1>2, <1>3, NextCases

-----------------------------------------------------------------------------
(* The backends observed active since a request arrived are active now,    *)
(* and a request that was refused had none or a failed database call.      *)
AliveOf(r) ==
    /\ alive[r] \subseteq Active
    /\ pc[r] = "nobackend" => failed[r] \/ alive[r] = {}
AliveInv == \A r \in Requests : AliveOf(r)

(* A step of one request refuses only that request, and only when it has   *)
(* just read an empty list or failed to read it.                           *)
LEMMA AliveMoves ==
    ASSUME TypeInv, AliveInv, NEW r \in Requests, Moves(r)
    PROVE  AliveInv'
<1>1. Active' = Active
  <2>1. active' = active
    BY MovesKeepTables DEF TablesKeep
  <2> QED BY <2>1 DEF Active
<1>2. \A s \in Requests \ {r} : AliveOf(s)'
  BY <1>1, MovesKeepOthers DEF OthersKeep, AliveInv, AliveOf
<1>3. /\ pc \in [Requests -> Steps] /\ alive \in [Requests -> SUBSET Backends]
      /\ failed \in [Requests -> BOOLEAN]
  BY ZenonT(40) DEF TypeInv, TypeOK, RequestOK, SeenOK
<1>4. AliveOf(r)
  BY DEF AliveInv
<1> SUFFICES AliveOf(r)'
  BY <1>2 DEF AliveInv
<1>5. ASSUME NEW k, NEW q, NEW step \in {"external", "recover", "cache"},
             Admit(r, k, q, step)
      PROVE  AliveOf(r)'
  <2>1. alive'[r] = Active /\ pc'[r] = step
    BY <1>3, <1>5 DEF Admit, Goto
  <2> QED BY <1>1, <2>1 DEF AliveOf
<1>6. CASE FirstActiveBackend(r)
  <2>1. alive' = alive
    BY <1>6, ZenonT(40) DEF FirstActiveBackend
  <2>2. pc'[r] = "nobackend" => Active = {} \/ failed'[r]
    BY <1>3, <1>6 DEF FirstActiveBackend, Decide, Goto, NoteFailure
  <2> QED BY <1>1, <1>4, <2>1, <2>2 DEF AliveOf
<1>7. CASE RouteStep(r) /\ ~FirstActiveBackend(r)
  <2>1. alive' = alive
    BY <1>7, ZenonT(40) DEF RouteStep, CacheLookup, ResolveGroup, FlightEnter,
         FlightLookup, FlightDone, FlightDelete, FlightAwait, FlightReturn,
         RecoverList, HeadProbe, seenVars
  <2>2. pc'[r] # "nobackend"
    <3>1. CASE CacheLookup(r) \/ ResolveGroup(r)
      BY <1>3, <3>1, Zenon DEF CacheLookup, ResolveGroup, Decide, Goto
    <3>2. CASE FlightEnter(r) \/ FlightLookup(r) \/ FlightDone(r)
      BY <1>3, <3>2 DEF FlightEnter, FlightLookup, FlightDone, Goto
    <3>3. CASE FlightDelete(r) \/ FlightAwait(r)
      BY <1>3, <3>3 DEF FlightDelete, FlightAwait, FlightReturn, Recovered,
           Decide, Goto
    <3>4. CASE RecoverList(r) \/ HeadProbe(r)
      BY <1>3, <3>4, Zenon DEF RecoverList, HeadProbe, NotRecovered, Recovered,
           Decide, Goto
    <3> QED BY <1>7, <3>1, <3>2, <3>3, <3>4 DEF RouteStep
  <2> QED BY <1>1, <1>4, <2>1, <2>2 DEF AliveOf
<1>8. CASE ForwardStep(r)
  <2>1. alive' = alive
    BY <1>8, ZenonT(40) DEF ForwardStep, PropagateErrors, UpstreamStatement,
         UpstreamOther, UpstreamError, WriteCache, HistoryInsert,
         ForwardFrame, seenVars
  <2>2. Forwards(r)
    BY <1>8, ForwardSteps, ZenonT(40)
  <2> QED BY <1>1, <1>4, <2>1, <2>2, Zenon DEF AliveOf, Forwards
<1>9. Submit(r) \/ (\E q \in Query : Ask(r, q)) => AliveOf(r)'
  BY <1>5 DEF Submit, Ask
<1> QED BY <1>6, <1>7, <1>8, <1>9, MoveCases

(* Every step of the system keeps the account of active backends.          *)
LEMMA AliveStep == TypeInv /\ AliveInv /\ [Next]_vars => AliveInv'
<1> SUFFICES ASSUME TypeInv, AliveInv, [Next]_vars PROVE AliveInv'
  OBVIOUS
<1>1. ASSUME NEW r \in Requests, Moves(r) PROVE AliveInv'
  BY <1>1, AliveMoves
<1>2. ASSUME NEW b \in Backends, NEW grp, NEW act \in BOOLEAN,
             EditBackend(b, grp, act)
      PROVE  AliveInv'
  <2>1. /\ active' = [active EXCEPT ![b] = act]
        /\ alive' = [r \in Requests |-> IF act THEN alive[r]
                                               ELSE alive[r] \ {b}]
        /\ pc' = pc /\ failed' = failed
    BY <1>2, Zenon DEF EditBackend
  <2>2. active \in [Backends -> BOOLEAN]
    BY DEF TypeInv, TypeOK, TablesOK
  <2> SUFFICES ASSUME NEW s \in Requests PROVE AliveOf(s)'
    BY DEF AliveInv
  <2>3. AliveOf(s)
    BY DEF AliveInv
  <2>4. alive'[s] \subseteq Active'
    BY <2>1, <2>2, <2>3 DEF AliveOf, Active
  <2> QED BY <2>1, <2>3, <2>4, Zenon DEF AliveOf
<1>3. ASSUME NEW b \in Backends, Upsert(b) \/ SetActive(b) \/ Delete(b)
      PROVE  AliveInv'
  <2>1. (~active[b]) \in BOOLEAN /\ FALSE \in BOOLEAN
    OBVIOUS
  <2> QED BY <1>2, <1>3, <2>1, Zenon DEF Upsert, SetActive, Delete
<1>4. CASE (\E r \in Requests : ClientGone(r)) \/ UNCHANGED vars
  <2>1. pc' = pc /\ failed' = failed /\ alive' = alive /\ active' = active
    BY <1>4, ZenonT(40) DEF ClientGone, vars, tables, seenVars
  <2> QED BY <2>1 DEF AliveInv, AliveOf, Active
<1>5. ASSUME NEW g \in Gateways, Restart(g) PROVE AliveInv'
  <2>1. failed' = failed /\ alive' = alive /\ active' = active
    BY <1>5, ZenonT(40) DEF Restart, tables
  <2>2. \A s \in Requests : pc'[s] = pc[s] \/ pc'[s] = "crashed"
    BY <1>5 DEF Restart
  <2> QED BY <2>1, <2>2 DEF AliveInv, AliveOf, Active
<1> QED BY <1>1, <1>3, <1>4, <1>5, NextCases DEF Aside

-----------------------------------------------------------------------------
(* The layers hold together, initially and after every step. *)
IInv == TypeInv /\ FlightInv /\ TruthInv /\ StickyInv /\ LeaderInv /\ AliveInv

(* The layers hold in the initial states: nothing is in flight, cached or  *)
(* asked, and the past queries are recorded at their owner or not at all.  *)
LEMMA InitLayers == Init => IInv
<1> SUFFICES ASSUME Init PROVE IInv
  OBVIOUS
<1>1. TypeInv
  BY InitTypes
<1>2. FlightInv
  BY DEF Init, FlightInv, FlightOf, Registered, Leading
<1>3. TruthInv
  <2>1. RecordsNameOwner
    BY DEF Init, RecordsNameOwner
  <2>2. \A r \in Requests : TruthOf(r)
    BY RoutingAssumption, Zenon DEF Init, TruthOf, Query
  <2> QED
    BY <2>1, <2>2 DEF TruthInv
<1>4. StickyInv
  BY RoutingAssumption, Zenon DEF Init, StickyInv, StickyOf
<1>5. LeaderInv
  BY RoutingAssumption, Zenon DEF Init, LeaderInv, LeaderOf
<1>6. AliveInv
  BY Zenon DEF Init, AliveInv, AliveOf
<1> QED
  BY <1>1, <1>2, <1>3, <1>4, <1>5, <1>6 DEF IInv

(* The layers are an invariant of the specification. *)
THEOREM Layers == Spec => []IInv
<1>1. IInv /\ [Next]_vars => IInv'
  BY TypeStep, FlightStep, TruthStep, StickyStep, LeaderStep, AliveStep DEF IInv
<1> QED
  BY InitLayers, <1>1, PTL DEF Spec

(* No cache entry of any replica and no history row ever names another     *)
(* backend than the one that runs the query, whatever runs concurrently    *)
(* and whatever is evicted, lost in a crash or not inserted.               *)
THEOREM RecordsTrue == Spec => []RecordsNameOwner
<1>1. IInv => RecordsNameOwner
  BY DEF IInv, TruthInv
<1> QED
  BY <1>1, Layers, PTL

(* At most one history lookup of a query runs on a replica at any time     *)
(* (singleFlightGroup.do), for any number of concurrent recoveries.        *)
THEOREM SingleFlight == Spec => []OneLookupPerQuery
<1>1. IInv => OneLookupPerQuery
  BY DEF IInv, FlightInv, FlightOf, Leading, OneLookupPerQuery
<1> QED
  BY <1>1, Layers, PTL

(* A client that was answered and polls the same replica reaches the       *)
(* backend of its query unless the replica evicted the entry or restarted  *)
(* (WriteCache before the response is written), for every cache size.      *)
THEOREM StickyPolls == Spec => []PollIsSticky
<1>1. IInv => PollIsSticky
  BY DEF IInv, StickyInv, StickyOf, PollIsSticky
<1> QED
  BY <1>1, Layers, PTL

(* A request that leads its own history lookup, with no database error,    *)
(* for a query recorded before it arrived is sent to the query's owner.    *)
THEOREM LeadersFollowHistory == Spec => []LeaderFollowsHistory
<1>1. IInv => LeaderFollowsHistory
  <2> SUFFICES ASSUME IInv, NEW r \in Requests, known[r], call[r] = r,
                      ~failed[r], choice[r] # None
               PROVE  choice[r] = owner[target[r]]
    BY DEF LeaderFollowsHistory
  <2>1. LeaderOf(r) /\ StickyOf(r)
    BY DEF IInv, LeaderInv, StickyInv
  <2> QED
    BY <2>1 DEF LeaderOf, StickyOf, Before, Deciding, Asking
<1> QED
  BY <1>1, Layers, PTL

(* A request is refused with 502 only if a database call of its own failed *)
(* or no backend stayed active since it arrived, however the backend table *)
(* is edited between the reads that Route makes.                           *)
THEOREM RefusalJustified == Spec => []NoSpurious502
<1>1. IInv => NoSpurious502
  BY DEF IInv, AliveInv, AliveOf, NoSpurious502
<1> QED
  BY <1>1, Layers, PTL
=============================================================================
