----------------------- MODULE GatewayRouting_proofs -----------------------
(***************************************************************************)
(* Type correctness of GatewayRouting, for every set of requests,          *)
(* backends, groups and replicas and every cache size; and what a step of  *)
(* one request does and leaves alone, on which the safety proofs rest; and *)
(* that the query cache keeps its bound and its use order.                 *)
(***************************************************************************)
EXTENDS GatewayRouting, TLAPS

(* How long the provers may try a step that names none.                    *)
USE SMTT(15), ZenonT(20)

-----------------------------------------------------------------------------
(* Removing one entry of a sequence leaves a sequence one shorter. *)
LEMMA WithoutType ==
    ASSUME NEW S, NEW s \in Seq(S), NEW i \in 1 .. Len(s)
    PROVE  /\ Without(s, i) \in Seq(S)
           /\ Len(Without(s, i)) = Len(s) - 1
<1>1. Len(s) - 1 \in Nat
  OBVIOUS
<1>2. \A j \in 1 .. Len(s) - 1 : j \in 1 .. Len(s) /\ j + 1 \in 1 .. Len(s)
  OBVIOUS
<1>3. \A j \in 1 .. Len(s) : s[j] \in S
  OBVIOUS
<1>4. Without(s, i) \in [1 .. Len(s) - 1 -> S]
  BY <1>1, <1>2, <1>3 DEF Without
<1> QED
  BY <1>1, <1>4

(* The use order of the cache stays a sequence of queries when one is used. *)
LEMMA TouchType ==
    ASSUME NEW S, NEW s \in Seq(S), NEW q \in S
    PROVE  Touch(s, q) \in Seq(S)
<1>1. CASE \E i \in 1 .. Len(s) : s[i] = q
  <2>1. (CHOOSE i \in 1 .. Len(s) : s[i] = q) \in 1 .. Len(s)
    BY <1>1
  <2> QED
    BY <1>1, <2>1, WithoutType DEF Touch
<1>2. CASE ~ \E i \in 1 .. Len(s) : s[i] = q
  BY <1>2 DEF Touch
<1> QED
  BY <1>1, <1>2

(* Writing an entry keeps the cache, its use order and the record of the   *)
(* entries it lost well formed.                                            *)
LEMMA CacheSetType ==
    ASSUME CacheOK, NEW g \in Gateways, NEW q \in Query, NEW b \in Backends,
           CacheSet(g, q, b)
    PROVE  CacheOK'
<1> DEFINE full == cached[g][q] = None /\ Len(lru[g]) = CacheSize
<1>1. lru[g] \in Seq(Query)
  BY DEF CacheOK
<1>2. full => /\ Head(lru[g]) \in Query
              /\ Append(Tail(lru[g]), q) \in Seq(Query)
  <2>1. full => lru[g] # << >>
    BY <1>1, RoutingAssumption
  <2> QED
    BY <1>1, <2>1
<1>3. Touch(lru[g], q) \in Seq(Query)
  BY <1>1, TouchType
<1>4. cached' \in [Gateways -> [Query -> Backends \cup {None}]]
  BY DEF CacheSet, CacheOK
<1>5. lru' \in [Gateways -> Seq(Query)]
  BY <1>2, <1>3 DEF CacheSet, CacheOK
<1>6. forgot' \in [Gateways -> SUBSET Query]
  BY <1>2 DEF CacheSet, CacheOK
<1> QED
  BY <1>4, <1>5, <1>6 DEF CacheOK

(* Changing one value of a function, or one of a function of functions,    *)
(* keeps its type.                                                         *)
LEMMA ExceptType ==
    ASSUME NEW S, NEW U, NEW f \in [S -> U], NEW x, NEW v \in U
    PROVE  [f EXCEPT ![x] = v] \in [S -> U]
  BY Zenon

LEMMA ExceptType2 ==
    ASSUME NEW S, NEW U, NEW V, NEW f \in [S -> [U -> V]],
           NEW x \in S, NEW y, NEW v \in V
    PROVE  [f EXCEPT ![x][y] = v] \in [S -> [U -> V]]
  BY Zenon

(* The steps the actions go to are steps of a handler. *)
LEMMA StepNames ==
    /\ "idle" \in Steps /\ "recover" \in Steps /\ "lookup" \in Steps
    /\ "signal" \in Steps /\ "delete" \in Steps /\ "await" \in Steps
    /\ "list" \in Steps /\ "probe" \in Steps /\ "cache" \in Steps
    /\ "external" \in Steps /\ "first" \in Steps /\ "forward" \in Steps
    /\ "write" \in Steps /\ "insert" \in Steps /\ "answered" \in Steps
    /\ "nobackend" \in Steps /\ "error" \in Steps /\ "crashed" \in Steps
  BY DEF Running, Finished, Steps

-----------------------------------------------------------------------------
(* What a request knows at each step of its handler: one that uses a query *)
(* id has one, a follower has a call to wait for, and a forwarded request  *)
(* has a backend.                                                          *)
Asking == {"recover", "lookup", "signal", "delete", "await", "list", "probe",
           "cache"}
PathOK ==
    \A r \in Requests :
        /\ kind[r] \in {"kill", "poll"} => target[r] \in Query
        /\ pc[r] \in Asking => kind[r] \in {"kill", "poll"}
        /\ pc[r] = "await" => call[r] \in Requests
        /\ pc[r] \in {"forward", "write", "insert"} => choice[r] \in Backends

TypeInv == TypeOK /\ PathOK

(* Every step of the system preserves types and path facts. *)
LEMMA TypeStep == TypeInv /\ [Next]_vars => TypeInv'
<1>0. SUFFICES ASSUME TypeInv, [Next]_vars PROVE TypeInv'
  OBVIOUS
<1> USE TypeInv DEF TypeInv, TypeOK, tables, cache, flight, result, identity,
                    bounds, seenVars
<1>1. ASSUME NEW r \in Requests, Submit(r) PROVE TypeInv'
  <2> USE <1>1 DEF Submit, Admit
  <2>1. TablesOK' /\ CacheOK' /\ FlightOK' /\ ResultOK' /\ BoundsOK'
    BY DEF TablesOK, CacheOK, FlightOK, ResultOK, BoundsOK
  <2>2. RequestOK'
    BY StepNames DEF RequestOK, Goto
  <2>3. SeenOK'
    BY DEF SeenOK, Active
  <2>4. PathOK'
    BY DEF PathOK, Asking, RequestOK, Goto
  <2> QED
    BY <2>1, <2>2, <2>3, <2>4
<1>2. ASSUME NEW r \in Requests, NEW q \in Query, Ask(r, q) PROVE TypeInv'
  <2> USE <1>2 DEF Ask, Admit
  <2>1. TablesOK' /\ CacheOK' /\ FlightOK' /\ ResultOK' /\ BoundsOK'
    BY DEF TablesOK, CacheOK, FlightOK, ResultOK, BoundsOK
  <2>2. RequestOK'
    BY StepNames DEF RequestOK, Goto
  <2>3. SeenOK'
    BY DEF SeenOK, Active
  <2>4. PathOK'
    BY DEF PathOK, Asking, RequestOK, Goto
  <2> QED
    BY <2>1, <2>2, <2>3, <2>4
<1>3. ASSUME NEW r \in Requests, CacheLookup(r) PROVE TypeInv'
  <2> USE <1>3 DEF CacheLookup
  <2>1. target[r] \in Query /\ gw[r] \in Gateways
    BY DEF PathOK, Asking, RequestOK
  <2>2. TablesOK' /\ FlightOK' /\ BoundsOK' /\ SeenOK'
    BY DEF TablesOK, FlightOK, BoundsOK, SeenOK
  <2>3. CacheOK'
    <3>1. lru' = lru \/ lru' = [lru EXCEPT ![gw[r]] = Touch(@, target[r])]
      BY DEF CacheGet
    <3>2. Touch(lru[gw[r]], target[r]) \in Seq(Query)
      BY <2>1, TouchType DEF CacheOK
    <3>3. cached' = cached /\ forgot' = forgot
      BY DEF CacheGet
    <3> QED
      BY <3>1, <3>2, <3>3 DEF CacheOK
  <2>4. RequestOK'
    <3>1. pc' = [pc EXCEPT ![r] = "forward"] \/ pc' = [pc EXCEPT ![r] = "external"]
      BY DEF Decide, Goto
    <3> QED
      BY <3>1, StepNames DEF RequestOK
  <2>5. ResultOK'
    <3>1. cached[gw[r]][target[r]] \in Backends \cup {None}
      BY <2>1 DEF CacheOK
    <3>2. \/ choice' = choice /\ outcome' = outcome
          \/ /\ choice' = [choice EXCEPT ![r] = cached[gw[r]][target[r]]]
             /\ outcome' = [outcome EXCEPT ![r] = "ok"]
      BY DEF Decide
    <3> QED
      BY <3>1, <3>2 DEF ResultOK
  <2>6. PathOK'
    BY <2>1 DEF PathOK, Asking, RequestOK, ResultOK, CacheOK, Decide, Goto
  <2> QED
    BY <2>2, <2>3, <2>4, <2>5, <2>6
<1>4. ASSUME NEW r \in Requests, ResolveGroup(r) PROVE TypeInv'
  <2> USE <1>4 DEF ResolveGroup
  <2>1. TablesOK' /\ CacheOK' /\ FlightOK' /\ BoundsOK'
    BY DEF TablesOK, CacheOK, FlightOK, BoundsOK
  <2>2. RequestOK'
    BY StepNames DEF RequestOK, Decide, Goto
  <2>3. ResultOK'
    BY Zenon DEF ResultOK, Decide, Active
  <2>4. SeenOK'
    BY Zenon DEF SeenOK, NoteFailure
  <2>5. PathOK'
    BY DEF PathOK, Asking, RequestOK, ResultOK, Decide, Goto, Active
  <2> QED
    BY <2>1, <2>2, <2>3, <2>4, <2>5
<1>5. ASSUME NEW r \in Requests, FirstActiveBackend(r) PROVE TypeInv'
  <2> USE <1>5 DEF FirstActiveBackend
  <2>1. TablesOK' /\ CacheOK' /\ FlightOK' /\ BoundsOK'
    BY DEF TablesOK, CacheOK, FlightOK, BoundsOK
  <2>2. RequestOK'
    BY StepNames DEF RequestOK, Decide, Goto
  <2>3. ResultOK'
    BY DEF ResultOK, Decide, Active
  <2>4. SeenOK'
    BY Zenon DEF SeenOK, NoteFailure
  <2>5. PathOK'
    BY DEF PathOK, Asking, RequestOK, ResultOK, Decide, Goto, Active
  <2> QED
    BY <2>1, <2>2, <2>3, <2>4, <2>5
<1>6. ASSUME NEW r \in Requests, FlightEnter(r) PROVE TypeInv'
  <2> USE <1>6 DEF FlightEnter
  <2>1. target[r] \in Query /\ gw[r] \in Gateways
    BY DEF PathOK, Asking, RequestOK
  <2>2. TablesOK' /\ CacheOK' /\ ResultOK' /\ BoundsOK' /\ SeenOK'
    BY DEF TablesOK, CacheOK, ResultOK, BoundsOK, SeenOK
  <2>3. FlightOK'
    BY <2>1 DEF FlightOK
  <2>4. RequestOK'
    BY StepNames DEF RequestOK, Goto
  <2>5. PathOK'
    BY <2>1 DEF PathOK, Asking, RequestOK, FlightOK, Goto
  <2> QED
    BY <2>2, <2>3, <2>4, <2>5
<1>7. ASSUME NEW r \in Requests, FlightLookup(r) PROVE TypeInv'
  <2> USE <1>7 DEF FlightLookup
  <2>1. target[r] \in Query /\ gw[r] \in Gateways
    BY DEF PathOK, Asking, RequestOK
  <2>2. TablesOK' /\ CacheOK' /\ ResultOK' /\ BoundsOK'
    BY DEF TablesOK, CacheOK, ResultOK, BoundsOK
  <2>3. FlightOK'
    BY <2>1 DEF FlightOK, TablesOK
  <2>4. RequestOK'
    BY StepNames DEF RequestOK, Goto
  <2>5. SeenOK'
    BY Zenon DEF SeenOK, NoteFailure
  <2>6. PathOK'
    BY DEF PathOK, Asking, RequestOK, Goto
  <2> QED
    BY <2>2, <2>3, <2>4, <2>5, <2>6, Zenon
<1>8. ASSUME NEW r \in Requests, FlightDone(r) PROVE TypeInv'
  <2> USE <1>8 DEF FlightDone
  <2>1. TablesOK' /\ CacheOK' /\ ResultOK' /\ BoundsOK' /\ SeenOK'
    BY DEF TablesOK, CacheOK, ResultOK, BoundsOK, SeenOK
  <2>2. FlightOK'
    BY DEF FlightOK
  <2>3. RequestOK'
    BY StepNames DEF RequestOK, Goto
  <2>4. PathOK'
    BY DEF PathOK, Asking, RequestOK, Goto
  <2> QED
    BY <2>1, <2>2, <2>3, <2>4
<1>9. ASSUME NEW r \in Requests, FlightDelete(r) PROVE TypeInv'
  <2>1. TablesOK' /\ CacheOK' /\ BoundsOK' /\ SeenOK'
    BY <1>9 DEF FlightDelete, FlightReturn, TablesOK, CacheOK, BoundsOK, SeenOK
  <2>2. FlightOK'
    <3>1. inflight' = [inflight EXCEPT ![gw[r]][target[r]] = None]
      BY <1>9, Zenon DEF FlightDelete
    <3>2. call' = call /\ val' = val /\ signalled' = signalled
      BY <1>9 DEF FlightDelete, FlightReturn
    <3>3. inflight' \in [Gateways -> [Query -> Requests \cup {None}]]
      <4>1. /\ inflight \in [Gateways -> [Query -> Requests \cup {None}]]
            /\ gw[r] \in Gateways
        BY Zenon DEF FlightOK, RequestOK
      <4>2. None \in Requests \cup {None}
        BY Zenon
      <4> QED BY <3>1, <4>2, <4>1, ExceptType2, Zenon
    <3> QED BY <3>2, <3>3, Zenon DEF FlightOK
  <2>3. RequestOK'
    BY <1>9, StepNames DEF FlightDelete, FlightReturn, RequestOK, Recovered, Decide, Goto
  <2>4. ResultOK'
    BY <1>9 DEF FlightDelete, FlightReturn, ResultOK, Recovered, Decide, FlightOK
  <2>5. PathOK'
    BY <1>9 DEF FlightDelete, FlightReturn, PathOK, Asking, RequestOK, ResultOK,
         FlightOK, Recovered, Decide, Goto
  <2> QED
    BY <2>1, <2>2, <2>3, <2>4, <2>5
<1>10. ASSUME NEW r \in Requests, FlightAwait(r) PROVE TypeInv'
  <2> USE <1>10 DEF FlightAwait, FlightReturn
  <2>1. call[r] \in Requests
    BY DEF PathOK, Asking, RequestOK
  <2>2. TablesOK' /\ CacheOK' /\ BoundsOK' /\ SeenOK'
    BY DEF TablesOK, CacheOK, BoundsOK, SeenOK
  <2>3. FlightOK'
    BY DEF FlightOK
  <2>4. RequestOK'
    BY StepNames DEF RequestOK, Recovered, Decide, Goto
  <2>5. ResultOK'
    BY <2>1 DEF ResultOK, Recovered, Decide, FlightOK
  <2>6. PathOK'
    BY <2>1 DEF PathOK, Asking, RequestOK, ResultOK, FlightOK, Recovered, Decide, Goto
  <2> QED
    BY <2>2, <2>3, <2>4, <2>5, <2>6, Zenon
<1>11. ASSUME NEW r \in Requests, RecoverList(r) PROVE TypeInv'
  <2> USE <1>11 DEF RecoverList
  <2>1. TablesOK' /\ CacheOK' /\ FlightOK' /\ BoundsOK'
    BY DEF TablesOK, CacheOK, FlightOK, BoundsOK
  <2>2. RequestOK'
    BY StepNames DEF RequestOK, NotRecovered, Goto
  <2>3. ResultOK'
    BY DEF ResultOK, NotRecovered, Active
  <2>4. SeenOK'
    BY Zenon DEF SeenOK, NoteFailure
  <2>5. PathOK'
    BY DEF PathOK, Asking, RequestOK, NotRecovered, Goto
  <2> QED
    BY <2>1, <2>2, <2>3, <2>4, <2>5, Zenon
<1>12. ASSUME NEW r \in Requests, HeadProbe(r) PROVE TypeInv'
  <2> USE <1>12 DEF HeadProbe
  <2>1. TablesOK' /\ CacheOK' /\ FlightOK' /\ BoundsOK' /\ SeenOK'
    BY DEF TablesOK, CacheOK, FlightOK, BoundsOK, SeenOK
  <2>2. RequestOK'
    BY StepNames DEF RequestOK, Recovered, Decide, Goto
  <2>3. ResultOK'
    BY DEF ResultOK, Recovered, Decide
  <2>4. PathOK'
    BY DEF PathOK, Asking, RequestOK, ResultOK, Recovered, Decide, Goto
  <2> QED
    BY <2>1, <2>2, <2>3, <2>4
<1>13. ASSUME NEW r \in Requests, PropagateErrors(r) PROVE TypeInv'
  <2> USE <1>13 DEF PropagateErrors, ForwardFrame
  <2>1. CacheOK' /\ FlightOK' /\ ResultOK' /\ BoundsOK' /\ SeenOK'
    BY DEF CacheOK, FlightOK, ResultOK, BoundsOK, SeenOK
  <2>2. TablesOK'
    BY DEF TablesOK
  <2>3. RequestOK'
    BY StepNames DEF RequestOK, Goto
  <2>4. PathOK'
    BY DEF PathOK, Asking, RequestOK, Goto
  <2> QED
    BY <2>1, <2>2, <2>3, <2>4, Zenon
<1>14. ASSUME NEW r \in Requests, UpstreamStatement(r) PROVE TypeInv'
  <2> USE <1>14 DEF UpstreamStatement, ForwardFrame
  <2>1. CacheOK' /\ FlightOK' /\ ResultOK' /\ BoundsOK' /\ SeenOK'
    BY DEF CacheOK, FlightOK, ResultOK, BoundsOK, SeenOK
  <2>2. TablesOK'
    <3>1. owner' = [owner EXCEPT ![r] = choice[r]]
      BY Zenon
    <3>2. owner' \in [Query -> Backends \cup {None}]
      <4>1. /\ owner \in [Query -> Backends \cup {None}]
            /\ choice[r] \in Backends \cup {None}
        BY DEF TablesOK, ResultOK
      <4> QED BY <3>1, <4>1, ExceptType, Zenon
    <3>3. rowGroup' = rowGroup /\ active' = active /\ history' = history
      OBVIOUS
    <3> QED BY <3>2, <3>3, Zenon DEF TablesOK
  <2>3. RequestOK'
    BY StepNames DEF RequestOK, Goto
  <2>4. PathOK'
    BY DEF PathOK, Asking, RequestOK, Goto
  <2> QED
    BY <2>1, <2>2, <2>3, <2>4
<1>15. ASSUME NEW r \in Requests, UpstreamOther(r) PROVE TypeInv'
  <2> USE <1>15 DEF UpstreamOther, Respond, ForwardFrame
  <2>1. CacheOK' /\ FlightOK' /\ ResultOK' /\ BoundsOK' /\ SeenOK'
    BY DEF CacheOK, FlightOK, ResultOK, BoundsOK, SeenOK
  <2>2. TablesOK'
    BY Zenon DEF TablesOK
  <2>3. RequestOK'
    BY StepNames DEF RequestOK, Goto
  <2>4. PathOK'
    BY DEF PathOK, Asking, RequestOK, Goto
  <2> QED
    BY <2>1, <2>2, <2>3, <2>4
<1>16. ASSUME NEW r \in Requests, UpstreamError(r) PROVE TypeInv'
  <2> USE <1>16 DEF UpstreamError, ForwardFrame
  <2>1. CacheOK' /\ FlightOK' /\ ResultOK' /\ BoundsOK' /\ SeenOK'
    BY DEF CacheOK, FlightOK, ResultOK, BoundsOK, SeenOK
  <2>2. TablesOK'
    BY DEF TablesOK
  <2>3. RequestOK'
    BY StepNames DEF RequestOK, Goto
  <2>4. PathOK'
    BY DEF PathOK, Asking, RequestOK, Goto
  <2> QED
    BY <2>1, <2>2, <2>3, <2>4
<1>17. ASSUME NEW r \in Requests, WriteCache(r) PROVE TypeInv'
  <2> USE <1>17 DEF WriteCache
  <2>1. gw[r] \in Gateways /\ r \in Query /\ choice[r] \in Backends
    BY DEF PathOK, Asking, RequestOK, Query
  <2>2. TablesOK' /\ FlightOK' /\ ResultOK' /\ BoundsOK' /\ SeenOK'
    BY DEF TablesOK, FlightOK, ResultOK, BoundsOK, SeenOK
  <2>3. CacheOK'
    BY <2>1, CacheSetType, Zenon
  <2>4. RequestOK'
    BY StepNames DEF RequestOK, Goto
  <2>5. PathOK'
    BY DEF PathOK, Asking, RequestOK, Goto
  <2> QED
    BY <2>2, <2>3, <2>4, <2>5
<1>18. ASSUME NEW r \in Requests, HistoryInsert(r) PROVE TypeInv'
  <2> USE <1>18 DEF HistoryInsert, Respond
  <2>1. CacheOK' /\ FlightOK' /\ ResultOK' /\ BoundsOK'
    BY DEF CacheOK, FlightOK, ResultOK, BoundsOK
  <2>2. TablesOK'
    BY DEF TablesOK, ResultOK
  <2>3. RequestOK'
    BY StepNames DEF RequestOK, Goto
  <2>4. SeenOK'
    BY Zenon DEF SeenOK, NoteFailure
  <2>5. PathOK'
    BY DEF PathOK, Asking, RequestOK, Goto
  <2> QED
    BY <2>1, <2>2, <2>3, <2>4, <2>5
<1>19. ASSUME NEW r \in Requests, ClientGone(r) PROVE TypeInv'
  <2> USE <1>19 DEF ClientGone
  <2>1. TablesOK' /\ CacheOK' /\ FlightOK' /\ ResultOK' /\ SeenOK'
    BY DEF TablesOK, CacheOK, FlightOK, ResultOK, SeenOK
  <2>2. RequestOK'
    BY DEF RequestOK
  <2>3. BoundsOK'
    BY RoutingAssumption DEF BoundsOK
  <2>4. PathOK'
    BY DEF PathOK, Asking
  <2> QED
    BY <2>1, <2>2, <2>3, <2>4
<1>20. ASSUME NEW b \in Backends, NEW grp \in Groups \cup {None},
             NEW act \in BOOLEAN,
             EditBackend(b, grp, act)
      PROVE  TypeInv'
  <2> USE <1>20 DEF EditBackend
  <2>1. CacheOK' /\ FlightOK' /\ RequestOK' /\ ResultOK'
    BY DEF CacheOK, FlightOK, RequestOK, ResultOK
  <2>2. TablesOK'
    BY DEF TablesOK
  <2>3. BoundsOK'
    BY RoutingAssumption DEF BoundsOK
  <2>4. SeenOK'
    BY DEF SeenOK
  <2>5. PathOK'
    BY DEF PathOK, Asking
  <2> QED
    BY <2>1, <2>2, <2>3, <2>4, <2>5
<1>21. ASSUME NEW b \in Backends, Upsert(b) PROVE TypeInv'
  BY <1>20, <1>21 DEF Upsert
<1>22. ASSUME NEW b \in Backends, SetActive(b) PROVE TypeInv'
  <2>1. rowGroup[b] \in Groups \cup {None} /\ (~active[b]) \in BOOLEAN
    BY DEF TablesOK
  <2>2. EditBackend(b, rowGroup[b], ~active[b])
    BY <1>22, Zenon DEF SetActive
  <2> QED BY <1>20, <2>1, <2>2, Zenon
<1>23. ASSUME NEW b \in Backends, Delete(b) PROVE TypeInv'
  <2>1. EditBackend(b, None, FALSE)
    BY <1>23, Zenon DEF Delete
  <2>2. None \in Groups \cup {None} /\ FALSE \in BOOLEAN
    OBVIOUS
  <2> QED BY <1>20, <2>1, <2>2, Zenon
<1>24. ASSUME NEW g \in Gateways, Restart(g) PROVE TypeInv'
  <2> USE <1>24 DEF Restart
  <2>1. TablesOK' /\ ResultOK' /\ SeenOK'
    BY DEF TablesOK, ResultOK, SeenOK
  <2>2. CacheOK'
    BY DEF CacheOK
  <2>3. FlightOK'
    BY DEF FlightOK
  <2>4. RequestOK'
    BY StepNames DEF RequestOK
  <2>5. BoundsOK'
    BY RoutingAssumption DEF BoundsOK
  <2>6. PathOK'
    BY DEF PathOK, Asking, RequestOK, Running, Finished
  <2> QED
    BY <2>1, <2>2, <2>3, <2>4, <2>5, <2>6
<1>25. CASE UNCHANGED vars
  BY <1>25 DEF vars, PathOK, TablesOK, CacheOK, FlightOK, RequestOK, ResultOK, BoundsOK, SeenOK
<1> QED
  BY <1>0, <1>1, <1>2, <1>3, <1>4, <1>5, <1>6, <1>7, <1>8, <1>9,
     <1>10, <1>11, <1>12, <1>13, <1>14, <1>15, <1>16, <1>17, <1>18,
     <1>19, <1>21, <1>22, <1>23, <1>24, <1>25, Zenon
     DEF Next, Step

(* The initial states have their types. *)
LEMMA InitTypes == Init => TypeInv
<1> SUFFICES ASSUME Init PROVE TypeInv
  OBVIOUS
<1> USE DEF Init
<1>1. TablesOK
  BY DEF TablesOK
<1>2. CacheOK /\ FlightOK
  BY DEF CacheOK, FlightOK
<1>3. RequestOK
  BY StepNames DEF RequestOK
<1>4. ResultOK /\ SeenOK
  BY DEF ResultOK, SeenOK
<1>5. BoundsOK
  BY RoutingAssumption DEF BoundsOK
<1>6. PathOK
  BY RoutingAssumption, Zenon DEF PathOK, Asking
<1> QED
  BY <1>1, <1>2, <1>3, <1>4, <1>5, <1>6 DEF TypeInv, TypeOK

(* In every reachable state the tables, the caches, the singleflight maps  *)
(* and the requests' local state have their types; no step of a handler    *)
(* stores a value of the wrong kind, or uses a query id, a call or a       *)
(* backend it does not have.                                               *)
THEOREM TypeCorrect == Spec => []TypeOK
<1>1. TypeInv => TypeOK
  BY DEF TypeInv
<1> QED
  BY <1>1, InitTypes, TypeStep, PTL DEF Spec

-----------------------------------------------------------------------------
(* What a step of request r leaves alone: the other requests, the replica  *)
(* of every request, the backend table, every record but the one of r; a   *)
(* cache entry goes only if the replica notes that it forgot it.           *)
OthersKeep(r) ==
    \A s \in Requests \ {r} :
        /\ pc'[s] = pc[s] /\ kind'[s] = kind[s] /\ target'[s] = target[s]
        /\ call'[s] = call[s] /\ val'[s] = val[s] /\ choice'[s] = choice[s]
        /\ known'[s] = known[s] /\ sticky'[s] = sticky[s]
        /\ failed'[s] = failed[s] /\ alive'[s] = alive[s]
TablesKeep(r) ==
    /\ gw' = gw /\ active' = active
    /\ \A q \in Query \ {r} : owner'[q] = owner[q] /\ history'[q] = history[q]
    /\ history[r] # None => history'[r] = history[r]
CacheKeeps ==
    \A g \in Gateways, q \in Query :
        /\ cached[g][q] # None => cached'[g][q] # None \/ q \in forgot'[g]
        /\ q \in forgot[g] => q \in forgot'[g]

(* The steps of one request: its arrival and those of its handler.         *)
Moves(r) == Submit(r) \/ (\E q \in Query : Ask(r, q)) \/ Step(r)

(* Writing an entry changes that entry, may drop one other, and records    *)
(* what it drops.                                                          *)
LEMMA CacheSetValue ==
    ASSUME CacheOK, NEW g \in Gateways, NEW q \in Query, NEW b \in Backends,
           CacheSet(g, q, b), NEW h \in Gateways, NEW p \in Query
    PROVE  /\ h = g /\ p = q => cached'[h][p] = b
           /\ ~(h = g /\ p = q) => cached'[h][p] \in {None, cached[h][p]}
           /\ cached[h][p] # None => cached'[h][p] # None \/ p \in forgot'[h]
           /\ forgot[h] \subseteq forgot'[h]
<1> DEFINE full == cached[g][q] = None /\ Len(lru[g]) = CacheSize
           old  == Head(lru[g])
           keep == IF full THEN [cached[g] EXCEPT ![old] = None] ELSE cached[g]
           lost == IF full THEN forgot[g] \cup {old} ELSE forgot[g]
<1>1. cached' = [cached EXCEPT ![g] = [keep EXCEPT ![q] = b]]
  BY Zenon DEF CacheSet
<1>2. forgot' = [forgot EXCEPT ![g] = lost]
  BY Zenon DEF CacheSet
<1>3. /\ cached \in [Gateways -> [Query -> Backends \cup {None}]]
      /\ forgot \in [Gateways -> SUBSET Query] /\ None \notin Backends
  BY RoutingAssumption DEF CacheOK
<1> HIDE DEF full, old
<1>4. /\ keep \in [Query -> Backends \cup {None}] /\ forgot[g] \subseteq lost
      /\ \A x \in Query : \/ keep[x] = cached[g][x]
                          \/ keep[x] = None /\ x \in lost
  <2>1. CASE full
    <3>1. /\ keep = [cached[g] EXCEPT ![old] = None]
          /\ lost = forgot[g] \cup {old}
      BY <2>1
    <3>2. cached[g] \in [Query -> Backends \cup {None}]
      BY <1>3
    <3> HIDE DEF keep, lost
    <3>3. \A x \in Query : keep[x] = IF x = old THEN None ELSE cached[g][x]
      BY <3>1, <3>2
    <3>4. keep \in [Query -> Backends \cup {None}]
      BY <3>1, <3>2, Zenon
    <3>5. old \in lost /\ forgot[g] \subseteq lost
      BY <3>1
    <3> QED BY <3>3, <3>4, <3>5
  <2>2. CASE ~full BY <1>3, <2>2
  <2> QED BY <2>1, <2>2
<1> HIDE DEF keep, lost
<1>5. CASE h = g
  <2>1. cached'[h] = [keep EXCEPT ![q] = b] /\ forgot'[h] = lost
    BY <1>1, <1>2, <1>3, <1>5
  <2> QED BY <1>3, <1>4, <1>5, <2>1
<1>6. CASE h # g
  BY <1>1, <1>2, <1>3, <1>6
<1> QED BY <1>5, <1>6

(* A step of one request changes no other.                                 *)
LEMMA MovesKeepOthers ==
    ASSUME TypeInv, NEW r \in Requests, Moves(r) PROVE OthersKeep(r)
<1> SUFFICES ASSUME NEW s \in Requests, s # r
    PROVE /\ pc'[s] = pc[s] /\ kind'[s] = kind[s] /\ target'[s] = target[s]
          /\ call'[s] = call[s] /\ val'[s] = val[s] /\ choice'[s] = choice[s]
          /\ known'[s] = known[s] /\ sticky'[s] = sticky[s]
          /\ failed'[s] = failed[s] /\ alive'[s] = alive[s]
  BY DEF OthersKeep
<1> USE DEF Goto, flight, result, identity, seenVars
<1>1. /\ pc \in [Requests -> Steps] /\ kind \in [Requests -> Kinds \cup {None}]
      /\ target \in [Requests -> Query \cup {None}]
      /\ call \in [Requests -> Requests \cup {None}]
      /\ val \in [Requests -> Backends \cup {None}]
      /\ choice \in [Requests -> Backends \cup {None}]
      /\ known \in [Requests -> BOOLEAN] /\ sticky \in [Requests -> BOOLEAN]
      /\ failed \in [Requests -> BOOLEAN]
      /\ alive \in [Requests -> SUBSET Backends]
  BY DEF TypeInv, TypeOK, RequestOK, FlightOK, ResultOK, SeenOK
<1>2. CASE Submit(r) BY <1>1, <1>2 DEF Submit, Admit
<1>3. CASE \E q \in Query : Ask(r, q) BY <1>1, <1>3 DEF Ask, Admit
<1>4. CASE CacheLookup(r) BY <1>1, <1>4, Zenon DEF CacheLookup, Decide
<1>5. CASE ResolveGroup(r)
  BY <1>1, <1>5, Zenon DEF ResolveGroup, Decide, NoteFailure
<1>6. CASE FirstActiveBackend(r)
  BY <1>1, <1>6 DEF FirstActiveBackend, Decide, NoteFailure
<1>7. CASE FlightEnter(r) BY <1>1, <1>7 DEF FlightEnter
<1>8. CASE FlightLookup(r) BY <1>1, <1>8, Zenon DEF FlightLookup, NoteFailure
<1>9. CASE FlightDone(r) BY <1>1, <1>9 DEF FlightDone
<1>10. CASE FlightDelete(r)
  BY <1>1, <1>10 DEF FlightDelete, FlightReturn, Recovered, Decide
<1>11. CASE FlightAwait(r)
  BY <1>1, <1>11 DEF FlightAwait, FlightReturn, Recovered, Decide
<1>12. CASE RecoverList(r)
  BY <1>1, <1>12 DEF RecoverList, NotRecovered, NoteFailure
<1>13. CASE HeadProbe(r) BY <1>1, <1>13 DEF HeadProbe, Recovered, Decide
<1>14. CASE PropagateErrors(r)
  BY <1>1, <1>14 DEF PropagateErrors, ForwardFrame
<1>15. CASE UpstreamStatement(r)
  BY <1>1, <1>15 DEF UpstreamStatement, ForwardFrame
<1>16. CASE UpstreamOther(r)
  BY <1>1, <1>16 DEF UpstreamOther, Respond, ForwardFrame
<1>17. CASE UpstreamError(r) BY <1>1, <1>17 DEF UpstreamError, ForwardFrame
<1>18. CASE WriteCache(r) BY <1>1, <1>18 DEF WriteCache
<1>19. CASE HistoryInsert(r)
  BY <1>1, <1>19, Zenon DEF HistoryInsert, NoteFailure, Respond
<1> QED
  BY ZenonT(40), <1>2, <1>3, <1>4, <1>5, <1>6, <1>7, <1>8, <1>9, <1>10, <1>11, <1>12,
     <1>13, <1>14, <1>15, <1>16, <1>17, <1>18, <1>19 DEF Moves, Step

(* A step of one request writes no record but its own, and none twice.     *)
LEMMA MovesKeepTables ==
    ASSUME TypeInv, NEW r \in Requests, Moves(r) PROVE TablesKeep(r)
<1> USE DEF TablesKeep, tables, identity
<1>1. /\ owner \in [Query -> Backends \cup {None}]
      /\ history \in [Query -> Backends \cup {None}]
      /\ r \in Query
  BY Zenon DEF TypeInv, TypeOK, TablesOK, Query
<1>2. CASE UpstreamStatement(r)
  BY <1>1, <1>2 DEF UpstreamStatement, ForwardFrame
<1>3. CASE HistoryInsert(r) BY <1>1, <1>3, Zenon DEF HistoryInsert
<1>4. CASE Moves(r) /\ ~UpstreamStatement(r) /\ ~HistoryInsert(r)
  <2>1. UNCHANGED <<gw, active, owner, history>>
    BY <1>4, Zenon DEF Moves, Step, Submit, Ask, Admit, CacheLookup, ResolveGroup,
         FirstActiveBackend, FlightEnter, FlightLookup, FlightDone,
         FlightDelete, FlightAwait, FlightReturn, RecoverList, HeadProbe,
         PropagateErrors, UpstreamOther, UpstreamError, WriteCache,
         ForwardFrame
  <2> QED BY <2>1, Zenon DEF TablesKeep
<1> QED BY <1>2, <1>3, <1>4, Zenon

(* A step of one request drops no cache entry without noting it.           *)
LEMMA MovesKeepCache ==
    ASSUME TypeInv, NEW r \in Requests, Moves(r) PROVE CacheKeeps
<1>1. CASE WriteCache(r)
  <2>1. /\ CacheSet(gw[r], r, choice[r]) /\ choice[r] \in Backends
        /\ gw[r] \in Gateways /\ r \in Query /\ CacheOK
    BY <1>1 DEF WriteCache, TypeInv, TypeOK, PathOK, RequestOK, Query
  <2> QED BY <2>1, CacheSetValue, Zenon DEF CacheKeeps
<1>2. CASE Moves(r) /\ ~WriteCache(r)
  <2>1. UNCHANGED <<cached, forgot>>
    BY <1>2, Zenon DEF Moves, Step, Submit, Ask, Admit, CacheLookup, CacheGet,
         ResolveGroup, FirstActiveBackend, FlightEnter, FlightLookup,
         FlightDone, FlightDelete, FlightAwait, FlightReturn, RecoverList,
         HeadProbe, PropagateErrors, UpstreamStatement, UpstreamOther,
         UpstreamError, HistoryInsert, ForwardFrame, cache, seenVars
  <2> QED BY <2>1, Zenon DEF CacheKeeps
<1> QED BY <1>1, <1>2

(* The steps that are no request's: clients that go away, edits of the     *)
(* backend table, and nothing at all.                                      *)
Aside ==
    \/ \E r \in Requests : ClientGone(r)
    \/ \E b \in Backends : Upsert(b) \/ SetActive(b) \/ Delete(b)
    \/ UNCHANGED vars

(* Such a step changes nothing a request has done or recorded.             *)
LEMMA AsideKeeps ==
    ASSUME Aside
    PROVE  /\ UNCHANGED <<history, owner, cached, inflight, pc, kind, gw>>
           /\ UNCHANGED <<target, call, val, choice, known, sticky>>
           /\ UNCHANGED <<failed, forgot>>
<1>1. CASE \E r \in Requests : ClientGone(r)
  BY <1>1 DEF ClientGone, tables, cache, flight, result, identity, seenVars
<1>2. ASSUME NEW b \in Backends, Upsert(b) \/ SetActive(b) \/ Delete(b)
      PROVE  \E grp, act : EditBackend(b, grp, act)
  BY <1>2, Zenon DEF Upsert, SetActive, Delete
<1>3. CASE \E b \in Backends : Upsert(b) \/ SetActive(b) \/ Delete(b)
  BY <1>2, <1>3 DEF EditBackend, cache, flight, result, identity
<1>4. CASE UNCHANGED vars
  BY <1>4 DEF vars, tables, cache, flight, result, identity, seenVars
<1> QED BY <1>1, <1>3, <1>4 DEF Aside

(* Every step is one of a request, one aside or a crash.                   *)
LEMMA NextCases ==
    ASSUME [Next]_vars
    PROVE  \/ \E r \in Requests : Moves(r)
           \/ Aside
           \/ \E g \in Gateways : Restart(g)
  BY Zenon DEF Next, Moves, Aside

-----------------------------------------------------------------------------
(* The two halves of a handler. Route decides: it writes no record, and    *)
(* the choice is made by the step to "forward". Then the request is        *)
(* forwarded: its choice stands.                                           *)
Deciding == {"external", "first"} \cup Asking
Before == {"idle", "forward", "nobackend"} \cup Deciding
Kept(r) == /\ kind'[r] = kind[r] /\ target'[r] = target[r]
           /\ known'[r] = known[r] /\ sticky'[r] = sticky[r]
Routes(r) ==
    /\ pc[r] \in Deciding /\ Kept(r)
    /\ pc'[r] \in (Deciding \ {"cache"}) \cup {"forward", "nobackend"}
    /\ pc'[r] # "forward" => choice'[r] = choice[r]
    /\ owner' = owner /\ history' = history
    /\ cached' = cached /\ forgot' = forgot
Forwards(r) ==
    /\ pc[r] \in {"forward", "write", "insert"} /\ Kept(r)
    /\ pc'[r] \in {"write", "insert", "answered", "error"}
    /\ choice'[r] = choice[r] /\ val'[r] = val[r] /\ call'[r] = call[r]

(* The steps of Route.                                                     *)
RouteStep(r) ==
    \/ CacheLookup(r) \/ ResolveGroup(r) \/ FirstActiveBackend(r)
    \/ FlightEnter(r) \/ FlightLookup(r) \/ FlightDone(r) \/ FlightDelete(r)
    \/ FlightAwait(r) \/ RecoverList(r) \/ HeadProbe(r)
(* The steps after it.                                                     *)
ForwardStep(r) ==
    \/ PropagateErrors(r) \/ UpstreamStatement(r) \/ UpstreamOther(r)
    \/ UpstreamError(r) \/ WriteCache(r) \/ HistoryInsert(r)

(* Every step of Route decides and does not record.                        *)
LEMMA RouteSteps ==
    ASSUME TypeInv, NEW r \in Requests, RouteStep(r) PROVE Routes(r)
<1>1. pc \in [Requests -> Steps]
  BY Zenon DEF TypeInv, TypeOK, RequestOK
<1> USE DEF Goto, tables, cache, result, identity, seenVars, Routes, Kept,
            Deciding, Asking
<1>2. CASE CacheLookup(r) BY <1>1, <1>2, Zenon DEF CacheLookup, CacheGet, Decide
<1>3. CASE ResolveGroup(r) BY <1>1, <1>3, Zenon DEF ResolveGroup, Decide
<1>4. CASE FirstActiveBackend(r) BY <1>1, <1>4, Zenon DEF FirstActiveBackend, Decide
<1>5. CASE FlightEnter(r) BY <1>1, <1>5 DEF FlightEnter
<1>6. CASE FlightLookup(r) BY <1>1, <1>6, Zenon DEF FlightLookup
<1>7. CASE FlightDone(r) BY <1>1, <1>7, Zenon DEF FlightDone
<1>8. CASE FlightDelete(r)
  BY <1>1, <1>8 DEF FlightDelete, FlightReturn, Recovered, Decide
<1>9. CASE FlightAwait(r)
  BY <1>1, <1>9 DEF FlightAwait, FlightReturn, Recovered, Decide
<1>10. CASE RecoverList(r) BY <1>1, <1>10, Zenon DEF RecoverList, NotRecovered
<1>11. CASE HeadProbe(r) BY <1>1, <1>11, Zenon DEF HeadProbe, Recovered, Decide
<1> HIDE DEF Routes
<1> QED
  BY ZenonT(40), <1>2, <1>3, <1>4, <1>5, <1>6, <1>7, <1>8, <1>9, <1>10, <1>11
     DEF RouteStep

(* Every step after Route keeps its decision.                              *)
LEMMA ForwardSteps ==
    ASSUME TypeInv, NEW r \in Requests, ForwardStep(r) PROVE Forwards(r)
<1>1. pc \in [Requests -> Steps]
  BY Zenon DEF TypeInv, TypeOK, RequestOK
<1> USE DEF Goto, flight, result, identity, seenVars, Forwards, Kept
<1>2. CASE PropagateErrors(r)
  BY <1>1, <1>2, Zenon DEF PropagateErrors, ForwardFrame
<1>3. CASE UpstreamStatement(r)
  BY <1>1, <1>3 DEF UpstreamStatement, ForwardFrame
<1>4. CASE UpstreamOther(r)
  BY <1>1, <1>4 DEF UpstreamOther, Respond, ForwardFrame
<1>5. CASE UpstreamError(r) BY <1>1, <1>5 DEF UpstreamError, ForwardFrame
<1>6. CASE WriteCache(r) BY <1>1, <1>6, Zenon DEF WriteCache
<1>7. CASE HistoryInsert(r) BY <1>1, <1>7, Zenon DEF HistoryInsert, Respond
<1> HIDE DEF Forwards
<1> QED
  BY ZenonT(40), <1>2, <1>3, <1>4, <1>5, <1>6, <1>7 DEF ForwardStep

(* A step of a request is its arrival, one of Route or one after it.       *)
LEMMA MoveCases ==
    ASSUME NEW r \in Requests, Moves(r)
    PROVE  \/ Submit(r) \/ (\E q \in Query : Ask(r, q))
           \/ RouteStep(r) \/ ForwardStep(r)
  BY ZenonT(40) DEF Moves, Step, RouteStep, ForwardStep
-----------------------------------------------------------------------------
(* The query cache.  The argument is about lists without repetition:       *)
(* taking an entry out, appending one and dropping the first keep them so. *)
(* Lists without repetition, and what they hold.                           *)

Distinct(s) == \A i, j \in 1 .. Len(s) : s[i] = s[j] => i = j
Holds(s, q) == \E i \in 1 .. Len(s) : s[i] = q

(* Without an entry, a list holds everything else.                         *)
LEMMA WithoutList ==
    ASSUME NEW S, NEW s \in Seq(S), Distinct(s), NEW i \in 1 .. Len(s)
    PROVE  /\ Distinct(Without(s, i))
           /\ \A p : Holds(Without(s, i), p) <=> p # s[i] /\ Holds(s, p)
<1> DEFINE w == Without(s, i)
           at(j) == IF j < i THEN j ELSE j + 1
<1>1. Len(w) = Len(s) - 1 BY WithoutType
<1>2. \A j \in 1 .. Len(w) : at(j) \in 1 .. Len(s) /\ at(j) # i /\ w[j] = s[at(j)]
  BY <1>1 DEF Without
<1>3. Distinct(w)
  <2> SUFFICES ASSUME NEW j \in 1 .. Len(w), NEW k \in 1 .. Len(w), w[j] = w[k]
               PROVE  j = k
    BY DEF Distinct
  <2>1. at(j) = at(k) BY <1>2 DEF Distinct
  <2> QED BY <1>1, <2>1
<1>4. ASSUME NEW p, Holds(w, p) PROVE p # s[i] /\ Holds(s, p)
  <2>1. PICK j \in 1 .. Len(w) : w[j] = p BY <1>4 DEF Holds
  <2>2. at(j) \in 1 .. Len(s) /\ at(j) # i /\ p = s[at(j)] BY <1>2, <2>1
  <2> HIDE DEF at
  <2> QED BY <2>2 DEF Distinct, Holds
<1>5. ASSUME NEW p, p # s[i], Holds(s, p) PROVE Holds(w, p)
  <2>1. PICK k \in 1 .. Len(s) : s[k] = p BY <1>5 DEF Holds
  <2>2. k # i BY <1>5, <2>1
  <2>3. CASE k < i
    <3>1. k \in 1 .. Len(w) /\ at(k) = k BY <1>1, <2>3
    <3> QED BY <1>2, <2>1, <3>1 DEF Holds
  <2>4. CASE k > i
    <3>1. k - 1 \in 1 .. Len(w) /\ at(k - 1) = k BY <1>1, <2>4
    <3> QED BY <1>2, <2>1, <3>1, Zenon DEF Holds
  <2> QED BY <2>2, <2>3, <2>4
<1> QED BY <1>3, <1>4, <1>5

(* An appended entry is held too.                                          *)
LEMMA AppendList ==
    ASSUME NEW S, NEW s \in Seq(S), NEW q \in S, Distinct(s), ~Holds(s, q)
    PROVE  /\ Distinct(Append(s, q)) /\ Len(Append(s, q)) = Len(s) + 1
           /\ \A p : Holds(Append(s, q), p) <=> p = q \/ Holds(s, p)
<1> DEFINE a == Append(s, q)
<1>1. /\ Len(a) = Len(s) + 1 /\ a[Len(s) + 1] = q
      /\ \A j \in 1 .. Len(s) : a[j] = s[j]
  OBVIOUS
<1> HIDE DEF a
<1>2. Distinct(a) BY <1>1 DEF Distinct, Holds
<1>3. \A p : Holds(a, p) <=> p = q \/ Holds(s, p)
  <2>1. ASSUME NEW p, Holds(a, p) PROVE p = q \/ Holds(s, p)
    BY <1>1, <2>1 DEF Holds
  <2>2. ASSUME NEW p, p = q \/ Holds(s, p) PROVE Holds(a, p)
    <3>1. CASE p = q
      <4>1. Len(s) + 1 \in 1 .. Len(a) BY <1>1
      <4> QED BY <1>1, <3>1, <4>1 DEF Holds
    <3>2. CASE Holds(s, p) BY <1>1, <3>2 DEF Holds
    <3> QED BY <2>2, <3>1, <3>2
  <2> QED BY <2>1, <2>2
<1> QED BY <1>1, <1>2, <1>3 DEF a

(* Using an entry moves it to the end of the list, or appends it.          *)
LEMMA TouchList ==
    ASSUME NEW S, NEW s \in Seq(S), NEW q \in S, Distinct(s)
    PROVE  /\ Distinct(Touch(s, q))
           /\ Len(Touch(s, q)) = IF Holds(s, q) THEN Len(s) ELSE Len(s) + 1
           /\ \A p : Holds(Touch(s, q), p) <=> p = q \/ Holds(s, p)
<1>1. CASE Holds(s, q)
  <2> DEFINE i == CHOOSE k \in 1 .. Len(s) : s[k] = q
             w == Without(s, i)
  <2>1. i \in 1 .. Len(s) /\ s[i] = q BY <1>1 DEF Holds
  <2>2. Touch(s, q) = Append(w, q) BY <1>1 DEF Touch, Holds
  <2> HIDE DEF i
  <2>3. w \in Seq(S) /\ Len(w) = Len(s) - 1 BY <2>1, WithoutType
  <2>4. Distinct(w) /\ \A p : Holds(w, p) <=> p # q /\ Holds(s, p)
    BY <2>1, WithoutList
  <2> HIDE DEF w
  <2>5. ~Holds(w, q) BY <2>4
  <2>6. /\ Distinct(Append(w, q)) /\ Len(Append(w, q)) = Len(w) + 1
        /\ \A p : Holds(Append(w, q), p) <=> p = q \/ Holds(w, p)
    BY <2>3, <2>4, <2>5, AppendList
  <2>7. Len(Append(w, q)) = Len(s) BY <2>3, <2>6
  <2>8. \A p : Holds(Append(w, q), p) <=> p = q \/ Holds(s, p)
    BY <1>1, <2>4, <2>6, Zenon
  <2> QED BY <1>1, <2>2, <2>6, <2>7, <2>8
<1>2. CASE ~Holds(s, q)
  <2>1. Touch(s, q) = Append(s, q) BY <1>2 DEF Touch, Holds
  <2> QED BY <1>2, <2>1, AppendList
<1> QED BY <1>1, <1>2

(* Dropping the first entry leaves the rest.                               *)
LEMMA TailList ==
    ASSUME NEW S, NEW s \in Seq(S), s # << >>, Distinct(s)
    PROVE  /\ Distinct(Tail(s)) /\ Len(Tail(s)) = Len(s) - 1
           /\ \A p : Holds(Tail(s), p) <=> p # Head(s) /\ Holds(s, p)
<1>1. Head(s) = s[1] /\ 1 \in 1 .. Len(s) OBVIOUS
<1> DEFINE w == Without(s, 1)
<1>2. w \in Seq(S) /\ Len(w) = Len(s) - 1 BY <1>1, WithoutType
<1>3. \A j \in 1 .. Len(s) - 1 : w[j] = s[j + 1] BY DEF Without
<1>4. /\ Tail(s) \in Seq(S) /\ Len(Tail(s)) = Len(s) - 1
      /\ \A j \in 1 .. Len(s) - 1 : Tail(s)[j] = s[j + 1]
  OBVIOUS
<1>5. Distinct(w) /\ \A p : Holds(w, p) <=> p # s[1] /\ Holds(s, p)
  BY <1>1, WithoutList
<1> HIDE DEF w
<1>6. Distinct(Tail(s)) BY <1>2, <1>3, <1>4, <1>5 DEF Distinct
<1>7. \A p : Holds(Tail(s), p) <=> Holds(w, p)
  BY <1>2, <1>3, <1>4 DEF Holds
<1> QED BY <1>1, <1>4, <1>5, <1>6, <1>7

-----------------------------------------------------------------------------
(* One replica's cache.                                                    *)

Sound(g) ==
    /\ Len(lru[g]) <= CacheSize /\ Distinct(lru[g])
    /\ \A q \in Query : cached[g][q] # None <=> Holds(lru[g], q)

(* A hit moves the entry to the end of the use order.                      *)
LEMMA CacheGetSound ==
    ASSUME CacheOK, NEW g \in Gateways, NEW q \in Query, Sound(g),
           cached[g][q] # None, CacheGet(g, q)
    PROVE  Sound(g)'
<1>1. lru[g] \in Seq(Query) /\ lru'[g] = Touch(lru[g], q) /\ cached' = cached
  BY DEF CacheOK, CacheGet
<1>2. Holds(lru[g], q) BY DEF Sound
<1>3. /\ Distinct(lru'[g]) /\ Len(lru'[g]) = Len(lru[g])
      /\ \A p : Holds(lru'[g], p) <=> p = q \/ Holds(lru[g], p)
  <2>1. Distinct(lru[g]) BY Zenon DEF Sound
  <2>2. /\ Distinct(Touch(lru[g], q))
        /\ Len(Touch(lru[g], q)) = IF Holds(lru[g], q) THEN Len(lru[g]) ELSE Len(lru[g]) + 1
        /\ \A p : Holds(Touch(lru[g], q), p) <=> p = q \/ Holds(lru[g], p)
    <3>1. lru[g] \in Seq(Query) BY <1>1, Zenon
    <3> QED BY <2>1, <3>1, TouchList, Zenon
  <2> QED BY <1>1, <1>2, <2>2, Zenon
<1> QED BY <1>1, <1>2, <1>3, Zenon DEF Sound

(* A new entry of a full cache takes the place of the one used longest     *)
(* ago; any other one takes a free place, or its own.                      *)
LEMMA CacheSetSound ==
    ASSUME CacheOK, NEW g \in Gateways, NEW q \in Query, NEW b \in Backends,
           Sound(g), CacheSet(g, q, b)
    PROVE  Sound(g)'
<1> DEFINE full == cached[g][q] = None /\ Len(lru[g]) = CacheSize
           old  == Head(lru[g])
           keep == IF full THEN [cached[g] EXCEPT ![old] = None] ELSE cached[g]
<1>1. /\ cached' = [cached EXCEPT ![g] = [keep EXCEPT ![q] = b]]
      /\ lru' = [lru EXCEPT ![g] = IF full THEN Append(Tail(@), q) ELSE Touch(@, q)]
  BY DEF CacheSet
<1>2. lru[g] \in Seq(Query) /\ cached[g] \in [Query -> Backends \cup {None}]
  BY DEF CacheOK
<1>3. b # None BY RoutingAssumption
<1>4. /\ lru'[g] = IF full THEN Append(Tail(lru[g]), q) ELSE Touch(lru[g], q)
      /\ cached'[g] = [keep EXCEPT ![q] = b]
  BY <1>1 DEF CacheOK
<1>5. CASE full
  <2>1. lru[g] # << >> BY <1>2, <1>5, RoutingAssumption
  <2>2. Tail(lru[g]) \in Seq(Query) /\ old \in Query BY <1>2, <2>1
  <2>3. /\ Distinct(Tail(lru[g])) /\ Len(Tail(lru[g])) = Len(lru[g]) - 1
        /\ \A p : Holds(Tail(lru[g]), p) <=> p # old /\ Holds(lru[g], p)
    BY <1>2, <2>1, TailList DEF Sound
  <2>4. ~Holds(Tail(lru[g]), q) BY <1>5, <2>3 DEF Sound
  <2>5. /\ Distinct(lru'[g]) /\ Len(lru'[g]) = Len(lru[g]) - 1 + 1
        /\ \A p : Holds(lru'[g], p) <=> p = q \/ Holds(Tail(lru[g]), p)
    <3>1. lru'[g] = Append(Tail(lru[g]), q) BY <1>4, <1>5
    <3> HIDE DEF full, old
    <3>2. /\ Distinct(Append(Tail(lru[g]), q))
          /\ Len(Append(Tail(lru[g]), q)) = Len(Tail(lru[g])) + 1
          /\ \A p : Holds(Append(Tail(lru[g]), q), p) <=> p = q \/ Holds(Tail(lru[g]), p)
      BY <2>2, <2>3, <2>4, AppendList, Zenon
    <3> QED BY <2>3, <3>1, <3>2
  <2>6. Len(lru'[g]) <= CacheSize
    <3>1. Len(lru'[g]) = Len(lru[g]) - 1 + 1 /\ Len(lru[g]) = CacheSize BY <1>5, <2>5, Zenon
    <3>2. CacheSize \in Nat BY RoutingAssumption
    <3> HIDE DEF full, old
    <3> QED BY <3>1, <3>2
  <2>7. \A p \in Query : cached'[g][p] = IF p = q THEN b
                                        ELSE IF p = old THEN None ELSE cached[g][p]
    BY <1>2, <1>4, <1>5, Zenon
  <2>8. \A p \in Query : cached'[g][p] # None <=> Holds(lru'[g], p)
    BY <1>3, <2>3, <2>5, <2>7, Zenon DEF Sound
  <2> QED BY <2>5, <2>6, <2>8, Zenon DEF Sound
<1>6. CASE ~full
  <2>1. /\ Distinct(lru'[g])
        /\ Len(lru'[g]) = IF Holds(lru[g], q) THEN Len(lru[g]) ELSE Len(lru[g]) + 1
        /\ \A p : Holds(lru'[g], p) <=> p = q \/ Holds(lru[g], p)
    <3>1. lru'[g] = Touch(lru[g], q) BY <1>4, <1>6, Zenon
    <3>2. Distinct(lru[g]) BY Zenon DEF Sound
    <3> HIDE DEF full, old, keep
    <3>3. /\ Distinct(Touch(lru[g], q))
          /\ Len(Touch(lru[g], q)) = IF Holds(lru[g], q) THEN Len(lru[g]) ELSE Len(lru[g]) + 1
          /\ \A p : Holds(Touch(lru[g], q), p) <=> p = q \/ Holds(lru[g], p)
      BY <1>2, <3>2, TouchList, Zenon
    <3> QED BY <3>1, <3>3, Zenon
  <2>2. Len(lru'[g]) <= CacheSize
    <3>1. PICK m, n : m = Len(lru[g]) /\ n = Len(lru'[g]) BY Zenon
    <3>2. m \in Nat /\ m <= CacheSize BY <1>2, <3>1 DEF Sound
    <3>3. n = m \/ (n = m + 1 /\ ~Holds(lru[g], q))
      <4>1. CASE Holds(lru[g], q)
        <5>1. Len(lru'[g]) = Len(lru[g]) BY <2>1, <4>1, Zenon
        <5> QED BY <3>1, <5>1
      <4>2. CASE ~Holds(lru[g], q)
        <5>1. Len(lru'[g]) = Len(lru[g]) + 1 BY <2>1, <4>2, Zenon
        <5> QED BY <3>1, <4>2, <5>1
      <4> QED BY <4>1, <4>2, Zenon
    <3>4. ~Holds(lru[g], q) => m # CacheSize BY <1>6, <3>1, Zenon DEF Sound
    <3>5. CacheSize \in Nat BY RoutingAssumption
    <3> QED BY <3>1, <3>2, <3>3, <3>4, <3>5
  <2>3. \A p \in Query : cached'[g][p] = IF p = q THEN b ELSE cached[g][p]
    BY <1>2, <1>4, <1>6, Zenon
  <2>4. \A p \in Query : cached'[g][p] # None <=> Holds(lru'[g], p)
    BY <1>3, <2>1, <2>3 DEF Sound
  <2> QED BY <2>1, <2>2, <2>4, Zenon DEF Sound
<1> QED BY <1>5, <1>6

-----------------------------------------------------------------------------
(* The replicas together.                                                  *)

(* The property, replica by replica.                                       *)
LEMMA SoundMeans == CacheConsistent <=> \A g \in Gateways : Sound(g)
  BY DEF CacheConsistent, Sound, Distinct, Holds

(* A step that leaves a replica's cache alone keeps it sound.              *)
LEMMA SoundQuiet ==
    ASSUME NEW g \in Gateways, Sound(g), lru'[g] = lru[g], cached'[g] = cached[g]
    PROVE  Sound(g)'
  BY DEF Sound

(* Only a hit, a write and a crash touch a cache.                          *)
LEMMA SoundStep ==
    ASSUME TypeInv, \A g \in Gateways : Sound(g), [Next]_vars,
           NEW h \in Gateways
    PROVE  Sound(h)'
<1>1. CacheOK BY DEF TypeInv, TypeOK
<1>2. ASSUME NEW r \in Requests, WriteCache(r) PROVE Sound(h)'
  <2>1. /\ CacheSet(gw[r], r, choice[r]) /\ choice[r] \in Backends
        /\ gw[r] \in Gateways /\ r \in Query
    BY <1>2 DEF WriteCache, TypeInv, TypeOK, PathOK, RequestOK, Query
  <2>2. CASE h = gw[r] BY <1>1, <2>1, <2>2, CacheSetSound, Zenon
  <2>3. CASE h # gw[r]
    <3>1. lru'[h] = lru[h] /\ cached'[h] = cached[h]
      BY <1>1, <2>1, <2>3, Zenon DEF CacheSet, CacheOK
    <3> QED BY <3>1, SoundQuiet
  <2> QED BY <2>2, <2>3
<1>3. ASSUME NEW r \in Requests, CacheLookup(r) PROVE Sound(h)'
  <2>1. gw[r] \in Gateways /\ target[r] \in Query
    BY <1>3, Zenon DEF CacheLookup, TypeInv, TypeOK, PathOK, RequestOK, Asking
  <2>2. CASE UNCHANGED <<cached, lru>> BY <2>2, SoundQuiet
  <2>3. CASE cached[gw[r]][target[r]] # None /\ CacheGet(gw[r], target[r])
    <3>1. CASE h = gw[r] BY <1>1, <2>1, <2>3, <3>1, CacheGetSound
    <3>2. CASE h # gw[r]
      <4>1. lru'[h] = lru[h] /\ cached'[h] = cached[h]
        BY <1>1, <2>1, <2>3, <3>2 DEF CacheGet, CacheOK
      <4> QED BY <4>1, SoundQuiet
    <3> QED BY <3>1, <3>2
  <2> QED BY <1>3, <2>2, <2>3, Zenon DEF CacheLookup, cache
<1>4. ASSUME NEW r \in Requests, Moves(r), ~WriteCache(r), ~CacheLookup(r)
      PROVE  Sound(h)'
  <2>1. UNCHANGED <<cached, lru>>
    BY <1>4, Zenon DEF Moves, Step, Submit, Ask, Admit, ResolveGroup,
         FirstActiveBackend, FlightEnter, FlightLookup, FlightDone,
         FlightDelete, FlightAwait, FlightReturn, RecoverList, HeadProbe,
         PropagateErrors, UpstreamStatement, UpstreamOther, UpstreamError,
         HistoryInsert, ForwardFrame, cache
  <2> QED BY <2>1, SoundQuiet
<1>5. CASE Aside
  <2>1. CASE \E r \in Requests : ClientGone(r) BY <2>1, SoundQuiet, Zenon DEF ClientGone, cache
  <2>2. ASSUME NEW b \in Backends, Upsert(b) \/ SetActive(b) \/ Delete(b)
        PROVE  UNCHANGED <<cached, lru>>
    BY <2>2, Zenon DEF Upsert, SetActive, Delete, EditBackend, cache
  <2>3. CASE UNCHANGED vars BY <2>3, SoundQuiet, Zenon DEF vars, cache
  <2> QED BY <1>5, <2>1, <2>2, <2>3, SoundQuiet DEF Aside
<1>6. ASSUME NEW g \in Gateways, Restart(g) PROVE Sound(h)'
  <2>1. CASE h = g
    <3>1. lru'[g] = << >> /\ \A q \in Query : cached'[g][q] = None
      BY <1>1, <1>6 DEF Restart, CacheOK
    <3> QED BY <2>1, <3>1, RoutingAssumption DEF Sound, Distinct, Holds
  <2>2. CASE h # g
    <3>1. lru'[h] = lru[h] /\ cached'[h] = cached[h]
      BY <1>1, <1>6, <2>2 DEF Restart, CacheOK
    <3> QED BY <3>1, SoundQuiet
  <2> QED BY <2>1, <2>2
<1> QED BY <1>2, <1>3, <1>4, <1>5, <1>6, NextCases

(* queryCache keeps its capacity and its list agrees with its map, for     *)
(* every capacity: no hit, no write of an entry it has or has not, and no  *)
(* crash leaves an entry without a place in the use order or two of them.  *)
THEOREM CacheBounded == Spec => []CacheConsistent
<1>1. Init => \A g \in Gateways : Sound(g)
  <2> SUFFICES ASSUME Init, NEW g \in Gateways PROVE Sound(g) BY Zenon
  <2>1. lru[g] = << >> /\ \A q \in Query : cached[g][q] = None BY DEF Init
  <2>2. Len(lru[g]) = 0 /\ Distinct(lru[g]) /\ \A q : ~Holds(lru[g], q)
    BY <2>1 DEF Distinct, Holds
  <2>3. Len(lru[g]) <= CacheSize BY <2>2, RoutingAssumption
  <2> QED BY <2>1, <2>2, <2>3, Zenon DEF Sound
<1>2. TypeInv /\ (\A g \in Gateways : Sound(g)) /\ [Next]_vars
        => (\A g \in Gateways : Sound(g))'
  BY SoundStep
<1>3. TypeInv /\ CacheConsistent /\ [Next]_vars => CacheConsistent'
  <2>1. CacheConsistent' <=> (\A g \in Gateways : Sound(g))'
    BY DEF CacheConsistent, Sound, Distinct, Holds
  <2> QED BY <1>2, <2>1, SoundMeans
<1>4. Init => CacheConsistent BY <1>1, SoundMeans
<1> QED BY <1>3, <1>4, InitTypes, TypeStep, PTL DEF Spec
=============================================================================
