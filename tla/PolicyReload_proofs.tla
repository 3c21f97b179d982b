------------------------ MODULE PolicyReload_proofs ------------------------
(***************************************************************************)
(* Proofs about PolicyReload, for every set of contents, method types and  *)
(* kill-switch calls and any number of edits: types, the lists the calls   *)
(* have loaded in relation to the live one (ListInv), the life of the      *)
(* watcher (WatcherInv), what the kill-switch calls that have returned, or *)
(* are about to, have done to the live list (SwitchInv), and how far the   *)
(* last edit has come (EditInv).                                           *)
(***************************************************************************)
EXTENDS PolicyReload, WellFoundedInduction, TLAPS

(* How long the provers may try a step that names none.                    *)
USE SMTT(15), ZenonT(20)

-----------------------------------------------------------------------------
(* The first method of a type.                                             *)

(* A nonempty set of naturals has its minimum.                        *)
LEMMA MinIn == ASSUME NEW S \in SUBSET Nat, S # {} PROVE Min(S) \in S
<1> DEFINE R == OpToRel(<, Nat)
<1>1. IsWellFoundedOn(R, Nat) BY NatLessThanWellFounded, Zenon
<1>2. PICK x \in S : \A y \in S : ~(<<y, x>> \in R)
  <2> HIDE DEF R
  <2> QED BY <1>1, WFMin, Zenon
<1>3. \A y \in S : x =< y
  <2> SUFFICES ASSUME NEW y \in S PROVE x =< y OBVIOUS
  <2>1. ~(<<y, x>> \in R) BY <1>2, Zenon
  <2>2. ASSUME y < x PROVE FALSE
    <3>1. /\ <<y, x>> \in Nat \X Nat
          /\ <<y, x>>[1] < <<y, x>>[2]
      <4> HIDE DEF R
      <4> QED BY <2>2, x \in Nat, y \in Nat
    <3>2. <<y, x>> \in R BY <3>1, Zenon DEF OpToRel
    <3> QED BY <2>1, <3>2, Zenon
  <2> HIDE DEF R
  <2>3. x \in Nat /\ y \in Nat /\ ~(y < x) BY <2>2
  <2> QED BY ONLY <2>3
<1> QED BY <1>3, Zenon DEF Min

(* updateMethod finds a method of the type it looks for, or none.          *)
LEMMA FirstOfFound ==
  ASSUME NEW l, l.conf \in Valid, NEW t
  PROVE  \/ FirstOf(l, t) = 0
         \/ /\ FirstOf(l, t) \in DOMAIN Methods[l.conf]
            /\ FirstOf(l, t) \in Nat \ {0}
            /\ Methods[l.conf][FirstOf(l, t)] = t
<1> DEFINE places == {i \in DOMAIN Methods[l.conf] : Methods[l.conf][i] = t}
<1>1. Methods[l.conf] \in Seq(Types)
  BY PolicyAssumption
<1>2. DOMAIN Methods[l.conf] \subseteq Nat \ {0}
  BY <1>1
<1>3. places \in SUBSET Nat
  BY <1>2
<1>4. CASE places = {}
  BY <1>4 DEF FirstOf, TypeList
<1>5. CASE places # {}
  <2>1. Min(places) \in places
    BY <1>3, <1>5, MinIn
  <2>2. FirstOf(l, t) = Min(places)
    BY <1>5 DEF FirstOf, TypeList
  <2> QED BY <1>2, <2>1, <2>2
<1> QED BY <1>4, <1>5

(* It depends on the content the list was built from only.                 *)
LEMMA FirstOfConf ==
  ASSUME NEW l, NEW m, l.conf = m.conf, NEW t
  PROVE  FirstOf(l, t) = FirstOf(m, t)
BY DEF FirstOf, TypeList

-----------------------------------------------------------------------------
(* The list a call has loaded is complete, and is the live one as long as  *)
(* nothing was stored since; only what loaded and built is swapped in.     *)
Loaded(a) ==
    /\ old[a] \in List /\ old[a].conf \in Valid
    /\ old[a].off \subseteq DOMAIN Methods[old[a].conf]
    /\ op[a] \in {"disable", "enable"}
    /\ FirstOf(old[a], ty[a]) # 0

ListInv ==
    /\ LiveIsLatestGood
    /\ main \in {"version", "watch", "serve"} => live.conf \in Valid
    /\ wpc = "swap" => cfg \in Valid
    /\ \A a \in Admins : calm[a] => ty[a] \in Types
    /\ \A a \in Admins : apc[a] = "retry" => op[a] \in {"disable", "enable"}
    /\ \A a \in Admins : apc[a] = "cas" => Loaded(a)
    /\ \A a \in Admins : apc[a] = "cas" /\ same[a] => old[a] = live

(* The watcher goroutine exists from main's Start on and is gone when main *)
(* has returned from Stop.                                                 *)
WatcherInv ==
    /\ main \in {"load", "version", "watch"} => wpc = "off"
    /\ main = "exited" => wpc \in {"off", "exited"}

(* What Swap and a successful CompareAndSwap store is a list with disabled *)
(* positions of its own only.                                              *)
LEMMA UpdatedList ==
  ASSUME TypeOK, NEW a \in Admins, Loaded(a)
  PROVE  /\ Updated(a) \in List
         /\ Updated(a).conf = old[a].conf
         /\ Updated(a).off \subseteq DOMAIN Methods[old[a].conf]
         /\ Updated(a).off = IF op[a] = "disable"
                             THEN old[a].off \cup {FirstOf(old[a], ty[a])}
                             ELSE old[a].off \ {FirstOf(old[a], ty[a])}
<1>1. /\ FirstOf(old[a], ty[a]) \in DOMAIN Methods[old[a].conf]
      /\ FirstOf(old[a], ty[a]) \in Nat \ {0}
  BY FirstOfFound DEF Loaded
<1> QED BY <1>1 DEF Updated, Loaded, List

(* The types a list has disabled are method types.                         *)
LEMMA DisabledAreTypes ==
  ASSUME live.conf \in Valid, live.off \subseteq DOMAIN Methods[live.conf]
  PROVE  DisabledTypes(live) \subseteq Types
<1>1. Methods[live.conf] \in Seq(Types)
  BY PolicyAssumption
<1>2. \A i \in DOMAIN Methods[live.conf] : Methods[live.conf][i] \in Types
  BY <1>1
<1> QED BY <1>2 DEF DisabledTypes, TypeList

-----------------------------------------------------------------------------
(* Types.                                                                  *)

(* Main, a signal and the file's editors preserve the types.               *)
LEMMA TypeMain ==
  ASSUME TypeOK, ListInv,
         Main \/ Signal \/ (\E c \in Contents : WriteFile(c) \/ ReplaceFile(c))
  PROVE  TypeOK'
<1> USE PolicyAssumption
    DEF TypeOK, files, watcher, admin, pipeline, seenVars
<1>1. CASE MainLoad
  <2>1. CASE file \in Valid
    <3>1. Methods[file] \in Seq(Types)
      BY <2>1
    <3>2. {Methods[file][i] : i \in DOMAIN Methods[file]} \subseteq Types
      BY <3>1
    <3>3. live' \in List /\ same' \in [Admins -> BOOLEAN]
      <4>1. [conf |-> file, off |-> {}] \in List
        BY <2>1 DEF List
      <4>2. /\ live' = [conf |-> file, off |-> {}]
            /\ same' = [a \in Admins |-> FALSE]
        BY <1>1, <2>1 DEF MainLoad, Swap, Store
      <4> QED BY <4>1, <4>2
    <3> QED BY <1>1, <2>1, <3>2, <3>3 DEF MainLoad
  <2>2. CASE file \notin Valid BY <1>1, <2>2 DEF MainLoad
  <2> QED BY <2>1, <2>2
<1>2. CASE MainVersion BY <1>2 DEF MainVersion
<1>3. CASE MainWatch BY <1>3 DEF MainWatch
<1>4. CASE MainStop BY <1>4 DEF MainStop
<1>5. CASE Signal BY <1>5 DEF Signal
<1>6. ASSUME NEW c \in Contents, WriteFile(c) PROVE TypeOK'
  BY <1>6 DEF WriteFile
<1>7. ASSUME NEW c \in Contents, ReplaceFile(c) PROVE TypeOK'
  <2>1. event' \in BOOLEAN
    BY <1>7, Zenon DEF ReplaceFile
  <2>2. /\ edits < MaxEdits /\ edits' = edits + 1
        /\ file' = c /\ watched' = FALSE /\ due' = FALSE
        /\ UNCHANGED <<watcher, admin, current, calm, settled, main, ctx,
                       pipeline, cfg, version, gauge, known>>
    BY <1>7, Zenon DEF ReplaceFile
  <2>3. edits' \in 0..MaxEdits
    BY <2>2
  <2>4. /\ file' \in Contents /\ watched' \in BOOLEAN /\ due' \in BOOLEAN
    BY <2>2, Zenon
  <2>5. UNCHANGED <<wpc, armed, newHash, apc, op, ty, old, got, current, calm,
                    settled, main, ctx, live, same, cfg, version, gauge, known>>
    BY <2>2
  <2> QED BY <2>1, <2>3, <2>4, <2>5
<1>8. CASE MainFail BY <1>8 DEF MainFail
<1> QED BY <1>1, <1>2, <1>3, <1>4, <1>5, <1>6, <1>7, <1>8 DEF Main

(* The watcher preserves the types.                                        *)
LEMMA TypeWatcher == ASSUME TypeOK, ListInv, Watcher PROVE TypeOK'
<1> USE PolicyAssumption
    DEF TypeOK, files, watcher, admin, pipeline, seenVars, WatcherFrame
<1>1. CASE WatchEvent
  <2>1. armed' = TRUE /\ event' = FALSE
    BY <1>1, Zenon DEF WatchEvent
  <2>2. UNCHANGED <<file, watched, main, ctx, live, wpc, newHash, cfg, version,
                    apc, op, ty, old, got, same, gauge, known, edits, current,
                    calm, settled, due>>
    <3>1. /\ UNCHANGED <<wpc, newHash, cfg, pipeline, version, seenVars>>
          /\ WatcherFrame
      BY <1>1, Zenon DEF WatchEvent
    <3> QED BY <3>1
  <2>3. armed' \in BOOLEAN /\ event' \in BOOLEAN
    BY <2>1, Zenon
  <2> QED BY <2>2, <2>3
<1>2. CASE WatchExit BY <1>2 DEF WatchExit
<1>3. CASE ReloadRead
  <2>1. /\ armed' = FALSE
        /\ \/ newHash' = file /\ wpc' = "load"
           \/ newHash' = newHash /\ wpc' = wpc
    BY <1>3, Zenon DEF ReloadRead
  <2>2. /\ newHash' \in Contents \cup {None} /\ armed' \in BOOLEAN
        /\ wpc' \in {"off", "select", "load", "swap", "sink", "exited"}
    BY <2>1, Zenon
  <2>3. UNCHANGED <<file, watched, event, main, ctx, live, cfg, version, apc,
                    op, ty, old, got, same, gauge, known, edits, current, due,
                    calm, settled>>
    BY <1>3, Zenon DEF ReloadRead
  <2> QED BY <2>2, <2>3
<1>4. CASE ReloadLoad BY <1>4 DEF ReloadLoad
<1>5. CASE ReloadSwap
  <2>1. cfg \in Valid
    BY <1>5 DEF ReloadSwap, ListInv
  <2> QED BY <1>5, <2>1 DEF ReloadSwap, Swap, Store, List
<1>6. CASE ReloadSink BY <1>6 DEF ReloadSink
<1> QED BY <1>1, <1>2, <1>3, <1>4, <1>5, <1>6 DEF Watcher

(* The load of updateMethod preserves the types of what it changes.        *)
LEMMA TypeLoad ==
  ASSUME TypeOK, NEW a \in Admins, NEW t, UpdateLoad(a, t)
  PROVE  /\ old' \in [Admins -> List \cup {None}]
         /\ same' \in [Admins -> BOOLEAN]
         /\ apc' \in [Admins -> {"idle", "retry", "cas", "list", "notify", "done"}]
<1> DEFINE n == FirstOf(live, t)
<1>1. CASE n # 0
  <2>1. /\ old' = [old EXCEPT ![a] = live]
        /\ same' = [same EXCEPT ![a] = TRUE]
        /\ apc' = [apc EXCEPT ![a] = "cas"]
    BY <1>1 DEF UpdateLoad, AdminGoto
  <2>2. live \in List BY DEF TypeOK
  <2> HIDE DEF n
  <2> QED BY <2>1, <2>2 DEF TypeOK
<1>2. CASE n = 0
  <2>1. /\ old' = old /\ same' = same
        /\ apc' = [apc EXCEPT ![a] = "list"]
    BY <1>2 DEF UpdateLoad, AdminGoto
  <2> HIDE DEF n
  <2> QED BY <2>1 DEF TypeOK
<1> QED BY <1>1, <1>2

(* The kill-switch calls preserve the types.                               *)
LEMMA TypeAdmin ==
  ASSUME TypeOK, ListInv, NEW a \in Admins,
         \/ \E t \in Types : AdminCall(a, "disable", t) \/ AdminCall(a, "enable", t)
         \/ AdminStep(a)
  PROVE  TypeOK'
<1> USE PolicyAssumption
    DEF TypeOK, files, watcher, pipeline, seenVars, AdminFrame, AdminGoto
<1>1. ASSUME NEW t \in Types, NEW what \in {"disable", "enable"},
             AdminCall(a, what, t)
      PROVE  TypeOK'
  <2>1. calm' \in [Admins -> BOOLEAN]
    BY <1>1, Zenon DEF AdminCall
  <2>2. /\ old' \in [Admins -> List \cup {None}]
        /\ same' \in [Admins -> BOOLEAN]
        /\ apc' \in [Admins -> {"idle", "retry", "cas", "list", "notify", "done"}]
    <3>1. UpdateLoad(a, t) BY <1>1 DEF AdminCall
    <3> QED BY <3>1, TypeLoad
  <2>3. /\ op' \in [Admins -> {None, "disable", "enable"}]
        /\ ty' \in [Admins -> Types \cup {None}]
        /\ settled' \subseteq Types
    BY <1>1 DEF AdminCall
  <2> QED BY <1>1, <2>1, <2>2, <2>3 DEF AdminCall
<1>2. CASE UpdateRetry(a)
  <2>1. /\ old' \in [Admins -> List \cup {None}]
        /\ same' \in [Admins -> BOOLEAN]
        /\ apc' \in [Admins -> {"idle", "retry", "cas", "list", "notify", "done"}]
    <3>1. UpdateLoad(a, ty[a]) BY <1>2 DEF UpdateRetry
    <3> QED BY <3>1, TypeLoad
  <2> QED BY <1>2, <2>1 DEF UpdateRetry
<1>3. CASE UpdateCAS(a)
  <2>1. Updated(a) \in List
    BY <1>3, UpdatedList, Zenon DEF UpdateCAS, ListInv
  <2>2. live' \in {live, Updated(a)} /\ live' \in List
    BY <1>3, <2>1 DEF UpdateCAS, Store
  <2>3. same' \in [Admins -> BOOLEAN]
    <3>1. same' = same \/ same' = [x \in Admins |-> FALSE]
      BY <1>3, Zenon DEF UpdateCAS, Store
    <3> QED BY <3>1, Zenon
  <2>4. apc' \in [Admins -> {"idle", "retry", "cas", "list", "notify", "done"}]
    BY <1>3 DEF UpdateCAS
  <2>5. old' \in [Admins -> List \cup {None}]
    BY <1>3 DEF UpdateCAS
  <2> QED BY <1>3, <2>2, <2>3, <2>4, <2>5 DEF UpdateCAS
<1>4. CASE AdminList(a)
  <2>1. DisabledTypes(live) \subseteq Types
    BY <1>4, DisabledAreTypes DEF AdminList, ListInv, LiveIsLatestGood, TypeList
  <2> QED BY <1>4, <2>1 DEF AdminList
<1>5. CASE AdminNotify(a)
  <2>1. /\ gauge' \subseteq Types
        /\ apc' \in [Admins -> {"idle", "retry", "cas", "list", "notify", "done"}]
        /\ op' \in [Admins -> {None, "disable", "enable"}]
        /\ ty' \in [Admins -> Types \cup {None}]
        /\ got' \in [Admins -> SUBSET Types]
        /\ calm' \in [Admins -> BOOLEAN]
    BY <1>5 DEF AdminNotify
  <2>2. settled' \subseteq Types
    <3>1. calm[a] => ty[a] \in Types BY DEF ListInv
    <3>2. settled' = IF calm[a] THEN settled \cup {ty[a]} ELSE settled
      BY <1>5 DEF AdminNotify
    <3> QED BY <3>1, <3>2
  <2> QED BY <1>5, <2>1, <2>2 DEF AdminNotify
<1> QED BY <1>1, <1>2, <1>3, <1>4, <1>5 DEF AdminStep

-----------------------------------------------------------------------------
(* Lists.                                                                  *)

(* A step that stores nothing and moves no call preserves ListInv.         *)
LEMMA ListQuiet ==
  ASSUME ListInv,
         UNCHANGED <<live, same, apc, op, ty, old, calm, current>>,
         main' \in {"version", "watch", "serve"}
            => main \in {"version", "watch", "serve"},
         wpc' = "swap" => cfg' \in Valid
  PROVE  ListInv'
BY DEF ListInv, LiveIsLatestGood, Loaded, FirstOf, TypeList

(* A swap makes every loaded pointer an old one.                           *)
LEMMA ListSwap ==
  ASSUME ListInv, NEW c \in Valid, Swap(c), current' = c,
         UNCHANGED <<apc, op, ty, old>>,
         \A a \in Admins : calm'[a] => calm[a],
         wpc' # "swap"
  PROVE  ListInv'
<1>1. /\ live' = [conf |-> c, off |-> {}]
      /\ same' = [a \in Admins |-> FALSE]
  BY DEF Swap, Store
<1>2. LiveIsLatestGood' /\ live'.conf \in Valid
  BY <1>1 DEF LiveIsLatestGood, TypeList
<1>3. \A a \in Admins : Loaded(a) => Loaded(a)'
  BY DEF Loaded, FirstOf, TypeList
<1> QED BY <1>1, <1>2, <1>3 DEF ListInv

(* Main, a signal, the file's editors and the watcher preserve it.         *)
LEMMA ListMain ==
  ASSUME ListInv, WatcherInv,
         \/ Main \/ Signal \/ Watcher
         \/ \E c \in Contents : WriteFile(c) \/ ReplaceFile(c)
  PROVE  ListInv'
<1> USE DEF files, watcher, admin, pipeline, seenVars, WatcherFrame
<1>1. CASE MainLoad
  <2>1. CASE file \in Valid
    <3>1. /\ Swap(file) /\ current' = file
          /\ UNCHANGED <<apc, op, ty, old, calm, wpc, cfg>>
      BY <1>1, <2>1 DEF MainLoad
    <3>2. wpc # "swap"
      BY <1>1 DEF MainLoad, WatcherInv
    <3> QED BY <2>1, <3>1, <3>2, ListSwap
  <2>2. CASE file \notin Valid BY <1>1, <2>2, ListQuiet DEF MainLoad, ListInv
  <2> QED BY <2>1, <2>2
<1>2. CASE MainVersion BY <1>2, ListQuiet DEF MainVersion, ListInv
<1>3. CASE MainWatch BY <1>3, ListQuiet DEF MainWatch, ListInv
<1>4. CASE MainStop BY <1>4, ListQuiet DEF MainStop, ListInv
<1>5. CASE Signal BY <1>5, ListQuiet DEF Signal, ListInv
<1>6. ASSUME NEW c \in Contents, WriteFile(c) PROVE ListInv'
  BY <1>6, ListQuiet DEF WriteFile, ListInv
<1>7. ASSUME NEW c \in Contents, ReplaceFile(c) PROVE ListInv'
  BY <1>7, ListQuiet DEF ReplaceFile, ListInv
<1>8. CASE WatchEvent BY <1>8, ListQuiet DEF WatchEvent, ListInv
<1>9. CASE WatchExit BY <1>9, ListQuiet DEF WatchExit, ListInv
<1>10. CASE ReloadRead BY <1>10, ListQuiet DEF ReloadRead, ListInv
<1>11. CASE ReloadLoad BY <1>11, ListQuiet DEF ReloadLoad, ListInv
<1>12. CASE ReloadSwap
  <2>1. cfg \in Valid BY <1>12 DEF ReloadSwap, ListInv
  <2>2. /\ Swap(cfg) /\ current' = cfg /\ wpc' = "sink"
        /\ calm' = [a \in Admins |-> FALSE]
        /\ UNCHANGED <<apc, op, ty, old>>
    BY <1>12 DEF ReloadSwap
  <2> QED BY <2>1, <2>2, ListSwap
<1>13. CASE ReloadSink BY <1>13, ListQuiet DEF ReloadSink, ListInv
<1>14. CASE MainFail BY <1>14, ListQuiet DEF MainFail, ListInv
<1> QED BY <1>1, <1>2, <1>3, <1>4, <1>5, <1>6, <1>7, <1>8, <1>9, <1>10, <1>11,
           <1>12, <1>13, <1>14 DEF Main, Watcher

(* The load of updateMethod takes the live list.                           *)
LEMMA ListLoad ==
  ASSUME TypeOK, ListInv, main = "serve", NEW a \in Admins, NEW t,
         UpdateLoad(a, t), live' = live,
         op' \in [Admins -> {None, "disable", "enable"}],
         op'[a] \in {"disable", "enable"}, ty'[a] = t,
         \A b \in Admins \ {a} : op'[b] = op[b] /\ ty'[b] = ty[b],
         NEW b \in Admins
  PROVE  /\ apc'[b] = "cas" => Loaded(b)'
         /\ apc'[b] = "cas" /\ same'[b] => old'[b] = live'
         /\ apc'[b] = "retry" => op'[b] \in {"disable", "enable"}
<1>1. CASE FirstOf(live, t) # 0
  <2>1. /\ old' = [old EXCEPT ![a] = live]
        /\ same' = [same EXCEPT ![a] = TRUE]
        /\ apc' = [apc EXCEPT ![a] = "cas"]
    BY <1>1 DEF UpdateLoad, AdminGoto
  <2>2. CASE b = a
    <3>1. apc'[a] = "cas" /\ old'[a] = live
      BY <2>1 DEF TypeOK
    <3>2. FirstOf(old'[a], ty'[a]) # 0
      BY <1>1, <3>1
    <3>3. /\ live \in List /\ live.conf \in Valid
          /\ live.off \subseteq DOMAIN Methods[live.conf]
      BY PolicyAssumption DEF TypeOK, ListInv, LiveIsLatestGood, TypeList
    <3>4. Loaded(a)'
      BY <3>1, <3>2, <3>3 DEF Loaded, FirstOf, TypeList
    <3> QED BY <2>2, <3>1, <3>4
  <2>3. CASE b # a
    <3>1. /\ apc'[b] = apc[b] /\ old'[b] = old[b] /\ same'[b] = same[b]
          /\ op'[b] = op[b] /\ ty'[b] = ty[b]
      BY <2>1, <2>3 DEF TypeOK
    <3>2. Loaded(b) => Loaded(b)'
      BY <3>1, Zenon DEF Loaded, FirstOf, TypeList
    <3> QED BY <3>1, <3>2 DEF ListInv
  <2> QED BY <2>2, <2>3
<1>2. CASE FirstOf(live, t) = 0
  <2>1. old' = old /\ same' = same /\ apc' = [apc EXCEPT ![a] = "list"]
    BY <1>2 DEF UpdateLoad, AdminGoto
  <2>2. CASE b = a
    BY <2>1, <2>2 DEF TypeOK
  <2>3. CASE b # a
    <3>1. /\ apc'[b] = apc[b] /\ old'[b] = old[b] /\ same'[b] = same[b]
          /\ op'[b] = op[b] /\ ty'[b] = ty[b]
      BY <2>1, <2>3 DEF TypeOK
    <3>2. Loaded(b) => Loaded(b)'
      BY <3>1 DEF Loaded, FirstOf, TypeList
    <3> QED BY <3>1, <3>2 DEF ListInv
  <2> QED BY <2>2, <2>3
<1> QED BY <1>1, <1>2

(* A call changes the live list only if it still is the one it loaded.     *)
LEMMA ListCAS ==
  ASSUME TypeOK, ListInv, NEW a \in Admins, UpdateCAS(a)
  PROVE  ListInv'
<1>1. Loaded(a) /\ apc[a] = "cas"
  BY DEF UpdateCAS, ListInv
<1>2. /\ UNCHANGED <<op, ty, main, wpc, cfg, current, calm>>
      /\ old' = [old EXCEPT ![a] = None]
  BY DEF UpdateCAS, AdminFrame, watcher
<1>3. \A b \in Admins \ {a} : Loaded(b) => Loaded(b)'
  BY <1>2 DEF TypeOK, Loaded, FirstOf, TypeList
<1>4. CASE same[a]
  <2>1. /\ live' = Updated(a) /\ same' = [b \in Admins |-> FALSE]
        /\ apc' = [apc EXCEPT ![a] = "list"]
    BY <1>4 DEF UpdateCAS, Store, AdminGoto
  <2>2. old[a] = live
    BY <1>1, <1>4 DEF ListInv
  <2>3. /\ live'.conf = live.conf /\ live.conf \in Valid
        /\ live'.off \subseteq DOMAIN Methods[live.conf]
    BY <1>1, <2>1, <2>2, UpdatedList, Zenon DEF Loaded
  <2>4. LiveIsLatestGood'
    BY <1>2, <2>3 DEF LiveIsLatestGood, ListInv, TypeList
  <2>5. \A b \in Admins : apc'[b] \in {"cas", "retry"} => b # a /\ apc'[b] = apc[b]
    BY <2>1 DEF TypeOK
  <2> QED BY <1>2, <1>3, <2>1, <2>3, <2>4, <2>5, Zenon DEF ListInv
<1>5. CASE ~same[a]
  <2>1. /\ live' = live /\ same' = same
        /\ apc' = [apc EXCEPT ![a] = "retry"]
    BY <1>5 DEF UpdateCAS, AdminGoto, pipeline
  <2>2. LiveIsLatestGood'
    BY <1>2, <2>1 DEF LiveIsLatestGood, ListInv, TypeList
  <2>3. \A b \in Admins :
          IF b = a THEN apc'[b] = "retry"
          ELSE apc'[b] = apc[b] /\ old'[b] = old[b]
    BY <1>2, <2>1 DEF TypeOK
  <2>4. op'[a] \in {"disable", "enable"}
    BY <1>1, <1>2 DEF Loaded
  <2> QED BY <1>2, <1>3, <2>1, <2>2, <2>3, <2>4, Zenon DEF ListInv
<1> QED BY <1>4, <1>5 DEF TypeOK

(* The kill-switch calls preserve ListInv.                                 *)
LEMMA ListAdmin ==
  ASSUME TypeOK, ListInv, NEW a \in Admins,
         \/ \E t \in Types : AdminCall(a, "disable", t) \/ AdminCall(a, "enable", t)
         \/ AdminStep(a)
  PROVE  ListInv'
<1>1. ASSUME NEW t \in Types, NEW what \in {"disable", "enable"},
             AdminCall(a, what, t)
      PROVE  ListInv'
  <2>1. /\ main = "serve" /\ UpdateLoad(a, t)
        /\ op' = [op EXCEPT ![a] = what] /\ ty' = [ty EXCEPT ![a] = t]
        /\ UNCHANGED <<live, main, wpc, cfg, current>>
    BY <1>1, Zenon DEF AdminCall, AdminFrame, watcher
  <2>2. /\ op' \in [Admins -> {None, "disable", "enable"}]
        /\ op'[a] \in {"disable", "enable"} /\ ty'[a] = t
        /\ \A b \in Admins \ {a} : op'[b] = op[b] /\ ty'[b] = ty[b]
    BY <2>1 DEF TypeOK
  <2>3. \A b \in Admins \ {a} : calm'[b] => calm[b]
    BY <1>1, Zenon DEF AdminCall
  <2>4. \A b \in Admins : calm'[b] => ty'[b] \in Types
    BY <2>2, <2>3 DEF ListInv
  <2>5. LiveIsLatestGood'
    BY <2>1 DEF ListInv, LiveIsLatestGood, TypeList
  <2>6. \A b \in Admins :
          /\ apc'[b] = "cas" => Loaded(b)'
          /\ apc'[b] = "cas" /\ same'[b] => old'[b] = live'
          /\ apc'[b] = "retry" => op'[b] \in {"disable", "enable"}
    BY <2>1, <2>2, ListLoad, Zenon
  <2> QED BY <2>1, <2>4, <2>5, <2>6, Zenon DEF ListInv
<1>2. CASE UpdateRetry(a)
  <2>1. /\ main = "serve" /\ UpdateLoad(a, ty[a]) /\ apc[a] = "retry"
        /\ UNCHANGED <<op, ty, calm, live, main, wpc, cfg, current>>
    BY <1>2, Zenon DEF UpdateRetry, AdminFrame, watcher
  <2>2. /\ op' \in [Admins -> {None, "disable", "enable"}]
        /\ op'[a] \in {"disable", "enable"}
    BY <2>1, Zenon DEF TypeOK, ListInv
  <2>3. LiveIsLatestGood'
    BY <2>1, Zenon DEF ListInv, LiveIsLatestGood, TypeList
  <2>4. \A b \in Admins :
          /\ apc'[b] = "cas" => Loaded(b)'
          /\ apc'[b] = "cas" /\ same'[b] => old'[b] = live'
          /\ apc'[b] = "retry" => op'[b] \in {"disable", "enable"}
    BY <2>1, <2>2, ListLoad, Zenon
  <2> QED BY <2>1, <2>3, <2>4 DEF ListInv
<1>3. CASE UpdateCAS(a) BY <1>3, ListCAS
<1>4. CASE AdminList(a)
  <2>1. /\ apc' = [apc EXCEPT ![a] = "notify"]
        /\ UNCHANGED <<live, same, op, ty, old, calm, current, main, wpc, cfg>>
    BY <1>4 DEF AdminList, AdminGoto, AdminFrame, watcher, pipeline
  <2>2. \A b \in Admins : apc'[b] \in {"cas", "retry"} => apc[b] = apc'[b]
    BY <2>1 DEF TypeOK
  <2>3. LiveIsLatestGood' /\ \A b \in Admins : Loaded(b) => Loaded(b)'
    BY <2>1, Zenon DEF ListInv, LiveIsLatestGood, Loaded, FirstOf, TypeList
  <2> QED BY <2>1, <2>2, <2>3 DEF ListInv
<1>5. CASE AdminNotify(a)
  <2>1. /\ apc' = [apc EXCEPT ![a] = "done"]
        /\ op' = [op EXCEPT ![a] = None] /\ ty' = [ty EXCEPT ![a] = None]
        /\ calm' = [calm EXCEPT ![a] = FALSE]
        /\ UNCHANGED <<live, same, old, current, main, wpc, cfg>>
    BY <1>5 DEF AdminNotify, AdminGoto, AdminFrame, watcher, pipeline
  <2>2. \A b \in Admins : apc'[b] \in {"cas", "retry"} => b # a /\ apc[b] = apc'[b]
    BY <2>1 DEF TypeOK
  <2>3. \A b \in Admins \ {a} : op'[b] = op[b] /\ ty'[b] = ty[b]
    BY <2>1 DEF TypeOK
  <2>4. \A b \in Admins \ {a} : Loaded(b) => Loaded(b)'
    <3> TAKE b \in Admins \ {a}
    <3>1. old'[b] = old[b] /\ op'[b] = op[b] /\ ty'[b] = ty[b]
      BY <2>1, <2>3
    <3> QED BY <3>1, Zenon DEF Loaded
  <2>5. \A b \in Admins : calm'[b] => b # a /\ calm[b]
    BY <2>1 DEF TypeOK
  <2>6. LiveIsLatestGood'
    BY <2>1 DEF ListInv, LiveIsLatestGood, TypeList
  <2> QED BY <2>1, <2>2, <2>3, <2>4, <2>5, <2>6, Zenon DEF ListInv
<1> QED BY <1>1, <1>2, <1>3, <1>4, <1>5 DEF AdminStep

-----------------------------------------------------------------------------
(* The watcher's life.                                                     *)

(* Main starts the goroutine and does not leave Stop before it is gone.    *)
LEMMA WatcherStep == ASSUME WatcherInv, [Next]_vars PROVE WatcherInv'
<1> USE DEF WatcherInv
<1>1. CASE Main
  BY <1>1 DEF Main, MainLoad, MainVersion, MainWatch, MainStop, MainFail,
              watcher
<1>2. CASE Signal BY <1>2 DEF Signal, watcher
<1>3. CASE Watcher
  BY <1>3 DEF Watcher, WatchEvent, WatchExit, ReloadRead, ReloadLoad, ReloadSwap,
              ReloadSink, WatcherFrame
<1>4. ASSUME NEW c \in Contents, WriteFile(c) \/ ReplaceFile(c) PROVE WatcherInv'
  BY <1>4 DEF WriteFile, ReplaceFile, watcher
<1>5. ASSUME NEW a \in Admins, NEW t, NEW what, AdminCall(a, what, t)
      PROVE  WatcherInv'
  BY <1>5, Zenon DEF AdminCall, AdminFrame, watcher
<1>6. ASSUME NEW a \in Admins, AdminStep(a) PROVE WatcherInv'
  BY <1>6, Zenon DEF AdminStep, UpdateRetry, UpdateCAS, AdminList, AdminNotify,
              AdminFrame, watcher
<1>7. CASE UNCHANGED vars BY <1>7 DEF vars, watcher
<1> QED BY <1>1, <1>2, <1>3, <1>4, <1>5, <1>6, <1>7 DEF Next
-----------------------------------------------------------------------------
(* The kill-switch.                                                        *)

(* The first method of the type, if there is one, is disabled.             *)
SwitchedOff(t) == FirstOf(live, t) \in live.off \cup {0}

Calling(a) == apc[a] \notin {"idle", "done"}

(* What DisableMethod calls have switched off stays off: an undisturbed    *)
(* call past its update has switched its type off, and no call that is     *)
(* enabling a type runs beside one whose effect is still claimed.          *)
SwitchInv ==
    /\ main = "load" => settled = {} /\ \A a \in Admins : apc[a] = "idle"
    /\ \A t \in settled : SwitchedOff(t)
    /\ \A a \in Admins : calm[a] => op[a] = "disable" /\ Calling(a)
    /\ \A a \in Admins :
         calm[a] /\ apc[a] \in {"list", "notify"} => SwitchedOff(ty[a])
    /\ \A a \in Admins : Calling(a) /\ op[a] = "enable"
         => /\ ty[a] \notin settled
            /\ \A b \in Admins : calm[b] => ty[b] # ty[a]

(* Steps that touch neither the calls nor the live list preserve it.       *)
LEMMA SwitchQuiet ==
  ASSUME SwitchInv, UNCHANGED <<live, apc, op, ty, calm, settled>>,
         main' = "load" => main = "load"
  PROVE  SwitchInv'
BY Zenon DEF SwitchInv, SwitchedOff, Calling, FirstOf, TypeList

(* Main, a signal, the file's editors and the watcher preserve it; a swap  *)
(* ends every claim.                                                       *)
LEMMA SwitchMain ==
  ASSUME TypeOK, SwitchInv,
         \/ Main \/ Signal \/ Watcher
         \/ \E c \in Contents : WriteFile(c) \/ ReplaceFile(c)
  PROVE  SwitchInv'
<1> USE DEF files, watcher, admin, pipeline, seenVars, WatcherFrame
<1>1. CASE MainLoad
  <2>1. CASE file \in Valid
    <3>1. /\ settled' = {} /\ main' = "version"
          /\ UNCHANGED <<apc, op, ty, calm>>
          /\ \A a \in Admins : apc[a] = "idle"
      BY <1>1, <2>1 DEF MainLoad, SwitchInv
    <3> QED BY <3>1, Zenon DEF SwitchInv, Calling
  <2>2. CASE file \notin Valid BY <1>1, <2>2, SwitchQuiet, Zenon DEF MainLoad
  <2> QED BY <2>1, <2>2
<1>2. CASE MainVersion BY <1>2, SwitchQuiet DEF MainVersion
<1>3. CASE MainWatch BY <1>3, SwitchQuiet DEF MainWatch
<1>4. CASE MainStop BY <1>4, SwitchQuiet DEF MainStop
<1>5. CASE Signal BY <1>5, SwitchQuiet DEF Signal
<1>6. ASSUME NEW c \in Contents, WriteFile(c) PROVE SwitchInv'
  BY <1>6, SwitchQuiet DEF WriteFile
<1>7. ASSUME NEW c \in Contents, ReplaceFile(c) PROVE SwitchInv'
  BY <1>7, SwitchQuiet DEF ReplaceFile
<1>8. CASE WatchEvent BY <1>8, SwitchQuiet DEF WatchEvent
<1>9. CASE WatchExit BY <1>9, SwitchQuiet DEF WatchExit
<1>10. CASE ReloadRead BY <1>10, SwitchQuiet DEF ReloadRead
<1>11. CASE ReloadLoad BY <1>11, SwitchQuiet DEF ReloadLoad
<1>12. CASE ReloadSwap
  <2>1. /\ settled' = {} /\ calm' = [a \in Admins |-> FALSE]
        /\ UNCHANGED <<main, apc, op, ty>>
    BY <1>12 DEF ReloadSwap
  <2> QED BY <2>1 DEF SwitchInv, Calling
<1>13. CASE ReloadSink BY <1>13, SwitchQuiet DEF ReloadSink
<1>14. CASE MainFail BY <1>14, SwitchQuiet DEF MainFail
<1> QED BY <1>1, <1>2, <1>3, <1>4, <1>5, <1>6, <1>7, <1>8, <1>9, <1>10, <1>11,
           <1>12, <1>13, <1>14 DEF Main, Watcher

(* A successful CompareAndSwap of a call for one type leaves the other     *)
(* types as they are, and a disabling one leaves its own type off.         *)
LEMMA SwitchUpdate ==
  ASSUME TypeOK, NEW a \in Admins, Loaded(a), old[a] = live,
         live' = Updated(a), NEW t,
         \/ SwitchedOff(t) /\ (op[a] = "enable" => t # ty[a])
         \/ op[a] = "disable" /\ t = ty[a]
  PROVE  SwitchedOff(t)'
<1>1. /\ live'.conf = live.conf
      /\ live'.off = IF op[a] = "disable"
                     THEN live.off \cup {FirstOf(live, ty[a])}
                     ELSE live.off \ {FirstOf(live, ty[a])}
  BY UpdatedList, Zenon
<1>2. FirstOf(live, t)' = FirstOf(live, t)
  BY <1>1, Zenon DEF FirstOf, TypeList
<1>3. ASSUME FirstOf(live, t) # 0, t # ty[a]
      PROVE  FirstOf(live, t) # FirstOf(live, ty[a])
  BY <1>3, FirstOfFound DEF Loaded
<1>4. op[a] \in {"disable", "enable"}
  BY DEF Loaded
<1>5. FirstOf(live, t) \in live'.off \cup {0}
  BY <1>1, <1>3, <1>4 DEF SwitchedOff
<1>6. SwitchedOff(t)' <=> FirstOf(live, t)' \in live'.off \cup {0}
  BY DEF SwitchedOff
<1> QED BY <1>2, <1>5, <1>6

(* The load of updateMethod ends the update only if the type is not there. *)
LEMMA LoadSteps ==
  ASSUME TypeOK, NEW a \in Admins, NEW t, UpdateLoad(a, t), live' = live
  PROVE  /\ \A b \in Admins \ {a} : apc'[b] = apc[b]
         /\ \/ apc'[a] = "cas"
            \/ apc'[a] = "list" /\ SwitchedOff(t)
<1>1. CASE FirstOf(live, t) # 0
  <2>1. apc' = [apc EXCEPT ![a] = "cas"]
    BY <1>1 DEF UpdateLoad, AdminGoto
  <2> QED BY <2>1 DEF TypeOK
<1>2. CASE FirstOf(live, t) = 0
  <2>1. apc' = [apc EXCEPT ![a] = "list"]
    BY <1>2 DEF UpdateLoad, AdminGoto
  <2>2. SwitchedOff(t)
    BY <1>2 DEF SwitchedOff
  <2> QED BY <2>1, <2>2 DEF TypeOK
<1> QED BY <1>1, <1>2

(* The kill-switch calls preserve SwitchInv.                               *)
LEMMA SwitchAdmin ==
  ASSUME TypeOK, ListInv, SwitchInv, NEW a \in Admins,
         \/ \E t \in Types : AdminCall(a, "disable", t) \/ AdminCall(a, "enable", t)
         \/ AdminStep(a)
  PROVE  SwitchInv'
<1>1. ASSUME NEW t \in Types, NEW what \in {"disable", "enable"},
             AdminCall(a, what, t)
      PROVE  SwitchInv'
  <2>1. /\ main = "serve" /\ main' = main /\ live' = live /\ apc[a] = "idle"
        /\ UpdateLoad(a, t)
        /\ op' = [op EXCEPT ![a] = what] /\ ty' = [ty EXCEPT ![a] = t]
        /\ settled' = IF what = "enable" THEN settled \ {t} ELSE settled
        /\ calm' = [b \in Admins |->
                      IF b = a THEN what = "disable" /\ Enabling(t) = {}
                      ELSE calm[b] /\ ~(what = "enable" /\ ty[b] = t)]
    BY <1>1, Zenon DEF AdminCall, AdminFrame
  <2>2. /\ \A b \in Admins \ {a} : apc'[b] = apc[b]
        /\ apc'[a] = "cas" \/ (apc'[a] = "list" /\ SwitchedOff(t))
    BY <2>1, LoadSteps, Zenon
  <2>3. \A b \in Admins : IF b = a THEN op'[b] = what /\ ty'[b] = t
                                   ELSE op'[b] = op[b] /\ ty'[b] = ty[b]
    BY <2>1 DEF TypeOK
  <2>4. \A u : SwitchedOff(u)' <=> SwitchedOff(u)
    BY <2>1, Zenon DEF SwitchedOff, FirstOf, TypeList
  <2>5. \A b \in Admins \ {a} :
          calm'[b] => calm[b] /\ (what = "enable" => ty[b] # t)
    BY <2>1, Zenon
  <2>6. calm'[a] => what = "disable" /\ Enabling(t) = {}
    BY <2>1, Zenon
  <2>7. ASSUME NEW b \in Admins, Calling(b)', op'[b] = "enable"
        PROVE  /\ ty'[b] \notin settled'
               /\ \A c \in Admins : calm'[c] => ty'[c] # ty'[b]
    <3>1. CASE b = a
      <4>1. what = "enable" /\ ty'[b] = t
        BY <2>3, <2>7, <3>1
      <4>2. t \notin settled'
        BY <2>1, <4>1, Zenon
      <4>3. ~calm'[a]
        BY <2>6, <4>1
      <4>4. \A c \in Admins \ {a} : calm'[c] => ty'[c] # t
        BY <2>3, <2>5, <4>1
      <4> QED BY <3>1, <4>1, <4>2, <4>3, <4>4
    <3>2. CASE b # a
      <4>1. Calling(b) /\ op[b] = "enable" /\ ty'[b] = ty[b]
        BY <2>2, <2>3, <2>7, <3>2, Zenon DEF Calling
      <4>2. ty[b] \notin settled /\ \A c \in Admins : calm[c] => ty[c] # ty[b]
        BY <4>1 DEF SwitchInv
      <4>3. ty[b] = t => b \in Enabling(t)
        BY <4>1 DEF Enabling, Calling
      <4>4. calm'[a] => ty[b] # t
        BY <2>6, <4>3
      <4>5. settled' \subseteq settled
        BY <2>1
      <4> QED BY <2>3, <2>5, <4>1, <4>2, <4>4, <4>5, Zenon
    <3> QED BY <3>1, <3>2
  <2>8. \A u \in settled' : SwitchedOff(u)'
    BY <2>1, <2>4, Zenon DEF SwitchInv
  <2>9. \A b \in Admins : calm'[b] => op'[b] = "disable" /\ Calling(b)'
    BY <2>2, <2>3, <2>5, <2>6, Zenon DEF SwitchInv, Calling
  <2>10. \A b \in Admins :
           calm'[b] /\ apc'[b] \in {"list", "notify"} => SwitchedOff(ty[b])'
    <3>1. ASSUME NEW b \in Admins, calm'[b], apc'[b] \in {"list", "notify"}
          PROVE  SwitchedOff(ty[b])'
      <4>1. SwitchedOff(IF b = a THEN t ELSE ty[b])
        BY <2>2, <2>5, <3>1 DEF SwitchInv
      <4>2. ty'[b] = IF b = a THEN t ELSE ty[b]
        BY <2>3
      <4>3. /\ live' = live
            /\ FirstOf(live, ty[b])' = FirstOf(live, ty'[b])
        BY <2>1, Zenon DEF FirstOf, TypeList
      <4> QED BY <4>1, <4>2, <4>3 DEF SwitchedOff
    <3> QED BY <3>1, Zenon
  <2> QED BY <2>1, <2>7, <2>8, <2>9, <2>10, Zenon DEF SwitchInv
<1>2. CASE UpdateRetry(a)
  <2>1. /\ main = "serve" /\ UpdateLoad(a, ty[a]) /\ apc[a] = "retry"
        /\ UNCHANGED <<op, ty, calm, settled, live, main>>
    BY <1>2 DEF UpdateRetry, AdminFrame
  <2>2. /\ \A b \in Admins \ {a} : apc'[b] = apc[b]
        /\ apc'[a] = "cas" \/ (apc'[a] = "list" /\ SwitchedOff(ty[a]))
    BY <2>1, LoadSteps, Zenon
  <2>3. \A u : SwitchedOff(u)' <=> SwitchedOff(u)
    BY <2>1 DEF SwitchedOff, FirstOf, TypeList
  <2>4. \A b \in Admins : Calling(b)' <=> Calling(b)
    BY <2>1, <2>2 DEF Calling
  <2> QED BY <2>1, <2>2, <2>3, <2>4, Zenon DEF SwitchInv
<1>3. CASE UpdateCAS(a)
  <2>1. /\ apc[a] = "cas" /\ main = "serve" /\ Loaded(a)
        /\ UNCHANGED <<op, ty, calm, settled, main>>
    BY <1>3, Zenon DEF UpdateCAS, AdminFrame, ListInv
  <2>2. CASE same[a]
    <3>1. /\ live' = Updated(a) /\ old[a] = live
          /\ apc' = [apc EXCEPT ![a] = "list"]
      BY <1>3, <2>1, <2>2, Zenon DEF UpdateCAS, Store, AdminGoto, ListInv
    <3>2. \A b \in Admins : apc'[b] = IF b = a THEN "list" ELSE apc[b]
      BY <3>1 DEF TypeOK
    <3>3. \A b \in Admins : Calling(b)' <=> Calling(b)
      BY <2>1, <3>2, Zenon DEF Calling
    <3>4. Calling(a)
      BY <2>1 DEF Calling
    <3>5. \A u \in settled : SwitchedOff(u)'
      BY <2>1, <3>1, <3>4, SwitchUpdate, Zenon DEF SwitchInv
    <3>6. ASSUME NEW b \in Admins, calm[b], apc'[b] \in {"list", "notify"}
          PROVE  SwitchedOff(ty[b])'
      <4>1. CASE b = a
        BY <2>1, <3>1, <3>6, <4>1, SwitchUpdate DEF SwitchInv
      <4>2. CASE b # a
        <5>1. SwitchedOff(ty[b]) /\ (op[a] = "enable" => ty[b] # ty[a])
          BY <3>2, <3>4, <3>6, <4>2, Zenon DEF SwitchInv
        <5> QED BY <2>1, <3>1, <5>1, SwitchUpdate
      <4> QED BY <4>1, <4>2
    <3>7. \A b \in Admins :
            calm'[b] /\ apc'[b] \in {"list", "notify"} => SwitchedOff(ty[b])'
      BY <2>1, <3>6
    <3>8. ty' = ty
      BY <2>1
    <3> QED BY <2>1, <3>3, <3>5, <3>7, <3>8, Zenon DEF SwitchInv
  <2>3. CASE ~same[a]
    <3>1. live' = live /\ apc' = [apc EXCEPT ![a] = "retry"]
      BY <1>3, <2>3 DEF UpdateCAS, AdminGoto, pipeline
    <3>2. \A b \in Admins : apc'[b] = IF b = a THEN "retry" ELSE apc[b]
      BY <3>1 DEF TypeOK
    <3>3. \A b \in Admins : Calling(b)' <=> Calling(b)
      BY <2>1, <3>2, Zenon DEF Calling
    <3>4. \A u : SwitchedOff(u)' <=> SwitchedOff(u)
      BY <3>1, Zenon DEF SwitchedOff, FirstOf, TypeList
    <3> QED BY <2>1, <3>2, <3>3, <3>4, Zenon DEF SwitchInv
  <2> QED BY <2>2, <2>3
<1>4. CASE AdminList(a)
  <2>1. /\ apc[a] = "list" /\ apc' = [apc EXCEPT ![a] = "notify"] /\ main = "serve"
        /\ UNCHANGED <<live, op, ty, calm, settled, main>>
    BY <1>4 DEF AdminList, AdminGoto, AdminFrame, pipeline
  <2>2. \A b \in Admins : apc'[b] = IF b = a THEN "notify" ELSE apc[b]
    BY <2>1 DEF TypeOK
  <2>3. \A b \in Admins : Calling(b)' <=> Calling(b)
    BY <2>1, <2>2 DEF Calling
  <2>4. \A u : SwitchedOff(u)' <=> SwitchedOff(u)
    BY <2>1 DEF SwitchedOff, FirstOf, TypeList
  <2> QED BY <2>1, <2>2, <2>3, <2>4, Zenon DEF SwitchInv
<1>5. CASE AdminNotify(a)
  <2>1. /\ apc[a] = "notify" /\ main = "serve"
        /\ apc' = [apc EXCEPT ![a] = "done"]
        /\ op' = [op EXCEPT ![a] = None] /\ ty' = [ty EXCEPT ![a] = None]
        /\ calm' = [calm EXCEPT ![a] = FALSE]
        /\ settled' = IF calm[a] THEN settled \cup {ty[a]} ELSE settled
        /\ UNCHANGED <<live, main>>
    BY <1>5 DEF AdminNotify, AdminGoto, AdminFrame, pipeline
  <2>2. /\ apc'[a] = "done"
        /\ \A b \in Admins \ {a} : /\ apc'[b] = apc[b] /\ op'[b] = op[b]
                                   /\ ty'[b] = ty[b]
    BY <2>1 DEF TypeOK
  <2>3. \A b \in Admins : calm'[b] => b # a /\ calm[b]
    BY <2>1 DEF TypeOK
  <2>4. \A u : SwitchedOff(u)' <=> SwitchedOff(u)
    BY <2>1, Zenon DEF SwitchedOff, FirstOf, TypeList
  <2>5. \A b \in Admins : Calling(b)' => b # a /\ Calling(b)
    BY <2>2 DEF Calling
  <2>6. \A b \in Admins \ {a} : Calling(b)' <=> Calling(b)
    BY <2>2 DEF Calling
  <2>7. \A u \in settled' : SwitchedOff(u)'
    BY <2>1, <2>4 DEF SwitchInv
  <2>8. ASSUME NEW b \in Admins, Calling(b)', op'[b] = "enable"
        PROVE  /\ ty'[b] \notin settled'
               /\ \A c \in Admins : calm'[c] => ty'[c] # ty'[b]
    <3>1. /\ b # a /\ Calling(b) /\ op[b] = "enable" /\ ty'[b] = ty[b]
      BY <2>2, <2>5, <2>8, Zenon
    <3>2. ty[b] \notin settled /\ \A c \in Admins : calm[c] => ty[c] # ty[b]
      BY <3>1 DEF SwitchInv
    <3> QED BY <2>1, <2>2, <2>3, <3>1, <3>2
  <2> QED BY <2>1, <2>2, <2>3, <2>4, <2>6, <2>7, <2>8 DEF SwitchInv
<1> QED BY <1>1, <1>2, <1>3, <1>4, <1>5 DEF AdminStep

-----------------------------------------------------------------------------
(* The inductive invariant and the theorems.                               *)

PolicyInv == TypeOK /\ ListInv /\ WatcherInv /\ SwitchInv

(* It holds when main starts.                                              *)
LEMMA PolicyInit == Init => PolicyInv
<1> SUFFICES ASSUME Init PROVE PolicyInv
  OBVIOUS
<1> USE PolicyAssumption DEF Init
<1>1. TypeOK
  <2>1. [conf |-> None, off |-> {}] \in List BY Zenon DEF List
  <2>2. /\ apc \in [Admins -> {"idle", "retry", "cas", "list", "notify", "done"}]
        /\ op \in [Admins -> {None, "disable", "enable"}]
        /\ ty \in [Admins -> Types \cup {None}]
        /\ old \in [Admins -> List \cup {None}]
        /\ got \in [Admins -> SUBSET Types]
    BY Zenon
  <2>3. same \in [Admins -> BOOLEAN] /\ calm \in [Admins -> BOOLEAN]
    OBVIOUS
  <2>4. file \in Contents /\ edits \in 0..MaxEdits
    OBVIOUS
  <2> QED BY <2>1, <2>2, <2>3, <2>4, Zenon DEF TypeOK
<1>2. ListInv BY DEF ListInv, LiveIsLatestGood
<1>3. WatcherInv BY DEF WatcherInv
<1>4. SwitchInv BY DEF SwitchInv, Calling
<1> QED BY <1>1, <1>2, <1>3, <1>4 DEF PolicyInv

(* Every step preserves it.                                                *)
LEMMA PolicyStep == PolicyInv /\ [Next]_vars => PolicyInv'
<1> SUFFICES ASSUME PolicyInv, [Next]_vars PROVE PolicyInv'
  OBVIOUS
<1> USE DEF PolicyInv
<1>1. WatcherInv' BY WatcherStep
<1>2. CASE \/ Main \/ Signal
           \/ \E c \in Contents : WriteFile(c) \/ ReplaceFile(c)
  BY <1>1, <1>2, TypeMain, ListMain, SwitchMain
<1>3. CASE Watcher
  BY <1>1, <1>3, TypeWatcher, ListMain, SwitchMain
<1>4. ASSUME NEW a \in Admins,
             \/ \E t \in Types : AdminCall(a, "disable", t) \/ AdminCall(a, "enable", t)
             \/ AdminStep(a)
      PROVE  PolicyInv'
  BY <1>1, <1>4, TypeAdmin, ListAdmin, SwitchAdmin
<1>5. CASE UNCHANGED vars
  <2>1. UNCHANGED <<file, watched, event, edits, wpc, armed, newHash, apc, op, ty,
                    old, got, live, same, current, due, calm, settled, main, ctx,
                    cfg, version, gauge, known>>
    BY <1>5 DEF vars, files, watcher, admin, pipeline, seenVars
  <2>2. TypeOK'
    <3>1. /\ file' \in Contents /\ watched' \in BOOLEAN /\ event' \in BOOLEAN
          /\ main' \in {"load", "version", "watch", "serve", "exited"}
          /\ ctx' \in BOOLEAN /\ live' \in List
      BY <2>1, Zenon DEF TypeOK
    <3>2. /\ wpc' \in {"off", "select", "load", "swap", "sink", "exited"}
          /\ armed' \in BOOLEAN
          /\ newHash' \in Contents \cup {None} /\ version' \in Contents \cup {None}
          /\ cfg' \in Valid \cup {None}
      BY <2>1, Zenon DEF TypeOK
    <3>3. /\ apc' \in [Admins -> {"idle", "retry", "cas", "list", "notify", "done"}]
          /\ op' \in [Admins -> {None, "disable", "enable"}]
          /\ ty' \in [Admins -> Types \cup {None}]
          /\ old' \in [Admins -> List \cup {None}]
          /\ got' \in [Admins -> SUBSET Types]
          /\ same' \in [Admins -> BOOLEAN]
      BY <2>1, Zenon DEF TypeOK
    <3>4. /\ gauge' \subseteq Types /\ known' \subseteq Types
          /\ edits' \in 0..MaxEdits
          /\ current' \in Valid \cup {None} /\ due' \in BOOLEAN
          /\ calm' \in [Admins -> BOOLEAN] /\ settled' \subseteq Types
      BY <2>1, Zenon DEF TypeOK
    <3> QED BY <3>1, <3>2, <3>3, <3>4, Zenon DEF TypeOK
  <2>3. ListInv' BY <2>1, ListQuiet, Zenon DEF ListInv
  <2>4. SwitchInv' BY <2>1, SwitchQuiet
  <2> QED BY <1>1, <2>2, <2>3, <2>4
<1> QED BY <1>2, <1>3, <1>4, <1>5 DEF Next

(* PolicyInv holds throughout.                                             *)
THEOREM PolicyHolds == Spec => []PolicyInv
BY PolicyInit, PolicyStep, PTL DEF Spec

(* Validate before activate, for any contents, edits and calls: the live   *)
(* methods are always those of the latest content that loaded and built.   *)
THEOREM ValidateBeforeActivate == Spec => []LiveIsLatestGood
<1>1. PolicyInv => LiveIsLatestGood BY DEF PolicyInv, ListInv
<1> QED BY <1>1, PolicyHolds, PTL

(* The kill-switch is effective on the next request, whatever calls run    *)
(* beside it: no Route call is decided by a method that is switched off.   *)
THEOREM KillSwitch == Spec => []NextRequestSkips
<1>1. ASSUME PolicyInv, main = "serve", NEW t \in settled,
             FirstOf(live, t) \in Evaluate(live) \ {0}
      PROVE  FALSE
  <2>1. FirstOf(live, t) \in live.off
    BY <1>1 DEF PolicyInv, SwitchInv, SwitchedOff
  <2>2. PICK deciding \in SUBSET Enabled(live) :
          FirstOf(live, t) = IF deciding = {} THEN 0 ELSE Min(deciding)
    BY <1>1 DEF Evaluate
  <2>3. deciding # {} /\ FirstOf(live, t) = Min(deciding)
    BY <1>1, <2>2
  <2>4. deciding \in SUBSET Nat
    <3>1. live.conf \in Valid
      BY <1>1 DEF PolicyInv, ListInv
    <3>2. Methods[live.conf] \in Seq(Types)
      BY <3>1, PolicyAssumption
    <3> QED BY <3>2 DEF Enabled, TypeList
  <2>5. Min(deciding) \in deciding
    BY <2>3, <2>4, MinIn
  <2> QED BY <2>1, <2>3, <2>5 DEF Enabled
<1>2. PolicyInv => NextRequestSkips
  BY <1>1 DEF NextRequestSkips
<1> QED BY <1>2, PolicyHolds, PTL

(* Every variable keeps its type, so that only the methods of a content    *)
(* that loaded and built are ever handed to Swap.                          *)
THEOREM PolicyTyped == Spec => []TypeOK
<1>1. PolicyInv => TypeOK BY DEF PolicyInv
<1> QED BY <1>1, PolicyHolds, PTL

(* How far the edit made last has come, when neither an event nor the      *)
(* timer is left to announce it: a reload under way has read it, in both   *)
(* of its reads, and one that is over has applied it.                      *)
EditInv ==
    /\ wpc = "off" => ~watched /\ ~due
    /\ due /\ file \in Valid /\ ~event /\ ~armed =>
         /\ wpc = "load" => newHash = file
         /\ wpc = "swap" => newHash = file /\ cfg = file
         /\ wpc = "sink" => newHash = file /\ current = file
         /\ wpc = "select" => current = file /\ version = file

(* Every step preserves it; a write under the watch queues an event.       *)
LEMMA EditStep == ASSUME TypeOK, WatcherInv, EditInv, [Next]_vars PROVE EditInv'
<1> USE DEF EditInv
<1>1. CASE Main
  <2>1. CASE MainLoad BY <1>1, <2>1, Zenon DEF MainLoad, WatcherInv, files, watcher
  <2>2. CASE MainVersion BY <2>2 DEF MainVersion, WatcherInv, files, watcher, seenVars
  <2>3. CASE MainWatch BY <2>3 DEF MainWatch, WatcherInv, seenVars
  <2>4. CASE MainStop BY <2>4 DEF MainStop, files, watcher, seenVars
  <2>5. CASE MainFail BY <2>5 DEF MainFail, files, seenVars
  <2> QED BY <1>1, <2>1, <2>2, <2>3, <2>4, <2>5, Zenon DEF Main
<1>2. CASE Signal BY <1>2 DEF Signal, files, watcher, seenVars
<1>3. CASE Watcher
  <2>1. CASE WatchEvent BY <2>1 DEF WatchEvent, WatcherFrame, seenVars
  <2>2. CASE WatchExit BY <2>2 DEF WatchExit, WatcherFrame, seenVars
  <2>3. CASE ReloadRead BY <2>3 DEF ReloadRead, WatcherFrame, seenVars
  <2>4. CASE ReloadLoad BY <2>4 DEF ReloadLoad, WatcherFrame, seenVars
  <2>5. CASE ReloadSwap BY <2>5 DEF ReloadSwap, WatcherFrame
  <2>6. CASE ReloadSink BY <2>6 DEF ReloadSink, WatcherFrame, seenVars
  <2> QED BY <1>3, <2>1, <2>2, <2>3, <2>4, <2>5, <2>6, Zenon DEF Watcher
<1>4. ASSUME NEW c \in Contents, WriteFile(c) PROVE EditInv'
  <2>1. event' = (event \/ watched) /\ due' = watched /\ UNCHANGED <<wpc, watched>>
    BY <1>4 DEF WriteFile, watcher
  <2> QED BY <2>1, Zenon
<1>5. ASSUME NEW c \in Contents, ReplaceFile(c) PROVE EditInv'
  <2>1. watched' = FALSE /\ due' = FALSE BY <1>5 DEF ReplaceFile
  <2> QED BY <2>1
<1>6. ASSUME NEW a \in Admins, NEW t, NEW what, AdminCall(a, what, t) PROVE EditInv'
  BY <1>6, Zenon DEF AdminCall, AdminFrame, files, watcher
<1>7. ASSUME NEW a \in Admins, AdminStep(a) PROVE EditInv'
  <2>1. AdminFrame
    BY <1>7, Zenon DEF AdminStep, UpdateRetry, UpdateCAS, AdminList, AdminNotify
  <2> QED BY <2>1 DEF AdminFrame, files, watcher
<1>8. CASE UNCHANGED vars BY <1>8 DEF vars, files, watcher, seenVars
<1> QED BY <1>1, <1>2, <1>3, <1>4, <1>5, <1>6, <1>7, <1>8, Zenon DEF Next

(* No edit is lost, however many there are and whenever they come: when    *)
(* the watcher has nothing left to do, the content written last is live    *)
(* and its hash is shown, or it does not load.                             *)
THEOREM EditsApplied == Spec => []WrittenIsApplied
<1>1. Init => EditInv BY DEF Init, EditInv
<1>2. PolicyInv /\ EditInv /\ [Next]_vars => EditInv'
  BY EditStep DEF PolicyInv
<1>3. EditInv => WrittenIsApplied BY DEF EditInv, WrittenIsApplied
<1> QED BY <1>1, <1>2, <1>3, PolicyHolds, PTL DEF Spec

(* Stop drains the watcher: once main is past it no step swaps a list in   *)
(* or sets a version.                                                      *)
THEOREM StopDrains == Spec => NoReloadAfterStop
<1>1. ASSUME WatcherInv, [Next]_vars, main = "exited"
      PROVE  UNCHANGED <<version, current>>
  <2> USE <1>1 DEF WatcherInv, files, watcher, admin, seenVars, pipeline
  <2>1. CASE Main
    BY <2>1, Zenon DEF Main, MainLoad, MainVersion, MainWatch, MainStop, MainFail
  <2>2. CASE Signal BY <2>2 DEF Signal
  <2>3. CASE Watcher
    BY <2>3 DEF Watcher, WatchEvent, WatchExit, ReloadRead, ReloadLoad, ReloadSwap,
                ReloadSink
  <2>4. ASSUME NEW c \in Contents, WriteFile(c) \/ ReplaceFile(c)
        PROVE  UNCHANGED <<version, current>>
    BY <2>4 DEF WriteFile, ReplaceFile
  <2>5. ASSUME NEW a \in Admins, NEW t, NEW what, AdminCall(a, what, t) PROVE FALSE
    BY <2>5, Zenon DEF AdminCall
  <2>6. ASSUME NEW a \in Admins, AdminStep(a) PROVE FALSE
    BY <2>6, Zenon DEF AdminStep, UpdateRetry, UpdateCAS, AdminList, AdminNotify,
                AdminFrame
  <2>7. CASE UNCHANGED vars BY <2>7 DEF vars
  <2> QED BY <2>1, <2>2, <2>3, <2>4, <2>5, <2>6, <2>7 DEF Next
<1>2. PolicyInv /\ [Next]_vars => [main = "exited" => UNCHANGED <<version, current>>]_vars
  BY <1>1 DEF PolicyInv
<1> QED BY <1>2, PolicyHolds, PTL DEF Spec, NoReloadAfterStop
=============================================================================
