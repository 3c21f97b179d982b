---------------------------- MODULE PolicyReload ----------------------------
(***************************************************************************)
(* The routing service: the pipeline of routing methods                    *)
(* (internal/engine/pipeline.go), the admin kill-switch that edits it by   *)
(* compare-and-swap (internal/server/admin.go), and the watcher that       *)
(* replaces it when the configuration file changes                         *)
(* (internal/reload/watcher.go), as main wires them.                       *)
(*                                                                         *)
(* Main, the watcher, the administrators' calls and the Route calls run    *)
(* concurrently and share the pipeline through one atomic pointer.  A      *)
(* method list is the method types of the content it was built from and    *)
(* the positions that are wrapped in disabledMethod.  CompareAndSwap sees  *)
(* that the pointer is the one the call loaded: that nothing was stored    *)
(* since.  The SHA-256 of a content is the content.                        *)
(***************************************************************************)
EXTENDS Naturals, Sequences, FiniteSetsExt

CONSTANTS
    Contents,       \* what the configuration file may hold
    Valid,          \* the contents that parse and whose methods all build
    Methods,        \* content -> the types of its methods, in order
    Types,          \* method types
    Admins,         \* calls of DisableMethod and EnableMethod
    MaxEdits,       \* bound on changes of the file
    None

ASSUME PolicyAssumption ==
    /\ Valid \subseteq Contents /\ None \notin Contents \cup Types
    /\ Methods \in [Valid -> Seq(Types)]
    /\ MaxEdits \in Nat

VARIABLES
    file,                   \* content of the configuration file
    watched,                \* the inotify watch is on the file at configPath
    event,                  \* an event that arms the timer is queued
    main, ctx,              \* main's step; the signal context is done
    live,                   \* Pipeline.methods
    wpc, armed, newHash,    \* the watcher: step, debounce timer, local
    cfg,                    \* the content whose methods reload has built
    version,                \* Server.configVersion, set by versionSink
    apc, op, ty, old, got,  \* an admin call: step, request, locals
    same,                   \* the pointer it loaded is still the current
    gauge,                  \* types whose method_disabled series is 1
    known,                  \* allMethodTypes: the types main started with
    edits,
    \* Observations, for the properties only:
    current,                \* the content of the latest successful load
    due,                    \* the file changed in place under the watch
    calm, settled           \* undisturbed calls; types they switched off

files   == <<file, watched, event, edits>>
watcher == <<wpc, armed, newHash>>
admin   == <<apc, op, ty, old, got>>
pipeline == <<live, same>>
seenVars == <<current, due, calm, settled>>
vars    == <<files, watcher, admin, seenVars, main, ctx, pipeline,
             cfg, version, gauge, known>>

-----------------------------------------------------------------------------
(* Method lists.                                                           *)

TypeList(l) == Methods[l.conf]
Enabled(l)  == DOMAIN TypeList(l) \ l.off

(* The first method of a type, or 0.                                       *)
FirstOf(l, t) ==
    LET places == {i \in DOMAIN TypeList(l) : TypeList(l)[i] = t}
    IN IF places = {} THEN 0 ELSE Min(places)

(* Slip: the methods are asked without isDisabled.                         *)
EvaluateAll(l) ==
    {IF deciding = {} THEN 0 ELSE Min(deciding) :
       deciding \in SUBSET DOMAIN TypeList(l)}

(* Evaluate and EvaluateResult load the list once, so that a Route call is *)
(* one read of the pointer.  The enabled methods are asked in order; one   *)
(* that errs, panics or defers is skipped, the first that decides wins,    *)
(* and 0 is the default group.  Which methods decide is up to the request. *)
Evaluate(l) ==
    {IF deciding = {} THEN 0 ELSE Min(deciding) :
       deciding \in SUBSET Enabled(l)}

DisabledTypes(l) == {TypeList(l)[i] : i \in l.off}

Store(l) ==
    /\ live' = l
    /\ same' = [a \in Admins |-> FALSE]

(* Pipeline.swap: a fresh list, with nothing disabled.                     *)
Swap(c) == Store([conf |-> c, off |-> {}])

Init ==
    /\ file \in Valid /\ watched = FALSE /\ event = FALSE
    /\ main = "load" /\ ctx = FALSE
    /\ live = [conf |-> None, off |-> {}]
    /\ wpc = "off" /\ armed = FALSE /\ newHash = None /\ cfg = None
    /\ version = None
    /\ apc = [a \in Admins |-> "idle"]
    /\ op = [a \in Admins |-> None] /\ ty = [a \in Admins |-> None]
    /\ old = [a \in Admins |-> None] /\ got = [a \in Admins |-> {}]
    /\ same = [a \in Admins |-> FALSE]
    /\ gauge = {} /\ known = {}
    /\ edits = 0
    /\ current = None /\ due = FALSE
    /\ calm = [a \in Admins |-> FALSE] /\ settled = {}

-----------------------------------------------------------------------------
(* Main: load and build, seed the version from a second read of the file,  *)
(* start the watcher, serve.                                               *)

MainLoad ==
    /\ main = "load"
    /\ \/ /\ file \in Valid
          /\ Swap(file)
          /\ known' = {Methods[file][i] : i \in DOMAIN Methods[file]}
          /\ current' = file
          /\ main' = "version"
       \/ /\ file \notin Valid
          /\ main' = "exited"
          /\ UNCHANGED <<pipeline, known, current>>
    /\ UNCHANGED <<files, watcher, admin, due, calm, settled, ctx, cfg, version, gauge>>

MainVersion ==
    /\ main = "version"
    /\ version' = file
    /\ main' = "watch"
    /\ UNCHANGED <<files, watcher, admin, seenVars, ctx, pipeline, cfg,
                   gauge, known>>

MainWatch ==
    /\ main = "watch"
    /\ watched' = TRUE
    /\ wpc' = "select"
    /\ main' = "serve"
    /\ UNCHANGED <<file, event, edits, armed, newHash, admin, seenVars,
                   ctx, pipeline, cfg, version, gauge, known>>

Signal ==
    /\ main \notin {"load", "exited"} /\ ~ctx
    /\ ctx' = TRUE
    /\ UNCHANGED <<files, watcher, admin, seenVars, main, pipeline, cfg,
                   version, gauge, known>>

(* Slip: Stop closes the fsnotify watcher and does not wait for the loop.  *)
MainStopAtOnce ==
    /\ main = "serve" /\ ctx
    /\ main' = "exited"
    /\ UNCHANGED <<files, watcher, admin, seenVars, ctx, pipeline, cfg,
                   version, gauge, known>>

(* srv.Start and admin.Start return, the deferred watcher.Stop closes the  *)
(* fsnotify watcher and waits for the goroutine.                           *)
MainStop ==
    /\ main = "serve" /\ ctx
    /\ wpc = "exited"
    /\ main' = "exited"
    /\ UNCHANGED <<files, watcher, admin, seenVars, ctx, pipeline, cfg,
                   version, gauge, known>>

(* os.Exit(1): the watcher cannot be started, or the gRPC, the admin or    *)
(* the metrics server returned an error.  Every goroutine ends with it.    *)
MainFail ==
    /\ main \in {"watch", "serve"}
    /\ main' = "exited"
    /\ wpc' = "exited"
    /\ UNCHANGED <<files, armed, newHash, admin, seenVars, ctx, pipeline, cfg,
                   version, gauge, known>>

-----------------------------------------------------------------------------
(* The file, as inotify reports it.  A write in place queues an event.     *)
(* Moving the file away or renaming another onto its path takes the        *)
(* watched inode away; the first queues an event that arms the timer, the  *)
(* second only events that do not.                                         *)

WriteFile(c) ==
    /\ edits < MaxEdits /\ c # file
    /\ edits' = edits + 1
    /\ file' = c
    /\ event' = (event \/ watched)
    /\ due' = watched
    /\ UNCHANGED <<watched, watcher, admin, current, calm, settled,
                   main, ctx, pipeline, cfg, version, gauge, known>>

ReplaceFile(c) ==
    /\ edits < MaxEdits /\ c # file
    /\ edits' = edits + 1
    /\ file' = c
    /\ watched' = FALSE
    /\ event' \in {event, event \/ watched}
    /\ due' = FALSE
    /\ UNCHANGED <<watcher, admin, current, calm, settled,
                   main, ctx, pipeline, cfg, version, gauge, known>>

-----------------------------------------------------------------------------
(* The watcher goroutine: one select loop that owns the debounce timer and *)
(* reloads inline.                                                         *)

WatcherFrame == UNCHANGED <<file, watched, edits, admin, main, ctx,
                            gauge, known>>

(* Slip: an event that arrives during a reload is taken for handled.       *)
WatchEventOnce ==
    /\ wpc \in {"select", "load"} /\ event
    /\ event' = FALSE
    /\ armed' = (wpc = "select")
    /\ UNCHANGED <<wpc, newHash, cfg, pipeline, version, seenVars>>
    /\ WatcherFrame

WatchEvent ==
    /\ wpc = "select" /\ event
    /\ event' = FALSE
    /\ armed' = TRUE
    /\ UNCHANGED <<wpc, newHash, cfg, pipeline, version, seenVars>>
    /\ WatcherFrame

WatchExit ==
    /\ wpc = "select" /\ ctx
    /\ wpc' = "exited"
    /\ UNCHANGED <<event, armed, newHash, cfg, pipeline, version, seenVars>>
    /\ WatcherFrame

(* reload, 1: the bytes the hash is taken from.  A file that does not load *)
(* may be one that is not there, which fails already here.                 *)
ReloadRead ==
    /\ wpc = "select" /\ armed
    /\ armed' = FALSE
    /\ \/ newHash' = file /\ wpc' = "load"
       \/ file \notin Valid /\ UNCHANGED <<newHash, wpc>>
    /\ UNCHANGED <<event, cfg, pipeline, version, seenVars>>
    /\ WatcherFrame

(* reload, 2 and 3: config.Load reads the file again; every method is      *)
(* built.  A failure keeps the live list.                                  *)
ReloadLoad ==
    /\ wpc = "load"
    /\ \/ /\ file \in Valid
          /\ cfg' = file
          /\ wpc' = "swap"
          /\ UNCHANGED newHash
       \/ /\ file \notin Valid
          /\ newHash' = None
          /\ wpc' = "select"
          /\ UNCHANGED cfg
    /\ UNCHANGED <<event, armed, pipeline, version, seenVars>>
    /\ WatcherFrame

(* reload, 4: the swap; it also forgets what the kill-switch disabled.     *)
ReloadSwap ==
    /\ wpc = "swap"
    /\ Swap(cfg)
    /\ wpc' = "sink"
    /\ current' = cfg
    /\ calm' = [a \in Admins |-> FALSE]
    /\ settled' = {}
    /\ UNCHANGED <<event, armed, newHash, cfg, version, due>>
    /\ WatcherFrame

(* lastHash, the audit event and versionSink.                              *)
ReloadSink ==
    /\ wpc = "sink"
    /\ version' = newHash
    /\ wpc' = "select"
    /\ newHash' = None /\ cfg' = None
    /\ UNCHANGED <<event, armed, pipeline, seenVars>>
    /\ WatcherFrame

-----------------------------------------------------------------------------
(* The kill-switch.                                                        *)

AdminFrame ==
    /\ main = "serve"
    /\ UNCHANGED <<files, watcher, current, due, main, ctx, cfg,
                   version, known>>
AdminGoto(a, step) == apc' = [apc EXCEPT ![a] = step]

Enabling(t) == {a \in Admins : /\ apc[a] \notin {"idle", "done"}
                               /\ op[a] = "enable" /\ ty[a] = t}

(* updateMethod: copy the list and change the first method of the type; no *)
(* such method, or no methods, ends the update.                            *)
UpdateLoad(a, t) ==
    \/ /\ FirstOf(live, t) # 0
       /\ old' = [old EXCEPT ![a] = live]
       /\ same' = [same EXCEPT ![a] = TRUE]
       /\ AdminGoto(a, "cas")
    \/ /\ FirstOf(live, t) = 0
       /\ AdminGoto(a, "list")
       /\ UNCHANGED <<old, same>>

AdminCall(a, what, t) ==
    /\ main = "serve" /\ apc[a] = "idle"
    /\ UpdateLoad(a, t)
    /\ op' = [op EXCEPT ![a] = what]
    /\ ty' = [ty EXCEPT ![a] = t]
    /\ calm' = [b \in Admins |->
                  IF b = a THEN what = "disable" /\ Enabling(t) = {}
                  ELSE calm[b] /\ ~(what = "enable" /\ ty[b] = t)]
    /\ settled' = IF what = "enable" THEN settled \ {t} ELSE settled
    /\ UNCHANGED <<got, live, gauge>>
    /\ AdminFrame

UpdateRetry(a) ==
    /\ apc[a] = "retry"
    /\ UpdateLoad(a, ty[a])
    /\ UNCHANGED <<op, ty, got, live, gauge, calm, settled>>
    /\ AdminFrame

Updated(a) ==
    LET i == FirstOf(old[a], ty[a])
    IN [old[a] EXCEPT !.off = IF op[a] = "disable" THEN @ \cup {i}
                                                   ELSE @ \ {i}]

(* Slip: Store instead of CompareAndSwap.                                  *)
UpdateStore(a) ==
    /\ apc[a] = "cas"
    /\ Store(Updated(a))
    /\ AdminGoto(a, "list")
    /\ old' = [old EXCEPT ![a] = None]
    /\ UNCHANGED <<op, ty, got, gauge, calm, settled>>
    /\ AdminFrame

UpdateCAS(a) ==
    /\ apc[a] = "cas"
    /\ \/ same[a] /\ Store(Updated(a)) /\ AdminGoto(a, "list")
       \/ ~same[a] /\ AdminGoto(a, "retry") /\ UNCHANGED pipeline
    /\ old' = [old EXCEPT ![a] = None]
    /\ UNCHANGED <<op, ty, got, gauge, calm, settled>>
    /\ AdminFrame

AdminList(a) ==
    /\ apc[a] = "list"
    /\ got' = [got EXCEPT ![a] = DisabledTypes(live)]
    /\ AdminGoto(a, "notify")
    /\ UNCHANGED <<op, ty, old, pipeline, gauge, calm, settled>>
    /\ AdminFrame

(* notify: SyncDisabled sets the series of the known types; then the call  *)
(* returns.                                                                *)
AdminNotify(a) ==
    /\ apc[a] = "notify"
    /\ gauge' = (gauge \ known) \cup (got[a] \cap known)
    /\ AdminGoto(a, "done")
    /\ settled' = IF calm[a] THEN settled \cup {ty[a]} ELSE settled
    /\ op' = [op EXCEPT ![a] = None]
    /\ ty' = [ty EXCEPT ![a] = None]
    /\ got' = [got EXCEPT ![a] = {}]
    /\ calm' = [calm EXCEPT ![a] = FALSE]
    /\ UNCHANGED <<old, pipeline>>
    /\ AdminFrame

AdminStep(a) == \/ UpdateRetry(a) \/ UpdateCAS(a) \/ AdminList(a)
                \/ AdminNotify(a)

-----------------------------------------------------------------------------
Main    == MainLoad \/ MainVersion \/ MainWatch \/ MainStop \/ MainFail
Watcher == \/ WatchEvent \/ WatchExit \/ ReloadRead \/ ReloadLoad
           \/ ReloadSwap \/ ReloadSink

Next ==
    \/ Main \/ Signal \/ Watcher
    \/ \E c \in Contents : WriteFile(c) \/ ReplaceFile(c)
    \/ \E a \in Admins, t \in Types :
         AdminCall(a, "disable", t) \/ AdminCall(a, "enable", t)
    \/ \E a \in Admins : AdminStep(a)

Spec == Init /\ [][Next]_vars

-----------------------------------------------------------------------------
(* A method list: the content it was built from, the disabled positions.   *)
List == [conf : Valid \cup {None}, off : SUBSET (Nat \ {0})]

(* Every variable has its type; in particular only the methods of a valid  *)
(* content are ever handed to Swap.                                        *)
TypeOK ==
    /\ file \in Contents /\ watched \in BOOLEAN /\ event \in BOOLEAN
    /\ main \in {"load", "version", "watch", "serve", "exited"}
    /\ ctx \in BOOLEAN /\ live \in List
    /\ wpc \in {"off", "select", "load", "swap", "sink", "exited"}
    /\ armed \in BOOLEAN
    /\ newHash \in Contents \cup {None} /\ version \in Contents \cup {None}
    /\ cfg \in Valid \cup {None}
    /\ apc \in [Admins -> {"idle", "retry", "cas", "list", "notify", "done"}]
    /\ op \in [Admins -> {None, "disable", "enable"}]
    /\ ty \in [Admins -> Types \cup {None}]
    /\ old \in [Admins -> List \cup {None}]
    /\ got \in [Admins -> SUBSET Types]
    /\ same \in [Admins -> BOOLEAN]
    /\ gauge \subseteq Types /\ known \subseteq Types
    /\ edits \in 0..MaxEdits
    /\ current \in Valid \cup {None} /\ due \in BOOLEAN
    /\ calm \in [Admins -> BOOLEAN] /\ settled \subseteq Types

(* Validate before activate: the live list is always the one of the latest *)
(* content that loaded and built as a whole.  No reload that fails and no  *)
(* kill-switch call that raced a reload brings back an older list, and no  *)
(* list has a method disabled that it does not have.                       *)
LiveIsLatestGood ==
    /\ live.conf = current
    /\ live.conf # None => live.off \subseteq DOMAIN TypeList(live)

(* README "effective on the next request": once DisableMethod(t) has       *)
(* returned no Route call is decided by the first method of type t,        *)
(* whatever other kill-switch calls ran concurrently, until                *)
(* EnableMethod(t) is called or the file is reloaded.                      *)
NextRequestSkips ==
    main = "serve" =>
        \A t \in settled : FirstOf(live, t) \notin Evaluate(live) \ {0}

(* watcher.go "no reload runs after Stop returns": once Stop has returned  *)
(* to main nothing is swapped in and no version is set, even if the timer  *)
(* was armed or a reload was under way when the signal came.               *)
NoReloadAfterStop ==
    [][main = "exited" => UNCHANGED <<version, current>>]_vars

(* An edit is never lost: when the watcher waits with the timer unarmed    *)
(* and no event queued, the content last written in place under the watch  *)
(* is the live one and the version shown is its hash, or it does not load. *)
(* Edits that race a reload, between or after its two reads of the file,   *)
(* are caught by the next one.                                             *)
WrittenIsApplied ==
    /\ wpc = "select" /\ ~armed /\ ~event
    /\ due /\ file \in Valid
    => current = file /\ version = file

(* main.go: "Keep the method_disabled gauge in sync with kill-switch       *)
(* state": when no call and no reload is under way, the gauge shows what   *)
(* the live list has disabled.                                             *)
GaugeInSync ==
    /\ \A a \in Admins : apc[a] \in {"idle", "done"}
    /\ wpc = "select" /\ live.conf # None
    => gauge = DisabledTypes(live) \cap known
=============================================================================
