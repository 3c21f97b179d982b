# A TLA+ development of trino-goway

This directory holds specifications of trino-goway and its routing service, the
TLC configurations that check them on small instances, and TLAPS proofs of the
safety properties that matter most. Source paths below are relative to the
repository root.

## 1. The system

trino-goway is a reverse proxy in front of several Trino clusters ("backends").
Replicas share a database and nothing else. A separate routing service may be
asked which routing group a statement belongs to.

| Part | State | Operations | Module |
|---|---|---|---|
| proxy, router (`internal/proxy`, `internal/routing`) | handlers, LRU query cache, singleflight map | `handleStatement`, `handleStream`, `Route`, `recoverBackend` | `GatewayRouting` |
| external routing call (`internal/routing/external_*.go`, `routing-service/internal/server`) | calls and handlers under way | `callExternal`, `Route`, `Evaluate`, header conversions | `RouteCall` |
| cookie (`internal/proxy/cookie.go`) | signed cookie at the client | `applyCookies` | `StickyCookie` |
| tables (`internal/persistence`) | `gateway_backend`, `query_history` | the DAOs | `GatewayRouting`, `ControlPlane`, `AdminViews` |
| migrations (`internal/persistence/db.go`) | advisory lock, version table | `Open`, `MigrateUp` | `Migration`, `SchemaUpgrade` |
| monitor (`internal/monitor`) and its observers | status map, backend list, gauges, snapshots | `probe`, `SetBackends`, `SetBackendStatus` | `HealthMonitor` |
| backend admin (`internal/admin`), refresh loop (`cmd/trino-goway`) | the backend table | edits, views, `refreshBackends` | `ControlPlane` |
| cluster statistics (`internal/clusterstats`) | UI session | `Collect` | `UiSession` |
| authentication (`internal/auth`, `internal/admin`) | key sets, state cookie | middlewares, `refresh`, login | `AdminAuth` |
| history and user views (`internal/admin`) | none | `/userinfo`, the three history reads | `AdminViews` |
| configuration (`internal/config`, `cmd/goway-migrate-config`) | none | `MigrateConfig`, `toOutput`, `Load`, `Validate` | `ConfigMigration` |
| gateway process (`internal/lifecycle`, `cmd/trino-goway`) | servers, goroutines, contexts | `Listen`, `Start`, `Stop`, `run` | `GatewayLifecycle` |
| routing policy (`routing-service/internal/engine`, `reload`) | atomic method list, kill-switch, watcher, gauges | `Swap`, `DisableMethod`, `EnableMethod`, `reload` | `PolicyReload` |
| method programs (`routing-service/internal/engine`) | last good program | `Configure` and the text it is given | `MethodConfig` |
| SQL metadata (`routing-service/internal/sqlmeta`) | none | `tokenize`, `truncate`, `analyze` | `SqlMeta` |
| routing-service process (`routing-service/cmd`) | three listeners, calls | `main`, the graceful stops | `RoutingProcess` |

What is hard to get right in it, and to test:

- which backend a poll or a `KILL QUERY` reaches while caches are evicted,
  replicas crash, backends are edited and clients disconnect;
- the coalesced history lookup, whose followers depend on a stranger's context;
- a status map that is copied and stored by two writers, and observers that are
  notified outside any lock;
- replicas that migrate one database together and die half-way;
- kill-switch calls that race a reload through compare-and-swap, and a reload
  that reads the file twice;
- a routing call whose deadline passes while the service still works on it;
- shutdown: contexts that are already done, goroutines that wait for each other;
- hand-written scanners and formats: SQL tokens, the YAML between registry and
  providers, durations and sizes as text.

`PROJECT.json` lists these hazards at the lines where they bite.

## 2. Modules

Besides the modules of the table, `MCGatewayRouting`, `MCPolicyReload` and
`MCGatewayLifecycle` give one component its constants; `MCProcesses` and
`MCEdge` run several components that share no state, one per behaviour; the
modules named `..._proofs` hold the theorems (section 4). `SeqOps` has the four
operators on sequences that the scanners and their proofs share.

An operator whose comment starts with "Slip" or "Mutant", or that says what a
faulty variant would do, stands before a definition as a plausible mistake in
it. It is part of no specification; replacing the definition by it must make a
property fail.

### GatewayRouting

A request is a process; `pc[r]` is its place in the handler and every action is
one access to shared state (cache, singleflight map, database, backend). `Route`
is the sequence `recover.. -> cache -> external -> recover.. -> first`, entered
at `recover` by a `KILL QUERY`, at `cache` by `GET /v1/query/<id>` and at
`external` by anything else. `singleFlightGroup.do` is taken apart into
`FlightEnter` (the mutex-protected join or registration), `FlightLookup`,
`FlightDone`, `FlightDelete` and `FlightAwait`, because other requests run
between them. A statement goes on through `UpstreamStatement`, `WriteCache` and
`HistoryInsert` in the order of the handler.

`owner[q]` is the truth the records are about: the backend that runs query `q`.
Trino's query ids are unique, so a query is named by the statement that started
it; `Past` holds queries started before, which the history may know.

Abstractions: a backend is its URL; `ListActive` has no `ORDER BY`, so "the
first" is any; the external router answers any group or none (`RouteCall` has
the call itself); a HEAD probe finds the owner if it is listed and answers in
time; a database call fails if the request's context is done and, where
`DBMayFail`, at any time. `PropagateErrors` and the cookie check may refuse any
request they apply to. A request whose body cannot be read is answered 400
before it touches shared state and does not appear. A replica that crashes loses
its cache, its singleflight map and its requests (`Restart`); what it wrote to
the database stays.

### RouteCall, SqlMeta, MethodConfig

`RouteCall` is one decision end to end. The gateway converts the request, calls
over gRPC, falls back to the HTTP router and then to its default group; the
service's handler converts back, asks the methods in order and may go on after
the gateway has given up, so a late answer is a step of its own. gRPC, the HTTP
router and the expression and script machines are external and stand as the
outcomes the code handles. Header names are compared as the code compares them,
in their canonical spelling. `injectHeaders` builds the request to the cluster in
the code's order: the client's headers, the gateway's `X-Forwarded-*`, and last
the router's headers, which replace both; in the model `None` stands for an
`X-Forwarded-*` header that is the router's. What the HTTP router is told is kept
apart as headers and body (`call.sent`), because the exclude list is applied to
the headers only.

`SqlMeta` keeps the two scanners as walks over an index. Its properties compare
them with a writer: a text is put together from lexemes (or a statement from
clauses), and the scanner must give back what was written. `MethodConfig` does
the same with the text that the registry writes and the providers parse.

### HealthMonitor and ControlPlane

The status map is an atomic pointer: `SetBackendStatus` and `probe` each load,
build and store a map, in separate steps. Observers run after the store, outside
any lock. `ControlPlane` adds the table, the admin handlers with the calls they
make to the monitor, the refresh loop, and the views as operators over the state.
A cluster may change its answer and a database call may fail, `MaxFlaps` times.

### Migration and SchemaUpgrade

A replica's boot is `Open`, `AcquireLock`, `ListPending`, `Apply`, `Record` and
`Release`; on Postgres DDL and version row commit together, on MySQL the DDL
commits first. Processes die at any step, their session outlives them until the
server notices (`Orphan`), and they are started again. The session that holds the
lock is assumed to live as long as its process: goose works on other connections
of the pool, so a replica that lost only that one connection would go on
migrating without the lock. `SchemaUpgrade` is the promise: versions in order,
each entered once, under one replica at a time.

### StickyCookie, UiSession, AdminAuth, AdminViews, ConfigMigration

A cookie's signature is the secret that made it; its lifetime is converted to
the text of `airliftDurationString` and back. The gateway restarts with another
secret, wire format or TTL while clients keep their cookies. `UiSession` has one
goroutine per backend over one shared session. `AdminAuth` has the three
middlewares, the key refresher with outages and rotations, the web login of a
browser with several tabs, and the guard of each route; `AdminViews` adds what
the guarded handlers show. A token is its key and its claims, with or without a
subject; the directory's answers are a constant. A row of the history is its user,
backend URL and source, with its place as the query id, so that a search can use
every filter of `FindByFilter`, alone or together; the count and the page of a
search are read in one step. `ConfigMigration` turns a legacy file into a Go file and
loads that, or a hand-written one: units, omitted zeros and defaults are
converted as the code does.

### PolicyReload

The method list is the content it was built from plus the disabled positions.
`CompareAndSwap` compares pointers; `same[a]` records that nothing was stored
since call `a` loaded the list, so storing an equal list still makes it fail, as
in the code. The watcher is its select loop: an event arms the timer, the timer
starts a reload, and a reload is four steps because the file is read twice and
kill-switch calls run in between. A content is valid or not; a file that is
missing is one that is not. `WriteFile` and `ReplaceFile` are the file as inotify
reports it: a rename onto the path ends the watch. `MainFail` is `os.Exit(1)`.

A `Route` call loads the pointer once, so it is one read: `Evaluate(live)` is
the set of positions that may decide it, over all ways the methods may behave.

### GatewayLifecycle and RoutingProcess

One variable per goroutine of the gateway: `main` (the statement `run` is at),
`srv` and `shut` (`Serve` and `Shutdown` of each server), `mon`, `refr`, and
`req` for handlers. `net/http` is modelled from its documented contract as the
code uses it. `ctx` is `rootCtx`; only a signal ends it. `Shutdown` runs under
the errgroup's context, which ends with `rootCtx` or with the first `Shutdown`
that failed. `RoutingProcess` has `main` and three listeners, each with its own
graceful stop and grace period; `main` reads the results of the kill-switch and
metrics servers only after the routing server has returned.

## 3. Runs

| Run | Question | Result |
|---|---|---|
| `routing_cache` | Are polls sticky, and is the LRU consistent, under eviction, an edit, a crash and a disconnect? | holds |
| `routing_flight` | Does the recovery chain coalesce lookups, follow the history and leave no one waiting, with database failures? | holds |
| `routing_table` | Is a 502 ever spurious, and do two replicas' caches and the history agree with the truth, while the table is edited? | holds |
| `miss_follows_history` | Does a cache miss without an external answer run the recovery chain (USE_STORIES 1.4)? | violated |
| `kill_follows_history` | Does a `KILL QUERY` follow the history (USE_STORIES 1.3)? | violated |
| `policy_reload` | Validate-before-activate, kill-switch, no lost edit, no reload after `Stop` | holds |
| `gauge_in_sync` | Is the `method_disabled` gauge in sync (`main.go`)? | violated |
| `lifecycle` | Gateway: goroutines joined, exit status true. Routing service: accepted calls drained. Both: a signal ends the process | holds |
| `drain_in_flight` | Does SIGTERM drain in-flight requests (USE_STORIES 6.3)? | violated |
| `fatal_error_returns` | Does `run` return the first fatal error (`main.go`)? | violated |
| `control_plane` | Is the gateway ready in the end, and do gauges and views settle on the truth once changes stop? | holds |
| `edge` | The components of the next table | holds |

| Component in `edge` | Properties |
|---|---|
| `Migration` | `AppliedOnce`, `ServesWholeSchema`, refinement `UpgradesInOrder`, liveness `ReplicasComeUp` (Postgres) |
| `SqlMeta` | `TokensAsWritten`, `CutDamagesLastOnly`, `MetaAsWritten` |
| `StickyCookie` | `OwnCookieAccepted`, `ExpiresOnTime` |
| `UiSession` | `HealthyIsFresh`, liveness `CollectionRecovers` (a lone backend) |
| `RouteCall` | `DecisionArrives`, `FallbackIsClean`, `ForwardedAsSeen`, liveness `RouteReturns` |
| `MethodConfig` | `SourceSurvives` |
| `AdminAuth`, `AdminViews` | `LoginFollowsLatest`, `PagesAsGranted`, `HistoryScoped`, liveness `KeysSettle` |
| `ConfigMigration` | `ConfigAsWritten` |

The violated ones check what a document or comment says against what the code
does:

- **miss_follows_history.** `Route` resolves the default group first and reaches
  the recovery chain only if that group has no active backend. A poll for a query
  of another replica, or from before a restart, goes to a default backend
  although the history knows better.
- **kill_follows_history.** The coalesced lookup runs under its leader's context
  and its error is dropped. If the leader's client disconnects, followers see "no
  row" and fall back to probes and to the first backend.
- **gauge_in_sync.** `Swap` installs fresh methods, so a disabled method is
  enabled again, and the gauge is not told.
- **drain_in_flight.** `Start` calls `Stop(ctx)` with the context that has just
  been cancelled; `Shutdown` gives up at once on a server with a running request,
  `run` counts `context.Canceled` as clean, and the request is cut.
- **fatal_error_returns.** After a server fails, `run` waits on `refreshDone`,
  and the refresh loop ends only with `rootCtx`, which only a signal cancels.

### Bounds

`routing_cache` has three requests because the shortest eviction that matters is
two statements and a poll, with a cache of one entry. `routing_flight` has two
concurrent recoveries (a leader and a follower) of a query known from before and
of each other's, and requests of other paths. `routing_table` has two groups, two
backends and two edits, so that each backend can leave or change its group
between two reads, and two replicas. `policy_reload` has two contents that load,
one with the same type twice (the kill-switch acts on the first), one that does
not, two calls (each disabling or enabling either type), and two edits, so that
one can fall between the two reads of a reload and the other after them.
`lifecycle` has two requests so that both gateway servers can be busy, and two
Route calls, a kill-switch call and a scrape so that all listeners of the service
can. `control_plane` starts with one backend and has two names and two URLs, so
that the edit can add a backend at the same URL or another, move, deactivate or
delete the one there is; the edit and one change of a cluster or database error
may fall between the load and the store of a probe.

In `edge`: two replicas and the `-migrate-only` job, one of them without
`autoMigrate`, three migrations of which the first may run twice, and two
faults, so that a second replica can die too; two lexemes or two table
references, the longest interaction the scanner has (a token is damaged by its
neighbour); two secrets and formats over two restarts, and a clock whose jumps
pass one TTL and not the other; one retry and three UI faults; two routing calls,
so that the handler of the first can outlive it, policies with and without
methods, and a script budget of two steps; programs of up to four letters over an alphabet that holds the format's
own separators; one key rotation, two outages, three login attempts, two history
rows. Requests to the cluster have up to two `X-Forwarded-For` lines, and
one of the HTTP router's answers sets two `X-Forwarded-*` headers itself; they
come without TLS, since the gateway's own listeners are plain TCP
(`RequestsForwardedAsSeen` covers both schemes). The history is searched by
user, by URL, by query id and by several fields at once, with pages and sizes that
are positive, zero and negative; page
permissions have entries with repeated pages, without pages, and none. Keys rotate
in the behaviours of the login, and the views are read with one key set.
`ConfigMigration` reads the files that `MCEdge` lists, one of them with a
malformed duration.

`MaxAdminOps`, `MaxRestarts`, `MaxCancels`, `MaxEdits`, `MaxFlaps`, `MaxFaults`
and their like bound the environment only. Requests, backends, replicas and
kill-switch calls are interchangeable, and symmetry is used in the runs that
check safety only.

Deadlock is checked in `control_plane`, whose loops never end. Elsewhere every
instance is finite and ends (all requests answered, the process gone); that
nothing stops half-way is what the liveness properties say.

### Fairness

`GatewayRouting!FairSpec` assumes weak fairness of each handler's next step:
goroutines are scheduled, and database, external router, probe and upstream
calls return or time out. `GatewayLifecycle!FairSpec` assumes weak fairness of
each goroutine, and strong fairness of the two loops' exits: Go's `select`
chooses at random among ready cases, so a context that stays done is noticed
though ticks keep coming. Handlers owe nothing there: `SignalEndsRun` holds even
if one never answers, and so does `SignalEndsService`, because grace periods run
out. Only `fatal_error_returns` adds that handlers answer, to show that they are
not the reason.

`ControlFair`: the ticker loops of monitor and refresher go on, and an admin
request that has begun goes on. `EdgeFair`: a booting replica goes on and is
started again by its supervisor; the database drops the lock of a dead session,
and grants a lock that is free again and again to one who keeps asking (strong
fairness); collectors and the refresher of keys tick; the gateway's calls and the
service's handlers are scheduled and their timers fire. Clients, operators,
signals, crashes, outages and accept errors are never assumed to happen. In the
runs that follow one component per behaviour the fairness is that of the
component that runs.

## 4. Proofs

TLAPS checks the theorems for every value of the constants that satisfies the
named assumptions. `RoutingAssumption`, `PolicyAssumption`,
`LifecycleAssumption`, `MigrationConstants` and `CallsAssumption` say that `None`,
`NoSession` and `Orphan` are distinct from what they stand beside, that the default group is
a group, a cache has at least one entry, methods are sequences of types, versions
are natural numbers, and no call belongs to two listeners. Components that run
inside `MCEdge` state theirs as an operator, which is a hypothesis of their
theorems and which `MCEdge` assumes, so that TLC evaluates it on the instance:

- `CookieConstants`: a TTL is a whole number of seconds, one at least, and the
  clock does not run backwards;
- `CallConstants`: a request is one a client can send (`RequestOK`: in a Host
  that starts with a bracket, the closing one is last or before a colon; an
  address ends in a colon and a port; with or without TLS), a policy is a
  sequence of methods, an HTTP router answers a group and headers;
- `ConfigConstants`: a legacy file sets fields to non-zero values of their types
  (`JavaOK`), an interval fits in a `time.Duration` and a size in a `float64`; a
  hand-written file uses keys of the configuration;
- `ViewConstants`: the pages of a role are a list of names, and a search is a
  filter with a page and a page size, any integers;
- `SqlConstants`: what a comment, a literal or a name contains is a sequence.

| Module | Theorems about |
|---|---|
| `GatewayRouting_proofs` | types of `GatewayRouting`, the query cache, and what one step of a request leaves alone |
| `GatewayRoutingSafety_proofs` | stickiness, recovery, records, refusals |
| `PolicyReload_proofs` | reload and kill-switch |
| `RouteCall_proofs` | the external routing call, the gateway process and the routing-service process |
| `Edge_proofs` | cookie, cluster statistics, configuration file, migrations and their refinement of `SchemaUpgrade` |
| `Loops_proofs` | induction, and the loops the next two are about |
| `Texts_proofs` | the text between registry and providers; login, keys, history and user views |
| `Sql_proofs` | the tokenizer of the SQL analyzer |

Types are proved rather than checked by the runs: `TypeCorrect`, `PolicyTyped`,
`LifecycleTyped`, `MigrationTyped`.

**Routing.** `TypeCorrect` comes with `PathOK` (a request in the recovery chain
has a target). The properties are not inductive by themselves, so five layers are
added, each with a lemma that every action preserves it given the ones below:

1. `FlightInv`: who leads is registered, who is registered leads, and a
   follower's call is for its own query. Gives `SingleFlight`.
2. `TruthInv`: what a request is about to record is the truth. Gives `RecordsTrue`.
3. `StickyInv`: an answered statement is cached or forgotten, so a later poll
   cannot have missed. Gives `StickyPolls`.
4. `LeaderInv`: a leader that has looked up a known query carries its owner.
   Gives `LeadersFollowHistory`.
5. `AliveInv`: backends active since a request's arrival are still active, so no
   read of its own can have come back empty. Gives `RefusalJustified`.

`CacheBounded` (`GatewayRouting_proofs`) is independent of the layers. Its
invariant `Sound` says that the use order lists each entry once and nothing else
and is no longer than the capacity; the lemmas say what removing, appending,
touching and evicting do to such a list.

**Policy.** `PolicyHolds` proves `TypeOK`, `ListInv` (the list a call loaded is
complete, and is the live one while `same`), `WatcherInv` (the goroutine's life)
and `SwitchInv` (what undisturbed calls have achieved). `ValidateBeforeActivate`,
`KillSwitch` and the action property `StopDrains` follow. That the first method
of a type exists rests on `MinIn`, from the well-foundedness of the naturals.
`EditsApplied` needs `EditInv` besides: once neither an event nor the timer is
left to announce the last edit, a reload under way has read it, in both of its
reads, and one that is over has applied it.

**Processes.** `ExitInv` says what the gateway's main goroutine knows at each
statement; `Joined` and `StatusTrue` are read off it. `DrainInv` relates the
place of the routing service's `main` to the state of the route listener, and
that to its calls: a listener that has stopped has no call left but those that
outlived its grace period. `CallsDrained` follows, for any number of calls.

**Migration.** `MigrationInvariant` is `LockInv` (who is between taking and
dropping the lock is its holder) with `ListInv` (what `provider.Up` read at its
start is still what is unrecorded). `OneMigrator`, `MigrationsAppliedOnce` and
`MigrationsComplete` follow. `MigrationRefines` shows that every step maps to a
step of `SchemaUpgrade` or to a stutter, with the recorded versions as the
versions of the schema and the lock's holder as the upgrader.

**Routing call.** `CallInv` is proved of every call (`CallsAsMeant`). Its parts
are `Setup` (a call under way has a request and a configuration), `GatewayOK` (a
call without an answer carries nothing of a router, and a gRPC answer is the one
intended), `ForwardOK` (what goes to the cluster is made of this call's request
and headers) and `Current`. The last is what makes `DecisionArrives` inductive:
the handler of the running call works on this call's request, none of the methods
it has passed decides about it, and it has not been cancelled. Nothing has to be
said of the handlers of earlier calls, because only the last one's answer is
taken. The lemmas below it say that the conversions keep the meaning: the tags
split from a header are the ones written (`TagsAsWritten`), a Host and an address
are split at their last colon (`HostAsSeen`, `ClientAsSeen`), canonical header
names are canonical (`CanonicalTwice`, so that the exclude list holds however a
name is spelled), and the first method that decides is the one the handler stops at
(`FirstDecides`). `Injected` says of `injectHeaders`, one header at a time, that it
is the gateway's own unless the router set it. First and last positions exist by the well-foundedness of the
naturals. `DecisionsArrive`, `FallbacksAreClean` and `RequestsForwardedAsSeen` are
read off `CallInv`.

**Admin API.** `LoginInv`: the browser holds the state of the login it started
last, or none. Gives `LatestLoginWins`. `KeysKept` is the safety half of
`KeysSettle`. `HistoryIsScoped` needs no strengthening but the type of the
history: the lemmas say what a page and a total of `FindByFilter` contain
(`PageOf`), that the filter a handler makes of a search differs from it in the
user only (`ForcedFields`), and that the rows it matches are those the property
names (`ForcedMatches`); every step that changes a row or a role clears the answer. `PagesGranted` says
of `/userinfo` that every page of the caller's roles is named once: the fold that
drops repetitions keeps the set of what it was given (`DistinctNames`), the roles
are those `HasRole` answers for (`RolesHeld`), and a list without repetitions is
as long as its set is large (`OnceCounted`).

**Cookie, statistics, configuration.** `CookieInv` says that the cookie in the jar
was issued for the TTL it names, up to the rounding; `TTLRoundTrip` bounds that
rounding in both formats. `UiInv` says it of every record of the collector, of
both kinds. `ConfigInv` says that a migrated file is the conversion of the legacy
one and that what was loaded is `Load` of the file still there; `ConfigsAsWritten`
then rests on pure lemmas: sizes and durations come back from their text as they
were (`SizeRoundTrip`, `DurationRoundTrip`), a key that is stated has its value and
any other its default (`BootedKey`, `MigratedKey`), validation refuses a migrated
file only for equal ports (`MigratedAccepted`), and each legacy field is reported
or in force (`MigratedSays`).

**Loops.** The library's induction theorems take an operator, which the provers
cannot instantiate. `Loops_proofs` therefore states induction for a set
(`Induction`, `SeqInduction`: a set of sequences that holds the empty one and is
closed under `Append` holds them all), derived from the well-foundedness of the
naturals. A loop of the code is a recursive function of its rounds; `FoldExists`,
`StepsExist` and `LeapExists` show that such a function exists, so that what the
definition chooses satisfies its equations, and `FoldAppend`, `MappedAppend` and
`FlattenAppend` say what one element more does.

**Method programs.** `SourceKept` holds for programs of any length. The text that
the registry writes is taken apart again in the order of the parser: `SplitWhole`
and `LinesUnlines` (the lines are the ones written), `JoinLines` (and give back
their text), `KeyRead` and `ReadKey` (a line `key: value` is read as that),
`ReadBlock` (indented lines add to the block, whatever they contain),
`ProgramRead` and `FileRead` (the source is the configured one). The invariant
adds that the edited program is a sequence of letters. A program that is a single
line end is read back as no source, where the configuration has an empty one;
neither compiles, which is the second case of `SourceRead`.

**Tokenizer.** As long as bytes are left, a round of `tokenize` moves forward by one
at least (`RoundAdvances`), so as many rounds as there are bytes are enough; once
at the end, the loop stays there (`Settles`). For `TokensKept` every kind of lexeme has a lemma that a
round started at its first byte ends behind its last one, with its tokens
appended (`ReadWord`, `ReadLine`, `ReadBlock`, `ReadLiteral`, `ReadName`...;
`LexemeRead` joins them). `ScanWritten` is the heart of it: `scanDelimited` undoes
the doubling of a delimiter, provided that the byte after the closing one is not
that delimiter again. That is the reason for `SqlInv`, which says that each
lexeme may stand behind the one before it (`Chain`): two words, or two literals
or names in the same quotes, would be read as one. `TextRead` puts the lexemes
together by induction. For `CutHarmless` the loops over a text and over its first
`n` bytes run side by side: a round whose end lies before the cut does the same
in both (`RoundCut`), and one that reaches the cut appends one token at most
(`RoundLastOff`), after which the shorter text is at its end (`CutLoop`).

Only model-checked:

- all liveness properties, because fairness is out of the prover's reach:
  `EveryRequestFinishes`, `SignalEndsRun`, `SignalEndsService`, `BecomesReady`,
  `GaugesSettle`, `ViewsSettle`, `ReplicasComeUp`, `CollectionRecovers`,
  `RouteReturns` and the liveness half of `KeysSettle`;
- `MetaAsWritten` (`SqlMeta`): the loops are in the form `Loops_proofs` reasons
  about, but the statement has three readers over the same tokens
  (`statementType`, `extractTableRefs`, `qualify`), each with its own case of
  every head, alias and tail, and this induction has not been carried out. The
  heads, names and tails the writer uses are fixed sets of the module, and the
  run covers every statement over them with up to `MaxRefs` tables.

## 5. Not modelled

- The connection that holds the migration lock failing while its process lives
  (section 2, Migration): with it `OneMigrator` would not hold.
- The distribution query of the dashboard: `historyAdapter.Insert` never sets
  `created_at`, so the query selects no row.
- The cryptography of cookies and tokens, the LDAP protocol, YAML, gRPC,
  `net/http`, fsnotify, the expression and Starlark machines: external, each
  modelled by the outcomes the code handles.
- Handler construction in `main`, environment expansion, the configuration keys
  that only carry a value, metrics that are written and never read back, the
  decision log, health services and tracing: sequential, without state of their
  own.
- Command-line replay and comparison tools, mock routers, test infrastructure,
  generated protocol code, the web UI and the chart: no state of the system.

`PROJECT.json` gives the status of each component.

## 6. Where to read next in the code

Met while modelling, true of the code, and not the subject of a run:

- `uiapi.go:30`: with several backends the collectors share one session, so each
  401 drops the session the others use; recovery is claimed for a lone backend.
- `db.go`, MySQL: a crash between a migration's DDL and its row leaves a
  migration that cannot be repeated, and every later boot fails; `ReplicasComeUp`
  is claimed for Postgres.
- `watcher.go:116`: a file that is replaced by rename ends the watch;
  `WrittenIsApplied` is claimed for edits under the watch.
- `routing-service/cmd/routing-service/main.go:158`: the failure of the
  kill-switch or metrics listener is noticed only after the routing server stops.
- `engine/registry.go:85`: a program loses one trailing newline on its way to the
  provider, and a program that is only a newline arrives empty.
- `migrate.go:77`: some legacy fields are dropped without a warning, and a file
  whose two ports end up equal does not load; `ConfigAsWritten` excepts both
  (`Unreported`, `MigratedAsSaid`).
- `headers.go:43`: `Get` returns the first `X-Forwarded-For` line and `Set`
  replaces all of them, so of a chain that arrives in several lines only the first
  is kept, where `docs/USE_STORIES.md:627` says that the header "appends, never
  overwrites [...] preserving the original chain"; `ForwardedAsSeen` speaks of the first line.
- `headers.go:65`: a router's headers are set last and may replace the gateway's
  own `X-Forwarded-*`; `ForwardedAsSeen` excepts the headers the router set.
- `external_http.go:141`: user, catalog and schema are repeated in the body for
  the router (and in the gRPC request) though `excludeHeaders` names their
  headers, where `docs/trino-gateway-use-cases.md:64` has them "stripped from both
  the request forwarded to the router and the `externalHeaders` it returns"; `ForwardedAsSeen` is about headers.
- `oidc.go:107`: a token without a subject makes a caller with the empty name, and
  `history.go:190` filters by a name only if there is one, so such a caller is
  shown every row, where `docs/USE_STORIES.md:325` says "Non-ADMIN callers are
  filtered server-side to their own username"; `HistoryScoped` is claimed for
  callers with a name.
- `roles.go:62`: entries that name no page give the same empty answer as no entry,
  which the UI takes for no restriction; `PagesAsGranted` says so.
