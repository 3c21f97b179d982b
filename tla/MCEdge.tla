------------------------------- MODULE MCEdge -------------------------------
(***************************************************************************)
(* The components that surround routing and share no state with each other: *)
(* the schema migration at boot, the SQL analyzer, the sticky cookie, the   *)
(* UI_API collector, one routing call, the configuration of a routing       *)
(* method, the login and keys of the admin API, its views, and the          *)
(* migration and loading of a configuration file.  A behaviour runs one of  *)
(* them, `part`, with the others at their initial states.                   *)
(***************************************************************************)
EXTENDS Migration, SqlMeta, MethodConfig, AdminViews, Integers, TLC

CONSTANTS Secrets, TTLs, Jumps, MaxClock, MaxBoots,
          Retries, MaxUiFaults,
          Excluded, MaxSteps, MaxCalls, DefaultGroup, ServiceDefault

VARIABLES part,
          cookieConf, now, jar, answer,
          fleet, collector, gen, session, loginMu, job, stats, uiFaults,
          deployed, calls, call, handler, upstream,
          java, file, warnings, loaded

MCContents == {<<>>, <<"a">>, <<"*">>, <<"/", "a">>, <<"-", "-">>, <<"'">>, <<"\"", "b">>, <<"]">>,
             <<"/", "*">>, <<"*", "*">>}

Fleets == {{"b1"}, {"b1", "b2"}}

Request(m, p, b, t, h, a) ==
    [method |-> m, path |-> p, body |-> b, tags |-> t, host |-> h, addr |-> a,
     xff |-> SubSeq(<< <<"f">>, <<"g">> >>, 1, Len(t)),
     headers |-> {"X-Set", "X-Extra", "X-Trino-User", "Connection", "Content-Length"}
                   \union (IF t = <<>> THEN {} ELSE {"X-Forwarded-For"}),
     tls |-> FALSE]
V4 == <<"c", ":", "9">>
V6 == <<"[", ":", "1", "]", ":", "9">>
Requests ==
    {Request("POST", "/v1/statement", "select", << <<" ">>, <<" ", "etl">> >>, <<"h">>, V4),
     Request("POST", "/v1/statement", "insert", << <<"x">> >>, <<"h", ":", "8">>, V6),
     Request("POST", "/v1/spooled", "insert", << <<"etl", "x">> >>, <<"[", ":", "1", "]", ":", "8">>, V4),
     Request("GET", "/v1/statement", "insert", <<>>, <<"[", ":", "1", "]">>, V6)}

M(rule) == [rule |-> rule, off |-> FALSE]
Deployment(policy, grpc, http, propagate) ==
    [policy |-> policy, grpc |-> grpc, http |-> http, propagate |-> propagate]
Deployments ==
    {Deployment(<<M("writes"), M("tagged")>>, TRUE, FALSE, TRUE),
     Deployment(<<M("broken"), M("loop")>>, TRUE, TRUE, FALSE),
     Deployment(<<[rule |-> "tagged", off |-> TRUE], M("spin"), M("writes")>>, TRUE, FALSE, TRUE),
     Deployment(<<>>, TRUE, FALSE, TRUE), Deployment(<<>>, FALSE, TRUE, TRUE),
     Deployment(<<>>, FALSE, FALSE, TRUE)}

Routers == {[group |-> "", headers |-> {"x-extra", "x-set"}, errors |-> FALSE],
            [group |-> "adhoc", headers |-> {"X-Extra", "x-trino-user"}, errors |-> TRUE],
            [group |-> "adhoc", headers |-> {"x-forwarded-for", "x-forwarded-host"}, errors |-> FALSE]}

MCDirectory == "ann" :> <<"dev", "ops">> @@ "bob" :> <<"dev">>
AuthConfig(type, web, admin, user, api, pages) ==
    [type |-> type, web |-> web, roles |-> [ADMIN |-> admin, USER |-> user, API |-> api], pages |-> pages]
MCAuthConfigs ==
    {AuthConfig("OIDC", TRUE, {"ops"}, {"dev"}, {},
                "ADMIN" :> <<"cluster", "history">> @@ "USER" :> <<"history", "", "dashboard">>),
     AuthConfig("LDAP", FALSE, {"ops"}, {"dev"}, {"dev"}, "USER" :> <<"history">>),
     AuthConfig("NOOP", FALSE, {}, {"*"}, {"*"}, "USER" :> <<"history">> @@ "API" :> <<"history", "cluster">>),
     AuthConfig("NOOP", FALSE, {}, {"*"}, {"*"}, "USER" :> <<"">> @@ "API" :> <<"", "">>)}

Search(user, url, id, source, page, size) ==
    [filter |-> [user |-> user, url |-> url, id |-> id, source |-> source], page |-> page, pageSize |-> size]
MCSearches ==
    {Search("bob", "", 0, "", 2, 1), Search("", "u", 0, "", 1, 2),
     Search("", "", 2, "", -1, 1), Search("ann", "v", 0, "s", 0, -1)}

\* A legacy file with most of its blocks, and its variations: the ports with
\* each value of one other field, or without it.
Legacy == [proxyPort |-> 9000, adminPort |-> 8083, requestBufferSize |-> 1048576, name |-> "gw",
           jdbcUrl |-> <<"jdbc:", "pg">>, driver |-> "org.postgresql.Driver", user |-> "u",
           healthCheckInterval |-> 30000, defaultRoutingGroup |-> "adhoc", rulesType |-> "EXTERNAL",
           externalUrl |-> "x", useApi |-> TRUE, defaultType |-> "oauth2", jwkUrl |-> "j", issuer |-> "i",
           clientId |-> "c", clientSecret |-> "s", redirectUrl |-> "r", authorization |-> "a"]
Ports == [{"proxyPort", "adminPort"} -> {0, 8080, 8090, 9000}]
Without(f, dropped) == [k \in DOMAIN f \ dropped |-> f[k]]
WithPorts(p) == Without(p @@ Legacy, {f \in DOMAIN p : p[f] = 0})
JavaFiles ==
    LET ported == {WithPorts(p) : p \in Ports} IN
    UNION {{Without(f, {k}) : k \in DOMAIN f} : f \in ported}
      \union {[f EXCEPT !.requestBufferSize = b] : f \in ported,
                 b \in {-1, 1, 1023, 1024, 1536, 1048575, 1048576, 1049600, 3145728, 1073741824, 1074790400}}
      \union {[f EXCEPT !.healthCheckInterval = ms] : f \in ported,
                 ms \in {-5, 1, 999, 1000, 1999, 60000, 90500, 3600000, 5025000}}
      \union {[f EXCEPT !.driver = d] : f \in ported,
                 d \in {"com.postgres.Driver", "com.mysql.jdbc.Driver", "com.oracle.jdbc.Driver"}}
      \union {[f EXCEPT !.rulesType = "FILE", !.jdbcUrl = u] : f \in ported, u \in {<<"pg">>, <<"jdbc:">>}}

Seconds(neg, s) == [neg |-> neg, parts |-> << <<s, "s">> >>]
HandWritten ==
    {<<>>, "proxy.responseSize" :> <<2, "TB">>, "proxy.responseSize" :> <<0, "">>, "db.driver" :> "oracle",
     "auth.type" :> "OIDC", "auth.type" :> "LDAP" @@ "auth.ldap.url" :> "l",
     "metrics.path" :> "metrics", "metrics.path" :> "metrics" @@ "metrics.enabled" :> FALSE,
     "clusterStats.monitorType" :> "UI_API", "clusterStats.monitorType" :> "JMX",
     "clusterStats.monitorType" :> "METRICS" @@ "backendState.username" :> "u",
     "monitor.statsTimeout" :> Seconds(TRUE, 1), "monitor.refreshInterval" :> Seconds(FALSE, 0),
     "monitor.retries" :> -1, "monitor.interval" :> [neg |-> FALSE, parts |-> << <<5, "d">> >>], "cookie.wireCompat" :> FALSE, "monitor.metricMinimumValues" :> "{}"}

INSTANCE StickyCookie
INSTANCE UiSession
INSTANCE RouteCall
INSTANCE ConfigMigration

\* What the proofs about these components assume of their constants.
ASSUME EdgeConstants == CookieConstants /\ CallConstants /\ ConfigConstants /\ ViewConstants /\ SqlConstants
-----------------------------------------------------------------------------
sqlV == <<lexemes, stmt>>
cookieV == <<cookieConf, now, jar, answer>>
uiV == <<fleet, collector, gen, session, loginMu, job, stats, uiFaults>>
callV == <<deployed, calls, call, handler, upstream>>
methodV == <<program, active, lastGood>>
viewV == <<auth, idpKey, outages, refresher, keys, webKeys, attempts, stateCookie, codes, login, rows, reply>>
configV == <<java, file, warnings, loaded>>
edgeVars == <<part, migrationVars, sqlV, cookieV, uiV, callV, methodV, viewV, configV>>

Runs(p) == part = p

\* The other parts rest.
Rest(p) ==
    /\ UNCHANGED part
    /\ p # "migration" => UNCHANGED migrationVars
    /\ p # "sql" => UNCHANGED sqlV
    /\ p # "cookie" => UNCHANGED cookieV
    /\ p # "ui" => UNCHANGED uiV
    /\ p # "call" => UNCHANGED callV
    /\ p # "method" => UNCHANGED methodV
    /\ p \notin {"login", "views"} => UNCHANGED viewV
    /\ p # "config" => UNCHANGED configV

EdgeInit ==
    /\ part \in {"migration", "sql", "cookie", "ui", "call", "method", "login", "views", "config"}
    /\ MigrationInit /\ (part # "migration" => driver = "mysql")
    /\ SqlInit /\ CookieInit /\ UiInit /\ CallInit /\ MethodInit /\ ViewsInit
    /\ ConfigInit

\* Keys change and a login is in progress in one, the views are read in the other.
\* An answer does not depend on the one before it, so a second request is made
\* only after a step that changes what it may see.
Login == AuthNext /\ UNCHANGED <<rows, reply>>
ViewsStep ==
    \/ /\ \E cfg \in AuthConfigs : buildAuthMiddleware(cfg)
       /\ reply' = None /\ UNCHANGED rows
    \/ \E user \in {""} \union DOMAIN Directory, url \in Urls, source \in Sources : Insert(user, url, source)
    \/ auth # None /\ reply = None /\ \E cred \in Credentials : Ask(cred)

EdgeNext ==
    \/ Runs("migration") /\ MigrationNext /\ Rest("migration")
    \/ Runs("sql") /\ SqlNext /\ Rest("sql")
    \/ Runs("cookie") /\ CookieNext /\ Rest("cookie")
    \/ Runs("ui") /\ UiNext /\ Rest("ui")
    \/ Runs("call") /\ CallNext /\ Rest("call")
    \/ Runs("method") /\ MethodNext /\ Rest("method")
    \/ Runs("login") /\ Login /\ Rest("login")
    \/ Runs("views") /\ ViewsStep /\ Rest("views")
    \/ Runs("config") /\ ConfigNext /\ Rest("config")

EdgeFair ==
    /\ WF_migrationVars(Runs("migration") /\ SessionEnds)
    /\ \A r \in Replicas :
          /\ WF_migrationVars(Runs("migration") /\ BootStep(r))
          /\ SF_migrationVars(Runs("migration") /\ AcquireLock(r))
    /\ WF_uiV(Runs("ui") /\ CollectStats)
    /\ \A b \in UNION Fleets : WF_uiV(Runs("ui") /\ Collect(b))
    /\ WF_callV(Runs("call") /\ GatewayStep)
    /\ \A c \in 1..MaxCalls : WF_callV(Runs("call") /\ HandlerStep(c))
    /\ WF_viewV(Runs("login") /\ Refresh /\ UNCHANGED <<rows, reply>>)

EdgeSpec == EdgeInit /\ [][EdgeNext]_edgeVars /\ EdgeFair
=============================================================================
