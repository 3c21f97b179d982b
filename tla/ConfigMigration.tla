-------------------------- MODULE ConfigMigration --------------------------
(***************************************************************************)
(* goway-migrate-config followed by the gateway's own config.Load.  The     *)
(* legacy file is converted to a Config, the Config to text (sizes and      *)
(* durations get units, zero fields are omitted), and the text is read back *)
(* over the defaults and validated; Load is also given files written by     *)
(* hand.  A legacy file is a function on the fields it sets to a non-zero   *)
(* value; a Go file is a function from keys to text; a Config gives every   *)
(* key a value.  Names, URLs and patterns are opaque, a JDBC URL is the     *)
(* sequence of its prefix and the rest; sizes are in bytes, durations in    *)
(* seconds (healthCheckInterval in milliseconds).  external: YAML.          *)
(***************************************************************************)
EXTENDS Integers, Sequences

CONSTANTS JavaFiles, HandWritten, None

VARIABLES java,     \* the legacy file being migrated, or None
          file,     \* the Go configuration file, or None
          warnings, \* the legacy fields named in its header
          loaded    \* what Load returned: [ok, cfg], or None

configVars == <<java, file, warnings, loaded>>

SizeKeys == {"proxy.responseSize"}
DurationKeys == {"monitor.interval", "monitor.refreshInterval", "monitor.statsTimeout"}
IntKeys == {"proxy.port", "admin.port", "monitor.retries"}
BoolKeys == {"db.autoMigrate", "cookie.wireCompat", "metrics.enabled"}
SeqKeys == {"db.dsn"}
StringKeys == {"clusterStats.monitorType", "backendState.username", "monitor.metricMinimumValues",
               "db.driver", "routing.defaultGroup", "routing.type", "routing.external.url",
               "auth.type", "auth.oidc.jwksUrl", "auth.oidc.issuerUrl", "auth.oidc.clientId",
               "auth.oidc.clientSecret", "auth.ldap.url", "auth.ldap.userBase", "auth.ldap.userAttr",
               "metrics.path"}
Keys == SizeKeys \union DurationKeys \union IntKeys \union BoolKeys \union SeqKeys \union StringKeys

\* The empty string, which is also what a field that is not set reads as.
Blank == ""

ZeroOf(k) ==
    CASE k \in SizeKeys \union DurationKeys \union IntKeys -> 0
      [] k \in BoolKeys -> FALSE
      [] k \in SeqKeys -> <<>>
      [] OTHER -> Blank
----------------------------------------------------------------------------
\* MigrateConfig
stripJDBCPrefix(url) == IF url # <<>> /\ Head(url) = "jdbc:" THEN Tail(url) ELSE url

detectDriver(class) ==
    CASE class \in {"org.postgresql.Driver", "com.postgres.Driver"} -> "postgres"
      [] class = "com.mysql.jdbc.Driver" -> "mysql"
      [] OTHER -> Blank

\* Whole seconds, and never less than one.
IntervalSeconds(ms) == IF ms < 1000 THEN 1 ELSE ms \div 1000

\* The legacy field a key is taken from.
FieldOf(k) ==
    CASE k = "proxy.port" -> "proxyPort"
      [] k = "admin.port" -> "adminPort"
      [] k = "proxy.responseSize" -> "requestBufferSize"
      [] k = "routing.defaultGroup" -> "defaultRoutingGroup"
      [] k = "routing.external.url" -> "externalUrl"
      [] k = "routing.type" -> "rulesType"
      [] k = "db.dsn" -> "jdbcUrl"
      [] k = "db.driver" -> "driver"
      [] k = "monitor.interval" -> "healthCheckInterval"
      [] k \in {"auth.type", "auth.oidc.jwksUrl"} -> "jwkUrl"
      [] k = "auth.oidc.issuerUrl" -> "issuer"
      [] k = "auth.oidc.clientId" -> "clientId"
      [] k = "auth.oidc.clientSecret" -> "clientSecret"
      [] OTHER -> "none"
OIDCKeys == {"auth.oidc.jwksUrl", "auth.oidc.issuerUrl", "auth.oidc.clientId", "auth.oidc.clientSecret"}
\* The fields that only ever produce a warning.
Ignored == {"historySize", "name", "user", "password", "concurrency", "healthCheckPath",
            "authorization", "modules", "managedApps"}

\* The value it is given; a copy, unless one of these.
Convert(k, v) ==
    CASE k = "db.dsn" -> stripJDBCPrefix(v)
      [] k = "db.driver" -> detectDriver(v)
      [] k = "monitor.interval" -> IntervalSeconds(v)
      [] k = "routing.type" -> "EXTERNAL"
      [] k = "auth.type" -> "OIDC"
      [] OTHER -> v

Converted(src) ==
    [k \in Keys |->
        IF FieldOf(k) \in DOMAIN src /\ (k \in OIDCKeys => "jwkUrl" \in DOMAIN src)
        THEN Convert(k, src[FieldOf(k)]) ELSE ZeroOf(k)]

Warned(src) ==
    {f \in DOMAIN src :
       \/ f \in Ignored
       \/ f = "driver" /\ detectDriver(src[f]) = Blank
       \/ f = "rulesType" /\ src[f] # "EXTERNAL"
       \/ f = "redirectUrl" /\ "jwkUrl" \in DOMAIN src
       \/ f = "defaultType" /\ "jwkUrl" \notin DOMAIN src}
----------------------------------------------------------------------------
\* Text
KiB == 1024
MiB == 1048576
GiB == 1073741824

\* Mutant: the largest unit that fits, whatever the remainder.
formatBytesRounded(b) ==
    IF b >= GiB THEN <<b \div GiB, "GiB">>
    ELSE IF b >= MiB THEN <<b \div MiB, "MiB">>
    ELSE IF b >= KiB THEN <<b \div KiB, "KiB">>
    ELSE <<b, "B">>

formatBytes(b) ==
    IF b >= GiB /\ b % GiB = 0 THEN <<b \div GiB, "GiB">>
    ELSE IF b >= MiB /\ b % MiB = 0 THEN <<b \div MiB, "MiB">>
    ELSE IF b >= KiB /\ b % KiB = 0 THEN <<b \div KiB, "KiB">>
    ELSE <<b, "B">>

SizeUnits == {Blank, "B", "KB", "KiB", "MB", "MiB", "GB", "GiB"}
Multiplier(u) ==
    CASE u \in {Blank, "B"} -> 1
      [] u = "KB" -> 1000
      [] u = "KiB" -> KiB
      [] u = "MB" -> 1000000
      [] u = "MiB" -> MiB
      [] u = "GB" -> 1000000000
      [] u = "GiB" -> GiB

\* time.Duration.String on whole seconds: 3600 is 1h0m0s.
durationString(d) ==
    LET h == d \div 3600  m == (d % 3600) \div 60  s == d % 60 IN
    [neg |-> FALSE,
     parts |-> IF h > 0 THEN << <<h, "h">>, <<m, "m">>, <<s, "s">> >>
               ELSE IF m > 0 THEN << <<m, "m">>, <<s, "s">> >> ELSE << <<s, "s">> >>]

UnitSeconds == [h |-> 3600, m |-> 60, s |-> 1]
ParseDuration(text) ==
    LET part(i) == IF i \in DOMAIN text.parts THEN text.parts[i][1] * UnitSeconds[text.parts[i][2]] ELSE 0
        d == part(1) + part(2) + part(3)
    IN  IF text.neg THEN -d ELSE d

\* omitempty: zero fields are omitted; toOutput leaves out sizes and durations
\* that are not positive as well.
Stated(cfg) ==
    {k \in Keys : cfg[k] # ZeroOf(k) /\ (k \in SizeKeys \union DurationKeys => cfg[k] > 0)}

toOutput(cfg) ==
    [k \in Stated(cfg) |->
        CASE k \in SizeKeys -> formatBytes(cfg[k])
          [] k \in DurationKeys -> durationString(cfg[k])
          [] OTHER -> cfg[k]]

\* The Unmarshalers; a size or a duration may be malformed, by its unit or for
\* want of one.
Readable(f) ==
    /\ \A k \in DOMAIN f \intersect SizeKeys : f[k][2] \in SizeUnits
    /\ \A k \in DOMAIN f \intersect DurationKeys :
          /\ f[k].parts # <<>>
          /\ \A i \in DOMAIN f[k].parts : f[k].parts[i][2] \in DOMAIN UnitSeconds
UnmarshalYAML(f) ==
    [k \in DOMAIN f |->
        CASE k \in SizeKeys -> f[k][1] * Multiplier(f[k][2])
          [] k \in DurationKeys -> ParseDuration(f[k])
          [] OTHER -> f[k]]
----------------------------------------------------------------------------
\* config.Load
Default(k) ==
    CASE k = "proxy.port" -> 8080
      [] k = "admin.port" -> 8090
      [] k = "proxy.responseSize" -> MiB
      [] k = "monitor.interval" -> 30
      [] k = "monitor.refreshInterval" -> 15
      [] k = "monitor.statsTimeout" -> 10
      [] k = "clusterStats.monitorType" -> "INFO_API"
      [] k = "routing.type" -> "EXTERNAL"
      [] k = "auth.type" -> "NOOP"
      [] k = "auth.ldap.userAttr" -> "uid"
      [] k = "metrics.path" -> "/metrics"
      [] k = "monitor.metricMinimumValues" -> "{ActiveNodeCount: 1}"
      [] OTHER -> ZeroOf(k)

\* The booleans are true before the file is read; the thresholds are left unset.
defaultConfig ==
    [k \in Keys |-> IF k \in BoolKeys THEN TRUE
                    ELSE IF k = "monitor.metricMinimumValues" THEN Blank ELSE Default(k)]

\* The file, over the defaults.
Overlay(f) ==
    [k \in Keys |-> IF k \in DOMAIN f THEN UnmarshalYAML(f)[k] ELSE defaultConfig[k]]

applyDefaults(cfg) ==
    [k \in Keys |-> IF cfg[k] = ZeroOf(k) THEN Default(k) ELSE cfg[k]]

validateClusterStats(cfg) ==
    /\ \/ cfg["clusterStats.monitorType"] \in {Blank, "NOOP", "INFO_API"}
       \/ cfg["clusterStats.monitorType"] \in {"UI_API", "METRICS"} /\ cfg["backendState.username"] # Blank
    /\ cfg["monitor.statsTimeout"] >= 0 /\ cfg["monitor.refreshInterval"] >= 0
    /\ cfg["monitor.retries"] >= 0

Validate(cfg) ==
    /\ cfg["proxy.port"] # cfg["admin.port"]
    /\ cfg["proxy.responseSize"] > 0
    /\ cfg["db.driver"] \in {Blank, "postgres", "mysql"}
    /\ cfg["routing.type"] = "EXTERNAL"
    /\ cfg["auth.type"] = "OIDC" => cfg["auth.oidc.jwksUrl"] # Blank
    /\ cfg["metrics.enabled"] => cfg["metrics.path"] # "metrics"
    /\ cfg["auth.type"] = "LDAP" => cfg["auth.ldap.url"] # Blank /\ cfg["auth.ldap.userBase"] # Blank
    /\ validateClusterStats(cfg)
----------------------------------------------------------------------------
\* The tool: a legacy file in, a Go file with a header of warnings out.
MigrateConfig(src) ==
    /\ java = None /\ file = None
    /\ java' = src
    /\ file' = toOutput(Converted(src))
    /\ warnings' = Warned(src)
    /\ UNCHANGED loaded

\* An operator writes the file.
Write(f) ==
    /\ file = None
    /\ file' = f
    /\ UNCHANGED <<java, warnings, loaded>>

\* The gateway boots on it.
Load ==
    /\ file # None /\ loaded = None
    /\ loaded' = LET cfg == applyDefaults(Overlay(file))
                 IN  IF Readable(file) /\ Validate(cfg) THEN [ok |-> TRUE, cfg |-> cfg] ELSE [ok |-> FALSE]
    /\ UNCHANGED <<java, file, warnings>>

ConfigInit == java = None /\ file = None /\ warnings = {} /\ loaded = None

ConfigNext ==
    \/ \E src \in JavaFiles : MigrateConfig(src)
    \/ \E f \in HandWritten : Write(f)
    \/ Load

ConfigSpec == ConfigInit /\ [][ConfigNext]_configVars

\* An interval in milliseconds fits in a time.Duration, 2^63 nanoseconds.
FitsDuration(ms) == ms \div 1000000 < 9223372
\* A size is exact in the float64 it is read through, below 2^53 bytes.
FitsFloat(b) == b \div 1000000000 < 9007199

\* The fields of a legacy file, and what they may hold.
Numbers == {"proxyPort", "adminPort", "requestBufferSize", "healthCheckInterval"}
Texts == {"driver", "rulesType", "defaultRoutingGroup", "externalUrl", "jwkUrl", "issuer",
          "clientId", "clientSecret"}
JavaOK(src) ==
    /\ DOMAIN src \subseteq Numbers \union Texts \union Ignored
                             \union {"jdbcUrl", "redirectUrl", "defaultType", "useApi"}
    /\ \A f \in DOMAIN src \intersect Numbers : src[f] \in Int \ {0}
    /\ \A f \in DOMAIN src \intersect Texts : src[f] \in STRING \ {Blank}
    /\ "jdbcUrl" \in DOMAIN src => src["jdbcUrl"] \in Seq(STRING) \ {<<>>}
    /\ "requestBufferSize" \in DOMAIN src => FitsFloat(src["requestBufferSize"])
    /\ "healthCheckInterval" \in DOMAIN src => FitsDuration(src["healthCheckInterval"])

ConfigConstants ==
    /\ \A src \in JavaFiles : JavaOK(src) /\ None \notin {src, toOutput(Converted(src))}
    /\ \A f \in HandWritten : DOMAIN f \subseteq Keys /\ f # None
----------------------------------------------------------------------------
\* The fields MigrateConfig drops without a word: the tool reads useApi and
\* never looks at it, and an oauth2 block without jwkUrl is only noticed through
\* defaultType.  (So is a negative buffer size: see CarriesOver.)
Unreported(src) ==
    {"useApi"} \union IF "jwkUrl" \in DOMAIN src THEN {"defaultType"}
                      ELSE {"issuer", "clientId", "clientSecret", "redirectUrl"}

\* The keys among ks that are taken from f have its value.
Copied(src, cfg, f, ks) == \A k \in ks : FieldOf(k) = f => cfg[k] = src[f]

\* s is ms in whole seconds, and at least one.
WholeSeconds(s, ms) == s >= 1 /\ (ms >= 1000 => ms - 1000 * s \in 0..999)

\* What a legacy field says, in the terms of the loaded configuration.
CarriesOver(src, cfg, f) ==
    CASE f \in {"proxyPort", "adminPort", "defaultRoutingGroup", "externalUrl"} ->
            Copied(src, cfg, f, Keys)
      [] f = "requestBufferSize" -> cfg["proxy.responseSize"] = src[f] \/ src[f] < 0
      [] f = "jdbcUrl" -> src[f] \in {cfg["db.dsn"], <<"jdbc:">> \o cfg["db.dsn"]}
      [] f = "driver" -> cfg["db.driver"] # Blank
      [] f = "rulesType" -> src[f] = cfg["routing.type"]
      [] f = "healthCheckInterval" ->
            WholeSeconds(cfg["monitor.interval"], src[f])
      [] f \in {"jwkUrl", "issuer", "clientId", "clientSecret"} ->
            cfg["auth.type"] = "OIDC" /\ Copied(src, cfg, f, OIDCKeys)
      [] OTHER -> FALSE

\* A loaded configuration is what its file says: a key that is stated has the
\* stated value, an explicit false or an empty map included, except that a zero
\* is read as "omitted" where there is a default (config.Load).
LoadedAsStated ==
    loaded.ok =>
       \A k \in DOMAIN file :
          \/ loaded.cfg[k] = UnmarshalYAML(file)[k]
          \/ UnmarshalYAML(file)[k] = ZeroOf(k) /\ loaded.cfg[k] = Default(k)

\* A migrated file is one that config.Load accepts, unless the two ports it ends
\* up with are the same; and the gateway then runs with what the legacy file
\* said, through both conversions to text and back, a field it does not run with
\* being named in a warning (or one of the Unreported).  (MigrateConfig,
\* toOutput and formatBytes.)
MigratedAsSaid ==
    LET port(f, d) == IF f \in DOMAIN java THEN java[f] ELSE d IN
    /\ loaded.ok <=> port("proxyPort", 8080) # port("adminPort", 8090)
    /\ loaded.ok => \A f \in DOMAIN java \ Unreported(java) : f \in warnings \/ CarriesOver(java, loaded.cfg, f)

\* Both, for the configuration the gateway has booted on: LoadedAsStated of
\* config.Load and MigratedAsSaid of goway-migrate-config.
ConfigAsWritten == loaded # None => LoadedAsStated /\ (java # None => MigratedAsSaid)
============================================================================
