---------------------------- MODULE Edge_proofs ----------------------------
(***************************************************************************)
(* Proofs about four components at the edge of the gateway that share no   *)
(* state: the sticky cookie, the cluster-stats collectors, the             *)
(* configuration file and the schema migration at boot.                    *)
(***************************************************************************)
EXTENDS Migration, Integers, Sequences, FiniteSets, TLC, TLAPS

CONSTANTS Secrets, TTLs, Jumps, MaxClock, MaxBoots,
          Fleets, Retries, MaxUiFaults,
          JavaFiles, HandWritten, None

VARIABLES cookieConf, now, jar, answer,
          fleet, collector, gen, session, loginMu, job, stats, uiFaults,
          java, file, warnings, loaded

INSTANCE StickyCookie
INSTANCE UiSession
INSTANCE ConfigMigration

-----------------------------------------------------------------------------
(* The sticky cookie.                                                      *)

(* The lifetime a text of the airlift format gives back: positive, and off *)
(* by at most one two-hundredth of the lifetime it was written for.        *)
Close(p, d) == p \in Nat \ {0} /\ 200 * (p + 1) >= 199 * d /\ 200 * p <= 201 * d

(* The largest unit that fits a lifetime of at least a second.             *)
LEMMA UnitFits ==
    ASSUME NEW d \in Nat \ {0}
    PROVE  LET u == CHOOSE u \in Units : d >= u /\ \A v \in Units : d >= v => v <= u
           IN  u \in Units /\ d >= u
<1>1. \E u \in Units : d >= u /\ \A v \in Units : d >= v => v <= u
  <2>1. CASE d >= 86400 BY <2>1 DEF Units
  <2>2. CASE d < 86400 /\ d >= 3600 BY <2>2 DEF Units
  <2>3. CASE d < 3600 /\ d >= 60 BY <2>3 DEF Units
  <2>4. CASE d < 60 BY <2>4 DEF Units
  <2> QED BY <2>1, <2>2, <2>3, <2>4
<1> QED BY <1>1

(* Both formats give the lifetime back, up to the rounding of the text     *)
(* (formatTTL, parseTTL).                                                  *)
LEMMA TTLRoundTrip ==
    ASSUME NEW d \in Nat \ {0}, NEW wireCompat
    PROVE  Close(parseTTL(formatTTL(d, wireCompat)), d)
<1>1. CASE wireCompat
  <2> DEFINE u == CHOOSE u \in Units : d >= u /\ \A v \in Units : d >= v => v <= u
             num == (200 * d + u) \div (2 * u)
  <2>1. u \in Units /\ d >= u BY UnitFits
  <2>2. formatTTL(d, wireCompat) = [num |-> num, unit |-> u]
    BY <1>1, Zenon DEF formatTTL, airliftDurationString
  <2> HIDE DEF u
  <2>3. parseTTL(formatTTL(d, wireCompat)) = (num * u) \div 100
    BY <2>1, <2>2 DEF parseTTL, Units
  <2>4. CASE u = 86400 BY <2>1, <2>3, <2>4 DEF Close
  <2>5. CASE u = 3600 BY <2>1, <2>3, <2>5 DEF Close
  <2>6. CASE u = 60 BY <2>1, <2>3, <2>6 DEF Close
  <2>7. CASE u = 1 BY <2>1, <2>3, <2>7 DEF Close
  <2> QED BY <2>1, <2>4, <2>5, <2>6, <2>7 DEF Units
<1>2. CASE ~wireCompat
  BY <1>2 DEF formatTTL, parseTTL, Close
<1> QED BY <1>1, <1>2

(* A cookie the gateway has issued.                                        *)
Issued(c) ==
    /\ c.ts \in Nat /\ c.maxAge \in Nat \ {0}
    /\ c.ttl = formatTTL(c.maxAge, c.wireCompat)

CookieInv ==
    /\ now \in Nat
    /\ cookieConf.ttl \in Nat \ {0}
    /\ jar # None => Issued(jar)
    /\ OwnCookieAccepted /\ ExpiresOnTime

(* The cookie of a response is the one the gateway's configuration makes.  *)
LEMMA IssuedByConfig ==
    ASSUME CookieInv, NEW padded, issueCookie(padded) PROVE Issued(jar)'
BY DEF CookieInv, issueCookie, encodeCookie, Issued

(* A gateway that finds its own signature and wire format on a cookie does  *)
(* not call it tampered with; what it calls too old or valid is so, up to   *)
(* the rounding.                                                            *)
LEMMA Validated ==
    ASSUME CookieInv, jar # None
    PROVE  /\ validateCookie(jar) = "tampered"
                => jar.signature # cookieConf.secret \/ jar.wireCompat # cookieConf.wireCompat
           /\ validateCookie(jar) = "invalid" => (now - jar.ts) * 200 >= jar.maxAge * 199
           /\ validateCookie(jar) = "valid" => (now - jar.ts) * 200 <= jar.maxAge * 201
<1>1. Close(parseTTL(jar.ttl), jar.maxAge)
  BY TTLRoundTrip DEF CookieInv, Issued
<1>2. jar.ts \in Nat /\ jar.maxAge \in Nat /\ now \in Nat
  BY DEF CookieInv, Issued
<1>3. validateCookie(jar) = "tampered"
        => jar.signature # cookieConf.secret \/ jar.wireCompat # cookieConf.wireCompat
  BY DEF validateCookie, decodes, sign
<1>4. /\ validateCookie(jar) = "invalid" => now - jar.ts > parseTTL(jar.ttl)
      /\ validateCookie(jar) = "valid" /\ parseTTL(jar.ttl) > 0 => ~(now - jar.ts > parseTTL(jar.ttl))
  BY DEF validateCookie
<1> QED BY <1>1, <1>2, <1>3, <1>4 DEF Close

(* Without a response there is nothing to check.                            *)
LEMMA QuietAnswer == answer = NoAnswer => OwnCookieAccepted /\ ExpiresOnTime
<1> SUFFICES ASSUME answer = NoAnswer PROVE OwnCookieAccepted /\ ExpiresOnTime
  OBVIOUS
<1>1. answer.status = 200 /\ answer.sent = None BY Zenon DEF NoAnswer
<1> QED BY <1>1 DEF OwnCookieAccepted, ExpiresOnTime

(* What a response leaves behind.                                           *)
LEMMA RespondStep == ASSUME CookieInv, NEW path \in Paths, Respond(path) PROVE CookieInv'
<1>1. cookieConf' = cookieConf /\ now' = now BY DEF Respond
<1>2. jar' # None => Issued(jar)'
  BY <1>1, IssuedByConfig, Zenon DEF Respond, applyCookies, CookieInv, Issued
<1>3. OwnCookieAccepted' /\ ExpiresOnTime'
  <2> DEFINE Told(status, did) ==
        /\ answer'.path = path /\ answer'.status = status /\ answer'.did = did
        /\ answer'.sent = jar /\ answer'.under = cookieConf /\ answer'.at = now
  <2>1. applyCookies(path) BY DEF Respond
  <2>2. ASSUME answer'.status # 500, answer'.sent = None \/ answer'.under.secret = ""
        PROVE  OwnCookieAccepted' /\ ExpiresOnTime'
    BY <2>2, Zenon DEF OwnCookieAccepted, ExpiresOnTime
  <2>3. CASE cookieConf.secret = ""
    <3>1. Answer(path, 200, "none") BY <2>1, <2>3, Zenon DEF applyCookies
    <3>2. answer'.status # 500 /\ answer'.under = cookieConf BY <3>1 DEF Answer
    <3> QED BY <2>2, <2>3, <3>2, Zenon
  <2>4. CASE cookieConf.secret # "" /\ jar = None
    <3>1. Answer(path, 200, "none") \/ Answer(path, 200, "issued")
      BY <2>1, <2>4, Zenon DEF applyCookies
    <3>2. ASSUME NEW did, Answer(path, 200, did)
          PROVE  answer'.status # 500 /\ answer'.sent = None
      <4>1. answer'.sent = jar BY <3>2 DEF Answer
      <4>2. answer'.status # 500 BY <3>2 DEF Answer
      <4> QED BY <2>4, <4>1, <4>2, Zenon
    <3> QED BY <2>2, <3>1, <3>2, Zenon
  <2>5. CASE cookieConf.secret # "" /\ jar # None
    <3>1. CASE validateCookie(jar) = "tampered"
      <4>1. Told(500, "none")
        <5>1. Answer(path, 500, "none") BY <2>1, <2>5, <3>1, Zenon DEF applyCookies
        <5> QED BY <5>1 DEF Answer
      <4>2. OwnCookieAccepted'
        BY <2>5, <3>1, <4>1, <1>1, Validated, Zenon DEF OwnCookieAccepted
      <4>3. answer'.status # 200 BY <4>1
      <4>4. ExpiresOnTime' BY <4>3, Zenon DEF ExpiresOnTime
      <4> QED BY <4>2, <4>4
    <3>2. CASE validateCookie(jar) = "invalid" \/ (validateCookie(jar) = "valid" /\ path \in DeletePaths)
      <4>1. Told(200, "deleted")
        <5>1. Answer(path, 200, "deleted") BY <2>1, <2>5, <3>2, Zenon DEF applyCookies
        <5> QED BY <5>1 DEF Answer
      <4>2. OwnCookieAccepted' BY <4>1 DEF OwnCookieAccepted
      <4>3. ExpiresOnTime' BY <2>5, <3>2, <4>1, Validated, Zenon DEF ExpiresOnTime
      <4> QED BY <4>2, <4>3
    <3>3. CASE validateCookie(jar) = "valid" /\ path \notin DeletePaths
      <4>1. Told(200, "none")
        <5>1. Answer(path, 200, "none") BY <2>1, <2>5, <3>3, Zenon DEF applyCookies
        <5> QED BY <5>1 DEF Answer
      <4>2. OwnCookieAccepted' BY <4>1 DEF OwnCookieAccepted
      <4>3. ExpiresOnTime' BY <2>5, <3>3, <4>1, Validated, Zenon DEF ExpiresOnTime
      <4> QED BY <4>2, <4>3
    <3>4. validateCookie(jar) \in {"tampered", "invalid", "valid"} BY DEF validateCookie
    <3> QED BY <3>1, <3>2, <3>3, <3>4
  <2> QED BY <2>3, <2>4, <2>5, Zenon
<1> QED BY <1>1, <1>2, <1>3 DEF CookieInv

(* Restarts, the clock and the client leave a cookie as it was issued.      *)
LEMMA CookieStep ==
    ASSUME CookieConstants, CookieInv, [CookieNext]_cookieVars PROVE CookieInv'
<1>1. ASSUME NEW path \in Paths, Respond(path) PROVE CookieInv' BY <1>1, RespondStep
<1>2. answer' = NoAnswer => (OwnCookieAccepted /\ ExpiresOnTime)'
  <2> SUFFICES ASSUME answer' = NoAnswer PROVE (OwnCookieAccepted /\ ExpiresOnTime)'
    OBVIOUS
  <2>1. answer'.status = 200 /\ answer'.sent = None BY Zenon DEF NoAnswer
  <2> QED BY <2>1 DEF OwnCookieAccepted, ExpiresOnTime
<1>3. ASSUME NEW secret \in Secrets, NEW wireCompat \in BOOLEAN, NEW ttl \in TTLs,
             Reconfigure(secret, wireCompat, ttl)
      PROVE  CookieInv'
  <2>1. cookieConf'.ttl \in Nat \ {0} BY <1>3 DEF Reconfigure, CookieConstants
  <2> QED BY <1>2, <1>3, <2>1 DEF Reconfigure, CookieInv, Issued
<1>4. ASSUME NEW d \in Jumps, Tick(d) PROVE CookieInv'
  <2>1. now' \in Nat BY <1>4 DEF Tick, CookieConstants, CookieInv
  <2>2. cookieConf' = cookieConf /\ jar' = jar /\ answer' = NoAnswer BY <1>4, Zenon DEF Tick
  <2>3. (jar # None => Issued(jar))' BY <2>2, Zenon DEF CookieInv, Issued
  <2> QED BY <1>2, <2>1, <2>2, <2>3, Zenon DEF CookieInv
<1>5. CASE ClientExpires BY <1>2, <1>5 DEF ClientExpires, CookieInv
<1>6. CASE UNCHANGED cookieVars
  BY <1>6 DEF cookieVars, CookieInv, Issued, OwnCookieAccepted, ExpiresOnTime
<1> QED BY <1>1, <1>3, <1>4, <1>5, <1>6 DEF CookieNext

(* The gateway starts without a cookie.                                     *)
LEMMA CookieStart == CookieInit => CookieInv
<1> SUFFICES ASSUME CookieInit PROVE CookieInv OBVIOUS
<1>1. cookieConf.ttl = 600 /\ now = 0 /\ jar = None /\ answer = NoAnswer BY Zenon DEF CookieInit
<1>2. OwnCookieAccepted /\ ExpiresOnTime BY <1>1, QuietAnswer
<1> QED BY <1>1, <1>2 DEF CookieInv

(* Whatever secrets, formats and lifetimes the gateway restarts with, only  *)
(* a cookie of another secret or another wire format is answered with 500   *)
(* (validateCookie).                                                        *)
THEOREM OwnCookiesServed ==
    ASSUME CookieConstants PROVE CookieSpec => []OwnCookieAccepted
<1>1. CookieInv => OwnCookieAccepted BY DEF CookieInv
<1>2. CookieInv /\ [CookieNext]_cookieVars => CookieInv' BY CookieStep
<1> QED BY <1>1, <1>2, CookieStart, PTL DEF CookieSpec

(* For every lifetime of at least a second, in both formats of its text, a  *)
(* cookie lives as long as it was issued for, give or take one part in two  *)
(* hundred (airliftDurationString, parseTTL, validateCookie).               *)
THEOREM CookiesExpireOnTime ==
    ASSUME CookieConstants PROVE CookieSpec => []ExpiresOnTime
<1>1. CookieInv => ExpiresOnTime BY DEF CookieInv
<1>2. CookieInv /\ [CookieNext]_cookieVars => CookieInv' BY CookieStep
<1> QED BY <1>1, <1>2, CookieStart, PTL DEF CookieSpec

-----------------------------------------------------------------------------
(* The cluster-stats collectors.                                           *)

StatsRecord ==
    [status : {"UNKNOWN", "HEALTHY", "UNHEALTHY", "PENDING"}, counts : BOOLEAN,
     users : BOOLEAN, answered : {"nothing", "good", "bad"}]

Fresh(r) == r.status = "HEALTHY" => r.answered = "good"

UiInv == stats \in [UNION Fleets -> {r \in StatsRecord : Fresh(r)}]

(* A scrape that passes the thresholds was a good one (parseMetrics).      *)
LEMMA MetricsFresh ==
    ASSUME NEW body \in [Metrics -> Values]
    PROVE  [metricsCollect(body) EXCEPT
              !.answered = IF body.nodes = "1" /\ body.queued = "0" THEN "good" ELSE "bad"]
             \in {r \in StatsRecord : Fresh(r)}
<1> DEFINE m == parseMetrics(body)
           healthy == /\ m # <<>>
                      /\ \A n \in DOMAIN Minimum : m[n] >= Minimum[n]
                      /\ \A n \in DOMAIN Maximum : m[n] <= Maximum[n]
           said == IF body.nodes = "1" /\ body.queued = "0" THEN "good" ELSE "bad"
<1>1. ASSUME healthy PROVE body.nodes = "1" /\ body.queued = "0"
  <2>1. m["nodes"] >= 1 /\ m["queued"] <= 0 BY <1>1 DEF Minimum, Maximum
  <2>2. m = [n \in Metrics |-> IF body[n] = "1" THEN 1 ELSE 0]
        /\ \A n \in Metrics : body[n] \in {"0", "1"}
    BY <1>1 DEF parseMetrics
  <2>3. m["nodes"] = (IF body["nodes"] = "1" THEN 1 ELSE 0)
        /\ m["queued"] = (IF body["queued"] = "1" THEN 1 ELSE 0)
    BY <2>2 DEF Metrics
  <2>4. body["queued"] \in {"0", "1"} BY <2>2 DEF Metrics
  <2> HIDE DEF m
  <2> QED BY <2>1, <2>3, <2>4
<1>2. metricsCollect(body) = [statsBuilder EXCEPT !.status = IF healthy THEN "HEALTHY" ELSE "UNHEALTHY",
                                                  !.counts = healthy]
  BY Zenon DEF metricsCollect
<1>3. healthy \in BOOLEAN OBVIOUS
<1> HIDE DEF healthy
<1> DEFINE r == [metricsCollect(body) EXCEPT !.answered = said]
<1>4. r \in StatsRecord BY <1>2, <1>3, Zenon DEF StatsRecord, statsBuilder
<1>5. /\ r.status = IF healthy THEN "HEALTHY" ELSE "UNHEALTHY"
      /\ r.answered = said
  BY <1>2, <1>3 DEF statsBuilder
<1>6. Fresh(r) BY <1>1, <1>5 DEF Fresh
<1> QED BY <1>4, <1>6

(* Every step leaves each record one of this tick.                         *)
LEMMA UiStep == ASSUME UiInv, [UiNext]_uiVars PROVE UiInv'
<1> DEFINE Good == {r \in StatsRecord : Fresh(r)}
<1>1. statsBuilder \in Good BY DEF statsBuilder, StatsRecord, Fresh
<1>2. ASSUME NEW b \in UNION Fleets, NEW r \in Good, stats' = [stats EXCEPT ![b] = r]
      PROVE  UiInv'
  BY <1>2 DEF UiInv
<1>3. CASE CollectStats BY <1>1, <1>3 DEF CollectStats, UiInv
<1>4. ASSUME NEW b \in UNION Fleets, NEW workers \in {0, 1}, StatsAnswered(b, workers)
      PROVE  UiInv'
  <2> DEFINE r == [status |-> IF workers > 0 THEN "HEALTHY" ELSE "UNHEALTHY", counts |-> TRUE,
                   users |-> FALSE, answered |-> IF workers > 0 THEN "good" ELSE "bad"]
  <2>1. r \in Good BY DEF StatsRecord, Fresh
  <2>2. stats' = [stats EXCEPT ![b] = r] BY <1>4 DEF StatsAnswered
  <2> QED BY <1>2, <2>1, <2>2, Zenon
<1>5. ASSUME NEW b \in UNION Fleets, QueuedAnswered(b) PROVE UiInv'
  <2>1. [stats[b] EXCEPT !.users = TRUE] \in Good
    <3>1. stats[b] \in StatsRecord /\ Fresh(stats[b]) BY DEF UiInv
    <3>2. [stats[b] EXCEPT !.users = TRUE] \in StatsRecord BY <3>1, Zenon DEF StatsRecord
    <3>3. Fresh([stats[b] EXCEPT !.users = TRUE]) BY <3>1 DEF StatsRecord, Fresh
    <3> QED BY <3>2, <3>3
  <2>2. stats' = [stats EXCEPT ![b] = [stats[b] EXCEPT !.users = TRUE]]
    BY <1>5 DEF QueuedAnswered
  <2> QED BY <1>2, <2>1, <2>2, Zenon
<1>6. ASSUME NEW b \in UNION Fleets, CollectMetrics(b) PROVE UiInv'
  BY <1>2, <1>6, MetricsFresh, Zenon DEF CollectMetrics
<1>7. ASSUME NEW b \in UNION Fleets, ScrapeFails(b) PROVE UiInv'
  <2>1. [stats[b] EXCEPT !.status = "UNHEALTHY"] \in Good BY DEF UiInv, StatsRecord, Fresh
  <2>2. stats' = [stats EXCEPT ![b] = [stats[b] EXCEPT !.status = "UNHEALTHY"]]
    BY <1>7 DEF ScrapeFails
  <2> QED BY <1>2, <2>1, <2>2, Zenon
<1>8. ASSUME NEW b \in UNION Fleets, NEW verdict \in {"HEALTHY", "PENDING"}, CollectVerdict(b, verdict)
      PROVE  UiInv'
  <2> DEFINE r == [stats[b] EXCEPT !.status = verdict,
                                   !.answered = IF verdict = "HEALTHY" THEN "good" ELSE "bad"]
  <2>1. r \in Good
    <3>1. stats[b] \in StatsRecord BY DEF UiInv
    <3>2. r \in StatsRecord BY <3>1, Zenon DEF StatsRecord
    <3>3. Fresh(r) BY <3>1 DEF StatsRecord, Fresh
    <3> QED BY <3>2, <3>3
  <2>2. stats' = [stats EXCEPT ![b] = r] BY <1>8, Zenon DEF CollectVerdict
  <2> QED BY <1>2, <2>1, <2>2, Zenon
<1>9. CASE UNCHANGED stats BY <1>9 DEF UiInv
<1> QED
  BY <1>3, <1>4, <1>5, <1>6, <1>7, <1>8, <1>9
     DEF UiNext, uiVars, Collect, NewCollector, ensureLogin, LoginAnswered, LoginFails, CopyJar,
         GetFails, Unauthorized, CoordinatorRestarts

(* For every fleet and every collector, a backend reported HEALTHY said so  *)
(* in this tick, whatever logins fail, sessions expire or scrapes are       *)
(* rejected (the Collect methods, collectStats).                            *)
THEOREM HealthyReportsFresh == UiSpec => []HealthyIsFresh
<1>1. UiInit => UiInv BY DEF UiInit, UiInv, statsBuilder, StatsRecord, Fresh
<1>2. UiInv /\ [UiNext]_uiVars => UiInv' BY UiStep
<1>3. UiInv => HealthyIsFresh BY DEF UiInv, HealthyIsFresh, Fresh
<1> QED BY <1>1, <1>2, <1>3, PTL DEF UiSpec

-----------------------------------------------------------------------------
(* The configuration file.                                                 *)

(* The zero value of each kind of key.                                     *)
LEMMA Zeros ==
    /\ \A k \in SizeKeys \union DurationKeys \union IntKeys : ZeroOf(k) = 0
    /\ \A k \in BoolKeys : ZeroOf(k) = FALSE
    /\ \A k \in SeqKeys : ZeroOf(k) = <<>>
    /\ \A k \in StringKeys : ZeroOf(k) = Blank
<1>1. \A k \in BoolKeys : k \notin SizeKeys \union DurationKeys \union IntKeys \union SeqKeys
  BY SMT DEF SizeKeys, DurationKeys, IntKeys, BoolKeys, SeqKeys
<1>2. \A k \in SeqKeys : k \notin SizeKeys \union DurationKeys \union IntKeys
  BY SMT DEF SizeKeys, DurationKeys, IntKeys, SeqKeys
<1>3. \A k \in StringKeys : k \notin SizeKeys \union DurationKeys \union IntKeys \union BoolKeys \union SeqKeys
  BY SMT DEF SizeKeys, DurationKeys, IntKeys, BoolKeys, SeqKeys, StringKeys
<1>4. ASSUME NEW k \in SizeKeys \union DurationKeys \union IntKeys PROVE ZeroOf(k) = 0
  BY <1>1, <1>2, Zenon DEF ZeroOf
<1>5. ASSUME NEW k \in BoolKeys PROVE ZeroOf(k) = FALSE
  BY <1>1, Zenon DEF ZeroOf
<1>6. ASSUME NEW k \in SeqKeys PROVE ZeroOf(k) = <<>>
  BY <1>1, <1>2, Zenon DEF ZeroOf
<1>7. ASSUME NEW k \in StringKeys PROVE ZeroOf(k) = Blank
  BY <1>3, Zenon DEF ZeroOf
<1> QED BY <1>4, <1>5, <1>6, <1>7, Zenon

(* A size is read back as it was written (formatBytes, UnmarshalYAML).     *)
LEMMA SizeRoundTrip ==
    ASSUME NEW b \in Nat \ {0}
    PROVE  /\ formatBytes(b)[2] \in SizeUnits
           /\ formatBytes(b)[1] * Multiplier(formatBytes(b)[2]) = b
<1>1. CASE b >= GiB /\ b % GiB = 0
  <2>1. formatBytes(b) = <<b \div GiB, "GiB">> BY <1>1 DEF formatBytes
  <2>2. Multiplier("GiB") = GiB BY DEF Multiplier
  <2>3. (b \div GiB) * GiB = b BY <1>1 DEF GiB
  <2> QED BY <2>1, <2>2, <2>3 DEF SizeUnits
<1>2. CASE ~(b >= GiB /\ b % GiB = 0) /\ b >= MiB /\ b % MiB = 0
  <2>1. formatBytes(b) = <<b \div MiB, "MiB">> BY <1>2 DEF formatBytes
  <2>2. Multiplier("MiB") = MiB BY DEF Multiplier
  <2>3. (b \div MiB) * MiB = b BY <1>2 DEF MiB
  <2> QED BY <2>1, <2>2, <2>3 DEF SizeUnits
<1>3. CASE ~(b >= GiB /\ b % GiB = 0) /\ ~(b >= MiB /\ b % MiB = 0) /\ b >= KiB /\ b % KiB = 0
  <2>1. formatBytes(b) = <<b \div KiB, "KiB">> BY <1>3 DEF formatBytes
  <2>2. Multiplier("KiB") = KiB BY DEF Multiplier
  <2>3. (b \div KiB) * KiB = b BY <1>3 DEF KiB
  <2> QED BY <2>1, <2>2, <2>3 DEF SizeUnits
<1>4. CASE ~(b >= GiB /\ b % GiB = 0) /\ ~(b >= MiB /\ b % MiB = 0) /\ ~(b >= KiB /\ b % KiB = 0)
  <2>1. formatBytes(b) = <<b, "B">> BY <1>4 DEF formatBytes
  <2>2. Multiplier("B") = 1 BY DEF Multiplier
  <2> QED BY <2>1, <2>2 DEF SizeUnits
<1> QED BY <1>1, <1>2, <1>3, <1>4

(* So is a duration of whole seconds (durationString, ParseDuration).      *)
LEMMA DurationRoundTrip ==
    ASSUME NEW d \in Nat
    PROVE  ParseDuration(durationString(d)) = d
<1>1. PICK h \in Nat, m \in Nat, s \in Nat :
        h = d \div 3600 /\ m = (d % 3600) \div 60 /\ s = d % 60
  OBVIOUS
<1>2. h * 3600 + m * 60 + s = d BY <1>1
<1>3. UnitSeconds["h"] = 3600 /\ UnitSeconds["m"] = 60 /\ UnitSeconds["s"] = 1 BY DEF UnitSeconds
<1>4. PICK t : t = durationString(d) OBVIOUS
<1>5. PICK ps : ps = IF h > 0 THEN << <<h, "h">>, <<m, "m">>, <<s, "s">> >>
                     ELSE IF m > 0 THEN << <<m, "m">>, <<s, "s">> >> ELSE << <<s, "s">> >>
  BY Zenon
<1>6. t = [neg |-> FALSE, parts |-> ps] BY <1>1, <1>4, <1>5 DEF durationString
<1>7. t.neg = FALSE /\ t.parts = ps BY <1>6
<1> DEFINE part(i) == IF i \in DOMAIN ps THEN ps[i][1] * UnitSeconds[ps[i][2]] ELSE 0
<1>8. ParseDuration(t) = part(1) + part(2) + part(3) BY <1>7, Zenon DEF ParseDuration
<1>9. CASE h > 0
  <2>1. ps = << <<h, "h">>, <<m, "m">>, <<s, "s">> >> BY <1>5, <1>9
  <2>2. part(1) = h * 3600 /\ part(2) = m * 60 /\ part(3) = s BY <1>3, <2>1
  <2> QED BY <1>2, <1>4, <1>8, <2>2
<1>10. CASE h = 0 /\ m > 0
  <2>1. ps = << <<m, "m">>, <<s, "s">> >> BY <1>5, <1>10
  <2>2. part(1) = m * 60 /\ part(2) = s /\ part(3) = 0 BY <1>3, <2>1
  <2> QED BY <1>2, <1>4, <1>8, <1>10, <2>2
<1>11. CASE h = 0 /\ m = 0
  <2>1. ps = << <<s, "s">> >> BY <1>5, <1>11
  <2>2. part(1) = s /\ part(2) = 0 /\ part(3) = 0 BY <1>3, <2>1
  <2> QED BY <1>2, <1>4, <1>8, <1>11, <2>2
<1> QED BY <1>9, <1>10, <1>11

(* Its text is well formed: it has a part, and each part a known unit.     *)
LEMMA DurationReadable ==
    ASSUME NEW d \in Nat, NEW ps, ps = durationString(d).parts
    PROVE  ps # <<>> /\ \A i \in DOMAIN ps : ps[i][2] \in DOMAIN UnitSeconds
<1>1. PICK h \in Nat, m \in Nat, s \in Nat :
        h = d \div 3600 /\ m = (d % 3600) \div 60 /\ s = d % 60
  OBVIOUS
<1>2. DOMAIN UnitSeconds = {"h", "m", "s"} BY DEF UnitSeconds
<1>3. ps \in {<< <<h, "h">>, <<m, "m">>, <<s, "s">> >>, << <<m, "m">>, <<s, "s">> >>, << <<s, "s">> >>}
  BY <1>1 DEF durationString
<1>4. CASE ps = << <<h, "h">>, <<m, "m">>, <<s, "s">> >> BY <1>2, <1>4
<1>5. CASE ps = << <<m, "m">>, <<s, "s">> >> BY <1>2, <1>5
<1>6. CASE ps = << <<s, "s">> >> BY <1>2, <1>6
<1> QED BY <1>3, <1>4, <1>5, <1>6, Zenon

(* What is written of a Config reads back as it was: the text of every     *)
(* stated key is readable and means the value it was made from.            *)
LEMMA TextKept ==
    ASSUME NEW C, \A k \in SizeKeys \union DurationKeys : C[k] \in Int
    PROVE  /\ DOMAIN toOutput(C) = Stated(C)
           /\ Readable(toOutput(C))
           /\ \A k \in Stated(C) : UnmarshalYAML(toOutput(C))[k] = C[k]
<1>1. DOMAIN toOutput(C) = Stated(C) BY DEF toOutput
<1>2. \A k \in SizeKeys : k \notin DurationKeys BY DEF SizeKeys, DurationKeys
<1>3. ASSUME NEW k \in Stated(C), k \in SizeKeys
      PROVE  toOutput(C)[k] = formatBytes(C[k]) /\ C[k] \in Nat \ {0}
  <2>1. C[k] \in Int /\ C[k] > 0 BY <1>3 DEF Stated
  <2> QED BY <1>2, <1>3, <2>1 DEF toOutput
<1>4. ASSUME NEW k \in Stated(C), k \in DurationKeys
      PROVE  toOutput(C)[k] = durationString(C[k]) /\ C[k] \in Nat
  <2>1. C[k] \in Int /\ C[k] > 0 BY <1>4 DEF Stated
  <2> QED BY <1>2, <1>4, <2>1 DEF toOutput
<1>5. Readable(toOutput(C))
  <2>1. ASSUME NEW k \in Stated(C), k \in SizeKeys PROVE toOutput(C)[k][2] \in SizeUnits
    BY <1>3, <2>1, SizeRoundTrip
  <2>2. ASSUME NEW k \in Stated(C), k \in DurationKeys
        PROVE  /\ toOutput(C)[k].parts # <<>>
               /\ \A i \in DOMAIN toOutput(C)[k].parts :
                     toOutput(C)[k].parts[i][2] \in DOMAIN UnitSeconds
    BY <1>4, <2>2, DurationReadable, Zenon
  <2> QED BY <1>1, <2>1, <2>2, Zenon DEF Readable
<1>6. ASSUME NEW k \in Stated(C) PROVE UnmarshalYAML(toOutput(C))[k] = C[k]
  <2>1. CASE k \in SizeKeys
    <3>1. UnmarshalYAML(toOutput(C))[k] = toOutput(C)[k][1] * Multiplier(toOutput(C)[k][2])
      BY <1>1, <1>2, <2>1 DEF UnmarshalYAML
    <3> QED BY <1>3, <2>1, <3>1, SizeRoundTrip
  <2>2. CASE k \in DurationKeys
    <3>1. UnmarshalYAML(toOutput(C))[k] = ParseDuration(toOutput(C)[k])
      BY <1>1, <1>2, <2>2 DEF UnmarshalYAML
    <3> QED BY <1>4, <2>2, <3>1, DurationRoundTrip
  <2>3. CASE k \notin SizeKeys /\ k \notin DurationKeys
    <3>1. UnmarshalYAML(toOutput(C))[k] = toOutput(C)[k] BY <1>1, <2>3 DEF UnmarshalYAML
    <3>2. toOutput(C)[k] = C[k] BY <2>3 DEF toOutput
    <3> QED BY <3>1, <3>2
  <2> QED BY <2>1, <2>2, <2>3
<1> QED BY <1>1, <1>5, <1>6

(* What Load makes of a file.                                              *)
Booted(f) == applyDefaults(Overlay(f))
LoadOf(f) == IF Readable(f) /\ Validate(Booted(f)) THEN [ok |-> TRUE, cfg |-> Booted(f)] ELSE [ok |-> FALSE]

(* A key the file leaves out has its default, and true if it is a boolean. *)
LEMMA BootedKey ==
    ASSUME NEW f, NEW k \in Keys
    PROVE  /\ k \in DOMAIN f => Booted(f)[k] = IF UnmarshalYAML(f)[k] = ZeroOf(k) THEN Default(k)
                                               ELSE UnmarshalYAML(f)[k]
           /\ k \notin DOMAIN f => Booted(f)[k] = IF k \in BoolKeys THEN TRUE ELSE Default(k)
<1>1. Booted(f)[k] = IF Overlay(f)[k] = ZeroOf(k) THEN Default(k) ELSE Overlay(f)[k]
  BY DEF Booted, applyDefaults
<1>2. CASE k \in DOMAIN f
  <2>1. Overlay(f)[k] = UnmarshalYAML(f)[k] BY <1>2 DEF Overlay
  <2> QED BY <1>1, <1>2, <2>1, Zenon
<1>3. CASE k \notin DOMAIN f
  <2>1. Overlay(f)[k] = defaultConfig[k] BY <1>3 DEF Overlay
  <2>2. CASE k \in BoolKeys
    <3>1. ZeroOf(k) = FALSE BY <2>2, Zeros, Zenon
    <3>2. defaultConfig[k] = TRUE BY <2>2 DEF defaultConfig
    <3> QED BY <1>1, <1>3, <2>1, <2>2, <3>1, <3>2, Zenon
  <2>3. CASE k = "monitor.metricMinimumValues"
    <3>3. k \in StringKeys /\ k \notin BoolKeys BY <2>3, SMT DEF BoolKeys, StringKeys
    <3>1. ZeroOf(k) = Blank BY <3>3, Zeros, Zenon
    <3>2. defaultConfig[k] = Blank BY <2>3, <3>3 DEF defaultConfig
    <3> QED BY <1>1, <1>3, <2>1, <3>1, <3>2, <3>3
  <2>4. CASE k \notin BoolKeys /\ k # "monitor.metricMinimumValues"
    <3>1. defaultConfig[k] = Default(k) BY <2>4 DEF defaultConfig
    <3> QED BY <1>1, <1>3, <2>1, <2>4, <3>1
  <2> QED BY <2>2, <2>3, <2>4, Zenon
<1> QED BY <1>2, <1>3, Zenon

(* A size or an interval is a number once it is converted.                 *)
LEMMA NumbersConverted ==
    ASSUME NEW src, JavaOK(src)
    PROVE  /\ \A k \in SizeKeys \union DurationKeys : Converted(src)[k] \in Int
           /\ "healthCheckInterval" \in DOMAIN src =>
                 Converted(src)["monitor.interval"] = IntervalSeconds(src["healthCheckInterval"])
           /\ "requestBufferSize" \in DOMAIN src =>
                 Converted(src)["proxy.responseSize"] = src["requestBufferSize"]
<1>1. "none" \notin DOMAIN src
  BY DEF JavaOK, Numbers, Texts, Ignored
<1>2. FieldOf("proxy.responseSize") = "requestBufferSize" /\ FieldOf("monitor.interval") = "healthCheckInterval"
      /\ FieldOf("monitor.refreshInterval") = "none" /\ FieldOf("monitor.statsTimeout") = "none"
  BY SMT DEF FieldOf
<1>3. \A k \in SizeKeys \union DurationKeys : k \in Keys /\ k \notin OIDCKeys /\ ZeroOf(k) = 0
  <2>1. \A k \in SizeKeys \union DurationKeys : k \in Keys /\ k \notin OIDCKeys
    BY SMT DEF Keys, OIDCKeys, SizeKeys, DurationKeys
  <2> QED BY <2>1, Zeros, Zenon
<1>4. \A k \in SizeKeys \union DurationKeys :
        Converted(src)[k] = IF FieldOf(k) \in DOMAIN src THEN Convert(k, src[FieldOf(k)]) ELSE 0
  BY <1>3 DEF Converted
<1>5. \A v : Convert("proxy.responseSize", v) = v /\ Convert("monitor.interval", v) = IntervalSeconds(v)
  BY SMT DEF Convert
<1>6. \A v \in Int : IntervalSeconds(v) \in Int BY DEF IntervalSeconds
<1>7. "requestBufferSize" \in DOMAIN src => src["requestBufferSize"] \in Int
  BY DEF JavaOK, Numbers
<1>8. "healthCheckInterval" \in DOMAIN src => src["healthCheckInterval"] \in Int
  BY DEF JavaOK, Numbers
<1>9. /\ Converted(src)["proxy.responseSize"] = IF "requestBufferSize" \in DOMAIN src THEN src["requestBufferSize"] ELSE 0
      /\ Converted(src)["monitor.interval"] = IF "healthCheckInterval" \in DOMAIN src
                                             THEN IntervalSeconds(src["healthCheckInterval"]) ELSE 0
      /\ Converted(src)["monitor.refreshInterval"] = 0
      /\ Converted(src)["monitor.statsTimeout"] = 0
  BY <1>1, <1>2, <1>4, <1>5 DEF SizeKeys, DurationKeys
<1> QED BY <1>6, <1>7, <1>8, <1>9 DEF SizeKeys, DurationKeys

(* The configuration a migrated file boots to.                             *)
LEMMA MigratedKey ==
    ASSUME NEW src, JavaOK(src), NEW k \in Keys
    PROVE  Booted(toOutput(Converted(src)))[k] =
             IF k \in Stated(Converted(src)) THEN Converted(src)[k]
             ELSE IF k \in BoolKeys THEN TRUE ELSE Default(k)
<1>1. PICK C : C = Converted(src) OBVIOUS
<1>2. PICK f : f = toOutput(C) OBVIOUS
<1>3. \A j \in SizeKeys \union DurationKeys : C[j] \in Int BY <1>1, NumbersConverted, Zenon
<1>4. DOMAIN f = Stated(C) /\ \A j \in Stated(C) : UnmarshalYAML(f)[j] = C[j]
  BY <1>2, <1>3, TextKept, Zenon
<1>5. k \in Stated(C) => C[k] # ZeroOf(k) BY DEF Stated
<1> QED BY <1>1, <1>2, <1>4, <1>5, BootedKey, Zenon

(* A key is the conversion of its legacy field where that is written out,  *)
(* and its default otherwise.                                              *)
LEMMA KeyFrom ==
    ASSUME NEW src, JavaOK(src), NEW k \in Keys \ BoolKeys, NEW v, v = Convert(k, src[FieldOf(k)])
    PROVE  Booted(toOutput(Converted(src)))[k] =
             IF /\ FieldOf(k) \in DOMAIN src
                /\ k \in OIDCKeys => "jwkUrl" \in DOMAIN src
                /\ v # ZeroOf(k)
                /\ k \in SizeKeys \union DurationKeys => v > 0
             THEN v ELSE Default(k)
<1>1. PICK C : C = Converted(src) OBVIOUS
<1>2. PICK there \in BOOLEAN :
        there <=> FieldOf(k) \in DOMAIN src /\ (k \in OIDCKeys => "jwkUrl" \in DOMAIN src)
  BY Zenon
<1>3. C[k] = IF there THEN v ELSE ZeroOf(k) BY <1>1, <1>2 DEF Converted
<1>4. k \in Stated(C) <=> C[k] # ZeroOf(k) /\ (k \in SizeKeys \union DurationKeys => C[k] > 0)
  BY Zenon DEF Stated
<1>5. Booted(toOutput(C))[k] = IF k \in Stated(C) THEN C[k] ELSE Default(k)
  BY <1>1, MigratedKey, Zenon
<1>6. CASE there BY <1>1, <1>2, <1>3, <1>4, <1>5, <1>6, Zenon
<1>7. CASE ~there BY <1>1, <1>2, <1>3, <1>4, <1>5, <1>7, Zenon
<1> QED BY <1>6, <1>7, Zenon

(* The defaults that a migrated file may fall back on.                     *)
LEMMA Defaults ==
    /\ Default("proxy.port") = 8080 /\ Default("admin.port") = 8090
    /\ Default("proxy.responseSize") = MiB
    /\ Default("monitor.refreshInterval") = 15 /\ Default("monitor.statsTimeout") = 10
    /\ Default("monitor.retries") = 0
    /\ Default("clusterStats.monitorType") = "INFO_API"
    /\ Default("routing.type") = "EXTERNAL" /\ Default("auth.type") = "NOOP"
    /\ Default("metrics.path") = "/metrics" /\ Default("db.driver") = Blank
<1>1. ZeroOf("monitor.retries") = 0 /\ ZeroOf("db.driver") = Blank
  BY Zeros DEF IntKeys, StringKeys
<1> QED BY <1>1, SMT DEF Default

(* Where each key is taken from.                                           *)
LEMMA Fields ==
    /\ FieldOf("proxy.port") = "proxyPort" /\ FieldOf("admin.port") = "adminPort"
    /\ FieldOf("proxy.responseSize") = "requestBufferSize"
    /\ FieldOf("routing.defaultGroup") = "defaultRoutingGroup"
    /\ FieldOf("routing.external.url") = "externalUrl" /\ FieldOf("routing.type") = "rulesType"
    /\ FieldOf("db.dsn") = "jdbcUrl" /\ FieldOf("db.driver") = "driver"
    /\ FieldOf("monitor.interval") = "healthCheckInterval"
    /\ FieldOf("auth.type") = "jwkUrl" /\ FieldOf("auth.oidc.jwksUrl") = "jwkUrl"
    /\ FieldOf("auth.oidc.issuerUrl") = "issuer" /\ FieldOf("auth.oidc.clientId") = "clientId"
    /\ FieldOf("auth.oidc.clientSecret") = "clientSecret"
    /\ \A k \in {"monitor.refreshInterval", "monitor.statsTimeout", "monitor.retries",
                  "clusterStats.monitorType", "metrics.path"} : FieldOf(k) = "none"
BY SMT DEF FieldOf

(* The legacy field at most one key, besides auth.type, is taken from.     *)
LEMMA KeysOf ==
    ASSUME NEW k \in Keys
    PROVE  /\ FieldOf(k) = "proxyPort" => k = "proxy.port"
           /\ FieldOf(k) = "adminPort" => k = "admin.port"
           /\ FieldOf(k) = "defaultRoutingGroup" => k = "routing.defaultGroup"
           /\ FieldOf(k) = "externalUrl" => k = "routing.external.url"
BY SMT DEF FieldOf

(* A key of text or a number, not of a size or a duration.                 *)
Plain(k) == k \in Keys \ BoolKeys /\ k \notin SizeKeys /\ k \notin DurationKeys

LEMMA PlainKeys ==
    /\ \A k \in IntKeys \union SeqKeys \union StringKeys : Plain(k)
    /\ \A k \in SizeKeys \union DurationKeys : k \in Keys \ BoolKeys /\ k \notin OIDCKeys
<1>1. \A k \in IntKeys \union SeqKeys \union StringKeys :
        k \notin BoolKeys /\ k \notin SizeKeys /\ k \notin DurationKeys
  BY SMT DEF IntKeys, SeqKeys, StringKeys, BoolKeys, SizeKeys, DurationKeys
<1>2. \A k \in SizeKeys \union DurationKeys : k \notin BoolKeys /\ k \notin OIDCKeys
  BY SMT DEF SizeKeys, DurationKeys, BoolKeys, OIDCKeys
<1> QED BY <1>1, <1>2, Zenon DEF Plain, Keys

(* The fields of a legacy file hold what their type says.                  *)
LEMMA FieldTypes ==
    ASSUME NEW src, JavaOK(src)
    PROVE  /\ \A f \in Numbers : f \in DOMAIN src => src[f] \in Int /\ src[f] # 0
           /\ \A f \in Texts : f \in DOMAIN src => src[f] \in STRING /\ src[f] # Blank
           /\ "jdbcUrl" \in DOMAIN src => src["jdbcUrl"] \in Seq(STRING) /\ src["jdbcUrl"] # <<>>
           /\ "none" \notin DOMAIN src
<1>1. "none" \notin DOMAIN src BY SMT DEF JavaOK, Numbers, Texts, Ignored
<1>2. \A f \in Numbers : f \in DOMAIN src => src[f] \in Int /\ src[f] # 0 BY SMT DEF JavaOK
<1>3. \A f \in Texts : f \in DOMAIN src => src[f] \in STRING /\ src[f] # Blank BY Zenon DEF JavaOK
<1>4. "jdbcUrl" \in DOMAIN src => src["jdbcUrl"] \in Seq(STRING) /\ src["jdbcUrl"] # <<>> BY Zenon DEF JavaOK
<1> QED BY <1>1, <1>2, <1>3, <1>4, Zenon

(* A key that is a copy of its field.                                      *)
CopyKeys == {"proxy.port", "admin.port", "routing.defaultGroup", "routing.external.url"} \union OIDCKeys

LEMMA CopiedKey ==
    ASSUME NEW src, JavaOK(src), NEW k \in CopyKeys, FieldOf(k) \in DOMAIN src,
           k \in OIDCKeys => "jwkUrl" \in DOMAIN src
    PROVE  Booted(toOutput(Converted(src)))[k] = src[FieldOf(k)]
<1>1. Convert(k, src[FieldOf(k)]) = src[FieldOf(k)]
  <2>1. k \notin {"db.dsn", "db.driver", "monitor.interval", "routing.type", "auth.type"}
    BY SMT DEF CopyKeys, OIDCKeys
  <2> QED BY <2>1, SMT DEF Convert
<1>2. (k \in IntKeys /\ FieldOf(k) \in Numbers) \/ (k \in StringKeys /\ FieldOf(k) \in Texts)
  BY Fields, SMT DEF CopyKeys, OIDCKeys, IntKeys, StringKeys, Numbers, Texts
<1>3. Plain(k) BY <1>2, PlainKeys, Zenon
<1>4. src[FieldOf(k)] # ZeroOf(k) BY <1>2, Zeros, FieldTypes, Zenon
<1> QED BY <1>1, <1>3, <1>4, KeyFrom, Zenon DEF Plain

(* A key whose field is not set.                                           *)
LEMMA DefaultKey ==
    ASSUME NEW src, JavaOK(src), NEW k \in Keys \ BoolKeys, FieldOf(k) \notin DOMAIN src
    PROVE  Booted(toOutput(Converted(src)))[k] = Default(k)
BY KeyFrom, Zenon

(* The ports: as the legacy file has them, or the defaults.                *)
LEMMA MigratedPorts ==
    ASSUME NEW src, JavaOK(src), NEW cfg, cfg = Booted(toOutput(Converted(src)))
    PROVE  /\ cfg["proxy.port"] = IF "proxyPort" \in DOMAIN src THEN src["proxyPort"] ELSE 8080
           /\ cfg["admin.port"] = IF "adminPort" \in DOMAIN src THEN src["adminPort"] ELSE 8090
<1>1. ASSUME NEW k \in {"proxy.port", "admin.port"}
      PROVE  cfg[k] = IF FieldOf(k) \in DOMAIN src THEN src[FieldOf(k)] ELSE Default(k)
  <2>1. k \in IntKeys /\ k \in CopyKeys /\ k \notin OIDCKeys BY SMT DEF IntKeys, CopyKeys, OIDCKeys
  <2>2. Plain(k) BY <2>1, PlainKeys, Zenon
  <2>3. k \in Keys \ BoolKeys BY <2>2, Zenon DEF Plain
  <2> QED BY <2>1, <2>3, CopiedKey, DefaultKey, Zenon
<1>2. FieldOf("proxy.port") = "proxyPort" /\ FieldOf("admin.port") = "adminPort" BY Fields, Zenon
<1>3. Default("proxy.port") = 8080 /\ Default("admin.port") = 8090 BY Defaults, SMT
<1> QED BY <1>1, <1>2, <1>3, SMT

(* The buffer size: as the legacy file has it if it is positive, and the   *)
(* default if it is negative or not there.                                 *)
LEMMA MigratedSize ==
    ASSUME NEW src, JavaOK(src), NEW cfg, cfg = Booted(toOutput(Converted(src)))
    PROVE  /\ cfg["proxy.responseSize"] \in Int /\ cfg["proxy.responseSize"] > 0
           /\ "requestBufferSize" \in DOMAIN src =>
                cfg["proxy.responseSize"] = src["requestBufferSize"] \/ src["requestBufferSize"] < 0
<1> DEFINE k == "proxy.responseSize"
           f == "requestBufferSize"
<1>1. k \in SizeKeys BY SMT DEF SizeKeys
<1>2. k \in Keys \ BoolKeys /\ k \notin OIDCKeys /\ ZeroOf(k) = 0 BY <1>1, PlainKeys, Zeros, Zenon
<1>3. Convert(k, src[f]) = src[f] BY SMT DEF Convert
<1>4. FieldOf(k) = f BY Fields, Zenon
<1>5. cfg[k] = IF f \in DOMAIN src /\ src[f] # 0 /\ src[f] > 0 THEN src[f] ELSE Default(k)
  BY <1>1, <1>2, <1>3, <1>4, KeyFrom, Zenon
<1>6. f \in Numbers BY SMT DEF Numbers
<1>7. f \in DOMAIN src => src[f] \in Int /\ src[f] # 0 BY <1>6, FieldTypes, Zenon
<1>8. Default(k) = MiB /\ MiB \in Int /\ MiB > 0
  <2>1. Default(k) = MiB BY Defaults, SMT
  <2> QED BY <2>1, SMT DEF MiB
<1>9. CASE f \in DOMAIN src /\ src[f] > 0 BY <1>5, <1>7, <1>9, SMT
<1>10. CASE ~(f \in DOMAIN src /\ src[f] > 0) BY <1>5, <1>7, <1>8, <1>10, SMT
<1> QED BY <1>9, <1>10, Zenon

(* The interval of the health checks: whole seconds, at least one.         *)
LEMMA MigratedInterval ==
    ASSUME NEW src, JavaOK(src), NEW cfg, cfg = Booted(toOutput(Converted(src))),
           "healthCheckInterval" \in DOMAIN src
    PROVE  WholeSeconds(cfg["monitor.interval"], src["healthCheckInterval"])
<1> DEFINE k == "monitor.interval"
           f == "healthCheckInterval"
<1>1. k \in DurationKeys BY SMT DEF DurationKeys
<1>2. k \in Keys \ BoolKeys /\ k \notin OIDCKeys /\ ZeroOf(k) = 0 BY <1>1, PlainKeys, Zeros, Zenon
<1>3. Convert(k, src[f]) = IntervalSeconds(src[f]) BY SMT DEF Convert
<1>4. FieldOf(k) = f BY Fields, Zenon
<1>5. f \in Numbers BY SMT DEF Numbers
<1>6. src[f] \in Int BY <1>5, FieldTypes, Zenon
<1>7. PICK i : i = IntervalSeconds(src[f]) OBVIOUS
<1>8. i \in Int /\ i >= 1 /\ WholeSeconds(i, src[f])
  BY <1>6, <1>7, SMT DEF IntervalSeconds, WholeSeconds
<1>9. i # 0 /\ i > 0 BY <1>8, SMT
<1>10. cfg[k] = i BY <1>1, <1>2, <1>3, <1>4, <1>7, <1>9, KeyFrom, Zenon
<1> QED BY <1>8, <1>10, Zenon

(* The database: the URL without its prefix, and a driver the gateway has. *)
LEMMA MigratedDatabase ==
    ASSUME NEW src, JavaOK(src), NEW cfg, cfg = Booted(toOutput(Converted(src)))
    PROVE  /\ "jdbcUrl" \in DOMAIN src => src["jdbcUrl"] \in {cfg["db.dsn"], <<"jdbc:">> \o cfg["db.dsn"]}
           /\ cfg["db.driver"] = IF "driver" \in DOMAIN src THEN detectDriver(src["driver"]) ELSE Blank
           /\ cfg["db.driver"] \in {Blank, "postgres", "mysql"}
<1>1. Plain("db.dsn") /\ Plain("db.driver")
  <2>1. "db.dsn" \in SeqKeys /\ "db.driver" \in StringKeys BY SMT DEF SeqKeys, StringKeys
  <2> QED BY <2>1, PlainKeys, Zenon
<1>2. "db.dsn" \notin OIDCKeys /\ "db.driver" \notin OIDCKeys BY SMT DEF OIDCKeys
<1>3. ZeroOf("db.dsn") = <<>> /\ Default("db.dsn") = <<>> /\ ZeroOf("db.driver") = Blank
  <2>1. "db.dsn" \in SeqKeys /\ "db.driver" \in StringKeys BY SMT DEF SeqKeys, StringKeys
  <2>2. ZeroOf("db.dsn") = <<>> /\ ZeroOf("db.driver") = Blank BY <2>1, Zeros, Zenon
  <2>3. Default("db.dsn") = ZeroOf("db.dsn") BY SMT DEF Default
  <2> QED BY <2>2, <2>3, Zenon
<1>4. Default("db.driver") = Blank BY Defaults, SMT
<1>5. ASSUME "jdbcUrl" \in DOMAIN src
      PROVE  src["jdbcUrl"] \in {cfg["db.dsn"], <<"jdbc:">> \o cfg["db.dsn"]}
  <2>1. PICK s : s = src["jdbcUrl"] OBVIOUS
  <2>2. s \in Seq(STRING) /\ s # <<>> BY <1>5, <2>1, FieldTypes, Zenon
  <2>3. PICK v : v = stripJDBCPrefix(s) OBVIOUS
  <2>4. Convert("db.dsn", s) = v BY <2>3, SMT DEF Convert
  <2>5. FieldOf("db.dsn") = "jdbcUrl" BY Fields, Zenon
  <2>6. cfg["db.dsn"] = v
    <3>1. "db.dsn" \in Keys \ BoolKeys /\ Convert("db.dsn", src[FieldOf("db.dsn")]) = v
      BY <1>1, <2>1, <2>4, <2>5, Zenon DEF Plain
    <3>2. cfg["db.dsn"] = IF v # ZeroOf("db.dsn") THEN v ELSE Default("db.dsn")
      BY <1>1, <1>2, <1>5, <2>5, <3>1, KeyFrom, Zenon DEF Plain
    <3> QED BY <1>3, <3>2, Zenon
  <2>7. s = v \/ s = <<"jdbc:">> \o v
    <3>1. CASE Head(s) = "jdbc:"
      <4>1. v = Tail(s) BY <2>2, <2>3, <3>1 DEF stripJDBCPrefix
      <4>2. s = <<Head(s)>> \o Tail(s) BY <2>2, SMT
      <4> QED BY <3>1, <4>1, <4>2, Zenon
    <3>2. CASE Head(s) # "jdbc:" BY <2>3, <3>2, Zenon DEF stripJDBCPrefix
    <3> QED BY <3>1, <3>2, Zenon
  <2> QED BY <2>1, <2>6, <2>7, Zenon
<1>6. cfg["db.driver"] = IF "driver" \in DOMAIN src THEN detectDriver(src["driver"]) ELSE Blank
  <2>1. FieldOf("db.driver") = "driver" BY Fields, Zenon
  <2>2. Convert("db.driver", src["driver"]) = detectDriver(src["driver"]) BY SMT DEF Convert
  <2> QED BY <1>1, <1>2, <1>3, <1>4, <2>1, <2>2, KeyFrom, Zenon DEF Plain
<1>7. detectDriver(src["driver"]) \in {Blank, "postgres", "mysql"} BY SMT DEF detectDriver
<1> QED BY <1>5, <1>6, <1>7, Zenon

(* The rules: always EXTERNAL.                                             *)
LEMMA MigratedRouting ==
    ASSUME NEW src, JavaOK(src), NEW cfg, cfg = Booted(toOutput(Converted(src)))
    PROVE  cfg["routing.type"] = "EXTERNAL"
<1>1. "routing.type" \in StringKeys BY SMT DEF StringKeys
<1>2. "routing.type" \in Keys \ BoolKeys BY <1>1, PlainKeys, Zenon DEF Plain
<1>3. Convert("routing.type", src[FieldOf("routing.type")]) = "EXTERNAL" BY SMT DEF Convert
<1>4. Default("routing.type") = "EXTERNAL" BY Defaults, SMT
<1> QED BY <1>2, <1>3, <1>4, KeyFrom, Zenon

(* The login: OIDC with the legacy file's settings where it has a jwkUrl.  *)
LEMMA MigratedAuth ==
    ASSUME NEW src, JavaOK(src), NEW cfg, cfg = Booted(toOutput(Converted(src)))
    PROVE  /\ cfg["auth.type"] = IF "jwkUrl" \in DOMAIN src THEN "OIDC" ELSE "NOOP"
           /\ "jwkUrl" \in DOMAIN src =>
                /\ cfg["auth.oidc.jwksUrl"] # Blank
                /\ \A k \in OIDCKeys : FieldOf(k) \in DOMAIN src => cfg[k] = src[FieldOf(k)]
<1>1. "auth.type" \in StringKeys /\ "auth.type" \notin OIDCKeys BY SMT DEF StringKeys, OIDCKeys
<1>2. Plain("auth.type") /\ ZeroOf("auth.type") = Blank BY <1>1, PlainKeys, Zeros, Zenon
<1>3. Convert("auth.type", src["jwkUrl"]) = "OIDC" BY SMT DEF Convert
<1>4. Default("auth.type") = "NOOP" /\ "OIDC" # Blank
  <2>1. Default("auth.type") = "NOOP" BY Defaults, SMT
  <2>2. "OIDC" # Blank BY Zenon DEF Blank
  <2> QED BY <2>1, <2>2, Zenon
<1>5. FieldOf("auth.type") = "jwkUrl" /\ FieldOf("auth.oidc.jwksUrl") = "jwkUrl" BY Fields, Zenon
<1>6. cfg["auth.type"] = IF "jwkUrl" \in DOMAIN src THEN "OIDC" ELSE "NOOP"
  BY <1>1, <1>2, <1>3, <1>4, <1>5, KeyFrom, Zenon DEF Plain
<1>7. ASSUME "jwkUrl" \in DOMAIN src, NEW k \in OIDCKeys, FieldOf(k) \in DOMAIN src
      PROVE  cfg[k] = src[FieldOf(k)]
  BY <1>7, CopiedKey, Zenon DEF CopyKeys
<1>8. "jwkUrl" \in DOMAIN src => cfg["auth.oidc.jwksUrl"] # Blank
  <2>1. "auth.oidc.jwksUrl" \in OIDCKeys /\ "jwkUrl" \in Texts BY SMT DEF OIDCKeys, Texts
  <2> QED BY <1>5, <1>7, <2>1, FieldTypes, Zenon
<1> QED BY <1>6, <1>7, <1>8, Zenon

(* The keys no legacy field gives: their defaults.                         *)
LEMMA MigratedRest ==
    ASSUME NEW src, JavaOK(src), NEW cfg, cfg = Booted(toOutput(Converted(src)))
    PROVE  /\ cfg["monitor.refreshInterval"] = 15 /\ cfg["monitor.statsTimeout"] = 10
           /\ cfg["monitor.retries"] = 0 /\ cfg["clusterStats.monitorType"] = "INFO_API"
           /\ cfg["metrics.path"] = "/metrics"
<1>1. ASSUME NEW k \in {"monitor.refreshInterval", "monitor.statsTimeout", "monitor.retries",
                       "clusterStats.monitorType", "metrics.path"}
      PROVE  cfg[k] = Default(k)
  <2>1. k \in DurationKeys \union IntKeys \union StringKeys BY SMT DEF DurationKeys, IntKeys, StringKeys
  <2>2. k \in Keys \ BoolKeys BY <2>1, PlainKeys, Zenon DEF Plain
  <2>3. FieldOf(k) = "none" BY Fields, Zenon
  <2>4. FieldOf(k) \notin DOMAIN src BY <2>3, FieldTypes, Zenon
  <2> QED BY <2>2, <2>4, DefaultKey, Zenon
<1> QED BY <1>1, Defaults, SMT

(* A migrated file is accepted unless the two ports are the same.          *)
LEMMA MigratedAccepted ==
    ASSUME NEW src, JavaOK(src), NEW cfg, cfg = Booted(toOutput(Converted(src)))
    PROVE  /\ Readable(toOutput(Converted(src)))
           /\ Validate(cfg) <=> cfg["proxy.port"] # cfg["admin.port"]
<1>1. Readable(toOutput(Converted(src))) BY NumbersConverted, TextKept, Zenon
<1>2. cfg["proxy.responseSize"] > 0 BY MigratedSize, Zenon
<1>3. cfg["db.driver"] \in {Blank, "postgres", "mysql"} BY MigratedDatabase, Zenon
<1>4. cfg["routing.type"] = "EXTERNAL" BY MigratedRouting, Zenon
<1>5. cfg["auth.type"] = "OIDC" => cfg["auth.oidc.jwksUrl"] # Blank
  <2>1. "NOOP" # "OIDC" BY SMT
  <2> QED BY <2>1, MigratedAuth, Zenon
<1>6. cfg["auth.type"] # "LDAP"
  <2>1. "NOOP" # "LDAP" /\ "OIDC" # "LDAP" BY SMT
  <2> QED BY <2>1, MigratedAuth, Zenon
<1>7. cfg["metrics.path"] # "metrics"
  <2>1. "/metrics" # "metrics" BY SMT
  <2> QED BY <2>1, MigratedRest, Zenon
<1>8. validateClusterStats(cfg)
  <2>1. cfg["clusterStats.monitorType"] = "INFO_API" BY MigratedRest, Zenon
  <2>2. cfg["monitor.statsTimeout"] >= 0 /\ cfg["monitor.refreshInterval"] >= 0 /\ cfg["monitor.retries"] >= 0
    BY MigratedRest, SMT
  <2> QED BY <2>1, <2>2, Zenon DEF validateClusterStats
<1> QED BY <1>1, <1>2, <1>3, <1>4, <1>5, <1>6, <1>7, <1>8, Zenon DEF Validate

(* Every legacy field is reported, or the gateway runs with what it says.  *)
LEMMA MigratedSays ==
    ASSUME NEW src, JavaOK(src), NEW cfg, cfg = Booted(toOutput(Converted(src))),
           NEW f \in DOMAIN src, f \notin Unreported(src), f \notin Warned(src)
    PROVE  CarriesOver(src, cfg, f)
<1>1. f \in Numbers \union Texts \union Ignored \union {"jdbcUrl", "redirectUrl", "defaultType", "useApi"}
  BY Zenon DEF JavaOK
<1>2. f \notin Ignored BY Zenon DEF Warned
<1>3. f \notin {"useApi", "redirectUrl", "defaultType"} BY Zenon DEF Warned, Unreported
<1>4. CASE f \in {"proxyPort", "adminPort", "defaultRoutingGroup", "externalUrl"}
  <2>1. ASSUME NEW k \in Keys, FieldOf(k) = f PROVE cfg[k] = src[f]
    <3>1. k \in CopyKeys /\ k \notin OIDCKeys
      BY <1>4, <2>1, KeysOf, SMT DEF CopyKeys, OIDCKeys
    <3> QED BY <2>1, <3>1, CopiedKey, Zenon
  <2>2. Copied(src, cfg, f, Keys) BY <2>1, Zenon DEF Copied
  <2> QED BY <1>4, <2>2, SMT DEF CarriesOver
<1>5. CASE f = "requestBufferSize"
  <2>1. cfg["proxy.responseSize"] = src[f] \/ src[f] < 0 BY <1>5, MigratedSize, Zenon
  <2> QED BY <1>5, <2>1, SMT DEF CarriesOver
<1>6. CASE f = "jdbcUrl"
  <2>1. src[f] \in {cfg["db.dsn"], <<"jdbc:">> \o cfg["db.dsn"]} BY <1>6, MigratedDatabase, Zenon
  <2> QED BY <1>6, <2>1, SMT DEF CarriesOver
<1>7. CASE f = "driver"
  <2>1. detectDriver(src[f]) # Blank BY <1>7, Zenon DEF Warned
  <2>2. cfg["db.driver"] # Blank BY <1>7, <2>1, MigratedDatabase, Zenon
  <2> QED BY <1>7, <2>2, SMT DEF CarriesOver
<1>8. CASE f = "rulesType"
  <2>1. src[f] = "EXTERNAL" BY <1>8, Zenon DEF Warned
  <2>2. src[f] = cfg["routing.type"] BY <2>1, MigratedRouting, Zenon
  <2> QED BY <1>8, <2>2, SMT DEF CarriesOver
<1>9. CASE f = "healthCheckInterval"
  <2>1. WholeSeconds(cfg["monitor.interval"], src[f]) BY <1>9, MigratedInterval, Zenon
  <2> QED BY <1>9, <2>1, SMT DEF CarriesOver
<1>10. CASE f \in {"jwkUrl", "issuer", "clientId", "clientSecret"}
  <2>1. "jwkUrl" \in DOMAIN src
    <3>1. CASE f = "jwkUrl" BY <3>1, Zenon
    <3>2. CASE f \in {"issuer", "clientId", "clientSecret"} BY <3>2, Zenon DEF Unreported
    <3> QED BY <1>10, <3>1, <3>2, Zenon
  <2>2. cfg["auth.type"] = "OIDC" BY <2>1, MigratedAuth, Zenon
  <2>3. ASSUME NEW k \in OIDCKeys, FieldOf(k) = f PROVE cfg[k] = src[f]
    BY <2>1, <2>3, MigratedAuth, Zenon
  <2>4. Copied(src, cfg, f, OIDCKeys) BY <2>3, Zenon DEF Copied
  <2> QED BY <1>10, <2>2, <2>4, SMT DEF CarriesOver
<1>11. f \in {"proxyPort", "adminPort", "defaultRoutingGroup", "externalUrl", "requestBufferSize", "jdbcUrl",
              "driver", "rulesType", "healthCheckInterval", "jwkUrl", "issuer", "clientId", "clientSecret"}
  BY <1>1, <1>2, <1>3, SMT DEF Numbers, Texts
<1> QED BY <1>4, <1>5, <1>6, <1>7, <1>8, <1>9, <1>10, <1>11, SMT

(* What Load returns, field by field.                                      *)
LEMMA LoadResult ==
    ASSUME NEW f
    PROVE  /\ LoadOf(f).ok <=> Readable(f) /\ Validate(Booted(f))
           /\ LoadOf(f).ok => LoadOf(f).cfg = Booted(f)
<1>1. CASE Readable(f) /\ Validate(Booted(f))
  <2>1. LoadOf(f) = [ok |-> TRUE, cfg |-> Booted(f)] BY <1>1, Zenon DEF LoadOf
  <2> QED BY <1>1, <2>1
<1>2. CASE ~(Readable(f) /\ Validate(Booted(f)))
  <2>1. LoadOf(f) = [ok |-> FALSE] BY <1>2, Zenon DEF LoadOf
  <2>2. ~LoadOf(f).ok BY <2>1
  <2> QED BY <1>2, <2>2, Zenon
<1> QED BY <1>1, <1>2, Zenon

(* A file that has been migrated is the conversion of the legacy file, any *)
(* other was written by hand; and what was loaded is Load of the file that *)
(* is still there.                                                         *)
ConfigInv ==
    /\ java = None \/ (java \in JavaFiles /\ file = toOutput(Converted(java)) /\ warnings = Warned(java))
    /\ java = None => file = None \/ file \in HandWritten
    /\ loaded # None => file # None /\ loaded = LoadOf(file)

LEMMA ConfigStart == ConfigInit => ConfigInv
BY Zenon DEF ConfigInit, ConfigInv

LEMMA ConfigStep ==
    ASSUME ConfigConstants, ConfigInv, [ConfigNext]_configVars
    PROVE  ConfigInv'
<1>1. ASSUME NEW src \in JavaFiles, MigrateConfig(src) PROVE ConfigInv'
  <2>1. src # None BY Zenon DEF ConfigConstants
  <2>2. loaded = None BY <1>1, Zenon DEF MigrateConfig, ConfigInv
  <2> QED BY <1>1, <2>1, <2>2, Zenon DEF MigrateConfig, ConfigInv
<1>2. ASSUME NEW f \in HandWritten, Write(f) PROVE ConfigInv'
  <2>1. java = None
    <3>1. \A src \in JavaFiles : None # toOutput(Converted(src)) BY Zenon DEF ConfigConstants
    <3> QED BY <1>2, <3>1, Zenon DEF Write, ConfigInv
  <2>2. loaded = None BY <1>2, Zenon DEF Write, ConfigInv
  <2> QED BY <1>2, <2>1, <2>2, Zenon DEF Write, ConfigInv
<1>3. ASSUME Load PROVE ConfigInv'
  <2>1. loaded' = LoadOf(file) BY <1>3, Zenon DEF Load, LoadOf, Booted
  <2> QED BY <1>3, <2>1, Zenon DEF Load, ConfigInv, LoadOf, Booted
<1>4. CASE UNCHANGED configVars BY <1>4, Zenon DEF configVars, ConfigInv, LoadOf, Booted
<1> QED BY <1>1, <1>2, <1>3, <1>4, Zenon DEF ConfigNext

(* What a loaded configuration owes to its file follows from that.         *)
LEMMA ConfigSound ==
    ASSUME ConfigConstants, ConfigInv
    PROVE  ConfigAsWritten
<1> SUFFICES ASSUME loaded # None PROVE LoadedAsStated /\ (java # None => MigratedAsSaid)
  BY Zenon DEF ConfigAsWritten
<1>1. loaded = LoadOf(file) /\ file # None BY Zenon DEF ConfigInv
<1>2. DOMAIN file \subseteq Keys
  <2>1. CASE java = None BY <1>1, <2>1, Zenon DEF ConfigInv, ConfigConstants
  <2>2. CASE java # None
    <3>1. file = toOutput(Converted(java)) BY <2>2, Zenon DEF ConfigInv
    <3> QED BY <3>1 DEF toOutput, Stated
  <2> QED BY <2>1, <2>2, Zenon
<1>3. LoadedAsStated
  <2> SUFFICES ASSUME loaded.ok, NEW k \in DOMAIN file
               PROVE  \/ loaded.cfg[k] = UnmarshalYAML(file)[k]
                      \/ UnmarshalYAML(file)[k] = ZeroOf(k) /\ loaded.cfg[k] = Default(k)
    BY Zenon DEF LoadedAsStated
  <2>1. loaded.cfg = Booted(file) BY <1>1, LoadResult, Zenon
  <2> QED BY <1>2, <2>1, BootedKey, Zenon
<1>4. ASSUME java # None PROVE MigratedAsSaid
  <2>1. file = toOutput(Converted(java)) /\ warnings = Warned(java) /\ JavaOK(java)
    BY <1>4, Zenon DEF ConfigInv, ConfigConstants
  <2>2. PICK cfg : cfg = Booted(toOutput(Converted(java))) OBVIOUS
  <2>3. loaded.ok <=> cfg["proxy.port"] # cfg["admin.port"]
    BY <1>1, <2>1, <2>2, MigratedAccepted, LoadResult, Zenon
  <2>4. loaded.ok => loaded.cfg = cfg BY <1>1, <2>1, <2>2, LoadResult, Zenon
  <2>5. /\ cfg["proxy.port"] = IF "proxyPort" \in DOMAIN java THEN java["proxyPort"] ELSE 8080
        /\ cfg["admin.port"] = IF "adminPort" \in DOMAIN java THEN java["adminPort"] ELSE 8090
    BY <2>1, <2>2, MigratedPorts, SMT
  <2>6. ASSUME loaded.ok, NEW f \in DOMAIN java \ Unreported(java)
        PROVE  f \in warnings \/ CarriesOver(java, loaded.cfg, f)
    BY <2>1, <2>2, <2>4, <2>6, MigratedSays, Zenon
  <2> QED BY <2>3, <2>5, <2>6 DEF MigratedAsSaid
<1> QED BY <1>3, <1>4, Zenon

(* A gateway boots on what its configuration file says, explicit zeros     *)
(* apart, and a migrated one on what the legacy file said, every field it  *)
(* does not run with being reported: for every set of legacy and of        *)
(* hand-written files.  (config.Load and goway-migrate-config.)            *)
THEOREM ConfigsAsWritten ==
    ASSUME ConfigConstants
    PROVE  ConfigSpec => []ConfigAsWritten
<1>1. ConfigInv /\ [ConfigNext]_configVars => ConfigInv' BY ConfigStep, Zenon
<1>2. ConfigInv => ConfigAsWritten BY ConfigSound, Zenon
<1> QED BY <1>1, <1>2, ConfigStart, PTL DEF ConfigSpec

-----------------------------------------------------------------------------
(* The schema migration, for every set of replicas and of migrations.      *)
(* The advisory lock makes provider.Up a critical section (LockInv);       *)
(* inside it the list read at the start stays the list of what is          *)
(* unrecorded (ListInv).  AppliedOnce, ServesWholeSchema and the           *)
(* refinement of SchemaUpgrade follow.                                     *)

(* From acquireMigrateLock to release the session of the replica holds the  *)
(* lock.                                                                    *)
LockInv == \A r \in Replicas : bootPc[r] \in Critical => lockHolder = r

(* What provider.Up read at its start is still what is missing, and a       *)
(* replica that is through misses nothing.                                  *)
ListInv ==
    /\ \A r \in Replicas :
           /\ bootPc[r] \in {"applying", "recording"} => pending[r] = Unrecorded
           /\ bootPc[r] = "done" => Unrecorded = {}
    /\ AppliedOnce
    /\ ServesWholeSchema

-----------------------------------------------------------------------------

(* The initial state of a database no replica has booted against is typed.  *)
LEMMA MigrationTypeInit == MigrationInit => MigrationTypeOK
BY MigrationConstants DEF MigrationInit, MigrationTypeOK, BootPcs

(* Every step of a replica or of the database keeps the types.              *)
LEMMA MigrationTypeStep ==
    MigrationTypeOK /\ [MigrationNext]_migrationVars => MigrationTypeOK'
<1> SUFFICES ASSUME MigrationTypeOK, [MigrationNext]_migrationVars
             PROVE  MigrationTypeOK'
  OBVIOUS
<1> USE MigrationConstants DEF MigrationTypeOK, BootPcs
<1>1. ASSUME NEW r \in Replicas, Open(r) PROVE MigrationTypeOK'
  BY <1>1 DEF Open
<1>2. ASSUME NEW r \in Replicas, AcquireLock(r) PROVE MigrationTypeOK'
  BY <1>2 DEF AcquireLock
<1>3. ASSUME NEW r \in Replicas, ListPending(r) PROVE MigrationTypeOK'
  BY <1>3 DEF ListPending, Unrecorded
<1>4. ASSUME NEW r \in Replicas, NEW v \in Versions, Apply(r, v)
      PROVE  MigrationTypeOK'
  <2>1. CASE v \in effects \ Repeatable
    BY <1>4, <2>1, Zenon DEF Apply
  <2>2. CASE v \notin effects \ Repeatable /\ driver = "postgres"
    <3>1. /\ records' = [records EXCEPT ![v] = records[v] + 1]
          /\ pending' = [pending EXCEPT ![r] = pending[r] \ {v}]
          /\ effects' = effects \cup {v}
          /\ UNCHANGED <<driver, bootPc, lockHolder, faults>>
      BY <1>4, <2>2 DEF Apply
    <3>2. records' \in [Versions -> Nat]
      BY <3>1
    <3>3. pending[r] \ {v} \in SUBSET Versions
      OBVIOUS
    <3>4. pending' \in [Replicas -> SUBSET Versions]
      BY <3>1, <3>3, Zenon
    <3> QED BY <3>1, <3>2, <3>4
  <2>3. CASE v \notin effects \ Repeatable /\ driver # "postgres"
    BY <1>4, <2>3, Zenon DEF Apply
  <2> QED BY <2>1, <2>2, <2>3
<1>5. ASSUME NEW r \in Replicas, NEW v \in Versions, Record(r, v)
      PROVE  MigrationTypeOK'
  BY <1>5 DEF Record
<1>6. ASSUME NEW r \in Replicas, Applied(r) PROVE MigrationTypeOK'
  BY <1>6 DEF Applied
<1>7. ASSUME NEW r \in Replicas, Release(r) PROVE MigrationTypeOK'
  BY <1>7 DEF Release
<1>8. ASSUME NEW r \in Replicas, Restart(r) PROVE MigrationTypeOK'
  BY <1>8 DEF Restart
<1>9. ASSUME NEW r \in Replicas, LockTimeout(r) PROVE MigrationTypeOK'
  BY <1>9 DEF LockTimeout
<1>10. ASSUME NEW r \in Replicas, OpenFails(r) PROVE MigrationTypeOK'
  BY <1>10 DEF OpenFails, Fault
<1>11. ASSUME NEW r \in Replicas, UpFails(r) PROVE MigrationTypeOK'
  BY <1>11 DEF UpFails, Fault
<1>12. ASSUME NEW r \in Replicas, Crash(r) PROVE MigrationTypeOK'
  BY <1>12 DEF Crash, Fault
<1>13. CASE SessionEnds BY <1>13 DEF SessionEnds
<1>14. CASE UNCHANGED migrationVars BY <1>14 DEF migrationVars
<1> QED
  BY <1>1, <1>2, <1>3, <1>4, <1>5, <1>6, <1>7, <1>8, <1>9, <1>10, <1>11,
     <1>12, <1>13, <1>14, Zenon
  DEF MigrationNext, BootStep

-----------------------------------------------------------------------------

(* No replica enters the critical section but by taking a free lock, and    *)
(* none leaves the lock to another before it is out.                        *)
LEMMA LockStep ==
    MigrationTypeOK /\ LockInv /\ [MigrationNext]_migrationVars => LockInv'
<1> SUFFICES ASSUME MigrationTypeOK, LockInv, [MigrationNext]_migrationVars,
                    NEW q \in Replicas, bootPc'[q] \in Critical
             PROVE  lockHolder' = q
  BY DEF LockInv
<1> USE MigrationConstants DEF MigrationTypeOK, LockInv, Critical
<1>1. ASSUME NEW r \in Replicas, Open(r) PROVE lockHolder' = q
  BY <1>1 DEF Open
<1>2. ASSUME NEW r \in Replicas, AcquireLock(r) PROVE lockHolder' = q
  BY <1>2 DEF AcquireLock
<1>3. ASSUME NEW r \in Replicas, ListPending(r) PROVE lockHolder' = q
  BY <1>3 DEF ListPending
<1>4. ASSUME NEW r \in Replicas, NEW v \in Versions, Apply(r, v)
      PROVE  lockHolder' = q
  <2>1. bootPc[r] = "applying" /\ lockHolder' = lockHolder
    BY <1>4 DEF Apply
  <2>2. bootPc'[q] = bootPc[q] \/ q = r
    BY <1>4 DEF Apply
  <2> QED BY <2>1, <2>2
<1>5. ASSUME NEW r \in Replicas, NEW v \in Versions, Record(r, v)
      PROVE  lockHolder' = q
  BY <1>5 DEF Record
<1>6. ASSUME NEW r \in Replicas, Applied(r) PROVE lockHolder' = q
  BY <1>6 DEF Applied
<1>7. ASSUME NEW r \in Replicas, Release(r) PROVE lockHolder' = q
  BY <1>7 DEF Release
<1>8. ASSUME NEW r \in Replicas, Restart(r) PROVE lockHolder' = q
  BY <1>8 DEF Restart
<1>9. ASSUME NEW r \in Replicas, LockTimeout(r) PROVE lockHolder' = q
  BY <1>9 DEF LockTimeout
<1>10. ASSUME NEW r \in Replicas, OpenFails(r) PROVE lockHolder' = q
  BY <1>10 DEF OpenFails
<1>11. ASSUME NEW r \in Replicas, UpFails(r) PROVE lockHolder' = q
  BY <1>11 DEF UpFails
<1>12. ASSUME NEW r \in Replicas, Crash(r) PROVE lockHolder' = q
  BY <1>12 DEF Crash
<1>13. CASE SessionEnds BY <1>13 DEF SessionEnds
<1>14. CASE UNCHANGED migrationVars BY <1>14 DEF migrationVars
<1> QED
  BY <1>1, <1>2, <1>3, <1>4, <1>5, <1>6, <1>7, <1>8, <1>9, <1>10, <1>11,
     <1>12, <1>13, <1>14, Zenon
  DEF MigrationNext, BootStep

-----------------------------------------------------------------------------

(* A step that writes a version row: Postgres's transaction and MySQL's     *)
(* second statement look the same from the version table.                   *)
Registers(r, v) ==
    /\ bootPc[r] \in {"applying", "recording"}
    /\ Lowest(v, pending[r])
    /\ records' = [records EXCEPT ![v] = records[v] + 1]
    /\ pending' = [pending EXCEPT ![r] = pending[r] \ {v}]
    /\ bootPc' = [bootPc EXCEPT ![r] = "applying"]
    /\ UNCHANGED lockHolder

(* goose's step on a migration writes its row, or no row at all.            *)
LEMMA ApplyRegisters ==
    ASSUME MigrationTypeOK, NEW r \in Replicas, NEW v \in Versions, Apply(r, v)
    PROVE  \/ Registers(r, v)
           \/ /\ bootPc[r] = "applying"
              /\ \/ bootPc' = [bootPc EXCEPT ![r] = "giveup"]
                 \/ bootPc' = [bootPc EXCEPT ![r] = "recording"]
              /\ UNCHANGED <<records, pending, lockHolder>>
<1> USE DEF MigrationTypeOK
<1>1. CASE v \in effects \ Repeatable
  BY <1>1 DEF Apply
<1>2. CASE v \notin effects \ Repeatable /\ driver = "postgres"
  <2>1. /\ records' = [records EXCEPT ![v] = records[v] + 1]
        /\ pending' = [pending EXCEPT ![r] = pending[r] \ {v}]
        /\ UNCHANGED <<bootPc, lockHolder>>
        /\ bootPc[r] = "applying"
        /\ Lowest(v, pending[r])
    BY <1>2 DEF Apply
  <2>2. bootPc' = [bootPc EXCEPT ![r] = "applying"]
    BY <2>1
  <2> QED BY <2>1, <2>2 DEF Registers
<1>3. CASE v \notin effects \ Repeatable /\ driver # "postgres"
  BY <1>3 DEF Apply
<1> QED BY <1>1, <1>2, <1>3

(* The row written is the lowest one missing, and it was missing.           *)
LEMMA RegistersLowest ==
    ASSUME MigrationTypeOK, ListInv,
           NEW r \in Replicas, NEW v \in Versions, Registers(r, v)
    PROVE  /\ pending[r] = Unrecorded
           /\ v \in Unrecorded
           /\ \A w \in Unrecorded : v <= w
           /\ records[v] = 0
           /\ records'[v] = 1
           /\ \A w \in Versions : w # v => records'[w] = records[w]
           /\ Unrecorded' = Unrecorded \ {v}
           /\ pending'[r] = Unrecorded'
<1>1. pending[r] = Unrecorded
  BY DEF Registers, ListInv
<1>2. v \in Unrecorded /\ \A w \in Unrecorded : v <= w
  BY <1>1 DEF Registers, Lowest
<1>3. records[v] = 0
  BY <1>2 DEF Unrecorded
<1>4. records'[v] = 1 /\ \A w \in Versions : w # v => records'[w] = records[w]
  BY <1>3 DEF Registers, MigrationTypeOK
<1>5. Unrecorded' = Unrecorded \ {v}
  BY <1>4 DEF Unrecorded
<1>6. pending'[r] = pending[r] \ {v}
  BY DEF Registers, MigrationTypeOK
<1> QED BY <1>1, <1>2, <1>3, <1>4, <1>5, <1>6

(* A step that moves one replica and writes no row keeps the list if the    *)
(* place it moves to asks no more than the place it leaves.                 *)
LEMMA QuietStep ==
    ASSUME MigrationTypeOK, ListInv, UNCHANGED <<records, pending>>,
           NEW r \in Replicas, NEW to, bootPc' = [bootPc EXCEPT ![r] = to],
           \/ to \notin {"applying", "recording", "done", "up"}
           \/ to = "recording" /\ bootPc[r] = "applying"
           \/ to = "done" /\ bootPc[r] = "applying" /\ pending[r] = {}
           \/ to = "up" /\ (r \notin AutoMigrate \/ bootPc[r] = "done")
    PROVE  ListInv'
<1>1. Unrecorded' = Unrecorded
  BY DEF Unrecorded
<1>2. AppliedOnce'
  BY DEF ListInv, AppliedOnce
<1>3. \A q \in Replicas : q # r => bootPc'[q] = bootPc[q]
  BY DEF MigrationTypeOK
<1>4. bootPc'[r] = to
  BY DEF MigrationTypeOK
<1>5. ServesWholeSchema'
  BY <1>1, <1>3, <1>4, MigrationConstants DEF ListInv, ServesWholeSchema
<1>6. ASSUME NEW q \in Replicas
      PROVE  /\ bootPc'[q] \in {"applying", "recording"}
                  => pending'[q] = Unrecorded'
             /\ bootPc'[q] = "done" => Unrecorded' = {}
  BY <1>1, <1>3, <1>4 DEF ListInv
<1> QED BY <1>2, <1>5, <1>6 DEF ListInv

(* A row written keeps the list: it is struck from the writer's, and the    *)
(* lock keeps every other replica out.                                      *)
LEMMA RegistersStep ==
    ASSUME MigrationTypeOK, LockInv, ListInv,
           NEW r \in Replicas, NEW v \in Versions, Registers(r, v)
    PROVE  ListInv'
<1>1. /\ v \in Unrecorded
      /\ records'[v] = 1
      /\ \A w \in Versions : w # v => records'[w] = records[w]
      /\ Unrecorded' = Unrecorded \ {v}
      /\ pending'[r] = Unrecorded'
  BY RegistersLowest
<1>2. AppliedOnce'
  BY <1>1 DEF ListInv, AppliedOnce
<1>3. /\ \A q \in Replicas : q # r => bootPc'[q] = bootPc[q]
      /\ bootPc'[r] = "applying"
  BY DEF Registers, MigrationTypeOK
<1>4. ServesWholeSchema'
  BY <1>1, <1>3, MigrationConstants DEF ListInv, ServesWholeSchema
<1>5. \A q \in Replicas : q # r => bootPc[q] \notin Critical
  BY DEF LockInv, Registers, Critical
<1>6. ASSUME NEW q \in Replicas
      PROVE  /\ bootPc'[q] \in {"applying", "recording"}
                  => pending'[q] = Unrecorded'
             /\ bootPc'[q] = "done" => Unrecorded' = {}
  BY <1>1, <1>3, <1>5 DEF Critical
<1> QED BY <1>2, <1>4, <1>6 DEF ListInv

(* provider.Up reads the list itself.                                       *)
LEMMA ListPendingStep ==
    ASSUME MigrationTypeOK, ListInv, NEW r \in Replicas, ListPending(r)
    PROVE  ListInv'
<1>1. Unrecorded' = Unrecorded
  BY DEF ListPending, Unrecorded
<1>2. AppliedOnce'
  BY DEF ListInv, AppliedOnce, ListPending
<1>3. /\ \A q \in Replicas :
            q # r => bootPc'[q] = bootPc[q] /\ pending'[q] = pending[q]
      /\ bootPc'[r] = "applying"
      /\ pending'[r] = Unrecorded
  BY DEF ListPending, MigrationTypeOK
<1>4. ServesWholeSchema'
  BY <1>1, <1>3, MigrationConstants DEF ListInv, ServesWholeSchema
<1>5. ASSUME NEW q \in Replicas
      PROVE  /\ bootPc'[q] \in {"applying", "recording"}
                  => pending'[q] = Unrecorded'
             /\ bootPc'[q] = "done" => Unrecorded' = {}
  BY <1>1, <1>3 DEF ListInv
<1> QED BY <1>2, <1>4, <1>5 DEF ListInv

(* Every step keeps the lists of the replicas in step with the table.       *)
LEMMA ListStep ==
    /\ MigrationTypeOK /\ LockInv /\ ListInv
    /\ [MigrationNext]_migrationVars
    => ListInv'
<1> SUFFICES ASSUME MigrationTypeOK, LockInv, ListInv,
                    [MigrationNext]_migrationVars
             PROVE  ListInv'
  OBVIOUS
<1>1. ASSUME NEW r \in Replicas, Open(r) PROVE ListInv'
  <2>1. CASE r \in AutoMigrate
    <3>1. bootPc' = [bootPc EXCEPT ![r] = "waiting"]
      BY <1>1, <2>1 DEF Open
    <3> QED BY <1>1, <3>1, QuietStep, Zenon DEF Open
  <2>2. CASE r \notin AutoMigrate
    <3>1. bootPc' = [bootPc EXCEPT ![r] = "up"]
      BY <1>1, <2>2 DEF Open
    <3> QED BY <1>1, <2>2, <3>1, QuietStep, Zenon DEF Open
  <2> QED BY <2>1, <2>2
<1>2. ASSUME NEW r \in Replicas, AcquireLock(r) PROVE ListInv'
  BY <1>2, QuietStep, Zenon DEF AcquireLock
<1>3. ASSUME NEW r \in Replicas, ListPending(r) PROVE ListInv'
  BY <1>3, ListPendingStep
<1>4. ASSUME NEW r \in Replicas, NEW v \in Versions, Apply(r, v) PROVE ListInv'
  <2>1. CASE Registers(r, v)
    BY <2>1, RegistersStep
  <2>2. CASE ~Registers(r, v)
    <3>1. /\ bootPc[r] = "applying"
          /\ \/ bootPc' = [bootPc EXCEPT ![r] = "giveup"]
             \/ bootPc' = [bootPc EXCEPT ![r] = "recording"]
          /\ UNCHANGED <<records, pending>>
      BY <1>4, <2>2, ApplyRegisters
    <3> QED BY <3>1, QuietStep, Zenon
  <2> QED BY <2>1, <2>2
<1>5. ASSUME NEW r \in Replicas, NEW v \in Versions, Record(r, v) PROVE ListInv'
  <2>1. Registers(r, v)
    BY <1>5 DEF Record, Registers
  <2> QED BY <2>1, RegistersStep
<1>6. ASSUME NEW r \in Replicas, Applied(r) PROVE ListInv'
  BY <1>6, QuietStep, Zenon DEF Applied
<1>7. ASSUME NEW r \in Replicas, Release(r) PROVE ListInv'
  <2>1. CASE bootPc[r] = "done"
    <3>1. bootPc' = [bootPc EXCEPT ![r] = "up"]
      BY <1>7, <2>1 DEF Release
    <3> QED BY <1>7, <2>1, <3>1, QuietStep, Zenon DEF Release
  <2>2. CASE bootPc[r] # "done"
    <3>1. bootPc' = [bootPc EXCEPT ![r] = "failed"]
      BY <1>7, <2>2 DEF Release
    <3> QED BY <1>7, <3>1, QuietStep, Zenon DEF Release
  <2> QED BY <2>1, <2>2
<1>8. ASSUME NEW r \in Replicas, Restart(r) PROVE ListInv'
  BY <1>8, QuietStep, Zenon DEF Restart
<1>9. ASSUME NEW r \in Replicas, LockTimeout(r) PROVE ListInv'
  BY <1>9, QuietStep, Zenon DEF LockTimeout
<1>10. ASSUME NEW r \in Replicas, OpenFails(r) PROVE ListInv'
  BY <1>10, QuietStep, Zenon DEF OpenFails
<1>11. ASSUME NEW r \in Replicas, UpFails(r) PROVE ListInv'
  BY <1>11, QuietStep, Zenon DEF UpFails
<1>12. ASSUME NEW r \in Replicas, Crash(r) PROVE ListInv'
  BY <1>12, QuietStep, Zenon DEF Crash
<1>13. CASE UNCHANGED <<bootPc, records, pending>>
  <2>1. Unrecorded' = Unrecorded
    BY <1>13 DEF Unrecorded
  <2> QED BY <1>13, <2>1 DEF ListInv, AppliedOnce, ServesWholeSchema
<1>14. CASE SessionEnds BY <1>13, <1>14 DEF SessionEnds
<1>15. CASE UNCHANGED migrationVars BY <1>13, <1>15 DEF migrationVars
<1> QED
  BY <1>1, <1>2, <1>3, <1>4, <1>5, <1>6, <1>7, <1>8, <1>9, <1>10, <1>11,
     <1>12, <1>14, <1>15
  DEF MigrationNext, BootStep

-----------------------------------------------------------------------------

(* Whatever boots, dies and boots again, every variable keeps its type.     *)
THEOREM MigrationTyped == MigrationSpec => []MigrationTypeOK
BY MigrationTypeInit, MigrationTypeStep, PTL DEF MigrationSpec

(* The lock and the lists hold in every reachable state.                    *)
THEOREM MigrationInvariant ==
    MigrationSpec => [](MigrationTypeOK /\ LockInv /\ ListInv)
<1>1. MigrationInit => LockInv
  BY DEF MigrationInit, LockInv, Critical
<1>2. MigrationInit => ListInv
  BY MigrationConstants DEF MigrationInit, ListInv, AppliedOnce, ServesWholeSchema
<1> QED
  BY <1>1, <1>2, MigrationTyped, LockStep, ListStep, PTL DEF MigrationSpec

(* MigrateUp is mutual exclusion: of the replicas between                   *)
(* acquireMigrateLock and release there is at most one.                     *)
THEOREM OneMigrator ==
    MigrationSpec => [](\A p, q \in Replicas :
        bootPc[p] \in Critical /\ bootPc[q] \in Critical => p = q)
<1>1. LockInv => \A p, q \in Replicas :
          bootPc[p] \in Critical /\ bootPc[q] \in Critical => p = q
  BY DEF LockInv
<1> QED BY <1>1, MigrationInvariant, PTL

(* goose records no migration twice, for every number of replicas, of       *)
(* migrations, of crashes and of restarts.                                  *)
THEOREM MigrationsAppliedOnce == MigrationSpec => []AppliedOnce
<1>1. ListInv => AppliedOnce
  BY DEF ListInv
<1> QED BY <1>1, MigrationInvariant, PTL

(* A replica with AutoMigrate that Open let through finds every migration   *)
(* recorded.                                                                *)
THEOREM MigrationsComplete == MigrationSpec => []ServesWholeSchema
<1>1. ListInv => ServesWholeSchema
  BY DEF ListInv
<1> QED BY <1>1, MigrationInvariant, PTL

-----------------------------------------------------------------------------

(* A row written is an upgrade of the abstract schema by its next version.  *)
LEMMA RegistersUpgrades ==
    ASSUME MigrationTypeOK, LockInv, ListInv,
           NEW r \in Replicas, NEW v \in Versions, Registers(r, v)
    PROVE  Schema!UpgradeNext
<1>1. /\ v \in Unrecorded
      /\ \A w \in Unrecorded : v <= w
      /\ Unrecorded' = Unrecorded \ {v}
  BY RegistersLowest
<1>2. lockHolder = r /\ lockHolder' = r
  BY DEF Registers, LockInv, Critical
<1>3. lockHolder # Orphan /\ lockHolder' # Orphan
  BY <1>2, MigrationConstants
<1>4. v \notin Versions \ Unrecorded
  BY <1>1
<1>5. \A w \in Versions : w < v => w \in Versions \ Unrecorded
  BY <1>1, MigrationConstants
<1>6. (Versions \ Unrecorded)' = (Versions \ Unrecorded) \cup {v}
  BY <1>1
<1>7. Schema!Upgrade(v)
  BY <1>2, <1>3, <1>4, <1>5, <1>6 DEF Schema!Upgrade
<1> QED BY <1>7 DEF Schema!UpgradeNext

(* Every step is a step of the abstract upgrade or leaves it alone.         *)
LEMMA UpgradeStep ==
    /\ MigrationTypeOK /\ LockInv /\ ListInv
    /\ [MigrationNext]_migrationVars
    => [Schema!UpgradeNext]_(Schema!upgradeVars)
<1> SUFFICES ASSUME MigrationTypeOK, LockInv, ListInv,
                    [MigrationNext]_migrationVars
             PROVE  [Schema!UpgradeNext]_(Schema!upgradeVars)
  OBVIOUS
<1>1. CASE UNCHANGED <<records, lockHolder>>
  BY <1>1 DEF Schema!upgradeVars, Unrecorded
<1>2. CASE /\ UNCHANGED records
           /\ lockHolder \in Replicas
           /\ lockHolder' \in {NoSession, Orphan}
  <2>1. Unrecorded' = Unrecorded
    BY <1>2 DEF Unrecorded
  <2>2. Schema!EndUpgrade
    BY <1>2, <2>1, MigrationConstants DEF Schema!EndUpgrade
  <2> QED BY <2>2 DEF Schema!UpgradeNext
<1>3. ASSUME NEW r \in Replicas, AcquireLock(r)
      PROVE  [Schema!UpgradeNext]_(Schema!upgradeVars)
  <2>1. Unrecorded' = Unrecorded
    BY <1>3 DEF AcquireLock, Unrecorded
  <2>2. Schema!BeginUpgrade(r)
    BY <1>3, <2>1, MigrationConstants DEF AcquireLock, Schema!BeginUpgrade
  <2> QED BY <2>2 DEF Schema!UpgradeNext
<1>4. ASSUME NEW r \in Replicas, NEW v \in Versions, Apply(r, v)
      PROVE  [Schema!UpgradeNext]_(Schema!upgradeVars)
  BY <1>1, <1>4, ApplyRegisters, RegistersUpgrades
<1>5. ASSUME NEW r \in Replicas, NEW v \in Versions, Record(r, v)
      PROVE  [Schema!UpgradeNext]_(Schema!upgradeVars)
  <2>1. Registers(r, v)
    BY <1>5 DEF Record, Registers
  <2> QED BY <2>1, RegistersUpgrades
<1>6. ASSUME NEW r \in Replicas, Release(r)
      PROVE  [Schema!UpgradeNext]_(Schema!upgradeVars)
  <2>1. lockHolder = r
    BY <1>6 DEF Release, LockInv, Critical
  <2> QED BY <1>2, <1>6, <2>1 DEF Release
<1>7. ASSUME NEW r \in Replicas, Crash(r)
      PROVE  [Schema!UpgradeNext]_(Schema!upgradeVars)
  <2>1. CASE lockHolder = r
    BY <1>2, <1>7, <2>1 DEF Crash
  <2>2. CASE lockHolder # r
    BY <1>1, <1>7, <2>2 DEF Crash
  <2> QED BY <2>1, <2>2
<1>8. CASE SessionEnds
  <2>1. Unrecorded' = Unrecorded
    BY <1>8 DEF SessionEnds, Unrecorded
  <2> QED BY <1>8, <2>1, MigrationConstants DEF SessionEnds, Schema!upgradeVars
<1>9. ASSUME NEW r \in Replicas,
             \/ Open(r) \/ ListPending(r) \/ Applied(r) \/ Restart(r)
             \/ LockTimeout(r) \/ OpenFails(r) \/ UpFails(r)
      PROVE  [Schema!UpgradeNext]_(Schema!upgradeVars)
  <2>1. UNCHANGED <<records, lockHolder>>
    BY <1>9 DEF Open, ListPending, Applied, Restart, LockTimeout, OpenFails,
                UpFails
  <2> QED BY <1>1, <2>1
<1>10. CASE UNCHANGED migrationVars BY <1>1, <1>10 DEF migrationVars
<1> QED
  BY <1>3, <1>4, <1>5, <1>6, <1>7, <1>8, <1>9, <1>10
  DEF MigrationNext, BootStep

(* The replicas' provider.Up calls, whatever dies between two statements,   *)
(* implement one upgrade, version after version, under one replica at a     *)
(* time.                                                                    *)
THEOREM MigrationRefines == MigrationSpec => UpgradesInOrder
<1>1. MigrationInit => Schema!UpgradeInit
  <2> SUFFICES ASSUME MigrationInit PROVE Schema!UpgradeInit
    OBVIOUS
  <2>1. Unrecorded = Versions
    BY DEF MigrationInit, Unrecorded
  <2> QED BY <2>1, MigrationConstants DEF MigrationInit, Schema!UpgradeInit
<1> QED
  BY <1>1, UpgradeStep, MigrationInvariant, PTL
  DEF MigrationSpec, UpgradesInOrder, Schema!UpgradeSpec
=============================================================================
