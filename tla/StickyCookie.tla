---------------------------- MODULE StickyCookie ----------------------------
(***************************************************************************)
(* The signed TG.OAUTH2 cookie of the proxy (internal/proxy/cookie.go): it  *)
(* is issued on /oauth2 paths, checked on every later response of the       *)
(* client, and dropped when it is too old or on a logout path.  The gateway *)
(* may restart with another secret, another wire format or another TTL      *)
(* while clients keep the cookies they have.  Time is in seconds; a         *)
(* signature is the secret that made it, and the base64 text is its         *)
(* alphabet (padded or raw) with whether this payload needs padding.        *)
(***************************************************************************)
EXTENDS Naturals

CONSTANTS Secrets,    \* cookie secrets the gateway may be configured with
          TTLs,       \* cookie lifetimes, in seconds
          Jumps,      \* how far the clock moves between requests
          MaxClock,   \* bound: the clock
          MaxBoots,   \* bound: restarts of the gateway
          None

VARIABLES cookieConf, \* [secret, wireCompat, ttl, boots]: "" is no cookie secret
          now,
          jar,        \* the client's cookie, or None
          answer      \* the last response: path, status, what it did, the cookie sent

cookieVars == <<cookieConf, now, jar, answer>>

Paths == {"/oauth2/token", "/logout", "/v1/statement"}
DeletePaths == {"/logout", "/oauth2/logout"}
----------------------------------------------------------------------------
\* The lifetime's text: hundredths of a unit, or (unit 0) an exact integer.

Units == {86400, 3600, 60, 1}

\* Mutant: whole units only.
airliftWholeUnits(d) ==
    LET u == CHOOSE u \in Units : d >= u /\ \A v \in Units : d >= v => v <= u
    IN  [num |-> 100 * (d \div u), unit |-> u]

\* The largest unit that fits, two decimals, rounded.
airliftDurationString(d) ==
    LET u == CHOOSE u \in Units : d >= u /\ \A v \in Units : d >= v => v <= u
    IN  [num |-> (200 * d + u) \div (2 * u), unit |-> u]

formatTTL(d, wireCompat) ==
    IF wireCompat THEN airliftDurationString(d) ELSE [num |-> d, unit |-> 0]

parseTTL(t) == IF t.unit = 0 THEN t.num ELSE (t.num * t.unit) \div 100
----------------------------------------------------------------------------
\* Signing, encoding and checking

\* The signature covers every field: a cookie is intact or of another secret.
sign(secret) == secret

encodeCookie(c, padded, wireCompat) ==
    [signature |-> c.signature, ts |-> c.ts, ttl |-> c.ttl, maxAge |-> c.maxAge,
     padded |-> padded, wireCompat |-> wireCompat]

\* Padded and raw base64 differ unless the payload needs no padding.
decodes(c) == c.wireCompat = cookieConf.wireCompat \/ ~c.padded

\* Mutant: the signature is recomputed over the lifetime configured now.
validateAgainstConfig(c) ==
    IF ~decodes(c) THEN "tampered"
    ELSE IF /\ c.signature = sign(cookieConf.secret)
            /\ c.ttl = formatTTL(cookieConf.ttl, cookieConf.wireCompat)
    THEN IF parseTTL(c.ttl) > 0 /\ now - c.ts > parseTTL(c.ttl) THEN "invalid" ELSE "valid"
    ELSE "tampered"

validateCookie(c) ==
    IF ~decodes(c) THEN "tampered"
    ELSE IF c.signature # sign(cookieConf.secret) THEN "tampered"
    ELSE IF parseTTL(c.ttl) > 0 /\ now - c.ts > parseTTL(c.ttl) THEN "invalid"
    ELSE "valid"
----------------------------------------------------------------------------
Answer(path, status, did) ==
    answer' = [path |-> path, status |-> status, did |-> did, sent |-> jar,
               under |-> cookieConf, at |-> now]

\* The configured lifetime is kept beside the cookie for the properties.
issueCookie(padded) ==
    jar' = encodeCookie([signature |-> sign(cookieConf.secret), ts |-> now,
                         ttl |-> formatTTL(cookieConf.ttl, cookieConf.wireCompat),
                         maxAge |-> cookieConf.ttl], padded, cookieConf.wireCompat)

\* The cookie half of a response: a bad signature or encoding fails the
\* response, an old cookie or a logout path deletes it, /oauth2 issues one.
applyCookies(path) ==
    \/ /\ cookieConf.secret = ""
       /\ Answer(path, 200, "none") /\ UNCHANGED jar
    \/ /\ cookieConf.secret # "" /\ jar # None
       /\ \/ /\ validateCookie(jar) = "tampered"
             /\ Answer(path, 500, "none") /\ UNCHANGED jar
          \/ /\ validateCookie(jar) = "invalid" \/ (validateCookie(jar) = "valid" /\ path \in DeletePaths)
             /\ Answer(path, 200, "deleted") /\ jar' = None
          \/ /\ validateCookie(jar) = "valid" /\ path \notin DeletePaths
             /\ Answer(path, 200, "none") /\ UNCHANGED jar
    \/ /\ cookieConf.secret # "" /\ jar = None
       /\ IF path = "/oauth2/token"
          THEN \E padded \in BOOLEAN : issueCookie(padded) /\ Answer(path, 200, "issued")
          ELSE Answer(path, 200, "none") /\ UNCHANGED jar

\* A response of the proxy to a client's request.
Respond(path) == applyCookies(path) /\ UNCHANGED <<cookieConf, now>>

\* No response is under way.
NoAnswer == [path |-> "/logout", status |-> 200, did |-> "none", sent |-> None,
             under |-> [secret |-> "", wireCompat |-> TRUE, ttl |-> 600, boots |-> 0], at |-> 0]

\* The gateway restarts with another configuration.
Reconfigure(secret, wireCompat, ttl) ==
    /\ cookieConf.boots < MaxBoots
    /\ cookieConf' = [secret |-> secret, wireCompat |-> wireCompat, ttl |-> ttl,
                      boots |-> cookieConf.boots + 1]
    /\ answer' = NoAnswer
    /\ UNCHANGED <<now, jar>>

Tick(d) ==
    /\ now + d <= MaxClock /\ now' = now + d
    /\ answer' = NoAnswer
    /\ UNCHANGED <<cookieConf, jar>>

\* A client drops the cookie when its Max-Age has passed; not all clients do.
ClientExpires ==
    /\ jar # None /\ now - jar.ts >= jar.maxAge
    /\ jar' = None
    /\ answer' = NoAnswer
    /\ UNCHANGED <<cookieConf, now>>

\* Before the first configuration there is no secret and no cookie.
CookieInit ==
    /\ cookieConf = [secret |-> "", wireCompat |-> TRUE, ttl |-> 600, boots |-> 0]
    /\ now = 0 /\ jar = None /\ answer = NoAnswer

CookieNext ==
    \/ \E path \in Paths : Respond(path)
    \/ \E secret \in Secrets, wireCompat \in BOOLEAN, ttl \in TTLs :
          Reconfigure(secret, wireCompat, ttl)
    \/ \E d \in Jumps : Tick(d)
    \/ ClientExpires

CookieSpec == CookieInit /\ [][CookieNext]_cookieVars

\* Lifetimes are whole seconds, one at least; the clock does not run backwards.
CookieConstants == TTLs \subseteq Nat \ {0} /\ Jumps \subseteq Nat
----------------------------------------------------------------------------
\* A response fails with 500 only for a cookie that a gateway with another secret
\* or another wire format issued: a restart that changes neither (a new TTL, say)
\* never turns the cookies its clients hold into errors.
OwnCookieAccepted ==
    answer.status = 500 =>
        \/ answer.sent.signature # answer.under.secret
        \/ answer.sent.wireCompat # answer.under.wireCompat

\* Off the logout paths a cookie is deleted only when it has outlived the TTL it
\* was issued with, and kept only while it has not, whatever the TTL configured
\* since: the two-decimal text of the TTL moves the moment by at most 1/200.
ExpiresOnTime ==
    LET age == answer.at - answer.sent.ts
        ttl == answer.sent.maxAge
    IN  /\ answer.sent # None /\ answer.status = 200 /\ answer.under.secret # ""
        /\ answer.path \notin DeletePaths
        => IF answer.did = "deleted" THEN age * 200 >= ttl * 199
                                     ELSE age * 200 <= ttl * 201
============================================================================
