----------------------------- MODULE AdminAuth -----------------------------
(***************************************************************************)
(* Who the admin API talks to (internal/auth, internal/admin/authhandlers,  *)
(* router): the middleware of each auth type, the key refresher of OIDC,    *)
(* the login of the web UI, roles, and the guard of every route.  A text a  *)
(* role's regular expression is matched with stands as a set of groups, and *)
(* the expression as the set of groups it matches ("*": everything).        *)
(* External: the identity provider, keyfunc, the directory.                 *)
(***************************************************************************)
EXTENDS SeqOps

CONSTANTS AuthConfigs,   \* [type, web, roles, pages]
          Directory,     \* Directory[u]: the groups of user u, in order
          MaxRotations,  \* bound: key changes of the identity provider
          MaxOutages,    \* bound: its failures
          MaxAttempts,   \* bound: logins a browser starts
          None

VARIABLES auth,         \* the configuration the gateway serves with, or None
          idpKey,       \* the key the identity provider publishes and signs with
          outages,
          refresher,    \* the refresher of the keys runs
          keys,         \* keys of the middleware
          webKeys,      \* keys of the web login
          attempts,     \* logins started by the browser
          stateCookie,  \* the attempt whose state and nonce the browser holds, or 0
          codes,        \* attempts the provider has authorised, code not yet used
          login         \* the last callback, or None

authVars == <<auth, idpKey, outages, refresher, keys, webKeys, attempts, stateCookie, codes, login>>
idpVars == <<idpKey, outages>>
browserVars == <<attempts, stateCookie, codes, login>>

Users == DOMAIN Directory
Roles == <<"ADMIN", "USER", "API">>
----------------------------------------------------------------------------
\* Keys

\* The provider fails to answer a request, at most MaxOutages times.
Outage == outages < MaxOutages /\ outages' = outages + 1

\* NewOIDC needs the keys to come up; keyfunc hides a failed first fetch, so the
\* web login may start without any.
StartOIDC(cfg) ==
    /\ cfg.type = "OIDC"
    /\ keys' = {idpKey} /\ refresher' = TRUE
    /\ \/ webKeys' = (IF cfg.web THEN {idpKey} ELSE {}) /\ UNCHANGED outages
       \/ cfg.web /\ webKeys' = {} /\ Outage

buildAuthMiddleware(cfg) ==
    /\ auth = None
    /\ auth' = cfg
    /\ \/ StartOIDC(cfg)
       \/ cfg.type \in {"LDAP", "NOOP"} /\ UNCHANGED <<keys, webKeys, refresher, outages>>
    /\ UNCHANGED <<idpKey, browserVars>>

\* A tick of the refresher; a fetch that fails or brings no key keeps the stored ones.
Refresh ==
    /\ refresher
    /\ keys' = {idpKey}
    /\ UNCHANGED <<auth, idpVars, refresher, webKeys, browserVars>>

\* Mutant: the refresher's loop returns on an error.
RefreshFailsReturns ==
    /\ refresher /\ Outage
    /\ refresher' = FALSE
    /\ UNCHANGED <<auth, idpKey, keys, webKeys, browserVars>>

RefreshFails ==
    /\ refresher /\ Outage
    /\ UNCHANGED <<auth, idpKey, refresher, keys, webKeys, browserVars>>

\* keyfunc fetches on its own, hourly and for an unknown key.
KeyfuncFetches ==
    /\ refresher
    /\ \/ keys' = {idpKey} /\ UNCHANGED webKeys
       \/ auth.web /\ webKeys' = {idpKey} /\ UNCHANGED keys
    /\ UNCHANGED <<auth, idpVars, refresher, browserVars>>

Rotate ==
    /\ idpKey < MaxRotations
    /\ idpKey' = idpKey + 1
    /\ UNCHANGED <<auth, outages, refresher, keys, webKeys, browserVars>>
----------------------------------------------------------------------------
\* Principals and roles

\* groupsClaim: every group of the token.  One without a subject passes too, with
\* the empty name.
OIDCHandler(cred) ==
    IF cred = None \/ keys = {} \/ cred.key \notin keys THEN None
    ELSE [name |-> IF cred.sub THEN cred.user ELSE "", groups |-> Range(Directory[cred.user])]

\* authenticate reads one value of the attribute, the first.
LDAPHandler(cred) ==
    IF cred = None \/ ~cred.found \/ ~cred.password THEN None
    ELSE [name |-> cred.user, groups |-> IF Directory[cred.user] = <<>> THEN {}
                                         ELSE {Head(Directory[cred.user])}]

Noop == [name |-> "anonymous", groups |-> {}]

\* What a request may carry, and the principal the middleware makes of it.
Credentials ==
    CASE auth.type = "OIDC" -> {None} \union [user : Users, sub : BOOLEAN, key : 0..idpKey]
      [] auth.type = "LDAP" -> {None} \union [user : Users, found : BOOLEAN, password : BOOLEAN]
      [] auth.type = "NOOP" -> {None}

FromContext(cred) ==
    CASE auth.type = "OIDC" -> OIDCHandler(cred)
      [] auth.type = "LDAP" -> LDAPHandler(cred)
      [] auth.type = "NOOP" -> Noop

\* A role without an expression is held by nobody.
HasRole(p, role) ==
    /\ p # None
    /\ "*" \in auth.roles[role] \/ p.groups \intersect auth.roles[role] # {}

\* The guard buildRouter puts before each route.
routeGuard ==
    [sso |-> "auth", callback |-> "auth", login |-> "auth", logout |-> "auth", loginType |-> "auth",
     gateway |-> "API", entity |-> "ADMIN", userinfo |-> "USER", queryHistory |-> "USER",
     queryHistoryDistribution |-> "USER", findQueryHistory |-> "USER", getDistribution |-> "USER",
     saveBackend |-> "ADMIN"]

\* Status of a request before its handler runs: 200 lets it through.
RequireRole(route, p) ==
    IF p = None THEN 401
    ELSE IF routeGuard[route] = "auth" \/ HasRole(p, routeGuard[route]) THEN 200
    ELSE 403
----------------------------------------------------------------------------
\* Login of the web UI.  /sso and /oidc/callback are behind the middleware too.

LetsIn(route, cred) == RequireRole(route, FromContext(cred)) = 200 /\ auth.type = "OIDC" /\ auth.web

\* Mutant: a login state the browser already holds is kept.
handleSSOKeeps(cred) ==
    /\ attempts < MaxAttempts /\ LetsIn("sso", cred)
    /\ attempts' = attempts + 1
    /\ stateCookie' = IF stateCookie # 0 THEN stateCookie ELSE attempts + 1
    /\ login' = None
    /\ UNCHANGED <<auth, idpVars, refresher, keys, webKeys, codes>>

\* A new state and nonce, in a cookie that replaces the one of an earlier attempt.
handleSSO(cred) ==
    /\ attempts < MaxAttempts /\ LetsIn("sso", cred)
    /\ attempts' = attempts + 1
    /\ stateCookie' = attempts + 1
    /\ login' = None
    /\ UNCHANGED <<auth, idpVars, refresher, keys, webKeys, codes>>

\* The user signs in at the provider, in the tab of attempt n.
IdpAuthorizes(n) ==
    /\ n \notin codes
    /\ codes' = codes \union {n}
    /\ login' = None
    /\ UNCHANGED <<auth, idpVars, refresher, keys, webKeys, attempts, stateCookie>>

\* The id_token of attempt n carries its nonce and is signed with the current key.
validateIDToken(n, nonce) == idpKey \in webKeys /\ n = nonce

CallbackReply(n, status) ==
    login' = [attempt |-> n, latest |-> attempts, lost |-> stateCookie = 0, status |-> status]

handleOIDCCallback(n, cred) ==
    /\ n \in codes /\ LetsIn("callback", cred)
    /\ \/ /\ stateCookie # n
          /\ CallbackReply(n, 400)
          /\ UNCHANGED <<stateCookie, codes, outages>>
       \/ /\ stateCookie = n /\ validateIDToken(n, stateCookie)
          /\ CallbackReply(n, 303)
          /\ stateCookie' = 0 /\ codes' = codes \ {n}
          /\ UNCHANGED outages
       \/ /\ stateCookie = n
          /\ (~validateIDToken(n, stateCookie) /\ UNCHANGED outages) \/ Outage
          /\ CallbackReply(n, 401)
          /\ codes' = codes \ {n}
          /\ UNCHANGED stateCookie
    /\ UNCHANGED <<auth, idpKey, refresher, keys, webKeys, attempts>>

\* The state cookie lives fifteen minutes.
StateCookieExpires ==
    /\ stateCookie # 0
    /\ stateCookie' = 0 /\ login' = None
    /\ UNCHANGED <<auth, idpVars, refresher, keys, webKeys, attempts, codes>>

AuthInit ==
    /\ auth = None /\ idpKey = 0 /\ outages = 0 /\ refresher = FALSE
    /\ keys = {} /\ webKeys = {}
    /\ attempts = 0 /\ stateCookie = 0 /\ codes = {} /\ login = None

AuthNext ==
    \/ \E cfg \in AuthConfigs : buildAuthMiddleware(cfg)
    \/ auth # None /\ \E cred \in Credentials : handleSSO(cred)
    \/ auth # None /\ \E cred \in Credentials, n \in 1..attempts : handleOIDCCallback(n, cred)
    \/ \E n \in 1..attempts : IdpAuthorizes(n)
    \/ Refresh \/ RefreshFails \/ KeyfuncFetches \/ Rotate \/ StateCookieExpires
----------------------------------------------------------------------------
\* A gateway that came up with OIDC never loses its keys to an outage, and once
\* the provider has changed its key for the last time it accepts the tokens of
\* that key, though some of its fetches failed.
KeysSettle ==
    /\ [](refresher => keys # {})
    /\ refresher ~> [](keys = {idpKey})

\* With two login tabs open, the one started last wins: its callback is never
\* refused for its state, unless the cookie is gone, and no other gets a token.
LoginFollowsLatest ==
    login # None =>
      /\ login.status = 303 => login.attempt = login.latest
      /\ login.status = 400 => login.attempt # login.latest \/ login.lost
============================================================================
