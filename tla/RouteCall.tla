----------------------------- MODULE RouteCall -----------------------------
(***************************************************************************)
(* One routing decision, end to end: the gateway turns an HTTP request into *)
(* a call of the routing service (internal/routing/external_grpc.go), falls *)
(* back to the HTTP router (external_http.go) and to its default group, the *)
(* service converts the request, analyses it and asks its methods in order  *)
(* (routing-service/internal/server, engine), and the gateway builds the    *)
(* request for the cluster (internal/proxy/forward.go, headers.go).         *)
(* A handler of the service may outlive the gateway's call.  The backend of *)
(* the chosen group, the cache and the recovery chain are GatewayRouting's, *)
(* the method set and its reloads PolicyReload's, the analyzer SqlMeta's.   *)
(* External: gRPC, the HTTP router, the expr and Starlark machines.         *)
(***************************************************************************)
EXTENDS Naturals, Sequences, FiniteSetsExt, Functions

CONSTANTS Requests,        \* requests of clients
          Deployments,     \* configurations: [policy, grpc, http, propagate], the
                           \* policy a sequence of methods [rule, off]
          Routers,         \* 200 answers of the HTTP router
          Excluded,        \* routing.external.excludeHeaders, as configured
          MaxSteps,        \* bound: the step budget of a script
          MaxCalls,        \* bound: requests served
          DefaultGroup,    \* of the gateway
          ServiceDefault,  \* of the routing service
          None

VARIABLES deployed,  \* the configuration, or None
          calls,     \* requests received so far
          call,      \* the gateway's handling of the last one
          handler,   \* handler[c]: the service's handling of call c
          upstream   \* headers of the request sent to the cluster, or None

callVars == <<deployed, calls, call, handler, upstream>>
----------------------------------------------------------------------------
\* The request, as the gateway writes it

TrimSpace(s) ==
    LET ink == {i \in DOMAIN s : s[i] # " "}
    IN  IF ink = {} THEN <<>> ELSE SubSeq(s, Min(ink), Max(ink))

\* Mutant: entries are not trimmed.
splitClientTagsRaw(header) == Range(header) \ {<<>>}

\* The header is written here as its comma-separated entries; the rules ask which
\* tags there are, not in which order.
splitClientTags(header) == {TrimSpace(header[i]) : i \in DOMAIN header} \ {<<>>}

\* handleStatement buffers the body, handleStream leaves it out.
NewRouteInput(r) ==
    [r EXCEPT !.body = IF r.method = "POST" /\ r.path = "/v1/statement" THEN r.body ELSE ""]

buildProtoRequest(in) ==
    [isNew |-> in.method = "POST", body |-> in.body, tags |-> splitClientTags(in.tags),
     queryType |-> "", parseOK |-> FALSE]

CanonicalHeaderKey(k) ==
    CASE k = "x-extra" -> "X-Extra" [] k = "x-set" -> "X-Set" [] k = "x-trino-user" -> "X-Trino-User"
      [] k = "x-forwarded-for" -> "X-Forwarded-For" [] k = "x-forwarded-host" -> "X-Forwarded-Host"
      [] OTHER -> k

buildExcludeSet(names) == {CanonicalHeaderKey(k) : k \in names}

\* Headers of the request to the HTTP router.
buildExternalHeaders(r) ==
    {k \in r.headers : CanonicalHeaderKey(k) \notin buildExcludeSet(Excluded) \union {"Content-Length"}}

\* Headers whose values are repeated in its body; the exclude list is not asked.
buildExternalBody(r) == r.headers \intersect {"X-Trino-User", "X-Trino-Catalog", "X-Trino-Schema"}

\* Mutant: the names are compared as the router spelled them.
filterExcludedHeadersExact(names) == names \ buildExcludeSet(Excluded)

filterExcludedHeaders(names) ==
    {k \in names : CanonicalHeaderKey(k) \notin buildExcludeSet(Excluded)}
----------------------------------------------------------------------------
\* The routing service

FromProto(pb) ==
    [isNew |-> pb.isNew, body |-> pb.body, tags |-> pb.tags,
     queryType |-> pb.queryType, category |-> "", parseOK |-> pb.parseOK]

HasParsedSQL(in) == in.parseOK \/ in.queryType # ""

\* The analyzer's report on the bodies used here (see SqlMeta).
Analysis(body) ==
    CASE body = "select" -> [queryType |-> "SELECT", category |-> "READ"]
      [] body = "insert" -> [queryType |-> "INSERT", category |-> "WRITE"]
      [] OTHER -> [queryType |-> "", category |-> ""]

fillSQLMeta(in) ==
    IF ~in.isNew \/ in.body = "" \/ HasParsedSQL(in) THEN in
    ELSE [in EXCEPT !.queryType = Analysis(in.body).queryType,
                    !.category = Analysis(in.body).category,
                    !.parseOK = Analysis(in.body).queryType # ""]

\* CategoryForType: the category of a statement type the gateway already parsed.
inputFromProto(pb) ==
    LET in == FromProto(pb)
    IN  fillSQLMeta(IF HasParsedSQL(in) /\ in.queryType # "" /\ in.category = ""
                    THEN [in EXCEPT !.category = IF in.queryType = "SELECT" THEN "READ" ELSE "WRITE"]
                    ELSE in)

\* What a rule answers: a group, "" to defer, or None for an error, a result of
\* the wrong type, or a panic, which safeEvaluate turns into an error.
EvaluateRule(rule, in) ==
    CASE rule = "tagged" -> IF <<"etl">> \in in.tags THEN "etl" ELSE ""
      [] rule = "writes" -> IF in.category = "WRITE" THEN "batch" ELSE ""
      [] rule = "loop" -> "slow"
      [] rule = "broken" -> None

NoHandler == [pc |-> "none", pb |-> None, in |-> None, at |-> 1, steps |-> 0,
              ctxDone |-> FALSE, group |-> ""]

\* Method h.at gave `answer`: the first group decides, an error is skipped, ""
\* defers; after the last method the default group.
Advance(c, answer) ==
    LET h == handler[c]
    IN  handler' = [handler EXCEPT ![c] =
            IF answer \notin {"", None}
            THEN [NoHandler EXCEPT !.pc = "answered", !.group = answer]
            ELSE IF h.at = Len(deployed.policy)
            THEN [NoHandler EXCEPT !.pc = "answered", !.group = ServiceDefault]
            ELSE [h EXCEPT !.at = @ + 1, !.steps = 0]]

\* Server.Route: a request that is no new submission is answered empty, without
\* asking any method; without methods the answer is the default group.
ServeRoute(c) ==
    /\ handler[c].pc = "sent"
    /\ handler' = [handler EXCEPT ![c] =
            IF ~@.pb.isNew THEN [NoHandler EXCEPT !.pc = "answered"]
            ELSE IF deployed.policy = <<>>
            THEN [NoHandler EXCEPT !.pc = "answered", !.group = ServiceDefault]
            ELSE [@ EXCEPT !.pc = "eval", !.pb = None, !.in = inputFromProto(handler[c].pb)]]
    /\ UNCHANGED <<deployed, calls, call, upstream>>

\* The answer of Server.Route: a group, and never a header or an error.
RouteResponse(group) == [group |-> group, headers |-> {}, errors |-> FALSE]

Method(c) == deployed.policy[handler[c].at]

\* A script runs until it returns, its step budget is used up, or the context of
\* the call ends; it returns after MaxSteps - 1 steps, and "spin" never does.
ScriptSteps(c) ==
    /\ handler[c].pc = "eval" /\ ~Method(c).off
    /\ Method(c).rule \in {"loop", "spin"}
    /\ ~handler[c].ctxDone /\ handler[c].steps < MaxSteps
    /\ Method(c).rule = "loop" => handler[c].steps < MaxSteps - 1
    /\ handler' = [handler EXCEPT ![c].steps = @ + 1]
    /\ UNCHANGED <<deployed, calls, call, upstream>>

EvaluateMethod(c) ==
    /\ handler[c].pc = "eval"
    /\ CASE Method(c).off -> Advance(c, "")
         [] ~Method(c).off /\ Method(c).rule \in {"loop", "spin"} ->
              \/ /\ handler[c].ctxDone \/ handler[c].steps = MaxSteps
                 /\ Advance(c, None)
              \/ /\ Method(c).rule = "loop" /\ handler[c].steps = MaxSteps - 1
                 /\ Advance(c, EvaluateRule("loop", handler[c].in))
         [] OTHER -> Advance(c, EvaluateRule(Method(c).rule, handler[c].in))
    /\ UNCHANGED <<deployed, calls, call, upstream>>

\* A panic outside the methods: panicRecoveryInterceptor answers INTERNAL.
HandlerPanics(c) ==
    /\ handler[c].pc = "eval"
    /\ handler' = [handler EXCEPT ![c] = [NoHandler EXCEPT !.pc = "failed"]]
    /\ UNCHANGED <<deployed, calls, call, upstream>>

\* The gateway has left: the handler's context is cancelled, some time later.
ContextEnds(c) ==
    /\ handler[c].pc \in {"sent", "eval"} /\ ~handler[c].ctxDone
    /\ c < calls \/ call.pc # "grpc"
    /\ handler' = [handler EXCEPT ![c].ctxDone = TRUE]
    /\ UNCHANGED <<deployed, calls, call, upstream>>
----------------------------------------------------------------------------
\* The gateway's side

\* Route, once its external call has returned: an empty group is the default.
Routed(via, group, headers, errors) ==
    call' = [call EXCEPT !.pc = "routed", !.via = via, !.headers = filterExcludedHeaders(headers),
                         !.errors = errors, !.group = IF group = "" THEN DefaultGroup ELSE group,
                         !.outcome = IF group = "" THEN "fallback" ELSE "ok"]

\* What the HTTP router was told, before it is called.
NotSent == [headers |-> {}, body |-> {}]

\* The HTTP selector with no URL answers empty, without an error.
TryHTTP(c0) ==
    IF deployed.http
    THEN call' = [c0 EXCEPT !.pc = "http", !.sent = [headers |-> buildExternalHeaders(c0.req),
                                                     body |-> buildExternalBody(c0.req)]]
    ELSE call' = [c0 EXCEPT !.pc = "routed", !.group = DefaultGroup, !.outcome = "fallback"]

\* A client's request reaches callExternal: gRPC when it is configured.
Receive(r) ==
    LET c0 == [pc |-> "grpc", req |-> r, via |-> "none", group |-> "", headers |-> {}, sent |-> NotSent,
               errors |-> FALSE, outcome |-> "", status |-> 0]
    IN  /\ deployed # None /\ calls < MaxCalls
        /\ call.pc \in {"idle", "answered"}
        /\ calls' = calls + 1
        /\ IF deployed.grpc
           THEN /\ call' = c0
                /\ handler' = [handler EXCEPT ![calls + 1] =
                      [NoHandler EXCEPT !.pc = "sent", !.pb = buildProtoRequest(NewRouteInput(r))]]
           ELSE /\ TryHTTP(c0)
                /\ UNCHANGED handler
        /\ upstream' = None
        /\ UNCHANGED deployed

GrpcAnswered ==
    /\ call.pc = "grpc" /\ handler[calls].pc = "answered"
    /\ LET resp == RouteResponse(handler[calls].group)
       IN  Routed("grpc", resp.group, resp.headers, resp.errors)
    /\ handler' = [handler EXCEPT ![calls] = NoHandler]
    /\ UNCHANGED <<deployed, calls, upstream>>

\* The handler failed, or the connection: the HTTP router is asked next.
GrpcFails ==
    /\ call.pc = "grpc"
    /\ TryHTTP(call)
    /\ UNCHANGED <<deployed, calls, handler, upstream>>

\* Mutant: the call is made with the client's context, without a timeout.
GrpcDeadlineNone == FALSE /\ UNCHANGED callVars

\* The timeout of the call, whatever the handler does.
GrpcDeadline ==
    /\ call.pc = "grpc"
    /\ TryHTTP(call)
    /\ UNCHANGED <<deployed, calls, handler, upstream>>

HttpAnswered(a) ==
    /\ call.pc = "http"
    /\ Routed("http", a.group, a.headers, a.errors)
    /\ UNCHANGED <<deployed, calls, handler, upstream>>

\* Mutant: on a bad status the answer's errors are kept, as for gRPC's answers.
HttpFailsWithErrors ==
    /\ call.pc = "http"
    /\ Routed("none", "", {}, TRUE)
    /\ UNCHANGED <<deployed, calls, handler, upstream>>

\* No answer, a status other than 200, or a body that does not decode.
HttpFails ==
    /\ call.pc = "http"
    /\ Routed("none", "", {}, FALSE)
    /\ UNCHANGED <<deployed, calls, handler, upstream>>

HttpDeadline == HttpFails
----------------------------------------------------------------------------
\* The request to the cluster

LastIndexByte(s, b) == Max({0} \union {i \in DOMAIN s : s[i] = b})
IndexByte(s, b) == IF b \in Range(s) THEN Min({i \in DOMAIN s : s[i] = b}) ELSE 0

hostOnly(h) ==
    IF h # <<>> /\ h[1] = "[" /\ IndexByte(h, "]") > 0 THEN SubSeq(h, 1, IndexByte(h, "]"))
    ELSE IF h # <<>> /\ h[1] # "[" /\ LastIndexByte(h, ":") > 0
    THEN SubSeq(h, 1, LastIndexByte(h, ":") - 1)
    ELSE h

\* Without a port in the Host, that of the scheme.
forwardedPort(h, proto) ==
    LET end == IndexByte(h, "]")
        default == IF proto = "https" THEN <<"443">> ELSE <<"80">>
    IN  IF h # <<>> /\ h[1] = "["
        THEN IF 0 < end /\ end < Len(h) /\ h[end + 1] = ":" THEN SubSeq(h, end + 2, Len(h)) ELSE default
        ELSE IF LastIndexByte(h, ":") > 0 THEN SubSeq(h, LastIndexByte(h, ":") + 1, Len(h)) ELSE default

isHopByHop(k) == k \in {"Connection", "Keep-Alive", "Proxy-Authenticate", "Proxy-Authorization", "Te",
                        "Trailers", "Transfer-Encoding", "Upgrade"}

\* The address of the client is appended to the first X-Forwarded-For line, the
\* only one Get returns, and replaces them all.
forwardedFor(r) ==
    LET colon == LastIndexByte(r.addr, ":")
        ip == IF colon > 0 THEN SubSeq(r.addr, 1, colon - 1) ELSE r.addr
    IN  IF r.xff # <<>> /\ r.xff[1] # <<>> THEN <<r.xff[1], ip>> ELSE <<ip>>

buildUpstreamRequest(r) == {k \in r.headers : ~isHopByHop(k)}

ForwardedNames == {"X-Forwarded-For", "X-Forwarded-Proto", "X-Forwarded-Host", "X-Forwarded-Port"}

\* externalHeaders are set last: they replace what the client sent and what the
\* gateway wrote.  None: not the gateway's.
injectHeaders(r, extra) ==
    LET set == {CanonicalHeaderKey(k) : k \in extra}
        proto == IF r.tls THEN "https" ELSE "http"
        own(k, line) == IF k \in set THEN None ELSE line
    IN  [client |-> buildUpstreamRequest(r) \ (set \union ForwardedNames), router |-> set,
         xff |-> own("X-Forwarded-For", forwardedFor(r)),
         proto |-> own("X-Forwarded-Proto", proto),
         host |-> own("X-Forwarded-Host", hostOnly(r.host)),
         port |-> own("X-Forwarded-Port", forwardedPort(r.host, proto))]

\* handleStatement with propagateErrors answers 400 to a request the router
\* found errors in; everything else is sent to the cluster.
Forward ==
    LET refused == /\ deployed.propagate /\ call.errors
                   /\ call.req.method = "POST" /\ call.req.path = "/v1/statement"
    IN  /\ call.pc = "routed"
        /\ call' = [call EXCEPT !.pc = "answered", !.status = IF refused THEN 400 ELSE 200]
        /\ upstream' = IF refused THEN None ELSE injectHeaders(call.req, call.headers)
        /\ UNCHANGED <<deployed, calls, handler>>

Deploy(d) ==
    /\ deployed = None
    /\ deployed' = d
    /\ UNCHANGED <<calls, call, handler, upstream>>

CallInit ==
    /\ deployed = None /\ calls = 0
    /\ call = [pc |-> "idle", req |-> None, via |-> "none", group |-> "", headers |-> {}, sent |-> NotSent,
               errors |-> FALSE, outcome |-> "", status |-> 0]
    /\ handler = [c \in 1..MaxCalls |-> NoHandler]
    /\ upstream = None

HandlerStep(c) == ServeRoute(c) \/ ScriptSteps(c) \/ EvaluateMethod(c)
GatewayStep == GrpcAnswered \/ GrpcDeadline \/ HttpDeadline \/ Forward

CallNext ==
    \/ \E d \in Deployments : Deploy(d)
    \/ \E r \in Requests : Receive(r)
    \/ \E c \in 1..MaxCalls : HandlerStep(c) \/ HandlerPanics(c) \/ ContextEnds(c)
    \/ GrpcFails
    \/ \E a \in Routers : HttpAnswered(a)
    \/ HttpFails
    \/ GatewayStep

CallSpec == CallInit /\ [][CallNext]_callVars

Rules == {"tagged", "writes", "loop", "spin", "broken"}

\* A Host is a name or a bracketed address, and perhaps a port; the address of a
\* client ends with a port (here one letter); xff are the X-Forwarded-For lines.
RequestOK(r) ==
    /\ r \in [method : STRING, path : STRING, body : STRING, tags : Seq(Seq(STRING)),
              host : Seq(STRING), addr : Seq(STRING), xff : Seq(Seq(STRING)), headers : SUBSET STRING,
              tls : BOOLEAN]
    /\ \A i \in DOMAIN r.host :
          r.host[1] = "[" /\ r.host[i] = "]" => i = Len(r.host) \/ r.host[i + 1] = ":"
    /\ Len(r.addr) >= 2 /\ r.addr[Len(r.addr) - 1] = ":" /\ r.addr[Len(r.addr)] # ":"

CallConstants ==
    /\ \A r \in Requests : RequestOK(r)
    /\ Deployments \subseteq [policy : Seq([rule : Rules, off : BOOLEAN]),
                              grpc : BOOLEAN, http : BOOLEAN, propagate : BOOLEAN]
    /\ Routers \subseteq [group : STRING, headers : SUBSET STRING, errors : BOOLEAN]
    /\ MaxSteps \in Nat \ {0} /\ MaxCalls \in Nat
    /\ None \notin Deployments /\ None \notin {"", "etl", "batch", "slow"}
----------------------------------------------------------------------------
\* An entry of the header that is etl, with spaces around it.
IsEtl(entry) ==
    \E i \in DOMAIN entry : entry[i] = "etl" /\ \A j \in DOMAIN entry \ {i} : entry[j] = " "

\* What a rule means for the request as the client wrote it.
Means(m, r) ==
    CASE m.rule = "tagged" -> IF \E i \in DOMAIN r.tags : IsEtl(r.tags[i]) THEN "etl" ELSE ""
      [] m.rule = "writes" -> IF r.path = "/v1/statement" /\ r.body = "insert" THEN "batch" ELSE ""
      [] m.rule = "loop" -> "slow"
      [] OTHER -> ""

\* The methods that decide about it.
Says(r) ==
    {i \in DOMAIN deployed.policy : ~deployed.policy[i].off /\ Means(deployed.policy[i], r) # ""}

\* The answer of the service, and the group the gateway makes of it.
Answered(r) ==
    IF r.method # "POST" THEN ""
    ELSE IF Says(r) = {} THEN ServiceDefault ELSE Means(deployed.policy[Min(Says(r))], r)

Intended(r) == IF Answered(r) = "" THEN DefaultGroup ELSE Answered(r)

\* A group taken from the routing service is the one its enabled rules, in their
\* order, give the request as the client wrote it: through the conversions on
\* both sides, past rules that fail or run out of budget, and never an answer
\* reached after the script was cancelled or one meant for an earlier request.
DecisionArrives ==
    call.pc \in {"routed", "answered"} /\ call.via = "grpc" => call.group = Intended(call.req)

\* When no transport gives an answer the request is still served: in the default
\* group, with no header and no error of a router, so that propagateErrors
\* cannot refuse it.
FallbackIsClean ==
    call.pc = "answered" /\ call.via = "none"
      => call.group = DefaultGroup /\ call.outcome = "fallback" /\ call.status = 200
         /\ upstream.router = {}

\* The cluster learns who asked and where, by every X-Forwarded header the router
\* did not set itself: -Host and -Port put together again are the Host the client
\* wrote, with the port of the scheme when it names none; -For ends with the
\* client's address, after the chain the client sent when that is one line (of
\* several lines only the first is kept).  A header on the exclude list is not
\* among the headers of the request to the HTTP router and is set by no router,
\* however the list and the router spell it.
ForwardedAsSeen ==
    /\ upstream # None =>
         LET r == call.req
         IN  /\ {"X-Forwarded-Host", "X-Forwarded-Port"} \intersect upstream.router = {} =>
                  /\ r.host \in {upstream.host, upstream.host \o <<":">> \o upstream.port}
                  /\ r.host = upstream.host => upstream.port = IF r.tls THEN <<"443">> ELSE <<"80">>
             /\ "X-Forwarded-For" \notin upstream.router =>
                  LET ip == upstream.xff[Len(upstream.xff)]
                  IN  /\ r.addr = ip \o <<":", r.addr[Len(r.addr)]>>
                      /\ r.xff # <<>> /\ r.xff[1] # <<>> => upstream.xff = <<r.xff[1]>> \o <<ip>>
    /\ {CanonicalHeaderKey(k) : k \in Excluded} \intersect
         (call.sent.headers \union IF upstream = None THEN {} ELSE upstream.router) = {}

\* Every request gets out of its routing call, though the service may have lost
\* it, and every handler of the service ends, also one whose gateway has left.
RouteReturns ==
    /\ call.pc = "grpc" ~> call.pc = "answered"
    /\ \A c \in 1..MaxCalls : handler[c].pc = "eval" ~> handler[c].pc # "eval"
============================================================================
