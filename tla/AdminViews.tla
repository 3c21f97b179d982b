----------------------------- MODULE AdminViews -----------------------------
(***************************************************************************)
(* What the admin API shows a caller: their roles and pages (/userinfo) and *)
(* the query history, in the three views that read it (internal/admin       *)
(* query.go, webapp.go; internal/persistence/history.go).  The proxy never  *)
(* stamps created_at, so every row has the same one, and the database may   *)
(* return a page of rows in any order.                                      *)
(***************************************************************************)
EXTENDS AdminAuth, FiniteSets

CONSTANTS Urls,      \* backend URLs
          Sources,   \* values of X-Trino-Source
          Searches,  \* bodies of findQueryHistory: a filter, with page and pageSize
          MaxRows    \* bound: rows of the history

VARIABLES rows,      \* query_history: [user, url, source]; a query's id is its index
          reply      \* the last answer of a view, or None

viewVars == <<authVars, rows, reply>>
----------------------------------------------------------------------------
\* DAO

\* handleStatement records a query with the X-Trino-User of its request, "" when
\* there is none, and its X-Trino-Source.
Insert(user, url, source) ==
    /\ Len(rows) < MaxRows
    /\ rows' = Append(rows, [user |-> user, url |-> url, source |-> source])
    /\ reply' = None
    /\ UNCHANGED authVars

\* An empty field (0: no query id) filters nothing.
NoFilter == [user |-> "", url |-> "", id |-> 0, source |-> ""]

Matching(filter) ==
    {i \in DOMAIN rows : /\ filter.user # "" => rows[i].user = filter.user
                         /\ filter.url # "" => rows[i].url = filter.url
                         /\ filter.id # 0 => i = filter.id
                         /\ filter.source # "" => rows[i].source = filter.source}

\* A page of the matching rows, and their total.
FindByFilter(filter, page, pageSize) ==
    LET all == Matching(filter)
        number == IF page < 1 THEN 1 ELSE page
        limit == IF pageSize <= 0 THEN 10 ELSE pageSize
        rest == Cardinality(all) - (number - 1) * limit
        size == IF rest < 0 THEN 0 ELSE IF rest < limit THEN rest ELSE limit
    IN  [rows : {s \in SUBSET all : Cardinality(s) = size}, total : {Cardinality(all)}]

ListRecent(limit) == FindByFilter(NoFilter, 1, limit)
----------------------------------------------------------------------------
\* Handlers, past the guard of their route

Held(p, role) == IF HasRole(p, role) THEN <<role>> ELSE <<>>
RolesOf(p) == Held(p, "ADMIN") \o Held(p, "USER") \o Held(p, "API")

\* The empty name, between two underscores of an entry.
NoPage == ""

\* The names of a list, each at its first place.
Distinct(pages) ==
    LET out[i \in 0..Len(pages)] ==
          IF i = 0 THEN <<>>
          ELSE LET o == out[i - 1]
               IN  IF pages[i] = NoPage \/ pages[i] \in Range(o) THEN o ELSE Append(o, pages[i])
    IN  out[Len(pages)]

PagesOf(roles) == FlattenSeq([i \in DOMAIN roles |-> auth.pages[roles[i]]])

\* Mutant: a role without an entry adds nothing.
ResolvePagePermissionsSkips(roles) ==
    Distinct(PagesOf(SelectSeq(roles, LAMBDA role : role \in DOMAIN auth.pages)))

\* An empty answer means every page: no entry for one of the roles is enough, and
\* so are entries that name no page.
ResolvePagePermissions(roles) ==
    IF \E i \in DOMAIN roles : roles[i] \notin DOMAIN auth.pages THEN <<>>
    ELSE Distinct(PagesOf(roles))

NoReply == [route |-> "", who |-> None, asked |-> NoFilter, status |-> 0, roles |-> <<>>,
            pages |-> <<>>, rows |-> {}, total |-> 0]

\* The status stands for the code of the answer; the database may fail.
Shows(route, p, asked, found) ==
    \/ \E f \in found : reply' = [NoReply EXCEPT !.route = route, !.who = p, !.asked = asked,
                                                 !.status = 200, !.rows = f.rows, !.total = f.total]
    \/ reply' = [NoReply EXCEPT !.route = route, !.who = p, !.asked = asked, !.status = 500]

handleUserinfo(p) ==
    reply' = [NoReply EXCEPT !.route = "userinfo", !.who = p, !.status = 200, !.roles = RolesOf(p),
                             !.pages = ResolvePagePermissions(RolesOf(p))]

OwnFilter(p) == [NoFilter EXCEPT !.user = p.name]

queryHistory(p) ==
    Shows("queryHistory", p, NoFilter,
          IF HasRole(p, "ADMIN") THEN ListRecent(100) ELSE FindByFilter(OwnFilter(p), 1, 100))

\* One page that stands for the whole history.
DistributionPageSize == 10000

queryHistoryDistribution(p) ==
    Shows("queryHistoryDistribution", p, NoFilter,
          FindByFilter(IF HasRole(p, "ADMIN") THEN NoFilter ELSE OwnFilter(p), 1, DistributionPageSize))

\* Mutant: the caller's name is only a default for the one asked for.
webappFindQueryHistoryDefault(p, asked, page, pageSize) ==
    Shows("findQueryHistory", p, asked,
          FindByFilter(IF HasRole(p, "ADMIN") \/ asked.user # "" THEN asked
                       ELSE [asked EXCEPT !.user = p.name], page, pageSize))

webappFindQueryHistory(p, asked, page, pageSize) ==
    Shows("findQueryHistory", p, asked,
          FindByFilter(IF HasRole(p, "ADMIN") THEN asked ELSE [asked EXCEPT !.user = p.name], page, pageSize))

View(p) ==
    \/ RequireRole("userinfo", p) = 200 /\ handleUserinfo(p)
    \/ RequireRole("queryHistory", p) = 200 /\ queryHistory(p)
    \/ RequireRole("queryHistoryDistribution", p) = 200 /\ queryHistoryDistribution(p)
    \/ /\ RequireRole("findQueryHistory", p) = 200
       /\ \E s \in Searches : webappFindQueryHistory(p, s.filter, s.page, s.pageSize)

\* A request with credentials, refused by the guard or answered.
Ask(cred) ==
    LET p == FromContext(cred)
    IN  /\ auth # None
        /\ \/ \E route \in {"login", "gateway", "saveBackend", "userinfo"} :
                /\ RequireRole(route, p) # 200
                /\ reply' = [NoReply EXCEPT !.route = route, !.who = p, !.status = RequireRole(route, p)]
           \/ View(p)
        /\ UNCHANGED <<authVars, rows>>

ViewsInit == AuthInit /\ rows = <<>> /\ reply = None

ViewsNext ==
    \/ AuthNext /\ reply' = None /\ UNCHANGED rows
    \/ \E user \in {""} \union Users, url \in Urls, source \in Sources : Insert(user, url, source)
    \/ auth # None /\ \E cred \in Credentials : Ask(cred)

ViewsSpec == ViewsInit /\ [][ViewsNext]_viewVars
----------------------------------------------------------------------------
\* What the proofs assume of the configurations (an entry is a list of names) and
\* of the searches.
ViewConstants ==
    /\ \A cfg \in AuthConfigs : \A role \in DOMAIN cfg.pages : cfg.pages[role] \in Seq(STRING)
    /\ Searches \subseteq [filter : [user : STRING, url : STRING, id : Nat, source : STRING],
                           page : Int, pageSize : Int]

\* /userinfo names exactly the pages some role of the caller is given, each once,
\* when all of those roles have an entry, and none when one has no entry.  So the
\* empty answer, which the UI takes for no restriction, is given for a role
\* without an entry and where none of the entries names a page.
PagesAsGranted ==
    reply # None /\ reply.route = "userinfo" /\ reply.status = 200 =>
      LET held == {role \in Range(Roles) : HasRole(reply.who, role)}
      IN  IF held \subseteq DOMAIN auth.pages
          THEN /\ Range(reply.pages) = (UNION {Range(auth.pages[role]) : role \in held}) \ {NoPage}
               /\ Len(reply.pages) = Cardinality(Range(reply.pages))
          ELSE reply.pages = <<>>

\* The rows the last answer is about: those with every value asked for, in which
\* a caller without the ADMIN role asks for their own name.
Sought ==
    LET asked == IF HasRole(reply.who, "ADMIN") THEN reply.asked.user ELSE reply.who.name
    IN  {i \in DOMAIN rows : /\ asked \in {"", rows[i].user}
                             /\ reply.asked.url \in {"", rows[i].url}
                             /\ reply.asked.source \in {"", rows[i].source}
                             /\ reply.asked.id \in {0, i}}

\* In each of the three history views a caller who has a name and not the ADMIN
\* role is shown rows of their own only, whatever they asked for.  Everybody is
\* shown rows of the kind they asked for and their number, and up to 100 rows
\* the two lists are complete.  (A token without a subject makes a caller with
\* the empty name, whom the filter by user does not restrict.)
HistoryScoped ==
    reply # None /\ reply.status = 200 /\ reply.route # "userinfo" =>
      /\ HasRole(reply.who, "ADMIN") \/ reply.who.name = ""
         \/ \A i \in reply.rows : rows[i].user = reply.who.name
      /\ reply.rows \subseteq Sought
      /\ reply.total = Cardinality(Sought)
      /\ reply.route # "findQueryHistory" /\ Cardinality(Sought) <= 100 => reply.rows = Sought
============================================================================
