------------------------------ MODULE SqlMeta ------------------------------
(***************************************************************************)
(* The heuristic SQL analyzer of the routing service                        *)
(* (routing-service/internal/sqlmeta/heuristic.go): a tokenizer over bytes, *)
(* the statement classifier, and the extraction and qualification of table  *)
(* names.  The two scanners are written as the code walks its index; the    *)
(* properties compare them with a writer: a text is put together lexeme by  *)
(* lexeme, or clause by clause, and the scanner must give back exactly what *)
(* was written.  A byte is a one-letter string; a word of the classifier is *)
(* one string, with the case conversions the code applies to it.            *)
(***************************************************************************)
EXTENDS SeqOps

CONSTANTS Contents,     \* what a comment, a literal or a quoted name may hold
          MaxLexemes,   \* bound: lexemes of the text for the tokenizer
          MaxRefs       \* bound: table references of the statement

VARIABLES lexemes,      \* the text given to the tokenizer
          stmt          \* the statement given to the analyzer: head and clauses

sqlVars == <<lexemes, stmt>>

\* The value of a loop's state after n rounds.
Rounds(n, start, Round(_)) ==
    LET at[k \in 0..n] == IF k = 0 THEN start ELSE Round(at[k - 1])
    IN  at[n]

\* The least of the indices hits from i on, or the one after the end.
FirstFrom(hits, i, end) ==
    LET later == {j \in hits : i <= j}
    IN  IF later = {} THEN end + 1 ELSE CHOOSE j \in later : \A k \in later : j <= k
----------------------------------------------------------------------------
\* Tokenizer (1-based: the code's i is i + 1 here)

Quote == "'"
DQuote == "\""
Backquote == "bq"
NewLine == "\n"
Dash == "-"
Slash == "/"
Star == "*"
OpenBracket == "["
CloseBracket == "]"
Whitespace == " "
Punctuation == {".", "(", ")", ","}

isIdentChar(c) == c \in {"a", "b", "_"}

LineEnd(sql, i) == FirstFrom({j \in DOMAIN sql : sql[j] = NewLine}, i, Len(sql))

\* The first byte after the comment whose content starts at i.
BlockEnd(sql, i) ==
    LET j == FirstFrom({j \in 1..(Len(sql) - 1) : sql[j] = Star /\ sql[j + 1] = Slash}, i, Len(sql))
    IN  IF j > Len(sql) THEN j ELSE j + 2

WordEnd(sql, i) == FirstFrom({j \in DOMAIN sql : ~ isIdentChar(sql[j])}, i, Len(sql))

Delims == {[open |-> DQuote, close |-> DQuote], [open |-> Backquote, close |-> Backquote],
           [open |-> OpenBracket, close |-> CloseBracket]}
Literal == [open |-> Quote, close |-> Quote]

\* One round of scanDelimited: a byte of the text, an escaped delimiter, the end.
ScanRound(sql, d, s) ==
    IF s.closed \/ s.i > Len(sql) THEN s
    ELSE IF sql[s.i] # d.close
    THEN [i |-> s.i + 1, text |-> Append(s.text, sql[s.i]), closed |-> FALSE]
    ELSE IF d.open = d.close /\ s.i < Len(sql) /\ sql[s.i + 1] = d.close
    THEN [i |-> s.i + 2, text |-> Append(s.text, d.close), closed |-> FALSE]
    ELSE [i |-> s.i + 1, text |-> s.text, closed |-> TRUE]

\* The text read and the byte after the closing delimiter.
scanDelimited(sql, start, d) ==
    Rounds(Len(sql), [i |-> start + 1, text |-> <<>>, closed |-> FALSE], LAMBDA s : ScanRound(sql, d, s))

\* The loop over a string literal is the same, and keeps no text.
StringEnd(sql, start) == scanDelimited(sql, start, Literal).i

Token(t, q) == [text |-> t, quoted |-> q]

\* One round of tokenize: skip to a byte, or emit a token as well.
Skip(s, j) == [i |-> j, toks |-> s.toks]
Emit(s, j, t) == [i |-> j, toks |-> Append(s.toks, t)]
TokenRound(sql, s, block) ==
    LET i == s.i
        c == sql[i]
        next(x) == i < Len(sql) /\ sql[i + 1] = x
    IN  IF i > Len(sql) THEN s
        ELSE CASE c = Dash /\ next(Dash) -> Skip(s, LineEnd(sql, i + 2))
               [] c = Slash /\ next(Star) -> Skip(s, BlockEnd(sql, i + block))
               [] c = Quote -> Skip(s, StringEnd(sql, i))
               [] c \in {d.open : d \in Delims} ->
                    LET r == scanDelimited(sql, i, CHOOSE d \in Delims : d.open = c)
                    IN  Emit(s, r.i, Token(r.text, TRUE))
               [] c \in Punctuation -> Emit(s, i + 1, Token(<<c>>, FALSE))
               [] isIdentChar(c) ->
                    Emit(s, WordEnd(sql, i), Token(SubSeq(sql, i, WordEnd(sql, i) - 1), FALSE))
               [] OTHER -> Skip(s, i + 1)

TokensOf(sql, block) ==
    Rounds(Len(sql), [i |-> 1, toks |-> <<>>], LAMBDA s : TokenRound(sql, s, block)).toks

\* Mutant: the end of the body is kept, not its start.
truncateFront(sql, limit) ==
    IF Len(sql) > limit THEN SubSeq(sql, Len(sql) - limit + 1, Len(sql)) ELSE sql

\* The body is cut to the byte cap before it is analyzed.
truncate(sql, limit) == IF Len(sql) > limit THEN SubSeq(sql, 1, limit) ELSE sql

\* Mutant: the comment body starts at the star of its opening.
tokenizeStarTwice(sql) == TokensOf(sql, 1)

\* The body of a block comment starts two bytes after its opening slash.
tokenize(sql) == TokensOf(sql, 2)
----------------------------------------------------------------------------
\* Words and their case

Folded == {<<"SELECT", "select">>, <<"INSERT", "insert">>, <<"UPDATE", "update">>,
           <<"WITH", "with">>, <<"EXPLAIN", "explain">>, <<"FROM", "from">>,
           <<"JOIN", "join">>, <<"INTO", "into">>, <<"ONLY", "only">>,
           <<"AS", "as">>, <<"WHERE", "where">>, <<"SET", "set">>,
           <<"T", "t">>, <<"S", "s">>, <<"C", "c">>, <<"X", "x">>}

ToUpper(w) == IF \E f \in Folded : f[2] = w
              THEN (CHOOSE f \in Folded : f[2] = w)[1] ELSE w
ToLower(w) == IF \E f \in Folded : f[1] = w
              THEN (CHOOSE f \in Folded : f[1] = w)[2] ELSE w

statementKeywords == {"SELECT", "INSERT", "UPDATE", "EXPLAIN", "SET"}
tableKeywords == {"FROM", "JOIN", "INTO", "UPDATE", "TABLE"}
refStopKeywords == {"WHERE", "ON", "AS", "SET", "VALUES", "SELECT", "WITH"}

categoryFor(type) ==
    CASE type \in {"SELECT", "VALUES", "DESCRIBE", "SHOW"} -> "READ"
      [] type \in {"INSERT", "UPDATE", "DELETE", "MERGE", "TRUNCATE"} -> "WRITE"
      [] type \in {"CREATE", "DROP", "ALTER", "COMMENT", "REFRESH", "ANALYZE"} -> "DDL"
      [] type = "EXPLAIN" -> "EXPLAIN"
      [] OTHER -> "OTHER"
----------------------------------------------------------------------------
\* Classification

Bare(toks, i) == IF toks[i].quoted THEN "" ELSE ToUpper(toks[i].text)

keywordAt(toks, idx) ==
    LET bare == {i \in idx..Len(toks) : ~toks[i].quoted}
    IN  IF bare = {} THEN "" ELSE Bare(toks, CHOOSE i \in bare : \A j \in bare : i <= j)

\* Mutant: the first statement keyword after WITH, parenthesised or not.
mainAfterWithFlat(toks) ==
    LET hits == {i \in 2..Len(toks) : Bare(toks, i) \in statementKeywords}
    IN  IF hits = {} THEN ""
        ELSE Bare(toks, CHOOSE i \in hits : \A j \in hits : i <= j)

\* One round of mainAfterWith: parentheses, then the first keyword outside them.
MainRound(toks, s) ==
    IF s.main # "" \/ s.i > Len(toks) THEN s
    ELSE [i |-> s.i + 1,
          depth |-> CASE toks[s.i].text = "(" -> s.depth + 1
                      [] toks[s.i].text = ")" -> IF s.depth > 0 THEN s.depth - 1 ELSE 0
                      [] OTHER -> s.depth,
          main |-> IF /\ toks[s.i].text \notin {"(", ")"} /\ s.depth = 0
                      /\ Bare(toks, s.i) \in statementKeywords
                   THEN Bare(toks, s.i) ELSE ""]

mainAfterWith(toks) ==
    Rounds(Len(toks), [i |-> 2, depth |-> 0, main |-> ""], LAMBDA s : MainRound(toks, s)).main

\* "" stands for a statement the analyzer does not recognise.
statementType(toks) ==
    LET first == keywordAt(toks, 1)
        main == mainAfterWith(toks)
    IN  CASE first = "EXPLAIN" -> "EXPLAIN"
          [] first = "WITH" -> IF main # "" THEN main ELSE "SELECT"
          [] first \in statementKeywords \ {"EXPLAIN"} -> first
          [] OTHER -> ""
----------------------------------------------------------------------------
\* Table references

partText(t) == IF t.quoted THEN t.text ELSE ToLower(t.text)

IsRef(toks, i) ==
    /\ i <= Len(toks)
    /\ toks[i].quoted \/ /\ toks[i].text \notin {"(", ",", ")"}
                         /\ Bare(toks, i) \notin refStopKeywords

\* The parts are every other token, as long as dots separate them.
readRef(toks, i) ==
    LET dots == FirstFrom({k \in 0..Len(toks) : ~ (i + 2 * k + 2 <= Len(toks) /\ toks[i + 2 * k + 1].text = ".")},
                          0, Len(toks))
    IN  [i |-> i + 2 * dots + 1, parts |-> [k \in 1..(dots + 1) |-> partText(toks[i + 2 * k - 2])]]

skipAlias(toks, i) ==
    CASE i > Len(toks) -> i
      [] i <= Len(toks) /\ Bare(toks, i) = "AS" ->
           IF i + 1 <= Len(toks) THEN i + 2 ELSE i + 1
      [] i <= Len(toks) /\ toks[i].text \in {",", "(", ")", "."} -> i
      [] i <= Len(toks) /\ Bare(toks, i) \in (refStopKeywords \ {"AS"}) \cup tableKeywords -> i
      [] OTHER -> i + 1

SkipOnly(toks, i) == FirstFrom({j \in DOMAIN toks : Bare(toks, j) # "ONLY"}, i, Len(toks))

\* One round of extractTableRefs: a reference of the list the loop is in, and
\* its alias and comma; or else a token, which may open a list.
RefsRound(toks, s) ==
    LET r == readRef(toks, s.i)
        k == skipAlias(toks, r.i)
        j == SkipOnly(toks, s.i + 1)
        Is(x, i) == i <= Len(toks) /\ toks[i].text = x
    IN  IF s.i > Len(toks) THEN s
        ELSE IF s.list /\ IsRef(toks, s.i)
        THEN [i |-> IF Is(",", k) THEN k + 1 ELSE k, refs |-> Append(s.refs, r.parts),
              list |-> Is(",", k) /\ ~ Is("(", k + 1)]
        ELSE IF Bare(toks, s.i) \notin tableKeywords
        THEN [i |-> s.i + 1, refs |-> s.refs, list |-> FALSE]
        ELSE [i |-> j, refs |-> s.refs, list |-> ~ Is("(", j)]

extractTableRefs(toks) ==
    Rounds(Len(toks), [i |-> 1, refs |-> <<>>, list |-> FALSE], LAMBDA s : RefsRound(toks, s)).refs

\* A name of more than three parts keeps its last three.
qualify(parts, dc, ds) ==
    LET k == Len(parts)
    IN  CASE k = 1 -> <<ToLower(dc), ToLower(ds), parts[1]>>
          [] k = 2 -> <<ToLower(dc), parts[1], parts[2]>>
          [] OTHER -> SubSeq(parts, k - 2, k)

emptyMeta == [type |-> "", category |-> "OTHER", catalogs |-> {}, schemas |-> {},
              tables |-> {}, parseOK |-> FALSE]

\* Joining drops the missing leading parts: here a name keeps its three, some "".
analyze(toks, dc, ds) ==
    LET refs == {r \in {qualify(p, dc, ds) : p \in Range(extractTableRefs(toks))} : r[3] # ""}
        type == statementType(toks)
    IN  IF toks = <<>> \/ type = "" THEN emptyMeta
        ELSE [type |-> type, category |-> categoryFor(type),
              catalogs |-> {r[1] : r \in refs} \ {""},
              schemas |-> {r[2] : r \in refs} \ {""},
              tables |-> refs, parseOK |-> TRUE]
----------------------------------------------------------------------------
\* The writer of the tokenizer's text

\* Symmetric delimiters and literals double the delimiter they contain.
Doubled(s, c) == FlattenSeq([i \in DOMAIN s |-> IF s[i] = c THEN <<c, c>> ELSE <<s[i]>>])

Spelled(l) ==
    CASE l.kind = "word" -> <<"a", "b">>
      [] l.kind = "dot" -> <<".">>
      [] l.kind = "space" -> <<Whitespace>>
      [] l.kind = "minus" -> <<Dash, Whitespace>>
      [] l.kind = "line" -> <<Dash, Dash>> \o l.content \o <<NewLine>>
      [] l.kind = "block" -> <<Slash, Star>> \o l.content \o <<Star, Slash>>
      [] l.kind = "literal" -> <<Quote>> \o Doubled(l.content, Quote) \o <<Quote>>
      [] l.kind = "quoted" -> <<DQuote>> \o Doubled(l.content, DQuote) \o <<DQuote>>
      [] l.kind = "bracket" -> <<OpenBracket>> \o l.content \o <<CloseBracket>>

Tokens(l) ==
    CASE l.kind = "word" -> <<Token(<<"a", "b">>, FALSE)>>
      [] l.kind = "dot" -> <<Token(<<".">>, FALSE)>>
      [] l.kind \in {"quoted", "bracket"} -> <<Token(l.content, TRUE)>>
      [] OTHER -> <<>>

Unwrapped == {[kind |-> k, content |-> <<>>] : k \in {"word", "dot", "space", "minus"}}
Wrapped == {[kind |-> k, content |-> c] :
              k \in {"line", "block", "literal", "quoted", "bracket"}, c \in Contents}

\* What ends a comment or a bracketed name cannot be written inside it.
Writable(l) ==
    /\ l.kind = "line" => NewLine \notin Range(l.content)
    /\ l.kind = "block" =>
         \A i \in 1..(Len(l.content) - 1) : ~ (l.content[i] = Star /\ l.content[i + 1] = Slash)
    /\ l.kind = "bracket" => CloseBracket \notin Range(l.content)

Follows(l, m) == /\ ~(l.kind = "word" /\ m.kind = "word")
                 /\ ~(l.kind = m.kind /\ l.kind \in {"literal", "quoted"})

\* A word, a comment, a literal or a name is written after the others.
WriteLexeme(l) ==
    /\ stmt.head = "" /\ Len(lexemes) < MaxLexemes
    /\ Writable(l)
    /\ lexemes # <<>> => Follows(Last(lexemes), l)
    /\ lexemes' = Append(lexemes, l)
    /\ UNCHANGED stmt
----------------------------------------------------------------------------
\* The writer of statements

Word(w) == Token(w, FALSE)
Name(w) == Token(w, TRUE)

Heads == {"select", "EXPLAIN", "with", "with insert", "VACUUM"}
HeadTokens(h) ==
    CASE h = "with" -> <<Word("with"), Word("x"), Word("AS"), Word("("), Word("SELECT"),
                         Word("x"), Word("FROM"), Word("S"), Word("."), Word("T"), Word(")"), Word("select")>>
      [] h = "with insert" -> <<Word("WITH"), Name("SELECT"), Word("as"), Word("("), Word("SELECT"),
                         Word("x"), Word(")"), Word("INSERT")>>
      [] OTHER -> <<Word(h)>>
HeadType(h) == CASE h \in {"select", "with"} -> "SELECT"
                 [] h = "with insert" -> "INSERT"
                 [] h = "EXPLAIN" -> "EXPLAIN"
                 [] OTHER -> ""
HeadTables(h) == IF h = "with" THEN {<<"c", "s", "t">>} ELSE {}

Qualified == {<<Word("T")>>, <<Word("s"), Name("FROM")>>, <<Name("C"), Word("S"), Name("T")>>}
Aliases == {<<>>, <<Word("AS"), Word("x")>>, <<Name("WHERE")>>}
Refs == {[name |-> n, alias |-> a] : n \in Qualified, a \in Aliases}
Tails == {<<Word("where"), Word("x")>>,
          <<Word("("), Word("x"), Word(","), Word("x"), Word(")")>>}

RefTokens(r) ==
    LET n == r.name
    IN  (CASE Len(n) = 1 -> n
           [] Len(n) = 2 -> <<n[1], Word("."), n[2]>>
           [] Len(n) = 3 -> <<n[1], Word("."), n[2], Word("."), n[3]>>) \o r.alias

ClauseTokens(c) ==
    <<Word(c.anchor)>> \o RefTokens(c.refs[1])
      \o FlattenSeq([i \in 1..(Len(c.refs) - 1) |-> <<Word(",")>> \o RefTokens(c.refs[i + 1])])
      \o c.tail

StatementTokens(s) ==
    HeadTokens(s.head) \o FlattenSeq([i \in DOMAIN s.clauses |-> ClauseTokens(s.clauses[i])])

Exact(t) == IF t.quoted THEN t.text ELSE ToLower(t.text)
Expected(n) ==
    CASE Len(n) = 1 -> <<"c", "s", Exact(n[1])>>
      [] Len(n) = 2 -> <<"c", Exact(n[1]), Exact(n[2])>>
      [] Len(n) = 3 -> <<Exact(n[1]), Exact(n[2]), Exact(n[3])>>

RefCount == SumFunction([i \in DOMAIN stmt.clauses |-> Len(stmt.clauses[i].refs)])

\* The head of a statement is written.
Begin(h) ==
    /\ lexemes = <<>> /\ stmt.head = ""
    /\ stmt' = [head |-> h, clauses |-> <<>>]
    /\ UNCHANGED lexemes

\* A FROM or INTO with its first table.
AddClause(kw, r) ==
    /\ stmt.head # "" /\ RefCount < MaxRefs
    /\ stmt' = [stmt EXCEPT !.clauses = Append(@, [anchor |-> kw, refs |-> <<r>>, tail |-> <<>>])]
    /\ UNCHANGED lexemes

\* A further table of the last list.
AddRef(r) ==
    /\ stmt.clauses # <<>> /\ RefCount < MaxRefs
    /\ Last(stmt.clauses).tail = <<>>
    /\ stmt' = [stmt EXCEPT !.clauses[Len(stmt.clauses)].refs = Append(@, r)]
    /\ UNCHANGED lexemes

\* What may follow a table list: a condition, an assignment, a column list.
AddTail(t) ==
    /\ stmt.clauses # <<>> /\ Last(stmt.clauses).tail = <<>>
    /\ stmt' = [stmt EXCEPT !.clauses[Len(stmt.clauses)].tail = t]
    /\ UNCHANGED lexemes

SqlInit == lexemes = <<>> /\ stmt = [head |-> "", clauses |-> <<>>]

SqlNext ==
    \/ \E l \in Unwrapped \cup Wrapped : WriteLexeme(l)
    \/ \E h \in Heads : Begin(h)
    \/ \E kw \in {"FROM", "into"}, r \in Refs : AddClause(kw, r)
    \/ \E r \in Refs : AddRef(r)
    \/ \E t \in Tails : AddTail(t)

SqlSpec == SqlInit /\ [][SqlNext]_sqlVars

\* What the proofs assume: a content is a sequence.
SqlConstants == \A c \in Contents : c \in Seq(Range(c))
----------------------------------------------------------------------------
\* Properties

TextOf(ls) == FlattenSeq([i \in DOMAIN ls |-> Spelled(ls[i])])
TokensIn(ls) == FlattenSeq([i \in DOMAIN ls |-> Tokens(ls[i])])

\* Whatever a comment, a string literal or a quoted name contains (comment
\* openers, stars, quotes, doubled delimiters), tokenize returns exactly the
\* words, names and dots that were written, in order: no comment swallows or
\* leaks text.
TokensAsWritten == tokenize(TextOf(lexemes)) = TokensIn(lexemes)

\* A body cut at the byte cap in the middle of a comment, a literal or a name
\* loses or damages nothing but its last token: the tokens before it are those
\* of the whole body.
CutDamagesLastOnly ==
    LET text == TextOf(lexemes) IN
    \A n \in 1..Len(text) :
        LET cut == tokenize(truncate(text, n))
        IN  cut # <<>> => IsPrefix(Front(cut), TokensIn(lexemes))

\* For every statement written from a head, FROM and INTO lists with one-, two-
\* and three-part names, bare and quoted, with and without aliases, analyze
\* reports the statement's own type (not that of a subquery in its WITH) and
\* exactly the tables written, bare names folded and defaults filled in; a
\* quoted name that spells a keyword is never taken for one.
MetaAsWritten ==
    LET meta == analyze(StatementTokens(stmt), "C", "s")
        written == UNION {{Expected(c.refs[i].name) : i \in DOMAIN c.refs} : c \in Range(stmt.clauses)}
    IN  stmt.head # "" =>
          IF HeadType(stmt.head) = "" THEN meta = emptyMeta
          ELSE /\ meta.type = HeadType(stmt.head)
               /\ meta.tables = written \cup HeadTables(stmt.head)
============================================================================
