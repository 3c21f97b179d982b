----------------------------- MODULE Sql_proofs -----------------------------
(***************************************************************************)
(* Proofs about the SQL analyzer's tokenizer (SqlMeta), for texts of any   *)
(* length: a text that is cut keeps all tokens but its last, and every     *)
(* text is read as it was written, whatever its lexemes contain.           *)
(***************************************************************************)
EXTENDS SqlMeta, Loops_proofs

-----------------------------------------------------------------------------
(* The least index from i on.                                              *)

Least(f, hits, i, end) ==
    \/ f \in hits /\ i <= f /\ \A k \in hits : i <= k => f <= k
    \/ f = end + 1 /\ \A k \in hits : ~ (i <= k)

(* FirstFrom returns it, or the one after the end.                         *)
LEMMA FirstLeast ==
    ASSUME NEW hits, hits \subseteq Nat, NEW i \in Nat, NEW end
    PROVE  Least(FirstFrom(hits, i, end), hits, i, end)
<1> DEFINE later == {j \in hits : i <= j}
           f == FirstFrom(hits, i, end)
<1>1. CASE later = {}
  <2>1. f = end + 1 BY <1>1, Zenon DEF FirstFrom
  <2>2. \A k \in hits : ~ (i <= k) BY <1>1, Zenon
  <2> QED BY <2>1, <2>2, Zenon DEF Least
<1>2. CASE later # {}
  <2>1. later \subseteq Nat BY Zenon
  <2>2. \E j \in later : \A k \in later : j <= k BY <1>2, <2>1, LeastMember, Zenon
  <2>3. f = CHOOSE j \in later : \A k \in later : j <= k BY <1>2, Zenon DEF FirstFrom
  <2>4. f \in later /\ \A k \in later : f <= k BY <2>2, <2>3, Zenon
  <2> HIDE DEF f
  <2>5. f \in hits /\ i <= f /\ \A k \in hits : i <= k => f <= k BY <2>4, Zenon
  <2> QED BY <2>5, Zenon DEF Least, f
<1> QED BY <1>1, <1>2

-----------------------------------------------------------------------------
(* Delimited text.                                                         *)

ScanSt(i, t, c) == [i |-> i, text |-> t, closed |-> c]
After(m) == {j \in Nat : j > m}
ScanStates(A, m) == [i : After(m), text : Seq(A), closed : BOOLEAN]
ScanSteps(h, sql, d, start) ==
    /\ h[0] = ScanSt(start + 1, <<>>, FALSE)
    /\ \A k \in 1..Len(sql) : h[k] = ScanRound(sql, d, h[k - 1])

(* A round keeps the types of the loop.                                    *)
LEMMA ScanTyped ==
    ASSUME NEW A, NEW sql \in Seq(A), NEW d, NEW m \in Nat, NEW s \in ScanStates(A, m)
    PROVE  ScanRound(sql, d, s) \in ScanStates(A, m)
<1>1. s.i \in Nat /\ s.i > m /\ s.text \in Seq(A) /\ s.closed \in BOOLEAN /\ Len(sql) \in Nat
  BY DEF ScanStates, After
<1>2. s.i + 1 \in After(m) /\ s.i + 2 \in After(m) BY <1>1 DEF After
<1>3. \A t \in Seq(A), j \in After(m), c \in BOOLEAN : [i |-> j, text |-> t, closed |-> c] \in ScanStates(A, m)
  BY Zenon DEF ScanStates
<1>4. CASE s.closed \/ s.i > Len(sql)
  <2>1. ScanRound(sql, d, s) = s BY <1>4, Zenon DEF ScanRound
  <2> QED BY <2>1
<1>5. CASE ~ (s.closed \/ s.i > Len(sql))
  <2>1. s.i \in 1..Len(sql) /\ sql[s.i] \in A BY <1>1, <1>5
  <2>2. Append(s.text, sql[s.i]) \in Seq(A) BY <1>1, <2>1
  <2>3. CASE sql[s.i] # d.close
    <3>1. ScanRound(sql, d, s) = [i |-> s.i + 1, text |-> Append(s.text, sql[s.i]), closed |-> FALSE]
      BY <1>5, <2>3, Zenon DEF ScanRound
    <3> QED BY <1>2, <1>3, <2>2, <3>1, Zenon
  <2>4. CASE sql[s.i] = d.close /\ (d.open = d.close /\ s.i < Len(sql) /\ sql[s.i + 1] = d.close)
    <3>1. ScanRound(sql, d, s) = [i |-> s.i + 2, text |-> Append(s.text, d.close), closed |-> FALSE]
      BY <1>5, <2>4, Zenon DEF ScanRound
    <3>2. Append(s.text, d.close) \in Seq(A) BY <2>2, <2>4, Zenon
    <3> QED BY <1>2, <1>3, <3>1, <3>2, Zenon
  <2>5. CASE sql[s.i] = d.close /\ ~ (d.open = d.close /\ s.i < Len(sql) /\ sql[s.i + 1] = d.close)
    <3>1. ScanRound(sql, d, s) = [i |-> s.i + 1, text |-> s.text, closed |-> TRUE]
      BY <1>5, <2>5, Zenon DEF ScanRound
    <3> QED BY <1>1, <1>2, <1>3, <3>1, Zenon
  <2> QED BY <2>3, <2>4, <2>5
<1> QED BY <1>4, <1>5

(* scanDelimited is the last state of its loop.                            *)
LEMMA ScanLoop ==
    ASSUME NEW A, NEW sql \in Seq(A), NEW d, NEW start \in Nat
    PROVE  \E h : /\ ScanSteps(h, sql, d, start)
                  /\ EndsAt(h, Len(sql), scanDelimited(sql, start, d))
                  /\ \A k \in 0..Len(sql) : h[k] \in ScanStates(A, start)
<1> DEFINE S == ScanStates(A, start)
           F == [s \in S |-> ScanRound(sql, d, s)]
           b == ScanSt(start + 1, <<>>, FALSE)
           n == Len(sql)
           Is(f) == f = [k \in 0..n |-> IF k = 0 THEN b ELSE ScanRound(sql, d, f[k - 1])]
<1>1. n \in Nat OBVIOUS
<1>2. b \in S
  <2>1. start + 1 \in After(start) /\ <<>> \in Seq(A) BY DEF After
  <2> QED BY <2>1, Zenon DEF ScanSt, ScanStates
<1>3. F \in [S -> S] BY ScanTyped
<1>4. \A s \in S : F[s] = ScanRound(sql, d, s) OBVIOUS
<1> HIDE DEF S, F
<1>5. PICK g : g = [k \in 0..n |-> g[k]] /\ Steps(g, F, b, n) /\ \A k \in 0..n : g[k] \in S
  BY <1>1, <1>2, <1>3, StepsExist, Zenon
<1> HIDE DEF n, b
<1>6. ASSUME NEW k \in 0..n PROVE g[k] = IF k = 0 THEN b ELSE ScanRound(sql, d, g[k - 1])
  <2>1. CASE k = 0 BY <2>1, <1>5, Zenon DEF Steps
  <2>2. CASE k # 0
    <3>1. k \in 1..n /\ k - 1 \in 0..n BY <1>1, <2>2
    <3>2. g[k] = F[g[k - 1]] /\ g[k - 1] \in S BY <1>5, <3>1, Zenon DEF Steps
    <3> QED BY <2>2, <3>2, <1>4, Zenon
  <2> QED BY <2>1, <2>2
<1>7. Is(g) BY <1>5, <1>6, Zenon
<1> DEFINE h == CHOOSE f : Is(f)
<1>8. Is(h) BY <1>7, Zenon
<1>9. scanDelimited(sql, start, d) = h[n] BY Zenon DEF scanDelimited, Rounds, ScanSt, b, n
<1> HIDE DEF h
<1>10. 0 \in 0..n /\ n \in 0..n BY <1>1
<1>11. \A k \in 0..n : h[k] = IF k = 0 THEN b ELSE ScanRound(sql, d, h[k - 1]) BY <1>8, Zenon
<1>12. g[0] = h[0] BY <1>6, <1>10, <1>11, Zenon
<1>13. ASSUME NEW k \in 1..n, g[k - 1] = h[k - 1] PROVE g[k] = h[k]
  <2>1. k \in 0..n BY <1>1
  <2> QED BY <2>1, <1>6, <1>11, <1>13, Zenon
<1>14. Agree(g, h, n) BY <1>1, <1>12, <1>13, AgreeByRounds, Zenon
<1>15. \A k \in 0..n : h[k] \in S BY <1>5, <1>14, Zenon DEF Agree
<1>16. ASSUME NEW k \in 1..n PROVE h[k] = ScanRound(sql, d, h[k - 1])
  <2>1. k \in 0..n /\ k # 0 BY <1>1
  <2> QED BY <2>1, <1>11, Zenon
<1>17. h[0] = b BY <1>10, <1>11, Zenon
<1>18. ScanSteps(h, sql, d, start) BY <1>16, <1>17, Zenon DEF ScanSteps, b, n
<1>19. EndsAt(h, Len(sql), scanDelimited(sql, start, d)) BY <1>9, Zenon DEF EndsAt, n
<1> QED BY <1>15, <1>18, <1>19, Zenon DEF n, S
Fields(s, j, t, c) == s.i = j /\ s.text = t /\ s.closed = c

(* The fields of a state of the loop.                                      *)
LEMMA ScanFields ==
    ASSUME NEW s, NEW j, NEW t, NEW c, s = ScanSt(j, t, c)
    PROVE  Fields(s, j, t, c)
BY DEF ScanSt, Fields

(* What a round does, case by case.                                        *)
ScanRoundIs(sql, d, s) ==
    LET r == ScanRound(sql, d, s)
        escaped == d.open = d.close /\ s.i < Len(sql) /\ sql[s.i + 1] = d.close
    IN  /\ s.closed \/ s.i > Len(sql) => r = s
        /\ ~ (s.closed \/ s.i > Len(sql)) =>
             /\ sql[s.i] # d.close => r = ScanSt(s.i + 1, Append(s.text, sql[s.i]), FALSE)
             /\ sql[s.i] = d.close /\ escaped => r = ScanSt(s.i + 2, Append(s.text, d.close), FALSE)
             /\ sql[s.i] = d.close /\ ~ escaped => r = ScanSt(s.i + 1, s.text, TRUE)

LEMMA ScanRounds == ASSUME NEW sql, NEW d, NEW s PROVE ScanRoundIs(sql, d, s)
BY Zenon DEF ScanRoundIs, ScanRound, ScanSt

(* The loop goes on a byte at least in every round until it ends.          *)
LEMMA ScanEnds ==
    ASSUME NEW A, NEW sql \in Seq(A), NEW d, NEW start \in Nat, NEW h,
           ScanSteps(h, sql, d, start), \A k \in 0..Len(sql) : h[k] \in ScanStates(A, start)
    PROVE  \A k \in 0..Len(sql) : h[k].closed \/ h[k].i > Len(sql) \/ h[k].i > start + k
<1> DEFINE n == Len(sql)
           P == {k \in Nat : k <= n => h[k].closed \/ h[k].i > n \/ h[k].i > start + k}
<1>0. n \in Nat OBVIOUS
<1>1. 0 \in P
  <2>0. h[0] = ScanSt(start + 1, <<>>, FALSE) BY Zenon DEF ScanSteps
  <2>a. Fields(h[0], start + 1, <<>>, FALSE) BY <2>0, ScanFields, Zenon
  <2>1. h[0].i = start + 1 BY <2>a, Zenon DEF Fields
  <2> QED BY <2>1
<1>2. ASSUME NEW k \in Nat, k \in P PROVE k + 1 \in P
  <2> SUFFICES ASSUME k + 1 <= n PROVE h[k + 1].closed \/ h[k + 1].i > n \/ h[k + 1].i > start + (k + 1)
    OBVIOUS
  <2>1. k \in 0..n /\ k + 1 \in 1..n /\ (k + 1) - 1 = k /\ k <= n OBVIOUS
  <2> DEFINE s == h[k]
  <2>2. h[k + 1] = ScanRound(sql, d, s) BY <2>1, Zenon DEF ScanSteps
  <2>3. s.closed \/ s.i > n \/ s.i > start + k BY <1>2, <2>1
  <2>4. s.i \in Nat BY <2>1 DEF ScanStates, After
  <2> HIDE DEF s
  <2>5. CASE s.closed \/ s.i > n
    <3>1. h[k + 1] = s BY <2>2, <2>5, Zenon DEF ScanRound
    <3> QED BY <2>5, <3>1, Zenon
  <2>6. CASE ~ (s.closed \/ s.i > n)
    <3>0. ScanRoundIs(sql, d, s) BY ScanRounds, Zenon
    <3> DEFINE r == h[k + 1]
               x1 == Append(s.text, sql[s.i])
               x2 == Append(s.text, d.close)
    <3>1. r = ScanSt(s.i + 1, x1, FALSE) \/ r = ScanSt(s.i + 2, x2, FALSE) \/ r = ScanSt(s.i + 1, s.text, TRUE)
      BY <2>2, <2>6, <3>0, Zenon DEF ScanRoundIs
    <3> HIDE DEF r, x1, x2
    <3>a. Fields(r, s.i + 1, x1, FALSE) \/ Fields(r, s.i + 2, x2, FALSE) \/ Fields(r, s.i + 1, s.text, TRUE)
      BY <3>1, ScanFields, Zenon
    <3>2. h[k + 1].i = s.i + 1 \/ h[k + 1].i = s.i + 2 BY <3>a, Zenon DEF Fields, r
    <3> QED BY <2>3, <2>4, <2>6, <3>2
  <2> QED BY <2>5, <2>6, Zenon
<1> HIDE DEF P
<1>3. \A k \in Nat : k \in P BY <1>1, <1>2, Induction, Zenon
<1>4. ASSUME NEW k \in 0..n PROVE h[k].closed \/ h[k].i > n \/ h[k].i > start + k
  <2>1. k \in Nat /\ k <= n BY <1>0
  <2> QED BY <1>3, <2>1, Zenon DEF P
<1> QED BY <1>4, Zenon

-----------------------------------------------------------------------------
(* One round of the tokenizer.                                             *)

Opens == {d.open : d \in Delims}
Near(sql, i, x) == i < Len(sql) /\ sql[i + 1] = x
DelimOf(c) == CHOOSE d \in Delims : d.open = c

(* The classes of bytes the round tells apart have no byte in common.      *)
Apart(c) ==
    /\ c = Dash => c # Slash /\ c # Quote /\ c \notin Opens /\ c \notin Punctuation /\ ~ isIdentChar(c)
    /\ c = Slash => c # Quote /\ c \notin Opens /\ c \notin Punctuation /\ ~ isIdentChar(c)
    /\ c = Quote => c \notin Opens /\ c \notin Punctuation /\ ~ isIdentChar(c)
    /\ c \in Opens => c \notin Punctuation /\ ~ isIdentChar(c)
    /\ c \in Punctuation => ~ isIdentChar(c)

(* The delimiters that open a quoted name.                                 *)
LEMMA OpensAre == Opens = {DQuote, Backquote, OpenBracket}
<1> DEFINE D(x, y) == [open |-> x, close |-> y]
<1>1. \A x, y : D(x, y).open = x OBVIOUS
<1>2. Delims = {D(DQuote, DQuote), D(Backquote, Backquote), D(OpenBracket, CloseBracket)} BY Zenon DEF Delims
<1> HIDE DEF D
<1>3. ASSUME NEW x PROVE x \in Opens <=> x \in {DQuote, Backquote, OpenBracket}
  <2>1. x \in Opens <=> \E d \in Delims : x = d.open BY Zenon DEF Opens
  <2> QED BY <1>1, <1>2, <2>1, Zenon
<1> QED BY <1>3

(* What the classes are.                                                   *)
LEMMA BytesApart == ASSUME NEW c PROVE Apart(c)
<1>1. c = Dash => c # Slash /\ c # Quote /\ c \notin Opens /\ c \notin Punctuation /\ ~ isIdentChar(c)
  BY OpensAre, Zenon DEF Dash, Slash, Quote, DQuote, Backquote, OpenBracket, Punctuation, isIdentChar
<1>2. c = Slash => c # Quote /\ c \notin Opens /\ c \notin Punctuation /\ ~ isIdentChar(c)
  BY OpensAre, Zenon DEF Slash, Quote, DQuote, Backquote, OpenBracket, Punctuation, isIdentChar
<1>3. c = Quote => c \notin Opens /\ c \notin Punctuation /\ ~ isIdentChar(c)
  BY OpensAre, Zenon DEF Quote, DQuote, Backquote, OpenBracket, Punctuation, isIdentChar
<1>4. c \in Opens => c \notin Punctuation /\ ~ isIdentChar(c)
  BY OpensAre, Zenon DEF DQuote, Backquote, OpenBracket, Punctuation, isIdentChar
<1>5. c \in Punctuation => ~ isIdentChar(c)
  BY Zenon DEF Punctuation, isIdentChar
<1> QED BY <1>1, <1>2, <1>3, <1>4, <1>5, Zenon DEF Apart

Comment(sql, i) == sql[i] = Dash /\ Near(sql, i, Dash)
Block(sql, i) == sql[i] = Slash /\ Near(sql, i, Star)
Other(sql, i) == /\ ~ Comment(sql, i) /\ ~ Block(sql, i) /\ sql[i] # Quote /\ sql[i] \notin Opens
                 /\ sql[i] \notin Punctuation /\ ~ isIdentChar(sql[i])

(* What a round does, class by class.                                      *)
RoundIs(sql, s, b) ==
    LET i == s.i
        r == TokenRound(sql, s, b)
    IN  /\ Comment(sql, i) => r = Skip(s, LineEnd(sql, i + 2))
        /\ Block(sql, i) => r = Skip(s, BlockEnd(sql, i + b))
        /\ sql[i] = Quote => r = Skip(s, StringEnd(sql, i))
        /\ sql[i] \in Opens =>
             r = Emit(s, scanDelimited(sql, i, DelimOf(sql[i])).i,
                      Token(scanDelimited(sql, i, DelimOf(sql[i])).text, TRUE))
        /\ sql[i] \in Punctuation => r = Emit(s, i + 1, Token(<<sql[i]>>, FALSE))
        /\ isIdentChar(sql[i]) =>
             r = Emit(s, WordEnd(sql, i), Token(SubSeq(sql, i, WordEnd(sql, i) - 1), FALSE))
        /\ Other(sql, i) => r = Skip(s, i + 1)

(* The round's choice is the class of its byte.                            *)
LEMMA RoundKinds == ASSUME NEW sql, NEW s, NEW b, ~ (s.i > Len(sql)) PROVE RoundIs(sql, s, b)
<1> DEFINE i == s.i
           c == sql[i]
           r == TokenRound(sql, s, b)
           C1 == Comment(sql, i)
           C2 == Block(sql, i)
           C3 == c = Quote
           C4 == c \in Opens
           C5 == c \in Punctuation
           C6 == isIdentChar(c)
           v1 == Skip(s, LineEnd(sql, i + 2))
           v2 == Skip(s, BlockEnd(sql, i + b))
           v3 == Skip(s, StringEnd(sql, i))
           v4 == Emit(s, scanDelimited(sql, i, DelimOf(c)).i, Token(scanDelimited(sql, i, DelimOf(c)).text, TRUE))
           v5 == Emit(s, i + 1, Token(<<c>>, FALSE))
           v6 == Emit(s, WordEnd(sql, i), Token(SubSeq(sql, i, WordEnd(sql, i) - 1), FALSE))
           v7 == Skip(s, i + 1)
<1>1. r = CASE C1 -> v1 [] C2 -> v2 [] C3 -> v3 [] C4 -> v4 [] C5 -> v5 [] C6 -> v6 [] OTHER -> v7
  BY Zenon DEF TokenRound, Comment, Block, Near, Opens, DelimOf
<1>2. Apart(c) BY BytesApart, Zenon
<1>3. /\ C1 => ~C2 /\ ~C3 /\ ~C4 /\ ~C5 /\ ~C6
      /\ C2 => ~C3 /\ ~C4 /\ ~C5 /\ ~C6
      /\ C3 => ~C4 /\ ~C5 /\ ~C6
      /\ C4 => ~C5 /\ ~C6
      /\ C5 => ~C6
  BY <1>2, Zenon DEF Apart, Comment, Block
<1>4. Other(sql, i) => ~C1 /\ ~C2 /\ ~C3 /\ ~C4 /\ ~C5 /\ ~C6 BY Zenon DEF Other
<1> HIDE DEF r, C1, C2, C3, C4, C5, C6, v1, v2, v3, v4, v5, v6, v7
<1>5. (C1 => r = v1) /\ (C2 => r = v2) /\ (C3 => r = v3) /\ (C4 => r = v4) /\ (C5 => r = v5) /\ (C6 => r = v6)
  BY <1>1, <1>3
<1>6. Other(sql, i) => r = v7 BY <1>1, <1>4
<1> QED BY <1>5, <1>6, Zenon DEF RoundIs, r, C1, C2, C3, C4, C5, C6, v1, v2, v3, v4, v5, v6, v7

-----------------------------------------------------------------------------
(* A round goes on.                                                        *)

(* The end of a line comment.                                              *)
LEMMA LineLater ==
    ASSUME NEW A, NEW sql \in Seq(A), NEW i \in Nat, i <= Len(sql) + 1
    PROVE  LineEnd(sql, i) \in Nat /\ i <= LineEnd(sql, i)
<1> DEFINE hits == {j \in DOMAIN sql : sql[j] = NewLine}
           f == FirstFrom(hits, i, Len(sql))
<1>1. hits \subseteq Nat OBVIOUS
<1>2. Least(f, hits, i, Len(sql)) BY <1>1, FirstLeast, Zenon
<1>3. LineEnd(sql, i) = f BY Zenon DEF LineEnd
<1>4. Len(sql) \in Nat OBVIOUS
<1> HIDE DEF f, hits
<1>5. f \in Nat /\ i <= f
  <2>1. CASE f \in hits /\ i <= f
    <3>1. f \in Nat BY <1>1, <2>1
    <3> QED BY <2>1, <3>1
  <2>2. CASE f = Len(sql) + 1 BY <1>4, <2>2
  <2> QED BY <1>2, <2>1, <2>2, Zenon DEF Least
<1> QED BY <1>3, <1>5, Zenon

(* The end of a block comment.                                             *)
LEMMA BlockLater ==
    ASSUME NEW A, NEW sql \in Seq(A), NEW i \in Nat, i <= Len(sql) + 1
    PROVE  BlockEnd(sql, i) \in Nat /\ i <= BlockEnd(sql, i)
<1> DEFINE hits == {j \in 1..(Len(sql) - 1) : sql[j] = Star /\ sql[j + 1] = Slash}
           f == FirstFrom(hits, i, Len(sql))
<1>4. Len(sql) \in Nat OBVIOUS
<1>1. hits \subseteq Nat BY <1>4
<1>2. Least(f, hits, i, Len(sql)) BY <1>1, FirstLeast, Zenon
<1>3. BlockEnd(sql, i) = IF f > Len(sql) THEN f ELSE f + 2 BY Zenon DEF BlockEnd
<1> HIDE DEF f, hits
<1>5. f \in Nat /\ i <= f
  <2>1. CASE f \in hits /\ i <= f
    <3>1. f \in Nat BY <1>1, <2>1
    <3> QED BY <2>1, <3>1
  <2>2. CASE f = Len(sql) + 1 BY <1>4, <2>2
  <2> QED BY <1>2, <2>1, <2>2, Zenon DEF Least
<1> QED BY <1>3, <1>4, <1>5

(* The end of a word.                                                      *)
LEMMA WordLater ==
    ASSUME NEW A, NEW sql \in Seq(A), NEW i \in 1..Len(sql), isIdentChar(sql[i])
    PROVE  WordEnd(sql, i) \in After(i) /\ WordEnd(sql, i) <= Len(sql) + 1
<1> DEFINE hits == {j \in DOMAIN sql : ~ isIdentChar(sql[j])}
           f == FirstFrom(hits, i, Len(sql))
<1>4. Len(sql) \in Nat /\ i \in Nat /\ i <= Len(sql) /\ DOMAIN sql = 1..Len(sql) OBVIOUS
<1>1. hits \subseteq Nat /\ hits \subseteq 1..Len(sql) BY <1>4
<1>2. Least(f, hits, i, Len(sql)) BY <1>1, <1>4, FirstLeast, Zenon
<1>3. WordEnd(sql, i) = f BY Zenon DEF WordEnd
<1>5. i \notin hits BY Zenon
<1> HIDE DEF f, hits
<1>6. f \in Nat /\ f > i /\ f <= Len(sql) + 1
  <2>1. CASE f \in hits /\ i <= f
    <3>1. f \in 1..Len(sql) /\ f # i BY <1>1, <1>5, <2>1
    <3> QED BY <1>4, <2>1, <3>1
  <2>2. CASE f = Len(sql) + 1 BY <1>4, <2>2
  <2> QED BY <1>2, <2>1, <2>2, Zenon DEF Least
<1> QED BY <1>3, <1>6, Zenon DEF After

(* The end of delimited text.                                              *)
LEMMA ScanLater ==
    ASSUME NEW A, NEW sql \in Seq(A), NEW d, NEW i \in Nat
    PROVE  scanDelimited(sql, i, d).i \in After(i) /\ scanDelimited(sql, i, d).text \in Seq(A)
<1> DEFINE x == scanDelimited(sql, i, d)
<1>1. PICK h : /\ EndsAt(h, Len(sql), x)
               /\ \A k \in 0..Len(sql) : h[k] \in ScanStates(A, i)
  BY ScanLoop, Zenon
<1>2. Len(sql) \in 0..Len(sql) OBVIOUS
<1>3. x \in ScanStates(A, i) BY <1>1, <1>2, Zenon DEF EndsAt
<1> HIDE DEF x
<1>4. x.i \in After(i) /\ x.text \in Seq(A) BY <1>3 DEF ScanStates
<1> QED BY <1>4, Zenon DEF x

Tok(A) == [text : Seq(A), quoted : BOOLEAN]
TokStates(A) == [i : After(0), toks : Seq(Tok(A))]
Advances(r, s, A) ==
    \/ \E j \in After(s.i) : r = Skip(s, j)
    \/ \E j \in After(s.i), t \in Tok(A) : r = Emit(s, j, t)

(* A round goes on at least a byte and adds a token at most.               *)
LEMMA RoundAdvances ==
    ASSUME NEW A, NEW sql \in Seq(A), NEW s, s.i \in 1..Len(sql), NEW b \in {1, 2}
    PROVE  Advances(TokenRound(sql, s, b), s, A)
<1> DEFINE i == s.i
           c == sql[i]
           r == TokenRound(sql, s, b)
<1>1. Len(sql) \in Nat /\ i \in Nat /\ i >= 1 /\ i <= Len(sql) /\ ~ (i > Len(sql)) /\ c \in A OBVIOUS
<1>2. RoundIs(sql, s, b) BY <1>1, RoundKinds, Zenon
<1>3. i + 1 \in After(i) BY <1>1 DEF After
<1>4. \A t, q : t \in Seq(A) /\ q \in BOOLEAN => Token(t, q) \in Tok(A) BY Zenon DEF Token, Tok
<1>5. CASE Comment(sql, i)
  <2>1. i + 2 \in Nat /\ i + 2 <= Len(sql) + 1 BY <1>1, <1>5 DEF Comment, Near
  <2> DEFINE j == LineEnd(sql, i + 2)
  <2>2. j \in Nat /\ i + 2 <= j BY <2>1, LineLater, Zenon
  <2>3. r = Skip(s, j) BY <1>2, <1>5, Zenon DEF RoundIs
  <2> HIDE DEF j
  <2>4. j \in After(i) BY <1>1, <2>2 DEF After
  <2> QED BY <2>3, <2>4, Zenon DEF Advances
<1>6. CASE Block(sql, i)
  <2>1. i + b \in Nat /\ i + b <= Len(sql) + 1 BY <1>1, <1>6 DEF Block, Near
  <2> DEFINE j == BlockEnd(sql, i + b)
  <2>2. j \in Nat /\ i + b <= j BY <2>1, BlockLater, Zenon
  <2>3. r = Skip(s, j) BY <1>2, <1>6, Zenon DEF RoundIs
  <2> HIDE DEF j
  <2>4. j \in After(i) BY <1>1, <2>2 DEF After
  <2> QED BY <2>3, <2>4, Zenon DEF Advances
<1>7. CASE c = Quote
  <2>1. r = Skip(s, StringEnd(sql, i)) BY <1>2, <1>7, Zenon DEF RoundIs
  <2>2. StringEnd(sql, i) \in After(i) BY <1>1, ScanLater, Zenon DEF StringEnd
  <2> QED BY <2>1, <2>2, Zenon DEF Advances
<1>8. CASE c \in Opens
  <2> DEFINE x == scanDelimited(sql, i, DelimOf(c))
             t == Token(x.text, TRUE)
  <2>1. r = Emit(s, x.i, t) BY <1>2, <1>8, Zenon DEF RoundIs
  <2>2. x.i \in After(i) /\ x.text \in Seq(A) BY <1>1, ScanLater, Zenon
  <2>3. t \in Tok(A) BY <1>4, <2>2, Zenon
  <2> QED BY <2>1, <2>2, <2>3, Zenon DEF Advances
<1>9. CASE c \in Punctuation
  <2>1. r = Emit(s, i + 1, Token(<<c>>, FALSE)) BY <1>2, <1>9, Zenon DEF RoundIs
  <2>2. <<c>> \in Seq(A) BY <1>1
  <2>3. Token(<<c>>, FALSE) \in Tok(A) BY <1>4, <2>2, Zenon
  <2> QED BY <1>3, <2>1, <2>3, Zenon DEF Advances
<1>10. CASE isIdentChar(c)
  <2> DEFINE j == WordEnd(sql, i)
             x == SubSeq(sql, i, j - 1)
  <2>1. r = Emit(s, j, Token(x, FALSE)) BY <1>2, <1>10, Zenon DEF RoundIs
  <2>2. j \in After(i) /\ j <= Len(sql) + 1 BY <1>10, WordLater, Zenon
  <2> HIDE DEF j
  <2>3. x \in Seq(A)
    <3>1. j - 1 \in i..Len(sql) BY <1>1, <2>2 DEF After
    <3>2. i \in 1..(Len(sql) + 1) BY <1>1
    <3> QED BY <1>1, <3>1
  <2>4. Token(x, FALSE) \in Tok(A) BY <1>4, <2>3, Zenon
  <2> QED BY <2>1, <2>2, <2>4, Zenon DEF Advances
<1>11. CASE Other(sql, i)
  <2>1. r = Skip(s, i + 1) BY <1>2, <1>11, Zenon DEF RoundIs
  <2> QED BY <1>3, <2>1, Zenon DEF Advances
<1> QED BY <1>5, <1>6, <1>7, <1>8, <1>9, <1>10, <1>11, Zenon DEF Other

TokSt(j, toks) == [i |-> j, toks |-> toks]
TokFields(s, j, toks) == s.i = j /\ s.toks = toks

(* The fields of a state of the tokenizer.                                 *)
LEMMA TokStFields == ASSUME NEW s, NEW j, NEW toks, s = TokSt(j, toks) PROVE TokFields(s, j, toks)
BY DEF TokSt, TokFields

(* A round keeps the types of the loop.                                    *)
LEMMA RoundTyped ==
    ASSUME NEW A, NEW sql \in Seq(A), NEW s \in TokStates(A), NEW b \in {1, 2}
    PROVE  TokenRound(sql, s, b) \in TokStates(A)
<1> DEFINE r == TokenRound(sql, s, b)
<1>1. s.i \in Nat /\ s.i > 0 /\ s.toks \in Seq(Tok(A)) /\ Len(sql) \in Nat BY DEF TokStates, After
<1>2. CASE s.i > Len(sql)
  <2>1. r = s BY <1>2, Zenon DEF TokenRound
  <2> QED BY <2>1
<1>3. CASE ~ (s.i > Len(sql))
  <2>1. s.i \in 1..Len(sql) BY <1>1, <1>3
  <2>2. Advances(r, s, A) BY <2>1, RoundAdvances, Zenon
  <2> HIDE DEF r
  <2>3. \A j, x : j \in After(0) /\ x \in Seq(Tok(A)) => [i |-> j, toks |-> x] \in TokStates(A)
    BY Zenon DEF TokStates
  <2>4. \A j \in After(s.i) : j \in After(0) BY <1>1 DEF After
  <2>5. \A t \in Tok(A) : Append(s.toks, t) \in Seq(Tok(A)) BY <1>1
  <2>8. r \in TokStates(A)
    <3>6. CASE \E j \in After(s.i) : r = Skip(s, j)
      BY <1>1, <2>3, <2>4, <3>6, Zenon DEF Skip
    <3>7. CASE \E j \in After(s.i), t \in Tok(A) : r = Emit(s, j, t)
      BY <2>3, <2>4, <2>5, <3>7, Zenon DEF Emit
    <3> QED BY <2>2, <3>6, <3>7, Zenon DEF Advances
  <2> QED BY <2>8, Zenon DEF r
<1> QED BY <1>2, <1>3

TokSteps(h, sql, b) ==
    /\ h[0] = TokSt(1, <<>>)
    /\ \A k \in 1..Len(sql) : h[k] = TokenRound(sql, h[k - 1], b)

(* tokenize is the last state of its loop.                                 *)
LEMMA TokLoop ==
    ASSUME NEW A, NEW sql \in Seq(A), NEW bb \in {1, 2}
    PROVE  \E h : /\ TokSteps(h, sql, bb)
                  /\ TokensOf(sql, bb) = h[Len(sql)].toks
                  /\ \A k \in 0..Len(sql) : h[k] \in TokStates(A)
<1> DEFINE S == TokStates(A)
           F == [s \in S |-> TokenRound(sql, s, bb)]
           b == TokSt(1, <<>>)
           n == Len(sql)
           Is(f) == f = [k \in 0..n |-> IF k = 0 THEN b ELSE TokenRound(sql, f[k - 1], bb)]
<1>1. n \in Nat OBVIOUS
<1>2. b \in S
  <2>1. 1 \in After(0) /\ <<>> \in Seq(Tok(A)) BY DEF After
  <2> QED BY <2>1, Zenon DEF TokSt, TokStates
<1>3. F \in [S -> S] BY RoundTyped
<1>4. \A s \in S : F[s] = TokenRound(sql, s, bb) OBVIOUS
<1> HIDE DEF S, F
<1>5. PICK g : g = [k \in 0..n |-> g[k]] /\ Steps(g, F, b, n) /\ \A k \in 0..n : g[k] \in S
  BY <1>1, <1>2, <1>3, StepsExist, Zenon
<1> HIDE DEF n, b
<1>6. ASSUME NEW k \in 0..n PROVE g[k] = IF k = 0 THEN b ELSE TokenRound(sql, g[k - 1], bb)
  <2>1. CASE k = 0 BY <2>1, <1>5, Zenon DEF Steps
  <2>2. CASE k # 0
    <3>1. k \in 1..n /\ k - 1 \in 0..n BY <1>1, <2>2
    <3>2. g[k] = F[g[k - 1]] /\ g[k - 1] \in S BY <1>5, <3>1, Zenon DEF Steps
    <3> QED BY <2>2, <3>2, <1>4, Zenon
  <2> QED BY <2>1, <2>2
<1>7. Is(g) BY <1>5, <1>6, Zenon
<1> DEFINE h == CHOOSE f : Is(f)
<1>8. Is(h) BY <1>7, Zenon
<1>9. TokensOf(sql, bb) = h[n].toks BY Zenon DEF TokensOf, Rounds, TokSt, b, n
<1> HIDE DEF h
<1>10. 0 \in 0..n /\ n \in 0..n BY <1>1
<1>11. \A k \in 0..n : h[k] = IF k = 0 THEN b ELSE TokenRound(sql, h[k - 1], bb) BY <1>8, Zenon
<1>12. g[0] = h[0] BY <1>6, <1>10, <1>11, Zenon
<1>13. ASSUME NEW k \in 1..n, g[k - 1] = h[k - 1] PROVE g[k] = h[k]
  <2>1. k \in 0..n BY <1>1
  <2> QED BY <2>1, <1>6, <1>11, <1>13, Zenon
<1>14. Agree(g, h, n) BY <1>1, <1>12, <1>13, AgreeByRounds, Zenon
<1>15. \A k \in 0..n : h[k] \in S BY <1>5, <1>14, Zenon DEF Agree
<1>16. ASSUME NEW k \in 1..n PROVE h[k] = TokenRound(sql, h[k - 1], bb)
  <2>1. k \in 0..n /\ k # 0 BY <1>1
  <2> QED BY <2>1, <1>11, Zenon
<1>17. h[0] = b BY <1>10, <1>11, Zenon
<1>18. TokSteps(h, sql, bb) BY <1>16, <1>17, Zenon DEF TokSteps, b, n
<1> QED BY <1>9, <1>15, <1>18, Zenon DEF n, S

-----------------------------------------------------------------------------
(* A text and what is left of it at the byte cap.                          *)

IsCut(cut, sql, n, A) ==
    /\ cut \in Seq(A) /\ Len(cut) = n /\ n \in Nat /\ n <= Len(sql)
    /\ \A j \in 1..n : cut[j] = sql[j]
Meets(a, b, n) == a = b \/ a > n
SameOrPast(x, y, n) == x = y \/ x.i > n

(* The least index is the same, or past the cut.                           *)
LEMMA FirstCut ==
    ASSUME NEW n \in Nat, NEW N \in Nat, n <= N, NEW i \in Nat, NEW e \in Int, NEW H, NEW G, G \subseteq Nat,
           H \subseteq G, \A k \in H : k <= e, \A k \in G : k \in H \/ k > e
    PROVE  Meets(FirstFrom(H, i, n), FirstFrom(G, i, N), n)
<1> DEFINE f == FirstFrom(H, i, n)
           g == FirstFrom(G, i, N)
<1>1. H \subseteq Nat OBVIOUS
<1>2. Least(f, H, i, n) BY <1>1, FirstLeast, Zenon
<1>3. Least(g, G, i, N) BY FirstLeast, Zenon
<1> HIDE DEF f, g
<1>4. CASE f \in H /\ i <= f /\ \A k \in H : i <= k => f <= k
  <2>1. f \in G /\ f <= e /\ f \in Nat BY <1>4
  <2>2. \A k \in G : i <= k => f <= k
    <3>1. ASSUME NEW k \in G, i <= k PROVE f <= k
      <4>1. CASE k \in H BY <1>4, <3>1, <4>1
      <4>2. CASE k > e
        <5>1. k \in Nat OBVIOUS
        <5> QED BY <2>1, <4>2, <5>1
      <4> QED BY <4>1, <4>2
    <3> QED BY <3>1
  <2>3. ~ (\A k \in G : ~ (i <= k)) BY <1>4, <2>1, Zenon
  <2>4. g \in G /\ i <= g /\ \A k \in G : i <= k => g <= k BY <1>3, <2>3, Zenon DEF Least
  <2>5. f <= g /\ g <= f /\ g \in Nat BY <1>4, <2>1, <2>2, <2>4
  <2>6. f = g BY <2>1, <2>5
  <2> QED BY <2>6, Zenon DEF Meets, f, g
<1>5. CASE f = n + 1
  <2>1. f > n BY <1>5
  <2> QED BY <2>1, Zenon DEF Meets, f, g
<1> QED BY <1>2, <1>4, <1>5, Zenon DEF Least

(* Delimited text is the same, or runs past the cut.                       *)
LEMMA ScanCut ==
    ASSUME NEW A, NEW sql \in Seq(A), NEW cut, NEW n, IsCut(cut, sql, n, A), NEW d, NEW start \in Nat
    PROVE  SameOrPast(scanDelimited(cut, start, d), scanDelimited(sql, start, d), n)
<1> DEFINE N == Len(sql)
           x == scanDelimited(cut, start, d)
           y == scanDelimited(sql, start, d)
<1>1. N \in Nat /\ n \in Nat /\ n <= N /\ cut \in Seq(A) /\ Len(cut) = n /\ \A j \in 1..n : cut[j] = sql[j]
  BY DEF IsCut
<1>2. PICK g : /\ ScanSteps(g, cut, d, start) /\ EndsAt(g, Len(cut), x)
               /\ \A k \in 0..Len(cut) : g[k] \in ScanStates(A, start)
  BY <1>1, ScanLoop, Zenon
<1>3. PICK h : /\ ScanSteps(h, sql, d, start) /\ EndsAt(h, Len(sql), y)
               /\ \A k \in 0..Len(sql) : h[k] \in ScanStates(A, start)
  BY ScanLoop, Zenon
<1>4. \A k \in 0..Len(cut) : g[k].closed \/ g[k].i > Len(cut) \/ g[k].i > start + k
  BY <1>1, <1>2, ScanEnds, Zenon
<1>a. /\ \A k \in 0..n : g[k] \in ScanStates(A, start) /\ (g[k].closed \/ g[k].i > n \/ g[k].i > start + k)
      /\ \A k \in 1..n : g[k] = ScanRound(cut, d, g[k - 1])
      /\ \A k \in 1..N : h[k] = ScanRound(sql, d, h[k - 1])
      /\ g[0] = h[0] /\ g[n] = x /\ h[N] = y
  BY <1>1, <1>2, <1>3, <1>4, Zenon DEF ScanSteps, EndsAt
<1> HIDE DEF x, y, N
<1> DEFINE P == {k \in Nat : k <= n => SameOrPast(g[k], h[k], n)}
<1>5. 0 \in P BY <1>a, Zenon DEF SameOrPast
<1>6. ASSUME NEW k \in Nat, k \in P PROVE k + 1 \in P
  <2> SUFFICES ASSUME k + 1 <= n PROVE SameOrPast(g[k + 1], h[k + 1], n)
    OBVIOUS
  <2>1. k \in 0..n /\ k + 1 \in 1..n /\ k + 1 \in 1..N /\ (k + 1) - 1 = k /\ k <= n BY <1>1
  <2> DEFINE s == g[k]
             q == cut[s.i]
             rc == ScanRound(cut, d, s)
             rs == ScanRound(sql, d, s)
  <2>2. g[k + 1] = rc /\ h[k + 1] = ScanRound(sql, d, h[k]) BY <1>a, <2>1, Zenon
  <2>3. SameOrPast(s, h[k], n) BY <1>6, <2>1, Zenon
  <2>4. ScanRoundIs(cut, d, s) /\ ScanRoundIs(sql, d, s) BY ScanRounds, Zenon
  <2>5. s.i \in Nat /\ s.i > start
    <3>1. s \in ScanStates(A, start) BY <1>a, <2>1, Zenon
    <3> QED BY <3>1 DEF ScanStates, After
  <2> HIDE DEF s
  <2>6. CASE s.i > n
    <3>1. s.i > Len(cut) BY <1>1, <2>6, Zenon
    <3>2. rc = s BY <2>4, <3>1, Zenon DEF ScanRoundIs
    <3> QED BY <2>2, <2>6, <3>2, Zenon DEF SameOrPast
  <2>7. CASE ~ (s.i > n)
    <3>1. h[k + 1] = rs BY <2>2, <2>3, <2>7, Zenon DEF SameOrPast
    <3>2. s.i \in 1..n /\ ~ (s.i > N) /\ ~ (s.i > Len(cut)) BY <1>1, <2>5, <2>7
    <3>3. cut[s.i] = sql[s.i] BY <1>1, <3>2, Zenon
    <3>4. s.i < n => /\ s.i < Len(sql) /\ s.i < Len(cut) /\ cut[s.i + 1] = sql[s.i + 1]
      <4>1. ASSUME s.i < n PROVE s.i + 1 \in 1..n /\ s.i < N /\ s.i < Len(cut) BY <1>1, <3>2, <4>1
      <4> QED BY <1>1, <4>1, Zenon DEF N
    <3> DEFINE ec == d.open = d.close /\ s.i < Len(cut) /\ cut[s.i + 1] = d.close
               es == d.open = d.close /\ s.i < Len(sql) /\ sql[s.i + 1] = d.close
    <3> HIDE DEF rc, rs
    <3>5. CASE s.closed
      <4>1. rc = s /\ rs = s BY <2>4, <3>5, Zenon DEF ScanRoundIs, rc, rs
      <4> QED BY <2>2, <3>1, <4>1, Zenon DEF SameOrPast
    <3>6. CASE ~ s.closed /\ cut[s.i] # d.close
      <4>1. rc = ScanSt(s.i + 1, Append(s.text, cut[s.i]), FALSE) BY <2>4, <3>2, <3>6, Zenon DEF ScanRoundIs, rc
      <4>2. rs = ScanSt(s.i + 1, Append(s.text, sql[s.i]), FALSE)
        BY <2>4, <3>2, <3>3, <3>6, Zenon DEF ScanRoundIs, rs, N
      <4>3. rc = rs BY <3>3, <4>1, <4>2, Zenon
      <4> QED BY <2>2, <3>1, <4>3, Zenon DEF SameOrPast
    <3>7. CASE ~ s.closed /\ cut[s.i] = d.close /\ s.i < n
      <4>0. ec <=> es BY <3>4, <3>7, Zenon
      <4>1. CASE ec
        <5>1. rc = ScanSt(s.i + 2, Append(s.text, d.close), FALSE) BY <2>4, <3>2, <3>7, <4>1, Zenon DEF ScanRoundIs, rc
        <5>2. rs = ScanSt(s.i + 2, Append(s.text, d.close), FALSE)
          BY <2>4, <3>2, <3>3, <3>7, <4>0, <4>1, Zenon DEF ScanRoundIs, rs, N
        <5>3. rc = rs BY <5>1, <5>2, Zenon
        <5> QED BY <2>2, <3>1, <5>3, Zenon DEF SameOrPast
      <4>2. CASE ~ ec
        <5>1. rc = ScanSt(s.i + 1, s.text, TRUE) BY <2>4, <3>2, <3>7, <4>2, Zenon DEF ScanRoundIs, rc
        <5>2. rs = ScanSt(s.i + 1, s.text, TRUE)
          BY <2>4, <3>2, <3>3, <3>7, <4>0, <4>2, Zenon DEF ScanRoundIs, rs, N
        <5>3. rc = rs BY <5>1, <5>2, Zenon
        <5> QED BY <2>2, <3>1, <5>3, Zenon DEF SameOrPast
      <4> QED BY <4>1, <4>2
    <3>8. CASE ~ s.closed /\ cut[s.i] = d.close /\ ~ (s.i < n)
      <4>1. ~ ec BY <1>1, <3>8, Zenon
      <4>2. rc = ScanSt(s.i + 1, s.text, TRUE) BY <2>4, <3>2, <3>8, <4>1, Zenon DEF ScanRoundIs, rc
      <4>3. Fields(rc, s.i + 1, s.text, TRUE) BY <4>2, ScanFields, Zenon
      <4>4. rc.i = s.i + 1 BY <4>3, Zenon DEF Fields
      <4>5. rc.i > n BY <1>1, <2>5, <3>8, <4>4
      <4> QED BY <2>2, <4>5, Zenon DEF SameOrPast
    <3> QED BY <3>5, <3>6, <3>7, <3>8, Zenon
  <2> QED BY <2>6, <2>7, Zenon
<1> HIDE DEF P
<1>7. \A k \in Nat : k \in P BY <1>5, <1>6, Induction, Zenon
<1>8. n \in 0..n /\ n <= n /\ n \in 0..N BY <1>1
<1>9. SameOrPast(x, h[n], n) BY <1>1, <1>7, <1>8, <1>a, Zenon DEF P
<1>10. CASE x.i > n BY <1>10, Zenon DEF SameOrPast, x, y
<1>11. CASE ~ (x.i > n)
  <2>1. h[n] = x BY <1>9, <1>11, Zenon DEF SameOrPast
  <2>2. x.closed \/ x.i > n \/ x.i > start + n BY <1>8, <1>a, Zenon
  <2>3. x.i \in Nat
    <3>1. x \in ScanStates(A, start) BY <1>8, <1>a, Zenon
    <3> QED BY <3>1 DEF ScanStates, After
  <2>4. x.closed BY <1>1, <1>11, <2>2, <2>3
  <2>5. ScanRoundIs(sql, d, x) BY ScanRounds, Zenon
  <2>6. ScanRound(sql, d, x) = x BY <2>4, <2>5, Zenon DEF ScanRoundIs
  <2>7. \A j \in 1..N : h[j - 1] = x => h[j] = x BY <1>a, <2>6, Zenon
  <2>8. EndsAt(h, N, x) BY <1>1, <1>8, <2>1, <2>7, Settles, Zenon
  <2>9. x = y BY <1>a, <2>8, Zenon DEF EndsAt
  <2> QED BY <2>9, Zenon DEF SameOrPast, x, y
<1> QED BY <1>10, <1>11

(* The end of a line comment.                                              *)
LEMMA LineCut ==
    ASSUME NEW A, NEW sql \in Seq(A), NEW cut, NEW n, IsCut(cut, sql, n, A), NEW i \in Nat
    PROVE  Meets(LineEnd(cut, i), LineEnd(sql, i), n)
<1> DEFINE N == Len(sql)
           H == {j \in DOMAIN cut : cut[j] = NewLine}
           G == {j \in DOMAIN sql : sql[j] = NewLine}
<1>1. N \in Nat /\ n \in Nat /\ n \in Int /\ n <= N /\ Len(cut) = n /\ DOMAIN cut = 1..n /\ DOMAIN sql = 1..N
  BY DEF IsCut
<1>a. \A j \in 1..n : j \in 1..N BY <1>1
<1>2. \A j \in 1..n : cut[j] = sql[j] /\ j \in 1..N BY <1>a, Zenon DEF IsCut
<1>3. G \subseteq Nat /\ \A k \in H : k <= n BY <1>1
<1>4. H \subseteq G BY <1>1, <1>2
<1>5. ASSUME NEW k \in G PROVE k \in H \/ k > n
  <2>1. k \in 1..N /\ sql[k] = NewLine BY <1>1
  <2>2. CASE k \in 1..n BY <1>1, <1>2, <2>1, <2>2
  <2>3. CASE k \notin 1..n BY <1>1, <2>1, <2>3
  <2> QED BY <2>2, <2>3
<1> HIDE DEF H, G
<1>6. Meets(FirstFrom(H, i, n), FirstFrom(G, i, N), n) BY <1>1, <1>3, <1>4, <1>5, FirstCut, Zenon
<1>7. LineEnd(cut, i) = FirstFrom(H, i, n) /\ LineEnd(sql, i) = FirstFrom(G, i, N) BY <1>1, Zenon DEF LineEnd, H, G
<1> QED BY <1>6, <1>7, Zenon

(* The end of a word.                                                      *)
LEMMA WordCut ==
    ASSUME NEW A, NEW sql \in Seq(A), NEW cut, NEW n, IsCut(cut, sql, n, A), NEW i \in Nat
    PROVE  Meets(WordEnd(cut, i), WordEnd(sql, i), n)
<1> DEFINE N == Len(sql)
           H == {j \in DOMAIN cut : ~ isIdentChar(cut[j])}
           G == {j \in DOMAIN sql : ~ isIdentChar(sql[j])}
<1>1. N \in Nat /\ n \in Nat /\ n \in Int /\ n <= N /\ Len(cut) = n /\ DOMAIN cut = 1..n /\ DOMAIN sql = 1..N
  BY DEF IsCut
<1>a. \A j \in 1..n : j \in 1..N BY <1>1
<1>2. \A j \in 1..n : cut[j] = sql[j] /\ j \in 1..N BY <1>a, Zenon DEF IsCut
<1>3. G \subseteq Nat /\ \A k \in H : k <= n BY <1>1
<1>4. H \subseteq G BY <1>1, <1>2
<1>5. ASSUME NEW k \in G PROVE k \in H \/ k > n
  <2>1. k \in 1..N /\ ~ isIdentChar(sql[k]) BY <1>1
  <2>2. CASE k \in 1..n BY <1>1, <1>2, <2>1, <2>2
  <2>3. CASE k \notin 1..n BY <1>1, <2>1, <2>3
  <2> QED BY <2>2, <2>3
<1> HIDE DEF H, G
<1>6. Meets(FirstFrom(H, i, n), FirstFrom(G, i, N), n) BY <1>1, <1>3, <1>4, <1>5, FirstCut, Zenon
<1>7. WordEnd(cut, i) = FirstFrom(H, i, n) /\ WordEnd(sql, i) = FirstFrom(G, i, N) BY <1>1, Zenon DEF WordEnd, H, G
<1> QED BY <1>6, <1>7, Zenon

(* The end of a block comment.                                             *)
LEMMA BlockCut ==
    ASSUME NEW A, NEW sql \in Seq(A), NEW cut, NEW n, IsCut(cut, sql, n, A), NEW i \in Nat
    PROVE  Meets(BlockEnd(cut, i), BlockEnd(sql, i), n)
<1> DEFINE N == Len(sql)
           e == n - 1
           H == {j \in 1..(Len(cut) - 1) : cut[j] = Star /\ cut[j + 1] = Slash}
           G == {j \in 1..(Len(sql) - 1) : sql[j] = Star /\ sql[j + 1] = Slash}
           f == FirstFrom(H, i, n)
           g == FirstFrom(G, i, N)
<1>1. N \in Nat /\ n \in Nat /\ e \in Int /\ n <= N /\ Len(cut) = n BY DEF IsCut
<1>2. \A j \in 1..n : cut[j] = sql[j] BY Zenon DEF IsCut
<1>a. \A j \in 1..(n - 1) : j \in 1..n /\ j + 1 \in 1..n /\ j \in 1..(N - 1) BY <1>1
<1>b. \A j \in 1..(n - 1) : cut[j] = sql[j] /\ cut[j + 1] = sql[j + 1] BY <1>2, <1>a, Zenon
<1>3. G \subseteq Nat /\ \A k \in H : k <= e BY <1>1
<1>4. H \subseteq G BY <1>1, <1>a, <1>b, Zenon
<1>5. ASSUME NEW k \in G PROVE k \in H \/ k > e
  <2>1. k \in 1..(N - 1) /\ sql[k] = Star /\ sql[k + 1] = Slash OBVIOUS
  <2>2. CASE k \in 1..(n - 1) BY <1>1, <1>b, <2>1, <2>2, Zenon
  <2>3. CASE k \notin 1..(n - 1) BY <1>1, <2>1, <2>3
  <2> QED BY <2>2, <2>3
<1>c. H \subseteq Nat BY <1>3, <1>4, Zenon
<1>d. \A k \in H : k <= n BY <1>1, <1>3
<1> HIDE DEF H, G, e
<1>6. Meets(f, g, n) BY <1>1, <1>3, <1>4, <1>5, FirstCut, Zenon
<1>7. /\ BlockEnd(cut, i) = IF f > n THEN f ELSE f + 2
      /\ BlockEnd(sql, i) = IF g > N THEN g ELSE g + 2
  BY <1>1, Zenon DEF BlockEnd, H, G
<1>8. Least(f, H, i, n) /\ Least(g, G, i, N) BY <1>3, <1>c, FirstLeast, Zenon
<1> HIDE DEF f, g
<1>9. CASE f > n
  <2>1. BlockEnd(cut, i) > n BY <1>7, <1>9, Zenon
  <2> QED BY <2>1, Zenon DEF Meets
<1>10. CASE ~ (f > n)
  <2>1. f = g BY <1>6, <1>10, Zenon DEF Meets
  <2>2. f # n + 1 BY <1>1, <1>10
  <2>3. f \in H BY <1>8, <2>2, Zenon DEF Least
  <2>4. f \in Nat /\ f <= n BY <1>c, <1>d, <2>3, Zenon
  <2>5. ~ (g > N) BY <1>1, <2>1, <2>4
  <2>6. BlockEnd(cut, i) = BlockEnd(sql, i) BY <1>7, <1>10, <2>1, <2>5, Zenon
  <2> QED BY <2>6, Zenon DEF Meets
<1> QED BY <1>9, <1>10

(* A word that ends before the cut.                                        *)
LEMMA SubSeqCut ==
    ASSUME NEW A, NEW sql \in Seq(A), NEW cut, NEW n, IsCut(cut, sql, n, A), NEW i \in 1..n, NEW j \in i..n
    PROVE  SubSeq(cut, i, j) = SubSeq(sql, i, j)
<1>1. cut \in Seq(A) /\ Len(cut) = n /\ n \in Nat /\ n <= Len(sql) /\ Len(sql) \in Nat BY DEF IsCut
<1>2. \A k \in 1..n : cut[k] = sql[k] BY Zenon DEF IsCut
<1> DEFINE m == (j - i) + 1
           x == SubSeq(cut, i, j)
           y == SubSeq(sql, i, j)
<1>3. x = [k \in 1..m |-> cut[i + k - 1]] BY <1>1
<1>4. y = [k \in 1..m |-> sql[i + k - 1]] BY <1>1
<1>5. \A k \in 1..m : i + k - 1 \in 1..n BY <1>1
<1> HIDE DEF m, x, y
<1>6. \A k \in 1..m : cut[i + k - 1] = sql[i + k - 1] BY <1>2, <1>5, Zenon
<1>7. x = y BY <1>3, <1>4, <1>6, Zenon
<1> QED BY <1>7, Zenon DEF x, y

(* A round on the text left does what the round on the whole text does, or *)
(* goes past the cut.                                                      *)
LEMMA RoundCut ==
    ASSUME NEW A, NEW sql \in Seq(A), NEW cut, NEW n, IsCut(cut, sql, n, A), NEW s, s.i \in 1..n, NEW b \in {1, 2}
    PROVE  SameOrPast(TokenRound(cut, s, b), TokenRound(sql, s, b), n)
<1> DEFINE N == Len(sql)
           i == s.i
           c == cut[i]
           rc == TokenRound(cut, s, b)
           rs == TokenRound(sql, s, b)
<1>1. /\ N \in Nat /\ n \in Nat /\ n <= N /\ cut \in Seq(A) /\ Len(cut) = n
      /\ i \in Nat /\ i >= 1 /\ i <= n /\ ~ (i > Len(cut)) /\ ~ (i > Len(sql))
  BY DEF IsCut
<1>2. sql[i] = c BY Zenon DEF IsCut
<1>3. RoundIs(cut, s, b) /\ RoundIs(sql, s, b) BY <1>1, RoundKinds, Zenon
<1>4. i < n => \A x : Near(cut, i, x) <=> Near(sql, i, x)
  <2>1. ASSUME i < n PROVE i + 1 \in 1..n /\ i < Len(cut) /\ i < N BY <1>1, <2>1
  <2>2. ASSUME i < n PROVE cut[i + 1] = sql[i + 1] BY <2>1, <2>2, Zenon DEF IsCut
  <2> QED BY <2>1, <2>2, Zenon DEF Near
<1>5. ~ (i < n) => \A x : ~ Near(cut, i, x) BY <1>1, Zenon DEF Near
<1>6. \A x, j, k : Meets(j, k, n) => Skip(x, j) = Skip(x, k) \/ Skip(x, j).i > n
  <2>1. \A x, j : Skip(x, j).i = j BY DEF Skip
  <2> QED BY <2>1, Zenon DEF Meets
<1>7. \A x, j, t : j > n => Emit(x, j, t).i > n
  <2>1. \A x, j, t : Emit(x, j, t).i = j BY DEF Emit
  <2> QED BY <2>1, Zenon
<1> HIDE DEF rc, rs, c, i
<1>8. CASE Comment(cut, i)
  <2>1. Comment(sql, i) BY <1>2, <1>4, <1>5, <1>8, Zenon DEF Comment, c
  <2>2. i + 2 \in Nat BY <1>1
  <2>3. Meets(LineEnd(cut, i + 2), LineEnd(sql, i + 2), n) BY <2>2, LineCut, Zenon
  <2>4. rc = Skip(s, LineEnd(cut, i + 2)) /\ rs = Skip(s, LineEnd(sql, i + 2))
    BY <1>3, <1>8, <2>1, Zenon DEF RoundIs, i, rc, rs
  <2> QED BY <1>6, <2>3, <2>4, Zenon DEF SameOrPast, rc, rs
<1>9. CASE Block(cut, i)
  <2>1. Block(sql, i) BY <1>2, <1>4, <1>5, <1>9, Zenon DEF Block, c
  <2>2. i + b \in Nat BY <1>1
  <2>3. Meets(BlockEnd(cut, i + b), BlockEnd(sql, i + b), n) BY <2>2, BlockCut, Zenon
  <2>4. rc = Skip(s, BlockEnd(cut, i + b)) /\ rs = Skip(s, BlockEnd(sql, i + b))
    BY <1>3, <1>9, <2>1, Zenon DEF RoundIs, i, rc, rs
  <2> QED BY <1>6, <2>3, <2>4, Zenon DEF SameOrPast, rc, rs
<1>10. CASE c = Quote
  <2>1. SameOrPast(scanDelimited(cut, i, Literal), scanDelimited(sql, i, Literal), n) BY <1>1, ScanCut, Zenon
  <2>2. Meets(StringEnd(cut, i), StringEnd(sql, i), n) BY <2>1, Zenon DEF SameOrPast, Meets, StringEnd
  <2>3. rc = Skip(s, StringEnd(cut, i)) /\ rs = Skip(s, StringEnd(sql, i))
    BY <1>2, <1>3, <1>10, Zenon DEF RoundIs, i, c, rc, rs
  <2> QED BY <1>6, <2>2, <2>3, Zenon DEF SameOrPast, rc, rs
<1>11. CASE c \in Opens
  <2> DEFINE x == scanDelimited(cut, i, DelimOf(c))
             y == scanDelimited(sql, i, DelimOf(c))
  <2>1. SameOrPast(x, y, n) BY <1>1, ScanCut, Zenon
  <2>2. rc = Emit(s, x.i, Token(x.text, TRUE)) /\ rs = Emit(s, y.i, Token(y.text, TRUE))
    BY <1>2, <1>3, <1>11, Zenon DEF RoundIs, i, c, rc, rs
  <2> HIDE DEF x, y
  <2> QED BY <1>7, <2>1, <2>2, Zenon DEF SameOrPast, rc, rs
<1>12. CASE c \in Punctuation
  <2>1. rc = Emit(s, i + 1, Token(<<c>>, FALSE)) /\ rs = Emit(s, i + 1, Token(<<c>>, FALSE))
    BY <1>2, <1>3, <1>12, Zenon DEF RoundIs, i, c, rc, rs
  <2> QED BY <2>1, Zenon DEF SameOrPast, rc, rs
<1>13. CASE isIdentChar(c)
  <2> DEFINE j == WordEnd(cut, i)
             k == WordEnd(sql, i)
  <2>1. rc = Emit(s, j, Token(SubSeq(cut, i, j - 1), FALSE)) /\ rs = Emit(s, k, Token(SubSeq(sql, i, k - 1), FALSE))
    BY <1>2, <1>3, <1>13, Zenon DEF RoundIs, i, c, rc, rs
  <2>2. Meets(j, k, n) BY <1>1, WordCut, Zenon
  <2>3. j \in After(i)
    <3>1. i \in 1..Len(cut) BY <1>1
    <3> QED BY <1>1, <1>13, <3>1, WordLater, Zenon DEF c
  <2> HIDE DEF j, k
  <2>4. CASE j > n BY <1>7, <2>1, <2>4, Zenon DEF SameOrPast, rc, rs
  <2>5. CASE ~ (j > n)
    <3>1. j = k BY <2>2, <2>5, Zenon DEF Meets
    <3>2. i \in 1..n /\ j - 1 \in i..n BY <1>1, <2>3, <2>5 DEF After
    <3>3. SubSeq(cut, i, j - 1) = SubSeq(sql, i, j - 1) BY <3>2, SubSeqCut
    <3>4. rc = rs BY <2>1, <3>1, <3>3, Zenon
    <3> QED BY <3>4, Zenon DEF SameOrPast, rc, rs
  <2> QED BY <2>4, <2>5
<1>14. CASE Other(cut, i)
  <2>1. rc = Skip(s, i + 1) BY <1>3, <1>14, Zenon DEF RoundIs, i, rc
  <2>2. CASE i < n
    <3>1. Other(sql, i) BY <1>2, <1>4, <1>14, <2>2, Zenon DEF Other, Comment, Block, c
    <3>2. rs = Skip(s, i + 1) BY <1>3, <3>1, Zenon DEF RoundIs, i, rs
    <3> QED BY <2>1, <3>2, Zenon DEF SameOrPast, rc, rs
  <2>3. CASE ~ (i < n)
    <3>1. i + 1 > n BY <1>1, <2>3
    <3>2. Meets(i + 1, i + 1, n) BY <3>1, Zenon DEF Meets
    <3>3. rc.i = i + 1 BY <2>1 DEF Skip
    <3>4. rc.i > n BY <3>1, <3>3
    <3> QED BY <3>4, Zenon DEF SameOrPast, rc, rs
  <2> QED BY <2>2, <2>3
<1> QED BY <1>8, <1>9, <1>10, <1>11, <1>12, <1>13, <1>14, Zenon DEF Other, c

Begins(x, y) == Len(x) <= Len(y) /\ \A i \in 1..Len(x) : x[i] = y[i]
LastOff(x, y, T) == x = y \/ \E t \in T : x = Append(y, t)

(* A round adds a token at most.                                           *)
LEMMA RoundLastOff ==
    ASSUME NEW A, NEW sql \in Seq(A), NEW s \in TokStates(A), NEW b \in {1, 2}
    PROVE  LastOff(TokenRound(sql, s, b).toks, s.toks, Tok(A))
<1> DEFINE r == TokenRound(sql, s, b)
<1>1. s.i \in Nat /\ s.i > 0 /\ Len(sql) \in Nat BY DEF TokStates, After
<1>2. CASE s.i > Len(sql)
  <2>1. r = s BY <1>2, Zenon DEF TokenRound
  <2> QED BY <2>1, Zenon DEF LastOff
<1>3. CASE ~ (s.i > Len(sql))
  <2>1. s.i \in 1..Len(sql) BY <1>1, <1>3
  <2>2. Advances(r, s, A) BY <2>1, RoundAdvances, Zenon
  <2> HIDE DEF r
  <2>3. \A j : Skip(s, j).toks = s.toks BY DEF Skip
  <2>4. \A j, t : Emit(s, j, t).toks = Append(s.toks, t) BY DEF Emit
  <2>5. LastOff(r.toks, s.toks, Tok(A)) BY <2>2, <2>3, <2>4, Zenon DEF Advances, LastOff
  <2> QED BY <2>5, Zenon DEF r
<1> QED BY <1>2, <1>3

(* What was read stays.                                                    *)
LEMMA TokensStay ==
    ASSUME NEW A, NEW sql \in Seq(A), NEW b \in {1, 2}, NEW f, TokSteps(f, sql, b),
           \A k \in 0..Len(sql) : f[k] \in TokStates(A)
    PROVE  \A j \in 0..Len(sql) : Begins(f[j].toks, f[Len(sql)].toks)
<1> DEFINE N == Len(sql)
           T == Tok(A)
           x(k) == f[k].toks
           P == {m \in Nat : m <= N => \A j \in 0..m : Begins(x(j), x(m))}
<1>1. N \in Nat OBVIOUS
<1>2. \A k \in 0..N : x(k) \in Seq(T) BY DEF TokStates
<1>3. \A k \in 1..N : LastOff(x(k), x(k - 1), T)
  <2>1. ASSUME NEW k \in 1..N PROVE LastOff(x(k), x(k - 1), T)
    <3>1. k - 1 \in 0..N BY <1>1
    <3>2. f[k - 1] \in TokStates(A) BY <3>1, Zenon
    <3>3. f[k] = TokenRound(sql, f[k - 1], b) BY Zenon DEF TokSteps
    <3>4. LastOff(TokenRound(sql, f[k - 1], b).toks, f[k - 1].toks, Tok(A)) BY <3>2, RoundLastOff, Zenon
    <3> QED BY <3>3, <3>4, Zenon
  <2> QED BY <2>1, Zenon
<1> HIDE DEF x, T, N
<1>4. 0 \in P
  <2>1. x(0) \in Seq(T) BY <1>1, <1>2
  <2>2. Begins(x(0), x(0)) BY <2>1 DEF Begins
  <2> QED BY <2>2
<1>5. ASSUME NEW m \in Nat, m \in P PROVE m + 1 \in P
  <2> SUFFICES ASSUME m + 1 <= N, NEW j \in 0..(m + 1) PROVE Begins(x(j), x(m + 1))
    OBVIOUS
  <2>1. m \in 0..N /\ m + 1 \in 0..N /\ m + 1 \in 1..N /\ (m + 1) - 1 = m /\ j \in 0..N /\ m <= N BY <1>1
  <2>2. x(j) \in Seq(T) /\ x(m) \in Seq(T) /\ x(m + 1) \in Seq(T) BY <1>2, <2>1, Zenon
  <2>3. LastOff(x(m + 1), x(m), T) BY <1>3, <2>1, Zenon
  <2> DEFINE u == x(j)
             v == x(m)
             w == x(m + 1)
  <2> HIDE DEF u, v, w
  <2>a. u \in Seq(T) /\ v \in Seq(T) /\ w \in Seq(T) /\ LastOff(w, v, T) BY <2>2, <2>3, Zenon DEF u, v, w
  <2>4. Begins(v, w)
    <3>1. CASE w = v BY <2>a, <3>1 DEF Begins
    <3>2. CASE \E t \in T : w = Append(v, t) BY <2>a, <3>2 DEF Begins
    <3> QED BY <2>a, <3>1, <3>2, Zenon DEF LastOff
  <2>5. CASE j = m + 1
    <3>1. Begins(w, w) BY <2>a DEF Begins
    <3> QED BY <2>5, <3>1, Zenon DEF w
  <2>6. CASE j # m + 1
    <3>1. j \in 0..m BY <2>6
    <3>2. Begins(u, v) BY <1>5, <2>1, <3>1, Zenon DEF u, v
    <3>3. Begins(u, w) BY <2>a, <2>4, <3>2 DEF Begins
    <3> QED BY <3>3, Zenon DEF u, w
  <2> QED BY <2>5, <2>6
<1> HIDE DEF P
<1>6. \A m \in Nat : m \in P BY <1>4, <1>5, Induction, Zenon
<1>7. N <= N BY <1>1
<1>8. \A j \in 0..N : Begins(x(j), x(N)) BY <1>1, <1>6, <1>7, Zenon DEF P
<1> QED BY <1>8, Zenon DEF x, N

(* The tokens of the text left are those the whole text has at some round, *)
(* and at most one more.                                                   *)
LEMMA CutLoop ==
    ASSUME NEW A, NEW sql \in Seq(A), NEW cut, NEW n, IsCut(cut, sql, n, A), NEW b \in {1, 2},
           NEW f, TokSteps(f, sql, b), \A k \in 0..Len(sql) : f[k] \in TokStates(A)
    PROVE  \E j \in 0..Len(sql) : LastOff(TokensOf(cut, b), f[j].toks, Tok(A))
<1> DEFINE N == Len(sql)
           T == Tok(A)
           Past(x) == x.i > n /\ \E j \in 0..N : LastOff(x.toks, f[j].toks, T)
<1>1. N \in Nat /\ n \in Nat /\ n <= N /\ cut \in Seq(A) /\ Len(cut) = n BY DEF IsCut
<1>2. PICK g : /\ TokSteps(g, cut, b) /\ TokensOf(cut, b) = g[Len(cut)].toks
               /\ \A k \in 0..Len(cut) : g[k] \in TokStates(A)
  BY <1>1, TokLoop, Zenon
<1>a. /\ \A k \in 0..n : g[k] \in TokStates(A)
      /\ \A k \in 1..n : g[k] = TokenRound(cut, g[k - 1], b)
      /\ \A k \in 1..N : f[k] = TokenRound(sql, f[k - 1], b)
      /\ g[0] = f[0] /\ TokensOf(cut, b) = g[n].toks
  BY <1>1, <1>2, Zenon DEF TokSteps
<1> HIDE DEF N, T
<1> DEFINE P == {k \in Nat : k <= n => g[k] = f[k] \/ Past(g[k])}
<1>4. 0 \in P BY <1>a, Zenon
<1>5. ASSUME NEW k \in Nat, k \in P PROVE k + 1 \in P
  <2> SUFFICES ASSUME k + 1 <= n PROVE g[k + 1] = f[k + 1] \/ Past(g[k + 1])
    OBVIOUS
  <2>1. k \in 0..n /\ k + 1 \in 1..n /\ k + 1 \in 1..N /\ (k + 1) - 1 = k /\ k <= n /\ k \in 0..N BY <1>1
  <2> DEFINE s == g[k]
             rc == TokenRound(cut, s, b)
             rs == TokenRound(sql, s, b)
  <2>2. g[k + 1] = rc /\ f[k + 1] = TokenRound(sql, f[k], b) BY <1>a, <2>1, Zenon
  <2>3. s = f[k] \/ Past(s) BY <1>5, <2>1, Zenon
  <2>4. s \in TokStates(A) BY <1>a, <2>1, Zenon
  <2>5. s.i \in Nat /\ s.i > 0 BY <2>4 DEF TokStates, After
  <2>6. LastOff(rc.toks, s.toks, T) BY <1>1, <2>4, RoundLastOff, Zenon DEF T
  <2> HIDE DEF s
  <2>7. CASE s.i > n
    <3>1. s.i > Len(cut) BY <1>1, <2>7, Zenon
    <3>2. rc = s BY <3>1, Zenon DEF TokenRound
    <3>3. CASE Past(s) BY <2>2, <3>2, <3>3, Zenon
    <3>4. CASE s = f[k]
      <4>1. LastOff(s.toks, f[k].toks, T) BY <3>4, Zenon DEF LastOff
      <4> QED BY <2>1, <2>2, <2>7, <3>2, <4>1, Zenon
    <3> QED BY <2>3, <3>3, <3>4, Zenon
  <2>8. CASE ~ (s.i > n)
    <3>1. s = f[k] BY <2>3, <2>8, Zenon
    <3>2. s.i \in 1..n BY <1>1, <2>5, <2>8
    <3>3. SameOrPast(rc, rs, n) BY <3>2, RoundCut, Zenon
    <3>4. f[k + 1] = rs BY <2>2, <3>1, Zenon
    <3> HIDE DEF rc, rs
    <3>5. CASE rc = rs BY <2>2, <3>4, <3>5, Zenon
    <3>6. CASE rc.i > n
      <4>1. LastOff(rc.toks, f[k].toks, T) BY <2>6, <3>1, Zenon
      <4> QED BY <2>1, <2>2, <3>6, <4>1, Zenon
    <3> QED BY <3>3, <3>5, <3>6, Zenon DEF SameOrPast
  <2> QED BY <2>7, <2>8
<1> HIDE DEF P
<1>6. \A k \in Nat : k \in P BY <1>4, <1>5, Induction, Zenon
<1>7. n <= n /\ n \in 0..N BY <1>1
<1>8. g[n] = f[n] \/ Past(g[n]) BY <1>1, <1>6, <1>7, Zenon DEF P
<1>9. CASE g[n] = f[n]
  <2>1. LastOff(g[n].toks, f[n].toks, T) BY <1>9, Zenon DEF LastOff
  <2> QED BY <1>7, <1>a, <2>1, Zenon DEF N, T
<1>10. CASE Past(g[n]) BY <1>10, <1>a, Zenon DEF N, T
<1> QED BY <1>8, <1>9, <1>10

(* A cut damages nothing but the last token.                               *)
LEMMA CutTokens ==
    ASSUME NEW A, NEW sql \in Seq(A), NEW cut, NEW n, IsCut(cut, sql, n, A), tokenize(cut) # <<>>
    PROVE  IsPrefix(Front(tokenize(cut)), tokenize(sql))
<1> DEFINE T == Tok(A)
           N == Len(sql)
           x == tokenize(cut)
           z == tokenize(sql)
<1>1. cut \in Seq(A) /\ N \in Nat /\ N \in 0..N /\ 2 \in {1, 2} BY DEF IsCut
<1>2. PICK f : /\ TokSteps(f, sql, 2) /\ TokensOf(sql, 2) = f[N].toks
               /\ \A k \in 0..N : f[k] \in TokStates(A)
  BY <1>1, TokLoop, Zenon
<1>3. PICK j \in 0..N : LastOff(TokensOf(cut, 2), f[j].toks, Tok(A)) BY <1>1, <1>2, CutLoop, Zenon
<1> DEFINE y == f[j].toks
<1>4. \A k \in 0..N : f[k].toks \in Seq(T) BY <1>2 DEF TokStates
<1>5. y \in Seq(T) /\ z \in Seq(T) /\ x # <<>> /\ LastOff(x, y, T)
  BY <1>1, <1>2, <1>3, <1>4, Zenon DEF tokenize
<1>6. Begins(y, f[N].toks) BY <1>1, <1>2, TokensStay, Zenon
<1>7. Begins(y, z) BY <1>2, <1>6, Zenon DEF tokenize
<1> HIDE DEF x, y, z, T, N
<1>8. Front(x) \in Seq(T) /\ Begins(Front(x), y)
  <2>1. CASE x = y BY <1>5, <2>1 DEF Front, Begins
  <2>2. CASE \E t \in T : x = Append(y, t)
    <3>1. Front(x) = y BY <1>5, <2>2 DEF Front
    <3>2. Begins(y, y) BY <1>5 DEF Begins
    <3> QED BY <1>5, <3>1, <3>2, Zenon
  <2> QED BY <1>5, <2>1, <2>2, Zenon DEF LastOff
<1> DEFINE w == Front(x)
<1> HIDE DEF w
<1>9. w \in Seq(T) /\ Begins(w, y) BY <1>8, Zenon DEF w
<1>10. Begins(w, z) BY <1>5, <1>7, <1>9 DEF Begins
<1>11. IsPrefix(w, z)
  <2>1. Len(w) \in Nat /\ Len(z) \in Nat /\ Len(w) <= Len(z) BY <1>5, <1>9, <1>10 DEF Begins
  <2>2. \A i \in 1..Len(w) : w[i] = z[i] BY <1>10, Zenon DEF Begins
  <2> QED BY <2>1, <2>2, Zenon DEF IsPrefix
<1> QED BY <1>11, Zenon DEF w, x, z

-----------------------------------------------------------------------------
(* A text inside another.                                                  *)

At(sql, i, w) == (i - 1) + Len(w) <= Len(sql) /\ \A k \in 1..Len(w) : sql[(i - 1) + k] = w[k]

(* Two texts, one after the other.                                         *)
LEMMA AtConcat ==
    ASSUME NEW A, NEW sql \in Seq(A), NEW i \in Nat \ {0}, NEW u \in Seq(A), NEW v \in Seq(A), At(sql, i, u \o v)
    PROVE  At(sql, i, u) /\ At(sql, i + Len(u), v)
<1> DEFINE w == u \o v
<1>1. /\ Len(sql) \in Nat /\ Len(u) \in Nat /\ Len(v) \in Nat /\ Len(w) = Len(u) + Len(v)
      /\ \A k \in 1..Len(u) : w[k] = u[k]
      /\ \A k \in 1..Len(v) : w[Len(u) + k] = v[k]
  OBVIOUS
<1>2. (i - 1) + Len(w) <= Len(sql) /\ \A k \in 1..Len(w) : sql[(i - 1) + k] = w[k] BY Zenon DEF At
<1> HIDE DEF w
<1>3. At(sql, i, u)
  <2>1. (i - 1) + Len(u) <= Len(sql) /\ \A k \in 1..Len(u) : k \in 1..Len(w) BY <1>1, <1>2
  <2>2. \A k \in 1..Len(u) : sql[(i - 1) + k] = u[k] BY <1>1, <1>2, <2>1, Zenon
  <2> QED BY <2>1, <2>2, Zenon DEF At
<1>4. At(sql, i + Len(u), v)
  <2>1. ((i + Len(u)) - 1) + Len(v) <= Len(sql) BY <1>1, <1>2
  <2>2. ASSUME NEW k \in 1..Len(v) PROVE sql[((i + Len(u)) - 1) + k] = v[k]
    <3>1. Len(u) + k \in 1..Len(w) /\ ((i + Len(u)) - 1) + k = (i - 1) + (Len(u) + k) BY <1>1
    <3>2. sql[(i - 1) + (Len(u) + k)] = w[Len(u) + k] BY <1>2, <3>1, Zenon
    <3>3. w[Len(u) + k] = v[k] BY <1>1
    <3> QED BY <3>1, <3>2, <3>3, Zenon
  <2> QED BY <2>1, <2>2, Zenon DEF At
<1> QED BY <1>3, <1>4

Holds(sql, i, c) == i \in 1..Len(sql) /\ sql[i] = c

(* One byte.                                                               *)
LEMMA AtByte ==
    ASSUME NEW A, NEW sql \in Seq(A), NEW i \in Nat \ {0}, NEW c, At(sql, i, <<c>>)
    PROVE  Holds(sql, i, c)
<1>1. Len(sql) \in Nat /\ Len(<<c>>) = 1 /\ <<c>>[1] = c /\ 1 \in 1..1 OBVIOUS
<1>2. (i - 1) + 1 <= Len(sql) /\ sql[(i - 1) + 1] = c BY <1>1, Zenon DEF At
<1>3. (i - 1) + 1 = i OBVIOUS
<1>4. sql[i] = c BY <1>2, <1>3, Zenon
<1>5. i \in 1..Len(sql) BY <1>1, <1>2
<1> QED BY <1>4, <1>5, Zenon DEF Holds

(* Two bytes.                                                              *)
LEMMA AtPair ==
    ASSUME NEW A, NEW sql \in Seq(A), NEW i \in Nat \ {0}, NEW c, NEW d, At(sql, i, <<c, d>>)
    PROVE  Holds(sql, i, c) /\ Holds(sql, i + 1, d)
<1>1. Len(sql) \in Nat /\ Len(<<c, d>>) = 2 /\ <<c, d>>[1] = c /\ <<c, d>>[2] = d /\ 1 \in 1..2 /\ 2 \in 1..2 OBVIOUS
<1>2. (i - 1) + 2 <= Len(sql) /\ sql[(i - 1) + 1] = c /\ sql[(i - 1) + 2] = d BY <1>1, Zenon DEF At
<1>3. (i - 1) + 1 = i /\ (i - 1) + 2 = i + 1 OBVIOUS
<1>4. sql[i] = c /\ sql[i + 1] = d BY <1>2, <1>3, Zenon
<1>5. i \in 1..Len(sql) /\ i + 1 \in 1..Len(sql) BY <1>1, <1>2
<1> QED BY <1>4, <1>5, Zenon DEF Holds

-----------------------------------------------------------------------------
(* Doubled delimiters.                                                     *)

Piece(x, c) == IF x = c THEN <<c, c>> ELSE <<x>>
Doubles(p, x, c, A) ==
    /\ Doubled(Append(p, x), c) = Doubled(p, c) \o Piece(x, c)
    /\ Doubled(p, c) \in Seq(A) /\ Piece(x, c) \in Seq(A)

(* A byte more.                                                            *)
LEMMA DoubledGrows ==
    ASSUME NEW A, NEW p \in Seq(A), NEW x \in A, NEW c \in A
    PROVE  Doubles(p, x, c, A)
<1> DEFINE T == Seq(A)
           G == [y \in A \X Nat |-> Piece(y[1], c)]
           q == Append(p, x)
<1>1. \A y \in A : Piece(y, c) \in T
  <2>1. \A y \in A : <<y>> \in T /\ <<y, y>> \in T OBVIOUS
  <2> QED BY <2>1, Zenon DEF Piece
<1>2. G \in [A \X Nat -> T] BY <1>1
<1>3. \A y \in A, k \in Nat : G[<<y, k>>] = Piece(y, c) OBVIOUS
<1>4. q \in Seq(A) OBVIOUS
<1>5. \A s \in Seq(A) : \A i \in DOMAIN s : s[i] \in A /\ i \in Nat OBVIOUS
<1>6. \A s \in Seq(A) : Doubled(s, c) = FlattenSeq([i \in DOMAIN s |-> Piece(s[i], c)]) BY Zenon DEF Doubled, Piece
<1> HIDE DEF G, T
<1>7. \A s \in Seq(A) : [i \in DOMAIN s |-> Piece(s[i], c)] = Mapped(G, s) BY <1>3, <1>5, Zenon DEF Mapped
<1>8. Doubled(p, c) = FlattenSeq(Mapped(G, p)) /\ Doubled(q, c) = FlattenSeq(Mapped(G, q)) BY <1>4, <1>6, <1>7, Zenon
<1>9. Grows(G, p, x, T) BY <1>2, MappedGrows, Zenon
<1>10. Len(p) + 1 \in Nat OBVIOUS
<1> DEFINE m == Mapped(G, p)
           e == Piece(x, c)
<1>11. Mapped(G, q) = Append(m, e) /\ m \in Seq(T) /\ e \in T BY <1>1, <1>3, <1>9, <1>10, Zenon DEF Grows
<1> HIDE DEF m, e
<1>12. FlattenSeq(Append(m, e)) = FlattenSeq(m) \o e BY <1>11, FlattenAppend DEF T
<1>13. FlattenSeq(m) \in Seq(A) BY <1>11, FlattenTyped, Zenon DEF T
<1>14. Doubled(q, c) = Doubled(p, c) \o e BY <1>8, <1>11, <1>12, Zenon DEF m
<1> QED BY <1>8, <1>11, <1>13, <1>14, Zenon DEF Doubles, m, e, T

(* Nothing to double.                                                      *)
LEMMA DoubledEmpty == ASSUME NEW c PROVE Doubled(<<>>, c) = <<>>
<1> DEFINE f == [i \in DOMAIN <<>> |-> IF <<>>[i] = c THEN <<c, c>> ELSE <<<<>>[i]>>]
<1>1. f = <<>> OBVIOUS
<1> HIDE DEF f
<1>2. FlattenSeq(f) = <<>> BY <1>1, FlattenEmpty, Zenon
<1> QED BY <1>2, Zenon DEF Doubled, f

(* It is no shorter than the text, and the text itself without delimiters. *)
LEMMA DoubledTyped ==
    ASSUME NEW A, NEW c \in A
    PROVE  \A p \in Seq(A) : /\ Doubled(p, c) \in Seq(A) /\ Len(p) <= Len(Doubled(p, c))
                             /\ c \notin Range(p) => Doubled(p, c) = p
<1> DEFINE Is(p) == /\ Doubled(p, c) \in Seq(A) /\ Len(p) <= Len(Doubled(p, c))
                    /\ c \notin Range(p) => Doubled(p, c) = p
           P == {p \in Seq(A) : Is(p)}
<1>1. <<>> \in P
  <2>1. Doubled(<<>>, c) = <<>> BY DoubledEmpty
  <2>2. <<>> \in Seq(A) /\ Len(<<>>) <= Len(<<>>) OBVIOUS
  <2>3. Is(<<>>) BY <2>1, <2>2, Zenon
  <2> QED BY <2>2, <2>3, Zenon
<1>2. ASSUME NEW p \in Seq(A), NEW x \in A, p \in P PROVE Append(p, x) \in P
  <2> DEFINE q == Append(p, x)
             u == Doubled(p, c)
             v == Piece(x, c)
             w == Doubled(q, c)
  <2>1. u \in Seq(A) /\ Len(p) <= Len(u) /\ (c \notin Range(p) => u = p) BY <1>2, Zenon
  <2>2. Doubles(p, x, c, A) BY DoubledGrows, Zenon
  <2>3. w = u \o v /\ v \in Seq(A) BY <2>2, Zenon DEF Doubles
  <2>4. Len(v) >= 1
    <3>1. v = <<c, c>> \/ v = <<x>> BY Zenon DEF Piece
    <3>2. Len(<<c, c>>) = 2 /\ Len(<<x>>) = 1 OBVIOUS
    <3>3. Len(v) = 2 \/ Len(v) = 1 BY <3>1, <3>2, Zenon
    <3> HIDE DEF v
    <3> QED BY <3>3
  <2>5. Range(q) = Range(p) \cup {x} BY RangeAppend
  <2>6. c \notin Range(q) => c \notin Range(p) /\ c # x BY <2>5, Zenon
  <2>7. c # x => v = <<x>> BY Zenon DEF Piece
  <2> HIDE DEF u, v, w
  <2>8. w \in Seq(A) BY <2>1, <2>3
  <2>9. Len(q) <= Len(w)
    <3>1. Len(w) = Len(u) + Len(v) /\ Len(q) = Len(p) + 1 /\ Len(p) \in Nat /\ Len(u) \in Nat /\ Len(v) \in Nat
      BY <2>1, <2>3
    <3> QED BY <2>1, <2>4, <3>1
  <2>10. c \notin Range(q) => w = q
    <3>1. p \o <<x>> = Append(p, x) OBVIOUS
    <3> QED BY <2>1, <2>3, <2>6, <2>7, <3>1, Zenon
  <2>11. Is(q) BY <2>8, <2>9, <2>10, Zenon DEF w
  <2>12. q \in Seq(A) OBVIOUS
  <2> QED BY <2>11, <2>12, Zenon
<1> HIDE DEF P
<1>3. \A p \in Seq(A) : p \in P BY <1>1, <1>2, SeqInduction, Zenon
<1>4. \A p \in Seq(A) : Is(p) BY <1>3, Zenon DEF P
<1> QED BY <1>4, Zenon

(* Delimited text is read as it was written: every delimiter it contains   *)
(* is doubled, or it contains none, and what follows it is not another.    *)
LEMMA ScanWritten ==
    ASSUME NEW A, NEW sql \in Seq(A), NEW start \in Nat, NEW d, d.close \in A, NEW content \in Seq(A),
           d.open # d.close => d.close \notin Range(content),
           NEW e, e = start + 1 + Len(Doubled(content, d.close)),
           At(sql, start + 1, Doubled(content, d.close)), Holds(sql, e, d.close),
           d.open = d.close => ~ (e < Len(sql) /\ sql[e + 1] = d.close)
    PROVE  Fields(scanDelimited(sql, start, d), e + 1, content, TRUE)
<1> DEFINE N == Len(sql)
           c == d.close
           D(p) == Doubled(p, c)
           x == scanDelimited(sql, start, d)
           sym == d.open = c
<1>1. N \in Nat /\ Len(content) \in Nat OBVIOUS
<1>2. PICK h : ScanSteps(h, sql, d, start) /\ EndsAt(h, N, x) BY ScanLoop, Zenon
<1>3. \A k \in 1..N : h[k] = ScanRound(sql, d, h[k - 1]) BY <1>2, Zenon DEF ScanSteps
<1>4. \A p \in Seq(A) : D(p) \in Seq(A) /\ Len(p) <= Len(D(p)) BY DoubledTyped, Zenon
<1> DEFINE P == {p \in Seq(A) : (sym \/ c \notin Range(p)) /\ At(sql, start + 1, D(p)) =>
                                  h[Len(p)] = ScanSt(start + 1 + Len(D(p)), p, FALSE)}
<1>5. <<>> \in P
  <2>1. D(<<>>) = <<>> BY DoubledEmpty
  <2>2. <<>> \in Seq(A) /\ Len(<<>>) = 0 /\ start + 1 + 0 = start + 1 OBVIOUS
  <2>3. h[0] = ScanSt(start + 1, <<>>, FALSE) BY <1>2, Zenon DEF ScanSteps
  <2>4. h[Len(<<>>)] = ScanSt(start + 1 + Len(D(<<>>)), <<>>, FALSE) BY <2>1, <2>2, <2>3, Zenon
  <2> QED BY <2>2, <2>4, Zenon
<1>6. ASSUME NEW p \in Seq(A), NEW y \in A, p \in P PROVE Append(p, y) \in P
  <2> DEFINE q == Append(p, y)
             u == D(p)
             v == Piece(y, c)
             j == start + 1 + Len(u)
             s == ScanSt(j, p, FALSE)
             r == ScanRound(sql, d, s)
  <2>0. q \in Seq(A) /\ Len(q) = Len(p) + 1 /\ Len(p) \in Nat OBVIOUS
  <2> SUFFICES ASSUME sym \/ c \notin Range(q), At(sql, start + 1, D(q))
               PROVE  h[Len(q)] = ScanSt(start + 1 + Len(D(q)), q, FALSE)
    BY <2>0, Zenon
  <2>1. Doubles(p, y, c, A) BY DoubledGrows, Zenon
  <2>2. D(q) = u \o v /\ u \in Seq(A) /\ v \in Seq(A) BY <2>1, Zenon DEF Doubles
  <2>a. Range(q) = Range(p) \cup {y} BY RangeAppend
  <2>b. sym \/ (c \notin Range(p) /\ y # c) BY <2>a, Zenon
  <2>3. start + 1 \in Nat \ {0} OBVIOUS
  <2>4. At(sql, start + 1, u) /\ At(sql, start + 1 + Len(u), v) BY <2>2, <2>3, AtConcat, Zenon
  <2>5. h[Len(p)] = s BY <1>6, <2>4, <2>b, Zenon
  <2>6. j \in Nat \ {0} /\ Len(u) \in Nat /\ Len(p) <= Len(u) BY <1>4, <2>2
  <2>7. v = IF y = c THEN <<c, c>> ELSE <<y>> BY Zenon DEF Piece
  <2>8. Holds(sql, j, y)
    <3>1. CASE y = c
      <4>1. At(sql, j, <<c, c>>) BY <2>4, <2>7, <3>1, Zenon
      <4> QED BY <2>6, <3>1, <4>1, AtPair, Zenon
    <3>2. CASE y # c
      <4>1. At(sql, j, <<y>>) BY <2>4, <2>7, <3>2, Zenon
      <4> QED BY <2>6, <4>1, AtByte, Zenon
    <3> QED BY <3>1, <3>2
  <2>9. Fields(s, j, p, FALSE) BY ScanFields, Zenon
  <2>10. ScanRoundIs(sql, d, s) BY ScanRounds, Zenon
  <2> HIDE DEF u, v, j, s
  <2>11. j \in 1..N /\ sql[j] = y BY <2>8, Zenon DEF Holds
  <2>12. Len(q) \in 1..N /\ Len(q) - 1 = Len(p) BY <1>1, <2>0, <2>6, <2>11 DEF j
  <2>13. h[Len(q)] = r BY <1>3, <2>5, <2>12, Zenon
  <2>14. ~ (s.closed \/ s.i > N)
    <3>1. ~ s.closed /\ s.i = j BY <2>9, Zenon DEF Fields
    <3>2. ~ (j > N) BY <1>1, <2>11
    <3> QED BY <3>1, <3>2, Zenon
  <2>15. s.i = j /\ s.text = p BY <2>9, Zenon DEF Fields
  <2>16. r = ScanSt(j + Len(v), q, FALSE)
    <3>1. CASE y = c
      <4>1. sym BY <2>b, <3>1, Zenon
      <4>2. At(sql, j, <<c, c>>) BY <2>4, <2>7, <3>1, Zenon DEF j
      <4>3. Holds(sql, j + 1, c) BY <2>6, <4>2, AtPair, Zenon
      <4>4. j + 1 \in 1..N /\ sql[j + 1] = c BY <4>3, Zenon DEF Holds
      <4>5. j < N BY <1>1, <2>6, <4>4
      <4>6. r = ScanSt(s.i + 2, Append(s.text, c), FALSE)
        BY <2>10, <2>11, <2>14, <2>15, <3>1, <4>1, <4>4, <4>5, Zenon DEF ScanRoundIs
      <4>7. Len(v) = 2
        <5>1. v = <<c, c>> BY <2>7, <3>1, Zenon
        <5> QED BY <5>1
      <4> QED BY <2>15, <3>1, <4>6, <4>7, Zenon
    <3>2. CASE y # c
      <4>1. r = ScanSt(s.i + 1, Append(s.text, y), FALSE)
        BY <2>10, <2>11, <2>14, <2>15, <3>2, Zenon DEF ScanRoundIs
      <4>2. Len(v) = 1
        <5>1. v = <<y>> BY <2>7, <3>2, Zenon
        <5> QED BY <5>1
      <4> QED BY <2>15, <4>1, <4>2, Zenon
    <3> QED BY <3>1, <3>2, Zenon
  <2>17. start + 1 + Len(D(q)) = j + Len(v)
    <3>1. Len(u \o v) = Len(u) + Len(v) /\ Len(u) \in Nat /\ Len(v) \in Nat BY <2>2 DEF u, v
    <3>2. start + 1 + Len(u \o v) = j + Len(v) BY <3>1 DEF j
    <3> QED BY <2>2, <3>2, Zenon DEF u, v
  <2> QED BY <2>13, <2>16, <2>17, Zenon
<1> HIDE DEF P
<1>7. \A p \in Seq(A) : p \in P BY <1>5, <1>6, SeqInduction, Zenon
<1> DEFINE s == ScanSt(e, content, FALSE)
           n == Len(content)
           r == ScanSt(e + 1, content, TRUE)
<1>8. h[n] = s BY <1>7, Zenon DEF P
<1>9. Fields(s, e, content, FALSE) BY ScanFields, Zenon
<1>10. Fields(r, e + 1, content, TRUE) BY ScanFields, Zenon
<1>11. ScanRoundIs(sql, d, s) /\ ScanRoundIs(sql, d, r) BY ScanRounds, Zenon
<1>12. e \in 1..N /\ sql[e] = c BY Zenon DEF Holds
<1>13. n <= Len(D(content)) /\ Len(D(content)) \in Nat
  <2>1. D(content) \in Seq(A) /\ n <= Len(D(content)) BY <1>4, Zenon
  <2> QED BY <2>1
<1>14. n + 1 \in 1..N /\ n + 1 \in 0..N /\ (n + 1) - 1 = n BY <1>1, <1>12, <1>13
<1> HIDE DEF s, r, n, N
<1>15. ~ (s.closed \/ s.i > N)
  <2>1. ~ s.closed /\ s.i = e BY <1>9, Zenon DEF Fields
  <2>2. ~ (e > N) BY <1>1, <1>12
  <2> QED BY <2>1, <2>2, Zenon
<1>16. s.i = e /\ s.text = content BY <1>9, Zenon DEF Fields
<1>17. ScanRound(sql, d, s) = r BY <1>11, <1>12, <1>15, <1>16, Zenon DEF ScanRoundIs, r, N
<1>18. h[n + 1] = r BY <1>3, <1>8, <1>14, <1>17, Zenon
<1>19. r.closed BY <1>10, Zenon DEF Fields
<1>20. ScanRound(sql, d, r) = r BY <1>11, <1>19, Zenon DEF ScanRoundIs
<1>21. \A k \in 1..N : h[k - 1] = r => h[k] = r BY <1>3, <1>20, Zenon
<1>22. EndsAt(h, N, r) BY <1>1, <1>14, <1>18, <1>21, Settles, Zenon
<1>23. x = r BY <1>2, <1>22, Zenon DEF EndsAt
<1> QED BY <1>10, <1>23, Zenon

-----------------------------------------------------------------------------
(* Lexemes.                                                                *)

La == "a"
Lb == "b"
Dot == "."

SpelledIs(l) ==
    /\ l.kind = "word" => Spelled(l) = <<La, Lb>>
    /\ l.kind = "dot" => Spelled(l) = <<Dot>>
    /\ l.kind = "space" => Spelled(l) = <<Whitespace>>
    /\ l.kind = "minus" => Spelled(l) = <<Dash, Whitespace>>
    /\ l.kind = "line" => Spelled(l) = <<Dash, Dash>> \o l.content \o <<NewLine>>
    /\ l.kind = "block" => Spelled(l) = <<Slash, Star>> \o l.content \o <<Star, Slash>>
    /\ l.kind = "literal" => Spelled(l) = <<Quote>> \o Doubled(l.content, Quote) \o <<Quote>>
    /\ l.kind = "quoted" => Spelled(l) = <<DQuote>> \o Doubled(l.content, DQuote) \o <<DQuote>>
    /\ l.kind = "bracket" => Spelled(l) = <<OpenBracket>> \o l.content \o <<CloseBracket>>

TokensIs(l) ==
    /\ l.kind = "word" => Tokens(l) = <<Token(<<La, Lb>>, FALSE)>>
    /\ l.kind = "dot" => Tokens(l) = <<Token(<<Dot>>, FALSE)>>
    /\ l.kind \in {"quoted", "bracket"} => Tokens(l) = <<Token(l.content, TRUE)>>
    /\ l.kind \in {"space", "minus", "line", "block", "literal"} => Tokens(l) = <<>>

(* How a lexeme of each kind is spelled.                                   *)
LEMMA SpelledKinds == ASSUME NEW l PROVE SpelledIs(l)
<1>1. l.kind = "word" => Spelled(l) = <<La, Lb>> BY Zenon DEF Spelled, La, Lb
<1>2. l.kind = "dot" => Spelled(l) = <<Dot>> BY Zenon DEF Spelled, Dot
<1>3. l.kind = "space" => Spelled(l) = <<Whitespace>> BY Zenon DEF Spelled
<1>4. l.kind = "minus" => Spelled(l) = <<Dash, Whitespace>> BY Zenon DEF Spelled
<1>5. l.kind = "line" => Spelled(l) = <<Dash, Dash>> \o l.content \o <<NewLine>> BY Zenon DEF Spelled
<1>6. l.kind = "block" => Spelled(l) = <<Slash, Star>> \o l.content \o <<Star, Slash>> BY Zenon DEF Spelled
<1>7. l.kind = "literal" => Spelled(l) = <<Quote>> \o Doubled(l.content, Quote) \o <<Quote>> BY Zenon DEF Spelled
<1>8. l.kind = "quoted" => Spelled(l) = <<DQuote>> \o Doubled(l.content, DQuote) \o <<DQuote>> BY Zenon DEF Spelled
<1>9. l.kind = "bracket" => Spelled(l) = <<OpenBracket>> \o l.content \o <<CloseBracket>> BY Zenon DEF Spelled
<1> QED BY <1>1, <1>2, <1>3, <1>4, <1>5, <1>6, <1>7, <1>8, <1>9, Zenon DEF SpelledIs

(* What a lexeme of each kind means.                                       *)
LEMMA TokensKinds == ASSUME NEW l PROVE TokensIs(l)
<1>1. l.kind = "word" => Tokens(l) = <<Token(<<La, Lb>>, FALSE)>> BY Zenon DEF Tokens, La, Lb
<1>2. l.kind = "dot" => Tokens(l) = <<Token(<<Dot>>, FALSE)>> BY Zenon DEF Tokens, Dot
<1>3. l.kind \in {"quoted", "bracket"} => Tokens(l) = <<Token(l.content, TRUE)>> BY Zenon DEF Tokens
<1>4. l.kind \in {"space", "minus", "line", "block", "literal"} => Tokens(l) = <<>> BY Zenon DEF Tokens
<1> QED BY <1>1, <1>2, <1>3, <1>4, Zenon DEF TokensIs

-----------------------------------------------------------------------------
(* A round at a byte.                                                      *)

SkipIs(i, toks, j) == Skip(TokSt(i, toks), j) = TokSt(j, toks)
EmitIs(i, toks, j, t) == Emit(TokSt(i, toks), j, t) = TokSt(j, Append(toks, t))

(* The states a round leads to.                                            *)
LEMMA SkipEmit == ASSUME NEW i, NEW toks, NEW j, NEW t PROVE SkipIs(i, toks, j) /\ EmitIs(i, toks, j, t)
<1>1. SkipIs(i, toks, j) BY DEF SkipIs, Skip, TokSt
<1>2. EmitIs(i, toks, j, t) BY DEF EmitIs, Emit, TokSt
<1> QED BY <1>1, <1>2

RoundFrom(sql, i, toks) ==
    LET r == TokenRound(sql, TokSt(i, toks), 2)
        x == scanDelimited(sql, i, DelimOf(sql[i]))
    IN  /\ Comment(sql, i) => r = TokSt(LineEnd(sql, i + 2), toks)
        /\ Block(sql, i) => r = TokSt(BlockEnd(sql, i + 2), toks)
        /\ sql[i] = Quote => r = TokSt(StringEnd(sql, i), toks)
        /\ sql[i] \in Opens => r = TokSt(x.i, Append(toks, Token(x.text, TRUE)))
        /\ sql[i] \in Punctuation => r = TokSt(i + 1, Append(toks, Token(<<sql[i]>>, FALSE)))
        /\ isIdentChar(sql[i]) =>
             r = TokSt(WordEnd(sql, i), Append(toks, Token(SubSeq(sql, i, WordEnd(sql, i) - 1), FALSE)))
        /\ Other(sql, i) => r = TokSt(i + 1, toks)

(* What a round does at byte i.                                            *)
LEMMA RoundAt ==
    ASSUME NEW A, NEW sql \in Seq(A), NEW i \in 1..Len(sql), NEW toks
    PROVE  RoundFrom(sql, i, toks)
<1> DEFINE s == TokSt(i, toks)
           r == TokenRound(sql, s, 2)
           x == scanDelimited(sql, i, DelimOf(sql[i]))
           t1 == Token(x.text, TRUE)
           t2 == Token(<<sql[i]>>, FALSE)
           t3 == Token(SubSeq(sql, i, WordEnd(sql, i) - 1), FALSE)
<1>1. TokFields(s, i, toks) BY TokStFields, Zenon
<1>2. s.i = i BY <1>1, Zenon DEF TokFields
<1>3. ~ (i > Len(sql))
  <2>1. Len(sql) \in Nat OBVIOUS
  <2> QED BY <2>1
<1>4. ~ (s.i > Len(sql)) BY <1>2, <1>3, Zenon
<1> HIDE DEF s
<1>5. RoundIs(sql, s, 2) BY <1>4, RoundKinds, Zenon
<1>6. /\ Comment(sql, i) => r = Skip(s, LineEnd(sql, i + 2))
      /\ Block(sql, i) => r = Skip(s, BlockEnd(sql, i + 2))
      /\ sql[i] = Quote => r = Skip(s, StringEnd(sql, i))
      /\ Other(sql, i) => r = Skip(s, i + 1)
  BY <1>2, <1>5, Zenon DEF RoundIs
<1>7. /\ sql[i] \in Opens => r = Emit(s, x.i, t1)
      /\ sql[i] \in Punctuation => r = Emit(s, i + 1, t2)
      /\ isIdentChar(sql[i]) => r = Emit(s, WordEnd(sql, i), t3)
  BY <1>2, <1>5, Zenon DEF RoundIs
<1> HIDE DEF r, x, t1, t2, t3
<1>8. \A j, t : SkipIs(i, toks, j) /\ EmitIs(i, toks, j, t) BY SkipEmit, Zenon
<1>9. \A j : Skip(s, j) = TokSt(j, toks) BY <1>8, Zenon DEF SkipIs, s
<1>10. \A j, t : Emit(s, j, t) = TokSt(j, Append(toks, t)) BY <1>8, Zenon DEF EmitIs, s
<1>11. /\ Comment(sql, i) => r = TokSt(LineEnd(sql, i + 2), toks)
       /\ Block(sql, i) => r = TokSt(BlockEnd(sql, i + 2), toks)
       /\ sql[i] = Quote => r = TokSt(StringEnd(sql, i), toks)
       /\ Other(sql, i) => r = TokSt(i + 1, toks)
  BY <1>6, <1>9, Zenon
<1>12. /\ sql[i] \in Opens => r = TokSt(x.i, Append(toks, t1))
       /\ sql[i] \in Punctuation => r = TokSt(i + 1, Append(toks, t2))
       /\ isIdentChar(sql[i]) => r = TokSt(WordEnd(sql, i), Append(toks, t3))
  BY <1>7, <1>10, Zenon
<1> QED BY <1>11, <1>12, Zenon DEF RoundFrom, r, s, x, t1, t2, t3

PlainByte(c) == /\ c # Dash /\ c # Slash /\ c # Quote
                /\ c \notin Opens /\ c \notin Punctuation /\ ~ isIdentChar(c)

(* A space and a line end are skipped.                                     *)
LEMMA PlainBytes == PlainByte(Whitespace) /\ PlainByte(NewLine)
<1>1. \A c \in {Whitespace, NewLine} : c # Dash /\ c # Slash /\ c # Quote
  BY Zenon DEF Whitespace, NewLine, Dash, Slash, Quote
<1>2. \A c \in {Whitespace, NewLine} : c \notin Opens /\ c \notin Punctuation /\ ~ isIdentChar(c)
  BY OpensAre, Zenon DEF Whitespace, NewLine, DQuote, Backquote, OpenBracket, Punctuation, isIdentChar
<1> QED BY <1>1, <1>2, Zenon DEF PlainByte

SkipsByte(sql, i, toks) == TokenRound(sql, TokSt(i, toks), 2) = TokSt(i + 1, toks)

(* A byte of no class is skipped.                                          *)
LEMMA PlainRound ==
    ASSUME NEW A, NEW sql \in Seq(A), NEW i, NEW c, Holds(sql, i, c), PlainByte(c), NEW toks
    PROVE  SkipsByte(sql, i, toks)
<1>1. i \in 1..Len(sql) /\ sql[i] = c BY Zenon DEF Holds
<1>2. RoundFrom(sql, i, toks) BY <1>1, RoundAt, Zenon
<1>3. Other(sql, i) BY <1>1, Zenon DEF Other, PlainByte, Comment, Block
<1> QED BY <1>2, <1>3, Zenon DEF RoundFrom, SkipsByte

-----------------------------------------------------------------------------
(* One lexeme.                                                             *)

FirstIs(hits, i, end, e) == FirstFrom(hits, i, end) = e

(* The first hit, and none.                                                *)
LEMMA FirstHit ==
    ASSUME NEW hits, hits \subseteq Nat, NEW i \in Nat, NEW end, NEW e \in hits, i <= e,
           \A k \in hits : i <= k => e <= k
    PROVE  FirstIs(hits, i, end, e)
<1> DEFINE f == FirstFrom(hits, i, end)
<1>1. Least(f, hits, i, end) BY FirstLeast, Zenon
<1> HIDE DEF f
<1>2. ~ (\A k \in hits : ~ (i <= k)) BY Zenon
<1>3. f \in hits /\ i <= f /\ \A k \in hits : i <= k => f <= k BY <1>1, <1>2, Zenon DEF Least
<1>4. f <= e /\ e <= f BY <1>3, Zenon
<1>5. f \in Nat /\ e \in Nat BY <1>3
<1>6. f = e BY <1>4, <1>5
<1> QED BY <1>6, Zenon DEF FirstIs, f

LEMMA FirstMiss ==
    ASSUME NEW hits, hits \subseteq Nat, NEW i \in Nat, NEW end, \A k \in hits : ~ (i <= k)
    PROVE  FirstIs(hits, i, end, end + 1)
<1> DEFINE f == FirstFrom(hits, i, end)
<1>1. Least(f, hits, i, end) BY FirstLeast, Zenon
<1> HIDE DEF f
<1>2. f = end + 1 BY <1>1, Zenon DEF Least
<1> QED BY <1>2, Zenon DEF FirstIs, f

Reads(sql, i, toks, n, ts) ==
    LET s == TokSt(i, toks)
        e == TokSt(i + n, toks \o ts)
    IN  \/ n >= 1 /\ TokenRound(sql, s, 2) = e
        \/ n >= 2 /\ TokenRound(sql, TokenRound(sql, s, 2), 2) = e

Unchanged(toks) == toks \o <<>> = toks
OneMore(toks, t) == toks \o <<t>> = Append(toks, t)

(* No token, or one.                                                       *)
LEMMA AddTokens == ASSUME NEW T, NEW toks \in Seq(T), NEW t \in T PROVE Unchanged(toks) /\ OneMore(toks, t)
BY DEF Unchanged, OneMore

LEMMA AddNone == ASSUME NEW T, NEW toks \in Seq(T) PROVE Unchanged(toks)
BY DEF Unchanged

(* A word.                                                                 *)
LEMMA ReadWord ==
    ASSUME NEW A, La \in A, Lb \in A, NEW sql \in Seq(A), NEW i \in Nat \ {0}, NEW toks \in Seq(Tok(A)),
           At(sql, i, <<La, Lb>>), i + 2 > Len(sql) \/ ~ isIdentChar(sql[i + 2])
    PROVE  Reads(sql, i, toks, 2, <<Token(<<La, Lb>>, FALSE)>>)
<1> DEFINE N == Len(sql)
           hits == {j \in DOMAIN sql : ~ isIdentChar(sql[j])}
           w == WordEnd(sql, i)
           t == Token(<<La, Lb>>, FALSE)
<1>1. Holds(sql, i, La) /\ Holds(sql, i + 1, Lb) BY AtPair, Zenon
<1>2. i \in 1..N /\ sql[i] = La /\ i + 1 \in 1..N /\ sql[i + 1] = Lb BY <1>1, Zenon DEF Holds
<1>3. isIdentChar(La) /\ isIdentChar(Lb) BY Zenon DEF isIdentChar, La, Lb
<1>4. N \in Nat /\ DOMAIN sql = 1..N /\ i \in Nat OBVIOUS
<1>5. hits \subseteq Nat BY <1>4
<1>6. i \notin hits /\ i + 1 \notin hits BY <1>2, <1>3, Zenon
<1>7. \A k \in hits : i <= k => i + 2 <= k
  <2>1. ASSUME NEW k \in hits, i <= k PROVE i + 2 <= k
    <3>1. k \in Nat /\ k # i /\ k # i + 1 BY <1>5, <1>6, Zenon
    <3> HIDE DEF hits
    <3> QED BY <1>4, <2>1, <3>1
  <2> QED BY <2>1
<1>8. w = i + 2
  <2>1. w = FirstFrom(hits, i, N) BY Zenon DEF WordEnd
  <2>2. CASE i + 2 > N
    <3>1. N = i + 1
      <4>1. N \in Nat /\ i \in Nat /\ i + 1 \in 1..N /\ i + 2 > N BY <1>2, <1>4, <2>2, Zenon
      <4> HIDE DEF N
      <4> QED BY <4>1
    <3>2. \A k \in hits : ~ (i <= k)
      <4>1. ASSUME NEW k \in hits, i <= k PROVE FALSE
        <5>1. i + 2 <= k BY <1>7, <4>1, Zenon
        <5>2. k \in 1..N BY <1>4
        <5> QED BY <1>4, <2>2, <5>1, <5>2
      <4> QED BY <4>1, Zenon
    <3> HIDE DEF hits
    <3>3. FirstIs(hits, i, N, N + 1) BY <1>4, <1>5, <3>2, FirstMiss, Zenon
    <3>4. N + 1 = i + 2 BY <1>4, <3>1
    <3> QED BY <2>1, <3>3, <3>4, Zenon DEF FirstIs
  <2>3. CASE ~ (i + 2 > N)
    <3>1. i + 2 \in 1..N /\ i <= i + 2 BY <1>4, <2>3
    <3>a. ~ isIdentChar(sql[i + 2]) BY <2>3, Zenon
    <3>b. i + 2 \in DOMAIN sql BY <1>4, <3>1, Zenon
    <3>2. i + 2 \in hits BY <3>a, <3>b, Zenon
    <3> HIDE DEF hits
    <3>3. FirstIs(hits, i, N, i + 2) BY <1>4, <1>5, <1>7, <3>1, <3>2, FirstHit, Zenon
    <3> QED BY <2>1, <3>3, Zenon DEF FirstIs
  <2> QED BY <2>2, <2>3
<1>9. SubSeq(sql, i, (i + 2) - 1) = <<La, Lb>>
  <2>1. (i + 2) - 1 = i + 1 BY <1>4
  <2> DEFINE x == SubSeq(sql, i, i + 1)
             y == <<La, Lb>>
  <2>2. x = [k \in 1..2 |-> sql[(i + k) - 1]] BY <1>2, <1>4
  <2>3. y = [k \in 1..2 |-> y[k]] /\ y[1] = La /\ y[2] = Lb OBVIOUS
  <2>4. \A k \in 1..2 : sql[(i + k) - 1] = y[k]
    <3>1. \A k \in 1..2 : k = 1 \/ k = 2 OBVIOUS
    <3>2. (i + 1) - 1 = i /\ (i + 2) - 1 = i + 1 BY <1>4
    <3> QED BY <1>2, <2>3, <3>1, <3>2, Zenon
  <2> HIDE DEF x, y
  <2>5. x = y BY <2>2, <2>3, <2>4, Zenon
  <2> QED BY <2>1, <2>5, Zenon DEF x, y
<1>10. RoundFrom(sql, i, toks) BY <1>2, RoundAt, Zenon
<1>11. TokenRound(sql, TokSt(i, toks), 2) = TokSt(i + 2, Append(toks, t))
  BY <1>2, <1>3, <1>8, <1>9, <1>10, Zenon DEF RoundFrom
<1>12. t \in Tok(A)
  <2>1. <<La, Lb>> \in Seq(A) OBVIOUS
  <2> QED BY <2>1, Zenon DEF Token, Tok
<1> HIDE DEF t
<1>13. OneMore(toks, t) BY <1>12, AddTokens, Zenon
<1>14. TokenRound(sql, TokSt(i, toks), 2) = TokSt(i + 2, toks \o <<t>>) BY <1>11, <1>13, Zenon DEF OneMore
<1>15. 2 >= 1 OBVIOUS
<1> QED BY <1>14, <1>15, Zenon DEF Reads, t

(* A dot.                                                                  *)
LEMMA ReadDot ==
    ASSUME NEW A, Dot \in A, NEW sql \in Seq(A), NEW i \in Nat \ {0}, NEW toks \in Seq(Tok(A)), At(sql, i, <<Dot>>)
    PROVE  Reads(sql, i, toks, 1, <<Token(<<Dot>>, FALSE)>>)
<1> DEFINE t == Token(<<Dot>>, FALSE)
<1>1. Holds(sql, i, Dot) BY AtByte, Zenon
<1>2. i \in 1..Len(sql) /\ sql[i] = Dot BY <1>1, Zenon DEF Holds
<1>3. RoundFrom(sql, i, toks) BY <1>2, RoundAt, Zenon
<1>4. Dot \in Punctuation BY Zenon DEF Dot, Punctuation
<1>5. TokenRound(sql, TokSt(i, toks), 2) = TokSt(i + 1, Append(toks, t)) BY <1>2, <1>3, <1>4, Zenon DEF RoundFrom
<1>6. t \in Tok(A)
  <2>1. <<Dot>> \in Seq(A) OBVIOUS
  <2> QED BY <2>1, Zenon DEF Token, Tok
<1> HIDE DEF t
<1>7. OneMore(toks, t) BY <1>6, AddTokens, Zenon
<1>8. TokenRound(sql, TokSt(i, toks), 2) = TokSt(i + 1, toks \o <<t>>) BY <1>5, <1>7, Zenon DEF OneMore
<1>9. 1 >= 1 OBVIOUS
<1> QED BY <1>8, <1>9, Zenon DEF Reads, t

(* A space.                                                                *)
LEMMA ReadSpace ==
    ASSUME NEW A, NEW sql \in Seq(A), NEW i \in Nat \ {0}, NEW toks \in Seq(Tok(A)), At(sql, i, <<Whitespace>>)
    PROVE  Reads(sql, i, toks, 1, <<>>)
<1>1. Holds(sql, i, Whitespace) BY AtByte, Zenon
<1>2. SkipsByte(sql, i, toks) BY <1>1, PlainBytes, PlainRound, Zenon
<1>3. Unchanged(toks) BY AddNone, Zenon
<1>4. 1 >= 1 OBVIOUS
<1> QED BY <1>2, <1>3, <1>4, Zenon DEF SkipsByte, Unchanged, Reads

(* A minus is no comment.                                                  *)
LEMMA ReadMinus ==
    ASSUME NEW A, NEW sql \in Seq(A), NEW i \in Nat \ {0}, NEW toks \in Seq(Tok(A)), At(sql, i, <<Dash, Whitespace>>)
    PROVE  Reads(sql, i, toks, 2, <<>>)
<1>1. Holds(sql, i, Dash) /\ Holds(sql, i + 1, Whitespace) BY AtPair, Zenon
<1>2. i \in 1..Len(sql) /\ sql[i] = Dash /\ sql[i + 1] = Whitespace BY <1>1, Zenon DEF Holds
<1>3. RoundFrom(sql, i, toks) BY <1>2, RoundAt, Zenon
<1>4. Apart(Dash) /\ Whitespace # Dash BY BytesApart, Zenon DEF Whitespace, Dash
<1>5. Other(sql, i) BY <1>2, <1>4, Zenon DEF Apart, Other, Comment, Block, Near
<1>6. TokenRound(sql, TokSt(i, toks), 2) = TokSt(i + 1, toks) BY <1>3, <1>5, Zenon DEF RoundFrom
<1>7. SkipsByte(sql, i + 1, toks) BY <1>1, PlainBytes, PlainRound, Zenon
<1>8. (i + 1) + 1 = i + 2 /\ 2 >= 2 OBVIOUS
<1>9. TokenRound(sql, TokenRound(sql, TokSt(i, toks), 2), 2) = TokSt(i + 2, toks)
  BY <1>6, <1>7, <1>8, Zenon DEF SkipsByte
<1>10. Unchanged(toks) BY AddNone, Zenon
<1> QED BY <1>8, <1>9, <1>10, Zenon DEF Unchanged, Reads

(* A line comment ends at its line end, which is skipped next.             *)
LEMMA ReadLine ==
    ASSUME NEW A, Dash \in A, NewLine \in A, NEW sql \in Seq(A), NEW i \in Nat \ {0}, NEW toks \in Seq(Tok(A)),
           NEW c \in Seq(A), NewLine \notin Range(c), At(sql, i, <<Dash, Dash>> \o c \o <<NewLine>>)
    PROVE  Reads(sql, i, toks, 3 + Len(c), <<>>)
<1> DEFINE N == Len(sql)
           n == Len(c)
           e == i + 2 + n
           u == <<Dash, Dash>>
           v == <<NewLine>>
           hits == {j \in DOMAIN sql : sql[j] = NewLine}
<1>1. u \in Seq(A) /\ v \in Seq(A) /\ Len(u) = 2 /\ Len(v) = 1 /\ u \o c \in Seq(A) /\ Len(u \o c) = 2 + n OBVIOUS
<1>2. N \in Nat /\ n \in Nat /\ DOMAIN sql = 1..N /\ i \in Nat /\ i + 2 \in Nat /\ i + 2 <= e OBVIOUS
<1> HIDE DEF u, v
<1>3. At(sql, i, u \o c) /\ At(sql, i + Len(u \o c), v)
  <2>1. At(sql, i, (u \o c) \o v) BY Zenon DEF u, v
  <2> QED BY <1>1, <2>1, AtConcat, Zenon
<1>4. At(sql, i, u) /\ At(sql, i + Len(u), c) BY <1>1, <1>3, AtConcat, Zenon
<1>5. i + Len(u) = i + 2 /\ i + Len(u \o c) = e BY <1>1, <1>2
<1>6. At(sql, i + 2, c) /\ At(sql, e, v) /\ e \in Nat \ {0}
  <2>1. e \in Nat \ {0} BY <1>2
  <2> QED BY <1>3, <1>4, <1>5, <2>1, Zenon
<1>7. Holds(sql, i, Dash) /\ Holds(sql, i + 1, Dash) BY <1>4, AtPair, Zenon DEF u
<1>8. Holds(sql, e, NewLine) BY <1>6, AtByte, Zenon DEF v
<1>9. i \in 1..N /\ sql[i] = Dash /\ i + 1 \in 1..N /\ sql[i + 1] = Dash /\ e \in 1..N /\ sql[e] = NewLine
  BY <1>7, <1>8, Zenon DEF Holds
<1>10. Comment(sql, i)
  <2>1. i < N BY <1>2, <1>9
  <2> QED BY <1>9, <2>1, Zenon DEF Comment, Near
<1>11. RoundFrom(sql, i, toks) BY <1>9, RoundAt, Zenon
<1>12. \A k \in 1..n : sql[((i + 2) - 1) + k] = c[k] /\ c[k] # NewLine
  <2>1. \A k \in 1..n : c[k] # NewLine
    <3>1. DOMAIN c = 1..n OBVIOUS
    <3> QED BY <3>1, Zenon DEF Range
  <2> QED BY <1>6, <2>1, Zenon DEF At
<1>13. \A k \in hits : i + 2 <= k => e <= k
  <2>1. ASSUME NEW k \in hits, i + 2 <= k, ~ (e <= k) PROVE FALSE
    <3>1. k \in Nat /\ sql[k] = NewLine BY <1>2
    <3> DEFINE m == (k - (i + 2)) + 1
    <3> HIDE DEF hits
    <3>2. m \in 1..n /\ ((i + 2) - 1) + m = k BY <1>2, <2>1, <3>1
    <3> HIDE DEF m
    <3> QED BY <1>12, <3>1, <3>2, Zenon
  <2> QED BY <2>1, Zenon
<1>14. hits \subseteq Nat /\ e \in hits
  <2>1. e \in DOMAIN sql BY <1>2, <1>9, Zenon
  <2> QED BY <1>2, <1>9, <2>1
<1>15. LineEnd(sql, i + 2) = FirstFrom(hits, i + 2, N) BY Zenon DEF LineEnd
<1> HIDE DEF hits
<1>16. FirstIs(hits, i + 2, N, e) BY <1>2, <1>13, <1>14, FirstHit, Zenon
<1>17. TokenRound(sql, TokSt(i, toks), 2) = TokSt(e, toks)
  BY <1>10, <1>11, <1>15, <1>16, Zenon DEF RoundFrom, FirstIs
<1>18. SkipsByte(sql, e, toks) BY <1>8, PlainBytes, PlainRound, Zenon
<1>19. e + 1 = i + (3 + n) /\ 3 + n >= 2 BY <1>2
<1>20. TokenRound(sql, TokenRound(sql, TokSt(i, toks), 2), 2) = TokSt(i + (3 + n), toks)
  BY <1>17, <1>18, <1>19, Zenon DEF SkipsByte
<1>21. Unchanged(toks) BY AddNone, Zenon
<1> QED BY <1>19, <1>20, <1>21, Zenon DEF Unchanged, Reads

(* A block comment ends at its own end, whatever it contains.              *)
LEMMA ReadBlock ==
    ASSUME NEW A, Star \in A, Slash \in A, NEW sql \in Seq(A), NEW i \in Nat \ {0}, NEW toks \in Seq(Tok(A)),
           NEW c \in Seq(A), \A k \in 1..(Len(c) - 1) : ~ (c[k] = Star /\ c[k + 1] = Slash),
           At(sql, i, <<Slash, Star>> \o c \o <<Star, Slash>>)
    PROVE  Reads(sql, i, toks, 4 + Len(c), <<>>)
<1> DEFINE N == Len(sql)
           n == Len(c)
           e == i + 2 + n
           u == <<Slash, Star>>
           v == <<Star, Slash>>
           hits == {j \in 1..(Len(sql) - 1) : sql[j] = Star /\ sql[j + 1] = Slash}
<1>1. u \in Seq(A) /\ v \in Seq(A) /\ Len(u) = 2 /\ Len(v) = 2 /\ u \o c \in Seq(A) /\ Len(u \o c) = 2 + n OBVIOUS
<1>2. N \in Nat /\ n \in Nat /\ i \in Nat /\ i + 2 \in Nat /\ i + 2 <= e OBVIOUS
<1> HIDE DEF u, v
<1>3. At(sql, i, u \o c) /\ At(sql, i + Len(u \o c), v)
  <2>1. At(sql, i, (u \o c) \o v) BY Zenon DEF u, v
  <2> QED BY <1>1, <2>1, AtConcat, Zenon
<1>4. At(sql, i, u) /\ At(sql, i + Len(u), c) BY <1>1, <1>3, AtConcat, Zenon
<1>5. i + Len(u) = i + 2 /\ i + Len(u \o c) = e BY <1>1, <1>2
<1>6. At(sql, i + 2, c) /\ At(sql, e, v) /\ e \in Nat \ {0}
  <2>1. e \in Nat \ {0} BY <1>2
  <2> QED BY <1>3, <1>4, <1>5, <2>1, Zenon
<1>7. Holds(sql, i, Slash) /\ Holds(sql, i + 1, Star) BY <1>4, AtPair, Zenon DEF u
<1>8. Holds(sql, e, Star) /\ Holds(sql, e + 1, Slash) BY <1>6, AtPair, Zenon DEF v
<1>9. /\ i \in 1..N /\ sql[i] = Slash /\ i + 1 \in 1..N /\ sql[i + 1] = Star
      /\ e \in 1..N /\ sql[e] = Star /\ e + 1 \in 1..N /\ sql[e + 1] = Slash
  BY <1>7, <1>8, Zenon DEF Holds
<1>10. Block(sql, i)
  <2>1. i < N BY <1>2, <1>9
  <2> QED BY <1>9, <2>1, Zenon DEF Block, Near
<1>11. RoundFrom(sql, i, toks) BY <1>9, RoundAt, Zenon
<1>12. \A k \in 1..n : sql[((i + 2) - 1) + k] = c[k] BY <1>6, Zenon DEF At
<1>13. \A k \in hits : i + 2 <= k => e <= k
  <2>1. ASSUME NEW k \in hits, i + 2 <= k, ~ (e <= k) PROVE FALSE
    <3>1. k \in Nat /\ sql[k] = Star /\ sql[k + 1] = Slash BY <1>2
    <3> DEFINE m == (k - (i + 2)) + 1
    <3> HIDE DEF hits
    <3>2. m \in 1..n /\ ((i + 2) - 1) + m = k BY <1>2, <2>1, <3>1
    <3>4. m = n => k + 1 = e BY <1>2, <3>1
    <3> HIDE DEF m, n, N
    <3>3. m # n => m \in 1..(n - 1) /\ m + 1 \in 1..n /\ ((i + 2) - 1) + (m + 1) = k + 1
      <4>1. m # n => m \in 1..(n - 1) /\ m + 1 \in 1..n BY <1>2, <3>2
      <4>2. ((i + 2) - 1) + (m + 1) = k + 1 BY <1>2, <3>2
      <4> QED BY <4>1, <4>2
    <3>5. CASE m = n
      <4>1. sql[k + 1] = Star BY <1>9, <3>4, <3>5, Zenon
      <4>2. Star # Slash BY Zenon DEF Star, Slash
      <4> QED BY <3>1, <4>1, <4>2, Zenon
    <3>6. CASE m # n
      <4>1. c[m] = Star BY <1>12, <3>1, <3>2, Zenon
      <4>2. c[m + 1] = Slash BY <1>12, <3>1, <3>3, <3>6, Zenon
      <4> QED BY <3>3, <3>6, <4>1, <4>2, Zenon DEF n
    <3> QED BY <3>5, <3>6
  <2> QED BY <2>1, Zenon
<1>14. hits \subseteq Nat /\ e \in hits
  <2>1. e \in 1..(N - 1) BY <1>2, <1>9
  <2>2. e \in hits BY <1>9, <2>1, Zenon
  <2> QED BY <1>2, <2>2
<1> DEFINE f == FirstFrom(hits, i + 2, N)
<1>15. BlockEnd(sql, i + 2) = IF f > N THEN f ELSE f + 2 BY Zenon DEF BlockEnd
<1> HIDE DEF hits
<1>16. FirstIs(hits, i + 2, N, e) BY <1>2, <1>13, <1>14, FirstHit, Zenon
<1>17. f = e BY <1>16, Zenon DEF FirstIs
<1>18. ~ (e > N) BY <1>2, <1>9
<1>19. BlockEnd(sql, i + 2) = e + 2 BY <1>15, <1>17, <1>18, Zenon
<1>20. e + 2 = i + (4 + n) /\ 4 + n >= 1 BY <1>2
<1>21. TokenRound(sql, TokSt(i, toks), 2) = TokSt(i + (4 + n), toks)
  BY <1>10, <1>11, <1>19, <1>20, Zenon DEF RoundFrom
<1>22. Unchanged(toks) BY AddNone, Zenon
<1> QED BY <1>20, <1>21, <1>22, Zenon DEF Unchanged, Reads

Joined(s, t, S) == s \o t \in Seq(S) /\ Len(s \o t) = Len(s) + Len(t)

(* The length of two texts.                                                *)
LEMMA ConcatLength == ASSUME NEW S, NEW s \in Seq(S), NEW t \in Seq(S) PROVE Joined(s, t, S)
BY DEF Joined

(* Delimited text.                                                         *)
LEMMA Enclosed ==
    ASSUME NEW A, NEW sql \in Seq(A), NEW i \in Nat \ {0}, NEW d, d.open \in A, d.close \in A, NEW c \in Seq(A),
           d.open # d.close => d.close \notin Range(c),
           NEW w, w = Doubled(c, d.close), At(sql, i, <<d.open>> \o w \o <<d.close>>),
           d.open = d.close => i + (2 + Len(w)) > Len(sql) \/ sql[i + (2 + Len(w))] # d.close
    PROVE  /\ Holds(sql, i, d.open) /\ 2 + Len(w) >= 1
           /\ Fields(scanDelimited(sql, i, d), i + (2 + Len(w)), c, TRUE)
<1> DEFINE N == Len(sql)
           n == Len(w)
           e == i + 1 + n
           u == <<d.open>>
           v == <<d.close>>
<1>0. w \in Seq(A) BY DoubledTyped, Zenon
<1>1. u \in Seq(A) /\ v \in Seq(A) /\ Len(u) = 1 /\ Len(v) = 1 OBVIOUS
<1> HIDE DEF u, v
<1>a. u \o w \in Seq(A) /\ Len(u \o w) = 1 + n /\ n \in Nat
  <2>1. Joined(u, w, A) BY <1>0, <1>1, ConcatLength, Zenon
  <2>2. n \in Nat BY <1>0
  <2> QED BY <1>1, <2>1, <2>2, Zenon DEF Joined
<1>2. N \in Nat /\ n \in Nat /\ i \in Nat /\ i + 1 \in Nat BY <1>a
<1>3. At(sql, i, u \o w) /\ At(sql, i + Len(u \o w), v)
  <2>1. At(sql, i, (u \o w) \o v) BY Zenon DEF u, v
  <2> QED BY <1>1, <1>a, <2>1, AtConcat, Zenon
<1>4. At(sql, i, u) /\ At(sql, i + Len(u), w) BY <1>0, <1>1, <1>3, AtConcat, Zenon
<1>5. i + Len(u) = i + 1 /\ i + Len(u \o w) = e BY <1>1, <1>2, <1>a
<1>6. At(sql, i + 1, w) /\ At(sql, e, v) /\ e \in Nat \ {0}
  <2>1. e \in Nat \ {0} BY <1>2
  <2> QED BY <1>3, <1>4, <1>5, <2>1, Zenon
<1>7. Holds(sql, i, d.open) BY <1>4, AtByte, Zenon DEF u
<1>8. Holds(sql, e, d.close) BY <1>6, AtByte, Zenon DEF v
<1> HIDE DEF n, N
<1>9. e + 1 = i + (2 + n) /\ 2 + n >= 1 BY <1>2
<1>10. d.open = d.close => ~ (e < N /\ sql[e + 1] = d.close)
  <2>1. ASSUME d.open = d.close, e < N, sql[e + 1] = d.close PROVE FALSE
    <3>1. i + (2 + n) > N \/ sql[i + (2 + n)] # d.close BY <2>1, Zenon DEF n, N
    <3>2. e + 1 > N BY <1>9, <2>1, <3>1, Zenon
    <3> QED BY <1>2, <1>6, <2>1, <3>2
  <2> QED BY <2>1
<1>11. Fields(scanDelimited(sql, i, d), e + 1, c, TRUE)
  BY <1>2, <1>6, <1>8, <1>10, ScanWritten, Zenon DEF n, N
<1> QED BY <1>7, <1>9, <1>11, Zenon DEF n

DelimIs(d, x, y) == d.open = x /\ d.close = y

(* The delimiters of a literal, of a quoted and of a bracketed name.       *)
LEMMA Delimiters ==
    /\ DelimIs(Literal, Quote, Quote)
    /\ DelimIs(DelimOf(DQuote), DQuote, DQuote)
    /\ DelimIs(DelimOf(OpenBracket), OpenBracket, CloseBracket)
<1> DEFINE D(x, y) == [open |-> x, close |-> y]
<1>1. \A x, y : DelimIs(D(x, y), x, y) BY DEF DelimIs
<1>2. Delims = {D(DQuote, DQuote), D(Backquote, Backquote), D(OpenBracket, CloseBracket)} BY Zenon DEF Delims
<1>3. Literal = D(Quote, Quote) BY Zenon DEF Literal
<1> HIDE DEF D
<1>4. DQuote # Backquote /\ DQuote # OpenBracket /\ Backquote # OpenBracket
  BY Zenon DEF DQuote, Backquote, OpenBracket
<1>5. \A d \in Delims : DelimIs(d, DQuote, DQuote) \/ DelimIs(d, Backquote, Backquote)
                          \/ DelimIs(d, OpenBracket, CloseBracket)
  BY <1>1, <1>2, Zenon
<1>6. DelimIs(DelimOf(DQuote), DQuote, DQuote)
  <2>1. \E d \in Delims : d.open = DQuote BY <1>1, <1>2, Zenon DEF DelimIs
  <2>2. DelimOf(DQuote) \in Delims /\ DelimOf(DQuote).open = DQuote BY <2>1, Zenon DEF DelimOf
  <2> QED BY <1>4, <1>5, <2>2, Zenon DEF DelimIs
<1>7. DelimIs(DelimOf(OpenBracket), OpenBracket, CloseBracket)
  <2>1. \E d \in Delims : d.open = OpenBracket BY <1>1, <1>2, Zenon DEF DelimIs
  <2>2. DelimOf(OpenBracket) \in Delims /\ DelimOf(OpenBracket).open = OpenBracket BY <2>1, Zenon DEF DelimOf
  <2> QED BY <1>4, <1>5, <2>2, Zenon DEF DelimIs
<1> QED BY <1>1, <1>3, <1>6, <1>7, Zenon

(* A string literal is skipped.                                            *)
LEMMA ReadLiteral ==
    ASSUME NEW A, Quote \in A, NEW sql \in Seq(A), NEW i \in Nat \ {0}, NEW toks \in Seq(Tok(A)), NEW c \in Seq(A),
           NEW w, w = Doubled(c, Quote), At(sql, i, <<Quote>> \o w \o <<Quote>>),
           i + (2 + Len(w)) > Len(sql) \/ sql[i + (2 + Len(w))] # Quote
    PROVE  Reads(sql, i, toks, 2 + Len(w), <<>>)
<1> DEFINE d == Literal
           n == 2 + Len(w)
<1>1. d.open = Quote /\ d.close = Quote BY Delimiters, Zenon DEF DelimIs
<1> HIDE DEF d
<1>2. /\ Holds(sql, i, d.open) /\ n >= 1
      /\ Fields(scanDelimited(sql, i, d), i + n, c, TRUE)
  <2>1. /\ d.open \in A /\ d.close \in A /\ w = Doubled(c, d.close)
        /\ At(sql, i, <<d.open>> \o w \o <<d.close>>)
        /\ (d.open # d.close => d.close \notin Range(c))
        /\ (d.open = d.close => i + (2 + Len(w)) > Len(sql) \/ sql[i + (2 + Len(w))] # d.close)
    BY <1>1, Zenon
  <2> QED BY <2>1, Enclosed, Zenon
<1>3. i \in 1..Len(sql) /\ sql[i] = Quote BY <1>1, <1>2, Zenon DEF Holds
<1>4. StringEnd(sql, i) = i + n BY <1>2, Zenon DEF StringEnd, Fields, d
<1>5. RoundFrom(sql, i, toks) BY <1>3, RoundAt, Zenon
<1>6. TokenRound(sql, TokSt(i, toks), 2) = TokSt(i + n, toks) BY <1>3, <1>4, <1>5, Zenon DEF RoundFrom
<1>7. Unchanged(toks) BY AddNone, Zenon
<1> QED BY <1>2, <1>6, <1>7, Zenon DEF Unchanged, Reads

(* A quoted name is one token, with its content.                           *)
LEMMA ReadName ==
    ASSUME NEW A, NEW x \in A, NEW y \in A, x \in Opens, DelimIs(DelimOf(x), x, y),
           NEW sql \in Seq(A), NEW i \in Nat \ {0}, NEW toks \in Seq(Tok(A)), NEW c \in Seq(A),
           x # y => y \notin Range(c),
           NEW w, w = Doubled(c, y), At(sql, i, <<x>> \o w \o <<y>>),
           x = y => i + (2 + Len(w)) > Len(sql) \/ sql[i + (2 + Len(w))] # y
    PROVE  Reads(sql, i, toks, 2 + Len(w), <<Token(c, TRUE)>>)
<1> DEFINE d == DelimOf(x)
           n == 2 + Len(w)
           t == Token(c, TRUE)
           r == scanDelimited(sql, i, d)
<1>1. d.open = x /\ d.close = y BY Zenon DEF DelimIs
<1> HIDE DEF d
<1>2. Holds(sql, i, d.open) /\ n >= 1 /\ Fields(r, i + n, c, TRUE)
  <2>1. /\ d.open \in A /\ d.close \in A /\ w = Doubled(c, d.close)
        /\ At(sql, i, <<d.open>> \o w \o <<d.close>>)
        /\ (d.open # d.close => d.close \notin Range(c))
        /\ (d.open = d.close => i + (2 + Len(w)) > Len(sql) \/ sql[i + (2 + Len(w))] # d.close)
    BY <1>1, Zenon
  <2> QED BY <2>1, Enclosed, Zenon
<1>3. i \in 1..Len(sql) /\ sql[i] = x BY <1>1, <1>2, Zenon DEF Holds
<1>4. r.i = i + n /\ r.text = c BY <1>2, Zenon DEF Fields
<1>5. RoundFrom(sql, i, toks) BY <1>3, RoundAt, Zenon
<1>6. TokenRound(sql, TokSt(i, toks), 2) = TokSt(i + n, Append(toks, t))
  BY <1>3, <1>4, <1>5, Zenon DEF RoundFrom, d
<1>7. t \in Tok(A) BY Zenon DEF Token, Tok
<1> HIDE DEF t
<1>8. OneMore(toks, t) BY <1>7, AddTokens, Zenon
<1>9. TokenRound(sql, TokSt(i, toks), 2) = TokSt(i + n, toks \o <<t>>) BY <1>6, <1>8, Zenon DEF OneMore
<1> QED BY <1>2, <1>9, Zenon DEF Reads, t

-----------------------------------------------------------------------------
(* Any lexeme.                                                             *)

Marks(A) == /\ La \in A /\ Lb \in A /\ Dot \in A /\ Whitespace \in A /\ Dash \in A /\ NewLine \in A
            /\ Slash \in A /\ Star \in A /\ Quote \in A /\ DQuote \in A /\ OpenBracket \in A /\ CloseBracket \in A
Kinds == {"word", "dot", "space", "minus", "line", "block", "literal", "quoted", "bracket"}
Lexeme(l, A) == l.kind \in Kinds /\ l.content \in Seq(A) /\ Writable(l)

\* What follows does not continue the lexeme.
Clear(sql, j, l) ==
    \/ j > Len(sql)
    \/ /\ l.kind = "word" => ~ isIdentChar(sql[j])
       /\ l.kind = "literal" => sql[j] # Quote
       /\ l.kind = "quoted" => sql[j] # DQuote

Framed(u, c, v, S) == u \o c \o v \in Seq(S) /\ Len(u \o c \o v) = Len(u) + Len(c) + Len(v) /\ (u \o c \o v)[1] = u[1]

(* A content between its delimiters.                                       *)
LEMMA Frames ==
    ASSUME NEW S, NEW u \in Seq(S), NEW c \in Seq(S), NEW v \in Seq(S), Len(u) >= 1
    PROVE  Framed(u, c, v, S)
<1> DEFINE x == u \o c
<1>1. x \in Seq(S) /\ Len(x) = Len(u) + Len(c) /\ x[1] = u[1] /\ Len(u) \in Nat /\ Len(c) \in Nat OBVIOUS
<1>2. Len(x) >= 1 BY <1>1
<1> HIDE DEF x
<1>3. x \o v \in Seq(S) /\ Len(x \o v) = Len(x) + Len(v) BY <1>1, ConcatLength, Zenon DEF Joined
<1>4. (x \o v)[1] = x[1] BY <1>1, <1>2
<1>5. Len(x \o v) = Len(u) + Len(c) + Len(v) BY <1>1, <1>3, Zenon
<1> QED BY <1>1, <1>3, <1>4, <1>5, Zenon DEF Framed, x

Headed(w, x, S) == w \in Seq(S) /\ Len(w) >= 1 /\ w[1] = x

(* Where the text of a lexeme starts.                                      *)
LEMMA Heading ==
    ASSUME NEW S
    PROVE  /\ \A x \in S : Headed(<<x>>, x, S)
           /\ \A x, y \in S : Headed(<<x, y>>, x, S)
           /\ \A u, c, v, x : Headed(u, x, S) /\ c \in Seq(S) /\ v \in Seq(S) => Headed(u \o c \o v, x, S)
<1>1. \A x \in S : Headed(<<x>>, x, S) BY DEF Headed
<1>2. \A x, y \in S : Headed(<<x, y>>, x, S) BY DEF Headed
<1>3. ASSUME NEW u, NEW c, NEW v, NEW x, Headed(u, x, S), c \in Seq(S), v \in Seq(S)
      PROVE  Headed(u \o c \o v, x, S)
  <2>1. u \in Seq(S) /\ Len(u) >= 1 /\ u[1] = x BY <1>3, Zenon DEF Headed
  <2>2. Framed(u, c, v, S) BY <1>3, <2>1, Frames, Zenon
  <2>3. u \o c \o v \in Seq(S) /\ Len(u \o c \o v) = Len(u) + Len(c) + Len(v) /\ (u \o c \o v)[1] = x
    BY <2>1, <2>2, Zenon DEF Framed
  <2>4. Len(u) \in Nat /\ Len(c) \in Nat /\ Len(v) \in Nat BY <1>3, <2>1
  <2>5. Len(u) + Len(c) + Len(v) >= 1 BY <2>1, <2>4
  <2> QED BY <2>3, <2>5, Zenon DEF Headed
<1> QED BY <1>1, <1>2, <1>3, Zenon

Starts(l) ==
    /\ l.kind # "word" => ~ isIdentChar(Spelled(l)[1])
    /\ l.kind # "literal" => Spelled(l)[1] # Quote
    /\ l.kind # "quoted" => Spelled(l)[1] # DQuote
Typed(l, A) == Spelled(l) \in Seq(A) /\ Len(Spelled(l)) >= 1 /\ Tokens(l) \in Seq(Tok(A))

(* The bytes a lexeme starts with.                                         *)
LEMMA StartBytes ==
    /\ \A c \in {Dot, Whitespace, Dash, Slash, OpenBracket, Quote, DQuote} : ~ isIdentChar(c)
    /\ \A c \in {La, Dot, Whitespace, Dash, Slash, OpenBracket, DQuote} : c # Quote
    /\ \A c \in {La, Dot, Whitespace, Dash, Slash, OpenBracket, Quote} : c # DQuote
<1>1. \A c \in {Dot, Whitespace, Dash, Slash, OpenBracket, Quote, DQuote} : ~ isIdentChar(c)
  BY Zenon DEF Dot, Whitespace, Dash, Slash, OpenBracket, Quote, DQuote, isIdentChar
<1>2. \A c \in {La, Dot, Whitespace, Dash, Slash, OpenBracket, DQuote} : c # Quote
  BY Zenon DEF La, Dot, Whitespace, Dash, Slash, OpenBracket, Quote, DQuote
<1>3. \A c \in {La, Dot, Whitespace, Dash, Slash, OpenBracket, Quote} : c # DQuote
  BY Zenon DEF La, Dot, Whitespace, Dash, Slash, OpenBracket, Quote, DQuote
<1> QED BY <1>1, <1>2, <1>3

(* Lexemes have a spelling, which is not empty, and tokens.                *)
LEMMA LexemeTyped ==
    ASSUME NEW A, Marks(A), NEW l, Lexeme(l, A)
    PROVE  Typed(l, A) /\ Starts(l)
<1> DEFINE w == Spelled(l)
           c == l.content
<1>1. SpelledIs(l) /\ TokensIs(l) BY SpelledKinds, TokensKinds, Zenon
<1>2. c \in Seq(A) /\ l.kind \in Kinds BY Zenon DEF Lexeme
<1>3. Tokens(l) \in Seq(Tok(A))
  <2>1. \A t : t \in Tok(A) => <<t>> \in Seq(Tok(A)) OBVIOUS
  <2>2. <<>> \in Seq(Tok(A)) OBVIOUS
  <2>3. \A x, q : x \in Seq(A) /\ q \in BOOLEAN => Token(x, q) \in Tok(A) BY Zenon DEF Token, Tok
  <2>4. <<La, Lb>> \in Seq(A) /\ <<Dot>> \in Seq(A) BY DEF Marks
  <2>5. \/ Tokens(l) = <<Token(<<La, Lb>>, FALSE)>> \/ Tokens(l) = <<Token(<<Dot>>, FALSE)>>
        \/ Tokens(l) = <<Token(c, TRUE)>> \/ Tokens(l) = <<>>
    BY <1>1, <1>2, Zenon DEF TokensIs, Kinds
  <2> QED BY <1>2, <2>1, <2>2, <2>3, <2>4, <2>5, Zenon
<1>4. (\A x \in A : Headed(<<x>>, x, A)) /\ (\A x, y \in A : Headed(<<x, y>>, x, A)) BY Heading, Zenon
<1>5. (\A x \in A : <<x>> \in Seq(A)) /\ (\A x, y \in A : <<x, y>> \in Seq(A)) OBVIOUS
<1>6. \A u, d, v, x : Headed(u, x, A) /\ d \in Seq(A) /\ v \in Seq(A) => Headed(u \o d \o v, x, A)
  BY Heading, Zenon
<1>7. Doubled(c, Quote) \in Seq(A) /\ Doubled(c, DQuote) \in Seq(A)
  <2>1. Quote \in A /\ DQuote \in A BY Zenon DEF Marks
  <2> QED BY <1>2, <2>1, DoubledTyped, Zenon
<1>8. l.kind = "word" => Headed(w, La, A) BY <1>1, <1>4, Zenon DEF SpelledIs, Marks
<1>9. l.kind = "dot" => Headed(w, Dot, A) BY <1>1, <1>4, Zenon DEF SpelledIs, Marks
<1>10. l.kind = "space" => Headed(w, Whitespace, A) BY <1>1, <1>4, Zenon DEF SpelledIs, Marks
<1>11. l.kind = "minus" => Headed(w, Dash, A) BY <1>1, <1>4, Zenon DEF SpelledIs, Marks
<1>12. l.kind = "line" => Headed(w, Dash, A)
  <2>1. Headed(<<Dash, Dash>>, Dash, A) /\ <<NewLine>> \in Seq(A) BY <1>4, <1>5, Zenon DEF Marks
  <2>2. Headed(<<Dash, Dash>> \o c \o <<NewLine>>, Dash, A) BY <1>2, <1>6, <2>1, Zenon
  <2> QED BY <1>1, <2>2, Zenon DEF SpelledIs
<1>13. l.kind = "block" => Headed(w, Slash, A)
  <2>1. Headed(<<Slash, Star>>, Slash, A) /\ <<Star, Slash>> \in Seq(A) BY <1>4, <1>5, Zenon DEF Marks
  <2>2. Headed(<<Slash, Star>> \o c \o <<Star, Slash>>, Slash, A) BY <1>2, <1>6, <2>1, Zenon
  <2> QED BY <1>1, <2>2, Zenon DEF SpelledIs
<1>14. l.kind = "literal" => Headed(w, Quote, A)
  <2>1. Headed(<<Quote>>, Quote, A) /\ <<Quote>> \in Seq(A) BY <1>4, <1>5, Zenon DEF Marks
  <2>2. Headed(<<Quote>> \o Doubled(c, Quote) \o <<Quote>>, Quote, A) BY <1>7, <1>6, <2>1, Zenon
  <2> QED BY <1>1, <2>2, Zenon DEF SpelledIs
<1>15. l.kind = "quoted" => Headed(w, DQuote, A)
  <2>1. Headed(<<DQuote>>, DQuote, A) /\ <<DQuote>> \in Seq(A) BY <1>4, <1>5, Zenon DEF Marks
  <2>2. Headed(<<DQuote>> \o Doubled(c, DQuote) \o <<DQuote>>, DQuote, A) BY <1>7, <1>6, <2>1, Zenon
  <2> QED BY <1>1, <2>2, Zenon DEF SpelledIs
<1>16. l.kind = "bracket" => Headed(w, OpenBracket, A)
  <2>1. Headed(<<OpenBracket>>, OpenBracket, A) /\ <<CloseBracket>> \in Seq(A) BY <1>4, <1>5, Zenon DEF Marks
  <2>2. Headed(<<OpenBracket>> \o c \o <<CloseBracket>>, OpenBracket, A) BY <1>2, <1>6, <2>1, Zenon
  <2> QED BY <1>1, <2>2, Zenon DEF SpelledIs
<1>17. w \in Seq(A) /\ Len(w) >= 1
  BY <1>2, <1>8, <1>9, <1>10, <1>11, <1>12, <1>13, <1>14, <1>15, <1>16, Zenon DEF Kinds, Headed
<1>18. l.kind # "word" => ~ isIdentChar(w[1])
  <2>1. l.kind # "word" => w[1] \in {Dot, Whitespace, Dash, Slash, OpenBracket, Quote, DQuote}
    BY <1>2, <1>9, <1>10, <1>11, <1>12, <1>13, <1>14, <1>15, <1>16, Zenon DEF Kinds, Headed
  <2> QED BY <2>1, StartBytes, Zenon
<1>19. l.kind # "literal" => w[1] # Quote
  <2>1. l.kind # "literal" => w[1] \in {La, Dot, Whitespace, Dash, Slash, OpenBracket, DQuote}
    BY <1>2, <1>8, <1>9, <1>10, <1>11, <1>12, <1>13, <1>15, <1>16, Zenon DEF Kinds, Headed
  <2> QED BY <2>1, StartBytes, Zenon
<1>20. l.kind # "quoted" => w[1] # DQuote
  <2>1. l.kind # "quoted" => w[1] \in {La, Dot, Whitespace, Dash, Slash, OpenBracket, Quote}
    BY <1>2, <1>8, <1>9, <1>10, <1>11, <1>12, <1>13, <1>14, <1>16, Zenon DEF Kinds, Headed
  <2> QED BY <2>1, StartBytes, Zenon
<1> QED BY <1>3, <1>17, <1>18, <1>19, <1>20, Zenon DEF Typed, Starts

Long(w, n) == Len(w) = n

(* How long the text of a lexeme is.                                       *)
LEMMA FrameLengths ==
    ASSUME NEW A, NEW c \in Seq(A), NEW x \in A, NEW y \in A, NEW z \in A, NEW t \in A
    PROVE  /\ Long(<<x, y>> \o c \o <<z>>, 3 + Len(c))
           /\ Long(<<x, y>> \o c \o <<z, t>>, 4 + Len(c))
           /\ Long(<<x>> \o c \o <<z>>, 2 + Len(c))
<1>1. /\ <<x>> \in Seq(A) /\ <<z>> \in Seq(A) /\ <<x, y>> \in Seq(A) /\ <<z, t>> \in Seq(A)
      /\ Len(<<x>>) = 1 /\ Len(<<z>>) = 1 /\ Len(<<x, y>>) = 2 /\ Len(<<z, t>>) = 2
  OBVIOUS
<1>2. 1 >= 1 /\ 2 >= 1 OBVIOUS
<1>3. /\ Framed(<<x, y>>, c, <<z>>, A) /\ Framed(<<x, y>>, c, <<z, t>>, A) /\ Framed(<<x>>, c, <<z>>, A)
  BY <1>1, <1>2, Frames, Zenon
<1>4. Len(c) \in Nat OBVIOUS
<1>5. 2 + Len(c) + 1 = 3 + Len(c) /\ 2 + Len(c) + 2 = 4 + Len(c) /\ 1 + Len(c) + 1 = 2 + Len(c) BY <1>4
<1>6. Len(<<x, y>> \o c \o <<z>>) = 3 + Len(c) BY <1>1, <1>3, <1>5, Zenon DEF Framed
<1>7. Len(<<x, y>> \o c \o <<z, t>>) = 4 + Len(c) BY <1>1, <1>3, <1>5, Zenon DEF Framed
<1>8. Len(<<x>> \o c \o <<z>>) = 2 + Len(c) BY <1>1, <1>3, <1>5, Zenon DEF Framed
<1> QED BY <1>6, <1>7, <1>8, Zenon DEF Long

(* tokenize reads any lexeme as its tokens.                                *)
LEMMA LexemeRead ==
    ASSUME NEW A, Marks(A), NEW l, Lexeme(l, A), NEW sql \in Seq(A), NEW i \in Nat \ {0},
           NEW toks \in Seq(Tok(A)), At(sql, i, Spelled(l)), Clear(sql, i + Len(Spelled(l)), l)
    PROVE  Reads(sql, i, toks, Len(Spelled(l)), Tokens(l))
<1> DEFINE w == Spelled(l)
           c == l.content
           n == Len(w)
           ts == Tokens(l)
<1>1. SpelledIs(l) /\ TokensIs(l) BY SpelledKinds, TokensKinds, Zenon
<1>2. c \in Seq(A) /\ l.kind \in Kinds /\ Writable(l) BY Zenon DEF Lexeme
<1>3. At(sql, i, w) /\ Clear(sql, i + n, l) OBVIOUS
<1>4. /\ \A x \in A : Len(<<x>>) = 1
      /\ \A x, y \in A : Len(<<x, y>>) = 2
  OBVIOUS
<1> HIDE DEF w, n, ts
<1>5. CASE l.kind = "word"
  <2>1. w = <<La, Lb>> /\ ts = <<Token(<<La, Lb>>, FALSE)>> BY <1>1, <1>5, Zenon DEF SpelledIs, TokensIs, w, ts
  <2>2. n = 2 BY <1>4, <2>1, Zenon DEF Marks, n
  <2>3. i + 2 > Len(sql) \/ ~ isIdentChar(sql[i + 2]) BY <1>3, <1>5, <2>2, Zenon DEF Clear
  <2>4. At(sql, i, <<La, Lb>>) BY <1>3, <2>1, Zenon
  <2>5. Reads(sql, i, toks, 2, <<Token(<<La, Lb>>, FALSE)>>) BY <2>3, <2>4, ReadWord, Zenon DEF Marks
  <2>6. Reads(sql, i, toks, n, ts) BY <2>1, <2>2, <2>5, Zenon
  <2> QED BY <2>6, Zenon DEF n, ts, w
<1>6. CASE l.kind = "dot"
  <2>1. w = <<Dot>> /\ ts = <<Token(<<Dot>>, FALSE)>> BY <1>1, <1>6, Zenon DEF SpelledIs, TokensIs, w, ts
  <2>2. n = 1 BY <1>4, <2>1, Zenon DEF Marks, n
  <2>4. At(sql, i, <<Dot>>) BY <1>3, <2>1, Zenon
  <2>5. Reads(sql, i, toks, 1, <<Token(<<Dot>>, FALSE)>>) BY <2>4, ReadDot, Zenon DEF Marks
  <2>6. Reads(sql, i, toks, n, ts) BY <2>1, <2>2, <2>5, Zenon
  <2> QED BY <2>6, Zenon DEF n, ts, w
<1>7. CASE l.kind = "space"
  <2>1. w = <<Whitespace>> /\ ts = <<>> BY <1>1, <1>7, Zenon DEF SpelledIs, TokensIs, w, ts
  <2>2. n = 1 BY <1>4, <2>1, Zenon DEF Marks, n
  <2>4. At(sql, i, <<Whitespace>>) BY <1>3, <2>1, Zenon
  <2>5. Reads(sql, i, toks, 1, <<>>) BY <2>4, ReadSpace, Zenon
  <2>6. Reads(sql, i, toks, n, ts) BY <2>1, <2>2, <2>5, Zenon
  <2> QED BY <2>6, Zenon DEF n, ts, w
<1>8. CASE l.kind = "minus"
  <2>1. w = <<Dash, Whitespace>> /\ ts = <<>> BY <1>1, <1>8, Zenon DEF SpelledIs, TokensIs, w, ts
  <2>2. n = 2 BY <1>4, <2>1, Zenon DEF Marks, n
  <2>4. At(sql, i, <<Dash, Whitespace>>) BY <1>3, <2>1, Zenon
  <2>5. Reads(sql, i, toks, 2, <<>>) BY <2>4, ReadMinus, Zenon
  <2>6. Reads(sql, i, toks, n, ts) BY <2>1, <2>2, <2>5, Zenon
  <2> QED BY <2>6, Zenon DEF n, ts, w
<1>9. CASE l.kind = "line"
  <2>1. w = <<Dash, Dash>> \o c \o <<NewLine>> /\ ts = <<>> BY <1>1, <1>9, Zenon DEF SpelledIs, TokensIs, w, ts
  <2>2. n = 3 + Len(c)
    <3>1. Long(<<Dash, Dash>> \o c \o <<NewLine>>, 3 + Len(c)) BY <1>2, FrameLengths, Zenon DEF Marks
    <3> QED BY <2>1, <3>1, Zenon DEF Long, n
  <2>3. NewLine \notin Range(c) BY <1>2, <1>9, Zenon DEF Writable
  <2>4. At(sql, i, <<Dash, Dash>> \o c \o <<NewLine>>) BY <1>3, <2>1, Zenon
  <2>5. Reads(sql, i, toks, 3 + Len(c), <<>>) BY <1>2, <2>3, <2>4, ReadLine, Zenon DEF Marks
  <2>6. Reads(sql, i, toks, n, ts) BY <2>1, <2>2, <2>5, Zenon
  <2> QED BY <2>6, Zenon DEF n, ts, w
<1>10. CASE l.kind = "block"
  <2>1. w = <<Slash, Star>> \o c \o <<Star, Slash>> /\ ts = <<>> BY <1>1, <1>10, Zenon DEF SpelledIs, TokensIs, w, ts
  <2>2. n = 4 + Len(c)
    <3>1. Long(<<Slash, Star>> \o c \o <<Star, Slash>>, 4 + Len(c)) BY <1>2, FrameLengths, Zenon DEF Marks
    <3> QED BY <2>1, <3>1, Zenon DEF Long, n
  <2>3. \A k \in 1..(Len(c) - 1) : ~ (c[k] = Star /\ c[k + 1] = Slash) BY <1>2, <1>10, Zenon DEF Writable
  <2>4. At(sql, i, <<Slash, Star>> \o c \o <<Star, Slash>>) BY <1>3, <2>1, Zenon
  <2>5. Reads(sql, i, toks, 4 + Len(c), <<>>) BY <1>2, <2>3, <2>4, ReadBlock, Zenon DEF Marks
  <2>6. Reads(sql, i, toks, n, ts) BY <2>1, <2>2, <2>5, Zenon
  <2> QED BY <2>6, Zenon DEF n, ts, w
<1>11. CASE l.kind = "literal"
  <2> DEFINE x == Doubled(c, Quote)
  <2>1. w = <<Quote>> \o x \o <<Quote>> /\ ts = <<>> BY <1>1, <1>11, Zenon DEF SpelledIs, TokensIs, w, ts
  <2>a. Quote \in A BY Zenon DEF Marks
  <2>b. x \in Seq(A) BY <1>2, <2>a, DoubledTyped, Zenon
  <2>2. n = 2 + Len(x)
    <3>1. Long(<<Quote>> \o x \o <<Quote>>, 2 + Len(x)) BY <2>a, <2>b, FrameLengths, Zenon
    <3> QED BY <2>1, <3>1, Zenon DEF Long, n
  <2>3. i + (2 + Len(x)) > Len(sql) \/ sql[i + (2 + Len(x))] # Quote BY <1>3, <1>11, <2>2, Zenon DEF Clear
  <2>4. At(sql, i, <<Quote>> \o x \o <<Quote>>) BY <1>3, <2>1, Zenon
  <2>5. Reads(sql, i, toks, 2 + Len(x), <<>>) BY <1>2, <2>a, <2>3, <2>4, ReadLiteral, Zenon
  <2>6. Reads(sql, i, toks, n, ts) BY <2>1, <2>2, <2>5, Zenon
  <2> QED BY <2>6, Zenon DEF n, ts, w
<1>12. CASE l.kind = "quoted"
  <2> DEFINE x == Doubled(c, DQuote)
  <2>1. w = <<DQuote>> \o x \o <<DQuote>> /\ ts = <<Token(c, TRUE)>>
    BY <1>1, <1>12, Zenon DEF SpelledIs, TokensIs, w, ts
  <2>a. DQuote \in A /\ DQuote \in Opens BY OpensAre, Zenon DEF Marks
  <2>b. x \in Seq(A) BY <1>2, <2>a, DoubledTyped, Zenon
  <2>2. n = 2 + Len(x)
    <3>1. Long(<<DQuote>> \o x \o <<DQuote>>, 2 + Len(x)) BY <2>a, <2>b, FrameLengths, Zenon
    <3> QED BY <2>1, <3>1, Zenon DEF Long, n
  <2>3. i + (2 + Len(x)) > Len(sql) \/ sql[i + (2 + Len(x))] # DQuote BY <1>3, <1>12, <2>2, Zenon DEF Clear
  <2>4. At(sql, i, <<DQuote>> \o x \o <<DQuote>>) BY <1>3, <2>1, Zenon
  <2>5. Reads(sql, i, toks, 2 + Len(x), <<Token(c, TRUE)>>)
    BY <1>2, <2>a, <2>3, <2>4, Delimiters, ReadName, Zenon
  <2>6. Reads(sql, i, toks, n, ts) BY <2>1, <2>2, <2>5, Zenon
  <2> QED BY <2>6, Zenon DEF n, ts, w
<1>13. CASE l.kind = "bracket"
  <2> DEFINE x == Doubled(c, CloseBracket)
  <2>a. OpenBracket \in A /\ CloseBracket \in A /\ OpenBracket \in Opens BY OpensAre, Zenon DEF Marks
  <2>b. CloseBracket \notin Range(c) BY <1>2, <1>13, Zenon DEF Writable
  <2>c. x = c BY <1>2, <2>a, <2>b, DoubledTyped, Zenon
  <2>1. w = <<OpenBracket>> \o x \o <<CloseBracket>> /\ ts = <<Token(c, TRUE)>>
    BY <1>1, <1>13, <2>c, Zenon DEF SpelledIs, TokensIs, w, ts
  <2>2. n = 2 + Len(x)
    <3>1. Long(<<OpenBracket>> \o x \o <<CloseBracket>>, 2 + Len(x)) BY <1>2, <2>a, <2>c, FrameLengths, Zenon
    <3> QED BY <2>1, <3>1, Zenon DEF Long, n
  <2>3. OpenBracket # CloseBracket BY Zenon DEF OpenBracket, CloseBracket
  <2>4. At(sql, i, <<OpenBracket>> \o x \o <<CloseBracket>>) BY <1>3, <2>1, Zenon
  <2>5. Reads(sql, i, toks, 2 + Len(x), <<Token(c, TRUE)>>)
    BY <1>2, <2>a, <2>b, <2>3, <2>4, Delimiters, ReadName, Zenon
  <2>6. Reads(sql, i, toks, n, ts) BY <2>1, <2>2, <2>5, Zenon
  <2> QED BY <2>6, Zenon DEF n, ts, w
<1> QED BY <1>2, <1>5, <1>6, <1>7, <1>8, <1>9, <1>10, <1>11, <1>12, <1>13, Zenon DEF Kinds

-----------------------------------------------------------------------------
(* A text of lexemes.                                                      *)

Chain(ls) == \A i \in 1..(Len(ls) - 1) : Follows(ls[i], ls[i + 1])
TextMore(ls, l, A) == TextOf(Append(ls, l)) = TextOf(ls) \o Spelled(l) /\ TextOf(ls) \in Seq(A)
TokensMore(ls, l, A) == TokensIn(Append(ls, l)) = TokensIn(ls) \o Tokens(l) /\ TokensIn(ls) \in Seq(Tok(A))

(* A lexeme more: its text.                                                *)
LEMMA TextGrows ==
    ASSUME NEW A, NEW L, \A l \in L : Typed(l, A), NEW p \in Seq(L), NEW x \in L
    PROVE  TextMore(p, x, A)
<1> DEFINE T == Seq(A)
           G == [y \in L \X Nat |-> Spelled(y[1])]
           q == Append(p, x)
<1>1. \A y \in L : Spelled(y) \in T BY Zenon DEF Typed
<1>2. G \in [L \X Nat -> T] BY <1>1
<1>3. \A y \in L, k \in Nat : G[<<y, k>>] = Spelled(y) OBVIOUS
<1>4. q \in Seq(L) OBVIOUS
<1>5. \A s \in Seq(L) : \A i \in DOMAIN s : s[i] \in L /\ i \in Nat OBVIOUS
<1> HIDE DEF G, T
<1>7. \A s \in Seq(L) : [i \in DOMAIN s |-> Spelled(s[i])] = Mapped(G, s) BY <1>3, <1>5, Zenon DEF Mapped
<1>8. TextOf(p) = FlattenSeq(Mapped(G, p)) /\ TextOf(q) = FlattenSeq(Mapped(G, q)) BY <1>4, <1>7, Zenon DEF TextOf
<1>9. Grows(G, p, x, T) BY <1>2, MappedGrows, Zenon
<1>10. Len(p) + 1 \in Nat OBVIOUS
<1> DEFINE m == Mapped(G, p)
           e == Spelled(x)
<1>11. Mapped(G, q) = Append(m, e) /\ m \in Seq(T) /\ e \in T BY <1>1, <1>3, <1>9, <1>10, Zenon DEF Grows
<1> HIDE DEF m, e
<1>12. FlattenSeq(Append(m, e)) = FlattenSeq(m) \o e BY <1>11, FlattenAppend DEF T
<1>13. FlattenSeq(m) \in Seq(A) BY <1>11, FlattenTyped, Zenon DEF T
<1>14. TextOf(q) = TextOf(p) \o e BY <1>8, <1>11, <1>12, Zenon DEF m
<1> QED BY <1>8, <1>13, <1>14, Zenon DEF TextMore, m, e

(* A lexeme more: its tokens.                                              *)
LEMMA TokensGrow ==
    ASSUME NEW A, NEW L, \A l \in L : Typed(l, A), NEW p \in Seq(L), NEW x \in L
    PROVE  TokensMore(p, x, A)
<1> DEFINE T == Seq(Tok(A))
           G == [y \in L \X Nat |-> Tokens(y[1])]
           q == Append(p, x)
<1>1. \A y \in L : Tokens(y) \in T BY Zenon DEF Typed
<1>2. G \in [L \X Nat -> T] BY <1>1
<1>3. \A y \in L, k \in Nat : G[<<y, k>>] = Tokens(y) OBVIOUS
<1>4. q \in Seq(L) OBVIOUS
<1>5. \A s \in Seq(L) : \A i \in DOMAIN s : s[i] \in L /\ i \in Nat OBVIOUS
<1> HIDE DEF G, T
<1>7. \A s \in Seq(L) : [i \in DOMAIN s |-> Tokens(s[i])] = Mapped(G, s) BY <1>3, <1>5, Zenon DEF Mapped
<1>8. TokensIn(p) = FlattenSeq(Mapped(G, p)) /\ TokensIn(q) = FlattenSeq(Mapped(G, q)) BY <1>4, <1>7, Zenon DEF TokensIn
<1>9. Grows(G, p, x, T) BY <1>2, MappedGrows, Zenon
<1>10. Len(p) + 1 \in Nat OBVIOUS
<1> DEFINE m == Mapped(G, p)
           e == Tokens(x)
<1>11. Mapped(G, q) = Append(m, e) /\ m \in Seq(T) /\ e \in T BY <1>1, <1>3, <1>9, <1>10, Zenon DEF Grows
<1> HIDE DEF m, e
<1>12. FlattenSeq(Append(m, e)) = FlattenSeq(m) \o e BY <1>11, FlattenAppend DEF T
<1>13. FlattenSeq(m) \in Seq(Tok(A)) BY <1>11, FlattenTyped, Zenon DEF T
<1>14. TokensIn(q) = TokensIn(p) \o e BY <1>8, <1>11, <1>12, Zenon DEF m
<1> QED BY <1>8, <1>13, <1>14, Zenon DEF TokensMore, m, e

(* No lexeme at all.                                                       *)
LEMMA NoLexeme == TextOf(<<>>) = <<>> /\ TokensIn(<<>>) = <<>>
<1> DEFINE f == [i \in DOMAIN <<>> |-> Spelled(<<>>[i])]
           g == [i \in DOMAIN <<>> |-> Tokens(<<>>[i])]
<1>1. f = <<>> /\ g = <<>> OBVIOUS
<1> HIDE DEF f, g
<1>2. FlattenSeq(f) = <<>> /\ FlattenSeq(g) = <<>> BY <1>1, FlattenEmpty, Zenon
<1> QED BY <1>2, Zenon DEF TextOf, TokensIn, f, g

(* The text and the tokens of lexemes are sequences.                       *)
LEMMA TextTyped ==
    ASSUME NEW A, NEW L, \A l \in L : Typed(l, A), NEW p \in Seq(L)
    PROVE  TextOf(p) \in Seq(A) /\ TokensIn(p) \in Seq(Tok(A))
<1>1. CASE p = <<>>
  <2>1. <<>> \in Seq(A) /\ <<>> \in Seq(Tok(A)) OBVIOUS
  <2> QED BY <1>1, <2>1, NoLexeme, Zenon
<1>2. CASE p # <<>>
  <2>1. PICK x \in L : TRUE BY <1>2
  <2>2. TextMore(p, x, A) BY <2>1, TextGrows, Zenon
  <2>3. TokensMore(p, x, A) BY <2>1, TokensGrow, Zenon
  <2> QED BY <2>2, <2>3, Zenon DEF TextMore, TokensMore
<1> QED BY <1>1, <1>2

(* What may be written after a lexeme does not continue it.                *)
LEMMA FollowsClear ==
    ASSUME NEW sql, NEW j \in Nat \ {0}, NEW l, NEW m, Follows(l, m), Starts(m), At(sql, j, Spelled(m)),
           NEW A, Spelled(m) \in Seq(A), Len(Spelled(m)) >= 1
    PROVE  Clear(sql, j, l)
<1> DEFINE w == Spelled(m)
<1>1. 1 \in 1..Len(w) /\ (j - 1) + 1 = j OBVIOUS
<1>2. sql[j] = w[1] BY <1>1, Zenon DEF At
<1> QED BY <1>2, Zenon DEF Follows, Starts, Clear

Reached(f, ls) == \E k \in 0..Len(TextOf(ls)) : f[k] = TokSt(1 + Len(TextOf(ls)), TokensIn(ls))
Ends(sql, ls) == ls # <<>> => Clear(sql, 1 + Len(TextOf(ls)), ls[Len(ls)])
Further(f, k, n, e) == \E j \in (k + 1)..(k + n) : f[j] = e

(* A lexeme read takes the loop one or two rounds further.                 *)
LEMMA ReadsOn ==
    ASSUME NEW sql, Len(sql) \in Nat, NEW f, TokSteps(f, sql, 2), NEW k \in Nat, NEW i, NEW toks,
           f[k] = TokSt(i, toks), NEW n \in Nat, NEW ts, Reads(sql, i, toks, n, ts), k + n <= Len(sql)
    PROVE  Further(f, k, n, TokSt(i + n, toks \o ts))
<1> DEFINE s == TokSt(i, toks)
           e == TokSt(i + n, toks \o ts)
<1>1. \/ n >= 1 /\ TokenRound(sql, s, 2) = e
      \/ n >= 2 /\ TokenRound(sql, TokenRound(sql, s, 2), 2) = e
  BY Zenon DEF Reads
<1> HIDE DEF s, e
<1>2. f[k] = s BY Zenon DEF s
<1>3. n >= 1 BY <1>1
<1>4. k + 1 \in 1..Len(sql) /\ (k + 1) - 1 = k /\ k + 1 \in (k + 1)..(k + n) BY <1>3
<1>5. f[k + 1] = TokenRound(sql, s, 2) BY <1>2, <1>4, Zenon DEF TokSteps
<1>6. CASE TokenRound(sql, s, 2) = e BY <1>4, <1>5, <1>6, Zenon DEF e, Further
<1>7. CASE n >= 2 /\ TokenRound(sql, TokenRound(sql, s, 2), 2) = e
  <2>1. k + 2 \in 1..Len(sql) /\ (k + 2) - 1 = k + 1 /\ k + 2 \in (k + 1)..(k + n) BY <1>7
  <2>2. f[k + 2] = TokenRound(sql, f[k + 1], 2) BY <2>1, Zenon DEF TokSteps
  <2> QED BY <1>5, <1>7, <2>1, <2>2, Zenon DEF e, Further
<1> QED BY <1>1, <1>6, <1>7, Zenon

(* tokenize reads the lexemes written, one after the other.                *)
LEMMA TextRead ==
    ASSUME NEW A, Marks(A), NEW L, \A l \in L : Lexeme(l, A), NEW sql \in Seq(A), NEW f, TokSteps(f, sql, 2)
    PROVE  \A ls \in Seq(L) : Chain(ls) /\ At(sql, 1, TextOf(ls)) /\ Ends(sql, ls) => Reached(f, ls)
<1> DEFINE P == {ls \in Seq(L) : Chain(ls) /\ At(sql, 1, TextOf(ls)) /\ Ends(sql, ls) => Reached(f, ls)}
           N == Len(sql)
<1>1. \A l \in L : Typed(l, A) /\ Starts(l) BY LexemeTyped, Zenon
<1>2. N \in Nat OBVIOUS
<1>3. <<>> \in P
  <2>1. <<>> \in Seq(L) /\ Len(<<>>) = 0 /\ 0 \in 0..0 /\ 1 + 0 = 1 OBVIOUS
  <2>2. f[0] = TokSt(1, <<>>) BY Zenon DEF TokSteps
  <2>3. Reached(f, <<>>) BY <2>1, <2>2, NoLexeme, Zenon DEF Reached
  <2> QED BY <2>1, <2>3, Zenon
<1>4. ASSUME NEW ls \in Seq(L), NEW l \in L, ls \in P PROVE Append(ls, l) \in P
  <2> DEFINE q == Append(ls, l)
             u == TextOf(ls)
             v == Spelled(l)
             toks == TokensIn(ls)
             ts == Tokens(l)
             m == Len(u)
             n == Len(v)
  <2>0. /\ q \in Seq(L) /\ Len(q) = Len(ls) + 1 /\ q[Len(q)] = l /\ q # <<>> /\ Len(ls) \in Nat
        /\ \A i \in 1..Len(ls) : q[i] = ls[i]
    <3>1. q \in Seq(L) /\ Len(q) = Len(ls) + 1 /\ Len(ls) \in Nat OBVIOUS
    <3>2. q[Len(ls) + 1] = l OBVIOUS
    <3>3. \A i \in 1..Len(ls) : q[i] = ls[i] OBVIOUS
    <3>4. Len(<<>>) = 0 /\ Len(ls) + 1 # 0 OBVIOUS
    <3> QED BY <3>1, <3>2, <3>3, <3>4, Zenon
  <2> SUFFICES ASSUME Chain(q), At(sql, 1, TextOf(q)), Ends(sql, q) PROVE Reached(f, q) BY <2>0, Zenon
  <2>1. TextMore(ls, l, A) BY <1>1, TextGrows, Zenon
  <2>2. TokensMore(ls, l, A) BY <1>1, TokensGrow, Zenon
  <2>3. TextOf(q) = u \o v /\ u \in Seq(A) BY <2>1, Zenon DEF TextMore
  <2>4. TokensIn(q) = toks \o ts /\ toks \in Seq(Tok(A)) BY <2>2, Zenon DEF TokensMore
  <2>5. v \in Seq(A) /\ n >= 1 /\ Starts(l) BY <1>1, Zenon DEF Typed
  <2>6. m \in Nat /\ n \in Nat BY <2>3, <2>5
  <2>7. Len(TextOf(q)) = m + n BY <2>3, <2>5, ConcatLength, Zenon DEF Joined
  <2>8. 1 \in Nat \ {0} /\ 1 + m \in Nat \ {0} BY <2>6
  <2>9. At(sql, 1, u) /\ At(sql, 1 + m, v)
    <3>1. At(sql, 1, u \o v) BY <2>3, Zenon
    <3> QED BY <2>3, <2>5, <2>8, <3>1, AtConcat, Zenon
  <2>10. Chain(ls)
    <3>1. ASSUME NEW i \in 1..(Len(ls) - 1) PROVE Follows(ls[i], ls[i + 1])
      <4>1. i \in 1..(Len(q) - 1) /\ i \in 1..Len(ls) /\ i + 1 \in 1..Len(ls) BY <2>0
      <4>2. q[i] = ls[i] /\ q[i + 1] = ls[i + 1] BY <2>0, <4>1, Zenon
      <4> QED BY <4>1, <4>2, Zenon DEF Chain
    <3> QED BY <3>1, Zenon DEF Chain
  <2>11. Ends(sql, ls)
    <3> SUFFICES ASSUME ls # <<>> PROVE Clear(sql, 1 + m, ls[Len(ls)]) BY Zenon DEF Ends
    <3>1. Len(ls) \in 1..(Len(q) - 1) /\ Len(ls) \in 1..Len(ls)
      <4>1. Len(ls) >= 1 OBVIOUS
      <4> QED BY <2>0, <4>1
    <3>2. q[Len(ls)] = ls[Len(ls)] /\ q[Len(ls) + 1] = l BY <2>0, <3>1, Zenon
    <3>3. Follows(ls[Len(ls)], l) BY <3>1, <3>2, Zenon DEF Chain
    <3> QED BY <2>5, <2>8, <2>9, <3>3, FollowsClear, Zenon
  <2>12. PICK k \in 0..m : f[k] = TokSt(1 + m, toks) BY <1>4, <2>9, <2>10, <2>11, Zenon DEF Reached
  <2>13. Clear(sql, (1 + m) + n, l)
    <3>1. 1 + (m + n) = (1 + m) + n BY <2>6
    <3>2. Clear(sql, 1 + Len(TextOf(q)), q[Len(q)]) BY <2>0, Zenon DEF Ends
    <3>3. q[Len(q)] = l BY <2>0, Zenon
    <3> QED BY <2>7, <3>1, <3>2, <3>3, Zenon
  <2>14. Reads(sql, 1 + m, toks, n, ts) BY <2>4, <2>8, <2>9, <2>13, LexemeRead, Zenon
  <2>15. k + n <= N
    <3>1. ((1 + m) - 1) + n <= N BY <2>9, Zenon DEF At
    <3> HIDE DEF m, n, N
    <3> QED BY <1>2, <2>6, <2>12, <3>1
  <2> HIDE DEF m, n, q
  <2>16. k \in Nat BY <2>6, <2>12
  <2>a. Further(f, k, n, TokSt((1 + m) + n, toks \o ts)) BY <1>2, <2>6, <2>12, <2>14, <2>15, <2>16, ReadsOn, Zenon
  <2>17. PICK j \in (k + 1)..(k + n) : f[j] = TokSt((1 + m) + n, toks \o ts) BY <2>a, Zenon DEF Further
  <2>18. j \in 0..(m + n) /\ (1 + m) + n = 1 + (m + n) BY <2>6, <2>12, <2>16
  <2> QED BY <2>4, <2>7, <2>17, <2>18, Zenon DEF Reached
<1>5. \A ls \in Seq(L), l \in L : ls \in P => Append(ls, l) \in P BY <1>4, Zenon
<1> HIDE DEF P
<1>6. \A ls \in Seq(L) : ls \in P BY <1>3, <1>5, SeqInduction, Zenon
<1> QED BY <1>6, Zenon DEF P

(* The tokens of a text are those written.                                 *)
LEMMA Tokenized ==
    ASSUME NEW A, Marks(A), NEW L, \A l \in L : Lexeme(l, A), NEW ls \in Seq(L), Chain(ls)
    PROVE  tokenize(TextOf(ls)) = TokensIn(ls)
<1> DEFINE sql == TextOf(ls)
           N == Len(sql)
           toks == TokensIn(ls)
           e == TokSt(1 + N, toks)
<1>1. \A l \in L : Typed(l, A) BY LexemeTyped, Zenon
<1>2. sql \in Seq(A) BY <1>1, TextTyped, Zenon
<1> HIDE DEF sql
<1>3. N \in Nat /\ 1 + N > N /\ 2 \in {1, 2} BY <1>2
<1>4. PICK f : TokSteps(f, sql, 2) /\ TokensOf(sql, 2) = f[N].toks BY <1>2, <1>3, TokLoop, Zenon
<1>5. At(sql, 1, sql)
  <2>1. (1 - 1) + N <= N BY <1>3
  <2>2. \A k \in 1..N : (1 - 1) + k = k OBVIOUS
  <2>3. \A k \in 1..N : sql[(1 - 1) + k] = sql[k] BY <2>2, Zenon
  <2> QED BY <2>1, <2>3, Zenon DEF At
<1>6. Ends(sql, ls) BY <1>3, Zenon DEF Ends, Clear, sql
<1>7. Reached(f, ls)
  <2>1. At(sql, 1, TextOf(ls)) BY <1>5, Zenon DEF sql
  <2> QED BY <1>2, <1>4, <1>6, <2>1, TextRead, Zenon
<1>8. PICK k \in 0..N : f[k] = e BY <1>7, Zenon DEF Reached, sql
<1>9. TokFields(e, 1 + N, toks) BY TokStFields, Zenon
<1>10. e.i = 1 + N /\ e.toks = toks BY <1>9, Zenon DEF TokFields
<1> HIDE DEF e
<1>11. e.i > Len(sql) BY <1>3, <1>10, Zenon
<1>12. TokenRound(sql, e, 2) = e BY <1>11, Zenon DEF TokenRound
<1>13. \A j \in 1..N : f[j - 1] = e => f[j] = e BY <1>4, <1>12, Zenon DEF TokSteps
<1>14. EndsAt(f, N, e) BY <1>3, <1>8, <1>13, Settles, Zenon
<1> QED BY <1>4, <1>10, <1>14, Zenon DEF EndsAt, tokenize, sql

-----------------------------------------------------------------------------
(* What is written, and the theorems.                                      *)

Lexicon == {l \in Unwrapped \cup Wrapped : Writable(l)}
Alphabet == {La, Lb, Dot, Whitespace, Dash, NewLine, Slash, Star, Quote, DQuote, OpenBracket, CloseBracket}
              \cup UNION {Range(c) : c \in Contents}

\* The lexemes can be written, each after the one before it.
SqlInv == lexemes \in Seq(Lexicon) /\ Chain(lexemes)

KindIs(l, k, c) == l.kind = k /\ l.content = c

(* The fields of a lexeme.                                                 *)
LEMMA LexemeFields == ASSUME NEW k, NEW c PROVE KindIs([kind |-> k, content |-> c], k, c)
BY DEF KindIs

(* The lexicon is over the alphabet.                                       *)
LEMMA LexiconTyped ==
    ASSUME SqlConstants
    PROVE  Marks(Alphabet) /\ \A l \in Lexicon : Lexeme(l, Alphabet)
<1> DEFINE A == Alphabet
<1>1. Marks(A) BY Zenon DEF Marks, Alphabet
<1>2. \A c \in Contents : c \in Seq(A)
  <2>1. ASSUME NEW c \in Contents PROVE c \in Seq(A)
    <3>1. c \in Seq(Range(c)) BY Zenon DEF SqlConstants
    <3>2. Range(c) \subseteq A BY Zenon DEF Alphabet
    <3> HIDE DEF A
    <3> QED BY <3>1, <3>2
  <2> QED BY <2>1, Zenon
<1>3. <<>> \in Seq(A) OBVIOUS
<1>4. ASSUME NEW l \in Lexicon PROVE Lexeme(l, A)
  <2>1. Writable(l) /\ (l \in Unwrapped \/ l \in Wrapped) BY Zenon DEF Lexicon
  <2>2. CASE l \in Unwrapped
    <3>1. PICK k \in {"word", "dot", "space", "minus"} : l = [kind |-> k, content |-> <<>>] BY <2>2, Zenon DEF Unwrapped
    <3>2. KindIs(l, k, <<>>) BY <3>1, LexemeFields, Zenon
    <3>3. k \in Kinds BY <3>1, Zenon DEF Kinds
    <3> QED BY <1>3, <2>1, <3>2, <3>3, Zenon DEF KindIs, Lexeme
  <2>3. CASE l \in Wrapped
    <3>1. PICK k \in {"line", "block", "literal", "quoted", "bracket"}, c \in Contents :
             l = [kind |-> k, content |-> c]
      BY <2>3 DEF Wrapped
    <3>2. KindIs(l, k, c) BY <3>1, LexemeFields, Zenon
    <3>3. k \in Kinds BY <3>1, Zenon DEF Kinds
    <3> QED BY <1>2, <2>1, <3>1, <3>2, <3>3, Zenon DEF KindIs, Lexeme
  <2> QED BY <2>1, <2>2, <2>3
<1> QED BY <1>1, <1>4, Zenon

(* The invariant is inductive.                                             *)
LEMMA SqlInductive == SqlSpec => []SqlInv
<1>1. SqlInit => SqlInv
  <2> SUFFICES ASSUME lexemes = <<>> PROVE SqlInv BY Zenon DEF SqlInit
  <2>1. <<>> \in Seq(Lexicon) /\ Len(<<>>) = 0 /\ 1..(0 - 1) = {} OBVIOUS
  <2>2. Chain(<<>>) BY <2>1, Zenon DEF Chain
  <2> QED BY <2>1, <2>2, Zenon DEF SqlInv
<1>2. SqlInv /\ [SqlNext]_sqlVars => SqlInv'
  <2> SUFFICES ASSUME SqlInv, [SqlNext]_sqlVars PROVE SqlInv' OBVIOUS
  <2>1. ASSUME lexemes' = lexemes PROVE SqlInv' BY <2>1, Zenon DEF SqlInv, Chain
  <2>2. ASSUME NEW l \in Unwrapped \cup Wrapped, WriteLexeme(l) PROVE SqlInv'
    <3> DEFINE s == lexemes
               q == Append(s, l)
    <3>1. l \in Lexicon /\ s \in Seq(Lexicon) /\ Chain(s) /\ (s # <<>> => Follows(Last(s), l)) /\ lexemes' = q
      BY <2>2, Zenon DEF WriteLexeme, Lexicon, SqlInv
    <3> HIDE DEF s
    <3>2. q \in Seq(Lexicon) /\ Len(q) = Len(s) + 1 /\ Len(s) \in Nat BY <3>1
    <3>3. q[Len(s) + 1] = l /\ \A i \in 1..Len(s) : q[i] = s[i] BY <3>1
    <3> HIDE DEF q
    <3>4. ASSUME NEW i \in 1..(Len(q) - 1) PROVE Follows(q[i], q[i + 1])
      <4>1. i \in 1..Len(s) BY <3>2
      <4>2. CASE i = Len(s)
        <5>1. s # <<>>
          <6>1. Len(<<>>) = 0 /\ i # 0 BY <4>1
          <6> QED BY <4>2, <6>1, Zenon
        <5>2. q[i] = Last(s) BY <3>3, <4>1, <4>2, Zenon DEF Last
        <5>3. q[i + 1] = l BY <3>3, <4>2, Zenon
        <5> QED BY <3>1, <5>1, <5>2, <5>3, Zenon
      <4>3. CASE i # Len(s)
        <5>1. i \in 1..(Len(s) - 1) /\ i + 1 \in 1..Len(s) BY <3>2, <4>1, <4>3
        <5>2. q[i] = s[i] /\ q[i + 1] = s[i + 1] BY <3>3, <4>1, <5>1, Zenon
        <5>3. Follows(s[i], s[i + 1]) BY <3>1, <5>1, Zenon DEF Chain
        <5> QED BY <5>2, <5>3, Zenon
      <4> QED BY <4>2, <4>3
    <3>5. Chain(q) BY <3>4, Zenon DEF Chain
    <3>6. lexemes' \in Seq(Lexicon) /\ Chain(lexemes') BY <3>1, <3>2, <3>5, Zenon
    <3> QED BY <3>6, Zenon DEF SqlInv, Chain
  <2>3. ASSUME NEW h \in Heads, Begin(h) PROVE SqlInv' BY <2>1, <2>3, Zenon DEF Begin
  <2>4. ASSUME NEW kw \in {"FROM", "into"}, NEW r \in Refs, AddClause(kw, r) PROVE SqlInv'
    BY <2>1, <2>4, Zenon DEF AddClause
  <2>5. ASSUME NEW r \in Refs, AddRef(r) PROVE SqlInv' BY <2>1, <2>5, Zenon DEF AddRef
  <2>6. ASSUME NEW t \in Tails, AddTail(t) PROVE SqlInv' BY <2>1, <2>6, Zenon DEF AddTail
  <2>7. CASE UNCHANGED sqlVars BY <2>1, <2>7 DEF sqlVars
  <2> QED BY <2>2, <2>3, <2>4, <2>5, <2>6, <2>7, Zenon DEF SqlNext
<1> QED BY <1>1, <1>2, PTL DEF SqlSpec

(* Whatever was written, tokenize returns the tokens written.              *)
LEMMA WrittenRead == ASSUME SqlConstants, SqlInv PROVE TokensAsWritten
<1>1. lexemes \in Seq(Lexicon) /\ Chain(lexemes) BY Zenon DEF SqlInv
<1>2. Marks(Alphabet) /\ \A l \in Lexicon : Lexeme(l, Alphabet) BY LexiconTyped, Zenon
<1>3. tokenize(TextOf(lexemes)) = TokensIn(lexemes) BY <1>1, <1>2, Tokenized
<1> QED BY <1>3, Zenon DEF TokensAsWritten

(* Wherever the text is cut, only the last token is damaged.               *)
LEMMA CutRead == ASSUME SqlConstants, SqlInv PROVE CutDamagesLastOnly
<1> DEFINE text == TextOf(lexemes)
           A == Alphabet
<1>1. lexemes \in Seq(Lexicon) /\ Chain(lexemes) BY Zenon DEF SqlInv
<1>2. Marks(A) /\ \A l \in Lexicon : Lexeme(l, A) BY LexiconTyped, Zenon
<1>3. \A l \in Lexicon : Typed(l, A) BY <1>2, LexemeTyped, Zenon
<1>4. text \in Seq(A) BY <1>1, <1>3, TextTyped, Zenon
<1>5. tokenize(text) = TokensIn(lexemes) BY WrittenRead, Zenon DEF TokensAsWritten
<1>6. ASSUME NEW n \in 1..Len(text), tokenize(truncate(text, n)) # <<>>
      PROVE  IsPrefix(Front(tokenize(truncate(text, n))), TokensIn(lexemes))
  <2> DEFINE cut == truncate(text, n)
             N == Len(text)
  <2> HIDE DEF text, A
  <2>0. N \in Nat /\ n \in Nat /\ n <= N BY <1>4, <1>6
  <2>1. IsCut(cut, text, n, A)
    <3>1. CASE N > n
      <4> DEFINE c == SubSeq(text, 1, n)
      <4>1. cut = c BY <3>1, Zenon DEF truncate
      <4>2. c \in Seq(A) /\ Len(c) = n /\ \A j \in 1..n : c[j] = text[j] BY <1>4, <2>0
      <4> QED BY <2>0, <4>1, <4>2, Zenon DEF IsCut
    <3>2. CASE ~ (N > n)
      <4>1. cut = text BY <3>2, Zenon DEF truncate
      <4>2. N = n BY <2>0, <3>2
      <4> QED BY <1>4, <2>0, <4>1, <4>2, Zenon DEF IsCut
    <3> QED BY <3>1, <3>2
  <2>2. IsPrefix(Front(tokenize(cut)), tokenize(text)) BY <1>4, <1>6, <2>1, CutTokens, Zenon
  <2>3. tokenize(text) = TokensIn(lexemes) BY <1>5, Zenon
  <2> QED BY <2>2, <2>3, Zenon
<1> QED BY <1>6, Zenon DEF CutDamagesLastOnly

(* For every text of words, comments, literals and names, whatever the     *)
(* comments, literals and names contain, tokenize returns exactly the      *)
(* words, dots and names written, in order.                                *)
THEOREM TokensKept == ASSUME SqlConstants PROVE SqlSpec => []TokensAsWritten
<1>1. SqlInv => TokensAsWritten BY WrittenRead
<1> QED BY <1>1, SqlInductive, PTL

(* Cutting such a text at any byte loses or damages nothing but the last   *)
(* token of what is left.                                                  *)
THEOREM CutHarmless == ASSUME SqlConstants PROVE SqlSpec => []CutDamagesLastOnly
<1>1. SqlInv => CutDamagesLastOnly BY CutRead
<1> QED BY <1>1, SqlInductive, PTL
=============================================================================
