---------------------------- MODULE Texts_proofs ----------------------------
(***************************************************************************)
(* Proofs about the text between the registry and the providers            *)
(* (MethodConfig) and about the admin API (AdminAuth, AdminViews), for     *)
(* texts and lists of any length.  The loops of the code are recursive     *)
(* functions; what they compute is proved by induction (Loops_proofs).     *)
(***************************************************************************)
EXTENDS MethodConfig, AdminViews, Loops_proofs, FiniteSets, FiniteSetTheorems

-----------------------------------------------------------------------------
(* Lines.                                                                  *)

Pieces(A) == [lines : Seq(Seq(A)), last : Seq(A)]
NoPieces == [lines |-> <<>>, last |-> <<>>]
Cut(p, c) ==
    IF c = NL THEN [lines |-> Append(p.lines, p.last), last |-> <<>>]
    ELSE [lines |-> p.lines, last |-> Append(p.last, c)]
Cuts(h, s) == h = [i \in 0..Len(s) |-> IF i = 0 THEN NoPieces ELSE Cut(h[i - 1], s[i])]

(* One character keeps the types of the loop.                              *)
LEMMA CutTyped == ASSUME NEW A, NEW p \in Pieces(A), NEW c \in A PROVE Cut(p, c) \in Pieces(A)
<1>1. p.lines \in Seq(Seq(A)) /\ p.last \in Seq(A) BY DEF Pieces
<1>2. Append(p.lines, p.last) \in Seq(Seq(A)) /\ Append(p.last, c) \in Seq(A) /\ <<>> \in Seq(A)
  BY <1>1
<1> QED BY <1>1, <1>2, Zenon DEF Cut, Pieces

(* Split is the last value of its loop.                                    *)
LEMMA SplitLoop ==
    ASSUME NEW A, NEW s \in Seq(A)
    PROVE  \E h : Cuts(h, s) /\ Split(s) = h[Len(s)] /\ h[Len(s)] \in Pieces(A)
<1> DEFINE S == Pieces(A)
           F == [x \in S \X A |-> Cut(x[1], x[2])]
           n == Len(s)
<1>1. NoPieces \in S BY DEF NoPieces, Pieces
<1>2. F \in [S \X A -> S] BY CutTyped
<1>3. \A p \in S, c \in A : F[<<p, c>>] = Cut(p, c) OBVIOUS
<1> HIDE DEF F, S
<1>4. PICK g : g = [i \in 0..n |-> g[i]] /\ Folds(g, F, NoPieces, s)
  BY <1>1, <1>2, FoldExists, Zenon
<1>5. \A i \in 0..n : g[i] \in S BY <1>1, <1>2, <1>4, FoldTyped, Zenon
<1>6. ASSUME NEW i \in 0..n PROVE g[i] = IF i = 0 THEN NoPieces ELSE Cut(g[i - 1], s[i])
  <2>1. CASE i = 0 BY <2>1, <1>4, Zenon DEF Folds
  <2>2. CASE i # 0
    <3>1. i \in 1..n /\ i - 1 \in 0..n /\ s[i] \in A BY <2>2
    <3>2. g[i] = F[<<g[i - 1], s[i]>>] BY <3>1, <1>4, Zenon DEF Folds
    <3>3. g[i - 1] \in S BY <3>1, <1>5, Zenon
    <3> QED BY <2>2, <3>1, <3>2, <3>3, <1>3, Zenon
  <2> QED BY <2>1, <2>2
<1>7. Cuts(g, s) BY <1>4, <1>6, Zenon DEF Cuts
<1> DEFINE h == CHOOSE f : Cuts(f, s)
<1>8. Cuts(h, s) BY <1>7, Zenon
<1>9. Split(s) = h[n] BY Zenon DEF Split, Cuts, Cut, NoPieces
<1> HIDE DEF h
<1>10. n \in Nat /\ 0 \in 0..n /\ n \in 0..n OBVIOUS
<1>11. \A i \in 0..n : h[i] = IF i = 0 THEN NoPieces ELSE Cut(h[i - 1], s[i]) BY <1>8, Zenon DEF Cuts
<1>12. g[0] = h[0] BY <1>6, <1>10, <1>11, Zenon
<1>13. ASSUME NEW i \in 1..n, g[i - 1] = h[i - 1] PROVE g[i] = h[i]
  <2>1. i \in 0..n OBVIOUS
  <2> QED BY <2>1, <1>6, <1>11, <1>13, Zenon
<1>14. Agree(g, h, n) BY <1>10, <1>12, <1>13, AgreeByRounds, Zenon
<1>15. h[n] \in S BY <1>5, <1>10, <1>14, Zenon DEF Agree
<1> QED BY <1>8, <1>9, <1>15, Zenon DEF S

(* The empty text has no lines.                                            *)
LEMMA SplitEmpty == Split(<<>>) = NoPieces
<1> DEFINE A == {}
<1>1. <<>> \in Seq(A) /\ Len(<<>>) = 0 /\ 0 \in 0..0 OBVIOUS
<1>2. PICK h : Cuts(h, <<>>) /\ Split(<<>>) = h[Len(<<>>)] BY <1>1, SplitLoop, Zenon
<1>3. h[0] = NoPieces BY <1>1, <1>2, Zenon DEF Cuts
<1> QED BY <1>1, <1>2, <1>3, Zenon

(* A character more is one more round.                                     *)
LEMMA SplitAppend ==
    ASSUME NEW A, NEW s \in Seq(A), NEW c \in A
    PROVE  Split(Append(s, c)) = Cut(Split(s), c)
<1> DEFINE t == Append(s, c)
           n == Len(s)
<1>1. t \in Seq(A) /\ Len(t) = n + 1 /\ t[n + 1] = c /\ \A i \in 1..n : t[i] = s[i]
  OBVIOUS
<1>2. n \in Nat OBVIOUS
<1> HIDE DEF t
<1>3. PICK g : Cuts(g, s) /\ Split(s) = g[n] BY SplitLoop, Zenon
<1>4. PICK h : Cuts(h, t) /\ Split(t) = h[Len(t)] BY <1>1, SplitLoop, Zenon
<1> HIDE DEF n
<1>5. \A i \in 0..n : g[i] = IF i = 0 THEN NoPieces ELSE Cut(g[i - 1], s[i])
  BY <1>3, Zenon DEF Cuts, n
<1>6. \A i \in 0..(n + 1) : h[i] = IF i = 0 THEN NoPieces ELSE Cut(h[i - 1], t[i])
  BY <1>1, <1>4, Zenon DEF Cuts
<1>7. 0 \in 0..n /\ 0 \in 0..(n + 1) /\ n + 1 \in 0..(n + 1) /\ n + 1 # 0 /\ (n + 1) - 1 = n
      /\ n \in 0..n
  BY <1>2
<1>8. g[0] = h[0] BY <1>5, <1>6, <1>7, Zenon
<1>9. ASSUME NEW i \in 1..n, g[i - 1] = h[i - 1] PROVE g[i] = h[i]
  <2>1. i \in 0..n /\ i \in 0..(n + 1) /\ i # 0 BY <1>2
  <2>2. g[i] = Cut(g[i - 1], s[i]) BY <2>1, <1>5, Zenon
  <2>3. h[i] = Cut(h[i - 1], t[i]) BY <2>1, <1>6, Zenon
  <2>4. t[i] = s[i] BY <1>1, Zenon
  <2> QED BY <1>9, <2>2, <2>3, <2>4, Zenon
<1>10. Agree(g, h, n) BY <1>2, <1>8, <1>9, AgreeByRounds, Zenon
<1>11. g[n] = h[n] BY <1>7, <1>10, Zenon DEF Agree
<1>12. h[n + 1] = Cut(h[n], c) BY <1>1, <1>6, <1>7, Zenon
<1> QED BY <1>1, <1>3, <1>4, <1>11, <1>12, Zenon DEF t

(* Split gives lines and a rest, all over the characters of the text.      *)
LEMMA SplitTyped == ASSUME NEW A, NEW s \in Seq(A) PROVE Split(s) \in Pieces(A)
BY SplitLoop, Zenon

(* Text without a newline adds to the last line.                           *)
Extended(p, l) == [lines |-> p.lines, last |-> p.last \o l]
LEMMA SplitText ==
    ASSUME NEW A, NEW s \in Seq(A), NEW l \in Seq(A), NL \notin Range(l)
    PROVE  Split(s \o l) = Extended(Split(s), l)
<1> DEFINE p == Split(s)
           P == {m \in Seq(A) : NL \notin Range(m) => Split(s \o m) = Extended(p, m)}
<1>1. p.lines \in Seq(Seq(A)) /\ p.last \in Seq(A) /\ p = [lines |-> p.lines, last |-> p.last]
  BY SplitTyped DEF Pieces
<1> HIDE DEF p
<1>2. <<>> \in P
  <2>1. <<>> \in Seq(A) /\ s \o <<>> = s /\ p.last \o <<>> = p.last BY <1>1
  <2>2. Split(s \o <<>>) = Extended(p, <<>>) BY <1>1, <2>1, Zenon DEF Extended, p
  <2> QED BY <2>1, <2>2
<1>3. ASSUME NEW m \in Seq(A), NEW c \in A, m \in P PROVE Append(m, c) \in P
  <2> DEFINE k == Append(m, c)
  <2>1. k \in Seq(A) OBVIOUS
  <2>2. Range(k) = Range(m) \cup {c} BY RangeAppend
  <2>3. s \o m \in Seq(A) /\ s \o k = Append(s \o m, c) OBVIOUS
  <2>4. p.last \o k = Append(p.last \o m, c) BY <1>1
  <2> HIDE DEF k
  <2>5. ASSUME NL \notin Range(k) PROVE Split(s \o k) = Extended(p, k)
    <3>1. NL \notin Range(m) /\ c # NL BY <2>2, <2>5, Zenon
    <3>2. Split(s \o m) = Extended(p, m) BY <1>3, <3>1
    <3>3. Split(s \o k) = Cut(Split(s \o m), c) BY <2>3, SplitAppend, Zenon
    <3>4. Cut(Extended(p, m), c) = [lines |-> p.lines, last |-> Append(p.last \o m, c)]
      BY <3>1 DEF Cut, Extended
    <3> QED BY <2>4, <3>2, <3>3, <3>4 DEF Extended
  <2> QED BY <2>1, <2>5 DEF k
<1> HIDE DEF P
<1>4. l \in P BY <1>2, <1>3, SeqInduction, Zenon
<1> QED BY <1>4, Zenon DEF P, p

(* A text that ends with a line's end, or is empty.                        *)
Closed(s) == Split(s).last = <<>>

(* A line written after such a text is the next line read.                 *)
LEMMA SplitLine ==
    ASSUME NEW A, NL \in A, NEW s \in Seq(A), Closed(s), NEW l \in Seq(A), NL \notin Range(l)
    PROVE  /\ Split(s \o (l \o <<NL>>)).lines = Append(Split(s).lines, l)
           /\ Closed(s \o (l \o <<NL>>))
<1> DEFINE p == Split(s)
           u == s \o (l \o <<NL>>)
<1>1. p.lines \in Seq(Seq(A)) /\ p.last = <<>> BY SplitTyped DEF Pieces, Closed
<1>2. s \o l \in Seq(A) /\ u = Append(s \o l, NL) OBVIOUS
<1> HIDE DEF p, u
<1>3. Split(s \o l) = Extended(p, l) BY SplitText DEF p
<1>4. Split(u) = Cut(Split(s \o l), NL) BY <1>2, SplitAppend, Zenon
<1>5. <<>> \o l = l OBVIOUS
<1>6. Extended(p, l).lines = p.lines /\ Extended(p, l).last = l BY <1>1, <1>5 DEF Extended
<1>7. Split(u) = [lines |-> Append(p.lines, l), last |-> <<>>] BY <1>3, <1>4, <1>6, Zenon DEF Cut
<1> QED BY <1>7 DEF Closed, p, u

-----------------------------------------------------------------------------
(* Splitting and joining.                                                  *)

Unlines(ls) == FlattenSeq([i \in DOMAIN ls |-> ls[i] \o <<NL>>])

Closing(A) == [x \in Seq(A) \X Nat |-> x[1] \o <<NL>>]
Joining(A) == [x \in Seq(A) \X Nat |-> IF x[2] > 1 THEN <<NL>> \o x[1] ELSE x[1]]

(* Unlines and joinLines flatten what they make of each line.              *)
LEMMA LinesMapped ==
    ASSUME NEW A, NL \in A, NEW ls \in Seq(Seq(A))
    PROVE  /\ Unlines(ls) = FlattenSeq(Mapped(Closing(A), ls))
           /\ joinLines(ls) = FlattenSeq(Mapped(Joining(A), ls))
<1>1. \A i \in DOMAIN ls : ls[i] \in Seq(A) /\ i \in Nat OBVIOUS
<1>2. \A i \in DOMAIN ls : <<ls[i], i>> \in Seq(A) \X Nat BY <1>1
<1>3. \A i \in DOMAIN ls : Closing(A)[<<ls[i], i>>] = ls[i] \o <<NL>>
  BY <1>1, Zenon DEF Closing
<1>4. \A i \in DOMAIN ls : Joining(A)[<<ls[i], i>>] = IF i > 1 THEN <<NL>> \o ls[i] ELSE ls[i]
  BY <1>1, Zenon DEF Joining
<1>5. Unlines(ls) = FlattenSeq(Mapped(Closing(A), ls)) BY <1>3, Zenon DEF Unlines, Mapped
<1>6. joinLines(ls) = FlattenSeq(Mapped(Joining(A), ls)) BY <1>4, Zenon DEF joinLines, Mapped
<1> QED BY <1>5, <1>6

LEMMA LineMaps ==
    ASSUME NEW A, NL \in A
    PROVE  Closing(A) \in [Seq(A) \X Nat -> Seq(A)] /\ Joining(A) \in [Seq(A) \X Nat -> Seq(A)]
<1>1. \A x \in Seq(A) \X Nat : x[1] \o <<NL>> \in Seq(A) OBVIOUS
<1>2. \A x \in Seq(A) \X Nat : (IF x[2] > 1 THEN <<NL>> \o x[1] ELSE x[1]) \in Seq(A) OBVIOUS
<1> QED BY <1>1, <1>2, Zenon DEF Closing, Joining

(* One line more at the end.                                               *)
LEMMA UnlinesAppend ==
    ASSUME NEW A, NL \in A, NEW ls \in Seq(Seq(A)), NEW l \in Seq(A)
    PROVE  Unlines(Append(ls, l)) = Unlines(ls) \o (l \o <<NL>>) /\ Unlines(ls) \in Seq(A)
<1> DEFINE ms == Append(ls, l)
           G == Closing(A)
           n == Len(ls) + 1
<1>1. ms \in Seq(Seq(A)) /\ n \in Nat OBVIOUS
<1>2. G \in [Seq(A) \X Nat -> Seq(A)] BY LineMaps, Zenon
<1>3. Unlines(ls) = FlattenSeq(Mapped(G, ls)) BY LinesMapped
<1>4. Unlines(ms) = FlattenSeq(Mapped(G, ms)) BY <1>1, LinesMapped, Zenon
<1>5. G[<<l, n>>] = l \o <<NL>> BY <1>1, Zenon DEF Closing
<1> HIDE DEF G
<1>6. /\ Mapped(G, ms) = Append(Mapped(G, ls), G[<<l, n>>])
      /\ Mapped(G, ls) \in Seq(Seq(A)) /\ G[<<l, n>>] \in Seq(A)
  BY <1>2, MappedAppend, Zenon
<1> HIDE DEF ms, n
<1>7. FlattenSeq(Mapped(G, ms)) = FlattenSeq(Mapped(G, ls)) \o G[<<l, n>>] BY <1>6, FlattenAppend, Zenon
<1>8. FlattenSeq(Mapped(G, ls)) \in Seq(A) BY <1>6, FlattenTyped
<1> QED BY <1>3, <1>4, <1>5, <1>7, <1>8, Zenon DEF ms

LEMMA JoinAppend ==
    ASSUME NEW A, NL \in A, NEW ls \in Seq(Seq(A)), NEW l \in Seq(A)
    PROVE  /\ joinLines(Append(ls, l)) = IF ls = <<>> THEN l ELSE joinLines(ls) \o (<<NL>> \o l)
           /\ joinLines(ls) \in Seq(A)
<1> DEFINE ms == Append(ls, l)
           G == Joining(A)
           n == Len(ls) + 1
<1>1. ms \in Seq(Seq(A)) /\ n \in Nat OBVIOUS
<1>2. G \in [Seq(A) \X Nat -> Seq(A)] BY LineMaps, Zenon
<1>3. joinLines(ls) = FlattenSeq(Mapped(G, ls)) BY LinesMapped
<1>4. joinLines(ms) = FlattenSeq(Mapped(G, ms)) BY <1>1, LinesMapped, Zenon
<1>5. G[<<l, n>>] = IF n > 1 THEN <<NL>> \o l ELSE l BY <1>1, Zenon DEF Joining
<1> HIDE DEF G
<1>6. /\ Mapped(G, ms) = Append(Mapped(G, ls), G[<<l, n>>])
      /\ Mapped(G, ls) \in Seq(Seq(A)) /\ G[<<l, n>>] \in Seq(A)
  BY <1>2, MappedAppend, Zenon
<1>7. n > 1 <=> ls # <<>> OBVIOUS
<1> HIDE DEF ms, n
<1>8. FlattenSeq(Mapped(G, ms)) = FlattenSeq(Mapped(G, ls)) \o G[<<l, n>>] BY <1>6, FlattenAppend, Zenon
<1>9. FlattenSeq(Mapped(G, ls)) \in Seq(A) BY <1>6, FlattenTyped
<1>10. CASE ls = <<>>
  <2>1. G[<<l, n>>] = l BY <1>5, <1>7, <1>10, Zenon
  <2>2. FlattenSeq(Mapped(G, ls)) = <<>> BY <1>10, MappedEmpty, FlattenEmpty
  <2>3. <<>> \o l = l OBVIOUS
  <2> QED BY <1>3, <1>4, <1>8, <1>9, <1>10, <2>1, <2>2, <2>3, Zenon DEF ms
<1>11. CASE ls # <<>>
  <2>1. G[<<l, n>>] = <<NL>> \o l BY <1>5, <1>7, <1>11, Zenon
  <2> QED BY <1>3, <1>4, <1>8, <1>9, <1>11, <2>1, Zenon DEF ms
<1> QED BY <1>10, <1>11

(* No lines at all.                                                        *)
LEMMA NoLines == Unlines(<<>>) = <<>> /\ joinLines(<<>>) = <<>>
<1> DEFINE A == {NL}
           e == <<>>
<1>1. NL \in A /\ e \in Seq(Seq(A)) OBVIOUS
<1>2. \A G : Mapped(G, e) = <<>> BY MappedEmpty, Zenon
<1> HIDE DEF A, e
<1>3. Unlines(e) = FlattenSeq(Mapped(Closing(A), e)) /\ joinLines(e) = FlattenSeq(Mapped(Joining(A), e))
  BY <1>1, LinesMapped, Zenon
<1> QED BY <1>2, <1>3, FlattenEmpty, Zenon DEF e

(* Joined lines miss only the last line's end.                             *)
LEMMA JoinUnlines ==
    ASSUME NEW A, NL \in A, NEW ls \in Seq(Seq(A)), ls # <<>>
    PROVE  joinLines(ls) \o <<NL>> = Unlines(ls)
<1> DEFINE P == {ms \in Seq(Seq(A)) : ms # <<>> => joinLines(ms) \o <<NL>> = Unlines(ms)}
<1>1. <<>> \in P OBVIOUS
<1>2. ASSUME NEW ms \in Seq(Seq(A)), NEW l \in Seq(A), ms \in P PROVE Append(ms, l) \in P
  <2> DEFINE ns == Append(ms, l)
             j == joinLines(ms)
  <2>1. Unlines(ns) = Unlines(ms) \o (l \o <<NL>>) BY UnlinesAppend, Zenon
  <2>2. joinLines(ns) = IF ms = <<>> THEN l ELSE j \o (<<NL>> \o l) BY JoinAppend, Zenon
  <2>3. j \in Seq(A) BY JoinAppend
  <2>4. ms # <<>> => j \o <<NL>> = Unlines(ms) BY <1>2, Zenon
  <2>5. ns \in Seq(Seq(A)) OBVIOUS
  <2> HIDE DEF j, ns, P
  <2>6. CASE ms = <<>>
    <3>1. <<>> \o (l \o <<NL>>) = l \o <<NL>> OBVIOUS
    <3>2. Unlines(ns) = l \o <<NL>> BY <2>1, <2>6, <3>1, NoLines, Zenon
    <3> QED BY <2>2, <2>5, <2>6, <3>2, Zenon DEF P, ns
  <2>7. CASE ms # <<>>
    <3> DEFINE e == <<NL>>
    <3>1. e \in Seq(A) OBVIOUS
    <3> HIDE DEF e
    <3>2. e \o l \in Seq(A) /\ l \o e \in Seq(A) BY <3>1
    <3>3. Assoc(j, e \o l, e) BY <2>3, <3>1, <3>2, ConcatAssociates, Zenon
    <3>4. Assoc(e, l, e) BY <3>1, ConcatAssociates, Zenon
    <3>5. Assoc(j, e, l \o e) BY <2>3, <3>1, <3>2, ConcatAssociates, Zenon
    <3>6. (j \o (e \o l)) \o e = (j \o e) \o (l \o e) BY <3>3, <3>4, <3>5, Zenon DEF Assoc
    <3> QED BY <2>1, <2>2, <2>4, <2>5, <2>7, <3>6, Zenon DEF P, ns, e
  <2> QED BY <2>6, <2>7
<1> HIDE DEF P
<1>3. ls \in P BY <1>1, <1>2, SeqInduction, Zenon
<1> QED BY <1>3, Zenon DEF P

-----------------------------------------------------------------------------
(* What splitting loses.                                                   *)

(* The lines and the rest contain no newline.                              *)
LEMMA SplitPlain == ASSUME NEW A, NEW s \in Seq(A) PROVE Split(s) \in Pieces(A \ {NL})
<1> DEFINE B == A \ {NL}
           P == {t \in Seq(A) : Split(t) \in Pieces(B)}
<1>1. <<>> \in P
  <2>1. NoPieces \in Pieces(B) BY DEF NoPieces, Pieces
  <2>2. <<>> \in Seq(A) OBVIOUS
  <2> QED BY <2>1, <2>2, SplitEmpty, Zenon
<1>2. ASSUME NEW t \in Seq(A), NEW c \in A, t \in P PROVE Append(t, c) \in P
  <2> DEFINE p == Split(t)
  <2>1. p \in Pieces(B) BY <1>2, Zenon
  <2>2. Split(Append(t, c)) = Cut(p, c) BY SplitAppend
  <2>3. Append(t, c) \in Seq(A) OBVIOUS
  <2> HIDE DEF p
  <2>4. CASE c = NL
    <3>1. p.lines \in Seq(Seq(B)) /\ p.last \in Seq(B) BY <2>1 DEF Pieces
    <3>2. Append(p.lines, p.last) \in Seq(Seq(B)) /\ <<>> \in Seq(B) BY <3>1
    <3>3. Cut(p, c) \in Pieces(B) BY <2>4, <3>2, Zenon DEF Cut, Pieces
    <3> QED BY <2>2, <2>3, <3>3, Zenon
  <2>5. CASE c # NL
    <3>1. c \in B BY <2>5
    <3>2. Cut(p, c) \in Pieces(B) BY <2>1, <3>1, CutTyped, Zenon
    <3> QED BY <2>2, <2>3, <3>2, Zenon
  <2> QED BY <2>4, <2>5
<1> HIDE DEF P
<1>3. s \in P BY <1>1, <1>2, SeqInduction, Zenon
<1> QED BY <1>3, Zenon DEF P

Rejoined(p) == Unlines(p.lines) \o p.last

(* Nothing is lost: the text is its lines, each with its end, and the rest. *)
LEMMA SplitWhole == ASSUME NEW A, NL \in A, NEW s \in Seq(A) PROVE s = Rejoined(Split(s))
<1> DEFINE P == {t \in Seq(A) : t = Rejoined(Split(t))}
<1>1. <<>> \in P
  <2>1. NoPieces.lines = <<>> /\ NoPieces.last = <<>> BY DEF NoPieces
  <2>2. <<>> \o <<>> = <<>> /\ <<>> \in Seq(A) OBVIOUS
  <2>3. Rejoined(NoPieces) = <<>> BY <2>1, <2>2, NoLines, Zenon DEF Rejoined
  <2> QED BY <2>2, <2>3, SplitEmpty, Zenon
<1>2. ASSUME NEW t \in Seq(A), NEW c \in A, t \in P PROVE Append(t, c) \in P
  <2> DEFINE p == Split(t)
             u == Unlines(p.lines)
             ls == p.lines
             l == p.last
  <2>1. t = u \o l BY <1>2, Zenon DEF Rejoined
  <2>2. Split(Append(t, c)) = Cut(p, c) BY SplitAppend
  <2>3. Append(t, c) \in Seq(A) OBVIOUS
  <2>4. ls \in Seq(Seq(A)) /\ l \in Seq(A) BY SplitTyped DEF Pieces
  <2>5. u \in Seq(A) /\ Unlines(Append(ls, l)) = u \o (l \o <<NL>>) BY <2>4, UnlinesAppend, Zenon
  <2>6. CASE c = NL
    <3>1. Cut(p, c).lines = Append(ls, l) /\ Cut(p, c).last = <<>> BY <2>6 DEF Cut
    <3> HIDE DEF p, u, ls, l
    <3>2. (u \o (l \o <<NL>>)) \o <<>> = Append(u \o l, NL) BY <2>4, <2>5
    <3>3. Rejoined(Cut(p, c)) = Append(t, c) BY <2>1, <2>5, <2>6, <3>1, <3>2, Zenon DEF Rejoined
    <3> QED BY <2>2, <2>3, <3>3, Zenon
  <2>7. CASE c # NL
    <3>1. Cut(p, c).lines = ls /\ Cut(p, c).last = Append(l, c) BY <2>7 DEF Cut
    <3>a. Unlines(ls) = u OBVIOUS
    <3> HIDE DEF p, u, ls, l
    <3>2. u \o Append(l, c) = Append(u \o l, c) BY <2>4, <2>5
    <3>3. Rejoined(Cut(p, c)) = Append(t, c) BY <2>1, <3>a, <3>1, <3>2, Zenon DEF Rejoined
    <3> QED BY <2>2, <2>3, <3>3, Zenon
  <2> QED BY <2>6, <2>7
<1> HIDE DEF P
<1>3. s \in P BY <1>1, <1>2, SeqInduction, Zenon
<1> QED BY <1>3, Zenon DEF P

(* The lines of a program, joined, are the program without its final       *)
(* newline.                                                                *)
LEMMA JoinLines ==
    ASSUME NEW A, NL \in A, NEW s \in Seq(A)
    PROVE  joinLines(Lines(s)) = Chomp(s) /\ Lines(s) \in Seq(Seq(A \ {NL}))
<1> DEFINE p == Split(s)
           ls == p.lines
           l == p.last
           u == Unlines(ls)
           j == joinLines(ls)
           B == A \ {NL}
<1>1. ls \in Seq(Seq(A)) /\ l \in Seq(A) BY SplitTyped DEF Pieces
<1>2. ls \in Seq(Seq(B)) /\ l \in Seq(B) BY SplitPlain, Zenon DEF Pieces
<1>3. s = u \o l BY SplitWhole, Zenon DEF Rejoined
<1>4. Lines(s) = IF l = <<>> THEN ls ELSE Append(ls, l) BY Zenon DEF Lines
<1>5. u \in Seq(A) BY <1>1, UnlinesAppend
<1>6. j \in Seq(A) /\ joinLines(Append(ls, l)) = IF ls = <<>> THEN l ELSE j \o (<<NL>> \o l)
  BY <1>1, JoinAppend, Zenon
<1>7. ls # <<>> => j \o <<NL>> = u BY <1>1, JoinUnlines
<1>8. ls = <<>> => u = <<>> /\ j = <<>> BY NoLines, Zenon
<1> HIDE DEF p, ls, l, u, j, B
<1>9. Lines(s) \in Seq(Seq(B))
  <2>1. Append(ls, l) \in Seq(Seq(B)) BY <1>2
  <2> QED BY <1>2, <1>4, <2>1, Zenon
<1>10. CASE l = <<>>
  <2>1. s = u BY <1>3, <1>5, <1>10
  <2>2. CASE ls = <<>>
    <3>1. s = <<>> /\ joinLines(Lines(s)) = <<>> BY <1>4, <1>8, <1>10, <2>1, <2>2, Zenon DEF j
    <3> QED BY <1>9, <3>1, Zenon DEF Chomp, B
  <2>3. CASE ls # <<>>
    <3>1. s = j \o <<NL>> BY <2>1, <2>3, <1>7, Zenon
    <3>2. s # <<>> /\ Last(s) = NL /\ Front(s) = j
      <4>1. s = Append(j, NL) BY <1>6, <3>1
      <4>2. Len(s) = Len(j) + 1 /\ s[Len(s)] = NL BY <1>6, <4>1
      <4>3. Front(s) = j BY <1>6, <4>1, <4>2 DEF Front
      <4> QED BY <1>6, <4>2, <4>3 DEF Last
    <3>3. Chomp(s) = j BY <3>2, Zenon DEF Chomp
    <3>4. joinLines(Lines(s)) = j BY <1>4, <1>10, Zenon DEF j
    <3> QED BY <1>9, <3>3, <3>4, Zenon DEF B
  <2> QED BY <2>2, <2>3
<1>11. CASE l # <<>>
  <2>1. Last(s) # NL
    <3>1. s[Len(s)] = l[Len(l)] /\ l[Len(l)] \in B BY <1>2, <1>3, <1>5, <1>11
    <3> QED BY <3>1 DEF Last, B
  <2>2. Chomp(s) = s BY <2>1, Zenon DEF Chomp
  <2>3. Lines(s) = Append(ls, l) BY <1>4, <1>11, Zenon
  <2>4. CASE ls = <<>>
    <3>1. s = l BY <1>1, <1>3, <1>8, <2>4
    <3> QED BY <1>9, <3>1, <2>2, <2>3, <2>4, <1>6, Zenon DEF B
  <2>5. CASE ls # <<>>
    <3> DEFINE e == <<NL>>
    <3>1. e \in Seq(A) OBVIOUS
    <3>2. joinLines(Lines(s)) = j \o (e \o l) BY <1>6, <2>3, <2>5, Zenon
    <3>3. u = j \o e BY <1>7, <2>5, Zenon
    <3> HIDE DEF e
    <3>4. Assoc(j, e, l) BY <1>1, <1>6, <3>1, ConcatAssociates, Zenon
    <3>5. s = j \o (e \o l) BY <1>3, <3>3, <3>4, Zenon DEF Assoc
    <3> QED BY <1>9, <3>2, <3>5, <2>2, Zenon DEF B
  <2> QED BY <2>4, <2>5
<1> QED BY <1>9, <1>10, <1>11, Zenon DEF B

-----------------------------------------------------------------------------
(* The parser.                                                             *)

States(A) == [inBlock : BOOLEAN, block : Seq(Seq(A)), program : Seq(A), file : Seq(A)]
Fresh == [inBlock |-> FALSE, block |-> <<>>, program |-> <<>>, file |-> <<>>]
Parses(h, ls) == h = [i \in 0..Len(ls) |-> IF i = 0 THEN Fresh ELSE ParseLine(h[i - 1], ls[i])]

(* A line's key and value are parts of it.                                 *)
LEMMA KeyTyped ==
    ASSUME NEW A, NEW line \in Seq(A)
    PROVE  parseYAMLLine(line).key \in Seq(A) /\ parseYAMLLine(line).val \in Seq(A)
<1>1. CASE Colon \notin Range(line)
  <2>1. parseYAMLLine(line) = [key |-> <<>>, val |-> <<>>] BY <1>1, Zenon DEF parseYAMLLine
  <2> QED BY <2>1
<1>2. CASE Colon \in Range(line)
  <2> DEFINE C(i) == line[i] = Colon /\ \A j \in 1..(i - 1) : line[j] # Colon
             k == CHOOSE i \in DOMAIN line : C(i)
             v == SubSeq(line, k + 1, Len(line))
  <2>1. \E i \in DOMAIN line : C(i)
    <3> DEFINE D == {i \in DOMAIN line : line[i] = Colon}
    <3>1. D \subseteq Nat /\ D # {} BY <1>2 DEF Range
    <3>2. PICK i \in D : \A j \in D : i <= j BY <3>1, LeastMember, Zenon
    <3>3. i \in DOMAIN line /\ line[i] = Colon OBVIOUS
    <3>4. ASSUME NEW j \in 1..(i - 1), line[j] = Colon PROVE FALSE
      <4>1. j \in DOMAIN line /\ i \in Nat /\ j < i BY <3>3
      <4>2. j \in D BY <4>1, <3>4
      <4> QED BY <4>1, <4>2, <3>2
    <3> QED BY <3>3, <3>4, Zenon
  <2>2. k \in DOMAIN line BY <2>1, Zenon
  <2>3. parseYAMLLine(line) = [key |-> SubSeq(line, 1, k - 1),
                               val |-> IF v # <<>> /\ v[1] = Space THEN Tail(v) ELSE v]
    BY <1>2, Zenon DEF parseYAMLLine
  <2> HIDE DEF k
  <2>4. k \in 1..Len(line) /\ Len(line) \in Nat BY <2>2
  <2>5. SubSeq(line, 1, k - 1) \in Seq(A) BY <2>4
  <2>6. v \in Seq(A) BY <2>4
  <2> HIDE DEF v
  <2>7. v # <<>> => Tail(v) \in Seq(A) BY <2>6
  <2>8. (IF v # <<>> /\ v[1] = Space THEN Tail(v) ELSE v) \in Seq(A) BY <2>6, <2>7, Zenon
  <2> DEFINE a == SubSeq(line, 1, k - 1)
             b == IF v # <<>> /\ v[1] = Space THEN Tail(v) ELSE v
  <2>9. parseYAMLLine(line) = [key |-> a, val |-> b] /\ a \in Seq(A) /\ b \in Seq(A)
    BY <2>3, <2>5, <2>8, Zenon
  <2> HIDE DEF a, b
  <2> QED BY <2>9
<1> QED BY <1>1, <1>2

(* A line of the parser keeps the types of the loop.                       *)
LEMMA ParseTyped ==
    ASSUME NEW A, NL \in A, NEW st \in States(A), NEW line \in Seq(A)
    PROVE  ParseLine(st, line) \in States(A)
<1> DEFINE kv == parseYAMLLine(line)
           j == joinLines(st.block)
           out == IF st.inBlock THEN [st EXCEPT !.inBlock = FALSE, !.program = j] ELSE st
           rest == SubSeq(line, 3, Len(line))
<1>1. kv.key \in Seq(A) /\ kv.val \in Seq(A) BY KeyTyped
<1>2. st.block \in Seq(Seq(A)) /\ st.inBlock \in BOOLEAN /\ st.program \in Seq(A) /\ st.file \in Seq(A)
  BY DEF States
<1>3. j \in Seq(A) BY <1>2, JoinAppend
<1>4. ParseLine(st, line) =
        IF st.inBlock /\ Indented(line) THEN [st EXCEPT !.block = Append(@, rest)]
        ELSE CASE kv.key = <<"program">> /\ kv.val = <<Bar>> -> [out EXCEPT !.inBlock = TRUE, !.block = <<>>]
               [] kv.key = <<"program">> /\ kv.val # <<Bar>> -> [out EXCEPT !.program = kv.val]
               [] kv.key = <<"file">> -> [out EXCEPT !.file = kv.val]
               [] OTHER -> out
  BY Zenon DEF ParseLine
<1> HIDE DEF kv, j
<1>5. out \in States(A) BY <1>2, <1>3, Zenon DEF States
<1> HIDE DEF out
<1>6. ASSUME Indented(line) PROVE [st EXCEPT !.block = Append(@, rest)] \in States(A)
  <2>1. Len(line) >= 2 BY <1>6 DEF Indented
  <2>2. rest \in Seq(A) BY <2>1
  <2> HIDE DEF rest
  <2>3. Append(st.block, rest) \in Seq(Seq(A)) BY <1>2, <2>2
  <2> QED BY <2>3, Zenon DEF States
<1>7. [out EXCEPT !.inBlock = TRUE, !.block = <<>>] \in States(A)
  <2> DEFINE e == <<>>
  <2>1. e \in Seq(Seq(A)) OBVIOUS
  <2> HIDE DEF e
  <2>2. [out EXCEPT !.inBlock = TRUE, !.block = e] \in States(A) BY <1>5, <2>1, Zenon DEF States
  <2> QED BY <2>2 DEF e
<1>8. [out EXCEPT !.program = kv.val] \in States(A) BY <1>1, <1>5, Zenon DEF States
<1>9. [out EXCEPT !.file = kv.val] \in States(A) BY <1>1, <1>5, Zenon DEF States
<1> DEFINE a == [st EXCEPT !.block = Append(@, rest)]
           b == [out EXCEPT !.inBlock = TRUE, !.block = <<>>]
           c == [out EXCEPT !.program = kv.val]
           d == [out EXCEPT !.file = kv.val]
<1>10. /\ Indented(line) => a \in States(A)
       /\ b \in States(A) /\ c \in States(A) /\ d \in States(A)
  BY <1>6, <1>7, <1>8, <1>9, Zenon
<1>11. ParseLine(st, line) =
         IF st.inBlock /\ Indented(line) THEN a
         ELSE CASE kv.key = <<"program">> /\ kv.val = <<Bar>> -> b
                [] kv.key = <<"program">> /\ kv.val # <<Bar>> -> c
                [] kv.key = <<"file">> -> d
                [] OTHER -> out
  BY <1>4, Zenon
<1> HIDE DEF a, b, c, d
<1>a. <<"file">> # <<"program">> OBVIOUS
<1>12. ParseLine(st, line) \in {b, c, d, out} \/ (Indented(line) /\ ParseLine(st, line) = a)
  BY <1>11, <1>a
<1> QED BY <1>5, <1>10, <1>12

(* ParseLines is the last value of its loop.                               *)
LEMMA ParseLoop ==
    ASSUME NEW A, NL \in A, NEW s \in Seq(Seq(A))
    PROVE  \E h : Parses(h, s) /\ ParseLines(s) = h[Len(s)] /\ h[Len(s)] \in States(A)
<1> DEFINE S == States(A)
           L == Seq(A)
           F == [x \in S \X L |-> ParseLine(x[1], x[2])]
           n == Len(s)
<1>1. Fresh \in S BY DEF Fresh, States
<1>2. F \in [S \X L -> S] BY ParseTyped
<1>3. \A p \in S, c \in L : F[<<p, c>>] = ParseLine(p, c) OBVIOUS
<1>a. s \in Seq(L) OBVIOUS
<1> HIDE DEF F, S, L
<1>4. PICK g : g = [i \in 0..n |-> g[i]] /\ Folds(g, F, Fresh, s)
  BY <1>a, <1>1, <1>2, FoldExists, Zenon
<1>5. \A i \in 0..n : g[i] \in S BY <1>a, <1>1, <1>2, <1>4, FoldTyped, Zenon
<1>6. ASSUME NEW i \in 0..n PROVE g[i] = IF i = 0 THEN Fresh ELSE ParseLine(g[i - 1], s[i])
  <2>1. CASE i = 0 BY <2>1, <1>4, Zenon DEF Folds
  <2>2. CASE i # 0
    <3>1. i \in 1..n /\ i - 1 \in 0..n /\ s[i] \in L BY <1>a, <2>2
    <3>2. g[i] = F[<<g[i - 1], s[i]>>] BY <3>1, <1>4, Zenon DEF Folds
    <3>3. g[i - 1] \in S BY <3>1, <1>5, Zenon
    <3> QED BY <2>2, <3>1, <3>2, <3>3, <1>3, Zenon
  <2> QED BY <2>1, <2>2
<1>7. Parses(g, s) BY <1>4, <1>6, Zenon DEF Parses
<1> DEFINE h == CHOOSE f : Parses(f, s)
<1>8. Parses(h, s) BY <1>7, Zenon
<1>9. ParseLines(s) = h[n] BY Zenon DEF ParseLines, Parses, Fresh
<1> HIDE DEF h
<1>10. n \in Nat /\ 0 \in 0..n /\ n \in 0..n OBVIOUS
<1>11. \A i \in 0..n : h[i] = IF i = 0 THEN Fresh ELSE ParseLine(h[i - 1], s[i])
  BY <1>8, Zenon DEF Parses
<1>12. g[0] = h[0] BY <1>6, <1>10, <1>11, Zenon
<1>13. ASSUME NEW i \in 1..n, g[i - 1] = h[i - 1] PROVE g[i] = h[i]
  <2>1. i \in 0..n OBVIOUS
  <2> QED BY <2>1, <1>6, <1>11, <1>13, Zenon
<1>14. Agree(g, h, n) BY <1>10, <1>12, <1>13, AgreeByRounds, Zenon
<1>15. h[n] \in S BY <1>5, <1>10, <1>14, Zenon DEF Agree
<1> QED BY <1>8, <1>9, <1>15, Zenon DEF S

(* Before the first line.                                                  *)
LEMMA ParseEmpty == ParseLines(<<>>) = Fresh
<1> DEFINE A == {NL}
<1>1. <<>> \in Seq(Seq(A)) /\ Len(<<>>) = 0 /\ 0 \in 0..0 /\ NL \in A OBVIOUS
<1>2. PICK h : Parses(h, <<>>) /\ ParseLines(<<>>) = h[Len(<<>>)] BY <1>1, ParseLoop, Zenon
<1>3. h[0] = Fresh BY <1>1, <1>2, Zenon DEF Parses
<1> QED BY <1>1, <1>2, <1>3, Zenon

(* A line more is one more round.                                          *)
LEMMA ParseAppend ==
    ASSUME NEW A, NL \in A, NEW s \in Seq(Seq(A)), NEW c \in Seq(A)
    PROVE  ParseLines(Append(s, c)) = ParseLine(ParseLines(s), c)
<1> DEFINE t == Append(s, c)
           n == Len(s)
<1>1. t \in Seq(Seq(A)) /\ Len(t) = n + 1 /\ t[n + 1] = c /\ \A i \in 1..n : t[i] = s[i]
  OBVIOUS
<1>2. n \in Nat OBVIOUS
<1> HIDE DEF t
<1>3. PICK g : Parses(g, s) /\ ParseLines(s) = g[n] BY ParseLoop, Zenon
<1>4. PICK h : Parses(h, t) /\ ParseLines(t) = h[Len(t)] BY <1>1, ParseLoop, Zenon
<1> HIDE DEF n
<1>5. \A i \in 0..n : g[i] = IF i = 0 THEN Fresh ELSE ParseLine(g[i - 1], s[i])
  BY <1>3, Zenon DEF Parses, n
<1>6. \A i \in 0..(n + 1) : h[i] = IF i = 0 THEN Fresh ELSE ParseLine(h[i - 1], t[i])
  BY <1>1, <1>4, Zenon DEF Parses
<1>7. 0 \in 0..n /\ 0 \in 0..(n + 1) /\ n + 1 \in 0..(n + 1) /\ n + 1 # 0 /\ (n + 1) - 1 = n
      /\ n \in 0..n
  BY <1>2
<1>8. g[0] = h[0] BY <1>5, <1>6, <1>7, Zenon
<1>9. ASSUME NEW i \in 1..n, g[i - 1] = h[i - 1] PROVE g[i] = h[i]
  <2>1. i \in 0..n /\ i \in 0..(n + 1) /\ i # 0 BY <1>2
  <2>2. g[i] = ParseLine(g[i - 1], s[i]) BY <2>1, <1>5, Zenon
  <2>3. h[i] = ParseLine(h[i - 1], t[i]) BY <2>1, <1>6, Zenon
  <2>4. t[i] = s[i] BY <1>1, Zenon
  <2> QED BY <1>9, <2>2, <2>3, <2>4, Zenon
<1>10. Agree(g, h, n) BY <1>2, <1>8, <1>9, AgreeByRounds, Zenon
<1>11. g[n] = h[n] BY <1>7, <1>10, Zenon DEF Agree
<1>12. h[n + 1] = ParseLine(h[n], c) BY <1>1, <1>6, <1>7, Zenon
<1> QED BY <1>1, <1>3, <1>4, <1>11, <1>12, Zenon DEF t

-----------------------------------------------------------------------------
(* What is written, read back.                                             *)

KeyLine(k, v) == <<k, Colon, Space>> \o v
Indent(l) == <<Space, Space>> \o l
IndentAll(ls) == [i \in DOMAIN ls |-> Indent(ls[i])]

(* Lines written one after the other are the lines read.                   *)
LEMMA LinesUnlines ==
    ASSUME NEW A, NL \in A, NEW ls \in Seq(Seq(A \ {NL}))
    PROVE  Lines(Unlines(ls)) = ls
<1> DEFINE L == Seq(A \ {NL})
           P == {ms \in Seq(L) : /\ Unlines(ms) \in Seq(A)
                                 /\ Split(Unlines(ms)).lines = ms
                                 /\ Closed(Unlines(ms))}
<1>1. <<>> \in P
  <2>1. <<>> \in Seq(L) /\ <<>> \in Seq(A) OBVIOUS
  <2>2. Split(<<>>).lines = <<>> /\ Split(<<>>).last = <<>> BY SplitEmpty DEF NoPieces
  <2> QED BY <2>1, <2>2, NoLines, Zenon DEF Closed
<1>2. ASSUME NEW ms \in Seq(L), NEW l \in L, ms \in P PROVE Append(ms, l) \in P
  <2> DEFINE ns == Append(ms, l)
             u == Unlines(ms)
             v == u \o (l \o <<NL>>)
  <2>1. u \in Seq(A) /\ Split(u).lines = ms /\ Closed(u) BY <1>2, Zenon
  <2>2. ns \in Seq(L) OBVIOUS
  <2>3. l \in Seq(A) /\ NL \notin Range(l) BY DEF Range
  <2>4. ms \in Seq(Seq(A)) OBVIOUS
  <2>5. Unlines(ns) = v BY <2>3, <2>4, UnlinesAppend, Zenon
  <2> HIDE DEF L, P, ns, u
  <2>6. v \in Seq(A) BY <2>1, <2>3
  <2>7. Split(v).lines = Append(Split(u).lines, l) /\ Closed(v) BY <2>1, <2>3, SplitLine, Zenon
  <2> HIDE DEF v
  <2>8. Split(v).lines = ns BY <2>1, <2>7 DEF ns
  <2>9. ns \in P BY <2>2, <2>5, <2>6, <2>7, <2>8, Zenon DEF P
  <2> QED BY <2>9 DEF ns
<1>a. ls \in Seq(L) OBVIOUS
<1> HIDE DEF P, L
<1>3. ls \in P BY <1>a, <1>1, <1>2, SeqInduction, Zenon
<1>4. Split(Unlines(ls)).lines = ls /\ Split(Unlines(ls)).last = <<>> BY <1>3, Zenon DEF P, Closed
<1> QED BY <1>4, Zenon DEF Lines

(* Lines written in two parts.                                             *)
LEMMA UnlinesConcat ==
    ASSUME NEW A, NL \in A, NEW ls \in Seq(Seq(A)), NEW ms \in Seq(Seq(A))
    PROVE  Unlines(ls \o ms) = Unlines(ls) \o Unlines(ms)
<1> DEFINE L == Seq(A)
           u == Unlines(ls)
           P == {ns \in Seq(L) : Unlines(ls \o ns) = u \o Unlines(ns)}
<1>1. u \in L BY UnlinesAppend
<1>2. <<>> \in P
  <2>1. <<>> \in Seq(L) /\ ls \o <<>> = ls OBVIOUS
  <2>2. u \o <<>> = u BY <1>1
  <2> QED BY <2>1, <2>2, NoLines, Zenon
<1>3. ASSUME NEW ns \in Seq(L), NEW l \in L, ns \in P PROVE Append(ns, l) \in P
  <2> DEFINE os == Append(ns, l)
             w == Unlines(ns)
             e == l \o <<NL>>
  <2>1. Unlines(ls \o ns) = u \o w BY <1>3, Zenon
  <2>2. os \in Seq(L) /\ ls \o ns \in Seq(L) /\ ls \o os = Append(ls \o ns, l) OBVIOUS
  <2>3. Unlines(os) = w \o e /\ w \in L BY UnlinesAppend, Zenon
  <2>4. Unlines(Append(ls \o ns, l)) = Unlines(ls \o ns) \o e BY <2>2, UnlinesAppend, Zenon
  <2>5. e \in L OBVIOUS
  <2> HIDE DEF e, w, os, u, P
  <2>6. Assoc(u, w, e) BY <1>1, <2>3, <2>5, ConcatAssociates, Zenon DEF L
  <2>7. Unlines(ls \o os) = u \o Unlines(os) BY <2>1, <2>2, <2>3, <2>4, <2>6, Zenon DEF Assoc
  <2> QED BY <2>2, <2>7, Zenon DEF P, os
<1>a. ls \in Seq(L) /\ ms \in Seq(L) OBVIOUS
<1> HIDE DEF P, L
<1>4. ms \in P BY <1>a, <1>2, <1>3, SeqInduction, Zenon
<1> QED BY <1>4, Zenon DEF P, u

(* A line with a key is parsed as it was written: the key is no colon.     *)
LEMMA KeyRead ==
    ASSUME NEW A, {Colon, Space} \subseteq A, NEW k \in A, k # Colon, NEW v \in Seq(A)
    PROVE  /\ parseYAMLLine(KeyLine(k, v)).key = <<k>>
           /\ parseYAMLLine(KeyLine(k, v)).val = v
           /\ KeyLine(k, v) \in Seq(A)
<1> DEFINE line == KeyLine(k, v)
           C(i) == line[i] = Colon /\ \A j \in 1..(i - 1) : line[j] # Colon
           n == CHOOSE i \in DOMAIN line : C(i)
           rest == SubSeq(line, 3, Len(line))
<1>1. /\ line \in Seq(A) /\ Len(line) = 3 + Len(v) /\ Len(v) \in Nat
      /\ line[1] = k /\ line[2] = Colon /\ line[3] = Space
  BY DEF KeyLine
<1>a. \A i \in 1..Len(v) : line[3 + i] = v[i] BY DEF KeyLine
<1> HIDE DEF line
<1>2. 2 \in DOMAIN line BY <1>1
<1>3. Colon \in Range(line) BY <1>1, <1>2, Zenon DEF Range
<1>4. C(2)
  <2>1. \A j \in 1..(2 - 1) : j = 1 OBVIOUS
  <2> QED BY <1>1, <2>1
<1>5. n \in DOMAIN line /\ C(n) BY <1>2, <1>4, Zenon
<1>6. n = 2
  <2>1. n \in Nat /\ n >= 1 BY <1>1, <1>5
  <2>2. n # 1 BY <1>1, <1>5
  <2>3. ~ (n > 2)
    <3>1. SUFFICES ASSUME n > 2 PROVE FALSE OBVIOUS
    <3>2. 2 \in 1..(n - 1) BY <2>1, <3>1
    <3> QED BY <1>1, <1>5, <3>2
  <2> QED BY <2>1, <2>2, <2>3
<1>7. parseYAMLLine(line) = [key |-> SubSeq(line, 1, n - 1),
                             val |-> IF SubSeq(line, n + 1, Len(line)) # <<>> /\ SubSeq(line, n + 1, Len(line))[1] = Space
                                     THEN Tail(SubSeq(line, n + 1, Len(line)))
                                     ELSE SubSeq(line, n + 1, Len(line))]
  BY <1>3, Zenon DEF parseYAMLLine
<1> HIDE DEF n
<1>8. n - 1 = 1 /\ n + 1 = 3 BY <1>6
<1>9. SubSeq(line, 1, 1) = <<k>>
  <2> DEFINE q == SubSeq(line, 1, 1)
  <2>1. q \in Seq(A) /\ Len(q) = 1 /\ q[1] = k BY <1>1
  <2> HIDE DEF q
  <2>2. q = <<k>> BY <2>1
  <2> QED BY <2>2 DEF q
<1>10. rest \in Seq(A) /\ Len(rest) = 1 + Len(v) /\ rest[1] = Space /\ \A i \in 1..Len(v) : rest[i + 1] = v[i]
  BY <1>1, <1>a
<1>11. parseYAMLLine(line) = [key |-> SubSeq(line, 1, 1),
                             val |-> IF rest # <<>> /\ rest[1] = Space THEN Tail(rest) ELSE rest]
  BY <1>7, <1>8, Zenon
<1> HIDE DEF rest
<1>12. rest # <<>> /\ Tail(rest) = v BY <1>1, <1>10
<1>13. parseYAMLLine(line) = [key |-> <<k>>, val |-> v] BY <1>9, <1>10, <1>11, <1>12, Zenon
<1> QED BY <1>1, <1>13 DEF line

(* It is not indented; what appendYAMLBlock writes is.                     *)
LEMMA Indents ==
    ASSUME NEW A, {Colon, Space} \subseteq A, NEW k \in A, k # Space, NEW v \in Seq(A)
    PROVE  /\ ~ Indented(KeyLine(k, v))
           /\ Indent(v) \in Seq(A) /\ Indented(Indent(v))
           /\ SubSeq(Indent(v), 3, Len(Indent(v))) = v
<1>1. KeyLine(k, v)[1] = k BY DEF KeyLine
<1>2. ~ Indented(KeyLine(k, v)) BY <1>1 DEF Indented
<1> DEFINE w == Indent(v)
<1>3. w \in Seq(A) /\ Len(w) = 2 + Len(v) /\ w[1] = Space /\ w[2] = Space /\ \A i \in 1..Len(v) : w[2 + i] = v[i]
  BY DEF Indent
<1> HIDE DEF w
<1>4. Indented(w) BY <1>3 DEF Indented
<1>5. SubSeq(w, 3, Len(w)) = v BY <1>3
<1> QED BY <1>2, <1>3, <1>4, <1>5 DEF w

-----------------------------------------------------------------------------
(* One written line of each kind.                                          *)

St(b, bl, p, f) == [inBlock |-> b, block |-> bl, program |-> p, file |-> f]
Marks(A) == NL \in A /\ Colon \in A /\ Space \in A /\ Bar \in A

InBlockIs(r, x, s) == [r EXCEPT !.inBlock = x] = s
BlockIs(r, x, s) == [r EXCEPT !.block = x] = s
ProgramIs(r, x, s) == [r EXCEPT !.program = x] = s
FileIs(r, x, s) == [r EXCEPT !.file = x] = s

(* A parser state with one of its fields changed.                          *)
LEMMA StExcept ==
    ASSUME NEW b, NEW bl, NEW p, NEW f, NEW x
    PROVE  /\ InBlockIs(St(b, bl, p, f), x, St(x, bl, p, f))
           /\ BlockIs(St(b, bl, p, f), x, St(b, x, p, f))
           /\ ProgramIs(St(b, bl, p, f), x, St(b, bl, x, f))
           /\ FileIs(St(b, bl, p, f), x, St(b, bl, p, x))
<1>1. InBlockIs(St(b, bl, p, f), x, St(x, bl, p, f)) BY DEF St, InBlockIs
<1>2. BlockIs(St(b, bl, p, f), x, St(b, x, p, f)) BY DEF St, BlockIs
<1>3. ProgramIs(St(b, bl, p, f), x, St(b, bl, x, f)) BY DEF St, ProgramIs
<1>4. FileIs(St(b, bl, p, f), x, St(b, bl, p, x)) BY DEF St, FileIs
<1> QED BY <1>1, <1>2, <1>3, <1>4

(* An indented line in a block is the block's next line.                   *)
LEMMA ReadBlockLine ==
    ASSUME NEW A, Marks(A), NEW l \in Seq(A), NEW bl \in Seq(Seq(A)), NEW p, NEW f
    PROVE  ParseLine(St(TRUE, bl, p, f), Indent(l)) = St(TRUE, Append(bl, l), p, f)
<1> DEFINE st == St(TRUE, bl, p, f)
           line == Indent(l)
           r == SubSeq(line, 3, Len(line))
<1>1. Indented(line) /\ r = l
  <2>1. Space \in A /\ Colon \in A /\ NL \in A /\ NL # Space BY Zenon DEF Marks, NL, Space
  <2> QED BY <2>1, Indents
<1>2. st.inBlock = TRUE /\ st.block = bl BY DEF St
<1>3. ParseLine(st, line) = [st EXCEPT !.block = Append(st.block, r)] BY <1>1, <1>2, Zenon DEF ParseLine
<1> HIDE DEF r, line
<1>5. BlockIs(st, Append(bl, l), St(TRUE, Append(bl, l), p, f)) BY StExcept, Zenon
<1>4. [st EXCEPT !.block = Append(bl, l)] = St(TRUE, Append(bl, l), p, f) BY <1>5, Zenon DEF BlockIs
<1> QED BY <1>1, <1>2, <1>3, <1>4, Zenon DEF line

(* What a line with a key makes of the parser's state.                     *)
KeyReads(b, bl, p, f, k, v) ==
    LET q == IF b THEN joinLines(bl) ELSE p
        st == ParseLine(St(b, bl, p, f), KeyLine(k, v))
    IN  /\ k \notin {"program", "file"} => st = St(FALSE, bl, q, f)
        /\ k = "file" => st = St(FALSE, bl, q, v)
        /\ (k = "program" /\ v = <<Bar>>) => st = St(TRUE, <<>>, q, f)

(* A line with another key, or the file, ends a block.                     *)
LEMMA ReadKey ==
    ASSUME NEW A, Marks(A), NEW k \in A, k # Colon, k # Space, NEW v \in Seq(A),
           NEW b \in BOOLEAN, NEW bl, NEW p, NEW f
    PROVE  KeyReads(b, bl, p, f, k, v)
<1> DEFINE st == St(b, bl, p, f)
           line == KeyLine(k, v)
           kv == parseYAMLLine(line)
           j == joinLines(bl)
           q == IF b THEN j ELSE p
           out == IF st.inBlock THEN [st EXCEPT !.inBlock = FALSE, !.program = joinLines(st.block)] ELSE st
<1>1. kv.key = <<k>> /\ kv.val = v
  <2>1. {Colon, Space} \subseteq A BY DEF Marks
  <2> QED BY <2>1, KeyRead
<1>2. ~ Indented(line)
  <2>1. {Colon, Space} \subseteq A BY DEF Marks
  <2> QED BY <2>1, Indents
<1>3. ParseLine(st, line) =
        CASE kv.key = <<"program">> /\ kv.val = <<Bar>> -> [out EXCEPT !.inBlock = TRUE, !.block = <<>>]
          [] kv.key = <<"program">> /\ kv.val # <<Bar>> -> [out EXCEPT !.program = kv.val]
          [] kv.key = <<"file">> -> [out EXCEPT !.file = kv.val]
          [] OTHER -> out
  BY <1>2, Zenon DEF ParseLine
<1>4. out = St(FALSE, bl, q, f)
  <2> HIDE DEF j
  <2>1. st.inBlock = b /\ st.block = bl BY DEF St
  <2>2. joinLines(st.block) = j BY <2>1 DEF j
  <2>3. CASE b
    <3>1. out = [st EXCEPT !.inBlock = FALSE, !.program = j] BY <2>1, <2>2, <2>3, Zenon
    <3>2. [st EXCEPT !.inBlock = FALSE, !.program = j] = St(FALSE, bl, j, f)
      <4>1. InBlockIs(st, FALSE, St(FALSE, bl, p, f)) BY StExcept, Zenon
      <4>2. ProgramIs(St(FALSE, bl, p, f), j, St(FALSE, bl, j, f)) BY StExcept, Zenon
      <4> HIDE DEF st
      <4>3. [st EXCEPT !.inBlock = FALSE, !.program = j] = [[st EXCEPT !.inBlock = FALSE] EXCEPT !.program = j]
        BY Zenon
      <4> QED BY <4>1, <4>2, <4>3, Zenon DEF InBlockIs, ProgramIs
    <3> QED BY <2>3, <3>1, <3>2, Zenon
  <2>4. CASE ~b
    <3>1. out = st /\ q = p BY <2>1, <2>4, Zenon
    <3>2. b = FALSE BY <2>4
    <3> QED BY <3>1, <3>2, Zenon DEF St
  <2> QED BY <2>3, <2>4, Zenon
<1> HIDE DEF kv, out, line, st, q
<1>5. ASSUME k \notin {"program", "file"} PROVE ParseLine(st, line) = out
  <2>1. <<k>> # <<"program">> /\ <<k>> # <<"file">> BY <1>5
  <2>2. kv.key # <<"program">> /\ kv.key # <<"file">> BY <1>1, <2>1, Zenon
  <2> QED BY <1>3, <2>2
<1>6. ASSUME k = "file" PROVE ParseLine(st, line) = [out EXCEPT !.file = v]
  <2>1. <<k>> # <<"program">> /\ <<k>> = <<"file">> BY <1>6
  <2>2. kv.key # <<"program">> /\ kv.key = <<"file">> BY <1>1, <2>1, Zenon
  <2> QED BY <1>1, <1>3, <2>2
<1>7. ASSUME k = "program", v = <<Bar>> PROVE ParseLine(st, line) = [out EXCEPT !.inBlock = TRUE, !.block = <<>>]
  <2>1. <<k>> = <<"program">> /\ <<"file">> # <<"program">> BY <1>7
  <2>2. kv.key = <<"program">> /\ kv.key # <<"file">> /\ kv.val = <<Bar>> BY <1>1, <1>7, <2>1, Zenon
  <2> HIDE DEF out
  <2> QED BY <1>3, <2>2
<1>8. [out EXCEPT !.file = v] = St(FALSE, bl, q, v)
  <2>1. FileIs(St(FALSE, bl, q, f), v, St(FALSE, bl, q, v)) BY StExcept, Zenon
  <2> QED BY <1>4, <2>1, Zenon DEF FileIs
<1>9. [out EXCEPT !.inBlock = TRUE, !.block = <<>>] = St(TRUE, <<>>, q, f)
  <2>1. InBlockIs(St(FALSE, bl, q, f), TRUE, St(TRUE, bl, q, f)) BY StExcept, Zenon
  <2>2. BlockIs(St(TRUE, bl, q, f), <<>>, St(TRUE, <<>>, q, f)) BY StExcept, Zenon
  <2>3. [out EXCEPT !.inBlock = TRUE, !.block = <<>>] = [[out EXCEPT !.inBlock = TRUE] EXCEPT !.block = <<>>]
    BY Zenon
  <2> QED BY <1>4, <2>1, <2>2, <2>3, Zenon DEF InBlockIs, BlockIs
<1> QED BY <1>4, <1>5, <1>6, <1>7, <1>8, <1>9, Zenon DEF st, line, q, KeyReads

Parsed(ls, st) == ParseLines(ls) = st

(* The block's lines come back, whatever they contain.                     *)
LEMMA ReadBlock ==
    ASSUME NEW A, Marks(A), NEW hs \in Seq(Seq(A)), NEW p, NEW f,
           ParseLines(hs) = St(TRUE, <<>>, p, f), NEW ls \in Seq(Seq(A))
    PROVE  Parsed(hs \o IndentAll(ls), St(TRUE, ls, p, f))
<1> DEFINE L == Seq(A)
           G == [x \in L \X Nat |-> Indent(x[1])]
           P == {ms \in Seq(L) : ParseLines(hs \o Mapped(G, ms)) = St(TRUE, ms, p, f)}
<1>1. NL \in A /\ \A l \in L : Indent(l) \in L
  <2>1. Space \in A /\ NL \in A BY DEF Marks
  <2> QED BY <2>1 DEF Indent
<1>2. G \in [L \X Nat -> L] BY <1>1
<1>3. \A l \in L, i \in Nat : G[<<l, i>>] = Indent(l) BY Zenon
<1>4. <<>> \in P
  <2>1. <<>> \in Seq(L) /\ hs \o <<>> = hs OBVIOUS
  <2>2. Mapped(G, <<>>) = <<>> BY MappedEmpty
  <2> QED BY <2>1, <2>2, Zenon
<1>a. hs \in Seq(L) /\ ls \in Seq(L) OBVIOUS
<1> HIDE DEF G
<1>5. ASSUME NEW ms \in Seq(L), NEW l \in L, ms \in P PROVE Append(ms, l) \in P
  <2> DEFINE g == Mapped(G, ms)
             ns == Append(ms, l)
  <2>1. ParseLines(hs \o g) = St(TRUE, ms, p, f) BY <1>5, Zenon
  <2>2. ns \in Seq(L) /\ Len(ms) + 1 \in Nat OBVIOUS
  <2> HIDE DEF P, L
  <2>3. Mapped(G, ns) = Append(g, G[<<l, Len(ms) + 1>>]) /\ g \in Seq(L)
    <3>1. Grows(G, ms, l, L) BY <1>2, MappedGrows, Zenon
    <3> QED BY <3>1, Zenon DEF Grows
  <2>4. G[<<l, Len(ms) + 1>>] = Indent(l) BY <1>3, <2>2, Zenon
  <2>5. Indent(l) \in L BY <1>1
  <2> HIDE DEF g, P
  <2>6. hs \o Append(g, Indent(l)) = Append(hs \o g, Indent(l)) /\ hs \o g \in Seq(L)
    BY <1>a, <2>3, <2>5
  <2>7. ParseLines(Append(hs \o g, Indent(l))) = ParseLine(ParseLines(hs \o g), Indent(l))
    BY <1>1, <2>5, <2>6, ParseAppend, Zenon DEF L
  <2>8. ParseLine(St(TRUE, ms, p, f), Indent(l)) = St(TRUE, ns, p, f) BY ReadBlockLine, Zenon DEF L
  <2> HIDE DEF ns
  <2>9. ParseLines(hs \o Mapped(G, ns)) = St(TRUE, ns, p, f)
    BY <2>1, <2>3, <2>4, <2>6, <2>7, <2>8, Zenon
  <2> QED BY <2>2, <2>9, Zenon DEF P, ns
<1> HIDE DEF P
<1>6. ls \in P BY <1>a, <1>4, <1>5, SeqInduction, Zenon
<1>7. Mapped(G, ls) = IndentAll(ls)
  <2>1. \A i \in DOMAIN ls : ls[i] \in L /\ i \in Nat OBVIOUS
  <2>2. \A i \in DOMAIN ls : G[<<ls[i], i>>] = Indent(ls[i]) BY <1>3, <2>1, Zenon
  <2> QED BY <2>2, Zenon DEF Mapped, IndentAll
<1> QED BY <1>6, <1>7, Zenon DEF P, Parsed

-----------------------------------------------------------------------------
(* The whole text.                                                         *)

Keys(A) == "type" \in A /\ "program" \in A /\ "file" \in A /\ "refresh" \in A
Plain(A) == A \ {NL}
Config(t, p, f, r) == [type |-> t, program |-> p, file |-> f, refresh |-> r]
Read(ls) == ParseLines(Lines(Unlines(ls)))
ReadsAs(ls, st) == Read(ls) = st

(* The characters of the format differ from each other and from the keys.  *)
LEMMA Apart ==
    /\ NL # Colon /\ NL # Space /\ NL # Bar /\ Colon # Space
    /\ \A k \in {"type", "program", "file", "refresh"} : k # NL /\ k # Colon /\ k # Space
BY Zenon DEF NL, Colon, Space, Bar

(* A key line has no newline of its own.                                   *)
LEMMA PlainKey ==
    ASSUME NEW A, Marks(A), NEW k \in Plain(A), k # Colon, NEW v \in Seq(Plain(A))
    PROVE  KeyLine(k, v) \in Seq(Plain(A))
<1>1. {Colon, Space} \subseteq Plain(A) BY Apart, Zenon DEF Marks, Plain
<1> QED BY <1>1, KeyRead

(* Neither has an indented one; a block is its lines indented.             *)
LEMMA PlainBlock ==
    ASSUME NEW A, Marks(A), NEW ls \in Seq(Seq(Plain(A)))
    PROVE  /\ IndentAll(ls) \in Seq(Seq(Plain(A)))
           /\ Unlines(IndentAll(ls)) = FlattenSeq([i \in DOMAIN ls |-> <<Space, Space>> \o ls[i] \o <<NL>>])
<1> DEFINE B == Plain(A)
           L == Seq(B)
           g == IndentAll(ls)
<1>1. Space \in B BY Apart, Zenon DEF Marks, Plain
<1>2. \A l \in L : Indent(l) \in L BY <1>1 DEF Indent
<1>3. \A i \in DOMAIN ls : ls[i] \in L OBVIOUS
<1>4. \A i \in DOMAIN ls : Indent(ls[i]) \in L BY <1>2, <1>3, Zenon
<1>5. g = [i \in DOMAIN ls |-> Indent(ls[i])] BY Zenon DEF IndentAll
<1>6. DOMAIN g = DOMAIN ls /\ \A i \in DOMAIN ls : g[i] = Indent(ls[i]) BY <1>5, Zenon
<1>7. g \in Seq(L)
  <2>1. DOMAIN ls = 1..Len(ls) /\ Len(ls) \in Nat OBVIOUS
  <2> HIDE DEF g, L
  <2> QED BY <1>4, <1>5, <2>1
<1>8. Unlines(g) = FlattenSeq([i \in DOMAIN g |-> g[i] \o <<NL>>]) BY Zenon DEF Unlines
<1>9. [i \in DOMAIN g |-> g[i] \o <<NL>>] = [i \in DOMAIN ls |-> <<Space, Space>> \o ls[i] \o <<NL>>]
  BY <1>6, Zenon DEF Indent
<1> QED BY <1>7, <1>8, <1>9, Zenon

(* Three lines with keys: the type, the source and the refresh interval.   *)
LEMMA HeaderRead ==
    ASSUME NEW A, Marks(A), Keys(A), NEW t \in Seq(Plain(A)), NEW k \in {"program", "file"},
           NEW v \in Seq(Plain(A)), k = "program" => v = <<Bar>>
    PROVE  LET hs == <<KeyLine("type", t), KeyLine(k, v)>>
           IN  /\ hs \in Seq(Seq(Plain(A)))
               /\ Unlines(hs) = (KeyLine("type", t) \o <<NL>>) \o (KeyLine(k, v) \o <<NL>>)
               /\ k = "program" => ParseLines(hs) = St(TRUE, <<>>, <<>>, <<>>)
               /\ k = "file" => ParseLines(hs) = St(FALSE, <<>>, <<>>, v)
<1> DEFINE a == KeyLine("type", t)
           b == KeyLine(k, v)
           e == <<>>
           f == Append(e, a)
           hs == Append(f, b)
           s == St(FALSE, e, e, e)
<1>1. /\ "type" \in Plain(A) /\ "type" # Colon /\ "type" # Space
      /\ k \in Plain(A) /\ k # Colon /\ k # Space /\ NL \in A /\ k \in A /\ "type" \in A
      /\ "type" \notin {"program", "file"}
  BY Apart, Zenon DEF Keys, Plain, Marks
<1>2. a \in Seq(Plain(A)) /\ b \in Seq(Plain(A)) BY <1>1, PlainKey, Zenon
<1>3. \A u \in Seq(Plain(A)) : u \in Seq(A) BY DEF Plain
<1>4. t \in Seq(A) /\ v \in Seq(A) /\ a \in Seq(A) /\ b \in Seq(A) BY <1>2, <1>3, Zenon
<1>5. ParseLine(s, a) = St(FALSE, e, e, e)
  <2>1. KeyReads(FALSE, e, e, e, "type", t) BY <1>1, <1>4, ReadKey, Zenon
  <2> QED BY <1>1, <2>1, Zenon DEF KeyReads
<1>6. /\ k = "program" => ParseLine(s, b) = St(TRUE, e, e, e)
      /\ k = "file" => ParseLine(s, b) = St(FALSE, e, e, v)
  <2>1. KeyReads(FALSE, e, e, e, k, v) BY <1>1, <1>4, ReadKey, Zenon
  <2> QED BY <1>1, <2>1, Zenon DEF KeyReads
<1>7. ParseLines(e) = s BY ParseEmpty, Zenon DEF Fresh, St
<1> HIDE DEF a, b, s
<1>8. hs = <<a, b>> /\ hs \in Seq(Seq(Plain(A)))
  <2>1. hs \in Seq(Seq(Plain(A))) BY <1>2
  <2>2. hs = <<a, b>> BY <1>2, PairAppend, Zenon
  <2> QED BY <2>1, <2>2
<1>9. e \in Seq(Seq(A)) /\ f \in Seq(Seq(A)) BY <1>4
<1>10. Unlines(e) = <<>> BY NoLines
<1> HIDE DEF e
<1>11. Unlines(f) = Unlines(e) \o (a \o <<NL>>) BY <1>1, <1>4, <1>9, UnlinesAppend, Zenon
<1>12. ParseLines(f) = ParseLine(ParseLines(e), a) BY <1>1, <1>4, <1>9, ParseAppend
<1> HIDE DEF f
<1>13. Unlines(hs) = Unlines(f) \o (b \o <<NL>>) BY <1>1, <1>4, <1>9, UnlinesAppend, Zenon
<1>14. ParseLines(hs) = ParseLine(ParseLines(f), b) BY <1>1, <1>4, <1>9, ParseAppend
<1> HIDE DEF hs
<1>15. <<>> \o (a \o <<NL>>) = a \o <<NL>> BY <1>4
<1>16. Unlines(hs) = (a \o <<NL>>) \o (b \o <<NL>>) BY <1>10, <1>11, <1>13, <1>15, Zenon
<1>17. ParseLines(f) = s BY <1>5, <1>7, <1>12, Zenon DEF s
<1> QED BY <1>6, <1>8, <1>14, <1>16, <1>17, Zenon DEF a, b, e

(* The last line, after a program or a file.                               *)
LEMMA LastRead ==
    ASSUME NEW A, Marks(A), Keys(A), NEW r \in Seq(Plain(A)), NEW hs \in Seq(Seq(Plain(A))),
           NEW b \in BOOLEAN, NEW bl, NEW p, NEW f, ParseLines(hs) = St(b, bl, p, f)
    PROVE  ReadsAs(Append(hs, KeyLine("refresh", r)), St(FALSE, bl, IF b THEN joinLines(bl) ELSE p, f))
<1> DEFINE a == KeyLine("refresh", r)
           ms == Append(hs, a)
<1>1. /\ "refresh" \in Plain(A) /\ "refresh" # Colon /\ "refresh" # Space /\ NL \in A
      /\ "refresh" \in A /\ "refresh" \notin {"program", "file"}
  BY Apart, Zenon DEF Keys, Plain, Marks
<1>2. a \in Seq(Plain(A)) BY <1>1, PlainKey, Zenon
<1>3. \A u \in Seq(Plain(A)) : u \in Seq(A) BY DEF Plain
<1>4. r \in Seq(A) /\ a \in Seq(A) BY <1>2, <1>3, Zenon
<1>5. ParseLine(St(b, bl, p, f), a) = St(FALSE, bl, IF b THEN joinLines(bl) ELSE p, f)
  <2>1. KeyReads(b, bl, p, f, "refresh", r) BY <1>1, <1>4, ReadKey, Zenon
  <2> QED BY <1>1, <2>1, Zenon DEF KeyReads
<1> HIDE DEF a
<1>6. ms \in Seq(Seq(Plain(A))) BY <1>2
<1>7. hs \in Seq(Seq(A)) BY DEF Plain
<1>8. ParseLines(ms) = ParseLine(ParseLines(hs), a) BY <1>1, <1>4, <1>7, ParseAppend
<1> HIDE DEF ms
<1>9. Lines(Unlines(ms)) = ms BY <1>1, <1>6, LinesUnlines DEF Plain
<1> QED BY <1>5, <1>8, <1>9, Zenon DEF Read, ReadsAs, ms, a

Yields(cfg, src) == extractSource(methodConfigBytes(cfg)) = src

(* An inline program is read as it was, but for its final newline.         *)
LEMMA ProgramRead ==
    ASSUME NEW A, Marks(A), Keys(A), NEW t \in Seq(Plain(A)), NEW r \in Seq(Plain(A)), r # <<>>,
           NEW p \in Seq(A), p # <<>>
    PROVE  Yields(Config(t, p, <<>>, r), IF Chomp(p) # <<>> THEN Chomp(p) ELSE NoSource)
<1> DEFINE c == Config(t, p, <<>>, r)
           ls == Lines(p)
           I == IndentAll(ls)
           U == Unlines(I)
           bar == <<Bar>>
           l1 == KeyLine("type", t)
           l2 == KeyLine("program", bar)
           l4 == KeyLine("refresh", r)
           T == l1 \o <<NL>>
           H == l2 \o <<NL>>
           R == l4 \o <<NL>>
           hs == <<l1, l2>>
           body == hs \o I
           st == Read(Append(body, l4))
<1>1. /\ NL \in A /\ "type" # Colon /\ "program" # Colon /\ "refresh" # Colon
      /\ "type" \in Plain(A) /\ "program" \in Plain(A) /\ "refresh" \in Plain(A) /\ Bar \in Plain(A)
  BY Apart, Zenon DEF Keys, Plain, Marks
<1>2. bar \in Seq(Plain(A)) BY <1>1
<1>3. l1 \in Seq(Plain(A)) /\ l2 \in Seq(Plain(A)) /\ l4 \in Seq(Plain(A)) BY <1>1, <1>2, PlainKey, Zenon
<1>4. \A u \in Seq(Plain(A)) : u \in Seq(A) BY DEF Plain
<1>5. l1 \in Seq(A) /\ l2 \in Seq(A) /\ l4 \in Seq(A) BY <1>3, <1>4, Zenon
<1>6. joinLines(ls) = Chomp(p) /\ ls \in Seq(Seq(Plain(A))) BY <1>1, JoinLines DEF Plain
<1>7. /\ I \in Seq(Seq(Plain(A)))
      /\ U = FlattenSeq([i \in DOMAIN ls |-> <<Space, Space>> \o ls[i] \o <<NL>>])
  BY <1>6, PlainBlock, Zenon
<1>8. /\ hs \in Seq(Seq(Plain(A))) /\ Unlines(hs) = T \o H
      /\ ParseLines(hs) = St(TRUE, <<>>, <<>>, <<>>)
  BY <1>2, HeaderRead, Zenon
<1>9. c.type = t /\ c.program = p /\ c.file = <<>> /\ c.refresh = r BY DEF Config
<1>10. <<"program", Colon, Space, Bar, NL>> = H BY DEF KeyLine
<1>11. methodConfigBytes(c) = ((T \o (H \o U)) \o <<>>) \o R
  <2>1. appendYAMLStr("type", t) = T /\ appendYAMLStr("refresh", r) = R BY Zenon DEF appendYAMLStr, KeyLine
  <2>2. appendYAMLBlock("program", p) = H \o U BY <1>7, <1>10, Zenon DEF appendYAMLBlock
  <2> HIDE DEF T, R, H, U, c
  <2> QED BY <1>9, <2>1, <2>2, Zenon DEF methodConfigBytes
<1> HIDE DEF l1, l2, l4, c, ls, bar, hs
<1>12. T \in Seq(A) /\ H \in Seq(A) /\ R \in Seq(A) BY <1>1, <1>5
<1>13. hs \in Seq(Seq(A)) /\ I \in Seq(Seq(A)) /\ ls \in Seq(Seq(A))
  <2>1. \A u \in Seq(Seq(Plain(A))) : u \in Seq(Seq(A)) BY DEF Plain
  <2> QED BY <2>1, <1>6, <1>7, <1>8, Zenon
<1> HIDE DEF I
<1>14. U \in Seq(A) BY <1>1, <1>5, <1>13, UnlinesAppend
<1>15. body \in Seq(Seq(A)) /\ body \in Seq(Seq(Plain(A))) BY <1>7, <1>8, <1>13
<1>16. Unlines(Append(body, l4)) = Unlines(body) \o R BY <1>1, <1>5, <1>15, UnlinesAppend, Zenon
<1>17. Unlines(body) = Unlines(hs) \o U BY <1>1, <1>13, UnlinesConcat
<1> HIDE DEF T, H, R, U
<1>18. (T \o (H \o U)) \o <<>> = T \o (H \o U) BY <1>12, <1>14
<1>19. Assoc(T, H, U) BY <1>12, <1>14, ConcatAssociates, Zenon
<1>20. methodConfigBytes(c) = Unlines(Append(body, l4))
  BY <1>8, <1>11, <1>16, <1>17, <1>18, <1>19, Zenon DEF Assoc
<1>21. ParseLines(body) = St(TRUE, ls, <<>>, <<>>)
  <2>1. Parsed(hs \o IndentAll(ls), St(TRUE, ls, <<>>, <<>>)) BY <1>8, <1>13, ReadBlock, Zenon
  <2> QED BY <2>1, Zenon DEF Parsed, I
<1> HIDE DEF body
<1>22. st = St(FALSE, ls, Chomp(p), <<>>)
  <2>1. ReadsAs(Append(body, l4), St(FALSE, ls, IF TRUE THEN joinLines(ls) ELSE <<>>, <<>>))
    BY <1>15, <1>21, LastRead, Zenon DEF l4
  <2> QED BY <1>6, <2>1, Zenon DEF ReadsAs
<1>23. st = ParseLines(Lines(methodConfigBytes(c))) BY <1>20, Zenon DEF Read
<1> HIDE DEF st
<1>24. st.inBlock = FALSE /\ st.program = Chomp(p) /\ st.file = <<>> BY <1>22 DEF St
<1>25. extractSource(methodConfigBytes(c)) = IF Chomp(p) # <<>> THEN Chomp(p) ELSE NoSource
  BY <1>23, <1>24, Zenon DEF extractSource
<1> QED BY <1>25, Zenon DEF c, Yields

(* A file is found under its name.                                         *)
LEMMA FileRead ==
    ASSUME NEW A, Marks(A), Keys(A), NEW t \in Seq(Plain(A)), NEW r \in Seq(Plain(A)), r # <<>>,
           NEW f \in Seq(Plain(A)), f # <<>>
    PROVE  Yields(Config(t, <<>>, f, r), f)
<1> DEFINE c == Config(t, <<>>, f, r)
           l1 == KeyLine("type", t)
           l2 == KeyLine("file", f)
           l4 == KeyLine("refresh", r)
           T == l1 \o <<NL>>
           H == l2 \o <<NL>>
           R == l4 \o <<NL>>
           hs == <<l1, l2>>
           st == Read(Append(hs, l4))
<1>1. /\ NL \in A /\ "type" # Colon /\ "file" # Colon /\ "refresh" # Colon
      /\ "type" \in Plain(A) /\ "file" \in Plain(A) /\ "refresh" \in Plain(A)
  BY Apart, Zenon DEF Keys, Plain, Marks
<1>2. l1 \in Seq(Plain(A)) /\ l2 \in Seq(Plain(A)) /\ l4 \in Seq(Plain(A)) BY <1>1, PlainKey, Zenon
<1>3. \A u \in Seq(Plain(A)) : u \in Seq(A) BY DEF Plain
<1>4. l1 \in Seq(A) /\ l2 \in Seq(A) /\ l4 \in Seq(A) BY <1>2, <1>3, Zenon
<1>5. /\ hs \in Seq(Seq(Plain(A))) /\ Unlines(hs) = T \o H
      /\ ParseLines(hs) = St(FALSE, <<>>, <<>>, f)
  <2>1. "file" # "program" OBVIOUS
  <2> QED BY <2>1, HeaderRead, Zenon
<1>6. c.type = t /\ c.program = <<>> /\ c.file = f /\ c.refresh = r BY DEF Config
<1>7. methodConfigBytes(c) = ((T \o <<>>) \o H) \o R
  <2>1. appendYAMLStr("type", t) = T /\ appendYAMLStr("file", f) = H /\ appendYAMLStr("refresh", r) = R
    BY Zenon DEF appendYAMLStr, KeyLine
  <2> HIDE DEF T, R, H, c
  <2> QED BY <1>6, <2>1, Zenon DEF methodConfigBytes
<1> HIDE DEF l1, l2, l4, c, hs
<1>8. T \in Seq(A) BY <1>1, <1>4
<1>9. hs \in Seq(Seq(A)) BY <1>5 DEF Plain
<1>10. Unlines(Append(hs, l4)) = Unlines(hs) \o R BY <1>1, <1>4, <1>9, UnlinesAppend, Zenon
<1> HIDE DEF T, H, R
<1>11. T \o <<>> = T BY <1>8
<1>12. methodConfigBytes(c) = Unlines(Append(hs, l4)) BY <1>5, <1>7, <1>10, <1>11, Zenon
<1>13. st = St(FALSE, <<>>, <<>>, f)
  <2>1. ReadsAs(Append(hs, l4), St(FALSE, <<>>, IF FALSE THEN joinLines(<<>>) ELSE <<>>, f))
    BY <1>5, LastRead, Zenon DEF l4
  <2> QED BY <2>1, Zenon DEF ReadsAs
<1>14. st = ParseLines(Lines(methodConfigBytes(c))) BY <1>12, Zenon DEF Read
<1> HIDE DEF st
<1>15. st.inBlock = FALSE /\ st.program = <<>> /\ st.file = f BY <1>13 DEF St
<1>16. extractSource(methodConfigBytes(c)) = f BY <1>14, <1>15, Zenon DEF extractSource
<1> QED BY <1>16, Zenon DEF c, Yields

-----------------------------------------------------------------------------
(* The providers run what was configured.                                  *)

Alphabet == Letters \cup {NL, Colon, Space, Bar, "type", "program", "file", "refresh",
                          "expr", "script", "x", "f", "9", "s"}

(* The written text, read back, names the configured source: or both name  *)
(* none that compiles.                                                     *)
LEMMA SourceRead ==
    ASSUME NEW p \in Seq(Letters), NEW type \in {<<"expr">>, <<"script">>}, NEW file \in BOOLEAN,
           NEW cfg, cfg = Config(type, IF file THEN <<>> ELSE p, IF file THEN <<"x", "f">> ELSE <<>>, <<"9", "s">>),
           Valid(cfg)
    PROVE  LET src == extractSource(methodConfigBytes(cfg))
           IN  \/ src = Source(cfg)
               \/ ~ Compiles(src) /\ ~ Compiles(Source(cfg))
<1> DEFINE A == Alphabet
           f == <<"x", "f">>
           r == <<"9", "s">>
<1>1. Marks(A) /\ Keys(A) BY Zenon DEF Marks, Keys, Alphabet
<1>2. {"expr", "script", "x", "f", "9", "s"} \subseteq Plain(A) BY Zenon DEF Alphabet, Plain, NL
<1>3. type \in Seq(Plain(A)) /\ f \in Seq(Plain(A)) /\ r \in Seq(Plain(A))
  <2> DEFINE B == Plain(A)
  <2>1. /\ "expr" \in B /\ "script" \in B /\ "x" \in B /\ "f" \in B /\ "9" \in B /\ "s" \in B
    BY <1>2, Zenon
  <2> HIDE DEF B
  <2>2. <<"expr">> \in Seq(B) /\ <<"script">> \in Seq(B) BY <2>1
  <2>3. f \in Seq(B) BY <2>1
  <2>4. r \in Seq(B) BY <2>1
  <2> QED BY <2>2, <2>3, <2>4, Zenon DEF B
<1>4. f # <<>> /\ r # <<>> OBVIOUS
<1>5. Letters \subseteq A BY Zenon DEF Alphabet
<1> HIDE DEF A, f, r
<1>6. p \in Seq(A) BY <1>5
<1>7. CASE file
  <2>1. cfg = Config(type, <<>>, f, r) BY <1>7, Zenon DEF f, r
  <2>a. Yields(Config(type, <<>>, f, r), f) BY <1>1, <1>3, <1>4, FileRead, Zenon
  <2>2. extractSource(methodConfigBytes(cfg)) = f BY <2>a, <2>1, Zenon DEF Yields
  <2>3. cfg.program = <<>> /\ cfg.file = f BY <2>1 DEF Config
  <2>4. Source(cfg) = f BY <2>3, Zenon DEF Source
  <2> QED BY <2>2, <2>4, Zenon
<1>8. CASE ~ file
  <2>1. cfg = Config(type, p, <<>>, r) BY <1>8, Zenon DEF f, r
  <2>2. cfg.program = p /\ cfg.file = <<>> BY <2>1 DEF Config
  <2>3. p # <<>> BY <2>2, Zenon DEF Valid
  <2>a. Yields(Config(type, p, <<>>, r), IF Chomp(p) # <<>> THEN Chomp(p) ELSE NoSource)
    BY <1>1, <1>3, <1>4, <1>6, <2>3, ProgramRead, Zenon
  <2>4. extractSource(methodConfigBytes(cfg)) = IF Chomp(p) # <<>> THEN Chomp(p) ELSE NoSource
    BY <2>a, <2>1, Zenon DEF Yields
  <2>5. Source(cfg) = Chomp(p) BY <2>2, <2>3, Zenon DEF Source
  <2>6. ~ Compiles(NoSource) BY Zenon DEF Compiles
  <2>7. ~ Compiles(<<>>)
    <3>1. Range(<<>>) = {} BY DEF Range
    <3> QED BY <3>1, Zenon DEF Compiles
  <2> QED BY <2>4, <2>5, <2>6, <2>7, Zenon
<1> QED BY <1>7, <1>8

(* Whatever a program contains, blank lines, indentation, colons or the    *)
(* keys of the format included, and however long it is, the provider runs  *)
(* exactly the last configured source that compiles.                       *)
THEOREM SourceKept == MethodSpec => []SourceSurvives
<1> DEFINE Inv == program \in Seq(Letters) /\ active = lastGood
<1>1. MethodInit => Inv
  <2>1. <<>> \in Seq(Letters) OBVIOUS
  <2> QED BY <2>1, Zenon DEF MethodInit
<1>2. Inv /\ [MethodNext]_methodVars => Inv'
  <2> SUFFICES ASSUME Inv, [MethodNext]_methodVars PROVE Inv' OBVIOUS
  <2>1. CASE UNCHANGED methodVars BY <2>1, Zenon DEF methodVars
  <2>2. ASSUME NEW c \in Letters, EditProgram(c) PROVE Inv'
    <3>1. program' = Append(program, c) /\ active' = active /\ lastGood' = lastGood
      BY <2>2, Zenon DEF EditProgram
    <3>2. Append(program, c) \in Seq(Letters) OBVIOUS
    <3> QED BY <3>1, <3>2, Zenon
  <2>3. ASSUME NEW type \in {<<"expr">>, <<"script">>}, NEW file \in BOOLEAN, Configure(type, file) PROVE Inv'
    <3> DEFINE cfg == Config(type, IF file THEN <<>> ELSE program, IF file THEN <<"x", "f">> ELSE <<>>, <<"9", "s">>)
               src == extractSource(methodConfigBytes(cfg))
    <3>1. /\ Valid(cfg) /\ LoadConfig(cfg) /\ program' = program
          /\ lastGood' = IF Compiles(Source(cfg)) THEN Source(cfg) ELSE lastGood
      BY <2>3, Zenon DEF Configure, Config
    <3> HIDE DEF cfg
    <3>2. active' = IF Compiles(src) THEN src ELSE active BY <3>1, Zenon DEF LoadConfig
    <3>3. src = Source(cfg) \/ (~ Compiles(src) /\ ~ Compiles(Source(cfg)))
      BY <3>1, SourceRead, Zenon DEF cfg
    <3> HIDE DEF src
    <3> QED BY <3>1, <3>2, <3>3, Zenon
  <2> QED BY <2>1, <2>2, <2>3, Zenon DEF MethodNext
<1>3. Inv => SourceSurvives BY DEF SourceSurvives
<1> QED BY <1>1, <1>2, <1>3, PTL DEF MethodSpec

-----------------------------------------------------------------------------
(* The admin API (AdminAuth, AdminViews), for every directory of users,    *)
(* every set of configurations and any number of logins, key changes,      *)
(* outages and history rows.                                               *)

(* The web login.                                                          *)

(* The browser holds the state of the login it started last, or none.      *)
LoginInv ==
    /\ attempts \in Nat
    /\ stateCookie \in {0, attempts}
    /\ LoginFollowsLatest

(* Every step of the middleware, the provider and the browser keeps it.    *)
LEMMA LoginStep == ASSUME LoginInv, AuthNext PROVE LoginInv'
<1> USE DEF LoginInv, LoginFollowsLatest
<1>1. ASSUME NEW cfg \in AuthConfigs, buildAuthMiddleware(cfg) PROVE LoginInv'
  BY <1>1 DEF buildAuthMiddleware, browserVars
<1>2. ASSUME NEW cred, handleSSO(cred) PROVE LoginInv'
  BY <1>2 DEF handleSSO
<1>3. ASSUME NEW cred, NEW n \in 1..attempts, handleOIDCCallback(n, cred)
      PROVE  LoginInv'
  <2> USE <1>3 DEF handleOIDCCallback
  <2>1. attempts' = attempts /\ stateCookie' \in {0, stateCookie}
    OBVIOUS
  <2>2. CASE stateCookie # n /\ CallbackReply(n, 400)
    <3>1. n # attempts \/ stateCookie = 0
      BY <2>2
    <3>2. login'.attempt = n /\ login'.latest = attempts /\ login'.status # 303
      BY <2>2 DEF CallbackReply
    <3>3. stateCookie = 0 => login'.lost
      BY <2>2, Zenon DEF CallbackReply
    <3>4. LoginFollowsLatest'
      BY <3>1, <3>2, <3>3, Zenon DEF LoginFollowsLatest
    <3> QED BY <2>1, <3>4 DEF LoginInv
  <2>3. CASE stateCookie = n /\ (CallbackReply(n, 303) \/ CallbackReply(n, 401))
    <3>1. login'.attempt = n /\ login'.latest = attempts /\ login'.status # 400
      BY <2>3 DEF CallbackReply
    <3> QED BY <2>1, <2>3, <3>1
  <2> QED BY <2>2, <2>3
<1>4. ASSUME NEW n \in 1..attempts, IdpAuthorizes(n) PROVE LoginInv'
  BY <1>4 DEF IdpAuthorizes
<1>5. CASE Refresh \/ RefreshFails \/ KeyfuncFetches \/ Rotate
  BY <1>5 DEF Refresh, RefreshFails, KeyfuncFetches, Rotate, browserVars
<1>6. CASE StateCookieExpires BY <1>6 DEF StateCookieExpires
<1> QED BY <1>1, <1>2, <1>3, <1>4, <1>5, <1>6 DEF AuthNext

(* A view changes nothing the login uses.                                  *)
LEMMA LoginQuiet == ASSUME LoginInv, UNCHANGED authVars PROVE LoginInv'
BY DEF LoginInv, LoginFollowsLatest, authVars

(* However many logins a browser starts, in however many tabs, the callback *)
(* that gets a token is that of the login started last, and that one is     *)
(* refused for its state only when the cookie is gone (handleSSO,           *)
(* handleOIDCCallback).                                                     *)
THEOREM LatestLoginWins == ViewsSpec => []LoginFollowsLatest
<1>1. ViewsInit => LoginInv
  BY DEF ViewsInit, AuthInit, LoginInv, LoginFollowsLatest
<1>2. LoginInv /\ [ViewsNext]_viewVars => LoginInv'
  BY LoginStep, LoginQuiet, Zenon DEF ViewsNext, viewVars, Insert, Ask
<1>3. LoginInv => LoginFollowsLatest BY DEF LoginInv
<1> QED BY <1>1, <1>2, <1>3, PTL DEF ViewsSpec

(* A gateway that came up with OIDC has a key at all times: a refresh that  *)
(* fails, however often, leaves the stored keys in place (refresh).         *)
THEOREM KeysKept == ViewsSpec => [](refresher => keys # {})
<1> DEFINE Kept == refresher => keys # {}
<1>1. ViewsInit => Kept BY DEF ViewsInit, AuthInit
<1>2. Kept /\ [ViewsNext]_viewVars => Kept'
  <2> SUFFICES ASSUME Kept, [ViewsNext]_viewVars PROVE Kept'
    OBVIOUS
  <2>1. CASE AuthNext
    <3>1. ASSUME NEW cfg \in AuthConfigs, buildAuthMiddleware(cfg) PROVE Kept'
      BY <3>1, Zenon DEF buildAuthMiddleware, StartOIDC
    <3>2. ASSUME NEW cred, handleSSO(cred) PROVE Kept'
      BY <3>2 DEF handleSSO
    <3>3. ASSUME NEW cred, NEW n \in 1..attempts, handleOIDCCallback(n, cred) PROVE Kept'
      BY <3>3 DEF handleOIDCCallback
    <3>4. ASSUME NEW n \in 1..attempts, IdpAuthorizes(n) PROVE Kept'
      BY <3>4 DEF IdpAuthorizes
    <3>5. CASE Refresh \/ RefreshFails \/ KeyfuncFetches \/ Rotate \/ StateCookieExpires
      BY <3>5, Zenon DEF Refresh, RefreshFails, KeyfuncFetches, Rotate, StateCookieExpires
    <3> QED BY <2>1, <3>1, <3>2, <3>3, <3>4, <3>5 DEF AuthNext
  <2>2. CASE UNCHANGED authVars BY <2>2 DEF authVars
  <2> QED BY <2>1, <2>2, Zenon DEF ViewsNext, viewVars, Insert, Ask
<1> QED BY <1>1, <1>2, PTL DEF ViewsSpec

-----------------------------------------------------------------------------
(* The history views.                                                      *)

Row == [user : {""} \union Users, url : Urls, source : Sources]
RowsOK == rows \in Seq(Row)
IsFilter(a) == a = [user |-> a.user, url |-> a.url, id |-> a.id, source |-> a.source]

(* A row inserted keeps that type.                                         *)
LEMMA RowAdded == ASSUME RowsOK, NEW row \in Row, rows' = Append(rows, row) PROVE RowsOK'
BY DEF RowsOK

(* The rows a filter lets through are finitely many.                       *)
LEMMA MatchingFinite ==
    ASSUME RowsOK, NEW filter
    PROVE  IsFiniteSet(Matching(filter)) /\ Cardinality(Matching(filter)) \in Nat
<1>1. IsFiniteSet(1 .. Len(rows)) BY FS_Interval DEF RowsOK
<1>2. DOMAIN rows = 1 .. Len(rows) BY DEF RowsOK
<1>3. Matching(filter) \subseteq 1 .. Len(rows) BY <1>2, Zenon DEF Matching
<1> QED BY <1>1, <1>3, FS_Subset, FS_CardinalityType

(* A page holds rows that match, with the total of all that match; a first *)
(* page that is large enough holds all of them.                            *)
LEMMA PageOf ==
    ASSUME RowsOK, NEW filter, NEW page \in Int, NEW pageSize \in Int,
           NEW f \in FindByFilter(filter, page, pageSize)
    PROVE  /\ f.rows \subseteq Matching(filter)
           /\ f.total = Cardinality(Matching(filter))
           /\ page = 1 /\ pageSize >= 1 /\ f.total <= pageSize => f.rows = Matching(filter)
<1>1. PICK all, number, limit :
        /\ all = Matching(filter)
        /\ number = (IF page < 1 THEN 1 ELSE page)
        /\ limit = (IF pageSize <= 0 THEN 10 ELSE pageSize)
  BY Zenon
<1> DEFINE rest == Cardinality(all) - (number - 1) * limit
           n == IF rest < 0 THEN 0 ELSE IF rest < limit THEN rest ELSE limit
<1>2. f \in [rows : {s \in SUBSET all : Cardinality(s) = n}, total : {Cardinality(all)}]
  BY <1>1, Zenon DEF FindByFilter
<1>3. /\ f.rows \in SUBSET all
      /\ Cardinality(f.rows) = n
      /\ f.total = Cardinality(all)
  BY <1>2
<1>4. IsFiniteSet(all) /\ Cardinality(all) \in Nat BY <1>1, MatchingFinite, Zenon
<1>5. ASSUME page = 1, pageSize >= 1, f.total <= pageSize PROVE f.rows = all
  <2>1. number = 1 /\ limit = pageSize BY <1>1, <1>5
  <2>2. n = Cardinality(all) BY <1>3, <1>4, <1>5, <2>1
  <2> QED BY <1>3, <1>4, <2>2, FS_Subset
<1> QED BY <1>1, <1>3, <1>5, Zenon

(* The filter a handler makes of what was asked: the caller's own name     *)
(* unless they are an ADMIN.                                               *)
Forced(p, asked) == IF HasRole(p, "ADMIN") THEN asked ELSE [asked EXCEPT !.user = p.name]

(* What HistoryScoped says of an answer with these rows and this total.    *)
InScope(route, p, asked, shown, total) ==
    /\ HasRole(p, "ADMIN") \/ p.name = "" \/ \A i \in shown : rows[i].user = p.name
    /\ shown \subseteq Matching(Forced(p, asked))
    /\ total = Cardinality(Matching(Forced(p, asked)))
    /\ route # "findQueryHistory" /\ total <= 100 => shown = Matching(Forced(p, asked))

(* Whose rows are sought: the name asked for, or the caller's.             *)
Owner(p, asked) == IF HasRole(p, "ADMIN") THEN asked.user ELSE p.name

(* It differs from what was asked in the name only.                        *)
LEMMA ForcedFields ==
    ASSUME NEW p, NEW a, IsFilter(a)
    PROVE  /\ Forced(p, a).url = a.url /\ Forced(p, a).id = a.id /\ Forced(p, a).source = a.source
           /\ Forced(p, a).user = Owner(p, a)
<1>1. PICK g, n : g = Forced(p, a) /\ n = p.name BY Zenon
<1>2. a = [user |-> a.user, url |-> a.url, id |-> a.id, source |-> a.source] BY Zenon DEF IsFilter
<1>3. CASE HasRole(p, "ADMIN") BY <1>3, Zenon DEF Forced, Owner
<1>4. CASE ~HasRole(p, "ADMIN")
  <2>1. g = [a EXCEPT !.user = n] BY <1>1, <1>4, Zenon DEF Forced
  <2>2. g = [user |-> n, url |-> a.url, id |-> a.id, source |-> a.source] BY <1>2, <2>1, Zenon
  <2>3. g.user = n /\ g.url = a.url /\ g.id = a.id /\ g.source = a.source BY <2>2
  <2>4. Owner(p, a) = n BY <1>1, <1>4, Zenon DEF Owner
  <2> QED BY <1>1, <2>3, <2>4, Zenon
<1> QED BY <1>3, <1>4

(* The rows that match it are those of that owner with what was asked.     *)
Wanted(o, asked) ==
    {i \in DOMAIN rows : /\ o \in {"", rows[i].user}
                        /\ asked.url \in {"", rows[i].url}
                        /\ asked.source \in {"", rows[i].source}
                        /\ asked.id \in {0, i}}

LEMMA ForcedMatches ==
    ASSUME NEW p, NEW asked, IsFilter(asked)
    PROVE  Matching(Forced(p, asked)) = Wanted(Owner(p, asked), asked)
<1>1. PICK g, o : g = Forced(p, asked) /\ o = Owner(p, asked) BY Zenon
<1>2. g.user = o /\ g.url = asked.url /\ g.id = asked.id /\ g.source = asked.source
  BY <1>1, ForcedFields, Zenon
<1>3. Matching(g) = Wanted(o, asked) BY <1>2, Zenon DEF Matching, Wanted
<1> QED BY <1>1, <1>3, Zenon

(* A page found with the forced filter is in scope.                        *)
LEMMA FoundScoped ==
    ASSUME RowsOK, NEW p, NEW asked, IsFilter(asked), NEW route, NEW page \in Int, NEW size \in Int,
           NEW f \in FindByFilter(Forced(p, asked), page, size),
           route # "findQueryHistory" => page = 1 /\ size >= 100
    PROVE  InScope(route, p, asked, f.rows, f.total)
<1>1. PICK g : g = Forced(p, asked) OBVIOUS
<1>2. /\ f.rows \subseteq Matching(g)
      /\ f.total = Cardinality(Matching(g))
      /\ page = 1 /\ size >= 1 /\ f.total <= size => f.rows = Matching(g)
  BY <1>1, PageOf, Zenon
<1>3. f.total \in Nat BY <1>2, MatchingFinite, Zenon
<1>4. route # "findQueryHistory" /\ f.total <= 100 => f.rows = Matching(g) BY <1>2, <1>3
<1>5. ASSUME ~HasRole(p, "ADMIN"), p.name # "", NEW i \in f.rows PROVE rows[i].user = p.name
  <2>1. PICK n : n = p.name BY Zenon
  <2>2. Owner(p, asked) = n BY <1>5, <2>1, Zenon DEF Owner
  <2>3. g.user = n BY <1>1, <2>2, ForcedFields, Zenon
  <2>4. g.user # "" => rows[i].user = g.user BY <1>2, <1>5, Zenon DEF Matching
  <2> QED BY <1>5, <2>1, <2>3, <2>4, Zenon
<1> QED BY <1>1, <1>2, <1>4, <1>5, Zenon DEF InScope

(* An answer in scope is what the property asks for.                       *)
LEMMA ScopedReply ==
    ASSUME NEW p, NEW asked, IsFilter(asked), NEW route, NEW shown, NEW total,
           InScope(route, p, asked, shown, total), UNCHANGED <<authVars, rows>>,
           reply'.route = route, reply'.who = p, reply'.asked = asked,
           reply'.rows = shown, reply'.total = total
    PROVE  HistoryScoped'
<1>1. \A q, role : HasRole(q, role)' = HasRole(q, role) BY DEF HasRole, authVars
<1>2. PICK g, o : g = Forced(p, asked) /\ o = Owner(p, asked)
  BY Zenon
<1>3. Matching(g) = Wanted(o, asked) BY <1>2, ForcedMatches, Zenon
<1>4. HasRole(reply.who, "ADMIN")' = HasRole(p, "ADMIN") BY <1>1, Zenon DEF HasRole
<1>5. Sought' = Wanted(o, asked) BY <1>2, <1>4, Zenon DEF Sought, Owner, Wanted
<1>7. Sought' = Matching(g) BY <1>3, <1>5, Zenon
<1>8. rows' = rows OBVIOUS
<1>9. /\ HasRole(p, "ADMIN") \/ p.name = "" \/ \A i \in shown : rows[i].user = p.name
      /\ shown \subseteq Matching(g)
      /\ total = Cardinality(Matching(g))
      /\ route # "findQueryHistory" /\ total <= 100 => shown = Matching(g)
  BY <1>2, Zenon DEF InScope
<1>10. /\ HasRole(reply.who, "ADMIN")' \/ reply'.who.name = ""
          \/ \A i \in reply'.rows : rows'[i].user = reply'.who.name
       /\ reply'.rows \subseteq Sought'
  BY <1>4, <1>7, <1>8, <1>9, Zenon
<1>11. /\ reply'.total = Cardinality(Sought')
       /\ reply'.route # "findQueryHistory" /\ Cardinality(Sought') <= 100 => reply'.rows = Sought'
  BY <1>7, <1>9, Zenon
<1> QED BY <1>10, <1>11, Zenon DEF HistoryScoped

(* Other answers are none of the property's.                               *)
LEMMA OtherReply == ASSUME reply'.status # 200 PROVE HistoryScoped'
BY Zenon DEF HistoryScoped

(* A view that passed its guard answers in scope, or not at all.           *)
LEMMA ShowsScoped ==
    ASSUME RowsOK, NEW p, NEW asked, IsFilter(asked), NEW route, NEW page \in Int, NEW size \in Int,
           Shows(route, p, asked, FindByFilter(Forced(p, asked), page, size)),
           UNCHANGED <<authVars, rows>>,
           route # "findQueryHistory" => page = 1 /\ size >= 100
    PROVE  HistoryScoped'
<1>1. CASE reply' = [NoReply EXCEPT !.route = route, !.who = p, !.asked = asked, !.status = 500]
  <2>1. reply'.status = 500 BY <1>1 DEF NoReply
  <2>2. reply'.status # 200 BY <2>1
  <2> QED BY <2>2, OtherReply, Zenon
<1>2. ASSUME NEW f \in FindByFilter(Forced(p, asked), page, size),
             reply' = [NoReply EXCEPT !.route = route, !.who = p, !.asked = asked,
                                      !.status = 200, !.rows = f.rows, !.total = f.total]
      PROVE  HistoryScoped'
  <2>1. InScope(route, p, asked, f.rows, f.total) BY <1>2, FoundScoped, Zenon
  <2>2. PICK shown, total : shown = f.rows /\ total = f.total BY Zenon
  <2>3. /\ reply'.route = route /\ reply'.who = p /\ reply'.asked = asked
        /\ reply'.rows = shown /\ reply'.total = total
    BY <1>2, <2>2 DEF NoReply
  <2> QED BY <2>1, <2>2, <2>3, ScopedReply, Zenon
<1> QED BY <1>1, <1>2, Zenon DEF Shows

(* A request leaves the history as it is and answers within the caller's   *)
(* scope.                                                                  *)
LEMMA AskScoped == ASSUME ViewConstants, RowsOK, NEW cred, Ask(cred) PROVE HistoryScoped'
<1>1. UNCHANGED <<authVars, rows>> BY DEF Ask
<1>2. PICK p : p = FromContext(cred) OBVIOUS
<1>3. ASSUME NEW route, NEW status, status # 200,
             reply' = [NoReply EXCEPT !.route = route, !.who = p, !.status = status]
      PROVE  HistoryScoped'
  BY <1>3 DEF HistoryScoped, NoReply
<1>4. CASE handleUserinfo(p) BY <1>4 DEF handleUserinfo, HistoryScoped, NoReply
<1>5. IsFilter(NoFilter) BY Zenon DEF NoFilter, IsFilter
<1>6. Forced(p, NoFilter) = IF HasRole(p, "ADMIN") THEN NoFilter ELSE OwnFilter(p)
  BY Zenon DEF Forced, OwnFilter
<1>7. 1 \in Int /\ 100 \in Int /\ 100 >= 100 /\ DistributionPageSize \in Int /\ DistributionPageSize >= 100
  BY DEF DistributionPageSize
<1>8. CASE queryHistory(p)
  <2>1. (IF HasRole(p, "ADMIN") THEN ListRecent(100) ELSE FindByFilter(OwnFilter(p), 1, 100))
          = FindByFilter(Forced(p, NoFilter), 1, 100)
    BY <1>6, Zenon DEF ListRecent
  <2>2. Shows("queryHistory", p, NoFilter, FindByFilter(Forced(p, NoFilter), 1, 100))
    BY <1>8, <2>1, Zenon DEF queryHistory
  <2> QED BY <1>1, <1>5, <1>7, <2>2, ShowsScoped, Zenon
<1>9. CASE queryHistoryDistribution(p)
  <2>1. Shows("queryHistoryDistribution", p, NoFilter,
              FindByFilter(Forced(p, NoFilter), 1, DistributionPageSize))
    BY <1>6, <1>9, Zenon DEF queryHistoryDistribution
  <2> QED BY <1>1, <1>5, <1>7, <2>1, ShowsScoped, Zenon
<1>10. ASSUME NEW s \in Searches, webappFindQueryHistory(p, s.filter, s.page, s.pageSize)
       PROVE  HistoryScoped'
  <2>1. PICK a, n, z : a = s.filter /\ n = s.page /\ z = s.pageSize BY Zenon
  <2>2. IsFilter(a) /\ n \in Int /\ z \in Int
    <3>1. s \in [filter : [user : STRING, url : STRING, id : Nat, source : STRING], page : Int, pageSize : Int]
      BY <1>10, Zenon DEF ViewConstants
    <3>2. a \in [user : STRING, url : STRING, id : Nat, source : STRING] /\ n \in Int /\ z \in Int
      BY <2>1, <3>1
    <3>3. IsFilter(a) BY <3>2 DEF IsFilter
    <3> QED BY <3>2, <3>3
  <2>3. Shows("findQueryHistory", p, a, FindByFilter(Forced(p, a), n, z))
    BY <1>10, <2>1, Zenon DEF webappFindQueryHistory, Forced
  <2> QED BY <1>1, <2>2, <2>3, ShowsScoped, Zenon
<1>11. CASE View(p) BY <1>4, <1>8, <1>9, <1>10, <1>11 DEF View
<1>12. View(p) \/ \E route, status : /\ status # 200
                                      /\ reply' = [NoReply EXCEPT !.route = route, !.who = p, !.status = status]
  BY <1>2, Zenon DEF Ask
<1> QED BY <1>3, <1>11, <1>12, Zenon

(* In each of the three history views, whatever the roles, the directory,   *)
(* the rows and the search, a caller with a name and without the ADMIN role *)
(* is shown rows of their own; everybody is shown rows of the kind asked    *)
(* for and their number, and up to 100 rows the lists are complete          *)
(* (queryHistory, queryHistoryDistribution, webappFindQueryHistory).        *)
THEOREM HistoryIsScoped == ASSUME ViewConstants PROVE ViewsSpec => []HistoryScoped
<1> DEFINE Inv == RowsOK /\ HistoryScoped
<1>1. ViewsInit => Inv BY DEF ViewsInit, RowsOK, HistoryScoped
<1>2. Inv /\ [ViewsNext]_viewVars => Inv'
  <2> SUFFICES ASSUME Inv, [ViewsNext]_viewVars PROVE Inv'
    OBVIOUS
  <2>1. CASE AuthNext /\ reply' = None /\ UNCHANGED rows
    BY <2>1, Zenon DEF RowsOK, HistoryScoped
  <2>2. ASSUME NEW user \in {""} \union Users, NEW url \in Urls, NEW source \in Sources,
               Insert(user, url, source)
        PROVE  Inv'
    <3>1. PICK row : row = [user |-> user, url |-> url, source |-> source] BY Zenon
    <3>2. row \in Row BY <3>1, Zenon DEF Row
    <3>3. rows' = Append(rows, row) /\ reply' = None BY <2>2, <3>1, Zenon DEF Insert
    <3>4. RowsOK' BY <3>2, <3>3, RowAdded, Zenon
    <3>5. HistoryScoped' BY <3>3, Zenon DEF HistoryScoped
    <3> QED BY <3>4, <3>5, Zenon
  <2>3. ASSUME NEW cred, Ask(cred) PROVE Inv'
    <3>1. RowsOK' BY <2>3, Zenon DEF Ask, RowsOK
    <3> QED BY <2>3, <3>1, AskScoped, Zenon
  <2>4. CASE UNCHANGED viewVars
    <3>1. auth' = auth /\ rows' = rows /\ reply' = reply BY <2>4 DEF viewVars, authVars
    <3>2. HasRole(reply.who, "ADMIN")' = HasRole(reply.who, "ADMIN") BY <3>1, Zenon DEF HasRole
    <3>3. Sought' = Sought BY <3>1, <3>2, Zenon DEF Sought
    <3>4. HistoryScoped' BY <3>1, <3>2, <3>3, Zenon DEF HistoryScoped
    <3>5. RowsOK' BY <3>1, Zenon DEF RowsOK
    <3> QED BY <3>4, <3>5
  <2> QED BY <2>1, <2>2, <2>3, <2>4, Zenon DEF ViewsNext
<1>3. Inv => HistoryScoped OBVIOUS
<1> QED BY <1>1, <1>2, <1>3, PTL DEF ViewsSpec

-----------------------------------------------------------------------------
(* The pages of a caller.                                                  *)

Keep(o, page) == IF page = NoPage \/ page \in Range(o) THEN o ELSE Append(o, page)
Keeps(h, pages) ==
    h = [i \in 0..Len(pages) |-> IF i = 0 THEN <<>> ELSE Keep(h[i - 1], pages[i])]

(* Distinct is the last value of its loop.                                 *)
LEMMA DistinctLoop ==
    ASSUME NEW A, NEW pages \in Seq(A)
    PROVE  \E h : Keeps(h, pages) /\ Distinct(pages) = h[Len(pages)]
<1> DEFINE S == Seq(A)
           F == [x \in S \X A |-> Keep(x[1], x[2])]
           n == Len(pages)
<1>a. \A o \in S, page \in A : Append(o, page) \in S OBVIOUS
<1>b. \A o \in S, page \in A : Keep(o, page) \in S BY <1>a, Zenon DEF Keep
<1>1. F \in [S \X A -> S] /\ <<>> \in S BY <1>b
<1>2. \A o \in S, page \in A : F[<<o, page>>] = Keep(o, page) OBVIOUS
<1> HIDE DEF F, S
<1>3. PICK g : g = [i \in 0..n |-> g[i]] /\ Folds(g, F, <<>>, pages)
  BY <1>1, FoldExists, Zenon
<1>4. \A i \in 0..n : g[i] \in S BY <1>1, <1>3, FoldTyped, Zenon
<1>5. ASSUME NEW i \in 0..n PROVE g[i] = IF i = 0 THEN <<>> ELSE Keep(g[i - 1], pages[i])
  <2>1. CASE i = 0 BY <2>1, <1>3, Zenon DEF Folds
  <2>2. CASE i # 0
    <3>1. i \in 1..n /\ i - 1 \in 0..n /\ pages[i] \in A BY <2>2
    <3>2. g[i] = F[<<g[i - 1], pages[i]>>] BY <3>1, <1>3, Zenon DEF Folds
    <3>3. g[i - 1] \in S BY <3>1, <1>4, Zenon
    <3> QED BY <2>2, <3>1, <3>2, <3>3, <1>2, Zenon
  <2> QED BY <2>1, <2>2
<1>6. Keeps(g, pages) BY <1>3, <1>5, Zenon DEF Keeps
<1> DEFINE h == CHOOSE f : Keeps(f, pages)
<1>7. Keeps(h, pages) BY <1>6, Zenon
<1>8. Distinct(pages) = h[n] BY Zenon DEF Distinct, Keeps, Keep
<1> HIDE DEF h
<1> QED BY <1>7, <1>8, Zenon

(* No names give none.                                                     *)
LEMMA DistinctEmpty == Distinct(<<>>) = <<>>
<1> DEFINE A == {}
<1>1. <<>> \in Seq(A) /\ Len(<<>>) = 0 /\ 0 \in 0..0 OBVIOUS
<1>2. PICK h : Keeps(h, <<>>) /\ Distinct(<<>>) = h[Len(<<>>)] BY <1>1, DistinctLoop, Zenon
<1>3. h[0] = <<>> BY <1>1, <1>2, Zenon DEF Keeps
<1> QED BY <1>1, <1>2, <1>3, Zenon

(* A name more is kept unless it is empty or there already.                *)
LEMMA DistinctAppend ==
    ASSUME NEW A, NEW pages \in Seq(A), NEW page \in A
    PROVE  Distinct(Append(pages, page)) = Keep(Distinct(pages), page)
<1> DEFINE t == Append(pages, page)
           n == Len(pages)
<1>1. t \in Seq(A) /\ Len(t) = n + 1 /\ t[n + 1] = page /\ \A i \in 1..n : t[i] = pages[i]
  OBVIOUS
<1>2. n \in Nat OBVIOUS
<1> HIDE DEF t
<1>3. PICK g : Keeps(g, pages) /\ Distinct(pages) = g[n] BY DistinctLoop, Zenon
<1>4. PICK h : Keeps(h, t) /\ Distinct(t) = h[Len(t)] BY <1>1, DistinctLoop, Zenon
<1> HIDE DEF n
<1>5. \A i \in 0..n : g[i] = IF i = 0 THEN <<>> ELSE Keep(g[i - 1], pages[i])
  BY <1>3, Zenon DEF Keeps, n
<1>6. \A i \in 0..(n + 1) : h[i] = IF i = 0 THEN <<>> ELSE Keep(h[i - 1], t[i])
  BY <1>1, <1>4, Zenon DEF Keeps
<1>7. 0 \in 0..n /\ 0 \in 0..(n + 1) /\ n + 1 \in 0..(n + 1) /\ n + 1 # 0 /\ (n + 1) - 1 = n
      /\ n \in 0..n
  BY <1>2
<1>8. g[0] = h[0] BY <1>5, <1>6, <1>7, Zenon
<1>9. ASSUME NEW i \in 1..n, g[i - 1] = h[i - 1] PROVE g[i] = h[i]
  <2>1. i \in 0..n /\ i \in 0..(n + 1) /\ i # 0 BY <1>2
  <2>2. g[i] = Keep(g[i - 1], pages[i]) BY <2>1, <1>5, Zenon
  <2>3. h[i] = Keep(h[i - 1], t[i]) BY <2>1, <1>6, Zenon
  <2>4. t[i] = pages[i] BY <1>1, Zenon
  <2> QED BY <1>9, <2>2, <2>3, <2>4, Zenon
<1>10. Agree(g, h, n) BY <1>2, <1>8, <1>9, AgreeByRounds, Zenon
<1>11. g[n] = h[n] BY <1>7, <1>10, Zenon DEF Agree
<1>12. h[n + 1] = Keep(h[n], page) BY <1>1, <1>6, <1>7, Zenon
<1> QED BY <1>1, <1>3, <1>4, <1>11, <1>12, Zenon DEF t

(* What is kept: the names of the list but the empty one, each once.       *)
Kept(s, d, A) == d \in Seq(A) /\ Range(d) = Range(s) \ {NoPage} /\ Once(d)

LEMMA DistinctNames == ASSUME NEW A, NEW pages \in Seq(A) PROVE Kept(pages, Distinct(pages), A)
<1> DEFINE P == {s \in Seq(A) : Kept(s, Distinct(s), A)}
<1>1. <<>> \in P
  <2>1. <<>> \in Seq(A) /\ Range(<<>>) = {} /\ Once(<<>>) BY DEF Range, Once
  <2> QED BY <2>1, DistinctEmpty, Zenon DEF Kept
<1>2. ASSUME NEW s \in Seq(A), NEW c \in A, s \in P PROVE Append(s, c) \in P
  <2> DEFINE d == Distinct(s)
             t == Append(s, c)
  <2>1. d \in Seq(A) /\ Range(d) = Range(s) \ {NoPage} /\ Once(d) BY <1>2, Zenon DEF Kept
  <2>2. Distinct(t) = Keep(d, c) BY DistinctAppend, Zenon
  <2>3. t \in Seq(A) OBVIOUS
  <2>4. Range(t) = Range(s) \cup {c} BY RangeAppend
  <2> HIDE DEF P, d, t
  <2>5. CASE c = NoPage \/ c \in Range(d)
    <3>1. Keep(d, c) = d BY <2>5, Zenon DEF Keep
    <3>2. Range(d) = Range(t) \ {NoPage} BY <2>1, <2>4, <2>5, Zenon
    <3> QED BY <2>1, <2>2, <2>3, <3>1, <3>2, Zenon DEF Kept, P, t
  <2>6. CASE c # NoPage /\ c \notin Range(d)
    <3>1. Keep(d, c) = Append(d, c) BY <2>6, Zenon DEF Keep
    <3>2. Append(d, c) \in Seq(A) BY <2>1
    <3>3. Range(Append(d, c)) = Range(d) \cup {c} BY <2>1, RangeAppend
    <3>4. Range(Append(d, c)) = Range(t) \ {NoPage} BY <2>1, <2>4, <2>6, <3>3, Zenon
    <3>5. Once(Append(d, c)) BY <2>1, <2>6, OnceAppend, Zenon
    <3> QED BY <2>2, <2>3, <3>1, <3>2, <3>4, <3>5, Zenon DEF Kept, P, t
  <2> QED BY <2>5, <2>6
<1> HIDE DEF P
<1>3. pages \in P BY <1>1, <1>2, SeqInduction, Zenon
<1> QED BY <1>3, Zenon DEF P

(* The roles in an answer are those the caller holds.                      *)
LEMMA RolesHeld ==
    ASSUME NEW p
    PROVE  /\ RolesOf(p) \in Seq(Range(Roles))
           /\ Range(RolesOf(p)) = {role \in Range(Roles) : HasRole(p, role)}
<1> DEFINE R == Range(Roles)
<1>1. R = {"ADMIN", "USER", "API"} BY DEF Roles, Range
<1>2. \A role \in R : Held(p, role) \in Seq(R) BY DEF Held
<1>3. \A role \in R : Range(Held(p, role)) = IF HasRole(p, role) THEN {role} ELSE {}
  BY DEF Held, Range
<1> DEFINE a == Held(p, "ADMIN")
           u == Held(p, "USER")
           i == Held(p, "API")
<1>4. a \in Seq(R) /\ u \in Seq(R) /\ i \in Seq(R) BY <1>1, <1>2
<1>5. /\ Range(a) = IF HasRole(p, "ADMIN") THEN {"ADMIN"} ELSE {}
      /\ Range(u) = IF HasRole(p, "USER") THEN {"USER"} ELSE {}
      /\ Range(i) = IF HasRole(p, "API") THEN {"API"} ELSE {}
  BY <1>1, <1>3
<1> HIDE DEF R, a, u, i
<1> DEFINE au == a \o u
<1>6. au \in Seq(R) BY <1>4
<1>7. Range(au) = Range(a) \cup Range(u) BY <1>4, RangeConcat
<1>a. RolesOf(p) = au \o i BY DEF RolesOf, a, u, i
<1> HIDE DEF au
<1>8. au \o i \in Seq(R) BY <1>4, <1>6
<1>9. Range(au \o i) = Range(au) \cup Range(i) BY <1>4, <1>6, RangeConcat
<1>10. Range(RolesOf(p)) = {role \in R : HasRole(p, role)}
  BY <1>1, <1>5, <1>7, <1>9, <1>a
<1> QED BY <1>8, <1>10, <1>a, Zenon DEF R

Served == auth # None => auth \in AuthConfigs

Granted(pages, held) ==
    IF held \subseteq DOMAIN auth.pages
    THEN /\ Range(pages) = (UNION {Range(auth.pages[role]) : role \in held}) \ {NoPage}
         /\ Len(pages) = Cardinality(Range(pages))
    ELSE pages = <<>>

(* A sequence without repetitions is as long as its set of elements is     *)
(* large.                                                                  *)
LEMMA OnceCounted ==
    ASSUME NEW S, NEW d \in Seq(S), Once(d)
    PROVE  Len(d) = Cardinality(Range(d))
<1>1. Len(d) \in Nat /\ d \in [1..Len(d) -> Range(d)] BY DEF Range
<1>2. IsInjective(d) BY <1>1 DEF IsInjective, Once
<1>3. \A y \in Range(d) : \E i \in 1..Len(d) : d[i] = y BY DEF Range
<1>4. d \in Bijection(1..Len(d), Range(d))
  BY <1>1, <1>2, <1>3, Zenon DEF Bijection, Injection, Surjection
<1>5. ExistsBijection(1..Len(d), Range(d)) BY <1>4, Zenon DEF ExistsBijection
<1> QED BY <1>1, <1>5, FS_CountingElements, Zenon

(* What /userinfo answers is what PagesAsGranted says.                     *)
LEMMA UserinfoGranted ==
    ASSUME ViewConstants, auth \in AuthConfigs, NEW p
    PROVE  Granted(ResolvePagePermissions(RolesOf(p)), {role \in Range(Roles) : HasRole(p, role)})
<1> DEFINE roles == RolesOf(p)
           held == {role \in Range(Roles) : HasRole(p, role)}
           ss == [i \in DOMAIN roles |-> auth.pages[roles[i]]]
<1>1. roles \in Seq(Range(Roles)) /\ Range(roles) = held BY RolesHeld
<1> SUFFICES Granted(ResolvePagePermissions(roles), held) OBVIOUS
<1> HIDE DEF roles, held
<1>2. CASE ~(held \subseteq DOMAIN auth.pages)
  <2>1. \E i \in DOMAIN roles : roles[i] \notin DOMAIN auth.pages BY <1>1, <1>2, Zenon DEF Range
  <2>2. ResolvePagePermissions(roles) = <<>> BY <2>1, Zenon DEF ResolvePagePermissions
  <2> QED BY <1>2, <2>2, Zenon DEF Granted
<1>3. CASE held \subseteq DOMAIN auth.pages
  <2> DEFINE all == PagesOf(roles)
             d == Distinct(all)
  <2>1. ~ \E i \in DOMAIN roles : roles[i] \notin DOMAIN auth.pages BY <1>1, <1>3, Zenon DEF Range
  <2>2. ResolvePagePermissions(roles) = d BY <2>1, Zenon DEF ResolvePagePermissions
  <2>3. \A i \in DOMAIN roles : auth.pages[roles[i]] \in Seq(STRING)
    BY <2>1, Zenon DEF ViewConstants
  <2>4. DOMAIN roles = 1..Len(roles) /\ Len(roles) \in Nat BY <1>1
  <2>5. ss \in Seq(Seq(STRING)) BY <2>3, <2>4
  <2>6. Range(ss) = {auth.pages[role] : role \in held} BY <1>1, <2>4, Zenon DEF Range
  <2> HIDE DEF ss
  <2>7. all = FlattenSeq(ss) BY Zenon DEF PagesOf, ss
  <2>8. all \in Seq(STRING) BY <2>5, <2>7, FlattenTyped
  <2>9. Range(all) = UNION {Range(s) : s \in Range(ss)} BY <2>5, <2>7, FlattenRange
  <2> HIDE DEF all
  <2>10. Kept(all, d, STRING) BY <2>8, DistinctNames, Zenon
  <2>11. Len(d) = Cardinality(Range(d)) BY <2>10, OnceCounted, Zenon DEF Kept
  <2>12. Range(d) = Range(all) \ {NoPage} BY <2>10, Zenon DEF Kept
  <2> DEFINE U == UNION {Range(auth.pages[role]) : role \in held}
  <2>13. UNION {Range(s) : s \in Range(ss)} = U BY <2>6, Zenon
  <2> HIDE DEF d, U
  <2>14. Range(all) = U BY <2>9, <2>13
  <2>15. Range(d) = U \ {NoPage} BY <2>12, <2>14
  <2>16. Range(ResolvePagePermissions(roles)) = U \ {NoPage} BY <2>2, <2>15, Zenon
  <2>17. Len(ResolvePagePermissions(roles)) = Cardinality(Range(ResolvePagePermissions(roles)))
    BY <2>2, <2>11, Zenon
  <2> QED BY <1>3, <2>16, <2>17, Zenon DEF Granted, U
<1> QED BY <1>2, <1>3

(* For every configuration of roles and pages and every caller, /userinfo   *)
(* names exactly the pages some role of the caller is given, each once, when *)
(* all of those roles have an entry, and none when one has no entry: the    *)
(* empty answer is given then, and when no entry names a page               *)
(* (ResolvePagePermissions, handleUserinfo).                                *)
THEOREM PagesGranted == ASSUME ViewConstants PROVE ViewsSpec => []PagesAsGranted
<1> DEFINE Inv == Served /\ PagesAsGranted
<1>1. ViewsInit => Inv BY DEF ViewsInit, AuthInit, Served, PagesAsGranted
<1>2. Inv /\ [ViewsNext]_viewVars => Inv'
  <2> SUFFICES ASSUME Inv, [ViewsNext]_viewVars PROVE Inv'
    OBVIOUS
  <2>1. CASE AuthNext /\ reply' = None /\ UNCHANGED rows
    <3>1. PagesAsGranted' BY <2>1 DEF PagesAsGranted
    <3>2. ASSUME NEW cfg \in AuthConfigs, buildAuthMiddleware(cfg) PROVE Served'
      BY <3>2 DEF buildAuthMiddleware, Served
    <3>3. ASSUME auth' = auth PROVE Served' BY <3>3, Zenon DEF Served
    <3>4. (\E cfg \in AuthConfigs : buildAuthMiddleware(cfg)) \/ auth' = auth
      BY <2>1 DEF AuthNext, handleSSO, handleOIDCCallback, IdpAuthorizes, Refresh, RefreshFails,
                  KeyfuncFetches, Rotate, StateCookieExpires
    <3> QED BY <3>1, <3>2, <3>3, <3>4
  <2>2. ASSUME NEW user, NEW url, NEW source, Insert(user, url, source) PROVE Inv'
    BY <2>2 DEF Insert, authVars, Served, PagesAsGranted
  <2>3. ASSUME NEW cred, Ask(cred) PROVE Inv'
    <3>1. auth' = auth /\ auth # None BY <2>3 DEF Ask, authVars
    <3>2. Served' /\ auth \in AuthConfigs BY <3>1 DEF Served
    <3>3. ASSUME NEW route, NEW p, NEW status, status # 200,
                 reply' = [NoReply EXCEPT !.route = route, !.who = p, !.status = status]
          PROVE  PagesAsGranted'
      BY <3>3 DEF PagesAsGranted, NoReply
    <3>4. ASSUME NEW route, NEW p, NEW asked, NEW found, route # "userinfo", Shows(route, p, asked, found)
          PROVE  PagesAsGranted'
      <4>1. reply'.route = route
        <5>1. ASSUME NEW f, NEW status,
                     reply' = [NoReply EXCEPT !.route = route, !.who = p, !.asked = asked,
                                              !.status = status, !.rows = f.rows, !.total = f.total]
              PROVE  reply'.route = route
          BY <5>1, Zenon DEF NoReply
        <5>2. ASSUME reply' = [NoReply EXCEPT !.route = route, !.who = p, !.asked = asked, !.status = 500]
              PROVE  reply'.route = route
          BY <5>2, Zenon DEF NoReply
        <5> QED BY <3>4, <5>1, <5>2, Zenon DEF Shows
      <4> QED BY <3>4, <4>1, Zenon DEF PagesAsGranted
    <3>5. ASSUME NEW p, handleUserinfo(p) PROVE PagesAsGranted'
      <4>1. reply'.who = p /\ reply'.pages = ResolvePagePermissions(RolesOf(p))
        BY <3>5 DEF handleUserinfo, NoReply
      <4>2. \A role : HasRole(p, role)' = HasRole(p, role) BY <3>1 DEF HasRole
      <4>3. {role \in Range(Roles) : HasRole(reply.who, role)}' = {role \in Range(Roles) : HasRole(p, role)}
        BY <4>1, <4>2
      <4> QED BY <3>1, <3>2, <4>1, <4>3, UserinfoGranted DEF PagesAsGranted, Granted
    <3> SUFFICES PagesAsGranted' BY <3>2, Zenon
    <3>6. PICK p : p = FromContext(cred) OBVIOUS
    <3>7. CASE View(p)
      <4>1. "queryHistory" # "userinfo" /\ "queryHistoryDistribution" # "userinfo"
            /\ "findQueryHistory" # "userinfo"
        OBVIOUS
      <4>2. CASE queryHistory(p)
        <5>1. \E found : Shows("queryHistory", p, NoFilter, found) BY <4>2, Zenon DEF queryHistory
        <5> QED BY <3>4, <4>1, <5>1, Zenon
      <4>3. CASE queryHistoryDistribution(p)
        <5>1. \E found : Shows("queryHistoryDistribution", p, NoFilter, found)
          BY <4>3, Zenon DEF queryHistoryDistribution
        <5> QED BY <3>4, <4>1, <5>1, Zenon
      <4>4. ASSUME NEW a, NEW n, NEW z, webappFindQueryHistory(p, a, n, z) PROVE PagesAsGranted'
        <5>1. \E found : Shows("findQueryHistory", p, a, found) BY <4>4, Zenon DEF webappFindQueryHistory
        <5> QED BY <3>4, <4>1, <5>1, Zenon
      <4> QED BY <3>5, <3>7, <4>2, <4>3, <4>4 DEF View
    <3>8. View(p) \/ \E route, status : /\ status # 200
                                       /\ reply' = [NoReply EXCEPT !.route = route, !.who = p, !.status = status]
      BY <2>3, <3>6, Zenon DEF Ask
    <3> QED BY <3>3, <3>7, <3>8, Zenon
  <2>4. CASE UNCHANGED viewVars
    BY <2>4 DEF viewVars, authVars, Served, PagesAsGranted, HasRole
  <2> QED BY <2>1, <2>2, <2>3, <2>4, Zenon DEF ViewsNext
<1>3. Inv => PagesAsGranted OBVIOUS
<1> QED BY <1>1, <1>2, <1>3, PTL DEF ViewsSpec
=============================================================================
