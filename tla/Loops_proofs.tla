---------------------------- MODULE Loops_proofs ----------------------------
(***************************************************************************)
(* Induction, and the loops of the code.  A loop is written in the other   *)
(* modules as a recursive function of the number of rounds, or of the      *)
(* index it has reached.  The lemmas here say that such functions exist,   *)
(* so that they are what their equations say.  Sets take the place of      *)
(* predicates, and functions that of operators: the provers can            *)
(* instantiate them.                                                       *)
(***************************************************************************)
EXTENDS SeqOps, WellFoundedInduction, TLAPS

(* A set of naturals with 0 and the successor of each member is all of Nat. *)
LEMMA Induction ==
    ASSUME NEW P, 0 \in P, \A n \in Nat : n \in P => n + 1 \in P
    PROVE  \A n \in Nat : n \in P
<1> DEFINE T == {n \in Nat : n \notin P}
<1> SUFFICES ASSUME T # {} PROVE FALSE BY Zenon
<1>1. PICK x \in T : \A y \in T : ~(<<y, x>> \in OpToRel(<, Nat))
  BY NatLessThanWellFounded, WFMin, Zenon
<1>2. \A y \in T : ~(y < x) BY <1>1, Zenon DEF OpToRel
<1>3. x # 0 /\ x \in Nat /\ x \notin P OBVIOUS
<1>4. x - 1 \in Nat /\ x - 1 < x /\ (x - 1) + 1 = x BY <1>3
<1>5. x - 1 \in P BY <1>2, <1>4
<1> QED BY <1>3, <1>4, <1>5, Zenon

(* A set of naturals that has a member has a least one.                    *)
LEMMA LeastMember ==
    ASSUME NEW T, T \subseteq Nat, T # {}
    PROVE  \E x \in T : \A y \in T : x <= y
<1>1. PICK x \in T : \A y \in T : ~(<<y, x>> \in OpToRel(<, Nat))
  BY NatLessThanWellFounded, WFMin, Zenon
<1>2. \A y \in T : ~(y < x) BY <1>1, Zenon DEF OpToRel
<1>3. \A y \in T : x <= y BY <1>2
<1> QED BY <1>3

(* A set of sequences with the empty one and every extension of a member   *)
(* by one element has them all.                                            *)
LEMMA SeqInduction ==
    ASSUME NEW A, NEW P, <<>> \in P,
           \A s \in Seq(A), c \in A : s \in P => Append(s, c) \in P
    PROVE  \A s \in Seq(A) : s \in P
<1> DEFINE Q == {n \in Nat : \A s \in Seq(A) : Len(s) = n => s \in P}
<1>1. 0 \in Q
  <2>1. \A s \in Seq(A) : Len(s) = 0 => s = <<>> OBVIOUS
  <2> QED BY <2>1
<1>2. ASSUME NEW n \in Nat, n \in Q PROVE n + 1 \in Q
  <2>1. ASSUME NEW s \in Seq(A), Len(s) = n + 1 PROVE s \in P
    <3> DEFINE t == SubSeq(s, 1, n)
    <3>1. t \in Seq(A) /\ Len(t) = n /\ s[n + 1] \in A BY <2>1
    <3>2. s = Append(t, s[n + 1]) BY <2>1
    <3>3. t \in P BY <3>1, <1>2, Zenon
    <3> HIDE DEF t
    <3> QED BY <3>1, <3>2, <3>3, Zenon
  <2> QED BY <2>1
<1> HIDE DEF Q
<1>3. \A n \in Nat : n \in Q BY <1>1, <1>2, Induction, Zenon
<1>4. ASSUME NEW s \in Seq(A) PROVE s \in P
  <2>1. Len(s) \in Nat OBVIOUS
  <2> QED BY <2>1, <1>3, Zenon DEF Q
<1> QED BY <1>4

-----------------------------------------------------------------------------
(* A loop over a sequence: g[i] is what it holds after i rounds.           *)

Folds(g, F, b, s) ==
    g[0] = b /\ \A i \in 1..Len(s) : g[i] = F[<<g[i - 1], s[i]>>]

(* What the loop holds has the type of its state.                          *)
LEMMA FoldTyped ==
    ASSUME NEW A, NEW S, NEW b \in S, NEW F \in [S \X A -> S], NEW s \in Seq(A),
           NEW g, Folds(g, F, b, s)
    PROVE  \A i \in 0..Len(s) : g[i] \in S
<1> DEFINE P == {n \in Nat : n <= Len(s) => g[n] \in S}
<1>1. g[0] = b /\ \A i \in 1..Len(s) : g[i] = F[<<g[i - 1], s[i]>>]
  BY DEF Folds
<1>2. 0 \in P BY <1>1
<1>3. ASSUME NEW n \in Nat, n \in P PROVE n + 1 \in P
  <2> SUFFICES ASSUME n + 1 <= Len(s) PROVE g[n + 1] \in S OBVIOUS
  <2>1. g[n] \in S /\ n + 1 \in 1..Len(s) /\ (n + 1) - 1 = n BY <1>3
  <2>2. s[n + 1] \in A BY <2>1
  <2>3. g[n + 1] = F[<<g[n], s[n + 1]>>] BY <2>1, <1>1
  <2>4. <<g[n], s[n + 1]>> \in S \X A BY <2>1, <2>2
  <2> QED BY <2>3, <2>4, Zenon
<1> HIDE DEF P
<1>4. \A n \in Nat : n \in P BY <1>2, <1>3, Induction, Zenon
<1> QED BY <1>4 DEF P

Agree(g, h, n) == \A i \in 0..n : g[i] = h[i]

(* Two loops that start alike and keep alike round by round.               *)
LEMMA AgreeByRounds ==
    ASSUME NEW n \in Nat, NEW g, NEW h, g[0] = h[0],
           \A i \in 1..n : g[i - 1] = h[i - 1] => g[i] = h[i]
    PROVE  Agree(g, h, n)
<1> DEFINE P == {k \in Nat : k <= n => g[k] = h[k]}
<1>1. 0 \in P OBVIOUS
<1>2. ASSUME NEW k \in Nat, k \in P PROVE k + 1 \in P
  <2> SUFFICES ASSUME k + 1 <= n PROVE g[k + 1] = h[k + 1] OBVIOUS
  <2>1. k + 1 \in 1..n /\ (k + 1) - 1 = k OBVIOUS
  <2>2. g[k] = h[k] BY <1>2
  <2> QED BY <2>1, <2>2
<1> HIDE DEF P
<1>3. \A k \in Nat : k \in P BY <1>1, <1>2, Induction, Zenon
<1> QED BY <1>3 DEF P, Agree

(* Loops over two sequences with a common prefix hold the same along it.   *)
LEMMA FoldPrefix ==
    ASSUME NEW A, NEW F, NEW b, NEW s \in Seq(A), NEW t \in Seq(A),
           NEW g, Folds(g, F, b, s), NEW h, Folds(h, F, b, t),
           NEW n \in Nat, n <= Len(s), n <= Len(t), \A i \in 1..n : s[i] = t[i]
    PROVE  Agree(g, h, n)
<1> DEFINE P == {k \in Nat : k <= n => g[k] = h[k]}
<1>1. g[0] = b /\ \A i \in 1..Len(s) : g[i] = F[<<g[i - 1], s[i]>>]
  BY DEF Folds
<1>2. h[0] = b /\ \A i \in 1..Len(t) : h[i] = F[<<h[i - 1], t[i]>>]
  BY DEF Folds
<1>3. 0 \in P BY <1>1, <1>2
<1>4. ASSUME NEW k \in Nat, k \in P PROVE k + 1 \in P
  <2> SUFFICES ASSUME k + 1 <= n PROVE g[k + 1] = h[k + 1] OBVIOUS
  <2>1. k + 1 \in 1..n /\ k + 1 \in 1..Len(s) /\ k + 1 \in 1..Len(t) /\ (k + 1) - 1 = k OBVIOUS
  <2>2. g[k] = h[k] BY <1>4
  <2>3. s[k + 1] = t[k + 1] BY <2>1, Zenon
  <2>4. g[k + 1] = F[<<g[k], s[k + 1]>>] BY <2>1, <1>1
  <2>5. h[k + 1] = F[<<h[k], t[k + 1]>>] BY <2>1, <1>2
  <2> QED BY <2>2, <2>3, <2>4, <2>5, Zenon
<1> HIDE DEF P
<1>5. \A k \in Nat : k \in P BY <1>3, <1>4, Induction, Zenon
<1> QED BY <1>5 DEF P, Agree

(* One more round for one more element.                                    *)
LEMMA FoldAppend ==
    ASSUME NEW A, NEW F, NEW b, NEW s \in Seq(A), NEW c \in A,
           NEW g, Folds(g, F, b, s), NEW h, Folds(h, F, b, Append(s, c))
    PROVE  h[Len(s) + 1] = F[<<g[Len(s)], c>>]
<1> DEFINE t == Append(s, c)
<1>1. t \in Seq(A) /\ Len(t) = Len(s) + 1 /\ t[Len(s) + 1] = c
      /\ \A i \in 1..Len(s) : s[i] = t[i]
  OBVIOUS
<1>2. Len(s) \in Nat /\ Len(s) <= Len(s) /\ Len(s) <= Len(t)
      /\ Len(s) \in 0..Len(s) /\ Len(s) + 1 \in 1..Len(t) /\ (Len(s) + 1) - 1 = Len(s)
  BY <1>1
<1>3. Folds(h, F, b, t) OBVIOUS
<1> HIDE DEF t
<1>4. Agree(g, h, Len(s)) BY <1>1, <1>2, <1>3, FoldPrefix, Zenon
<1>5. h[Len(s) + 1] = F[<<h[(Len(s) + 1) - 1], t[Len(s) + 1]>>]
  BY <1>2, <1>3, Zenon DEF Folds
<1> QED BY <1>1, <1>2, <1>4, <1>5 DEF Agree

(* The loop over a sequence exists.                                        *)
LEMMA FoldExists ==
    ASSUME NEW A, NEW S, NEW b \in S, NEW F \in [S \X A -> S]
    PROVE  \A s \in Seq(A) : \E g : g = [i \in 0..Len(s) |-> g[i]] /\ Folds(g, F, b, s)
<1> DEFINE Is(g, s) == g = [i \in 0..Len(s) |-> g[i]] /\ Folds(g, F, b, s)
           P == {s \in Seq(A) : \E g : Is(g, s)}
<1>1. <<>> \in P
  <2> DEFINE g == [i \in 0..0 |-> b]
  <2>1. Is(g, <<>>)
    <3>1. Len(<<>>) = 0 /\ \A i \in 0..0 : i = 0 OBVIOUS
    <3> QED BY <3>1 DEF Folds
  <2>2. <<>> \in Seq(A) OBVIOUS
  <2> QED BY <2>1, <2>2, Zenon
<1>2. ASSUME NEW s \in Seq(A), NEW c \in A, s \in P PROVE Append(s, c) \in P
  <2> DEFINE n == Len(s)
             t == Append(s, c)
  <2>1. PICK g : Is(g, s) BY <1>2, Zenon
  <2> DEFINE h == [i \in 0..(n + 1) |-> IF i = n + 1 THEN F[<<g[n], c>>] ELSE g[i]]
  <2>2. g[0] = b /\ \A i \in 1..n : g[i] = F[<<g[i - 1], s[i]>>]
    BY <2>1, Zenon DEF Folds
  <2>3. t \in Seq(A) /\ Len(t) = n + 1 /\ t[n + 1] = c /\ \A i \in 1..n : t[i] = s[i]
    OBVIOUS
  <2>4. n \in Nat OBVIOUS
  <2> HIDE DEF n, t
  <2>5. ASSUME NEW i \in 0..(n + 1)
        PROVE  h[i] = IF i = 0 THEN b ELSE F[<<h[i - 1], t[i]>>]
    <3>1. CASE i = 0
      <4>1. h[0] = g[0] BY <2>4
      <4> QED BY <4>1, <3>1, <2>2
    <3>2. CASE i = n + 1
      <4>1. h[i] = F[<<g[n], c>>] BY <3>2
      <4>2. h[i - 1] = g[n] BY <3>2, <2>4
      <4>3. t[i] = c /\ i # 0 BY <3>2, <2>3, <2>4
      <4> QED BY <4>1, <4>2, <4>3, Zenon
    <3>3. CASE i \in 1..n
      <4>1. h[i] = g[i] /\ h[i - 1] = g[i - 1] /\ t[i] = s[i] /\ i # 0 BY <3>3, <2>3, <2>4
      <4>2. g[i] = F[<<g[i - 1], s[i]>>] BY <3>3, <2>2, Zenon
      <4> HIDE DEF h
      <4> QED BY <4>1, <4>2, Zenon
    <3> QED BY <3>1, <3>2, <3>3, <2>4
  <2>6. h = [i \in 0..(n + 1) |-> h[i]] BY Zenon
  <2>a. 0 \in 0..(n + 1) BY <2>4
  <2>7. h[0] = b BY <2>a, <2>5, Zenon
  <2>8. \A i \in 1..(n + 1) : i \in 0..(n + 1) /\ i # 0 BY <2>4
  <2>9. \A i \in 1..(n + 1) : h[i] = F[<<h[i - 1], t[i]>>] BY <2>5, <2>8, Zenon
  <2> HIDE DEF h
  <2>10. Is(h, t) BY <2>3, <2>6, <2>7, <2>9, Zenon DEF Folds
  <2> QED BY <2>3, <2>10, Zenon DEF t
<1> HIDE DEF P
<1>3. \A s \in Seq(A) : s \in P BY <1>1, <1>2, SeqInduction, Zenon
<1> QED BY <1>3, Zenon DEF P

-----------------------------------------------------------------------------
(* A loop that jumps forward along n positions: f[i] is what it computes   *)
(* from position i on, at once (J[i] = 0) or from what it computes from    *)
(* position J[i] on.                                                       *)

Leaps(f, lo, n, J, B, G) ==
    \A i \in lo..n : f[i] = IF J[i] = 0 THEN B[i] ELSE G[<<i, f[J[i]]>>]

(* Such a loop exists when every jump goes forward.                        *)
LEMMA LeapExists ==
    ASSUME NEW n \in Nat, NEW S, NEW J \in [1..n -> 0..n],
           \A i \in 1..n : J[i] = 0 \/ J[i] > i,
           NEW B \in [1..n -> S], NEW G \in [(1..n) \X S -> S]
    PROVE  \E f \in [1..n -> S] : Leaps(f, 1, n, J, B, G)
<1> DEFINE Is(f, lo) == f \in [lo..n -> S] /\ Leaps(f, lo, n, J, B, G)
           P == {k \in Nat : k <= n => \E f : Is(f, (n - k) + 1)}
<1>1. 0 \in P
  <2> DEFINE f == [i \in {} |-> i]
  <2>1. (n - 0) + 1 = n + 1 /\ (n + 1)..n = {} OBVIOUS
  <2>2. f \in [(n + 1)..n -> S] BY <2>1
  <2>3. Leaps(f, n + 1, n, J, B, G) BY <2>1 DEF Leaps
  <2>4. Is(f, n + 1) BY <2>2, <2>3
  <2> HIDE DEF f, Is
  <2>5. Is(f, (n - 0) + 1) BY <2>1, <2>4
  <2> QED BY <2>5
<1>2. ASSUME NEW k \in Nat, k \in P PROVE k + 1 \in P
  <2> SUFFICES ASSUME k + 1 <= n PROVE \E f : Is(f, (n - (k + 1)) + 1) OBVIOUS
  <2> DEFINE m == n - k
  <2>1. m \in 1..n /\ (n - (k + 1)) + 1 = m /\ (n - k) + 1 = m + 1 OBVIOUS
  <2>2. PICK f : Is(f, m + 1) BY <1>2, <2>1
  <2> HIDE DEF m
  <2> DEFINE v == IF J[m] = 0 THEN B[m] ELSE G[<<m, f[J[m]]>>]
             g == [i \in m..n |-> IF i = m THEN v ELSE f[i]]
  <2>3. f \in [(m + 1)..n -> S] /\ Leaps(f, m + 1, n, J, B, G) BY <2>2
  <2>4. J[m] # 0 => J[m] \in (m + 1)..n BY <2>1
  <2>5. v \in S
    <3>1. CASE J[m] = 0 BY <3>1, <2>1
    <3>2. CASE J[m] # 0
      <4>1. f[J[m]] \in S BY <3>2, <2>3, <2>4
      <4> QED BY <4>1, <3>2, <2>1
    <3> QED BY <3>1, <3>2
  <2>6. \A i \in m..n : i # m => i \in (m + 1)..n BY <2>1
  <2>7. \A i \in m..n : (IF i = m THEN v ELSE f[i]) \in S
    <3> HIDE DEF v
    <3> QED BY <2>3, <2>5, <2>6, Zenon
  <2>8. g \in [m..n -> S] BY <2>7, Zenon
  <2>9. \A i \in (m + 1)..n : i \in m..n /\ i # m /\ g[i] = f[i]
    <3> HIDE DEF v
    <3> QED BY <2>1
  <2>10. ASSUME NEW i \in m..n PROVE g[i] = IF J[i] = 0 THEN B[i] ELSE G[<<i, g[J[i]]>>]
    <3>1. CASE i = m
      <4>1. m \in m..n BY <2>1
      <4>2. g[m] = v BY <4>1, Zenon
      <4>3. J[m] # 0 => g[J[m]] = f[J[m]] BY <2>4, <2>9, Zenon
      <4> HIDE DEF g
      <4> QED BY <3>1, <4>2, <4>3, Zenon
    <3>2. CASE i # m
      <4>1. i \in (m + 1)..n BY <3>2, <2>6, Zenon
      <4>2. g[i] = f[i] BY <4>1, <2>9, Zenon
      <4>3. J[i] # 0 => J[i] \in (m + 1)..n BY <4>1, <2>1
      <4>4. J[i] # 0 => g[J[i]] = f[J[i]] BY <4>3, <2>9, Zenon
      <4>5. f[i] = IF J[i] = 0 THEN B[i] ELSE G[<<i, f[J[i]]>>] BY <4>1, <2>3, Zenon DEF Leaps
      <4> HIDE DEF g
      <4> QED BY <4>2, <4>4, <4>5, Zenon
    <3> QED BY <3>1, <3>2
  <2> HIDE DEF g
  <2>11. Is(g, m) BY <2>8, <2>10, Zenon DEF Leaps
  <2> HIDE DEF Is
  <2> QED BY <2>1, <2>11
<1> HIDE DEF P, Is
<1>3. \A k \in Nat : k \in P BY <1>1, <1>2, Induction, Zenon
<1>4. n <= n /\ (n - n) + 1 = 1 OBVIOUS
<1>5. \E f : Is(f, (n - n) + 1) BY <1>3, <1>4, Zenon DEF P
<1>6. \E f : Is(f, 1) BY <1>4, <1>5
<1> QED BY <1>6, Zenon DEF Is

-----------------------------------------------------------------------------
(* FlattenSeq.                                                             *)

Cat(A) == [x \in Seq(A) \X Seq(A) |-> x[1] \o x[2]]
Flattens(h, ss) == h = [i \in 0..Len(ss) |-> IF i = 0 THEN <<>> ELSE h[i - 1] \o ss[i]]

(* It is the last value of the loop that concatenates.                     *)
LEMMA FlattenLoop ==
    ASSUME NEW A, NEW ss \in Seq(Seq(A))
    PROVE  \E g : /\ Folds(g, Cat(A), <<>>, ss)
                  /\ FlattenSeq(ss) = g[Len(ss)]
                  /\ FlattenSeq(ss) \in Seq(A)
<1> DEFINE S == Seq(A)
           F == Cat(A)
           n == Len(ss)
<1>1. <<>> \in S /\ F \in [S \X S -> S] /\ n \in Nat BY DEF Cat
<1>2. \A x, y \in S : F[<<x, y>>] = x \o y BY Zenon DEF Cat
<1>3. ss \in Seq(S) OBVIOUS
<1> HIDE DEF S, F
<1>4. PICK g : g = [i \in 0..n |-> g[i]] /\ Folds(g, F, <<>>, ss)
  BY <1>1, <1>3, FoldExists, Zenon
<1>5. \A i \in 0..n : g[i] \in S BY <1>1, <1>3, <1>4, FoldTyped, Zenon
<1>6. g[0] = <<>> /\ \A i \in 1..n : g[i] = F[<<g[i - 1], ss[i]>>] BY <1>4, Zenon DEF Folds
<1>7. \A i \in 1..n : g[i] = g[i - 1] \o ss[i]
  <2> SUFFICES ASSUME NEW i \in 1..n PROVE g[i] = g[i - 1] \o ss[i] BY Zenon
  <2>1. i - 1 \in 0..n /\ ss[i] \in S BY <1>1, <1>3
  <2>2. g[i - 1] \in S BY <2>1, <1>5
  <2> QED BY <2>1, <2>2, <1>2, <1>6, Zenon
<1>8. ASSUME NEW i \in 0..n PROVE g[i] = IF i = 0 THEN <<>> ELSE g[i - 1] \o ss[i]
  <2>1. i = 0 \/ i \in 1..n BY <1>1
  <2>2. CASE i = 0 BY <2>2, <1>6, Zenon
  <2>3. CASE i # 0 BY <2>1, <2>3, <1>7, Zenon
  <2> QED BY <2>2, <2>3, Zenon
<1>9. Flattens(g, ss) BY <1>4, <1>8, Zenon DEF Flattens
<1>10. PICK h : Flattens(h, ss) /\ FlattenSeq(ss) = h[n]
  <2> DEFINE h == CHOOSE h : Flattens(h, ss)
  <2>1. FlattenSeq(ss) = h[n] BY Zenon DEF FlattenSeq, Flattens
  <2>2. Flattens(h, ss) BY <1>9, Zenon
  <2> HIDE DEF h
  <2> QED BY <2>1, <2>2, Zenon
<1>11. \A i \in 0..n : h[i] = IF i = 0 THEN <<>> ELSE h[i - 1] \o ss[i]
  BY <1>10, Zenon DEF Flattens
<1> DEFINE P == {k \in Nat : k <= n => h[k] = g[k]}
<1>12. 0 \in P
  <2>1. 0 \in 0..n BY <1>1
  <2>2. h[0] = g[0] BY <2>1, <1>6, <1>11, Zenon
  <2> QED BY <2>2
<1>13. ASSUME NEW k \in Nat, k \in P PROVE k + 1 \in P
  <2> SUFFICES ASSUME k + 1 <= n PROVE h[k + 1] = g[k + 1] OBVIOUS
  <2>1. k + 1 \in 0..n /\ k + 1 # 0 /\ (k + 1) - 1 = k /\ k <= n BY <1>1
  <2>2. h[k] = g[k] BY <1>13, <2>1
  <2>3. h[k + 1] = h[(k + 1) - 1] \o ss[k + 1] BY <2>1, <1>11, Zenon
  <2>4. g[k + 1] = g[(k + 1) - 1] \o ss[k + 1] BY <2>1, <1>8, Zenon
  <2> QED BY <2>1, <2>2, <2>3, <2>4, Zenon
<1> HIDE DEF P
<1>14. \A k \in Nat : k \in P BY <1>12, <1>13, Induction, Zenon
<1>15. n <= n /\ n \in 0..n BY <1>1
<1>16. h[n] = g[n] BY <1>1, <1>14, <1>15, Zenon DEF P
<1> QED BY <1>4, <1>5, <1>10, <1>15, <1>16, Zenon DEF F, S

(* One more sequence adds its elements at the end.                         *)
LEMMA FlattenAppend ==
    ASSUME NEW A, NEW ss \in Seq(Seq(A)), NEW s \in Seq(A)
    PROVE  FlattenSeq(Append(ss, s)) = FlattenSeq(ss) \o s
<1> DEFINE S == Seq(A)
           F == Cat(A)
           tt == Append(ss, s)
<1>1. tt \in Seq(Seq(A)) /\ Len(tt) = Len(ss) + 1 OBVIOUS
<1>2. PICK g : Folds(g, F, <<>>, ss) /\ FlattenSeq(ss) = g[Len(ss)] /\ FlattenSeq(ss) \in Seq(A)
  BY FlattenLoop, Zenon
<1>3. PICK h : Folds(h, F, <<>>, tt) /\ FlattenSeq(tt) = h[Len(tt)]
  BY <1>1, FlattenLoop, Zenon
<1>4. \A x, y \in S : F[<<x, y>>] = x \o y BY Zenon DEF Cat
<1> HIDE DEF F
<1>5. ss \in Seq(S) /\ s \in S OBVIOUS
<1>6. h[Len(ss) + 1] = F[<<g[Len(ss)], s>>]
  <2> HIDE DEF S
  <2> QED BY <1>2, <1>3, <1>5, FoldAppend DEF tt
<1>7. g[Len(ss)] \in S BY <1>2
<1> QED BY <1>1, <1>2, <1>3, <1>4, <1>5, <1>6, <1>7, Zenon

(* No sequences, no elements.                                              *)
LEMMA FlattenEmpty == FlattenSeq(<<>>) = <<>>
<1>1. <<>> \in Seq(Seq({})) /\ Len(<<>>) = 0 OBVIOUS
<1>2. PICK g : Folds(g, Cat({}), <<>>, <<>>) /\ FlattenSeq(<<>>) = g[Len(<<>>)]
  BY <1>1, FlattenLoop, Zenon
<1>3. g[0] = <<>> BY <1>2, Zenon DEF Folds
<1> QED BY <1>1, <1>2, <1>3, Zenon

(* What it returns is a sequence over the same elements.                   *)
LEMMA FlattenTyped == ASSUME NEW A, NEW ss \in Seq(Seq(A)) PROVE FlattenSeq(ss) \in Seq(A)
BY FlattenLoop, Zenon

-----------------------------------------------------------------------------
(* The elements of a sequence.                                             *)

(* An element more.                                                        *)
LEMMA RangeAppend ==
    ASSUME NEW S, NEW s \in Seq(S), NEW c \in S
    PROVE  Range(Append(s, c)) = Range(s) \cup {c}
<1> DEFINE t == Append(s, c)
<1>1. Len(s) \in Nat /\ Len(t) = Len(s) + 1 /\ t[Len(s) + 1] = c
      /\ (\A i \in 1..Len(s) : t[i] = s[i]) /\ DOMAIN t = 1..Len(t) /\ DOMAIN s = 1..Len(s)
  OBVIOUS
<1> HIDE DEF t
<1>2. Range(t) = {t[i] : i \in 1..(Len(s) + 1)} /\ Range(s) = {s[i] : i \in 1..Len(s)}
  BY <1>1 DEF Range
<1>3. 1..(Len(s) + 1) = 1..Len(s) \cup {Len(s) + 1} BY <1>1
<1>4. Range(t) = {t[i] : i \in 1..Len(s)} \cup {t[Len(s) + 1]} BY <1>2, <1>3
<1>5. {t[i] : i \in 1..Len(s)} = {s[i] : i \in 1..Len(s)} BY <1>1
<1> QED BY <1>1, <1>2, <1>4, <1>5, Zenon DEF t

(* No element twice.                                                       *)
Once(s) == \A i, j \in 1..Len(s) : s[i] = s[j] => i = j

(* A new element keeps it so.                                              *)
LEMMA OnceAppend ==
    ASSUME NEW S, NEW s \in Seq(S), NEW c \in S, Once(s), c \notin Range(s)
    PROVE  Once(Append(s, c))
<1> DEFINE t == Append(s, c)
<1>1. Len(s) \in Nat /\ Len(t) = Len(s) + 1 /\ t[Len(s) + 1] = c
      /\ (\A i \in 1..Len(s) : t[i] = s[i]) /\ DOMAIN s = 1..Len(s)
  OBVIOUS
<1> HIDE DEF t
<1>2. \A i \in 1..Len(s) : s[i] # c BY <1>1, Zenon DEF Range
<1>3. \A i \in 1..(Len(s) + 1) : i = Len(s) + 1 \/ i \in 1..Len(s) BY <1>1
<1> SUFFICES ASSUME NEW i \in 1..(Len(s) + 1), NEW j \in 1..(Len(s) + 1), t[i] = t[j] PROVE i = j
  BY <1>1, Zenon DEF Once, t
<1>4. CASE i \in 1..Len(s) /\ j \in 1..Len(s)
  <2>1. s[i] = s[j] BY <1>1, <1>4, Zenon
  <2> QED BY <1>4, <2>1, Zenon DEF Once
<1>5. CASE i \in 1..Len(s) /\ j = Len(s) + 1
  <2>1. s[i] = c BY <1>1, <1>5, Zenon
  <2> QED BY <1>2, <1>5, <2>1, Zenon
<1>6. CASE i = Len(s) + 1 /\ j \in 1..Len(s)
  <2>1. s[j] = c BY <1>1, <1>6, Zenon
  <2> QED BY <1>2, <1>6, <2>1, Zenon
<1> QED BY <1>3, <1>4, <1>5, <1>6, Zenon

(* The elements of two sequences, one after the other.                     *)
LEMMA RangeConcat ==
    ASSUME NEW S, NEW s \in Seq(S), NEW t \in Seq(S)
    PROVE  Range(s \o t) = Range(s) \cup Range(t)
<1> DEFINE u == s \o t
           m == Len(s)
           n == Len(t)
<1>1. /\ m \in Nat /\ n \in Nat /\ Len(u) = m + n
      /\ DOMAIN s = 1..m /\ DOMAIN t = 1..n /\ DOMAIN u = 1..(m + n)
      /\ \A i \in 1..m : u[i] = s[i]
      /\ \A i \in 1..n : u[m + i] = t[i]
  OBVIOUS
<1> HIDE DEF u, m, n
<1>2. ASSUME NEW x \in Range(u) PROVE x \in Range(s) \cup Range(t)
  <2>1. PICK i \in 1..(m + n) : x = u[i] BY <1>1, <1>2, Zenon DEF Range
  <2>2. CASE i \in 1..m BY <1>1, <2>1, <2>2, Zenon DEF Range
  <2>3. CASE i \notin 1..m
    <3>1. i - m \in 1..n /\ m + (i - m) = i BY <1>1, <2>3
    <3>2. x = t[i - m] BY <1>1, <2>1, <3>1
    <3> QED BY <1>1, <3>1, <3>2, Zenon DEF Range
  <2> QED BY <2>2, <2>3
<1>3. ASSUME NEW x \in Range(s) PROVE x \in Range(u)
  <2>1. PICK i \in 1..m : x = s[i] BY <1>1, <1>3, Zenon DEF Range
  <2>2. i \in 1..(m + n) BY <1>1
  <2> QED BY <1>1, <2>1, <2>2, Zenon DEF Range
<1>4. ASSUME NEW x \in Range(t) PROVE x \in Range(u)
  <2>1. PICK i \in 1..n : x = t[i] BY <1>1, <1>4, Zenon DEF Range
  <2>2. m + i \in 1..(m + n) BY <1>1
  <2> QED BY <1>1, <2>1, <2>2, Zenon DEF Range
<1>5. Range(u) = Range(s) \cup Range(t) BY <1>2, <1>3, <1>4, Zenon
<1> QED BY <1>5 DEF u

(* The elements of a sequence of sequences, flattened.                     *)
LEMMA FlattenRange ==
    ASSUME NEW A, NEW ss \in Seq(Seq(A))
    PROVE  Range(FlattenSeq(ss)) = UNION {Range(s) : s \in Range(ss)}
<1> DEFINE All(tt) == UNION {Range(s) : s \in Range(tt)}
           P == {tt \in Seq(Seq(A)) : Range(FlattenSeq(tt)) = All(tt)}
<1>1. <<>> \in P
  <2>1. <<>> \in Seq(Seq(A)) /\ Range(<<>>) = {} BY DEF Range
  <2>2. All(<<>>) = {} BY <2>1
  <2> QED BY <2>1, <2>2, FlattenEmpty, Zenon
<1>2. ASSUME NEW tt \in Seq(Seq(A)), NEW t \in Seq(A), tt \in P PROVE Append(tt, t) \in P
  <2> DEFINE uu == Append(tt, t)
  <2>1. Range(FlattenSeq(tt)) = All(tt) BY <1>2
  <2>2. FlattenSeq(uu) = FlattenSeq(tt) \o t BY FlattenAppend
  <2>3. FlattenSeq(tt) \in Seq(A) BY FlattenTyped
  <2>4. Range(FlattenSeq(tt) \o t) = Range(FlattenSeq(tt)) \cup Range(t) BY <2>3, RangeConcat
  <2>5. Range(uu) = Range(tt) \cup {t} BY RangeAppend
  <2>6. uu \in Seq(Seq(A)) OBVIOUS
  <2> HIDE DEF P, uu
  <2>7. All(uu) = All(tt) \cup Range(t) BY <2>5, Zenon
  <2>8. Range(FlattenSeq(uu)) = All(uu) BY <2>1, <2>2, <2>4, <2>7, Zenon
  <2> QED BY <2>6, <2>8, Zenon DEF P, uu
<1> HIDE DEF P
<1>3. ss \in P BY <1>1, <1>2, SeqInduction, Zenon
<1> QED BY <1>3, Zenon DEF P

(* A sequence with one element more, element by element.                   *)
LEMMA AppendIs ==
    ASSUME NEW S, NEW f \in Seq(S), NEW g \in Seq(S), NEW e \in S, Len(g) = Len(f) + 1,
           \A i \in 1..Len(f) : g[i] = f[i], g[Len(f) + 1] = e
    PROVE  g = Append(f, e)
<1> DEFINE h == Append(f, e)
<1>1. h \in Seq(S) /\ Len(h) = Len(f) + 1 /\ Len(f) \in Nat OBVIOUS
<1>2. \A i \in 1..Len(f) : h[i] = f[i] OBVIOUS
<1>3. h[Len(f) + 1] = e OBVIOUS
<1>4. \A i \in 1..(Len(f) + 1) : i \in 1..Len(f) \/ i = Len(f) + 1 BY <1>1
<1> HIDE DEF h
<1>5. \A i \in 1..Len(g) : g[i] = h[i] BY <1>1, <1>2, <1>3, <1>4
<1>6. g = h BY <1>1, <1>5
<1> QED BY <1>6 DEF h

(* Concatenation is associative.                                           *)
LEMMA ConcatAssoc ==
    ASSUME NEW S, NEW s \in Seq(S), NEW t \in Seq(S), NEW u \in Seq(S)
    PROVE  (s \o t) \o u = s \o (t \o u)
OBVIOUS

(* A pair, one element after the other.                                    *)
LEMMA PairAppend ==
    ASSUME NEW S, NEW a \in S, NEW b \in S
    PROVE  Append(Append(<<>>, a), b) = <<a, b>>
<1> DEFINE s == Append(Append(<<>>, a), b)
           t == <<a, b>>
<1>1. s \in Seq(S) /\ Len(s) = 2 /\ s[1] = a /\ s[2] = b OBVIOUS
<1>2. t \in Seq(S) /\ Len(t) = 2 /\ t[1] = a /\ t[2] = b OBVIOUS
<1> HIDE DEF s, t
<1>3. s = t BY <1>1, <1>2
<1> QED BY <1>3 DEF s, t

Assoc(s, t, u) == (s \o t) \o u = s \o (t \o u)

(* The same, named.                                                        *)
LEMMA ConcatAssociates ==
    ASSUME NEW S, NEW s \in Seq(S), NEW t \in Seq(S), NEW u \in Seq(S)
    PROVE  Assoc(s, t, u)
BY ConcatAssoc DEF Assoc

Steps(g, F, b, n) == g[0] = b /\ \A k \in 1..n : g[k] = F[g[k - 1]]

(* The states of a loop of n rounds.                                       *)
LEMMA StepsExist ==
    ASSUME NEW S, NEW F \in [S -> S], NEW b \in S, NEW n \in Nat
    PROVE  \E g : g = [k \in 0..n |-> g[k]] /\ Steps(g, F, b, n) /\ \A k \in 0..n : g[k] \in S
<1> DEFINE s == [i \in 1..n |-> 0]
           A == {0}
           H == [x \in S \X A |-> F[x[1]]]
<1>1. s \in Seq(A) /\ Len(s) = n /\ \A i \in 1..n : s[i] \in A OBVIOUS
<1>2. H \in [S \X A -> S] OBVIOUS
<1>3. \A x \in S, y \in A : H[<<x, y>>] = F[x] OBVIOUS
<1> HIDE DEF s, A, H
<1>4. PICK g : g = [i \in 0..Len(s) |-> g[i]] /\ Folds(g, H, b, s) BY <1>1, <1>2, FoldExists, Zenon
<1>5. \A i \in 0..Len(s) : g[i] \in S BY <1>1, <1>2, <1>4, FoldTyped, Zenon
<1>6. ASSUME NEW k \in 1..n PROVE g[k] = F[g[k - 1]]
  <2>1. k - 1 \in 0..n OBVIOUS
  <2>2. g[k] = H[<<g[k - 1], s[k]>>] BY <1>1, <1>4, Zenon DEF Folds
  <2>3. g[k - 1] \in S BY <1>1, <1>5, <2>1, Zenon
  <2> QED BY <1>1, <1>3, <2>2, <2>3, Zenon
<1>7. Steps(g, F, b, n) BY <1>4, <1>6, Zenon DEF Folds, Steps
<1> QED BY <1>1, <1>4, <1>5, <1>7, Zenon

EndsAt(h, n, x) == h[n] = x

(* A loop that no longer changes.                                          *)
LEMMA Settles ==
    ASSUME NEW n \in Nat, NEW h, NEW k \in 0..n, NEW x, h[k] = x,
           \A j \in 1..n : h[j - 1] = x => h[j] = x
    PROVE  EndsAt(h, n, x)
<1> DEFINE P == {m \in Nat : k + m <= n => h[k + m] = x}
<1>1. 0 \in P OBVIOUS
<1>2. ASSUME NEW m \in Nat, m \in P PROVE m + 1 \in P
  <2>1. ASSUME k + (m + 1) <= n PROVE h[k + (m + 1)] = x
    <3>1. k + m <= n /\ k + (m + 1) \in 1..n /\ (k + (m + 1)) - 1 = k + m BY <2>1
    <3>2. h[k + m] = x BY <1>2, <3>1
    <3> QED BY <3>1, <3>2, Zenon
  <2> QED BY <2>1
<1> HIDE DEF P
<1>3. \A m \in Nat : m \in P BY <1>1, <1>2, Induction, Zenon
<1>4. n - k \in Nat /\ k + (n - k) = n /\ k + (n - k) <= n OBVIOUS
<1>5. n - k \in P BY <1>3, <1>4, Zenon
<1>6. h[k + (n - k)] = x BY <1>4, <1>5, Zenon DEF P
<1> QED BY <1>4, <1>6, Zenon DEF EndsAt

(* A sequence made element by element from another one.                    *)
Mapped(G, s) == [i \in DOMAIN s |-> G[<<s[i], i>>]]

(* One element more makes one more.                                        *)
LEMMA MappedAppend ==
    ASSUME NEW S, NEW T, NEW G \in [S \X Nat -> T], NEW s \in Seq(S), NEW c \in S
    PROVE  /\ Mapped(G, Append(s, c)) = Append(Mapped(G, s), G[<<c, Len(s) + 1>>])
           /\ Mapped(G, s) \in Seq(T)
           /\ G[<<c, Len(s) + 1>>] \in T
<1> DEFINE t == Append(s, c)
           n == Len(s)
           f == Mapped(G, s)
           g == Mapped(G, t)
<1>1. /\ n \in Nat /\ DOMAIN s = 1..n /\ DOMAIN t = 1..(n + 1)
      /\ t[n + 1] = c /\ \A i \in 1..n : t[i] = s[i] /\ s[i] \in S /\ i \in Nat
  OBVIOUS
<1> HIDE DEF t, n
<1>2. \A i \in 1..(n + 1) : (i \in 1..n \/ i = n + 1) /\ i \in Nat BY <1>1
<1>3. \A i \in 1..(n + 1) : t[i] \in S BY <1>1, <1>2
<1>4. \A i \in 1..n : G[<<s[i], i>>] \in T BY <1>1
<1>5. \A i \in 1..(n + 1) : G[<<t[i], i>>] \in T BY <1>2, <1>3
<1>6. f = [i \in 1..n |-> G[<<s[i], i>>]] BY <1>1, Zenon DEF Mapped
<1>7. g = [i \in 1..(n + 1) |-> G[<<t[i], i>>]] BY <1>1, Zenon DEF Mapped
<1>8. f \in Seq(T) /\ Len(f) = n BY <1>1, <1>4, <1>6
<1>9. g \in Seq(T) /\ Len(g) = n + 1 BY <1>1, <1>5, <1>7
<1>10. \A i \in 1..n : i \in 1..(n + 1) BY <1>1
<1>11. n + 1 \in 1..(n + 1) BY <1>1
<1>12. \A i \in 1..n : g[i] = f[i] BY <1>1, <1>6, <1>7, <1>10, Zenon
<1>13. g[n + 1] = G[<<c, n + 1>>] BY <1>1, <1>7, <1>11, Zenon
<1>14. G[<<c, n + 1>>] \in T BY <1>1
<1> HIDE DEF f, g
<1>15. g = Append(f, G[<<c, n + 1>>]) BY <1>8, <1>9, <1>12, <1>13, <1>14, AppendIs
<1> QED BY <1>8, <1>14, <1>15 DEF f, g, t, n

Grows(G, s, c, T) ==
    /\ Mapped(G, Append(s, c)) = Append(Mapped(G, s), G[<<c, Len(s) + 1>>])
    /\ Mapped(G, s) \in Seq(T)
    /\ G[<<c, Len(s) + 1>>] \in T

(* The same, named.                                                        *)
LEMMA MappedGrows ==
    ASSUME NEW S, NEW T, NEW G \in [S \X Nat -> T], NEW s \in Seq(S), NEW c \in S
    PROVE  Grows(G, s, c, T)
BY MappedAppend, Zenon DEF Grows

(* Nothing makes nothing.                                                  *)
LEMMA MappedEmpty == ASSUME NEW G PROVE Mapped(G, <<>>) = <<>>
BY DEF Mapped
=============================================================================
