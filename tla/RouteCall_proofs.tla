-------------------------- MODULE RouteCall_proofs --------------------------
(***************************************************************************)
(* Proofs about one routing decision (RouteCall), for every set of         *)
(* requests, policies, routers and excluded headers, any step budget and   *)
(* any number of calls; and about the two processes that make it and       *)
(* answer it (MCProcesses), for every set of requests and calls.           *)
(***************************************************************************)
EXTENDS MCProcesses, Sequences, FiniteSetsExt, Functions, SequenceTheorems,
        WellFoundedInduction, TLAPS

CONSTANTS Deployments, Routers, Excluded, MaxSteps, MaxCalls,
          DefaultGroup, ServiceDefault

VARIABLES deployed, calls, call, handler, upstream

INSTANCE RouteCall

-----------------------------------------------------------------------------
(* Least and greatest elements.                                            *)

(* A set of naturals that is not empty has a least element.                *)
LEMMA MinOf ==
    ASSUME NEW T, T \subseteq Nat, T # {}
    PROVE  Min(T) \in T /\ \A y \in T : Min(T) <= y
<1>1. PICK x \in T : \A y \in T : ~(<<y, x>> \in OpToRel(<, Nat))
  BY NatLessThanWellFounded, WFMin, Zenon
<1>2. \A y \in T : ~(y < x) BY <1>1, Zenon DEF OpToRel
<1>3. \A y \in T : x <= y BY <1>2
<1> QED BY <1>3, Zenon DEF Min

(* One that is bounded has a greatest element.                             *)
LEMMA MaxOf ==
    ASSUME NEW n \in Nat, NEW T, T \subseteq 0..n, T # {}
    PROVE  Max(T) \in T /\ \A y \in T : Max(T) >= y
<1> DEFINE U == {n - y : y \in T}
<1>1. PICK z : z \in T OBVIOUS
<1>2. n - z \in U BY <1>1
<1>3. U \subseteq Nat /\ U # {} BY <1>2
<1>4. Min(U) \in U /\ \A v \in U : Min(U) <= v BY <1>3, MinOf, Zenon
<1>5. PICK x \in T : Min(U) = n - x BY <1>4
<1>6. \A y \in T : x >= y
  <2> TAKE y \in T
  <2>1. n - y \in U OBVIOUS
  <2>2. n - x <= n - y BY <1>4, <1>5, <2>1, Zenon
  <2>3. x \in 0..n /\ y \in 0..n OBVIOUS
  <2> HIDE DEF U
  <2> QED BY <2>2, <2>3
<1> QED BY <1>6, Zenon DEF Max

(* The least element is the one nothing is below.                          *)
LEMMA MinIs ==
    ASSUME NEW T, T \subseteq Nat, NEW m \in T, \A y \in T : m <= y
    PROVE  Min(T) = m
<1>1. Min(T) \in T /\ Min(T) <= m BY MinOf, Zenon
<1>2. m <= Min(T) BY <1>1, Zenon
<1>3. m \in Nat /\ Min(T) \in Nat BY <1>1, Zenon
<1> HIDE DEF Min
<1> QED BY <1>1, <1>2, <1>3

(* The last place of b in s, or 0 (strings.LastIndexByte).                 *)
LEMMA LastIndexOf ==
    ASSUME NEW s \in Seq(STRING), NEW b
    PROVE  LET k == LastIndexByte(s, b)
           IN  /\ k \in 0 .. Len(s)
               /\ k > 0 => s[k] = b
               /\ \A i \in DOMAIN s : s[i] = b => i <= k
<1> DEFINE T == {0} \union {i \in DOMAIN s : s[i] = b}
<1>1. Len(s) \in Nat /\ DOMAIN s = 1 .. Len(s) OBVIOUS
<1>2. T \subseteq 0 .. Len(s) /\ T # {} BY <1>1
<1>3. Max(T) \in T /\ \A y \in T : Max(T) >= y BY <1>1, <1>2, MaxOf, Zenon
<1>4. LastIndexByte(s, b) = Max(T) BY DEF LastIndexByte
<1> HIDE DEF T
<1>5. Max(T) \in 0 .. Len(s) BY <1>2, <1>3, Zenon
<1>6. Max(T) > 0 => s[Max(T)] = b BY <1>3, <1>5 DEF T
<1>7. \A i \in DOMAIN s : s[i] = b => i <= Max(T) BY <1>3, <1>5, <1>1 DEF T
<1> QED BY <1>4, <1>5, <1>6, <1>7

(* The first place of b in s, or 0 (strings.IndexByte).                    *)
LEMMA IndexOf ==
    ASSUME NEW s \in Seq(STRING), NEW b
    PROVE  LET k == IndexByte(s, b)
           IN  /\ k \in 0 .. Len(s)
               /\ k > 0 => s[k] = b
<1>1. Len(s) \in Nat /\ DOMAIN s = 1 .. Len(s) OBVIOUS
<1>2. CASE b \in Range(s)
  <2> DEFINE T == {i \in DOMAIN s : s[i] = b}
  <2>1. T \subseteq Nat /\ T # {} BY <1>1, <1>2 DEF Range
  <2>2. Min(T) \in T BY <2>1, MinOf, Zenon
  <2> QED BY <1>1, <1>2, <2>2 DEF IndexByte
<1>3. CASE b \notin Range(s) BY <1>1, <1>3 DEF IndexByte
<1> QED BY <1>2, <1>3

-----------------------------------------------------------------------------
(* Pieces of a sequence.                                                   *)

(* A piece of one or of two elements.                                      *)
LEMMA Piece ==
    ASSUME NEW s \in Seq(STRING), NEW i \in 1 .. Len(s)
    PROVE  /\ SubSeq(s, i, i) = <<s[i]>>
           /\ i > 1 => SubSeq(s, i - 1, i) = <<s[i - 1], s[i]>>
<1>1. Len(s) \in Nat /\ \A j \in 1 .. Len(s) : s[j] \in STRING OBVIOUS
<1>2. SubSeq(s, i, i) = <<s[i]>>
  <2>1. /\ SubSeq(s, i, i) \in Seq(STRING)
        /\ Len(SubSeq(s, i, i)) = 1
        /\ SubSeq(s, i, i)[1] = s[i]
    BY <1>1, SubSeqProperties
  <2>2. <<s[i]>> \in Seq(STRING) /\ Len(<<s[i]>>) = 1 /\ <<s[i]>>[1] = s[i] BY <1>1
  <2>3. \A j \in 1 .. 1 : SubSeq(s, i, i)[j] = <<s[i]>>[j] BY <2>1, <2>2
  <2> QED BY <2>1, <2>2, <2>3, SeqEqual, Zenon
<1>3. ASSUME i > 1 PROVE SubSeq(s, i - 1, i) = <<s[i - 1], s[i]>>
  <2>1. /\ SubSeq(s, i - 1, i) \in Seq(STRING)
        /\ Len(SubSeq(s, i - 1, i)) = 2
        /\ SubSeq(s, i - 1, i)[1] = s[i - 1]
        /\ SubSeq(s, i - 1, i)[2] = s[i]
    <3>1. i - 1 \in Int /\ i \in Int /\ \A j \in i - 1 .. i : s[j] \in STRING
      BY <1>1, <1>3
    <3>2. /\ SubSeq(s, i - 1, i) \in Seq(STRING)
          /\ Len(SubSeq(s, i - 1, i)) = IF i - 1 <= i THEN i - (i - 1) + 1 ELSE 0
          /\ \A j \in 1 .. i - (i - 1) + 1 : SubSeq(s, i - 1, i)[j] = s[i - 1 + j - 1]
      BY <3>1, SubSeqProperties
    <3> QED BY <3>1, <3>2
  <2>2. i - 1 \in 1 .. Len(s) BY <1>1, <1>3
  <2>3. /\ <<s[i - 1], s[i]>> \in Seq(STRING) /\ Len(<<s[i - 1], s[i]>>) = 2
        /\ <<s[i - 1], s[i]>>[1] = s[i - 1] /\ <<s[i - 1], s[i]>>[2] = s[i]
    BY <1>1, <2>2
  <2>4. \A j \in 1 .. 2 : j = 1 \/ j = 2 OBVIOUS
  <2>5. \A j \in 1 .. 2 : SubSeq(s, i - 1, i)[j] = <<s[i - 1], s[i]>>[j] BY <2>1, <2>3, <2>4, ZenonT(30)
  <2> QED BY <2>1, <2>3, <2>5, SeqEqual, Zenon
<1> QED BY <1>2, <1>3

(* A sequence is what is before one of its places, that place, and what is *)
(* after it.                                                               *)
LEMMA SplitAt ==
    ASSUME NEW s \in Seq(STRING), NEW k \in 1 .. Len(s)
    PROVE  /\ s = SubSeq(s, 1, k - 1) \o <<s[k]>> \o SubSeq(s, k + 1, Len(s))
           /\ s # SubSeq(s, 1, k - 1)
<1>1. Len(s) \in Nat /\ \A j \in 1 .. Len(s) : s[j] \in STRING OBVIOUS
<1>2. SubSeq(s, 1, k - 1) \o SubSeq(s, k, k) = SubSeq(s, 1, k)
  <2>1. k - 1 \in 0 .. Len(s) /\ k - 1 + 1 = k /\ 1 \in 1 .. Len(s) + 1 /\ k \in k - 1 .. Len(s)
        /\ k - 1 \in 1 - 1 .. Len(s)
    BY <1>1
  <2> QED BY <2>1, ConcatAdjacentSubSeq
<1>3. SubSeq(s, 1, k) \o SubSeq(s, k + 1, Len(s)) = SubSeq(s, 1, Len(s))
  <2>1. 1 \in 1 .. Len(s) + 1 /\ k \in 1 - 1 .. Len(s) /\ Len(s) \in k .. Len(s) BY <1>1
  <2> QED BY <2>1, ConcatAdjacentSubSeq
<1>4. SubSeq(s, k, k) = <<s[k]>> BY Piece
<1>5. SubSeq(s, 1, Len(s)) = s BY SubSeqFull
<1>6. Len(SubSeq(s, 1, k - 1)) = k - 1
  <2>1. k - 1 \in Int /\ 1 \in Int /\ \A i \in 1 .. k - 1 : s[i] \in STRING BY <1>1
  <2>2. Len(SubSeq(s, 1, k - 1)) = IF 1 <= k - 1 THEN k - 1 - 1 + 1 ELSE 0
    BY <2>1, SubSeqProperties
  <2> QED BY <2>1, <2>2
<1>7. s # SubSeq(s, 1, k - 1) BY <1>1, <1>6
<1> QED BY <1>2, <1>3, <1>4, <1>5, <1>7, Zenon

-----------------------------------------------------------------------------
(* The conversions.                                                        *)

(* Trimming an entry gives etl exactly when it is etl with spaces around   *)
(* it (splitClientTags).                                                   *)
LEMMA TrimIsEtl ==
    ASSUME NEW s \in Seq(STRING)
    PROVE  TrimSpace(s) = <<"etl">> <=> IsEtl(s)
<1> DEFINE ink == {i \in DOMAIN s : s[i] # " "}
<1>1. Len(s) \in Nat /\ DOMAIN s = 1 .. Len(s) /\ \A i \in 1 .. Len(s) : s[i] \in STRING OBVIOUS
<1>2. ink \subseteq 1 .. Len(s) /\ \A i \in 1 .. Len(s) : i \in ink <=> s[i] # " " BY <1>1, Zenon
<1>3. TrimSpace(s) = IF ink = {} THEN <<>> ELSE SubSeq(s, Min(ink), Max(ink))
  BY Zenon DEF TrimSpace
<1> HIDE DEF ink
<1>4. ink \subseteq Nat /\ ink \subseteq 0 .. Len(s)
  <2>1. 1 .. Len(s) \subseteq Nat /\ 1 .. Len(s) \subseteq 0 .. Len(s) BY <1>1
  <2>2. ink \subseteq 1 .. Len(s) BY <1>2, Zenon
  <2> QED BY <2>1, <2>2, Zenon
<1>5. ASSUME TrimSpace(s) = <<"etl">> PROVE IsEtl(s)
  <2>1. ink # {} BY <1>3, <1>5
  <2>2. Min(ink) \in ink /\ \A y \in ink : Min(ink) <= y BY <1>4, <2>1, MinOf, Zenon
  <2>3. Max(ink) \in ink /\ \A y \in ink : Max(ink) >= y BY <1>1, <1>4, <2>1, MaxOf, Zenon
  <2>4. SubSeq(s, Min(ink), Max(ink)) = <<"etl">> BY <1>3, <1>5, <2>1, Zenon
  <2>5. PICK lo, hi : lo = Min(ink) /\ hi = Max(ink) OBVIOUS
  <2>6. lo \in ink /\ hi \in ink /\ SubSeq(s, lo, hi) = <<"etl">> BY <2>2, <2>3, <2>4, <2>5, Zenon
  <2>7. \A y \in ink : lo <= y /\ hi >= y BY <2>2, <2>3, <2>5, Zenon
  <2>8. lo \in 1 .. Len(s) /\ hi \in 1 .. Len(s) /\ lo <= hi BY <1>2, <2>6, <2>7, Zenon
  <2>9. /\ Len(SubSeq(s, lo, hi)) = hi - lo + 1
        /\ SubSeq(s, lo, hi)[1] = s[lo]
    <3>1. lo \in Int /\ hi \in Int /\ \A i \in lo .. hi : s[i] \in STRING BY <1>1, <2>8
    <3>2. /\ Len(SubSeq(s, lo, hi)) = IF lo <= hi THEN hi - lo + 1 ELSE 0
          /\ \A i \in 1 .. hi - lo + 1 : SubSeq(s, lo, hi)[i] = s[lo + i - 1]
      BY <3>1, SubSeqProperties
    <3> QED BY <2>8, <3>1, <3>2
  <2>10. Len(<<"etl">>) = 1 /\ <<"etl">>[1] = "etl" OBVIOUS
  <2>11. lo = hi /\ s[lo] = "etl" BY <2>6, <2>8, <2>9, <2>10
  <2>12. ASSUME NEW j \in 1 .. Len(s), j # lo PROVE s[j] = " "
    <3>1. j \in ink => lo <= j /\ lo >= j BY <2>7, <2>11, Zenon
    <3>2. j \in Int /\ lo \in Int BY <2>8
    <3>3. j \notin ink BY <2>12, <3>1, <3>2
    <3> QED BY <1>2, <2>12, <3>3, Zenon
  <2> QED BY <1>1, <2>8, <2>11, <2>12, Zenon DEF IsEtl
<1>6. ASSUME IsEtl(s) PROVE TrimSpace(s) = <<"etl">>
  <2>1. PICK i \in DOMAIN s : s[i] = "etl" /\ \A j \in DOMAIN s \ {i} : s[j] = " "
    BY <1>6, Zenon DEF IsEtl
  <2>2. \A j : j \in ink <=> j = i BY <1>1, <1>2, <2>1, Zenon
  <2>3. ink # {} BY <2>2
  <2>4. Min(ink) = i BY <1>4, <2>2, <2>3, MinOf, Zenon
  <2>5. Max(ink) = i BY <1>1, <1>4, <2>2, <2>3, MaxOf, Zenon
  <2>6. TrimSpace(s) = SubSeq(s, i, i) BY <1>3, <2>3, <2>4, <2>5, Zenon
  <2>7. SubSeq(s, i, i) = <<s[i]>> BY <1>1, <2>1, Piece, Zenon
  <2> QED BY <2>1, <2>6, <2>7, Zenon
<1> QED BY <1>5, <1>6

(* The tags the service is asked about contain etl exactly when the client *)
(* wrote it.                                                               *)
LEMMA TagsAsWritten ==
    ASSUME NEW header \in Seq(Seq(STRING))
    PROVE  <<"etl">> \in splitClientTags(header) <=> \E i \in DOMAIN header : IsEtl(header[i])
<1>1. \A i \in DOMAIN header : header[i] \in Seq(STRING) OBVIOUS
<1>2. \A i \in DOMAIN header : TrimSpace(header[i]) = <<"etl">> <=> IsEtl(header[i])
  BY <1>1, TrimIsEtl
<1>3. <<"etl">> # <<>> OBVIOUS
<1> QED BY <1>2, <1>3 DEF splitClientTags

(* Host and port put together again are the Host (hostOnly, forwardedPort). *)
LEMMA HostAsSeen ==
    ASSUME NEW h \in Seq(STRING), NEW proto, NEW port,
           port = IF proto = "https" THEN <<"443">> ELSE <<"80">>,
           \A i \in DOMAIN h : h[1] = "[" /\ h[i] = "]" => i = Len(h) \/ h[i + 1] = ":"
    PROVE  /\ h = hostOnly(h) \/ h = hostOnly(h) \o <<":">> \o forwardedPort(h, proto)
           /\ h = hostOnly(h) => forwardedPort(h, proto) = port
<1>1. PICK end, colon : end = IndexByte(h, "]") /\ colon = LastIndexByte(h, ":") OBVIOUS
<1>2. Len(h) \in Nat /\ DOMAIN h = 1 .. Len(h) OBVIOUS
<1>3. end \in 0 .. Len(h) /\ (end > 0 => h[end] = "]") BY <1>1, IndexOf
<1>4. colon \in 0 .. Len(h) /\ (colon > 0 => h[colon] = ":") BY <1>1, LastIndexOf
<1>5. hostOnly(h) =
        IF h # <<>> /\ h[1] = "[" /\ end > 0 THEN SubSeq(h, 1, end)
        ELSE IF h # <<>> /\ h[1] # "[" /\ colon > 0 THEN SubSeq(h, 1, colon - 1) ELSE h
  BY <1>1, Zenon DEF hostOnly
<1>6. forwardedPort(h, proto) =
        IF h # <<>> /\ h[1] = "["
        THEN IF 0 < end /\ end < Len(h) /\ h[end + 1] = ":" THEN SubSeq(h, end + 2, Len(h)) ELSE port
        ELSE IF colon > 0 THEN SubSeq(h, colon + 1, Len(h)) ELSE port
  BY <1>1, Zenon DEF forwardedPort
<1> HIDE DEF hostOnly, forwardedPort
<1>7. ASSUME NEW k \in 1 .. Len(h), h[k] = ":"
      PROVE  /\ h = SubSeq(h, 1, k - 1) \o <<":">> \o SubSeq(h, k + 1, Len(h))
             /\ h # SubSeq(h, 1, k - 1)
  BY <1>7, SplitAt, Zenon
<1>8. CASE h # <<>> /\ h[1] = "["
  <2>1. CASE end = 0
    BY <1>5, <1>6, <1>8, <2>1
  <2>2. CASE end > 0 /\ end = Len(h)
    <3>1. SubSeq(h, 1, end) = h BY <2>2, SubSeqFull
    <3>2. hostOnly(h) = h BY <1>5, <1>8, <2>2, <3>1, Zenon
    <3>3. ~(end < Len(h)) BY <1>2, <2>2
    <3>4. forwardedPort(h, proto) = port BY <1>6, <1>8, <3>3, Zenon
    <3> QED BY <3>2, <3>4, Zenon
  <2>3. CASE end > 0 /\ end < Len(h)
    <3>1. end + 1 \in 1 .. Len(h) /\ h[end + 1] = ":" BY <1>2, <1>3, <1>8, <2>3
    <3>2. hostOnly(h) = SubSeq(h, 1, end) BY <1>5, <1>8, <2>3, Zenon
    <3>3. forwardedPort(h, proto) = SubSeq(h, end + 2, Len(h)) BY <1>2, <1>3, <1>6, <1>8, <2>3, <3>1
    <3>4. PICK k \in 1 .. Len(h) : k = end + 1 /\ h[k] = ":" BY <3>1, Zenon
    <3>5. k - 1 = end /\ k + 1 = end + 2
      <4>1. PICK n \in Nat : end \in 0 .. n BY <1>2, <1>3, Zenon
      <4> QED BY <3>4, <4>1
    <3>6. /\ h = SubSeq(h, 1, k - 1) \o <<":">> \o SubSeq(h, k + 1, Len(h))
          /\ h # SubSeq(h, 1, k - 1)
      BY <1>7, <3>4, Zenon
    <3>7. /\ h = SubSeq(h, 1, end) \o <<":">> \o SubSeq(h, end + 2, Len(h))
          /\ h # SubSeq(h, 1, end)
      BY <3>6, <3>5, Zenon
    <3> QED BY <3>2, <3>3, <3>7, Zenon
  <2>4. end = 0 \/ (end > 0 /\ end = Len(h)) \/ (end > 0 /\ end < Len(h))
    <3>1. PICK n : n = Len(h) OBVIOUS
    <3>2. n \in Nat /\ end \in 0 .. n BY <1>2, <1>3, <3>1, Zenon
    <3>3. end = 0 \/ (end > 0 /\ end = n) \/ (end > 0 /\ end < n) BY <3>2
    <3> QED BY <3>1, <3>3, Zenon
  <2> QED BY <2>1, <2>2, <2>3, <2>4, Zenon
<1>9. CASE h # <<>> /\ h[1] # "[" /\ colon > 0
  <2>1. hostOnly(h) = SubSeq(h, 1, colon - 1) BY <1>5, <1>9, Zenon
  <2>2. forwardedPort(h, proto) = SubSeq(h, colon + 1, Len(h)) BY <1>6, <1>9, Zenon
  <2>3. colon \in 1 .. Len(h) /\ h[colon] = ":" BY <1>2, <1>4, <1>9
  <2> QED BY <1>7, <2>1, <2>2, <2>3, Zenon
<1>10. CASE h = <<>> \/ (h[1] # "[" /\ ~(colon > 0))
  <2>1. h = <<>> => ~(colon > 0) BY <1>2, <1>4
  <2> QED BY <1>5, <1>6, <1>10, <2>1
<1> QED BY <1>8, <1>9, <1>10

(* X-Forwarded-For ends with the client's address, after the first line    *)
(* the client sent (injectHeaders).                                        *)
LEMMA ClientAsSeen ==
    ASSUME NEW r, RequestOK(r)
    PROVE  /\ r.addr = forwardedFor(r)[Len(forwardedFor(r))] \o <<":", r.addr[Len(r.addr)]>>
           /\ r.xff # <<>> /\ r.xff[1] # <<>> =>
                forwardedFor(r) = <<r.xff[1]>> \o <<forwardedFor(r)[Len(forwardedFor(r))]>>
<1>1. PICK a, n, colon : a = r.addr /\ n = Len(a) /\ colon = LastIndexByte(a, ":") BY Zenon
<1>2. a \in Seq(STRING) /\ n \in Nat /\ n >= 2 /\ a[n - 1] = ":" /\ a[n] # ":"
  BY <1>1 DEF RequestOK
<1>3. DOMAIN a = 1 .. n BY <1>1, <1>2
<1>4. colon = n - 1
  <2>1. /\ colon \in 0 .. n
        /\ colon > 0 => a[colon] = ":"
        /\ \A i \in DOMAIN a : a[i] = ":" => i <= colon
    BY <1>1, <1>2, LastIndexOf
  <2>2. n - 1 \in 1 .. n BY <1>2
  <2> QED BY <1>2, <1>3, <2>1, <2>2
<1>5. PICK ip : ip = SubSeq(a, 1, n - 2) BY Zenon
<1>6. colon > 0 /\ colon - 1 = n - 2 BY <1>2, <1>4
<1>7. forwardedFor(r) = IF r.xff # <<>> /\ r.xff[1] # <<>> THEN <<r.xff[1], ip>> ELSE <<ip>>
  BY <1>1, <1>5, <1>6, Zenon DEF forwardedFor
<1>8. forwardedFor(r)[Len(forwardedFor(r))] = ip BY <1>7
<1>9. a = ip \o <<":", a[n]>>
  <2>1. SubSeq(a, n - 1, n) = <<a[n - 1], a[n]>> BY <1>1, <1>2, Piece
  <2>2. SubSeq(a, 1, n - 2) \o SubSeq(a, n - 2 + 1, n) = SubSeq(a, 1, n)
    <3>1. 1 \in 1 .. Len(a) + 1 /\ n - 2 \in 1 - 1 .. Len(a) /\ n \in n - 2 .. Len(a)
      BY <1>1, <1>2
    <3> QED BY <1>2, <3>1, ConcatAdjacentSubSeq
  <2>3. n - 2 + 1 = n - 1 BY <1>2
  <2>4. SubSeq(a, 1, n) = a BY <1>1, <1>2, SubSeqFull
  <2> QED BY <1>2, <1>5, <2>1, <2>2, <2>3, <2>4
<1>10. r.addr[Len(r.addr)] = a[n] BY <1>1
<1>11. r.xff # <<>> /\ r.xff[1] # <<>> => forwardedFor(r) = <<r.xff[1]>> \o <<ip>> BY <1>7
<1>12. r.addr = forwardedFor(r)[Len(forwardedFor(r))] \o <<":", r.addr[Len(r.addr)]>> BY <1>1, <1>8, <1>9, <1>10, Zenon
<1> QED BY <1>8, <1>11, <1>12, Zenon

(* The names a router sets, and the scheme of a request.                    *)
SetBy(hs) == {CanonicalHeaderKey(k) : k \in hs}
Scheme(r) == IF r.tls THEN "https" ELSE "http"
Injects(u, r, set) ==
    /\ u.router = set
    /\ "X-Forwarded-For" \notin set => u.xff = forwardedFor(r)
    /\ "X-Forwarded-Host" \notin set => u.host = hostOnly(r.host)
    /\ "X-Forwarded-Port" \notin set => u.port = forwardedPort(r.host, Scheme(r))

(* The headers of the request to the cluster, one by one: those the router  *)
(* does not set are the gateway's (injectHeaders).                          *)
LEMMA Injected ==
    ASSUME NEW r, NEW hs
    PROVE  Injects(injectHeaders(r, hs), r, SetBy(hs))
<1>0. PICK u, set, proto : u = injectHeaders(r, hs) /\ set = SetBy(hs) /\ proto = Scheme(r) OBVIOUS
<1>1. PICK c, x, p, h, o :
        /\ c = buildUpstreamRequest(r) \ (set \union ForwardedNames)
        /\ x = (IF "X-Forwarded-For" \in set THEN None ELSE forwardedFor(r))
        /\ p = (IF "X-Forwarded-Proto" \in set THEN None ELSE proto)
        /\ h = (IF "X-Forwarded-Host" \in set THEN None ELSE hostOnly(r.host))
        /\ o = (IF "X-Forwarded-Port" \in set THEN None ELSE forwardedPort(r.host, proto))
  BY Zenon
<1>2. u = [client |-> c, router |-> set, xff |-> x, proto |-> p, host |-> h, port |-> o]
  BY <1>0, <1>1, Zenon DEF injectHeaders, SetBy, Scheme
<1>3. u.router = set /\ u.xff = x /\ u.host = h /\ u.port = o BY <1>2
<1>4. Injects(u, r, set) BY <1>0, <1>1, <1>3, Zenon DEF Injects
<1> QED BY <1>0, <1>4, Zenon

(* Header names are canonical after one conversion.                        *)
LEMMA CanonicalTwice ==
    ASSUME NEW k
    PROVE  CanonicalHeaderKey(CanonicalHeaderKey(k)) = CanonicalHeaderKey(k)
BY DEF CanonicalHeaderKey

(* A set of names none of which is excluded shares no canonical name with  *)
(* the exclude list, and neither do their canonical forms.                 *)
Allowed(names) == \A k \in names : CanonicalHeaderKey(k) \notin buildExcludeSet(Excluded)

LEMMA AllowedClear ==
    ASSUME NEW names, Allowed(names)
    PROVE  /\ {CanonicalHeaderKey(k) : k \in Excluded} \intersect names = {}
           /\ {CanonicalHeaderKey(k) : k \in Excluded} \intersect
                {CanonicalHeaderKey(k) : k \in names} = {}
<1> DEFINE E == {CanonicalHeaderKey(k) : k \in Excluded}
<1>1. \A k \in names : CanonicalHeaderKey(k) \notin E BY DEF Allowed, buildExcludeSet
<1>2. \A e \in E : CanonicalHeaderKey(e) = e BY CanonicalTwice
<1> HIDE DEF E
<1>3. E \intersect names = {} BY <1>1, <1>2, Zenon
<1>4. E \intersect {CanonicalHeaderKey(k) : k \in names} = {} BY <1>1
<1> QED BY <1>3, <1>4 DEF E

-----------------------------------------------------------------------------
(* The rules, asked about the request as it arrives at the service.        *)

ServiceInput(r) == inputFromProto(buildProtoRequest(NewRouteInput(r)))

(* The service's view of a POST: the statement's category is WRITE exactly *)
(* for an INSERT sent to /v1/statement, and the tags are the header's      *)
(* (buildProtoRequest, inputFromProto).                                    *)
LEMMA InputAsWritten ==
    ASSUME NEW r, RequestOK(r), r.method = "POST"
    PROVE  /\ ServiceInput(r).tags = splitClientTags(r.tags)
           /\ ServiceInput(r).category = "WRITE" <=> r.path = "/v1/statement" /\ r.body = "insert"
<1>1. PICK b, t : /\ b = IF r.path = "/v1/statement" THEN r.body ELSE ""
                  /\ t = splitClientTags(r.tags)
  BY Zenon
<1>2. PICK n : n = NewRouteInput(r) OBVIOUS
<1>3. n.method = "POST" /\ n.body = b /\ n.tags = r.tags
  BY <1>1, <1>2, Zenon DEF NewRouteInput, RequestOK
<1>4. buildProtoRequest(n) =
        [isNew |-> TRUE, body |-> b, tags |-> t, queryType |-> "", parseOK |-> FALSE]
  BY <1>1, <1>3, Zenon DEF buildProtoRequest
<1>5. PICK in : in = [isNew |-> TRUE, body |-> b, tags |-> t, queryType |-> "",
                      category |-> "", parseOK |-> FALSE]
  BY Zenon
<1>6. FromProto(buildProtoRequest(n)) = in
  <2>1. PICK pb : pb = [isNew |-> TRUE, body |-> b, tags |-> t, queryType |-> "", parseOK |-> FALSE]
    BY Zenon
  <2>2. pb.body = b /\ pb.tags = t /\ pb.queryType = "" /\ pb.isNew = TRUE /\ pb.parseOK = FALSE
    BY <2>1, Zenon
  <2>3. FromProto(pb) = in BY <1>5, <2>2, Zenon DEF FromProto
  <2> QED BY <1>4, <2>1, <2>3, Zenon
<1>7. ~HasParsedSQL(in)
  <2>1. in.queryType = "" /\ in.parseOK = FALSE BY <1>5, Zenon
  <2> QED BY <2>1, Zenon DEF HasParsedSQL
<1>8. ServiceInput(r) = fillSQLMeta(in) BY <1>2, <1>6, <1>7 DEF ServiceInput, inputFromProto
<1>9. fillSQLMeta(in) = IF b = "" THEN in
                        ELSE [in EXCEPT !.queryType = Analysis(b).queryType,
                                        !.category = Analysis(b).category,
                                        !.parseOK = Analysis(b).queryType # ""]
  BY <1>5, <1>7, Zenon DEF fillSQLMeta
<1>10. /\ fillSQLMeta(in).tags = t
       /\ fillSQLMeta(in).category = IF b = "" THEN "" ELSE Analysis(b).category
  <2>1. PICK q, c, p : /\ q = Analysis(b).queryType
                       /\ c = Analysis(b).category
                       /\ p = (Analysis(b).queryType # "")
    BY Zenon
  <2>2. fillSQLMeta(in) = IF b = "" THEN in
                          ELSE [in EXCEPT !.queryType = q, !.category = c, !.parseOK = p]
    BY <1>9, <2>1, Zenon
  <2>3. [in EXCEPT !.queryType = q, !.category = c, !.parseOK = p].tags = t BY <1>5, Zenon
  <2>4. [in EXCEPT !.queryType = q, !.category = c, !.parseOK = p].category = c BY <1>5, Zenon
  <2>5. in.tags = t /\ in.category = "" BY <1>5, Zenon
  <2> QED BY <2>1, <2>2, <2>3, <2>4, <2>5, Zenon
<1>11. Analysis(b).category = "WRITE" <=> b = "insert" BY DEF Analysis
<1>12. fillSQLMeta(in).category = "WRITE" <=> b = "insert" BY <1>10, <1>11, Zenon
<1>13. b = "insert" <=> r.path = "/v1/statement" /\ r.body = "insert" BY <1>1, Zenon
<1> QED BY <1>1, <1>8, <1>10, <1>12, <1>13, Zenon

(* A rule answers what it means for the request the client wrote           *)
(* (EvaluateRule; the scripts are ScriptSteps').                           *)
LEMMA RuleMeans ==
    ASSUME NEW r, RequestOK(r), r.method = "POST", NEW m, m.rule \in Rules
    PROVE  /\ m.rule \in {"tagged", "writes"} => EvaluateRule(m.rule, ServiceInput(r)) = Means(m, r)
           /\ m.rule = "broken" => EvaluateRule(m.rule, ServiceInput(r)) = None /\ Means(m, r) = ""
           /\ m.rule = "spin" => Means(m, r) = ""
           /\ m.rule = "loop" => EvaluateRule("loop", ServiceInput(r)) = "slow" /\ Means(m, r) = "slow"
<1>1. r.tags \in Seq(Seq(STRING)) BY DEF RequestOK
<1>2. CASE m.rule = "tagged"
  <2>1. <<"etl">> \in ServiceInput(r).tags <=> \E i \in DOMAIN r.tags : IsEtl(r.tags[i])
    BY <1>1, InputAsWritten, TagsAsWritten
  <2>2. EvaluateRule(m.rule, ServiceInput(r)) = IF <<"etl">> \in ServiceInput(r).tags THEN "etl" ELSE ""
    BY <1>2 DEF EvaluateRule
  <2>3. Means(m, r) = IF \E i \in DOMAIN r.tags : IsEtl(r.tags[i]) THEN "etl" ELSE ""
    BY <1>2 DEF Means
  <2> QED BY <1>2, <2>1, <2>2, <2>3, Zenon
<1>3. CASE m.rule = "writes"
  <2>1. EvaluateRule(m.rule, ServiceInput(r)) = IF ServiceInput(r).category = "WRITE" THEN "batch" ELSE ""
    BY <1>3 DEF EvaluateRule
  <2>2. Means(m, r) = IF r.path = "/v1/statement" /\ r.body = "insert" THEN "batch" ELSE ""
    BY <1>3 DEF Means
  <2> QED BY <1>3, <2>1, <2>2, InputAsWritten, Zenon
<1>4. CASE m.rule \in {"loop", "spin", "broken"} BY <1>4, Zenon DEF EvaluateRule, Means
<1> QED BY <1>2, <1>3, <1>4, Zenon DEF Rules

-----------------------------------------------------------------------------
(* The inductive invariant.                                                *)

(* A call's record is made of its fields.                                  *)
CallShaped(c) ==
    c = [pc |-> c.pc, req |-> c.req, via |-> c.via, group |-> c.group, headers |-> c.headers,
         sent |-> c.sent, errors |-> c.errors, outcome |-> c.outcome, status |-> c.status]

(* The types, and that a call has a request and a configuration.           *)
Setup ==
    /\ deployed \in Deployments \union {None}
    /\ calls \in 0 .. MaxCalls
    /\ handler = [c \in 1 .. MaxCalls |-> handler[c]]
    /\ CallShaped(call)
    /\ call.pc # "idle" => deployed \in Deployments /\ call.req \in Requests

(* A call without an answer carries nothing of a router.                   *)
Bare == call.via = "none" /\ call.headers = {} /\ call.errors = FALSE

GatewayOK ==
    /\ call.pc \in {"idle", "grpc", "http"} => Bare
    /\ call.pc \in {"routed", "answered"} /\ call.via = "none" =>
         Bare /\ call.group = DefaultGroup /\ call.outcome = "fallback"
    /\ call.pc \in {"routed", "answered"} /\ call.via = "grpc" => call.group = Intended(call.req)

(* What is sent to the cluster is made of this call's request and headers. *)
ForwardOK ==
    /\ Allowed(call.headers) /\ Allowed(call.sent.headers)
    /\ call.pc # "answered" => upstream = None
    /\ call.pc = "answered" =>
         \/ call.status = 200 /\ upstream = injectHeaders(call.req, call.headers)
         \/ call.errors = TRUE /\ upstream = None

(* A handler's record is made of its fields.                               *)
Shaped(h) == h = [pc |-> h.pc, pb |-> h.pb, in |-> h.in, at |-> h.at, steps |-> h.steps,
                  ctxDone |-> h.ctxDone, group |-> h.group]

(* The handler of the running call: it evaluates the methods on this       *)
(* request, those it has passed do not decide about it, it has not been    *)
(* cancelled, and its answer is the one the policy gives.                  *)
HandlerOf(h, r) ==
    /\ Shaped(h)
    /\ h.pc = "sent" => /\ h.pb = buildProtoRequest(NewRouteInput(r))
                        /\ h.at = 1 /\ h.steps = 0
    /\ h.pc = "eval" => /\ r.method = "POST" /\ h.in = ServiceInput(r)
                        /\ h.at \in 1 .. Len(deployed.policy)
                        /\ \A j \in 1 .. h.at - 1 : j \notin Says(r)
                        /\ h.steps \in Nat
                        /\ deployed.policy[h.at].rule = "loop" => h.steps < MaxSteps
    /\ h.pc \in {"sent", "eval"} => h.ctxDone = FALSE
    /\ h.pc = "answered" => h.group = Answered(r)

Current ==
    call.pc = "grpc" => calls \in 1 .. MaxCalls /\ HandlerOf(handler[calls], call.req)

CallInv == Setup /\ GatewayOK /\ ForwardOK /\ Current

-----------------------------------------------------------------------------
(* The service's handler.                                                  *)

(* The policy in force is one the configuration may have.                  *)
LEMMA PolicyTyped ==
    ASSUME CallConstants, deployed \in Deployments
    PROVE  deployed.policy \in Seq([rule : Rules, off : BOOLEAN]) /\ Len(deployed.policy) \in Nat
<1>1. deployed.policy \in Seq([rule : Rules, off : BOOLEAN]) BY Zenon DEF CallConstants
<1> QED BY <1>1

(* The first method that decides gives the answer.                         *)
LEMMA FirstDecides ==
    ASSUME NEW r, r.method = "POST",
           deployed.policy \in Seq([rule : Rules, off : BOOLEAN]),
           NEW k \in 1 .. Len(deployed.policy),
           \A j \in 1 .. k - 1 : j \notin Says(r)
    PROVE  /\ k \in Says(r) => Answered(r) = Means(deployed.policy[k], r)
           /\ k \notin Says(r) /\ k = Len(deployed.policy) => Answered(r) = ServiceDefault
<1>1. PICK n : n = Len(deployed.policy) OBVIOUS
<1>2. n \in Nat /\ k \in 1 .. n /\ DOMAIN deployed.policy = 1 .. n BY <1>1
<1>3. Says(r) \subseteq 1 .. n BY <1>2, Zenon DEF Says
<1>4. ASSUME k \in Says(r) PROVE Answered(r) = Means(deployed.policy[k], r)
  <2>1. \A y \in Says(r) : k <= y
    <3> TAKE y \in Says(r)
    <3>1. y \in 1 .. n /\ y \notin 1 .. k - 1 BY <1>3
    <3> QED BY <1>2, <3>1
  <2>2. Says(r) \subseteq Nat
    <3>1. 1 .. n \subseteq Nat BY <1>2
    <3> QED BY <1>3, <3>1, Zenon
  <2>3. Min(Says(r)) = k BY <1>4, <2>1, <2>2, MinIs, Zenon
  <2>4. Says(r) # {} BY <1>4, Zenon
  <2> QED BY <2>3, <2>4, Zenon DEF Answered
<1>5. ASSUME k \notin Says(r), k = n PROVE Answered(r) = ServiceDefault
  <2>1. \A y \in 1 .. n : y \in 1 .. k - 1 \/ y = k BY <1>2, <1>5
  <2>2. Says(r) = {} BY <1>3, <1>5, <2>1, Zenon
  <2> QED BY <2>2, Zenon DEF Answered
<1> QED BY <1>1, <1>4, <1>5, Zenon

(* The record of a handler that goes on to the next method, or takes one   *)
(* step of a script.                                                       *)
StepTo(h, a, n) == [h EXCEPT !.at = a, !.steps = n]

LEMMA ShapedNext ==
    ASSUME NEW h, Shaped(h), NEW a, NEW n
    PROVE  LET g == StepTo(h, a, n)
           IN  /\ Shaped(g)
               /\ g.pc = h.pc /\ g.pb = h.pb /\ g.in = h.in /\ g.ctxDone = h.ctxDone /\ g.group = h.group
               /\ g.at = a /\ g.steps = n
<1>0. PICK g : g = StepTo(h, a, n) OBVIOUS
<1>1. g = [pc |-> h.pc, pb |-> h.pb, in |-> h.in, at |-> a, steps |-> n,
           ctxDone |-> h.ctxDone, group |-> h.group]
  BY <1>0, Zenon DEF Shaped, StepTo
<1>2. /\ g.pc = h.pc /\ g.pb = h.pb /\ g.in = h.in /\ g.ctxDone = h.ctxDone /\ g.group = h.group
      /\ g.at = a /\ g.steps = n
  BY <1>1
<1>3. Shaped(g) BY <1>1, <1>2, Zenon DEF Shaped
<1> QED BY <1>0, <1>2, <1>3, Zenon

(* An answered handler.                                                    *)
LEMMA AnsweredHandler ==
    ASSUME NEW h, NEW g, h = [NoHandler EXCEPT !.pc = "answered", !.group = g],
           NEW r, g = Answered(r)
    PROVE  HandlerOf(h, r)
<1>1. h = [pc |-> "answered", pb |-> None, in |-> None, at |-> 1, steps |-> 0,
           ctxDone |-> FALSE, group |-> g]
  BY Zenon DEF NoHandler
<1>2. h.pc = "answered" /\ h.group = g BY <1>1
<1>3. h = [pc |-> h.pc, pb |-> h.pb, in |-> h.in, at |-> h.at, steps |-> h.steps,
           ctxDone |-> h.ctxDone, group |-> h.group]
  BY <1>1, Zenon
<1> QED BY <1>2, <1>3, Zenon DEF HandlerOf, Shaped

(* The record Advance gives the handler.                                   *)
AdvanceTo(h, answer) ==
    IF answer \notin {"", None} THEN [NoHandler EXCEPT !.pc = "answered", !.group = answer]
    ELSE IF h.at = Len(deployed.policy)
    THEN [NoHandler EXCEPT !.pc = "answered", !.group = ServiceDefault]
    ELSE [h EXCEPT !.at = @ + 1, !.steps = 0]

(* The answer of method k: a group when the method decides about r.        *)
Verdict(answer, k, r) ==
    IF answer \in {"", None} THEN k \notin Says(r)
    ELSE k \in Says(r) /\ answer = Means(deployed.policy[k], r)

(* The place after k, when k is not the last.                              *)
LEMMA NextPlace ==
    ASSUME NEW n \in Nat, NEW k \in 1 .. n, k # n
    PROVE  k + 1 \in 1 .. n /\ \A j \in 1 .. k + 1 - 1 : j \in 1 .. k - 1 \/ j = k
OBVIOUS

(* One method further: a method that decides gives the answer, one that    *)
(* does not is passed.                                                     *)
LEMMA AdvanceKeeps ==
    ASSUME CallConstants, deployed \in Deployments,
           NEW h, NEW r, HandlerOf(h, r), h.pc = "eval",
           NEW answer, Verdict(answer, h.at, r)
    PROVE  HandlerOf(AdvanceTo(h, answer), r)
<1>1. deployed.policy \in Seq([rule : Rules, off : BOOLEAN]) BY PolicyTyped
<1>2. PICK k, n : k = h.at /\ n = Len(deployed.policy) BY Zenon
<1>3. /\ r.method = "POST" /\ k \in 1 .. n /\ \A j \in 1 .. k - 1 : j \notin Says(r)
      /\ h.in = ServiceInput(r) /\ h.ctxDone = FALSE
  BY <1>2, Zenon DEF HandlerOf
<1>4. n \in Nat BY <1>2, PolicyTyped, Zenon
<1>5. /\ k \in Says(r) => Answered(r) = Means(deployed.policy[k], r)
      /\ k \notin Says(r) /\ k = n => Answered(r) = ServiceDefault
  BY <1>1, <1>2, <1>3, FirstDecides, Zenon
<1>6. CASE answer \notin {"", None}
  <2>1. answer = Answered(r) BY <1>2, <1>5, <1>6, Zenon DEF Verdict
  <2>2. AdvanceTo(h, answer) = [NoHandler EXCEPT !.pc = "answered", !.group = answer]
    BY <1>6, Zenon DEF AdvanceTo
  <2> QED BY <2>1, <2>2, AnsweredHandler, Zenon
<1>7. CASE answer \in {"", None} /\ k = n
  <2>1. ServiceDefault = Answered(r) BY <1>2, <1>5, <1>7, Zenon DEF Verdict
  <2>2. AdvanceTo(h, answer) = [NoHandler EXCEPT !.pc = "answered", !.group = ServiceDefault]
    BY <1>2, <1>7, Zenon DEF AdvanceTo
  <2> QED BY <2>1, <2>2, AnsweredHandler, Zenon
<1>8. CASE answer \in {"", None} /\ k # n
  <2>1. PICK a, z : a = k + 1 /\ z = 0 OBVIOUS
  <2>2. PICK g : g = StepTo(h, a, z) OBVIOUS
  <2>3. AdvanceTo(h, answer) = g BY <1>2, <1>8, <2>1, <2>2, Zenon DEF AdvanceTo, StepTo
  <2>4. Shaped(h) BY Zenon DEF HandlerOf
  <2>5. /\ Shaped(g)
        /\ g.pc = "eval" /\ g.in = h.in /\ g.at = a /\ g.steps = z /\ g.ctxDone = h.ctxDone
    <3>1. /\ Shaped(g) /\ g.pc = h.pc /\ g.in = h.in /\ g.ctxDone = h.ctxDone
          /\ g.at = a /\ g.steps = z
      BY <2>2, <2>4, ShapedNext
    <3> QED BY <3>1, Zenon
  <2>6. a \in 1 .. n /\ \A j \in 1 .. a - 1 : j \in 1 .. k - 1 \/ j = k
    <3>1. k \in 1 .. n /\ k # n /\ a = k + 1 BY <1>3, <1>8, <2>1, Zenon
    <3> QED BY <1>4, <3>1, NextPlace
  <2>7. k \notin Says(r) BY <1>2, <1>8, Zenon DEF Verdict
  <2>8. \A j \in 1 .. g.at - 1 : j \notin Says(r) BY <1>3, <2>5, <2>6, <2>7, Zenon
  <2>9. g.steps \in Nat /\ g.steps < MaxSteps
    <3>1. MaxSteps \in Nat \ {0} BY Zenon DEF CallConstants
    <3>2. g.steps = 0 BY <2>1, <2>5, Zenon
    <3> QED BY <3>1, <3>2
  <2>10. g.at \in 1 .. Len(deployed.policy) BY <1>2, <2>5, <2>6, Zenon
  <2>11. HandlerOf(g, r) BY <1>3, <2>5, <2>8, <2>9, <2>10, Zenon DEF HandlerOf
  <2> QED BY <2>3, <2>11, Zenon
<1> QED BY <1>6, <1>7, <1>8, Zenon

(* Only a POST is a new submission (buildProtoRequest).                    *)
LEMMA NewAsWritten ==
    ASSUME NEW r, RequestOK(r)
    PROVE  buildProtoRequest(NewRouteInput(r)).isNew <=> r.method = "POST"
<1>1. PICK n : n = NewRouteInput(r) OBVIOUS
<1>2. n.method = r.method BY <1>1, Zenon DEF NewRouteInput, RequestOK
<1>3. buildProtoRequest(n).isNew <=> n.method = "POST" BY Zenon DEF buildProtoRequest
<1> QED BY <1>1, <1>2, <1>3, Zenon

(* The record Server.Route gives the handler.                              *)
ServeTo(h) ==
    IF ~h.pb.isNew THEN [NoHandler EXCEPT !.pc = "answered"]
    ELSE IF deployed.policy = <<>>
    THEN [NoHandler EXCEPT !.pc = "answered", !.group = ServiceDefault]
    ELSE [h EXCEPT !.pc = "eval", !.pb = None, !.in = inputFromProto(h.pb)]

(* A handler that answers without a group answers the empty one.           *)
LEMMA EmptyAnswer ==
    [NoHandler EXCEPT !.pc = "answered"] = [NoHandler EXCEPT !.pc = "answered", !.group = ""]
<1>1. PICK e : e = "" BY Zenon
<1>2. PICK h, g : /\ h = [NoHandler EXCEPT !.pc = "answered"]
                  /\ g = [NoHandler EXCEPT !.pc = "answered", !.group = e]
  BY Zenon
<1>3. h = [pc |-> "answered", pb |-> None, in |-> None, at |-> 1, steps |-> 0, ctxDone |-> FALSE,
           group |-> e]
  BY <1>1, <1>2, Zenon DEF NoHandler
<1>4. g = [pc |-> "answered", pb |-> None, in |-> None, at |-> 1, steps |-> 0, ctxDone |-> FALSE,
           group |-> e]
  BY <1>2, Zenon DEF NoHandler
<1> QED BY <1>1, <1>2, <1>3, <1>4, Zenon

(* The service starts on the first method, or answers at once.             *)
LEMMA ServeKeeps ==
    ASSUME CallConstants, deployed \in Deployments,
           NEW h, NEW r, RequestOK(r), HandlerOf(h, r), h.pc = "sent"
    PROVE  HandlerOf(ServeTo(h), r)
<1>1. deployed.policy \in Seq([rule : Rules, off : BOOLEAN]) BY PolicyTyped
<1>2. /\ Shaped(h) /\ h.pb = buildProtoRequest(NewRouteInput(r)) /\ h.ctxDone = FALSE
      /\ h.at = 1 /\ h.steps = 0
  BY Zenon DEF HandlerOf
<1>3. h.pb.isNew <=> r.method = "POST" BY <1>2, NewAsWritten, Zenon
<1>4. CASE r.method # "POST"
  <2>1. Answered(r) = "" BY <1>4, Zenon DEF Answered
  <2>2. [NoHandler EXCEPT !.pc = "answered"] = [NoHandler EXCEPT !.pc = "answered", !.group = ""]
    BY EmptyAnswer, Zenon
  <2>3. ServeTo(h) = [NoHandler EXCEPT !.pc = "answered", !.group = ""]
    BY <1>3, <1>4, <2>2, Zenon DEF ServeTo
  <2> QED BY <2>1, <2>3, AnsweredHandler, Zenon
<1>5. CASE r.method = "POST" /\ deployed.policy = <<>>
  <2>1. DOMAIN deployed.policy = {} BY <1>5
  <2>2. Says(r) = {} BY <2>1, Zenon DEF Says
  <2>3. ServiceDefault = Answered(r) BY <1>5, <2>2, Zenon DEF Answered
  <2>4. ServeTo(h) = [NoHandler EXCEPT !.pc = "answered", !.group = ServiceDefault]
    BY <1>3, <1>5, Zenon DEF ServeTo
  <2> QED BY <2>3, <2>4, AnsweredHandler, Zenon
<1>6. CASE r.method = "POST" /\ deployed.policy # <<>>
  <2>1. PICK in : in = ServiceInput(r) OBVIOUS
  <2>2. PICK g : g = [h EXCEPT !.pc = "eval", !.pb = None, !.in = in] OBVIOUS
  <2>3. ServeTo(h) = g BY <1>2, <1>3, <1>6, <2>1, <2>2, Zenon DEF ServeTo, ServiceInput
  <2>4. g = [pc |-> "eval", pb |-> None, in |-> in, at |-> h.at, steps |-> h.steps,
             ctxDone |-> h.ctxDone, group |-> h.group]
    <3>1. h = [pc |-> h.pc, pb |-> h.pb, in |-> h.in, at |-> h.at, steps |-> h.steps,
               ctxDone |-> h.ctxDone, group |-> h.group]
      BY <1>2, Zenon DEF Shaped
    <3> QED BY <2>2, <3>1, Zenon
  <2>5. /\ g.pc = "eval" /\ g.pb = None /\ g.in = in /\ g.at = h.at /\ g.steps = h.steps
        /\ g.ctxDone = h.ctxDone /\ g.group = h.group
    BY <2>4
  <2>6. Shaped(g) BY <2>4, <2>5, Zenon DEF Shaped
  <2>7. 1 \in 1 .. Len(deployed.policy) /\ 1 .. 1 - 1 = {}
    <3>1. PICK n \in Nat : n = Len(deployed.policy) /\ n # 0 BY <1>1, <1>6
    <3>2. 1 \in 1 .. n /\ 1 .. 1 - 1 = {} BY <3>1
    <3> QED BY <3>1, <3>2, Zenon
  <2>8. 0 \in Nat /\ 0 < MaxSteps
    <3>1. MaxSteps \in Nat \ {0} BY Zenon DEF CallConstants
    <3> QED BY <3>1
  <2>9. \A j \in 1 .. g.at - 1 : j \notin Says(r) BY <1>2, <2>5, <2>7, Zenon
  <2>10. g.at \in 1 .. Len(deployed.policy) /\ g.steps \in Nat /\ g.steps < MaxSteps
    BY <1>2, <2>5, <2>7, <2>8, Zenon
  <2>11. HandlerOf(g, r) BY <1>2, <1>6, <2>1, <2>5, <2>6, <2>9, <2>10, Zenon DEF HandlerOf
  <2> QED BY <2>3, <2>11, Zenon
<1> QED BY <1>4, <1>5, <1>6, Zenon

(* A step of a script keeps the place and the budget (ScriptSteps).        *)
LEMMA ScriptKeeps ==
    ASSUME CallConstants, NEW h, NEW r, HandlerOf(h, r), h.pc = "eval",
           h.steps < MaxSteps, deployed.policy[h.at].rule = "loop" => h.steps < MaxSteps - 1
    PROVE  HandlerOf([h EXCEPT !.steps = @ + 1], r)
<1>1. /\ Shaped(h) /\ r.method = "POST" /\ h.in = ServiceInput(r) /\ h.ctxDone = FALSE
      /\ h.at \in 1 .. Len(deployed.policy) /\ \A j \in 1 .. h.at - 1 : j \notin Says(r)
      /\ h.steps \in Nat
  BY Zenon DEF HandlerOf
<1>2. MaxSteps \in Nat \ {0} BY Zenon DEF CallConstants
<1>3. PICK a, n, p : a = h.at /\ n = h.steps /\ p = h.steps + 1 OBVIOUS
<1>4. p \in Nat /\ (n < MaxSteps - 1 => p < MaxSteps)
  <2>1. n \in Nat /\ p = n + 1 BY <1>1, <1>3, Zenon
  <2> QED BY <1>2, <2>1
<1>5. PICK g : g = StepTo(h, a, p) OBVIOUS
<1>6. [h EXCEPT !.steps = @ + 1] = g
  <2>1. h = [pc |-> h.pc, pb |-> h.pb, in |-> h.in, at |-> h.at, steps |-> h.steps,
             ctxDone |-> h.ctxDone, group |-> h.group]
    BY <1>1, Zenon DEF Shaped
  <2> QED BY <1>3, <1>5, <2>1, Zenon DEF StepTo
<1>7. /\ Shaped(g) /\ g.pc = h.pc /\ g.in = h.in /\ g.ctxDone = h.ctxDone /\ g.at = a /\ g.steps = p
  BY <1>1, <1>5, ShapedNext
<1>8. deployed.policy[g.at].rule = "loop" => g.steps < MaxSteps BY <1>3, <1>4, <1>7, Zenon
<1>9. HandlerOf(g, r) BY <1>1, <1>3, <1>4, <1>7, <1>8, Zenon DEF HandlerOf
<1> QED BY <1>6, <1>9, Zenon

(* The answer the handler makes of its method is the one the method means  *)
(* for the request: a script of a running call is not cancelled, and one   *)
(* that ends does so within its budget (EvaluateMethod).                   *)
LEMMA MethodVerdict ==
    ASSUME CallConstants, deployed \in Deployments, NEW c \in 1 .. MaxCalls, NEW r, RequestOK(r),
           HandlerOf(handler[c], r), EvaluateMethod(c)
    PROVE  \E answer : /\ Verdict(answer, handler[c].at, r)
                       /\ handler' = [handler EXCEPT ![c] = AdvanceTo(handler[c], answer)]
<1>1. PICK h, k, m : h = handler[c] /\ k = handler[c].at /\ m = deployed.policy[k] OBVIOUS
<1>2. /\ h.pc = "eval" /\ k = h.at /\ Method(c) = m
  BY <1>1, Zenon DEF EvaluateMethod, Method
<1>3. /\ r.method = "POST" /\ h.in = ServiceInput(r) /\ k \in 1 .. Len(deployed.policy)
      /\ h.steps \in Nat /\ (m.rule = "loop" => h.steps < MaxSteps) /\ h.ctxDone = FALSE
  <2>1. HandlerOf(h, r) BY <1>1, Zenon
  <2>2. /\ r.method = "POST" /\ h.in = ServiceInput(r) /\ h.at \in 1 .. Len(deployed.policy)
        /\ h.steps \in Nat /\ (deployed.policy[h.at].rule = "loop" => h.steps < MaxSteps)
    BY <1>2, <2>1, Zenon DEF HandlerOf
  <2>3. h.ctxDone = FALSE BY <1>2, <2>1, Zenon DEF HandlerOf
  <2> QED BY <1>1, <1>2, <2>2, <2>3, Zenon
<1>4. m.rule \in Rules /\ m.off \in BOOLEAN
  <2>1. deployed.policy \in Seq([rule : Rules, off : BOOLEAN]) BY PolicyTyped
  <2>2. \A i \in 1 .. Len(deployed.policy) : deployed.policy[i] \in [rule : Rules, off : BOOLEAN]
    BY <2>1, ElementOfSeq, Zenon
  <2>3. m \in [rule : Rules, off : BOOLEAN] BY <1>1, <1>3, <2>2, Zenon
  <2> QED BY <2>3
<1>5. k \in Says(r) <=> m.off = FALSE /\ Means(m, r) # ""
  <2>1. DOMAIN deployed.policy = 1 .. Len(deployed.policy)
    <3>1. deployed.policy \in Seq([rule : Rules, off : BOOLEAN]) BY PolicyTyped
    <3> QED BY <3>1
  <2> QED BY <1>1, <1>3, <1>4, <2>1, Zenon DEF Says
<1>6. ASSUME NEW answer, Advance(c, answer)
      PROVE  handler' = [handler EXCEPT ![c] = AdvanceTo(handler[c], answer)]
  BY <1>6, Zenon DEF Advance, AdvanceTo
<1>7. /\ m.rule \in {"tagged", "writes"} => EvaluateRule(m.rule, ServiceInput(r)) = Means(m, r)
      /\ m.rule = "broken" => EvaluateRule(m.rule, ServiceInput(r)) = None /\ Means(m, r) = ""
      /\ m.rule = "spin" => Means(m, r) = ""
      /\ m.rule = "loop" => EvaluateRule("loop", ServiceInput(r)) = "slow" /\ Means(m, r) = "slow"
  BY <1>3, <1>4, RuleMeans, Zenon
<1>8. None \notin {"", "etl", "batch", "slow"} BY Zenon DEF CallConstants
<1>9. ASSUME NEW answer, Advance(c, answer), Verdict(answer, k, r)
      PROVE  \E a : /\ Verdict(a, handler[c].at, r)
                    /\ handler' = [handler EXCEPT ![c] = AdvanceTo(handler[c], a)]
  BY <1>1, <1>6, <1>9, Zenon
<1>10. CASE m.off = TRUE
  <2>1. Advance(c, "") BY <1>2, <1>10, Zenon DEF EvaluateMethod
  <2>2. Verdict("", k, r) BY <1>5, <1>10, Zenon DEF Verdict
  <2> QED BY <1>9, <2>1, <2>2, Zenon
<1>11. CASE m.off = FALSE /\ m.rule \in {"loop", "spin"}
  <2>1. \/ h.steps = MaxSteps /\ Advance(c, None)
        \/ m.rule = "loop" /\ Advance(c, EvaluateRule("loop", h.in))
    BY <1>1, <1>2, <1>3, <1>11, Zenon DEF EvaluateMethod
  <2>2. CASE h.steps = MaxSteps /\ Advance(c, None)
    <3>1. m.rule # "loop"
      <4>1. PICK n \in Nat : n = h.steps BY <1>3, Zenon
      <4>2. n < MaxSteps => n # MaxSteps BY <4>1
      <4> QED BY <1>3, <2>2, <4>1, <4>2, Zenon
    <3>2. m.rule = "spin" BY <1>11, <3>1, Zenon
    <3>3. Verdict(None, k, r) BY <1>5, <1>7, <3>2, Zenon DEF Verdict
    <3> QED BY <1>9, <2>2, <3>3, Zenon
  <2>3. CASE m.rule = "loop" /\ Advance(c, EvaluateRule("loop", h.in))
    <3>1. Advance(c, "slow") BY <1>3, <1>7, <2>3, Zenon
    <3>2. Means(m, r) = "slow" /\ "slow" # "" /\ "slow" # None BY <1>7, <1>8, <2>3, Zenon
    <3>3. Verdict("slow", k, r) BY <1>1, <1>5, <1>11, <3>2, Zenon DEF Verdict
    <3> QED BY <1>9, <3>1, <3>3, Zenon
  <2> QED BY <2>1, <2>2, <2>3, Zenon
<1>12. CASE m.off = FALSE /\ m.rule \notin {"loop", "spin"}
  <2>1. PICK a : a = EvaluateRule(m.rule, ServiceInput(r)) OBVIOUS
  <2>2. Advance(c, a) BY <1>1, <1>2, <1>3, <1>12, <2>1, Zenon DEF EvaluateMethod
  <2>3. CASE m.rule = "broken"
    <3>1. a = None /\ Means(m, r) = "" BY <1>7, <2>1, <2>3, Zenon
    <3>2. Verdict(a, k, r) BY <1>5, <3>1, Zenon DEF Verdict
    <3> QED BY <1>9, <2>2, <3>2, Zenon
  <2>4. CASE m.rule \in {"tagged", "writes"}
    <3>1. a = Means(m, r) BY <1>7, <2>1, <2>4, Zenon
    <3>2. Means(m, r) \in {"", "etl", "batch"} BY <2>4 DEF Means
    <3>3. a # None BY <1>8, <3>1, <3>2, Zenon
    <3>4. Verdict(a, k, r) BY <1>1, <1>5, <1>12, <3>1, <3>3, Zenon DEF Verdict
    <3> QED BY <1>9, <2>2, <3>4, Zenon
  <2>5. m.rule = "broken" \/ m.rule \in {"tagged", "writes"} BY <1>4, <1>12, Zenon DEF Rules
  <2> QED BY <2>3, <2>4, <2>5, Zenon
<1>13. m.off = TRUE \/ m.off = FALSE BY <1>4, Zenon
<1> QED BY <1>10, <1>11, <1>12, <1>13, Zenon

-----------------------------------------------------------------------------
(* The steps of the service.                                               *)

(* What a handler means depends on the configuration only.                 *)
LEMMA SameMeaning ==
    ASSUME UNCHANGED deployed, NEW r
    PROVE  /\ Answered(r)' = Answered(r) /\ Intended(r)' = Intended(r)
           /\ \A h : HandlerOf(h, r) => HandlerOf(h, r)'
<1>1. Says(r)' = Says(r) BY Zenon DEF Says
<1>2. Answered(r)' = Answered(r) BY <1>1, Zenon DEF Answered
<1>3. Intended(r)' = Intended(r) BY <1>2, Zenon DEF Intended
<1>4. \A h : HandlerOf(h, r) => HandlerOf(h, r)' BY <1>1, <1>2, Zenon DEF HandlerOf
<1> QED BY <1>2, <1>3, <1>4

(* A step of one handler keeps the invariant when it keeps what is known   *)
(* of the running call's.                                                  *)
LEMMA HandlerMoves ==
    ASSUME CallInv, NEW c \in 1 .. MaxCalls, NEW g, handler' = [handler EXCEPT ![c] = g],
           UNCHANGED <<deployed, calls, call, upstream>>,
           call.pc = "grpc" /\ c = calls => HandlerOf(g, call.req)
    PROVE  CallInv'
<1>1. Setup /\ GatewayOK /\ ForwardOK /\ Current BY Zenon DEF CallInv
<1>2. PICK f, r : f = handler /\ r = call.req OBVIOUS
<1>3. f = [x \in 1 .. MaxCalls |-> f[x]] BY <1>1, <1>2, Zenon DEF Setup
<1>4. handler' = [x \in 1 .. MaxCalls |-> handler'[x]] /\ handler'[c] = g
      /\ \A x \in 1 .. MaxCalls : x # c => handler'[x] = f[x]
  <2>1. handler' = [f EXCEPT ![c] = g] BY <1>2, Zenon
  <2> QED BY <1>3, <2>1, Zenon
<1>5. Setup' BY <1>1, <1>4, Zenon DEF Setup
<1>6. GatewayOK'
  <2>1. Intended(r)' = Intended(r) BY SameMeaning, Zenon
  <2>2. Intended(call.req)' = Intended(call.req) BY <1>2, <2>1, Zenon DEF Intended, Answered, Says
  <2> QED BY <1>1, <2>2, Zenon DEF GatewayOK, Bare
<1>7. ForwardOK' BY <1>1, Zenon DEF ForwardOK
<1>8. Current'
  <2> SUFFICES ASSUME call'.pc = "grpc"
               PROVE  calls' \in 1 .. MaxCalls /\ HandlerOf(handler[calls], call.req)'
    BY Zenon DEF Current
  <2>1. calls \in 1 .. MaxCalls /\ HandlerOf(handler[calls], call.req) BY <1>1, Zenon DEF Current
  <2>2. PICK k, h : k = calls /\ h = handler'[k] OBVIOUS
  <2>3. HandlerOf(h, r)
    <3>1. CASE k = c BY <1>2, <1>4, <2>2, <3>1, Zenon
    <3>2. CASE k # c
      <4>1. h = handler[calls] BY <1>2, <1>4, <2>1, <2>2, <3>2, Zenon
      <4> QED BY <1>2, <2>1, <4>1, Zenon
    <3> QED BY <3>1, <3>2, Zenon
  <2>4. HandlerOf(h, r)' BY <2>3, SameMeaning, Zenon
  <2>5. handler[calls]' = h /\ call.req' = r BY <1>2, <2>2, Zenon
  <2>6. HandlerOf(handler[calls], call.req)' BY <2>4, <2>5, ZenonT(30) DEF HandlerOf, Answered, Says
  <2> QED BY <2>1, <2>6, Zenon
<1> QED BY <1>5, <1>6, <1>7, <1>8, Zenon DEF CallInv

(* Every action of a handler keeps the invariant.                          *)
LEMMA HandlerActs ==
    ASSUME CallConstants, CallInv, NEW c \in 1 .. MaxCalls,
           HandlerStep(c) \/ HandlerPanics(c) \/ ContextEnds(c)
    PROVE  CallInv'
<1>1. PICK h, r : h = handler[c] /\ r = call.req OBVIOUS
<1>2. ASSUME call.pc = "grpc" /\ c = calls
      PROVE  deployed \in Deployments /\ RequestOK(r) /\ HandlerOf(h, r)
  <2>1. deployed \in Deployments /\ r \in Requests
    BY <1>1, <1>2, Zenon DEF CallInv, Setup
  <2>2. RequestOK(r) BY <2>1, Zenon DEF CallConstants
  <2>3. HandlerOf(h, r) BY <1>1, <1>2, Zenon DEF CallInv, Current
  <2> QED BY <2>1, <2>2, <2>3
<1>3. ASSUME NEW g, handler' = [handler EXCEPT ![c] = g], UNCHANGED <<deployed, calls, call, upstream>>,
             call.pc = "grpc" /\ c = calls => HandlerOf(g, r)
      PROVE  CallInv'
  BY <1>1, <1>3, HandlerMoves, Zenon
<1>4. CASE ServeRoute(c)
  <2>1. PICK g : g = ServeTo(h) OBVIOUS
  <2>2. handler' = [handler EXCEPT ![c] = g] /\ UNCHANGED <<deployed, calls, call, upstream>>
    BY <1>1, <1>4, <2>1, Zenon DEF ServeRoute, ServeTo
  <2>3. h.pc = "sent" BY <1>1, <1>4, Zenon DEF ServeRoute
  <2>4. call.pc = "grpc" /\ c = calls => HandlerOf(g, r) BY <1>2, <2>1, <2>3, ServeKeeps, Zenon
  <2> QED BY <1>3, <2>2, <2>4, Zenon
<1>5. CASE ScriptSteps(c)
  <2>1. PICK g : g = [h EXCEPT !.steps = @ + 1] BY Zenon
  <2>2. handler' = [handler EXCEPT ![c] = g] /\ UNCHANGED <<deployed, calls, call, upstream>>
    BY <1>1, <1>5, <2>1, Zenon DEF ScriptSteps
  <2>3. /\ h.pc = "eval" /\ h.steps < MaxSteps
        /\ deployed.policy[h.at].rule = "loop" => h.steps < MaxSteps - 1
    BY <1>1, <1>5, Zenon DEF ScriptSteps, Method
  <2>4. call.pc = "grpc" /\ c = calls => HandlerOf(g, r) BY <1>2, <2>1, <2>3, ScriptKeeps, Zenon
  <2> QED BY <1>3, <2>2, <2>4, Zenon
<1>6. CASE EvaluateMethod(c)
  <2>1. UNCHANGED <<deployed, calls, call, upstream>> BY <1>6, Zenon DEF EvaluateMethod
  <2>2. h.pc = "eval" BY <1>1, <1>6, Zenon DEF EvaluateMethod
  <2>3. CASE call.pc = "grpc" /\ c = calls
    <3>1. deployed \in Deployments /\ RequestOK(r) /\ HandlerOf(h, r) BY <1>2, <2>3, Zenon
    <3>2. PICK answer : /\ Verdict(answer, h.at, r)
                        /\ handler' = [handler EXCEPT ![c] = AdvanceTo(h, answer)]
      BY <1>1, <1>6, <3>1, MethodVerdict, Zenon
    <3>3. PICK g : g = AdvanceTo(h, answer) OBVIOUS
    <3>4. HandlerOf(g, r) BY <2>2, <3>1, <3>2, <3>3, AdvanceKeeps, Zenon
    <3> QED BY <1>3, <2>1, <3>2, <3>3, <3>4, Zenon
  <2>4. CASE ~(call.pc = "grpc" /\ c = calls)
    <3>1. PICK answer : Advance(c, answer) BY <1>6, Zenon DEF EvaluateMethod
    <3>2. PICK g : handler' = [handler EXCEPT ![c] = g] BY <3>1, Zenon DEF Advance
    <3> QED BY <1>3, <2>1, <2>4, <3>2, Zenon
  <2> QED BY <2>3, <2>4, Zenon
<1>7. CASE HandlerPanics(c)
  <2>1. PICK g : g = [NoHandler EXCEPT !.pc = "failed"] BY Zenon
  <2>2. handler' = [handler EXCEPT ![c] = g] /\ UNCHANGED <<deployed, calls, call, upstream>>
    BY <1>7, <2>1, Zenon DEF HandlerPanics
  <2>3. HandlerOf(g, r)
    <3>1. g = [pc |-> "failed", pb |-> None, in |-> None, at |-> 1, steps |-> 0,
               ctxDone |-> FALSE, group |-> ""]
      BY <2>1, Zenon DEF NoHandler
    <3>2. /\ g.pc = "failed" /\ g.pb = None /\ g.in = None /\ g.at = 1 /\ g.steps = 0
          /\ g.ctxDone = FALSE /\ g.group = ""
      BY <3>1, Zenon
    <3>3. Shaped(g) BY <3>1, <3>2, Zenon DEF Shaped
    <3> QED BY <3>2, <3>3, Zenon DEF HandlerOf
  <2> QED BY <1>3, <2>2, <2>3, Zenon
<1>8. CASE ContextEnds(c)
  <2>1. PICK g : g = [h EXCEPT !.ctxDone = TRUE] BY Zenon
  <2>2. handler' = [handler EXCEPT ![c] = g] /\ UNCHANGED <<deployed, calls, call, upstream>>
    BY <1>1, <1>8, <2>1, Zenon DEF ContextEnds
  <2>3. ~(call.pc = "grpc" /\ c = calls)
    <3>1. c < calls \/ call.pc # "grpc" BY <1>8, Zenon DEF ContextEnds
    <3>2. MaxCalls \in Nat BY Zenon DEF CallConstants
    <3>3. ~(c < c) BY <3>2
    <3> QED BY <3>1, <3>3, Zenon
  <2> QED BY <1>3, <2>2, <2>3, Zenon
<1> QED BY <1>4, <1>5, <1>6, <1>7, <1>8, Zenon DEF HandlerStep

-----------------------------------------------------------------------------
(* The steps of the gateway.                                               *)

(* The record of a call, read field by field.                              *)
LEMMA ReadCall ==
    ASSUME NEW p, NEW q, NEW v, NEW g, NEW hs, NEW st, NEW e, NEW o, NEW z, NEW c,
           c = [pc |-> p, req |-> q, via |-> v, group |-> g, headers |-> hs, sent |-> st,
                errors |-> e, outcome |-> o, status |-> z]
    PROVE  /\ CallShaped(c)
           /\ c.pc = p /\ c.req = q /\ c.via = v /\ c.group = g /\ c.headers = hs
           /\ c.sent = st /\ c.errors = e /\ c.outcome = o /\ c.status = z
<1>1. /\ c.pc = p /\ c.req = q /\ c.via = v /\ c.group = g /\ c.headers = hs
      /\ c.sent = st /\ c.errors = e /\ c.outcome = o /\ c.status = z
  OBVIOUS
<1>2. CallShaped(c) BY <1>1, Zenon DEF CallShaped
<1> QED BY <1>1, <1>2

(* The call once its external call has returned (Route).                   *)
LEMMA RoutedCall ==
    ASSUME CallShaped(call), NEW via, NEW group, NEW headers, NEW errors,
           Routed(via, group, headers, errors)
    PROVE  /\ CallShaped(call')
           /\ call'.pc = "routed" /\ call'.req = call.req /\ call'.via = via
           /\ call'.group = (IF group = "" THEN DefaultGroup ELSE group)
           /\ call'.headers = filterExcludedHeaders(headers) /\ call'.sent = call.sent
           /\ call'.errors = errors /\ call'.outcome = (IF group = "" THEN "fallback" ELSE "ok")
<1>1. PICK c, d, p, g, f, o :
        /\ c = call /\ d = call' /\ p = "routed" /\ g = (IF group = "" THEN DefaultGroup ELSE group)
        /\ f = filterExcludedHeaders(headers) /\ o = (IF group = "" THEN "fallback" ELSE "ok")
  BY Zenon
<1>2. d = [c EXCEPT !.pc = p, !.via = via, !.headers = f, !.errors = errors, !.group = g, !.outcome = o]
  BY <1>1, Zenon DEF Routed
<1>3. c = [pc |-> c.pc, req |-> c.req, via |-> c.via, group |-> c.group, headers |-> c.headers,
           sent |-> c.sent, errors |-> c.errors, outcome |-> c.outcome, status |-> c.status]
  BY <1>1, Zenon DEF CallShaped
<1>4. d = [pc |-> p, req |-> c.req, via |-> via, group |-> g, headers |-> f,
           sent |-> c.sent, errors |-> errors, outcome |-> o, status |-> c.status]
  BY <1>2, <1>3, Zenon
<1>5. /\ CallShaped(d)
      /\ d.pc = p /\ d.req = c.req /\ d.via = via /\ d.group = g /\ d.headers = f
      /\ d.sent = c.sent /\ d.errors = errors /\ d.outcome = o
  <2>1. /\ d.pc = p /\ d.req = c.req /\ d.via = via /\ d.group = g /\ d.headers = f
        /\ d.sent = c.sent /\ d.errors = errors /\ d.outcome = o /\ d.status = c.status
    BY <1>4
  <2>2. CallShaped(d) BY <1>4, <2>1, Zenon DEF CallShaped
  <2> QED BY <2>1, <2>2, Zenon
<1> QED BY <1>1, <1>5, Zenon

(* The call when gRPC has failed: the HTTP router is asked, or the default *)
(* group is taken (callExternal).                                          *)
LEMMA TriedCall ==
    ASSUME NEW c, CallShaped(c), TryHTTP(c)
    PROVE  /\ CallShaped(call')
           /\ call'.req = c.req /\ call'.via = c.via /\ call'.headers = c.headers
           /\ call'.errors = c.errors
           /\ \/ call'.pc = "http" /\ call'.sent.headers = buildExternalHeaders(c.req)
              \/ /\ call'.pc = "routed" /\ call'.sent = c.sent
                 /\ call'.group = DefaultGroup /\ call'.outcome = "fallback"
<1>1. PICK d : d = call' OBVIOUS
<1>2. c = [pc |-> c.pc, req |-> c.req, via |-> c.via, group |-> c.group, headers |-> c.headers,
           sent |-> c.sent, errors |-> c.errors, outcome |-> c.outcome, status |-> c.status]
  BY Zenon DEF CallShaped
<1>3. CASE deployed.http
  <2>1. PICK p, st : p = "http" /\ st = [headers |-> buildExternalHeaders(c.req),
                                         body |-> buildExternalBody(c.req)]
    BY Zenon
  <2>5. st.headers = buildExternalHeaders(c.req) BY <2>1, Zenon
  <2>2. d = [c EXCEPT !.pc = p, !.sent = st] BY <1>1, <1>3, <2>1, Zenon DEF TryHTTP
  <2>3. d = [pc |-> p, req |-> c.req, via |-> c.via, group |-> c.group, headers |-> c.headers,
             sent |-> st, errors |-> c.errors, outcome |-> c.outcome, status |-> c.status]
    BY <1>2, <2>2, Zenon
  <2>4. /\ CallShaped(d) /\ d.pc = p /\ d.req = c.req /\ d.via = c.via /\ d.headers = c.headers
        /\ d.sent = st /\ d.errors = c.errors
    BY <2>3, ReadCall
  <2> QED BY <1>1, <2>1, <2>4, <2>5, Zenon
<1>4. CASE ~deployed.http
  <2>1. PICK p, o : p = "routed" /\ o = "fallback" OBVIOUS
  <2>2. d = [c EXCEPT !.pc = p, !.group = DefaultGroup, !.outcome = o]
    BY <1>1, <1>4, <2>1, Zenon DEF TryHTTP
  <2>3. d = [pc |-> p, req |-> c.req, via |-> c.via, group |-> DefaultGroup, headers |-> c.headers,
             sent |-> c.sent, errors |-> c.errors, outcome |-> o, status |-> c.status]
    BY <1>2, <2>2, Zenon
  <2>4. /\ CallShaped(d) /\ d.pc = p /\ d.req = c.req /\ d.via = c.via /\ d.group = DefaultGroup
        /\ d.headers = c.headers /\ d.sent = c.sent /\ d.errors = c.errors /\ d.outcome = o
    BY <2>3, ReadCall
  <2> QED BY <1>1, <2>1, <2>4, Zenon
<1> QED BY <1>3, <1>4, Zenon

(* The headers the gateway passes on or sends are never excluded ones.     *)
LEMMA FilteredAllowed ==
    ASSUME NEW names, NEW r
    PROVE  /\ Allowed(filterExcludedHeaders(names)) /\ Allowed(buildExternalHeaders(r)) /\ Allowed({})
           /\ Allowed(NotSent.headers)
<1>1. Allowed(filterExcludedHeaders(names)) BY Zenon DEF Allowed, filterExcludedHeaders
<1>2. Allowed(buildExternalHeaders(r)) BY Zenon DEF Allowed, buildExternalHeaders
<1>3. Allowed({}) BY Zenon DEF Allowed
<1>4. NotSent.headers = {} BY Zenon DEF NotSent
<1> QED BY <1>1, <1>2, <1>3, <1>4, Zenon

(* What a call must be when it waits for the HTTP router, or has its group. *)
LEMMA Arrived ==
    ASSUME deployed' \in Deployments, calls' \in 0 .. MaxCalls,
           handler' = [x \in 1 .. MaxCalls |-> handler'[x]], upstream' = None,
           CallShaped(call'), call'.req \in Requests, call'.pc \in {"http", "routed"},
           Allowed(call'.headers), Allowed(call'.sent.headers),
           call'.pc = "http" \/ call'.via = "none" => Bare',
           call'.pc = "routed" /\ call'.via = "none" =>
             call'.group = DefaultGroup /\ call'.outcome = "fallback",
           call'.pc = "routed" /\ call'.via = "grpc" => call'.group = Intended(call.req)'
    PROVE  CallInv'
<1>1. call'.pc # "idle" /\ call'.pc # "grpc" /\ call'.pc # "answered" OBVIOUS
<1>2. Setup' BY <1>1, Zenon DEF Setup
<1>3. GatewayOK' BY <1>1, Zenon DEF GatewayOK
<1>4. ForwardOK' BY <1>1, Zenon DEF ForwardOK, Allowed
<1>5. Current' BY <1>1, Zenon DEF Current
<1> QED BY <1>2, <1>3, <1>4, <1>5, Zenon DEF CallInv

(* gRPC has failed or timed out, and the call is passed on.                *)
LEMMA TriedKeeps ==
    ASSUME deployed \in Deployments, UNCHANGED deployed, calls' \in 0 .. MaxCalls,
           handler' = [x \in 1 .. MaxCalls |-> handler'[x]], upstream' = None,
           NEW c, CallShaped(c), c.req \in Requests, Allowed(c.sent.headers),
           c.via = "none", c.headers = {}, c.errors = FALSE, TryHTTP(c)
    PROVE  CallInv'
<1>1. /\ CallShaped(call')
      /\ call'.req = c.req /\ call'.via = "none" /\ call'.headers = {}
      /\ call'.errors = FALSE
      /\ \/ call'.pc = "http" /\ call'.sent.headers = buildExternalHeaders(c.req)
         \/ /\ call'.pc = "routed" /\ call'.sent = c.sent
            /\ call'.group = DefaultGroup /\ call'.outcome = "fallback"
  BY TriedCall, Zenon
<1>2. Allowed(call'.headers) BY <1>1, Zenon DEF Allowed
<1>3. Allowed(call'.sent.headers) BY <1>1, FilteredAllowed, Zenon
<1>4. Bare' BY <1>1, Zenon DEF Bare
<1>5. call'.pc \in {"http", "routed"} BY <1>1, Zenon
<1>6. "http" # "routed" /\ "none" # "grpc" OBVIOUS
<1>7. call'.pc = "routed" => call'.group = DefaultGroup /\ call'.outcome = "fallback" BY <1>1, <1>6, Zenon
<1>8. call'.via # "grpc" /\ deployed' \in Deployments /\ call'.req \in Requests BY <1>1, <1>6, Zenon
<1> QED BY <1>1, <1>2, <1>3, <1>4, <1>5, <1>7, <1>8, Arrived, Zenon

(* The call fails over to the HTTP router (GrpcFails, GrpcDeadline).       *)
LEMMA FailOver ==
    ASSUME CallInv, GrpcFails \/ GrpcDeadline
    PROVE  CallInv'
<1>1. /\ call.pc = "grpc" /\ TryHTTP(call) /\ UNCHANGED <<deployed, calls, handler, upstream>>
  BY Zenon DEF GrpcFails, GrpcDeadline
<1>2. PICK c : c = call OBVIOUS
<1>3. Setup /\ GatewayOK /\ ForwardOK BY Zenon DEF CallInv
<1>4. "grpc" # "idle" /\ "grpc" # "answered" OBVIOUS
<1>5. deployed \in Deployments /\ c.req \in Requests /\ CallShaped(c) /\ calls \in 0 .. MaxCalls
      /\ handler = [x \in 1 .. MaxCalls |-> handler[x]]
  BY <1>1, <1>2, <1>3, <1>4, Zenon DEF Setup
<1>6. c.via = "none" /\ c.headers = {} /\ c.errors = FALSE BY <1>1, <1>2, <1>3, Zenon DEF GatewayOK, Bare
<1>7. Allowed(c.sent.headers) /\ upstream = None BY <1>1, <1>2, <1>3, <1>4, Zenon DEF ForwardOK
<1>8. TryHTTP(c) BY <1>1, <1>2, Zenon
<1>9. handler' = [x \in 1 .. MaxCalls |-> handler'[x]] BY <1>1, <1>5, Zenon
<1> QED BY <1>1, <1>5, <1>6, <1>7, <1>8, <1>9, TriedKeeps, Zenon

(* The routing service has answered (GrpcAnswered).                        *)
LEMMA AnswerTaken ==
    ASSUME CallConstants, CallInv, GrpcAnswered
    PROVE  CallInv'
<1>1. /\ call.pc = "grpc" /\ handler[calls].pc = "answered"
      /\ Routed("grpc", handler[calls].group, {}, FALSE)
      /\ handler' = [handler EXCEPT ![calls] = NoHandler]
      /\ UNCHANGED <<deployed, calls, upstream>>
  <2>1. PICK x : x = handler[calls].group OBVIOUS
  <2>2. PICK y : y = RouteResponse(x) OBVIOUS
  <2>3. y.group = x /\ y.headers = {} /\ y.errors = FALSE BY <2>2, Zenon DEF RouteResponse
  <2>4. Routed("grpc", y.group, y.headers, y.errors) BY <2>1, <2>2, Zenon DEF GrpcAnswered
  <2> QED BY <2>1, <2>3, <2>4, Zenon DEF GrpcAnswered
<1>2. "grpc" # "idle" /\ "grpc" # "answered" OBVIOUS
<1>3. Setup /\ ForwardOK /\ Current BY Zenon DEF CallInv
<1>4. PICK g, r : g = handler[calls].group /\ r = call.req OBVIOUS
<1>5. deployed \in Deployments /\ r \in Requests /\ CallShaped(call) /\ calls \in 0 .. MaxCalls
  BY <1>1, <1>2, <1>3, <1>4, Zenon DEF Setup
<1>6. g = Answered(r)
  <2>1. HandlerOf(handler[calls], call.req) BY <1>1, <1>3, Zenon DEF Current
  <2> QED BY <1>1, <1>4, <2>1, Zenon DEF HandlerOf
<1>7. Allowed(call.sent.headers) /\ upstream = None BY <1>1, <1>2, <1>3, Zenon DEF ForwardOK
<1>8. /\ CallShaped(call')
      /\ call'.pc = "routed" /\ call'.req = r /\ call'.via = "grpc"
      /\ call'.group = (IF g = "" THEN DefaultGroup ELSE g)
      /\ call'.headers = filterExcludedHeaders({}) /\ call'.sent = call.sent
  BY <1>1, <1>4, <1>5, RoutedCall, Zenon
<1>9. call'.group = Intended(call.req)'
  <2>1. call'.group = Intended(r) BY <1>6, <1>8, Zenon DEF Intended
  <2>2. Intended(r)' = Intended(r) BY <1>1, SameMeaning, Zenon
  <2> QED BY <1>8, <2>1, <2>2, Zenon DEF Intended, Answered, Says
<1>10. handler' = [x \in 1 .. MaxCalls |-> handler'[x]]
  <2>1. PICK f, k, n : f = handler /\ k = calls /\ n = NoHandler OBVIOUS
  <2>2. f = [x \in 1 .. MaxCalls |-> f[x]] BY <1>3, <2>1, Zenon DEF Setup
  <2>3. handler' = [f EXCEPT ![k] = n] BY <1>1, <2>1, Zenon
  <2> QED BY <2>2, <2>3, Zenon
<1>11. Allowed(call'.headers) /\ Allowed(call'.sent.headers) BY <1>7, <1>8, FilteredAllowed, Zenon
<1>12. ~(call'.pc = "http" \/ call'.via = "none") BY <1>8, Zenon
<1>13. call'.pc \in {"http", "routed"} BY <1>8, Zenon
<1> QED BY <1>1, <1>5, <1>7, <1>8, <1>9, <1>10, <1>11, <1>12, <1>13, Arrived, Zenon

(* The HTTP router has answered, or has not (HttpAnswered, HttpFails).     *)
LEMMA RouterAnswered ==
    ASSUME CallInv, call.pc = "http", UNCHANGED <<deployed, calls, handler, upstream>>,
           NEW via \in {"http", "none"}, NEW group, NEW headers, NEW errors,
           via = "none" => group = "" /\ headers = {} /\ errors = FALSE,
           Routed(via, group, headers, errors)
    PROVE  CallInv'
<1>1. "http" # "idle" /\ "http" # "answered" /\ "http" # "none" /\ "http" # "grpc" /\ "none" # "grpc"
      /\ "routed" # "http"
  BY Zenon
<1>2. Setup /\ ForwardOK BY Zenon DEF CallInv
<1>3. deployed \in Deployments /\ call.req \in Requests /\ CallShaped(call) /\ calls \in 0 .. MaxCalls
      /\ handler = [x \in 1 .. MaxCalls |-> handler[x]]
  BY <1>1, <1>2, Zenon DEF Setup
<1>4. Allowed(call.sent.headers) /\ upstream = None BY <1>1, <1>2, Zenon DEF ForwardOK
<1>5. /\ CallShaped(call')
      /\ call'.pc = "routed" /\ call'.req = call.req /\ call'.via = via
      /\ call'.group = (IF group = "" THEN DefaultGroup ELSE group)
      /\ call'.headers = filterExcludedHeaders(headers) /\ call'.sent = call.sent
      /\ call'.errors = errors /\ call'.outcome = (IF group = "" THEN "fallback" ELSE "ok")
  BY <1>3, RoutedCall, Zenon
<1>6. Allowed(call'.headers) /\ Allowed(call'.sent.headers) BY <1>4, <1>5, FilteredAllowed, Zenon
<1>7. call'.via # "grpc" BY <1>1, <1>5, Zenon
<1>8. call'.via = "none" => Bare' /\ call'.group = DefaultGroup /\ call'.outcome = "fallback"
  <2>1. filterExcludedHeaders({}) = {} BY Zenon DEF filterExcludedHeaders
  <2> QED BY <1>5, <2>1, Zenon DEF Bare
<1>9. call'.pc \in {"http", "routed"} /\ ~(call'.pc = "http") BY <1>1, <1>5, Zenon
<1>10. handler' = [x \in 1 .. MaxCalls |-> handler'[x]] BY <1>3, Zenon
<1> QED BY <1>3, <1>4, <1>5, <1>6, <1>7, <1>8, <1>9, <1>10, Arrived, Zenon

(* A new request (Receive): nothing of the call before it is left.         *)
LEMMA RequestReceived ==
    ASSUME CallConstants, CallInv, NEW r \in Requests, Receive(r)
    PROVE  CallInv'
<1>1. PICK c, k, p : /\ c = [pc |-> "grpc", req |-> r, via |-> "none", group |-> "", headers |-> {},
                             sent |-> NotSent, errors |-> FALSE, outcome |-> "", status |-> 0]
                     /\ k = calls + 1 /\ p = buildProtoRequest(NewRouteInput(r))
  BY Zenon
<1>2. /\ CallShaped(c) /\ c.pc = "grpc" /\ c.req = r /\ c.via = "none" /\ c.headers = {}
      /\ c.sent = NotSent /\ c.errors = FALSE
  <2>1. PICK g, e, no, z : /\ g = "grpc" /\ e = "" /\ no = FALSE /\ z = 0
                           /\ c = [pc |-> g, req |-> r, via |-> "none", group |-> e, headers |-> {},
                                   sent |-> NotSent, errors |-> no, outcome |-> e, status |-> z]
    BY <1>1, Zenon
  <2>2. /\ CallShaped(c) /\ c.pc = g /\ c.req = r /\ c.via = "none" /\ c.headers = {}
        /\ c.sent = NotSent /\ c.errors = no
    <3>1. c = [pc |-> g, req |-> r, via |-> "none", group |-> e, headers |-> {},
               sent |-> NotSent, errors |-> no, outcome |-> e, status |-> z]
      BY <2>1, Zenon
    <3> QED BY <3>1, ReadCall
  <2> QED BY <2>1, <2>2, Zenon
<1>3. /\ deployed # None /\ calls < MaxCalls /\ calls' = k /\ upstream' = None /\ UNCHANGED deployed
  BY <1>1, Zenon DEF Receive
<1>4. Setup BY Zenon DEF CallInv
<1>5. deployed \in Deployments BY <1>3, <1>4, Zenon DEF Setup
<1>6. k \in 1 .. MaxCalls /\ k \in 0 .. MaxCalls
  <2>1. calls \in 0 .. MaxCalls BY <1>4, Zenon DEF Setup
  <2>2. MaxCalls \in Nat BY Zenon DEF CallConstants
  <2>3. PICK n : n = calls OBVIOUS
  <2>4. n \in 0 .. MaxCalls /\ n < MaxCalls /\ k = n + 1 BY <1>1, <1>3, <2>1, <2>3, Zenon
  <2> QED BY <2>2, <2>4
<1>7. CASE deployed.grpc
  <2>1. PICK n : n = [NoHandler EXCEPT !.pc = "sent", !.pb = p] OBVIOUS
  <2>2. call' = c /\ handler' = [handler EXCEPT ![k] = n]
    BY <1>1, <1>7, <2>1, Zenon DEF Receive
  <2>3. n = [pc |-> "sent", pb |-> p, in |-> None, at |-> 1, steps |-> 0,
             ctxDone |-> FALSE, group |-> ""]
    BY <2>1, Zenon DEF NoHandler
  <2>4. n.pc = "sent" /\ n.pb = p /\ n.in = None /\ n.at = 1 /\ n.steps = 0 /\ n.ctxDone = FALSE
        /\ n.group = ""
    BY <2>3, Zenon
  <2>5. Shaped(n) BY <2>3, <2>4, Zenon DEF Shaped
  <2>6. "sent" # "eval" /\ "sent" # "answered" OBVIOUS
  <2>7. HandlerOf(n, r) BY <1>1, <2>4, <2>5, <2>6, Zenon DEF HandlerOf
  <2>8. handler' = [x \in 1 .. MaxCalls |-> handler'[x]] /\ handler'[k] = n
    <3>1. PICK f : f = handler OBVIOUS
    <3>2. f = [x \in 1 .. MaxCalls |-> f[x]] BY <1>4, <3>1, Zenon DEF Setup
    <3>3. handler' = [f EXCEPT ![k] = n] BY <2>2, <3>1, Zenon
    <3> QED BY <1>6, <3>2, <3>3, Zenon
  <2>9. "grpc" # "routed" /\ "grpc" # "answered" OBVIOUS
  <2>10. Setup' BY <1>2, <1>3, <1>5, <1>6, <2>2, <2>8, Zenon DEF Setup
  <2>11. GatewayOK' BY <1>2, <2>2, <2>9, Zenon DEF GatewayOK, Bare
  <2>12. ForwardOK'
    <3>1. Allowed(c.headers) /\ Allowed(c.sent.headers) BY <1>2, FilteredAllowed, Zenon
    <3> QED BY <1>2, <1>3, <2>2, <2>9, <3>1, Zenon DEF ForwardOK, Allowed
  <2>13. Current'
    <3>1. HandlerOf(n, r)' BY <1>3, <2>7, SameMeaning, Zenon
    <3>2. handler[calls]' = n /\ call.req' = r BY <1>2, <1>3, <2>2, <2>8, Zenon
    <3>3. HandlerOf(handler[calls], call.req)' BY <3>1, <3>2, Zenon DEF HandlerOf, Answered, Says
    <3> QED BY <1>3, <1>6, <3>3, Zenon DEF Current
  <2> QED BY <2>10, <2>11, <2>12, <2>13, Zenon DEF CallInv
<1>8. CASE ~deployed.grpc
  <2>1. TryHTTP(c) /\ UNCHANGED handler BY <1>1, <1>8, Zenon DEF Receive
  <2>2. handler' = [x \in 1 .. MaxCalls |-> handler'[x]] BY <1>4, <2>1, Zenon DEF Setup
  <2>3. Allowed(c.sent.headers) BY <1>2, FilteredAllowed, Zenon
  <2> QED BY <1>2, <1>3, <1>5, <1>6, <2>1, <2>2, <2>3, TriedKeeps, Zenon
<1> QED BY <1>7, <1>8, Zenon

(* The request goes to the cluster, or is refused (Forward).               *)
LEMMA RequestForwarded ==
    ASSUME CallInv, Forward
    PROVE  CallInv'
<1>0. PICK b : b = (/\ deployed.propagate /\ call.errors
                    /\ call.req.method = "POST" /\ call.req.path = "/v1/statement")
  BY Zenon
<1>1. PICK c, d, p, z : /\ c = call /\ d = call' /\ p = "answered"
                        /\ z = (IF b THEN 400 ELSE 200)
  BY ZenonT(30)
<1>2. /\ c.pc = "routed" /\ d = [c EXCEPT !.pc = p, !.status = z]
      /\ upstream' = (IF b THEN None ELSE injectHeaders(c.req, c.headers))
      /\ UNCHANGED <<deployed, calls, handler>>
  BY <1>0, <1>1, Zenon DEF Forward
<1>3. Setup /\ GatewayOK /\ ForwardOK BY Zenon DEF CallInv
<1>4. c = [pc |-> c.pc, req |-> c.req, via |-> c.via, group |-> c.group, headers |-> c.headers,
           sent |-> c.sent, errors |-> c.errors, outcome |-> c.outcome, status |-> c.status]
  BY <1>1, <1>3, Zenon DEF Setup, CallShaped
<1>5. d = [pc |-> p, req |-> c.req, via |-> c.via, group |-> c.group, headers |-> c.headers,
           sent |-> c.sent, errors |-> c.errors, outcome |-> c.outcome, status |-> z]
  BY <1>2, <1>4, Zenon
<1>6. /\ CallShaped(d) /\ d.pc = p /\ d.req = c.req /\ d.via = c.via /\ d.group = c.group
      /\ d.headers = c.headers /\ d.sent = c.sent /\ d.errors = c.errors /\ d.outcome = c.outcome
      /\ d.status = z
  BY <1>5, ReadCall
<1>7. "routed" # "idle" /\ "routed" # "grpc" /\ "answered" # "idle" /\ "answered" # "grpc"
      /\ "answered" # "http"
  OBVIOUS
<1>8. Setup' BY <1>1, <1>2, <1>3, <1>6, <1>7, Zenon DEF Setup
<1>9. GatewayOK'
  <2>1. PICK r : r = call.req OBVIOUS
  <2>2. Intended(r)' = Intended(r) BY <1>2, SameMeaning, Zenon
  <2>3. Intended(call.req)' = Intended(call.req)
    BY <1>1, <1>6, <2>1, <2>2, ZenonT(30) DEF Intended, Answered, Says
  <2>4. c.via = "none" => Bare /\ c.group = DefaultGroup /\ c.outcome = "fallback"
    BY <1>1, <1>2, <1>3, Zenon DEF GatewayOK
  <2>5. c.via = "grpc" => c.group = Intended(call.req) BY <1>1, <1>2, <1>3, Zenon DEF GatewayOK
  <2>6. Bare => Bare' BY <1>1, <1>6, Zenon DEF Bare
  <2> QED BY <1>1, <1>6, <1>7, <2>3, <2>4, <2>5, <2>6, Zenon DEF GatewayOK
<1>10. ForwardOK'
  <2>1. ~b => z = 200 BY <1>1
  <2>2. Allowed(d.headers) /\ Allowed(d.sent.headers) BY <1>1, <1>3, <1>6, Zenon DEF ForwardOK
  <2>3. Allowed(call.headers)' /\ Allowed(call.sent.headers)' BY <1>1, <2>2, Zenon DEF Allowed
  <2>4. b => d.errors = TRUE /\ upstream' = None
    <3>1. b => deployed.propagate /\ call.errors BY <1>0, Zenon
    <3> QED BY <1>1, <1>2, <1>6, <3>1, Zenon
  <2>5. ~b => d.status = 200 /\ upstream' = injectHeaders(d.req, d.headers)
    <3>1. ~b => upstream' = injectHeaders(d.req, d.headers) BY <1>2, <1>6, Zenon
    <3> QED BY <1>6, <2>1, <3>1
  <2>6. injectHeaders(call.req, call.headers)' = injectHeaders(d.req, d.headers)
    BY <1>1, Zenon DEF injectHeaders
  <2>7. d.pc = "answered" BY <1>1, <1>6, Zenon
  <2> QED BY <1>1, <2>3, <2>4, <2>5, <2>6, <2>7 DEF ForwardOK
<1>11. Current' BY <1>1, <1>6, <1>7, Zenon DEF Current
<1> QED BY <1>8, <1>9, <1>10, <1>11, Zenon DEF CallInv

(* A configuration is taken before any request (Deploy).                   *)
LEMMA Deployed ==
    ASSUME CallConstants, CallInv, NEW d \in Deployments, Deploy(d)
    PROVE  CallInv'
<1>1. deployed = None /\ deployed' = d /\ UNCHANGED <<calls, call, handler, upstream>>
  BY Zenon DEF Deploy
<1>2. Setup /\ GatewayOK /\ ForwardOK BY Zenon DEF CallInv
<1>3. None \notin Deployments BY Zenon DEF CallConstants
<1>4. call.pc = "idle" BY <1>1, <1>2, <1>3, Zenon DEF Setup
<1>5. "idle" # "grpc" /\ "idle" # "routed" /\ "idle" # "answered" OBVIOUS
<1>6. Setup' BY <1>1, <1>2, <1>4, Zenon DEF Setup
<1>7. GatewayOK' BY <1>1, <1>2, <1>4, <1>5, Zenon DEF GatewayOK, Bare
<1>8. ForwardOK' BY <1>1, <1>2, Zenon DEF ForwardOK
<1>9. Current' BY <1>1, <1>4, <1>5, Zenon DEF Current
<1> QED BY <1>6, <1>7, <1>8, <1>9, Zenon DEF CallInv

-----------------------------------------------------------------------------
(* The theorems.                                                           *)

LEMMA CallStart ==
    ASSUME CallConstants, CallInit
    PROVE  CallInv
<1>1. deployed = None /\ calls = 0 /\ upstream = None /\ handler = [c \in 1 .. MaxCalls |-> NoHandler]
  BY Zenon DEF CallInit
<1>2. /\ CallShaped(call) /\ call.pc = "idle" /\ call.via = "none" /\ call.headers = {}
      /\ call.sent = NotSent /\ call.errors = FALSE
  <2>1. PICK i, e, no, z : i = "idle" /\ e = "" /\ no = FALSE /\ z = 0 BY Zenon
  <2>2. PICK c : c = [pc |-> i, req |-> None, via |-> "none", group |-> e, headers |-> {},
                      sent |-> NotSent, errors |-> no, outcome |-> e, status |-> z]
    BY Zenon
  <2>3. call = c BY <2>1, <2>2, Zenon DEF CallInit
  <2>4. /\ CallShaped(c) /\ c.pc = i /\ c.via = "none" /\ c.headers = {}
        /\ c.sent = NotSent /\ c.errors = no
    BY <2>2, ReadCall
  <2> QED BY <2>1, <2>3, <2>4, Zenon
<1>3. "idle" # "grpc" /\ "idle" # "routed" /\ "idle" # "answered" OBVIOUS
<1>4. handler = [c \in 1 .. MaxCalls |-> handler[c]] BY <1>1
<1>5. 0 \in 0 .. MaxCalls
  <2>1. MaxCalls \in Nat BY Zenon DEF CallConstants
  <2> QED BY <2>1
<1>6. Setup BY <1>1, <1>2, <1>4, <1>5, Zenon DEF Setup
<1>7. GatewayOK BY <1>2, <1>3, Zenon DEF GatewayOK, Bare
<1>8. ForwardOK BY <1>1, <1>2, <1>3, FilteredAllowed, Zenon DEF ForwardOK
<1>9. Current BY <1>2, <1>3, Zenon DEF Current
<1> QED BY <1>6, <1>7, <1>8, <1>9, Zenon DEF CallInv

LEMMA CallStep ==
    ASSUME CallConstants, CallInv, [CallNext]_callVars
    PROVE  CallInv'
<1>1. CASE UNCHANGED callVars
  <2>1. UNCHANGED <<deployed, calls, call, handler, upstream>> BY <1>1, Zenon DEF callVars
  <2>2. Setup' BY <2>1, Zenon DEF CallInv, Setup
  <2>3. GatewayOK' BY <2>1, Zenon DEF CallInv, GatewayOK, Bare, Intended, Answered, Says
  <2>4. ForwardOK' BY <2>1, Zenon DEF CallInv, ForwardOK
  <2>5. Current' BY <2>1, Zenon DEF CallInv, Current, HandlerOf, Answered, Says
  <2> QED BY <2>2, <2>3, <2>4, <2>5, Zenon DEF CallInv
<1>2. CASE \E d \in Deployments : Deploy(d) BY <1>2, Deployed, Zenon
<1>3. CASE \E r \in Requests : Receive(r) BY <1>3, RequestReceived, Zenon
<1>4. CASE \E c \in 1 .. MaxCalls : HandlerStep(c) \/ HandlerPanics(c) \/ ContextEnds(c)
  BY <1>4, HandlerActs, Zenon
<1>5. CASE GrpcFails \/ GrpcDeadline BY <1>5, FailOver, Zenon
<1>6. CASE GrpcAnswered BY <1>6, AnswerTaken, Zenon
<1>7. CASE \E a \in Routers : HttpAnswered(a)
  <2>1. PICK a \in Routers : HttpAnswered(a) BY <1>7, Zenon
  <2>2. PICK g, hs, e : g = a.group /\ hs = a.headers /\ e = a.errors BY Zenon
  <2>3. call.pc = "http" /\ Routed("http", g, hs, e) /\ UNCHANGED <<deployed, calls, handler, upstream>>
    BY <2>1, <2>2, Zenon DEF HttpAnswered
  <2>4. "http" \in {"http", "none"} /\ "http" # "none" OBVIOUS
  <2> QED BY <2>3, <2>4, RouterAnswered, Zenon
<1>8. CASE HttpFails \/ HttpDeadline
  <2>1. call.pc = "http" /\ Routed("none", "", {}, FALSE) /\ UNCHANGED <<deployed, calls, handler, upstream>>
    BY <1>8, Zenon DEF HttpFails, HttpDeadline
  <2>2. "none" \in {"http", "none"} OBVIOUS
  <2> QED BY <2>1, <2>2, RouterAnswered, Zenon
<1>9. CASE Forward BY <1>9, RequestForwarded, Zenon
<1> QED BY <1>1, <1>2, <1>3, <1>4, <1>5, <1>6, <1>7, <1>8, <1>9, Zenon DEF CallNext, GatewayStep

(* The invariant holds in every state of every call.                       *)
THEOREM CallsAsMeant ==
    ASSUME CallConstants
    PROVE  CallSpec => []CallInv
<1>1. CallInit => CallInv BY CallStart
<1>2. CallInv /\ [CallNext]_callVars => CallInv' BY CallStep
<1> QED BY <1>1, <1>2, PTL DEF CallSpec

(* A group taken from the routing service is the one its enabled methods,  *)
(* in their order, give the request as the client wrote it: whatever       *)
(* handlers of earlier calls still do, and however a script ends.          *)
THEOREM DecisionsArrive ==
    ASSUME CallConstants
    PROVE  CallSpec => []DecisionArrives
<1>1. CallInv => DecisionArrives BY Zenon DEF CallInv, GatewayOK, DecisionArrives
<1> QED BY <1>1, CallsAsMeant, PTL

(* Without an answer of a router a request is served, in the default       *)
(* group, with no header and no error of a router.                         *)
THEOREM FallbacksAreClean ==
    ASSUME CallConstants
    PROVE  CallSpec => []FallbackIsClean
<1>1. CallInv => FallbackIsClean
  <2> SUFFICES ASSUME CallInv, call.pc = "answered", call.via = "none"
               PROVE  /\ call.group = DefaultGroup /\ call.outcome = "fallback" /\ call.status = 200
                      /\ upstream.router = {}
    BY Zenon DEF FallbackIsClean
  <2>1. call.group = DefaultGroup /\ call.outcome = "fallback" /\ Bare
    BY Zenon DEF CallInv, GatewayOK
  <2>2. call.errors # TRUE /\ call.headers = {} BY <2>1, Zenon DEF Bare
  <2>3. call.status = 200 /\ upstream = injectHeaders(call.req, {})
    <3>1. \/ call.status = 200 /\ upstream = injectHeaders(call.req, call.headers)
          \/ call.errors = TRUE /\ upstream = None
      BY DEF CallInv, ForwardOK
    <3> QED BY <2>2, <3>1, Zenon
  <2>4. injectHeaders(call.req, {}).router = {} BY DEF injectHeaders
  <2> QED BY <2>1, <2>3, <2>4
<1> QED BY <1>1, CallsAsMeant, PTL

(* The cluster learns the Host and the address the client had, by the       *)
(* X-Forwarded headers the router did not set; no excluded header is among  *)
(* those sent to the HTTP router or is set by one (injectHeaders,           *)
(* buildExcludeSet).                                                        *)
THEOREM RequestsForwardedAsSeen ==
    ASSUME CallConstants
    PROVE  CallSpec => []ForwardedAsSeen
<1> DEFINE E == {CanonicalHeaderKey(k) : k \in Excluded}
<1>1. CallInv => ForwardedAsSeen
  <2> SUFFICES ASSUME CallInv PROVE ForwardedAsSeen OBVIOUS
  <2>1. Setup /\ ForwardOK BY Zenon DEF CallInv
  <2>2. PICK r, u, hs, st : r = call.req /\ u = upstream /\ hs = call.headers /\ st = call.sent.headers BY Zenon
  <2>3. Allowed(hs) /\ Allowed(st) BY <2>1, <2>2, Zenon DEF ForwardOK
  <2>4. u # None => u = injectHeaders(r, hs) /\ RequestOK(r)
    <3>1. u # None => call.pc = "answered" BY <2>1, <2>2, Zenon DEF ForwardOK
    <3>2. "answered" # "idle" OBVIOUS
    <3>3. u # None => r \in Requests BY <2>1, <2>2, <3>1, <3>2, Zenon DEF Setup
    <3>4. u # None => u = injectHeaders(r, hs) BY <2>1, <2>2, <3>1 DEF ForwardOK
    <3> QED BY <3>3, <3>4, Zenon DEF CallConstants
  <2>5. PICK set, proto, port : /\ set = SetBy(hs) /\ proto = Scheme(r)
                                /\ port = (IF r.tls THEN <<"443">> ELSE <<"80">>)
    BY Zenon
  <2>6. port = IF proto = "https" THEN <<"443">> ELSE <<"80">>
    <3>1. "http" # "https" OBVIOUS
    <3> QED BY <2>5, <3>1, Zenon DEF Scheme
  <2>7. u # None => Injects(u, r, set) BY <2>4, <2>5, Injected, Zenon
  <2>a. ASSUME u # None
        PROVE  /\ u.router = set
               /\ "X-Forwarded-For" \notin set => u.xff = forwardedFor(r)
               /\ "X-Forwarded-Host" \notin set => u.host = hostOnly(r.host)
               /\ "X-Forwarded-Port" \notin set => u.port = forwardedPort(r.host, proto)
    BY <2>5, <2>7, <2>a, Zenon DEF Injects
  <2>8. ASSUME u # None, {"X-Forwarded-Host", "X-Forwarded-Port"} \intersect u.router = {}
        PROVE  /\ r.host \in {u.host, u.host \o <<":">> \o u.port}
               /\ r.host = u.host => u.port = port
    <3>1. PICK h : h = r.host BY Zenon
    <3>2. /\ h \in Seq(STRING)
          /\ \A i \in DOMAIN h : h[1] = "[" /\ h[i] = "]" => i = Len(h) \/ h[i + 1] = ":"
      <4>1. r.host \in Seq(STRING) BY <2>4, <2>8 DEF RequestOK
      <4>2. \A i \in DOMAIN r.host :
               r.host[1] = "[" /\ r.host[i] = "]" => i = Len(r.host) \/ r.host[i + 1] = ":"
        BY <2>4, <2>8, Zenon DEF RequestOK
      <4> QED BY <3>1, <4>1, <4>2, Zenon
    <3>3. /\ h = hostOnly(h) \/ h = hostOnly(h) \o <<":">> \o forwardedPort(h, proto)
          /\ h = hostOnly(h) => forwardedPort(h, proto) = port
      BY <2>6, <3>2, HostAsSeen, Zenon
    <3>4. "X-Forwarded-Host" \notin set /\ "X-Forwarded-Port" \notin set BY <2>8, <2>a, Zenon
    <3>5. u.host = hostOnly(h) /\ u.port = forwardedPort(h, proto) BY <2>8, <2>a, <3>1, <3>4, Zenon
    <3> QED BY <3>1, <3>3, <3>5, Zenon
  <2>9. ASSUME u # None, "X-Forwarded-For" \notin u.router
        PROVE  /\ r.addr = u.xff[Len(u.xff)] \o <<":", r.addr[Len(r.addr)]>>
               /\ r.xff # <<>> /\ r.xff[1] # <<>> => u.xff = <<r.xff[1]>> \o <<u.xff[Len(u.xff)]>>
    <3>1. u.xff = forwardedFor(r) BY <2>9, <2>a, Zenon
    <3> QED BY <2>4, <2>9, <3>1, ClientAsSeen, Zenon
  <2>10. E \intersect (st \union IF u = None THEN {} ELSE u.router) = {}
    <3>1. E \intersect st = {} /\ E \intersect {CanonicalHeaderKey(k) : k \in hs} = {}
      BY <2>3, AllowedClear, Zenon
    <3>2. u # None => E \intersect u.router = {} BY <2>5, <2>a, <3>1, Zenon DEF SetBy
    <3> HIDE DEF E
    <3> QED BY <3>1, <3>2
  <2> QED BY <2>2, <2>5, <2>8, <2>9, <2>10, Zenon DEF ForwardedAsSeen
<1> QED BY <1>1, CallsAsMeant, PTL

-----------------------------------------------------------------------------
(* The two processes.  Of the gateway (GatewayLifecycle), ExitInv says     *)
(* what its main goroutine knows at each statement: that is what makes     *)
(* WorkersJoined and ExitStatusTrue inductive.  Of the routing service     *)
(* (RoutingProcess), DrainInv ties the statement main is at to the state   *)
(* of its route listener and to the calls running on it.                   *)

(* Before mon.Start no goroutine exists; after mon.Stop the monitor is     *)
(* gone or the deadline has passed; and lc.Start's error is a server's, or *)
(* the context was done.                                                   *)
ExitInv ==
    /\ main \in {"listen", "start"} => mon = "off" /\ refr = "off"
    /\ main \in {"listen", "start", "serve"} => startErr = None
    /\ main = "stop" => startErr = "error" \/ ctx
    /\ main \in {"monstop", "join"} => startErr = "error" \/ ctx
    /\ main = "join" => mon = "exited" \/ late
    /\ startErr = "error" => \E s \in Servers : srv[s] = "failed"
    /\ WorkersJoined
    /\ ExitStatusTrue

(* The types are preserved by every step of the process.                   *)
LEMMA TypeStep == TypeOK /\ [Next]_vars => TypeOK'
<1> SUFFICES ASSUME TypeOK, [Next]_vars PROVE TypeOK'
  OBVIOUS
<1> USE LifecycleAssumption DEF TypeOK, Servers, Outcomes, ReqStates, Return
<1>1. CASE MainLive
  <2>1. CASE Listen BY <2>1 DEF Listen
  <2>2. CASE StartMonitor BY <2>2 DEF StartMonitor
  <2>3. CASE ServeError BY <2>3 DEF ServeError
  <2>4. CASE ServeCancelled BY <2>4 DEF ServeCancelled
  <2>5. CASE StopServers BY <2>5 DEF StopServers
  <2>6. CASE StopMonitor BY <2>6 DEF StopMonitor
  <2>7. CASE Join BY <2>7 DEF Join
  <2> QED BY <1>1, <2>1, <2>2, <2>3, <2>4, <2>5, <2>6, <2>7 DEF MainLive
<1>2. CASE ServerLive
  <2>1. ASSUME NEW s \in Servers, Serve(s) PROVE TypeOK' BY <2>1 DEF Serve
  <2>2. ASSUME NEW s \in Servers, ShutdownBegin(s) PROVE TypeOK'
    BY <2>2 DEF ShutdownBegin
  <2>3. ASSUME NEW s \in Servers, ShutdownEnd(s) PROVE TypeOK'
    BY <2>3 DEF ShutdownEnd
  <2> QED BY <1>2, <2>1, <2>2, <2>3 DEF ServerLive
<1>3. CASE Background
  <2>1. CASE ProbeDone BY <2>1 DEF ProbeDone
  <2>2. CASE MonitorTick \/ MonitorExit BY <2>2 DEF MonitorTick, MonitorExit
  <2>3. CASE RefreshTick \/ RefreshDone \/ RefreshExit
    BY <2>3 DEF RefreshTick, RefreshDone, RefreshExit
  <2> QED BY <1>3, <2>1, <2>2, <2>3 DEF Background
<1>4. ASSUME NEW s \in Servers, ServeFails(s) PROVE TypeOK'
  BY <1>4 DEF ServeFails
<1>5. ASSUME NEW r \in Requests, Answer(r) PROVE TypeOK'
  BY <1>5 DEF Answer
<1>6. ASSUME NEW r \in Requests, NEW s \in Servers, Accept(r, s) PROVE TypeOK'
  BY <1>6 DEF Accept
<1>7. CASE Signal BY <1>7 DEF Signal
<1>8. CASE DeadlinePasses BY <1>8 DEF DeadlinePasses
<1>9. CASE UNCHANGED vars BY <1>9 DEF vars
<1> QED BY <1>1, <1>2, <1>3, <1>4, <1>5, <1>6, <1>7, <1>8, <1>9, Zenon DEF Next

(* What the main goroutine knows is preserved by every step.               *)
LEMMA ExitStep == TypeOK /\ ExitInv /\ [Next]_vars => ExitInv'
<1> SUFFICES ASSUME TypeOK, ExitInv, [Next]_vars PROVE ExitInv'
  OBVIOUS
<1> USE LifecycleAssumption
    DEF TypeOK, ExitInv, WorkersJoined, ExitStatusTrue, Servers, Outcomes, Return
<1>1. CASE MainLive
  <2>1. CASE Listen BY <2>1 DEF Listen
  <2>2. CASE StartMonitor BY <2>2 DEF StartMonitor
  <2>3. CASE ServeError BY <2>3 DEF ServeError
  <2>4. CASE ServeCancelled BY <2>4 DEF ServeCancelled
  <2>5. CASE StopServers BY <2>5 DEF StopServers
  <2>6. CASE StopMonitor BY <2>6 DEF StopMonitor
  <2>7. CASE Join BY <2>7 DEF Join
  <2> QED BY <1>1, <2>1, <2>2, <2>3, <2>4, <2>5, <2>6, <2>7, Zenon DEF MainLive
<1>2. CASE main # "returned" /\ ServerLive
  <2>1. ASSUME NEW s \in Servers, Serve(s) PROVE ExitInv' BY <2>1 DEF Serve
  <2>2. ASSUME NEW s \in Servers, ShutdownBegin(s) PROVE ExitInv'
    BY <2>2 DEF ShutdownBegin
  <2>3. ASSUME NEW s \in Servers, ShutdownEnd(s) PROVE ExitInv'
    BY <2>3 DEF ShutdownEnd
  <2> QED BY <1>2, <2>1, <2>2, <2>3 DEF ServerLive
<1>3. CASE main # "returned" /\ Background
  BY <1>3 DEF Background, ProbeDone, MonitorTick, MonitorExit, RefreshTick,
              RefreshDone, RefreshExit
<1>4. ASSUME NEW s \in Servers, ServeFails(s) PROVE ExitInv'
  BY <1>4 DEF ServeFails
<1>5. ASSUME NEW r \in Requests, Answer(r) PROVE ExitInv'
  BY <1>5 DEF Answer
<1>6. ASSUME NEW r \in Requests, NEW s \in Servers, Accept(r, s) PROVE ExitInv'
  BY <1>6 DEF Accept
<1>7. CASE Signal BY <1>7 DEF Signal
<1>8. CASE DeadlinePasses BY <1>8 DEF DeadlinePasses
<1>9. CASE UNCHANGED vars BY <1>9 DEF vars
<1> QED BY <1>1, <1>2, <1>3, <1>4, <1>5, <1>6, <1>7, <1>8, <1>9, Zenon DEF Next

(* Both hold in the process's first state.                                 *)
LEMMA InitInv == Init => TypeOK /\ ExitInv
BY LifecycleAssumption, Zenon
   DEF Init, TypeOK, ExitInv, WorkersJoined, ExitStatusTrue, Servers, Outcomes,
       ReqStates

(* run never returns while a goroutine it started is left (but for a       *)
(* monitor that outlived mon.Stop's deadline): <-refreshDone and mon.Stop  *)
(* do their work on every path, for any number of requests.                *)
THEOREM Joined == Spec => []WorkersJoined
<1>1. TypeOK /\ ExitInv /\ [Next]_vars => TypeOK' /\ ExitInv'
  BY TypeStep, ExitStep
<1>2. TypeOK /\ ExitInv => WorkersJoined
  BY DEF ExitInv
<1> QED BY InitInv, <1>1, <1>2, PTL DEF Spec

(* The process's exit status tells why it ended: nil only after a signal,  *)
(* an error only for a failed start or a failed server, never for a        *)
(* cancelled drain.                                                        *)
THEOREM StatusTrue == Spec => []ExitStatusTrue
<1>1. TypeOK /\ ExitInv /\ [Next]_vars => TypeOK' /\ ExitInv'
  BY TypeStep, ExitStep
<1>2. TypeOK /\ ExitInv => ExitStatusTrue
  BY DEF ExitInv
<1> QED BY InitInv, <1>1, <1>2, PTL DEF Spec

(* Every variable keeps its type: in particular run's result is always one *)
(* of the outcomes main turns into an exit status.                         *)
THEOREM LifecycleTyped == Spec => []TypeOK
<1>1. TypeOK /\ [Next]_vars => TypeOK' BY TypeStep
<1>2. Init => TypeOK BY InitInv
<1> QED BY <1>1, <1>2, PTL DEF Spec
-----------------------------------------------------------------------------
(* The routing service.                                                    *)

ListenerStates ==
    {"off", "starting", "serving", "broken", "failed", "draining", "stopped"}
CallStates == {"none", "running", "done", "cut"}

NoneRunning == \A c \in RouteCalls : rpc[c] # "running"

(* main has not begun to serve, or waits in srv.Start, or srv.Start has    *)
(* returned nil; a listener that is not up yet has no calls, and one that  *)
(* has stopped has none but those that outlived its grace period.          *)
DrainInv ==
    /\ listener \in [Service!Listeners -> ListenerStates]
    /\ rpc \in [Service!Calls -> CallStates]
    /\ mainAt \in {"load", "init", "watch"} => listener["route"] = "off"
    /\ mainAt \in {"admin", "metrics", "defers"} => listener["route"] = "stopped"
    /\ listener["route"] \in {"off", "starting"} => NoneRunning
    /\ listener["route"] = "stopped" => NoneRunning \/ "route" \in hardStop
    /\ RouteCallsDrained

(* Before the process starts there are no calls.                           *)
LEMMA DrainInit == Service!ProcessInit => DrainInv
BY DEF Service!ProcessInit, DrainInv, NoneRunning, RouteCallsDrained,
       Service!RouteCallsDrained, ListenerStates, CallStates, Service!Listeners,
       Service!Calls

(* The exit of main cuts no route call, unless the listener failed or its  *)
(* grace period ran out.                                                   *)
LEMMA ExitDrained ==
    ASSUME DrainInv, NEW code, Service!Exit(code),
           NoneRunning \/ listener["route"] = "failed" \/ "route" \in hardStop
    PROVE  DrainInv'
BY DEF DrainInv, NoneRunning, RouteCallsDrained, Service!RouteCallsDrained,
       ListenerStates, CallStates, Service!Exit, Service!Cut, Service!Calls

(* Every step of the service keeps DrainInv.                               *)
LEMMA DrainStep == ASSUME DrainInv, Service!ProcessNext PROVE DrainInv'
<1> USE DEF DrainInv, NoneRunning, RouteCallsDrained, Service!RouteCallsDrained,
            ListenerStates, CallStates, Service!Listeners
<1>1. CASE Service!Main
  <2>1. CASE Service!LoadConfig
    BY <2>1, ExitDrained DEF Service!LoadConfig
  <2>2. CASE Service!StartMetrics
    BY <2>2, ExitDrained DEF Service!StartMetrics
  <2>3. CASE Service!StartServers
    BY <2>3, ExitDrained DEF Service!StartServers
  <2>4. CASE Service!AwaitServers
    BY <2>4, ExitDrained DEF Service!AwaitServers, Service!NextWait
  <2>5. CASE Service!RunDefers
    BY <2>5, ExitDrained DEF Service!RunDefers
  <2> QED BY <1>1, <2>1, <2>2, <2>3, <2>4, <2>5 DEF Service!Main
<1>2. CASE Service!Signal
  BY <1>2, ExitDrained DEF Service!Signal
<1>3. ASSUME NEW l \in Service!Listeners, Service!Start(l) \/ Service!Select(l)
      PROVE  DrainInv'
  BY <1>3 DEF Service!Start, Service!Select, Service!To
<1>4. ASSUME NEW l \in Service!Listeners, Service!Drained(l) PROVE DrainInv'
  BY <1>4 DEF Service!Drained, Service!To, Service!CallsOf
<1>5. ASSUME NEW l \in Service!Listeners, Service!GraceRunsOut(l) PROVE DrainInv'
  BY <1>5, CallsAssumption
     DEF Service!GraceRunsOut, Service!To, Service!CallsOf, Service!Cut, Service!Calls
<1>6. ASSUME NEW l \in Service!Listeners, Service!ServeBreaks(l) PROVE DrainInv'
  BY <1>6 DEF Service!ServeBreaks, Service!To
<1>7. ASSUME NEW l \in Service!Listeners, NEW c \in Service!Calls, Service!Accept(l, c)
      PROVE  DrainInv'
  BY <1>7, CallsAssumption DEF Service!Accept, Service!CallsOf, Service!Calls
<1>8. ASSUME NEW c \in Service!Calls, Service!Finish(c) PROVE DrainInv'
  BY <1>8 DEF Service!Finish, Service!Calls
<1>9. CASE Service!RouteServer \/ Service!AdminServer \/ Service!MetricsServer
  BY <1>3, <1>4, <1>5, <1>9
     DEF Service!RouteServer, Service!AdminServer, Service!MetricsServer,
         Service!gracefulStopWithTimeout, Service!stopWithTimeout, Service!Shutdown
<1> QED BY <1>1, <1>2, <1>6, <1>7, <1>8, <1>9, Zenon DEF Service!ProcessNext

(* No signal, no failure of the kill-switch or metrics listener and no     *)
(* exit of main leaves a Route call unanswered that the service accepted:  *)
(* only the 30 s of gracefulStopWithTimeout or the failure of the route    *)
(* listener itself do, for any number of calls.                            *)
THEOREM CallsDrained == ProcessesSpec => []RouteCallsDrained
<1>1. ProcessesInit => DrainInv BY DrainInit DEF ProcessesInit
<1>2. DrainInv /\ [ProcessesNext]_<<process, vars, serviceV>> => DrainInv'
  <2> SUFFICES ASSUME DrainInv, [ProcessesNext]_<<process, vars, serviceV>>
               PROVE  DrainInv'
    OBVIOUS
  <2>1. CASE Service!ProcessNext BY <2>1, DrainStep
  <2>2. CASE UNCHANGED serviceV
    BY <2>2 DEF serviceV, DrainInv, NoneRunning, RouteCallsDrained, Service!RouteCallsDrained,
                Service!Calls
  <2> QED BY <2>1, <2>2 DEF ProcessesNext
<1>3. DrainInv => RouteCallsDrained BY DEF DrainInv
<1> QED BY <1>1, <1>2, <1>3, PTL DEF ProcessesSpec
=============================================================================
