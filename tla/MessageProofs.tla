--------------------------- MODULE MessageProofs ----------------------------
(***************************************************************************)
(* Proofs about the messages of dqlitewire, their bodies and their frames: *)
(* every message is read back as it was written, for all messages, sizes   *)
(* and limits.                                                             *)
(***************************************************************************)
EXTENDS MessageTypes, ErrorCodes, WireTypesProofs

(* The codes a failure carries *)

\* No extended SQLite code falls into dqlite's range, so primary_sqlite_code()
\* gives the primary code of every one of them, however large the sub-code.
THEOREM ExtendedCodes ==
  ASSUME NEW p \in 0..(SafePrimary - 1), NEW sub \in Nat
  PROVE  /\ ~is_dqlite_namespace_code(Extended(p, sub))
         /\ primary_sqlite_code(Extended(p, sub)) = p
<1>1. p \in Int /\ 0 <= p /\ p < 232
  BY DEF SafePrimary
<1>2. ~is_dqlite_namespace_code(p + 256 * sub)
  <2>1. CASE sub <= 3
    BY <1>1, <2>1 DEF is_dqlite_namespace_code
  <2>2. CASE sub >= 4
    BY <1>1, <2>2 DEF is_dqlite_namespace_code
  <2>. QED
    BY <2>1, <2>2
<1>3. (p + 256 * sub) % 256 = p
  BY <1>1
<1>. QED
  BY <1>2, <1>3 DEF Extended, primary_sqlite_code

\* No dqlite code is taken for a SQLite primary code, those of today or any
\* below 1000 (the reason primary_sqlite_code() does not mask them).
THEOREM NamespaceCodes ==
  ASSUME NEW code \in Nat, is_dqlite_namespace_code(code)
  PROVE  primary_sqlite_code(code) \notin 0..999
BY DEF primary_sqlite_code, is_dqlite_namespace_code

\* A change of leader, in its new and its legacy form, counts among the errors
\* after which the server has rolled the transaction back.
THEOREM LeaderCodesRollBack ==
  \A c \in LEADER_ERROR_CODES : primary_sqlite_code(c) \in TX_AUTO_ROLLBACK_PRIMARY_CODES
<1>1. \A sub \in Nat : primary_sqlite_code(Extended(SQLITE_IOERR, sub)) = SQLITE_IOERR
  BY ExtendedCodes DEF SQLITE_IOERR, SafePrimary
<1>. QED
  BY <1>1 DEF LEADER_ERROR_CODES, SQLITE_IOERR_NOT_LEADER, SQLITE_IOERR_LEADERSHIP_LOST,
              SQLITE_IOERR_NOT_LEADER_LEGACY, SQLITE_IOERR_LEADERSHIP_LOST_LEGACY,
              TX_AUTO_ROLLBACK_PRIMARY_CODES

-----------------------------------------------------------------------------
(* Parts of a sequence *)

\* d[a:], for an offset in d.
LEMMA FromFacts ==
  ASSUME NEW S, NEW d \in Seq(S), NEW a \in 0..Len(d)
  PROVE  /\ From(d, a) \in Seq(S) /\ Len(From(d, a)) = Len(d) - a
         /\ Len(d) \in Nat /\ Len(d) - a \in Nat
         /\ \A i \in 1..(Len(d) - a) : From(d, a)[i] = d[a + i]
<1>1. Len(d) \in Nat /\ a \in Nat /\ Len(d) - a \in Nat /\ a + (Len(d) - a) = Len(d)
  BY LenProperties
<1> DEFINE k == Len(d) - a
<1>2. a + k <= Len(d)
  BY <1>1
<1> HIDE DEF k
<1>3. /\ SubSeq(d, a + 1, a + k) \in Seq(S) /\ Len(SubSeq(d, a + 1, a + k)) = k
      /\ \A i \in 1..k : SubSeq(d, a + 1, a + k)[i] = d[a + i]
  <2>1. k \in Nat /\ a \in Nat
    BY <1>1 DEF k
  <2> QED
    BY <1>2, <2>1, PartOf, Zenon
<1>4. From(d, a) = SubSeq(d, a + 1, a + k)
  BY <1>1 DEF From, k
<1> QED
  BY <1>1, <1>3, <1>4 DEF k

\* All of d.
LEMMA FromAll ==
  ASSUME NEW S, NEW d \in Seq(S)
  PROVE  From(d, 0) = d
<1>1. 0 \in 0..Len(d) /\ Len(d) \in Nat
  BY LenProperties
<1>2. From(d, 0) \in Seq(S) /\ Len(From(d, 0)) = Len(d)
      /\ \A i \in 1..Len(d) : From(d, 0)[i] = d[i]
  <2>1. From(d, 0) \in Seq(S) /\ Len(From(d, 0)) = Len(d) - 0
        /\ \A i \in 1..(Len(d) - 0) : From(d, 0)[i] = d[0 + i]
    BY <1>1, FromFacts, Zenon
  <2> QED
    BY <1>1, <2>1
<1> QED
  BY <1>1, <1>2, SeqEqual

\* What is behind the first of two joined sequences, and further behind it.
LEMMA Behind ==
  ASSUME NEW S, NEW s \in Seq(S), NEW t \in Seq(S), NEW a \in 0..Len(t)
  PROVE  /\ From(s \o t, Len(s) + a) = From(t, a)
         /\ From(s \o t, Len(s)) = t
         /\ Len(s) + a \in 0..Len(s \o t)
<1>1. /\ s \o t \in Seq(S) /\ Len(s) \in Nat /\ Len(t) \in Nat
      /\ Len(s \o t) = Len(s) + Len(t)
      /\ \A i \in 1..Len(t) : (s \o t)[Len(s) + i] = t[i]
  BY Joined
<1> DEFINE d == s \o t
<1> HIDE DEF d
<1>2. ASSUME NEW b \in 0..Len(t) PROVE From(d, Len(s) + b) = From(t, b)
  <2>1. Len(s) + b \in 0..Len(d) /\ Len(d) - (Len(s) + b) = Len(t) - b /\ Len(t) - b \in Nat
    BY <1>1 DEF d
  <2> DEFINE x == From(d, Len(s) + b)
             y == From(t, b)
  <2>2. x \in Seq(S) /\ Len(x) = Len(t) - b /\ \A i \in 1..(Len(t) - b) : x[i] = d[Len(s) + b + i]
    <3>1. d \in Seq(S)
      BY <1>1 DEF d
    <3>2. x \in Seq(S) /\ Len(x) = Len(d) - (Len(s) + b)
          /\ \A i \in 1..(Len(d) - (Len(s) + b)) : x[i] = d[Len(s) + b + i]
      BY <2>1, <3>1, FromFacts, Zenon
    <3> QED
      BY <2>1, <3>2
  <2>3. y \in Seq(S) /\ Len(y) = Len(t) - b /\ \A i \in 1..(Len(t) - b) : y[i] = t[b + i]
    BY FromFacts, Zenon
  <2> HIDE DEF x, y
  <2>4. ASSUME NEW i \in 1..(Len(t) - b) PROVE x[i] = y[i]
    <3>1. b + i \in 1..Len(t) /\ Len(s) + b + i = Len(s) + (b + i)
      BY <1>1, <2>1
    <3> QED
      BY <1>1, <2>2, <2>3, <3>1 DEF d
  <2>5. x = y
    BY <2>2, <2>3, <2>4, SeqEqual
  <2> QED
    BY <2>5 DEF x, y
<1>3. From(d, Len(s)) = t
  <2>1. 0 \in 0..Len(t) /\ Len(s) + 0 = Len(s)
    BY <1>1
  <2>2. From(d, Len(s) + 0) = From(t, 0)
    BY <1>2, <2>1
  <2> QED
    BY <2>1, <2>2, FromAll
<1> QED
  BY <1>1, <1>2, <1>3 DEF d

\* Going on from an offset and going on again.
LEMMA FromFrom ==
  ASSUME NEW S, NEW d \in Seq(S), NEW a \in 0..Len(d), NEW b \in 0..(Len(d) - a)
  PROVE  From(From(d, a), b) = From(d, a + b) /\ a + b \in 0..Len(d)
<1> DEFINE e == From(d, a)
<1>1. /\ e \in Seq(S) /\ Len(e) = Len(d) - a /\ Len(d) \in Nat
      /\ \A i \in 1..(Len(d) - a) : e[i] = d[a + i]
  BY FromFacts
<1> HIDE DEF e
<1>2. b \in 0..Len(e) /\ a + b \in 0..Len(d) /\ Len(e) - b = Len(d) - (a + b)
  BY <1>1
<1> DEFINE x == From(e, b)
           y == From(d, a + b)
<1>3. x \in Seq(S) /\ Len(x) = Len(e) - b /\ \A i \in 1..(Len(e) - b) : x[i] = e[b + i]
  BY <1>1, <1>2, FromFacts, Zenon
<1>4. y \in Seq(S) /\ Len(y) = Len(d) - (a + b)
      /\ \A i \in 1..(Len(d) - (a + b)) : y[i] = d[(a + b) + i]
  BY <1>1, <1>2, FromFacts, Zenon
<1> HIDE DEF x, y
<1>5. ASSUME NEW i \in 1..Len(x) PROVE x[i] = y[i]
  <2>1. i \in 1..(Len(e) - b) /\ b + i \in 1..(Len(d) - a) /\ a + (b + i) = (a + b) + i
        /\ i \in 1..(Len(d) - (a + b))
    BY <1>1, <1>2, <1>3
  <2> QED
    BY <1>1, <1>3, <1>4, <2>1
<1>6. x = y
  BY <1>2, <1>3, <1>4, <1>5, SeqEqual
<1> QED
  BY <1>2, <1>6 DEF x, y, e

-----------------------------------------------------------------------------
(* Parts joined into one *)

\* f[i] joins the first i parts.
IsFlat(f, parts) ==
  f = [i \in 1..Len(parts) |-> IF i = 1 THEN parts[i] ELSE f[i - 1] \o parts[i]]

\* There are the joins of the first parts, one for each number of parts.
LEMMA Joins ==
  ASSUME NEW S, NEW parts \in Seq(Seq(S))
  PROVE  \E join \in [0..Len(parts) -> Seq(S)] :
           /\ join[0] = <<>>
           /\ \A i \in 1..Len(parts) : join[i] = join[i - 1] \o parts[i]
           /\ FlattenSeq(parts) = join[Len(parts)]
<1> DEFINE N == Len(parts)
           A == Seq(S)
           G == [i \in 1..N |-> [v \in A |-> v \o parts[i]]]
           c == CHOOSE f : IsFlat(f, parts)
<1>1. N \in Nat /\ \A i \in 1..N : parts[i] \in A
  BY LenProperties
<1> HIDE DEF N
<1>2. \A i \in 1..N, v \in A : v \o parts[i] \in A
  BY <1>1, ConcatProperties
<1>3. G \in [1..N -> [A -> A]] /\ \A i \in 1..N, v \in A : G[i][v] = v \o parts[i]
  BY <1>2
<1>4. <<>> \in A
  OBVIOUS
<1> HIDE DEF G, A
<1>5. PICK join \in [0..N -> A] : Recurs(join, N, <<>>, G)
  BY <1>1, <1>3, <1>4, RecursionExists, Zenon
<1>6. /\ join[0] = <<>>
      /\ \A i \in 1..N : i - 1 \in 0..N /\ join[i - 1] \in A /\ join[i] = join[i - 1] \o parts[i]
  <2>1. \A i \in 1..N : i - 1 \in 0..N /\ join[i - 1] \in A
    BY <1>1, <1>5
  <2> QED
    BY <1>3, <1>5, <2>1 DEF Recurs
<1>7. FlattenSeq(parts) = join[N]
  <2>1. CASE N = 0
    <3>1. parts = <<>>
      BY <2>1 DEF N
    <3> QED
      BY <1>6, <2>1, <3>1 DEF FlattenSeq, N
  <2>2. CASE N > 0
    <3> DEFINE f == [i \in 1..N |-> join[i]]
    <3>1. ASSUME NEW i \in 1..N
          PROVE  f[i] = IF i = 1 THEN parts[i] ELSE f[i - 1] \o parts[i]
      <4>1. CASE i = 1
        <5>1. join[1] = join[0] \o parts[1] /\ parts[1] \in Seq(S)
          <6>1. 1 \in 1..N /\ 1 - 1 = 0
            BY <4>1
          <6> QED
            BY <1>1, <1>6, <6>1 DEF A
        <5>2. <<>> \o parts[1] = parts[1]
          BY <5>1, ConcatEmptySeq
        <5> QED
          BY <1>6, <4>1, <5>1, <5>2
      <4>2. CASE i # 1
        <5>1. i - 1 \in 1..N
          BY <1>1, <4>2
        <5> QED
          BY <1>6, <4>2, <5>1
      <4> QED
        BY <4>1, <4>2
    <3>2. IsFlat(f, parts)
      <4>1. f = [i \in 1..N |-> IF i = 1 THEN parts[i] ELSE f[i - 1] \o parts[i]]
        BY <3>1
      <4> HIDE DEF f
      <4> QED
        BY <4>1 DEF IsFlat, N
    <3>3. IsFlat(c, parts)
      BY <3>2
    <3>4. FlattenSeq(parts) = c[N]
      BY <1>1, <2>2 DEF FlattenSeq, IsFlat, N
    <3> HIDE DEF f, c
    <3>5. \A i \in 1..N : c[i] = IF i = 1 THEN parts[i] ELSE c[i - 1] \o parts[i]
      BY <3>3 DEF IsFlat, N
    <3>6. \A i \in 1..N : c[i] = f[i]
      <4> DEFINE I == {n \in Nat : n + 1 \in 1..N => c[n + 1] = f[n + 1]}
      <4>1. 0 \in I
        <5>1. 1 \in 1..N => c[1] = parts[1] /\ f[1] = parts[1]
          BY <3>1, <3>5
        <5> QED
          BY <5>1
      <4>2. ASSUME NEW n \in Nat, n \in I PROVE n + 1 \in I
        <5> SUFFICES ASSUME n + 2 \in 1..N PROVE c[n + 2] = f[n + 2]
          BY <1>1
        <5>1. n + 1 \in 1..N /\ n + 2 # 1 /\ (n + 2) - 1 = n + 1
          BY <1>1
        <5>2. c[n + 1] = f[n + 1]
          BY <4>2, <5>1
        <5>3. c[n + 2] = c[n + 1] \o parts[n + 2] /\ f[n + 2] = f[n + 1] \o parts[n + 2]
          BY <3>1, <3>5, <5>1
        <5> QED
          BY <5>2, <5>3
      <4> HIDE DEF I
      <4>3. \A n \in Nat : n \in I
        BY <4>1, <4>2, SetInduction
      <4>4. ASSUME NEW i \in 1..N PROVE c[i] = f[i]
        <5>1. i - 1 \in Nat /\ (i - 1) + 1 = i
          BY <1>1
        <5> QED
          BY <4>3, <5>1 DEF I
      <4> QED
        BY <4>4
    <3>7. c[N] = join[N]
      BY <1>1, <2>2, <3>6 DEF f
    <3> QED
      BY <3>4, <3>7
  <2> QED
    BY <1>1, <2>1, <2>2
<1> QED
  BY <1>5, <1>6, <1>7 DEF N, A

\* u starts with a and then b, and goes on in some way.
StartsWith(u, a, b, S) ==
  \A t \in Seq(S) : \E rest \in Seq(S) : u \o t = a \o (b \o rest)

\* a and b, joined, start with a and then b.
LEMMA StartsBase ==
  ASSUME NEW S, NEW a \in Seq(S), NEW b \in Seq(S)
  PROVE  StartsWith(a \o b, a, b, S)
<1> SUFFICES ASSUME NEW t \in Seq(S)
             PROVE  \E rest \in Seq(S) : (a \o b) \o t = a \o (b \o rest)
  BY DEF StartsWith
<1>1. (a \o b) \o t = a \o (b \o t)
  BY ConcatAssociative
<1> QED
  BY <1>1

\* What starts with a and then b still does with more behind it.
LEMMA StartsStep ==
  ASSUME NEW S, NEW u \in Seq(S), NEW v \in Seq(S), NEW a, NEW b, StartsWith(u, a, b, S)
  PROVE  StartsWith(u \o v, a, b, S)
<1> SUFFICES ASSUME NEW t \in Seq(S)
             PROVE  \E rest \in Seq(S) : (u \o v) \o t = a \o (b \o rest)
  BY DEF StartsWith
<1>1. (u \o v) \o t = u \o (v \o t)
  BY ConcatAssociative
<1>2. v \o t \in Seq(S)
  BY ConcatProperties
<1>3. PICK rest \in Seq(S) : u \o (v \o t) = a \o (b \o rest)
  BY <1>2 DEF StartsWith
<1> QED
  BY <1>1, <1>3

\* off[k] is where part k + 1 starts and all parts end.
Offsets(off, parts) ==
  /\ off \in [0..Len(parts) -> Nat]
  /\ off[0] = 0
  /\ \A k \in 1..Len(parts) : off[k] = off[k - 1] + Len(parts[k])
  /\ Len(FlattenSeq(parts)) = off[Len(parts)]

\* What is there: the part, and what is behind it.
Located(off, parts, S) ==
  \A tail \in Seq(S), k \in 1..Len(parts) :
    /\ off[k - 1] \in 0..Len(FlattenSeq(parts) \o tail)
    /\ \E rest \in Seq(S) : From(FlattenSeq(parts) \o tail, off[k - 1]) = parts[k] \o rest

\* Parts joined into one: each is found at the sum of the lengths before it.
LEMMA FlattenFacts ==
  ASSUME NEW S, NEW parts \in Seq(Seq(S))
  PROVE  /\ FlattenSeq(parts) \in Seq(S)
         /\ \E off : Offsets(off, parts) /\ Located(off, parts, S)
<1> DEFINE N == Len(parts)
<1>1. N \in Nat /\ \A i \in 1..N : parts[i] \in Seq(S) /\ Len(parts[i]) \in Nat
  BY LenProperties
<1>2. PICK join \in [0..N -> Seq(S)] :
           /\ join[0] = <<>>
           /\ \A i \in 1..N : join[i] = join[i - 1] \o parts[i]
           /\ FlattenSeq(parts) = join[N]
  BY Joins
<1> HIDE DEF N
<1> DEFINE off == [k \in 0..N |-> Len(join[k])]
<1>3. \A k \in 0..N : join[k] \in Seq(S) /\ off[k] = Len(join[k]) /\ off[k] \in Nat
  BY <1>2, LenProperties
<1>4. off \in [0..N -> Nat] /\ off[0] = 0
  BY <1>1, <1>2, <1>3
<1>5. \A k \in 1..N : k - 1 \in 0..N /\ k \in 0..N
  BY <1>1
<1>6. \A k \in 1..N : off[k] = off[k - 1] + Len(parts[k])
  <2>1. ASSUME NEW k \in 1..N PROVE off[k] = off[k - 1] + Len(parts[k])
    <3>1. Len(join[k - 1] \o parts[k]) = Len(join[k - 1]) + Len(parts[k])
      BY <1>1, <1>3, <1>5, Joined
    <3> QED
      BY <1>2, <1>3, <1>5, <3>1
  <2> QED
    BY <2>1
<1> HIDE DEF off
<1>7. FlattenSeq(parts) \in Seq(S) /\ Len(FlattenSeq(parts)) = off[N]
  BY <1>1, <1>2, <1>3
<1>8. ASSUME NEW tail \in Seq(S), NEW k \in 1..N
      PROVE  /\ off[k - 1] \in 0..Len(FlattenSeq(parts) \o tail)
             /\ \E rest \in Seq(S) : From(FlattenSeq(parts) \o tail, off[k - 1]) = parts[k] \o rest
  <2> DEFINE T == {n \in Nat : n <= N - k => StartsWith(join[k + n], join[k - 1], parts[k], S)}
  <2>0. join[k - 1] \in Seq(S) /\ parts[k] \in Seq(S) /\ k \in Nat
    BY <1>1, <1>3, <1>5
  <2>1. 0 \in T
    <3>1. k + 0 = k
      BY <2>0
    <3>2. join[k] = join[k - 1] \o parts[k]
      BY <1>2
    <3>3. StartsWith(join[k - 1] \o parts[k], join[k - 1], parts[k], S)
      BY <2>0, StartsBase
    <3> QED
      BY <3>1, <3>2, <3>3
  <2>2. ASSUME NEW n \in Nat, n \in T PROVE n + 1 \in T
    <3> SUFFICES ASSUME n + 1 <= N - k
                 PROVE  StartsWith(join[k + (n + 1)], join[k - 1], parts[k], S)
      OBVIOUS
    <3> DEFINE j == k + (n + 1)
    <3>1. j \in 1..N /\ j - 1 = k + n /\ j - 1 \in 0..N /\ n <= N - k
      BY <1>1, <2>0
    <3> HIDE DEF j
    <3>2. join[j] = join[j - 1] \o parts[j] /\ join[j - 1] \in Seq(S) /\ parts[j] \in Seq(S)
      BY <1>1, <1>2, <1>3, <3>1
    <3>3. StartsWith(join[j - 1], join[k - 1], parts[k], S)
      BY <2>2, <3>1
    <3>4. StartsWith(join[j - 1] \o parts[j], join[k - 1], parts[k], S)
      BY <3>2, <3>3, StartsStep
    <3> QED
      BY <3>2, <3>4 DEF j
  <2> HIDE DEF T
  <2>3. N - k \in T /\ N - k \in Nat
    <3>1. \A n \in Nat : n \in T
      BY <2>1, <2>2, SetInduction
    <3> QED
      BY <1>1, <2>0, <3>1
  <2>4. StartsWith(join[N], join[k - 1], parts[k], S)
    <3>1. k + (N - k) = N
      BY <1>1, <2>0
    <3> QED
      BY <2>3, <3>1 DEF T
  <2>5. PICK rest \in Seq(S) : join[N] \o tail = join[k - 1] \o (parts[k] \o rest)
    BY <2>4 DEF StartsWith
  <2> DEFINE back == parts[k] \o rest
  <2>6. back \in Seq(S)
    BY <2>0, ConcatProperties
  <2> HIDE DEF back
  <2>7. /\ From(join[k - 1] \o back, Len(join[k - 1])) = back
        /\ Len(join[k - 1]) + 0 \in 0..Len(join[k - 1] \o back)
    <3>1. 0 \in 0..Len(back)
      BY <2>6, LenProperties
    <3> QED
      BY <2>0, <2>6, <3>1, Behind
  <2>8. off[k - 1] = Len(join[k - 1]) /\ off[k - 1] \in Nat /\ off[k - 1] + 0 = off[k - 1]
    BY <1>3, <1>5
  <2> QED
    BY <1>2, <2>5, <2>7, <2>8 DEF back
<1> QED
  <2>1. Offsets(off, parts)
    BY <1>4, <1>6, <1>7 DEF N, Offsets
  <2>2. Located(off, parts, S)
    BY <1>8 DEF N, Located
  <2> QED
    BY <1>7, <2>1, <2>2

-----------------------------------------------------------------------------
(* Words *)

\* Parts of whole words make whole words.
LEMMA FlattenWords ==
  ASSUME NEW parts \in Seq(Bytes), \A k \in 1..Len(parts) : WholeWords(parts[k])
  PROVE  WholeWords(FlattenSeq(parts))
<1> DEFINE N == Len(parts)
<1>1. N \in Nat /\ parts \in Seq(Seq(0..(BYTE - 1)))
  BY LenProperties DEF Bytes
<1>a. FlattenSeq(parts) \in Seq(0..(BYTE - 1)) /\ \E off : Offsets(off, parts)
  BY <1>1, FlattenFacts
<1>b. PICK off : Offsets(off, parts)
  BY <1>a
<1>2. /\ off \in [0..N -> Nat] /\ off[0] = 0
      /\ \A k \in 1..N : off[k] = off[k - 1] + Len(parts[k])
      /\ Len(FlattenSeq(parts)) = off[N]
  BY <1>b DEF Offsets
<1> HIDE DEF N
<1> DEFINE T == {n \in Nat : n <= N => \E words \in Nat : off[n] = words * WORD_SIZE}
<1>3. 0 \in T
  <2>1. 0 * WORD_SIZE = 0 /\ 0 \in Nat
    BY WireSizesAssumption
  <2> QED
    BY <1>2, <2>1
<1>4. ASSUME NEW n \in Nat, n \in T PROVE n + 1 \in T
  <2> SUFFICES ASSUME n + 1 <= N PROVE \E words \in Nat : off[n + 1] = words * WORD_SIZE
    OBVIOUS
  <2>1. n + 1 \in 1..N /\ (n + 1) - 1 = n /\ n <= N
    BY <1>1
  <2>2. PICK v \in Nat : off[n] = v * WORD_SIZE
    BY <1>4, <2>1
  <2>3. PICK w \in Nat : Len(parts[n + 1]) = w * WORD_SIZE
    BY <2>1 DEF WholeWords, N
  <2>4. v + w \in Nat /\ (v + w) * WORD_SIZE = v * WORD_SIZE + w * WORD_SIZE
    BY WireSizesAssumption
  <2>5. off[n + 1] = off[n] + Len(parts[n + 1])
    BY <1>2, <2>1
  <2> QED
    BY <2>2, <2>3, <2>4, <2>5
<1> HIDE DEF T
<1>5. N \in T
  BY <1>1, <1>3, <1>4, SetInduction
<1> QED
  BY <1>a, <1>1, <1>2, <1>5 DEF T, WholeWords, Bytes

\* N parts of at least c make at least N * c.
LEMMA FlattenLength ==
  ASSUME NEW S, NEW parts \in Seq(Seq(S)), NEW c \in Nat,
         \A k \in 1..Len(parts) : Len(parts[k]) >= c
  PROVE  Len(FlattenSeq(parts)) >= Len(parts) * c
<1> DEFINE N == Len(parts)
<1>1. N \in Nat /\ \A k \in 1..N : Len(parts[k]) \in Nat
  BY LenProperties
<1>a. PICK off : Offsets(off, parts)
  BY FlattenFacts
<1>2. /\ off \in [0..N -> Nat] /\ off[0] = 0
      /\ \A k \in 1..N : off[k] = off[k - 1] + Len(parts[k])
      /\ Len(FlattenSeq(parts)) = off[N]
  BY <1>a DEF Offsets
<1> HIDE DEF N
<1> DEFINE T == {n \in Nat : n <= N => off[n] >= n * c}
<1>3. 0 \in T
  <2>1. 0 * c = 0
    OBVIOUS
  <2> QED
    BY <1>2, <2>1
<1>4. ASSUME NEW n \in Nat, n \in T PROVE n + 1 \in T
  <2> SUFFICES ASSUME n + 1 <= N PROVE off[n + 1] >= (n + 1) * c
    OBVIOUS
  <2>1. n + 1 \in 1..N /\ (n + 1) - 1 = n /\ n <= N /\ n \in 0..N
    BY <1>1
  <2>2. off[n + 1] = off[n] + Len(parts[n + 1]) /\ Len(parts[n + 1]) >= c
        /\ Len(parts[n + 1]) \in Nat /\ off[n] \in Nat
    BY <1>1, <1>2, <2>1 DEF N
  <2>3. off[n] >= n * c
    BY <1>4, <2>1
  <2>4. (n + 1) * c = n * c + c /\ n * c \in Nat
    OBVIOUS
  <2> HIDE DEF T
  <2> QED
    BY <2>2, <2>3, <2>4
<1> HIDE DEF T
<1>5. N \in T
  BY <1>1, <1>3, <1>4, SetInduction
<1> QED
  BY <1>2, <1>5 DEF T, N

-----------------------------------------------------------------------------
(* Decoders in turn *)

\* The result after one decoder more.
OneMore(r, next) ==
  Then(r, LAMBDA vals, at : Then(next[at], LAMBDA v, used : Got(Append(vals, v), at + used)))

IsInTurn(f, D) ==
  f = [n \in 0..Len(D) |-> IF n = 0 THEN Got(<<>>, 0) ELSE OneMore(f[n - 1], D[n])]

\* InTurn is the last value of a recursive function.
LEMMA InTurnIs ==
  ASSUME NEW D
  PROVE  InTurn(D) = (CHOOSE f : IsInTurn(f, D))[Len(D)]
  BY DEF InTurn, IsInTurn, OneMore, Then

\* One decoder more: its value behind the others, its bytes behind theirs.
LEMMA OneMoreGot ==
  ASSUME NEW vals, NEW at, NEW next, NEW v, NEW used, next[at] = Got(v, used)
  PROVE  OneMore(Got(vals, at), next) = Got(Append(vals, v), at + used)
<1>1. Got(vals, at).ok /\ Got(vals, at).val = vals /\ Got(vals, at).used = at
  BY DEF Got
<1>2. next[at].ok /\ next[at].val = v /\ next[at].used = used
  BY DEF Got
<1> QED
  BY <1>1, <1>2, Zenon DEF OneMore, Then

\* Every decoder returns its part of w and ends where the next one starts.
InSteps(D, off, w, N) ==
  /\ Len(D) = N /\ Len(w) = N
  /\ off \in [0..N -> Nat] /\ off[0] = 0
  /\ \A k \in 1..N : D[k][off[k - 1]] = Got(w[k], off[k] - off[k - 1])

\* What the decoders return where each starts at the end of the one before it.
LEMMA InTurnGot ==
  ASSUME NEW D, NEW N \in Nat, NEW off, NEW V, NEW w \in Seq(V), InSteps(D, off, w, N)
  PROVE  InTurn(D) = Got(w, off[N])
<1>a. /\ Len(D) = N /\ Len(w) = N
      /\ off \in [0..N -> Nat] /\ off[0] = 0
      /\ \A k \in 1..N : D[k][off[k - 1]] = Got(w[k], off[k] - off[k - 1])
  BY DEF InSteps
<1> USE <1>a
<1> DEFINE p == [n \in 0..N |-> SubSeq(w, 1, n)]
           F == [n \in 0..N |-> Got(p[n], off[n])]
           c == CHOOSE f : IsInTurn(f, D)
<1>0. p[0] = <<>> /\ p[N] = w /\ \A n \in 1..N : p[n] = Append(p[n - 1], w[n])
  <2>1. SubSeq(w, 1, N) = w
    BY SubSeqFull
  <2>2. SubSeq(w, 1, 0) = <<>>
    BY SubSeqEmpty
  <2>3. ASSUME NEW n \in 1..N PROVE SubSeq(w, 1, n) = Append(SubSeq(w, 1, n - 1), w[n])
    <3>1. 1 \in 1..Len(w) /\ n \in 1..Len(w)
      OBVIOUS
    <3>2. SubSeq(w, 1, n) = SubSeq(w, 1, n - 1) \o <<w[n]>>
      BY <3>1, SubSeqRecursiveSecond
    <3>3. SubSeq(w, 1, n - 1) \in Seq(V) /\ w[n] \in V
      OBVIOUS
    <3>4. Append(SubSeq(w, 1, n - 1), w[n]) = SubSeq(w, 1, n - 1) \o <<w[n]>>
      BY <3>3, AppendIsConcat
    <3> QED
      BY <3>2, <3>4
  <2>4. 0 \in 0..N /\ N \in 0..N /\ \A n \in 1..N : n \in 0..N /\ n - 1 \in 0..N
    OBVIOUS
  <2> QED
    BY <2>1, <2>2, <2>3, <2>4
<1> HIDE DEF p
<1>1. ASSUME NEW n \in 1..N PROVE F[n] = OneMore(F[n - 1], D[n])
  <2>1. n - 1 \in 0..N /\ n \in 0..N
    OBVIOUS
  <2>2. F[n - 1] = Got(p[n - 1], off[n - 1]) /\ F[n] = Got(p[n], off[n])
    BY <2>1
  <2> HIDE DEF F
  <2>3. D[n][off[n - 1]] = Got(w[n], off[n] - off[n - 1])
    OBVIOUS
  <2>4. OneMore(Got(p[n - 1], off[n - 1]), D[n]) =
          Got(Append(p[n - 1], w[n]), off[n - 1] + (off[n] - off[n - 1]))
    BY <2>3, OneMoreGot
  <2>5. off[n - 1] + (off[n] - off[n - 1]) = off[n]
    BY <2>1
  <2> QED
    BY <1>0, <2>2, <2>4, <2>5
<1>2. F[0] = Got(<<>>, 0) /\ F[N] = Got(w, off[N])
  BY <1>0
<1>3. IsInTurn(F, D)
  <2>1. F = [n \in 0..N |-> IF n = 0 THEN Got(<<>>, 0) ELSE OneMore(F[n - 1], D[n])]
    <3>1. \A n \in 0..N : n = 0 \/ n \in 1..N
      OBVIOUS
    <3> QED
      BY <1>1, <1>2, <3>1
  <2> HIDE DEF F
  <2> QED
    BY <2>1 DEF IsInTurn
<1>4. IsInTurn(c, D)
  BY <1>3
<1> HIDE DEF c, F
<1>5. c[0] = Got(<<>>, 0) /\ \A n \in 1..N : c[n] = OneMore(c[n - 1], D[n])
  <2>1. c = [n \in 0..N |-> IF n = 0 THEN Got(<<>>, 0) ELSE OneMore(c[n - 1], D[n])]
    BY <1>4 DEF IsInTurn
  <2>2. 0 \in 0..N /\ \A n \in 1..N : n \in 0..N /\ n # 0
    OBVIOUS
  <2> QED
    BY <2>1, <2>2
<1> DEFINE T == {n \in Nat : n <= N => c[n] = F[n]}
<1>6. 0 \in T
  BY <1>2, <1>5
<1>7. ASSUME NEW n \in Nat, n \in T PROVE n + 1 \in T
  <2> SUFFICES ASSUME n + 1 <= N PROVE c[n + 1] = F[n + 1]
    OBVIOUS
  <2>1. n + 1 \in 1..N /\ (n + 1) - 1 = n /\ n <= N
    OBVIOUS
  <2>2. c[n] = F[n]
    BY <1>7, <2>1
  <2>3. F[n + 1] = OneMore(F[n], D[n + 1]) /\ c[n + 1] = OneMore(c[n], D[n + 1])
    BY <1>1, <1>5, <2>1
  <2> QED
    BY <2>2, <2>3
<1> HIDE DEF T
<1>8. N \in T
  BY <1>6, <1>7, SetInduction
<1>9. c[N] = Got(w, off[N])
  BY <1>2, <1>8 DEF T
<1> QED
  BY <1>9, InTurnIs DEF c

\* Decoder k of D reads part k wherever it finds it.
PartsRead(D, parts, tail, w) ==
  /\ Len(D) = Len(parts) /\ Len(w) = Len(parts)
  /\ \A k \in 1..Len(parts) : \A at \in 0..Len(FlattenSeq(parts) \o tail) : \A rest \in Bytes :
       From(FlattenSeq(parts) \o tail, at) = parts[k] \o rest
         => D[k][at] = Got(w[k], Len(parts[k]))

\* Decoders in turn read back parts that were joined.
LEMMA ListRoundTrip ==
  ASSUME NEW parts \in Seq(Bytes), NEW tail \in Bytes, NEW D, NEW V, NEW w \in Seq(V),
         PartsRead(D, parts, tail, w)
  PROVE  InTurn(D) = Got(w, Len(FlattenSeq(parts)))
<1> DEFINE N == Len(parts)
           d == FlattenSeq(parts) \o tail
<1>1. N \in Nat /\ parts \in Seq(Seq(0..(BYTE - 1))) /\ tail \in Seq(0..(BYTE - 1))
      /\ \A k \in 1..N : Len(parts[k]) \in Nat
  BY LenProperties DEF Bytes
<1>a. PICK off : Offsets(off, parts) /\ Located(off, parts, 0..(BYTE - 1))
  BY <1>1, FlattenFacts
<1>2. /\ off \in [0..N -> Nat] /\ off[0] = 0
      /\ \A k \in 1..N : off[k] = off[k - 1] + Len(parts[k])
      /\ Len(FlattenSeq(parts)) = off[N]
  BY <1>a DEF Offsets
<1>3. ASSUME NEW k \in 1..N PROVE D[k][off[k - 1]] = Got(w[k], off[k] - off[k - 1])
  <2>1. off[k - 1] \in 0..Len(d) /\ \E rest \in Bytes : From(d, off[k - 1]) = parts[k] \o rest
    BY <1>1, <1>a, Zenon DEF Bytes, Located
  <2>2. D[k][off[k - 1]] = Got(w[k], Len(parts[k]))
    BY <2>1 DEF PartsRead
  <2>3. off[k] - off[k - 1] = Len(parts[k])
    <3>0. k - 1 \in 0..N
      BY <1>1
    <3>1. off[k] = off[k - 1] + Len(parts[k]) /\ off[k - 1] \in Nat /\ Len(parts[k]) \in Nat
      <4>1. off[k] = off[k - 1] + Len(parts[k]) /\ Len(parts[k]) \in Nat
        BY <1>1, <1>2
      <4>2. off[k - 1] \in Nat
        BY <1>2, <3>0
      <4> QED
        BY <4>1, <4>2
    <3>2. \A a, b, c : b \in Nat /\ c \in Nat /\ a = b + c => a - b = c
      OBVIOUS
    <3> HIDE DEF N, d
    <3> QED
      BY <3>1, <3>2
  <2> QED
    BY <2>2, <2>3
<1> HIDE DEF N, d
<1>4. Len(D) = N /\ Len(w) = N
  BY DEF N, PartsRead
<1>5. InTurn(D) = Got(w, off[N])
  <2>1. \A k \in 1..N : D[k][off[k - 1]] = Got(w[k], off[k] - off[k - 1])
    BY <1>3
  <2>2. N \in Nat /\ off \in [0..N -> Nat] /\ off[0] = 0
    BY <1>1, <1>2
  <2>3. InSteps(D, off, w, N)
    BY <1>4, <2>1, <2>2 DEF InSteps
  <2> QED
    BY <2>2, <2>3, InTurnGot
<1> QED
  BY <1>2, <1>5

-----------------------------------------------------------------------------
(* Values *)

\* A sequence is a sequence over the set of its items.
LEMMA Items ==
  ASSUME NEW s, IsSequence(s)
  PROVE  Len(s) \in Nat /\ DOMAIN s = 1..Len(s) /\ s \in Seq({s[i] : i \in DOMAIN s})
<1>1. Len(s) \in Nat /\ s = [i \in 1..Len(s) |-> s[i]]
  BY DEF IsSequence
<1> DEFINE n == Len(s)
           T == {s[i] : i \in DOMAIN s}
<1> HIDE DEF n, T
<1>2. DOMAIN s = 1..n
  BY <1>1 DEF n
<1>3. s \in [1..n -> T]
  BY <1>1, <1>2 DEF n, T
<1> QED
  BY <1>1, <1>2, <1>3 DEF n, T

\* A sequence over a set is one over every larger set.
LEMMA SeqSubset ==
  ASSUME NEW U, NEW V, U \subseteq V, NEW q \in Seq(U)
  PROVE  q \in Seq(V)
  OBVIOUS

\* Texts are bytes that IsUtf8 accepts.
LEMMA TextFacts ==
  ASSUME NEW s \in AllTexts
  PROVE  s \in Bytes /\ IsUtf8(s)
<1>1. 0..127 \subseteq 0..(BYTE - 1)
  BY DEF BYTE
<1>3. s \in Bytes
  <2>1. s \in Seq(0..127)
    BY DEF AllTexts
  <2> DEFINE U == 0..127
             V == 0..(BYTE - 1)
  <2>2. s \in Seq(U) /\ U \subseteq V
    BY <1>1, <2>1
  <2> HIDE DEF U, V
  <2>3. s \in Seq(V)
    BY <2>2, SeqSubset
  <2> QED
    BY <2>3 DEF V, Bytes
<1>4. s \in Seq(0..127) /\ Len(s) \in Nat /\ DOMAIN s = 1..Len(s)
  BY LenProperties DEF AllTexts
<1>5. \A i \in 1..Len(s) : s[i] \in 0..127
  BY <1>4, ElementOfSeq
<1>6. \A n \in 0..127 : n < 128
  OBVIOUS
<1> QED
  BY <1>3, <1>4, <1>5, <1>6 DEF IsUtf8

\* What a program may give as a value is a Python value of the model.
LEMMA ValueIsPy ==
  ASSUME NEW x, is_value(x)
  PROVE  x \in PyValues
<1>1. x = Py(x.py, x.v)
  BY DEF is_value
<1>2. CASE x.py = "None"
  BY <1>1, <1>2 DEF is_value, PyValues, PyNone
<1>3. CASE x.py = "bool"
  BY <1>1, <1>3 DEF is_value, PyValues
<1>4. CASE x.py = "int"
  BY <1>1, <1>4 DEF is_value, PyValues
<1>5. CASE x.py = "float"
  BY <1>1, <1>5 DEF is_value, PyValues, is_uint64
<1>6. CASE x.py = "str"
  <2>1. x.v \in AllTexts
    BY <1>6 DEF is_value
  <2> QED
    BY <1>1, <1>6, <2>1, TextFacts DEF PyValues
<1>7. CASE x.py = "bytes"
  BY <1>1, <1>7 DEF is_value, PyValues, AllBytes, Bytes
<1>8. x.py \in {"None", "bool", "int", "float", "str", "bytes"}
  BY DEF is_value
<1> QED
  BY <1>2, <1>3, <1>4, <1>5, <1>6, <1>7, <1>8

\* The kinds of Python values.
LEMMA PyKinds ==
  ASSUME NEW x \in PyValues
  PROVE  x.py \in {"None", "bool", "int", "float", "str", "bytes"}
  BY DEF PyValues, Py, PyNone

\* The numbers of the value types.
LEMMA Tags ==
  /\ NULL = 5 /\ BOOLEAN_ = 11 /\ INTEGER = 1 /\ FLOAT = 2 /\ TEXT = 3 /\ BLOB = 4
  /\ UNIXTIME = 9 /\ ISO8601 = 10
  /\ ValueType = {1, 2, 3, 4, 5, 9, 10, 11}
  BY DEF INTEGER, FLOAT, TEXT, BLOB, NULL, UNIXTIME, ISO8601, BOOLEAN_, ValueType

\* What is read back is a value like the one that was sent.
LEMMA AsReadFacts ==
  ASSUME NEW x \in PyValues, NEW t \in ValueType, value_encodable(x, t)
  PROVE  /\ AsRead(x, t) \in PyValues
         /\ value_encodable(AsRead(x, t), t)
         /\ encode_value(AsRead(x, t), t) = encode_value(x, t)
         /\ (x.py = "None" <=> t = NULL)
         /\ (AsRead(x, t).py = "None" <=> t = NULL)
<1>0. x.py = "None" => t = NULL
  BY DEF value_encodable
<1>1. t = NULL => x.py = "None"
  <2> SUFFICES ASSUME t = NULL, x.py # "None" PROVE FALSE
    OBVIOUS
  <2>1. t \notin {BOOLEAN_, INTEGER, UNIXTIME, FLOAT, TEXT, ISO8601, BLOB}
    BY Tags
  <2> QED
    BY <2>1 DEF value_encodable
<1>2. CASE t # BOOLEAN_
  BY <1>0, <1>1, <1>2 DEF AsRead
<1>3. CASE t = BOOLEAN_
  <2>1. t # NULL /\ t \notin {INTEGER, UNIXTIME, FLOAT, TEXT, ISO8601, BLOB}
    BY <1>3, Tags
  <2>2. x.py # "None" /\ boolean_encodable(x)
    BY <1>3, <2>1 DEF value_encodable
  <2>3. x.v \in {0, 1}
    BY <2>2, ValueContents DEF boolean_encodable
  <2> DEFINE y == AsRead(x, t)
  <2>4. y = Py("bool", x.v) /\ y.py = "bool" /\ y.v = x.v
    BY <1>3 DEF AsRead, Py
  <2>5. y \in PyValues
    BY <2>3, <2>4 DEF PyValues
  <2> HIDE DEF y
  <2>6. value_encodable(y, t)
    <3>1. y.py # "None" /\ boolean_encodable(y)
      BY <2>4 DEF boolean_encodable
    <3> QED
      BY <1>3, <2>1, <3>1 DEF value_encodable
  <2>7. encode_value(y, t) = encode_uint64(y.v) /\ encode_value(x, t) = encode_uint64(x.v)
    BY <1>3, <2>1 DEF encode_value
  <2> QED
    BY <1>0, <1>1, <2>1, <2>4, <2>5, <2>6, <2>7 DEF y
<1> QED
  BY <1>2, <1>3

\* The type inferred from a value is no date, and it reads back as the value itself.
LEMMA Inferred ==
  ASSUME NEW x \in PyValues
  PROVE  /\ infer_value_type(x) \in ValueType \ {UNIXTIME, ISO8601}
         /\ value_encodable(x, infer_value_type(x)) => AsRead(x, infer_value_type(x)) = x
<1>1. x.py \in {"None", "bool", "int", "float", "str", "bytes"} /\ x = Py(x.py, x.v)
  BY PyKinds, ValueContents
<1>2. infer_value_type(x) \in ValueType \ {UNIXTIME, ISO8601}
  BY <1>1, Tags DEF infer_value_type
<1>3. infer_value_type(x) = BOOLEAN_ => x.py = "bool"
  BY <1>1, Tags DEF infer_value_type
<1> QED
  BY <1>1, <1>2, <1>3 DEF AsRead

-----------------------------------------------------------------------------
(* Lists *)

\* The values and the types of a row or of parameters.
ValuesFit(xs, types) ==
  /\ IsSequence(xs) /\ types \in Seq(ValueType) /\ Len(xs) = Len(types)
  /\ \A i \in 1..Len(xs) : xs[i] \in PyValues /\ value_encodable(xs[i], types[i])

AllAsRead(xs, types) == [i \in 1..Len(xs) |-> AsRead(xs[i], types[i])]

ValueBytes(xs, types) == FlattenSeq([i \in DOMAIN xs |-> encode_value(xs[i], types[i])])

\* Values written one behind the other are read back under their types, whatever
\* follows them (encode_row_values and decode_row_values, and the values of the
\* parameters).
THEOREM ValuesRoundTrip ==
  ASSUME NEW xs, NEW types, ValuesFit(xs, types), NEW tail \in Bytes
  PROVE  /\ WholeWords(ValueBytes(xs, types))
         /\ Each(types, decode_value, ValueBytes(xs, types) \o tail)
              = Got(AllAsRead(xs, types), Len(ValueBytes(xs, types)))
<1> DEFINE N == Len(xs)
           parts == [i \in DOMAIN xs |-> encode_value(xs[i], types[i])]
           w == AllAsRead(xs, types)
           b == FlattenSeq(parts)
           d == b \o tail
           D == [n \in 1..Len(types) |-> [at \in 0..Len(d) |-> decode_value(From(d, at), types[n])]]
<1>1. N \in Nat /\ DOMAIN xs = 1..N /\ Len(types) = N /\ \A i \in 1..N : types[i] \in ValueType
  BY Items DEF ValuesFit
<1>2. \A i \in 1..N : xs[i] \in PyValues /\ value_encodable(xs[i], types[i])
  BY DEF ValuesFit
<1>3. \A i \in 1..N : \A rest \in Bytes :
           /\ WholeWords(encode_value(xs[i], types[i]))
           /\ decode_value(encode_value(xs[i], types[i]) \o rest, types[i])
                = Got(AsRead(xs[i], types[i]), Len(encode_value(xs[i], types[i])))
  BY <1>1, <1>2, ValueRoundTrip
<1> HIDE DEF N
<1>4. parts = [i \in 1..N |-> encode_value(xs[i], types[i])]
  BY <1>1
<1>5. parts \in Seq(Bytes) /\ Len(parts) = N
  <2>1. \A i \in 1..N : encode_value(xs[i], types[i]) \in Bytes
    BY <1>3 DEF WholeWords
  <2> QED
    BY <1>1, <1>4, <2>1
<1>6. \A i \in 1..N : parts[i] = encode_value(xs[i], types[i])
  BY <1>4
<1>7. w \in Seq(PyValues) /\ Len(w) = N /\ \A i \in 1..N : w[i] = AsRead(xs[i], types[i])
  <2>1. \A i \in 1..N : AsRead(xs[i], types[i]) \in PyValues
    BY <1>1, <1>2, AsReadFacts
  <2>2. w = [i \in 1..N |-> AsRead(xs[i], types[i])]
    BY DEF AllAsRead, N
  <2> QED
    BY <1>1, <2>1, <2>2
<1> HIDE DEF parts, w
<1>8. Len(D) = N /\ \A k \in 1..N : \A at \in 0..Len(d) : D[k][at] = decode_value(From(d, at), types[k])
  BY <1>1
<1>9. InTurn(D) = Each(types, decode_value, d)
  BY DEF Each
<1> HIDE DEF D
<1>10. PartsRead(D, parts, tail, w)
  <2>1. ASSUME NEW k \in 1..N, NEW at \in 0..Len(d), NEW rest \in Bytes,
               From(d, at) = parts[k] \o rest
        PROVE  D[k][at] = Got(w[k], Len(parts[k]))
    BY <1>3, <1>6, <1>7, <1>8, <2>1, Zenon
  <2> QED
    BY <1>5, <1>7, <1>8, <2>1 DEF PartsRead
<1>11. InTurn(D) = Got(w, Len(b))
  BY <1>5, <1>7, <1>10, ListRoundTrip
<1>12. WholeWords(b)
  BY <1>3, <1>5, <1>6, FlattenWords
<1>13. b = ValueBytes(xs, types)
  BY DEF ValueBytes, parts
<1> QED
  BY <1>9, <1>11, <1>12, <1>13 DEF w

-----------------------------------------------------------------------------
(* Sizes of numbers and texts *)

\* More bytes hold more numbers.
LEMMA CodesGrow ==
  ASSUME NEW m \in Nat, NEW n \in Nat, m <= n
  PROVE  Codes(m) <= Codes(n)
<1> DEFINE T == {k \in Nat : Codes(m) <= Codes(m + k)}
<1>0. Codes(m) \in Nat /\ m + 0 = m
  BY CodesFacts
<1>1. 0 \in T
  BY <1>0
<1>2. ASSUME NEW k \in Nat, k \in T PROVE k + 1 \in T
  <2>1. m + k \in Nat /\ (m + k) + 1 = m + (k + 1)
    OBVIOUS
  <2>2. Codes(m + k) \in Nat /\ Codes((m + k) + 1) = BYTE * Codes(m + k)
    BY <2>1, CodesFacts
  <2> DEFINE p == Codes(m + k)
             q == Codes(m + (k + 1))
  <2>3. p \in Nat /\ q = 256 * p /\ Codes(m) <= p
    BY <1>2, <2>1, <2>2 DEF BYTE
  <2> HIDE DEF p, q
  <2>4. Codes(m) <= q
    BY <1>0, <2>3
  <2> QED
    BY <2>4 DEF q
<1> HIDE DEF T
<1>3. n - m \in T
  BY <1>1, <1>2, SetInduction
<1>4. m + (n - m) = n
  OBVIOUS
<1> QED
  BY <1>3, <1>4 DEF T

\* A text takes a word or more.
LEMMA TextSize ==
  ASSUME NEW s \in Bytes
  PROVE  Len(encode_text(s)) >= WORD_SIZE /\ Len(encode_text(s)) \in Nat
<1> DEFINE n == Len(s)
           z == 1 + pad_to_word(n + 1)
<1>1. n \in Nat /\ n + 1 \in Nat
  BY LenProperties DEF Bytes
<1>2. pad_to_word(n + 1) \in 0..(WORD_SIZE - 1)
      /\ \E words \in 0..((n + 1) + pad_to_word(n + 1)) :
              words * WORD_SIZE = (n + 1) + pad_to_word(n + 1)
  BY <1>1, Padding
<1>3. z \in Nat /\ Zeros(z) \in Bytes /\ Len(Zeros(z)) = z
  <2>1. z \in Nat
    BY <1>2, WireSizesAssumption
  <2> QED
    BY <2>1, ZerosFacts
<1>4. Len(encode_text(s)) = n + z
  <2>1. Len(s \o Zeros(z)) = Len(s) + Len(Zeros(z))
    BY <1>3, Joined DEF Bytes
  <2> QED
    BY <1>3, <2>1 DEF encode_text
<1>5. PICK words \in Nat : words * WORD_SIZE = n + z
  <2> HIDE DEF n
  <2>1. PICK words \in 0..((n + 1) + pad_to_word(n + 1)) :
              words * WORD_SIZE = (n + 1) + pad_to_word(n + 1)
    BY <1>2
  <2>2. (n + 1) + pad_to_word(n + 1) = n + z
    BY <1>1, <1>2, WireSizesAssumption
  <2>3. words \in Nat
    BY <2>1
  <2> HIDE DEF z
  <2> QED
    BY <2>1, <2>2, <2>3
<1>6. words # 0
  <2>1. n + z > 0
    BY <1>1, <1>2, WireSizesAssumption
  <2>2. 0 * WORD_SIZE = 0
    BY WireSizesAssumption
  <2> HIDE DEF n, z
  <2> QED
    BY <1>5, <2>1, <2>2
<1> HIDE DEF n, z
<1>7. words * WORD_SIZE >= WORD_SIZE
  <2>1. PICK k \in Nat : words = k + 1
    <3>1. words - 1 \in Nat /\ words = (words - 1) + 1
      BY <1>6
    <3> QED
      BY <3>1
  <2>2. (k + 1) * WORD_SIZE = k * WORD_SIZE + WORD_SIZE /\ k * WORD_SIZE \in Nat
    BY WireSizesAssumption
  <2> QED
    BY <2>1, <2>2, WireSizesAssumption
<1> QED
  BY <1>1, <1>3, <1>4, <1>5, <1>7

-----------------------------------------------------------------------------
(* Fields *)

FieldOk(f) ==
  /\ f.of \in {"uint", "reserved", "text", "view"}
  /\ f.size \in Nat /\ f.max \in Nat
  /\ f.of = "uint" => f.max < Codes(f.size)

\* The value is a text where the field is one.
FieldFits(x, f) ==
  /\ FieldOk(f) /\ field_encodable(x, f)
  /\ f.of \in {"text", "view"} => x \in AllTexts

\* Reserved bytes read as 0.
FieldRead(x, f) == IF f.of = "reserved" THEN 0 ELSE x

\* A field reads back, whatever follows it.
LEMMA FieldRoundTrip ==
  ASSUME NEW x, NEW f, FieldFits(x, f), NEW tail \in Bytes
  PROVE  /\ encode_field(x, f) \in Bytes
         /\ f.of \in {"uint", "reserved"} => Len(encode_field(x, f)) = f.size
         /\ f.of \in {"text", "view"} => WholeWords(encode_field(x, f))
         /\ decode_field(encode_field(x, f) \o tail, f)
              = Got(FieldRead(x, f), Len(encode_field(x, f)))
<1> DEFINE b == encode_field(x, f)
           d == b \o tail
           size == f.size
           max == f.max
<1>0. f.of \in {"uint", "reserved", "text", "view"} /\ size \in Nat /\ max \in Nat
  BY DEF FieldFits, FieldOk
<1>1. CASE f.of = "uint"
  <2>1. x \in 0..max /\ max < Codes(size) /\ Codes(size) \in Nat
    BY <1>0, <1>1, CodesFacts DEF FieldFits, FieldOk, field_encodable
  <2>2. x \in 0..(Codes(size) - 1) /\ x \in Nat /\ ~(x > max)
    BY <1>0, <2>1
  <2>3. b = LittleEndian(x, size)
    BY <1>1 DEF encode_field
  <2>4. b \in Bytes /\ Len(b) = size /\ decode_uint(d, size) = Got(x, size)
    BY <1>0, <2>2, <2>3, LittleEndianBytes, UintRoundTrip DEF Bytes
  <2> HIDE DEF b, d
  <2>5. decode_field(d, f) = Then(decode_uint(d, size), LAMBDA n, used :
                                    IF n > max THEN Fail ELSE Got(n, used))
    BY <1>1 DEF decode_field, Then
  <2>6. decode_field(d, f) = Got(x, size)
    BY <2>2, <2>4, <2>5 DEF Then, Got
  <2> QED
    BY <1>1, <2>4, <2>6 DEF b, d, FieldRead
<1>2. CASE f.of = "reserved"
  <2>1. b = Zeros(size)
    BY <1>2 DEF encode_field
  <2>2. b \in Bytes /\ Len(b) = size
    BY <1>0, <2>1, ZerosFacts
  <2> HIDE DEF b
  <2>3. ~(Len(d) < size)
    <3>1. Len(d) = Len(b) + Len(tail) /\ Len(tail) \in Nat
      BY <2>2, Joined DEF Bytes
    <3> HIDE DEF d
    <3> QED
      BY <1>0, <2>2, <3>1
  <2> HIDE DEF d
  <2>4. decode_uint(d, size) = Got(Number(SubSeq(d, 1, size)), size)
    BY <2>3 DEF decode_uint
  <2>5. decode_field(d, f) = Then(decode_uint(d, size), LAMBDA n, used : Got(0, used))
    BY <1>2 DEF decode_field, Then
  <2>6. decode_field(d, f) = Got(0, size)
    BY <2>4, <2>5 DEF Then, Got
  <2> QED
    BY <1>2, <2>2, <2>6 DEF b, d, FieldRead
<1>3. CASE f.of \in {"text", "view"}
  <2>1. x \in Bytes /\ IsUtf8(x) /\ text_encodable(x, max)
    BY <1>3, TextFacts DEF FieldFits, field_encodable
  <2>2. b = encode_text(x)
    BY <1>3 DEF encode_field
  <2>3. b \in Bytes /\ WholeWords(b) /\ decode_text_view(d, max) = Got(x, Len(b))
    BY <1>0, <2>1, <2>2, TextRoundTrip DEF WholeWords
  <2>4. decode_text(d, max) = decode_text_view(d, max)
    <3>1. d \in Seq(0..(BYTE - 1))
      BY <2>3, Joined DEF Bytes
    <3> HIDE DEF d
    <3> QED
      BY <1>0, <3>1, ViewIsBytes
  <2> HIDE DEF b, d
  <2>5. decode_field(d, f) = Got(x, Len(b))
    BY <1>3, <2>3, <2>4 DEF decode_field
  <2> QED
    BY <1>3, <2>3, <2>5 DEF b, d, FieldRead
<1> QED
  BY <1>0, <1>1, <1>2, <1>3

\* Fields that can be written with a layout.
FieldsFit(xs, layout) ==
  /\ IsSequence(layout)
  /\ \A i \in 1..Len(layout) : FieldFits(xs[i], layout[i])

FieldsRead(xs, layout) == [i \in 1..Len(layout) |-> FieldRead(xs[i], layout[i])]

\* Every field fills words, or the first two share one.
WordLayout(layout) ==
  /\ \A i \in 3..Len(layout) : layout[i].of \in {"text", "view"} \/ layout[i].size \in {0, WORD_SIZE}
  /\ \/ \A i \in 1..Len(layout) :
           layout[i].of \in {"text", "view"} \/ layout[i].size \in {0, WORD_SIZE}
     \/ /\ Len(layout) >= 2
        /\ {layout[1].of, layout[2].of} \subseteq {"uint", "reserved"}
        /\ layout[1].size + layout[2].size = WORD_SIZE

\* Two parts that share a word, and whole words behind them.
LEMMA FlattenPair ==
  ASSUME NEW parts \in Seq(Bytes), Len(parts) >= 2, Len(parts[1]) + Len(parts[2]) = WORD_SIZE,
         \A k \in 3..Len(parts) : WholeWords(parts[k])
  PROVE  WholeWords(FlattenSeq(parts))
<1> DEFINE N == Len(parts)
<1>1. N \in Nat /\ parts \in Seq(Seq(0..(BYTE - 1)))
  BY LenProperties DEF Bytes
<1>a. FlattenSeq(parts) \in Seq(0..(BYTE - 1)) /\ \E off : Offsets(off, parts)
  BY <1>1, FlattenFacts
<1>b. PICK off : Offsets(off, parts)
  BY <1>a
<1>2. /\ off \in [0..N -> Nat] /\ off[0] = 0
      /\ \A k \in 1..N : off[k] = off[k - 1] + Len(parts[k])
      /\ Len(FlattenSeq(parts)) = off[N]
  BY <1>b DEF Offsets
<1>c. N >= 2
  OBVIOUS
<1>d. \A k \in 1..N : Len(parts[k]) \in Nat
  BY <1>1, LenProperties
<1> HIDE DEF N
<1> DEFINE T == {n \in Nat : n + 2 <= N => \E words \in Nat : off[n + 2] = words * WORD_SIZE}
<1>3. 0 \in T
  <2>1. 1 * WORD_SIZE = WORD_SIZE /\ 1 \in Nat /\ 0 + 2 = 2
    BY WireSizesAssumption
  <2>2. 1 \in 1..N /\ 2 \in 1..N /\ 1 - 1 = 0 /\ 2 - 1 = 1
    BY <1>1, <1>c
  <2>3. off[1] = off[0] + Len(parts[1]) /\ off[2] = off[1] + Len(parts[2])
    BY <1>2, <2>2
  <2>4. Len(parts[1]) \in Nat /\ Len(parts[2]) \in Nat
    BY <1>d, <2>2
  <2>5. off[2] = WORD_SIZE
    <3>1. \A a, b, c, e, f : a = 0 /\ b = a + e /\ c = b + f /\ e \in Nat /\ f \in Nat => c = e + f
      OBVIOUS
    <3>2. off[2] = Len(parts[1]) + Len(parts[2])
      BY <1>2, <2>3, <2>4, <3>1
    <3> QED
      BY <3>2
  <2> QED
    BY <2>1, <2>5
<1>4. ASSUME NEW n \in Nat, n \in T PROVE n + 1 \in T
  <2> SUFFICES ASSUME (n + 1) + 2 <= N PROVE \E words \in Nat : off[(n + 1) + 2] = words * WORD_SIZE
    OBVIOUS
  <2> DEFINE k == (n + 1) + 2
  <2>1. k \in 3..N /\ k \in 1..N /\ k - 1 = n + 2 /\ n + 2 <= N
    BY <1>1
  <2>2. PICK v \in Nat : off[n + 2] = v * WORD_SIZE
    BY <1>4, <2>1
  <2> HIDE DEF k
  <2>3. PICK w \in Nat : Len(parts[k]) = w * WORD_SIZE
    BY <2>1 DEF WholeWords, N
  <2>4. v + w \in Nat /\ (v + w) * WORD_SIZE = v * WORD_SIZE + w * WORD_SIZE
    BY WireSizesAssumption
  <2>5. off[k] = off[n + 2] + Len(parts[k])
    BY <1>2, <2>1
  <2> QED
    BY <2>2, <2>3, <2>4, <2>5 DEF k
<1> HIDE DEF T
<1>5. N - 2 \in T
  <2>1. N - 2 \in Nat
    BY <1>1, <1>c
  <2>2. \A n \in Nat : n \in T
    BY <1>3, <1>4, SetInduction
  <2> QED
    BY <2>1, <2>2
<1>6. (N - 2) + 2 = N /\ N - 2 \in Nat
  BY <1>1, <1>c
<1>7. \E words \in Nat : off[N] = words * WORD_SIZE
  BY <1>1, <1>5, <1>6 DEF T
<1> QED
  BY <1>a, <1>2, <1>7 DEF WholeWords, Bytes

\* The fields of a layout read back, whatever follows them (encode_fields and
\* decode_fields).
THEOREM FieldsRoundTrip ==
  ASSUME NEW xs, NEW layout, FieldsFit(xs, layout), NEW tail \in Bytes
  PROVE  /\ encode_fields(xs, layout) \in Bytes
         /\ WordLayout(layout) => WholeWords(encode_fields(xs, layout))
         /\ decode_fields(encode_fields(xs, layout) \o tail, layout)
              = Got(FieldsRead(xs, layout), Len(encode_fields(xs, layout)))
<1> DEFINE N == Len(layout)
           parts == [i \in DOMAIN layout |-> encode_field(xs[i], layout[i])]
           w == FieldsRead(xs, layout)
           b == FlattenSeq(parts)
           d == b \o tail
           D == [n \in 1..Len(layout) |-> [at \in 0..Len(d) |-> decode_field(From(d, at), layout[n])]]
<1>1. N \in Nat /\ DOMAIN layout = 1..N
  BY Items DEF FieldsFit
<1>3. \A i \in 1..N : \A rest \in Bytes :
         /\ encode_field(xs[i], layout[i]) \in Bytes
         /\ layout[i].of \in {"uint", "reserved"} =>
              Len(encode_field(xs[i], layout[i])) = layout[i].size
         /\ layout[i].of \in {"text", "view"} => WholeWords(encode_field(xs[i], layout[i]))
         /\ decode_field(encode_field(xs[i], layout[i]) \o rest, layout[i])
              = Got(FieldRead(xs[i], layout[i]), Len(encode_field(xs[i], layout[i])))
  BY FieldRoundTrip DEF FieldsFit
<1>f. \A i \in 1..N : layout[i].of \in {"uint", "reserved", "text", "view"}
  BY DEF FieldsFit, FieldFits, FieldOk
<1> HIDE DEF N
<1>4. parts = [i \in 1..N |-> encode_field(xs[i], layout[i])]
  BY <1>1
<1>5. parts \in Seq(Bytes) /\ Len(parts) = N
  <2>1. \A i \in 1..N : encode_field(xs[i], layout[i]) \in Bytes
    BY <1>3
  <2> QED
    BY <1>1, <1>4, <2>1
<1>6. \A i \in 1..N : parts[i] = encode_field(xs[i], layout[i])
  BY <1>4
<1> DEFINE V == {FieldRead(xs[i], layout[i]) : i \in 1..N}
<1>7. w \in Seq(V) /\ Len(w) = N /\ \A i \in 1..N : w[i] = FieldRead(xs[i], layout[i])
  <2>2. w = [i \in 1..N |-> FieldRead(xs[i], layout[i])]
    BY DEF FieldsRead, N
  <2> QED
    BY <1>1, <2>2
<1> HIDE DEF parts, w, V
<1>8. Len(D) = N /\ \A k \in 1..N : \A at \in 0..Len(d) : D[k][at] = decode_field(From(d, at), layout[k])
  BY <1>1 DEF N
<1>9. InTurn(D) = decode_fields(d, layout)
  BY DEF Each, decode_fields
<1> HIDE DEF D
<1>10. PartsRead(D, parts, tail, w)
  <2>1. ASSUME NEW k \in 1..N, NEW at \in 0..Len(d), NEW rest \in Bytes,
               From(d, at) = parts[k] \o rest
        PROVE  D[k][at] = Got(w[k], Len(parts[k]))
    <3>1. decode_field(parts[k] \o rest, layout[k]) = Got(FieldRead(xs[k], layout[k]), Len(parts[k]))
      BY <1>3, <1>6
    <3> QED
      BY <1>7, <1>8, <2>1, <3>1
  <2> QED
    BY <1>5, <1>7, <1>8, <2>1 DEF PartsRead
<1>11. InTurn(D) = Got(w, Len(b))
  BY <1>5, <1>7, <1>10, ListRoundTrip
<1>12. b \in Bytes
  <2>1. parts \in Seq(Seq(0..(BYTE - 1)))
    BY <1>5 DEF Bytes
  <2> QED
    BY <2>1, FlattenFacts DEF Bytes
<1>13. b = encode_fields(xs, layout)
  BY DEF encode_fields, parts
<1>14. ASSUME WordLayout(layout) PROVE WholeWords(b)
  <2>1. ASSUME NEW i \in 1..N, layout[i].of \in {"text", "view"} \/ layout[i].size \in {0, WORD_SIZE}
        PROVE  WholeWords(parts[i])
    <3>1. CASE layout[i].of \in {"text", "view"}
      BY <1>3, <1>6, <3>1 DEF Bytes
    <3>2. CASE layout[i].of \in {"uint", "reserved"}
      <4>1. parts[i] \in Bytes /\ Len(parts[i]) \in {0, WORD_SIZE}
        BY <1>3, <1>6, <2>1, <3>2, Zenon
      <4>2. 0 = 0 * WORD_SIZE /\ 0 \in Nat
        BY WireSizesAssumption
      <4> QED
        BY <4>1, <4>2, OneWord DEF WholeWords
    <3> QED
      BY <1>f, <3>1, <3>2
  <2>2. CASE \A i \in 1..N : layout[i].of \in {"text", "view"} \/ layout[i].size \in {0, WORD_SIZE}
    BY <1>5, <2>1, <2>2, FlattenWords
  <2>3. CASE /\ N >= 2
             /\ {layout[1].of, layout[2].of} \subseteq {"uint", "reserved"}
             /\ layout[1].size + layout[2].size = WORD_SIZE
    <3>1. 1 \in 1..N /\ 2 \in 1..N /\ \A i \in 3..N : i \in 1..N
      BY <1>1, <2>3
    <3>2. Len(parts[1]) = layout[1].size /\ Len(parts[2]) = layout[2].size
      <4>1. layout[1].of \in {"uint", "reserved"} /\ layout[2].of \in {"uint", "reserved"}
        BY <2>3
      <4>2. tail \in Bytes
        OBVIOUS
      <4> QED
        BY <1>3, <1>6, <3>1, <4>1, <4>2, Zenon
    <3>3. \A i \in 3..N : WholeWords(parts[i])
      BY <1>14, <2>1, <3>1 DEF WordLayout, N
    <3> QED
      BY <1>5, <2>3, <3>2, <3>3, FlattenPair
  <2> QED
    BY <1>14, <2>2, <2>3 DEF WordLayout, N
<1> QED
  BY <1>9, <1>11, <1>12, <1>13, <1>14 DEF w

-----------------------------------------------------------------------------
(* Layouts *)

\* A field that fills words.
WordField(f) == FieldOk(f) /\ (f.of \in {"text", "view"} \/ f.size \in {0, WORD_SIZE})

LayoutOk(layout) ==
  /\ IsSequence(layout) /\ WordLayout(layout)
  /\ \A i \in 1..Len(layout) : FieldOk(layout[i])

\* A word holds a uint32 and a rest.
LEMMA Sizes ==
  /\ WORD_SIZE \in Nat \ {0} /\ UINT32_SIZE \in Nat \ {0} /\ WORD_SIZE - UINT32_SIZE \in Nat
  /\ UINT32_SIZE + (WORD_SIZE - UINT32_SIZE) = WORD_SIZE
  BY WireSizesAssumption, TupleSizesAssumption

\* A number of so many bytes is a field.
LEMMA UintOk ==
  ASSUME NEW size \in Nat
  PROVE  /\ FieldOk(uint(size)) /\ uint(size).of = "uint" /\ uint(size).size = size
         /\ uint(size).max = Codes(size) - 1
<1>1. Codes(size) \in Nat \ {0}
  BY CodesFacts
<1> DEFINE c == Codes(size)
           f == uint(size)
<1>2. f.of = "uint" /\ f.size = size /\ f.max = c - 1
  BY DEF uint, Field
<1>3. c - 1 \in Nat /\ c - 1 < c
  BY <1>1
<1> HIDE DEF f
<1>4. FieldOk(f)
  BY <1>2, <1>3 DEF FieldOk
<1> QED
  BY <1>2, <1>4 DEF f

\* A capped word is a field.
LEMMA CappedOk ==
  ASSUME NEW max \in Nat, max < WordRange
  PROVE  WordField(capped(max)) /\ capped(max).of = "uint" /\ capped(max).size = WORD_SIZE
         /\ capped(max).max = max
<1> DEFINE f == capped(max)
<1>1. f.of = "uint" /\ f.size = WORD_SIZE /\ f.max = max
  BY DEF capped, Field
<1> HIDE DEF f
<1>2. FieldOk(f)
  BY <1>1, Sizes DEF FieldOk, WordRange
<1> QED
  BY <1>1, <1>2 DEF WordField, f

\* So is a whole word.
LEMMA Uint64Ok == WordField(uint64) /\ uint64.of = "uint" /\ uint64.size = WORD_SIZE
<1>1. FieldOk(uint64) /\ uint64.size = WORD_SIZE /\ uint64.of = "uint"
  BY UintOk, Sizes DEF uint64
<1> QED
  BY <1>1 DEF WordField

\* So are the two parts of a word.
LEMMA Uint32Ok ==
  /\ FieldOk(uint32) /\ uint32.of = "uint" /\ uint32.size = UINT32_SIZE
  /\ FieldOk(uint32_rest) /\ uint32_rest.of = "uint" /\ uint32_rest.size = WORD_SIZE - UINT32_SIZE
  BY UintOk, Sizes DEF uint32, uint32_rest

\* So are reserved bytes.
LEMMA ReservedOk ==
  ASSUME NEW size \in Nat
  PROVE  FieldOk(reserved(size)) /\ reserved(size).of = "reserved" /\ reserved(size).size = size
  BY DEF reserved, Field, FieldOk

\* So are texts.
LEMMA TextsOk ==
  ASSUME NEW max \in Nat
  PROVE  WordField(text(max)) /\ WordField(text_view(max))
         /\ text(max).of = "text" /\ text_view(max).of = "view"
         /\ text(max).max = max /\ text_view(max).max = max
  BY DEF text, text_view, Field, FieldOk, WordField

\* A layout of one field.
LEMMA Layout1 ==
  ASSUME NEW f, WordField(f)
  PROVE  LayoutOk(<<f>>) /\ Len(<<f>>) = 1
<1>1. Len(<<f>>) = 1 /\ <<f>>[1] = f
  OBVIOUS
<1>2. IsSequence(<<f>>)
  BY DEF IsSequence
<1>3. \A i \in 1..1 : i = 1
  OBVIOUS
<1>4. \A i \in 1..1 : WordField(<<f>>[i])
  BY <1>1, <1>3
<1>5. 3..1 = {}
  OBVIOUS
<1> QED
  BY <1>1, <1>2, <1>4, <1>5 DEF LayoutOk, WordLayout, WordField

\* A layout of two fields that fill words each, or one together.
LEMMA Layout2 ==
  ASSUME NEW f, NEW g, FieldOk(f), FieldOk(g),
         \/ WordField(f) /\ WordField(g)
         \/ {f.of, g.of} \subseteq {"uint", "reserved"} /\ f.size + g.size = WORD_SIZE
  PROVE  LayoutOk(<<f, g>>) /\ Len(<<f, g>>) = 2
<1> DEFINE l == <<f, g>>
<1>1. Len(l) = 2 /\ l[1] = f /\ l[2] = g
  OBVIOUS
<1>2. IsSequence(l)
  BY DEF IsSequence
<1> HIDE DEF l
<1>3. \A i \in 1..2 : i = 1 \/ i = 2
  OBVIOUS
<1>4. \A i \in 1..2 : FieldOk(l[i])
  BY <1>1, <1>3
<1>5. 3..2 = {} /\ 2 >= 2
  OBVIOUS
<1>6. WordField(f) /\ WordField(g) => \A i \in 1..2 : WordField(l[i])
  BY <1>1, <1>3
<1>7. WordLayout(l)
  BY <1>1, <1>5, <1>6 DEF WordLayout, WordField
<1> QED
  BY <1>1, <1>2, <1>4, <1>7 DEF LayoutOk, l

\* A layout of three.
LEMMA Layout3 ==
  ASSUME NEW f, NEW g, NEW h, FieldOk(f), FieldOk(g), WordField(h),
         \/ WordField(f) /\ WordField(g)
         \/ {f.of, g.of} \subseteq {"uint", "reserved"} /\ f.size + g.size = WORD_SIZE
  PROVE  LayoutOk(<<f, g, h>>) /\ Len(<<f, g, h>>) = 3
<1> DEFINE l == <<f, g, h>>
<1>1. Len(l) = 3 /\ l[1] = f /\ l[2] = g /\ l[3] = h
  OBVIOUS
<1>2. IsSequence(l)
  BY DEF IsSequence
<1> HIDE DEF l
<1>3. (\A i \in 1..3 : i = 1 \/ i = 2 \/ i = 3) /\ (\A i \in 3..3 : i = 3) /\ 3 >= 2
  OBVIOUS
<1>4. \A i \in 1..3 : FieldOk(l[i])
  BY <1>1, <1>3 DEF WordField
<1>5. \A i \in 3..3 : WordField(l[i])
  BY <1>1, <1>3
<1>6. WordField(f) /\ WordField(g) => \A i \in 1..3 : WordField(l[i])
  BY <1>1, <1>3
<1>7. WordLayout(l)
  BY <1>1, <1>3, <1>5, <1>6 DEF WordLayout, WordField
<1> QED
  BY <1>1, <1>2, <1>4, <1>7 DEF LayoutOk, l

\* A layout of four.
LEMMA Layout4 ==
  ASSUME NEW f, NEW g, NEW h, NEW k, FieldOk(f), FieldOk(g), WordField(h), WordField(k),
         {f.of, g.of} \subseteq {"uint", "reserved"}, f.size + g.size = WORD_SIZE
  PROVE  LayoutOk(<<f, g, h, k>>) /\ Len(<<f, g, h, k>>) = 4
<1> DEFINE l == <<f, g, h, k>>
<1>1. Len(l) = 4 /\ l[1] = f /\ l[2] = g /\ l[3] = h /\ l[4] = k
  OBVIOUS
<1>2. IsSequence(l)
  BY DEF IsSequence
<1> HIDE DEF l
<1>3. (\A i \in 1..4 : i = 1 \/ i = 2 \/ i = 3 \/ i = 4) /\ (\A i \in 3..4 : i = 3 \/ i = 4) /\ 4 >= 2
  OBVIOUS
<1>4. \A i \in 1..4 : FieldOk(l[i])
  BY <1>1, <1>3 DEF WordField
<1>5. \A i \in 3..4 : WordField(l[i])
  BY <1>1, <1>3
<1>7. WordLayout(l)
  BY <1>1, <1>3, <1>5 DEF WordLayout, WordField
<1> QED
  BY <1>1, <1>2, <1>4, <1>7 DEF LayoutOk, l

\* The caps fit the words they are compared with.
LEMMA CapFacts ==
  /\ \A max \in {0, 1, SPARE, MAX_PARAM_COUNT, MAX_TAIL_OFFSET, MAX_ROWS_AFFECTED} :
       max \in Nat /\ max < WordRange
  /\ {MAX_ADDRESS_SIZE, MAX_TEXT_VALUE_SIZE, MAX_FILENAME_SIZE, MAX_DUMP_FILENAME_SIZE} \subseteq Nat
<1>1. 0 < WordRange /\ 1 < WordRange /\ SPARE < WordRange /\ SPARE \in Nat /\ WordRange \in Nat
  BY WordFacts DEF BYTE, SPARE
<1>2. MAX_PARAM_COUNT \in Nat /\ MAX_PARAM_COUNT < WordRange
  <2>1. Codes(UINT32_SIZE) <= Codes(WORD_SIZE) /\ Codes(UINT32_SIZE) \in Nat
    <3>1. UINT32_SIZE \in Nat /\ WORD_SIZE \in Nat /\ UINT32_SIZE <= WORD_SIZE
      BY Sizes, TupleSizesAssumption
    <3> QED
      BY <3>1, CodesGrow, CodesFacts
  <2>2. MAX_PARAM_COUNT \in Nat /\ MAX_PARAM_COUNT < Codes(UINT32_SIZE)
    BY TupleSizesAssumption
  <2> QED
    BY <1>1, <2>1, <2>2 DEF WordRange
<1>3. MAX_TAIL_OFFSET \in Nat /\ MAX_TAIL_OFFSET < WordRange
      /\ MAX_ROWS_AFFECTED \in Nat /\ MAX_ROWS_AFFECTED < WordRange
  BY <1>1, FieldCapsAssumption
<1> QED
  BY <1>1, <1>2, <1>3, CapsAssumption, FieldCapsAssumption, WireSizesAssumption

\* The prefixes of the statement requests are layouts.
LEMMA PrefixLayouts ==
  LayoutOk(PreparedPrefix) /\ Len(PreparedPrefix) = 2 /\ LayoutOk(SqlTextPrefix) /\ Len(SqlTextPrefix) = 2
<1>1. LayoutOk(PreparedPrefix) /\ Len(PreparedPrefix) = 2
  BY Layout2, Uint32Ok, Sizes DEF PreparedPrefix
<1>2. LayoutOk(SqlTextPrefix) /\ Len(SqlTextPrefix) = 2
  <2>1. WordField(text_view(MAX_TEXT_VALUE_SIZE))
    BY CapFacts, TextsOk
  <2> QED
    BY <2>1, Layout2, Uint64Ok DEF SqlTextPrefix, WordField
<1> QED
  BY <1>1, <1>2

\* Three fields and one are four.
LEMMA FourFields ==
  ASSUME NEW a, NEW b, NEW c, NEW k
  PROVE  <<a, b, c>> \o <<k>> = <<a, b, c, k>>
<1> DEFINE S == {a, b, c, k}
           x == <<a, b, c>> \o <<k>>
           y == <<a, b, c, k>>
<1>1. <<a, b, c>> \in Seq(S) /\ <<k>> \in Seq(S) /\ y \in Seq(S)
  OBVIOUS
<1>2. x \in Seq(S) /\ Len(x) = 4
  BY <1>1, ConcatProperties
<1>3. Len(y) = 4 /\ y[1] = a /\ y[2] = b /\ y[3] = c /\ y[4] = k
  OBVIOUS
<1>4. x[1] = a /\ x[2] = b /\ x[3] = c /\ x[4] = k
  <2>1. Len(<<a, b, c>>) = 3 /\ Len(<<k>>) = 1
    OBVIOUS
  <2>2. \A i \in 1..(3 + 1) : x[i] = IF i <= 3 THEN <<a, b, c>>[i] ELSE <<k>>[i - 3]
    BY <1>1, <2>1, ConcatProperties
  <2> HIDE DEF x
  <2> QED
    BY <2>2
<1> HIDE DEF x, y, S
<1>5. \A i \in 1..Len(x) : x[i] = y[i]
  <2>1. \A i \in 1..4 : i = 1 \/ i = 2 \/ i = 3 \/ i = 4
    OBVIOUS
  <2> QED
    BY <1>2, <1>3, <1>4, <2>1
<1>6. x = y
  BY <1>1, <1>2, <1>3, <1>5, SeqEqual
<1> QED
  BY <1>6 DEF x, y

\* Both forms of a StmtResponse are layouts.
LEMMA StmtLayout ==
  ASSUME NEW schema \in {0, 1}
  PROVE  LayoutOk(StmtResponse(schema)) /\ Len(StmtResponse(schema)) = IF schema = 1 THEN 4 ELSE 3
<1> DEFINE h == capped(MAX_PARAM_COUNT)
           k == capped(MAX_TAIL_OFFSET)
<1>1. WordField(h) /\ WordField(k)
  BY CapFacts, CappedOk
<1>2. /\ FieldOk(uint32) /\ FieldOk(uint32_rest)
      /\ {uint32.of, uint32_rest.of} \subseteq {"uint", "reserved"}
      /\ uint32.size + uint32_rest.size = WORD_SIZE
  BY Uint32Ok, Sizes
<1>3. CASE schema = 0
  <2>1. StmtResponse(schema) = <<uint32, uint32_rest, h>>
    BY <1>3 DEF StmtResponse
  <2> HIDE DEF h
  <2> QED
    BY <1>1, <1>2, <1>3, <2>1, Layout3
<1>4. CASE schema = 1
  <2>1. StmtResponse(schema) = <<uint32, uint32_rest, h, k>>
    <3>1. StmtResponse(schema) = <<uint32, uint32_rest, h>> \o <<k>>
      BY <1>4 DEF StmtResponse
    <3> HIDE DEF h, k
    <3> QED
      BY <3>1, FourFields
  <2> HIDE DEF h, k
  <2>2. LayoutOk(<<uint32, uint32_rest, h, k>>) /\ Len(<<uint32, uint32_rest, h, k>>) = 4
    BY <1>1, <1>2, Layout4
  <2> QED
    BY <1>4, <2>1, <2>2, Zenon
<1> QED
  BY <1>3, <1>4

OneKind ==
  {"LeaderRequest", "PrepareRequest", "FinalizeRequest", "OpenRequest", "DumpRequest",
   "AssignRequest", "Promote", "ClusterRequest", "DescribeRequest", "LeaderResponse",
   "LegacyLeader", "WelcomeResponse", "DbResponse", "StmtResponse", "ResultResponse",
   "EmptyResponse", "MetadataResponse"}

FlatKinds == WordRequests \cup NodeAddressRequests \cup OneKind

\* So are those of the other flat messages.
LEMMA NamedLayouts ==
  /\ LayoutOk(WordRequest) /\ LayoutOk(LeaderRequest) /\ LayoutOk(ClusterRequest)
  /\ LayoutOk(DescribeRequest) /\ LayoutOk(DumpRequest) /\ LayoutOk(WelcomeResponse)
  /\ LayoutOk(EmptyResponse)
  /\ LayoutOk(NodeAddressRequest) /\ LayoutOk(PrepareRequest) /\ LayoutOk(FinalizeRequest)
  /\ LayoutOk(AssignRequest) /\ LayoutOk(Promote) /\ LayoutOk(LeaderResponse)
  /\ LayoutOk(LegacyLeader) /\ LayoutOk(DbResponse) /\ LayoutOk(ResultResponse)
  /\ LayoutOk(MetadataResponse) /\ LayoutOk(OpenRequest)
<1>1. \A max \in {0, 1, SPARE, MAX_ROWS_AFFECTED} : WordField(capped(max)) /\ FieldOk(capped(max))
  BY CapFacts, CappedOk DEF WordField
<1>2. \A max \in {MAX_ADDRESS_SIZE, MAX_TEXT_VALUE_SIZE, MAX_FILENAME_SIZE, MAX_DUMP_FILENAME_SIZE} :
         WordField(text(max)) /\ WordField(text_view(max)) /\ FieldOk(text(max)) /\ FieldOk(text_view(max))
  BY CapFacts, TextsOk DEF WordField
<1>3. WordField(uint64) /\ FieldOk(uint64)
  BY Uint64Ok DEF WordField
<1>4. WordField(reserved(0)) /\ WordField(reserved(WORD_SIZE)) /\ WordField(uint(0))
      /\ FieldOk(reserved(0)) /\ FieldOk(reserved(WORD_SIZE)) /\ FieldOk(uint(0))
  BY ReservedOk, UintOk, Sizes DEF WordField
<1>5. LayoutOk(WordRequest) /\ LayoutOk(WelcomeResponse)
  BY <1>3, Layout1 DEF WordRequest, WelcomeResponse
<1>6. LayoutOk(LeaderRequest) /\ LayoutOk(ClusterRequest) /\ LayoutOk(DescribeRequest)
  BY <1>1, Layout1 DEF LeaderRequest, ClusterRequest, DescribeRequest
<1>7. LayoutOk(DumpRequest)
  BY <1>2, Layout1 DEF DumpRequest
<1>8. LayoutOk(EmptyResponse)
  BY <1>4, Layout1 DEF EmptyResponse
<1>9. LayoutOk(NodeAddressRequest) /\ LayoutOk(PrepareRequest) /\ LayoutOk(LeaderResponse)
  BY <1>2, <1>3, Layout2 DEF NodeAddressRequest, PrepareRequest, LeaderResponse
<1>10. LayoutOk(FinalizeRequest)
  BY Layout2, Uint32Ok, Sizes DEF FinalizeRequest
<1>11. LayoutOk(AssignRequest)
  BY <1>1, <1>3, Layout2 DEF AssignRequest
<1>12. LayoutOk(Promote)
  BY <1>3, <1>4, Layout2 DEF Promote
<1>13. LayoutOk(LegacyLeader)
  BY <1>2, <1>4, Layout2 DEF LegacyLeader
<1>14. LayoutOk(DbResponse)
  <2> DEFINE r == reserved(WORD_SIZE - UINT32_SIZE)
  <2>1. FieldOk(r) /\ r.of = "reserved" /\ r.size = WORD_SIZE - UINT32_SIZE
    BY ReservedOk, Sizes
  <2> HIDE DEF r
  <2>2. {uint32.of, r.of} \subseteq {"uint", "reserved"} /\ uint32.size + r.size = WORD_SIZE
        /\ FieldOk(uint32)
    BY <2>1, Uint32Ok, Sizes
  <2> QED
    BY <2>1, <2>2, Layout2 DEF DbResponse, r
<1>15. LayoutOk(ResultResponse)
  BY <1>1, <1>3, Layout2 DEF ResultResponse
<1>16. LayoutOk(MetadataResponse)
  BY <1>3, Layout2 DEF MetadataResponse
<1>17. LayoutOk(OpenRequest)
  BY <1>2, <1>3, Layout3 DEF OpenRequest
<1> QED
  BY <1>5, <1>6, <1>7, <1>8, <1>9, <1>10, <1>11, <1>12, <1>13, <1>14, <1>15, <1>16, <1>17

\* Every flat message has a layout.
LEMMA FlatLayouts ==
  ASSUME NEW kind \in FlatKinds, NEW schema \in schemas(kind)
  PROVE  LayoutOk(flat_layout(kind, schema))
<1>1. CASE kind \in WordRequests
  <2>1. kind \notin NodeAddressRequests \cup OneKind
    BY <1>1 DEF NodeAddressRequests, WordRequests, OneKind
  <2>2. flat_layout(kind, schema) = WordRequest
    BY <1>1, <2>1 DEF flat_layout, OneKind
  <2> QED
    BY <2>2, NamedLayouts
<1>2. CASE kind \in NodeAddressRequests
  <2>1. kind \notin WordRequests \cup OneKind
    BY <1>2 DEF NodeAddressRequests, WordRequests, OneKind
  <2>2. flat_layout(kind, schema) = NodeAddressRequest
    BY <1>2, <2>1 DEF flat_layout, OneKind
  <2> QED
    BY <2>2, NamedLayouts
<1>3. CASE kind = "StmtResponse"
  <2>1. schema \in {0, 1}
    BY <1>3 DEF schemas
  <2>2. flat_layout(kind, schema) = StmtResponse(schema)
    BY <1>3 DEF flat_layout, WordRequests, NodeAddressRequests
  <2> QED
    BY <2>1, <2>2, StmtLayout
<1>4. CASE kind \in FlatKinds \ (WordRequests \cup NodeAddressRequests \cup {"StmtResponse"})
  <2>1. kind \notin WordRequests \cup NodeAddressRequests
    BY <1>4
  <2>2. kind \in {"LeaderRequest", "PrepareRequest", "FinalizeRequest", "OpenRequest", "DumpRequest",
   "AssignRequest", "Promote", "ClusterRequest", "DescribeRequest", "LeaderResponse",
   "LegacyLeader", "WelcomeResponse", "DbResponse", "ResultResponse",
   "EmptyResponse", "MetadataResponse"}
    BY <1>4 DEF FlatKinds, OneKind
  <2>3. flat_layout(kind, schema) \in
         {LeaderRequest, PrepareRequest, FinalizeRequest, OpenRequest, DumpRequest,
          AssignRequest, Promote, ClusterRequest, DescribeRequest, LeaderResponse,
          LegacyLeader, WelcomeResponse, DbResponse, ResultResponse, EmptyResponse,
          MetadataResponse}
    BY <2>1, <2>2, SMTT(30) DEF flat_layout
  <2> HIDE DEF FlatKinds
  <2> QED
    BY <2>3, NamedLayouts, Zenon
<1> QED
  BY <1>1, <1>2, <1>3, <1>4

-----------------------------------------------------------------------------
(* Typed fields *)

\* Fields with the types the class gives them fit the layout and read as they are.
LEMMA TypedFields ==
  ASSUME NEW xs, NEW layout, LayoutOk(layout), fields_encodable(xs, layout), fields_typed(xs, layout)
  PROVE  FieldsFit(xs, layout) /\ FieldsRead(xs, layout) = xs
<1>1. /\ IsSequence(layout) /\ DOMAIN layout = 1..Len(layout) /\ Len(layout) \in Nat
      /\ \A i \in 1..Len(layout) : FieldOk(layout[i])
  BY Items DEF LayoutOk
<1>2. /\ Len(xs) = Len(layout) /\ xs = [i \in 1..Len(xs) |-> xs[i]]
  BY DEF fields_encodable, fields_typed, IsSequence
<1>3. \A i \in 1..Len(layout) : FieldFits(xs[i], layout[i])
  BY <1>1 DEF FieldFits, fields_encodable, fields_typed
<1>4. \A i \in 1..Len(layout) : FieldRead(xs[i], layout[i]) = xs[i]
  BY <1>1 DEF FieldRead, fields_typed
<1>5. FieldsRead(xs, layout) = [i \in 1..Len(layout) |-> xs[i]]
  BY <1>4 DEF FieldsRead
<1> QED
  BY <1>1, <1>2, <1>3, <1>5 DEF FieldsFit

\* Nothing is a sequence of bytes, and adds none.
LEMMA Nothing ==
  /\ <<>> \in Bytes
  /\ \A b \in Bytes : b \o <<>> = b /\ Len(b) \in Nat
<1>1. <<>> \in Bytes
  BY DEF Bytes
<1>2. \A b \in Bytes : b \o <<>> = b /\ Len(b) \in Nat
  BY ConcatEmptySeq, LenProperties DEF Bytes
<1> QED
  BY <1>1, <1>2

\* A whole body of fields.
LEMMA BodyOfFields ==
  ASSUME NEW xs, NEW layout, FieldsFit(xs, layout)
  PROVE  /\ encode_fields(xs, layout) \in Bytes
         /\ decode_fields(encode_fields(xs, layout), layout)
              = Got(FieldsRead(xs, layout), Len(encode_fields(xs, layout)))
<1> DEFINE b == encode_fields(xs, layout)
<1>1. b \in Bytes /\ decode_fields(b \o <<>>, layout) = Got(FieldsRead(xs, layout), Len(b))
  BY FieldsRoundTrip, Nothing
<1> HIDE DEF b
<1>2. b \o <<>> = b
  BY <1>1, Nothing
<1>3. b \in Bytes /\ decode_fields(b, layout) = Got(FieldsRead(xs, layout), Len(b))
  BY <1>1, <1>2
<1> QED
  BY <1>3 DEF b

\* Two fields of fixed sizes.
LEMMA TwoFields ==
  ASSUME NEW xs, NEW f, NEW g, FieldsFit(xs, <<f, g>>),
         f.of \in {"uint", "reserved"}, g.of \in {"uint", "reserved"}
  PROVE  Len(encode_fields(xs, <<f, g>>)) = f.size + g.size
<1> DEFINE l == <<f, g>>
           parts == [i \in DOMAIN l |-> encode_field(xs[i], l[i])]
<1>1. Len(l) = 2 /\ l[1] = f /\ l[2] = g /\ DOMAIN l = 1..2
  OBVIOUS
<1> HIDE DEF l
<1>2. \A i \in 1..2 : FieldFits(xs[i], l[i])
  BY <1>1 DEF FieldsFit, l
<1>3. 1 \in 1..2 /\ 2 \in 1..2 /\ 1 - 1 = 0 /\ 2 - 1 = 1
  OBVIOUS
<1>4. parts[1] \in Bytes /\ Len(parts[1]) = f.size /\ parts[2] \in Bytes /\ Len(parts[2]) = g.size
      /\ f.size \in Nat /\ g.size \in Nat
  <2>1. FieldFits(xs[1], f) /\ FieldFits(xs[2], g)
    BY <1>1, <1>2, <1>3
  <2>2. parts[1] = encode_field(xs[1], f) /\ parts[2] = encode_field(xs[2], g)
    BY <1>1, <1>3
  <2> HIDE DEF parts
  <2>3. encode_field(xs[1], f) \in Bytes /\ Len(encode_field(xs[1], f)) = f.size
    BY <2>1, FieldRoundTrip, Nothing
  <2>4. encode_field(xs[2], g) \in Bytes /\ Len(encode_field(xs[2], g)) = g.size
    BY <2>1, FieldRoundTrip, Nothing
  <2> QED
    BY <2>1, <2>2, <2>3, <2>4 DEF FieldFits, FieldOk
<1>5. parts \in Seq(Bytes) /\ Len(parts) = 2
  <2>1. parts = [i \in 1..2 |-> encode_field(xs[i], l[i])] /\ \A i \in 1..2 : i = 1 \/ i = 2
    BY <1>1
  <2>2. \A i \in 1..2 : parts[i] \in Bytes
    BY <1>4, <2>1
  <2> QED
    BY <2>1, <2>2
<1> HIDE DEF parts
<1>6. PICK off : Offsets(off, parts)
  <2>1. parts \in Seq(Seq(0..(BYTE - 1)))
    BY <1>5 DEF Bytes
  <2> QED
    BY <2>1, FlattenFacts
<1>7. off[0] = 0 /\ off[1] = off[0] + Len(parts[1]) /\ off[2] = off[1] + Len(parts[2])
      /\ Len(FlattenSeq(parts)) = off[2]
  BY <1>3, <1>5, <1>6 DEF Offsets
<1>8. Len(FlattenSeq(parts)) = f.size + g.size
  <2>1. \A a, b, c, e, k : a = 0 /\ b = a + e /\ c = b + k /\ e \in Nat /\ k \in Nat => c = e + k
    OBVIOUS
  <2>2. off[2] = Len(parts[1]) + Len(parts[2])
    BY <1>4, <1>7, <2>1
  <2> QED
    BY <1>4, <1>7, <2>2
<1> QED
  BY <1>8 DEF encode_fields, parts, l

-----------------------------------------------------------------------------
(* Flat messages *)

\* What the reader of flat message m gets.
FlatRead(m) ==
  Flat(class_of(m),
       FieldsRead(flat_fields(m), flat_layout(m.kind, flat_schema(m))), flat_schema(m), TRUE)

FlatOkay(m) == m.kind \in FlatKinds /\ flat_typed(m) /\ flat_encodable(m)

\* The fields of a flat message fit its layout.
LEMMA FlatFits ==
  ASSUME NEW m, FlatOkay(m)
  PROVE  /\ LayoutOk(flat_layout(m.kind, flat_schema(m)))
         /\ FieldsFit(flat_fields(m), flat_layout(m.kind, flat_schema(m)))
         /\ m.kind # "Promote" =>
              FieldsRead(flat_fields(m), flat_layout(m.kind, flat_schema(m))) = flat_fields(m)
<1> DEFINE xs == flat_fields(m)
           l == flat_layout(m.kind, flat_schema(m))
<1>1. LayoutOk(l)
  BY FlatLayouts DEF FlatOkay, flat_encodable
<1>2. fields_encodable(xs, l)
  BY DEF FlatOkay, flat_encodable
<1>3. CASE m.kind # "Promote"
  <2>1. fields_typed(xs, l)
    BY <1>3 DEF FlatOkay, flat_typed
  <2> HIDE DEF xs, l
  <2>2. FieldsFit(xs, l) /\ FieldsRead(xs, l) = xs
    BY <1>1, <1>2, <2>1, TypedFields
  <2> QED
    BY <1>1, <2>2 DEF xs, l
<1>4. CASE m.kind = "Promote"
  <2>1. l = Promote
    BY <1>4 DEF flat_layout, WordRequests, NodeAddressRequests
  <2>2. Len(l) = 2 /\ l[1] = uint64 /\ l[2] = reserved(0) /\ DOMAIN l = 1..2 /\ IsSequence(l)
    <3>1. Len(Promote) = 2 /\ Promote[1] = uint64 /\ Promote[2] = reserved(0) /\ DOMAIN Promote = 1..2
      BY DEF Promote
    <3> QED
      BY <1>1, <2>1, <3>1 DEF LayoutOk
  <2> HIDE DEF xs, l
  <2>3. \A i \in 1..2 : FieldFits(xs[i], l[i])
    <3>1. \A i \in 1..2 : i = 1 \/ i = 2
      OBVIOUS
    <3>2. uint64.of = "uint" /\ reserved(0).of = "reserved"
      BY Uint64Ok, ReservedOk
    <3>3. \A i \in 1..2 : FieldOk(l[i]) /\ field_encodable(xs[i], l[i]) /\ l[i].of \notin {"text", "view"}
      BY <1>1, <1>2, <2>2, <3>1, <3>2 DEF LayoutOk, fields_encodable
    <3> QED
      BY <3>3 DEF FieldFits
  <2>4. FieldsFit(xs, l)
    BY <2>2, <2>3 DEF FieldsFit
  <2> QED
    BY <1>1, <1>4, <2>4 DEF xs, l
<1> QED
  BY <1>3, <1>4

\* The body of a flat message is whole words.
LEMMA FlatBytes ==
  ASSUME NEW m, FlatOkay(m)
  PROVE  WholeWords(encode_flat(m))
<1>1. encode_flat(m) = encode_fields(flat_fields(m), flat_layout(m.kind, flat_schema(m)))
  BY DEF encode_flat
<1> QED
  BY <1>1, FlatFits, FieldsRoundTrip, Nothing DEF LayoutOk

\* The two forms of ASSIGN differ in length.
LEMMA AssignSizes ==
  ASSUME NEW m, FlatOkay(m)
  PROVE  /\ m.kind = "AssignRequest" => Len(encode_flat(m)) # WORD_SIZE
         /\ m.kind = "Promote" => Len(encode_flat(m)) = WORD_SIZE
<1> DEFINE xs == flat_fields(m)
           l == flat_layout(m.kind, flat_schema(m))
<1>1. FieldsFit(xs, l) /\ encode_flat(m) = encode_fields(xs, l)
  BY FlatFits DEF encode_flat
<1> HIDE DEF xs
<1>0. uint64.of = "uint" /\ uint64.size = WORD_SIZE
  BY Uint64Ok
<1>2. CASE m.kind = "AssignRequest"
  <2>1. l = <<uint64, capped(SPARE)>>
    BY <1>2 DEF flat_layout, WordRequests, NodeAddressRequests, AssignRequest
  <2>2. capped(SPARE).of = "uint" /\ capped(SPARE).size = WORD_SIZE
    BY CapFacts, CappedOk
  <2>3. Len(encode_flat(m)) = WORD_SIZE + WORD_SIZE
    BY <1>0, <1>1, <2>1, <2>2, TwoFields
  <2> QED
    BY <1>2, <2>3, Sizes
<1>3. CASE m.kind = "Promote"
  <2>1. l = <<uint64, reserved(0)>>
    BY <1>3 DEF flat_layout, WordRequests, NodeAddressRequests, Promote
  <2>2. reserved(0).of = "reserved" /\ reserved(0).size = 0
    BY ReservedOk
  <2>3. Len(encode_flat(m)) = WORD_SIZE + 0
    BY <1>0, <1>1, <2>1, <2>2, TwoFields
  <2> QED
    BY <1>3, <2>3, Sizes
<1> QED
  BY <1>2, <1>3

\* A flat body decodes to its fields.
THEOREM FlatRoundTrip ==
  ASSUME NEW m, FlatOkay(m), m.kind # "LegacyLeader"
  PROVE  decode_flat(class_of(m), encode_flat(m), flat_schema(m))
           = Got(FlatRead(m), Len(encode_flat(m)))
<1> DEFINE xs == flat_fields(m)
           schema == flat_schema(m)
           l == flat_layout(m.kind, schema)
           b == encode_flat(m)
           c == class_of(m)
           fs == FieldsRead(xs, l)
<1>1. b \in Bytes /\ decode_fields(b, l) = Got(fs, Len(b))
  BY FlatFits, BodyOfFields DEF encode_flat
<1>2. m.kind # "Promote" => c = m.kind
  BY DEF class_of, FlatOkay, FlatKinds, WordRequests, NodeAddressRequests, OneKind
<1>3. m.kind = "Promote" => c = "AssignRequest"
  BY DEF class_of
<1>4. (IF c = "AssignRequest" /\ Len(b) = WORD_SIZE THEN "Promote" ELSE c) = m.kind
  BY <1>2, <1>3, AssignSizes
<1>5. c = "LeaderResponse" => leader_atomic(fs)
  <2> SUFFICES ASSUME c = "LeaderResponse" PROVE leader_atomic(fs)
    OBVIOUS
  <2>1. m.kind = "LeaderResponse"
    BY <1>2, <1>3
  <2>2. leader_atomic(m.fields) /\ xs = m.fields /\ fs = xs
    BY <2>1, FlatFits DEF FlatOkay, flat_encodable, flat_fields
  <2> QED
    BY <2>2
<1>6. decode_flat(c, b, schema) = FlatOf(c, decode_fields(b, l), schema, Len(b))
  BY <1>4 DEF decode_flat
<1> HIDE DEF b, c, fs, l, xs, schema
<1>7. FlatOf(c, Got(fs, Len(b)), schema, Len(b)) = Got(Flat(c, fs, schema, TRUE), Len(b))
  BY <1>5 DEF FlatOf, Then, Got
<1>8. decode_flat(c, b, schema) = Got(Flat(c, fs, schema, TRUE), Len(b))
  BY <1>1, <1>6, <1>7
<1> QED
  BY <1>8 DEF FlatRead, b, c, fs, l, xs, schema

\* The legacy body of a LeaderResponse decodes to its fields
\* (encode_body_legacy and decode_body_legacy).
THEOREM LegacyRoundTrip ==
  ASSUME NEW m, FlatOkay(m), m.kind = "LegacyLeader"
  PROVE  decode_body_legacy(encode_flat(m)) = Got(FlatRead(m), Len(encode_flat(m)))
<1> DEFINE xs == flat_fields(m)
           schema == flat_schema(m)
           l == flat_layout(m.kind, schema)
           b == encode_flat(m)
           fs == FieldsRead(xs, l)
<1>1. b \in Bytes /\ decode_fields(b, l) = Got(fs, Len(b))
  BY FlatFits, BodyOfFields DEF encode_flat
<1>2. l = LegacyLeader
  BY DEF flat_layout, WordRequests, NodeAddressRequests
<1>3. schema = 0 /\ class_of(m) = "LeaderResponse"
  <2>1. schema \in {0}
    BY DEF FlatOkay, flat_encodable, schemas, ParamsRequests, PreparedRequests, SqlTextRequests
  <2> QED
    BY <2>1 DEF class_of
<1> HIDE DEF b, fs, l, xs, schema
<1>4. decode_body_legacy(b) = Got(Flat("LeaderResponse", fs, 0, TRUE), Len(b))
  <2>1. decode_fields(b, LegacyLeader) = Got(fs, Len(b))
    BY <1>1, <1>2
  <2>2. Got(fs, Len(b)).ok /\ Got(fs, Len(b)).val = fs /\ Got(fs, Len(b)).used = Len(b)
    BY DEF Got
  <2> QED
    BY <2>1, <2>2, Zenon DEF decode_body_legacy, Then, consumed
<1> QED
  BY <1>3, <1>4 DEF FlatRead, b, fs, l, xs, schema

-----------------------------------------------------------------------------
(* Joining *)

\* Joining is associative.
LEMMA RegroupTwo ==
  ASSUME NEW S, NEW a \in Seq(S), NEW b \in Seq(S), NEW r \in Seq(S)
  PROVE  (a \o b) \o r = a \o (b \o r)
  BY ConcatAssociative, SMTT(60)

\* So it is for four.
LEMMA Regroup ==
  ASSUME NEW S, NEW a \in Seq(S), NEW b \in Seq(S), NEW c \in Seq(S), NEW r \in Seq(S)
  PROVE  /\ ((a \o b) \o c) \o r = a \o (b \o (c \o r))
         /\ ((a \o b) \o c) \o r = (a \o b) \o (c \o r)
<1> DEFINE p == a \o b
           q == c \o r
<1>1. p \in Seq(S)
  BY ConcatProperties
<1>2. q \in Seq(S)
  BY ConcatProperties
<1>3. p \o q = a \o (b \o q)
  <2> HIDE DEF q
  <2> QED
    BY <1>2, RegroupTwo, SMTT(60)
<1>4. \A x \in Seq(S) : (x \o c) \o r = x \o (c \o r)
  BY RegroupTwo, SMTT(60)
<1>5. (p \o c) \o r = p \o q
  BY <1>1, <1>4, Zenon
<1> QED
  BY <1>3, <1>5, Zenon

\* The part behind p.
LEMMA Middle ==
  ASSUME NEW S, NEW p \in Seq(S), NEW c \in Seq(S), NEW r \in Seq(S)
  PROVE  /\ SubSeq(p \o (c \o r), Len(p) + 1, Len(p) + Len(c)) = c
         /\ Len(p \o (c \o r)) = Len(p) + (Len(c) + Len(r))
         /\ Len(p) \in Nat /\ Len(c) \in Nat /\ Len(r) \in Nat
         /\ p \o (c \o r) \in Seq(S)
<1> DEFINE t == c \o r
           d == p \o t
<1>1. t \in Seq(S) /\ Len(t) = Len(c) + Len(r) /\ Len(c) \in Nat /\ Len(r) \in Nat
      /\ \A i \in 1..Len(c) : t[i] = c[i]
  BY Joined
<1> HIDE DEF t
<1>2. d \in Seq(S) /\ Len(d) = Len(p) + Len(t) /\ Len(p) \in Nat
      /\ \A i \in 1..Len(t) : d[Len(p) + i] = t[i]
  <2>1. t \in Seq(S)
    BY <1>1
  <2>2. p \o t \in Seq(S) /\ Len(p) \in Nat /\ Len(t) \in Nat /\ Len(p \o t) = Len(p) + Len(t)
        /\ \A i \in 1..Len(t) : (p \o t)[Len(p) + i] = t[i]
    BY <2>1, Joined
  <2> QED
    BY <2>2
<1> HIDE DEF d
<1> DEFINE x == SubSeq(d, Len(p) + 1, Len(p) + Len(c))
<1>3. x \in Seq(S) /\ Len(x) = Len(c) /\ \A i \in 1..Len(c) : x[i] = d[Len(p) + i]
  <2>1. Len(p) + Len(c) <= Len(d)
    BY <1>1, <1>2
  <2> QED
    BY <1>1, <1>2, <2>1, PartOf
<1> HIDE DEF x
<1>4. \A i \in 1..Len(x) : x[i] = c[i]
  <2>1. \A i \in 1..Len(c) : i \in 1..Len(t)
    BY <1>1
  <2> QED
    BY <1>1, <1>2, <1>3, <2>1
<1>5. x = c
  BY <1>3, <1>4, SeqEqual
<1> QED
  BY <1>1, <1>2, <1>5 DEF x, d, t

\* A product that is not above m is not above what the division leaves.
LEMMA Quotient ==
  ASSUME NEW n \in Nat, NEW k \in Nat \ {0}, NEW m \in Nat, n * k <= m
  PROVE  ~(n > m \div k) /\ m \div k \in Nat
<1> DEFINE q == m \div k
           r == m % k
<1>1. q \in Nat /\ r \in 0..(k - 1) /\ m = k * q + r
  OBVIOUS
<1> HIDE DEF q, r
<1>2. ASSUME n > q PROVE FALSE
  <2>1. PICK j \in Nat : n = (q + 1) + j
    <3>1. n - (q + 1) \in Nat /\ n = (q + 1) + (n - (q + 1))
      BY <1>1, <1>2
    <3> QED
      BY <3>1
  <2>2. n * k = (k * q + k) + j * k /\ j * k \in Nat /\ k * q \in Nat
    BY <1>1, <2>1
  <2> DEFINE u == j * k
             v == k * q
             z == n * k
  <2>3. z = (v + k) + u /\ u \in Nat /\ v \in Nat /\ z <= m /\ m = v + r
    BY <1>1, <2>2
  <2> HIDE DEF u, v, z
  <2> QED
    BY <1>1, <2>3
<1> QED
  BY <1>1, <1>2 DEF q

\* Whole words, joined, are whole words.
LEMMA JoinedWords ==
  ASSUME NEW a, NEW b, WholeWords(a), WholeWords(b)
  PROVE  WholeWords(a \o b) /\ Len(a \o b) = Len(a) + Len(b)
<1>1. a \in Bytes /\ b \in Bytes
  BY DEF WholeWords
<1>2. PICK m \in Nat, n \in Nat : Len(a) = m * WORD_SIZE /\ Len(b) = n * WORD_SIZE
  BY DEF WholeWords
<1>3. a \o b \in Bytes /\ Len(a \o b) = Len(a) + Len(b)
  BY <1>1, Joined DEF Bytes
<1>4. m + n \in Nat /\ (m + n) * WORD_SIZE = m * WORD_SIZE + n * WORD_SIZE
  BY Sizes
<1> QED
  BY <1>2, <1>3, <1>4 DEF WholeWords

\* A number is a whole word.
LEMMA WordBytes ==
  ASSUME NEW n \in 0..(WordRange - 1)
  PROVE  WholeWords(encode_uint64(n)) /\ Len(encode_uint64(n)) = WORD_SIZE
  BY WordRoundTrip, OneWord, Nothing

-----------------------------------------------------------------------------
(* Lists of texts *)

TextBytes(names) == FlattenSeq([c \in DOMAIN names |-> encode_text(names[c])])

TextsFit(names, cap) ==
  /\ names \in Seq(AllTexts) /\ cap \in Nat
  /\ \A c \in 1..Len(names) : text_encodable(names[c], cap)

\* Texts, one behind the other, are whole words, one or more for each.
LEMMA TextList ==
  ASSUME NEW names, NEW cap, TextsFit(names, cap)
  PROVE  /\ WholeWords(TextBytes(names))
         /\ Len(TextBytes(names)) >= Len(names) * WORD_SIZE
         /\ Len(names) \in Nat
<1> DEFINE N == Len(names)
           parts == [c \in DOMAIN names |-> encode_text(names[c])]
<1>1. N \in Nat /\ DOMAIN names = 1..N /\ \A c \in 1..N : names[c] \in AllTexts
  BY LenProperties, ElementOfSeq DEF TextsFit
<1>2. ASSUME NEW c \in 1..N
      PROVE  WholeWords(encode_text(names[c])) /\ Len(encode_text(names[c])) >= WORD_SIZE
  <2>1. names[c] \in Bytes /\ IsUtf8(names[c]) /\ text_encodable(names[c], cap) /\ cap \in Nat
    BY <1>1, TextFacts DEF TextsFit
  <2> QED
    BY <2>1, TextRoundTrip, TextSize, Nothing DEF WholeWords
<1> HIDE DEF N
<1>3. parts \in Seq(Bytes) /\ Len(parts) = N /\ \A c \in 1..N : parts[c] = encode_text(names[c])
  <2>1. parts = [c \in 1..N |-> encode_text(names[c])]
    BY <1>1
  <2>2. \A c \in 1..N : encode_text(names[c]) \in Bytes
    BY <1>2 DEF WholeWords
  <2> QED
    BY <1>1, <2>1, <2>2
<1> HIDE DEF parts
<1>4. WholeWords(FlattenSeq(parts))
  BY <1>2, <1>3, FlattenWords
<1>5. Len(FlattenSeq(parts)) >= N * WORD_SIZE
  <2>1. parts \in Seq(Seq(0..(BYTE - 1))) /\ WORD_SIZE \in Nat
    BY <1>3, Sizes DEF Bytes
  <2>2. \A c \in 1..Len(parts) : Len(parts[c]) >= WORD_SIZE
    BY <1>2, <1>3
  <2> QED
    BY <1>3, <2>1, <2>2, FlattenLength
<1> QED
  BY <1>1, <1>4, <1>5 DEF N, parts, TextBytes

\* n decoders of a text.
TextDecoders(D, n, d, cap) ==
  Len(D) = n /\ \A k \in 1..n : \A at \in 0..Len(d) : D[k][at] = decode_text_view(From(d, at), cap)

\* Texts read back one behind the other.
LEMMA TextListRoundTrip ==
  ASSUME NEW names, NEW cap, TextsFit(names, cap), NEW tail \in Bytes,
         NEW D, TextDecoders(D, Len(names), TextBytes(names) \o tail, cap)
  PROVE  InTurn(D) = Got(names, Len(TextBytes(names)))
<1> DEFINE N == Len(names)
           parts == [c \in DOMAIN names |-> encode_text(names[c])]
           d == TextBytes(names) \o tail
<1>1. N \in Nat /\ DOMAIN names = 1..N /\ \A c \in 1..N : names[c] \in AllTexts
  BY LenProperties, ElementOfSeq DEF TextsFit
<1>2. \A c \in 1..N : \A rest \in Bytes :
        /\ encode_text(names[c]) \in Bytes
        /\ decode_text_view(encode_text(names[c]) \o rest, cap) = Got(names[c], Len(encode_text(names[c])))
  <2>1. ASSUME NEW c \in 1..N PROVE names[c] \in Bytes /\ IsUtf8(names[c]) /\ text_encodable(names[c], cap) /\ cap \in Nat
    BY <1>1, TextFacts DEF TextsFit
  <2> QED
    BY <2>1, TextRoundTrip
<1>d. Len(D) = N /\ \A k \in 1..N : \A at \in 0..Len(d) : D[k][at] = decode_text_view(From(d, at), cap)
  BY DEF TextDecoders
<1> HIDE DEF N
<1>3. parts \in Seq(Bytes) /\ Len(parts) = N /\ \A c \in 1..N : parts[c] = encode_text(names[c])
  <2>1. parts = [c \in 1..N |-> encode_text(names[c])]
    BY <1>1
  <2>2. \A c \in 1..N : encode_text(names[c]) \in Bytes
    BY <1>2, Nothing
  <2> QED
    BY <1>1, <2>1, <2>2
<1>4. d = FlattenSeq(parts) \o tail
  BY DEF TextBytes
<1> HIDE DEF parts, d
<1>5. PartsRead(D, parts, tail, names)
  <2>1. ASSUME NEW k \in 1..N, NEW at \in 0..Len(d), NEW rest \in Bytes,
               From(d, at) = parts[k] \o rest
        PROVE  D[k][at] = Got(names[k], Len(parts[k]))
    <3>1. decode_text_view(parts[k] \o rest, cap) = Got(names[k], Len(parts[k]))
      BY <1>2, <1>3
    <3> QED
      BY <1>d, <2>1, <3>1
  <2> QED
    BY <1>d, <1>3, <1>4, <2>1 DEF PartsRead, N
<1>6. InTurn(D) = Got(names, Len(FlattenSeq(parts)))
  <2>1. names \in Seq(AllTexts)
    BY DEF TextsFit
  <2> QED
    BY <1>3, <1>5, <2>1, ListRoundTrip
<1> QED
  BY <1>6 DEF parts, TextBytes

\* The column names of a rows response read back.
LEMMA ColumnNames ==
  ASSUME NEW names, TextsFit(names, MAX_COLUMN_NAME_SIZE), NEW tail \in Bytes
  PROVE  Times(Len(names), column_name, TextBytes(names) \o tail)
           = Got(names, Len(TextBytes(names)))
<1> DEFINE d == TextBytes(names) \o tail
           n == Len(names)
           D == [k \in 1..n |-> [at \in 0..Len(d) |-> column_name(From(d, at))]]
<1>1. n \in Nat
  BY TextList
<1>2. Times(n, column_name, d) = InTurn(D)
  <2> HIDE DEF d, n
  <2>1. Len([i \in 1..n |-> i]) = n
    BY <1>1
  <2> QED
    BY <2>1 DEF Times, Each
<1>3. TextDecoders(D, n, d, MAX_COLUMN_NAME_SIZE)
  <2> HIDE DEF d, n
  <2> QED
    BY <1>1 DEF TextDecoders, column_name
<1> HIDE DEF D
<1>4. InTurn(D) = Got(names, Len(TextBytes(names)))
  BY <1>3, TextListRoundTrip DEF d, n
<1> QED
  BY <1>2, <1>4 DEF d, n

-----------------------------------------------------------------------------
(* The first of several parts *)

\* The first of the parts.
LEMMA FirstPart ==
  ASSUME NEW S, NEW parts \in Seq(Seq(S)), Len(parts) >= 1
  PROVE  \E rest \in Seq(S) : FlattenSeq(parts) = parts[1] \o rest
<1>1. FlattenSeq(parts) \in Seq(S)
  BY FlattenFacts
<1>2. PICK off : Offsets(off, parts) /\ Located(off, parts, S)
  BY FlattenFacts
<1>3. 1 \in 1..Len(parts) /\ 1 - 1 = 0 /\ <<>> \in Seq(S)
  BY LenProperties
<1>4. off[0] = 0
  BY <1>2 DEF Offsets
<1>5. PICK rest \in Seq(S) : From(FlattenSeq(parts) \o <<>>, off[1 - 1]) = parts[1] \o rest
  BY <1>2, <1>3, Zenon DEF Located
<1> DEFINE b == FlattenSeq(parts)
<1> HIDE DEF b
<1>6. b \o <<>> = b /\ From(b, 0) = b
  BY <1>1, ConcatEmptySeq, FromAll DEF b
<1> QED
  BY <1>3, <1>4, <1>5, <1>6 DEF b

-----------------------------------------------------------------------------
(* FailureResponse *)

FailureFits(code, message) ==
  code \in 0..(WordRange - 1) /\ message \in AllTexts /\ text_encodable(message, MAX_FAILURE_MESSAGE_SIZE)

FailureBytes(code, message) == encode_uint64(code) \o encode_text(message)

\* A word and a text.
LEMMA WordAndText ==
  ASSUME NEW n \in 0..(WordRange - 1), NEW s \in AllTexts, NEW cap \in Nat, text_encodable(s, cap),
         NEW tail \in Bytes
  PROVE  /\ WholeWords(encode_text(s)) /\ Len(encode_text(s)) >= WORD_SIZE
         /\ Len(encode_text(s)) \in Nat
         /\ WholeWords(FailureBytes(n, s))
         /\ Len(FailureBytes(n, s)) = WORD_SIZE + Len(encode_text(s))
         /\ decode_uint64(FailureBytes(n, s) \o tail) = Got(n, WORD_SIZE)
         /\ decode_text_view(From(FailureBytes(n, s) \o tail, WORD_SIZE), cap) = Got(s, Len(encode_text(s)))
         /\ decode_text(From(FailureBytes(n, s) \o tail, WORD_SIZE), cap) = Got(s, Len(encode_text(s)))
<1> DEFINE u == encode_uint64(n)
           a == encode_text(s)
<1>1. s \in Bytes /\ IsUtf8(s)
  BY TextFacts
<1>2. WholeWords(a) /\ a \in Bytes /\ Len(a) >= WORD_SIZE /\ Len(a) \in Nat
  BY <1>1, TextRoundTrip, TextSize DEF WholeWords
<1>3. WholeWords(u) /\ u \in Bytes /\ Len(u) = WORD_SIZE
  BY WordBytes DEF WholeWords
<1>4. a \o tail \in Bytes /\ a \o tail \in Seq(0..(BYTE - 1))
  BY <1>2, Joined DEF Bytes
<1>5. decode_uint64(u \o (a \o tail)) = Got(n, WORD_SIZE)
  BY <1>4, WordRoundTrip
<1>6. decode_text_view(a \o tail, cap) = Got(s, Len(a))
  BY <1>1, TextRoundTrip
<1>7. decode_text(a \o tail, cap) = Got(s, Len(a))
  BY <1>4, <1>6, ViewIsBytes
<1> HIDE DEF u, a
<1>8. (u \o a) \o tail = u \o (a \o tail)
  BY <1>2, <1>3, RegroupTwo, SMTT(60) DEF Bytes
<1> DEFINE t == a \o tail
<1>9. t \in Seq(0..(BYTE - 1)) /\ u \in Seq(0..(BYTE - 1))
  BY <1>3, <1>4 DEF Bytes
<1> HIDE DEF t
<1>10. From(u \o t, WORD_SIZE) = t
  <2>1. 0 \in 0..Len(t)
    BY <1>9, LenProperties
  <2> QED
    BY <1>3, <1>9, <2>1, Behind
<1>11. WholeWords(u \o a) /\ Len(u \o a) = WORD_SIZE + Len(a)
  BY <1>2, <1>3, JoinedWords
<1> QED
  BY <1>2, <1>5, <1>6, <1>7, <1>8, <1>10, <1>11 DEF FailureBytes, u, a, t

\* A code and a message read back, whatever follows them.
LEMMA FailureRecordReads ==
  ASSUME NEW code, NEW message, FailureFits(code, message), NEW tail \in Bytes
  PROVE  /\ WholeWords(FailureBytes(code, message))
         /\ Len(FailureBytes(code, message)) >= WORD_SIZE + 1
         /\ Len(FailureBytes(code, message)) \in Nat
         /\ FailureRecord(FailureBytes(code, message) \o tail)
              = Got(Failure(code, message), Len(FailureBytes(code, message)))
<1> DEFINE b == FailureBytes(code, message)
           d == b \o tail
           a == encode_text(message)
           cap == MAX_FAILURE_MESSAGE_SIZE
<1>0. cap \in Nat
  BY CapsAssumption
<1>1. /\ WholeWords(b) /\ Len(b) = WORD_SIZE + Len(a) /\ Len(a) >= WORD_SIZE /\ Len(a) \in Nat
      /\ decode_uint64(d) = Got(code, WORD_SIZE)
      /\ decode_text(From(d, WORD_SIZE), cap) = Got(message, Len(a))
  BY <1>0, WordAndText DEF FailureFits
<1>2. Len(b) >= WORD_SIZE + 1 /\ Len(b) \in Nat
  BY <1>1, Sizes
<1>3. ~(Len(d) < WORD_SIZE + 1)
  <2>1. b \in Bytes
    BY <1>1 DEF WholeWords
  <2>2. Len(d) = Len(b) + Len(tail) /\ Len(tail) \in Nat
    <3> HIDE DEF b
    <3> QED
      BY <2>1, Joined DEF Bytes
  <2> HIDE DEF b, d
  <2> QED
    BY <1>2, <2>2, Sizes
<1> HIDE DEF b, d, a, cap
<1>4. FailureRecord(d) = Got(Failure(code, message), WORD_SIZE + Len(a))
  <2>1. Got(code, WORD_SIZE).ok /\ Got(code, WORD_SIZE).val = code /\ Got(code, WORD_SIZE).used = WORD_SIZE
    BY DEF Got
  <2>2. Got(message, Len(a)).ok /\ Got(message, Len(a)).val = message /\ Got(message, Len(a)).used = Len(a)
    BY DEF Got
  <2> QED
    BY <1>1, <1>3, <2>1, <2>2, Zenon DEF FailureRecord, Then, cap
<1> QED
  BY <1>1, <1>2, <1>4 DEF b, d

\* A failure with its message sanitized.
LEMMA Sanitized ==
  ASSUME NEW code, NEW message
  PROVE  [Failure(code, message) EXCEPT !.message = sanitize_server_text(@)]
           = Failure(code, sanitize_server_text(message))
  BY DEF Failure

\* A failure decodes to its code and its sanitized message.
THEOREM FailureRoundTrip ==
  ASSUME NEW code, NEW message, FailureFits(code, message)
  PROVE  decode_failure(FailureBytes(code, message))
           = Got(Failure(code, sanitize_server_text(message)), Len(FailureBytes(code, message)))
<1> DEFINE b == FailureBytes(code, message)
           r == Got(Failure(code, message), Len(b))
<1>1. WholeWords(b) /\ FailureRecord(b \o <<>>) = r
  BY FailureRecordReads, Nothing
<1>2. b \o <<>> = b
  BY <1>1, Nothing DEF WholeWords
<1>3. r.ok /\ r.val = Failure(code, message) /\ r.used = Len(b)
  BY DEF Got
<1> HIDE DEF b, r
<1>4. FailureRecord(b) = r
  BY <1>1, <1>2
<1>5. decode_failure(b) = Got([Failure(code, message) EXCEPT !.message = sanitize_server_text(@)], Len(b))
  BY <1>3, <1>4 DEF decode_failure, Then
<1> QED
  BY <1>5, Sanitized DEF b

\* The names and the failure of a rows response that the server gave up.
HalfFits(names, code, message) ==
  /\ TextsFit(names, MAX_COLUMN_NAME_SIZE) /\ Len(names) \in 1..MAX_COLUMN_COUNT
  /\ FailureFits(code, message)

HalfBytes(names, code, message) ==
  encode_uint64(Len(names)) \o TextBytes(names) \o FailureBytes(code, message)

\* Its first record is the count and the first name.
LEMMA HalfFirst ==
  ASSUME NEW names, NEW code, NEW message, HalfFits(names, code, message)
  PROVE  \E used \in Nat :
           /\ used < Len(HalfBytes(names, code, message))
           /\ FailureRecord(HalfBytes(names, code, message)) = Got(Failure(Len(names), names[1]), used)
           /\ WholeWords(HalfBytes(names, code, message))
           /\ HalfBytes(names, code, message)
                = encode_uint64(Len(names)) \o (TextBytes(names) \o FailureBytes(code, message))
<1> DEFINE N == Len(names)
           u == encode_uint64(N)
           T == TextBytes(names)
           f == FailureBytes(code, message)
           d == HalfBytes(names, code, message)
           S == 0..(BYTE - 1)
           e == encode_text(names[1])
<1>1. N \in 0..(WordRange - 1) /\ N >= 1 /\ N \in Nat /\ names \in Seq(AllTexts) /\ 1 \in 1..N
  <2>1. N \in 1..MAX_COLUMN_COUNT /\ names \in Seq(AllTexts)
    BY DEF HalfFits, TextsFit
  <2>2. MAX_COLUMN_COUNT \in Nat /\ MAX_COLUMN_COUNT < WordRange
    BY CapsAssumption
  <2> HIDE DEF N
  <2> QED
    BY <2>1, <2>2, WordFacts
<1>2. WholeWords(u) /\ u \in Bytes
  BY <1>1, WordBytes DEF WholeWords
<1>3. WholeWords(T) /\ T \in Bytes
  BY TextList DEF HalfFits, WholeWords
<1>4. WholeWords(f) /\ f \in Bytes /\ Len(f) >= WORD_SIZE + 1 /\ Len(f) \in Nat
  BY FailureRecordReads, Nothing DEF HalfFits, WholeWords
<1>5. FailureFits(N, names[1])
  <2>1. names[1] \in AllTexts /\ text_encodable(names[1], MAX_COLUMN_NAME_SIZE)
    BY <1>1, ElementOfSeq DEF HalfFits, TextsFit
  <2>2. text_encodable(names[1], MAX_FAILURE_MESSAGE_SIZE)
    <3>1. Len(names[1]) \in Nat
      BY <2>1, LenProperties DEF AllTexts
    <3>2. MAX_COLUMN_NAME_SIZE \in Nat /\ MAX_FAILURE_MESSAGE_SIZE \in Nat
          /\ MAX_COLUMN_NAME_SIZE <= MAX_FAILURE_MESSAGE_SIZE
      BY CapsAssumption
    <3>3. \A k, m, n \in Nat : k <= m /\ m <= n => k <= n
      OBVIOUS
    <3> QED
      BY <2>1, <3>1, <3>2, <3>3, Zenon DEF text_encodable
  <2> QED
    BY <1>1, <2>1, <2>2 DEF FailureFits
<1>6. PICK rest \in Bytes : T = e \o rest
  <2> DEFINE parts == [c \in DOMAIN names |-> encode_text(names[c])]
  <2>1. DOMAIN names = 1..N /\ \A c \in 1..N : names[c] \in AllTexts
    BY <1>1, LenProperties, ElementOfSeq
  <2>2. \A c \in 1..N : encode_text(names[c]) \in Seq(S)
    <3>1. \A c \in 1..N : names[c] \in Bytes /\ IsUtf8(names[c]) /\ text_encodable(names[c], MAX_COLUMN_NAME_SIZE)
      BY <2>1, TextFacts DEF HalfFits, TextsFit
    <3>2. MAX_COLUMN_NAME_SIZE \in Nat
      BY CapsAssumption
    <3>3. \A c \in 1..N : encode_text(names[c]) \in Bytes
      BY <3>1, <3>2, TextRoundTrip, Nothing
    <3> QED
      BY <3>3 DEF Bytes
  <2> HIDE DEF N, S
  <2>3. parts = [c \in 1..N |-> encode_text(names[c])]
    BY <2>1
  <2>4. parts \in Seq(Seq(S)) /\ Len(parts) = N /\ parts[1] = e
    BY <1>1, <2>2, <2>3
  <2> HIDE DEF parts
  <2>5. \E rest \in Seq(S) : FlattenSeq(parts) = parts[1] \o rest
    BY <1>1, <2>4, FirstPart
  <2> QED
    BY <2>4, <2>5 DEF parts, TextBytes, S, Bytes
<1>7. e \in Bytes
  BY <1>5, WordAndText, CapsAssumption, Nothing DEF FailureFits, WholeWords
<1>8. d = (u \o T) \o f
  BY DEF HalfBytes
<1> HIDE DEF u, T, f, e, d, N
<1> DEFINE back == rest \o f
<1>9. back \in Bytes /\ Len(back) = Len(rest) + Len(f) /\ Len(rest) \in Nat
  BY <1>4, Joined DEF Bytes
<1>10. (u \o T) \o f = u \o (T \o f)
  BY <1>2, <1>3, <1>4, RegroupTwo, SMTT(60) DEF Bytes
<1>11. (e \o rest) \o f = e \o back
  BY <1>4, <1>7, RegroupTwo, SMTT(60) DEF Bytes
<1> HIDE DEF back
<1>12. d = (u \o e) \o back
  <2>1. (u \o e) \o back = u \o (e \o back)
    BY <1>2, <1>7, <1>9, RegroupTwo, SMTT(60) DEF Bytes
  <2> QED
    BY <1>6, <1>8, <1>10, <1>11, <2>1
<1> DEFINE h == FailureBytes(N, names[1])
<1>13. h = u \o e
  BY DEF FailureBytes, u, e
<1>14. /\ FailureRecord(h \o back) = Got(Failure(N, names[1]), Len(h))
       /\ WholeWords(h) /\ Len(h) \in Nat
  BY <1>5, <1>9, FailureRecordReads
<1> HIDE DEF h
<1>15. Len(d) = Len(h) + Len(back)
  BY <1>9, <1>12, <1>13, <1>14, Joined DEF Bytes, WholeWords
<1>16. Len(h) < Len(d)
  BY <1>4, <1>9, <1>14, <1>15, Sizes
<1>17. WholeWords(d)
  BY <1>2, <1>3, <1>4, <1>8, JoinedWords
<1>18. FailureRecord(d) = Got(Failure(N, names[1]), Len(h))
  BY <1>12, <1>13, <1>14
<1>19. d = u \o (T \o f)
  BY <1>8, <1>10
<1> QED
  BY <1>14, <1>16, <1>17, <1>18, <1>19 DEF d, N, u, T, f

\* The column names in front of a failure read back.
LEMMA HalfNames ==
  ASSUME NEW names, TextsFit(names, MAX_COLUMN_NAME_SIZE), NEW tail \in Bytes, NEW n, n = Len(names),
         NEW d, d = TextBytes(names) \o tail
  PROVE  Times(n, LAMBDA x : decode_text(x, MAX_COLUMN_NAME_SIZE), d)
           = Got(names, Len(TextBytes(names)))
<1> DEFINE D == [k \in 1..n |-> [at \in 0..Len(d) |-> decode_text(From(d, at), MAX_COLUMN_NAME_SIZE)]]
<1>1. n \in Nat /\ MAX_COLUMN_NAME_SIZE \in Nat
  BY TextList DEF TextsFit
<1>2. Times(n, LAMBDA x : decode_text(x, MAX_COLUMN_NAME_SIZE), d) = InTurn(D)
  <2>1. Len([i \in 1..n |-> i]) = n
    BY <1>1
  <2> QED
    BY <2>1 DEF Times, Each
<1>3. TextDecoders(D, n, d, MAX_COLUMN_NAME_SIZE)
  <2>1. ASSUME NEW at \in 0..Len(d)
        PROVE  decode_text(From(d, at), MAX_COLUMN_NAME_SIZE) = decode_text_view(From(d, at), MAX_COLUMN_NAME_SIZE)
    <3>1. d \in Seq(0..(BYTE - 1))
      <4>1. TextBytes(names) \in Bytes
        BY TextList DEF WholeWords
      <4> QED
        BY <4>1, Joined DEF Bytes
    <3>2. From(d, at) \in Seq(0..(BYTE - 1))
      BY <3>1, FromFacts
    <3> QED
      BY <1>1, <3>2, ViewIsBytes
  <2>2. Len(D) = n /\ \A k \in 1..n : \A at \in 0..Len(d) : D[k][at] = decode_text(From(d, at), MAX_COLUMN_NAME_SIZE)
    BY <1>1
  <2> HIDE DEF D
  <2> QED
    BY <2>1, <2>2 DEF TextDecoders
<1> HIDE DEF D
<1>4. InTurn(D) = Got(names, Len(TextBytes(names)))
  BY <1>3, TextListRoundTrip
<1> QED
  BY <1>2, <1>4

\* The failure behind the column names of a rows response the server gave up is
\* found, with the code and the message it was sent with, although the start of the
\* body reads as a failure too (_recover_trailing_failure_record).
THEOREM HalfRoundTrip ==
  ASSUME NEW names, NEW code, NEW message, HalfFits(names, code, message)
  PROVE  decode_failure(HalfBytes(names, code, message))
           = Got(Failure(code, sanitize_server_text(message)), Len(HalfBytes(names, code, message)))
<1> DEFINE N == Len(names)
           u == encode_uint64(N)
           T == TextBytes(names)
           f == FailureBytes(code, message)
           d == HalfBytes(names, code, message)
<1>1. PICK used \in Nat :
           /\ used < Len(d)
           /\ FailureRecord(d) = Got(Failure(N, names[1]), used)
           /\ WholeWords(d)
           /\ d = u \o (T \o f)
  BY HalfFirst
<1>2. N \in 0..(WordRange - 1) /\ N \in Nat /\ ~(N > MAX_COLUMN_COUNT)
  BY CapsAssumption, WordFacts DEF HalfFits
<1>3. u \in Bytes /\ Len(u) = WORD_SIZE
  BY <1>2, WordBytes DEF WholeWords
<1>4. T \in Bytes /\ Len(T) \in Nat
  BY TextList, Nothing DEF HalfFits, WholeWords
<1>5. f \in Bytes /\ Len(f) \in Nat /\ FailureRecord(f \o <<>>) = Got(Failure(code, message), Len(f))
  BY FailureRecordReads, Nothing DEF HalfFits, WholeWords
<1>6. f \o <<>> = f
  BY <1>5, Nothing
<1>7. Times(N, LAMBDA x : decode_text(x, MAX_COLUMN_NAME_SIZE), T \o f) = Got(names, Len(T))
  BY <1>5, HalfNames DEF HalfFits
<1> HIDE DEF N, u, T, f, d
<1> DEFINE t == T \o f
<1>8. t \in Seq(0..(BYTE - 1)) /\ Len(t) = Len(T) + Len(f)
  BY <1>4, <1>5, Joined DEF Bytes
<1>9. From(t, Len(T)) = f /\ Len(T) \in 0..Len(t)
  <2>1. 0 \in 0..Len(f) /\ Len(T) + 0 = Len(T)
    BY <1>4, <1>5
  <2> QED
    BY <1>4, <1>5, <2>1, Behind DEF Bytes
<1> HIDE DEF t
<1>10. From(u \o t, WORD_SIZE) = t /\ From(u \o t, WORD_SIZE + Len(T)) = From(t, Len(T))
       /\ Len(u \o t) = WORD_SIZE + Len(t)
  <2>1. u \in Seq(0..(BYTE - 1))
    BY <1>3 DEF Bytes
  <2>2. From(u \o t, Len(u) + Len(T)) = From(t, Len(T)) /\ From(u \o t, Len(u)) = t
    BY <1>8, <1>9, <2>1, Behind
  <2>3. Len(u \o t) = Len(u) + Len(t)
    BY <1>8, <2>1, Joined
  <2> QED
    BY <1>3, <2>2, <2>3
<1>11. d = u \o t
  BY <1>1 DEF t
<1>12. /\ From(d, WORD_SIZE) = t /\ From(d, WORD_SIZE + Len(T)) = f
       /\ Len(d) = WORD_SIZE + Len(T) + Len(f)
  <2>1. From(d, WORD_SIZE) = t /\ From(d, WORD_SIZE + Len(T)) = f /\ Len(d) = WORD_SIZE + Len(t)
    BY <1>9, <1>10, <1>11
  <2> QED
    BY <1>4, <1>5, <1>8, <2>1, Sizes
<1>13. recover_trailing(d, N) = Got(Failure(code, message), Len(f))
  <2> DEFINE r == Got(names, Len(T))
             q == Got(Failure(code, message), Len(f))
  <2>1. r.ok /\ r.val = names /\ r.used = Len(T)
    BY DEF Got
  <2>2. q.ok /\ q.val = Failure(code, message) /\ q.used = Len(f)
    BY DEF Got
  <2>3. Times(N, LAMBDA x : decode_text(x, MAX_COLUMN_NAME_SIZE), From(d, WORD_SIZE)) = r
    BY <1>7, <1>12 DEF t
  <2>4. FailureRecord(From(d, WORD_SIZE + Len(T))) = q
    BY <1>5, <1>6, <1>12
  <2>5. consumed(d, WORD_SIZE + Len(T) + Len(f))
    BY <1>12 DEF consumed
  <2> HIDE DEF r, q
  <2>6. recover_trailing(d, N) =
         Then(r, LAMBDA ns, at :
           Then(FailureRecord(From(d, WORD_SIZE + at)), LAMBDA record, use :
             IF consumed(d, WORD_SIZE + at + use) THEN Got(record, use) ELSE Fail))
    BY <1>2, <2>3 DEF recover_trailing
  <2>7. recover_trailing(d, N) =
           Then(q, LAMBDA record, use :
             IF consumed(d, WORD_SIZE + Len(T) + use) THEN Got(record, use) ELSE Fail)
    BY <2>1, <2>4, <2>6 DEF Then
  <2>8. recover_trailing(d, N) = Got(q.val, q.used)
    BY <2>2, <2>5, <2>7 DEF Then
  <2> QED
    BY <2>2, <2>8
<1>14. decode_failure(d) = Got([Failure(code, message) EXCEPT !.message = sanitize_server_text(@)], Len(d))
  <2> DEFINE r == Got(Failure(N, names[1]), used)
             q == recover_trailing(d, N)
  <2>1. r.ok /\ r.val = Failure(N, names[1]) /\ r.used = used
    BY DEF Got
  <2>2. q.ok /\ q.val = Failure(code, message)
    BY <1>13 DEF Got
  <2>3. Failure(N, names[1]).code = N
    BY DEF Failure
  <2>4. FailureRecord(d) = r /\ used # Len(d)
    BY <1>1, <1>4, <1>5, <1>12, Sizes
  <2> HIDE DEF r
  <2>5. decode_failure(d) = Got([Chosen(recover_trailing(d, Failure(N, names[1]).code), Failure(N, names[1]))
                                   EXCEPT !.message = sanitize_server_text(@)], Len(d))
    BY <2>1, <2>4 DEF decode_failure, Then
  <2>6. Chosen(recover_trailing(d, Failure(N, names[1]).code), Failure(N, names[1])) = Failure(code, message)
    BY <2>2, <2>3 DEF Chosen
  <2> QED
    BY <2>5, <2>6
<1> QED
  BY <1>14, Sanitized DEF d

-----------------------------------------------------------------------------

(* Files *)

FileFits(f) ==
  /\ f = [name |-> f.name, content |-> f.content] /\ f.name \in AllTexts /\ f.content \in Bytes
  /\ file_encodable(f)

FileBytes(f) == encode_text(f.name) \o encode_uint64(Len(f.content)) \o f.content

\* Bytes without a remainder are whole words.
LEMMA WordsOf ==
  ASSUME NEW b \in Bytes, Len(b) % WORD_SIZE = 0
  PROVE  WholeWords(b)
<1>1. Len(b) \in Nat
  BY Nothing
<1>2. Len(b) \div WORD_SIZE \in Nat /\ Len(b) = WORD_SIZE * (Len(b) \div WORD_SIZE) + 0
  BY <1>1, Division
<1> DEFINE q == Len(b) \div WORD_SIZE
<1> HIDE DEF q
<1>3. q \in Nat /\ Len(b) = q * WORD_SIZE
  BY <1>2, Sizes DEF q
<1> QED
  BY <1>3 DEF WholeWords

\* A file reads back, whatever follows it.
LEMMA FileRoundTrip ==
  ASSUME NEW f, FileFits(f), NEW tail \in Bytes
  PROVE  /\ WholeWords(FileBytes(f))
         /\ Len(FileBytes(f)) >= 2 * WORD_SIZE
         /\ decode_file(FileBytes(f) \o tail) = Got(f, Len(FileBytes(f)))
<1> DEFINE n == Len(f.content)
           a == encode_text(f.name)
           u == encode_uint64(n)
           c == f.content
           cap == MAX_FILENAME_SIZE
           S == 0..(BYTE - 1)
           d == FileBytes(f) \o tail
<1>1. /\ f.name \in Bytes /\ IsUtf8(f.name) /\ text_encodable(f.name, cap) /\ cap \in Nat
      /\ c \in Bytes
  BY TextFacts, CapsAssumption DEF FileFits, file_encodable
<1>2. n \in Nat /\ n % WORD_SIZE = 0 /\ n <= MAX_FILE_CONTENT_SIZE
  BY <1>1, Nothing DEF FileFits, file_encodable
<1>3. n \in 0..(WordRange - 1)
  BY <1>2, CapsAssumption, WordFacts
<1>4. WholeWords(a) /\ a \in Bytes /\ Len(a) >= WORD_SIZE /\ Len(a) \in Nat
  BY <1>1, TextRoundTrip, TextSize, Nothing DEF WholeWords
<1>5. WholeWords(u) /\ u \in Bytes /\ Len(u) = WORD_SIZE
  BY <1>3, WordBytes DEF WholeWords
<1>6. WholeWords(c)
  BY <1>1, <1>2, WordsOf
<1>7. FileBytes(f) = (a \o u) \o c
  BY DEF FileBytes
<1> DEFINE t == c \o tail
           v == u \o t
<1>8. t \in Bytes /\ t \in Seq(S) /\ Len(t) = n + Len(tail) /\ Len(tail) \in Nat
  BY <1>1, Joined DEF Bytes
<1>8a. decode_uint64(u \o t) = Got(n, WORD_SIZE)
  BY <1>3, <1>8, WordRoundTrip
<1>10. WholeWords(a \o u) /\ Len(a \o u) = Len(a) + WORD_SIZE /\ a \o u \in Bytes
  BY <1>4, <1>5, JoinedWords DEF WholeWords
<1>11. WholeWords((a \o u) \o c) /\ Len((a \o u) \o c) = Len(a) + WORD_SIZE + n
  BY <1>6, <1>10, JoinedWords
<1>11b. \A rest \in Bytes : decode_text_view(a \o rest, cap) = Got(f.name, Len(a))
  BY <1>1, TextRoundTrip
<1>0. Len(c) = n
  OBVIOUS
<1> HIDE DEF a, u, n, cap, d, c, S
<1>a. a \in Seq(S) /\ u \in Seq(S) /\ c \in Seq(S) /\ tail \in Seq(S) /\ a \o u \in Seq(S)
  BY <1>1, <1>4, <1>5, <1>10 DEF Bytes, S
<1>9. ((a \o u) \o c) \o tail = a \o (u \o t) /\ ((a \o u) \o c) \o tail = (a \o u) \o t
  <2> DEFINE p == a \o u
  <2>1. p \in Seq(S) /\ t \in Seq(S)
    BY <1>8, <1>a DEF S
  <2> HIDE DEF p, t, v
  <2>a. p \in Seq(S) /\ c \in Seq(S) /\ tail \in Seq(S)
    BY <1>a, <2>1
  <2>b. a \in Seq(S) /\ u \in Seq(S) /\ t \in Seq(S)
    BY <1>a, <2>1
  <2>2. (p \o c) \o tail = p \o (c \o tail)
    BY <2>a, RegroupTwo, SMTT(60)
  <2>3. (a \o u) \o t = a \o (u \o t)
    BY <2>b, RegroupTwo, SMTT(60)
  <2> QED
    BY <2>2, <2>3 DEF p, t
<1>11a. SubSeq((a \o u) \o t, Len(a \o u) + 1, Len(a \o u) + Len(c)) = c
        /\ Len((a \o u) \o t) = Len(a \o u) + (Len(c) + Len(tail))
  <2> DEFINE p == a \o u
  <2> HIDE DEF p
  <2>1. SubSeq(p \o t, Len(p) + 1, Len(p) + Len(c)) = c /\ Len(p \o t) = Len(p) + (Len(c) + Len(tail))
    BY <1>a, Middle DEF p
  <2> QED
    BY <2>1 DEF p
<1> HIDE DEF t
<1>12. v \in Bytes /\ v \in Seq(S) /\ Len(v) = WORD_SIZE + Len(t)
  BY <1>5, <1>8, Joined DEF Bytes, S
<1> HIDE DEF v
<1>13. d = a \o v /\ d = (a \o u) \o t
  BY <1>7, <1>9 DEF v, d, t
<1>14. decode_text_view(d, cap) = Got(f.name, Len(a))
  BY <1>11b, <1>12, <1>13
<1>15. From(d, Len(a)) = v
  <2>1. 0 \in 0..Len(v)
    BY <1>12, LenProperties
  <2>2. From(a \o v, Len(a)) = v
    BY <1>a, <1>12, <2>1, Behind
  <2> QED
    BY <1>13, <2>2
<1>16. decode_uint64(From(d, Len(a))) = Got(n, WORD_SIZE)
  BY <1>8a, <1>15 DEF v
<1>17. SubSeq(d, Len(a) + WORD_SIZE + 1, Len(a) + WORD_SIZE + n) = c
  <2>1. Len(a \o u) + 1 = Len(a) + WORD_SIZE + 1 /\ Len(a \o u) + Len(c) = Len(a) + WORD_SIZE + n
    BY <1>0, <1>10
  <2> QED
    BY <1>11a, <1>13, <2>1
<1>18. Len(d) \in Nat /\ ~(Len(a) + WORD_SIZE + n > Len(d))
  <2>1. Len(d) = Len(a) + WORD_SIZE + (n + Len(tail))
    BY <1>0, <1>2, <1>4, <1>8, <1>10, <1>11a, <1>13, Sizes
  <2> QED
    BY <1>2, <1>4, <1>8, <2>1, Sizes
<1>19. decode_file(d) = Got([name |-> f.name, content |-> c], Len(a) + WORD_SIZE + n)
  <2> DEFINE r == Got(f.name, Len(a))
             q == Got(n, WORD_SIZE)
  <2>1. r.ok /\ r.val = f.name /\ r.used = Len(a) /\ q.ok /\ q.val = n /\ q.used = WORD_SIZE
    BY DEF Got
  <2>2. decode_text_view(d, MAX_FILENAME_SIZE) = r /\ decode_uint64(From(d, Len(a))) = q
    BY <1>14, <1>16 DEF cap
  <2> HIDE DEF r, q
  <2>3. ~(n % WORD_SIZE # 0) /\ ~(n > MAX_FILE_CONTENT_SIZE)
    BY <1>2, CapsAssumption
  <2>4. decode_file(d) =
      Then(q, LAMBDA size, used :
      IF \/ size % WORD_SIZE # 0
         \/ size > MAX_FILE_CONTENT_SIZE
         \/ Len(a) + used + size > Len(d)
      THEN Fail
      ELSE Got([name |-> f.name, content |-> SubSeq(d, Len(a) + used + 1, Len(a) + used + size)],
               Len(a) + used + size))
    BY <2>1, <2>2 DEF decode_file, Then
  <2>5. decode_file(d) = Got([name |-> f.name, content |-> SubSeq(d, Len(a) + WORD_SIZE + 1, Len(a) + WORD_SIZE + n)],
               Len(a) + WORD_SIZE + n)
    BY <1>18, <2>1, <2>3, <2>4 DEF Then
  <2> QED
    BY <1>17, <2>5
<1>20. f = [name |-> f.name, content |-> c]
  BY DEF FileFits, c
<1>21. Len(FileBytes(f)) = Len(a) + WORD_SIZE + n
  BY <1>7, <1>11
<1>22. Len(FileBytes(f)) >= 2 * WORD_SIZE
  BY <1>2, <1>4, <1>21, Sizes
<1> QED
  BY <1>7, <1>11, <1>19, <1>20, <1>21, <1>22 DEF d

FileListBytes(files) == FlattenSeq([i \in DOMAIN files |-> FileBytes(files[i])])

\* Files read back one behind the other.
LEMMA FileList ==
  ASSUME NEW files, IsSequence(files), \A i \in 1..Len(files) : FileFits(files[i]), NEW tail \in Bytes
  PROVE  /\ WholeWords(FileListBytes(files))
         /\ Len(FileListBytes(files)) >= Len(files) * (2 * WORD_SIZE)
         /\ Times(Len(files), decode_file, FileListBytes(files) \o tail)
              = Got(files, Len(FileListBytes(files)))
<1> DEFINE N == Len(files)
           parts == [i \in DOMAIN files |-> FileBytes(files[i])]
           d == FileListBytes(files) \o tail
           V == {files[i] : i \in DOMAIN files}
           D == [k \in 1..N |-> [at \in 0..Len(d) |-> decode_file(From(d, at))]]
<1>1. N \in Nat /\ DOMAIN files = 1..N /\ files \in Seq(V)
  BY Items
<1>2. \A i \in 1..N : \A rest \in Bytes :
        /\ WholeWords(FileBytes(files[i])) /\ Len(FileBytes(files[i])) >= 2 * WORD_SIZE
        /\ decode_file(FileBytes(files[i]) \o rest) = Got(files[i], Len(FileBytes(files[i])))
  BY FileRoundTrip
<1> HIDE DEF N, V
<1>3. parts \in Seq(Bytes) /\ Len(parts) = N /\ \A i \in 1..N : parts[i] = FileBytes(files[i])
  <2>1. parts = [i \in 1..N |-> FileBytes(files[i])]
    BY <1>1
  <2>2. \A i \in 1..N : FileBytes(files[i]) \in Bytes
    BY <1>2, Nothing DEF WholeWords
  <2> QED
    BY <1>1, <2>1, <2>2
<1>4. FileListBytes(files) = FlattenSeq(parts)
  BY DEF FileListBytes
<1> HIDE DEF parts, d
<1>5. Times(N, decode_file, d) = InTurn(D)
  <2>1. Len([i \in 1..N |-> i]) = N
    BY <1>1
  <2> QED
    BY <2>1 DEF Times, Each
<1>6. Len(D) = N /\ \A k \in 1..N : \A at \in 0..Len(d) : D[k][at] = decode_file(From(d, at))
  BY <1>1
<1> HIDE DEF D
<1>7. PartsRead(D, parts, tail, files)
  <2>1. ASSUME NEW k \in 1..N, NEW at \in 0..Len(d), NEW rest \in Bytes,
               From(d, at) = parts[k] \o rest
        PROVE  D[k][at] = Got(files[k], Len(parts[k]))
    <3>1. decode_file(parts[k] \o rest) = Got(files[k], Len(parts[k]))
      BY <1>2, <1>3
    <3> QED
      BY <1>6, <2>1, <3>1
  <2> QED
    BY <1>3, <1>4, <1>6, <2>1 DEF PartsRead, N, d
<1>8. InTurn(D) = Got(files, Len(FlattenSeq(parts)))
  BY <1>1, <1>3, <1>7, ListRoundTrip
<1>9. WholeWords(FlattenSeq(parts))
  BY <1>2, <1>3, FlattenWords
<1>10. Len(FlattenSeq(parts)) >= N * (2 * WORD_SIZE)
  <2>1. parts \in Seq(Seq(0..(BYTE - 1))) /\ 2 * WORD_SIZE \in Nat
    BY <1>3, Sizes DEF Bytes
  <2>2. \A c \in 1..Len(parts) : Len(parts[c]) >= 2 * WORD_SIZE
    BY <1>2, <1>3, Nothing
  <2> QED
    BY <1>3, <2>1, <2>2, FlattenLength
<1> QED
  BY <1>4, <1>5, <1>8, <1>9, <1>10 DEF N, d

FilesFit(files) ==
  /\ IsSequence(files) /\ \A i \in 1..Len(files) : FileFits(files[i])
  /\ Len(files) <= MAX_FILE_COUNT /\ Distinct(files, LAMBDA f : f.name)

\* A list of files decodes to itself.
THEOREM FilesRoundTrip ==
  ASSUME NEW files, FilesFit(files)
  PROVE  /\ WholeWords(encode_uint64(Len(files)) \o FileListBytes(files))
         /\ decode_files(encode_uint64(Len(files)) \o FileListBytes(files))
              = Got(Files(files), Len(encode_uint64(Len(files)) \o FileListBytes(files)))
<1> DEFINE N == Len(files)
           u == encode_uint64(N)
           b == FileListBytes(files)
           d == u \o b
<1>1. N \in Nat /\ N \in 0..(WordRange - 1) /\ ~(N > MAX_FILE_COUNT)
  <2>1. N \in Nat /\ N <= MAX_FILE_COUNT /\ MAX_FILE_COUNT \in Nat /\ MAX_FILE_COUNT < WordRange
    BY Items, CapsAssumption DEF FilesFit
  <2> HIDE DEF N
  <2> QED
    BY <2>1, WordFacts
<1>2. WholeWords(u) /\ u \in Bytes /\ Len(u) = WORD_SIZE
  BY <1>1, WordBytes DEF WholeWords
<1>3. /\ WholeWords(b) /\ b \in Bytes /\ Len(b) \in Nat /\ Len(b) >= N * (2 * WORD_SIZE)
      /\ Times(N, decode_file, b \o <<>>) = Got(files, Len(b))
  BY FileList, Nothing DEF FilesFit, WholeWords
<1>4. b \o <<>> = b
  BY <1>3, Nothing
<1>5. decode_uint64(d) = Got(N, WORD_SIZE)
  BY <1>1, <1>3, WordRoundTrip
<1> HIDE DEF u, b, N
<1>6. WholeWords(d) /\ Len(d) = WORD_SIZE + Len(b)
  BY <1>2, <1>3, JoinedWords
<1>7. From(d, WORD_SIZE) = b
  <2>1. 0 \in 0..Len(b) /\ u \in Seq(0..(BYTE - 1)) /\ b \in Seq(0..(BYTE - 1))
    BY <1>2, <1>3 DEF Bytes
  <2> QED
    BY <1>2, <2>1, Behind
<1> HIDE DEF d
<1>8. ~(N > (Len(d) - WORD_SIZE) \div (2 * WORD_SIZE))
  <2>1. 2 * WORD_SIZE \in Nat \ {0} /\ Len(d) - WORD_SIZE = Len(b)
    BY <1>3, <1>6, Sizes
  <2>2. N * (2 * WORD_SIZE) <= Len(b)
    BY <1>1, <1>3, Sizes
  <2>3. ~(N > Len(b) \div (2 * WORD_SIZE))
    BY <1>1, <1>3, <2>1, <2>2, Quotient
  <2> QED
    BY <2>1, <2>3
<1>9. consumed(d, WORD_SIZE + Len(b)) /\ Distinct(files, LAMBDA f : f.name)
  BY <1>6 DEF consumed, FilesFit
<1>10. decode_files(d) = Got(Files(files), Len(d))
  <2> DEFINE r == Got(N, WORD_SIZE)
             q == Got(files, Len(b))
  <2>1. r.ok /\ r.val = N /\ r.used = WORD_SIZE /\ q.ok /\ q.val = files /\ q.used = Len(b)
    BY DEF Got
  <2>2. decode_uint64(d) = r /\ Times(N, decode_file, From(d, WORD_SIZE)) = q
    BY <1>3, <1>4, <1>5, <1>7
  <2> HIDE DEF r, q
  <2>3. decode_files(d) = Then(q, LAMBDA fs, used :
           IF Distinct(fs, LAMBDA f : f.name) /\ consumed(d, WORD_SIZE + used)
           THEN Got(Files(fs), Len(d))
           ELSE Fail)
    BY <1>1, <1>8, <2>1, <2>2 DEF decode_files, Then
  <2> QED
    BY <1>9, <2>1, <2>3 DEF Then
<1> QED
  BY <1>6, <1>10 DEF d, u, b, N

-----------------------------------------------------------------------------

(* Nodes *)

NodeFits(n) ==
  /\ n = [node_id |-> n.node_id, address |-> n.address, role |-> n.role]
  /\ n.address \in AllTexts /\ node_valid(n) /\ text_encodable(n.address, MAX_ADDRESS_SIZE)

NodeBytes(n) == encode_uint64(n.node_id) \o encode_text(n.address) \o encode_uint64(n.role)

\* A node reads back, whatever follows it.
LEMMA NodeRoundTrip ==
  ASSUME NEW n, NodeFits(n), NEW tail \in Bytes
  PROVE  /\ WholeWords(NodeBytes(n))
         /\ Len(NodeBytes(n)) >= 3 * WORD_SIZE
         /\ decode_node(NodeBytes(n) \o tail) = Got(n, Len(NodeBytes(n)))
<1> DEFINE id == n.node_id
           s == n.address
           role == n.role
           a == encode_text(s)
           h == FailureBytes(id, s)
           w == encode_uint64(role)
           t == w \o tail
           d == NodeBytes(n) \o tail
           cap == MAX_ADDRESS_SIZE
           S == 0..(BYTE - 1)
<1>1. /\ id \in 0..(WordRange - 1) /\ id # 0 /\ s # <<>> /\ role \in {0, 1, 2}
      /\ s \in AllTexts /\ text_encodable(s, cap) /\ cap \in Nat
  BY CapsAssumption DEF NodeFits, node_valid, is_uint64, VOTER, STANDBY, SPARE
<1>2. role \in 0..(WordRange - 1)
  BY <1>1, WordFacts DEF BYTE
<1>3. WholeWords(w) /\ w \in Bytes /\ Len(w) = WORD_SIZE /\ decode_uint64(t) = Got(role, WORD_SIZE)
  BY <1>2, WordBytes, WordRoundTrip DEF WholeWords
<1>4. t \in Bytes /\ t \in Seq(S)
  <2> HIDE DEF w
  <2> QED
    BY <1>3, Joined DEF Bytes
<1>5. /\ WholeWords(h) /\ h \in Bytes /\ Len(h) = WORD_SIZE + Len(a) /\ Len(a) >= WORD_SIZE /\ Len(a) \in Nat
      /\ decode_uint64(h \o t) = Got(id, WORD_SIZE)
      /\ decode_text_view(From(h \o t, WORD_SIZE), cap) = Got(s, Len(a))
  BY <1>1, <1>4, WordAndText DEF WholeWords
<1>6. NodeBytes(n) = h \o w
  BY DEF NodeBytes, FailureBytes
<1>0. n = [node_id |-> id, address |-> s, role |-> role]
  BY DEF NodeFits
<1> HIDE DEF id, s, role, a, h, w, d, cap, S
<1>7. WholeWords(h \o w) /\ Len(h \o w) = WORD_SIZE + Len(a) + WORD_SIZE
  BY <1>3, <1>5, JoinedWords
<1>8. d = h \o t
  <2>0. h \in Seq(S) /\ w \in Seq(S) /\ tail \in Seq(S)
    BY <1>3, <1>5 DEF Bytes, S
  <2>1. (h \o w) \o tail = h \o (w \o tail)
    BY <2>0, RegroupTwo, SMTT(60)
  <2> QED
    BY <1>6, <2>1 DEF d
<1>9. From(d, WORD_SIZE + Len(a)) = t
  <2> HIDE DEF t
  <2>0. h \in Seq(S) /\ t \in Seq(S) /\ 0 \in 0..Len(t)
    BY <1>4, <1>5, LenProperties DEF Bytes, S
  <2>1. From(h \o t, Len(h)) = t
    BY <2>0, Behind
  <2> QED
    BY <1>5, <1>8, <2>1
<1> HIDE DEF t
<1>10. decode_node(d) = Got(n, WORD_SIZE + Len(a) + WORD_SIZE)
  <2> DEFINE r == Got(id, WORD_SIZE)
             q == Got(s, Len(a))
             p == Got(role, WORD_SIZE)
  <2>1. r.ok /\ r.val = id /\ r.used = WORD_SIZE /\ q.ok /\ q.val = s /\ q.used = Len(a)
        /\ p.ok /\ p.val = role /\ p.used = WORD_SIZE
    BY DEF Got
  <2>2. decode_uint64(d) = r /\ decode_text_view(From(d, WORD_SIZE), MAX_ADDRESS_SIZE) = q
        /\ decode_uint64(From(d, WORD_SIZE + Len(a))) = p
    BY <1>3, <1>5, <1>8, <1>9 DEF cap
  <2> HIDE DEF r, q, p
  <2>3. Smaller(role, SPARE) = role /\ ~(role > SPARE)
    BY <1>1 DEF Smaller, SPARE
  <2>4. decode_node(d) =
    Then(q, LAMBDA address, text_size :
      Then(decode_uint64(From(d, WORD_SIZE + text_size)), LAMBDA raw_role, role_size :
        IF \/ id = 0
           \/ address = <<>>
           \/ raw_role > SPARE /\ unknown_role_policy = "reject"
        THEN Fail
        ELSE Got([node_id |-> id, address |-> address, role |-> Smaller(raw_role, SPARE)],
                 WORD_SIZE + text_size + role_size)))
    BY <2>1, <2>2 DEF decode_node, Then
  <2>5. decode_node(d) =
      Then(p, LAMBDA raw_role, role_size :
        IF \/ id = 0
           \/ s = <<>>
           \/ raw_role > SPARE /\ unknown_role_policy = "reject"
        THEN Fail
        ELSE Got([node_id |-> id, address |-> s, role |-> Smaller(raw_role, SPARE)],
                 WORD_SIZE + Len(a) + role_size))
    BY <2>1, <2>2, <2>4 DEF Then
  <2>6. decode_node(d) = Got([node_id |-> id, address |-> s, role |-> role], WORD_SIZE + Len(a) + WORD_SIZE)
    BY <1>1, <2>1, <2>3, <2>5 DEF Then
  <2> QED
    BY <1>0, <2>6
<1>11. WORD_SIZE + Len(a) + WORD_SIZE >= 3 * WORD_SIZE
  BY <1>5, Sizes
<1> QED
  BY <1>6, <1>7, <1>10, <1>11 DEF d

NodeListBytes(nodes) == FlattenSeq([i \in DOMAIN nodes |-> NodeBytes(nodes[i])])

\* Nodes read back one behind the other.
LEMMA NodeList ==
  ASSUME NEW nodes, IsSequence(nodes), \A i \in 1..Len(nodes) : NodeFits(nodes[i]), NEW tail \in Bytes
  PROVE  /\ WholeWords(NodeListBytes(nodes))
         /\ Len(NodeListBytes(nodes)) >= Len(nodes) * (3 * WORD_SIZE)
         /\ Times(Len(nodes), decode_node, NodeListBytes(nodes) \o tail)
              = Got(nodes, Len(NodeListBytes(nodes)))
<1> DEFINE N == Len(nodes)
           parts == [i \in DOMAIN nodes |-> NodeBytes(nodes[i])]
           d == NodeListBytes(nodes) \o tail
           V == {nodes[i] : i \in DOMAIN nodes}
           D == [k \in 1..N |-> [at \in 0..Len(d) |-> decode_node(From(d, at))]]
<1>1. N \in Nat /\ DOMAIN nodes = 1..N /\ nodes \in Seq(V)
  BY Items
<1>2. \A i \in 1..N : \A rest \in Bytes :
        /\ WholeWords(NodeBytes(nodes[i])) /\ Len(NodeBytes(nodes[i])) >= 3 * WORD_SIZE
        /\ decode_node(NodeBytes(nodes[i]) \o rest) = Got(nodes[i], Len(NodeBytes(nodes[i])))
  BY NodeRoundTrip
<1> HIDE DEF N, V
<1>3. parts \in Seq(Bytes) /\ Len(parts) = N /\ \A i \in 1..N : parts[i] = NodeBytes(nodes[i])
  <2>1. parts = [i \in 1..N |-> NodeBytes(nodes[i])]
    BY <1>1
  <2>2. \A i \in 1..N : NodeBytes(nodes[i]) \in Bytes
    BY <1>2, Nothing DEF WholeWords
  <2> QED
    BY <1>1, <2>1, <2>2
<1>4. NodeListBytes(nodes) = FlattenSeq(parts)
  BY DEF NodeListBytes
<1> HIDE DEF parts, d
<1>5. Times(N, decode_node, d) = InTurn(D)
  <2>1. Len([i \in 1..N |-> i]) = N
    BY <1>1
  <2> QED
    BY <2>1 DEF Times, Each
<1>6. Len(D) = N /\ \A k \in 1..N : \A at \in 0..Len(d) : D[k][at] = decode_node(From(d, at))
  BY <1>1
<1> HIDE DEF D
<1>7. PartsRead(D, parts, tail, nodes)
  <2>1. ASSUME NEW k \in 1..N, NEW at \in 0..Len(d), NEW rest \in Bytes,
               From(d, at) = parts[k] \o rest
        PROVE  D[k][at] = Got(nodes[k], Len(parts[k]))
    <3>1. decode_node(parts[k] \o rest) = Got(nodes[k], Len(parts[k]))
      BY <1>2, <1>3
    <3> QED
      BY <1>6, <2>1, <3>1
  <2> QED
    BY <1>3, <1>4, <1>6, <2>1 DEF PartsRead, N, d
<1>8. InTurn(D) = Got(nodes, Len(FlattenSeq(parts)))
  BY <1>1, <1>3, <1>7, ListRoundTrip
<1>9. WholeWords(FlattenSeq(parts))
  BY <1>2, <1>3, FlattenWords
<1>10. Len(FlattenSeq(parts)) >= N * (3 * WORD_SIZE)
  <2>1. parts \in Seq(Seq(0..(BYTE - 1))) /\ 3 * WORD_SIZE \in Nat
    BY <1>3, Sizes DEF Bytes
  <2>2. \A c \in 1..Len(parts) : Len(parts[c]) >= 3 * WORD_SIZE
    BY <1>2, <1>3, Nothing
  <2> QED
    BY <1>3, <2>1, <2>2, FlattenLength
<1> QED
  BY <1>4, <1>5, <1>8, <1>9, <1>10 DEF N, d

ServersFit(nodes) ==
  /\ IsSequence(nodes) /\ \A i \in 1..Len(nodes) : NodeFits(nodes[i])
  /\ Len(nodes) <= MAX_NODE_COUNT /\ Distinct(nodes, LAMBDA n : n.node_id)

\* A list of nodes decodes to itself.
THEOREM ServersRoundTrip ==
  ASSUME NEW nodes, ServersFit(nodes)
  PROVE  /\ WholeWords(encode_uint64(Len(nodes)) \o NodeListBytes(nodes))
         /\ decode_servers(encode_uint64(Len(nodes)) \o NodeListBytes(nodes))
              = Got(Servers(nodes), Len(encode_uint64(Len(nodes)) \o NodeListBytes(nodes)))
<1> DEFINE N == Len(nodes)
           u == encode_uint64(N)
           b == NodeListBytes(nodes)
           d == u \o b
<1>1. N \in Nat /\ N \in 0..(WordRange - 1) /\ ~(N > MAX_NODE_COUNT)
  <2>1. N \in Nat /\ N <= MAX_NODE_COUNT /\ MAX_NODE_COUNT \in Nat /\ MAX_NODE_COUNT < WordRange
    BY Items, CapsAssumption DEF ServersFit
  <2> HIDE DEF N
  <2> QED
    BY <2>1, WordFacts
<1>2. WholeWords(u) /\ u \in Bytes /\ Len(u) = WORD_SIZE
  BY <1>1, WordBytes DEF WholeWords
<1>3. /\ WholeWords(b) /\ b \in Bytes /\ Len(b) \in Nat /\ Len(b) >= N * (3 * WORD_SIZE)
      /\ Times(N, decode_node, b \o <<>>) = Got(nodes, Len(b))
  BY NodeList, Nothing DEF ServersFit, WholeWords
<1>4. b \o <<>> = b
  BY <1>3, Nothing
<1>5. decode_uint64(d) = Got(N, WORD_SIZE)
  BY <1>1, <1>3, WordRoundTrip
<1> HIDE DEF u, b, N
<1>6. WholeWords(d) /\ Len(d) = WORD_SIZE + Len(b)
  BY <1>2, <1>3, JoinedWords
<1>7. From(d, WORD_SIZE) = b
  <2>1. 0 \in 0..Len(b) /\ u \in Seq(0..(BYTE - 1)) /\ b \in Seq(0..(BYTE - 1))
    BY <1>2, <1>3 DEF Bytes
  <2> QED
    BY <1>2, <2>1, Behind
<1> HIDE DEF d
<1>8. ~(N > (Len(d) - WORD_SIZE) \div (3 * WORD_SIZE))
  <2>1. 3 * WORD_SIZE \in Nat \ {0} /\ Len(d) - WORD_SIZE = Len(b)
    BY <1>3, <1>6, Sizes
  <2>2. N * (3 * WORD_SIZE) <= Len(b)
    BY <1>1, <1>3, Sizes
  <2>3. ~(N > Len(b) \div (3 * WORD_SIZE))
    BY <1>1, <1>3, <2>1, <2>2, Quotient
  <2> QED
    BY <2>1, <2>3
<1>9. consumed(d, WORD_SIZE + Len(b)) /\ Distinct(nodes, LAMBDA n : n.node_id)
  BY <1>6 DEF consumed, ServersFit
<1>10. decode_servers(d) = Got(Servers(nodes), Len(d))
  <2> DEFINE r == Got(N, WORD_SIZE)
             q == Got(nodes, Len(b))
  <2>1. r.ok /\ r.val = N /\ r.used = WORD_SIZE /\ q.ok /\ q.val = nodes /\ q.used = Len(b)
    BY DEF Got
  <2>2. decode_uint64(d) = r /\ Times(N, decode_node, From(d, WORD_SIZE)) = q
    BY <1>3, <1>4, <1>5, <1>7
  <2> HIDE DEF r, q
  <2>3. decode_servers(d) = Then(q, LAMBDA ns, used :
           IF Distinct(ns, LAMBDA n : n.node_id) /\ consumed(d, WORD_SIZE + used)
           THEN Got(Servers(ns), Len(d))
           ELSE Fail)
    BY <1>1, <1>8, <2>1, <2>2 DEF decode_servers, Then
  <2> QED
    BY <1>9, <2>1, <2>3 DEF Then
<1> QED
  BY <1>6, <1>10 DEF d, u, b, N

-----------------------------------------------------------------------------

(* Parameters *)

\* A header that starts at a whole word and is padded by its absolute position
\* is whole words itself.
LEMMA PaddedWords ==
  ASSUME NEW offset \in Nat, NEW w \in Nat, offset = w * WORD_SIZE, NEW h \in Nat
  PROVE  /\ pad_to_word(offset + h) \in Nat
         /\ \E q \in Nat : h + pad_to_word(offset + h) = q * WORD_SIZE
<1>1. offset + h \in Nat
  OBVIOUS
<1>2. PICK v \in 0..(offset + h + pad_to_word(offset + h)) : v * WORD_SIZE = offset + h + pad_to_word(offset + h)
  BY <1>1, Padding
<1>3. pad_to_word(offset + h) \in Nat
  BY <1>1, Padding, Sizes
<1> DEFINE p == pad_to_word(offset + h)
<1> HIDE DEF p
<1>4. p \in Nat /\ v \in Nat /\ v * WORD_SIZE = offset + h + p
  BY <1>1, <1>2, <1>3 DEF p
<1>5. v * WORD_SIZE >= w * WORD_SIZE
  BY <1>4
<1>6. v >= w
  <2>1. SUFFICES ASSUME v < w PROVE FALSE
    BY <1>4
  <2>2. PICK k \in Nat : w = v + 1 + k
    <3>1. w - (v + 1) \in Nat /\ w = v + 1 + (w - (v + 1))
      BY <1>4, <2>1
    <3> QED
      BY <3>1
  <2>3. w * WORD_SIZE = v * WORD_SIZE + WORD_SIZE + k * WORD_SIZE /\ k * WORD_SIZE \in Nat
    BY <1>4, <2>2, Sizes
  <2> QED
    BY <1>4, <1>5, <2>3, Sizes
<1>7. v - w \in Nat /\ (v - w) * WORD_SIZE = v * WORD_SIZE - w * WORD_SIZE
  BY <1>4, <1>6, Sizes
<1>8. (v - w) * WORD_SIZE = h + p
  BY <1>4, <1>7, Sizes
<1> QED
  BY <1>3, <1>7, <1>8 DEF p

ParamsFit(xs, types, schema) ==
  /\ ValuesFit(xs, types) /\ types \in Seq(ValueType \ {UNIXTIME})
  /\ schema \in {0, 1}
  /\ Len(xs) \in 1..MAX_PARAM_COUNT
  /\ schema = 0 => Len(xs) <= V0_MAX_PARAMS

\* The count of parameters fits its field.
LEMMA CountFacts ==
  ASSUME NEW schema \in {0, 1}, NEW n \in 0..MAX_PARAM_COUNT, schema = 0 => n <= V0_MAX_PARAMS
  PROVE  /\ CountSize(schema) \in 1..WORD_SIZE
         /\ n \in 0..(Codes(CountSize(schema)) - 1)
         /\ CountField(n, schema) \in Bytes /\ Len(CountField(n, schema)) = CountSize(schema)
         /\ Number(CountField(n, schema)) = n
<1>1. CountSize(schema) \in 1..WORD_SIZE /\ CountSize(schema) \in Nat
  BY TupleSizesAssumption, WireSizesAssumption DEF CountSize
<1>2. Codes(1) = BYTE
  <2>1. Codes(0 + 1) = BYTE * Codes(0) /\ Codes(0) = 1
    BY CodesFacts
  <2> QED
    BY <2>1 DEF BYTE
<1>3. n \in 0..(Codes(CountSize(schema)) - 1)
  <2>1. CASE schema = 1
    <3>1. CountSize(schema) = UINT32_SIZE
      BY <2>1 DEF CountSize
    <3>2. Codes(UINT32_SIZE) \in Nat
      BY CodesFacts, Sizes
    <3> QED
      BY <3>1, <3>2, TupleSizesAssumption
  <2>2. CASE schema = 0
    <3>1. CountSize(schema) = 1
      BY <2>2 DEF CountSize
    <3> QED
      BY <1>2, <2>2, <3>1, TupleSizesAssumption DEF BYTE
  <2> QED
    BY <2>1, <2>2
<1>4. n \in Nat
  BY TupleSizesAssumption
<1>5. CountField(n, schema) \in Bytes /\ Len(CountField(n, schema)) = CountSize(schema)
  BY <1>1, <1>4, LittleEndianBytes DEF CountField, Bytes
<1>6. Number(CountField(n, schema)) = n
  BY <1>1, <1>3, NumberRoundTrip DEF CountField
<1> QED
  BY <1>1, <1>3, <1>5, <1>6

\* Parameters read back under their types, at either schema and behind any number
\* of words.
LEMMA ParamsRoundTrip ==
  ASSUME NEW xs, NEW types, NEW schema, ParamsFit(xs, types, schema),
         NEW offset \in Nat, NEW w \in Nat, offset = w * WORD_SIZE
  PROVE  LET b == ParamsHeader(types, schema, offset) \o ValueBytes(xs, types) IN
         /\ WholeWords(b)
         /\ decode_params_tuple(b, schema, offset) = Got(AllAsRead(xs, types), Len(b))
<1> DEFINE N == Len(types)
           cs == CountSize(schema)
           cf == CountField(N, schema)
           hd == cf \o types
           h == cs + N
           pad == pad_to_word(offset + h)
           z == Zeros(pad)
           H == hd \o z
           vb == ValueBytes(xs, types)
           d == H \o vb
           S == 0..(BYTE - 1)
<1>1. /\ N \in Nat /\ N \in 1..MAX_PARAM_COUNT /\ schema \in {0, 1} /\ (schema = 0 => N <= V0_MAX_PARAMS)
      /\ types \in Seq(ValueType \ {UNIXTIME}) /\ Len(xs) = N /\ N \in 0..MAX_PARAM_COUNT
  BY TupleSizesAssumption DEF ParamsFit, ValuesFit
<1>2. /\ cs \in 1..WORD_SIZE /\ cf \in Bytes /\ Len(cf) = cs /\ Number(cf) = N
  BY <1>1, CountFacts
<1>3. types \in Bytes
  <2>1. ValueType \ {UNIXTIME} \subseteq 0..(BYTE - 1)
    BY Tags DEF BYTE
  <2> QED
    BY <1>1, <2>1, SeqSubset DEF Bytes
<1>4. WholeWords(vb) /\ vb \in Bytes /\ Len(vb) \in Nat /\ Each(types, decode_value, vb \o <<>>) = Got(AllAsRead(xs, types), Len(vb))
  BY <1>1, ValuesRoundTrip, Nothing DEF ParamsFit, WholeWords
<1>5. vb \o <<>> = vb
  BY <1>4, Nothing
<1>6. h \in Nat /\ h >= 2
  BY <1>1, <1>2, Sizes
<1> HIDE DEF N, cs, cf, vb
<1>7. pad \in Nat /\ \E q \in Nat : h + pad = q * WORD_SIZE
  <2> HIDE DEF h
  <2> QED
    BY <1>6, PaddedWords
<1>8. hd \in Bytes /\ Len(hd) = h /\ SubSeq(hd, 1, cs) = cf /\ \A i \in 1..N : hd[cs + i] = types[i]
  <2>1. cf \in Seq(S) /\ types \in Seq(S)
    BY <1>2, <1>3 DEF Bytes
  <2> HIDE DEF S
  <2>2. /\ cf \o types \in Seq(S) /\ Len(cf \o types) = Len(cf) + Len(types)
        /\ SubSeq(cf \o types, 1, Len(cf)) = cf
        /\ \A i \in 1..Len(types) : (cf \o types)[Len(cf) + i] = types[i]
    BY <2>1, Joined
  <2> QED
    BY <1>2, <2>2 DEF Bytes, N, S
<1>9. ParamsHeader(types, schema, offset) = H
  BY <1>8 DEF ParamsHeader, cf, N
<1> HIDE DEF pad, h
<1>10. z \in Bytes /\ Len(z) = pad
  BY <1>7, ZerosFacts
<1> HIDE DEF hd, z
<1>11. H \in Bytes /\ Len(H) = h + pad
  BY <1>8, <1>10, Joined DEF Bytes
<1>12. WholeWords(H)
  BY <1>7, <1>11 DEF WholeWords
<1>13. \A i \in 1..h : H[i] = hd[i]
  BY <1>8, <1>10, Joined DEF Bytes
<1> HIDE DEF H
<1>14. WholeWords(d) /\ Len(d) = h + pad + Len(vb) /\ d \in Bytes
  <2>1. WholeWords(d) /\ Len(d) = Len(H) + Len(vb)
    BY <1>4, <1>12, JoinedWords
  <2> QED
    BY <2>1, <1>11 DEF WholeWords
<1>15. \A i \in 1..(h + pad) : d[i] = H[i]
  BY <1>4, <1>11, Joined DEF Bytes
<1>16. From(d, h + pad) = vb
  <2>1. 0 \in 0..Len(vb) /\ H \in Seq(S) /\ vb \in Seq(S)
    BY <1>4, <1>11 DEF Bytes
  <2> QED
    BY <1>11, <2>1, Behind
<1> HIDE DEF d
<1>17. \A i \in 1..h : i \in 1..(h + pad) /\ d[i] = hd[i]
  BY <1>6, <1>7, <1>13, <1>15
<1>18. SubSeq(d, 1, cs) = cf
  <2>1. cs \in Nat /\ cs <= Len(d) /\ cs <= h /\ cs <= Len(hd) /\ d \in Seq(S) /\ hd \in Seq(S)
    BY <1>1, <1>2, <1>4, <1>6, <1>7, <1>8, <1>14 DEF Bytes, h
  <2> DEFINE a == SubSeq(d, 1, cs)
             b == SubSeq(hd, 1, cs)
  <2>2. a \in Seq(S) /\ Len(a) = cs /\ \A i \in 1..cs : a[i] = d[i]
    BY <2>1, StartOf
  <2>3. b \in Seq(S) /\ Len(b) = cs /\ \A i \in 1..cs : b[i] = hd[i]
    BY <2>1, StartOf
  <2>4. \A i \in 1..cs : d[i] = hd[i]
    BY <1>6, <1>17, <2>1
  <2> HIDE DEF a, b
  <2>5. a = b
    BY <2>2, <2>3, <2>4, SeqEqual
  <2> QED
    BY <1>8, <2>5 DEF a, b
<1>19. SubSeq(d, cs + 1, h) = types
  <2>1. cs \in Nat /\ N \in Nat /\ cs + N <= Len(d) /\ h = cs + N /\ d \in Seq(S) /\ types \in Seq(S)
    BY <1>1, <1>2, <1>3, <1>4, <1>6, <1>7, <1>14 DEF Bytes, h
  <2> DEFINE a == SubSeq(d, cs + 1, cs + N)
  <2>2. a \in Seq(S) /\ Len(a) = N /\ \A i \in 1..N : a[i] = d[cs + i]
    <3> HIDE DEF S
    <3> QED
      BY <2>1, PartOf
  <2>3. \A i \in 1..N : cs + i \in 1..h
    BY <2>1
  <2>4. \A i \in 1..N : a[i] = types[i]
    BY <1>8, <1>17, <2>2, <2>3
  <2> HIDE DEF a
  <2>5. a = types
    BY <2>1, <2>2, <2>4, SeqEqual DEF N
  <2> QED
    BY <2>1, <2>5 DEF a
<1>20. ToSet(types) \subseteq ValueType \ {UNIXTIME}
  BY <1>1 DEF ToSet
<1>21. Len(d) >= WORD_SIZE /\ Len(d) \in Nat /\ ~(Len(d) < WORD_SIZE) /\ ~(Len(d) < h + pad) /\ d # <<>>
  <2>1. PICK q \in Nat : h + pad = q * WORD_SIZE
    BY <1>7
  <2>2. q # 0
    BY <1>6, <1>7, <2>1, Sizes
  <2>3. q * WORD_SIZE >= WORD_SIZE
    <3>1. PICK k \in Nat : q = k + 1
      <4>1. q - 1 \in Nat /\ q = (q - 1) + 1
        BY <2>2
      <4> QED
        BY <4>1
    <3>2. q * WORD_SIZE = k * WORD_SIZE + WORD_SIZE /\ k * WORD_SIZE \in Nat
      BY <3>1, Sizes
    <3> QED
      BY <3>2, Sizes
  <2>4. Len(d) \in Nat /\ Len(d) >= h + pad /\ Len(d) >= WORD_SIZE
    BY <1>4, <1>6, <1>7, <1>14, <2>1, <2>3, Sizes
  <2>5. d # <<>>
    <3>1. Len(d) # 0
      BY <2>4, Sizes
    <3> QED
      BY <3>1
  <2> QED
    BY <1>6, <1>7, <2>4, <2>5, Sizes
<1>22. decode_params_tuple(d, schema, offset) = Got(AllAsRead(xs, types), Len(d))
  <2> DEFINE r == Got(AllAsRead(xs, types), Len(vb))
  <2>1. r.ok /\ r.val = AllAsRead(xs, types) /\ r.used = Len(vb)
    BY DEF Got
  <2>2. Each(types, decode_value, From(d, h + pad)) = r
    BY <1>4, <1>5, <1>16
  <2> HIDE DEF r
  <2>3. N # 0 /\ ~(N > MAX_PARAM_COUNT)
    BY <1>1, TupleSizesAssumption
  <2>4. Number(SubSeq(d, 1, CountSize(schema))) = N
    BY <1>2, <1>18 DEF cs
  <2>5. /\ CountSize(schema) + Number(SubSeq(d, 1, CountSize(schema))) = h
        /\ pad_to_word(offset + h) = pad
        /\ CountSize(schema) + 1 = cs + 1
    BY <2>4 DEF h, pad, cs
  <2>6. decode_params_tuple(d, schema, offset) = Got(AllAsRead(xs, types), h + pad + Len(vb))
    <3> HIDE DEF S
    <3> QED
      BY <1>19, <1>20, <1>21, <2>1, <2>2, <2>3, <2>4, <2>5, Zenon DEF decode_params_tuple, Then
  <2> QED
    BY <1>14, <2>6
<1> QED
  BY <1>9, <1>14, <1>22 DEF d, vb

\* No parameters read as none, with the empty header of C and without.
LEMMA NoParams ==
  ASSUME NEW schema \in {0, 1}, NEW offset \in Nat, NEW w \in Nat, offset = w * WORD_SIZE
  PROVE  /\ decode_params_tuple(<<>>, schema, offset) = Got(<<>>, 0)
         /\ decode_params_tuple(Zeros(WORD_SIZE), schema, offset) = Got(<<>>, WORD_SIZE)
         /\ WholeWords(<<>>) /\ Len(<<>>) = 0
         /\ WholeWords(Zeros(WORD_SIZE)) /\ Len(Zeros(WORD_SIZE)) = WORD_SIZE
<1>1. decode_params_tuple(<<>>, schema, offset) = Got(<<>>, 0)
  BY DEF decode_params_tuple
<1> DEFINE d == Zeros(WORD_SIZE)
           cs == CountSize(schema)
           cf == CountField(0, schema)
           S == 0..(BYTE - 1)
<1>2. d \in Bytes /\ Len(d) = WORD_SIZE /\ \A i \in 1..WORD_SIZE : d[i] = 0
  BY ZerosFacts, Sizes
<1>3. WholeWords(d)
  BY <1>2, OneWord
<1>4. cs \in 1..WORD_SIZE /\ cs \in Nat
  BY TupleSizesAssumption, WireSizesAssumption DEF CountSize
<1>5. Number(SubSeq(d, 1, cs)) = 0
  <2> DEFINE a == SubSeq(d, 1, cs)
  <2>1. a \in Seq(S) /\ Len(a) = cs /\ \A i \in 1..cs : a[i] = d[i]
    <3>1. d \in Seq(S) /\ cs \in Nat /\ cs <= Len(d)
      BY <1>2, <1>4, Sizes DEF Bytes
    <3> HIDE DEF S, cs, d
    <3> QED
      BY <3>1, StartOf
  <2>2. \A i \in 1..cs : a[i] = 0
    BY <1>2, <1>4, <2>1
  <2> HIDE DEF a, cs
  <2>3. a \in Seq(Nat)
    BY <2>1, BytesAreNumbers
  <2>4. PICK top \in [0..Len(a) -> Nat] :
          /\ top[0] = 0
          /\ \A i \in 1..Len(a) : top[i] = a[Len(a) + 1 - i] + BYTE * top[i - 1]
          /\ Number(a) = top[Len(a)]
    BY <2>3, TopIs
  <2> DEFINE T == {i \in Nat : i <= cs => top[i] = 0}
  <2>5. 0 \in T
    BY <2>4
  <2>6. ASSUME NEW i \in Nat, i \in T PROVE i + 1 \in T
    <3>1. CASE i + 1 <= cs
      <4>1. i + 1 \in 1..Len(a) /\ top[i] = 0 /\ Len(a) + 1 - (i + 1) \in 1..cs /\ (i + 1) - 1 = i
        BY <1>4, <2>1, <2>6, <3>1
      <4>2. a[Len(a) + 1 - (i + 1)] = 0
        BY <2>2, <4>1
      <4>3. top[i + 1] = a[Len(a) + 1 - (i + 1)] + BYTE * top[(i + 1) - 1]
        BY <2>4, <4>1
      <4>4. top[i + 1] = 0
        BY <4>1, <4>2, <4>3 DEF BYTE
      <4> QED
        BY <4>4
    <3> QED
      BY <1>4, <3>1
  <2> HIDE DEF T
  <2>7. cs \in T
    BY <1>4, <2>5, <2>6, SetInduction
  <2> QED
    BY <1>4, <2>1, <2>4, <2>7 DEF T, a
<1>6. cs + pad_to_word(offset + cs) = WORD_SIZE
  <2>1. offset + cs \in Nat /\ (w + 1) \in Nat
    BY <1>4
  <2>2. (w + 1) * WORD_SIZE = offset + WORD_SIZE
    BY Sizes
  <2>3. (w + 1) * WORD_SIZE \in (offset + cs)..(offset + cs + WORD_SIZE - 1)
    BY <1>4, <2>2, Sizes
  <2>4. (w + 1) * WORD_SIZE = offset + cs + pad_to_word(offset + cs)
    BY <2>1, <2>3, Padding
  <2>5. pad_to_word(offset + cs) \in Nat
    BY <2>1, Padding, Sizes
  <2> HIDE DEF cs
  <2> QED
    BY <1>4, <2>2, <2>4, <2>5, Sizes
<1>7. d # <<>> /\ ~(Len(d) < WORD_SIZE)
  BY <1>2, Sizes
<1> HIDE DEF d
<1>8. decode_params_tuple(d, schema, offset) = Got(<<>>, WORD_SIZE)
  <2>1. cs + 0 = cs /\ offset + (cs + 0) = offset + cs
    BY <1>4
  <2> QED
    BY <1>5, <1>6, <1>7, <2>1 DEF decode_params_tuple, cs
<1>9. WholeWords(<<>>) /\ Len(<<>>) = 0
  <2>1. <<>> \in Bytes /\ Len(<<>>) = 0 * WORD_SIZE
    BY Nothing, Sizes
  <2> QED
    BY <2>1 DEF WholeWords
<1> QED
  BY <1>1, <1>2, <1>3, <1>8, <1>9 DEF d

-----------------------------------------------------------------------------

(* Statements *)

\* The prefix of a statement request is whole words and reads back.
LEMMA PrefixFits ==
  ASSUME NEW kind, NEW prefix,
         fields_encodable(prefix, prefix_layout(kind)), fields_typed(prefix, prefix_layout(kind)),
         NEW tail \in Bytes
  PROVE  /\ WholeWords(encode_fields(prefix, prefix_layout(kind)))
         /\ decode_fields(encode_fields(prefix, prefix_layout(kind)) \o tail, prefix_layout(kind))
              = Got(prefix, Len(encode_fields(prefix, prefix_layout(kind))))
<1>1. LayoutOk(prefix_layout(kind))
  BY PrefixLayouts DEF prefix_layout
<1>2. FieldsFit(prefix, prefix_layout(kind)) /\ FieldsRead(prefix, prefix_layout(kind)) = prefix
  BY <1>1, TypedFields
<1>3. WordLayout(prefix_layout(kind))
  BY <1>1 DEF LayoutOk
<1> QED
  BY <1>2, <1>3, FieldsRoundTrip

\* A prefix and parameters that read back make a statement that does.
LEMMA StatementReads ==
  ASSUME NEW kind, NEW prefix, NEW schema, NEW vals, NEW pb,
         fields_encodable(prefix, prefix_layout(kind)), fields_typed(prefix, prefix_layout(kind)),
         WholeWords(pb),
         decode_params_tuple(pb, schema, Len(encode_fields(prefix, prefix_layout(kind)))) = Got(vals, Len(pb))
  PROVE  LET d == encode_fields(prefix, prefix_layout(kind)) \o pb IN
         /\ WholeWords(d)
         /\ decode_statement(kind, d, schema)
              = Got(Statement(kind, prefix, vals, schema, vals = <<>> /\ Len(pb) > 0), Len(d))
<1> DEFINE e == encode_fields(prefix, prefix_layout(kind))
           d == e \o pb
           S == 0..(BYTE - 1)
<1>1. pb \in Bytes /\ Len(pb) \in Nat
  BY Nothing DEF WholeWords
<1>2. WholeWords(e) /\ decode_fields(e \o pb, prefix_layout(kind)) = Got(prefix, Len(e))
  BY <1>1, PrefixFits
<1>3. e \in Bytes /\ Len(e) \in Nat
  BY <1>2, Nothing DEF WholeWords
<1> HIDE DEF e
<1>4. WholeWords(d) /\ Len(d) = Len(e) + Len(pb)
  BY <1>2, JoinedWords
<1>5. From(d, Len(e)) = pb
  <2>1. 0 \in 0..Len(pb) /\ e \in Seq(S) /\ pb \in Seq(S)
    BY <1>1, <1>3 DEF Bytes
  <2> HIDE DEF S
  <2> QED
    BY <2>1, Behind
<1>6. decode_params_tuple(pb, schema, Len(e)) = Got(vals, Len(pb))
  BY DEF e
<1>7. consumed(d, Len(e) + Len(pb))
  BY <1>4 DEF consumed
<1>8. decode_fields(d, prefix_layout(kind)) = Got(prefix, Len(e))
  BY <1>2
<1> HIDE DEF d
<1>9. decode_statement(kind, d, schema)
        = Got(Statement(kind, prefix, vals, schema, empty_header_seen(vals, Len(pb))), Len(d))
  <2> DEFINE r == Got(prefix, Len(e))
             q == Got(vals, Len(pb))
  <2>1. r.ok /\ r.val = prefix /\ r.used = Len(e) /\ q.ok /\ q.val = vals /\ q.used = Len(pb)
    BY DEF Got
  <2>2. decode_fields(d, prefix_layout(kind)) = r /\ decode_params_tuple(From(d, Len(e)), schema, Len(e)) = q
    BY <1>5, <1>6, <1>8
  <2> HIDE DEF r, q
  <2> QED
    BY <1>7, <2>1, <2>2, Zenon DEF decode_statement, Then
<1> QED
  BY <1>4, <1>9 DEF empty_header_seen, d, e

StatementOkay(m) == m.kind \in ParamsRequests /\ statement_typed(m) /\ statement_encodable(m)

StatementRead(m) ==
  Statement(m.kind, m.prefix, m.params, params_schema(m), m.decoded_empty_header)

\* The smaller of two numbers.
LEMMA SmallerFacts ==
  ASSUME NEW a \in Nat, NEW b \in Nat
  PROVE  Smaller(a, b) \in Nat /\ Smaller(a, b) <= a /\ Smaller(a, b) <= b
  BY DEF Smaller

\* A statement request decodes to its prefix and its parameters, with the schema
\* they were written with and the mark of an empty header.
THEOREM StatementRoundTrip ==
  ASSUME NEW m, StatementOkay(m)
  PROVE  /\ params_schema(m) \in {0, 1}
         /\ WholeWords(encode_statement(m))
         /\ decode_statement(m.kind, encode_statement(m), params_schema(m))
              = Got(StatementRead(m), Len(encode_statement(m)))
<1> DEFINE L == prefix_layout(m.kind)
           e == encode_fields(m.prefix, L)
           xs == m.params
           types == [i \in DOMAIN xs |-> infer_value_type(xs[i])]
           schema == params_schema(m)
           pb == encode_params_tuple(xs, schema, Len(e), m.decoded_empty_header)
<1>1. /\ fields_encodable(m.prefix, L) /\ fields_typed(m.prefix, L)
      /\ m.decoded_empty_header \in BOOLEAN
      /\ m.decoded_empty_header => xs = <<>>
      /\ are_values(xs) /\ params_encodable(xs, schema)
  BY DEF StatementOkay, statement_typed, statement_encodable
<1>2. schema \in {0, 1}
  BY <1>1 DEF params_encodable
<1>3. encode_statement(m) = e \o pb
  BY DEF encode_statement, WithParams
<1>4. WholeWords(e)
  BY <1>1, PrefixFits, Nothing
<1>5. PICK w \in Nat : Len(e) = w * WORD_SIZE
  BY <1>4 DEF WholeWords
<1>6. Len(e) \in Nat
  BY <1>4, Nothing DEF WholeWords
<1> HIDE DEF e, L
<1>7. /\ WholeWords(pb)
      /\ decode_params_tuple(pb, schema, Len(e)) = Got(xs, Len(pb))
      /\ (xs = <<>> /\ Len(pb) > 0) = m.decoded_empty_header
  <2>1. CASE xs = <<>>
    <3>1. pb = IF m.decoded_empty_header THEN Zeros(WORD_SIZE) ELSE <<>>
      BY <2>1, Zenon DEF encode_params_tuple
    <3>2. CASE m.decoded_empty_header
      <4>1. pb = Zeros(WORD_SIZE)
        BY <3>1, <3>2
      <4> HIDE DEF pb, schema, xs
      <4>2. WholeWords(pb) /\ Len(pb) = WORD_SIZE /\ decode_params_tuple(pb, schema, Len(e)) = Got(<<>>, WORD_SIZE)
        BY <1>2, <1>5, <1>6, <4>1, NoParams
      <4>3. Len(pb) > 0
        BY <4>2, Sizes
      <4> QED
        BY <2>1, <3>2, <4>2, <4>3
    <3>3. CASE ~m.decoded_empty_header
      <4>1. pb = <<>>
        BY <3>1, <3>3
      <4> HIDE DEF pb, schema, xs
      <4>2. WholeWords(pb) /\ Len(pb) = 0 /\ decode_params_tuple(pb, schema, Len(e)) = Got(<<>>, 0)
        BY <1>2, <1>5, <1>6, <4>1, NoParams
      <4>3. ~(Len(pb) > 0)
        BY <4>2
      <4> QED
        BY <1>1, <2>1, <3>3, <4>2, <4>3
    <3> QED
      BY <3>2, <3>3
  <2>2. CASE xs # <<>>
    <3>1. pb = ParamsHeader(types, schema, Len(e)) \o ValueBytes(xs, types)
      BY <2>2, Zenon DEF encode_params_tuple, ValueBytes
    <3>2. Len(xs) \in Nat /\ DOMAIN xs = 1..Len(xs) /\ IsSequence(xs)
      BY <1>1, Items DEF are_values
    <3>3. \A i \in 1..Len(xs) : /\ xs[i] \in PyValues
                                /\ infer_value_type(xs[i]) \in ValueType \ {UNIXTIME, ISO8601}
                                /\ value_encodable(xs[i], infer_value_type(xs[i]))
                                /\ AsRead(xs[i], infer_value_type(xs[i])) = xs[i]
      <4> TAKE i \in 1..Len(xs)
      <4> DEFINE x == xs[i]
      <4>1. is_value(x) /\ value_encodable(x, infer_value_type(x))
        BY <1>1, <3>2 DEF are_values, params_encodable
      <4> HIDE DEF x
      <4>2. x \in PyValues
        BY <4>1, ValueIsPy
      <4>3. infer_value_type(x) \in ValueType \ {UNIXTIME, ISO8601} /\ AsRead(x, infer_value_type(x)) = x
        BY <4>1, <4>2, Inferred
      <4> QED
        BY <4>1, <4>2, <4>3 DEF x
    <3> HIDE DEF xs, schema
    <3>4. types \in Seq(ValueType \ {UNIXTIME}) /\ types \in Seq(ValueType) /\ Len(types) = Len(xs)
          /\ \A i \in 1..Len(xs) : types[i] = infer_value_type(xs[i])
      BY <3>2, <3>3
    <3> HIDE DEF types, pb
    <3>5. Len(xs) \in 1..MAX_PARAM_COUNT /\ (schema = 0 => Len(xs) <= V0_MAX_PARAMS)
      <4>1. Len(xs) # 0
        <5>1. SUFFICES ASSUME Len(xs) = 0 PROVE FALSE
          OBVIOUS
        <5>2. xs = [i \in 1..0 |-> xs[i]]
          BY <3>2, <5>1 DEF IsSequence
        <5>3. [i \in 1..0 |-> xs[i]] = <<>>
          OBVIOUS
        <5> QED
          BY <2>2, <5>2, <5>3
      <4>2. Len(xs) <= IF schema = 0 THEN Smaller(V0_MAX_PARAMS, MAX_PARAM_COUNT) ELSE MAX_PARAM_COUNT
        BY <1>1 DEF params_encodable
      <4>3. V0_MAX_PARAMS \in Nat /\ MAX_PARAM_COUNT \in Nat
        BY TupleSizesAssumption
      <4>4. /\ Smaller(V0_MAX_PARAMS, MAX_PARAM_COUNT) \in Nat
            /\ Smaller(V0_MAX_PARAMS, MAX_PARAM_COUNT) <= V0_MAX_PARAMS
            /\ Smaller(V0_MAX_PARAMS, MAX_PARAM_COUNT) <= MAX_PARAM_COUNT
        BY <4>3, SmallerFacts
      <4> QED
        BY <1>2, <3>2, <4>1, <4>2, <4>3, <4>4
    <3>6. ParamsFit(xs, types, schema)
      BY <1>2, <3>2, <3>3, <3>4, <3>5 DEF ParamsFit, ValuesFit
    <3>7. WholeWords(pb) /\ decode_params_tuple(pb, schema, Len(e)) = Got(AllAsRead(xs, types), Len(pb))
      BY <1>5, <1>6, <3>1, <3>6, ParamsRoundTrip
    <3>8. AllAsRead(xs, types) = xs
      <4>1. \A i \in 1..Len(xs) : AsRead(xs[i], types[i]) = xs[i]
        BY <3>3, <3>4
      <4>2. AllAsRead(xs, types) = [i \in 1..Len(xs) |-> xs[i]]
        BY <4>1 DEF AllAsRead
      <4> QED
        BY <3>2, <4>2 DEF IsSequence
    <3>9. ~m.decoded_empty_header
      BY <1>1, <2>2
    <3> QED
      BY <1>1, <2>2, <3>7, <3>8, <3>9
  <2> QED
    BY <2>1, <2>2
<1> HIDE DEF pb, xs, schema
<1>8. /\ WholeWords(e \o pb)
      /\ decode_statement(m.kind, e \o pb, schema)
           = Got(Statement(m.kind, m.prefix, xs, schema, xs = <<>> /\ Len(pb) > 0), Len(e \o pb))
  BY <1>1, <1>7, StatementReads DEF e, L
<1> QED
  BY <1>2, <1>3, <1>7, <1>8 DEF StatementRead, schema, xs

TaggedRead(m) ==
  Statement(m.class, m.prefix, AllAsRead(m.params, m.types), 0, FALSE)

\* So does one whose sender chose the types of the parameters.
THEOREM TaggedRoundTrip ==
  ASSUME NEW m, tagged_sent(m)
  PROVE  /\ WholeWords(encode_tagged(m))
         /\ decode_statement(m.class, encode_tagged(m), 0)
              = Got(TaggedRead(m), Len(encode_tagged(m)))
         /\ ValuesFit(m.params, m.types)
<1> DEFINE L == prefix_layout(m.class)
           e == encode_fields(m.prefix, L)
           xs == m.params
           types == m.types
           pb == ParamsHeader(types, 0, Len(e)) \o ValueBytes(xs, types)
           S == 0..(BYTE - 1)
<1>1. /\ fields_encodable(m.prefix, L) /\ fields_typed(m.prefix, L)
      /\ are_values(xs) /\ types \in Seq(ValueType \ {UNIXTIME}) /\ row_encodable(xs, types)
      /\ Len(xs) \in 1..Smaller(V0_MAX_PARAMS, MAX_PARAM_COUNT)
  BY DEF tagged_sent
<1>4. WholeWords(e)
  BY <1>1, PrefixFits, Nothing
<1>5. PICK w \in Nat : Len(e) = w * WORD_SIZE
  BY <1>4 DEF WholeWords
<1>6. Len(e) \in Nat
  BY <1>4, Nothing DEF WholeWords
<1>7. ValuesFit(xs, types)
  <2>1. IsSequence(xs) /\ DOMAIN xs = 1..Len(xs)
    BY <1>1, Items DEF are_values
  <2>2. \A i \in 1..Len(xs) : xs[i] \in PyValues /\ value_encodable(xs[i], types[i])
    <3> TAKE i \in 1..Len(xs)
    <3>1. is_value(xs[i]) /\ value_encodable(xs[i], types[i])
      BY <1>1, <2>1 DEF are_values, row_encodable
    <3> QED
      BY <3>1, ValueIsPy
  <2>3. types \in Seq(ValueType)
    BY <1>1, SeqSubset
  <2> QED
    BY <1>1, <2>1, <2>2, <2>3 DEF ValuesFit, row_encodable
<1>8. ParamsFit(xs, types, 0)
  <2>1. V0_MAX_PARAMS \in Nat /\ MAX_PARAM_COUNT \in Nat
    BY TupleSizesAssumption
  <2>2. Smaller(V0_MAX_PARAMS, MAX_PARAM_COUNT) \in Nat /\ Smaller(V0_MAX_PARAMS, MAX_PARAM_COUNT) <= V0_MAX_PARAMS
        /\ Smaller(V0_MAX_PARAMS, MAX_PARAM_COUNT) <= MAX_PARAM_COUNT
    BY <2>1, SmallerFacts
  <2>3. Len(xs) \in 1..MAX_PARAM_COUNT /\ Len(xs) <= V0_MAX_PARAMS
    BY <1>1, <2>1, <2>2
  <2> QED
    BY <1>1, <1>7, <2>3 DEF ParamsFit
<1> HIDE DEF e, L, xs, types
<1>9. WholeWords(pb) /\ decode_params_tuple(pb, 0, Len(e)) = Got(AllAsRead(xs, types), Len(pb))
  BY <1>5, <1>6, <1>8, ParamsRoundTrip
<1>10. encode_tagged(m) = e \o pb
  <2> DEFINE h == ParamsHeader(types, 0, Len(e))
             v == ValueBytes(xs, types)
  <2>1. encode_tagged(m) = (e \o h) \o v
    BY DEF encode_tagged, TaggedWith, e, L, xs, types, ValueBytes
  <2>2. e \in Seq(S) /\ h \in Seq(S) /\ v \in Seq(S)
    <3>1. v \in Seq(S)
      BY <1>7, ValuesRoundTrip, Nothing DEF WholeWords, Bytes
    <3>2. h \in Seq(S)
      <4> DEFINE cf == CountField(Len(types), 0)
                 k == Len(e) + Len(cf \o types)
      <4>1. types \in Seq(S)
        <5>1. ValueType \ {UNIXTIME} \subseteq 0..(BYTE - 1)
          BY Tags DEF BYTE
        <5>2. types \in Seq(ValueType \ {UNIXTIME})
          BY <1>1 DEF types
        <5> QED
          BY <5>1, <5>2, SeqSubset
      <4>2. Len(types) \in 0..MAX_PARAM_COUNT /\ Len(types) <= V0_MAX_PARAMS
        BY <1>8, TupleSizesAssumption DEF ParamsFit, ValuesFit
      <4>3. cf \in Seq(S)
        BY <4>2, CountFacts DEF Bytes
      <4> HIDE DEF cf, S
      <4>4. cf \o types \in Seq(S) /\ Len(cf \o types) \in Nat
        BY <4>1, <4>3, Joined
      <4>5. k \in Nat
        BY <1>6, <4>4
      <4> HIDE DEF k
      <4>6. Zeros(pad_to_word(k)) \in Seq(S)
        <5>1. pad_to_word(k) \in Nat
          BY <4>5, Padding, Sizes
        <5> QED
          BY <5>1, ZerosFacts DEF Bytes, S
      <4>7. (cf \o types) \o Zeros(pad_to_word(k)) \in Seq(S)
        BY <4>4, <4>6, Joined
      <4> QED
        BY <4>7 DEF ParamsHeader, cf, k
    <3> QED
      BY <1>4, <3>1, <3>2 DEF WholeWords, Bytes
  <2> HIDE DEF h, v, S
  <2>3. (e \o h) \o v = e \o (h \o v)
    BY <2>2, RegroupTwo, SMTT(60)
  <2> QED
    BY <2>1, <2>3 DEF h, v
<1> HIDE DEF pb
<1>11. /\ WholeWords(e \o pb)
       /\ decode_statement(m.class, e \o pb, 0)
           = Got(Statement(m.class, m.prefix, AllAsRead(xs, types), 0, AllAsRead(xs, types) = <<>> /\ Len(pb) > 0), Len(e \o pb))
  BY <1>1, <1>9, StatementReads DEF e, L
<1>12. AllAsRead(xs, types) # <<>>
  <2>1. Len(xs) \in Nat /\ Len(xs) >= 1
    BY <1>8, TupleSizesAssumption DEF ParamsFit
  <2>2. 1 \in DOMAIN AllAsRead(xs, types) /\ 1 \notin DOMAIN <<>>
    BY <2>1 DEF AllAsRead
  <2> QED
    BY <2>2
<1>13. (AllAsRead(xs, types) = <<>> /\ Len(pb) > 0) = FALSE
  BY <1>12
<1> QED
  BY <1>7, <1>10, <1>11, <1>13 DEF TaggedRead, xs, types

-----------------------------------------------------------------------------

(* Rows *)

\* Two codes to a byte.
LEMMA Nibbles ==
  ASSUME NEW a \in 0..11, NEW b \in 0..11
  PROVE  /\ a * NIBBLE + b \in 0..(BYTE - 1)
         /\ (a * NIBBLE + b) % NIBBLE = b
         /\ (a * NIBBLE + b) \div NIBBLE = a
         /\ a * NIBBLE + b # 255 /\ a * NIBBLE + b # 238
  BY DEF NIBBLE, BYTE

\* Two types to a byte.
LEMMA Halves ==
  ASSUME NEW N \in Nat \ {0}
  PROVE  /\ (N + 1) \div 2 \in Nat /\ (N + 1) \div 2 >= 1
         /\ \A i \in 1..((N + 1) \div 2) : 2 * i - 1 \in 1..N /\ (2 * i <= N => 2 * i \in 1..N)
         /\ \A i \in 1..N : /\ (i - 1) \div 2 + 1 \in 1..((N + 1) \div 2)
                            /\ (i - 1) % 2 = 0 => 2 * ((i - 1) \div 2 + 1) - 1 = i
                            /\ (i - 1) % 2 # 0 => 2 * ((i - 1) \div 2 + 1) = i
  OBVIOUS

\* The types of a row read back, and are no end marker.
LEMMA RowHeaderReads ==
  ASSUME NEW types \in Seq(ValueType), Len(types) # 0, NEW tail \in Bytes
  PROVE  LET e == encode_row_header(types) IN
         /\ WholeWords(e) /\ Len(e) >= WORD_SIZE /\ Len(e) \in Nat
         /\ MarkerAt(e \o tail) = "none"
         /\ decode_row_types(e \o tail, Len(types)) = Got(types, Len(e))
<1> DEFINE N == Len(types)
           n == (N + 1) \div 2
           high(i) == IF 2 * i <= N THEN types[2 * i] ELSE 0
           h == [i \in 1..n |-> high(i) * NIBBLE + types[2 * i - 1]]
           p == pad_to_word(n)
           z == Zeros(p)
           e == h \o z
           d == e \o tail
           S == 0..(BYTE - 1)
<1>1. N \in Nat \ {0} /\ \A i \in 1..N : types[i] \in ValueType /\ types[i] \in 0..11
  <2>1. ValueType \subseteq 0..11
    BY Tags
  <2>2. Len(types) \in Nat \ {0} /\ \A i \in 1..Len(types) : types[i] \in ValueType
    BY LenProperties
  <2> QED
    BY <2>1, <2>2
<1>0. encode_row_header(types) = e
  BY DEF encode_row_header
<1> HIDE DEF N
<1>2. /\ n \in Nat /\ n >= 1
      /\ \A i \in 1..n : 2 * i - 1 \in 1..N /\ (2 * i <= N => 2 * i \in 1..N)
      /\ \A i \in 1..N : /\ (i - 1) \div 2 + 1 \in 1..n
                         /\ (i - 1) % 2 = 0 => 2 * ((i - 1) \div 2 + 1) - 1 = i
                         /\ (i - 1) % 2 # 0 => 2 * ((i - 1) \div 2 + 1) = i
  BY <1>1, Halves
<1> HIDE DEF n
<1>3. \A i \in 1..n : high(i) \in 0..11 /\ types[2 * i - 1] \in 0..11
  BY <1>1, <1>2
<1>4. \A i \in 1..n : /\ h[i] \in S /\ h[i] # 255 /\ h[i] # 238
                      /\ h[i] % NIBBLE = types[2 * i - 1]
                      /\ h[i] \div NIBBLE = high(i)
  <2> TAKE i \in 1..n
  <2> DEFINE a == high(i)
             b == types[2 * i - 1]
  <2>1. a \in 0..11 /\ b \in 0..11 /\ h[i] = a * NIBBLE + b
    BY <1>3
  <2> HIDE DEF a, b, h
  <2>2. /\ a * NIBBLE + b \in 0..(BYTE - 1) /\ a * NIBBLE + b # 255 /\ a * NIBBLE + b # 238
        /\ (a * NIBBLE + b) % NIBBLE = b /\ (a * NIBBLE + b) \div NIBBLE = a
    <3>1. a \in 0..11 /\ b \in 0..11
      BY <2>1
    <3> QED
      BY <3>1 DEF NIBBLE, BYTE
  <2> DEFINE x == a * NIBBLE + b
  <2> HIDE DEF x
  <2>3. x \in 0..(BYTE - 1) /\ x # 255 /\ x # 238 /\ x % NIBBLE = b /\ x \div NIBBLE = a
    BY <2>2 DEF x
  <2>4. h[i] = x
    BY <2>1 DEF x
  <2> QED
    BY <2>3, <2>4, Zenon DEF a, b
<1>5. h \in Seq(S) /\ Len(h) = n
  <2>1. \A i \in 1..n : high(i) * NIBBLE + types[2 * i - 1] \in S
    BY <1>4
  <2> QED
    BY <1>2, <2>1
<1> HIDE DEF h
<1>6. p \in Nat /\ p \in 0..(WORD_SIZE - 1) /\ \E q \in 0..(n + p) : q * WORD_SIZE = n + p
  <2>1. p \in 0..(WORD_SIZE - 1) /\ \E q \in 0..(n + p) : q * WORD_SIZE = n + p
    BY <1>2, Padding
  <2> HIDE DEF p
  <2> QED
    BY <2>1, Sizes
<1> HIDE DEF p
<1>7. z \in Seq(S) /\ Len(z) = p
  BY <1>6, ZerosFacts DEF Bytes
<1> HIDE DEF z
<1>8. e \in Seq(S) /\ Len(e) = n + p /\ \A i \in 1..n : e[i] = h[i]
  <2> HIDE DEF S
  <2> QED
    BY <1>5, <1>7, Joined
<1>9. WholeWords(e)
  BY <1>2, <1>6, <1>8 DEF WholeWords, Bytes
<1>10. Len(e) >= WORD_SIZE /\ Len(e) \in Nat
  <2>1. PICK q \in 0..(n + p) : q * WORD_SIZE = n + p
    BY <1>6
  <2>2. q # 0 /\ q \in Nat
    <3>1. q \in Nat /\ n + p >= 1
      BY <1>2, <1>6
    <3>2. 0 * WORD_SIZE = 0
      BY Sizes
    <3> QED
      BY <2>1, <3>1, <3>2
  <2>3. q - 1 \in Nat /\ q = (q - 1) + 1
    BY <2>2
  <2>4. q * WORD_SIZE = (q - 1) * WORD_SIZE + WORD_SIZE /\ (q - 1) * WORD_SIZE \in Nat
    BY <2>3, Sizes
  <2> DEFINE k == (q - 1) * WORD_SIZE
  <2> HIDE DEF k
  <2>5. n + p = k + WORD_SIZE /\ k \in Nat
    BY <2>1, <2>4 DEF k
  <2> QED
    BY <1>2, <1>6, <1>8, <2>5, Sizes
<1> HIDE DEF e
<1>11. /\ d \in Seq(S) /\ Len(d) = Len(e) + Len(tail) /\ Len(tail) \in Nat
       /\ \A i \in 1..Len(e) : d[i] = e[i]
  <2>1. tail \in Seq(S)
    BY DEF Bytes
  <2> HIDE DEF S
  <2> QED
    BY <1>8, <2>1, Joined
<1> HIDE DEF d
<1>12. \A i \in 1..n : d[i] = h[i]
  BY <1>2, <1>6, <1>8, <1>11
<1>13. MarkerAt(d) = "none"
  <2>1. 1 \in 1..n /\ 1 \in 1..WORD_SIZE
    BY <1>2, Sizes
  <2>2. d[1] # 255 /\ d[1] # 238
    BY <1>4, <1>12, <2>1
  <2>3. WORD_SIZE <= Len(d) /\ WORD_SIZE \in Nat /\ Len(d) \in Nat
    BY <1>10, <1>11, Sizes
  <2>4. SubSeq(d, 1, WORD_SIZE)[1] = d[1]
    <3> HIDE DEF S
    <3>1. d \in Seq(S)
      BY <1>11
    <3>2. \A i \in 1..WORD_SIZE : SubSeq(d, 1, WORD_SIZE)[i] = d[i]
      BY <2>3, <3>1, StartOf
    <3> QED
      BY <2>1, <3>2
  <2>5. ROW_DONE_MARKER[1] = 255 /\ ROW_PART_MARKER[1] = 238
    BY <2>1 DEF ROW_DONE_MARKER, ROW_PART_MARKER, Marker
  <2>6. SubSeq(d, 1, WORD_SIZE) # ROW_DONE_MARKER /\ SubSeq(d, 1, WORD_SIZE) # ROW_PART_MARKER
    <3> DEFINE u == SubSeq(d, 1, WORD_SIZE)
    <3>1. u[1] = d[1]
      BY <2>4
    <3> HIDE DEF u
    <3>2. u # ROW_DONE_MARKER /\ u # ROW_PART_MARKER
      BY <2>2, <2>5, <3>1
    <3> QED
      BY <3>2 DEF u
  <2> QED
    BY <2>6 DEF MarkerAt
<1>14. \A i \in 1..N : Nibble(d, i) = types[i]
  <2> TAKE i \in 1..N
  <2> DEFINE k == (i - 1) \div 2 + 1
  <2>1. k \in 1..n /\ ((i - 1) % 2 = 0 => 2 * k - 1 = i) /\ ((i - 1) % 2 # 0 => 2 * k = i)
    BY <1>2
  <2>2. Nibble(d, i) = IF (i - 1) % 2 = 0 THEN d[k] % NIBBLE ELSE d[k] \div NIBBLE
    BY DEF Nibble
  <2> HIDE DEF k
  <2>3. d[k] % NIBBLE = types[2 * k - 1] /\ d[k] \div NIBBLE = high(k)
    BY <1>4, <1>12, <2>1
  <2>4. CASE (i - 1) % 2 = 0
    BY <2>1, <2>2, <2>3, <2>4
  <2>5. CASE (i - 1) % 2 # 0
    <3>1. 2 * k = i /\ 2 * k <= N
      BY <1>1, <2>1, <2>5
    <3>2. high(k) = types[2 * k]
      BY <3>1
    <3> QED
      BY <2>2, <2>3, <2>5, <3>1, <3>2
  <2> QED
    BY <2>4, <2>5
<1>15. [i \in 1..N |-> Nibble(d, i)] = types
  BY <1>1, <1>14 DEF N
<1>16. decode_row_types(d, N) = Got(types, Len(e))
  <2>1. n + pad_to_word(n) = Len(e)
    BY <1>8 DEF p
  <2>2. ~(Len(d) < Len(e))
    BY <1>10, <1>11
  <2>3. ToSet(types) \subseteq ValueType
    BY DEF ToSet
  <2> QED
    BY <1>15, <2>1, <2>2, <2>3, Zenon DEF decode_row_types, n
<1> QED
  BY <1>0, <1>9, <1>10, <1>13, <1>16 DEF d, N

RowBytes(row, types) == encode_row_header(types) \o encode_row_values(row, types)

RowFits(row, types) == ValuesFit(row, types) /\ Len(types) # 0

\* A row is whole words, one or more.
LEMMA RowBytesFacts ==
  ASSUME NEW row, NEW types, RowFits(row, types)
  PROVE  WholeWords(RowBytes(row, types)) /\ Len(RowBytes(row, types)) >= WORD_SIZE
         /\ Len(RowBytes(row, types)) \in Nat
<1> DEFINE e == encode_row_header(types)
           v == encode_row_values(row, types)
<1>1. WholeWords(e) /\ Len(e) >= WORD_SIZE /\ Len(e) \in Nat
  BY RowHeaderReads, Nothing DEF RowFits, ValuesFit
<1>2. v = ValueBytes(row, types)
  BY DEF encode_row_values, ValueBytes
<1>3. WholeWords(v) /\ Len(v) \in Nat
  BY <1>2, ValuesRoundTrip, Nothing DEF RowFits, WholeWords
<1> HIDE DEF e, v
<1>4. WholeWords(e \o v) /\ Len(e \o v) = Len(e) + Len(v)
  BY <1>1, <1>3, JoinedWords
<1>5. Len(e \o v) >= WORD_SIZE /\ Len(e \o v) \in Nat
  BY <1>1, <1>3, <1>4, Sizes
<1> QED
  BY <1>4, <1>5 DEF RowBytes, e, v

\* A name for what is regrouped.
LEMMA Regrouped ==
  ASSUME NEW S, NEW a \in Seq(S), NEW b \in Seq(S), NEW r \in Seq(S), NEW x, x = (a \o b) \o r
  PROVE  x = a \o (b \o r)
<1>1. (a \o b) \o r = a \o (b \o r)
  BY RegroupTwo, SMTT(60)
<1> QED
  BY <1>1, Zenon

\* One pass over the bytes of a row.
LEMMA RowPassReads ==
  ASSUME NEW row, NEW types, RowFits(row, types), NEW count, count = Len(types),
         NEW d \in Bytes, NEW at \in 0..Len(d), NEW rest \in Bytes,
         From(d, at) = RowBytes(row, types) \o rest, NEW rt, NEW rs
  PROVE  RowPass(d, RowsAt(at, rt, rs, "none"), count)
           = RowsAt(at + Len(RowBytes(row, types)), Append(rt, types),
                    Append(rs, AllAsRead(row, types)), "none")
<1> DEFINE e == encode_row_header(types)
           v == encode_row_values(row, types)
           t == v \o rest
           S == 0..(BYTE - 1)
           s == RowsAt(at, rt, rs, "none")
<1>1. v = ValueBytes(row, types)
  BY DEF encode_row_values, ValueBytes
<1>2. WholeWords(v) /\ Len(v) \in Nat /\ v \in Seq(S)
      /\ Each(types, decode_value, v \o rest) = Got(AllAsRead(row, types), Len(v))
  BY <1>1, ValuesRoundTrip, Nothing DEF RowFits, WholeWords, Bytes
<1> HIDE DEF v
<1>3. t \in Bytes /\ t \in Seq(S) /\ Len(t) \in Nat
  BY <1>2, Joined DEF Bytes
<1> HIDE DEF t
<1>4. /\ WholeWords(e) /\ Len(e) >= WORD_SIZE /\ Len(e) \in Nat
      /\ MarkerAt(e \o t) = "none"
      /\ decode_row_types(e \o t, Len(types)) = Got(types, Len(e))
  BY <1>3, RowHeaderReads DEF RowFits, ValuesFit
<1>5. RowBytes(row, types) = e \o v
  BY DEF RowBytes, v
<1> HIDE DEF e
<1>6. e \in Seq(S)
  BY <1>4 DEF WholeWords, Bytes
<1>7. From(d, at) = e \o t
  <2>1. e \in Seq(S) /\ v \in Seq(S) /\ rest \in Seq(S)
    BY <1>2, <1>6 DEF Bytes
  <2> HIDE DEF S
  <2>a. RowBytes(row, types) \o rest = (e \o v) \o rest
    BY <1>5
  <2> DEFINE x == RowBytes(row, types) \o rest
  <2> HIDE DEF x
  <2>b. x = (e \o v) \o rest
    BY <2>a DEF x
  <2>2. x = e \o (v \o rest)
    BY <2>1, <2>b, Regrouped
  <2> QED
    BY <2>2 DEF t, x
<1>8. Len(e \o v) = Len(e) + Len(v)
  BY <1>2, <1>6, Joined
<1>9. Len(d) \in Nat /\ at \in Nat /\ Len(d) - at = Len(e) + Len(t) /\ d \in Seq(S)
  <2>1. Len(From(d, at)) = Len(d) - at /\ Len(d) \in Nat /\ d \in Seq(S)
    BY FromFacts DEF Bytes
  <2>2. Len(e \o t) = Len(e) + Len(t)
    BY <1>3, <1>6, Joined
  <2> QED
    BY <1>7, <2>1, <2>2
<1>10. ~(at >= Len(d)) /\ Len(e) \in 0..(Len(d) - at)
  BY <1>3, <1>4, <1>9, Sizes
<1>11. From(d, at + Len(e)) = t
  <2>1. From(From(d, at), Len(e)) = From(d, at + Len(e))
    <3> HIDE DEF S
    <3> QED
      BY <1>9, <1>10, FromFrom
  <2>2. From(e \o t, Len(e)) = t
    <3>1. 0 \in 0..Len(t)
      BY <1>3
    <3> HIDE DEF S
    <3> QED
      BY <1>3, <1>6, <3>1, Behind
  <2> QED
    BY <1>7, <2>1, <2>2
<1>12. decode_row_values(From(d, at + Len(e)), types) = Got(AllAsRead(row, types), Len(v))
  BY <1>2, <1>11 DEF t, decode_row_values
<1>13. MarkerAt(From(d, at)) = "none" /\ decode_row_types(From(d, at), count) = Got(types, Len(e))
  BY <1>4, <1>7
<1>14. s.ok /\ s.at = at /\ s.row_types = rt /\ s.rows = rs /\ s.ends = "none"
  BY DEF RowsAt
<1>15. count # 0
  BY DEF RowFits
<1> HIDE DEF s
<1>16. RowPass(d, s, count) = RowsAt(at + Len(e) + Len(v), Append(rt, types), Append(rs, AllAsRead(row, types)), "none")
  <2> DEFINE r == Got(types, Len(e))
             q == Got(AllAsRead(row, types), Len(v))
  <2>1. r.ok /\ r.val = types /\ r.used = Len(e) /\ q.ok /\ q.val = AllAsRead(row, types) /\ q.used = Len(v)
    BY DEF Got
  <2>2. decode_row_types(From(d, at), count) = r /\ decode_row_values(From(d, at + Len(e)), types) = q
    BY <1>12, <1>13
  <2> HIDE DEF r, q
  <2> QED
    BY <1>10, <1>13, <1>14, <1>15, <2>1, <2>2, Zenon DEF RowPass, Then
<1>17. at + Len(e) + Len(v) = at + Len(RowBytes(row, types))
  BY <1>2, <1>4, <1>5, <1>8, <1>9
<1> QED
  BY <1>16, <1>17 DEF s

EndMarker(has_more) == IF has_more THEN ROW_PART_MARKER ELSE ROW_DONE_MARKER
EndName(has_more) == IF has_more THEN "part" ELSE "done"

\* An end marker is a word, and read as what it marks.
LEMMA EndMarkerFacts ==
  ASSUME NEW more \in BOOLEAN
  PROVE  /\ WholeWords(EndMarker(more)) /\ Len(EndMarker(more)) = WORD_SIZE
         /\ MarkerAt(EndMarker(more)) = EndName(more)
<1>1. ASSUME NEW b \in {255, 238} PROVE Marker(b) \in Bytes /\ Len(Marker(b)) = WORD_SIZE /\ Marker(b)[1] = b
  BY <1>1, Sizes DEF Marker, Bytes, BYTE
<1>2. EndMarker(more) \in Bytes /\ Len(EndMarker(more)) = WORD_SIZE
  BY <1>1 DEF EndMarker, ROW_DONE_MARKER, ROW_PART_MARKER
<1>3. SubSeq(EndMarker(more), 1, WORD_SIZE) = EndMarker(more)
  BY <1>2, SubSeqFull DEF Bytes
<1>4. ROW_DONE_MARKER # ROW_PART_MARKER
  <2>1. ROW_DONE_MARKER[1] = 255 /\ ROW_PART_MARKER[1] = 238
    BY <1>1 DEF ROW_DONE_MARKER, ROW_PART_MARKER
  <2> QED
    BY <2>1
<1>5. MarkerAt(EndMarker(more)) = EndName(more)
  <2>0. ~(Len(EndMarker(more)) < WORD_SIZE)
    BY <1>2, Sizes
  <2>1. CASE more
    <3>1. EndMarker(more) = ROW_PART_MARKER
      BY <2>1 DEF EndMarker
    <3> QED
      BY <1>3, <1>4, <2>0, <2>1, <3>1 DEF MarkerAt, EndName
  <2>2. CASE ~more
    <3>1. EndMarker(more) = ROW_DONE_MARKER
      BY <2>2 DEF EndMarker
    <3> QED
      BY <1>3, <1>4, <2>0, <2>2, <3>1 DEF MarkerAt, EndName
  <2> QED
    BY <2>1, <2>2
<1> QED
  BY <1>2, <1>5, OneWord

\* The last pass, and the passes behind it.
LEMMA RowPassEnds ==
  ASSUME NEW more \in BOOLEAN, NEW d \in Bytes, NEW at \in 0..Len(d), From(d, at) = EndMarker(more),
         NEW rt, NEW rs, NEW count
  PROVE  /\ RowPass(d, RowsAt(at, rt, rs, "none"), count) = RowsAt(at, rt, rs, EndName(more))
         /\ RowPass(d, RowsAt(at, rt, rs, EndName(more)), count) = RowsAt(at, rt, rs, EndName(more))
<1>1. MarkerAt(From(d, at)) = EndName(more) /\ Len(From(d, at)) = WORD_SIZE
  BY EndMarkerFacts
<1>2. EndsAt(d, at)
  <2>1. Len(From(d, at)) = Len(d) - at /\ Len(d) \in Nat
    BY FromFacts DEF Bytes
  <2> QED
    BY <1>1, <2>1, Sizes DEF EndsAt
<1>3. EndName(more) # "none"
  BY DEF EndName
<1> DEFINE s == RowsAt(at, rt, rs, "none")
           r == RowsAt(at, rt, rs, EndName(more))
<1>4. s.ok /\ s.at = at /\ s.row_types = rt /\ s.rows = rs /\ s.ends = "none" /\ r.ends = EndName(more)
  BY DEF RowsAt
<1> HIDE DEF s, r
<1>5. RowPass(d, s, count) = RowsAt(at, rt, rs, EndName(more))
  BY <1>1, <1>2, <1>3, <1>4, Zenon DEF RowPass
<1>6. RowPass(d, r, count) = r
  BY <1>3, <1>4, Zenon DEF RowPass
<1> QED
  BY <1>5, <1>6 DEF s, r

IsPasses(f, d, o, count) ==
  f = [n \in 0..Len(d) |-> IF n = 0 THEN RowsAt(o, <<>>, <<>>, "none") ELSE RowPass(d, f[n - 1], count)]

\* RowsFrom is the last value of a recursive function.
LEMMA PassesIs ==
  ASSUME NEW d, NEW o, NEW count
  PROVE  RowsFrom(d, o, count) = (CHOOSE f : IsPasses(f, d, o, count))[Len(d)]
  BY Zenon DEF RowsFrom, IsPasses

\* F is what the loop has after each of its passes.
InPasses(F, d, o, count) ==
  /\ Len(d) \in Nat
  /\ F = [n \in 0..Len(d) |-> F[n]]
  /\ F[0] = RowsAt(o, <<>>, <<>>, "none")
  /\ \A n \in 1..Len(d) : F[n] = RowPass(d, F[n - 1], count)

\* What satisfies the recursion is its value.
LEMMA PassesGive ==
  ASSUME NEW F, NEW d, NEW o, NEW count, InPasses(F, d, o, count)
  PROVE  RowsFrom(d, o, count) = F[Len(d)]
<1> DEFINE N == Len(d)
           start == RowsAt(o, <<>>, <<>>, "none")
           c == CHOOSE f : IsPasses(f, d, o, count)
<1>1. /\ N \in Nat /\ F = [n \in 0..N |-> F[n]] /\ F[0] = start
      /\ \A n \in 1..N : F[n] = RowPass(d, F[n - 1], count)
  BY DEF InPasses
<1> HIDE DEF start, N
<1>2. IsPasses(F, d, o, count)
  <2>1. \A n \in 0..N : F[n] = IF n = 0 THEN start ELSE RowPass(d, F[n - 1], count)
    <3>1. \A n \in 0..N : n = 0 \/ n \in 1..N
      BY <1>1
    <3> QED
      BY <1>1, <3>1
  <2>2. [n \in 0..N |-> F[n]] = [n \in 0..N |-> IF n = 0 THEN start ELSE RowPass(d, F[n - 1], count)]
    BY <2>1
  <2> QED
    BY <1>1, <2>2 DEF IsPasses, N, start
<1>3. IsPasses(c, d, o, count)
  BY <1>2
<1> HIDE DEF c
<1>4. c[0] = start /\ \A n \in 1..N : c[n] = RowPass(d, c[n - 1], count)
  <2>1. c = [n \in 0..N |-> IF n = 0 THEN start ELSE RowPass(d, c[n - 1], count)]
    BY <1>3 DEF IsPasses, N, start
  <2>2. 0 \in 0..N /\ \A n \in 1..N : n \in 0..N /\ n # 0
    BY <1>1
  <2> QED
    BY <2>1, <2>2
<1> DEFINE T == {n \in Nat : n <= N => c[n] = F[n]}
<1>5. 0 \in T
  BY <1>1, <1>4
<1>6. ASSUME NEW n \in Nat, n \in T PROVE n + 1 \in T
  <2> SUFFICES ASSUME n + 1 <= N PROVE c[n + 1] = F[n + 1]
    OBVIOUS
  <2>1. n + 1 \in 1..N /\ (n + 1) - 1 = n /\ n <= N
    BY <1>1
  <2>2. c[n] = F[n]
    BY <1>6, <2>1
  <2>3. F[n + 1] = RowPass(d, F[n], count) /\ c[n + 1] = RowPass(d, c[n], count)
    BY <1>1, <1>4, <2>1
  <2> QED
    BY <2>2, <2>3
<1> HIDE DEF T
<1>7. N \in T
  BY <1>1, <1>5, <1>6, SetInduction
<1>8. c[N] = F[N]
  BY <1>1, <1>7 DEF T
<1> QED
  BY <1>8, PassesIs DEF c, N

\* The beginnings of a sequence.
LEMMA Beginnings ==
  ASSUME NEW V, NEW w \in Seq(V), NEW N, N = Len(w)
  PROVE  /\ SubSeq(w, 1, 0) = <<>> /\ SubSeq(w, 1, N) = w
         /\ \A n \in 1..N : SubSeq(w, 1, n) = Append(SubSeq(w, 1, n - 1), w[n])
<1>1. SubSeq(w, 1, N) = w
  BY SubSeqFull
<1>2. SubSeq(w, 1, 0) = <<>>
  BY SubSeqEmpty
<1>3. ASSUME NEW n \in 1..N PROVE SubSeq(w, 1, n) = Append(SubSeq(w, 1, n - 1), w[n])
  <2>1. 1 \in 1..Len(w) /\ n \in 1..Len(w)
    OBVIOUS
  <2>2. SubSeq(w, 1, n) = SubSeq(w, 1, n - 1) \o <<w[n]>>
    BY <2>1, SubSeqRecursiveSecond
  <2>3. SubSeq(w, 1, n - 1) \in Seq(V) /\ w[n] \in V
    OBVIOUS
  <2>4. Append(SubSeq(w, 1, n - 1), w[n]) = SubSeq(w, 1, n - 1) \o <<w[n]>>
    BY <2>3, AppendIsConcat
  <2> QED
    BY <2>2, <2>4
<1> QED
  BY <1>1, <1>2, <1>3

RowListBytes(rows, types) == FlattenSeq([i \in DOMAIN rows |-> RowBytes(rows[i], types[i])])

RowsFit(rows, types, count) ==
  /\ IsSequence(rows) /\ IsSequence(types) /\ Len(types) = Len(rows)
  /\ \A i \in 1..Len(rows) : RowFits(rows[i], types[i]) /\ Len(types[i]) = count

AllRowsRead(rows, types) == [i \in 1..Len(rows) |-> AllAsRead(rows[i], types[i])]

\* The rows as parts.
LEMMA RowParts ==
  ASSUME NEW rows, NEW types, NEW count, RowsFit(rows, types, count)
  PROVE  LET parts == [i \in DOMAIN rows |-> RowBytes(rows[i], types[i])] IN
         /\ Len(rows) \in Nat
         /\ parts \in Seq(Bytes) /\ Len(parts) = Len(rows)
         /\ \A i \in 1..Len(rows) : parts[i] = RowBytes(rows[i], types[i])
         /\ WholeWords(RowListBytes(rows, types)) /\ RowListBytes(rows, types) \in Bytes
         /\ Len(RowListBytes(rows, types)) \in Nat
         /\ Len(RowListBytes(rows, types)) >= Len(rows)
<1> DEFINE K == Len(rows)
           parts == [i \in DOMAIN rows |-> RowBytes(rows[i], types[i])]
<1>1. K \in Nat /\ DOMAIN rows = 1..K
  BY Items DEF RowsFit
<1>2. \A i \in 1..K : /\ WholeWords(RowBytes(rows[i], types[i])) /\ RowBytes(rows[i], types[i]) \in Bytes
                      /\ Len(RowBytes(rows[i], types[i])) >= 1
  <2> TAKE i \in 1..K
  <2>1. RowFits(rows[i], types[i])
    BY DEF RowsFit
  <2>2. WholeWords(RowBytes(rows[i], types[i])) /\ Len(RowBytes(rows[i], types[i])) >= WORD_SIZE
        /\ Len(RowBytes(rows[i], types[i])) \in Nat
    BY <2>1, RowBytesFacts
  <2> QED
    BY <2>2, Sizes DEF WholeWords
<1> HIDE DEF K
<1>3. parts \in Seq(Bytes) /\ Len(parts) = K /\ \A i \in 1..K : parts[i] = RowBytes(rows[i], types[i])
  <2>1. parts = [i \in 1..K |-> RowBytes(rows[i], types[i])]
    BY <1>1
  <2> QED
    BY <1>1, <1>2, <2>1
<1>4. RowListBytes(rows, types) = FlattenSeq(parts)
  BY DEF RowListBytes
<1> HIDE DEF parts
<1>5. WholeWords(FlattenSeq(parts))
  BY <1>2, <1>3, FlattenWords
<1>6. FlattenSeq(parts) \in Bytes /\ Len(FlattenSeq(parts)) \in Nat
  BY <1>5, Nothing DEF WholeWords
<1>7. Len(FlattenSeq(parts)) >= K
  <2>1. parts \in Seq(Seq(0..(BYTE - 1))) /\ 1 \in Nat
    BY <1>3 DEF Bytes
  <2>2. \A c \in 1..Len(parts) : Len(parts[c]) >= 1
    BY <1>2, <1>3
  <2>3. Len(FlattenSeq(parts)) >= Len(parts) * 1
    BY <2>1, <2>2, FlattenLength
  <2> QED
    BY <1>1, <1>3, <2>3
<1> QED
  BY <1>1, <1>3, <1>4, <1>5, <1>6, <1>7 DEF K, parts

\* At offset `at` of d there is this row, or the end marker.
HasRow(d, at, row, types, count) ==
  /\ RowFits(row, types) /\ count = Len(types) /\ d \in Bytes /\ at \in 0..Len(d)
  /\ \E rest \in Bytes : From(d, at) = RowBytes(row, types) \o rest

HasEnd(d, at, more) ==
  more \in BOOLEAN /\ d \in Bytes /\ at \in 0..Len(d) /\ From(d, at) = EndMarker(more)

\* A pass at a row collects the row.
LEMMA PassAtRow ==
  ASSUME NEW d, NEW at, NEW row, NEW types, NEW count, HasRow(d, at, row, types, count), NEW rt, NEW rs
  PROVE  RowPass(d, RowsAt(at, rt, rs, "none"), count)
           = RowsAt(at + Len(RowBytes(row, types)), Append(rt, types),
                    Append(rs, AllAsRead(row, types)), "none")
<1>1. RowFits(row, types) /\ count = Len(types) /\ d \in Bytes /\ at \in 0..Len(d)
  BY DEF HasRow
<1>2. PICK rest \in Bytes : From(d, at) = RowBytes(row, types) \o rest
  BY DEF HasRow
<1> QED
  BY <1>1, <1>2, RowPassReads

\* A pass at the end marker ends, and the passes after it change nothing.
LEMMA PassAtEnd ==
  ASSUME NEW d, NEW at, NEW more, HasEnd(d, at, more), NEW rt, NEW rs, NEW count
  PROVE  /\ RowPass(d, RowsAt(at, rt, rs, "none"), count) = RowsAt(at, rt, rs, EndName(more))
         /\ RowPass(d, RowsAt(at, rt, rs, EndName(more)), count) = RowsAt(at, rt, rs, EndName(more))
<1>1. more \in BOOLEAN /\ d \in Bytes /\ at \in 0..Len(d) /\ From(d, at) = EndMarker(more)
  BY DEF HasEnd
<1> QED
  BY <1>1, RowPassEnds

\* Body d is a head and then rows and their end marker.
LaidOut(d, head, rows, types, count, more) ==
  /\ RowsFit(rows, types, count) /\ more \in BOOLEAN /\ head \in Bytes /\ Len(head) >= 1
  /\ d = head \o (RowListBytes(rows, types) \o EndMarker(more))

\* The loop over the bytes of rows and an end marker.
LEMMA RowsLoop ==
  ASSUME NEW d, NEW head, NEW rows, NEW types, NEW count, NEW more,
         LaidOut(d, head, rows, types, count, more)
  PROVE  RowsFrom(d, Len(head), count)
           = RowsAt(Len(head) + Len(RowListBytes(rows, types)), types, AllRowsRead(rows, types), EndName(more))
<1> DEFINE K == Len(rows)
           S == 0..(BYTE - 1)
           parts == [i \in DOMAIN rows |-> RowBytes(rows[i], types[i])]
           fl == RowListBytes(rows, types)
           mk == EndMarker(more)
           body == fl \o mk
           o == Len(head)
           L == Len(d)
           R == AllRowsRead(rows, types)
           nm == EndName(more)
<1>0. /\ RowsFit(rows, types, count) /\ more \in BOOLEAN /\ head \in Bytes /\ Len(head) >= 1
      /\ d = head \o (RowListBytes(rows, types) \o EndMarker(more))
  BY DEF LaidOut
<1> USE <1>0
<1>1. /\ K \in Nat /\ parts \in Seq(Bytes) /\ Len(parts) = K
      /\ \A i \in 1..K : parts[i] = RowBytes(rows[i], types[i])
      /\ fl \in Bytes /\ Len(fl) \in Nat /\ Len(fl) >= K
  BY RowParts
<1>2. fl = FlattenSeq(parts)
  BY DEF RowListBytes
<1>3. types \in Seq({types[i] : i \in DOMAIN types}) /\ Len(types) = K
  BY Items DEF RowsFit
<1>4. R \in Seq({R[i] : i \in 1..K}) /\ Len(R) = K /\ \A i \in 1..K : R[i] = AllAsRead(rows[i], types[i])
  BY <1>1 DEF AllRowsRead
<1>5. \A i \in 1..K : RowFits(rows[i], types[i]) /\ Len(types[i]) = count
  BY DEF RowsFit
<1>6. mk \in Bytes /\ Len(mk) = WORD_SIZE
  BY EndMarkerFacts DEF WholeWords
<1> HIDE DEF parts, fl, mk, R, K, nm
<1>7. PICK off : Offsets(off, parts) /\ Located(off, parts, S)
  <2>1. parts \in Seq(Seq(S))
    BY <1>1 DEF Bytes
  <2> HIDE DEF S
  <2> QED
    BY <2>1, FlattenFacts
<1>8. /\ off \in [0..K -> Nat] /\ off[0] = 0
      /\ \A k \in 1..K : off[k] = off[k - 1] + Len(parts[k])
      /\ Len(fl) = off[K]
  BY <1>1, <1>2, <1>7 DEF Offsets
<1>9. o \in Nat /\ body \in Bytes /\ body \in Seq(S) /\ Len(body) = Len(fl) + WORD_SIZE /\ head \in Seq(S)
      /\ mk \in Seq(S) /\ fl \in Seq(S)
  <2>1. fl \in Seq(S) /\ mk \in Seq(S) /\ head \in Seq(S)
    BY <1>1, <1>6 DEF Bytes
  <2>2. o \in Nat
    BY Nothing
  <2> HIDE DEF S
  <2>3. fl \o mk \in Seq(S) /\ Len(fl \o mk) = Len(fl) + Len(mk)
    BY <2>1, Joined
  <2> QED
    BY <1>6, <2>1, <2>2, <2>3 DEF Bytes, S
<1>10. d = head \o body
  BY DEF fl, mk
<1>11. From(body, Len(fl)) = mk /\ Len(fl) \in 0..Len(body)
  <2>1. 0 \in 0..Len(mk)
    BY <1>6, Sizes
  <2>2. From(fl \o mk, Len(fl)) = mk
    <3> HIDE DEF S
    <3> QED
      BY <1>9, <2>1, Behind
  <2> QED
    BY <1>1, <1>9, <2>2, Sizes
<1>12. \A k \in 1..K : /\ off[k - 1] \in 0..Len(body)
                       /\ \E rest \in Bytes : From(body, off[k - 1]) = parts[k] \o rest
  BY <1>1, <1>2, <1>7, <1>9, Zenon DEF Located, Bytes
<1> HIDE DEF body
<1>13. /\ d \in Bytes /\ Len(d) = o + Len(body)
       /\ \A a \in 0..Len(body) : From(d, o + a) = From(body, a) /\ o + a \in 0..Len(d)
  <2> HIDE DEF S
  <2>1. head \o body \in Seq(S) /\ Len(head \o body) = Len(head) + Len(body)
    BY <1>9, Joined
  <2>2. \A a \in 0..Len(body) : From(head \o body, Len(head) + a) = From(body, a) /\ Len(head) + a \in 0..Len(head \o body)
    BY <1>9, Behind
  <2> QED
    BY <1>10, <2>1, <2>2 DEF Bytes, S
<1> HIDE DEF o
<1>14. o >= 1
  BY DEF o
<1>15. L \in Nat /\ K + 1 <= L
  BY <1>1, <1>9, <1>13, <1>14, Sizes
<1> HIDE DEF L
<1>16. off[K] \in Nat /\ o + off[K] = o + Len(fl)
  BY <1>1, <1>8
<1> DEFINE F == [n \in 0..L |-> IF n <= K THEN RowsAt(o + off[n], SubSeq(types, 1, n), SubSeq(R, 1, n), "none")
                                ELSE RowsAt(o + Len(fl), types, R, nm)]
<1>17. \A n \in 0..L : n <= K => F[n] = RowsAt(o + off[n], SubSeq(types, 1, n), SubSeq(R, 1, n), "none")
  OBVIOUS
<1>18. \A n \in 0..L : n > K => F[n] = RowsAt(o + Len(fl), types, R, nm)
  BY <1>1
<1>19. F = [n \in 0..L |-> F[n]]
  OBVIOUS
<1> HIDE DEF F
<1>20. /\ SubSeq(types, 1, 0) = <<>> /\ SubSeq(types, 1, K) = types
       /\ \A n \in 1..K : SubSeq(types, 1, n) = Append(SubSeq(types, 1, n - 1), types[n])
  BY <1>3, Beginnings
<1>21. /\ SubSeq(R, 1, 0) = <<>> /\ SubSeq(R, 1, K) = R
       /\ \A n \in 1..K : SubSeq(R, 1, n) = Append(SubSeq(R, 1, n - 1), R[n])
  BY <1>4, Beginnings
<1>22. F[0] = RowsAt(o, <<>>, <<>>, "none")
  <2>1. 0 \in 0..L /\ 0 <= K /\ o + off[0] = o
    BY <1>1, <1>8, <1>9, <1>15
  <2> QED
    BY <1>17, <1>20, <1>21, <2>1
<1>23. ASSUME NEW n \in 1..L PROVE F[n] = RowPass(d, F[n - 1], count)
  <2>0. n \in 0..L /\ n - 1 \in 0..L /\ n \in Nat
    BY <1>15
  <2>1. CASE n <= K
    <3>1. n \in 1..K /\ n - 1 <= K /\ n - 1 \in 0..K
      BY <1>1, <2>0, <2>1
    <3>2. PICK rest \in Bytes : From(body, off[n - 1]) = parts[n] \o rest
      BY <1>12, <3>1
    <3> DEFINE at == o + off[n - 1]
               tn == SubSeq(types, 1, n - 1)
               rn == SubSeq(R, 1, n - 1)
    <3>3. at \in 0..Len(d) /\ From(d, at) = RowBytes(rows[n], types[n]) \o rest
      BY <1>1, <1>12, <1>13, <3>1, <3>2
    <3>4. F[n - 1] = RowsAt(at, tn, rn, "none")
      BY <1>17, <2>0, <3>1
    <3> HIDE DEF at, tn, rn
    <3>5. RowPass(d, RowsAt(at, tn, rn, "none"), count)
            = RowsAt(at + Len(RowBytes(rows[n], types[n])), Append(tn, types[n]),
                     Append(rn, AllAsRead(rows[n], types[n])), "none")
      <4>1. RowFits(rows[n], types[n]) /\ count = Len(types[n])
        BY <1>5, <3>1
      <4>2. d \in Bytes
        BY <1>13
      <4> DEFINE row == rows[n]
                 tags == types[n]
      <4>3. RowFits(row, tags) /\ count = Len(tags) /\ From(d, at) = RowBytes(row, tags) \o rest
        BY <3>3, <4>1
      <4>4. at \in 0..Len(d)
        BY <3>3
      <4> HIDE DEF row, tags
      <4>5. RowPass(d, RowsAt(at, tn, rn, "none"), count)
              = RowsAt(at + Len(RowBytes(row, tags)), Append(tn, tags), Append(rn, AllAsRead(row, tags)), "none")
        <5>1. HasRow(d, at, row, tags, count)
          BY <4>2, <4>3, <4>4 DEF HasRow
        <5> QED
          BY <5>1, PassAtRow
      <4> QED
        BY <4>5 DEF row, tags
    <3>6. at + Len(RowBytes(rows[n], types[n])) = o + off[n]
      <4>1. off[n] = off[n - 1] + Len(parts[n]) /\ off[n - 1] \in Nat /\ off[n] \in Nat
        BY <1>8, <3>1
      <4>2. parts[n] = RowBytes(rows[n], types[n])
        BY <1>1, <3>1
      <4>3. Len(parts[n]) \in Nat
        BY <1>1, <3>1, Nothing
      <4>4. at = o + off[n - 1]
        BY DEF at
      <4> QED
        BY <1>9, <4>1, <4>2, <4>3, <4>4
    <3>7. Append(tn, types[n]) = SubSeq(types, 1, n) /\ Append(rn, AllAsRead(rows[n], types[n])) = SubSeq(R, 1, n)
      <4>1. SubSeq(types, 1, n) = Append(SubSeq(types, 1, n - 1), types[n])
        BY <1>20, <3>1
      <4>2. SubSeq(R, 1, n) = Append(SubSeq(R, 1, n - 1), R[n]) /\ R[n] = AllAsRead(rows[n], types[n])
        BY <1>4, <1>21, <3>1
      <4> QED
        BY <4>1, <4>2, Zenon DEF tn, rn
    <3>8. F[n] = RowsAt(o + off[n], SubSeq(types, 1, n), SubSeq(R, 1, n), "none")
      BY <1>17, <2>0, <2>1
    <3> QED
      BY <3>4, <3>5, <3>6, <3>7, <3>8, Zenon
  <2>2. CASE n > K
    <3> DEFINE at == o + Len(fl)
    <3>1. at \in 0..Len(d) /\ From(d, at) = EndMarker(more)
      BY <1>11, <1>13 DEF mk
    <3>2. F[n] = RowsAt(at, types, R, nm)
      BY <1>18, <2>0, <2>2
    <3> HIDE DEF at
    <3>3. /\ RowPass(d, RowsAt(at, types, R, "none"), count) = RowsAt(at, types, R, nm)
          /\ RowPass(d, RowsAt(at, types, R, nm), count) = RowsAt(at, types, R, nm)
      <4>1. d \in Bytes
        BY <1>13
      <4>2. /\ RowPass(d, RowsAt(at, types, R, "none"), count) = RowsAt(at, types, R, EndName(more))
            /\ RowPass(d, RowsAt(at, types, R, EndName(more)), count) = RowsAt(at, types, R, EndName(more))
        <5>1. HasEnd(d, at, more)
          BY <3>1, <4>1 DEF HasEnd
        <5> QED
          BY <5>1, PassAtEnd
      <4> QED
        BY <4>2 DEF nm
    <3>4. F[n - 1] = RowsAt(at, types, R, "none") \/ F[n - 1] = RowsAt(at, types, R, nm)
      <4>1. CASE n - 1 > K
        BY <1>18, <2>0, <4>1 DEF at
      <4>2. CASE ~(n - 1 > K)
        <5>1. n - 1 = K
          BY <1>1, <2>0, <2>2, <4>2
        <5>2. F[K] = RowsAt(o + off[K], SubSeq(types, 1, K), SubSeq(R, 1, K), "none")
          <6>1. K \in 0..L /\ K <= K
            BY <1>1, <1>15
          <6> QED
            BY <1>17, <6>1
        <5> QED
          BY <1>16, <1>20, <1>21, <5>1, <5>2 DEF at
      <4> QED
        BY <4>1, <4>2
    <3> QED
      BY <3>2, <3>3, <3>4
  <2> QED
    BY <1>1, <2>0, <2>1, <2>2
<1>24. InPasses(F, d, o, count)
  BY <1>15, <1>19, <1>22, <1>23 DEF InPasses, L
<1>25. RowsFrom(d, o, count) = F[L]
  BY <1>24, PassesGive DEF L
<1>26. F[L] = RowsAt(o + Len(fl), types, R, nm)
  <2>1. L \in 0..L /\ L > K
    BY <1>1, <1>15
  <2> QED
    BY <1>18, <2>1
<1> QED
  BY <1>25, <1>26 DEF o, fl, R, nm

RowsBytes(names, rows, types, more) ==
  ((encode_uint64(Len(names)) \o TextBytes(names)) \o RowListBytes(rows, types)) \o EndMarker(more)

RowsSent(names, rows, types, more) ==
  /\ TextsFit(names, MAX_COLUMN_NAME_SIZE) /\ Len(names) <= MAX_COLUMN_COUNT
  /\ RowsFit(rows, types, Len(names)) /\ more \in BOOLEAN
  /\ rows # <<>> => Len(rows) < max_rows

RowsReading(names, rows, types, more) ==
  Rows(names, IF rows = <<>> THEN <<>> ELSE types[1], types, AllRowsRead(rows, types), more)

\* The sequence of length zero.
LEMMA EmptyIffLength ==
  ASSUME NEW s, IsSequence(s)
  PROVE  s = <<>> <=> Len(s) = 0
<1>1. ASSUME Len(s) = 0 PROVE s = <<>>
  <2>1. s = [i \in 1..0 |-> s[i]]
    BY <1>1 DEF IsSequence
  <2>2. [i \in 1..0 |-> s[i]] = <<>>
    OBVIOUS
  <2> QED
    BY <2>1, <2>2
<1> QED
  BY <1>1

\* Names, rows and end marker read back.
LEMMA RowsRoundTrip ==
  ASSUME NEW names, NEW rows, NEW types, NEW more, RowsSent(names, rows, types, more)
  PROVE  LET d == RowsBytes(names, rows, types, more) IN
         /\ WholeWords(d)
         /\ decode_rows(d) = Got(RowsReading(names, rows, types, more), Len(d))
<1> DEFINE N == Len(names)
           S == 0..(BYTE - 1)
           u == encode_uint64(N)
           nb == TextBytes(names)
           fl == RowListBytes(rows, types)
           mk == EndMarker(more)
           d == ((u \o nb) \o fl) \o mk
           R == AllRowsRead(rows, types)
<1>1. /\ TextsFit(names, MAX_COLUMN_NAME_SIZE) /\ N <= MAX_COLUMN_COUNT
      /\ RowsFit(rows, types, N) /\ more \in BOOLEAN
      /\ rows # <<>> => Len(rows) < max_rows
  BY DEF RowsSent
<1>2. WholeWords(nb) /\ nb \in Seq(S) /\ Len(nb) \in Nat /\ Len(nb) >= N * WORD_SIZE /\ N \in Nat
  BY <1>1, TextList, Nothing DEF WholeWords, Bytes
<1>3. N \in 0..(WordRange - 1) /\ ~(N > MAX_COLUMN_COUNT)
  BY <1>1, <1>2, CapsAssumption, WordFacts
<1>4. WholeWords(u) /\ u \in Seq(S) /\ Len(u) = WORD_SIZE
  BY <1>3, WordBytes DEF WholeWords, Bytes
<1>5. WholeWords(fl) /\ fl \in Seq(S) /\ Len(fl) \in Nat /\ Len(rows) \in Nat
  BY <1>1, RowParts DEF Bytes
<1>6. WholeWords(mk) /\ mk \in Seq(S) /\ Len(mk) = WORD_SIZE
  BY <1>1, EndMarkerFacts DEF WholeWords, Bytes
<1>7. \A tail \in Bytes : decode_uint64(u \o tail) = Got(N, WORD_SIZE)
  BY <1>3, WordRoundTrip
<1>8. \A tail \in Bytes : Times(N, column_name, nb \o tail) = Got(names, Len(nb))
  BY <1>1, ColumnNames
<1> HIDE DEF N, u, nb, fl, mk, R
<1> DEFINE a == u \o nb
           r == fl \o mk
           t == nb \o r
<1>9. WholeWords(a) /\ Len(a) = WORD_SIZE + Len(nb) /\ a \in Seq(S)
  BY <1>2, <1>4, JoinedWords DEF WholeWords, Bytes
<1>10. WholeWords(r) /\ Len(r) = Len(fl) + WORD_SIZE /\ r \in Bytes /\ r \in Seq(S)
  BY <1>5, <1>6, JoinedWords DEF WholeWords, Bytes
<1> HIDE DEF a, r
<1>11. d = a \o r
  <2>1. a \in Seq(S) /\ fl \in Seq(S) /\ mk \in Seq(S)
    BY <1>5, <1>6, <1>9
  <2> DEFINE x == (a \o fl) \o mk
  <2>2. d = x
    BY DEF a
  <2>3. x = (a \o fl) \o mk
    OBVIOUS
  <2> HIDE DEF S, x, d
  <2>4. x = a \o (fl \o mk)
    BY <2>1, <2>3, Regrouped
  <2> QED
    BY <2>2, <2>4 DEF r
<1>12. d = u \o t
  <2>1. u \in Seq(S) /\ nb \in Seq(S) /\ r \in Seq(S)
    BY <1>2, <1>4, <1>10
  <2> DEFINE x == (u \o nb) \o r
  <2>2. d = x
    BY <1>11 DEF a
  <2>3. x = (u \o nb) \o r
    OBVIOUS
  <2> HIDE DEF S, x, d, t
  <2>4. x = u \o (nb \o r)
    BY <2>1, <2>3, Regrouped
  <2> QED
    BY <2>2, <2>4 DEF t
<1> HIDE DEF d
<1>13. t \in Bytes /\ t \in Seq(S) /\ Len(t) = Len(nb) + Len(r)
  BY <1>2, <1>10, Joined DEF Bytes
<1>14. Times(N, column_name, t) = Got(names, Len(nb))
  BY <1>8, <1>10
<1> HIDE DEF t
<1>15. WholeWords(d) /\ Len(d) = WORD_SIZE + Len(nb) + (Len(fl) + WORD_SIZE)
  <2>1. WholeWords(a \o r) /\ Len(a \o r) = Len(a) + Len(r)
    BY <1>9, <1>10, JoinedWords
  <2> QED
    BY <1>9, <1>10, <1>11, <2>1
<1>16. decode_uint64(d) = Got(N, WORD_SIZE)
  BY <1>7, <1>12, <1>13
<1>17. From(d, WORD_SIZE) = t
  <2>1. 0 \in 0..Len(t)
    BY <1>2, <1>5, <1>10, <1>13, Sizes
  <2>2. u \in Seq(S) /\ t \in Seq(S)
    BY <1>4, <1>13
  <2> HIDE DEF S
  <2>3. From(u \o t, Len(u)) = t
    BY <2>1, <2>2, Behind
  <2> QED
    BY <1>4, <1>12, <2>3
<1>18. RowsFrom(d, WORD_SIZE + Len(nb), N) = RowsAt(WORD_SIZE + Len(nb) + Len(fl), types, R, EndName(more))
  <2>1. a \in Bytes /\ Len(a) >= 1 /\ d = a \o (RowListBytes(rows, types) \o EndMarker(more))
    BY <1>2, <1>9, <1>11, Sizes DEF r, fl, mk, Bytes
  <2>2. RowsFrom(d, Len(a), N) = RowsAt(Len(a) + Len(RowListBytes(rows, types)), types, AllRowsRead(rows, types), EndName(more))
    <3>1. RowsFit(rows, types, N) /\ more \in BOOLEAN
      BY <1>1
    <3> HIDE DEF S
    <3>2. RowsFrom(d, Len(a), N) = RowsAt(Len(a) + Len(RowListBytes(rows, types)), types, AllRowsRead(rows, types), EndName(more))
      <4>1. LaidOut(d, a, rows, types, N, more)
        BY <2>1, <3>1, Zenon DEF LaidOut
      <4> QED
        BY <4>1, RowsLoop
    <3> QED
      BY <3>2
  <2> QED
    BY <1>9, <2>2 DEF fl, R
<1>19. LET remaining == Len(d) - WORD_SIZE IN
       ~(N > (IF remaining > WORD_SIZE THEN remaining - WORD_SIZE ELSE 0) \div WORD_SIZE)
  <2> DEFINE x == Len(nb) + Len(fl)
  <2>1. x \in Nat /\ x >= Len(nb) /\ Len(d) - WORD_SIZE = x + WORD_SIZE
    BY <1>2, <1>5, <1>15, Sizes
  <2> DEFINE k == N * WORD_SIZE
  <2>2. k \in Nat /\ k <= x
    <3>1. k \in Nat /\ k <= Len(nb)
      BY <1>2, Sizes
    <3> HIDE DEF k
    <3> QED
      BY <1>2, <1>5, <2>1, <3>1
  <2> HIDE DEF x
  <2>3. (IF Len(d) - WORD_SIZE > WORD_SIZE THEN Len(d) - WORD_SIZE - WORD_SIZE ELSE 0) = x
    BY <2>1, Sizes
  <2>4. ~(N > x \div WORD_SIZE)
    BY <1>2, <2>1, <2>2, Quotient, Sizes
  <2> QED
    BY <2>3, <2>4, Zenon
<1>20. RowsOf(names, RowsAt(WORD_SIZE + Len(nb) + Len(fl), types, R, EndName(more)), Len(d))
         = Got(RowsReading(names, rows, types, more), Len(d))
  <2> DEFINE s == RowsAt(WORD_SIZE + Len(nb) + Len(fl), types, R, EndName(more))
  <2>1. s.ok /\ s.rows = R /\ s.row_types = types /\ s.ends = EndName(more)
    BY DEF RowsAt
  <2>2. R = [i \in 1..Len(rows) |-> AllAsRead(rows[i], types[i])] /\ IsSequence(rows)
    BY <1>1 DEF AllRowsRead, R, RowsFit
  <2>3. Len(R) = Len(rows) /\ IsSequence(R)
    BY <1>5, <2>2 DEF IsSequence
  <2>4. R = <<>> <=> rows = <<>>
    BY <2>2, <2>3, EmptyIffLength
  <2>5. ~(Len(R) >= max_rows /\ R # <<>>)
    BY <1>1, <1>5, <2>3, <2>4, CapsAssumption
  <2>6. (EndName(more) = "part") = more
    BY <1>1 DEF EndName
  <2> HIDE DEF s
  <2>7. RowsOf(names, s, Len(d)) = Got(Rows(names, IF R = <<>> THEN <<>> ELSE types[1], types, R, EndName(more) = "part"), Len(d))
    BY <2>1, <2>5, Zenon DEF RowsOf
  <2> QED
    BY <2>4, <2>6, <2>7 DEF s, RowsReading, R
<1>21. decode_rows(d) = Got(RowsReading(names, rows, types, more), Len(d))
  <2> DEFINE p == Got(N, WORD_SIZE)
             q == Got(names, Len(nb))
  <2>1. p.ok /\ p.val = N /\ p.used = WORD_SIZE /\ q.ok /\ q.val = names /\ q.used = Len(nb)
    BY DEF Got
  <2>2. decode_uint64(d) = p /\ Times(N, column_name, From(d, WORD_SIZE)) = q
    BY <1>14, <1>16, <1>17
  <2> HIDE DEF p, q
  <2>3. decode_rows(d) = RowsOf(names, RowsFrom(d, WORD_SIZE + Len(nb), N), Len(d))
    BY <1>3, <1>19, <2>1, <2>2, Zenon DEF decode_rows, Then
  <2> QED
    BY <1>18, <1>20, <2>3
<1>22. RowsBytes(names, rows, types, more) = d
  BY DEF RowsBytes, d, u, nb, fl, mk, N
<1> QED
  BY <1>15, <1>21, <1>22

RowsOkay(m) == m.kind = "RowsResponse" /\ rows_typed(m) /\ rows_encodable(m)

RowTypesOf(m) == [i \in DOMAIN m.rows |-> get_row_types(m, i)]

\* The types of a row that is encoded.
LEMMA RowTypesFit ==
  ASSUME NEW m, RowsOkay(m), NEW i \in 1..Len(m.rows)
  PROVE  RowFits(m.rows[i], get_row_types(m, i)) /\ Len(get_row_types(m, i)) = Len(m.column_names)
<1> DEFINE row == m.rows[i]
           count == Len(m.column_names)
           given == IF m.row_types # <<>> THEN m.row_types[i]
                    ELSE IF m.column_types # <<>> THEN m.column_types
                    ELSE [c \in DOMAIN m.rows[i] |-> infer_value_type(m.rows[i][c])]
           types == [c \in DOMAIN given |-> IF m.rows[i][c].py = "None" THEN NULL ELSE given[c]]
<1>1. /\ IsSequence(m.rows) /\ DOMAIN m.rows = 1..Len(m.rows)
      /\ \A j \in DOMAIN m.rows : are_values(m.rows[j])
      /\ m.column_types \in Seq(ValueType) /\ m.row_types \in Seq(Seq(ValueType))
  BY Items DEF RowsOkay, rows_typed
<1>2. get_row_types(m, i) = types
  BY DEF get_row_types
<1>3. /\ are_values(row) /\ Len(row) = count /\ row_encodable(row, types)
      /\ m.row_types # <<>> => Len(m.row_types) = Len(m.rows) /\ Len(m.row_types[i]) = count
      /\ m.column_types # <<>> => Len(m.column_types) = count
      /\ count = 0 => m.rows = <<>>
  BY <1>1, <1>2 DEF RowsOkay, rows_encodable
<1>4. IsSequence(row) /\ Len(row) \in Nat /\ DOMAIN row = 1..count /\ \A c \in 1..count : row[c] \in PyValues
  <2>1. IsSequence(row) /\ Len(row) \in Nat /\ DOMAIN row = 1..Len(row)
    BY <1>3, Items DEF are_values
  <2>2. \A c \in 1..count : is_value(row[c])
    BY <1>3, <2>1 DEF are_values
  <2> QED
    BY <1>3, <2>1, <2>2, ValueIsPy
<1>5. count \in Nat
  BY <1>3, <1>4
<1>6. given \in Seq(ValueType) /\ Len(given) = count
  <2>1. CASE m.row_types # <<>>
    <3>1. given = m.row_types[i]
      BY <2>1
    <3>2. m.row_types[i] \in Seq(ValueType)
      BY <1>1, <1>3, <2>1
    <3> QED
      BY <1>3, <2>1, <3>1, <3>2
  <2>2. CASE m.row_types = <<>> /\ m.column_types # <<>>
    <3>1. given = m.column_types
      BY <2>2
    <3> QED
      BY <1>1, <1>3, <2>2, <3>1
  <2>3. CASE m.row_types = <<>> /\ m.column_types = <<>>
    <3>1. given = [c \in DOMAIN m.rows[i] |-> infer_value_type(m.rows[i][c])]
      BY <2>3
    <3>2. given = [c \in 1..count |-> infer_value_type(row[c])]
      BY <1>4, <3>1
    <3>3. \A c \in 1..count : infer_value_type(row[c]) \in ValueType
      BY <1>4, Inferred
    <3> HIDE DEF given, row, count
    <3> QED
      BY <1>5, <3>2, <3>3
  <2> QED
    BY <2>1, <2>2, <2>3
<1> HIDE DEF given, count
<1>7. types \in Seq(ValueType) /\ Len(types) = count
  <2>1. DOMAIN given = 1..count /\ \A c \in 1..count : given[c] \in ValueType
    BY <1>6
  <2>2. NULL \in ValueType
    BY Tags
  <2>3. types = [c \in 1..count |-> IF m.rows[i][c].py = "None" THEN NULL ELSE given[c]]
    BY <2>1
  <2>4. \A c \in 1..count : (IF m.rows[i][c].py = "None" THEN NULL ELSE given[c]) \in ValueType
    BY <2>1, <2>2
  <2> HIDE DEF types
  <2> QED
    BY <1>5, <2>3, <2>4
<1> HIDE DEF types
<1>8. \A c \in 1..count : value_encodable(row[c], types[c])
  BY <1>3, <1>4 DEF row_encodable
<1>9. count # 0
  <2>1. m.rows # <<>>
    <3>1. Len(m.rows) # 0
      BY <1>1 DEF IsSequence
    <3> QED
      BY <1>1, <3>1, EmptyIffLength
  <2> QED
    BY <1>3, <2>1
<1> HIDE DEF row
<1>10. RowFits(row, types)
  BY <1>3, <1>4, <1>7, <1>8, <1>9 DEF RowFits, ValuesFit
<1> QED
  BY <1>2, <1>7, <1>10 DEF row, count

RowsRead(m) == RowsReading(m.column_names, m.rows, RowTypesOf(m), m.has_more)

\* A rows response decodes to its names, its rows under the types they were written
\* as, and whether more follow.
THEOREM RowsBodyRoundTrip ==
  ASSUME NEW m, RowsOkay(m)
  PROVE  /\ RowsSent(m.column_names, m.rows, RowTypesOf(m), m.has_more)
         /\ encode_rows(m) = RowsBytes(m.column_names, m.rows, RowTypesOf(m), m.has_more)
         /\ WholeWords(encode_rows(m))
         /\ decode_rows(encode_rows(m)) = Got(RowsRead(m), Len(encode_rows(m)))
<1> DEFINE rows == m.rows
           types == RowTypesOf(m)
           K == Len(rows)
<1>1. IsSequence(rows) /\ DOMAIN rows = 1..K /\ K \in Nat /\ m.has_more \in BOOLEAN
      /\ m.column_names \in Seq(AllTexts) /\ (rows # <<>> => K < max_rows)
  BY Items DEF RowsOkay, rows_typed
<1>2. types = [i \in 1..K |-> get_row_types(m, i)]
  BY <1>1 DEF RowTypesOf
<1>3. IsSequence(types) /\ Len(types) = K /\ \A i \in 1..K : types[i] = get_row_types(m, i)
  BY <1>1, <1>2 DEF IsSequence
<1>4. RowsFit(rows, types, Len(m.column_names))
  <2>1. \A i \in 1..K : RowFits(rows[i], get_row_types(m, i)) /\ Len(get_row_types(m, i)) = Len(m.column_names)
    BY RowTypesFit
  <2> HIDE DEF types
  <2> QED
    BY <1>1, <1>3, <2>1 DEF RowsFit
<1>5. TextsFit(m.column_names, MAX_COLUMN_NAME_SIZE) /\ Len(m.column_names) <= MAX_COLUMN_COUNT
  <2>1. /\ Len(m.column_names) <= MAX_COLUMN_COUNT
        /\ \A c \in DOMAIN m.column_names : text_encodable(m.column_names[c], MAX_COLUMN_NAME_SIZE)
    BY DEF RowsOkay, rows_encodable
  <2>2. DOMAIN m.column_names = 1..Len(m.column_names) /\ MAX_COLUMN_NAME_SIZE \in Nat
    BY <1>1, LenProperties, CapsAssumption
  <2> QED
    BY <1>1, <2>1, <2>2 DEF TextsFit
<1>6. RowsSent(m.column_names, rows, types, m.has_more)
  BY <1>1, <1>4, <1>5 DEF RowsSent
<1>7. encode_rows(m) = RowsBytes(m.column_names, rows, types, m.has_more)
  <2>1. [i \in DOMAIN rows |-> encode_row_header(get_row_types(m, i)) \o encode_row_values(rows[i], get_row_types(m, i))]
          = [i \in DOMAIN rows |-> RowBytes(rows[i], types[i])]
    BY <1>1, <1>3 DEF RowBytes
  <2> HIDE DEF types
  <2> QED
    BY <2>1 DEF encode_rows, RowsBytes, RowListBytes, TextBytes, EndMarker
<1> HIDE DEF types, rows
<1>8. /\ WholeWords(RowsBytes(m.column_names, rows, types, m.has_more))
      /\ decode_rows(RowsBytes(m.column_names, rows, types, m.has_more))
           = Got(RowsReading(m.column_names, rows, types, m.has_more), Len(RowsBytes(m.column_names, rows, types, m.has_more)))
  BY <1>6, RowsRoundTrip
<1> QED
  BY <1>6, <1>7, <1>8 DEF RowsRead, rows, types

-----------------------------------------------------------------------------
(* All messages *)

\* A message that a program can build and that its class accepts.
Okay(m) == encodable(m) /\ WellFormed(m)

Classes == DOMAIN RequestType \cup DOMAIN ResponseType

\* The body of m is whole words, its schema one that its class has, and a reader of
\* that class gets v, which says what m said.
Carried(m, v) ==
  /\ class_of(m) \in Classes
  /\ get_schema(m) \in schemas(class_of(m))
  /\ WholeWords(encode_body(m))
  /\ IF m.kind = "LegacyLeader"
     THEN decode_body_legacy(encode_body(m)) = Got(v, Len(encode_body(m)))
     ELSE decode_body(class_of(m), encode_body(m), get_schema(m))
            = Got(v, Len(encode_body(m)))
  /\ SameMessage(m, v)

\* The names of the classes.
LEMMA ClassNames ==
  /\ Classes = {"LeaderRequest", "ClientRequest", "HeartbeatRequest", "OpenRequest",
        "PrepareRequest", "ExecRequest", "QueryRequest", "FinalizeRequest", "ExecSqlRequest",
        "QuerySqlRequest", "InterruptRequest", "ConnectRequest", "AddRequest", "AssignRequest",
        "RemoveRequest", "DumpRequest", "ClusterRequest", "TransferRequest", "DescribeRequest",
        "WeightRequest", "FailureResponse", "LeaderResponse", "WelcomeResponse",
        "ServersResponse", "DbResponse", "StmtResponse", "ResultResponse", "RowsResponse",
        "EmptyResponse", "FilesResponse", "MetadataResponse"}
  /\ ParamsRequests = {"ExecRequest", "QueryRequest", "ExecSqlRequest", "QuerySqlRequest"}
  BY DEF Classes, RequestType, ResponseType, ParamsRequests, PreparedRequests, SqlTextRequests

ListKinds == {"RowsResponse", "FailureResponse", "FilesResponse", "ServersResponse", "HalfRows"}

\* Lists and failures: no schema, and a body of their own.
LEMMA ListDispatch ==
  ASSUME NEW m, m.kind \in ListKinds, "fields" \notin DOMAIN m, NEW v,
         WholeWords(encode_body(m)), SameMessage(m, v),
         CASE m.kind = "RowsResponse" -> decode_rows(encode_body(m)) = Got(v, Len(encode_body(m)))
           [] m.kind \in {"FailureResponse", "HalfRows"} ->
                decode_failure(encode_body(m)) = Got(v, Len(encode_body(m)))
           [] m.kind = "FilesResponse" -> decode_files(encode_body(m)) = Got(v, Len(encode_body(m)))
           [] m.kind = "ServersResponse" -> decode_servers(encode_body(m)) = Got(v, Len(encode_body(m)))
  PROVE  Carried(m, v)
<1> DEFINE b == encode_body(m)
           c == class_of(m)
<1>1. c = IF m.kind = "HalfRows" THEN "FailureResponse" ELSE m.kind
  BY DEF class_of, ListKinds
<1>2. c \in Classes /\ c \notin ParamsRequests \cup {"PrepareRequest", "StmtResponse"} /\ m.kind \notin ParamsRequests
  BY <1>1, ClassNames DEF ListKinds
<1>3. get_schema(m) = 0 /\ schemas(c) = {0}
  BY <1>2 DEF get_schema, schemas
<1> HIDE DEF b, c
<1>4. decode_body(c, b, 0) = Got(v, Len(b))
  <2>1. CASE m.kind = "RowsResponse"
    BY <1>1, <1>2, <1>3, <2>1 DEF decode_body, b
  <2>2. CASE m.kind \in {"FailureResponse", "HalfRows"}
    BY <1>1, <1>2, <1>3, <2>2 DEF decode_body, b
  <2>3. CASE m.kind = "FilesResponse"
    BY <1>1, <1>2, <1>3, <2>3 DEF decode_body, b
  <2>4. CASE m.kind = "ServersResponse"
    BY <1>1, <1>2, <1>3, <2>4 DEF decode_body, b
  <2> QED
    BY <2>1, <2>2, <2>3, <2>4 DEF ListKinds
<1>5. m.kind # "LegacyLeader"
  BY DEF ListKinds
<1> QED
  BY <1>2, <1>3, <1>4, <1>5 DEF Carried, b, c

\* Equal cells, read under the types they were sent as.
LEMMA CellsRead ==
  ASSUME NEW xs, NEW types, ValuesFit(xs, types)
  PROVE  SameCells(xs, AllAsRead(xs, types))
<1> DEFINE N == Len(xs)
           ys == AllAsRead(xs, types)
<1>1. N \in Nat /\ DOMAIN xs = 1..N /\ Len(types) = N /\ \A i \in 1..N : types[i] \in ValueType
  BY Items DEF ValuesFit
<1>2. ys = [i \in 1..N |-> AsRead(xs[i], types[i])]
  BY DEF AllAsRead
<1>3. Len(ys) = N /\ \A i \in 1..N : ys[i] = AsRead(xs[i], types[i])
  BY <1>1, <1>2
<1>4. \A i \in 1..N : PyEqual(xs[i], AsRead(xs[i], types[i]))
  <2> TAKE i \in 1..N
  <2>1. xs[i] \in PyValues /\ types[i] \in ValueType /\ value_encodable(xs[i], types[i]) /\ <<>> \in Bytes
    BY <1>1, Nothing DEF ValuesFit
  <2> QED
    BY <2>1, ValueRoundTrip
<1> HIDE DEF ys
<1>5. \A i \in DOMAIN xs : PyEqual(xs[i], ys[i])
  BY <1>1, <1>3, <1>4
<1>6. Len(xs) = Len(ys)
  BY <1>3
<1> QED
  BY <1>5, <1>6, Zenon DEF SameCells, ys

\* When a decoded rows response says what was sent.
LEMMA SameRows ==
  ASSUME NEW m, NEW d, m.kind = "RowsResponse", d.kind = class_of(m),
         d.column_names = m.column_names, d.has_more = m.has_more, Len(d.rows) = Len(m.rows),
         \A i \in DOMAIN d.rows : SameCells(m.rows[i], d.rows[i]),
         d.row_types = [i \in DOMAIN m.rows |-> get_row_types(m, i)]
  PROVE  SameMessage(m, d)
<1>0. m.kind \notin ParamsRequests
  BY ClassNames
<1> QED
  BY <1>0 DEF SameMessage

\* A rows response is carried.
LEMMA RowsCarried ==
  ASSUME NEW m, Okay(m), m.kind = "RowsResponse"
  PROVE  RowsOkay(m) /\ Carried(m, RowsRead(m))
<1>0. m.kind \notin ParamsRequests
  BY ClassNames
<1>1. RowsOkay(m)
  <2>1. encodable(m) <=> rows_encodable(m)
    BY <1>0 DEF encodable
  <2>2. WellFormed(m) <=> rows_typed(m)
    BY <1>0 DEF WellFormed
  <2> QED
    BY <2>1, <2>2 DEF Okay, RowsOkay
<1>2. encode_body(m) = encode_rows(m)
  BY <1>0 DEF encode_body
<1>3. WholeWords(encode_rows(m)) /\ decode_rows(encode_rows(m)) = Got(RowsRead(m), Len(encode_rows(m)))
      /\ RowsSent(m.column_names, m.rows, RowTypesOf(m), m.has_more)
  BY <1>1, RowsBodyRoundTrip
<1>4. "fields" \notin DOMAIN m
  <2>1. m = Rows(m.column_names, m.column_types, m.row_types, m.rows, m.has_more)
    BY <1>1 DEF RowsOkay, rows_typed
  <2>2. DOMAIN Rows(m.column_names, m.column_types, m.row_types, m.rows, m.has_more) = {"kind", "column_names", "column_types", "row_types", "rows", "has_more"}
    BY DEF Rows
  <2> QED
    BY <2>1, <2>2
<1>5. SameMessage(m, RowsRead(m))
  <2> DEFINE v == RowsRead(m)
             rows == m.rows
             types == RowTypesOf(m)
             K == Len(rows)
  <2>1. v.kind = "RowsResponse" /\ v.column_names = m.column_names /\ v.has_more = m.has_more
        /\ v.rows = AllRowsRead(rows, types) /\ v.row_types = types
    BY DEF RowsRead, RowsReading, Rows
  <2>2. RowsFit(rows, types, Len(m.column_names))
    BY <1>3 DEF RowsSent
  <2> HIDE DEF v, types
  <2>3. K \in Nat /\ DOMAIN rows = 1..K /\ \A i \in 1..K : ValuesFit(rows[i], types[i])
    BY <2>2, Items DEF RowsFit, RowFits
  <2>4. v.rows = [i \in 1..K |-> AllAsRead(rows[i], types[i])]
    BY <2>1 DEF AllRowsRead
  <2>5. Len(v.rows) = K /\ DOMAIN v.rows = 1..K /\ \A i \in 1..K : v.rows[i] = AllAsRead(rows[i], types[i])
    BY <2>3, <2>4
  <2>6. \A i \in DOMAIN v.rows : SameCells(m.rows[i], v.rows[i])
    BY <2>3, <2>5, CellsRead
  <2>7. v.row_types = [i \in DOMAIN m.rows |-> get_row_types(m, i)]
    BY <2>1 DEF types, RowTypesOf
  <2>8. v.kind = class_of(m)
    BY <2>1 DEF class_of
  <2>9. Len(v.rows) = Len(m.rows)
    BY <2>5
  <2> QED
    BY <2>1, <2>6, <2>7, <2>8, <2>9, SameRows DEF v
<1>6. decode_rows(encode_body(m)) = Got(RowsRead(m), Len(encode_body(m))) /\ WholeWords(encode_body(m))
  BY <1>2, <1>3
<1>7. m.kind \in ListKinds
  BY DEF ListKinds
<1> QED
  BY <1>1, <1>4, <1>5, <1>6, <1>7, ListDispatch

\* So is a failure.
LEMMA FailureCarried ==
  ASSUME NEW m, Okay(m), m.kind = "FailureResponse"
  PROVE  Carried(m, Failure(m.code, sanitize_server_text(m.message)))
<1> DEFINE v == Failure(m.code, sanitize_server_text(m.message))
<1>0. m.kind \notin ParamsRequests
  BY ClassNames
<1>1. failure_encodable(m) /\ failure_typed(m)
  <2>1. encodable(m) <=> failure_encodable(m)
    BY <1>0 DEF encodable
  <2>2. WellFormed(m) <=> failure_typed(m)
    BY <1>0 DEF WellFormed
  <2> QED
    BY <2>1, <2>2 DEF Okay
<1>2. encode_body(m) = FailureBytes(m.code, m.message)
  BY <1>0 DEF encode_body, encode_failure, FailureBytes
<1>3. FailureFits(m.code, m.message)
  BY <1>1 DEF failure_encodable, failure_typed, FailureFits, is_uint64
<1>4. "fields" \notin DOMAIN m
  <2>1. DOMAIN Failure(m.code, m.message) = {"kind", "code", "message"}
    BY DEF Failure
  <2> QED
    BY <1>1, <2>1 DEF failure_typed
<1>5. WholeWords(encode_body(m)) /\ decode_failure(encode_body(m)) = Got(v, Len(encode_body(m)))
  BY <1>2, <1>3, FailureRecordReads, FailureRoundTrip, Nothing
<1>6. SameMessage(m, v)
  <2>1. v.kind = "FailureResponse" /\ v.code = m.code /\ v.message = sanitize_server_text(m.message)
    BY DEF Failure
  <2>2. class_of(m) = "FailureResponse"
    BY DEF class_of
  <2> HIDE DEF v
  <2> QED
    BY <1>0, <2>1, <2>2 DEF SameMessage
<1>7. m.kind \in ListKinds
  BY DEF ListKinds
<1> HIDE DEF v
<1> QED
  BY <1>4, <1>5, <1>6, <1>7, ListDispatch DEF v

\* So is a failure behind part of a rows response.
LEMMA HalfCarried ==
  ASSUME NEW m, Okay(m), m.kind = "HalfRows"
  PROVE  Carried(m, Failure(m.code, sanitize_server_text(m.message)))
<1> DEFINE v == Failure(m.code, sanitize_server_text(m.message))
<1>0. m.kind \notin ParamsRequests
  BY ClassNames
<1>1. half_rows_sent(m)
  BY <1>0 DEF WellFormed, Okay
<1>2. encode_body(m) = HalfBytes(m.names, m.code, m.message)
  BY <1>0 DEF encode_body, encode_half_rows, HalfBytes, encode_failure, FailureBytes, TextBytes
<1>3. HalfFits(m.names, m.code, m.message)
  <2>1. DOMAIN m.names = 1..Len(m.names) /\ MAX_COLUMN_NAME_SIZE \in Nat
    BY <1>1, LenProperties, CapsAssumption DEF half_rows_sent
  <2> QED
    BY <1>1, <2>1 DEF half_rows_sent, failure_encodable, HalfFits, FailureFits, is_uint64, TextsFit
<1>4. "fields" \notin DOMAIN m
  <2>1. DOMAIN HalfRowsFailure(m.names, m.code, m.message) = {"kind", "names", "code", "message"}
    BY DEF HalfRowsFailure
  <2> QED
    BY <1>1, <2>1 DEF half_rows_sent
<1>5. WholeWords(encode_body(m)) /\ decode_failure(encode_body(m)) = Got(v, Len(encode_body(m)))
  BY <1>2, <1>3, HalfFirst, HalfRoundTrip
<1>6. SameMessage(m, v)
  <2>1. v.kind = "FailureResponse" /\ v.code = m.code /\ v.message = sanitize_server_text(m.message)
    BY DEF Failure
  <2>2. class_of(m) = "FailureResponse"
    BY DEF class_of
  <2> HIDE DEF v
  <2> QED
    BY <1>0, <2>1, <2>2 DEF SameMessage
<1>7. m.kind \in ListKinds
  BY DEF ListKinds
<1> HIDE DEF v
<1> QED
  BY <1>4, <1>5, <1>6, <1>7, ListDispatch DEF v

\* So is a list of files.
LEMMA FilesCarried ==
  ASSUME NEW m, Okay(m), m.kind = "FilesResponse"
  PROVE  Carried(m, m)
<1>0. m.kind \notin ParamsRequests
  BY ClassNames
<1>1. files_encodable(m) /\ files_typed(m)
  <2>1. encodable(m) <=> files_encodable(m)
    BY <1>0 DEF encodable
  <2>2. WellFormed(m) <=> files_typed(m)
    BY <1>0 DEF WellFormed
  <2> QED
    BY <2>1, <2>2 DEF Okay
<1>2. encode_body(m) = encode_uint64(Len(m.files)) \o FileListBytes(m.files)
  BY <1>0 DEF encode_body, encode_files, FileListBytes, FileBytes
<1>3. FilesFit(m.files)
  <2>1. IsSequence(m.files) /\ DOMAIN m.files = 1..Len(m.files) /\ Distinct(m.files, LAMBDA f : f.name)
    BY <1>1, Items DEF files_typed
  <2>2. \A i \in 1..Len(m.files) : FileFits(m.files[i])
    BY <1>1, <2>1 DEF files_typed, files_encodable, FileFits, Bytes, AllBytes
  <2> QED
    BY <1>1, <2>1, <2>2 DEF FilesFit, files_encodable
<1>4. "fields" \notin DOMAIN m /\ m = Files(m.files)
  <2>1. DOMAIN Files(m.files) = {"kind", "files"}
    BY DEF Files
  <2> QED
    BY <1>1, <2>1 DEF files_typed
<1>5. WholeWords(encode_body(m)) /\ decode_files(encode_body(m)) = Got(m, Len(encode_body(m)))
  BY <1>2, <1>3, <1>4, FilesRoundTrip
<1>6. SameMessage(m, m)
  <2>1. class_of(m) = "FilesResponse"
    BY DEF class_of
  <2> QED
    BY <1>0, <2>1 DEF SameMessage
<1>7. m.kind \in ListKinds
  BY DEF ListKinds
<1> QED
  BY <1>4, <1>5, <1>6, <1>7, ListDispatch

\* So is a list of nodes.
LEMMA ServersCarried ==
  ASSUME NEW m, Okay(m), m.kind = "ServersResponse"
  PROVE  Carried(m, m)
<1>0. m.kind \notin ParamsRequests
  BY ClassNames
<1>1. servers_encodable(m) /\ servers_typed(m)
  <2>1. encodable(m) <=> servers_encodable(m)
    BY <1>0 DEF encodable
  <2>2. WellFormed(m) <=> servers_typed(m)
    BY <1>0 DEF WellFormed
  <2> QED
    BY <2>1, <2>2 DEF Okay
<1>2. encode_body(m) = encode_uint64(Len(m.nodes)) \o NodeListBytes(m.nodes)
  BY <1>0 DEF encode_body, encode_servers, NodeListBytes, NodeBytes
<1>3. ServersFit(m.nodes)
  <2>1. IsSequence(m.nodes) /\ DOMAIN m.nodes = 1..Len(m.nodes) /\ Distinct(m.nodes, LAMBDA n : n.node_id)
    BY <1>1, Items DEF servers_typed
  <2>2. \A i \in 1..Len(m.nodes) : NodeFits(m.nodes[i])
    BY <1>1, <2>1 DEF servers_typed, servers_encodable, NodeFits
  <2> QED
    BY <1>1, <2>1, <2>2 DEF ServersFit, servers_encodable
<1>4. "fields" \notin DOMAIN m /\ m = Servers(m.nodes)
  <2>1. DOMAIN Servers(m.nodes) = {"kind", "nodes"}
    BY DEF Servers
  <2> QED
    BY <1>1, <2>1 DEF servers_typed
<1>5. WholeWords(encode_body(m)) /\ decode_servers(encode_body(m)) = Got(m, Len(encode_body(m)))
  BY <1>2, <1>3, <1>4, ServersRoundTrip
<1>6. SameMessage(m, m)
  <2>1. class_of(m) = "ServersResponse"
    BY DEF class_of
  <2> QED
    BY <1>0, <2>1 DEF SameMessage
<1>7. m.kind \in ListKinds
  BY DEF ListKinds
<1> QED
  BY <1>4, <1>5, <1>6, <1>7, ListDispatch

\* Cells say what they say.
LEMMA SameItself ==
  ASSUME NEW xs PROVE SameCells(xs, xs)
  BY Zenon DEF SameCells, PyEqual

\* A statement request is carried.
LEMMA StatementCarried ==
  ASSUME NEW m, Okay(m), m.kind \in ParamsRequests
  PROVE  StatementOkay(m) /\ Carried(m, StatementRead(m))
<1> DEFINE v == StatementRead(m)
<1>0. /\ m.kind \in {"ExecRequest", "QueryRequest", "ExecSqlRequest", "QuerySqlRequest"}
      /\ m.kind \notin ListKinds /\ m.kind \notin {"Tagged", "LegacyLeader", "Promote"}
      /\ m.kind \in Classes
  BY ClassNames DEF ListKinds
<1>1. StatementOkay(m)
  <2>1. encodable(m) <=> statement_encodable(m)
    BY <1>0 DEF encodable, ListKinds
  <2>2. WellFormed(m) <=> statement_typed(m)
    BY <1>0 DEF WellFormed, ListKinds
  <2> QED
    BY <2>1, <2>2 DEF Okay, StatementOkay
<1>2. encode_body(m) = encode_statement(m)
  BY <1>0 DEF encode_body, ListKinds
<1>3. class_of(m) = m.kind /\ get_schema(m) = params_schema(m) /\ schemas(m.kind) = {0, 1}
  BY <1>0 DEF class_of, ListKinds, get_schema, schemas
<1>4. /\ params_schema(m) \in {0, 1} /\ WholeWords(encode_body(m))
      /\ decode_statement(m.kind, encode_body(m), params_schema(m)) = Got(v, Len(encode_body(m)))
  BY <1>1, <1>2, StatementRoundTrip
<1>5. decode_body(m.kind, encode_body(m), params_schema(m)) = Got(v, Len(encode_body(m)))
  <2>1. decode_body(m.kind, encode_body(m), params_schema(m))
          = decode_statement(m.kind, encode_body(m), params_schema(m))
    BY <1>0, <1>3, <1>4 DEF decode_body, ListKinds
  <2> QED
    BY <1>4, <2>1
<1>6. SameMessage(m, v)
  <2>1. v.kind = m.kind /\ v.prefix = m.prefix /\ v.params = m.params
    BY DEF StatementRead, Statement
  <2> HIDE DEF v
  <2> QED
    BY <1>0, <1>3, <2>1, SameItself DEF SameMessage, ListKinds
<1> HIDE DEF v
<1> QED
  BY <1>0, <1>1, <1>3, <1>4, <1>5, <1>6 DEF Carried, v

\* So is one of another client.
LEMMA TaggedCarried ==
  ASSUME NEW m, Okay(m), m.kind = "Tagged"
  PROVE  Carried(m, TaggedRead(m))
<1> DEFINE v == TaggedRead(m)
<1>0. m.kind \notin ParamsRequests
  BY ClassNames
<1>1. tagged_sent(m)
  BY <1>0 DEF WellFormed, Okay
<1>2. encode_body(m) = encode_tagged(m)
  BY <1>0 DEF encode_body
<1>3. m.class \in ParamsRequests /\ class_of(m) = m.class
  BY <1>1 DEF tagged_sent, class_of
<1>4. m.class \in Classes /\ m.class \notin ListKinds
  BY <1>3, ClassNames DEF ListKinds
<1>5. get_schema(m) = 0 /\ 0 \in schemas(m.class)
  <2>1. DOMAIN Tagged(m.class, m.prefix, m.params, m.types) = {"kind", "class", "prefix", "params", "types"}
    BY DEF Tagged
  <2>2. "fields" \notin DOMAIN m
    BY <1>1, <2>1 DEF tagged_sent
  <2> QED
    BY <1>0, <2>2 DEF get_schema, schemas
<1>6. /\ WholeWords(encode_body(m)) /\ ValuesFit(m.params, m.types)
      /\ decode_statement(m.class, encode_body(m), 0) = Got(v, Len(encode_body(m)))
  BY <1>1, <1>2, TaggedRoundTrip
<1>7. decode_body(m.class, encode_body(m), 0) = Got(v, Len(encode_body(m)))
  <2>1. decode_body(m.class, encode_body(m), 0) = decode_statement(m.class, encode_body(m), 0)
    BY <1>3, <1>4, <1>5 DEF decode_body, ListKinds
  <2> QED
    BY <1>6, <2>1
<1>8. SameMessage(m, v)
  <2>1. v.kind = m.class /\ v.prefix = m.prefix /\ v.params = AllAsRead(m.params, m.types)
    BY DEF TaggedRead, Statement
  <2>2. SameCells(m.params, AllAsRead(m.params, m.types))
    BY <1>6, CellsRead
  <2> HIDE DEF v
  <2> QED
    BY <1>0, <1>3, <2>1, <2>2 DEF SameMessage
<1> HIDE DEF v
<1> QED
  BY <1>3, <1>4, <1>5, <1>6, <1>7, <1>8 DEF Carried, v

-----------------------------------------------------------------------------
\* What is neither a list nor a statement is flat.
LEMMA FlatMessages ==
  ASSUME NEW m, Okay(m), m.kind \notin ListKinds \cup ParamsRequests \cup {"Tagged"}
  PROVE  /\ FlatOkay(m) /\ m.kind \in FlatKinds /\ encode_body(m) = encode_flat(m)
         /\ get_schema(m) = flat_schema(m) /\ flat_schema(m) \in schemas(m.kind)
         /\ class_of(m) = IF m.kind = "LegacyLeader" THEN "LeaderResponse"
                          ELSE IF m.kind = "Promote" THEN "AssignRequest" ELSE m.kind
         /\ class_of(m) \in Classes /\ schemas(class_of(m)) = schemas(m.kind)
         /\ class_of(m) \notin ListKinds \cup ParamsRequests
<1>1. flat_encodable(m) /\ flat_typed(m) /\ encode_body(m) = encode_flat(m)
  <2>1. encodable(m) <=> flat_encodable(m)
    BY DEF encodable, ListKinds
  <2>2. WellFormed(m) <=> flat_typed(m)
    BY DEF WellFormed, ListKinds
  <2>3. encode_body(m) = encode_flat(m)
    BY DEF encode_body, ListKinds
  <2> QED
    BY <2>1, <2>2, <2>3 DEF Okay
<1>2. m.kind \in Classes \cup {"Promote", "LegacyLeader"}
  BY <1>1 DEF flat_typed, Classes
<1>3. m.kind \in FlatKinds
  BY <1>2, ClassNames DEF ListKinds, FlatKinds, WordRequests, NodeAddressRequests, OneKind
<1>4. get_schema(m) = flat_schema(m) /\ flat_schema(m) \in schemas(m.kind)
  <2>1. DOMAIN Flat(m.kind, m.fields, m.schema, m.decoded) = {"kind", "fields", "schema", "decoded"}
    BY DEF Flat
  <2>2. "fields" \in DOMAIN m
    BY <1>1, <2>1 DEF flat_typed
  <2> QED
    BY <1>1, <2>2 DEF get_schema, flat_encodable
<1>5. class_of(m) = IF m.kind = "LegacyLeader" THEN "LeaderResponse"
                    ELSE IF m.kind = "Promote" THEN "AssignRequest" ELSE m.kind
  BY DEF class_of, ListKinds
<1>6. class_of(m) \in Classes /\ class_of(m) \notin ListKinds \cup ParamsRequests
  BY <1>2, <1>5, ClassNames DEF ListKinds
<1>7. schemas(class_of(m)) = schemas(m.kind)
  BY <1>5, ClassNames DEF schemas
<1> QED
  BY <1>1, <1>3, <1>4, <1>5, <1>6, <1>7 DEF FlatOkay

\* So is a flat message.
LEMMA FlatCarried ==
  ASSUME NEW m, Okay(m), m.kind \notin ListKinds \cup ParamsRequests \cup {"Tagged"}
  PROVE  Carried(m, FlatRead(m))
<1> DEFINE v == FlatRead(m)
           c == class_of(m)
           schema == flat_schema(m)
           b == encode_flat(m)
<1>1. FlatOkay(m) /\ encode_body(m) = b /\ get_schema(m) = schema /\ schema \in schemas(c)
      /\ c \in Classes /\ c \notin ListKinds \cup ParamsRequests
  BY FlatMessages
<1>2. WholeWords(b)
  BY <1>1, FlatBytes
<1>3. schema \in {0, 1}
  BY <1>1 DEF schemas
<1>4. m.kind = "LegacyLeader" => decode_body_legacy(b) = Got(v, Len(b))
  BY <1>1, LegacyRoundTrip
<1>5. m.kind # "LegacyLeader" => decode_body(c, b, schema) = Got(v, Len(b))
  <2> SUFFICES ASSUME m.kind # "LegacyLeader" PROVE decode_body(c, b, schema) = Got(v, Len(b))
    OBVIOUS
  <2>1. decode_flat(c, b, schema) = Got(v, Len(b))
    BY <1>1, FlatRoundTrip
  <2> HIDE DEF c, schema, b, v
  <2>2. decode_body(c, b, schema) = decode_flat(c, b, schema)
    BY <1>1 DEF decode_body, ListKinds
  <2> QED
    BY <2>1, <2>2
<1>6. SameMessage(m, v)
  <2> DEFINE fs == FieldsRead(flat_fields(m), flat_layout(m.kind, schema))
  <2>1. v.kind = c /\ v.fields = fs /\ v.schema = schema /\ DOMAIN v = {"kind", "fields", "schema", "decoded"}
    BY DEF FlatRead, Flat
  <2>2. get_schema(v) = schema
    <3> HIDE DEF v, c, schema
    <3>1. get_schema(v) = flat_schema(v)
      BY <1>1, <2>1 DEF get_schema
    <3>2. flat_schema(v) = schema
      BY <1>3, <2>1, NoneAssumption DEF flat_schema
    <3> QED
      BY <3>1, <3>2
  <2>3. CASE m.kind # "Promote"
    <3>1. fs = flat_fields(m)
      BY <1>1, <2>3, FlatFits
    <3> HIDE DEF v, fs
    <3> QED
      BY <1>1, <2>1, <2>2, <2>3, <3>1 DEF SameMessage, ListKinds
  <2>4. CASE m.kind = "Promote"
    <3>1. flat_layout(m.kind, schema) = Promote /\ flat_fields(m) = m.fields
      BY <2>4 DEF flat_layout, WordRequests, NodeAddressRequests, flat_fields
    <3>2. Promote = <<uint64, reserved(0)>> /\ uint64.of # "reserved" /\ reserved(0).of = "reserved"
      BY Uint64Ok, ReservedOk DEF Promote
    <3>3. fs = [i \in 1..2 |-> FieldRead(m.fields[i], Promote[i])]
      BY <3>1, <3>2 DEF FieldsRead
    <3>4. FieldRead(m.fields[1], Promote[1]) = m.fields[1] /\ FieldRead(m.fields[2], Promote[2]) = 0
      BY <3>2 DEF FieldRead
    <3> HIDE DEF fs
    <3>5. fs = <<m.fields[1], 0>>
      BY <3>3, <3>4
    <3>6. m.kind \notin ParamsRequests \cup {"Tagged"} \cup ListKinds
      OBVIOUS
    <3> HIDE DEF v
    <3> QED
      BY <2>1, <2>4, <3>5, <3>6 DEF SameMessage, VOTER, ListKinds
  <2> QED
    BY <2>3, <2>4
<1> HIDE DEF v, c, schema, b
<1> QED
  BY <1>1, <1>2, <1>4, <1>5, <1>6 DEF Carried, v, c

-----------------------------------------------------------------------------

(* What each decoder of a body returns *)

\* A message of kind k without the fields of a flat one.
OfKind(r, k) == r.val.kind = k /\ "fields" \notin DOMAIN r.val

\* What decode_rows returns.
LEMMA RowsKind ==
  ASSUME NEW d, decode_rows(d).ok PROVE OfKind(decode_rows(d), "RowsResponse")
  BY DEF decode_rows, Then, RowsOf, Got, Fail, Rows, OfKind

\* What decode_failure returns.
LEMMA FailureKind ==
  ASSUME NEW d, decode_failure(d).ok PROVE OfKind(decode_failure(d), "FailureResponse")
  BY ZenonT(30) DEF decode_failure, Then, Chosen, FailureRecord, recover_trailing, Got, Fail, Failure,
         OfKind

\* What decode_files returns.
LEMMA FilesKind ==
  ASSUME NEW d, decode_files(d).ok PROVE OfKind(decode_files(d), "FilesResponse")
  BY DEF decode_files, Then, Got, Fail, Files, OfKind

\* What decode_servers returns.
LEMMA ServersKind ==
  ASSUME NEW d, decode_servers(d).ok PROVE OfKind(decode_servers(d), "ServersResponse")
  BY DEF decode_servers, Then, Got, Fail, Servers, OfKind

\* What decode_statement returns.
LEMMA StatementKind ==
  ASSUME NEW kind, NEW d, NEW schema, decode_statement(kind, d, schema).ok
  PROVE  /\ decode_statement(kind, d, schema).val.kind = kind
         /\ decode_statement(kind, d, schema).val.decoded_schema = schema
  BY DEF decode_statement, Then, Got, Fail, Statement

\* What decode_flat returns.
LEMMA FlatKind ==
  ASSUME NEW kind, NEW d, NEW schema, decode_flat(kind, d, schema).ok
  PROVE  /\ decode_flat(kind, d, schema).val.kind = kind
         /\ decode_flat(kind, d, schema).val.schema = schema
         /\ "fields" \in DOMAIN decode_flat(kind, d, schema).val
  BY DEF decode_flat, FlatOf, Then, Got, Fail, Flat

\* What decode_body_legacy returns.
LEMMA LegacyKind ==
  ASSUME NEW d, decode_body_legacy(d).ok
  PROVE  /\ decode_body_legacy(d).val.kind = "LeaderResponse"
         /\ decode_body_legacy(d).val.schema = 0
         /\ "fields" \in DOMAIN decode_body_legacy(d).val
  BY DEF decode_body_legacy, Then, Got, Fail, Flat

\* A body decodes to a message of the class it is decoded as, with the schema
\* it is decoded with.
LEMMA BodyKind ==
  ASSUME NEW class, NEW d, NEW schema, decode_body(class, d, schema).ok
  PROVE  /\ decode_body(class, d, schema).val.kind = class
         /\ get_schema(decode_body(class, d, schema).val) = schema
<1> DEFINE r == decode_body(class, d, schema)
           Bodies == {"RowsResponse", "FailureResponse", "FilesResponse", "ServersResponse"}
<1>1. schema \in schemas(class) /\ schema \in {0, 1}
  BY DEF decode_body, Fail, schemas
<1>2. CASE class \in Bodies
  <2>1. class \notin ParamsRequests \cup {"PrepareRequest", "StmtResponse"}
    BY <1>2 DEF ParamsRequests, PreparedRequests, SqlTextRequests
  <2>2. schema = 0
    BY <1>1, <2>1 DEF schemas
  <2>3. OfKind(r, class)
    BY <1>1, <1>2, <2>1, RowsKind, FailureKind, FilesKind, ServersKind DEF decode_body
  <2> HIDE DEF r
  <2>4. get_schema(r.val) = 0
    BY <2>1, <2>3 DEF get_schema, OfKind
  <2> QED
    BY <2>2, <2>3, <2>4 DEF OfKind, r
<1>3. CASE class \in ParamsRequests
  <2>1. class \notin Bodies
    BY <1>3 DEF ParamsRequests, PreparedRequests, SqlTextRequests
  <2>2. r = decode_statement(class, d, schema)
    BY <1>1, <1>3, <2>1 DEF decode_body
  <2>3. r.val.kind = class /\ r.val.decoded_schema = schema
    BY <2>2, StatementKind
  <2> HIDE DEF r
  <2>4. get_schema(r.val) = params_schema(r.val)
    BY <1>3, <2>3 DEF get_schema
  <2>5. params_schema(r.val) = schema
    BY <1>1, <2>3, NoneAssumption DEF params_schema
  <2> QED
    BY <2>3, <2>4, <2>5 DEF r
<1>4. CASE class \notin Bodies \cup ParamsRequests
  <2>1. r = decode_flat(class, d, schema)
    BY <1>1, <1>4 DEF decode_body
  <2>2. r.val.kind = class /\ r.val.schema = schema /\ "fields" \in DOMAIN r.val
    BY <2>1, FlatKind
  <2> HIDE DEF r
  <2>3. get_schema(r.val) = flat_schema(r.val)
    BY <1>4, <2>2 DEF get_schema
  <2>4. flat_schema(r.val) = schema
    BY <1>1, <2>2, NoneAssumption DEF flat_schema
  <2> QED
    BY <2>2, <2>3, <2>4 DEF r
<1> QED
  BY <1>2, <1>3, <1>4

-----------------------------------------------------------------------------
(* The type maps *)

\* The class a type byte stands for is one of the decoder's direction, and its
\* number is the type byte.
LEMMA ClassFacts ==
  ASSUME NEW code, NEW serves \in BOOLEAN, msg_class(code, serves) # None
  PROVE  /\ is_request_class(msg_class(code, serves)) = serves
         /\ msg_class(code, serves) \notin Private
         /\ MSG_TYPE(msg_class(code, serves)) = code
<1> DEFINE c == msg_class(code, serves)
<1>0. DOMAIN RequestType \cap DOMAIN ResponseType = {}
  BY DEF RequestType, ResponseType
<1>1. CASE serves
  <2>1. c \in {k \in REQUEST_TYPES : RequestType[k] = code}
    BY <1>1 DEF msg_class
  <2>2. c \in DOMAIN RequestType /\ c \notin Private /\ RequestType[c] = code
    BY <2>1 DEF REQUEST_TYPES, Private
  <2> QED
    BY <1>1, <2>2 DEF is_request_class, MSG_TYPE
<1>2. CASE ~serves
  <2>1. c \in {k \in RESPONSE_TYPES : ResponseType[k] = code}
    BY <1>2 DEF msg_class
  <2>2. c \in DOMAIN ResponseType /\ ResponseType[c] = code
    BY <2>1 DEF RESPONSE_TYPES
  <2>3. c \notin DOMAIN RequestType
    BY <1>0, <2>2
  <2>4. c \notin Private
    BY <2>3 DEF Private, RequestType
  <2> QED
    BY <1>2, <2>2, <2>3, <2>4 DEF is_request_class, MSG_TYPE
<1> QED
  BY <1>1, <1>2

-----------------------------------------------------------------------------
(* Frames *)

\* The sizes of words and headers.
LEMMA WireSizes ==
  /\ WORD_SIZE \in Nat \ {0} /\ UINT32_SIZE \in Nat \ {0}
  /\ HEADER_SIZE \in Nat /\ HEADER_SIZE >= UINT32_SIZE + 2
  BY WireSizesAssumption, TupleSizesAssumption, CodecAssumption

\* A header is HEADER_SIZE bytes, and holds type and schema behind the size.
LEMMA HeaderFacts ==
  ASSUME NEW words, NEW code, NEW schema
  PROVE  /\ \E S : Header(words, code, schema) \in Seq(S)
         /\ Len(Header(words, code, schema)) = HEADER_SIZE
         /\ Header(words, code, schema)[UINT32_SIZE + 1] = code
         /\ Header(words, code, schema)[UINT32_SIZE + 2] = schema
         /\ \A i \in 1..UINT32_SIZE :
              Header(words, code, schema)[i] = LittleEndian(words, UINT32_SIZE)[i]
<1> DEFINE a == LittleEndian(words, UINT32_SIZE)
           b == <<code, schema>>
           c == Zeros(HEADER_SIZE - UINT32_SIZE - 2)
           S == {a[i] : i \in 1..UINT32_SIZE} \cup {code, schema, 0}
<1>1. a \in Seq(S) /\ Len(a) = UINT32_SIZE
  <2>1. a = [i \in 1..UINT32_SIZE |-> a[i]]
    BY DEF LittleEndian
  <2> HIDE DEF a
  <2>2. a \in [1..UINT32_SIZE -> S]
    BY <2>1
  <2> QED
    BY <2>2, WireSizes
<1>2. b \in Seq(S) /\ Len(b) = 2 /\ b[1] = code /\ b[2] = schema
  OBVIOUS
<1>3. c \in Seq(S) /\ Len(c) = HEADER_SIZE - UINT32_SIZE - 2
  BY WireSizes DEF Zeros
<1> HIDE DEF a, b, c, S
<1>4. /\ a \o b \in Seq(S) /\ Len(a \o b) = UINT32_SIZE + 2
      /\ (a \o b)[UINT32_SIZE + 1] = code /\ (a \o b)[UINT32_SIZE + 2] = schema
      /\ \A i \in 1..UINT32_SIZE : (a \o b)[i] = a[i]
  <2>1. 1 + UINT32_SIZE = UINT32_SIZE + 1 /\ UINT32_SIZE + 1 > UINT32_SIZE
        /\ UINT32_SIZE + 2 > UINT32_SIZE /\ UINT32_SIZE + 1 \in 1..(UINT32_SIZE + 2)
        /\ UINT32_SIZE + 2 \in 1..(UINT32_SIZE + 2)
        /\ (UINT32_SIZE + 1) - UINT32_SIZE = 1 /\ (UINT32_SIZE + 2) - UINT32_SIZE = 2
    BY WireSizes
  <2>2. /\ a \o b \in Seq(S) /\ Len(a \o b) = Len(a) + Len(b)
        /\ \A i \in 1..(Len(a) + Len(b)) :
             (a \o b)[i] = IF i <= Len(a) THEN a[i] ELSE b[i - Len(a)]
    BY <1>1, <1>2, ConcatProperties, Zenon
  <2> QED
    BY <1>1, <1>2, <2>1, <2>2, WireSizes
<1>5. /\ (a \o b) \o c \in Seq(S) /\ Len((a \o b) \o c) = HEADER_SIZE
      /\ ((a \o b) \o c)[UINT32_SIZE + 1] = code /\ ((a \o b) \o c)[UINT32_SIZE + 2] = schema
      /\ \A i \in 1..UINT32_SIZE : ((a \o b) \o c)[i] = a[i]
  <2>1. /\ UINT32_SIZE + 1 \in 1..HEADER_SIZE /\ UINT32_SIZE + 2 \in 1..HEADER_SIZE
        /\ UINT32_SIZE + 1 <= UINT32_SIZE + 2
        /\ (UINT32_SIZE + 2) + (HEADER_SIZE - UINT32_SIZE - 2) = HEADER_SIZE
    BY WireSizes
  <2> DEFINE e == a \o b
  <2> HIDE DEF e
  <2>2. e \in Seq(S) /\ Len(e) = UINT32_SIZE + 2 /\ e[UINT32_SIZE + 1] = code
        /\ e[UINT32_SIZE + 2] = schema
        /\ \A i \in 1..UINT32_SIZE : e[i] = a[i]
    BY <1>4 DEF e
  <2>3. /\ e \o c \in Seq(S) /\ Len(e \o c) = Len(e) + Len(c)
        /\ \A i \in 1..(Len(e) + Len(c)) :
             (e \o c)[i] = IF i <= Len(e) THEN e[i] ELSE c[i - Len(e)]
    BY <1>3, <2>2, ConcatProperties, Zenon
  <2>4. /\ e \o c \in Seq(S) /\ Len(e \o c) = HEADER_SIZE
        /\ (e \o c)[UINT32_SIZE + 1] = code /\ (e \o c)[UINT32_SIZE + 2] = schema
        /\ \A i \in 1..UINT32_SIZE : (e \o c)[i] = a[i]
    BY <1>3, <2>1, <2>2, <2>3, WireSizes
  <2> QED
    BY <2>4 DEF e
<1>6. Header(words, code, schema) = (a \o b) \o c
  BY DEF Header, a, b, c
<1> QED
  BY <1>5, <1>6 DEF a

\* A frame, whole or not, whose schema, if it is there, is a number.
IsFrame(d) ==
  /\ \E S : d \in Seq(S)
  /\ Len(d) >= HEADER_SIZE => schema_of(d) \in Nat

\* A header and a body are a frame.
LEMMA Framed ==
  ASSUME NEW words, NEW code, NEW schema \in Nat, NEW body, NEW T, body \in Seq(T)
  PROVE  /\ IsFrame(Header(words, code, schema) \o body)
         /\ Len(Header(words, code, schema) \o body) = HEADER_SIZE + Len(body)
<1> DEFINE h == Header(words, code, schema)
<1>1. PICK S : h \in Seq(S)
  BY HeaderFacts
<1>2. Len(h) = HEADER_SIZE /\ h[UINT32_SIZE + 2] = schema
  BY HeaderFacts
<1> HIDE DEF h
<1>3. h \in Seq(S \cup T) /\ body \in Seq(S \cup T)
  <2>1. \A U, V, q : U \subseteq V /\ q \in Seq(U) => q \in Seq(V)
    OBVIOUS
  <2> QED
    BY <1>1, <2>1
<1>4. h \o body \in Seq(S \cup T) /\ Len(h \o body) = HEADER_SIZE + Len(body)
  BY <1>2, <1>3, WireSizes
<1>5. (h \o body)[UINT32_SIZE + 2] = schema
  BY <1>2, <1>3, WireSizes
<1> QED
  BY <1>4, <1>5 DEF IsFrame, schema_of, h

\* A frame as long as its size field says.
Sized(d) == ~(Len(d) < HEADER_SIZE) /\ frame_exactly(d)

\* The size field holds the number of words, and an encoded frame is that long.
LEMMA FramedSized ==
  ASSUME NEW body \in Bytes, NEW code, NEW schema \in Nat, Len(body) % WORD_SIZE = 0,
         Len(body) \div WORD_SIZE < Codes(UINT32_SIZE)
  PROVE  Sized(Header(Len(body) \div WORD_SIZE, code, schema) \o body)
<1> DEFINE words == Len(body) \div WORD_SIZE
           a == LittleEndian(words, UINT32_SIZE)
           h == Header(words, code, schema)
           d == h \o body
<1>1. Len(body) \in Nat /\ words \in Nat /\ words * WORD_SIZE = Len(body)
  <2>1. Len(body) \in Nat
    BY LenProperties DEF Bytes
  <2>2. words \in Nat /\ Len(body) = WORD_SIZE * words + 0
    BY <2>1, Division
  <2> HIDE DEF words
  <2> QED
    BY <2>1, <2>2, WireSizes
<1>2. a \in Bytes /\ Len(a) = UINT32_SIZE /\ Number(a) = words
  <2>1. UINT32_SIZE \in Nat /\ words \in 0..(Codes(UINT32_SIZE) - 1)
    BY <1>1, WireSizes, CodesFacts
  <2> QED
    BY <1>1, <2>1, LittleEndianBytes, NumberRoundTrip DEF Bytes
<1>3. PICK S : h \in Seq(S)
  BY HeaderFacts
<1>4. Len(h) = HEADER_SIZE /\ \A i \in 1..UINT32_SIZE : h[i] = a[i]
  BY HeaderFacts
<1> HIDE DEF words, a, h
<1>5. h \in Seq(S \cup (0..(BYTE - 1))) /\ body \in Seq(S \cup (0..(BYTE - 1)))
      /\ a \in Seq(S \cup (0..(BYTE - 1)))
  <2>1. \A U, V, q : U \subseteq V /\ q \in Seq(U) => q \in Seq(V)
    OBVIOUS
  <2> QED
    BY <1>2, <1>3, <2>1 DEF Bytes
<1>6. /\ d \in Seq(S \cup (0..(BYTE - 1))) /\ Len(d) = HEADER_SIZE + Len(body)
      /\ \A i \in 1..HEADER_SIZE : d[i] = h[i]
  <2> DEFINE U == S \cup (0..(BYTE - 1))
  <2> HIDE DEF U
  <2>1. h \in Seq(U) /\ body \in Seq(U)
    BY <1>5 DEF U
  <2>2. /\ h \o body \in Seq(U) /\ Len(h \o body) = Len(h) + Len(body)
        /\ \A i \in 1..Len(h) : (h \o body)[i] = h[i]
    BY <2>1, Joined, Zenon
  <2> QED
    BY <1>4, <2>2 DEF U
<1> HIDE DEF d
<1>7. SubSeq(d, 1, UINT32_SIZE) = a
  <2>1. UINT32_SIZE \in Nat /\ UINT32_SIZE <= Len(d)
        /\ \A i \in 1..UINT32_SIZE : i \in 1..HEADER_SIZE
    BY <1>1, <1>6, WireSizes
  <2> DEFINE b == SubSeq(d, 1, UINT32_SIZE)
  <2>2. /\ b \in Seq(S \cup (0..(BYTE - 1))) /\ Len(b) = UINT32_SIZE
        /\ \A i \in 1..UINT32_SIZE : b[i] = d[i]
    BY <1>6, <2>1, StartOf
  <2> HIDE DEF b
  <2>3. \A i \in 1..Len(b) : b[i] = a[i]
    BY <1>4, <1>6, <2>1, <2>2
  <2>4. b = a
    BY <1>2, <1>5, <2>2, <2>3, SeqEqual
  <2> QED
    BY <2>4 DEF b
<1>8. size_words(d) = words
  BY <1>2, <1>7 DEF size_words
<1>9. Sized(d)
  <2>1. Len(d) = HEADER_SIZE + words * WORD_SIZE /\ ~(Len(d) < HEADER_SIZE)
    BY <1>1, <1>6, WireSizes
  <2> QED
    BY <1>8, <2>1, Zenon DEF Sized, frame_exactly
<1> QED
  BY <1>9 DEF d, h, words

\* Tearing a frame leaves its size field, if it leaves a header, and changes its
\* length.
LEMMA TornSize ==
  ASSUME NEW S, NEW d \in Seq(S), Sized(d), NEW T, NEW e \in Seq(T), Len(e) # Len(d),
         \A i \in 1..HEADER_SIZE : Len(e) >= HEADER_SIZE => e[i] = d[i]
  PROVE  ~Sized(e)
<1> SUFFICES ASSUME Len(e) >= HEADER_SIZE PROVE size_words(e) = size_words(d)
  <2>1. Len(e) \in Nat
    BY LenProperties
  <2> QED
    BY <2>1, WireSizes DEF Sized, frame_exactly
<1>1. /\ Len(d) \in Nat /\ Len(e) \in Nat /\ UINT32_SIZE \in Nat /\ UINT32_SIZE <= Len(d)
      /\ UINT32_SIZE <= Len(e) /\ \A i \in 1..UINT32_SIZE : i \in 1..HEADER_SIZE
  <2>1. Len(d) \in Nat /\ Len(e) \in Nat
    BY LenProperties
  <2> QED
    BY <2>1, WireSizes DEF Sized, frame_exactly
<1> DEFINE p == SubSeq(d, 1, UINT32_SIZE)
           q == SubSeq(e, 1, UINT32_SIZE)
<1>2. p \in Seq(S) /\ Len(p) = UINT32_SIZE /\ \A i \in 1..UINT32_SIZE : p[i] = d[i]
  BY <1>1, StartOf
<1>3. q \in Seq(T) /\ Len(q) = UINT32_SIZE /\ \A i \in 1..UINT32_SIZE : q[i] = e[i]
  BY <1>1, StartOf
<1> HIDE DEF p, q
<1>4. p \in Seq(S \cup T) /\ q \in Seq(S \cup T)
  <2>1. \A U, V, r : U \subseteq V /\ r \in Seq(U) => r \in Seq(V)
    OBVIOUS
  <2> QED
    BY <1>2, <1>3, <2>1
<1>5. \A i \in 1..Len(p) : p[i] = q[i]
  BY <1>1, <1>2, <1>3
<1>6. p = q
  BY <1>2, <1>3, <1>4, <1>5, SeqEqual
<1> QED
  BY <1>6 DEF p, q, size_words

\* What a decoder returns for a frame has its direction, type and schema.
LEMMA MessageObeys ==
  ASSUME NEW d, IsFrame(d), NEW dec, dec.is_request \in BOOLEAN, decode_message(d, dec).ok
  PROVE  /\ is_request_class(decode_message(d, dec).val.kind) = dec.is_request
         /\ decode_message(d, dec).val.kind \notin Private
         /\ MSG_TYPE(decode_message(d, dec).val.kind) = msg_type(d)
         /\ get_schema(decode_message(d, dec).val) = schema_of(d)
<1> DEFINE r == decode_message(d, dec)
           code == msg_type(d)
           schema == schema_of(d)
           serves == dec.is_request
           class == msg_class(code, serves)
<1>1. Len(d) \in Nat
  BY LenProperties DEF IsFrame
<1>2. r = Dispatch(code, schema, body_of(d), dec) /\ ~(Len(d) < HEADER_SIZE)
  BY DEF decode_message, Fail
<1>3. schema \in Nat
  BY <1>1, <1>2, WireSizes DEF IsFrame
<1>4. /\ class # None /\ schema_supported(code, schema, serves)
      /\ r = IF reads_legacy(code, dec) THEN decode_body_legacy(body_of(d))
             ELSE decode_body(class, body_of(d), schema)
  BY <1>2 DEF Dispatch, Fail
<1> HIDE DEF r, code, schema, serves, class
<1>5. /\ is_request_class(class) = serves /\ class \notin Private /\ MSG_TYPE(class) = code
  BY <1>4, ClassFacts DEF class, serves
<1>6. r.val.kind = class /\ get_schema(r.val) = schema
  <2>1. CASE reads_legacy(code, dec)
    <3>1. ~serves /\ code = 1
      BY <2>1 DEF reads_legacy, ResponseType, serves
    <3>2. class = "LeaderResponse"
      <4>1. class \in {k \in RESPONSE_TYPES : ResponseType[k] = code}
        BY <1>4, <3>1 DEF class, msg_class
      <4> QED
        BY <3>1, <4>1 DEF RESPONSE_TYPES, ResponseType
    <3>3. schema = 0
      <4>1. code \notin DOMAIN RESPONSE_MAX_SCHEMA
        BY <3>1 DEF RESPONSE_MAX_SCHEMA, ResponseType
      <4>2. schema <= 0
        BY <1>4, <3>1, <4>1 DEF schema_supported
      <4> QED
        BY <1>3, <4>2
    <3>4. /\ r.val.kind = "LeaderResponse" /\ r.val.schema = 0
          /\ "fields" \in DOMAIN r.val
      BY <1>4, <2>1, LegacyKind DEF r
    <3>5. "LeaderResponse" \notin ParamsRequests
      BY DEF ParamsRequests, PreparedRequests, SqlTextRequests
    <3>6. get_schema(r.val) = flat_schema(r.val) /\ flat_schema(r.val) = 0
      BY <3>4, <3>5, NoneAssumption DEF get_schema, flat_schema
    <3> QED
      BY <3>2, <3>3, <3>4, <3>6
  <2>2. CASE ~reads_legacy(code, dec)
    BY <1>4, <2>2, BodyKind DEF r
  <2> QED
    BY <2>1, <2>2
<1> QED
  BY <1>5, <1>6 DEF r, code, schema, serves

-----------------------------------------------------------------------------
(* Whole frames *)

\* Whole words have no remainder, and are no more than their bytes.
LEMMA WordsCounted ==
  ASSUME NEW b, WholeWords(b)
  PROVE  /\ b \in Bytes /\ Len(b) \in Nat /\ Len(b) % WORD_SIZE = 0
         /\ Len(b) \div WORD_SIZE \in Nat /\ Len(b) \div WORD_SIZE <= Len(b)
<1>1. b \in Bytes /\ Len(b) \in Nat
  BY Nothing DEF WholeWords
<1>2. PICK n \in Nat : Len(b) = n * WORD_SIZE
  BY DEF WholeWords
<1> DEFINE W == WORD_SIZE
<1>3. W \in Nat \ {0}
  BY WireSizes
<1> HIDE DEF W
<1>4. (n * W) % W = 0 /\ (n * W) \div W = n
  BY <1>3
<1>5. n <= n * W
  BY <1>3
<1> QED
  BY <1>1, <1>2, <1>4, <1>5 DEF W

\* What a frame's header and body read as.
LEMMA FrameReads ==
  ASSUME NEW body, WholeWords(body), NEW code, NEW schema \in Nat,
         Len(body) \div WORD_SIZE < Codes(UINT32_SIZE)
  PROVE  LET d == Header(Len(body) \div WORD_SIZE, code, schema) \o body IN
         /\ Sized(d) /\ IsFrame(d)
         /\ Len(d) = HEADER_SIZE + Len(body)
         /\ msg_type(d) = code /\ schema_of(d) = schema /\ body_of(d) = body
<1> DEFINE words == Len(body) \div WORD_SIZE
           h == Header(words, code, schema)
           d == h \o body
<1>1. body \in Bytes /\ Len(body) \in Nat /\ Len(body) % WORD_SIZE = 0
  BY WordsCounted
<1>2. Sized(d)
  BY <1>1, FramedSized
<1>3. IsFrame(d) /\ Len(d) = HEADER_SIZE + Len(body)
  BY <1>1, Framed DEF Bytes
<1>4. PICK S : h \in Seq(S)
  BY HeaderFacts
<1>5. Len(h) = HEADER_SIZE /\ h[UINT32_SIZE + 1] = code /\ h[UINT32_SIZE + 2] = schema
  BY HeaderFacts
<1> DEFINE U == S \cup (0..(BYTE - 1))
<1>6. h \in Seq(U) /\ body \in Seq(U)
  <2> HIDE DEF h
  <2>1. S \subseteq U /\ 0..(BYTE - 1) \subseteq U
    OBVIOUS
  <2> HIDE DEF U
  <2>2. h \in Seq(U)
    BY <1>4, <2>1, SeqSubset
  <2>3. body \in Seq(U)
    BY <1>1, <2>1, SeqSubset DEF Bytes
  <2> QED
    BY <2>2, <2>3
<1> HIDE DEF words, h, U
<1>7. /\ h \o body \in Seq(U)
      /\ \A i \in 1..Len(h) : (h \o body)[i] = h[i]
  BY <1>6, Joined
<1>8. UINT32_SIZE + 1 \in 1..HEADER_SIZE /\ UINT32_SIZE + 2 \in 1..HEADER_SIZE
  BY WireSizes
<1>9. msg_type(d) = code /\ schema_of(d) = schema
  BY <1>5, <1>7, <1>8 DEF msg_type, schema_of
<1>10. body_of(d) = body
  <2>1. 0 \in 0..Len(body) /\ HEADER_SIZE + 0 = HEADER_SIZE
    BY <1>1, WireSizes
  <2>2. From(h \o body, Len(h) + 0) = From(body, 0)
    BY <1>6, <2>1, Behind
  <2>3. From(body, 0) = body
    BY <1>6, FromAll
  <2> QED
    BY <1>5, <2>1, <2>2, <2>3 DEF body_of
<1> QED
  BY <1>2, <1>3, <1>9, <1>10 DEF h, words

\* What a class encodes within the cap is a frame; its header says what the message
\* is, and its body follows.
LEMMA MessageFramed ==
  ASSUME NEW m, NEW v, Carried(m, v), encodable(m)
  PROVE  /\ encode_message(m).ok <=> FrameSize(m) <= max_message_size
         /\ encode_message(m).ok => LET d == encode_message(m).val IN
              /\ Sized(d) /\ IsFrame(d) /\ Len(d) = FrameSize(m) /\ d # <<>>
              /\ msg_type(d) = MSG_TYPE(class_of(m)) /\ schema_of(d) = get_schema(m)
              /\ body_of(d) = encode_body(m)
<1> DEFINE body == encode_body(m)
           words == Len(body) \div WORD_SIZE
           code == MSG_TYPE(class_of(m))
           schema == get_schema(m)
           d == Header(words, code, schema) \o body
           r == encode_message(m)
<1>1. WholeWords(body) /\ schema \in Nat
  BY DEF Carried, schemas
<1>2. /\ body \in Bytes /\ Len(body) \in Nat /\ Len(body) % WORD_SIZE = 0
      /\ words \in Nat /\ words <= Len(body)
  BY <1>1, WordsCounted
<1>3. Len(d) = HEADER_SIZE + Len(body)
  BY <1>1, <1>2, Framed DEF Bytes
<1>4. r = IF words < Codes(UINT32_SIZE) /\ frame_fits(Len(d)) THEN Got(d, Len(d)) ELSE Fail
  BY <1>2 DEF encode_message, FrameOf
<1>5. FrameSize(m) = Len(d) /\ FrameSize(m) \in Nat
  BY <1>2, <1>3, WireSizes DEF FrameSize
<1>6. FrameSize(m) <= max_message_size => words < Codes(UINT32_SIZE)
  <2> HIDE DEF words, body, d
  <2>1. max_message_size \in Nat /\ Codes(UINT32_SIZE) \in Nat /\ max_message_size < Codes(UINT32_SIZE)
    BY CodecAssumption, WireSizes, CodesFacts
  <2> QED
    BY <1>2, <1>3, <1>5, <2>1, WireSizes
<1>7. words < Codes(UINT32_SIZE) =>
         /\ Sized(d) /\ IsFrame(d)
         /\ msg_type(d) = code /\ schema_of(d) = schema /\ body_of(d) = body
  BY <1>1, FrameReads
<1>8. d # <<>>
  <2>1. Len(<<>>) = 0 /\ Len(d) # 0
    BY <1>2, <1>3, WireSizes
  <2> HIDE DEF d
  <2> QED
    BY <2>1
<1> HIDE DEF d, words, code, schema, body, r
<1>9. r.ok <=> words < Codes(UINT32_SIZE) /\ frame_fits(Len(d))
  BY <1>4 DEF Got, Fail
<1>10. r.ok => r.val = d
  BY <1>4, <1>9 DEF Got
<1> QED
  BY <1>5, <1>6, <1>7, <1>8, <1>9, <1>10 DEF frame_fits, r, code, schema, body

-----------------------------------------------------------------------------
(* Dispatch *)

\* No two classes of one direction have the same number.
LEMMA TypeNumbers ==
  /\ \A a, b \in DOMAIN RequestType : RequestType[a] = RequestType[b] => a = b
  /\ \A a, b \in DOMAIN ResponseType : ResponseType[a] = ResponseType[b] => a = b
<1>1. \A a, b \in DOMAIN RequestType : RequestType[a] = RequestType[b] => a = b
  BY SMTT(30) DEF RequestType
<1>2. \A a, b \in DOMAIN ResponseType : ResponseType[a] = ResponseType[b] => a = b
  BY SMTT(30) DEF ResponseType
<1> QED
  BY <1>1, <1>2

\* The type byte of a class a decoder knows stands for that class.
LEMMA KnownClass ==
  ASSUME NEW c \in Classes \ Private
  PROVE  msg_class(MSG_TYPE(c), is_request_class(c)) = c /\ c # None
<1> DEFINE code == MSG_TYPE(c)
<1>0. c # None
  BY ClassesAssumption DEF Classes
<1>1. CASE c \in DOMAIN RequestType
  <2>1. is_request_class(c) = TRUE /\ code = RequestType[c]
    BY <1>1 DEF is_request_class, MSG_TYPE
  <2>2. {k \in REQUEST_TYPES : RequestType[k] = code} = {c}
    <3>1. c \in REQUEST_TYPES /\ REQUEST_TYPES \subseteq DOMAIN RequestType
      BY <1>1 DEF REQUEST_TYPES, Private
    <3> HIDE DEF code
    <3> QED
      BY <2>1, <3>1, TypeNumbers
  <2> HIDE DEF code
  <2>3. msg_class(code, TRUE) = c
    BY <2>2 DEF msg_class
  <2> QED
    BY <1>0, <2>1, <2>3 DEF code
<1>2. CASE c \notin DOMAIN RequestType
  <2>1. is_request_class(c) = FALSE /\ code = ResponseType[c] /\ c \in DOMAIN ResponseType
    BY <1>2 DEF is_request_class, MSG_TYPE, Classes
  <2>2. {k \in RESPONSE_TYPES : ResponseType[k] = code} = {c}
    <3>1. c \in RESPONSE_TYPES /\ RESPONSE_TYPES \subseteq DOMAIN ResponseType
      BY <2>1 DEF RESPONSE_TYPES
    <3> HIDE DEF code
    <3> QED
      BY <2>1, <3>1, TypeNumbers
  <2> HIDE DEF code
  <2>3. msg_class(code, FALSE) = c
    BY <2>2 DEF msg_class
  <2> QED
    BY <1>0, <2>1, <2>3 DEF code
<1> QED
  BY <1>1, <1>2

\* The types of HEARTBEAT and CONNECT are in no type map.
LEMMA PrivateClass ==
  ASSUME NEW c \in Private
  PROVE  msg_class(MSG_TYPE(c), is_request_class(c)) = None
<1>1. c \in DOMAIN RequestType
  BY DEF Private, RequestType
<1>2. {k \in REQUEST_TYPES : RequestType[k] = RequestType[c]} = {}
  <2>1. c \notin REQUEST_TYPES /\ REQUEST_TYPES \subseteq DOMAIN RequestType
    BY DEF REQUEST_TYPES, Private
  <2> QED
    BY <1>1, <2>1, TypeNumbers
<1> DEFINE code == RequestType[c]
<1> HIDE DEF code
<1>3. msg_class(code, TRUE) = None
  BY <1>2 DEF msg_class, code
<1> QED
  BY <1>1, <1>3 DEF is_request_class, MSG_TYPE, code

\* A class's decoder passes the schemas the class has.
LEMMA SchemaPasses ==
  ASSUME NEW c \in Classes, NEW schema \in schemas(c)
  PROVE  schema_supported(MSG_TYPE(c), schema, is_request_class(c))
<1> DEFINE code == MSG_TYPE(c)
           serves == is_request_class(c)
           ceilings == IF serves THEN REQUEST_MAX_SCHEMA ELSE RESPONSE_MAX_SCHEMA
<1>1. schema = 0 \/ (schema = 1 /\ c \in ParamsRequests \cup {"PrepareRequest", "StmtResponse"})
  BY DEF schemas
<1>2. \A k \in DOMAIN ceilings : ceilings[k] = 1
  BY DEF REQUEST_MAX_SCHEMA, RESPONSE_MAX_SCHEMA
<1>3. c \in ParamsRequests \cup {"PrepareRequest", "StmtResponse"} => code \in DOMAIN ceilings
  BY ClassNames DEF REQUEST_MAX_SCHEMA, RESPONSE_MAX_SCHEMA, MSG_TYPE, is_request_class, RequestType, ResponseType
<1> HIDE DEF code
<1>4. schema_supported(code, schema, serves)
      <=> schema <= IF code \in DOMAIN ceilings THEN ceilings[code] ELSE 0
  BY DEF schema_supported
<1> HIDE DEF ceilings, serves
<1>5. schema_supported(code, schema, serves)
  BY <1>1, <1>2, <1>3, <1>4
<1> QED
  BY <1>5 DEF code, serves

\* The readers of a message choose the form of body it has.
LEMMA LegacyChosen ==
  ASSUME NEW m, NEW r, Suits(r, m), class_of(m) \in Classes
  PROVE  reads_legacy(MSG_TYPE(class_of(m)), r) <=> m.kind = "LegacyLeader"
<1> DEFINE c == class_of(m)
<1>1. m.kind = "LegacyLeader" => c = "LeaderResponse"
  BY DEF class_of
<1>2. c = "LeaderResponse" => ~is_request_class(c) /\ MSG_TYPE(c) = ResponseType.LeaderResponse
  BY DEF is_request_class, RequestType, MSG_TYPE, ResponseType
<1>3. ~is_request_class(c) /\ MSG_TYPE(c) = ResponseType.LeaderResponse => c = "LeaderResponse"
  <2>1. "LeaderResponse" \in DOMAIN ResponseType
    BY DEF ResponseType
  <2> QED
    BY <2>1, TypeNumbers DEF is_request_class, MSG_TYPE, Classes
<1> HIDE DEF c
<1>4. /\ r.is_request = is_request_class(c)
      /\ c = "LeaderResponse" => (r.version = PROTOCOL_VERSION_LEGACY <=> m.kind = "LegacyLeader")
  BY DEF Suits, c
<1>5. reads_legacy(MSG_TYPE(c), r) <=> m.kind = "LegacyLeader"
  BY <1>1, <1>2, <1>3, <1>4 DEF reads_legacy
<1> QED
  BY <1>5 DEF c

\* Every message that is encoded within the cap is decoded, by every reader it
\* suits, to one that says the same.
THEOREM MessageReads ==
  ASSUME NEW m, NEW v, Carried(m, v), encode_message(m).ok, NEW r, Suits(r, m)
  PROVE  IF class_of(m) \in Private THEN decode_message(encode_message(m).val, r) = Fail
         ELSE decode_message(encode_message(m).val, r) = Got(v, Len(encode_body(m)))
<1> DEFINE c == class_of(m)
           code == MSG_TYPE(c)
           schema == get_schema(m)
           body == encode_body(m)
           d == encode_message(m).val
<1>0. encodable(m)
  BY DEF encode_message, Fail
<1>1. /\ Sized(d) /\ Len(d) = FrameSize(m) /\ FrameSize(m) <= max_message_size
      /\ msg_type(d) = code /\ schema_of(d) = schema /\ body_of(d) = body
  BY <1>0, MessageFramed
<1>2. c \in Classes /\ schema \in schemas(c)
  BY DEF Carried
<1>3. r.is_request = is_request_class(c)
  BY DEF Suits
<1>4. reads_legacy(code, r) <=> m.kind = "LegacyLeader"
  BY <1>2, LegacyChosen
<1>5. schema_supported(code, schema, is_request_class(c))
  BY <1>2, SchemaPasses
<1>6. IF m.kind = "LegacyLeader" THEN decode_body_legacy(body) = Got(v, Len(body))
      ELSE decode_body(c, body, schema) = Got(v, Len(body))
  BY DEF Carried
<1>7. msg_class(code, is_request_class(c)) = IF c \in Private THEN None ELSE c
  BY <1>2, KnownClass, PrivateClass
<1>8. c \notin Private => c # None
  BY <1>2, KnownClass
<1> HIDE DEF c, code, schema, body, d
<1>9. decode_message(d, r) = Dispatch(code, schema, body, r)
  <2>1. ~(Len(d) < HEADER_SIZE) /\ frame_exactly(d)
    BY <1>1 DEF Sized
  <2>2. frame_fits(HEADER_SIZE + size_words(d) * WORD_SIZE)
    <3>1. HEADER_SIZE + size_words(d) * WORD_SIZE = FrameSize(m)
      BY <1>1, <2>1 DEF frame_exactly
    <3> QED
      BY <1>1, <3>1, Zenon DEF frame_fits
  <2> QED
    BY <1>1, <2>1, <2>2, Zenon DEF decode_message
<1>10. CASE c \in Private
  <2>1. Dispatch(code, schema, body, r) = Fail
    BY <1>3, <1>7, <1>10 DEF Dispatch
  <2> QED
    BY <1>9, <1>10, <2>1 DEF c, d
<1>11. CASE c \notin Private
  <2>1. msg_class(code, r.is_request) = c /\ c # None /\ schema_supported(code, schema, r.is_request)
    BY <1>3, <1>5, <1>7, <1>8, <1>11
  <2>2. Dispatch(code, schema, body, r) = IF reads_legacy(code, r) THEN decode_body_legacy(body) ELSE decode_body(c, body, schema)
    BY <2>1 DEF Dispatch
  <2>3. Dispatch(code, schema, body, r) = Got(v, Len(body))
    BY <1>4, <1>6, <2>2
  <2> QED
    BY <1>9, <1>11, <2>3 DEF c, d, body
<1> QED
  BY <1>10, <1>11

-----------------------------------------------------------------------------
(* What a reader gets *)

\* What a reader gets of message m.
Reading(m) ==
  IF m.kind = "RowsResponse" THEN RowsRead(m)
  ELSE IF m.kind \in {"FailureResponse", "HalfRows"} THEN Failure(m.code, sanitize_server_text(m.message))
  ELSE IF m.kind \in {"FilesResponse", "ServersResponse"} THEN m
  ELSE IF m.kind \in ParamsRequests THEN StatementRead(m)
  ELSE IF m.kind = "Tagged" THEN TaggedRead(m)
  ELSE FlatRead(m)

\* The body of every message that a class accepts is whole words, and a reader of its
\* class gets a message from it that says the same.
THEOREM EveryMessage ==
  ASSUME NEW m, Okay(m)
  PROVE  Carried(m, Reading(m))
<1>1. CASE m.kind = "RowsResponse"
  BY <1>1, RowsCarried DEF Reading
<1>2. CASE m.kind = "FailureResponse"
  BY <1>2, FailureCarried DEF Reading
<1>3. CASE m.kind = "HalfRows"
  BY <1>3, HalfCarried DEF Reading
<1>4. CASE m.kind = "FilesResponse"
  BY <1>4, FilesCarried DEF Reading
<1>5. CASE m.kind = "ServersResponse"
  BY <1>5, ServersCarried DEF Reading
<1>6. CASE m.kind \in ParamsRequests
  <2>1. m.kind \notin ListKinds
    BY <1>6, ClassNames DEF ListKinds
  <2> QED
    BY <1>6, <2>1, StatementCarried DEF Reading, ListKinds
<1>7. CASE m.kind = "Tagged"
  <2>1. m.kind \notin ParamsRequests
    BY <1>7, ClassNames
  <2> QED
    BY <1>7, <2>1, TaggedCarried DEF Reading
<1>8. CASE m.kind \notin ListKinds \cup ParamsRequests \cup {"Tagged"}
  BY <1>8, FlatCarried DEF Reading, ListKinds
<1> QED
  BY <1>1, <1>2, <1>3, <1>4, <1>5, <1>6, <1>7, <1>8 DEF ListKinds

-----------------------------------------------------------------------------
(* Encoding once more *)

\* v encodes to what m encoded to.
Again(m, v) ==
  /\ encodable(v) /\ class_of(v) = class_of(m) /\ get_schema(v) = get_schema(m)
  /\ encode_body(v) = encode_body(m)

\* A flat message encodes to what it was decoded from.
LEMMA FlatAgain ==
  ASSUME NEW m, Okay(m), m.kind \notin ListKinds \cup ParamsRequests \cup {"Tagged", "LegacyLeader", "Promote"}
  PROVE  Again(m, FlatRead(m))
<1> DEFINE v == FlatRead(m)
           schema == flat_schema(m)
           xs == flat_fields(m)
           l == flat_layout(m.kind, schema)
<1>1. /\ FlatOkay(m) /\ encode_body(m) = encode_flat(m) /\ get_schema(m) = schema
      /\ schema \in schemas(m.kind) /\ class_of(m) = m.kind
  BY FlatMessages
<1>2. FieldsRead(xs, l) = xs
  BY <1>1, FlatFits
<1>3. v = Flat(m.kind, xs, schema, TRUE)
  BY <1>1, <1>2 DEF FlatRead
<1>4. /\ v.kind = m.kind /\ v.fields = xs /\ v.schema = schema /\ v.decoded = TRUE
      /\ "fields" \in DOMAIN v
  BY <1>3 DEF Flat
<1>5. schema \in {0, 1}
  BY <1>1 DEF schemas
<1>6. fields_encodable(xs, l) /\ (m.kind = "LeaderResponse" => leader_atomic(m.fields))
  BY <1>1 DEF FlatOkay, flat_encodable
<1>7. m.kind = "StmtResponse" /\ schema = 1 => Len(xs) = 4
  <2> SUFFICES ASSUME m.kind = "StmtResponse", schema = 1 PROVE Len(xs) = 4
    OBVIOUS
  <2>1. l = StmtResponse(1)
    BY DEF flat_layout, WordRequests, NodeAddressRequests
  <2>2. Len(StmtResponse(1)) = 4
    BY StmtLayout DEF StmtResponse
  <2> HIDE DEF xs, l
  <2> QED
    BY <1>6, <2>1, <2>2 DEF fields_encodable
<1>8. m.kind = "LeaderResponse" => xs = m.fields
  BY DEF flat_fields
<1> HIDE DEF v, schema, xs, l
<1>9. flat_schema(v) = schema
  BY <1>4, <1>5, NoneAssumption DEF flat_schema
<1>10. flat_fields(v) = xs
  <2>1. ~(v.kind = "StmtResponse" /\ v.schema = 1 /\ Len(v.fields) = 3)
    BY <1>4, <1>7
  <2> QED
    BY <1>4, <2>1, Zenon DEF flat_fields
<1>11. get_schema(v) = schema
  BY <1>4, <1>9 DEF get_schema
<1>12. flat_encodable(v)
  <2>1. fields_encodable(flat_fields(v), flat_layout(v.kind, flat_schema(v)))
    BY <1>4, <1>6, <1>9, <1>10 DEF l
  <2>2. v.kind = "LeaderResponse" => leader_atomic(v.fields)
    BY <1>4, <1>6, <1>8
  <2> QED
    BY <1>1, <1>4, <1>9, <2>1, <2>2 DEF flat_encodable, cluster_format_ok
<1>13. encodable(v)
  BY <1>4, <1>12 DEF encodable, ListKinds
<1>14. encode_body(v) = encode_flat(v)
  BY <1>4 DEF encode_body, ListKinds
<1>15. encode_flat(v) = encode_flat(m)
  BY <1>4, <1>9, <1>10 DEF encode_flat, xs, schema
<1>16. class_of(v) = m.kind
  BY <1>4 DEF class_of, ListKinds
<1> QED
  BY <1>1, <1>11, <1>13, <1>14, <1>15, <1>16 DEF Again, v

\* So does a statement request.
LEMMA StatementAgain ==
  ASSUME NEW m, Okay(m), m.kind \in ParamsRequests
  PROVE  Again(m, StatementRead(m))
<1> DEFINE v == StatementRead(m)
           schema == params_schema(m)
<1>0. m.kind \notin ListKinds /\ m.kind \notin {"Tagged", "LegacyLeader", "Promote"}
  BY ClassNames DEF ListKinds
<1>1. StatementOkay(m) /\ schema \in {0, 1}
  BY StatementCarried, StatementRoundTrip
<1>2. /\ v.kind = m.kind /\ v.prefix = m.prefix /\ v.params = m.params
      /\ v.decoded_schema = schema /\ v.decoded_empty_header = m.decoded_empty_header
  BY DEF StatementRead, Statement
<1>3. statement_encodable(m)
  BY <1>1 DEF StatementOkay
<1> HIDE DEF v, schema
<1>4. params_schema(v) = schema
  BY <1>1, <1>2, NoneAssumption DEF params_schema
<1>5. statement_encodable(v) /\ encode_statement(v) = encode_statement(m)
  <2>1. params_schema(v) = params_schema(m)
    BY <1>4 DEF schema
  <2> QED
    BY <1>2, <1>3, <2>1 DEF statement_encodable, encode_statement, WithParams
<1>6. encodable(v)
  BY <1>0, <1>2, <1>5 DEF encodable, ListKinds
<1>7. encode_body(v) = encode_statement(v) /\ encode_body(m) = encode_statement(m)
  BY <1>0, <1>2 DEF encode_body, ListKinds
<1>8. class_of(v) = m.kind /\ class_of(m) = m.kind
  BY <1>0, <1>2 DEF class_of, ListKinds
<1>9. get_schema(v) = schema /\ get_schema(m) = schema
  BY <1>2, <1>4 DEF get_schema, schema
<1> QED
  BY <1>5, <1>6, <1>7, <1>8, <1>9 DEF Again, v
\* The types a decoded row was read under are those it is written with.
LEMMA RowTypesKept ==
  ASSUME NEW xs, NEW types, ValuesFit(xs, types)
  PROVE  LET ys == AllAsRead(xs, types) IN
         /\ Len(ys) = Len(types) /\ DOMAIN ys = DOMAIN xs
         /\ [c \in DOMAIN types |-> IF ys[c].py = "None" THEN NULL ELSE types[c]] = types
         /\ row_encodable(ys, types)
         /\ encode_row_values(ys, types) = encode_row_values(xs, types)
<1> DEFINE N == Len(xs)
           ys == AllAsRead(xs, types)
<1>1. /\ N \in Nat /\ DOMAIN xs = 1..N /\ Len(types) = N /\ types \in Seq(ValueType)
      /\ \A i \in 1..N : types[i] \in ValueType /\ xs[i] \in PyValues /\ value_encodable(xs[i], types[i])
  BY Items DEF ValuesFit
<1>2. ys = [i \in 1..N |-> AsRead(xs[i], types[i])]
  BY DEF AllAsRead
<1>3. Len(ys) = N /\ DOMAIN ys = 1..N /\ \A i \in 1..N : ys[i] = AsRead(xs[i], types[i])
  BY <1>1, <1>2
<1>4. \A i \in 1..N : /\ value_encodable(ys[i], types[i])
                      /\ encode_value(ys[i], types[i]) = encode_value(xs[i], types[i])
                      /\ (ys[i].py = "None" <=> types[i] = NULL)
  BY <1>1, <1>3, AsReadFacts
<1> HIDE DEF ys
<1>5. [c \in DOMAIN types |-> IF ys[c].py = "None" THEN NULL ELSE types[c]] = types
  <2>1. DOMAIN types = 1..N /\ types = [c \in 1..N |-> types[c]]
    BY <1>1
  <2>2. \A c \in 1..N : (IF ys[c].py = "None" THEN NULL ELSE types[c]) = types[c]
    BY <1>4
  <2> QED
    BY <2>1, <2>2
<1>6. row_encodable(ys, types)
  BY <1>1, <1>3, <1>4 DEF row_encodable
<1>7. [i \in DOMAIN ys |-> encode_value(ys[i], types[i])] = [i \in DOMAIN xs |-> encode_value(xs[i], types[i])]
  BY <1>1, <1>3, <1>4
<1>8. encode_row_values(ys, types) = encode_row_values(xs, types)
  BY <1>7 DEF encode_row_values
<1> QED
  BY <1>1, <1>3, <1>5, <1>6, <1>8 DEF ys

\* So does a rows response.
LEMMA RowsAgain ==
  ASSUME NEW m, Okay(m), m.kind = "RowsResponse"
  PROVE  Again(m, RowsRead(m))
<1> DEFINE v == RowsRead(m)
           rows == m.rows
           types == RowTypesOf(m)
           names == m.column_names
           K == Len(rows)
           N == Len(names)
<1>0. m.kind \notin ParamsRequests
  BY ClassNames
<1>1. RowsOkay(m) /\ RowsSent(names, rows, types, m.has_more)
  BY RowsCarried, RowsBodyRoundTrip
<1>2. /\ v.kind = "RowsResponse" /\ v.column_names = names /\ v.has_more = m.has_more
      /\ v.rows = AllRowsRead(rows, types) /\ v.row_types = types
      /\ v.column_types = (IF rows = <<>> THEN <<>> ELSE types[1]) /\ "fields" \notin DOMAIN v
  BY DEF RowsRead, RowsReading, Rows
<1>3. /\ N <= MAX_COLUMN_COUNT /\ (N = 0 => rows = <<>>)
      /\ \A c \in DOMAIN names : text_encodable(names[c], MAX_COLUMN_NAME_SIZE)
  BY <1>1 DEF RowsOkay, rows_encodable
<1>4. /\ K \in Nat /\ DOMAIN rows = 1..K /\ IsSequence(rows) /\ IsSequence(types) /\ Len(types) = K
      /\ \A i \in 1..K : ValuesFit(rows[i], types[i]) /\ Len(types[i]) = N
  BY <1>1, Items DEF RowsSent, RowsFit, RowFits
<1>5. \A i \in 1..K : types[i] = get_row_types(m, i)
  BY <1>4 DEF RowTypesOf
<1> HIDE DEF v, types, rows, names
<1>6. rows = <<>> <=> K = 0
  BY <1>4, EmptyIffLength
<1>7. v.rows = [i \in 1..K |-> AllAsRead(rows[i], types[i])]
  BY <1>2 DEF AllRowsRead
<1>8. Len(v.rows) = K /\ DOMAIN v.rows = 1..K /\ \A i \in 1..K : v.rows[i] = AllAsRead(rows[i], types[i])
  BY <1>4, <1>7
<1>9. K = 0 => v.rows = <<>>
  BY <1>7
<1>10. K # 0 => types # <<>> /\ v.column_types = types[1] /\ Len(types[1]) = N
  BY <1>2, <1>4, <1>6, EmptyIffLength
<1>11. ASSUME NEW i \in 1..K
       PROVE  /\ get_row_types(v, i) = types[i] /\ Len(v.rows[i]) = N
              /\ row_encodable(v.rows[i], types[i])
              /\ encode_row_values(v.rows[i], types[i]) = encode_row_values(rows[i], types[i])
  <2>1. ValuesFit(rows[i], types[i]) /\ v.rows[i] = AllAsRead(rows[i], types[i]) /\ Len(types[i]) = N
    BY <1>4, <1>8
  <2>2. /\ Len(v.rows[i]) = N /\ row_encodable(v.rows[i], types[i])
        /\ [c \in DOMAIN types[i] |-> IF v.rows[i][c].py = "None" THEN NULL ELSE types[i][c]] = types[i]
        /\ encode_row_values(v.rows[i], types[i]) = encode_row_values(rows[i], types[i])
    BY <2>1, RowTypesKept
  <2>3. types # <<>>
    BY <1>4, <1>10
  <2>4. get_row_types(v, i) = [c \in DOMAIN types[i] |-> IF v.rows[i][c].py = "None" THEN NULL ELSE types[i][c]]
    BY <1>2, <2>3 DEF get_row_types
  <2> QED
    BY <2>2, <2>4
<1>12. rows_encodable(v)
  <2>1. N = 0 => v.rows = <<>>
    BY <1>3, <1>6, <1>9
  <2>2. v.column_types # <<>> => Len(v.column_types) = N
    BY <1>2, <1>6, <1>10
  <2>3. \A i \in DOMAIN v.rows :
          /\ Len(v.rows[i]) = N
          /\ v.row_types # <<>> => Len(v.row_types[i]) = N
          /\ row_encodable(v.rows[i], get_row_types(v, i))
    BY <1>2, <1>4, <1>8, <1>11
  <2> QED
    BY <1>2, <1>3, <1>4, <1>8, <2>1, <2>2, <2>3 DEF rows_encodable
<1>13. encode_rows(v) = encode_rows(m)
  <2> DEFINE part(x, i) == encode_row_header(get_row_types(x, i)) \o encode_row_values(x.rows[i], get_row_types(x, i))
  <2>1. \A i \in 1..K : part(v, i) = part(m, i)
    BY <1>5, <1>11 DEF rows
  <2>2. DOMAIN v.rows = DOMAIN m.rows /\ DOMAIN v.rows = 1..K
    BY <1>4, <1>8 DEF rows
  <2> HIDE DEF part
  <2>3. [i \in DOMAIN v.rows |-> part(v, i)] = [i \in DOMAIN m.rows |-> part(m, i)]
    BY <2>1, <2>2
  <2> QED
    BY <1>2, <2>3 DEF encode_rows, part, names
<1>14. encodable(v) /\ encode_body(v) = encode_rows(v) /\ encode_body(m) = encode_rows(m)
  BY <1>0, <1>2, <1>12 DEF encodable, encode_body
<1>15. class_of(v) = "RowsResponse" /\ class_of(m) = "RowsResponse"
  BY <1>2 DEF class_of
<1>16. get_schema(v) = 0 /\ get_schema(m) = 0
  <2>1. DOMAIN Rows(m.column_names, m.column_types, m.row_types, m.rows, m.has_more)
          = {"kind", "column_names", "column_types", "row_types", "rows", "has_more"}
    BY DEF Rows
  <2>3. m = Rows(m.column_names, m.column_types, m.row_types, m.rows, m.has_more)
    BY <1>1 DEF RowsOkay, rows_typed
  <2>2. "fields" \notin DOMAIN m
    BY <2>1, <2>3
  <2> QED
    BY <1>0, <1>2, <2>2 DEF get_schema
<1> QED
  BY <1>13, <1>14, <1>15, <1>16 DEF Again, v

\* What a reader gets encodes to the frame it came in.
THEOREM EncodedAgain ==
  ASSUME NEW m, Okay(m),
         m.kind \notin {"HalfRows", "Tagged", "FailureResponse", "LegacyLeader", "Promote"}
  PROVE  encode_message(Reading(m)) = encode_message(m)
<1>1. Again(m, Reading(m))
  <2>1. CASE m.kind = "RowsResponse"
    BY <2>1, RowsAgain DEF Reading
  <2>2. CASE m.kind \in {"FilesResponse", "ServersResponse"}
    BY <2>2 DEF Reading, Again, Okay
  <2>3. CASE m.kind \in ParamsRequests
    <3>1. m.kind \notin ListKinds
      BY <2>3, ClassNames DEF ListKinds
    <3> QED
      BY <2>3, <3>1, StatementAgain DEF Reading, ListKinds
  <2>4. CASE m.kind \notin ListKinds \cup ParamsRequests \cup {"Tagged"}
    BY <2>4, FlatAgain DEF Reading, ListKinds
  <2> QED
    BY <2>1, <2>2, <2>3, <2>4 DEF ListKinds
<1> QED
  BY <1>1 DEF Again, encode_message, Okay

-----------------------------------------------------------------------------
(* Bytes *)

\* A header is bytes when what it holds fits them.
LEMMA HeaderBytes ==
  ASSUME NEW words \in Nat, NEW code \in 0..(BYTE - 1), NEW schema \in 0..(BYTE - 1)
  PROVE  Header(words, code, schema) \in Bytes
<1> DEFINE S == 0..(BYTE - 1)
           a == LittleEndian(words, UINT32_SIZE)
           b == <<code, schema>>
           c == Zeros(HEADER_SIZE - UINT32_SIZE - 2)
<1>0. 0 \in S
  BY DEF BYTE
<1>1. a \in Seq(S)
  BY LittleEndianBytes, WireSizes
<1> HIDE DEF S
<1>2. b \in Seq(S)
  BY DEF S
<1>3. c \in Seq(S)
  <2>1. HEADER_SIZE - UINT32_SIZE - 2 \in Nat
    BY WireSizes
  <2> QED
    BY <1>0, <2>1 DEF Zeros
<1> HIDE DEF a, b, c
<1>4. a \o b \in Seq(S)
  BY <1>1, <1>2, Joined, Zenon
<1> DEFINE e == a \o b
<1> HIDE DEF e
<1>5. e \o c \in Seq(S)
  BY <1>3, <1>4, Joined, Zenon DEF e
<1> QED
  BY <1>5 DEF Header, Bytes, S, a, b, c, e

\* The numbers of the types fit in a byte.
LEMMA TypeBytes ==
  ASSUME NEW c \in Classes
  PROVE  MSG_TYPE(c) \in 0..(BYTE - 1)
  BY DEF Classes, MSG_TYPE, is_request_class, RequestType, ResponseType, BYTE

\* What is sent are bytes, a header's or more.
LEMMA FrameIsBytes ==
  ASSUME NEW m, NEW v, Carried(m, v), encode_message(m).ok
  PROVE  encode_message(m).val \in Bytes
<1> DEFINE body == encode_body(m)
           words == Len(body) \div WORD_SIZE
           code == MSG_TYPE(class_of(m))
           schema == get_schema(m)
           h == Header(words, code, schema)
<1>1. WholeWords(body) /\ schema \in 0..1 /\ class_of(m) \in Classes
  BY DEF Carried, schemas
<1>2. body \in Bytes /\ words \in Nat
  BY <1>1, WordsCounted
<1>3. code \in 0..(BYTE - 1) /\ schema \in 0..(BYTE - 1)
  BY <1>1, TypeBytes DEF BYTE
<1>4. h \in Bytes
  BY <1>2, <1>3, HeaderBytes
<1>5. encode_message(m).val = h \o body
  BY DEF encode_message, FrameOf, Got, Fail
<1> HIDE DEF h, body
<1>6. h \o body \in Bytes
  BY <1>2, <1>4, Joined DEF Bytes
<1> QED
  BY <1>5, <1>6

\* What is behind an offset in the first of two sequences.
LEMMA FromFront ==
  ASSUME NEW S, NEW s \in Seq(S), NEW t \in Seq(S), NEW a \in 0..Len(s)
  PROVE  From(s \o t, a) = From(s, a) \o t /\ From(s, a) \in Seq(S)
<1> DEFINE n == Len(s)
           k == Len(t)
           d == s \o t
           p == From(s, a)
<1>1. n \in Nat /\ k \in Nat /\ a \in Nat /\ a <= n /\ n - a \in Nat
  BY LenProperties
<1>2. /\ d \in Seq(S) /\ Len(d) = n + k
      /\ \A i \in 1..(n + k) : d[i] = IF i <= n THEN s[i] ELSE t[i - n]
  BY ConcatProperties
<1>3. p \in Seq(S) /\ Len(p) = n - a /\ \A i \in 1..(n - a) : p[i] = s[a + i]
  BY FromFacts
<1> DEFINE e == From(d, a)
<1> HIDE DEF d, p, n, k
<1>4. a \in 0..Len(d)
  BY <1>1, <1>2
<1>5. e \in Seq(S) /\ Len(e) = (n + k) - a /\ \A i \in 1..((n + k) - a) : e[i] = d[a + i]
  <2>1. From(d, a) \in Seq(S) /\ Len(From(d, a)) = Len(d) - a
        /\ \A i \in 1..(Len(d) - a) : From(d, a)[i] = d[a + i]
    BY <1>2, <1>4, FromFacts
  <2> QED
    BY <1>2, <2>1
<1>6. /\ p \o t \in Seq(S) /\ Len(p \o t) = (n - a) + k
      /\ \A i \in 1..((n - a) + k) : (p \o t)[i] = IF i <= n - a THEN p[i] ELSE t[i - (n - a)]
  <2>1. /\ p \o t \in Seq(S) /\ Len(p \o t) = Len(p) + Len(t)
        /\ \A i \in 1..(Len(p) + Len(t)) : (p \o t)[i] = IF i <= Len(p) THEN p[i] ELSE t[i - Len(p)]
    BY <1>3, ConcatProperties, Zenon
  <2> QED
    BY <1>3, <2>1 DEF k
<1> DEFINE q == p \o t
<1> HIDE DEF e, q
<1>7. \A i \in 1..Len(e) : e[i] = q[i]
  <2> SUFFICES ASSUME NEW i \in 1..Len(e) PROVE e[i] = q[i]
    OBVIOUS
  <2>1. i \in 1..((n + k) - a) /\ i \in 1..((n - a) + k) /\ a + i \in 1..(n + k)
    BY <1>1, <1>5
  <2>2. e[i] = IF a + i <= n THEN s[a + i] ELSE t[(a + i) - n]
    BY <1>2, <1>5, <2>1
  <2>3. q[i] = IF i <= n - a THEN p[i] ELSE t[i - (n - a)]
    BY <1>6, <2>1 DEF q
  <2>4. CASE i <= n - a
    <3>1. i \in 1..(n - a) /\ a + i <= n
      BY <1>1, <2>1, <2>4
    <3> QED
      BY <1>3, <2>2, <2>3, <2>4, <3>1
  <2>5. CASE ~(i <= n - a)
    <3>1. ~(a + i <= n) /\ (a + i) - n = i - (n - a)
      BY <1>1, <2>1, <2>5
    <3> QED
      BY <2>2, <2>3, <2>5, <3>1
  <2> QED
    BY <2>4, <2>5
<1>8. Len(e) = Len(q) /\ q \in Seq(S)
  BY <1>1, <1>5, <1>6 DEF q
<1>9. e = q
  BY <1>5, <1>7, <1>8, SeqEqual
<1> QED
  BY <1>3, <1>9 DEF e, q, d, p
=============================================================================
