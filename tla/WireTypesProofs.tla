--------------------------- MODULE WireTypesProofs ---------------------------
(***************************************************************************)
(* Facts about the primitive encodings for all sizes of words, probes and  *)
(* chunks: the two ways through decode_text agree, and every value decodes *)
(* to itself.                                                              *)
(***************************************************************************)
EXTENDS WireTypes, NatSets, SequenceTheorems

\* k is the index of the first NUL in d[from:to], or -1 if there is none.
First(d, from, to, k) ==
  IF \E i \in from..(to - 1) : d[i + 1] = 0
  THEN /\ k \in from..(to - 1) /\ d[k + 1] = 0
       /\ \A i \in from..(k - 1) : d[i + 1] # 0
  ELSE k = -1

\* FindNul finds the first NUL of its window.
LEMMA FindNulFirst ==
  ASSUME NEW d, NEW from \in Nat, NEW to \in Nat
  PROVE  First(d, from, to, FindNul(d, from, to))
<1> DEFINE I == {i \in (from + 1)..to : d[i] = 0}
<1>1. FindNul(d, from, to) = (IF I # {} THEN Min(I) ELSE 0) - 1
  BY DEF FindNul, SelectInSubSeq
<1>2. CASE I = {}
  <2>1. \A i \in from..(to - 1) : i + 1 \in (from + 1)..to
    OBVIOUS
  <2>2. \A i \in from..(to - 1) : d[i + 1] # 0
    BY <1>2, <2>1
  <2> QED
    BY <1>1, <1>2, <2>2 DEF First
<1>3. CASE I # {}
  <2>1. I \subseteq Nat
    OBVIOUS
  <2>2. PICK m \in I : \A j \in I : m <= j
    BY <1>3, <2>1, LeastMember
  <2>3. Min(I) \in I /\ \A j \in I : Min(I) <= j
    BY <2>2 DEF Min
  <2> DEFINE k == Min(I) - 1
  <2>4. FindNul(d, from, to) = k
    BY <1>1, <1>3
  <2> HIDE DEF k
  <2>5. k \in from..(to - 1) /\ d[k + 1] = 0
    BY <2>3 DEF k
  <2>6. ASSUME NEW i \in from..(k - 1) PROVE d[i + 1] # 0
    <3>1. i + 1 \in (from + 1)..to /\ i + 1 < Min(I)
      BY <2>3 DEF k
    <3> QED
      BY <2>3, <3>1
  <2> QED
    BY <2>4, <2>5, <2>6 DEF First
<1> QED
  BY <1>2, <1>3

\* The first NUL of a window is determined by the window.
LEMMA FirstUnique ==
  ASSUME NEW d, NEW from \in Nat, NEW to \in Nat,
         NEW j, NEW k, First(d, from, to, j), First(d, from, to, k)
  PROVE  j = k
<1>1. CASE \E i \in from..(to - 1) : d[i + 1] = 0
  <2>1. /\ j \in from..(to - 1) /\ d[j + 1] = 0 /\ \A i \in from..(j - 1) : d[i + 1] # 0
        /\ k \in from..(to - 1) /\ d[k + 1] = 0 /\ \A i \in from..(k - 1) : d[i + 1] # 0
    BY <1>1 DEF First
  <2>2. ~(j < k) /\ ~(k < j)
    BY <2>1
  <2> QED
    BY <2>1, <2>2
<1> QED
  BY <1>1 DEF First

\* A window searched first, and then one that starts inside it or at its end
\* and reaches further, are searched as one.
LEMMA FirstOfTwo ==
  ASSUME NEW d, NEW from \in Nat, NEW mid \in Nat, NEW border \in Nat, NEW to \in Nat,
         from <= mid, mid <= border, border <= to,
         NEW j, NEW k, First(d, from, border, j), First(d, mid, to, k)
  PROVE  First(d, from, to, OrIn(j, k))
<1>1. CASE \E i \in from..(border - 1) : d[i + 1] = 0
  <2>1. j \in from..(border - 1) /\ d[j + 1] = 0 /\ \A i \in from..(j - 1) : d[i + 1] # 0
    BY <1>1 DEF First
  <2>2. OrIn(j, k) = j /\ j \in from..(to - 1)
    BY <2>1 DEF OrIn
  <2> QED
    BY <2>1, <2>2 DEF First
<1>2. CASE \A i \in from..(border - 1) : d[i + 1] # 0
  <2>1. j = -1 /\ OrIn(j, k) = k
    BY <1>2 DEF First, OrIn
  <2>2. CASE \E i \in mid..(to - 1) : d[i + 1] = 0
    <3>1. k \in mid..(to - 1) /\ d[k + 1] = 0 /\ \A i \in mid..(k - 1) : d[i + 1] # 0
      BY <2>2 DEF First
    <3>2. k \in from..(to - 1) /\ \A i \in from..(k - 1) : d[i + 1] # 0
      <4>1. \A i \in from..(k - 1) : i \in from..(border - 1) \/ i \in mid..(k - 1)
        BY <3>1
      <4> QED
        BY <1>2, <3>1, <4>1
    <3> QED
      BY <2>1, <3>1, <3>2 DEF First
  <2>3. CASE \A i \in mid..(to - 1) : d[i + 1] # 0
    <3>1. k = -1
      BY <2>3 DEF First
    <3>2. \A i \in from..(to - 1) : i \in from..(border - 1) \/ i \in mid..(to - 1)
      OBVIOUS
    <3> QED
      BY <1>2, <2>1, <2>3, <3>1, <3>2 DEF First
  <2> QED
    BY <2>2, <2>3
<1> QED
  BY <1>1, <1>2

-----------------------------------------------------------------------------
(* The chunked scan *)

ChunkEnd(at, limit) == Smaller(at + TEXT_SCAN_CHUNK, limit)

\* f satisfies the recursive definition of the scan.
IsScan(f, d, from, limit) ==
  f = [at \in from..limit |->
         IF at >= limit THEN -1
         ELSE OrIn(FindNul(d, at, ChunkEnd(at, limit)), f[ChunkEnd(at, limit)])]

Scan(d, from, limit) == CHOOSE f : IsScan(f, d, from, limit)

LEMMA ScanIs ==
  ASSUME NEW d, NEW from, NEW limit
  PROVE  ScanChunks(d, from, limit) = Scan(d, from, limit)[from]
  BY DEF ScanChunks, Scan, IsScan, ChunkEnd

LEMMA ChunkEndFacts ==
  ASSUME NEW at \in Nat, NEW limit \in Nat, at < limit
  PROVE  ChunkEnd(at, limit) \in (at + 1)..limit
  BY WireSizesAssumption DEF ChunkEnd, Smaller

\* There is a function that satisfies the definition of the scan: the one that
\* gives the first NUL behind each index.
LEMMA ScanExists ==
  ASSUME NEW d, NEW from \in Nat, NEW limit \in Nat
  PROVE  \E f : IsScan(f, d, from, limit)
<1> DEFINE f == [at \in from..limit |-> FindNul(d, at, limit)]
<1>1. ASSUME NEW at \in from..limit
      PROVE  f[at] = IF at >= limit THEN -1
                     ELSE OrIn(FindNul(d, at, ChunkEnd(at, limit)), f[ChunkEnd(at, limit)])
  <2>0. at \in Nat
    OBVIOUS
  <2>1. First(d, at, limit, f[at])
    BY <2>0, FindNulFirst
  <2>2. CASE at >= limit
    BY <2>0, <2>1, <2>2 DEF First
  <2>3. CASE at < limit
    <3> DEFINE e == ChunkEnd(at, limit)
    <3>1. e \in (at + 1)..limit
      BY <2>0, <2>3, ChunkEndFacts
    <3> HIDE DEF e
    <3>2. First(d, at, e, FindNul(d, at, e)) /\ First(d, e, limit, f[e])
      BY <2>0, <3>1, FindNulFirst
    <3> HIDE DEF f
    <3>3. First(d, at, limit, OrIn(FindNul(d, at, e), f[e]))
      BY <2>0, <3>1, <3>2, FirstOfTwo
    <3>4. f[at] = OrIn(FindNul(d, at, e), f[e])
      BY <2>0, <2>1, <3>3, FirstUnique
    <3> QED
      BY <2>0, <2>3, <3>4 DEF e
  <2> QED
    BY <2>0, <2>2, <2>3
<1>2. f = [at \in from..limit |->
             IF at >= limit THEN -1
             ELSE OrIn(FindNul(d, at, ChunkEnd(at, limit)), f[ChunkEnd(at, limit)])]
  BY <1>1
<1> HIDE DEF f
<1> QED
  BY <1>2 DEF IsScan

\* The chunks leave no byte out and none comes too early: the scan finds the
\* first NUL between its bounds, by induction on the bytes left to scan.
LEMMA ScanFirst ==
  ASSUME NEW d, NEW from \in Nat, NEW limit \in Nat, from <= limit
  PROVE  First(d, from, limit, ScanChunks(d, from, limit))
<1> DEFINE f == Scan(d, from, limit)
           Right(at) == First(d, at, limit, f[at])
           S == {n \in Nat : \A at \in from..limit : limit - at <= n => Right(at)}
<1>1. IsScan(f, d, from, limit)
  BY ScanExists DEF Scan
<1> HIDE DEF f
<1>2. ASSUME NEW at \in from..limit, at >= limit PROVE Right(at)
  <2>1. f[at] = -1 /\ at = limit
    BY <1>1, <1>2 DEF IsScan
  <2> QED
    BY <2>1 DEF First
<1>3. ASSUME NEW at \in from..limit, at < limit PROVE
        /\ ChunkEnd(at, limit) \in (at + 1)..limit
        /\ Right(ChunkEnd(at, limit)) => Right(at)
  <2> DEFINE e == ChunkEnd(at, limit)
  <2>1. f[at] = OrIn(FindNul(d, at, e), f[e])
    BY <1>1, <1>3 DEF IsScan
  <2>2. e \in (at + 1)..limit /\ at \in Nat
    BY <1>3, ChunkEndFacts
  <2> HIDE DEF e
  <2>3. First(d, at, e, FindNul(d, at, e))
    BY <2>2, FindNulFirst
  <2>4. Right(e) => Right(at)
    BY <2>1, <2>2, <2>3, FirstOfTwo
  <2> QED
    BY <2>2, <2>4 DEF e
<1>4. 0 \in S
  BY <1>2
<1>5. ASSUME NEW n \in Nat, n \in S PROVE n + 1 \in S
  <2>1. ASSUME NEW at \in from..limit, limit - at <= n + 1 PROVE Right(at)
    <3>1. CASE at < limit
      <4>1. ChunkEnd(at, limit) \in from..limit /\ limit - ChunkEnd(at, limit) <= n
        BY <1>3, <2>1, <3>1
      <4> QED
        BY <1>3, <1>5, <3>1, <4>1
    <3> QED
      BY <1>2, <3>1
  <2> QED
    BY <2>1
<1> HIDE DEF S
<1>6. limit - from \in S
  BY <1>4, <1>5, SetInduction
<1>7. Right(from)
  BY <1>6 DEF S
<1> QED
  BY <1>7, ScanIs DEF f

-----------------------------------------------------------------------------
(* Both ways find the same terminator *)

\* A memoryview decodes as the same bytes do, whatever the sizes of the probes
\* and chunks.
THEOREM ViewIsBytes ==
  ASSUME NEW S, NEW d \in Seq(S), NEW cap \in Nat
  PROVE  decode_text_view(d, cap) = decode_text(d, cap)
<1> DEFINE limit == Smaller(Len(d), cap + 1)
           short == Smaller(limit, TEXT_SHORT_PROBE)
           probe == Smaller(limit, TEXT_ONE_SHOT_MAX)
           hopeless(window) == window >= cap + 1 \/ window >= Len(d)
           in_chunks == IF hopeless(probe) THEN -1 ELSE ScanChunks(d, probe, limit)
           in_probe == IF hopeless(short) THEN -1 ELSE OrIn(FindNul(d, 0, probe), in_chunks)
           nul == OrIn(FindNul(d, 0, short), in_probe)
<1>1. decode_text_view(d, cap) = TextEndingAt(d, nul)
  BY DEF decode_text_view
<1>2. decode_text(d, cap) = TextEndingAt(d, FindNul(d, 0, limit))
  BY DEF decode_text
<1>3. /\ limit \in Nat /\ short \in Nat /\ probe \in Nat
      /\ short <= probe /\ probe <= limit
      /\ hopeless(short) <=> short = limit
      /\ hopeless(probe) <=> probe = limit
  BY WireSizesAssumption DEF Smaller
<1> HIDE DEF limit, short, probe, hopeless
<1>4. First(d, 0, limit, FindNul(d, 0, limit)) /\ First(d, 0, short, FindNul(d, 0, short))
      /\ First(d, 0, probe, FindNul(d, 0, probe))
  BY <1>3, FindNulFirst
<1>5. First(d, 0, limit, OrIn(FindNul(d, 0, probe), in_chunks))
  <2>1. First(d, probe, limit, in_chunks)
    <3>1. CASE probe = limit
      BY <1>3, <3>1 DEF First
    <3>2. CASE probe # limit
      BY <1>3, <3>2, ScanFirst
    <3> QED
      BY <3>1, <3>2
  <2> QED
    BY <1>3, <1>4, <2>1, FirstOfTwo
<1>6. First(d, 0, limit, nul)
  <2>1. CASE short = limit
    <3>1. nul = FindNul(d, 0, short)
      BY <1>3, <1>4, <2>1 DEF First, OrIn
    <3> QED
      BY <1>4, <2>1, <3>1
  <2>2. CASE short # limit
    <3>1. in_probe = OrIn(FindNul(d, 0, probe), in_chunks)
      BY <1>3, <2>2
    <3> QED
      BY <1>3, <1>4, <1>5, <3>1, FirstOfTwo
  <2> QED
    BY <2>1, <2>2
<1>7. nul = FindNul(d, 0, limit)
  BY <1>3, <1>4, <1>6, FirstUnique
<1> QED
  BY <1>1, <1>2, <1>7

-----------------------------------------------------------------------------
(* Padding *)

LEMMA Division ==
  ASSUME NEW n \in Nat
  PROVE  /\ n \div WORD_SIZE \in Nat /\ n % WORD_SIZE \in 0..(WORD_SIZE - 1)
         /\ n = WORD_SIZE * (n \div WORD_SIZE) + (n % WORD_SIZE)
  BY WireSizesAssumption

\* Padding leads to the next multiple of the word size, and there is only one
\* among WORD_SIZE consecutive numbers.
LEMMA Padding ==
  ASSUME NEW size \in Nat
  PROVE  /\ pad_to_word(size) \in 0..(WORD_SIZE - 1)
         /\ (size + pad_to_word(size)) % WORD_SIZE = 0
         /\ \E words \in 0..(size + pad_to_word(size)) :
              words * WORD_SIZE = size + pad_to_word(size)
         /\ \A words \in Nat : words * WORD_SIZE \in size..(size + WORD_SIZE - 1) =>
              words * WORD_SIZE = size + pad_to_word(size)
<1> DEFINE q == size \div WORD_SIZE
           r == size % WORD_SIZE
           w == IF r = 0 THEN q ELSE q + 1
<1>1. q \in Nat /\ r \in 0..(WORD_SIZE - 1) /\ size = WORD_SIZE * q + r
  BY Division
<1>2. pad_to_word(size) = IF r = 0 THEN 0 ELSE WORD_SIZE - r
  BY DEF pad_to_word
<1> HIDE DEF q, r
<1>3. w \in Nat /\ w * WORD_SIZE = size + pad_to_word(size)
  BY <1>1, <1>2, WireSizesAssumption
<1>4. pad_to_word(size) \in 0..(WORD_SIZE - 1)
  BY <1>1, <1>2, WireSizesAssumption
<1> HIDE DEF w
<1>5. (w * WORD_SIZE) % WORD_SIZE = 0
  <2> DEFINE p == w * WORD_SIZE
             whole == p \div WORD_SIZE
             rest == p % WORD_SIZE
  <2>0. p \in Nat /\ p = w * WORD_SIZE
    BY <1>3, WireSizesAssumption
  <2> HIDE DEF p
  <2>1. whole \in Nat /\ rest \in 0..(WORD_SIZE - 1) /\ p = WORD_SIZE * whole + rest
    BY <2>0, Division
  <2> HIDE DEF whole, rest
  <2>2. CASE w >= whole + 1
    <3>1. w * WORD_SIZE >= (whole + 1) * WORD_SIZE
      BY <1>3, <2>1, <2>2, WireSizesAssumption
    <3> QED
      BY <1>3, <2>0, <2>1, <3>1, WireSizesAssumption
  <2>3. CASE w <= whole
    <3>1. w * WORD_SIZE <= whole * WORD_SIZE
      BY <1>3, <2>1, <2>3, WireSizesAssumption
    <3>2. rest = 0
      BY <1>3, <2>0, <2>1, <3>1, WireSizesAssumption
    <3> QED
      BY <3>2 DEF rest, p
  <2> QED
    BY <1>3, <2>1, <2>2, <2>3
<1>6. w <= w * WORD_SIZE
  BY <1>3, WireSizesAssumption
<1>7. ASSUME NEW words \in Nat, words * WORD_SIZE \in size..(size + WORD_SIZE - 1)
      PROVE  words = w
  <2>1. words * WORD_SIZE - w * WORD_SIZE < WORD_SIZE /\ w * WORD_SIZE - words * WORD_SIZE < WORD_SIZE
    BY <1>3, <1>4, <1>7, WireSizesAssumption
  <2>2. CASE words >= w + 1
    <3>1. words * WORD_SIZE >= (w + 1) * WORD_SIZE
      BY <1>3, <2>2, WireSizesAssumption
    <3> QED
      BY <1>3, <2>1, <3>1, WireSizesAssumption
  <2>3. CASE w >= words + 1
    <3>1. w * WORD_SIZE >= (words + 1) * WORD_SIZE
      BY <1>3, <2>3, WireSizesAssumption
    <3> QED
      BY <1>3, <2>1, <3>1, WireSizesAssumption
  <2> QED
    BY <1>3, <2>2, <2>3
<1> QED
  BY <1>3, <1>4, <1>5, <1>6, <1>7

-----------------------------------------------------------------------------
(* Numbers of several bytes *)

IsCodes(f, size) == f = [i \in 0..size |-> IF i = 0 THEN 1 ELSE BYTE * f[i - 1]]

LEMMA CodesIs ==
  ASSUME NEW size \in Nat
  PROVE  \E f : IsCodes(f, size) /\ Codes(size) = f[size]
<1> DEFINE G == [i \in 1..size |-> [v \in Nat |-> BYTE * v]]
           c == CHOOSE f : IsCodes(f, size)
<1>1. G \in [1..size -> [Nat -> Nat]] /\ \A i \in 1..size, v \in Nat : G[i][v] = BYTE * v
  BY DEF BYTE
<1> HIDE DEF G
<1>2. PICK f \in [0..size -> Nat] : Recurs(f, size, 1, G)
  <2>1. 1 \in Nat
    OBVIOUS
  <2> QED
    BY <1>1, <2>1, RecursionExists, Zenon
<1>3. f[0] = 1 /\ \A i \in 1..size : i - 1 \in 0..size /\ f[i] = BYTE * f[i - 1]
  <2>1. \A i \in 1..size : i - 1 \in 0..size /\ f[i - 1] \in Nat
    BY <1>2
  <2> QED
    BY <1>1, <1>2, <2>1 DEF Recurs
<1>4. IsCodes(f, size)
  BY <1>2, <1>3 DEF IsCodes
<1>5. Codes(size) = c[size]
  BY DEF Codes, IsCodes
<1> QED
  BY <1>4, <1>5

\* Each byte more multiplies what a number can be.
LEMMA CodesFacts ==
  /\ Codes(0) = 1
  /\ \A size \in Nat : Codes(size) \in Nat \ {0} /\ Codes(size + 1) = BYTE * Codes(size)
<1>1. ASSUME NEW size \in Nat, NEW f, IsCodes(f, size), NEW big \in Nat, NEW g, IsCodes(g, big),
             size <= big
      PROVE  \A i \in 0..size : f[i] \in Nat \ {0} /\ f[i] = g[i]
  <2> DEFINE S == {i \in Nat : i <= size => f[i] \in Nat \ {0} /\ f[i] = g[i]}
  <2>1. 0 \in S
    BY <1>1 DEF IsCodes
  <2>2. ASSUME NEW i \in Nat, i \in S PROVE i + 1 \in S
    <3> SUFFICES ASSUME i + 1 <= size PROVE f[i + 1] \in Nat \ {0} /\ f[i + 1] = g[i + 1]
      OBVIOUS
    <3>1. i + 1 \in 0..size /\ i + 1 \in 0..big /\ i + 1 # 0 /\ (i + 1) - 1 = i
      BY <1>1
    <3>2. f[i + 1] = BYTE * f[i] /\ g[i + 1] = BYTE * g[i]
      BY <1>1, <3>1 DEF IsCodes
    <3>3. f[i] \in Nat \ {0} /\ f[i] = g[i]
      BY <2>2
    <3> QED
      BY <3>2, <3>3 DEF BYTE
  <2> HIDE DEF S
  <2>3. \A i \in Nat : i \in S
    BY <2>1, <2>2, SetInduction
  <2> QED
    BY <2>3 DEF S
<1>2. ASSUME NEW size \in Nat
      PROVE  Codes(size) \in Nat \ {0} /\ Codes(size + 1) = BYTE * Codes(size)
  <2>1. PICK f : IsCodes(f, size) /\ Codes(size) = f[size]
    BY CodesIs
  <2>2. PICK g : IsCodes(g, size + 1) /\ Codes(size + 1) = g[size + 1]
    BY CodesIs
  <2>3. size <= size + 1 /\ size \in 0..size /\ size + 1 \in Nat
    OBVIOUS
  <2>4. f[size] \in Nat \ {0} /\ f[size] = g[size]
    BY <1>1, <2>1, <2>2, <2>3
  <2>5. size + 1 \in 0..(size + 1) /\ size + 1 # 0 /\ (size + 1) - 1 = size
    OBVIOUS
  <2>6. g[size + 1] = BYTE * g[size]
    BY <2>2, <2>5 DEF IsCodes
  <2> QED
    BY <2>1, <2>2, <2>4, <2>6
<1>3. Codes(0) = 1
  <2>1. PICK f : IsCodes(f, 0) /\ Codes(0) = f[0]
    BY CodesIs
  <2> QED
    BY <2>1 DEF IsCodes
<1> QED
  BY <1>2, <1>3

\* f[i] is what is left of n without its i lowest bytes.
IsRest(f, n, size) == f = [i \in 0..size |-> IF i = 0 THEN n ELSE f[i - 1] \div BYTE]

LEMMA RestIs ==
  ASSUME NEW n \in Nat, NEW size \in Nat
  PROVE  \E f \in [0..size -> Nat] :
           /\ f[0] = n
           /\ \A i \in 1..size : f[i] = f[i - 1] \div BYTE
           /\ LittleEndian(n, size) = [i \in 1..size |-> f[i - 1] % BYTE]
<1> DEFINE G == [i \in 1..size |-> [v \in Nat |-> v \div BYTE]]
           c == CHOOSE f : IsRest(f, n, size)
<1>1. G \in [1..size -> [Nat -> Nat]] /\ \A i \in 1..size, v \in Nat : G[i][v] = v \div BYTE
  BY DEF BYTE
<1> HIDE DEF G
<1>2. PICK f \in [0..size -> Nat] : Recurs(f, size, n, G)
  <2>1. n \in Nat
    OBVIOUS
  <2> QED
    BY <1>1, <2>1, RecursionExists, Zenon
<1>3. f[0] = n /\ \A i \in 1..size : i - 1 \in 0..size /\ f[i] = f[i - 1] \div BYTE
  <2>1. \A i \in 1..size : i - 1 \in 0..size /\ f[i - 1] \in Nat
    BY <1>2
  <2> QED
    BY <1>1, <1>2, <2>1 DEF Recurs
<1>4. IsRest(f, n, size)
  BY <1>2, <1>3 DEF IsRest
<1>5. IsRest(c, n, size)
  BY <1>4
<1>6. LittleEndian(n, size) = [i \in 1..size |-> c[i - 1] % BYTE]
  BY DEF LittleEndian, IsRest
<1> HIDE DEF c
<1>7. c[0] = n /\ \A i \in 1..size : c[i] = c[i - 1] \div BYTE
  BY <1>5 DEF IsRest
<1>8. \A i \in 0..size : c[i] = f[i]
  <2> DEFINE S == {i \in Nat : i <= size => c[i] = f[i]}
  <2>1. 0 \in S
    BY <1>3, <1>7
  <2>2. ASSUME NEW i \in Nat, i \in S PROVE i + 1 \in S
    <3>1. i + 1 <= size => i + 1 \in 1..size /\ (i + 1) - 1 = i
      OBVIOUS
    <3> QED
      BY <1>3, <1>7, <2>2, <3>1
  <2> HIDE DEF S
  <2>3. \A i \in Nat : i \in S
    BY <2>1, <2>2, SetInduction
  <2> QED
    BY <2>3 DEF S
<1>9. c = f
  BY <1>5, <1>8 DEF IsRest
<1> QED
  BY <1>2, <1>3, <1>6, <1>9

LEMMA BytesAreNumbers ==
  ASSUME NEW b \in Seq(0..(BYTE - 1))
  PROVE  b \in Seq(Nat)
<1>1. 0..(BYTE - 1) \subseteq Nat
  BY DEF BYTE
<1> QED
  BY <1>1, SeqMonotonic, Zenon

\* A number encodes to bytes.
LEMMA LittleEndianBytes ==
  ASSUME NEW n \in Nat, NEW size \in Nat
  PROVE  LittleEndian(n, size) \in Seq(0..(BYTE - 1)) /\ Len(LittleEndian(n, size)) = size
<1>1. PICK f \in [0..size -> Nat] : LittleEndian(n, size) = [i \in 1..size |-> f[i - 1] % BYTE]
  BY RestIs
<1>2. \A i \in 1..size : f[i - 1] \in Nat
  OBVIOUS
<1>3. \A v \in Nat : v % BYTE \in 0..(BYTE - 1)
  BY DEF BYTE
<1>4. \A i \in 1..size : f[i - 1] % BYTE \in 0..(BYTE - 1)
  BY <1>2, <1>3
<1> QED
  BY <1>1, <1>4

\* f[i] is the number that the i highest bytes of b spell.
IsTop(f, b) ==
  f = [i \in 0..Len(b) |-> IF i = 0 THEN 0 ELSE b[Len(b) + 1 - i] + BYTE * f[i - 1]]

LEMMA TopIs ==
  ASSUME NEW b \in Seq(Nat)
  PROVE  \E f \in [0..Len(b) -> Nat] :
           /\ f[0] = 0
           /\ \A i \in 1..Len(b) : f[i] = b[Len(b) + 1 - i] + BYTE * f[i - 1]
           /\ Number(b) = f[Len(b)]
<1> DEFINE size == Len(b)
           G == [i \in 1..size |-> [v \in Nat |-> b[size + 1 - i] + BYTE * v]]
           c == CHOOSE f : IsTop(f, b)
<1>0. size \in Nat /\ \A i \in 1..size : size + 1 - i \in 1..size /\ b[size + 1 - i] \in Nat
  OBVIOUS
<1> HIDE DEF size
<1>1. /\ G \in [1..size -> [Nat -> Nat]]
      /\ \A i \in 1..size, v \in Nat : G[i][v] = b[size + 1 - i] + BYTE * v
  BY <1>0 DEF BYTE
<1> HIDE DEF G
<1>2. PICK f \in [0..size -> Nat] : Recurs(f, size, 0, G)
  <2>1. 0 \in Nat
    OBVIOUS
  <2> QED
    BY <1>0, <1>1, <2>1, RecursionExists, Zenon
<1>3. f[0] = 0 /\ \A i \in 1..size : i - 1 \in 0..size /\ f[i] = b[size + 1 - i] + BYTE * f[i - 1]
  <2>1. \A i \in 1..size : i - 1 \in 0..size /\ f[i - 1] \in Nat
    BY <1>0, <1>2
  <2> QED
    BY <1>1, <1>2, <2>1 DEF Recurs
<1>4. IsTop(f, b)
  <2>1. f = [i \in 0..size |-> IF i = 0 THEN 0 ELSE b[size + 1 - i] + BYTE * f[i - 1]]
    BY <1>0, <1>2, <1>3
  <2> QED
    BY <2>1 DEF IsTop, size
<1>5. IsTop(c, b)
  BY <1>4
<1>6. Number(b) = c[size]
  BY DEF Number, IsTop, size
<1> HIDE DEF c
<1>7. c[0] = 0 /\ \A i \in 1..size : c[i] = b[size + 1 - i] + BYTE * c[i - 1]
  <2>1. c = [i \in 0..size |-> IF i = 0 THEN 0 ELSE b[size + 1 - i] + BYTE * c[i - 1]]
    BY <1>5 DEF IsTop, size
  <2> QED
    BY <1>0, <2>1
<1>8. \A i \in 0..size : c[i] = f[i]
  <2> DEFINE S == {i \in Nat : i <= size => c[i] = f[i]}
  <2>1. 0 \in S
    BY <1>3, <1>7
  <2>2. ASSUME NEW i \in Nat, i \in S PROVE i + 1 \in S
    <3>1. i + 1 <= size => i + 1 \in 1..size /\ (i + 1) - 1 = i
      BY <1>0
    <3> QED
      BY <1>0, <1>3, <1>7, <2>2, <3>1
  <2> HIDE DEF S
  <2>3. \A i \in Nat : i \in S
    BY <2>1, <2>2, SetInduction
  <2> QED
    BY <1>0, <2>3 DEF S
<1>9. c[size] = f[size]
  BY <1>0, <1>8
<1> QED
  BY <1>2, <1>3, <1>6, <1>9 DEF size

\* A number comes back from as many bytes as can hold it.
LEMMA NumberRoundTrip ==
  ASSUME NEW size \in Nat, NEW n \in 0..(Codes(size) - 1)
  PROVE  Number(LittleEndian(n, size)) = n
<1> DEFINE b == LittleEndian(n, size)
<1>0. n \in Nat /\ n < Codes(size)
  BY CodesFacts
<1>1. PICK r \in [0..size -> Nat] :
        /\ r[0] = n
        /\ \A i \in 1..size : r[i] = r[i - 1] \div BYTE
        /\ b = [i \in 1..size |-> r[i - 1] % BYTE]
  BY <1>0, RestIs
<1>2. b \in Seq(0..(BYTE - 1)) /\ Len(b) = size
  BY <1>0, LittleEndianBytes
<1> HIDE DEF b
<1>3. PICK top \in [0..size -> Nat] :
        /\ top[0] = 0
        /\ \A i \in 1..size : top[i] = b[size + 1 - i] + BYTE * top[i - 1]
        /\ Number(b) = top[size]
  BY <1>2, BytesAreNumbers, TopIs
<1>4. r[size] = 0
  <2> DEFINE S == {i \in Nat : i <= size => r[i] < Codes(size - i)}
  <2>1. 0 \in S
    BY <1>0, <1>1
  <2>2. ASSUME NEW i \in Nat, i \in S PROVE i + 1 \in S
    <3> SUFFICES ASSUME i + 1 <= size PROVE r[i + 1] < Codes(size - (i + 1))
      OBVIOUS
    <3> DEFINE c == Codes(size - (i + 1))
    <3>1. size - (i + 1) \in Nat /\ size - i = (size - (i + 1)) + 1
      OBVIOUS
    <3>2. c \in Nat /\ Codes(size - i) = BYTE * c
      BY <3>1, CodesFacts
    <3>3. i + 1 \in 1..size /\ (i + 1) - 1 = i /\ r[i] \in Nat
      BY <1>1
    <3>4. r[i + 1] = r[i] \div BYTE /\ r[i] < BYTE * c
      <4>1. r[i + 1] = r[i] \div BYTE
        BY <1>1, <3>3
      <4>2. r[i] < Codes(size - i)
        <5>1. i <= size
          OBVIOUS
        <5> QED
          BY <2>2, <5>1
      <4> QED
        BY <3>2, <4>1, <4>2
    <3> HIDE DEF c
    <3>5. r[i] \div BYTE < c
      BY <3>2, <3>3, <3>4 DEF BYTE
    <3> QED
      BY <3>4, <3>5 DEF c
  <2> HIDE DEF S
  <2>3. size \in S
    BY <2>1, <2>2, SetInduction
  <2>4. r[size] < Codes(0) /\ r[size] \in Nat
    BY <1>1, <2>3 DEF S
  <2> QED
    BY <2>4, CodesFacts
<1>5. top[size] = r[0]
  <2> DEFINE S == {i \in Nat : i <= size => top[i] = r[size - i]}
  <2>1. 0 \in S
    BY <1>3, <1>4
  <2>2. ASSUME NEW i \in Nat, i \in S PROVE i + 1 \in S
    <3> SUFFICES ASSUME i + 1 <= size PROVE top[i + 1] = r[size - (i + 1)]
      OBVIOUS
    <3> DEFINE j == size - i
    <3>1. /\ i + 1 \in 1..size /\ (i + 1) - 1 = i /\ size + 1 - (i + 1) = j
          /\ j \in 1..size /\ size - (i + 1) = j - 1 /\ j - 1 \in 0..size
      OBVIOUS
    <3>2. top[i] = r[j]
      BY <2>2
    <3> HIDE DEF j
    <3>3. top[i + 1] = b[j] + BYTE * top[i]
      BY <1>3, <3>1
    <3>4. b[j] = r[j - 1] % BYTE /\ r[j] = r[j - 1] \div BYTE /\ r[j - 1] \in Nat
      BY <1>1, <3>1
    <3>5. (r[j - 1] % BYTE) + BYTE * (r[j - 1] \div BYTE) = r[j - 1]
      BY <3>4 DEF BYTE
    <3> QED
      BY <3>1, <3>2, <3>3, <3>4, <3>5
  <2> HIDE DEF S
  <2>3. size \in S
    BY <2>1, <2>2, SetInduction
  <2> QED
    BY <2>3 DEF S
<1> QED
  BY <1>1, <1>3, <1>5 DEF b

\* What `size` bytes spell is a number they can hold.
LEMMA NumberRange ==
  ASSUME NEW b \in Seq(0..(BYTE - 1))
  PROVE  Number(b) \in 0..(Codes(Len(b)) - 1)
<1> DEFINE size == Len(b)
<1>1. size \in Nat /\ b \in Seq(Nat) /\ \A i \in 1..size : b[i] \in 0..(BYTE - 1)
  BY BytesAreNumbers, LenProperties
<1>2. PICK top \in [0..size -> Nat] :
        /\ top[0] = 0
        /\ \A i \in 1..size : top[i] = b[size + 1 - i] + BYTE * top[i - 1]
        /\ Number(b) = top[size]
  BY <1>1, TopIs
<1> HIDE DEF size
<1> DEFINE S == {i \in Nat : i <= size => top[i] < Codes(i)}
<1>3. 0 \in S
  BY <1>2, CodesFacts
<1>4. ASSUME NEW i \in Nat, i \in S PROVE i + 1 \in S
  <2> SUFFICES ASSUME i + 1 <= size PROVE top[i + 1] < Codes(i + 1)
    OBVIOUS
  <2>1. i + 1 \in 1..size /\ (i + 1) - 1 = i /\ size + 1 - (i + 1) \in 1..size /\ top[i] \in Nat
    BY <1>1, <1>2
  <2>2. Codes(i + 1) = BYTE * Codes(i) /\ Codes(i) \in Nat
    BY CodesFacts
  <2>3. PICK low \in 0..(BYTE - 1) : top[i + 1] = low + BYTE * top[i]
    BY <1>1, <1>2, <2>1
  <2>4. top[i] < Codes(i)
    BY <1>1, <1>4, <2>1
  <2>5. \A v, c \in Nat : v < c => low + BYTE * v < BYTE * c
    BY DEF BYTE
  <2> QED
    BY <2>1, <2>2, <2>3, <2>4, <2>5
<1> HIDE DEF S
<1>5. size \in S
  BY <1>1, <1>3, <1>4, SetInduction
<1>6. top[size] \in Nat /\ top[size] < Codes(size) /\ Codes(size) \in Nat
  BY <1>1, <1>2, <1>5, CodesFacts DEF S
<1> QED
  BY <1>2, <1>6 DEF size

-----------------------------------------------------------------------------
(* What was encoded decodes to itself, whatever follows it *)

Bytes == Seq(0..(BYTE - 1))

\* The start of two joined sequences is the first of them.
LEMMA Joined ==
  ASSUME NEW S, NEW s \in Seq(S), NEW t \in Seq(S)
  PROVE  /\ s \o t \in Seq(S) /\ Len(s) \in Nat /\ Len(t) \in Nat
         /\ Len(s \o t) = Len(s) + Len(t)
         /\ \A i \in 1..Len(s) : (s \o t)[i] = s[i]
         /\ \A i \in 1..Len(t) : (s \o t)[Len(s) + i] = t[i]
         /\ SubSeq(s \o t, 1, Len(s)) = s
<1>1. /\ s \o t \in Seq(S) /\ Len(s) \in Nat /\ Len(t) \in Nat
      /\ Len(s \o t) = Len(s) + Len(t)
      /\ \A i \in 1..(Len(s) + Len(t)) :
           (s \o t)[i] = IF i <= Len(s) THEN s[i] ELSE t[i - Len(s)]
  BY ConcatProperties, LenProperties, Zenon
<1>2. \A i \in 1..Len(s) : (s \o t)[i] = s[i]
  BY <1>1
<1>3. \A i \in 1..Len(t) : (s \o t)[Len(s) + i] = t[i]
  <2>1. \A i \in 1..Len(t) : /\ Len(s) + i \in 1..(Len(s) + Len(t))
                             /\ ~(Len(s) + i <= Len(s)) /\ (Len(s) + i) - Len(s) = i
    BY <1>1
  <2> QED
    BY <1>1, <2>1
<1>4. SubSeq(s \o t, 1, Len(s)) = s
  <2> DEFINE u == SubSeq(s \o t, 1, Len(s))
  <2>1. u \in Seq(S) /\ Len(u) = Len(s) /\ \A i \in 1..Len(s) : u[i] = (s \o t)[i]
    BY <1>1
  <2> HIDE DEF u
  <2>2. u = s
    BY <1>2, <2>1, SeqEqual
  <2> QED
    BY <2>2 DEF u
<1> QED
  BY <1>1, <1>2, <1>3, <1>4

\* k elements of d behind the first a of them.
LEMMA PartOf ==
  ASSUME NEW S, NEW d \in Seq(S), NEW a \in Nat, NEW k \in Nat, a + k <= Len(d)
  PROVE  /\ SubSeq(d, a + 1, a + k) \in Seq(S) /\ Len(SubSeq(d, a + 1, a + k)) = k
         /\ \A i \in 1..k : SubSeq(d, a + 1, a + k)[i] = d[a + i]
<1>1. Len(d) \in Nat /\ \A i \in 1..Len(d) : d[i] \in S
  BY LenProperties
<1>2. \A i \in 1..k : a + i \in 1..Len(d)
  BY <1>1
<1>3. SubSeq(d, a + 1, a + k) = [i \in 1..k |-> d[a + i]]
  OBVIOUS
<1>4. [i \in 1..k |-> d[a + i]] \in Seq(S) /\ Len([i \in 1..k |-> d[a + i]]) = k
  BY <1>1, <1>2
<1> QED
  BY <1>3, <1>4

LEMMA StartOf ==
  ASSUME NEW S, NEW d \in Seq(S), NEW k \in Nat, k <= Len(d)
  PROVE  /\ SubSeq(d, 1, k) \in Seq(S) /\ Len(SubSeq(d, 1, k)) = k
         /\ \A i \in 1..k : SubSeq(d, 1, k)[i] = d[i]
<1>1. Len(d) \in Nat /\ \A i \in 1..Len(d) : d[i] \in S
  BY LenProperties
<1>2. SubSeq(d, 1, k) = [i \in 1..k |-> d[i]]
  OBVIOUS
<1>3. [i \in 1..k |-> d[i]] \in Seq(S) /\ Len([i \in 1..k |-> d[i]]) = k
  BY <1>1
<1> QED
  BY <1>2, <1>3

LEMMA WordFacts ==
  /\ WordRange \in Nat \ {0} /\ WordRange = 2 * (WordRange \div 2)
  /\ WordRange \div 2 \in Nat /\ WordRange >= BYTE
<1>1. WORD_SIZE - 1 \in Nat /\ (WORD_SIZE - 1) + 1 = WORD_SIZE /\ WORD_SIZE \in Nat
  BY WireSizesAssumption
<1>2. /\ Codes(WORD_SIZE) = BYTE * Codes(WORD_SIZE - 1)
      /\ Codes(WORD_SIZE - 1) \in Nat \ {0}
  BY <1>1, CodesFacts
<1> QED
  BY <1>2 DEF WordRange, BYTE

\* An unsigned number.
LEMMA UintRoundTrip ==
  ASSUME NEW size \in Nat, NEW n \in 0..(Codes(size) - 1), NEW tail \in Bytes
  PROVE  decode_uint(LittleEndian(n, size) \o tail, size) = Got(n, size)
<1> DEFINE b == LittleEndian(n, size)
<1>1. b \in Bytes /\ Len(b) = size
  BY CodesFacts, LittleEndianBytes DEF Bytes
<1>2. Number(b) = n
  BY NumberRoundTrip
<1> HIDE DEF b
<1>3. SubSeq(b \o tail, 1, size) = b /\ Len(b \o tail) = size + Len(tail) /\ Len(tail) \in Nat
  BY <1>1, Joined DEF Bytes
<1>4. ~(Len(b \o tail) < size)
  BY <1>3
<1> QED
  BY <1>2, <1>3, <1>4, Zenon DEF decode_uint, b

LEMMA WordRoundTrip ==
  ASSUME NEW n \in 0..(WordRange - 1), NEW tail \in Bytes
  PROVE  /\ encode_uint64(n) \in Bytes /\ Len(encode_uint64(n)) = WORD_SIZE
         /\ decode_uint64(encode_uint64(n) \o tail) = Got(n, WORD_SIZE)
<1>1. WORD_SIZE \in Nat /\ n \in Nat
  BY WireSizesAssumption, WordFacts
<1> QED
  BY <1>1, UintRoundTrip, LittleEndianBytes DEF encode_uint64, decode_uint64, WordRange, Bytes

\* Dividing by a positive number leaves one remainder.
LEMMA Remainder ==
  ASSUME NEW m \in Nat \ {0}, NEW n \in Int
  PROVE  /\ n \in 0..(m - 1) => n % m = n
         /\ n \in (-m)..(-1) => n % m = n + m
<1> DEFINE q == n \div m
           r == n % m
<1>1. q \in Int /\ r \in 0..(m - 1) /\ n = m * q + r
  OBVIOUS
<1> HIDE DEF q, r
<1>2. q >= 1 => m * q >= m
  BY <1>1
<1>3. q <= -2 => m * q <= m * (-2)
  BY <1>1
<1>4. q = -1 => m * q = -m
  BY <1>1
<1>5. q = 0 => m * q = 0
  BY <1>1
<1>6. n \in 0..(m - 1) => r = n
  BY <1>1, <1>2, <1>3, <1>4, <1>5
<1>7. n \in (-m)..(-1) => r = n + m
  BY <1>1, <1>2, <1>3, <1>4, <1>5
<1> QED
  BY <1>6, <1>7 DEF r

\* A signed number, by two's complement.
LEMMA Int64RoundTrip ==
  ASSUME NEW n \in Int, is_int64(n), NEW tail \in Bytes
  PROVE  /\ encode_int64(n) \in Bytes /\ Len(encode_int64(n)) = WORD_SIZE
         /\ decode_int64(encode_int64(n) \o tail) = Got(n, WORD_SIZE)
<1> DEFINE half == WordRange \div 2
           v == n % WordRange
<1>1. WordRange \in Nat \ {0} /\ WordRange = 2 * half /\ half \in Nat /\ n >= -half /\ n < half
  BY WordFacts DEF is_int64
<1> HIDE DEF half
<1>2. /\ n >= 0 => v = n
      /\ n < 0 => v = n + WordRange
  <2>1. /\ n \in 0..(WordRange - 1) => v = n
        /\ n \in (-WordRange)..(-1) => v = n + WordRange
    BY <1>1, Remainder, Zenon
  <2> HIDE DEF v
  <2> QED
    BY <1>1, <2>1
<1> HIDE DEF v
<1>3. /\ v \in 0..(WordRange - 1)
      /\ (IF v >= half THEN v - WordRange ELSE v) = n
  BY <1>1, <1>2
<1>4. encode_int64(n) = encode_uint64(v)
  BY DEF encode_int64, v
<1>5. decode_uint64(encode_uint64(v) \o tail) = Got(v, WORD_SIZE)
  BY <1>3, WordRoundTrip
<1>6. decode_int64(encode_uint64(v) \o tail) = Got(n, WORD_SIZE)
  <2> DEFINE d == encode_uint64(v) \o tail
  <2>1. decode_uint64(d).ok /\ decode_uint64(d).val = v /\ decode_uint64(d).used = WORD_SIZE
    BY <1>5 DEF Got
  <2> HIDE DEF d
  <2>2. decode_int64(d) = Got(IF v >= half THEN v - WordRange ELSE v, WORD_SIZE)
    BY <2>1 DEF decode_int64, Then, half
  <2> QED
    BY <1>3, <2>2 DEF d
<1> QED
  BY <1>3, <1>4, <1>6, WordRoundTrip

LEMMA ZerosFacts ==
  ASSUME NEW n \in Nat
  PROVE  Zeros(n) \in Bytes /\ Len(Zeros(n)) = n /\ \A i \in 1..n : Zeros(n)[i] = 0
<1>1. 0 \in 0..(BYTE - 1)
  BY DEF BYTE
<1> QED
  BY <1>1 DEF Zeros, Bytes

\* A text within the cap, on both ways through decode_text.
LEMMA TextRoundTrip ==
  ASSUME NEW s \in Bytes, NEW cap \in Nat, text_encodable(s, cap), IsUtf8(s), NEW tail \in Bytes
  PROVE  /\ encode_text(s) \in Bytes
         /\ \E words \in Nat : Len(encode_text(s)) = words * WORD_SIZE
         /\ decode_text_view(encode_text(s) \o tail, cap) = Got(s, Len(encode_text(s)))
<1> DEFINE n == Len(s)
           pad == pad_to_word(n + 1)
           text == encode_text(s)
           d == text \o tail
           limit == Smaller(Len(d), cap + 1)
<1>1. /\ n \in Nat /\ n + 1 \in Nat /\ n <= cap
      /\ \A i \in 1..n : s[i] # 0
  BY LenProperties DEF text_encodable, Contains, Bytes
<1>2. /\ pad \in Nat /\ 1 + pad \in Nat
      /\ \E words \in Nat : words * WORD_SIZE = n + 1 + pad
  <2>1. /\ pad \in 0..(WORD_SIZE - 1)
        /\ \E words \in 0..(n + 1 + pad) : words * WORD_SIZE = n + 1 + pad
    BY <1>1, Padding
  <2>2. pad \in Nat /\ 1 + pad \in Nat
    BY <2>1, WireSizesAssumption
  <2>3. \A words \in 0..(n + 1 + pad) : words \in Nat
    BY <1>1, <2>2
  <2> QED
    BY <2>1, <2>2, <2>3
<1>3. text = s \o Zeros(1 + pad)
  BY DEF encode_text
<1> HIDE DEF pad, n, text
<1>4. /\ text \in Bytes /\ Len(text) = n + 1 + pad
      /\ SubSeq(text, 1, n) = s
      /\ \A i \in 1..n : text[i] = s[i]
      /\ text[n + 1] = 0
  <2>1. /\ Zeros(1 + pad) \in Bytes /\ Len(Zeros(1 + pad)) = 1 + pad
        /\ 1 \in 1..(1 + pad) /\ Zeros(1 + pad)[1] = 0
    BY <1>2, ZerosFacts
  <2>2. /\ text \in Bytes /\ Len(text) = n + (1 + pad)
        /\ SubSeq(text, 1, n) = s
        /\ \A i \in 1..n : text[i] = s[i]
        /\ \A i \in 1..(1 + pad) : text[n + i] = Zeros(1 + pad)[i]
    BY <1>3, <2>1, Joined DEF Bytes, n
  <2> QED
    BY <1>1, <1>2, <2>1, <2>2
<1>5. /\ d \in Bytes /\ Len(d) = n + 1 + pad + Len(tail) /\ Len(tail) \in Nat
      /\ \A i \in 1..n : d[i] = s[i]
      /\ d[n + 1] = 0
  <2>1. /\ d \in Bytes /\ Len(d) = Len(text) + Len(tail) /\ Len(tail) \in Nat
        /\ \A i \in 1..Len(text) : d[i] = text[i]
    BY <1>4, Joined DEF Bytes
  <2>2. \A i \in 1..(n + 1) : i \in 1..Len(text)
    BY <1>1, <1>2, <1>4
  <2> HIDE DEF d
  <2>3. \A i \in 1..n : i \in 1..(n + 1)
    BY <1>1
  <2>4. n + 1 \in 1..(n + 1)
    BY <1>1
  <2> QED
    BY <1>4, <2>1, <2>2, <2>3, <2>4
<1> HIDE DEF d
<1>6. SubSeq(d, 1, n) = s
  <2> DEFINE u == SubSeq(d, 1, n)
  <2>1. u \in Bytes /\ Len(u) = n /\ \A i \in 1..n : u[i] = d[i]
    <3>1. n <= Len(d) /\ d \in Seq(0..(BYTE - 1))
      BY <1>1, <1>2, <1>5 DEF Bytes
    <3> QED
      BY <1>1, <3>1, StartOf, Zenon DEF Bytes
  <2> HIDE DEF u
  <2>2. u = s
    BY <1>5, <2>1, SeqEqual DEF Bytes, n
  <2> QED
    BY <2>2 DEF u
<1>7. limit \in Nat /\ n \in 0..(limit - 1)
  BY <1>1, <1>2, <1>5 DEF Smaller
<1> HIDE DEF limit
<1>8. First(d, 0, limit, n)
  <2>1. \A i \in 0..(n - 1) : i + 1 \in 1..n
    BY <1>1
  <2>2. \A i \in 0..(n - 1) : d[i + 1] # 0
    BY <1>1, <1>5, <2>1
  <2> QED
    BY <1>5, <1>7, <2>2 DEF First
<1>9. FindNul(d, 0, limit) = n
  <2>1. First(d, 0, limit, FindNul(d, 0, limit))
    BY <1>7, FindNulFirst
  <2> QED
    BY <1>7, <1>8, <2>1, FirstUnique
<1>10. n >= 0 /\ Len(d) >= n + 1 + pad
  BY <1>1, <1>2, <1>5
<1>11. TextEndingAt(d, n) = Got(s, n + 1 + pad)
  BY <1>6, <1>10 DEF TextEndingAt, pad
<1>12. decode_text_view(d, cap) = TextEndingAt(d, n)
  BY <1>5, <1>9, ViewIsBytes DEF decode_text, limit, Bytes
<1> QED
  BY <1>2, <1>4, <1>11, <1>12 DEF d, text

\* A blob.
LEMMA BlobRoundTrip ==
  ASSUME NEW s \in Bytes, Len(s) <= MAX_BLOB_SIZE, NEW tail \in Bytes
  PROVE  /\ encode_blob(s) \in Bytes
         /\ \E words \in Nat : Len(encode_blob(s)) = words * WORD_SIZE
         /\ decode_blob(encode_blob(s) \o tail) = Got(s, Len(encode_blob(s)))
<1> DEFINE n == Len(s)
           pad == pad_to_word(n)
           word == encode_uint64(n)
           padded == s \o Zeros(pad)
           behind == padded \o tail
           d == encode_blob(s) \o tail
<1>0. s \in Seq(0..(BYTE - 1)) /\ tail \in Seq(0..(BYTE - 1))
  BY DEF Bytes
<1>1. n \in Nat /\ n \in 0..(WordRange - 1) /\ WORD_SIZE \in Nat
  <2>1. n \in Nat /\ n <= MAX_BLOB_SIZE
    BY LenProperties DEF Bytes
  <2> QED
    BY <2>1, WireSizesAssumption, BlobsAssumption, WordFacts
<1>2. pad \in Nat /\ \E words \in Nat : words * WORD_SIZE = n + pad
  <2>1. /\ pad \in 0..(WORD_SIZE - 1)
        /\ \E words \in 0..(n + pad) : words * WORD_SIZE = n + pad
    BY <1>1, Padding
  <2>2. pad \in Nat
    BY <2>1, WireSizesAssumption
  <2>3. \A words \in 0..(n + pad) : words \in Nat
    BY <1>1, <2>2
  <2> QED
    BY <2>1, <2>2, <2>3
<1>3. encode_blob(s) = word \o s \o Zeros(pad)
  BY DEF encode_blob
<1> HIDE DEF n, pad
<1>4. Zeros(pad) \in Bytes /\ Len(Zeros(pad)) = pad
  BY <1>2, ZerosFacts
<1>5. /\ padded \in Bytes /\ Len(padded) = n + pad
      /\ \A i \in 1..n : padded[i] = s[i]
  BY <1>4, Joined DEF Bytes, n
<1> HIDE DEF padded
<1>6. /\ behind \in Bytes /\ Len(tail) \in Nat
       /\ Len(behind) = n + pad + Len(tail)
       /\ \A i \in 1..n : behind[i] = s[i]
  <2>1. /\ behind \in Bytes /\ Len(behind) = n + pad + Len(tail) /\ Len(tail) \in Nat
        /\ \A i \in 1..(n + pad) : behind[i] = padded[i]
    <3>1. /\ behind \in Bytes /\ Len(behind) = Len(padded) + Len(tail) /\ Len(tail) \in Nat
          /\ \A i \in 1..Len(padded) : behind[i] = padded[i]
      BY <1>0, <1>5, Joined, Zenon DEF Bytes
    <3> HIDE DEF behind
    <3> QED
      BY <1>5, <3>1
  <2>2. \A i \in 1..n : i \in 1..(n + pad)
    BY <1>1, <1>2
  <2> HIDE DEF behind
  <2> QED
    BY <1>5, <2>1, <2>2
<1>7. /\ word \in Bytes /\ Len(word) = WORD_SIZE
      /\ decode_uint64(word \o behind) = Got(n, WORD_SIZE)
  <2> HIDE DEF behind
  <2> QED
    BY <1>1, <1>6, WordRoundTrip
<1> HIDE DEF word
<1>8. /\ encode_blob(s) = word \o padded
      /\ d = word \o behind
      /\ encode_blob(s) \in Bytes /\ Len(encode_blob(s)) = WORD_SIZE + n + pad
  <2>1. word \o s \o Zeros(pad) = word \o padded
    <3>1. word \in Seq(0..(BYTE - 1)) /\ Zeros(pad) \in Seq(0..(BYTE - 1))
      BY <1>4, <1>7 DEF Bytes
    <3> QED
      BY <1>0, <3>1, ConcatAssociative DEF padded
  <2>2. word \o padded \in Bytes /\ Len(word \o padded) = WORD_SIZE + (n + pad)
    BY <1>5, <1>7, Joined DEF Bytes
  <2>3. (word \o padded) \o tail = word \o behind
    <3>1. word \in Seq(0..(BYTE - 1)) /\ padded \in Seq(0..(BYTE - 1))
      BY <1>5, <1>7 DEF Bytes
    <3> QED
      BY <1>0, <3>1, ConcatAssociative
  <2>4. WORD_SIZE + (n + pad) = WORD_SIZE + n + pad
    BY <1>1, <1>2
  <2> QED
    BY <1>3, <2>1, <2>2, <2>3, <2>4
<1> HIDE DEF behind, d
<1>9. SubSeq(d, WORD_SIZE + 1, WORD_SIZE + n) = s
  <2> DEFINE u == SubSeq(d, WORD_SIZE + 1, WORD_SIZE + n)
  <2>1. /\ d \in Bytes /\ Len(d) = WORD_SIZE + Len(behind)
        /\ \A i \in 1..Len(behind) : d[WORD_SIZE + i] = behind[i]
    BY <1>6, <1>7, <1>8, Joined DEF Bytes
  <2>2. u \in Bytes /\ Len(u) = n /\ \A i \in 1..n : u[i] = d[WORD_SIZE + i]
    <3>1. WORD_SIZE + n <= Len(d)
      BY <1>1, <1>2, <1>6, <2>1
    <3>2. d \in Seq(0..(BYTE - 1)) /\ WORD_SIZE \in Nat /\ n \in Nat
      BY <1>1, <2>1 DEF Bytes
    <3> HIDE DEF u
    <3> QED
      BY <3>1, <3>2, PartOf, Zenon DEF Bytes, u
  <2> HIDE DEF u
  <2>3. \A i \in 1..n : i \in 1..Len(behind)
    BY <1>1, <1>2, <1>6
  <2>4. \A i \in 1..n : u[i] = s[i]
    BY <1>6, <2>1, <2>2, <2>3
  <2>5. u = s
    BY <2>2, <2>4, SeqEqual DEF Bytes, n
  <2> QED
    BY <2>5 DEF u
<1>10. ~(n > MAX_BLOB_SIZE \/ Len(d) < WORD_SIZE + n + pad)
  <2>1. Len(d) = WORD_SIZE + Len(behind)
    BY <1>6, <1>7, <1>8, Joined DEF Bytes
  <2> QED
    BY <1>1, <1>2, <1>6, <2>1, WireSizesAssumption DEF n
<1>11. decode_blob(d) = Got(s, WORD_SIZE + n + pad)
  <2>1. decode_uint64(d).ok /\ decode_uint64(d).val = n /\ decode_uint64(d).used = WORD_SIZE
    BY <1>7, <1>8 DEF Got
  <2> QED
    BY <1>9, <1>10, <2>1 DEF decode_blob, Then, pad
<1>12. \E words \in Nat : WORD_SIZE + n + pad = words * WORD_SIZE
  <2>1. PICK words \in Nat : words * WORD_SIZE = n + pad
    BY <1>2
  <2>2. words + 1 \in Nat /\ (words + 1) * WORD_SIZE = WORD_SIZE + n + pad
    BY <1>1, <1>2, <2>1
  <2> QED
    BY <2>2
<1> QED
  BY <1>8, <1>11, <1>12 DEF d

-----------------------------------------------------------------------------
(* Values *)

\* The values a caller may hand to encode_value.
PyValues ==
  {PyNone} \cup {Py("bool", v) : v \in {0, 1}} \cup {Py("int", v) : v \in Int}
    \cup {Py("float", v) : v \in 0..(WordRange - 1)}
    \cup {Py("str", v) : v \in {s \in Bytes : IsUtf8(s)}}
    \cup {Py("bytes", v) : v \in Bytes}

LEMMA ValueContents ==
  ASSUME NEW x \in PyValues
  PROVE  /\ x = Py(x.py, x.v)
         /\ x.py = "None" => x = PyNone
         /\ x.py = "bool" => x.v \in {0, 1}
         /\ x.py = "int" => x.v \in Int
         /\ x.py = "float" => x.v \in 0..(WordRange - 1)
         /\ x.py = "str" => x.v \in Bytes /\ IsUtf8(x.v)
         /\ x.py = "bytes" => x.v \in Bytes
  BY DEF PyValues, Py, PyNone

\* b is made of whole words.
WholeWords(b) == b \in Bytes /\ \E words \in Nat : Len(b) = words * WORD_SIZE

LEMMA OneWord ==
  ASSUME NEW b \in Bytes, Len(b) = WORD_SIZE
  PROVE  WholeWords(b)
<1>1. 1 \in Nat /\ 1 * WORD_SIZE = WORD_SIZE
  BY WireSizesAssumption
<1> QED
  BY <1>1 DEF WholeWords

\* What is read back of value x sent as type t: a BOOLEAN is always a bool.
AsRead(x, t) == IF t = BOOLEAN_ THEN Py("bool", x.v) ELSE x

\* Every value that encode_value accepts under a type fills whole words and
\* decodes under that type to an equal value, whatever bytes follow it, and
\* decode_value uses exactly the bytes that encode_value wrote.
THEOREM ValueRoundTrip ==
  ASSUME NEW x \in PyValues, NEW t \in ValueType, value_encodable(x, t), NEW tail \in Bytes
  PROVE  /\ WholeWords(encode_value(x, t))
         /\ decode_value(encode_value(x, t) \o tail, t) = Got(AsRead(x, t), Len(encode_value(x, t)))
         /\ PyEqual(x, AsRead(x, t))
<1> DEFINE b == encode_value(x, t)
           d == b \o tail
           Right == /\ WholeWords(b)
                    /\ decode_value(d, t) = Got(AsRead(x, t), Len(b))
                    /\ PyEqual(x, AsRead(x, t))
<1>0. x = Py(x.py, x.v)
  BY ValueContents
<1>1. CASE t \in {INTEGER, UNIXTIME}
  <2>0. t \notin {FLOAT, TEXT, BLOB, NULL, ISO8601, BOOLEAN_}
    BY <1>1 DEF INTEGER, FLOAT, TEXT, BLOB, NULL, UNIXTIME, ISO8601, BOOLEAN_
  <2>1. x.py = "int" /\ is_int64(x.v) /\ x.v \in Int
    BY <1>1, <2>0, ValueContents DEF value_encodable
  <2>2. b = encode_int64(x.v)
    BY <1>1, <2>0 DEF encode_value
  <2>3. b \in Bytes /\ Len(b) = WORD_SIZE /\ decode_int64(d) = Got(x.v, WORD_SIZE)
    BY <2>1, <2>2, Int64RoundTrip
  <2> HIDE DEF b, d
  <2>4. decode_value(d, t) = Got(Py("int", x.v), WORD_SIZE)
    <3>1. decode_value(d, t) =
            Then(decode_int64(d), LAMBDA v, used : Got(Py("int", v), used))
      BY <1>1, <2>0 DEF decode_value, Then
    <3> QED
      BY <2>3, <3>1 DEF Then, Got
  <2>5. Right
    BY <1>0, <2>0, <2>1, <2>3, <2>4, OneWord DEF PyEqual, AsRead
  <2> QED
    BY <2>5 DEF b, d
<1>2. CASE t = FLOAT
  <2>0. t \notin {INTEGER, TEXT, BLOB, NULL, UNIXTIME, ISO8601, BOOLEAN_}
    BY <1>2 DEF INTEGER, FLOAT, TEXT, BLOB, NULL, UNIXTIME, ISO8601, BOOLEAN_
  <2>1. x.py = "float" /\ x.v \in 0..(WordRange - 1)
    BY <1>2, <2>0, ValueContents DEF value_encodable
  <2>2. b = encode_uint64(x.v)
    BY <1>2, <2>0 DEF encode_value
  <2>3. b \in Bytes /\ Len(b) = WORD_SIZE /\ decode_uint64(d) = Got(x.v, WORD_SIZE)
    BY <2>1, <2>2, WordRoundTrip
  <2> HIDE DEF b, d
  <2>4. decode_value(d, t) = Got(Py("float", x.v), WORD_SIZE)
    <3>1. decode_value(d, t) =
            Then(decode_uint64(d), LAMBDA v, used : Got(Py("float", v), used))
      BY <1>2, <2>0 DEF decode_value, Then
    <3> QED
      BY <2>3, <3>1 DEF Then, Got
  <2>5. Right
    BY <1>0, <2>0, <2>1, <2>3, <2>4, OneWord DEF PyEqual, AsRead
  <2> QED
    BY <2>5 DEF b, d
<1>3. CASE t \in {TEXT, ISO8601}
  <2>0. t \notin {INTEGER, FLOAT, BLOB, NULL, UNIXTIME, BOOLEAN_}
    BY <1>3 DEF INTEGER, FLOAT, TEXT, BLOB, NULL, UNIXTIME, ISO8601, BOOLEAN_
  <2>1. x.py = "str" /\ x.v \in Bytes /\ IsUtf8(x.v) /\ text_encodable(x.v, MAX_TEXT_VALUE_SIZE)
    BY <1>3, <2>0, ValueContents DEF value_encodable
  <2>2. b = encode_text(x.v)
    BY <1>3, <2>0 DEF encode_value
  <2>3. /\ WholeWords(b)
        /\ decode_text_view(d, MAX_TEXT_VALUE_SIZE) = Got(x.v, Len(b))
    BY <2>1, <2>2, TextRoundTrip, WireSizesAssumption DEF WholeWords
  <2> HIDE DEF b, d
  <2>4. decode_value(d, t) = Got(Py("str", x.v), Len(b))
    <3>1. decode_value(d, t) = Then(decode_text_view(d, MAX_TEXT_VALUE_SIZE),
                                    LAMBDA v, used : Got(Py("str", v), used))
      BY <1>3, <2>0 DEF decode_value, Then
    <3> QED
      BY <2>3, <3>1 DEF Then, Got
  <2>5. Right
    BY <1>0, <2>0, <2>1, <2>3, <2>4 DEF PyEqual, AsRead
  <2> QED
    BY <2>5 DEF b, d
<1>4. CASE t = BLOB
  <2>0. t \notin {INTEGER, FLOAT, TEXT, NULL, UNIXTIME, ISO8601, BOOLEAN_}
    BY <1>4 DEF INTEGER, FLOAT, TEXT, BLOB, NULL, UNIXTIME, ISO8601, BOOLEAN_
  <2>1. x.py = "bytes" /\ x.v \in Bytes /\ Len(x.v) <= MAX_BLOB_SIZE
    BY <1>4, <2>0, ValueContents DEF value_encodable
  <2>2. b = encode_blob(x.v)
    BY <1>4, <2>0 DEF encode_value
  <2>3. WholeWords(b) /\ decode_blob(d) = Got(x.v, Len(b))
    BY <2>1, <2>2, BlobRoundTrip DEF WholeWords
  <2> HIDE DEF b, d
  <2>4. decode_value(d, t) = Got(Py("bytes", x.v), Len(b))
    <3>1. decode_value(d, t) =
            Then(decode_blob(d), LAMBDA v, used : Got(Py("bytes", v), used))
      BY <1>4, <2>0 DEF decode_value, Then
    <3> QED
      BY <2>3, <3>1 DEF Then, Got
  <2>5. Right
    BY <1>0, <2>0, <2>1, <2>3, <2>4 DEF PyEqual, AsRead
  <2> QED
    BY <2>5 DEF b, d
<1>5. CASE t = NULL
  <2>0. t \notin {INTEGER, FLOAT, TEXT, BLOB, UNIXTIME, ISO8601, BOOLEAN_}
    BY <1>5 DEF INTEGER, FLOAT, TEXT, BLOB, NULL, UNIXTIME, ISO8601, BOOLEAN_
  <2>1. x = PyNone
    BY <1>5, <2>0, ValueContents DEF value_encodable
  <2>2. b = Zeros(WORD_SIZE)
    BY <1>5, <2>0 DEF encode_value
  <2>3. b \in Bytes /\ Len(b) = WORD_SIZE
    BY <2>2, ZerosFacts, WireSizesAssumption
  <2> HIDE DEF b
  <2>4. ~(Len(d) < WORD_SIZE)
    <3>1. Len(d) = Len(b) + Len(tail) /\ Len(tail) \in Nat
      BY <2>3, Joined DEF Bytes
    <3> HIDE DEF d
    <3> QED
      BY <2>3, <3>1, WireSizesAssumption
  <2> HIDE DEF d
  <2>5. decode_uint64(d) = Got(Number(SubSeq(d, 1, WORD_SIZE)), WORD_SIZE)
    BY <2>4 DEF decode_uint64, decode_uint
  <2>6. decode_value(d, t) = Got(PyNone, WORD_SIZE)
    <3>1. decode_value(d, t) = Then(decode_uint64(d), LAMBDA v, used : Got(PyNone, used))
      BY <1>5, <2>0 DEF decode_value, Then
    <3> QED
      BY <2>5, <3>1 DEF Then, Got
  <2>7. Right
    BY <2>0, <2>1, <2>3, <2>6, OneWord DEF PyEqual, AsRead
  <2> QED
    BY <2>7 DEF b, d
<1>6. CASE t = BOOLEAN_
  <2>0. t \notin {INTEGER, FLOAT, TEXT, BLOB, NULL, UNIXTIME, ISO8601}
    BY <1>6 DEF INTEGER, FLOAT, TEXT, BLOB, NULL, UNIXTIME, ISO8601, BOOLEAN_
  <2>1. x.py \in {"bool", "int"} /\ x.v \in {0, 1}
    BY <1>6, <2>0, ValueContents DEF value_encodable, boolean_encodable
  <2>2. b = encode_uint64(x.v)
    BY <1>6, <2>0 DEF encode_value
  <2>3. b \in Bytes /\ Len(b) = WORD_SIZE /\ decode_uint64(d) = Got(x.v, WORD_SIZE)
    <3>1. x.v \in 0..(WordRange - 1)
      BY <2>1, WordFacts DEF BYTE
    <3> QED
      BY <2>2, <3>1, WordRoundTrip
  <2> HIDE DEF b, d
  <2>4. decode_value(d, t) = Got(Py("bool", Smaller(x.v, 1)), WORD_SIZE)
    <3>1. decode_value(d, t) =
            Then(decode_uint64(d), LAMBDA v, used : Got(Py("bool", Smaller(v, 1)), used))
      BY <1>6, <2>0 DEF decode_value, Then
    <3> QED
      BY <2>3, <3>1 DEF Then, Got
  <2>5. Smaller(x.v, 1) = x.v
    BY <2>1 DEF Smaller
  <2>6. PyEqual(x, Py("bool", x.v))
    BY <2>1 DEF PyEqual, Py
  <2>7. Right
    BY <1>6, <2>3, <2>4, <2>5, <2>6, OneWord DEF AsRead
  <2> QED
    BY <2>7 DEF b, d
<1> QED
  BY <1>1, <1>2, <1>3, <1>4, <1>5, <1>6 DEF ValueType
=============================================================================
