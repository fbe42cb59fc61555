--------------------------- MODULE TextScanProofs ----------------------------
(***************************************************************************)
(* Both ways through decode_text meet the definition that does not scan,   *)
(* for every input and cap and all sizes of words, probes and chunks.      *)
(***************************************************************************)
EXTENDS TextScan, WireTypesProofs

\* A text of n bytes stands at the start of d exactly when n is the index of
\* its first NUL, its bytes are text, and its padding is there.
LEMMA HoldsTextMeans ==
  ASSUME NEW d \in Seq(0..(BYTE - 1)), NEW n \in 0..(Len(d) - 1)
  PROVE  HoldsText(d, n) <=>
           /\ d[n + 1] = 0 /\ \A i \in 1..n : d[i] # 0
           /\ IsUtf8(SubSeq(d, 1, n))
           /\ n + 1 + pad_to_word(n + 1) <= Len(d)
<1> DEFINE total == n + 1 + pad_to_word(n + 1)
<1>0. /\ Len(d) \in Nat /\ n \in Nat /\ n + 1 \in Nat
      /\ \A i \in 1..Len(d) : d[i] \in Int
  <2>1. Len(d) \in Nat /\ \A i \in 1..Len(d) : d[i] \in 0..(BYTE - 1)
    BY LenProperties
  <2>2. \A i \in 1..Len(d) : d[i] \in Int
    <3>1. \A b \in 0..(BYTE - 1) : b \in Int
      BY DEF BYTE
    <3> QED
      BY <2>1, <3>1, Zenon
  <2>3. n \in Nat /\ n + 1 \in Nat
    BY <2>1
  <2> QED
    BY <2>1, <2>2, <2>3
<1>1. IsUtf8(SubSeq(d, 1, n)) <=> \A i \in 1..n : d[i] < 128
  <2>1. DOMAIN SubSeq(d, 1, n) = 1..n /\ \A i \in 1..n : SubSeq(d, 1, n)[i] = d[i]
    BY <1>0
  <2> QED
    BY <2>1 DEF IsUtf8
<1>2. \A i \in 1..n : IsUtf8(<<d[i]>>) <=> d[i] < 128
  BY DEF IsUtf8
<1>3. /\ pad_to_word(n + 1) \in 0..(WORD_SIZE - 1)
      /\ \E words \in 0..total : words * WORD_SIZE = total
      /\ \A words \in Nat : words * WORD_SIZE \in (n + 1)..(n + 1 + WORD_SIZE - 1) =>
              words * WORD_SIZE = total
  BY <1>0, Padding
<1>4. total \in Nat /\ total \in (n + 1)..(n + WORD_SIZE)
  BY <1>0, <1>3, WireSizesAssumption
<1> HIDE DEF total
<1>5. (\E words \in 0..Len(d) :
         words * WORD_SIZE \in (n + 1)..Smaller(n + WORD_SIZE, Len(d))) <=> total <= Len(d)
  <2>1. ASSUME NEW words \in 0..Len(d),
               words * WORD_SIZE \in (n + 1)..Smaller(n + WORD_SIZE, Len(d))
        PROVE  total <= Len(d)
    <3>1. words \in Nat /\ words * WORD_SIZE \in Nat
      BY <1>0, WireSizesAssumption
    <3>2. words * WORD_SIZE \in (n + 1)..(n + 1 + WORD_SIZE - 1) /\ words * WORD_SIZE <= Len(d)
      BY <1>0, <2>1, <3>1, WireSizesAssumption DEF Smaller
    <3> QED
      BY <1>3, <3>1, <3>2
  <2>2. ASSUME total <= Len(d)
        PROVE  \E words \in 0..Len(d) :
                 words * WORD_SIZE \in (n + 1)..Smaller(n + WORD_SIZE, Len(d))
    <3>1. PICK words \in 0..total : words * WORD_SIZE = total
      BY <1>3
    <3>2. words \in 0..Len(d)
      BY <1>0, <1>4, <2>2
    <3>3. total \in (n + 1)..Smaller(n + WORD_SIZE, Len(d))
      BY <1>0, <1>4, <2>2, WireSizesAssumption DEF Smaller
    <3> QED
      BY <3>1, <3>2, <3>3
  <2> QED
    BY <2>1, <2>2
<1> QED
  BY <1>1, <1>2, <1>5 DEF HoldsText, total

\* decode_text accepts the inputs that start with a padded text within the cap,
\* and returns that text.
LEMMA BytesMatch ==
  ASSUME NEW d \in Seq(0..(BYTE - 1)), NEW cap \in Nat
  PROVE  IF \E n \in 0..Smaller(cap, Len(d) - 1) : HoldsText(d, n)
         THEN decode_text(d, cap).ok /\ Decoded(decode_text(d, cap), d)
         ELSE ~decode_text(d, cap).ok
<1> DEFINE limit == Smaller(Len(d), cap + 1)
           k == FindNul(d, 0, limit)
           total == k + 1 + pad_to_word(k + 1)
           Text(n) == /\ d[n + 1] = 0 /\ \A i \in 1..n : d[i] # 0
                      /\ IsUtf8(SubSeq(d, 1, n))
                      /\ n + 1 + pad_to_word(n + 1) <= Len(d)
<1>0. /\ Len(d) \in Nat /\ limit \in Nat
      /\ 0..Smaller(cap, Len(d) - 1) = 0..(limit - 1) /\ limit <= Len(d)
  BY DEF Smaller
<1>1. decode_text(d, cap) = TextEndingAt(d, k)
  BY DEF decode_text
<1>2. First(d, 0, limit, k)
  BY <1>0, FindNulFirst
<1>3. \A n \in 0..(limit - 1) : HoldsText(d, n) <=> Text(n)
  BY <1>0, HoldsTextMeans
<1> HIDE DEF limit, k
<1>4. ASSUME NEW n \in 0..(limit - 1), HoldsText(d, n) PROVE n = k /\ TextEndingAt(d, k).ok
  <2>1. Text(n)
    BY <1>3, <1>4
  <2>2. First(d, 0, limit, n)
    <3>1. \A i \in 0..(n - 1) : d[i + 1] # 0
      BY <1>0, <2>1
    <3> QED
      BY <1>0, <2>1, <3>1 DEF First
  <2>3. n = k
    BY <1>0, <1>2, <2>2, FirstUnique
  <2> QED
    BY <1>0, <2>1, <2>3 DEF TextEndingAt, Got
<1>5. ASSUME TextEndingAt(d, k).ok
      PROVE  /\ k \in 0..(limit - 1) /\ HoldsText(d, k)
             /\ Decoded(TextEndingAt(d, k), d)
  <2>1. /\ k >= 0 /\ IsUtf8(SubSeq(d, 1, k)) /\ Len(d) >= total
        /\ TextEndingAt(d, k) = Got(SubSeq(d, 1, k), total)
    BY <1>5 DEF TextEndingAt, Fail
  <2>2. /\ k \in 0..(limit - 1) /\ d[k + 1] = 0
        /\ \A i \in 0..(k - 1) : d[i + 1] # 0
    BY <1>0, <1>2, <2>1 DEF First
  <2>3. \A i \in 1..k : i - 1 \in 0..(k - 1) /\ (i - 1) + 1 = i
    BY <1>0, <2>2
  <2>4. HoldsText(d, k)
    BY <1>0, <1>3, <2>1, <2>2, <2>3, Zenon
  <2>5. Len(SubSeq(d, 1, k)) = k
    BY <1>0, <2>2
  <2>6. /\ pad_to_word(k + 1) \in 0..(WORD_SIZE - 1) /\ k + 1 \in Nat
        /\ total % WORD_SIZE = 0
    <3>1. k + 1 \in Nat
      BY <1>0, <2>2
    <3> QED
      BY <3>1, Padding
  <2>7. total - k \in 1..WORD_SIZE
    <3>1. k \in Int /\ pad_to_word(k + 1) \in 0..(WORD_SIZE - 1)
      BY <1>0, <2>2, <2>6
    <3> QED
      BY <3>1, WireSizesAssumption
  <2> QED
    BY <2>1, <2>2, <2>4, <2>5, <2>6, <2>7 DEF Decoded, Got
<1>6. TextEndingAt(d, k).ok \in BOOLEAN
  BY DEF TextEndingAt, Got, Fail
<1> QED
  BY <1>0, <1>1, <1>4, <1>5, <1>6

\* Both ways through decode_text agree with the definition that does not scan.
THEOREM TextAlwaysMatches == Spec => TextMatchesReference
<1> DEFINE Typed == data \in Seq(0..(BYTE - 1)) /\ max_size \in Nat
<1>1. Init => Typed
  BY InputsAssumption DEF Init
<1>2. Typed /\ [decode]_scan_vars => Typed'
  BY DEF decode, scan_vars
<1>3. Typed /\ [decode]_scan_vars =>
        [\A r \in {as_bytes', as_view'} :
           IF \E n \in 0..Smaller(max_size, Len(data) - 1) : HoldsText(data, n)
           THEN r.ok /\ Decoded(r, data)
           ELSE ~r.ok]_scan_vars
  <2> SUFFICES ASSUME Typed, decode
               PROVE  \A r \in {as_bytes', as_view'} :
                        IF \E n \in 0..Smaller(max_size, Len(data) - 1) : HoldsText(data, n)
                        THEN r.ok /\ Decoded(r, data)
                        ELSE ~r.ok
    BY Zenon
  <2>1. as_bytes' = decode_text(data, max_size) /\ as_view' = decode_text(data, max_size)
    BY ViewIsBytes DEF decode
  <2> QED
    BY <2>1, BytesMatch
<1> QED
  BY <1>1, <1>2, <1>3, PTL DEF Spec, TextMatchesReference
=============================================================================
