-------------------------- MODULE ReadBufferProofs --------------------------
(***************************************************************************)
(* Proofs about ReadBuffer, for every cap, threshold, stream and chunking. *)
(***************************************************************************)
EXTENDS ReadBuffer, SequenceTheorems, TLAPS

(* The inductive invariant.  Coherent says what an unpoisoned buffer holds; *)
(* to be preserved it needs the bound on the unread part, the length of    *)
(* that part, and what a skip in flight has left behind.                   *)

\* The state of a buffer that is not poisoned.
Live ==
  /\ pos <= Len(data)
  /\ available <= max_message_size
  /\ taken + available = fed
  /\ \A i \in 1..available : data[pos + i] = taken + i - 1
  /\ is_skipping <=> poison_after_skip # "none"
  /\ is_skipping => available = 0

Inv ==
  /\ TypeOK
  /\ MemoryBound
  /\ HandedInOrder
  /\ ~is_poisoned => Live

-----------------------------------------------------------------------------
(* Sequences *)

\* A run of consecutive offsets is a sequence of naturals of the given length.
LEMMA RunFacts ==
  ASSUME NEW o \in Nat, NEW n \in Nat
  PROVE  /\ Run(o, n) \in Seq(Nat)
         /\ Len(Run(o, n)) = n
         /\ \A i \in 1..n : Run(o, n)[i] = o + i - 1
<1>1. \A i \in 1..n : o + i - 1 \in Nat
  OBVIOUS
<1>2. Run(o, n) \in [1..n -> Nat]
  BY <1>1 DEF Run
<1>3. Run(o, n) \in Seq(Nat)
  BY <1>2
<1>4. Len(Run(o, n)) = n
  BY <1>2
<1>5. \A i \in 1..n : Run(o, n)[i] = o + i - 1
  BY DEF Run
<1> QED
  BY <1>3, <1>4, <1>5

\* Two sequences of consecutive offsets that agree on start and length agree.
LEMMA RunUnique ==
  ASSUME NEW s \in Seq(Nat), NEW o \in Nat,
         \A i \in 1..Len(s) : s[i] = o + i - 1
  PROVE  s = Run(o, Len(s))
<1>1. Len(s) \in Nat
  BY LenProperties
<1> QED
  BY <1>1, RunFacts, SeqEqual

\* What SubSeq returns on a part of a sequence of offsets.
LEMMA PartFacts ==
  ASSUME NEW d \in Seq(Nat), NEW p \in Nat, NEW q \in Nat,
         p <= q, q <= Len(d)
  PROVE  /\ SubSeq(d, p + 1, q) \in Seq(Nat)
         /\ Len(SubSeq(d, p + 1, q)) = q - p
         /\ \A i \in 1..(q - p) : SubSeq(d, p + 1, q)[i] = d[p + i]
<1>1. \A i \in (p + 1)..q : d[i] \in Nat
  BY LenProperties
<1>2. /\ SubSeq(d, p + 1, q) \in Seq(Nat)
      /\ Len(SubSeq(d, p + 1, q)) = IF p + 1 <= q THEN q - (p + 1) + 1 ELSE 0
      /\ \A i \in 1..(q - (p + 1) + 1) : SubSeq(d, p + 1, q)[i] = d[(p + 1) + i - 1]
  BY <1>1, SubSeqProperties
<1>3. \A i \in 1..(q - p) : (p + 1) + i - 1 = p + i /\ i \in 1..(q - (p + 1) + 1)
  OBVIOUS
<1> QED
  BY <1>2, <1>3

\* Compaction changes neither the length nor the content of the unread part,
\* never grows the storage, and leaves a position that is small in absolute
\* terms or relative to the storage.
LEMMA CompactFacts ==
  ASSUME NEW d \in Seq(Nat), NEW p \in Nat, p <= Len(d)
  PROVE  /\ Compacted(d, p) \in Seq(Nat)
         /\ CompactedPos(d, p) \in Nat
         /\ CompactedPos(d, p) <= Len(Compacted(d, p))
         /\ Len(Compacted(d, p)) - CompactedPos(d, p) = Len(d) - p
         /\ Len(Compacted(d, p)) <= Len(d)
         /\ \A i \in 1..(Len(d) - p) :
              Compacted(d, p)[CompactedPos(d, p) + i] = d[p + i]
         /\ \/ CompactedPos(d, p) <= COMPACT_THRESHOLD
            \/ 2 * CompactedPos(d, p) < Len(Compacted(d, p))
<1>0. Len(d) \in Nat
  BY LenProperties
<1>1. CASE Compacts(d, p)
  <2>1. /\ SubSeq(d, p + 1, Len(d)) \in Seq(Nat)
        /\ Len(SubSeq(d, p + 1, Len(d))) = Len(d) - p
        /\ \A i \in 1..(Len(d) - p) : SubSeq(d, p + 1, Len(d))[i] = d[p + i]
    BY <1>0, PartFacts
  <2>2. Compacted(d, p) = SubSeq(d, p + 1, Len(d)) /\ CompactedPos(d, p) = 0
    BY <1>1 DEF Compacted, CompactedPos
  <2>3. \A i \in 1..(Len(d) - p) : 0 + i = i
    BY <1>0
  <2> QED
    BY <1>0, <2>1, <2>2, <2>3, SizesAssumption
<1>2. CASE ~Compacts(d, p)
  <2>1. Compacted(d, p) = d /\ CompactedPos(d, p) = p
    BY <1>2 DEF Compacted, CompactedPos
  <2>2. p <= COMPACT_THRESHOLD \/ 2 * p < Len(d)
    BY <1>0, <1>2, SizesAssumption DEF Compacts
  <2> QED
    BY <1>0, <2>1, <2>2
<1> QED
  BY <1>1, <1>2

-----------------------------------------------------------------------------
(* The unread part after the storage operations of feed() and of the reads *)

\* Plain arithmetic facts every step uses.
LEMMA Basics ==
  ASSUME Inv
  PROVE  /\ data \in Seq(Nat) /\ Len(data) \in Nat /\ pos \in Nat
         /\ taken \in Nat /\ fed \in Nat /\ skip_remaining \in Nat
         /\ available \in Int
         /\ max_message_size \in Nat /\ HEADER_SIZE \in Nat \ {0}
  BY LenProperties, SizesAssumption DEF Inv, TypeOK, available

\* The head of an unpoisoned buffer is the byte at `taken`, so the size its
\* header claims is a positive number of bytes.
LEMMA HeadFacts ==
  ASSUME Inv, ~is_poisoned, has_header
  PROVE  /\ data[pos + 1] = taken
         /\ taken \in 0..(StreamLen - 1)
         /\ total_size = HEADER_SIZE + stream[taken].words * WORD_SIZE
         /\ total_size \in Nat \ {0}
<1>0. /\ data \in Seq(Nat) /\ Len(data) \in Nat /\ pos \in Nat
      /\ taken \in Nat /\ fed \in Nat /\ skip_remaining \in Nat
      /\ available \in Int
      /\ max_message_size \in Nat /\ HEADER_SIZE \in Nat \ {0}
  BY Basics
<1>1. data[pos + 1] = taken
  <2>1. Live
    BY DEF Inv
  <2>2. 1 \in 1..available
    BY <1>0 DEF has_header
  <2>3. data[pos + 1] = taken + 1 - 1
    BY <2>1, <2>2 DEF Live
  <2> QED
    BY <2>3, <1>0
<1>2. taken \in 0..(StreamLen - 1)
  <2>1. taken + available = fed /\ fed <= StreamLen
    BY SizesAssumption DEF Inv, Live, TypeOK
  <2> QED
    BY <2>1, <1>0, SizesAssumption DEF has_header
<1>3. stream[taken].words \in Nat
  BY <1>2 DEF Inv, TypeOK
<1>4. stream[taken].words * WORD_SIZE \in Nat
  BY <1>3, SizesAssumption
<1>5. total_size = HEADER_SIZE + stream[taken].words * WORD_SIZE
  BY <1>1 DEF total_size
<1>6. \A m \in Nat : HEADER_SIZE + m \in Nat \ {0}
  BY <1>0
<1> QED
  BY <1>1, <1>2, <1>4, <1>5, <1>6

\* The frame read_message() returns is there, as long as its header claims and
\* within the cap, and no skip is in flight.
LEMMA ReadableFacts ==
  ASSUME Inv, Readable
  PROVE  /\ ~is_poisoned /\ total_size \in Nat \ {0} /\ total_size <= available
         /\ total_size = HEADER_SIZE + stream[taken].words * WORD_SIZE
         /\ total_size <= max_message_size
         /\ taken \in 0..(StreamLen - 1)
         /\ data[pos + 1] = taken
         /\ skip_remaining = 0
<1>1. /\ ~is_poisoned
      /\ total_size = HEADER_SIZE + stream[taken].words * WORD_SIZE
      /\ total_size \in Nat \ {0}
      /\ taken \in 0..(StreamLen - 1)
      /\ data[pos + 1] = taken
  BY HeadFacts DEF Readable
<1>2. available \in Int /\ max_message_size \in Nat /\ skip_remaining \in Nat
  BY Basics
<1>3. total_size <= available /\ total_size <= max_message_size
  BY <1>1, <1>2 DEF Readable, oversized
<1>4. skip_remaining = 0
  BY <1>1, <1>2, <1>3 DEF Inv, Live, is_skipping
<1> QED
  BY <1>1, <1>3, <1>4

\* An accepted chunk extends the unread part by what the skip leaves of it,
\* within the cap, and the storage stays within its bound.
LEMMA FeedFacts ==
  ASSUME Inv, ~is_poisoned, NEW n \in Nat, ~Rejects(n), fed + n <= StreamLen
  PROVE  /\ discard(n) \in Nat /\ discard(n) <= n /\ discard(n) <= skip_remaining
         /\ Extended(n) \in Seq(Nat)
         /\ ExtendedPos(n) \in Nat
         /\ ExtendedPos(n) <= Len(Extended(n))
         /\ Len(Extended(n)) - ExtendedPos(n) = available + (n - discard(n))
         /\ Len(Extended(n)) - ExtendedPos(n) <= max_message_size
         /\ Len(Extended(n)) <= max_message_size + Larger(COMPACT_THRESHOLD, max_message_size)
         /\ \A i \in 1..(Len(Extended(n)) - ExtendedPos(n)) :
               Extended(n)[ExtendedPos(n) + i] = taken + discard(n) + i - 1
<1>0. /\ data \in Seq(Nat) /\ Len(data) \in Nat /\ pos \in Nat
      /\ taken \in Nat /\ fed \in Nat /\ skip_remaining \in Nat
      /\ available \in Int
      /\ max_message_size \in Nat /\ HEADER_SIZE \in Nat \ {0}
  BY Basics
<1> DEFINE k == discard(n)
           r == n - k
           c == Compacted(data, pos)
           q == CompactedPos(data, pos)
<1>1. Live
  BY DEF Inv
<1>2. k \in Nat /\ k <= n /\ k <= skip_remaining /\ r \in Nat
  BY <1>0 DEF discard, Least
<1>3. available + r <= max_message_size
  <2>1. effective_len(n) = r
    BY <1>0 DEF effective_len, discard, Least
  <2> QED
    BY <1>2, <2>1, <1>0 DEF Rejects, projected
<1>4. available \in Nat /\ available = Len(data) - pos
  BY <1>1, <1>0 DEF Live, available
<1>5. CASE is_skipping /\ n = discard(n)
  <2>1. Extended(n) = data /\ ExtendedPos(n) = pos /\ r = 0
    BY <1>5, <1>0 DEF Extended, ExtendedPos
  <2>2. available = 0
    BY <1>1, <1>5 DEF Live
  <2>3. Len(data) <= max_message_size + Larger(COMPACT_THRESHOLD, max_message_size)
    BY DEF Inv, MemoryBound
  <2>4. pos <= Len(data) /\ Len(data) - pos = 0
    BY <2>2, <1>4, <1>0
  <2>5. discard(n) \in Nat /\ discard(n) <= skip_remaining /\ discard(n) = n
    BY <1>2, <1>5
  <2>6. available + (n - discard(n)) = 0 /\ 1..(Len(data) - pos) = {}
    BY <2>2, <2>4, <2>5
  <2> QED
    BY <2>1, <2>2, <2>3, <2>4, <2>5, <2>6, <1>0
<1>6. CASE ~(is_skipping /\ n = discard(n))
  <2>1. Extended(n) = c \o Run(fed + k, r) /\ ExtendedPos(n) = q
    BY <1>6 DEF Extended, ExtendedPos
  <2>2. /\ c \in Seq(Nat) /\ q \in Nat /\ q <= Len(c)
        /\ Len(c) - q = available
        /\ \A i \in 1..available : c[q + i] = data[pos + i]
        /\ q <= COMPACT_THRESHOLD \/ 2 * q < Len(c)
    BY <1>1, <1>4, <1>0, CompactFacts DEF Live
  <2>3. Len(c) \in Nat
    BY <2>2, LenProperties
  <2>4. fed + k \in Nat
    BY <1>2, <1>0
  <2>5. /\ Run(fed + k, r) \in Seq(Nat)
        /\ Len(Run(fed + k, r)) = r
        /\ \A i \in 1..r : Run(fed + k, r)[i] = (fed + k) + i - 1
    BY <1>2, <2>4, RunFacts
  <2> HIDE DEF c, q, k, r
  <2> DEFINE u == Run(fed + k, r)
  <2> HIDE DEF u
  <2>a. /\ c \o u \in Seq(Nat)
        /\ Len(c \o u) = Len(c) + Len(u)
        /\ \A i \in 1..(Len(c) + Len(u)) : (c \o u)[i] =
              IF i <= Len(c) THEN c[i] ELSE u[i - Len(c)]
    <3>1. u \in Seq(Nat)
      BY <2>5 DEF u
    <3> QED
      BY <2>2, <3>1, ConcatProperties
  <2>6. /\ Extended(n) \in Seq(Nat)
        /\ Len(Extended(n)) = Len(c) + r
        /\ \A i \in 1..(Len(c) + r) : Extended(n)[i] =
              IF i <= Len(c) THEN c[i] ELSE Run(fed + k, r)[i - Len(c)]
    BY <2>1, <2>5, <2>a DEF u
  <2>7. Len(Extended(n)) - q = available + r
    BY <2>6, <2>2, <2>3, <1>2
  <2>8. Len(Extended(n)) <= max_message_size + Larger(COMPACT_THRESHOLD, max_message_size)
    BY <2>6, <2>2, <2>3, <1>2, <1>3, <1>4, <1>0, SizesAssumption, SMTT(30) DEF Larger
  <2>9. ASSUME NEW i \in 1..(available + r)
        PROVE  Extended(n)[q + i] = taken + k + i - 1
    <3>1. q + i \in 1..(Len(c) + r)
      BY <2>2, <2>3, <1>2, <1>4
    <3>2. CASE i <= available
      <4>1. q + i <= Len(c) /\ i \in 1..available
        BY <3>2, <2>2, <2>3, <1>2, <1>4
      <4>2. Extended(n)[q + i] = data[pos + i]
        BY <4>1, <3>1, <2>2, <2>6
      <4>3. data[pos + i] = taken + i - 1
        BY <4>1, <1>1 DEF Live
      <4>4. ~is_skipping /\ k = 0
        BY <1>1, <1>4, <4>1, <1>0, SMTT(30) DEF Live, is_skipping, k, discard, Least
      <4> QED
        BY <4>2, <4>3, <4>4, <1>0
    <3>3. CASE i > available
      <4>1. ~(q + i <= Len(c)) /\ (q + i) - Len(c) = i - available
        BY <3>3, <2>2, <2>3, <1>4
      <4>2. i - available \in 1..r
        BY <3>3, <1>2, <1>4
      <4>3. Extended(n)[q + i] = (fed + k) + (i - available) - 1
        BY <4>1, <4>2, <3>1, <2>5, <2>6
      <4>4. taken + available = fed
        BY <1>1 DEF Live
      <4> QED
        BY <4>3, <4>4, <1>2, <1>4, <1>0, SMTT(30)
    <3> QED
      BY <3>2, <3>3, <1>4, <1>2
  <2>10. q <= Len(Extended(n))
    BY <2>6, <2>2, <2>3, <1>2
  <2> QED
    BY <1>2, <1>3, <2>1, <2>2, <2>6, <2>7, <2>8, <2>9, <2>10 DEF k, r
<1> QED
  BY <1>5, <1>6

\* Removing n bytes that are there hands out the next n bytes of the stream
\* and leaves the rest of the unread part as it was.
LEMMA TakeFacts ==
  ASSUME Inv, ~is_poisoned, NEW n \in Nat, n <= available,
         NEW op \in {"frame", "skipped", "raw"}, Take(n, op)
  PROVE  /\ data' \in Seq(Nat) /\ pos' \in Nat /\ taken' = taken + n
         /\ pos' <= Len(data')
         /\ Len(data') <= Len(data)
         /\ Len(data') - pos' = available - n
         /\ \A i \in 1..(Len(data') - pos') : data'[pos' + i] = taken' + i - 1
         /\ last' \in Handed
         /\ last'.op = op /\ last'.at = taken
         /\ Len(last'.bytes) = n
         /\ last'.bytes = Run(taken, n)
<1>0. /\ data \in Seq(Nat) /\ Len(data) \in Nat /\ pos \in Nat
      /\ taken \in Nat /\ fed \in Nat /\ skip_remaining \in Nat
      /\ available \in Int
      /\ max_message_size \in Nat /\ HEADER_SIZE \in Nat \ {0}
  BY Basics
<1>1. Live
  BY DEF Inv
<1>2. available \in Nat /\ available = Len(data) - pos
  BY <1>1, <1>0 DEF Live, available
<1>3. pos + n \in Nat /\ pos + n <= Len(data) /\ Len(data) - (pos + n) = available - n
  BY <1>2, <1>0
<1>4. /\ data' \in Seq(Nat) /\ pos' \in Nat
      /\ pos' <= Len(data')
      /\ Len(data') - pos' = available - n
      /\ Len(data') <= Len(data)
      /\ \A i \in 1..(available - n) : data'[pos' + i] = data[(pos + n) + i]
  <2>1. data' = Compacted(data, pos + n) /\ pos' = CompactedPos(data, pos + n)
    BY DEF Take
  <2>2. /\ Compacted(data, pos + n) \in Seq(Nat)
        /\ CompactedPos(data, pos + n) \in Nat
        /\ CompactedPos(data, pos + n) <= Len(Compacted(data, pos + n))
        /\ Len(Compacted(data, pos + n)) - CompactedPos(data, pos + n)
             = Len(data) - (pos + n)
        /\ Len(Compacted(data, pos + n)) <= Len(data)
        /\ \A i \in 1..(Len(data) - (pos + n)) :
             Compacted(data, pos + n)[CompactedPos(data, pos + n) + i]
               = data[(pos + n) + i]
    BY <1>3, <1>0, CompactFacts
  <2> QED
    BY <2>1, <2>2, <1>3
<1>5. taken' = taken + n
  BY DEF Take
<1>6. ASSUME NEW i \in 1..(available - n)
      PROVE  data'[pos' + i] = taken' + i - 1
  <2>1. n + i \in 1..available /\ (pos + n) + i = pos + (n + i)
    BY <1>2, <1>0
  <2>2. data[pos + (n + i)] = taken + (n + i) - 1
    BY <2>1, <1>1 DEF Live
  <2> QED
    BY <1>4, <1>5, <2>1, <2>2, <1>0
<1>7. /\ SubSeq(data, pos + 1, pos + n) \in Seq(Nat)
      /\ Len(SubSeq(data, pos + 1, pos + n)) = n
      /\ \A i \in 1..n : SubSeq(data, pos + 1, pos + n)[i] = data[pos + i]
  <2>1. pos <= pos + n /\ (pos + n) - pos = n
    BY <1>0
  <2> QED
    BY <2>1, <1>3, <1>0, PartFacts
<1>8. SubSeq(data, pos + 1, pos + n) = Run(taken, n)
  <2>1. \A i \in 1..n : data[pos + i] = taken + i - 1
    BY <1>1, <1>2 DEF Live
  <2> QED
    BY <1>7, <2>1, <1>0, RunUnique, Zenon
<1>9. last' = [op |-> op, at |-> taken, bytes |-> SubSeq(data, pos + 1, pos + n)]
  BY DEF Take
<1> QED
  BY <1>4, <1>5, <1>6, <1>7, <1>8, <1>9, <1>0 DEF Handed

-----------------------------------------------------------------------------
(* Preservation of the invariant *)

\* Whatever _maybe_compact leaves when it is cut short is no larger than the
\* storage it started from.
LEMMA TornFacts ==
  ASSUME NEW d \in Seq(Nat), NEW p \in Nat, p <= Len(d), NEW t \in TornCompactions(d, p)
  PROVE  t[1] \in Seq(Nat) /\ t[2] \in Nat /\ Len(t[1]) <= Len(d)
<1>1. /\ Compacted(d, p) \in Seq(Nat)
      /\ CompactedPos(d, p) \in Nat
      /\ Len(Compacted(d, p)) <= Len(d)
  BY CompactFacts
<1>2. Len(d) \in Nat
  BY LenProperties
<1> QED
  BY <1>1, <1>2 DEF TornCompactions

\* A step that leaves the buffer poisoned owes only types and the bound.
LEMMA PoisoningKeepsInv ==
  ASSUME Inv, poisoned' \in Causes, is_poisoned',
         data' \in Seq(Nat), pos' \in Nat,
         Len(data') <= max_message_size + Larger(COMPACT_THRESHOLD, max_message_size),
         skip_remaining' \in 0..max_message_size,
         poison_after_skip' \in {"none", "capped"},
         UNCHANGED wire_vars
  PROVE  Inv'
<1>1. TypeOK'
  BY DEF Inv, TypeOK, wire_vars
<1>2. MemoryBound'
  BY DEF MemoryBound, Larger
<1>3. HandedInOrder'
  BY DEF Inv, HandedInOrder, wire_vars
<1> QED
  BY <1>1, <1>2, <1>3 DEF Inv

\* Removing bytes from an unpoisoned buffer, whether or not it is poisoned then.
LEMMA TakeKeepsInv ==
  ASSUME Inv, ~is_poisoned, NEW n \in Nat, n <= available,
         NEW op \in {"frame", "skipped", "raw"}, Take(n, op),
         poisoned' \in Causes,
         UNCHANGED <<skip_remaining, poison_after_skip, stream, fed>>,
         op = "frame" => /\ n = HEADER_SIZE + stream[taken].words * WORD_SIZE
                         /\ n <= max_message_size
  PROVE  Inv'
<1>0. /\ data \in Seq(Nat) /\ Len(data) \in Nat /\ pos \in Nat
      /\ taken \in Nat /\ fed \in Nat /\ skip_remaining \in Nat
      /\ available \in Int
      /\ max_message_size \in Nat /\ HEADER_SIZE \in Nat \ {0}
  BY Basics
<1>1. /\ data' \in Seq(Nat) /\ pos' \in Nat /\ taken' = taken + n
      /\ pos' <= Len(data')
      /\ Len(data') <= Len(data)
      /\ Len(data') - pos' = available - n
      /\ \A i \in 1..(Len(data') - pos') : data'[pos' + i] = taken' + i - 1
      /\ last' \in Handed
      /\ last'.op = op /\ last'.at = taken
      /\ Len(last'.bytes) = n
      /\ last'.bytes = Run(taken, n)
  BY TakeFacts
<1>2. Live
  BY DEF Inv
<1>3. TypeOK'
  BY <1>0, <1>1 DEF Inv, TypeOK
<1>4. MemoryBound'
  <2>1. Len(data') \in Nat
    BY <1>1, LenProperties
  <2> QED
    BY <2>1, <1>0, <1>1, SizesAssumption DEF Inv, MemoryBound, Larger
<1>5. HandedInOrder'
  BY <1>1 DEF HandedInOrder, Run
<1>6. Live'
  <2>1. available' = available - n
    BY <1>1 DEF available
  <2>2. pos' <= Len(data') /\ \A i \in 1..available' : data'[pos' + i] = taken' + i - 1
    BY <1>1, <2>1 DEF available
  <2>3. available' <= max_message_size /\ taken' + available' = fed'
    BY <1>0, <1>1, <1>2, <2>1 DEF Live
  <2>4. (is_skipping <=> poison_after_skip # "none")'
    BY <1>2 DEF Live, is_skipping
  <2>5. is_skipping' => available' = 0
    BY <1>0, <1>2, <2>1 DEF Live, is_skipping
  <2> QED
    BY <2>2, <2>3, <2>4, <2>5 DEF Live
<1> QED
  BY <1>3, <1>4, <1>5, <1>6 DEF Inv

\* An interrupted read leaves storage no larger than it found.
LEMMA TakeInterruptedKeepsInv ==
  ASSUME Inv, ~is_poisoned, NEW n \in Nat, n <= available, TakeInterrupted(n),
         UNCHANGED <<skip_remaining, poison_after_skip>>, UNCHANGED wire_vars
  PROVE  Inv'
<1>0. /\ data \in Seq(Nat) /\ Len(data) \in Nat /\ pos \in Nat
      /\ available \in Int
  BY Basics
<1>1. PICK t \in {<<data, pos>>} \cup TornCompactions(data, pos + n) :
        data' = t[1] /\ pos' = t[2]
  BY DEF TakeInterrupted
<1>2. pos + n \in Nat /\ pos + n <= Len(data)
  BY <1>0 DEF available
<1>3. t[1] \in Seq(Nat) /\ t[2] \in Nat /\ Len(t[1]) <= Len(data)
  <2>1. CASE t = <<data, pos>>
    BY <2>1, <1>0
  <2>2. CASE t \in TornCompactions(data, pos + n)
    BY <2>2, <1>0, <1>2, TornFacts
  <2> QED
    BY <2>1, <2>2
<1>4. Len(data') <= max_message_size + Larger(COMPACT_THRESHOLD, max_message_size)
  <2>1. Len(t[1]) \in Nat
    BY <1>3, LenProperties
  <2> QED
    BY <2>1, <1>0, <1>1, <1>3, SizesAssumption DEF Inv, MemoryBound, Larger
<1>5. poisoned' \in Causes /\ is_poisoned'
  BY DEF TakeInterrupted, PoisonedBy, is_poisoned, Causes
<1>6. skip_remaining' \in 0..max_message_size /\ poison_after_skip' \in {"none", "capped"}
  BY DEF Inv, TypeOK
<1> QED
  BY <1>1, <1>3, <1>4, <1>5, <1>6, PoisoningKeepsInv

\* An accepted chunk, a completed skip included.
LEMMA FeedKeepsInv ==
  ASSUME Inv, NEW n \in Nat, feed(n)
  PROVE  Inv'
<1>0. /\ data \in Seq(Nat) /\ Len(data) \in Nat /\ pos \in Nat
      /\ taken \in Nat /\ fed \in Nat /\ skip_remaining \in Nat
      /\ available \in Int
      /\ max_message_size \in Nat /\ HEADER_SIZE \in Nat \ {0}
  BY Basics
<1>1. /\ discard(n) \in Nat /\ discard(n) <= n /\ discard(n) <= skip_remaining
      /\ Extended(n) \in Seq(Nat)
      /\ ExtendedPos(n) \in Nat
      /\ ExtendedPos(n) <= Len(Extended(n))
      /\ Len(Extended(n)) - ExtendedPos(n) = available + (n - discard(n))
      /\ Len(Extended(n)) - ExtendedPos(n) <= max_message_size
      /\ Len(Extended(n)) <= max_message_size + Larger(COMPACT_THRESHOLD, max_message_size)
      /\ \A i \in 1..(Len(Extended(n)) - ExtendedPos(n)) :
            Extended(n)[ExtendedPos(n) + i] = taken + discard(n) + i - 1
  BY FeedFacts DEF feed
<1>2. ~is_poisoned /\ Live
  BY DEF Inv, feed
<1>3. skip_remaining' = skip_remaining - discard(n) /\ skip_remaining' \in 0..max_message_size
  <2>1. skip_remaining' = skip_remaining - discard(n)
    BY DEF feed
  <2>2. skip_remaining \in 0..max_message_size
    BY DEF Inv, TypeOK
  <2>3. discard(n) \in Nat /\ discard(n) <= skip_remaining
    BY <1>1
  <2> QED
    BY <2>1, <2>2, <2>3, <1>0
<1>4. TypeOK'
  <2>1. fed' \in 0..StreamLen /\ taken' \in Nat
    BY <1>0, <1>1, SizesAssumption DEF feed
  <2>2. poisoned' \in Causes /\ poison_after_skip' \in {"none", "capped"}
    BY DEF feed, Inv, TypeOK, Causes
  <2>3. /\ data' = Extended(n) /\ pos' = ExtendedPos(n)
        /\ UNCHANGED <<stream, last>>
    BY DEF feed
  <2>4. last' \in Handed /\ \A o \in 0..(StreamLen - 1) : stream'[o].words \in Nat
    BY <2>3 DEF Inv, TypeOK
  <2> QED
    BY <1>1, <1>3, <2>1, <2>2, <2>3, <2>4 DEF TypeOK
<1>5. MemoryBound'
  BY <1>1 DEF feed, MemoryBound, Larger
<1>6. HandedInOrder'
  BY DEF feed, Inv, HandedInOrder
<1>7. ASSUME ~is_poisoned' PROVE Live'
  <2>1. ~Fires(n) /\ poison_after_skip' = poison_after_skip
    BY <1>2, <1>7 DEF feed, Fires, is_poisoned
  <2>2. data' = Extended(n) /\ pos' = ExtendedPos(n) /\ taken' = taken + discard(n)
        /\ fed' = fed + n
    BY DEF feed
  <2>3. available' = available + (n - discard(n)) /\ available' <= max_message_size
    BY <1>1, <2>2 DEF available
  <2>4. pos' <= Len(data') /\ \A i \in 1..available' : data'[pos' + i] = taken' + i - 1
    BY <1>1, <2>2 DEF available
  <2>5. taken' + available' = fed'
    <3>1. taken + available = fed
      BY <1>2 DEF Live
    <3>2. discard(n) \in Nat
      BY <1>1
    <3>3. /\ taken' = taken + discard(n) /\ fed' = fed + n
          /\ available' = available + (n - discard(n))
      BY <2>2, <2>3
    <3>4. taken \in Int /\ available \in Int /\ fed \in Int
      BY <1>0
    <3>5. \A t, a, f, m, d \in Int : t + a = f => (t + d) + (a + (m - d)) = f + m
      OBVIOUS
    <3>6. (taken + discard(n)) + (available + (n - discard(n))) = fed + n
      BY <3>1, <3>2, <3>4, <3>5
    <3> QED
      BY <3>3, <3>6, Zenon
  <2>6. is_skipping' => is_skipping /\ n = discard(n)
    BY <1>0, <1>1, <1>3 DEF is_skipping, discard, Least
  <2>7. (is_skipping <=> poison_after_skip # "none")'
    <3>1. CASE is_skipping
      <4>1. skip_remaining # discard(n)
        BY <3>1, <2>1, <1>2 DEF Fires, Live
      <4>2. is_skipping'
        BY <4>1, <1>0, <1>1, <1>3 DEF is_skipping
      <4> QED
        BY <3>1, <4>2, <2>1, <1>2 DEF Live
    <3>2. CASE ~is_skipping
      BY <3>2, <2>1, <2>6, <1>2 DEF Live
    <3> QED
      BY <3>1, <3>2
  <2>8. is_skipping' => available' = 0
    BY <2>3, <2>6, <1>0, <1>1, <1>2 DEF Live
  <2> QED
    BY <2>3, <2>4, <2>5, <2>7, <2>8 DEF Live
<1> QED
  BY <1>4, <1>5, <1>6, <1>7 DEF Inv

\* A rejected chunk that poisons.
LEMMA FeedRejectKeepsInv ==
  ASSUME Inv, NEW n \in Nat, feed_reject(n)
  PROVE  Inv'
<1>1. poisoned' \in Causes /\ is_poisoned'
  BY DEF feed_reject, PoisonedBy, is_poisoned, Causes
<1>2. data' = data /\ pos' = pos /\ UNCHANGED wire_vars
  BY DEF feed_reject
<1>3. skip_remaining' \in 0..max_message_size /\ poison_after_skip' \in {"none", "capped"}
  BY SizesAssumption DEF feed_reject, Inv, TypeOK
<1>4. data' \in Seq(Nat) /\ pos' \in Nat
  BY <1>2 DEF Inv, TypeOK
<1>5. Len(data') <= max_message_size + Larger(COMPACT_THRESHOLD, max_message_size)
  BY <1>2 DEF Inv, MemoryBound
<1> QED
  BY <1>1, <1>2, <1>3, <1>4, <1>5, PoisoningKeepsInv

\* An interrupted feed, wherever it was cut.
LEMMA FeedInterruptedKeepsInv ==
  ASSUME Inv, NEW n \in Nat, feed_interrupted(n)
  PROVE  Inv'
<1>0. /\ data \in Seq(Nat) /\ Len(data) \in Nat /\ pos \in Nat
      /\ taken \in Nat /\ fed \in Nat /\ skip_remaining \in Nat
      /\ available \in Int
      /\ max_message_size \in Nat /\ HEADER_SIZE \in Nat \ {0}
  BY Basics
<1>1. /\ discard(n) \in Nat /\ discard(n) <= n /\ discard(n) <= skip_remaining
      /\ Extended(n) \in Seq(Nat)
      /\ ExtendedPos(n) \in Nat
      /\ ExtendedPos(n) <= Len(Extended(n))
      /\ Len(Extended(n)) - ExtendedPos(n) = available + (n - discard(n))
      /\ Len(Extended(n)) - ExtendedPos(n) <= max_message_size
      /\ Len(Extended(n)) <= max_message_size + Larger(COMPACT_THRESHOLD, max_message_size)
      /\ \A i \in 1..(Len(Extended(n)) - ExtendedPos(n)) :
            Extended(n)[ExtendedPos(n) + i] = taken + discard(n) + i - 1
  BY FeedFacts DEF feed_interrupted
<1>2. UNCHANGED wire_vars
  BY DEF feed_interrupted
<1>3. poisoned' \in Causes /\ is_poisoned'
  BY DEF feed_interrupted, Fires, is_poisoned, Causes, Inv, TypeOK
<1>4. skip_remaining' \in 0..max_message_size
  <2>1. skip_remaining' \in {skip_remaining, skip_remaining - discard(n), 0}
    BY DEF feed_interrupted
  <2>2. skip_remaining \in 0..max_message_size
    BY DEF Inv, TypeOK
  <2>3. discard(n) \in Nat /\ discard(n) <= skip_remaining /\ max_message_size \in Nat
    BY <1>0, <1>1
  <2> QED
    BY <2>1, <2>2, <2>3
<1>5. poison_after_skip' \in {"none", "capped"}
  BY DEF feed_interrupted, Inv, TypeOK
<1>6. /\ data' \in Seq(Nat) /\ pos' \in Nat
      /\ Len(data') <= max_message_size + Larger(COMPACT_THRESHOLD, max_message_size)
  <2>0. pos <= Len(data)
    BY DEF feed_interrupted, Inv, Live
  <2>1. CASE UNCHANGED <<data, pos>>
    BY <2>1, <1>0 DEF Inv, MemoryBound
  <2>2. CASE \E t \in TornCompactions(data, pos) : data' = t[1] /\ pos' = t[2]
    <3>1. PICK t \in TornCompactions(data, pos) : data' = t[1] /\ pos' = t[2]
      BY <2>2
    <3>2. t[1] \in Seq(Nat) /\ t[2] \in Nat /\ Len(t[1]) <= Len(data)
      BY <2>0, <1>0, TornFacts
    <3>3. Len(t[1]) \in Nat
      BY <3>2, LenProperties
    <3> QED
      BY <3>1, <3>2, <3>3, <1>0, SizesAssumption DEF Inv, MemoryBound, Larger
  <2>3. CASE data' = Extended(n) /\ pos' = ExtendedPos(n)
    BY <2>3, <1>1
  <2> QED
    BY <2>1, <2>2, <2>3 DEF feed_interrupted
<1> QED
  BY <1>2, <1>3, <1>4, <1>5, <1>6, PoisoningKeepsInv

\* Skipping an oversized frame takes all that is buffered.
LEMMA OversizedFacts ==
  ASSUME Inv, ~is_poisoned, has_header, oversized
  PROVE  /\ effective_total = max_message_size
         /\ effective_total < total_size
         /\ skip_now = available
         /\ available \in Nat
         /\ effective_total - skip_now \in 0..max_message_size
         /\ Deferred(effective_total - skip_now) \in {"none", "capped"}
<1>0. /\ data \in Seq(Nat) /\ Len(data) \in Nat /\ pos \in Nat
      /\ taken \in Nat /\ fed \in Nat /\ skip_remaining \in Nat
      /\ available \in Int
      /\ max_message_size \in Nat /\ HEADER_SIZE \in Nat \ {0}
  BY Basics
<1>1. total_size \in Nat
  BY HeadFacts
<1>2. effective_total = max_message_size /\ effective_total < total_size
  BY <1>0, <1>1 DEF effective_total, oversized, Least
<1>3. available \in Nat /\ available <= max_message_size
  BY <1>0 DEF Inv, Live, available
<1>4. skip_now = available
  BY <1>0, <1>2, <1>3 DEF skip_now, Least
<1>5. Deferred(effective_total - skip_now) \in {"none", "capped"}
  BY DEF Deferred, Inv, TypeOK
<1> QED
  BY <1>0, <1>2, <1>3, <1>4, <1>5

\* Skipping an oversized frame arms the deferred poison, or poisons at once.
LEMMA SkipOversizedKeepsInv ==
  ASSUME Inv, skip_message_oversized
  PROVE  Inv'
<1>0. /\ data \in Seq(Nat) /\ Len(data) \in Nat /\ pos \in Nat
      /\ taken \in Nat /\ fed \in Nat /\ skip_remaining \in Nat
      /\ available \in Int
      /\ max_message_size \in Nat /\ HEADER_SIZE \in Nat \ {0}
  BY Basics
<1>1. ~is_poisoned /\ has_header /\ oversized /\ Live
  BY DEF skip_message_oversized, Inv
<1>2. /\ effective_total = max_message_size
      /\ effective_total < total_size
      /\ skip_now = available
      /\ available \in Nat
      /\ effective_total - skip_now \in 0..max_message_size
      /\ Deferred(effective_total - skip_now) \in {"none", "capped"}
  BY <1>1, OversizedFacts
<1>3. Take(skip_now, "skipped")
  BY DEF skip_message_oversized
<1>4. /\ data' \in Seq(Nat) /\ pos' \in Nat /\ taken' = taken + available
      /\ pos' <= Len(data')
      /\ Len(data') <= Len(data)
      /\ Len(data') - pos' = available - available
      /\ \A i \in 1..(Len(data') - pos') : data'[pos' + i] = taken' + i - 1
      /\ last' \in Handed
      /\ last'.op = "skipped" /\ last'.at = taken
      /\ Len(last'.bytes) = available
      /\ last'.bytes = Run(taken, available)
  <2>1. Take(available, "skipped") /\ available <= available
    BY <1>2, <1>3
  <2> QED
    BY <1>1, <1>2, <2>1, TakeFacts
<1>5. /\ skip_remaining' = effective_total - skip_now
      /\ poisoned' = IF effective_total < total_size /\ effective_total = skip_now
                     THEN PoisonedBy("capped") ELSE poisoned
      /\ poison_after_skip' = Deferred(effective_total - skip_now)
      /\ UNCHANGED <<stream, fed>>
  BY DEF skip_message_oversized
<1>6. TypeOK'
  <2>1. poisoned' \in Causes
    BY <1>5 DEF PoisonedBy, Causes, Inv, TypeOK
  <2>2. fed' \in 0..StreamLen /\ \A o \in 0..(StreamLen - 1) : stream'[o].words \in Nat
    BY <1>5 DEF Inv, TypeOK
  <2>3. taken' \in Nat
    BY <1>0, <1>2, <1>4
  <2> QED
    BY <1>2, <1>4, <1>5, <2>1, <2>2, <2>3 DEF TypeOK
<1>7. MemoryBound'
  <2>1. Len(data') \in Nat
    BY <1>4, LenProperties
  <2> QED
    BY <2>1, <1>0, <1>4, SizesAssumption DEF Inv, MemoryBound, Larger
<1>8. HandedInOrder'
  BY <1>4 DEF HandedInOrder, Run
<1>9. ASSUME ~is_poisoned' PROVE Live'
  <2>1. effective_total # skip_now
    BY <1>2, <1>5, <1>9 DEF PoisonedBy, is_poisoned
  <2>2. effective_total - skip_now > 0
    BY <2>1, <1>0, <1>2
  <2>3. is_skipping' /\ poison_after_skip' # "none"
    BY <2>2, <1>2, <1>5 DEF is_skipping, Deferred
  <2>4. available' = 0
    BY <1>2, <1>4 DEF available
  <2>5. taken' + available' = fed'
    BY <2>4, <1>0, <1>1, <1>2, <1>4, <1>5 DEF Live
  <2> QED
    BY <2>3, <2>4, <2>5, <1>0, <1>4, <1>5 DEF Live
<1> QED
  BY <1>6, <1>7, <1>8, <1>9 DEF Inv

\* An interrupted skip, of a frame of legal size or of an oversized one.
LEMMA SkipInterruptedKeepsInv ==
  ASSUME Inv, skip_message_interrupted
  PROVE  Inv'
<1>0. /\ data \in Seq(Nat) /\ Len(data) \in Nat /\ pos \in Nat
      /\ taken \in Nat /\ fed \in Nat /\ skip_remaining \in Nat
      /\ available \in Int
      /\ max_message_size \in Nat /\ HEADER_SIZE \in Nat \ {0}
  BY Basics
<1>1. CASE Readable /\ TakeInterrupted(total_size)
            /\ UNCHANGED <<skip_remaining, poison_after_skip>>
  <2>1. ~is_poisoned /\ has_header /\ total_size <= available
    BY <1>1, <1>0, HeadFacts DEF Readable
  <2>2. total_size \in Nat /\ UNCHANGED wire_vars
    BY <2>1, HeadFacts DEF skip_message_interrupted
  <2> QED
    BY <1>1, <2>1, <2>2, TakeInterruptedKeepsInv
<1>2. CASE ~is_poisoned /\ has_header /\ oversized /\ ~Readable
  <2>1. /\ effective_total = max_message_size
        /\ skip_now = available
        /\ available \in Nat
        /\ effective_total - skip_now \in 0..max_message_size
        /\ Deferred(effective_total - skip_now) \in {"none", "capped"}
    BY <1>2, OversizedFacts
  <2>2. PICK done \in 0..3 :
          /\ skip_remaining' = IF done >= 2 THEN effective_total - skip_now
                               ELSE skip_remaining
          /\ poison_after_skip' = IF done = 3
                                  THEN Deferred(effective_total - skip_now)
                                  ELSE poison_after_skip
          /\ poisoned' = IF done = 3 /\ effective_total = skip_now
                         THEN "capped" ELSE "interrupt"
          /\ \E t \in IF done = 3 THEN TornCompactions(data, pos + skip_now)
                      ELSE {<<data, IF done = 0 THEN pos ELSE pos + skip_now>>} :
                data' = t[1] /\ pos' = t[2]
    BY <1>2 DEF skip_message_interrupted
  <2>3. poisoned' \in Causes /\ is_poisoned'
    BY <2>2 DEF Causes, is_poisoned
  <2>4. skip_remaining' \in 0..max_message_size /\ poison_after_skip' \in {"none", "capped"}
    BY <2>1, <2>2 DEF Inv, TypeOK
  <2>5. pos + available \in Nat /\ pos + available <= Len(data)
    BY <1>0, <2>1 DEF available
  <2>6. /\ data' \in Seq(Nat) /\ pos' \in Nat
        /\ Len(data') <= Len(data)
    <3>1. CASE done = 3
      <4>1. PICK t \in TornCompactions(data, pos + available) : data' = t[1] /\ pos' = t[2]
        BY <3>1, <2>1, <2>2
      <4> QED
        BY <4>1, <2>5, <1>0, TornFacts
    <3>2. CASE done # 3
      <4>1. data' = data /\ pos' \in {pos, pos + available}
        BY <3>2, <2>1, <2>2
      <4> QED
        BY <4>1, <2>5, <1>0
    <3> QED
      BY <3>1, <3>2
  <2>7. Len(data') <= max_message_size + Larger(COMPACT_THRESHOLD, max_message_size)
    <3>1. Len(data') \in Nat
      BY <2>6, LenProperties
    <3> QED
      BY <3>1, <2>6, <1>0, SizesAssumption DEF Inv, MemoryBound, Larger
  <2>8. UNCHANGED wire_vars
    BY DEF skip_message_interrupted
  <2> QED
    BY <2>3, <2>4, <2>6, <2>7, <2>8, PoisoningKeepsInv
<1> QED
  BY <1>1, <1>2 DEF skip_message_interrupted, Readable

\* reset() puts the buffer in its initial state.
LEMMA ClearedKeepsInv ==
  ASSUME Inv, Cleared, Reconnected \/ (UNCHANGED wire_vars /\ taken = fed)
  PROVE  Inv'
<1>1. /\ data' = <<>> /\ pos' = 0 /\ skip_remaining' = 0
      /\ poisoned' = "none" /\ poison_after_skip' = "none"
  BY DEF Cleared
<1>2. data' \in Seq(Nat) /\ Len(data') = 0
  BY <1>1, EmptySeq
<1>3. /\ fed' \in 0..StreamLen /\ taken' \in Nat /\ last' \in Handed
      /\ taken' = fed'
      /\ \A o \in 0..(StreamLen - 1) : stream'[o].words \in Nat
  <2>1. CASE Reconnected
    BY <2>1, EmptySeq, SizesAssumption, InputsAssumption DEF Reconnected, Nothing, Handed
  <2>2. CASE UNCHANGED wire_vars /\ taken = fed
    BY <2>2 DEF wire_vars, Inv, TypeOK
  <2> QED
    BY <2>1, <2>2
<1>4. TypeOK'
  BY <1>1, <1>2, <1>3, SizesAssumption DEF TypeOK, Causes
<1>5. MemoryBound'
  BY <1>2, SizesAssumption DEF MemoryBound, Larger
<1>6. HandedInOrder'
  <2>1. CASE Reconnected
    <3>1. Run(0, 0) = <<>>
      BY RunFacts, EmptySeq
    <3> QED
      BY <2>1, <3>1, EmptySeq DEF Reconnected, Nothing, HandedInOrder
  <2>2. CASE UNCHANGED wire_vars
    BY <2>2 DEF wire_vars, Inv, HandedInOrder
  <2> QED
    BY <2>1, <2>2
<1>7. Live'
  <2>1. available' = 0
    BY <1>1, <1>2 DEF available
  <2>2. ~is_skipping' /\ poison_after_skip' = "none"
    BY <1>1 DEF is_skipping
  <2>3. \A i \in 1..available' : data'[pos' + i] = taken' + i - 1
    BY <2>1
  <2>4. available' <= max_message_size /\ pos' <= Len(data')
    BY <2>1, <1>1, <1>2, SizesAssumption
  <2>5. taken' + 0 = fed'
    <3>1. \A x \in Nat : x + 0 = x
      OBVIOUS
    <3>2. taken' + 0 = taken'
      BY <1>3, <3>1, Zenon
    <3> QED
      BY <1>3, <3>2, Zenon
  <2>6. taken' + available' = fed'
    BY <2>1, <2>5, Zenon
  <2> QED
    BY <2>1, <2>2, <2>3, <2>4, <2>6 DEF Live
<1> QED
  BY <1>4, <1>5, <1>6, <1>7 DEF Inv

-----------------------------------------------------------------------------
(* The invariant *)

\* A new buffer satisfies the invariant (ReadBuffer.__init__).
LEMMA InitInv == Init => Inv
<1> SUFFICES ASSUME Init PROVE Inv
  OBVIOUS
<1>1. data = <<>> /\ data \in Seq(Nat) /\ Len(data) = 0 /\ <<>> \in Seq(Nat)
  BY EmptySeq DEF Init
<1>2. TypeOK
  BY <1>1, SizesAssumption, InputsAssumption DEF Init, TypeOK, Causes, Handed, Nothing
<1>3. MemoryBound
  BY <1>1, SizesAssumption DEF MemoryBound, Larger
<1>4. HandedInOrder
  <2>1. Run(0, 0) = <<>> /\ Len(<<>>) = 0
    BY RunFacts, EmptySeq
  <2> QED
    BY <2>1 DEF Init, Nothing, HandedInOrder
<1>5. Live
  <2>1. available = 0
    BY <1>1 DEF Init, available
  <2>2. pos <= Len(data) /\ available <= max_message_size /\ taken + available = fed
    BY <2>1, <1>1, SizesAssumption DEF Init
  <2>3. \A j \in 1..available : data[pos + j] = taken + j - 1
    BY <2>1
  <2> QED
    BY <2>1, <2>2, <2>3 DEF Init, Live, is_skipping
<1> QED
  BY <1>2, <1>3, <1>4, <1>5 DEF Inv

\* Every call preserves the invariant.
LEMMA NextInv == Inv /\ [Next]_rb_vars => Inv'
<1> SUFFICES ASSUME Inv, [Next]_rb_vars PROVE Inv'
  OBVIOUS
<1>0. Chunks \subseteq Nat /\ RawReads \subseteq Nat
  BY InputsAssumption
<1>1. ASSUME NEW n \in Chunks, feed(n) PROVE Inv'
  BY <1>0, <1>1, FeedKeepsInv
<1>2. ASSUME NEW n \in Chunks, feed_reject(n) PROVE Inv'
  BY <1>0, <1>2, FeedRejectKeepsInv
<1>4. CASE read_message
  <2>1. /\ Readable /\ Take(total_size, "frame")
        /\ UNCHANGED <<skip_remaining, poisoned, poison_after_skip, stream, fed>>
        /\ poisoned' \in Causes
    BY <1>4 DEF read_message, Inv, TypeOK
  <2> QED
    BY <2>1, ReadableFacts, TakeKeepsInv
<1>5. CASE skip_message_complete
  <2>1. /\ Readable /\ Take(total_size, "skipped")
        /\ UNCHANGED <<skip_remaining, poisoned, poison_after_skip, stream, fed>>
        /\ poisoned' \in Causes
    BY <1>5 DEF skip_message_complete, Inv, TypeOK
  <2> QED
    BY <2>1, ReadableFacts, TakeKeepsInv
<1>6. CASE skip_message_oversized
  BY <1>6, SkipOversizedKeepsInv
<1>7. ASSUME NEW n \in RawReads, read_bytes(n) PROVE Inv'
  <2>1. n \in Nat /\ n <= available /\ ~is_poisoned /\ Take(n, "raw")
        /\ UNCHANGED <<skip_remaining, poisoned, poison_after_skip, stream, fed>>
        /\ poisoned' \in Causes
    BY <1>0, <1>7, Basics DEF read_bytes, Inv, TypeOK
  <2> QED
    BY <2>1, TakeKeepsInv
<1>8. CASE poison("decode")
  <2>1. poisoned' \in Causes /\ is_poisoned'
    BY <1>8 DEF poison, PoisonedBy, is_poisoned, Causes, Inv, TypeOK
  <2>2. /\ UNCHANGED <<data, pos, skip_remaining, poison_after_skip>>
        /\ UNCHANGED wire_vars
    BY <1>8 DEF poison
  <2>3. /\ data' \in Seq(Nat) /\ pos' \in Nat
        /\ skip_remaining' \in 0..max_message_size
        /\ poison_after_skip' \in {"none", "capped"}
    BY <2>2 DEF Inv, TypeOK
  <2>4. Len(data') <= max_message_size + Larger(COMPACT_THRESHOLD, max_message_size)
    BY <2>2 DEF Inv, MemoryBound
  <2> QED
    BY <2>1, <2>2, <2>3, <2>4, PoisoningKeepsInv
<1>9. ASSUME NEW n \in Chunks, feed_interrupted(n) PROVE Inv'
  BY <1>0, <1>9, FeedInterruptedKeepsInv
<1>10. CASE read_message_interrupted
  <2>1. /\ Readable /\ TakeInterrupted(total_size)
        /\ UNCHANGED <<skip_remaining, poison_after_skip>> /\ UNCHANGED wire_vars
    BY <1>10 DEF read_message_interrupted
  <2> QED
    BY <2>1, ReadableFacts, TakeInterruptedKeepsInv
<1>11. CASE skip_message_interrupted
  BY <1>11, SkipInterruptedKeepsInv
<1>12. ASSUME NEW n \in RawReads, read_bytes_interrupted(n) PROVE Inv'
  <2>1. n \in Nat /\ n <= available /\ ~is_poisoned /\ TakeInterrupted(n)
        /\ UNCHANGED <<skip_remaining, poison_after_skip>> /\ UNCHANGED wire_vars
    BY <1>0, <1>12, Basics DEF read_bytes_interrupted
  <2> QED
    BY <2>1, TakeInterruptedKeepsInv
<1>13. CASE reset_idle
  <2>1. Cleared /\ UNCHANGED wire_vars /\ ~is_poisoned /\ available = 0
    BY <1>13 DEF reset_idle
  <2>2. taken + available = fed
    BY <2>1 DEF Inv, Live
  <2>3. taken = fed
    BY <2>1, <2>2, Basics
  <2> QED
    BY <2>1, <2>3, ClearedKeepsInv
<1>14. CASE reset_after_reconnect
  BY <1>14, ClearedKeepsInv DEF reset_after_reconnect
<1>15. CASE UNCHANGED rb_vars
  BY <1>15 DEF rb_vars, Inv, TypeOK, MemoryBound, Larger, HandedInOrder, Live,
               available, is_poisoned, is_skipping, Run
<1> QED
  BY <1>1, <1>2, <1>4, <1>5, <1>6, <1>7, <1>8, <1>9, <1>10, <1>11, <1>12, <1>13,
     <1>14, <1>15 DEF Next, Interrupted

\* What the invariant says of the buffer in the terms of its properties.
LEMMA InvImplies ==
  Inv => Coherent /\ HandedInOrder /\ SkipIsArmed /\ MemoryBound /\ NoWedge
<1>1. Inv => Coherent
  <2> SUFFICES ASSUME Inv, ~is_poisoned
               PROVE  /\ pos \in 0..Len(data)
                      /\ SubSeq(data, pos + 1, Len(data)) = Run(taken, fed - taken)
    BY DEF Coherent
  <2>0. /\ data \in Seq(Nat) /\ Len(data) \in Nat /\ pos \in Nat
        /\ taken \in Nat /\ fed \in Nat /\ available \in Int
    BY Basics
  <2>1. Live
    BY DEF Inv
  <2>2. pos <= Len(data) /\ available = Len(data) - pos /\ taken + available = fed
    BY <2>1 DEF Live, available
  <2>3. /\ SubSeq(data, pos + 1, Len(data)) \in Seq(Nat)
        /\ Len(SubSeq(data, pos + 1, Len(data))) = available
        /\ \A i \in 1..available : SubSeq(data, pos + 1, Len(data))[i] = data[pos + i]
    BY <2>0, <2>2, PartFacts
  <2>4. SubSeq(data, pos + 1, Len(data)) = Run(taken, available)
    BY <2>0, <2>1, <2>3, RunUnique DEF Live
  <2>5. fed - taken = available
    BY <2>0, <2>2
  <2>6. pos \in 0..Len(data)
    BY <2>0, <2>2
  <2> QED
    BY <2>4, <2>5, <2>6, Zenon
<1>2. Inv => NoWedge
  <2> SUFFICES ASSUME Inv, ~is_poisoned, HEADER_SIZE <= max_message_size, Rejects(1)
               PROVE  has_message
    BY DEF NoWedge
  <2>0. /\ available \in Int /\ skip_remaining \in Nat
        /\ max_message_size \in Nat \ {0} /\ HEADER_SIZE \in Nat \ {0}
    BY Basics, SizesAssumption
  <2>1. available <= max_message_size
    BY DEF Inv, Live
  <2>2. available = max_message_size
    BY <2>0, <2>1 DEF Rejects, projected, effective_len
  <2>3. has_header
    BY <2>0, <2>2 DEF has_header
  <2>4. total_size \in Nat
    BY <2>3, HeadFacts
  <2> QED
    BY <2>0, <2>2, <2>3, <2>4 DEF has_message, oversized
<1>3. Inv => HandedInOrder /\ SkipIsArmed /\ MemoryBound
  BY DEF Inv, Live, SkipIsArmed
<1> QED
  BY <1>1, <1>2, <1>3

\* The inductive invariant holds of every reachable state of the buffer.
THEOREM Invariance == Spec => []Inv
  BY InitInv, NextInv, PTL DEF Spec

\* Every variable of the buffer keeps its type.
THEOREM TypeCorrect == Spec => []TypeOK
<1>1. Inv => TypeOK
  BY DEF Inv
<1> QED
  BY <1>1, Invariance, PTL

\* No call, interrupted or not, loses, repeats or reorders a byte of the
\* stream without poisoning the buffer, whatever the cap and the chunking.
THEOREM CoherentAlways == Spec => []Coherent
<1>1. Inv => Coherent
  BY InvImplies
<1> QED
  BY <1>1, Invariance, PTL

\* Frames and other runs of bytes leave the buffer in stream order, and a frame
\* is as long as its header claims and no longer than the cap.
THEOREM InOrderAlways == Spec => []HandedInOrder
<1>1. Inv => HandedInOrder
  BY DEF Inv
<1> QED
  BY <1>1, Invariance, PTL

\* A skip in flight always ends in poison and hides everything meanwhile.
THEOREM SkipArmedAlways == Spec => []SkipIsArmed
<1>1. Inv => SkipIsArmed
  BY InvImplies
<1> QED
  BY <1>1, Invariance, PTL

\* The storage is bounded for every cap and compaction threshold.
THEOREM MemoryBounded == Spec => []MemoryBound
<1>1. Inv => MemoryBound
  BY DEF Inv
<1> QED
  BY <1>1, Invariance, PTL

\* An unpoisoned buffer can always be read or fed.
THEOREM NeverWedged == Spec => []NoWedge
<1>1. Inv => NoWedge
  BY InvImplies
<1> QED
  BY <1>1, Invariance, PTL

\* What a step may do to a buffer that is poisoned or skips.
StaysDead ==
  \/ fed' = 0 /\ last' = Nothing /\ ~is_poisoned' /\ ~is_skipping'
  \/ /\ last' = last \/ last'.bytes = <<>>
     /\ IF is_poisoned THEN poisoned' = poisoned ELSE is_poisoned' \/ is_skipping'

\* A poisoned buffer only resets, and one that skips only feeds the skip, fails
\* or resets.
LEMMA DeadStep ==
  ASSUME Inv, Next, is_poisoned \/ is_skipping
  PROVE  StaysDead
<1> USE DEF StaysDead
<1>0. /\ available \in Int /\ skip_remaining \in Nat /\ HEADER_SIZE \in Nat \ {0}
      /\ taken \in Nat
  BY Basics
<1>1. CASE is_poisoned
  <2>1. poison("decode") \/ reset_after_reconnect
    BY <1>1 DEF Next, Interrupted, feed, feed_reject, feed_interrupted, read_message,
       read_message_interrupted, skip_message_complete, skip_message_oversized,
       skip_message_interrupted, read_bytes, read_bytes_interrupted, reset_idle, Readable
  <2>2. CASE poison("decode")
    BY <1>1, <2>2 DEF poison, PoisonedBy, wire_vars
  <2>3. CASE reset_after_reconnect
    BY <2>3 DEF reset_after_reconnect, Cleared, Reconnected, is_poisoned, is_skipping
  <2> QED
    BY <2>1, <2>2, <2>3
<1>2. CASE ~is_poisoned /\ is_skipping
  <2>1. poison_after_skip # "none" /\ available = 0 /\ ~has_header /\ ~Readable
    BY <1>0, <1>2 DEF Inv, Live, has_header, Readable
  <2>2. ASSUME NEW n \in Chunks, feed(n)
        PROVE  last' = last /\ (is_poisoned' \/ is_skipping')
    <3>1. last' = last
      BY <2>2 DEF feed
    <3>2. CASE skip_remaining = discard(n)
      BY <1>2, <2>1, <2>2, <3>2 DEF feed, Fires, is_poisoned
    <3>3. CASE skip_remaining # discard(n)
      <4>1. discard(n) \in Nat /\ discard(n) <= skip_remaining
        BY <1>0, InputsAssumption DEF discard, Least
      <4> QED
        BY <1>0, <2>2, <3>3, <4>1 DEF feed, is_skipping
    <3> QED
      BY <3>1, <3>2, <3>3
  <2>3. ASSUME NEW n \in Chunks, feed_reject(n) PROVE last' = last /\ is_poisoned'
    BY <1>2, <2>3 DEF feed_reject, PoisonedBy, is_poisoned, wire_vars
  <2>4. ASSUME NEW n \in RawReads, read_bytes(n)
        PROVE  last'.bytes = <<>> /\ is_skipping'
    <3>1. n = 0 /\ n \in Nat /\ n <= available
      BY <1>0, <2>1, <2>4, InputsAssumption DEF read_bytes
    <3>2. Take(n, "raw") /\ skip_remaining' = skip_remaining
      BY <2>4 DEF read_bytes
    <3>3. last'.bytes = Run(taken, 0)
      BY <1>2, <3>1, <3>2, TakeFacts
    <3>4. Run(taken, 0) = <<>>
      BY <1>0, RunFacts, EmptySeq
    <3> QED
      BY <1>2, <3>2, <3>3, <3>4 DEF is_skipping
  <2>5. ASSUME NEW n \in Chunks, feed_interrupted(n) PROVE last' = last /\ is_poisoned'
    BY <1>2, <2>1, <2>5 DEF feed_interrupted, is_poisoned, wire_vars
  <2>6. ASSUME NEW n \in RawReads, read_bytes_interrupted(n)
        PROVE  last' = last /\ is_poisoned'
    BY <1>2, <2>6 DEF read_bytes_interrupted, TakeInterrupted, PoisonedBy,
                      is_poisoned, wire_vars
  <2>7. CASE poison("decode")
    BY <1>2, <2>7 DEF poison, PoisonedBy, is_poisoned, wire_vars
  <2>8. CASE reset_after_reconnect
    BY <2>8 DEF reset_after_reconnect, Cleared, Reconnected, is_poisoned, is_skipping
  <2>9. ~reset_idle /\ ~read_message /\ ~skip_message_complete
        /\ ~skip_message_oversized /\ ~read_message_interrupted
        /\ ~skip_message_interrupted
    BY <1>0, <1>2, <2>1 DEF reset_idle, read_message, skip_message_complete,
       skip_message_oversized, read_message_interrupted, skip_message_interrupted,
       is_skipping
  <2> QED
    BY <1>2, <2>2, <2>3, <2>4, <2>5, <2>6, <2>7, <2>8, <2>9 DEF Next, Interrupted
<1> QED
  BY <1>1, <1>2


\* Nothing leaves a poisoned or skipping buffer until the connection is reset,
\* a skip ends in poison, and the first error is kept.
THEOREM DeadUntilResetAlways == Spec => DeadUntilReset
<1>1. Inv /\ [Next]_rb_vars => [is_poisoned \/ is_skipping => StaysDead]_rb_vars
  BY DeadStep
<1>2. Spec => [][is_poisoned \/ is_skipping => StaysDead]_rb_vars
  BY <1>1, Invariance, PTL DEF Spec
<1> QED
  BY <1>2 DEF DeadUntilReset, StaysDead

(***************************************************************************)
(* ReadBuffer implements FrameStream: every call of the owner is one step  *)
(* of the abstract frame stream or none, by the invariant above.           *)
(***************************************************************************)

\* A step that poisons a live buffer and hands nothing out is the death of the
\* abstract stream.
LEMMA PoisoningDies ==
  ASSUME ~is_poisoned, is_poisoned', stream' = stream, last' = last
  PROVE  Promise!Die
  BY DEF Promise!Die

\* In a live buffer with a header the abstract frame is the one whose size
\* read_message() computes, and no skip is in flight.
LEMMA AbstractHead ==
  ASSUME Inv, ~is_poisoned, has_header
  PROVE  /\ Promise!HeaderIn
         /\ Promise!Frame = total_size
         /\ total_size \in Nat
         /\ skip_remaining = 0
         /\ taken + available = fed
         /\ available \in Nat
<1>0. /\ available \in Int /\ skip_remaining \in Nat /\ HEADER_SIZE \in Nat \ {0}
      /\ taken \in Nat /\ fed \in Nat
  BY Basics
<1>1. Live
  BY DEF Inv
<1>2. taken + available = fed /\ available >= HEADER_SIZE
  BY <1>1 DEF Live, has_header
<1>3. taken + HEADER_SIZE <= fed /\ available \in Nat
  BY <1>0, <1>2
<1>4. skip_remaining = 0
  BY <1>0, <1>1, <1>2 DEF Live, is_skipping
<1>5. total_size = HEADER_SIZE + stream[taken].words * WORD_SIZE /\ total_size \in Nat
  BY HeadFacts
<1>6. Promise!Frame = total_size
  BY <1>5 DEF Promise!Frame
<1>7. Promise!HeaderIn
  BY <1>3 DEF Promise!HeaderIn
<1> QED
  BY <1>2, <1>3, <1>4, <1>5, <1>6, <1>7

\* Taking n available bytes is an abstract removal.
LEMMA TakeRemoves ==
  ASSUME Inv, ~is_poisoned, ~is_poisoned', NEW n \in Nat, n <= available,
         NEW op \in {"frame", "skipped", "raw"}, Take(n, op)
  PROVE  Promise!Remove(n, op)
<1>1. taken' = taken + n
  BY DEF Take
<1>2. last'.bytes = Run(taken, n)
  BY TakeFacts
<1>3. last' = [op |-> op, at |-> taken, bytes |-> SubSeq(data, pos + 1, pos + n)]
  BY DEF Take
<1>4. last' = [op |-> op, at |-> taken, bytes |-> Run(taken, n)]
  BY <1>2, <1>3
<1> QED
  BY <1>1, <1>4 DEF Promise!Remove, Promise!Bytes, Run

\* feed() of an accepted chunk.
LEMMA FeedSimulates ==
  ASSUME Inv, NEW n \in Nat, feed(n)
  PROVE  Promise!Next
<1>0. /\ available \in Int /\ skip_remaining \in Nat
      /\ taken \in Nat /\ fed \in Nat /\ max_message_size \in Nat
  BY Basics
<1>1. /\ ~is_poisoned /\ Live /\ ~Rejects(n) /\ fed + n <= StreamLen
      /\ stream' = stream /\ last' = last
      /\ fed' = fed + n /\ taken' = taken + discard(n)
      /\ skip_remaining' = skip_remaining - discard(n)
  BY DEF feed, Inv
<1>2. n \in 0..StreamLen
  BY <1>0, <1>1, SizesAssumption
<1>3. CASE is_poisoned'
  BY <1>1, <1>3, PoisoningDies DEF Promise!Next
<1>4. CASE ~is_poisoned' /\ ~is_skipping
  <2>1. skip_remaining = 0 /\ discard(n) = 0
    BY <1>0, <1>4 DEF is_skipping, discard, Least
  <2>2. available + n <= max_message_size
    BY <1>0, <1>1, <2>1 DEF Rejects, projected, effective_len
  <2>3. taken + available = fed
    BY <1>1 DEF Live
  <2>4. (fed + n) - taken <= max_message_size
    BY <1>0, <2>2, <2>3
  <2>5. taken' = taken /\ skip_remaining' = skip_remaining /\ skip_remaining = 0
    BY <1>0, <1>1, <2>1
  <2>6. Promise!Accept(n)
    <3>1. /\ ~is_poisoned /\ ~is_poisoned'
          /\ fed + n <= StreamLen /\ fed' = fed + n
          /\ stream' = stream /\ last' = last
      BY <1>1, <1>4
    <3> QED
      BY <1>0, <2>4, <2>5, <3>1, SMT DEF Promise!Accept
  <2> QED
    BY <1>2, <2>6 DEF Promise!Next
<1>5. CASE ~is_poisoned' /\ is_skipping
  <2>1. skip_remaining # discard(n)
    BY <1>1, <1>5 DEF feed, Fires, Live, is_poisoned
  <2>2. discard(n) = n /\ n < skip_remaining
    BY <1>0, <2>1 DEF discard, Least
  <2>3. Promise!ThrowAway(n)
    BY <1>1, <1>5, <2>2 DEF Promise!ThrowAway
  <2> QED
    BY <1>2, <2>3 DEF Promise!Next
<1> QED
  BY <1>3, <1>4, <1>5

\* A complete frame of legal size, read or skipped.
LEMMA ReadSimulates ==
  ASSUME Inv, Readable, NEW op \in {"frame", "skipped"}, Take(total_size, op),
         UNCHANGED <<skip_remaining, poisoned, poison_after_skip, stream, fed>>
  PROVE  Promise!Deliver(op)
<1>0. available \in Int /\ taken \in Nat /\ fed \in Nat /\ max_message_size \in Nat
  BY Basics
<1>1. ~is_poisoned /\ ~is_poisoned' /\ has_header /\ ~oversized /\ available >= total_size
  BY DEF Readable, is_poisoned
<1>2. /\ Promise!HeaderIn /\ Promise!Frame = total_size /\ total_size \in Nat
      /\ skip_remaining = 0 /\ taken + available = fed
  BY <1>1, AbstractHead
<1>3. total_size <= max_message_size /\ total_size <= available /\ taken + total_size <= fed
  BY <1>0, <1>1, <1>2 DEF oversized
<1>4. Promise!Remove(total_size, op)
  BY <1>1, <1>2, <1>3, TakeRemoves
<1> QED
  BY <1>1, <1>2, <1>3, <1>4 DEF Promise!Deliver

\* An oversized frame that is given up.
LEMMA SkipOversizedSimulates ==
  ASSUME Inv, skip_message_oversized
  PROVE  Promise!Doom \/ Promise!Die
<1>0. available \in Int /\ taken \in Nat /\ fed \in Nat /\ max_message_size \in Nat
  BY Basics
<1>1. /\ ~is_poisoned /\ has_header /\ oversized
      /\ Take(skip_now, "skipped")
      /\ skip_remaining' = effective_total - skip_now
      /\ UNCHANGED <<stream, fed>>
  BY DEF skip_message_oversized
<1>2. /\ Promise!HeaderIn /\ Promise!Frame = total_size /\ total_size \in Nat
      /\ skip_remaining = 0 /\ taken + available = fed /\ available \in Nat
  BY <1>1, AbstractHead
<1>3. /\ effective_total = max_message_size /\ effective_total < total_size
      /\ skip_now = available
  BY <1>1, OversizedFacts
<1>4. total_size > max_message_size
  BY <1>1 DEF oversized
<1>5. available <= max_message_size /\ fed - taken = available
  BY <1>0, <1>1, <1>2 DEF Inv, Live
<1>6. CASE available < max_message_size
  <2>1. ~is_poisoned'
    BY <1>1, <1>3, <1>0, <1>6 DEF skip_message_oversized, is_poisoned
  <2>2. Promise!Remove(fed - taken, "skipped")
    <3>1. available <= available
      BY <1>0
    <3>2. Promise!Remove(available, "skipped")
      BY <1>1, <1>2, <1>3, <2>1, <3>1, TakeRemoves
    <3> QED
      BY <3>2, <1>5
  <2>3. skip_remaining' = max_message_size - (fed - taken) /\ fed - taken < max_message_size
    BY <1>1, <1>3, <1>5, <1>6
  <2> QED
    BY <1>1, <1>2, <1>4, <2>1, <2>2, <2>3 DEF Promise!Doom, Promise!Remove
<1>7. CASE available = max_message_size
  <2>1. is_poisoned'
    BY <1>1, <1>3, <1>7 DEF skip_message_oversized, PoisonedBy, is_poisoned
  <2>2. last' = [op |-> "skipped", at |-> taken, bytes |-> Run(taken, max_message_size)]
    <3>1. Take(available, "skipped") /\ available <= available
      BY <1>0, <1>1, <1>3
    <3>2. last'.bytes = Run(taken, available)
      BY <1>1, <1>2, <3>1, TakeFacts
    <3>3. last' = [op |-> "skipped", at |-> taken,
                   bytes |-> SubSeq(data, pos + 1, pos + available)]
      BY <3>1 DEF Take
    <3> QED
      BY <3>2, <3>3, <1>7
  <2> QED
    BY <1>1, <1>2, <1>4, <2>1, <2>2 DEF Promise!Die, Promise!Bytes, Run
<1> QED
  BY <1>0, <1>5, <1>6, <1>7

\* Every step of the buffer is a step of the abstract stream or leaves it alone.
LEMMA NextSimulates ==
  ASSUME Inv, [Next]_rb_vars
  PROVE  Promise!Next \/ UNCHANGED Promise!fs_vars
<1>0. Chunks \subseteq Nat /\ RawReads \subseteq Nat
  BY InputsAssumption
<1>1. ASSUME NEW n \in Chunks, feed(n) PROVE Promise!Next
  BY <1>0, <1>1, FeedSimulates
<1>2. ASSUME NEW n \in Chunks, feed_reject(n) PROVE Promise!Next
  <2>1. ~is_poisoned /\ is_poisoned' /\ stream' = stream /\ last' = last
    BY <1>2 DEF feed_reject, PoisonedBy, is_poisoned, wire_vars
  <2> QED
    BY <2>1, PoisoningDies DEF Promise!Next
<1>3. CASE read_message
  BY <1>3, ReadSimulates DEF read_message, Promise!Next
<1>4. CASE skip_message_complete
  BY <1>4, ReadSimulates DEF skip_message_complete, Promise!Next
<1>5. CASE skip_message_oversized
  BY <1>5, SkipOversizedSimulates DEF Promise!Next
<1>6. ASSUME NEW n \in RawReads, read_bytes(n) PROVE Promise!Next
  <2>0. available \in Int /\ taken \in Nat /\ fed \in 0..StreamLen
    BY Basics DEF Inv, TypeOK
  <2>1. /\ ~is_poisoned /\ ~is_poisoned' /\ n \in Nat /\ n <= available
        /\ Take(n, "raw") /\ taken + available = fed
        /\ UNCHANGED <<skip_remaining, stream, fed>>
    BY <1>0, <1>6, <2>0 DEF read_bytes, is_poisoned, Inv, Live
  <2>2. Promise!Remove(n, "raw")
    BY <2>1, TakeRemoves
  <2>3. taken + n <= fed /\ n \in 0..StreamLen
    BY <2>0, <2>1, SizesAssumption
  <2>4. Promise!Raw(n)
    BY <2>1, <2>2, <2>3 DEF Promise!Raw
  <2> QED
    BY <2>3, <2>4 DEF Promise!Next
<1>7. CASE poison("decode")
  <2>1. is_poisoned' /\ stream' = stream /\ last' = last
    BY <1>7 DEF poison, PoisonedBy, is_poisoned, wire_vars
  <2>2. CASE is_poisoned
    BY <2>1, <2>2 DEF Promise!fs_vars
  <2>3. CASE ~is_poisoned
    BY <2>1, <2>3, PoisoningDies DEF Promise!Next
  <2> QED
    BY <2>2, <2>3
<1>8. CASE Interrupted
  <2>1. ~is_poisoned /\ is_poisoned' /\ stream' = stream /\ last' = last
    <3>1. ASSUME NEW n \in Chunks, feed_interrupted(n)
          PROVE  ~is_poisoned /\ is_poisoned' /\ stream' = stream /\ last' = last
      BY <3>1 DEF feed_interrupted, Fires, is_poisoned, wire_vars
    <3>2. CASE read_message_interrupted
      BY <3>2 DEF read_message_interrupted, Readable, TakeInterrupted, PoisonedBy,
                  is_poisoned, wire_vars
    <3>3. CASE skip_message_interrupted
      BY <3>3 DEF skip_message_interrupted, Readable, TakeInterrupted, PoisonedBy,
                  is_poisoned, wire_vars
    <3>4. ASSUME NEW n \in RawReads, read_bytes_interrupted(n)
          PROVE  ~is_poisoned /\ is_poisoned' /\ stream' = stream /\ last' = last
      BY <3>4 DEF read_bytes_interrupted, TakeInterrupted, PoisonedBy, is_poisoned,
                  wire_vars
    <3> QED
      BY <1>8, <3>1, <3>2, <3>3, <3>4 DEF Interrupted
  <2> QED
    BY <2>1, PoisoningDies DEF Promise!Next
<1>9. CASE reset_idle
  BY <1>9 DEF reset_idle, Cleared, wire_vars, is_poisoned, Promise!fs_vars
<1>10. CASE reset_after_reconnect
  <2>1. /\ stream' \in Streams /\ fed' = 0 /\ taken' = 0 /\ last' = Nothing
        /\ skip_remaining' = 0 /\ ~is_poisoned'
    BY <1>10, InputsAssumption DEF reset_after_reconnect, Cleared, Reconnected, is_poisoned
  <2>2. Promise!Reconnect
    BY <2>1 DEF Promise!Reconnect, Nothing
  <2> QED
    BY <2>2 DEF Promise!Next
<1>11. CASE UNCHANGED rb_vars
  BY <1>11 DEF rb_vars, is_poisoned, Promise!fs_vars
<1> QED
  BY <1>1, <1>2, <1>3, <1>4, <1>5, <1>6, <1>7, <1>8, <1>9, <1>10, <1>11 DEF Next

\* The buffer implements the frame stream it promises, for every cap, threshold,
\* stream and chunking, interrupted calls included.
THEOREM Refinement == Spec => ImplementsFrameStream
<1>1. Init => Promise!Init
  BY DEF Init, Promise!Init, Nothing, is_poisoned
<1>2. Inv /\ [Next]_rb_vars => [Promise!Next]_(Promise!fs_vars)
  BY NextSimulates
<1> QED
  BY <1>1, <1>2, Invariance, PTL DEF Spec, ImplementsFrameStream, Promise!Spec

=============================================================================
