------------------------------ MODULE WireTypes ------------------------------
(***************************************************************************)
(* dqlitewire.types: the primitive encodings, byte for byte.  Bytes are    *)
(* numbers below BYTE, byte strings are sequences of them, and a text is   *)
(* the sequence of its UTF-8 bytes.  WORD_SIZE is a parameter (8 in the    *)
(* code); a uint64 fills one word.                                         *)
(*                                                                         *)
(* A decoder returns Fail where the code raises DecodeError, else what it  *)
(* decoded and the bytes it used.  An encoder is a pair of operators: when *)
(* it does not raise EncodeError, and what it then returns.                *)
(***************************************************************************)
EXTENDS Integers, SequencesExt

CONSTANTS
  WORD_SIZE,
  MAX_TEXT_VALUE_SIZE,
  MAX_BLOB_SIZE,
  TEXT_SHORT_PROBE,    \* _TEXT_SHORT_PROBE
  TEXT_ONE_SHOT_MAX,   \* _TEXT_ONE_SHOT_MAX
  TEXT_SCAN_CHUNK,     \* _TEXT_SCAN_CHUNK
  IsoTexts             \* texts that datetime or time .fromisoformat accepts

ASSUME WireSizesAssumption ==
  /\ WORD_SIZE \in Nat \ {0}
  /\ MAX_TEXT_VALUE_SIZE \in Nat
  /\ MAX_BLOB_SIZE \in Nat
  /\ TEXT_SHORT_PROBE \in Nat \ {0}
  /\ TEXT_ONE_SHOT_MAX \in Nat
  /\ TEXT_SHORT_PROBE <= TEXT_ONE_SHOT_MAX
  /\ TEXT_SCAN_CHUNK \in Nat \ {0}

BYTE == 256

Fail == [ok |-> FALSE]

Got(v, n) == [ok |-> TRUE, val |-> v, used |-> n]

\* Go on with what a decoder returned and used, unless it failed.
Then(r, next(_, _)) == IF r.ok THEN next(r.val, r.used) ELSE Fail

\* data[o:]
From(d, o) == SubSeq(d, o + 1, Len(d))

Zeros(n) == [i \in 1..n |-> 0]

Smaller(m, n) == IF m <= n THEN m ELSE n

pad_to_word(size) ==
  IF size % WORD_SIZE = 0 THEN 0 ELSE WORD_SIZE - (size % WORD_SIZE)

-----------------------------------------------------------------------------
(* Integers *)

\* `size` bytes hold the numbers below Codes(size).
Codes(size) ==
  LET codes[i \in 0..size] == IF i = 0 THEN 1 ELSE BYTE * codes[i - 1]
  IN  codes[size]

WordRange == Codes(WORD_SIZE)

\* The length of a blob fits the word in front of it.
ASSUME BlobsAssumption == MAX_BLOB_SIZE < WordRange

is_uint64(n) == n \in 0..(WordRange - 1)

is_int64(n) == n >= -(WordRange \div 2) /\ n < WordRange \div 2

\* The lowest byte first.
LittleEndian(n, size) ==
  LET rest[i \in 0..size] == IF i = 0 THEN n ELSE rest[i - 1] \div BYTE
  IN  [i \in 1..size |-> rest[i - 1] % BYTE]

encode_uint64(n) == LittleEndian(n, WORD_SIZE)

Number(b) ==
  LET top[i \in 0..Len(b)] ==
        IF i = 0 THEN 0 ELSE b[Len(b) + 1 - i] + BYTE * top[i - 1]
  IN  top[Len(b)]

\* A number of `size` bytes.
decode_uint(d, size) ==
  IF Len(d) < size THEN Fail ELSE Got(Number(SubSeq(d, 1, size)), size)

decode_uint64(d) == decode_uint(d, WORD_SIZE)

\* Two's complement.
encode_int64(n) == encode_uint64(n % WordRange)

decode_int64(d) ==
  Then(decode_uint64(d), LAMBDA n, used :
         Got(IF n >= WordRange \div 2 THEN n - WordRange ELSE n, used))

-----------------------------------------------------------------------------
(* Text: NUL-terminated, padded to a word *)

text_encodable(s, max_size) == Len(s) <= max_size /\ ~Contains(s, 0)

encode_text(s) == s \o Zeros(1 + pad_to_word(Len(s) + 1))

\* Only ASCII counts as valid here: what matters is that some bytes are not.
IsUtf8(s) == \A i \in DOMAIN s : s[i] < 128

\* Index of the first NUL in d[from:to], or -1.
FindNul(d, from, to) == SelectInSubSeq(d, from + 1, to, LAMBDA b : b = 0) - 1

\* The text whose terminator is at index nul, if there is one, with its padding.
TextEndingAt(d, nul) ==
  LET total_size == nul + 1 + pad_to_word(nul + 1) IN
  IF nul >= 0 /\ IsUtf8(SubSeq(d, 1, nul)) /\ Len(d) >= total_size
  THEN Got(SubSeq(d, 1, nul), total_size)
  ELSE Fail

\* decode_text on bytes: one scan, bounded by the cap.
decode_text(d, max_size) ==
  TextEndingAt(d, FindNul(d, 0, Smaller(Len(d), max_size + 1)))

\* The index found in one window, else in the next.
OrIn(nul, next) == IF nul >= 0 THEN nul ELSE next

\* The chunks leave a byte out between them.
ScanChunksApart(d, from, limit) ==
  LET scan[at \in from..(limit + 1)] ==
        IF at >= limit THEN -1
        ELSE LET chunk_end == Smaller(at + TEXT_SCAN_CHUNK, limit)
                 nul == FindNul(d, at, chunk_end)
             IN  OrIn(nul, scan[chunk_end + 1])
  IN  scan[from]

\* The chunked scan of decode_text from index `from` up to `limit`.
ScanChunks(d, from, limit) ==
  LET scan[at \in from..limit] ==
        IF at >= limit THEN -1
        ELSE LET chunk_end == Smaller(at + TEXT_SCAN_CHUNK, limit)
                 nul == FindNul(d, at, chunk_end)
             IN  OrIn(nul, scan[chunk_end])
  IN  scan[from]

\* decode_text on a memoryview: a short probe, a longer one, then chunks.
decode_text_view(d, max_size) ==
  LET limit == Smaller(Len(d), max_size + 1)
      short == Smaller(limit, TEXT_SHORT_PROBE)
      probe == Smaller(limit, TEXT_ONE_SHOT_MAX)
      hopeless(window) == window >= max_size + 1 \/ window >= Len(d)
      in_chunks == IF hopeless(probe) THEN -1 ELSE ScanChunks(d, probe, limit)
      in_probe == IF hopeless(short) THEN -1 ELSE OrIn(FindNul(d, 0, probe), in_chunks)
  IN  TextEndingAt(d, OrIn(FindNul(d, 0, short), in_probe))

-----------------------------------------------------------------------------
(* Blobs: length, data, padding *)

encode_blob(s) == encode_uint64(Len(s)) \o s \o Zeros(pad_to_word(Len(s)))

decode_blob(d) ==
  Then(decode_uint64(d), LAMBDA length, used :
    LET total_size == used + length + pad_to_word(length) IN
    IF length > MAX_BLOB_SIZE \/ Len(d) < total_size THEN Fail
    ELSE Got(SubSeq(d, used + 1, used + length), total_size))

-----------------------------------------------------------------------------
(* Values.  A Python value is its type and contents; a float is the number *)
(* its bit pattern spells.                                                 *)

INTEGER  == 1
FLOAT    == 2
TEXT     == 3
BLOB     == 4
NULL     == 5
UNIXTIME == 9
ISO8601  == 10
BOOLEAN_ == 11

ValueType == {INTEGER, FLOAT, TEXT, BLOB, NULL, UNIXTIME, ISO8601, BOOLEAN_}

Py(py, v) == [py |-> py, v |-> v]

PyNone == Py("None", 0)

\* Python's ==, under which True equals 1.
PyEqual(x, y) ==
  /\ x.py = y.py \/ {x.py, y.py} = {"bool", "int"}
  /\ x.v = y.v

infer_value_type(x) ==
  CASE x.py = "None"  -> NULL
    [] x.py = "bool"  -> BOOLEAN_
    [] x.py = "int"   -> INTEGER
    [] x.py = "float" -> FLOAT
    [] x.py = "str"   -> TEXT
    [] x.py = "bytes" -> BLOB

\* What encode_value accepts as a BOOLEAN.
boolean_encodable(x) == x.py = "bool" \/ (x.py = "int" /\ x.v \in {0, 1})

value_encodable(x, t) ==
  IF x.py = "None" THEN t = NULL
  ELSE CASE t = BOOLEAN_              -> boolean_encodable(x)
         [] t \in {INTEGER, UNIXTIME} -> x.py = "int" /\ is_int64(x.v)
         [] t = FLOAT                 -> x.py = "float"
         [] t \in {TEXT, ISO8601}     -> /\ x.py = "str"
                                         /\ t = ISO8601 => x.v \in IsoTexts
                                         /\ text_encodable(x.v, MAX_TEXT_VALUE_SIZE)
         [] t = BLOB                  -> x.py = "bytes" /\ Len(x.v) <= MAX_BLOB_SIZE
         [] OTHER                     -> FALSE

encode_value(x, t) ==
  CASE t = NULL                  -> Zeros(WORD_SIZE)
    [] t \in {BOOLEAN_, FLOAT}   -> encode_uint64(x.v)
    [] t \in {INTEGER, UNIXTIME} -> encode_int64(x.v)
    [] t \in {TEXT, ISO8601}     -> encode_text(x.v)
    [] t = BLOB                  -> encode_blob(x.v)

\* A BOOLEAN is any number, a NULL is any word.
decode_value(d, t) ==
  LET as(py, r) == Then(r, LAMBDA v, used : Got(Py(py, v), used)) IN
  CASE t \in {INTEGER, UNIXTIME} -> as("int", decode_int64(d))
    [] t = FLOAT                 -> as("float", decode_uint64(d))
    [] t \in {TEXT, ISO8601}     -> as("str", decode_text_view(d, MAX_TEXT_VALUE_SIZE))
    [] t = BLOB                  -> as("bytes", decode_blob(d))
    [] t = NULL                  -> Then(decode_uint64(d), LAMBDA v, used : Got(PyNone, used))
    [] t = BOOLEAN_              -> Then(decode_uint64(d), LAMBDA v, used :
                                           Got(Py("bool", Smaller(v, 1)), used))
    [] OTHER                     -> Fail
=============================================================================
