----------------------------- MODULE WireTuples ------------------------------
(***************************************************************************)
(* dqlitewire.tuples: parameter tuples, row headers and row values.        *)
(***************************************************************************)
EXTENDS WireTypes

CONSTANTS
  MAX_PARAM_COUNT,
  V0_MAX_PARAMS,       \* what the one-byte count of schema 0 can hold: 255
  UINT32_SIZE          \* bytes of the count of schema 1: 4

ASSUME TupleSizesAssumption ==
  /\ V0_MAX_PARAMS \in 1..(BYTE - 1)
  /\ MAX_PARAM_COUNT \in Nat
  /\ UINT32_SIZE \in 1..WORD_SIZE
  /\ MAX_PARAM_COUNT < Codes(UINT32_SIZE)

NIBBLE == 16

\* What decoders return that run one after the other, each where the previous one
\* ended: decoders[n][at] is what the nth of them returns at offset `at`.
InTurn(decoders) ==
  LET upto[n \in 0..Len(decoders)] ==
        IF n = 0 THEN Got(<<>>, 0)
        ELSE Then(upto[n - 1], LAMBDA vals, at :
               Then(decoders[n][at], LAMBDA v, used : Got(Append(vals, v), at + used)))
  IN  upto[Len(decoders)]

\* Decode one item after the other.
Each(items, decode(_, _), d) ==
  InTurn([n \in 1..Len(items) |-> [at \in 0..Len(d) |-> decode(From(d, at), items[n])]])

\* n items of the same kind.
Times(n, decode(_), d) == Each([i \in 1..n |-> i], LAMBDA e, i : decode(e), d)

-----------------------------------------------------------------------------
(* Parameters *)

CountSize(schema) == IF schema = 1 THEN UINT32_SIZE ELSE 1

params_encodable(params, schema) ==
  /\ schema \in {0, 1}
  /\ Len(params) <= IF schema = 0 THEN Smaller(V0_MAX_PARAMS, MAX_PARAM_COUNT)
                    ELSE MAX_PARAM_COUNT
  /\ \A i \in DOMAIN params :
        value_encodable(params[i], infer_value_type(params[i]))

CountField(n, schema) == LittleEndian(n, CountSize(schema))

\* Count and type codes, padded by their absolute position.
ParamsHeader(types, schema, buffer_offset) ==
  LET header == CountField(Len(types), schema) \o types IN
  header \o Zeros(pad_to_word(buffer_offset + Len(header)))

\* No parameters are no bytes at all, or one word of zeros in the C style.
encode_params_tuple(params, schema, buffer_offset, emit_empty_header) ==
  LET types == [i \in DOMAIN params |-> infer_value_type(params[i])] IN
  IF params = <<>> THEN IF emit_empty_header THEN Zeros(WORD_SIZE) ELSE <<>>
  ELSE ParamsHeader(types, schema, buffer_offset)
         \o FlattenSeq([i \in DOMAIN params |-> encode_value(params[i], types[i])])

decode_params_tuple(d, schema, buffer_offset) ==
  LET count_size == CountSize(schema)
      count == Number(SubSeq(d, 1, count_size))
      header_len == count_size + count
      padded == header_len + pad_to_word(buffer_offset + header_len)
      types == SubSeq(d, count_size + 1, header_len)
  IN  IF d = <<>> THEN Got(<<>>, 0)
      ELSE IF Len(d) < WORD_SIZE THEN Fail
      ELSE IF count = 0 THEN Got(<<>>, padded)
      ELSE IF \/ count > MAX_PARAM_COUNT
              \/ Len(d) < padded
              \/ ~ToSet(types) \subseteq ValueType \ {UNIXTIME}
           THEN Fail
      ELSE Then(Each(types, decode_value, From(d, padded)), LAMBDA values, used :
                  Got(values, padded + used))

-----------------------------------------------------------------------------
(* Rows *)

Marker(byte) == [i \in 1..WORD_SIZE |-> byte]

ROW_DONE_MARKER == Marker(255)
ROW_PART_MARKER == Marker(238)

\* The codes of a row, two to a byte, low nibble first.
encode_row_header(types) ==
  LET n == (Len(types) + 1) \div 2
      high(i) == IF 2 * i <= Len(types) THEN types[2 * i] ELSE 0
  IN  [i \in 1..n |-> high(i) * NIBBLE + types[2 * i - 1]] \o Zeros(pad_to_word(n))

\* The end marker is recognised by its first byte.
MarkerByFirstByte(d) ==
  IF Len(d) < WORD_SIZE THEN "none"
  ELSE IF d[1] = 255 THEN "done" ELSE IF d[1] = 238 THEN "part" ELSE "none"

\* Which end marker d starts with: all bytes of the word count.
MarkerAt(d) ==
  IF Len(d) < WORD_SIZE THEN "none"
  ELSE CASE SubSeq(d, 1, WORD_SIZE) = ROW_DONE_MARKER -> "done"
         [] SubSeq(d, 1, WORD_SIZE) = ROW_PART_MARKER -> "part"
         [] OTHER -> "none"

Nibble(d, i) ==
  LET byte == d[(i - 1) \div 2 + 1] IN
  IF (i - 1) % 2 = 0 THEN byte % NIBBLE ELSE byte \div NIBBLE

\* The type codes of a row that does not start with an end marker.
decode_row_types(d, column_count) ==
  LET n == (column_count + 1) \div 2
      header_size == n + pad_to_word(n)
      types == [i \in 1..column_count |-> Nibble(d, i)]
  IN  IF Len(d) < header_size THEN Fail
      ELSE IF ~ToSet(types) \subseteq ValueType THEN Fail
      ELSE Got(types, header_size)

row_encodable(values, types) ==
  /\ Len(values) = Len(types)
  /\ \A i \in DOMAIN values : value_encodable(values[i], types[i])

encode_row_values(values, types) ==
  FlattenSeq([i \in DOMAIN values |-> encode_value(values[i], types[i])])

decode_row_values(d, types) == Each(types, decode_value, d)
=============================================================================
