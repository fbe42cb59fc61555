----------------------------- MODULE WireFields ------------------------------
(***************************************************************************)
(* Bodies, and prefixes of bodies, that are a fixed list of fields.  Each  *)
(* class of dqlitewire.messages writes its fields one after the other and  *)
(* reads them back in the same order; a layout is that list.               *)
(***************************************************************************)
EXTENDS WireTuples

\* A field is a number of some bytes, at most max; a text of at most max
\* bytes, decoded from bytes ("text") or from a memoryview ("view"); or
\* reserved bytes, written as zeros and not looked at.
Field(of, size, max) == [of |-> of, size |-> size, max |-> max]

uint(size) == Field("uint", size, Codes(size) - 1)

uint64 == uint(WORD_SIZE)

\* A uint64 with a limit of its own.
capped(max) == Field("uint", WORD_SIZE, max)

\* Two uint32 share a word: the second one takes the bytes the first one
\* leaves, four of eight in the code.
uint32      == uint(UINT32_SIZE)
uint32_rest == uint(WORD_SIZE - UINT32_SIZE)

reserved(size) == Field("reserved", size, 0)
text(max)      == Field("text", 0, max)
text_view(max) == Field("view", 0, max)

field_encodable(x, f) ==
  CASE f.of = "uint"            -> x \in 0..f.max
    [] f.of = "reserved"        -> TRUE
    [] f.of \in {"text", "view"} -> text_encodable(x, f.max)

encode_field(x, f) ==
  CASE f.of = "uint"            -> LittleEndian(x, f.size)
    [] f.of = "reserved"        -> Zeros(f.size)
    [] f.of \in {"text", "view"} -> encode_text(x)

decode_field(d, f) ==
  CASE f.of = "uint"     -> Then(decode_uint(d, f.size), LAMBDA n, used :
                                   IF n > f.max THEN Fail ELSE Got(n, used))
    [] f.of = "reserved" -> Then(decode_uint(d, f.size), LAMBDA n, used : Got(0, used))
    [] f.of = "text"     -> decode_text(d, f.max)
    [] f.of = "view"     -> decode_text_view(d, f.max)

fields_encodable(xs, layout) ==
  /\ Len(xs) = Len(layout)
  /\ \A i \in DOMAIN layout : field_encodable(xs[i], layout[i])

encode_fields(xs, layout) ==
  FlattenSeq([i \in DOMAIN layout |-> encode_field(xs[i], layout[i])])

decode_fields(d, layout) == Each(layout, decode_field, d)
=============================================================================
