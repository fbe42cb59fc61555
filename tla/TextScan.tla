------------------------------ MODULE TextScan -------------------------------
(***************************************************************************)
(* decode_text has two ways through the same bytes: one scan when they are *)
(* bytes, and probes and chunks of growing reach when they are a           *)
(* memoryview.  Both are compared with a definition that does not scan.    *)
(***************************************************************************)
EXTENDS WireTypes

CONSTANTS Inputs, Caps

ASSUME InputsAssumption ==
  /\ Inputs \subseteq Seq(0..(BYTE - 1))
  /\ Caps \subseteq Nat

VARIABLES data, max_size, as_bytes, as_view

scan_vars == <<data, max_size, as_bytes, as_view>>

Unread == [read |-> FALSE]

Init ==
  /\ data \in Inputs
  /\ max_size \in Caps
  /\ as_bytes = Unread
  /\ as_view = Unread

\* The same field, decoded from bytes and from a memoryview.
decode ==
  /\ as_bytes' = decode_text(data, max_size)
  /\ as_view' = decode_text_view(data, max_size)
  /\ UNCHANGED <<data, max_size>>

Spec == Init /\ [][decode]_scan_vars

\* n bytes of text, a terminator and its padding stand at the start of d.
HoldsText(d, n) ==
  /\ \A i \in 1..n : d[i] # 0 /\ IsUtf8(<<d[i]>>)
  /\ d[n + 1] = 0
  /\ \E words \in 0..Len(d) :
       words * WORD_SIZE \in (n + 1)..Smaller(n + WORD_SIZE, Len(d))

Decoded(r, d) ==
  /\ r.val = SubSeq(d, 1, Len(r.val))
  /\ HoldsText(d, Len(r.val))
  /\ r.used % WORD_SIZE = 0
  /\ r.used - Len(r.val) \in 1..WORD_SIZE

\* Whatever the cap, the length and the borders of probes and chunks, both
\* ways accept exactly the inputs that start with a padded text within the cap
\* and return that text (decode_text).
TextMatchesReference ==
  [][\A r \in {as_bytes', as_view'} :
       IF \E n \in 0..Smaller(max_size, Len(data) - 1) : HoldsText(data, n)
       THEN r.ok /\ Decoded(r, data)
       ELSE ~r.ok]_scan_vars
=============================================================================
