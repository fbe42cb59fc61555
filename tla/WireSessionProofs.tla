------------------------- MODULE WireSessionProofs --------------------------
(***************************************************************************)
(* Proofs about WireSession, for every script, chunking and cap: a session *)
(* is a way of using the decoder, what the writer puts on the wire are the *)
(* frames of its messages end to end (FramesAsSent), and so its reader     *)
(* gets what was sent and no error.                                        *)
(***************************************************************************)
EXTENDS WireSession, MessageDecoderProofs

\* A session only does what the decoder's owner may do, so whatever holds of
\* the decoder under every owner holds of a session.
THEOREM SessionIsDecoder == SessionSpec => DecoderSpec
<1>1. SessionInit => DecoderInit
  BY DEF SessionInit
<1>2. SessionNext => DecoderNext \/ UNCHANGED vars
  <2>1. step => DecoderNext
    BY DEF step, call, DecoderNext
  <2>2. arrive => DecoderNext
    BY DEF arrive, DecoderNext
  <2>3. interrupt => DecoderNext
    BY DEF interrupt, DecoderNext, DecoderInterrupted
  <2>4. reconnect => DecoderNext
    BY DEF reconnect, DecoderNext
  <2>5. finished => UNCHANGED vars
    BY DEF finished
  <2> QED
    BY <2>1, <2>2, <2>3, <2>4, <2>5 DEF SessionNext
<1>3. [SessionNext]_all_vars => [DecoderNext]_vars
  BY <1>2 DEF all_vars
<1> QED
  BY <1>1, <1>3, PTL DEF SessionSpec, DecoderSpec

-----------------------------------------------------------------------------
(* The stations of a connection.  The operators take what Stations reads    *)
(* from the state as arguments, so that one fact serves before and after a  *)
(* step.                                                                    *)

First(c) ==
  [at |-> IF c.is_request THEN HANDSHAKE_SIZE ELSE 0, frames |-> 0, rows |-> 0, cols |-> None]

Following(st, request, p) ==
  LET f == st[p.at]
      end == p.at + (HEADER_SIZE + st[p.at].words * WORD_SIZE)
  IN  IF ~request /\ f.type = "ROWS" /\ f.more
      THEN [at |-> end, frames |-> p.frames + 1, rows |-> p.rows + f.rows, cols |-> f.cols]
      ELSE [at |-> end, frames |-> 0, rows |-> 0, cols |-> None]

IsWalk(g, c, st, request) ==
  g = [k \in 0..Len(c.sent) |-> IF k = 0 THEN First(c) ELSE Following(st, request, g[k - 1])]

Walk(c, st, request) == CHOOSE g : IsWalk(g, c, st, request)

\* Every connection has its stations.
LEMMA WalkExists ==
  ASSUME NEW c, NEW st, NEW request, Len(c.sent) \in Nat
  PROVE  \E g : IsWalk(g, c, st, request)
<1> DEFINE n == Len(c.sent)
           At(g, i) == g[i] = IF i = 0 THEN First(c) ELSE Following(st, request, g[i - 1])
           Partial(k) == \E g : g = [i \in 0..k |-> g[i]] /\ \A i \in 0..k : At(g, i)
           S == {k \in Nat : Partial(k)}
<1> HIDE DEF Partial
<1>1. 0 \in S
  <2> DEFINE g == [i \in 0..0 |-> First(c)]
  <2>1. g = [i \in 0..0 |-> g[i]] /\ \A i \in 0..0 : At(g, i)
    OBVIOUS
  <2> HIDE DEF g, At
  <2> QED
    BY <2>1 DEF Partial
<1>2. ASSUME NEW k \in Nat, k \in S PROVE k + 1 \in S
  <2>0. Partial(k)
    BY <1>2
  <2>1. PICK g : g = [i \in 0..k |-> g[i]] /\ \A i \in 0..k : At(g, i)
    BY <2>0 DEF Partial
  <2> DEFINE h == [i \in 0..(k + 1) |-> IF i = k + 1 THEN Following(st, request, g[k]) ELSE g[i]]
  <2>2. ASSUME NEW i \in 0..(k + 1) PROVE At(h, i)
    <3>1. CASE i = k + 1
      <4>1. k \in 0..(k + 1) /\ k # k + 1 /\ i # 0 /\ i - 1 = k
        BY <3>1
      <4>2. h[k] = g[k] /\ h[i] = Following(st, request, g[k])
        BY <3>1, <4>1
      <4> QED
        BY <4>1, <4>2
    <3>2. CASE i = 0
      <4>1. 0 \in 0..k /\ 0 \in 0..(k + 1) /\ 0 # k + 1
        OBVIOUS
      <4>2. h[0] = g[0] /\ g[0] = First(c)
        BY <2>1, <4>1
      <4> QED
        BY <3>2, <4>2
    <3>3. CASE i \in 1..k
      <4>1. i \in 0..k /\ i # 0 /\ i - 1 \in 0..(k + 1) /\ i - 1 # k + 1 /\ i # k + 1
        BY <3>3
      <4>2. h[i] = g[i] /\ h[i - 1] = g[i - 1]
        BY <4>1
      <4>3. g[i] = Following(st, request, g[i - 1])
        BY <2>1, <4>1
      <4> QED
        BY <4>1, <4>2, <4>3
    <3> QED
      BY <3>1, <3>2, <3>3
  <2>3. h = [i \in 0..(k + 1) |-> h[i]]
    OBVIOUS
  <2> HIDE DEF h, At
  <2>4. Partial(k + 1)
    BY <2>2, <2>3 DEF Partial
  <2> QED
    BY <2>4
<1>3. n \in S
  <2> HIDE DEF S
  <2> QED
    BY <1>1, <1>2, SetInduction
<1>4. PICK g : g = [i \in 0..n |-> g[i]] /\ \A i \in 0..n : At(g, i)
  BY <1>3 DEF Partial
<1>5. g = [i \in 0..n |-> IF i = 0 THEN First(c) ELSE Following(st, request, g[i - 1])]
  BY <1>4
<1> QED
  BY <1>5 DEF IsWalk

LEMMA WalkFacts ==
  ASSUME NEW c, NEW st, NEW request, Len(c.sent) \in Nat
  PROVE  /\ Walk(c, st, request)[0] = First(c)
         /\ \A k \in 1..Len(c.sent) :
              Walk(c, st, request)[k] = Following(st, request, Walk(c, st, request)[k - 1])
<1> DEFINE w == Walk(c, st, request)
<1>1. IsWalk(w, c, st, request)
  BY WalkExists DEF Walk
<1> HIDE DEF w
<1>2. \A k \in 0..Len(c.sent) :
        w[k] = IF k = 0 THEN First(c) ELSE Following(st, request, w[k - 1])
  BY <1>1 DEF IsWalk
<1> QED
  BY <1>2 DEF w

\* Stations, before and after a step.
LEMMA StationsIsWalk ==
  /\ Stations = Walk(connection, stream, is_request)
  /\ Stations' = Walk(connection', stream', is_request')
  BY DEF Stations, FirstStation, NextStation, Announces, Claimed,
         Walk, IsWalk, First, Following

-----------------------------------------------------------------------------
(* One frame on the wire *)

\* A message of script s that is sent.
Meant(s, m) ==
  /\ C!encode_message(m).ok
  /\ C!Okay(m)
  /\ C!Suits(Reader(s), m)
  /\ C!class_of(m) \notin C!Private

\* The bytes of its frame.
FrameFor(m) == C!encode_message(m).val

\* What is known of the frame of a message, and what its reader makes of it.
LEMMA MeantFrame ==
  ASSUME NEW s, NEW m, Meant(s, m)
  PROVE  LET f == FrameFor(m) IN
         /\ f \in C!Bytes /\ Len(f) \in Nat /\ Len(f) <= max_message_size
         /\ Len(f) >= HEADER_SIZE /\ Len(f) = HEADER_SIZE + C!size_words(f) * WORD_SIZE
         /\ C!msg_type(f) = C!MSG_TYPE(C!class_of(m))
         /\ C!schema_of(f) = C!get_schema(m)
         /\ C!decode_message(f, Reader(s)).ok
         /\ C!decode_message(f, Reader(s)).val = C!Reading(m)
         /\ C!SameMessage(m, C!Reading(m))
         /\ C!class_of(m) \in C!Classes /\ C!get_schema(m) \in C!schemas(C!class_of(m))
<1> DEFINE f == FrameFor(m)
<1>1. C!Carried(m, C!Reading(m)) /\ C!encodable(m) /\ C!encode_message(m).ok
  BY CodecAssumptions, C!EveryMessage DEF Meant, C!Okay
<1>2. C!decode_message(f, Reader(s)) = C!Got(C!Reading(m), Len(C!encode_body(m)))
  BY <1>1, CodecAssumptions, C!MessageReads DEF Meant, FrameFor
<1>3. /\ C!Sized(f) /\ Len(f) = C!FrameSize(m) /\ C!FrameSize(m) <= max_message_size
      /\ C!msg_type(f) = C!MSG_TYPE(C!class_of(m)) /\ C!schema_of(f) = C!get_schema(m)
  BY <1>1, CodecAssumptions, C!MessageFramed DEF FrameFor
<1>4. f \in C!Bytes
  BY <1>1, CodecAssumptions, C!FrameIsBytes DEF FrameFor
<1>5. Len(f) \in Nat
  BY <1>4, LenProperties DEF C!Bytes
<1>6. Len(f) >= HEADER_SIZE /\ Len(f) = HEADER_SIZE + C!size_words(f) * WORD_SIZE
  <2>1. HEADER_SIZE \in Nat
    BY SizesAssumption
  <2> QED
    BY <1>3, <1>5, <2>1 DEF C!Sized, C!frame_exactly
<1>7. C!decode_message(f, Reader(s)).ok /\ C!decode_message(f, Reader(s)).val = C!Reading(m)
  BY <1>2 DEF C!Got
<1> QED
  BY <1>1, <1>3, <1>4, <1>5, <1>6, <1>7 DEF C!Carried

\* The first of two joined sequences is their start.
LEMMA Front ==
  ASSUME NEW S, NEW s \in Seq(S), NEW t \in Seq(S)
  PROVE  /\ s \o t \in Seq(S) /\ Len(s) \in Nat /\ Len(t) \in Nat
         /\ Len(s \o t) = Len(s) + Len(t)
         /\ \A i \in 1..Len(s) : (s \o t)[i] = s[i]
         /\ SubSeq(s \o t, 1, Len(s)) = s
  BY CodecAssumptions, C!Joined, SMT

\* With more behind it, a frame has the same size, type and schema.
LEMMA FrameInFront ==
  ASSUME NEW s, NEW m, Meant(s, m), NEW rest \in C!Bytes
  PROVE  LET f == FrameFor(m)
             d == f \o rest
         IN  /\ C!size_words(d) = C!size_words(f)
             /\ C!msg_type(d) = C!msg_type(f) /\ C!schema_of(d) = C!schema_of(f)
             /\ SubSeq(d, 1, Least(HEADER_SIZE + C!size_words(d) * WORD_SIZE, Len(d))) = f
<1> DEFINE f == FrameFor(m)
           d == f \o rest
           S == 0..(C!BYTE - 1)
<1>1. /\ f \in Seq(S) /\ rest \in Seq(S) /\ Len(f) \in Nat /\ Len(f) >= HEADER_SIZE
      /\ Len(f) = HEADER_SIZE + C!size_words(f) * WORD_SIZE
  BY MeantFrame DEF C!Bytes
<1> HIDE DEF f, S
<1>2. /\ d \in Seq(S) /\ Len(rest) \in Nat /\ Len(d) = Len(f) + Len(rest)
      /\ \A i \in 1..Len(f) : d[i] = f[i]
      /\ SubSeq(d, 1, Len(f)) = f
  BY <1>1, Front
<1>3. UINT32_SIZE \in Nat /\ HEADER_SIZE \in Nat /\ HEADER_SIZE >= UINT32_SIZE + 2
  BY CodecAssumptions, C!WireSizes
<1> HIDE DEF d
<1>4. SubSeq(d, 1, UINT32_SIZE) = SubSeq(f, 1, UINT32_SIZE)
  <2>1. UINT32_SIZE <= Len(f) /\ UINT32_SIZE <= Len(d)
    BY <1>1, <1>2, <1>3
  <2>2. SubSeq(d, 1, UINT32_SIZE) = [i \in 1..UINT32_SIZE |-> d[i]]
    BY <1>2, <1>3, <2>1
  <2>3. SubSeq(f, 1, UINT32_SIZE) = [i \in 1..UINT32_SIZE |-> f[i]]
    BY <1>1, <1>3, <2>1
  <2>4. \A i \in 1..UINT32_SIZE : d[i] = f[i]
    BY <1>1, <1>2, <1>3, <2>1
  <2> QED
    BY <2>2, <2>3, <2>4
<1>5. C!size_words(d) = C!size_words(f)
  BY <1>4 DEF C!size_words
<1>6. C!msg_type(d) = C!msg_type(f) /\ C!schema_of(d) = C!schema_of(f)
  <2>1. UINT32_SIZE + 1 \in 1..Len(f) /\ UINT32_SIZE + 2 \in 1..Len(f)
    BY <1>1, <1>3
  <2> QED
    BY <1>2, <2>1 DEF C!msg_type, C!schema_of
<1>7. Least(HEADER_SIZE + C!size_words(d) * WORD_SIZE, Len(d)) = Len(f)
  <2>1. Len(f) <= Len(d)
    BY <1>1, <1>2
  <2> QED
    BY <1>1, <1>5, <2>1 DEF Least
<1> QED
  BY <1>2, <1>5, <1>6, <1>7 DEF d, f

\* The kinds of message that count for a result are those of its frames' types.
LEMMA MeantKind ==
  ASSUME NEW s, NEW m, Meant(s, m)
  PROVE  LET c == C!class_of(m) IN
         /\ c # None /\ TypeName(c) # "UNKNOWN"
         /\ TypeName(c) = "ROWS" <=> m.kind = "RowsResponse"
         /\ c = "RowsResponse" <=> m.kind = "RowsResponse"
         /\ m.kind \in {"FailureResponse", "HalfRows", "EmptyResponse"}
              => TypeName(c) \in {"FAILURE", "EMPTY"}
         /\ m.kind = "RowsResponse" => C!rows_typed(m) /\ ~C!is_request_class(c)
<1> DEFINE c == C!class_of(m)
<1>1. c \in C!Classes \ C!Private
  BY MeantFrame DEF Meant
<1>2. c # None
  BY <1>1, CodecAssumptions, C!KnownClass
<1>3. C!WellFormed(m)
  BY DEF Meant, C!Okay
<1>4. "RowsResponse" \notin C!ParamsRequests
  BY DEF C!ParamsRequests, C!PreparedRequests, C!SqlTextRequests
<1>5. m.kind = "Tagged" => c \in C!ParamsRequests
  <2> SUFFICES ASSUME m.kind = "Tagged" PROVE c \in C!ParamsRequests
    OBVIOUS
  <2>1. "Tagged" \notin C!ParamsRequests
    BY DEF C!ParamsRequests, C!PreparedRequests, C!SqlTextRequests
  <2>2. C!tagged_sent(m)
    BY <1>3, <2>1 DEF C!WellFormed
  <2> QED
    BY <2>2 DEF C!class_of, C!tagged_sent
<1>6. c = "RowsResponse" <=> m.kind = "RowsResponse"
  <2>1. m.kind = "RowsResponse" => c = "RowsResponse"
    BY DEF C!class_of
  <2>2. m.kind # "Tagged" => c \in {"FailureResponse", "LeaderResponse", "AssignRequest", m.kind}
    BY DEF C!class_of
  <2> QED
    BY <1>4, <1>5, <2>1, <2>2
<1>7. m.kind \in {"FailureResponse", "HalfRows", "EmptyResponse"}
        => c \in {"FailureResponse", "EmptyResponse"}
  BY DEF C!class_of
<1>8. m.kind = "RowsResponse" => C!rows_typed(m) /\ ~C!is_request_class(c)
  <2>1. m.kind = "RowsResponse" => C!rows_typed(m)
    BY <1>3, <1>4 DEF C!WellFormed
  <2>2. "RowsResponse" \notin DOMAIN C!RequestType
    BY DEF C!RequestType
  <2> QED
    BY <1>6, <2>1, <2>2 DEF C!is_request_class
<1> HIDE DEF c
<1>9. /\ TypeName(c) # "UNKNOWN"
      /\ TypeName(c) = "ROWS" <=> c = "RowsResponse"
      /\ c \in {"FailureResponse", "EmptyResponse"} => TypeName(c) \in {"FAILURE", "EMPTY"}
  BY <1>2 DEF TypeName
<1> QED
  BY <1>2, <1>6, <1>7, <1>8, <1>9 DEF c

\* What the reader sees where the frame of a message lies.
LEMMA FrameDescribed ==
  ASSUME NEW s, NEW m, Meant(s, m), NEW rest \in C!Bytes,
         NEW d, d = FrameFor(m) \o rest,
         NEW x, x = Described(s, d, C!decode_message(FrameFor(m), Reader(s)))
  PROVE  /\ HEADER_SIZE + x.words * WORD_SIZE = Len(FrameFor(m))
         /\ x.ok /\ x.schema_ok /\ x.type = TypeName(C!class_of(m))
         /\ m.kind = "RowsResponse" =>
              /\ x.rows = Len(m.rows) /\ x.cols = m.column_names /\ x.more = m.has_more
              /\ x.rows < max_rows /\ ~s.is_request
<1> DEFINE f == FrameFor(m)
           c == C!class_of(m)
           v == C!Reading(m)
           r == C!decode_message(f, Reader(s))
<1>1. /\ Len(f) = HEADER_SIZE + C!size_words(f) * WORD_SIZE
      /\ C!msg_type(f) = C!MSG_TYPE(c) /\ C!schema_of(f) = C!get_schema(m)
      /\ r.ok /\ r.val = v /\ C!SameMessage(m, v)
      /\ c \in C!Classes /\ C!get_schema(m) \in C!schemas(c)
  BY MeantFrame
<1>2. C!size_words(d) = C!size_words(f) /\ C!msg_type(d) = C!msg_type(f)
      /\ C!schema_of(d) = C!schema_of(f)
  BY FrameInFront
<1>3. s.is_request = C!is_request_class(c)
  BY DEF Meant, C!Suits, Reader, C!Decoder
<1>4. C!msg_class(C!MSG_TYPE(c), s.is_request) = c
  BY <1>1, <1>3, CodecAssumptions, C!KnownClass DEF Meant
<1>5. C!schema_supported(C!MSG_TYPE(c), C!get_schema(m), s.is_request)
  BY <1>1, <1>3, CodecAssumptions, C!SchemaPasses
<1>6. /\ x.words = C!size_words(d)
      /\ x.type = TypeName(C!msg_class(C!msg_type(d), s.is_request))
      /\ x.schema_ok = C!schema_supported(C!msg_type(d), C!schema_of(d), s.is_request)
      /\ x.ok = r.ok
      /\ x.rows = IF r.ok /\ r.val.kind = "RowsResponse" THEN Len(r.val.rows) ELSE 0
      /\ x.cols = IF r.ok /\ r.val.kind = "RowsResponse" THEN r.val.column_names ELSE <<>>
      /\ x.more = (r.ok /\ r.val.kind = "RowsResponse" /\ r.val.has_more)
  BY DEF Described
<1>7. /\ c = "RowsResponse" <=> m.kind = "RowsResponse"
      /\ m.kind = "RowsResponse" => C!rows_typed(m) /\ ~C!is_request_class(c)
  BY MeantKind
<1>8. v.kind = c
  BY <1>1 DEF C!SameMessage
<1> HIDE DEF f, c, v, r
<1>9. x.ok /\ x.schema_ok /\ x.type = TypeName(c)
  BY <1>1, <1>2, <1>4, <1>5, <1>6
<1>10. HEADER_SIZE + x.words * WORD_SIZE = Len(f)
  BY <1>1, <1>2, <1>6
<1>11. ASSUME m.kind = "RowsResponse"
       PROVE  /\ x.rows = Len(m.rows) /\ x.cols = m.column_names /\ x.more = m.has_more
              /\ x.rows < max_rows /\ ~s.is_request
  <2>0. "RowsResponse" \notin C!ParamsRequests \cup {"Tagged"}
    BY DEF C!ParamsRequests, C!PreparedRequests, C!SqlTextRequests
  <2>1. v.column_names = m.column_names /\ v.has_more = m.has_more /\ Len(v.rows) = Len(m.rows)
    BY <1>1, <1>11, <2>0 DEF C!SameMessage
  <2>2. v.kind = "RowsResponse" /\ m.has_more \in BOOLEAN
    BY <1>7, <1>8, <1>11 DEF C!rows_typed
  <2>3. x.rows = Len(m.rows) /\ x.cols = m.column_names
    BY <1>1, <1>6, <2>1, <2>2
  <2>4. x.more = m.has_more
    BY <1>1, <1>6, <2>1, <2>2, Zenon
  <2>5. Len(m.rows) < max_rows
    <3>1. m.rows # <<>> => Len(m.rows) < max_rows
      BY <1>7, <1>11 DEF C!rows_typed
    <3>2. 0 < max_rows /\ Len(<<>>) = 0
      BY DecoderAssumption
    <3> QED
      BY <3>1, <3>2
  <2> QED
    BY <1>3, <1>7, <1>11, <2>3, <2>4, <2>5
<1> QED
  BY <1>9, <1>10, <1>11 DEF f, c

-----------------------------------------------------------------------------
(* What the writer puts on the wire *)

\* What a client sends first.
Opening(s) == IF s.is_request THEN C!encode_handshake(s.version) ELSE <<>>

\* The wire before the first message.
Start(s) == [sent |-> <<>>, bytes |-> Opening(s)]

\* The wire after one message more.
OneMore(w, m) ==
  IF C!encode_message(m).ok
  THEN [sent |-> Append(w.sent, m), bytes |-> w.bytes \o FrameFor(m)] ELSE w

\* The wire after each of the messages.
IsWriting(g, s) ==
  g = [k \in 0..Len(s.messages) |-> IF k = 0 THEN Start(s) ELSE OneMore(g[k - 1], s.messages[k])]

\* Written is the last value of a recursive function.
LEMMA WrittenIs ==
  ASSUME NEW s
  PROVE  Written(s) = (CHOOSE g : IsWriting(g, s))[Len(s.messages)]
  BY Zenon DEF Written, IsWriting, OneMore, Start, Opening, FrameFor

\* The frames of what is sent lie end to end, behind the handshake, at these offsets.
Laid(w, s, o) ==
  /\ o = [j \in 0..Len(w.sent) |-> o[j]]
  /\ o[0] = Len(Opening(s)) /\ o[Len(w.sent)] = Len(w.bytes)
  /\ \A j \in 1..Len(w.sent) :
       /\ Meant(s, w.sent[j])
       /\ o[j - 1] \in 0..Len(w.bytes) /\ o[j] = o[j - 1] + Len(FrameFor(w.sent[j]))
       /\ \E rest \in C!Bytes : C!From(w.bytes, o[j - 1]) = FrameFor(w.sent[j]) \o rest

\* What is written is the handshake and, behind it, the frames of what is sent.
WrittenWell(w, s) ==
  /\ \E T : w.sent \in Seq(T)
  /\ w.bytes \in C!Bytes /\ Opening(s) \in C!Bytes
  /\ \E tail \in C!Bytes : w.bytes = Opening(s) \o tail
  /\ \E o : Laid(w, s, o)


\* Sequences joined, and what is behind an offset in them.
LEMMA Regrouping ==
  ASSUME NEW S, NEW a \in Seq(S), NEW b \in Seq(S), NEW c \in Seq(S)
  PROVE  (a \o b) \o c = a \o (b \o c)
  BY ConcatAssociative, SMTT(60)

\* What lies behind the first of two sequences is the second.
LEMMA FromBehind ==
  ASSUME NEW S, NEW a \in Seq(S), NEW b \in Seq(S)
  PROVE  C!From(a \o b, Len(a)) = b
<1>1. 0 \in 0..Len(b)
  BY LenProperties
<1> QED
  BY <1>1, CodecAssumptions, C!Behind, SMTT(30)

\* Behind an offset in the first lies the rest of it, and the second.
LEMMA FromIn ==
  ASSUME NEW S, NEW a \in Seq(S), NEW b \in Seq(S), NEW o \in 0..Len(a)
  PROVE  C!From(a \o b, o) = C!From(a, o) \o b /\ C!From(a, o) \in Seq(S)
<1> DEFINE n == Len(a)
           k == Len(b)
           d == a \o b
           p == SubSeq(a, o + 1, n)
           e == SubSeq(d, o + 1, n + k)
           q == p \o b
<1>1. n \in Nat /\ k \in Nat /\ o \in Nat /\ o <= n
  BY LenProperties
<1>2. /\ d \in Seq(S) /\ Len(d) = n + k
      /\ \A i \in 1..(n + k) : d[i] = IF i <= n THEN a[i] ELSE b[i - n]
  BY ConcatProperties
<1>3. C!From(d, o) = e /\ C!From(a, o) = p
  BY <1>2 DEF C!From
<1> HIDE DEF n, k, d
<1>4. p \in Seq(S) /\ Len(p) = n - o /\ \A i \in 1..(n - o) : p[i] = a[o + i]
  BY <1>1, SubSeqProperties DEF n
<1>5. e \in Seq(S) /\ Len(e) = (n + k) - o /\ \A i \in 1..((n + k) - o) : e[i] = d[o + i]
  BY <1>1, <1>2, SubSeqProperties
<1> HIDE DEF p, e
<1>6. /\ q \in Seq(S) /\ Len(q) = (n - o) + k
      /\ \A i \in 1..((n - o) + k) : q[i] = IF i <= n - o THEN p[i] ELSE b[i - (n - o)]
  <2>1. /\ p \o b \in Seq(S) /\ Len(p \o b) = Len(p) + Len(b)
        /\ \A i \in 1..(Len(p) + Len(b)) : (p \o b)[i] = IF i <= Len(p) THEN p[i] ELSE b[i - Len(p)]
    BY <1>4, ConcatProperties, Zenon
  <2> QED
    BY <1>4, <2>1 DEF k
<1> HIDE DEF q
<1>7. ASSUME NEW i \in 1..Len(e) PROVE e[i] = q[i]
  <2>1. i \in 1..((n + k) - o) /\ i \in 1..((n - o) + k) /\ o + i \in 1..(n + k)
    BY <1>1, <1>5
  <2>2. e[i] = IF o + i <= n THEN a[o + i] ELSE b[(o + i) - n]
    BY <1>2, <1>5, <2>1
  <2>3. q[i] = IF i <= n - o THEN p[i] ELSE b[i - (n - o)]
    BY <1>6, <2>1
  <2>4. CASE i <= n - o
    <3>1. i \in 1..(n - o) /\ o + i <= n
      BY <1>1, <2>1, <2>4
    <3> QED
      BY <1>4, <2>2, <2>3, <2>4, <3>1
  <2>5. CASE ~(i <= n - o)
    <3>1. ~(o + i <= n) /\ (o + i) - n = i - (n - o)
      BY <1>1, <2>1, <2>5
    <3> QED
      BY <2>2, <2>3, <2>5, <3>1
  <2> QED
    BY <2>4, <2>5
<1>8. Len(e) = Len(q)
  BY <1>1, <1>5, <1>6
<1>9. e = q
  BY <1>5, <1>6, <1>7, <1>8, SeqEqual
<1> QED
  BY <1>3, <1>4, <1>9 DEF q, d

\* One frame more lies behind the others.
LEMMA LaidOn ==
  ASSUME NEW w, NEW s, WrittenWell(w, s), NEW m, Meant(s, m)
  PROVE  WrittenWell([sent |-> Append(w.sent, m), bytes |-> w.bytes \o FrameFor(m)], s)
<1> DEFINE S == 0..(C!BYTE - 1)
           b == w.bytes
           f == FrameFor(m)
           q == Append(w.sent, m)
           n == Len(w.sent)
           z == [sent |-> q, bytes |-> b \o f]
<1>1. PICK T : w.sent \in Seq(T)
  BY DEF WrittenWell
<1>2. /\ q \in Seq(T \cup {m}) /\ Len(q) = n + 1 /\ n \in Nat
      /\ \A i \in 1..n : q[i] = w.sent[i]
      /\ q[n + 1] = m
  <2>1. w.sent \in Seq(T \cup {m}) /\ m \in T \cup {m}
    <3>1. \A U, V, r : U \subseteq V /\ r \in Seq(U) => r \in Seq(V)
      OBVIOUS
    <3> QED
      BY <1>1, <3>1
  <2> QED
    BY <2>1, AppendProperties, LenProperties
<1>3. b \in Seq(S) /\ f \in Seq(S) /\ Len(f) \in Nat
  BY MeantFrame DEF WrittenWell, C!Bytes
<1>4. PICK tail \in Seq(S) : b = Opening(s) \o tail
  BY DEF WrittenWell, C!Bytes
<1>5. PICK o : Laid(w, s, o)
  BY DEF WrittenWell
<1>6. z.sent = q /\ z.bytes = b \o f
  OBVIOUS
<1> HIDE DEF S, b, f, q, n, z
<1>7. b \o f \in Seq(S) /\ Len(b \o f) = Len(b) + Len(f) /\ Len(b) \in Nat
  BY <1>3, Front
<1>8. \E t \in Seq(S) : b \o f = Opening(s) \o t
  <2>1. Opening(s) \in Seq(S)
    BY DEF WrittenWell, S, C!Bytes
  <2>2. (Opening(s) \o tail) \o f = Opening(s) \o (tail \o f)
    BY <1>3, <1>4, <2>1, Regrouping, SMTT(60)
  <2>3. tail \o f \in Seq(S)
    BY <1>3, <1>4, Front
  <2> QED
    BY <1>4, <2>2, <2>3
<1> DEFINE e == b \o f
<1> HIDE DEF e
<1>e. e \in Seq(S) /\ Len(e) = Len(b) + Len(f) /\ Len(b) \in Nat /\ z.bytes = e
  BY <1>6, <1>7 DEF e
<1> DEFINE oo == [j \in 0..(n + 1) |-> IF j = n + 1 THEN o[n] + Len(f) ELSE o[j]]
<1>9. /\ o[0] = Len(Opening(s)) /\ o[n] = Len(b)
      /\ \A j \in 1..n :
           /\ Meant(s, w.sent[j])
           /\ o[j - 1] \in 0..Len(b) /\ o[j] = o[j - 1] + Len(FrameFor(w.sent[j]))
           /\ \E rest \in Seq(S) : C!From(b, o[j - 1]) = FrameFor(w.sent[j]) \o rest
  BY <1>5 DEF Laid, n, b, S, C!Bytes
<1>10. /\ oo = [j \in 0..(n + 1) |-> oo[j]]
       /\ oo[n + 1] = o[n] + Len(f)
       /\ \A j \in 0..n : oo[j] = o[j]
  BY <1>2
<1> HIDE DEF oo
<1>11. ASSUME NEW j \in 1..(n + 1)
       PROVE  /\ Meant(s, q[j])
              /\ oo[j - 1] \in 0..Len(e) /\ oo[j] = oo[j - 1] + Len(FrameFor(q[j]))
              /\ \E rest \in Seq(S) : C!From(e, oo[j - 1]) = FrameFor(q[j]) \o rest
  <2>1. CASE j = n + 1
    <3>1. q[j] = m /\ FrameFor(q[j]) = f /\ j - 1 = n /\ oo[j - 1] = o[n] /\ oo[j] = o[n] + Len(f)
      <4>1. j - 1 = n /\ n \in 0..n
        BY <1>2, <2>1
      <4>2. q[j] = m /\ FrameFor(m) = f
        BY <1>2, <2>1 DEF f
      <4> QED
        BY <1>10, <2>1, <4>1, <4>2
    <3>2. o[n] = Len(b) /\ Len(b) \in 0..Len(e)
      BY <1>3, <1>e, <1>9
    <3>3. C!From(e, Len(b)) = f
      BY <1>3, FromBehind DEF e
    <3>4. <<>> \in Seq(S) /\ f \o <<>> = f
      BY <1>3, ConcatEmptySeq
    <3> QED
      BY <3>1, <3>2, <3>3, <3>4
  <2>2. CASE j \in 1..n
    <3>1. q[j] = w.sent[j] /\ j \in 0..n /\ j - 1 \in 0..n
      BY <1>2, <2>2
    <3>2. oo[j - 1] = o[j - 1] /\ oo[j] = o[j]
      BY <1>10, <3>1
    <3>3. PICK rest \in Seq(S) : C!From(b, o[j - 1]) = FrameFor(w.sent[j]) \o rest
      BY <1>9, <2>2
    <3>4. o[j - 1] \in 0..Len(b) /\ o[j - 1] \in 0..Len(e)
      BY <1>3, <1>e, <1>9, <2>2
    <3>5. C!From(e, o[j - 1]) = C!From(b, o[j - 1]) \o f
      BY <1>3, <3>4, FromIn DEF e
    <3>6. Meant(s, w.sent[j]) /\ o[j] = o[j - 1] + Len(FrameFor(w.sent[j]))
      BY <1>9, <2>2
    <3> DEFINE g == FrameFor(w.sent[j])
    <3>7. g \in Seq(S)
      BY <3>6, MeantFrame DEF S, C!Bytes
    <3> HIDE DEF g
    <3>8. (g \o rest) \o f = g \o (rest \o f)
      BY <1>3, <3>7, Regrouping, SMTT(60)
    <3>a. rest \o f \in Seq(S)
      BY <1>3, Front
    <3>9. C!From(e, oo[j - 1]) = FrameFor(q[j]) \o (rest \o f)
      BY <3>1, <3>2, <3>3, <3>5, <3>8 DEF g
    <3> QED
      BY <3>1, <3>2, <3>4, <3>6, <3>9, <3>a
  <2>3. j = n + 1 \/ j \in 1..n
    BY <1>2
  <2> QED
    BY <2>1, <2>2, <2>3
<1>12. oo[0] = Len(Opening(s)) /\ oo[n + 1] = Len(e)
  <2>1. 0 \in 0..n
    BY <1>2
  <2> QED
    BY <1>e, <1>9, <1>10, <2>1
<1>13. Laid(z, s, oo)
  BY <1>2, <1>6, <1>e, <1>10, <1>11, <1>12 DEF Laid, S, C!Bytes
<1>14. z.sent \in Seq(T \cup {m}) /\ z.bytes \in C!Bytes
       /\ \E t \in C!Bytes : z.bytes = Opening(s) \o t
  BY <1>2, <1>6, <1>7, <1>8 DEF S, C!Bytes, e
<1> QED
  BY <1>13, <1>14 DEF WrittenWell, z, q, b, f

\* A script of a program that keeps to the protocol.
GoodScript(s) ==
  /\ s.is_request \in BOOLEAN
  /\ s.version \in 0..(C!WordRange - 1)
  /\ C!IsSequence(s.messages)
  /\ \A k \in 1..Len(s.messages) : C!encode_message(s.messages[k]).ok => Meant(s, s.messages[k])
  /\ PagesInOrder(Written(s).sent)
  /\ Len(Written(s).bytes) <= StreamLen

\* The scripts of a session are.
LEMMA ScriptsGood ==
  ASSUME NEW i \in DOMAIN Scripts
  PROVE  GoodScript(Scripts[i])
<1> DEFINE s == Scripts[i]
<1>1. /\ s.is_request \in BOOLEAN
      /\ s.version \in {PROTOCOL_VERSION, PROTOCOL_VERSION_LEGACY}
      /\ C!IsSequence(s.messages)
      /\ \A k \in DOMAIN s.messages :
           /\ C!encodable(s.messages[k]) => C!WellFormed(s.messages[k])
           /\ C!Suits(Reader(s), s.messages[k]) /\ C!class_of(s.messages[k]) \notin C!Private
      /\ PagesInOrder(Written(s).sent)
      /\ Len(Written(s).bytes) <= StreamLen
  BY ScriptsAssumption, Zenon
<1> HIDE DEF s
<1>2. s.version \in 0..(C!WordRange - 1)
  BY <1>1, CodecAssumptions DEF C!CodecAssumption
<1>3. DOMAIN s.messages = 1..Len(s.messages)
  BY <1>1, CodecAssumptions, C!Items
<1>4. ASSUME NEW k \in 1..Len(s.messages), C!encode_message(s.messages[k]).ok
      PROVE  Meant(s, s.messages[k])
  <2>1. C!encodable(s.messages[k])
    BY <1>4 DEF C!encode_message, C!Fail
  <2> QED
    BY <1>1, <1>3, <1>4, <2>1 DEF Meant, C!Okay
<1> QED
  BY <1>1, <1>2, <1>4 DEF GoodScript, s

\* The handshake of a client is a word.
LEMMA OpeningFacts ==
  ASSUME NEW s, GoodScript(s)
  PROVE  /\ Opening(s) \in C!Bytes
         /\ Len(Opening(s)) = IF s.is_request THEN HANDSHAKE_SIZE ELSE 0
         /\ s.is_request => C!Number(Opening(s)) = s.version
<1>1. s.version \in 0..(C!WordRange - 1)
  BY DEF GoodScript
<1>2. C!encode_uint64(s.version) \in C!Bytes /\ Len(C!encode_uint64(s.version)) = WORD_SIZE
  BY <1>1, CodecAssumptions, C!WordBytes DEF C!WholeWords
<1>3. C!Number(C!encode_uint64(s.version)) = s.version
  BY <1>1, CodecAssumptions, SizesAssumption, C!NumberRoundTrip DEF C!encode_uint64, C!WordRange
<1>4. HANDSHAKE_SIZE = WORD_SIZE
  BY CodecAssumptions
<1>5. <<>> \in C!Bytes /\ Len(<<>>) = 0
  BY DEF C!Bytes
<1> QED
  BY <1>2, <1>3, <1>4, <1>5 DEF Opening, C!encode_handshake

\* At the start the wire holds the handshake and no frame.
LEMMA StartsWell ==
  ASSUME NEW s, GoodScript(s)
  PROVE  WrittenWell(Start(s), s)
<1> DEFINE a == Opening(s)
           o == [j \in 0..0 |-> Len(a)]
           w == Start(s)
<1>1. a \in C!Bytes
  BY OpeningFacts
<1>2. w.sent = <<>> /\ w.bytes = a /\ <<>> \in Seq({}) /\ Len(<<>>) = 0
  BY DEF Start
<1> HIDE DEF a, w
<1>3. a \o <<>> = a /\ <<>> \in C!Bytes
  BY <1>1, ConcatEmptySeq DEF C!Bytes
<1>4. o = [j \in 0..0 |-> o[j]] /\ o[0] = Len(a) /\ \A j \in 1..0 : FALSE
  OBVIOUS
<1> HIDE DEF o
<1>5. Laid(w, s, o)
  BY <1>2, <1>4 DEF Laid, a
<1> QED
  BY <1>1, <1>2, <1>3, <1>5 DEF WrittenWell, a, w

\* What a writer puts on the wire are its frames, end to end.
LEMMA WritesWell ==
  ASSUME NEW s, GoodScript(s)
  PROVE  WrittenWell(Written(s), s)
<1> DEFINE n == Len(s.messages)
           T == {s.messages[k] : k \in 1..n}
           A == [sent : Seq(T), bytes : C!Bytes]
           G == [k \in 1..n |-> [w \in A |-> OneMore(w, s.messages[k])]]
           g == CHOOSE h : IsWriting(h, s)
<1>1. n \in Nat
  BY CodecAssumptions, C!Items DEF GoodScript
<1> HIDE DEF n
<1>2. Start(s) \in A
  BY OpeningFacts DEF Start
<1>3. ASSUME NEW k \in 1..n, NEW w \in A PROVE OneMore(w, s.messages[k]) \in A
  <2>1. CASE C!encode_message(s.messages[k]).ok
    <3>1. Meant(s, s.messages[k]) /\ s.messages[k] \in T
      BY <2>1 DEF GoodScript, n
    <3>2. FrameFor(s.messages[k]) \in C!Bytes /\ w.bytes \in C!Bytes /\ w.sent \in Seq(T)
      BY <3>1, MeantFrame
    <3> HIDE DEF T
    <3>3. w.bytes \o FrameFor(s.messages[k]) \in C!Bytes
      BY <3>2, Front DEF C!Bytes
    <3>4. Append(w.sent, s.messages[k]) \in Seq(T)
      BY <3>1, <3>2, AppendProperties
    <3> QED
      BY <2>1, <3>3, <3>4 DEF OneMore
  <2>2. CASE ~C!encode_message(s.messages[k]).ok
    BY <2>2 DEF OneMore
  <2> QED
    BY <2>1, <2>2
<1>4. G \in [1..n -> [A -> A]]
  BY <1>3
<1>5. PICK f \in [0..n -> A] : Recurs(f, n, Start(s), G)
  <2> HIDE DEF A, G
  <2> QED
    BY <1>1, <1>2, <1>4, RecursionExists
<1>6. IsWriting(f, s)
  <2>1. f[0] = Start(s) /\ \A k \in 1..n : f[k] = G[k][f[k - 1]]
    BY <1>5 DEF Recurs
  <2>2. ASSUME NEW k \in 1..n PROVE f[k] = OneMore(f[k - 1], s.messages[k])
    <3>1. k - 1 \in 0..n
      BY <1>1, <2>2
    <3>2. f[k - 1] \in A
      <4> HIDE DEF A, G
      <4> QED
        BY <1>5, <3>1
    <3> QED
      BY <2>1, <3>2
  <2>3. \A k \in 0..n : k = 0 \/ k \in 1..n
    BY <1>1
  <2>4. f = [k \in 0..n |-> f[k]]
    BY <1>5
  <2>5. \A k \in 0..n : f[k] = IF k = 0 THEN Start(s) ELSE OneMore(f[k - 1], s.messages[k])
    BY <2>1, <2>2, <2>3
  <2> HIDE DEF G, A
  <2> QED
    BY <2>4, <2>5 DEF IsWriting, n
<1>7. IsWriting(g, s)
  BY <1>6
<1>8. Written(s) = g[n]
  BY WrittenIs DEF n
<1> HIDE DEF g
<1>9. g[0] = Start(s) /\ \A k \in 1..n : g[k] = OneMore(g[k - 1], s.messages[k])
  <2>1. g = [k \in 0..n |-> IF k = 0 THEN Start(s) ELSE OneMore(g[k - 1], s.messages[k])]
    BY <1>7 DEF IsWriting, n
  <2>2. 0 \in 0..n /\ \A k \in 1..n : k \in 0..n /\ k # 0
    BY <1>1
  <2> QED
    BY <2>1, <2>2
<1> DEFINE P == {k \in Nat : k <= n => WrittenWell(g[k], s)}
<1>10. 0 \in P
  BY <1>9, StartsWell
<1>11. ASSUME NEW k \in Nat, k \in P PROVE k + 1 \in P
  <2> SUFFICES ASSUME k + 1 <= n PROVE WrittenWell(g[k + 1], s)
    OBVIOUS
  <2>1. WrittenWell(g[k], s) /\ k + 1 \in 1..n /\ (k + 1) - 1 = k
    BY <1>1, <1>11
  <2>2. g[k + 1] = OneMore(g[k], s.messages[k + 1])
    BY <1>9, <2>1
  <2>3. C!encode_message(s.messages[k + 1]).ok => Meant(s, s.messages[k + 1])
    BY <2>1 DEF GoodScript, n
  <2> QED
    BY <2>1, <2>2, <2>3, LaidOn DEF OneMore
<1> HIDE DEF P
<1>12. n \in P
  BY <1>1, <1>10, <1>11, SetInduction
<1> QED
  BY <1>1, <1>8, <1>12 DEF P

-----------------------------------------------------------------------------
(* What the reader finds on the wire *)

\* InPlace, of a given stream.
InPlaceAt(st, request, p) ==
  LET f == st[p.at] IN
  /\ HEADER_SIZE + f.words * WORD_SIZE <= max_message_size
  /\ f.ok /\ f.schema_ok /\ f.type # "UNKNOWN" /\ (f.type = "ROWS" /\ ~request => f.rows < max_rows)
  /\ IF p.frames = 0
     THEN ~request /\ f.type = "ROWS" /\ f.more => Within(f.rows, max_total_rows)
     ELSE \/ f.type \in {"FAILURE", "EMPTY"}
          \/ /\ f.type = "ROWS"
             /\ Within(p.frames + 1, max_continuation_frames)
             /\ Within(p.rows + f.rows, max_total_rows)
             /\ f.cols = p.cols

\* The bytes of a connection and the zeros behind them.
Padded(s) == Written(s).bytes \o C!Zeros(StreamLen)

\* What is seen at an offset.
LEMMA ViewAt ==
  ASSUME NEW s, NEW o \in 0..(StreamLen - 1)
  PROVE  StreamOf(Prepared(s))[o]
           = Described(s, C!From(Padded(s), o),
                       C!decode_message(FrameBytes(Padded(s), o), Reader(s)))
<1> DEFINE n == StreamLen
           V == [i \in 1..n |-> Described(s, C!From(Padded(s), i - 1),
                       C!decode_message(FrameBytes(Padded(s), i - 1), Reader(s)))]
<1>1. n \in Nat /\ o + 1 \in 1..n /\ (o + 1) - 1 = o
  BY SizesAssumption
<1>2. V[o + 1] = Described(s, C!From(Padded(s), o),
                       C!decode_message(FrameBytes(Padded(s), o), Reader(s)))
  BY <1>1
<1>3. Prepared(s).views = SubSeq(V, 1, n)
  BY Zenon DEF Prepared, Views, Padded
<1>4. DOMAIN V = 1..n
  OBVIOUS
<1> HIDE DEF V
<1>5. SubSeq(V, 1, n)[o + 1] = V[o + 1]
  <2>1. V = [i \in 1..n |-> V[i]]
    BY DEF V
  <2> DEFINE R == {V[i] : i \in 1..n}
  <2>2. V \in [1..n -> R]
    BY <2>1
  <2> HIDE DEF R
  <2>3. V \in Seq(R) /\ Len(V) = n
    BY <1>1, <2>2
  <2> QED
    BY <1>1, <2>3
<1>6. StreamOf(Prepared(s))[o] = Prepared(s).views[o + 1]
  BY DEF StreamOf
<1> QED
  BY <1>2, <1>3, <1>5, <1>6

\* A station at an offset, where this much of a result is open.
StationAt(o, q) == [at |-> o, frames |-> q.frames, rows |-> q.rows, cols |-> q.cols]

\* The frame of a message lies whole at an offset of what is written.
FrameLies(s, m, o) ==
  LET b == Written(s).bytes IN
  /\ o \in 0..Len(b) /\ o + Len(FrameFor(m)) <= Len(b)
  /\ \E rest \in C!Bytes : C!From(b, o) = FrameFor(m) \o rest

\* It is in place there, the reader goes on behind it and gets the message from it.
FramePlaced(s, m, o, q) ==
  LET st == StreamOf(Prepared(s))
      p == StationAt(o, q)
  IN  /\ InPlaceAt(st, s.is_request, p)
      /\ Following(st, s.is_request, p) = StationAt(o + Len(FrameFor(m)), Collected(q, m))
      /\ C!SameMessage(m, C!decode_message(FrameBytes(Written(s).bytes, o), Reader(s)).val)

\* A frame that lies at an offset is in place when its message follows what is open.
LEMMA AtFrame ==
  ASSUME NEW s, GoodScript(s), NEW m, Meant(s, m), NEW o, FrameLies(s, m, o), NEW q, Follows(q, m)
  PROVE  FramePlaced(s, m, o, q)
<1>a. /\ o \in 0..Len(Written(s).bytes) /\ o + Len(FrameFor(m)) <= Len(Written(s).bytes)
      /\ \E rest \in C!Bytes : C!From(Written(s).bytes, o) = FrameFor(m) \o rest
  BY DEF FrameLies
<1>r. PICK rest \in C!Bytes : C!From(Written(s).bytes, o) = FrameFor(m) \o rest
  BY <1>a
<1> DEFINE p == StationAt(o, q)
<1> DEFINE S == 0..(C!BYTE - 1)
           b == Written(s).bytes
           z == C!Zeros(StreamLen)
           f == FrameFor(m)
           st == StreamOf(Prepared(s))
           x == st[o]
<1>1. b \in Seq(S) /\ rest \in Seq(S)
  BY WritesWell DEF WrittenWell, C!Bytes
<1>2. z \in Seq(S)
  <2>1. 0 \in S
    BY DEF C!BYTE
  <2> HIDE DEF S
  <2> QED
    BY <2>1, SizesAssumption DEF C!Zeros
<1>3. f \in Seq(S) /\ Len(f) \in Nat /\ Len(f) >= HEADER_SIZE /\ Len(f) <= max_message_size
      /\ C!decode_message(f, Reader(s)).val = C!Reading(m) /\ C!SameMessage(m, C!Reading(m))
  BY MeantFrame DEF C!Bytes
<1>4. o \in 0..(StreamLen - 1)
  <2>1. Len(b) <= StreamLen
    BY DEF GoodScript
  <2>2. Len(b) \in Nat
    BY <1>1, LenProperties
  <2> HIDE DEF b, f
  <2> QED
    BY <1>a, <1>3, <2>1, <2>2, SizesAssumption DEF b, f
<1>b. o \in 0..Len(b) /\ C!From(b, o) = f \o rest
  BY <1>a, <1>r
<1> HIDE DEF b, z, S
<1>5. C!From(b \o z, o) = f \o (rest \o z) /\ rest \o z \in Seq(S)
  <2>1. C!From(b \o z, o) = C!From(b, o) \o z
    BY <1>1, <1>2, <1>b, FromIn
  <2> HIDE DEF f
  <2>2. f \in Seq(S) /\ rest \in Seq(S) /\ z \in Seq(S)
    BY <1>1, <1>2, <1>3
  <2>3. (f \o rest) \o z = f \o (rest \o z)
    BY <2>2, Regrouping, SMTT(60)
  <2>4. rest \o z \in Seq(S)
    BY <2>2, Front
  <2> QED
    BY <1>b, <2>1, <2>3, <2>4
<1> DEFINE back == rest \o z
           d == f \o back
<1>6. back \in C!Bytes /\ C!From(Padded(s), o) = d
  BY <1>5 DEF Padded, b, z, S, C!Bytes
<1> HIDE DEF back
<1>7. FrameBytes(Padded(s), o) = f
  BY <1>6, FrameInFront DEF FrameBytes
<1>8. FrameBytes(b, o) = f
  BY <1>b, FrameInFront DEF FrameBytes, b
<1>9. x = Described(s, d, C!decode_message(f, Reader(s)))
  BY <1>4, <1>6, <1>7, ViewAt
<1> HIDE DEF st
<1>10. /\ HEADER_SIZE + x.words * WORD_SIZE = Len(f)
       /\ x.ok /\ x.schema_ok /\ x.type = TypeName(C!class_of(m))
       /\ m.kind = "RowsResponse" =>
            /\ x.rows = Len(m.rows) /\ x.cols = m.column_names /\ x.more = m.has_more
            /\ x.rows < max_rows /\ ~s.is_request
  BY <1>6, <1>9, FrameDescribed
<1>11. /\ x.type # "UNKNOWN"
       /\ x.type = "ROWS" <=> m.kind = "RowsResponse"
       /\ m.kind \in {"FailureResponse", "HalfRows", "EmptyResponse"} => x.type \in {"FAILURE", "EMPTY"}
  BY <1>10, MeantKind
<1> HIDE DEF x, f
<1>12. p.at = o /\ p.frames = q.frames /\ p.rows = q.rows /\ p.cols = q.cols /\ st[p.at] = x
  BY DEF x, StationAt
<1> HIDE DEF p
<1>13. InPlaceAt(st, s.is_request, p)
  <2>1. IF p.frames = 0
        THEN ~s.is_request /\ x.type = "ROWS" /\ x.more => Within(x.rows, max_total_rows)
        ELSE \/ x.type \in {"FAILURE", "EMPTY"}
             \/ /\ x.type = "ROWS"
                /\ Within(p.frames + 1, max_continuation_frames)
                /\ Within(p.rows + x.rows, max_total_rows)
                /\ x.cols = p.cols
    BY <1>10, <1>11, <1>12 DEF Follows
  <2> QED
    BY <1>3, <1>10, <1>11, <1>12, <2>1 DEF InPlaceAt
<1>14. Following(st, s.is_request, p)
         = LET u == Collected(q, m) IN
           [at |-> o + Len(f), frames |-> u.frames, rows |-> u.rows, cols |-> u.cols]
  <2>1. Following(st, s.is_request, p)
          = IF ~s.is_request /\ x.type = "ROWS" /\ x.more
            THEN [at |-> o + Len(f), frames |-> q.frames + 1, rows |-> q.rows + x.rows, cols |-> x.cols]
            ELSE [at |-> o + Len(f), frames |-> 0, rows |-> 0, cols |-> None]
    BY <1>10, <1>12 DEF Following
  <2>2. CASE m.kind = "RowsResponse" /\ m.has_more
    <3>1. ~s.is_request /\ x.type = "ROWS" /\ x.more /\ x.rows = Len(m.rows) /\ x.cols = m.column_names
      BY <1>10, <1>11, <2>2
    <3>2. Collected(q, m) = [frames |-> q.frames + 1, rows |-> q.rows + Len(m.rows), cols |-> m.column_names]
      BY <2>2 DEF Collected
    <3> QED
      BY <2>1, <3>1, <3>2
  <2>3. CASE ~(m.kind = "RowsResponse" /\ m.has_more)
    <3>1. ~(~s.is_request /\ x.type = "ROWS" /\ x.more)
      BY <1>10, <1>11, <2>3
    <3>2. Collected(q, m) = [frames |-> 0, rows |-> 0, cols |-> None]
      BY <2>3 DEF Collected, NothingOpen
    <3> QED
      BY <2>1, <3>1, <3>2
  <2> QED
    BY <2>2, <2>3
<1>15. C!SameMessage(m, C!decode_message(FrameBytes(b, o), Reader(s)).val)
  BY <1>3, <1>8 DEF f
<1> QED
  BY <1>13, <1>14, <1>15 DEF b, f, st, p, FramePlaced, StationAt

-----------------------------------------------------------------------------
(* The frames of a script are in place *)

\* What is open after each of the messages.
IsOpen(g, sent) ==
  g = [k \in 0..Len(sent) |-> IF k = 0 THEN NothingOpen ELSE Collected(g[k - 1], sent[k])]

\* The choice that PagesInOrder makes.
Opened(sent) == CHOOSE g : IsOpen(g, sent)

\* What is open after each of the messages, and that each follows it.
LEMMA OpenFacts ==
  ASSUME NEW s, NEW sent, NEW T, sent \in Seq(T), \A k \in 1..Len(sent) : Meant(s, sent[k])
  PROVE  /\ Opened(sent)[0] = NothingOpen
         /\ \A k \in 1..Len(sent) : Opened(sent)[k] = Collected(Opened(sent)[k - 1], sent[k])
         /\ PagesInOrder(sent) => \A k \in 1..Len(sent) : Follows(Opened(sent)[k - 1], sent[k])
<1> DEFINE n == Len(sent)
           K == {None} \cup {sent[k].column_names : k \in 1..n}
           A == [frames : Nat, rows : Nat, cols : K]
           G == [k \in 1..n |-> [w \in A |-> Collected(w, sent[k])]]
           g == Opened(sent)
<1>1. n \in Nat
  BY LenProperties
<1> HIDE DEF n
<1>a. None \in K /\ \A k \in 1..n : sent[k].column_names \in K
  OBVIOUS
<1> HIDE DEF K
<1>2. NothingOpen \in A
  BY <1>a DEF NothingOpen
<1>3. ASSUME NEW k \in 1..n, NEW w \in A PROVE Collected(w, sent[k]) \in A
  <2>1. CASE sent[k].kind = "RowsResponse"
    <3>1. C!rows_typed(sent[k])
      BY <2>1, MeantKind DEF n
    <3>2. Len(sent[k].rows) \in Nat
      BY <3>1 DEF C!rows_typed, C!IsSequence
    <3>4. w.frames \in Nat /\ w.rows \in Nat
      OBVIOUS
    <3>3. w.frames + 1 \in Nat /\ w.rows + Len(sent[k].rows) \in Nat
      BY <3>2, <3>4
    <3> QED
      BY <1>a, <1>2, <3>3 DEF Collected
  <2>2. CASE sent[k].kind # "RowsResponse"
    BY <1>2, <2>2 DEF Collected
  <2> QED
    BY <2>1, <2>2
<1>4. G \in [1..n -> [A -> A]]
  BY <1>3
<1>5. PICK f \in [0..n -> A] : Recurs(f, n, NothingOpen, G)
  <2> HIDE DEF A, G
  <2> QED
    BY <1>1, <1>2, <1>4, RecursionExists
<1>6. IsOpen(f, sent)
  <2>1. f[0] = NothingOpen /\ \A k \in 1..n : f[k] = G[k][f[k - 1]]
    BY <1>5 DEF Recurs
  <2>2. ASSUME NEW k \in 1..n PROVE f[k] = Collected(f[k - 1], sent[k])
    <3>1. k - 1 \in 0..n
      BY <1>1, <2>2
    <3>2. f[k - 1] \in A
      BY <1>5, <3>1
    <3> HIDE DEF A
    <3>3. G[k][f[k - 1]] = Collected(f[k - 1], sent[k])
      BY <3>2
    <3> QED
      BY <2>1, <3>3
  <2>3. \A k \in 0..n : k = 0 \/ k \in 1..n
    BY <1>1
  <2>4. f = [k \in 0..n |-> f[k]]
    BY <1>5
  <2>5. \A k \in 0..n : f[k] = IF k = 0 THEN NothingOpen ELSE Collected(f[k - 1], sent[k])
    BY <2>1, <2>2, <2>3
  <2> HIDE DEF G, A
  <2> QED
    BY <2>4, <2>5 DEF IsOpen, n
<1>7. IsOpen(g, sent)
  BY <1>6 DEF Opened
<1>8. PagesInOrder(sent) => \A k \in 1..n : Follows(g[k - 1], sent[k])
  BY Zenon DEF PagesInOrder, Opened, IsOpen, n
<1> HIDE DEF g
<1>9. g[0] = NothingOpen /\ \A k \in 1..n : g[k] = Collected(g[k - 1], sent[k])
  <2>1. g = [k \in 0..n |-> IF k = 0 THEN NothingOpen ELSE Collected(g[k - 1], sent[k])]
    BY <1>7 DEF IsOpen, n
  <2>2. 0 \in 0..n /\ \A k \in 1..n : k \in 0..n /\ k # 0
    BY <1>1
  <2> QED
    BY <2>1, <2>2
<1> QED
  BY <1>8, <1>9 DEF g, n

\* The frames of a script, each at its station.
ScriptAsSent(s) ==
  LET c == Connection(s)
      st == StreamOf(Prepared(s))
      n == Len(c.sent)
      after == Walk(c, st, s.is_request)
  IN  /\ n \in Nat /\ Len(c.bytes) \in 0..StreamLen
      /\ st[0].request = c.is_request
      /\ c.is_request => st[0].version = c.version
      /\ after[n].at = Len(c.bytes)
      /\ \A k \in 1..n :
           /\ InPlaceAt(st, s.is_request, after[k - 1])
           /\ C!SameMessage(c.sent[k], C!decode_message(FrameBytes(c.bytes, after[k - 1].at), Reader(s)).val)

\* The reader's walk over what a script writes goes from frame to frame.
LEMMA ScriptWalk ==
  ASSUME NEW s, GoodScript(s)
  PROVE  ScriptAsSent(s)
<1> DEFINE c == Connection(s)
           st == StreamOf(Prepared(s))
           w == Written(s)
           n == Len(w.sent)
           after == Walk(c, st, s.is_request)
           open == Opened(w.sent)
           At(k, o) == [at |-> o[k], frames |-> open[k].frames, rows |-> open[k].rows, cols |-> open[k].cols]
<1>1. WrittenWell(w, s)
  BY WritesWell
<1>2. PICK o : Laid(w, s, o)
  BY <1>1 DEF WrittenWell
<1>3. PICK T : w.sent \in Seq(T)
  BY <1>1 DEF WrittenWell
<1>4. n \in Nat
  BY <1>3, LenProperties
<1>5. /\ c.sent = w.sent /\ c.bytes = w.bytes /\ c.is_request = s.is_request /\ c.version = s.version
  BY DEF Connection
<1>6. w.bytes \in C!Bytes /\ Len(w.bytes) \in Nat /\ Len(w.bytes) <= StreamLen
  BY <1>1, LenProperties DEF WrittenWell, GoodScript, C!Bytes
<1>7. /\ o[0] = Len(Opening(s)) /\ o[n] = Len(w.bytes)
      /\ \A j \in 1..n :
           /\ Meant(s, w.sent[j])
           /\ o[j - 1] \in 0..Len(w.bytes) /\ o[j] = o[j - 1] + Len(FrameFor(w.sent[j]))
           /\ \E rest \in C!Bytes : C!From(w.bytes, o[j - 1]) = FrameFor(w.sent[j]) \o rest
  BY <1>2 DEF Laid
<1>8. PagesInOrder(w.sent)
  BY DEF GoodScript
<1> HIDE DEF st, w, c
<1>9. /\ open[0] = NothingOpen
      /\ \A k \in 1..n : open[k] = Collected(open[k - 1], w.sent[k])
      /\ \A k \in 1..n : Follows(open[k - 1], w.sent[k])
  BY <1>3, <1>7, <1>8, OpenFacts
<1>10. /\ after[0] = First(c)
       /\ \A k \in 1..n : after[k] = Following(st, s.is_request, after[k - 1])
  BY <1>4, <1>5, WalkFacts
<1> HIDE DEF n, open, after
<1>11. \A j \in 1..n : o[j] \in 0..Len(w.bytes)
  <2> SUFFICES ASSUME NEW j \in 1..n PROVE o[j] \in 0..Len(w.bytes)
    OBVIOUS
  <2>1. CASE j = n
    BY <1>6, <1>7, <2>1
  <2>2. CASE j # n
    <3>1. j + 1 \in 1..n /\ (j + 1) - 1 = j
      BY <1>4, <2>2
    <3> QED
      BY <1>7, <3>1
  <2> QED
    BY <2>1, <2>2
<1>12. ASSUME NEW k \in 1..n, after[k - 1] = At(k - 1, o)
       PROVE  /\ after[k] = At(k, o)
              /\ InPlaceAt(st, s.is_request, after[k - 1])
              /\ C!SameMessage(w.sent[k],
                   C!decode_message(FrameBytes(w.bytes, after[k - 1].at), Reader(s)).val)
  <2> DEFINE m == w.sent[k]
             q == open[k - 1]
             a == o[k - 1]
             p == At(k - 1, o)
  <2>1. PICK rest \in C!Bytes : C!From(w.bytes, a) = FrameFor(m) \o rest
    BY <1>7
  <2>2. /\ Meant(s, m) /\ a \in 0..Len(w.bytes) /\ o[k] = a + Len(FrameFor(m)) /\ Follows(q, m)
        /\ open[k] = Collected(q, m) /\ after[k] = Following(st, s.is_request, after[k - 1])
    BY <1>7, <1>9, <1>10
  <2>3. a + Len(FrameFor(m)) <= Len(w.bytes)
    BY <1>11, <2>2
  <2>4. p = StationAt(a, q) /\ p.at = a
    BY DEF StationAt
  <2> HIDE DEF m, q, a, p
  <2>5. FrameLies(s, m, a)
    BY <2>1, <2>2, <2>3 DEF w, FrameLies
  <2>6. FramePlaced(s, m, a, q)
    BY <2>2, <2>5, AtFrame
  <2>7. /\ InPlaceAt(st, s.is_request, p)
        /\ Following(st, s.is_request, p) = StationAt(a + Len(FrameFor(m)), Collected(q, m))
        /\ C!SameMessage(m, C!decode_message(FrameBytes(w.bytes, a), Reader(s)).val)
    BY <2>4, <2>6, Zenon DEF w, st, FramePlaced
  <2>8. after[k - 1] = p
    BY <1>12 DEF p
  <2>9. after[k] = At(k, o)
    <3>1. after[k] = StationAt(o[k], open[k])
      BY <2>2, <2>7, <2>8
    <3> QED
      BY <3>1 DEF StationAt
  <2> QED
    BY <2>4, <2>7, <2>8, <2>9 DEF m
<1>13. after[0] = At(0, o)
  BY <1>5, <1>7, <1>9, <1>10, OpeningFacts DEF First, NothingOpen
<1> DEFINE P == {k \in Nat : k <= n => after[k] = At(k, o)}
<1>14. 0 \in P
  BY <1>13
<1>15. ASSUME NEW k \in Nat, k \in P PROVE k + 1 \in P
  <2> SUFFICES ASSUME k + 1 <= n PROVE after[k + 1] = At(k + 1, o)
    OBVIOUS
  <2>1. k + 1 \in 1..n /\ (k + 1) - 1 = k /\ k <= n
    BY <1>4
  <2> HIDE DEF At
  <2>2. after[k] = At(k, o)
    BY <1>15, <2>1
  <2> QED
    BY <1>12, <2>1, <2>2
<1>16. \A k \in 0..n : after[k] = At(k, o)
  <2> HIDE DEF P
  <2>1. \A k \in Nat : k \in P
    BY <1>14, <1>15, SetInduction
  <2> QED
    BY <1>4, <2>1 DEF P
<1>17. after[n].at = Len(w.bytes)
  <2>1. after[n] = At(n, o)
    BY <1>4, <1>16
  <2> QED
    BY <1>7, <2>1
<1>18. \A k \in 1..n :
         /\ InPlaceAt(st, s.is_request, after[k - 1])
         /\ C!SameMessage(w.sent[k],
              C!decode_message(FrameBytes(w.bytes, after[k - 1].at), Reader(s)).val)
  <2> HIDE DEF At
  <2> SUFFICES ASSUME NEW k \in 1..n
               PROVE  /\ InPlaceAt(st, s.is_request, after[k - 1])
                      /\ C!SameMessage(w.sent[k],
                           C!decode_message(FrameBytes(w.bytes, after[k - 1].at), Reader(s)).val)
    OBVIOUS
  <2>1. k - 1 \in 0..n
    BY <1>4
  <2>2. after[k - 1] = At(k - 1, o)
    BY <1>16, <2>1
  <2> QED
    BY <1>12, <2>2
<1>19. st[0].request = s.is_request /\ (s.is_request => st[0].version = s.version)
  <2>1. 0 \in 0..(StreamLen - 1)
    BY ScriptsAssumption, SizesAssumption
  <2>2. /\ st[0].request = s.is_request
        /\ st[0].version = C!Number(SubSeq(C!From(Padded(s), 0), 1, HANDSHAKE_SIZE))
    <3> DEFINE r == C!decode_message(FrameBytes(Padded(s), 0), Reader(s))
               d == C!From(Padded(s), 0)
    <3>1. st[0] = Described(s, d, r)
      BY <2>1, ViewAt DEF st
    <3> HIDE DEF r, d
    <3>2. Described(s, d, r).request = s.is_request
          /\ Described(s, d, r).version = C!Number(SubSeq(d, 1, HANDSHAKE_SIZE))
      BY DEF Described
    <3> QED
      BY <3>1, <3>2 DEF d
  <2>3. ASSUME s.is_request PROVE SubSeq(C!From(Padded(s), 0), 1, HANDSHAKE_SIZE) = Opening(s)
    <3> DEFINE S == 0..(C!BYTE - 1)
               z == C!Zeros(StreamLen)
               e == Opening(s)
    <3>1. PICK tail \in Seq(S) : w.bytes = e \o tail
      BY <1>1 DEF WrittenWell, C!Bytes
    <3>2. e \in Seq(S) /\ Len(e) = HANDSHAKE_SIZE
      BY <2>3, OpeningFacts DEF C!Bytes
    <3>3. z \in Seq(S)
      <4>1. 0 \in S
        BY DEF C!BYTE
      <4> HIDE DEF S
      <4> QED
        BY <4>1, SizesAssumption DEF C!Zeros
    <3> HIDE DEF S, z, e
    <3>4. (e \o tail) \o z = e \o (tail \o z)
      BY <3>1, <3>2, <3>3, Regrouping, SMTT(60)
    <3>5. tail \o z \in Seq(S)
      BY <3>1, <3>3, Front
    <3> DEFINE y == tail \o z
    <3> HIDE DEF y
    <3>6. e \o y \in Seq(S) /\ SubSeq(e \o y, 1, Len(e)) = e
      BY <3>2, <3>5, Front DEF y
    <3>7. Padded(s) = e \o y
      BY <3>1, <3>4 DEF Padded, w, z, y
    <3> DEFINE x == e \o y
    <3> HIDE DEF x
    <3>8. C!From(x, 0) = x
      BY <3>6, CodecAssumptions, C!FromAll DEF x
    <3> QED
      BY <3>2, <3>6, <3>7, <3>8 DEF x, e
  <2> QED
    BY <2>2, <2>3, OpeningFacts
<1> QED
  BY <1>4, <1>5, <1>6, <1>17, <1>18, <1>19 DEF ScriptAsSent, c, st, w, n, after

-----------------------------------------------------------------------------
(* A session is always on one of its scripts *)

\* The connection is one of the scripts, and the stream what is seen of it.
OnWire ==
  /\ \E i \in DOMAIN Scripts :
       connection = Connection(Scripts[i]) /\ stream = StreamOf(Prepared(Scripts[i]))
  /\ is_request = connection.is_request

\* The connections of a session are its scripts, prepared.
LEMMA ConnectionsAre ==
  /\ DOMAIN Connections = DOMAIN Scripts
  /\ \A i \in DOMAIN Scripts : Connections[i] = Prepared(Scripts[i])
<1> DEFINE n == Len(Scripts)
           F == [i \in 1..n |-> Prepared(Scripts[i])]
           R == {F[i] : i \in 1..n}
<1>1. n \in Nat /\ DOMAIN Scripts = 1..n
  BY ScriptsAssumption, CodecAssumptions, C!Items
<1>2. Connections = SubSeq(F, 1, n)
  BY <1>1, Zenon DEF Connections
<1>3. \A i \in 1..n : F[i] = Prepared(Scripts[i])
  OBVIOUS
<1> HIDE DEF n
<1>4. F \in [1..n -> R]
  OBVIOUS
<1> HIDE DEF F, R
<1>5. F \in Seq(R) /\ Len(F) = n
  BY <1>1, <1>4
<1>6. SubSeq(F, 1, n) = F /\ DOMAIN F = 1..n
  BY <1>1, <1>4, <1>5
<1> QED
  BY <1>1, <1>2, <1>3, <1>6

\* Whatever the decoder does on a connection, its owner's side stays what it is.
LEMMA SameConnection ==
  ASSUME [SessionNext]_all_vars, ~reconnect
  PROVE  UNCHANGED <<connection, stream, is_request>>
<1>1. CASE step
  <2>1. call /\ UNCHANGED connection
    BY <1>1 DEF step
  <2>2. UNCHANGED <<stream, is_request>>
    BY <2>1 DEF call, decode, decode_failed, decode_continuation, decode_continuation_rows,
       decode_continuation_end, decode_continuation_error, decode_continuation_oversized,
       decode_handshake, CompleteHandshake, HandshakeCall, handshake_vars, wire_vars, Finalize
  <2> QED
    BY <2>1, <2>2
<1>2. CASE arrive
  BY <1>2 DEF arrive, decoder_feed, feed, feed_reject, decoder_vars, session_vars, wire_vars
<1>3. CASE interrupt
  <2>1. UNCHANGED connection
    BY <1>3 DEF interrupt, session_vars
  <2>2. ASSUME NEW n \in Chunks, decoder_feed_interrupted(n) PROVE UNCHANGED <<stream, is_request>>
    BY <2>2 DEF decoder_feed_interrupted, feed_interrupted, decoder_vars, wire_vars
  <2>3. CASE decode_interrupted
    BY <2>1, <2>3 DEF decode_interrupted, read_message_interrupted, TakeInterrupted, wire_vars
  <2>4. CASE decode_continuation_interrupted
    BY <2>1, <2>4 DEF decode_continuation_interrupted, read_message_interrupted, TakeInterrupted,
       wire_vars, Finalize
  <2>5. CASE decode_handshake_interrupted
    BY <2>1, <2>5 DEF decode_handshake_interrupted, CompleteHandshake, HandshakeCall,
       read_bytes_interrupted, TakeInterrupted, rb_vars, wire_vars
  <2> QED
    BY <1>3, <2>1, <2>2, <2>3, <2>4, <2>5 DEF interrupt
<1>4. CASE finished \/ UNCHANGED all_vars
  BY <1>4 DEF finished, all_vars, vars, session_vars
<1> QED
  BY <1>1, <1>2, <1>3, <1>4 DEF SessionNext

\* A script's first byte tells who wrote it.
LEMMA FirstByte ==
  ASSUME NEW i \in DOMAIN Scripts
  PROVE  StreamOf(Prepared(Scripts[i]))[0].request = Connection(Scripts[i]).is_request
  BY ScriptsGood, ScriptWalk DEF ScriptAsSent

\* A session is always on one of its scripts.
LEMMA OnWireAlways == SessionSpec => []OnWire
<1>1. ASSUME NEW i \in DOMAIN Scripts
      PROVE  Connections[i].connection = Connection(Scripts[i])
             /\ StreamOf(Connections[i]) = StreamOf(Prepared(Scripts[i]))
  BY ConnectionsAre DEF Prepared
<1>2. SessionInit => OnWire
  <2> SUFFICES ASSUME SessionInit PROVE OnWire
    OBVIOUS
  <2>1. PICK i \in DOMAIN Scripts :
          connection = Connection(Scripts[i]) /\ stream = StreamOf(Prepared(Scripts[i]))
    BY <1>1, ConnectionsAre DEF SessionInit
  <2>2. is_request = stream[0].request
    BY DEF SessionInit, DecoderInit
  <2> QED
    BY <2>1, <2>2, FirstByte DEF OnWire
<1>3. OnWire /\ [SessionNext]_all_vars => OnWire'
  <2> SUFFICES ASSUME OnWire, [SessionNext]_all_vars PROVE OnWire'
    OBVIOUS
  <2>1. CASE reconnect
    <3>1. PICK i \in Later : connection' = Connections[i].connection /\ stream' = StreamOf(Connections[i])
      BY <2>1 DEF reconnect
    <3>2. i \in DOMAIN Scripts
      BY ScriptsAssumption
    <3>3. connection' = Connection(Scripts[i]) /\ stream' = StreamOf(Prepared(Scripts[i]))
      BY <1>1, <3>1, <3>2
    <3>4. is_request = stream'[0].request /\ is_request' = is_request
      BY <2>1 DEF reconnect, reset, Finalize
    <3>5. is_request' = connection'.is_request
      BY <3>2, <3>3, <3>4, FirstByte
    <3> QED
      BY <3>2, <3>3, <3>5 DEF OnWire
  <2>2. CASE ~reconnect
    BY <2>2, SameConnection DEF OnWire
  <2> QED
    BY <2>1, <2>2
<1> QED
  BY <1>2, <1>3, PTL DEF SessionSpec


\* What the writer puts on the wire are the frames of its messages, end to end, each
\* in place and read as its message, for every script (encode_handshake,
\* encode_message, decode_message).
THEOREM FramesAsSentAlways == SessionSpec => []FramesAsSent
<1>1. OnWire => FramesAsSent
  <2> SUFFICES ASSUME OnWire PROVE FramesAsSent
    OBVIOUS
  <2>1. PICK i \in DOMAIN Scripts :
          connection = Connection(Scripts[i]) /\ stream = StreamOf(Prepared(Scripts[i]))
    BY DEF OnWire
  <2> DEFINE s == Scripts[i]
             n == Len(connection.sent)
             after == Walk(connection, stream, is_request)
  <2>2. connection.is_request = s.is_request /\ is_request = s.is_request /\ connection.version = s.version
    BY <2>1 DEF OnWire, Connection
  <2>3. Reader(connection) = Reader(s)
    BY <2>2 DEF Reader
  <2>4. /\ n \in Nat /\ Len(connection.bytes) \in 0..StreamLen
        /\ stream[0].request = connection.is_request
        /\ connection.is_request => stream[0].version = connection.version
        /\ after[n].at = Len(connection.bytes)
        /\ \A k \in 1..n :
             /\ InPlaceAt(stream, is_request, after[k - 1])
             /\ C!SameMessage(connection.sent[k],
                  C!decode_message(FrameBytes(connection.bytes, after[k - 1].at), Reader(s)).val)
    BY <2>1, <2>2, ScriptsGood, ScriptWalk, Zenon DEF ScriptAsSent
  <2>5. Stations = after
    BY StationsIsWalk
  <2> HIDE DEF after, n
  <2>6. ASSUME NEW p PROVE InPlaceAt(stream, is_request, p) => InPlace(p)
    BY DEF InPlaceAt, InPlace, Claimed, BodyDecodes, Announces
  <2>7. ASSUME NEW o
        PROVE  MessageAt(o) = C!decode_message(FrameBytes(connection.bytes, o), Reader(s)).val
    BY <2>3 DEF MessageAt
  <2>8. ASSUME NEW k \in 1..n
        PROVE  InPlace(after[k - 1]) /\ C!SameMessage(connection.sent[k], MessageAt(after[k - 1].at))
    BY <2>4, <2>6, <2>7
  <2> QED
    BY <2>4, <2>5, <2>8, Zenon DEF FramesAsSent, n
<1> QED
  BY <1>1, OnWireAlways, PTL

-----------------------------------------------------------------------------
(* The inductive invariant of a session: the reader stands at the station   *)
(* of the messages it has, and the decoder knows of the open result what    *)
(* the station says.                                                        *)

\* The reader and its decoder at a station.
AtStation(p) ==
  /\ p.frames \in Nat /\ p.rows \in Nat
  /\ p.frames = 0 => p.rows = 0
  /\ taken = p.at
  /\ continuation_expected <=> p.frames # 0
  /\ continuation_expected =>
       frame_count = p.frames /\ total_rows = p.rows /\ columns = p.cols

Standing ==
  /\ got.ret = "message" => got.at < taken
  /\ IF handshake_done THEN AtStation(Stations[Len(delivered)])
     ELSE taken = 0 /\ Len(delivered) = 0

\* What is delivered is a sequence of answers to the first messages.
Answered ==
  /\ \E S : delivered \in Seq(S)
  /\ Len(delivered) <= Len(connection.sent)
  /\ \A i \in 1..Len(delivered) : C!SameMessage(connection.sent[i], delivered[i])

\* No skip, no error and no poison but those of interrupts and large chunks.
Sound ==
  /\ is_request = connection.is_request
  /\ poisoned \in {"none", "interrupt", "overflow"}
  /\ skip_remaining = 0
  /\ fed <= Len(connection.bytes)
  /\ got.ret # "error"
  /\ is_request /\ handshake_done => version = connection.version

SessionPart == Answered /\ Sound /\ (~is_poisoned => Standing)

\* The first station is where a fresh connection is left by its handshake.
LEMMA FirstFacts ==
  /\ Len(connection.sent) \in Nat => Stations[0] = First(connection)
  /\ Len(connection.sent)' \in Nat => Stations'[0] = First(connection')
  BY StationsIsWalk, WalkFacts

\* A step on the same connection leaves its stations where they are.
LEMMA StationsKept ==
  ASSUME UNCHANGED <<connection, stream, is_request>>
  PROVE  Stations' = Stations
  BY StationsIsWalk

\* An empty list of answers.
LEMMA NoAnswers ==
  ASSUME delivered' = <<>>, Len(connection'.sent) \in Nat
  PROVE  Answered' /\ Len(delivered') = 0
<1>1. <<>> \in Seq({}) /\ Len(<<>>) = 0
  OBVIOUS
<1>2. \E S : delivered' \in Seq(S)
  BY <1>1
<1>3. \A i \in 1..Len(delivered') : FALSE
  BY <1>1
<1> QED
  BY <1>1, <1>2, <1>3 DEF Answered

\* A frame with no header left to read: the reader has all that was sent.
LEMMA MoreToCome ==
  ASSUME DecoderInv, FramesAsSent, SessionPart, ~is_poisoned, handshake_done, has_header
  PROVE  /\ Len(delivered) \in Nat
         /\ Len(delivered) + 1 \in 1..Len(connection.sent)
         /\ AtStation(Stations[Len(delivered)])
         /\ InPlace(Stations[Len(delivered)])
         /\ C!SameMessage(connection.sent[Len(delivered) + 1], MessageAt(taken))
         /\ Stations[Len(delivered) + 1] = Following(stream, is_request, Stations[Len(delivered)])
<1> DEFINE n == Len(connection.sent)
           k == Len(delivered)
<1>1. n \in Nat /\ Len(connection.bytes) \in Nat /\ Stations[n].at = Len(connection.bytes)
  BY DEF FramesAsSent
<1>2. k \in Nat /\ k <= n /\ fed <= Len(connection.bytes)
  BY LenProperties DEF SessionPart, Answered, Sound
<1>3. AtStation(Stations[k])
  BY DEF SessionPart, Standing
<1>4. /\ taken \in Nat /\ fed \in Nat /\ available \in Int /\ HEADER_SIZE \in Nat \ {0}
      /\ taken + available = fed
  BY Basics DEF DecoderInv, Inv, Live
<1>5. k # n
  <2> SUFFICES ASSUME k = n PROVE FALSE
    OBVIOUS
  <2>1. taken = Len(connection.bytes)
    BY <1>1, <1>3 DEF AtStation
  <2> QED
    BY <1>1, <1>2, <1>4, <2>1 DEF has_header
<1>6. k + 1 \in 1..n /\ (k + 1) - 1 = k
  BY <1>1, <1>2, <1>5
<1>7. \A j \in 1..n : /\ InPlace(Stations[j - 1])
                      /\ C!SameMessage(connection.sent[j], MessageAt(Stations[j - 1].at))
  BY DEF FramesAsSent
<1>8. InPlace(Stations[k]) /\ C!SameMessage(connection.sent[k + 1], MessageAt(Stations[k].at))
  BY <1>6, <1>7
<1>9. Stations[k + 1] = Following(stream, is_request, Stations[k])
  BY <1>1, <1>6, StationsIsWalk, WalkFacts
<1> QED
  BY <1>2, <1>3, <1>6, <1>8, <1>9 DEF AtStation

-----------------------------------------------------------------------------
(* The steps of a session *)

\* One more answer, to the next message.
LEMMA OneMoreAnswer ==
  ASSUME Answered, UNCHANGED connection, NEW m,
         Len(delivered) + 1 \in 1..Len(connection.sent),
         C!SameMessage(connection.sent[Len(delivered) + 1], m),
         delivered' = Append(delivered, m)
  PROVE  Answered' /\ Len(delivered') = Len(delivered) + 1
<1>1. PICK S : delivered \in Seq(S)
  BY DEF Answered
<1>2. delivered \in Seq(S \cup {m}) /\ m \in S \cup {m}
  <2>1. \A T, q : S \subseteq T /\ q \in Seq(S) => q \in Seq(T)
    OBVIOUS
  <2> QED
    BY <1>1, <2>1
<1>3. /\ delivered' \in Seq(S \cup {m})
      /\ Len(delivered') = Len(delivered) + 1
      /\ Len(delivered) \in Nat
      /\ \A i \in 1..Len(delivered) : delivered'[i] = delivered[i]
      /\ delivered'[Len(delivered) + 1] = m
  BY <1>2, AppendProperties, LenProperties
<1>4. ASSUME NEW i \in 1..Len(delivered')
      PROVE  C!SameMessage(connection.sent[i], delivered'[i])
  <2>1. i \in 1..Len(delivered) \/ i = Len(delivered) + 1
    BY <1>3, <1>4
  <2> QED
    BY <2>1, <1>3 DEF Answered
<1>5. \E T : delivered' \in Seq(T)
  BY <1>3
<1>6. Len(delivered') <= Len(connection.sent)
  BY <1>3
<1> QED
  BY <1>3, <1>4, <1>5, <1>6 DEF Answered

\* A call that returns the next message takes the reader to the next station.
LEMMA MessageStep ==
  ASSUME DecoderInv, FramesAsSent, SessionPart,
         Readable, handshake_done, Take(total_size, "frame"), Delivers,
         NEW c \in {"decode", "continuation"},
         got' = [call |-> c, at |-> taken, ret |-> "message"],
         UNCHANGED <<skip_remaining, poisoned, stream, fed, is_request, version,
                     handshake_done, connection>>,
         NEW p, p = Stations[Len(delivered)],
         NEW q, q = Following(stream, is_request, p),
         continuation_expected' <=> q.frames # 0,
         continuation_expected' =>
           frame_count' = q.frames /\ total_rows' = q.rows /\ columns' = q.cols
  PROVE  SessionPart'
<1>1. /\ ~is_poisoned /\ taken \in 0..(StreamLen - 1) /\ Claimed(taken) \in Nat
      /\ taken' = taken + Claimed(taken) /\ stream[taken].rows \in Nat
  BY FrameFacts
<1>2. has_header
  BY DEF Readable
<1>3. /\ Len(delivered) \in Nat
      /\ Len(delivered) + 1 \in 1..Len(connection.sent)
      /\ AtStation(p)
      /\ C!SameMessage(connection.sent[Len(delivered) + 1], MessageAt(taken))
      /\ Stations[Len(delivered) + 1] = q
  BY <1>1, <1>2, MoreToCome
<1>4. taken \in Nat /\ taken < taken'
  <2>1. total_size \in Nat \ {0} /\ total_size = Claimed(taken)
    BY ReadableFacts DEF DecoderInv, Claimed
  <2> QED
    BY <1>1, <2>1
<1>5. got' # got
  <2> SUFFICES ASSUME got' = got PROVE FALSE
    OBVIOUS
  <2>1. got.ret = "message" /\ got.at = taken
    OBVIOUS
  <2>2. got.at < taken
    BY <1>1, <2>1 DEF SessionPart, Standing
  <2> QED
    BY <1>4, <2>1, <2>2
<1>6. got'.ret = "message" /\ got'.call # "handshake" /\ got'.at = taken
  OBVIOUS
<1>7. delivered' = Append(delivered, MessageAt(taken))
  BY <1>5, <1>6 DEF Delivers
<1>8. Answered' /\ Len(delivered') = Len(delivered) + 1
  BY <1>3, <1>7, OneMoreAnswer DEF SessionPart
<1>9. Stations' = Stations
  BY StationsKept
<1>10. AtStation(q)'
  <2>1. p.at = taken /\ p.frames \in Nat /\ p.rows \in Nat
    BY <1>3 DEF AtStation
  <2>2. /\ q.frames \in Nat /\ q.rows \in Nat /\ (q.frames = 0 => q.rows = 0)
        /\ q.at = taken + Claimed(taken)
    BY <1>1, <2>1, SMTT(30) DEF Following, Claimed
  <2> QED
    BY <1>1, <2>2 DEF AtStation
<1>11. Standing'
  BY <1>3, <1>4, <1>6, <1>8, <1>9, <1>10 DEF Standing
<1>12. Sound'
  BY <1>6 DEF SessionPart, Sound
<1> QED
  BY <1>8, <1>11, <1>12 DEF SessionPart

\* The frame at the reader's station is accepted: by decode() when no result is
\* open, by decode_continuation() when one is.
LEMMA HeadInPlace ==
  ASSUME DecoderInv, FramesAsSent, SessionPart, ~is_poisoned, has_header, handshake_done
  PROVE  /\ ~oversized
         /\ head = stream[taken]
         /\ ~continuation_expected => Accepted(head)
         /\ continuation_expected => Extends(head) \/ Terminates(head)
<1> DEFINE p == Stations[Len(delivered)]
<1>1. AtStation(p) /\ InPlace(p)
  BY MoreToCome
<1>2. data[pos + 1] = taken /\ total_size = Claimed(taken) /\ total_size \in Nat
  BY HeadFacts DEF DecoderInv, Claimed
<1>3. p.at = taken
  BY <1>1 DEF AtStation
<1>4. head = stream[taken]
  BY <1>2 DEF head
<1>5. ~oversized
  BY <1>1, <1>2, <1>3, SizesAssumption DEF InPlace, oversized
<1>6. ~continuation_expected => Accepted(head)
  BY <1>1, <1>3, <1>4 DEF AtStation, InPlace, Accepted
<1>7. ASSUME continuation_expected PROVE Extends(head) \/ Terminates(head)
  BY <1>1, <1>3, <1>4, <1>7 DEF AtStation, InPlace, Extends, Terminates
<1> QED
  BY <1>4, <1>5, <1>6, <1>7

LEMMA SessionDecode ==
  ASSUME DecoderInv, FramesAsSent, SessionPart, decode, Delivers, UNCHANGED connection
  PROVE  SessionPart'
<1> DEFINE p == Stations[Len(delivered)]
           q == Following(stream, is_request, p)
<1>1. /\ Readable /\ ~continuation_expected /\ handshake_done /\ Take(total_size, "frame")
      /\ got' = [call |-> "decode", at |-> taken, ret |-> "message"]
      /\ UNCHANGED <<skip_remaining, poisoned, stream, fed, is_request, version,
                     handshake_done>>
      /\ IF Announces(head) THEN BeginContinuation(head) ELSE UNCHANGED continuation_vars
  BY DEF decode, Decodable, handshake_vars
<1>2. ~is_poisoned /\ has_header
  BY <1>1 DEF Readable
<1>3. AtStation(p) /\ head = stream[taken] /\ stream[taken].rows \in Nat
  BY <1>1, <1>2, MoreToCome, FrameFacts
<1>4. p.at = taken /\ p.frames = 0 /\ p.rows = 0
  BY <1>1, <1>3 DEF AtStation
<1>5. /\ continuation_expected' <=> q.frames # 0
      /\ continuation_expected' =>
           frame_count' = q.frames /\ total_rows' = q.rows /\ columns' = q.cols
  <2>1. CASE Announces(head)
    <3>1. q.frames = 1 /\ q.rows = head.rows /\ q.cols = head.cols
      BY <1>3, <1>4, <2>1 DEF Following, Announces
    <3> QED
      BY <1>1, <2>1, <3>1 DEF BeginContinuation
  <2>2. CASE ~Announces(head)
    <3>1. q.frames = 0
      BY <1>3, <1>4, <2>2 DEF Following, Announces
    <3> QED
      BY <1>1, <2>2, <3>1 DEF continuation_vars
  <2> QED
    BY <2>1, <2>2
<1> HIDE DEF p, q
<1> QED
  BY <1>1, <1>5, MessageStep DEF p, q

LEMMA SessionContinuation ==
  ASSUME DecoderInv, FramesAsSent, SessionPart, Delivers, UNCHANGED connection,
         decode_continuation_rows \/ decode_continuation_end
  PROVE  SessionPart'
<1> DEFINE p == Stations[Len(delivered)]
           q == Following(stream, is_request, p)
<1>1. /\ Readable /\ continuation_expected /\ Take(total_size, "frame")
      /\ got' = [call |-> "continuation", at |-> taken, ret |-> "message"]
      /\ UNCHANGED <<skip_remaining, poisoned, stream, fed>>
  BY DEF decode_continuation_rows, decode_continuation_end, Drainable
<1>2. ~is_poisoned /\ has_header /\ ~is_request /\ handshake_done
  BY <1>1 DEF Readable, DecoderInv, DecoderPart, Roles
<1>3. AtStation(p) /\ InPlace(p) /\ head = stream[taken] /\ stream[taken].rows \in Nat
  BY <1>1, <1>2, MoreToCome, FrameFacts
<1>4. /\ p.at = taken /\ p.frames # 0 /\ p.frames \in Nat
      /\ frame_count = p.frames /\ total_rows = p.rows /\ columns = p.cols
  BY <1>1, <1>3 DEF AtStation
<1>5. CASE decode_continuation_rows /\ head.more
  <2>1. /\ head.type = "ROWS" /\ UNCHANGED <<continuation_expected, columns, is_request,
                                              handshake_done, version>>
        /\ frame_count' = frame_count + 1 /\ total_rows' = total_rows + head.rows
    BY <1>5 DEF decode_continuation_rows, Extends
  <2>2. /\ q.frames = p.frames + 1 /\ q.rows = p.rows + head.rows /\ q.cols = head.cols
    BY <1>2, <1>3, <1>4, <1>5, <2>1 DEF Following
  <2>3. head.cols = p.cols
    BY <1>3, <1>4, <2>1 DEF InPlace
  <2>4. /\ continuation_expected' /\ q.frames # 0
        /\ frame_count' = q.frames /\ total_rows' = q.rows /\ columns' = q.cols
    BY <1>1, <1>4, <2>1, <2>2, <2>3
  <2> HIDE DEF p, q
  <2> QED
    BY <1>1, <1>2, <2>1, <2>4, MessageStep DEF p, q
<1>6. CASE decode_continuation_end \/ ~head.more
  <2>1. Finalize
    BY <1>6 DEF decode_continuation_rows, decode_continuation_end
  <2>2. ~continuation_expected' /\ UNCHANGED <<is_request, version, handshake_done>>
    BY <1>2, <2>1 DEF Finalize
  <2>3. q.frames = 0
    <3>1. head.type # "ROWS" \/ ~head.more
      BY <1>6 DEF decode_continuation_rows, decode_continuation_end, Terminates
    <3> QED
      BY <1>3, <1>4, <3>1 DEF Following
  <2> HIDE DEF p, q
  <2> QED
    BY <1>1, <1>2, <2>2, <2>3, MessageStep DEF p, q
<1> QED
  BY <1>5, <1>6

\* The handshake takes the reader from the start of the wire to its first
\* station, also when an exception loses what the call returns.
LEMMA SessionHandshake ==
  ASSUME DecoderInv, FramesAsSent, SessionPart, HandshakeReady, CompleteHandshake,
         NEW ret \in {"message", "interrupted"}, HandshakeCall(ret),
         UNCHANGED <<connection, delivered>>
  PROVE  SessionPart'
<1>1. /\ ~handshake_done /\ ~is_poisoned /\ available >= HANDSHAKE_SIZE
      /\ Take(HANDSHAKE_SIZE, "raw")
      /\ version' = head.version /\ handshake_done'
      /\ got'.at = taken /\ got'.ret # "error"
      /\ UNCHANGED <<skip_remaining, poisoned, stream, fed, is_request, continuation_expected>>
  BY DEF CompleteHandshake, Committed, HandshakeCall, HandshakeReady, continuation_vars
<1>2. HANDSHAKE_SIZE \in Nat \ {0}
  BY DecoderAssumption
<1>3. taken = 0 /\ Len(delivered) = 0
  BY <1>1 DEF SessionPart, Standing
<1>4. is_request /\ connection.is_request /\ ~continuation_expected
  BY <1>1 DEF DecoderInv, DecoderPart, Roles, SessionPart, Sound
<1>5. head = stream[0]
  <2>1. Live /\ available \in Int /\ taken \in Nat
    BY <1>1, Basics DEF DecoderInv, Inv
  <2>2. 1 \in 1..available
    BY <1>1, <1>2, <2>1
  <2>3. data[pos + 1] = taken + 1 - 1
    BY <2>1, <2>2 DEF Live
  <2>4. data[pos + 1] = 0
    BY <1>3, <2>3
  <2> QED
    BY <2>4 DEF head
<1>6. version' = connection.version
  BY <1>1, <1>4, <1>5 DEF FramesAsSent
<1>7. taken' = HANDSHAKE_SIZE
  BY <1>1, <1>2, <1>3 DEF Take
<1>8. Stations'[0] = First(connection)
  <2>1. Len(connection.sent) \in Nat
    BY DEF FramesAsSent
  <2> QED
    BY <1>1, <2>1, FirstFacts, StationsKept
<1>9. AtStation(First(connection))'
  BY <1>1, <1>2, <1>4, <1>7 DEF AtStation, First
<1>10. Standing'
  BY <1>1, <1>2, <1>3, <1>7, <1>8, <1>9 DEF Standing
<1>11. Sound'
  BY <1>1, <1>6 DEF SessionPart, Sound
<1>12. Answered'
  BY DEF SessionPart, Answered
<1> QED
  BY <1>10, <1>11, <1>12 DEF SessionPart

\* Nothing is delivered and the reader stays where it is, or the buffer is
\* poisoned by an interrupt or a chunk too large.
LEMMA SessionPause ==
  ASSUME SessionPart, UNCHANGED <<session_vars, stream, is_request>>,
         skip_remaining' = 0,
         fed' <= Len(connection.bytes),
         got'.ret # "error",
         is_request /\ handshake_done' => version' = connection.version,
         \/ poisoned' \in {"interrupt", "overflow"}
         \/ /\ ~is_poisoned
            /\ got' = got \/ got'.ret = "interrupted"
            /\ UNCHANGED <<poisoned, taken, handshake_done, continuation_expected,
                           frame_count, total_rows, columns>>
  PROVE  SessionPart'
<1>1. Stations' = Stations /\ UNCHANGED <<connection, delivered>>
  BY StationsKept DEF session_vars
<1>2. Answered'
  BY <1>1 DEF SessionPart, Answered
<1>3. Sound'
  BY <1>1 DEF SessionPart, Sound, is_poisoned
<1>4. ASSUME ~is_poisoned' PROVE Standing'
  <2>1. /\ ~is_poisoned
        /\ got' = got \/ got'.ret = "interrupted"
        /\ UNCHANGED <<poisoned, taken, handshake_done, continuation_expected,
                       frame_count, total_rows, columns>>
    BY <1>4 DEF is_poisoned
  <2>2. \A p : AtStation(p) => AtStation(p)'
    BY <2>1 DEF AtStation
  <2> QED
    BY <1>1, <2>1, <2>2 DEF SessionPart, Standing
<1> QED
  BY <1>2, <1>3, <1>4 DEF SessionPart

LEMMA SessionArrive ==
  ASSUME DecoderInv, SessionPart, arrive
  PROVE  SessionPart'
<1>1. PICK n \in Chunks : Arrives(n) /\ decoder_feed(n)
  BY DEF arrive
<1>2. /\ n \in Nat /\ UNCHANGED decoder_vars /\ UNCHANGED session_vars
      /\ fed + n <= Len(connection.bytes) /\ skip_remaining = 0 /\ ~is_poisoned
      /\ fed <= Len(connection.bytes)
      /\ got.ret # "error" /\ (is_request /\ handshake_done => version = connection.version)
  BY <1>1, InputsAssumption
     DEF arrive, Arrives, decoder_feed, feed, feed_reject, SessionPart, Sound
<1>3. /\ UNCHANGED <<is_request, got, handshake_done, version, continuation_expected,
                     frame_count, total_rows, columns>>
  BY <1>2 DEF decoder_vars
<1>4. CASE feed(n)
  <2>1. discard(n) = 0 /\ ~is_skipping /\ ~Fires(n) /\ taken \in Nat
    BY <1>2, Basics DEF discard, Least, is_skipping, Fires, DecoderInv
  <2>2. /\ UNCHANGED <<poisoned, taken, stream>> /\ skip_remaining' = 0 /\ fed' = fed + n
    BY <1>2, <1>4, <2>1 DEF feed
  <2> QED
    BY <1>2, <1>3, <2>2, SessionPause
<1>5. CASE feed_reject(n)
  <2>1. poisoned' = "overflow" /\ skip_remaining' = 0 /\ UNCHANGED <<stream, fed>>
    BY <1>2, <1>5 DEF feed_reject, PoisonedBy, wire_vars
  <2> QED
    BY <1>2, <1>3, <2>1, SessionPause
<1> QED
  BY <1>1, <1>4, <1>5 DEF decoder_feed

LEMMA SessionInterrupt ==
  ASSUME DecoderInv, FramesAsSent, SessionPart, interrupt
  PROVE  SessionPart'
<1>0. /\ UNCHANGED session_vars /\ skip_remaining = 0 /\ got.ret # "error"
      /\ (is_request /\ handshake_done => version = connection.version)
      /\ fed <= Len(connection.bytes)
  BY DEF interrupt, SessionPart, Sound
<1>1. ASSUME NEW n \in Chunks, decoder_feed_interrupted(n) PROVE SessionPart'
  <2>1. n \in Nat /\ feed_interrupted(n) /\ UNCHANGED decoder_vars
    BY <1>1, InputsAssumption DEF decoder_feed_interrupted
  <2>2. discard(n) = 0 /\ ~is_skipping /\ ~Fires(n)
    BY <1>0, <2>1 DEF discard, Least, is_skipping, Fires
  <2>3. poisoned' = "interrupt" /\ skip_remaining' = 0 /\ UNCHANGED <<stream, fed>>
    BY <1>0, <2>1, <2>2 DEF feed_interrupted, wire_vars
  <2>4. UNCHANGED <<is_request, got, handshake_done, version>>
    BY <2>1 DEF decoder_vars
  <2> QED
    BY <1>0, <2>3, <2>4, SessionPause
<1>2. CASE decode_interrupted
  <2>1. /\ poisoned' = "interrupt" /\ UNCHANGED <<stream, fed, skip_remaining>>
        /\ UNCHANGED <<is_request, handshake_done, version>> /\ got'.ret = "interrupted"
    BY <1>2 DEF decode_interrupted, Decodable, Readable, read_message_interrupted,
       TakeInterrupted, PoisonedBy, PoisonedByInterrupt, wire_vars
  <2> QED
    BY <1>0, <2>1, SessionPause
<1>3. CASE decode_continuation_interrupted
  <2>1. ~is_request
    BY <1>3 DEF decode_continuation_interrupted, Drainable, DecoderInv, DecoderPart, Roles
  <2>2. /\ poisoned' = "interrupt" /\ UNCHANGED <<stream, fed, skip_remaining>>
        /\ UNCHANGED is_request /\ got'.ret = "interrupted"
    BY <1>3 DEF decode_continuation_interrupted, Drainable, Readable, Finalize,
       read_message_interrupted, TakeInterrupted, PoisonedBy, PoisonedByInterrupt, wire_vars
  <2> QED
    BY <1>0, <2>1, <2>2, SessionPause
<1>4. CASE decode_handshake_interrupted
  <2>0. HandshakeReady /\ ~is_poisoned /\ ~handshake_done /\ HandshakeCall("interrupted")
    BY <1>4 DEF decode_handshake_interrupted, HandshakeReady
  <2>1. /\ got'.ret = "interrupted" /\ UNCHANGED is_request
        /\ UNCHANGED <<continuation_expected, frame_count, total_rows, columns>>
    BY <2>0 DEF HandshakeCall, continuation_vars
  <2>2. CASE CompleteHandshake
    BY <2>0, <2>2, <1>0, SessionHandshake DEF session_vars
  <2>3. CASE UNCHANGED rb_vars /\ ~handshake_done' /\ UNCHANGED handshake_done
    <3>1. UNCHANGED <<poisoned, taken, stream, fed, skip_remaining>>
      BY <2>3 DEF rb_vars
    <3> QED
      BY <1>0, <2>0, <2>1, <2>3, <3>1, SessionPause
  <2>4. CASE read_bytes_interrupted(HANDSHAKE_SIZE) /\ ~handshake_done'
    <3>1. poisoned' = "interrupt" /\ UNCHANGED <<stream, fed, skip_remaining>>
      BY <2>0, <2>4 DEF read_bytes_interrupted, TakeInterrupted, PoisonedBy, is_poisoned,
         wire_vars
    <3> QED
      BY <1>0, <2>1, <2>4, <3>1, SessionPause
  <2>5. Reverted => ~handshake_done' /\ handshake_done' = handshake_done
    BY <2>0 DEF Reverted, DecoderInv, DecoderPart, Typed
  <2> QED
    BY <1>4, <2>0, <2>2, <2>3, <2>4, <2>5 DEF decode_handshake_interrupted
<1> QED
  BY <1>1, <1>2, <1>3, <1>4 DEF interrupt

\* A new connection starts at the front, whatever the old one left behind.
LEMMA SessionReconnect ==
  ASSUME DecoderInv, FramesAsSent', reconnect
  PROVE  SessionPart'
<1>1. /\ reset_after_reconnect /\ is_request = stream'[0].request /\ Finalize
      /\ got' = NoCall /\ delivered' = <<>>
  BY DEF reconnect, reset
<1>2. /\ skip_remaining' = 0 /\ poisoned' = "none" /\ fed' = 0 /\ taken' = 0
  BY <1>1 DEF reset_after_reconnect, Cleared, Reconnected
<1>3. /\ Len(connection'.sent) \in Nat /\ Len(connection'.bytes) \in Nat
      /\ stream'[0].request = connection'.is_request
  BY DEF FramesAsSent
<1>4. /\ is_request' = connection'.is_request /\ ~continuation_expected'
      /\ (is_request' => ~handshake_done')
  BY <1>1, <1>3 DEF Finalize
<1>5. Answered' /\ Len(delivered') = 0
  BY <1>1, <1>3, NoAnswers
<1>6. Sound'
  BY <1>1, <1>2, <1>3, <1>4 DEF Sound, NoCall
<1>7. Stations'[0] = First(connection')
  BY <1>3, FirstFacts
<1>8. handshake_done' => AtStation(First(connection))'
  BY <1>2, <1>4 DEF AtStation, First
<1>9. Standing'
  BY <1>1, <1>2, <1>5, <1>7, <1>8 DEF Standing, NoCall
<1> QED
  BY <1>5, <1>6, <1>9 DEF SessionPart

LEMMA InitSession == SessionInit /\ FramesAsSent => SessionPart
<1> SUFFICES ASSUME SessionInit, FramesAsSent PROVE SessionPart
  OBVIOUS
<1>1. DecoderInit /\ delivered = <<>>
  BY DEF SessionInit
<1>2. /\ skip_remaining = 0 /\ poisoned = "none" /\ fed = 0 /\ taken = 0
      /\ is_request = stream[0].request /\ handshake_done = ~is_request
      /\ ~continuation_expected /\ got = NoCall
  BY <1>1 DEF DecoderInit, Init
<1>3. /\ Len(connection.sent) \in Nat /\ Len(connection.bytes) \in Nat
      /\ stream[0].request = connection.is_request
  BY DEF FramesAsSent
<1>4. Answered /\ Len(delivered) = 0
  <2>1. <<>> \in Seq({}) /\ Len(<<>>) = 0
    OBVIOUS
  <2>2. \E S : delivered \in Seq(S)
    BY <1>1, <2>1
  <2>3. \A j \in 1..Len(delivered) : FALSE
    BY <1>1, <2>1
  <2> QED
    BY <1>1, <1>3, <2>1, <2>2, <2>3 DEF Answered
<1>5. Sound
  <2>1. is_request => ~handshake_done
    BY <1>2, Zenon
  <2> QED
    BY <1>2, <1>3, <2>1 DEF Sound, NoCall
<1>6. Stations[0] = First(connection)
  BY <1>3, FirstFacts
<1>7. handshake_done => AtStation(First(connection))
  BY <1>2, <1>3 DEF AtStation, First
<1>8. Standing
  BY <1>2, <1>4, <1>6, <1>7 DEF Standing, NoCall
<1> QED
  BY <1>4, <1>5, <1>8 DEF SessionPart

LEMMA NextSession ==
  DecoderInv /\ FramesAsSent /\ FramesAsSent' /\ SessionPart /\ [SessionNext]_all_vars
    => SessionPart'
<1> SUFFICES ASSUME DecoderInv, FramesAsSent, FramesAsSent', SessionPart,
                    [SessionNext]_all_vars
             PROVE  SessionPart'
  OBVIOUS
<1>1. CASE step
  <2>0. call /\ Delivers /\ UNCHANGED connection
    BY <1>1 DEF step
  <2>1. ~decode_failed
    BY HeadInPlace DEF decode_failed, Decodable, Readable
  <2>2. continuation_expected => handshake_done
    BY DEF DecoderInv, DecoderPart, Roles
  <2>3. ~decode_continuation_error
    BY <2>2, HeadInPlace DEF decode_continuation_error, Drainable, Readable
  <2>4. ~decode_continuation_oversized
    BY <2>2, HeadInPlace DEF decode_continuation_oversized
  <2>5. ASSUME decode_handshake PROVE SessionPart'
    <3>1. /\ HandshakeReady /\ CompleteHandshake /\ HandshakeCall("message")
          /\ UNCHANGED <<connection, delivered>>
      BY <2>0, <2>5 DEF decode_handshake, HandshakeCall, Delivers
    <3> QED
      BY <3>1, SessionHandshake
  <2> QED
    BY <2>0, <2>1, <2>3, <2>4, <2>5, SessionDecode, SessionContinuation
       DEF call, decode_continuation
<1>2. CASE arrive
  BY <1>2, SessionArrive
<1>3. CASE interrupt
  BY <1>3, SessionInterrupt
<1>4. CASE reconnect
  BY <1>4, SessionReconnect
<1>5. CASE finished \/ UNCHANGED all_vars
  <2>1. UNCHANGED vars /\ UNCHANGED session_vars
    BY <1>5 DEF finished, all_vars
  <2>2. /\ UNCHANGED <<connection, delivered>>
        /\ UNCHANGED <<stream, is_request, skip_remaining, fed, got, handshake_done, version,
                       poisoned, taken, continuation_expected, frame_count, total_rows,
                       columns>>
    BY <2>1 DEF vars, session_vars
  <2>3. Stations' = Stations
    BY <2>2, StationsKept
  <2>4. Answered' /\ Sound'
    BY <2>2 DEF SessionPart, Answered, Sound
  <2>5. \A p : AtStation(p) => AtStation(p)'
    BY <2>2 DEF AtStation
  <2>6. ~is_poisoned' => Standing'
    BY <2>2, <2>3, <2>5 DEF SessionPart, Standing, is_poisoned
  <2> QED
    BY <2>4, <2>6 DEF SessionPart
<1> QED
  BY <1>1, <1>2, <1>3, <1>4, <1>5 DEF SessionNext

-----------------------------------------------------------------------------
(* The theorems *)

\* The reader of a session is always at the station of the messages it has.
THEOREM SessionInvariance == SessionSpec => [](DecoderInv /\ SessionPart)
<1>1. SessionSpec => []DecoderInv
  BY SessionIsDecoder, DecoderInvariance, PTL
<1> QED
  BY <1>1, FramesAsSentAlways, InitSession, NextSession, PTL DEF SessionSpec

\* The reader gets what the writer sent, in order and without a gap, whatever the chunks, the
\* interrupts and the connections before (feed, decode, decode_continuation,
\* decode_handshake, reset).
THEOREM DeliveredInOrderAlways == SessionSpec => []DeliveredInOrder
<1>1. SessionPart => DeliveredInOrder
  <2> SUFFICES ASSUME SessionPart PROVE DeliveredInOrder
    OBVIOUS
  <2>1. PICK S : delivered \in Seq(S)
    BY DEF SessionPart, Answered
  <2>2. DOMAIN delivered = 1..Len(delivered)
    BY <2>1
  <2> QED
    BY <2>2 DEF SessionPart, Answered, DeliveredInOrder
<1> QED
  BY <1>1, SessionInvariance, PTL

\* On what the writer sends no call fails, no frame is oversized, and the only poison is
\* that of an interrupt or of a chunk too large for the buffer.
THEOREM ReaderNeverFails == SessionSpec => []WriterNeverFailsReader
<1>1. DecoderInv /\ FramesAsSent /\ SessionPart => WriterNeverFailsReader
  <2> SUFFICES ASSUME DecoderInv, FramesAsSent, SessionPart PROVE WriterNeverFailsReader
    OBVIOUS
  <2>1. ~is_poisoned /\ has_header /\ handshake_done => ~oversized
    BY HeadInPlace
  <2> QED
    BY <2>1 DEF SessionPart, Sound, WriterNeverFailsReader
<1> QED
  BY <1>1, FramesAsSentAlways, SessionInvariance, PTL

=============================================================================
