-------------------------- MODULE WireRelayProofs ---------------------------
(***************************************************************************)
(* Proofs about WireRelay, for every set of messages and all sizes and     *)
(* limits.                                                                 *)
(***************************************************************************)
EXTENDS WireRelay, MessageProofs

-----------------------------------------------------------------------------
(* The relay *)

\* What travels is a frame, as long as its header says until it is torn and never
\* after; what is accepted is what its reader made of it.
FrameInv ==
  /\ \E i \in DOMAIN Messages : message \in Messages[i]
  /\ reader.is_request \in BOOLEAN
  /\ stage = "sent" => IsFrame(frame) /\ (damage = "none" => Sized(frame))
  /\ stage = "built" => damage = "none" /\ frame = <<>>
  /\ damage = "torn" => ~Sized(frame)
  /\ accepted => IsFrame(frame) /\ decoded = decode_message(frame, reader) /\ decoded.ok

\* An intact frame is the one the message encodes to, if it encodes to one, and what
\* was refused its reader refused; the second frame is that of the decoded message.
CodecInv ==
  /\ stage # "built" /\ damage = "none" =>
       IF encode_message(message).ok THEN frame = encode_message(message).val
       ELSE frame = <<>> /\ stage = "refused"
  /\ stage = "refused" /\ damage = "none" /\ frame # <<>> =>
       decoded = decode_message(frame, reader) /\ ~decoded.ok
  /\ stage = "resent" => encode_message(decoded.val).ok /\ second = encode_message(decoded.val).val
  /\ stage = "kept" => ~encode_message(decoded.val).ok
  /\ stage \in {"built", "refused", "sent", "received", "resent", "kept"}

\* What holds of the relay in every state.
RelayInv == FrameInv /\ CodecInv

\* Damage leaves a frame, whole or not.
LEMMA DamagedFrame ==
  ASSUME IsFrame(frame), Len(frame) >= HEADER_SIZE, Damaged
  PROVE  IsFrame(frame')
<1>1. PICK S : frame \in Seq(S)
  BY DEF IsFrame
<1>2. /\ Len(frame) \in Nat /\ schema_of(frame) \in Nat
      /\ frame[UINT32_SIZE + 2] \in Nat
  BY <1>1, LenProperties DEF IsFrame, schema_of
<1>3. ASSUME NEW n \in 0..(Len(frame) - 1), frame' = SubSeq(frame, 1, n)
      PROVE  IsFrame(frame')
  <2>1. /\ frame' \in Seq(S) /\ Len(frame') = n
        /\ \A i \in 1..n : frame'[i] = frame[i]
    BY <1>1, <1>2, <1>3
  <2>2. n >= HEADER_SIZE => UINT32_SIZE + 2 \in 1..n
    BY <1>2, WireSizes
  <2> QED
    BY <1>2, <2>1, <2>2 DEF IsFrame, schema_of
<1>4. ASSUME NEW byte \in {0, 1, 255}, frame' = Append(frame, byte)
      PROVE  IsFrame(frame')
  <2>1. frame \in Seq(S \cup {byte})
    <3>1. \A T, q : S \subseteq T /\ q \in Seq(S) => q \in Seq(T)
      OBVIOUS
    <3> QED
      BY <1>1, <3>1
  <2>2. /\ frame' \in Seq(S \cup {byte})
        /\ \A i \in 1..Len(frame) : frame'[i] = frame[i]
    BY <2>1, <1>4, AppendProperties
  <2>3. UINT32_SIZE + 2 \in 1..Len(frame)
    BY <1>2, WireSizes
  <2> QED
    BY <1>2, <2>2, <2>3 DEF IsFrame, schema_of
<1>5. body_of(frame) \in Seq(S)
  <2>1. HEADER_SIZE + 1 \in Nat \ {0}
    BY WireSizes
  <2> QED
    BY <1>1, <1>2, <2>1 DEF body_of, From
<1>6. ASSUME NEW body, NEW T, body \in Seq(T), frame' = Reframed(body)
      PROVE  IsFrame(frame')
  BY <1>2, <1>6, Framed DEF Reframed
<1>7. ASSUME NEW words \in 0..(size_words(frame) - 1),
             frame' = Reframed(SubSeq(body_of(frame), 1, words * WORD_SIZE))
      PROVE  IsFrame(frame')
  <2> DEFINE b == body_of(frame)
             k == words * WORD_SIZE
             T == {b[i] : i \in 1..k}
  <2>1. k \in Nat
    BY <1>7, WireSizes
  <2> HIDE DEF b, k
  <2>2. SubSeq(b, 1, k) \in Seq(T)
    BY <1>5, <2>1 DEF b
  <2> QED
    BY <1>6, <1>7, <2>2 DEF b, k
<1>8. ASSUME NEW byte \in {0, 1, 255}, frame' = Reframed(body_of(frame) \o Marker(byte))
      PROVE  IsFrame(frame')
  <2>1. Marker(byte) \in Seq(S \cup {byte})
    BY WireSizes DEF Marker
  <2>2. body_of(frame) \in Seq(S \cup {byte})
    <3>1. \A T, q : S \subseteq T /\ q \in Seq(S) => q \in Seq(T)
      OBVIOUS
    <3> QED
      BY <1>5, <3>1
  <2>3. body_of(frame) \o Marker(byte) \in Seq(S \cup {byte})
    BY <2>1, <2>2
  <2> QED
    BY <1>6, <1>8, <2>3
<1>9. ASSUME NEW i \in DOMAIN frame, NEW byte \in {0, 1, 7, 10, 65, 255},
             frame' = [frame EXCEPT ![i] = byte]
      PROVE  IsFrame(frame')
  <2>1. frame \in Seq(S \cup {byte}) /\ byte \in S \cup {byte} /\ byte \in Nat
    <3>1. \A T, q : S \subseteq T /\ q \in Seq(S) => q \in Seq(T)
      OBVIOUS
    <3> QED
      BY <1>1, <3>1
  <2>2. i \in 1..Len(frame) /\ UINT32_SIZE + 2 \in 1..Len(frame)
    BY <1>1, <1>2, <1>9, WireSizes
  <2>3. frame' \in Seq(S \cup {byte})
    BY <1>9, <2>1, <2>2, ExceptSeq
  <2>4. frame'[UINT32_SIZE + 2] \in Nat
    BY <1>1, <1>2, <1>9, <2>1, <2>2
  <2> QED
    BY <2>3, <2>4 DEF IsFrame, schema_of
<1> QED
  BY <1>3, <1>4, <1>7, <1>8, <1>9 DEF Damaged

\* A tear leaves a frame whose length its header contradicts.
LEMMA TornFrame ==
  ASSUME IsFrame(frame), Sized(frame), Damaged, damage' = "torn"
  PROVE  ~Sized(frame')
<1>1. PICK S : frame \in Seq(S)
  BY DEF IsFrame
<1>2. Len(frame) \in Nat /\ Len(frame) >= HEADER_SIZE /\ HEADER_SIZE \in Nat
  <2>1. Len(frame) \in Nat
    BY <1>1, LenProperties
  <2> QED
    BY <2>1, WireSizes DEF Sized, frame_exactly
<1>3. ASSUME NEW n \in 0..(Len(frame) - 1), frame' = SubSeq(frame, 1, n)
      PROVE  ~Sized(frame')
  <2>1. n \in Nat /\ n <= Len(frame) /\ n # Len(frame)
    BY <1>2
  <2>2. frame' \in Seq(S) /\ Len(frame') = n /\ \A i \in 1..n : frame'[i] = frame[i]
    BY <1>1, <1>3, <2>1, StartOf
  <2>3. \A i \in 1..HEADER_SIZE : Len(frame') >= HEADER_SIZE => frame'[i] = frame[i]
    BY <1>2, <2>1, <2>2
  <2>4. Len(frame') # Len(frame)
    BY <2>1, <2>2
  <2> QED
    BY <1>1, <2>2, <2>3, <2>4, TornSize
<1>4. ASSUME NEW byte \in {0, 1, 255}, frame' = Append(frame, byte)
      PROVE  ~Sized(frame')
  <2>1. frame \in Seq(S \cup {byte})
    <3>1. \A T, q : S \subseteq T /\ q \in Seq(S) => q \in Seq(T)
      OBVIOUS
    <3> QED
      BY <1>1, <3>1
  <2>2. /\ frame' \in Seq(S \cup {byte}) /\ Len(frame') = Len(frame) + 1
        /\ \A i \in 1..Len(frame) : frame'[i] = frame[i]
    BY <2>1, <1>4, AppendProperties
  <2>3. /\ \A i \in 1..HEADER_SIZE : Len(frame') >= HEADER_SIZE => frame'[i] = frame[i]
        /\ Len(frame') # Len(frame)
    BY <1>2, <2>2
  <2> QED
    BY <1>1, <2>2, <2>3, TornSize
<1> QED
  BY <1>3, <1>4 DEF Damaged

\* What is encoded of a message is a frame.
LEMMA SentFrame ==
  ASSUME \E i \in DOMAIN Messages : message \in Messages[i], encodable(message)
  PROVE  /\ Okay(message)
         /\ encode_message(message).ok =>
              /\ IsFrame(encode_message(message).val) /\ Sized(encode_message(message).val)
              /\ encode_message(message).val # <<>>
         /\ encode_message(message).ok <=> FrameSize(message) <= max_message_size
<1>1. Okay(message)
  BY MessagesAssumption DEF Okay
<1>2. Carried(message, Reading(message))
  BY <1>1, EveryMessage
<1> QED
  BY <1>1, <1>2, MessageFramed

\* The invariant holds at the start.
LEMMA InitRelay == Init => RelayInv
<1> SUFFICES ASSUME Init PROVE RelayInv
  OBVIOUS
<1>1. /\ \E i \in DOMAIN Messages : message \in Messages[i]
      /\ stage = "built" /\ reader = Addressee(message) /\ damage = "none" /\ frame = <<>>
  BY DEF Init
<1>2. reader.is_request \in BOOLEAN
  BY <1>1 DEF Addressee, Decoder, is_request_class
<1>3. FrameInv
  BY <1>1, <1>2 DEF FrameInv, accepted
<1>4. CodecInv
  BY <1>1 DEF CodecInv
<1> QED
  BY <1>3, <1>4 DEF RelayInv

\* Every step keeps the invariant.
LEMMA NextRelay == RelayInv /\ [Next]_relay_vars => RelayInv'
<1> SUFFICES ASSUME FrameInv, CodecInv, [Next]_relay_vars PROVE FrameInv' /\ CodecInv'
  BY DEF RelayInv
<1>1. CASE send
  <2> DEFINE r == encode_message(message)
  <2>1. /\ UNCHANGED <<message, reader, damage, decoded, second>> /\ Sent(r) /\ stage = "built"
        /\ damage = "none" /\ frame = <<>> /\ \E i \in DOMAIN Messages : message \in Messages[i]
    BY <1>1 DEF send, FrameInv
  <2>2. encode_message(message)' = r
    BY <2>1
  <2>3. CASE r.ok
    <3>1. encodable(message)
      BY <2>3 DEF encode_message, Fail
    <3>2. IsFrame(r.val) /\ Sized(r.val)
      BY <2>1, <2>3, <3>1, SentFrame
    <3> HIDE DEF r
    <3>3. stage' = "sent" /\ frame' = r.val
      BY <2>1, <2>3 DEF Sent
    <3>4. FrameInv'
      BY <2>1, <3>2, <3>3, <1>1 DEF FrameInv, accepted
    <3>5. CodecInv'
      BY <2>1, <2>2, <2>3, <3>3 DEF CodecInv
    <3> QED
      BY <3>4, <3>5
  <2>4. CASE ~r.ok
    <3> HIDE DEF r
    <3>1. stage' = "refused" /\ frame' = <<>>
      BY <2>1, <2>4 DEF Sent
    <3>2. FrameInv'
      BY <2>1, <3>1 DEF FrameInv, accepted
    <3>3. CodecInv'
      BY <2>1, <2>2, <2>4, <3>1 DEF CodecInv
    <3> QED
      BY <3>2, <3>3
  <2> QED
    BY <2>3, <2>4
<1>2. CASE disturb
  <2>1. /\ stage = "sent" /\ damage = "none" /\ Damaged
        /\ UNCHANGED <<message, stage, reader, decoded, second>>
    BY <1>2 DEF disturb
  <2>2. IsFrame(frame) /\ Sized(frame)
    BY <2>1 DEF FrameInv
  <2>3. Len(frame) >= HEADER_SIZE
    <3>1. Len(frame) \in Nat
      BY <2>2, LenProperties DEF IsFrame
    <3> QED
      BY <2>2, <3>1, WireSizes DEF Sized, frame_exactly
  <2>4. IsFrame(frame') /\ damage' # "none" /\ (damage' = "torn" => ~Sized(frame'))
    BY <2>1, <2>2, <2>3, DamagedFrame, TornFrame DEF Damaged
  <2>5. FrameInv'
    BY <2>1, <2>4 DEF FrameInv, accepted
  <2>6. CodecInv'
    BY <2>1, <2>4 DEF CodecInv
  <2> QED
    BY <2>5, <2>6
<1>3. CASE receive
  <2>1. /\ stage = "sent" /\ decoded' = decode_message(frame, reader')
        /\ stage' = IF decoded'.ok THEN "received" ELSE "refused"
        /\ UNCHANGED <<message, frame, damage, second>>
    BY <1>3 DEF receive
  <2>2. reader'.is_request \in BOOLEAN
    BY <1>3 DEF receive, Readers, FrameInv
  <2>3. IsFrame(frame)
    BY <2>1 DEF FrameInv
  <2>4. FrameInv'
    BY <2>1, <2>2, <2>3 DEF FrameInv, accepted
  <2>5. CodecInv'
    <3>1. stage' \in {"received", "refused"} /\ (stage' = "refused" => ~decoded'.ok)
      BY <2>1
    <3>2. encode_message(message)' = encode_message(message)
      BY <2>1
    <3>3. decoded' = decode_message(frame, reader)'
      BY <2>1
    <3>4. damage = "none" => encode_message(message).ok /\ frame = encode_message(message).val
      BY <2>1 DEF CodecInv
    <3> QED
      BY <2>1, <3>1, <3>2, <3>3, <3>4 DEF CodecInv
  <2> QED
    BY <2>4, <2>5
<1>4. CASE resend
  <2> DEFINE r == encode_message(decoded.val)
  <2>1. stage = "received" /\ UNCHANGED <<message, frame, damage, reader, decoded>> /\ Resent(r)
    BY <1>4 DEF resend
  <2>2. r' = r /\ encode_message(message)' = encode_message(message)
    BY <2>1
  <2> HIDE DEF r
  <2>3. IF r.ok THEN second' = r.val /\ stage' = "resent" ELSE stage' = "kept"
    BY <2>1 DEF Resent
  <2>4. FrameInv'
    BY <2>1, <2>3 DEF FrameInv, accepted
  <2>5. CodecInv'
    BY <2>1, <2>2, <2>3 DEF CodecInv, r
  <2> QED
    BY <2>4, <2>5
<1>5. CASE Done \/ UNCHANGED relay_vars
  <2>1. UNCHANGED <<message, stage, frame, damage, reader, decoded, second>>
    BY <1>5 DEF Done, relay_vars
  <2>2. FrameInv'
    BY <2>1 DEF FrameInv, accepted
  <2>3. CodecInv'
    BY <2>1 DEF CodecInv
  <2> QED
    BY <2>2, <2>3
<1> QED
  BY <1>1, <1>2, <1>3, <1>4, <1>5 DEF Next

\* Whatever the messages and whatever happens to their frames, a decoder
\* returns only messages of its own direction, of the type and the schema in
\* the header it read.
THEOREM HeaderObeyedAlways == Spec => []HeaderObeyed
<1>1. RelayInv => HeaderObeyed
  BY MessageObeys DEF RelayInv, FrameInv, HeaderObeyed
<1> QED
  BY <1>1, InitRelay, NextRelay, PTL DEF Spec

\* No tear of any frame, of any message and at any place, and no byte behind it,
\* goes unnoticed by any reader.
THEOREM TornRefusedAlways == Spec => []TornRefused
<1>1. ASSUME NEW d, NEW dec, decode_message(d, dec).ok PROVE Sized(d)
  BY <1>1 DEF decode_message, Sized, Fail
<1>2. RelayInv => TornRefused
  BY <1>1 DEF RelayInv, FrameInv, TornRefused
<1> QED
  BY <1>2, InitRelay, NextRelay, PTL DEF Spec

\* The intact frame of a message that encodes is decoded, by every reader it suits,
\* to what it reads as; the frame of a class no decoder knows is refused.
LEMMA IntactRead ==
  ASSUME RelayInv, stage \notin {"built", "sent"}, damage = "none", frame # <<>>,
         Suits(reader, message)
  PROVE  /\ Okay(message) /\ encode_message(message).ok /\ frame = encode_message(message).val
         /\ IF class_of(message) \in Private THEN ~accepted
            ELSE accepted /\ decoded.val = Reading(message)
<1>1. /\ encode_message(message).ok /\ frame = encode_message(message).val
      /\ \E i \in DOMAIN Messages : message \in Messages[i]
  BY DEF RelayInv, FrameInv, CodecInv
<1>2. encodable(message)
  BY <1>1 DEF encode_message, Fail
<1>3. Okay(message)
  BY <1>1, <1>2, SentFrame
<1>4. Carried(message, Reading(message))
  BY <1>3, EveryMessage
<1> DEFINE r == decode_message(frame, reader)
           w == Got(Reading(message), Len(encode_body(message)))
<1>5. IF class_of(message) \in Private THEN r = Fail ELSE r = w
  BY <1>1, <1>4, MessageReads
<1>6. decoded = r /\ (stage = "refused" => ~decoded.ok) /\ (accepted => decoded.ok)
      /\ (accepted \/ stage = "refused")
  BY DEF RelayInv, FrameInv, CodecInv, accepted
<1>7. w.ok /\ w.val = Reading(message) /\ ~Fail.ok
  BY DEF Got, Fail
<1> HIDE DEF r, w
<1> QED
  BY <1>1, <1>3, <1>5, <1>6, <1>7 DEF accepted

\* Whatever the messages, the readers and the limits: what one end can encode within
\* the cap is sent, and every reader of its direction decodes the frame to a message
\* that says the same.
THEOREM RoundTripAlways == Spec => []RoundTrip
<1>1. RelayInv => RoundTrip
  <2> SUFFICES ASSUME RelayInv, stage # "built", damage = "none", encodable(message)
               PROVE  /\ frame = <<>> => FrameSize(message) > max_message_size
                      /\ frame # <<>> /\ stage # "sent" /\ Suits(reader, message)
                           /\ message.kind \notin Private
                         => accepted /\ SameMessage(message, decoded.val)
    BY DEF RoundTrip
  <2>1. /\ \E i \in DOMAIN Messages : message \in Messages[i]
        /\ encode_message(message).ok => frame = encode_message(message).val
    BY DEF RelayInv, FrameInv, CodecInv
  <2>2. /\ Okay(message)
        /\ encode_message(message).ok => encode_message(message).val # <<>>
        /\ encode_message(message).ok <=> FrameSize(message) <= max_message_size
    BY <2>1, SentFrame
  <2>3. Carried(message, Reading(message))
    BY <2>2, EveryMessage
  <2>4. FrameSize(message) \in Nat /\ max_message_size \in Nat
    <3>1. Len(encode_body(message)) \in Nat
      BY <2>3, WordsCounted DEF Carried
    <3>2. max_message_size \in Nat
      BY CodecAssumption, WireSizes, CodesFacts
    <3> QED
      BY <3>1, <3>2, WireSizes DEF FrameSize
  <2>5. frame = <<>> => FrameSize(message) > max_message_size
    BY <2>1, <2>2, <2>4
  <2>6. message.kind \notin Private => class_of(message) \notin Private
    <3>1. SameMessage(message, Reading(message))
      BY <2>3 DEF Carried
    <3>2. message.kind = "Tagged" => class_of(message) \in ParamsRequests
      <4>1. message.kind = "Tagged" => message.kind \notin ParamsRequests
        BY ClassNames
      <4> QED
        BY <2>2, <4>1 DEF Okay, WellFormed, tagged_sent, class_of
    <3>3. message.kind # "Tagged" =>
             class_of(message) \in {message.kind, "FailureResponse", "LeaderResponse", "AssignRequest"}
      BY DEF class_of
    <3> QED
      BY <3>2, <3>3, ClassNames DEF Private
  <2>7. ASSUME frame # <<>>, stage # "sent", Suits(reader, message), message.kind \notin Private
        PROVE  accepted /\ SameMessage(message, decoded.val)
    <3>1. accepted /\ decoded.val = Reading(message)
      BY <2>6, <2>7, IntactRead
    <3> QED
      BY <2>3, <3>1 DEF Carried
  <2> QED
    BY <2>5, <2>7
<1> QED
  BY <1>1, InitRelay, NextRelay, PTL DEF Spec

\* Whatever the messages, the readers and the limits: a message that was decoded from
\* an intact frame encodes to that frame, byte for byte.
THEOREM ReencodesAlways == Spec => []Reencodes
<1>1. RelayInv => Reencodes
  <2> SUFFICES ASSUME RelayInv, damage = "none", Suits(reader, message),
                      message.kind \notin {"HalfRows", "Tagged", "FailureResponse", "LegacyLeader", "Promote"},
                      stage \in {"resent", "kept"}
               PROVE  (stage = "resent" => second = frame) /\ stage # "kept"
    BY DEF Reencodes
  <2>1. frame # <<>> /\ accepted
    <3>1. /\ \E i \in DOMAIN Messages : message \in Messages[i]
          /\ encode_message(message).ok /\ frame = encode_message(message).val
      BY DEF RelayInv, FrameInv, CodecInv
    <3>2. encodable(message)
      BY <3>1 DEF encode_message, Fail
    <3> QED
      BY <3>1, <3>2, SentFrame DEF accepted
  <2>2. /\ Okay(message) /\ encode_message(message).ok /\ frame = encode_message(message).val
        /\ decoded.val = Reading(message)
    BY <2>1, IntactRead
  <2>3. encode_message(decoded.val) = encode_message(message)
    BY <2>2, EncodedAgain
  <2> QED
    BY <2>2, <2>3 DEF RelayInv, CodecInv
<1> QED
  BY <1>1, InitRelay, NextRelay, PTL DEF Spec

-----------------------------------------------------------------------------
(* Decoders on arbitrary bytes *)

\* f[i] is what the first i decoders return.
InTurnTo(f, D, n) ==
  f[0] = Got(<<>>, 0) /\ \A i \in 1..n : f[i] = OneMore(f[i - 1], D[i])

\* There is such a function for all of them, and its last value is InTurn.
LEMMA InTurnFunction ==
  ASSUME NEW D, NEW N \in Nat, Len(D) = N
  PROVE  \E f : InTurnTo(f, D, N) /\ InTurn(D) = f[N]
<1> DEFINE T == {n \in Nat : n <= N => \E f : InTurnTo(f, D, n)}
<1>1. 0 \in T
  <2> DEFINE f == [i \in {0} |-> Got(<<>>, 0)]
  <2>1. f[0] = Got(<<>>, 0)
    OBVIOUS
  <2> HIDE DEF f
  <2>2. InTurnTo(f, D, 0)
    BY <2>1 DEF InTurnTo
  <2> QED
    BY <2>2
<1>2. ASSUME NEW n \in Nat, n \in T PROVE n + 1 \in T
  <2> SUFFICES ASSUME n + 1 <= N PROVE \E g : InTurnTo(g, D, n + 1)
    OBVIOUS
  <2>1. PICK f : InTurnTo(f, D, n)
    BY <1>2
  <2> DEFINE last == OneMore(f[n], D[n + 1])
             g == [i \in 0..(n + 1) |-> IF i = n + 1 THEN last ELSE f[i]]
  <2>2. g[n + 1] = last /\ \A i \in 0..n : g[i] = f[i]
    <3> HIDE DEF last
    <3> QED
      OBVIOUS
  <2> HIDE DEF g
  <2>3. g[0] = Got(<<>>, 0)
    BY <2>1, <2>2 DEF InTurnTo
  <2>4. ASSUME NEW i \in 1..(n + 1) PROVE g[i] = OneMore(g[i - 1], D[i])
    <3>1. CASE i = n + 1
      <4>1. i - 1 = n /\ n \in 0..n
        BY <3>1
      <4>2. g[i - 1] = f[n]
        BY <2>2, <4>1
      <4> QED
        BY <2>2, <3>1, <4>2 DEF last
    <3>2. CASE i \in 1..n
      <4>1. i \in 0..n /\ i - 1 \in 0..n
        BY <3>2
      <4>2. g[i] = f[i] /\ g[i - 1] = f[i - 1]
        BY <2>2, <4>1
      <4>3. f[i] = OneMore(f[i - 1], D[i])
        BY <2>1, <3>2 DEF InTurnTo
      <4> QED
        BY <4>2, <4>3
    <3> QED
      BY <3>1, <3>2
  <2> QED
    BY <2>3, <2>4 DEF InTurnTo
<1> HIDE DEF T
<1>3. N \in T
  BY <1>1, <1>2, SetInduction
<1>4. PICK f : InTurnTo(f, D, N)
  BY <1>3 DEF T
<1> DEFINE F == [n \in 0..N |-> f[n]]
           c == CHOOSE g : IsInTurn(g, D)
<1>5. IsInTurn(F, D)
  <2>1. \A n \in 0..N : F[n] = f[n]
    OBVIOUS
  <2>2. ASSUME NEW n \in 0..N
        PROVE  f[n] = IF n = 0 THEN Got(<<>>, 0) ELSE OneMore(F[n - 1], D[n])
    <3>1. CASE n = 0
      BY <1>4, <3>1 DEF InTurnTo
    <3>2. CASE n # 0
      <4>1. n \in 1..N /\ n - 1 \in 0..N
        BY <3>2
      <4>2. f[n] = OneMore(f[n - 1], D[n]) /\ F[n - 1] = f[n - 1]
        BY <1>4, <2>1, <4>1 DEF InTurnTo
      <4> QED
        BY <3>2, <4>2
    <3> QED
      BY <3>1, <3>2
  <2>3. F = [n \in 0..N |-> IF n = 0 THEN Got(<<>>, 0) ELSE OneMore(F[n - 1], D[n])]
    BY <2>2, Zenon
  <2> HIDE DEF F
  <2> QED
    BY <2>3 DEF IsInTurn
<1>6. IsInTurn(c, D)
  BY <1>5
<1> HIDE DEF c, F
<1>7. c = [n \in 0..N |-> IF n = 0 THEN Got(<<>>, 0) ELSE OneMore(c[n - 1], D[n])]
  BY <1>6 DEF IsInTurn
<1>8. InTurnTo(c, D, N)
  <2>1. 0 \in 0..N /\ \A n \in 1..N : n \in 0..N /\ n # 0
    OBVIOUS
  <2>2. c[0] = Got(<<>>, 0) /\ \A n \in 1..N : c[n] = OneMore(c[n - 1], D[n])
    BY <1>7, <2>1
  <2> QED
    BY <2>2 DEF InTurnTo
<1> QED
  BY <1>8, InTurnIs DEF c

\* A decoder with n bytes ahead of it fails or uses some of them.
Uses(r, n) == r.ok => r = Got(r.val, r.used) /\ r.used \in 0..n

\* Decoder k may start at every offset up to L.
AllUse(D, L) == \A k \in 1..Len(D) : \A at \in 0..L : Uses(D[k][at], L - at)

\* Where the decoders started, and what each returned there.
Traced(D, L, off, w) ==
  /\ InSteps(D, off, w, Len(D)) /\ IsSequence(w)
  /\ \A k \in 0..Len(D) : off[k] \in 0..L
  /\ \A k \in 1..Len(D) : off[k] - off[k - 1] \in Nat
  /\ InTurn(D) = Got(w, off[Len(D)])

\* What decoders in turn returned, one by one.
LEMMA InTurnTrace ==
  ASSUME NEW D, Len(D) \in Nat, NEW L \in Nat, AllUse(D, L), InTurn(D).ok
  PROVE  \E off, w : Traced(D, L, off, w)
<1> DEFINE N == Len(D)
<1>0. N \in Nat
  OBVIOUS
<1>1. PICK f : InTurnTo(f, D, N) /\ InTurn(D) = f[N]
  BY InTurnFunction
<1> HIDE DEF N
<1>2. f[0] = Got(<<>>, 0) /\ \A i \in 1..N : f[i] = OneMore(f[i - 1], D[i])
  BY <1>1 DEF InTurnTo
\* One more decoder that got something started where the others ended.
<1>3. ASSUME NEW i \in 1..N, f[i].ok
      PROVE  /\ f[i - 1].ok /\ D[i][f[i - 1].used].ok
             /\ f[i] = Got(Append(f[i - 1].val, D[i][f[i - 1].used].val),
                           f[i - 1].used + D[i][f[i - 1].used].used)
  <2> DEFINE r == f[i - 1]
             s == D[i][r.used]
  <2>1. f[i] = OneMore(r, D[i])
    BY <1>2
  <2> HIDE DEF r
  <2>2. OneMore(r, D[i]) = IF r.ok THEN (IF s.ok THEN Got(Append(r.val, s.val), r.used + s.used) ELSE Fail)
                           ELSE Fail
    BY DEF OneMore, Then
  <2> HIDE DEF s
  <2>3. ~Fail.ok
    BY DEF Fail
  <2>4. r.ok /\ s.ok
    BY <1>3, <2>1, <2>2, <2>3
  <2> QED
    BY <2>1, <2>2, <2>4, Zenon DEF r, s
\* All of them got something.
<1> DEFINE Down == {n \in Nat : n <= N => f[N - n].ok}
<1>4. 0 \in Down
  <2>1. N - 0 = N
    BY <1>0
  <2> QED
    BY <1>1, <2>1
<1>5. ASSUME NEW n \in Nat, n \in Down PROVE n + 1 \in Down
  <2> SUFFICES ASSUME n + 1 <= N PROVE f[N - (n + 1)].ok
    OBVIOUS
  <2>1. N - n \in 1..N /\ (N - n) - 1 = N - (n + 1) /\ n <= N
    BY <1>0
  <2>2. f[N - n].ok
    BY <1>5, <2>1
  <2>3. f[(N - n) - 1].ok
    BY <1>3, <2>1, <2>2
  <2> QED
    BY <2>1, <2>3
<1> HIDE DEF Down
<1>6. ASSUME NEW i \in 0..N PROVE f[i].ok
  <2>1. N - i \in Nat /\ N - i <= N /\ N - (N - i) = i
    BY <1>0
  <2>2. N - i \in Down
    BY <1>4, <1>5, <2>1, SetInduction
  <2> QED
    BY <2>1, <2>2 DEF Down
<1> DEFINE v == [i \in 1..N |-> D[i][f[i - 1].used].val]
           off == [i \in 0..N |-> f[i].used]
           V == {v[i] : i \in 1..N}
<1>7. /\ v \in Seq(V) /\ Len(v) = N /\ IsSequence(v)
      /\ \A i \in 1..N : v[i] = D[i][f[i - 1].used].val
  BY <1>0 DEF IsSequence
<1>8. \A i \in 0..N : off[i] = f[i].used
  OBVIOUS
<1> HIDE DEF v, off, V
<1> DEFINE Up == {n \in Nat : n <= N => f[n] = Got(SubSeq(v, 1, n), f[n].used) /\ f[n].used \in 0..L}
<1>9. 0 \in Up
  <2>1. SubSeq(v, 1, 0) = <<>> /\ Got(<<>>, 0).used = 0
    BY <1>7, SubSeqEmpty DEF Got
  <2>2. f[0].used = 0 /\ 0 \in 0..L
    BY <1>2, <2>1
  <2>3. f[0] = Got(SubSeq(v, 1, 0), f[0].used)
    BY <1>2, <2>1, <2>2
  <2> QED
    BY <2>2, <2>3
<1>10. ASSUME NEW i \in 1..N, f[i - 1].used \in 0..L
       PROVE  /\ D[i][f[i - 1].used] = Got(v[i], f[i].used - f[i - 1].used)
              /\ f[i].used - f[i - 1].used \in Nat /\ f[i].used \in 0..L
  <2> DEFINE a == f[i - 1].used
             s == D[i][a]
  <2>1. i \in 0..N
    OBVIOUS
  <2>2. s.ok /\ f[i].used = a + s.used
    <3>1. s.ok /\ f[i] = Got(Append(f[i - 1].val, s.val), a + s.used)
      BY <1>3, <1>6, <2>1
    <3> HIDE DEF s, a
    <3>2. f[i].used = a + s.used
      BY <3>1 DEF Got
    <3> QED
      BY <3>1, <3>2
  <2>3. s = Got(s.val, s.used) /\ s.used \in 0..(L - a)
    <3>1. a \in 0..L /\ i \in 1..Len(D)
      BY <1>10 DEF N
    <3>2. Uses(s, L - a)
      BY <3>1 DEF AllUse
    <3> QED
      BY <2>2, <3>2 DEF Uses
  <2>4. v[i] = s.val
    BY <1>7
  <2>5. a \in 0..L
    BY <1>10
  <2> HIDE DEF s, a
  <2>6. f[i].used - a = s.used /\ s.used \in Nat /\ f[i].used \in 0..L
    <3>1. \A x, y, z : x \in 0..L /\ y \in 0..(L - x) /\ z = x + y
                        => z - x = y /\ y \in Nat /\ z \in 0..L
      OBVIOUS
    <3> QED
      BY <2>2, <2>3, <2>5, <3>1
  <2> QED
    BY <2>3, <2>4, <2>6 DEF s, a
<1>11. ASSUME NEW n \in Nat, n \in Up PROVE n + 1 \in Up
  <2> SUFFICES ASSUME n + 1 <= N
               PROVE  f[n + 1] = Got(SubSeq(v, 1, n + 1), f[n + 1].used) /\ f[n + 1].used \in 0..L
    OBVIOUS
  <2>1. n + 1 \in 1..N /\ (n + 1) - 1 = n /\ n <= N /\ n + 1 \in 0..N
    BY <1>0
  <2>2. f[n] = Got(SubSeq(v, 1, n), f[n].used) /\ f[n].used \in 0..L
    BY <1>11, <2>1
  <2>3. f[n + 1].used \in 0..L
    BY <1>10, <2>1, <2>2
  <2>4. f[n + 1] = Got(Append(f[n].val, v[n + 1]), f[n].used + D[n + 1][f[n].used].used)
    BY <1>3, <1>6, <1>7, <2>1
  <2>5. SubSeq(v, 1, n + 1) = Append(SubSeq(v, 1, n), v[n + 1])
    <3>1. 1 \in 1..Len(v) /\ n + 1 \in 1..Len(v)
      BY <1>7, <2>1
    <3>2. SubSeq(v, 1, n + 1) = SubSeq(v, 1, (n + 1) - 1) \o <<v[n + 1]>>
      BY <1>7, <3>1, SubSeqRecursiveSecond
    <3>3. SubSeq(v, 1, n) \in Seq(V) /\ v[n + 1] \in V
      BY <1>7, <3>1
    <3>4. Append(SubSeq(v, 1, n), v[n + 1]) = SubSeq(v, 1, n) \o <<v[n + 1]>>
      BY <3>3, AppendIsConcat
    <3> QED
      BY <2>1, <3>2, <3>4
  <2>6. f[n].val = SubSeq(v, 1, n)
    BY <2>2 DEF Got
  <2>7. f[n + 1].used = f[n].used + D[n + 1][f[n].used].used
    BY <2>4 DEF Got
  <2> HIDE DEF Up
  <2> QED
    BY <2>3, <2>4, <2>5, <2>6, <2>7
<1> HIDE DEF Up
<1>12. ASSUME NEW n \in 0..N
       PROVE  f[n] = Got(SubSeq(v, 1, n), f[n].used) /\ f[n].used \in 0..L
  <2>1. n \in Nat /\ n <= N
    BY <1>0
  <2>2. n \in Up
    BY <1>9, <1>11, <2>1, SetInduction
  <2> QED
    BY <2>1, <2>2 DEF Up
<1>13. InSteps(D, off, v, N)
  <2>1. off \in [0..N -> Nat]
    <3>1. \A i \in 0..N : f[i].used \in Nat
      BY <1>12
    <3> QED
      BY <3>1 DEF off
  <2>2. off[0] = 0
    <3>1. 0 \in 0..N /\ Got(<<>>, 0).used = 0
      BY <1>0 DEF Got
    <3> QED
      BY <1>2, <1>8, <3>1
  <2>3. ASSUME NEW k \in 1..N PROVE D[k][off[k - 1]] = Got(v[k], off[k] - off[k - 1])
    <3>1. k \in 0..N /\ k - 1 \in 0..N
      BY <1>0
    <3>2. off[k] = f[k].used /\ off[k - 1] = f[k - 1].used
      BY <1>8, <3>1
    <3>3. f[k - 1].used \in 0..L
      BY <1>12, <3>1
    <3> QED
      BY <1>10, <3>2, <3>3
  <2> QED
    BY <1>7, <2>1, <2>2, <2>3 DEF InSteps, N
<1>14. \A k \in 0..N : off[k] \in 0..L
  BY <1>8, <1>12
<1>15. ASSUME NEW k \in 1..N PROVE off[k] - off[k - 1] \in Nat
  <2>1. k \in 0..N /\ k - 1 \in 0..N
    BY <1>0
  <2>2. off[k] = f[k].used /\ off[k - 1] = f[k - 1].used
    BY <1>8, <2>1
  <2>3. f[k - 1].used \in 0..L
    BY <1>12, <2>1
  <2> QED
    BY <1>10, <2>2, <2>3
<1>16. InTurn(D) = Got(v, off[N])
  <2>1. N \in 0..N
    BY <1>0
  <2>2. SubSeq(v, 1, N) = v
    BY <1>7, SubSeqFull
  <2>3. f[N] = Got(SubSeq(v, 1, N), f[N].used)
    BY <1>12, <2>1
  <2> QED
    BY <1>1, <1>8, <2>1, <2>2, <2>3
<1>17. Traced(D, L, off, v)
  BY <1>7, <1>13, <1>14, <1>15, <1>16 DEF Traced, N
<1> QED
  BY <1>17

-----------------------------------------------------------------------------
(* One item *)

\* r is what a decoder makes of n bytes, s what it makes of them with more behind: a
\* decoder that has what it wants looks no further.
Steady(r, s, n) == Uses(r, n) /\ (r.ok => s = r)

\* What fails is steady.
LEMMA FailSteady ==
  ASSUME NEW r, NEW s, NEW n, ~r.ok
  PROVE  Steady(r, s, n)
  BY DEF Steady, Uses

\* What got something, and gets the same with more behind it, is steady.
LEMMA GotSteady ==
  ASSUME NEW r, NEW s, NEW n, NEW v, NEW u \in 0..n, r = Got(v, u), s = Got(v, u)
  PROVE  Steady(r, s, n)
<1>1. r.val = v /\ r.used = u
  BY DEF Got
<1> QED
  BY <1>1 DEF Steady, Uses

\* What a steady decoder returned.
LEMMA SteadyGot ==
  ASSUME NEW r, NEW s, NEW n, Steady(r, s, n), r.ok
  PROVE  r = Got(r.val, r.used) /\ r.used \in 0..n /\ s = Got(r.val, r.used)
  BY DEF Steady, Uses

\* Fail is not a result.
LEMMA FailIsNot == ~Fail.ok
  BY DEF Fail

\* A result is one.
LEMMA GotIs ==
  ASSUME NEW v, NEW u
  PROVE  Got(v, u).ok /\ Got(v, u).val = v /\ Got(v, u).used = u
  BY DEF Got

\* Padding is a number of bytes.
LEMMA PadNat ==
  ASSUME NEW n \in Nat
  PROVE  pad_to_word(n) \in Nat /\ n + pad_to_word(n) \in Nat
<1>1. n % WORD_SIZE \in 0..(WORD_SIZE - 1) /\ WORD_SIZE \in Nat
  BY WireSizesAssumption
<1> QED
  BY <1>1 DEF pad_to_word

\* A part of a sequence is the same part of a longer one.
LEMMA PartKept ==
  ASSUME NEW S, NEW d \in Seq(S), NEW q \in Seq(S), NEW a \in Nat, NEW k \in Nat, a + k <= Len(d)
  PROVE  SubSeq(d \o q, a + 1, a + k) = SubSeq(d, a + 1, a + k)
<1> DEFINE e == d \o q
           x == SubSeq(e, a + 1, a + k)
           y == SubSeq(d, a + 1, a + k)
<1>1. /\ e \in Seq(S) /\ Len(d) \in Nat /\ Len(q) \in Nat /\ Len(e) = Len(d) + Len(q)
      /\ \A i \in 1..Len(d) : e[i] = d[i]
  BY Joined
<1> HIDE DEF e
<1>2. a + k <= Len(e)
  <2>1. \A m, n, z : m \in Nat /\ n \in Nat /\ z \in Nat /\ m <= n => m <= n + z
    OBVIOUS
  <2>2. a + k \in Nat
    OBVIOUS
  <2> QED
    BY <1>1, <2>1, <2>2
<1>3. x \in Seq(S) /\ Len(x) = k /\ \A i \in 1..k : x[i] = e[a + i]
  <2>1. e \in Seq(S)
    BY <1>1
  <2> QED
    BY <1>2, <2>1, PartOf
<1>4. y \in Seq(S) /\ Len(y) = k /\ \A i \in 1..k : y[i] = d[a + i]
  BY PartOf, Zenon
<1> HIDE DEF x, y
<1>5. \A i \in 1..k : a + i \in 1..Len(d)
  BY <1>1
<1>6. \A i \in 1..Len(x) : x[i] = y[i]
  BY <1>1, <1>3, <1>4, <1>5
<1>7. x = y
  BY <1>3, <1>4, <1>6, SeqEqual
<1> QED
  BY <1>7 DEF x, y, e

\* Bytes with more bytes behind them.
LEMMA More ==
  ASSUME NEW d \in Bytes, NEW q \in Bytes
  PROVE  /\ d \o q \in Bytes /\ Len(d) \in Nat /\ Len(q) \in Nat
         /\ Len(d \o q) = Len(d) + Len(q)
         /\ \A i \in 1..Len(d) : (d \o q)[i] = d[i]
  BY Joined DEF Bytes

\* What is behind an offset in them.
LEMMA MoreBehind ==
  ASSUME NEW d \in Bytes, NEW q \in Bytes, NEW a \in 0..Len(d)
  PROVE  /\ From(d \o q, a) = From(d, a) \o q /\ From(d, a) \in Bytes
         /\ Len(From(d, a)) = Len(d) - a /\ Len(d) - a \in Nat /\ a \in 0..Len(d \o q)
<1>1. From(d \o q, a) = From(d, a) \o q /\ From(d, a) \in Bytes
  BY FromFront DEF Bytes
<1>2. Len(From(d, a)) = Len(d) - a /\ Len(d) - a \in Nat
  BY FromFacts DEF Bytes
<1> QED
  BY <1>1, <1>2, More

\* A number, and what it can be.
LEMMA UintGot ==
  ASSUME NEW d \in Bytes, NEW size \in Nat, decode_uint(d, size).ok
  PROVE  /\ size \in 0..Len(d)
         /\ decode_uint(d, size) = Got(Number(SubSeq(d, 1, size)), size)
         /\ Number(SubSeq(d, 1, size)) \in 0..(Codes(size) - 1)
<1>1. Len(d) \in Nat /\ ~(Len(d) < size)
  BY LenProperties, FailIsNot DEF decode_uint, Bytes
<1>a. size <= Len(d)
  BY <1>1
<1>2. SubSeq(d, 1, size) \in Bytes /\ Len(SubSeq(d, 1, size)) = size
  BY <1>a, StartOf DEF Bytes
<1>3. Number(SubSeq(d, 1, size)) \in 0..(Codes(size) - 1)
  BY <1>2, NumberRange DEF Bytes
<1> QED
  BY <1>1, <1>3 DEF decode_uint

\* decode_uint reads the size it is told and nothing behind it.
LEMMA UintSteady ==
  ASSUME NEW d \in Bytes, NEW q \in Bytes, NEW size \in Nat
  PROVE  Steady(decode_uint(d, size), decode_uint(d \o q, size), Len(d))
<1> DEFINE r == decode_uint(d, size)
           s == decode_uint(d \o q, size)
<1> SUFFICES ASSUME r.ok PROVE Steady(r, s, Len(d))
  BY FailSteady
<1>1. size \in 0..Len(d) /\ r = Got(Number(SubSeq(d, 1, size)), size)
  BY UintGot
<1>2. Len(d) \in Nat /\ Len(d \o q) = Len(d) + Len(q) /\ Len(q) \in Nat
  BY More
<1>3. SubSeq(d \o q, 1, size) = SubSeq(d, 1, size)
  <2>1. 0 \in Nat /\ 0 + size <= Len(d) /\ 0 + size = size /\ 0 + 1 = 1
    BY <1>1, <1>2
  <2>2. SubSeq(d \o q, 0 + 1, 0 + size) = SubSeq(d, 0 + 1, 0 + size)
    BY <2>1, PartKept DEF Bytes
  <2> QED
    BY <2>1, <2>2
<1>4. ~(Len(d \o q) < size)
  BY <1>1, <1>2
<1>5. s = Got(Number(SubSeq(d, 1, size)), size)
  BY <1>3, <1>4 DEF decode_uint
<1> HIDE DEF r, s
<1> QED
  BY <1>1, <1>5, GotSteady

\* A word.
LEMMA WordSteady ==
  ASSUME NEW d \in Bytes, NEW q \in Bytes
  PROVE  /\ Steady(decode_uint64(d), decode_uint64(d \o q), Len(d))
         /\ decode_uint64(d).ok =>
              /\ decode_uint64(d).val \in 0..(WordRange - 1) /\ decode_uint64(d).used = WORD_SIZE
              /\ WORD_SIZE <= Len(d)
<1>1. WORD_SIZE \in Nat
  BY WireSizesAssumption
<1>2. Steady(decode_uint64(d), decode_uint64(d \o q), Len(d))
  BY <1>1, UintSteady DEF decode_uint64
<1>3. ASSUME decode_uint64(d).ok
      PROVE  /\ decode_uint64(d).val \in 0..(WordRange - 1) /\ decode_uint64(d).used = WORD_SIZE
             /\ WORD_SIZE <= Len(d)
  <2>1. decode_uint(d, WORD_SIZE).ok
    BY <1>3 DEF decode_uint64
  <2> DEFINE n == Number(SubSeq(d, 1, WORD_SIZE))
  <2>2. WORD_SIZE \in 0..Len(d) /\ decode_uint64(d) = Got(n, WORD_SIZE) /\ n \in 0..(WordRange - 1)
    BY <1>1, <2>1, UintGot DEF decode_uint64, WordRange
  <2> HIDE DEF n
  <2> QED
    BY <2>2, GotIs
<1> QED
  BY <1>2, <1>3

\* A text of nul bytes at the start of d, with its terminator and padding.
TextIn(d, cap, nul) ==
  /\ nul \in 0..cap /\ nul < Len(d) /\ d[nul + 1] = 0
  /\ \A i \in 1..nul : d[i] # 0 /\ d[i] < 128
  /\ nul + 1 + pad_to_word(nul + 1) <= Len(d)

\* What decode_text returns for it.
TextRead(d, nul) == Got(SubSeq(d, 1, nul), nul + 1 + pad_to_word(nul + 1))

\* decode_text finds it.
LEMMA TextOf ==
  ASSUME NEW d \in Bytes, NEW cap \in Nat, NEW nul, TextIn(d, cap, nul)
  PROVE  decode_text(d, cap) = TextRead(d, nul)
<1> DEFINE limit == Smaller(Len(d), cap + 1)
           k == FindNul(d, 0, limit)
<1>1. Len(d) \in Nat /\ nul \in 0..cap /\ nul < Len(d) /\ d[nul + 1] = 0
      /\ \A i \in 1..nul : d[i] # 0
  BY LenProperties DEF Bytes, TextIn
<1>2. limit \in Nat /\ nul \in 0..(limit - 1)
  BY <1>1 DEF Smaller
<1>3. First(d, 0, limit, k)
  BY <1>2, FindNulFirst
<1> HIDE DEF limit
<1>4. First(d, 0, limit, nul)
  <2>1. \A i \in 0..(nul - 1) : i + 1 \in 1..nul
    BY <1>1
  <2> QED
    BY <1>1, <1>2, <2>1 DEF First
<1> HIDE DEF k
<1>5. k = nul
  BY <1>2, <1>3, <1>4, FirstUnique
<1>6. IsUtf8(SubSeq(d, 1, nul))
  <2>1. nul \in Nat /\ nul <= Len(d)
    BY <1>1
  <2>2. SubSeq(d, 1, nul) \in Seq(0..(BYTE - 1)) /\ Len(SubSeq(d, 1, nul)) = nul
        /\ \A i \in 1..nul : SubSeq(d, 1, nul)[i] = d[i]
    BY <2>1, StartOf DEF Bytes
  <2> DEFINE t == SubSeq(d, 1, nul)
  <2> HIDE DEF t
  <2>3. DOMAIN t = 1..nul
    BY <2>2 DEF t
  <2>4. \A i \in 1..nul : t[i] < 128
    BY <2>2 DEF TextIn, t
  <2> QED
    BY <2>3, <2>4 DEF IsUtf8, t
<1>7. TextEndingAt(d, nul) = TextRead(d, nul)
  <2>1. nul >= 0 /\ Len(d) >= nul + 1 + pad_to_word(nul + 1)
    <3>a. nul + 1 \in Nat
      BY <1>1
    <3>1. nul + 1 + pad_to_word(nul + 1) \in Nat
      BY <3>a, PadNat
    <3> QED
      BY <1>1, <3>1 DEF TextIn
  <2> QED
    BY <1>6, <2>1 DEF TextEndingAt, TextRead
<1> QED
  BY <1>5, <1>7 DEF decode_text, k, limit

\* What decode_text accepts is one.
LEMMA TextIs ==
  ASSUME NEW d \in Bytes, NEW cap \in Nat, decode_text(d, cap).ok
  PROVE  \E nul : TextIn(d, cap, nul) /\ decode_text(d, cap) = TextRead(d, nul)
<1> DEFINE limit == Smaller(Len(d), cap + 1)
           k == FindNul(d, 0, limit)
<1>1. Len(d) \in Nat /\ limit \in Nat /\ limit <= Len(d) /\ limit <= cap + 1
  BY LenProperties DEF Bytes, Smaller
<1>2. First(d, 0, limit, k)
  BY <1>1, FindNulFirst
<1>3. TextEndingAt(d, k).ok
  BY DEF decode_text
<1> HIDE DEF limit, k
<1>4. k >= 0 /\ IsUtf8(SubSeq(d, 1, k)) /\ Len(d) >= k + 1 + pad_to_word(k + 1)
      /\ TextEndingAt(d, k) = TextRead(d, k)
  BY <1>3, FailIsNot DEF TextEndingAt, TextRead
<1>5. k \in 0..(limit - 1) /\ d[k + 1] = 0 /\ \A i \in 0..(k - 1) : d[i + 1] # 0
  <2>1. ~(-1 >= 0)
    OBVIOUS
  <2> QED
    BY <1>2, <1>4, <2>1 DEF First
<1>6. k \in 0..cap /\ k < Len(d) /\ k \in Nat /\ k <= Len(d)
  BY <1>1, <1>5
<1>7. ASSUME NEW i \in 1..k PROVE d[i] # 0 /\ d[i] < 128
  <2>1. i - 1 \in 0..(k - 1) /\ (i - 1) + 1 = i
    BY <1>6
  <2>2. d[i] # 0
    BY <1>5, <2>1
  <2> DEFINE t == SubSeq(d, 1, k)
  <2>3. t \in Seq(0..(BYTE - 1)) /\ Len(t) = k /\ \A j \in 1..k : t[j] = d[j]
    BY <1>6, StartOf DEF Bytes
  <2> HIDE DEF t
  <2>4. DOMAIN t = 1..k
    BY <2>3
  <2>5. t[i] < 128
    BY <1>4, <2>4 DEF IsUtf8, t
  <2> QED
    BY <2>2, <2>3, <2>5
<1>8. k + 1 + pad_to_word(k + 1) <= Len(d)
  <2>a. k + 1 \in Nat
    BY <1>6
  <2>1. k + 1 + pad_to_word(k + 1) \in Nat
    BY <2>a, PadNat
  <2> QED
    BY <1>1, <1>4, <2>1
<1>9. TextIn(d, cap, k)
  BY <1>5, <1>6, <1>7, <1>8 DEF TextIn
<1>10. decode_text(d, cap) = TextEndingAt(d, k)
  BY DEF decode_text, k, limit
<1> QED
  BY <1>4, <1>9, <1>10

\* decode_text reads to the zero byte and its padding, and nothing behind them.
LEMMA TextSteady ==
  ASSUME NEW d \in Bytes, NEW q \in Bytes, NEW cap \in Nat
  PROVE  /\ Steady(decode_text(d, cap), decode_text(d \o q, cap), Len(d))
         /\ Steady(decode_text_view(d, cap), decode_text_view(d \o q, cap), Len(d))
<1> DEFINE r == decode_text(d, cap)
           e == d \o q
           s == decode_text(e, cap)
<1>1. e \in Bytes /\ Len(d) \in Nat /\ Len(q) \in Nat /\ Len(e) = Len(d) + Len(q)
      /\ \A i \in 1..Len(d) : e[i] = d[i]
  BY More
<1> HIDE DEF e
<1>2. Steady(r, s, Len(d))
  <2> SUFFICES ASSUME r.ok PROVE Steady(r, s, Len(d))
    BY FailSteady
  <2>1. PICK nul : TextIn(d, cap, nul) /\ r = TextRead(d, nul)
    BY TextIs
  <2>2. /\ nul \in 0..cap /\ nul < Len(d) /\ d[nul + 1] = 0
        /\ \A i \in 1..nul : d[i] # 0 /\ d[i] < 128
        /\ nul + 1 + pad_to_word(nul + 1) <= Len(d)
    BY <2>1 DEF TextIn
  <2>3. nul + 1 + pad_to_word(nul + 1) \in 0..Len(d)
    <3>a. nul + 1 \in Nat
      BY <2>2
    <3>1. nul + 1 + pad_to_word(nul + 1) \in Nat
      BY <3>a, PadNat
    <3> QED
      BY <2>2, <3>1, <1>1
  <2>4. TextIn(e, cap, nul)
    <3>1. nul < Len(e) /\ nul + 1 \in 1..Len(d) /\ \A i \in 1..nul : i \in 1..Len(d)
      BY <1>1, <2>2
    <3>2. nul + 1 + pad_to_word(nul + 1) <= Len(e)
      BY <1>1, <2>3
    <3> QED
      BY <1>1, <2>2, <3>1, <3>2 DEF TextIn
  <2>5. s = TextRead(e, nul)
    BY <1>1, <2>4, TextOf
  <2>6. SubSeq(e, 1, nul) = SubSeq(d, 1, nul)
    <3>1. 0 \in Nat /\ nul \in Nat /\ 0 + nul <= Len(d) /\ 0 + nul = nul /\ 0 + 1 = 1
      BY <1>1, <2>2
    <3>2. SubSeq(d \o q, 0 + 1, 0 + nul) = SubSeq(d, 0 + 1, 0 + nul)
      BY <3>1, PartKept DEF Bytes
    <3> QED
      BY <3>1, <3>2 DEF e
  <2>7. s = TextRead(d, nul)
    BY <2>5, <2>6 DEF TextRead
  <2> HIDE DEF r, s
  <2> QED
    BY <2>1, <2>3, <2>7, GotSteady DEF TextRead
<1>3. decode_text_view(d, cap) = r /\ decode_text_view(e, cap) = s
  BY <1>1, ViewIsBytes DEF Bytes
<1> QED
  BY <1>2, <1>3 DEF e

\* decode_blob reads the length its first word says, padded, and nothing behind it.
LEMMA BlobSteady ==
  ASSUME NEW d \in Bytes, NEW q \in Bytes
  PROVE  Steady(decode_blob(d), decode_blob(d \o q), Len(d))
<1> DEFINE e == d \o q
           r == decode_blob(d)
           s == decode_blob(e)
           w == decode_uint64(d)
           x == decode_uint64(e)
           n == w.val
           size == WORD_SIZE + n + pad_to_word(n)
<1> SUFFICES ASSUME r.ok PROVE Steady(r, s, Len(d))
  BY FailSteady
<1>1. w.ok
  BY FailIsNot DEF decode_blob, Then
<1>2. /\ Steady(w, x, Len(d)) /\ n \in 0..(WordRange - 1) /\ w.used = WORD_SIZE
  BY <1>1, WordSteady
<1>3. x.ok /\ x.val = n /\ x.used = WORD_SIZE
  BY <1>1, <1>2 DEF Steady
<1>4. n \in Nat /\ WORD_SIZE \in Nat
  BY <1>2, WordFacts, WireSizesAssumption
<1>5. pad_to_word(n) \in Nat
  BY <1>4, PadNat
<1>6. /\ Len(d) \in Nat /\ Len(q) \in Nat /\ Len(e) = Len(d) + Len(q)
  BY More
<1>r. r = IF n > MAX_BLOB_SIZE \/ Len(d) < size THEN Fail
          ELSE Got(SubSeq(d, WORD_SIZE + 1, WORD_SIZE + n), size)
  BY <1>1, <1>2 DEF decode_blob, Then
<1>s. s = IF n > MAX_BLOB_SIZE \/ Len(e) < size THEN Fail
          ELSE Got(SubSeq(e, WORD_SIZE + 1, WORD_SIZE + n), size)
  BY <1>3 DEF decode_blob, Then
<1> HIDE DEF r, s, w, x, n
<1>7. ~(n > MAX_BLOB_SIZE) /\ ~(Len(d) < size)
  BY <1>r, FailIsNot
<1>8. size \in 0..Len(d) /\ ~(Len(e) < size) /\ WORD_SIZE + n <= Len(d)
  BY <1>4, <1>5, <1>6, <1>7
<1>9. SubSeq(e, WORD_SIZE + 1, WORD_SIZE + n) = SubSeq(d, WORD_SIZE + 1, WORD_SIZE + n)
  BY <1>4, <1>8, PartKept DEF Bytes
<1> HIDE DEF size, e
<1>10. r = Got(SubSeq(d, WORD_SIZE + 1, WORD_SIZE + n), size)
  BY <1>r, <1>7
<1>11. s = Got(SubSeq(d, WORD_SIZE + 1, WORD_SIZE + n), size)
  BY <1>s, <1>7, <1>8, <1>9
<1> QED
  BY <1>8, <1>10, <1>11, GotSteady

\* What is made of a steady result is steady, if it is made of the value alone and takes
\* the same bytes.
LEMMA MadeSteady ==
  ASSUME NEW r, NEW s, NEW n, Steady(r, s, n), NEW a, NEW b, NEW v,
         IF r.ok THEN a = Got(v, r.used) ELSE a = Fail,
         r.ok /\ s = r => b = Got(v, r.used)
  PROVE  Steady(a, b, n)
<1>1. CASE r.ok
  <2>1. r.used \in 0..n /\ a = Got(v, r.used) /\ b = Got(v, r.used)
    BY <1>1 DEF Steady, Uses
  <2> QED
    BY <2>1, GotSteady
<1>2. CASE ~r.ok
  BY <1>2, FailSteady, FailIsNot
<1> QED
  BY <1>1, <1>2

\* A signed integer is a word read by its sign.
LEMMA Int64Steady ==
  ASSUME NEW d \in Bytes, NEW q \in Bytes
  PROVE  Steady(decode_int64(d), decode_int64(d \o q), Len(d))
<1> DEFINE e == d \o q
           r == decode_uint64(d)
           s == decode_uint64(e)
           a == decode_int64(d)
           b == decode_int64(e)
           v == IF r.val >= WordRange \div 2 THEN r.val - WordRange ELSE r.val
<1>1. Steady(r, s, Len(d))
  BY WordSteady
<1>2. a = IF r.ok THEN Got(v, r.used) ELSE Fail
  BY DEF decode_int64, Then
<1>3. r.ok /\ s = r => b = Got(v, r.used)
  <2>1. b = IF s.ok THEN Got(IF s.val >= WordRange \div 2 THEN s.val - WordRange ELSE s.val, s.used)
            ELSE Fail
    BY DEF decode_int64, Then
  <2> HIDE DEF b, r, s
  <2> QED
    BY <2>1
<1> HIDE DEF a, b, r, s, v, e
<1> QED
  BY <1>1, <1>2, <1>3, MadeSteady DEF a, b, e

\* decode_value, whatever the type, looks no further than its value.
LEMMA ValueSteady ==
  ASSUME NEW d \in Bytes, NEW q \in Bytes, NEW t \in ValueType
  PROVE  Steady(decode_value(d, t), decode_value(d \o q, t), Len(d))
<1> DEFINE e == d \o q
           a == decode_value(d, t)
           b == decode_value(e, t)
<1>0. t \in {1, 2, 3, 4, 5, 9, 10, 11}
  BY Tags
<1>1. CASE t \in {INTEGER, UNIXTIME}
  <2> DEFINE r == decode_int64(d)
             s == decode_int64(e)
             v == Py("int", r.val)
  <2>1. Steady(r, s, Len(d))
    BY Int64Steady
  <2>2. t \notin {FLOAT, TEXT, ISO8601, BLOB, NULL, BOOLEAN_}
    BY <1>1, Tags
  <2>3. a = IF r.ok THEN Got(v, r.used) ELSE Fail
    BY <1>1, <2>2 DEF decode_value, Then
  <2>4. b = IF s.ok THEN Got(Py("int", s.val), s.used) ELSE Fail
    BY <1>1, <2>2 DEF decode_value, Then
  <2> HIDE DEF a, b, r, s
  <2>5. r.ok /\ s = r => b = Got(v, r.used)
    BY <2>4
  <2> HIDE DEF v
  <2> QED
    BY <2>1, <2>3, <2>5, MadeSteady DEF a, b, e
<1>2. CASE t = FLOAT
  <2> DEFINE r == decode_uint64(d)
             s == decode_uint64(e)
             v == Py("float", r.val)
  <2>1. Steady(r, s, Len(d))
    BY WordSteady
  <2>2. t \notin {INTEGER, UNIXTIME, TEXT, ISO8601, BLOB, NULL, BOOLEAN_}
    BY <1>2, Tags
  <2>3. a = IF r.ok THEN Got(v, r.used) ELSE Fail
    BY <1>2, <2>2 DEF decode_value, Then
  <2>4. b = IF s.ok THEN Got(Py("float", s.val), s.used) ELSE Fail
    BY <1>2, <2>2 DEF decode_value, Then
  <2> HIDE DEF a, b, r, s
  <2>5. r.ok /\ s = r => b = Got(v, r.used)
    BY <2>4
  <2> HIDE DEF v
  <2> QED
    BY <2>1, <2>3, <2>5, MadeSteady DEF a, b, e
<1>3. CASE t \in {TEXT, ISO8601}
  <2> DEFINE r == decode_text_view(d, MAX_TEXT_VALUE_SIZE)
             s == decode_text_view(e, MAX_TEXT_VALUE_SIZE)
             v == Py("str", r.val)
  <2>1. Steady(r, s, Len(d))
    BY TextSteady, WireSizesAssumption
  <2>2. t \notin {INTEGER, UNIXTIME, FLOAT, BLOB, NULL, BOOLEAN_}
    BY <1>3, Tags
  <2>3. a = IF r.ok THEN Got(v, r.used) ELSE Fail
    BY <1>3, <2>2 DEF decode_value, Then
  <2>4. b = IF s.ok THEN Got(Py("str", s.val), s.used) ELSE Fail
    BY <1>3, <2>2 DEF decode_value, Then
  <2> HIDE DEF a, b, r, s
  <2>5. r.ok /\ s = r => b = Got(v, r.used)
    BY <2>4
  <2> HIDE DEF v
  <2> QED
    BY <2>1, <2>3, <2>5, MadeSteady DEF a, b, e
<1>4. CASE t = BLOB
  <2> DEFINE r == decode_blob(d)
             s == decode_blob(e)
             v == Py("bytes", r.val)
  <2>1. Steady(r, s, Len(d))
    BY BlobSteady
  <2>2. t \notin {INTEGER, UNIXTIME, FLOAT, TEXT, ISO8601, NULL, BOOLEAN_}
    BY <1>4, Tags
  <2>3. a = IF r.ok THEN Got(v, r.used) ELSE Fail
    BY <1>4, <2>2 DEF decode_value, Then
  <2>4. b = IF s.ok THEN Got(Py("bytes", s.val), s.used) ELSE Fail
    BY <1>4, <2>2 DEF decode_value, Then
  <2> HIDE DEF a, b, r, s
  <2>5. r.ok /\ s = r => b = Got(v, r.used)
    BY <2>4
  <2> HIDE DEF v
  <2> QED
    BY <2>1, <2>3, <2>5, MadeSteady DEF a, b, e
<1>5. CASE t = NULL
  <2> DEFINE r == decode_uint64(d)
             s == decode_uint64(e)
  <2>1. Steady(r, s, Len(d))
    BY WordSteady
  <2>2. t \notin {INTEGER, UNIXTIME, FLOAT, TEXT, ISO8601, BLOB, BOOLEAN_}
    BY <1>5, Tags
  <2>3. a = IF r.ok THEN Got(PyNone, r.used) ELSE Fail
    BY <1>5, <2>2 DEF decode_value, Then
  <2>4. b = IF s.ok THEN Got(PyNone, s.used) ELSE Fail
    BY <1>5, <2>2 DEF decode_value, Then
  <2> HIDE DEF a, b, r, s
  <2>5. r.ok /\ s = r => b = Got(PyNone, r.used)
    BY <2>4
  <2> QED
    BY <2>1, <2>3, <2>5, MadeSteady DEF a, b, e
<1>6. CASE t = BOOLEAN_
  <2> DEFINE r == decode_uint64(d)
             s == decode_uint64(e)
             v == Py("bool", Smaller(r.val, 1))
  <2>1. Steady(r, s, Len(d))
    BY WordSteady
  <2>2. t \notin {INTEGER, UNIXTIME, FLOAT, TEXT, ISO8601, BLOB, NULL}
    BY <1>6, Tags
  <2>3. a = IF r.ok THEN Got(v, r.used) ELSE Fail
    BY <1>6, <2>2 DEF decode_value, Then
  <2>4. b = IF s.ok THEN Got(Py("bool", Smaller(s.val, 1)), s.used) ELSE Fail
    BY <1>6, <2>2 DEF decode_value, Then
  <2> HIDE DEF a, b, r, s
  <2>5. r.ok /\ s = r => b = Got(v, r.used)
    BY <2>4
  <2> HIDE DEF v
  <2> QED
    BY <2>1, <2>3, <2>5, MadeSteady DEF a, b, e
<1> QED
  BY <1>0, <1>1, <1>2, <1>3, <1>4, <1>5, <1>6, Tags

\* A field of a layout looks no further than itself.
LEMMA FieldSteady ==
  ASSUME NEW d \in Bytes, NEW q \in Bytes, NEW f, FieldOk(f)
  PROVE  Steady(decode_field(d, f), decode_field(d \o q, f), Len(d))
<1> DEFINE e == d \o q
           a == decode_field(d, f)
           b == decode_field(e, f)
<1>0. f.of \in {"uint", "reserved", "text", "view"} /\ f.size \in Nat /\ f.max \in Nat
  BY DEF FieldOk
<1>1. CASE f.of = "uint"
  <2> DEFINE r == decode_uint(d, f.size)
             s == decode_uint(e, f.size)
  <2>1. Steady(r, s, Len(d))
    BY <1>0, UintSteady
  <2>3. a = IF r.ok THEN (IF r.val > f.max THEN Fail ELSE Got(r.val, r.used)) ELSE Fail
    BY <1>1 DEF decode_field, Then
  <2>4. b = IF s.ok THEN (IF s.val > f.max THEN Fail ELSE Got(s.val, s.used)) ELSE Fail
    BY <1>1 DEF decode_field, Then
  <2> HIDE DEF a, b, r, s
  <2>5. CASE a.ok
    <3>1. r.ok /\ ~(r.val > f.max) /\ a = Got(r.val, r.used)
      BY <2>3, <2>5, FailIsNot
    <3>2. s = r /\ r.used \in 0..Len(d)
      BY <2>1, <3>1 DEF Steady, Uses
    <3>3. b = Got(r.val, r.used)
      BY <2>4, <3>1, <3>2
    <3> QED
      BY <3>1, <3>2, <3>3, GotSteady DEF a, b, e
  <2>6. CASE ~a.ok
    BY <2>6, FailSteady DEF a, b, e
  <2> QED
    BY <2>5, <2>6
<1>2. CASE f.of = "reserved"
  <2> DEFINE r == decode_uint(d, f.size)
             s == decode_uint(e, f.size)
  <2>1. Steady(r, s, Len(d))
    BY <1>0, UintSteady
  <2>3. a = IF r.ok THEN Got(0, r.used) ELSE Fail
    BY <1>2 DEF decode_field, Then
  <2>4. b = IF s.ok THEN Got(0, s.used) ELSE Fail
    BY <1>2 DEF decode_field, Then
  <2> HIDE DEF a, b, r, s
  <2>5. r.ok /\ s = r => b = Got(0, r.used)
    BY <2>4
  <2> QED
    BY <2>1, <2>3, <2>5, MadeSteady DEF a, b, e
<1>3. CASE f.of = "text"
  <2>1. a = decode_text(d, f.max) /\ b = decode_text(e, f.max)
    BY <1>3 DEF decode_field
  <2> QED
    BY <1>0, <2>1, TextSteady
<1>4. CASE f.of = "view"
  <2>1. a = decode_text_view(d, f.max) /\ b = decode_text_view(e, f.max)
    BY <1>4 DEF decode_field
  <2> QED
    BY <1>0, <2>1, TextSteady
<1> QED
  BY <1>0, <1>1, <1>2, <1>3, <1>4

-----------------------------------------------------------------------------
(* Lists *)

\* The decoders D have L bytes before them, the decoders E the same and more.
AllSteady(D, E, L) ==
  /\ Len(D) \in Nat /\ Len(E) = Len(D)
  /\ \A k \in 1..Len(D) : \A at \in 0..L : Steady(D[k][at], E[k][at], L - at)

\* Steady decoders in turn are steady.
LEMMA ListSteady ==
  ASSUME NEW D, NEW E, NEW L \in Nat, AllSteady(D, E, L)
  PROVE  Steady(InTurn(D), InTurn(E), L)
<1> SUFFICES ASSUME InTurn(D).ok PROVE Steady(InTurn(D), InTurn(E), L)
  BY FailSteady
<1> DEFINE N == Len(D)
<1>1. N \in Nat /\ Len(E) = N
  BY DEF AllSteady
<1>2. AllUse(D, L)
  BY DEF AllSteady, AllUse, Steady
<1>3. PICK off, w : Traced(D, L, off, w)
  BY <1>1, <1>2, InTurnTrace
<1>4. /\ InSteps(D, off, w, N) /\ IsSequence(w) /\ InTurn(D) = Got(w, off[N])
      /\ \A k \in 0..N : off[k] \in 0..L
  BY <1>3 DEF Traced
<1>5. ASSUME NEW k \in 1..N PROVE E[k][off[k - 1]] = Got(w[k], off[k] - off[k - 1])
  <2>1. D[k][off[k - 1]] = Got(w[k], off[k] - off[k - 1])
    BY <1>4 DEF InSteps
  <2>2. k - 1 \in 0..N
    BY <1>1
  <2>3. off[k - 1] \in 0..L
    BY <1>4, <2>2
  <2>4. Steady(D[k][off[k - 1]], E[k][off[k - 1]], L - off[k - 1])
    BY <2>3 DEF AllSteady
  <2>5. D[k][off[k - 1]].ok
    BY <2>1, GotIs
  <2> QED
    BY <2>1, <2>4, <2>5 DEF Steady
<1>6. InSteps(E, off, w, N)
  BY <1>1, <1>4, <1>5 DEF InSteps
<1> DEFINE V == {w[i] : i \in DOMAIN w}
<1>7. w \in Seq(V)
  BY <1>4, Items
<1>8. N \in 0..N
  BY <1>1
<1> HIDE DEF V, N
<1>9. InTurn(E) = Got(w, off[N])
  BY <1>1, <1>6, <1>7, InTurnGot
<1> QED
  BY <1>4, <1>8, <1>9, GotSteady

\* Decoder k at every offset of d.
Over(D, d, n) == D = [k \in 1..n |-> [at \in 0..Len(d) |-> D[k][at]]]

\* A list of decoders with more bytes behind.
LEMMA OverSteady ==
  ASSUME NEW d \in Bytes, NEW q \in Bytes, NEW n \in Nat, NEW D, NEW E,
         Over(D, d, n), Over(E, d \o q, n),
         \A k \in 1..n : \A at \in 0..Len(d) : Steady(D[k][at], E[k][at], Len(d) - at)
  PROVE  Steady(InTurn(D), InTurn(E), Len(d))
<1>1. Len(D) = n /\ Len(E) = n
  <2>1. \A f, g : f = [k \in 1..n |-> g[k]] => Len(f) = n
    OBVIOUS
  <2> DEFINE g == [k \in 1..n |-> [at \in 0..Len(d) |-> D[k][at]]]
             h == [k \in 1..n |-> [at \in 0..Len(d \o q) |-> E[k][at]]]
  <2>2. D = [k \in 1..n |-> g[k]] /\ E = [k \in 1..n |-> h[k]]
    BY DEF Over
  <2> HIDE DEF g, h
  <2> QED
    BY <2>1, <2>2
<1>2. Len(d) \in Nat
  BY More
<1>3. AllSteady(D, E, Len(d))
  BY <1>1 DEF AllSteady
<1> QED
  BY <1>2, <1>3, ListSteady

\* The fields of a layout, one behind the other, look no further than the last.
LEMMA FieldsSteady ==
  ASSUME NEW d \in Bytes, NEW q \in Bytes, NEW layout, LayoutOk(layout)
  PROVE  Steady(decode_fields(d, layout), decode_fields(d \o q, layout), Len(d))
<1> DEFINE e == d \o q
           n == Len(layout)
           D == [k \in 1..n |-> [at \in 0..Len(d) |-> decode_field(From(d, at), layout[k])]]
           E == [k \in 1..n |-> [at \in 0..Len(e) |-> decode_field(From(e, at), layout[k])]]
<1>1. n \in Nat /\ \A k \in 1..n : FieldOk(layout[k])
  BY DEF LayoutOk, IsSequence
<1>2. decode_fields(d, layout) = InTurn(D) /\ decode_fields(e, layout) = InTurn(E)
  BY DEF decode_fields, Each
<1>3. Over(D, d, n) /\ Over(E, e, n)
  BY Zenon DEF Over
<1>4. ASSUME NEW k \in 1..n, NEW at \in 0..Len(d) PROVE Steady(D[k][at], E[k][at], Len(d) - at)
  <2>1. /\ From(e, at) = From(d, at) \o q /\ From(d, at) \in Bytes
        /\ Len(From(d, at)) = Len(d) - at /\ at \in 0..Len(e)
    BY MoreBehind
  <2>2. D[k][at] = decode_field(From(d, at), layout[k]) /\ E[k][at] = decode_field(From(e, at), layout[k])
    BY <2>1, Zenon
  <2>3. Steady(decode_field(From(d, at), layout[k]), decode_field(From(d, at) \o q, layout[k]), Len(From(d, at)))
    BY <1>1, <2>1, FieldSteady
  <2> HIDE DEF D, E
  <2> QED
    BY <2>1, <2>2, <2>3
<1> HIDE DEF D, E, n
<1>5. Steady(InTurn(D), InTurn(E), Len(d))
  BY <1>1, <1>3, <1>4, OverSteady
<1> QED
  BY <1>2, <1>5

\* The values of a row look no further than the last.
LEMMA ValuesSteady ==
  ASSUME NEW d \in Bytes, NEW q \in Bytes, NEW types, NEW n \in Nat, Len(types) = n,
         \A k \in 1..n : types[k] \in ValueType
  PROVE  Steady(decode_row_values(d, types), decode_row_values(d \o q, types), Len(d))
<1> DEFINE e == d \o q
           D == [k \in 1..n |-> [at \in 0..Len(d) |-> decode_value(From(d, at), types[k])]]
           E == [k \in 1..n |-> [at \in 0..Len(e) |-> decode_value(From(e, at), types[k])]]
<1>2. decode_row_values(d, types) = InTurn(D) /\ decode_row_values(e, types) = InTurn(E)
  BY DEF decode_row_values, Each
<1>3. Over(D, d, n) /\ Over(E, e, n)
  BY Zenon DEF Over
<1>4. ASSUME NEW k \in 1..n, NEW at \in 0..Len(d) PROVE Steady(D[k][at], E[k][at], Len(d) - at)
  <2>1. /\ From(e, at) = From(d, at) \o q /\ From(d, at) \in Bytes
        /\ Len(From(d, at)) = Len(d) - at /\ at \in 0..Len(e)
    BY MoreBehind
  <2>2. D[k][at] = decode_value(From(d, at), types[k]) /\ E[k][at] = decode_value(From(e, at), types[k])
    BY <2>1, Zenon
  <2>3. Steady(decode_value(From(d, at), types[k]), decode_value(From(d, at) \o q, types[k]), Len(From(d, at)))
    BY <2>1, ValueSteady
  <2> HIDE DEF D, E
  <2> QED
    BY <2>1, <2>2, <2>3
<1> HIDE DEF D, E
<1>5. Steady(InTurn(D), InTurn(E), Len(d))
  BY <1>3, <1>4, OverSteady
<1> QED
  BY <1>2, <1>5

\* n column names.
LEMMA NamesSteady ==
  ASSUME NEW d \in Bytes, NEW q \in Bytes, NEW n \in Nat
  PROVE  Steady(Times(n, column_name, d), Times(n, column_name, d \o q), Len(d))
<1> DEFINE e == d \o q
           D == [k \in 1..n |-> [at \in 0..Len(d) |-> column_name(From(d, at))]]
           E == [k \in 1..n |-> [at \in 0..Len(e) |-> column_name(From(e, at))]]
<1>1. Len([i \in 1..n |-> i]) = n
  OBVIOUS
<1>2. Times(n, column_name, d) = InTurn(D) /\ Times(n, column_name, e) = InTurn(E)
  BY <1>1, Zenon DEF Times, Each
<1>3. Over(D, d, n) /\ Over(E, e, n)
  BY Zenon DEF Over
<1>4. ASSUME NEW k \in 1..n, NEW at \in 0..Len(d) PROVE Steady(D[k][at], E[k][at], Len(d) - at)
  <2>1. /\ From(e, at) = From(d, at) \o q /\ From(d, at) \in Bytes
        /\ Len(From(d, at)) = Len(d) - at /\ at \in 0..Len(e)
    BY MoreBehind
  <2>2. D[k][at] = column_name(From(d, at)) /\ E[k][at] = column_name(From(e, at))
    BY <2>1, Zenon
  <2>3. Steady(column_name(From(d, at)), column_name(From(d, at) \o q), Len(From(d, at)))
    BY <2>1, TextSteady, CapsAssumption DEF column_name
  <2> HIDE DEF D, E
  <2> QED
    BY <2>1, <2>2, <2>3
<1> HIDE DEF D, E
<1>5. Steady(InTurn(D), InTurn(E), Len(d))
  BY <1>3, <1>4, OverSteady
<1> QED
  BY <1>2, <1>5

\* What a steady decoder used is an offset, with the same bytes behind it and more.
LEMMA SteadyOn ==
  ASSUME NEW d \in Bytes, NEW q \in Bytes, NEW r, NEW s, Steady(r, s, Len(d)), r.ok
  PROVE  /\ s = r /\ r = Got(r.val, r.used) /\ r.used \in 0..Len(d) /\ r.used \in Nat
         /\ From(d \o q, r.used) = From(d, r.used) \o q /\ From(d, r.used) \in Bytes
         /\ Len(From(d, r.used)) = Len(d) - r.used
<1>1. s = r /\ r = Got(r.val, r.used) /\ r.used \in 0..Len(d)
  BY DEF Steady, Uses
<1> DEFINE u == r.used
<1>2. Len(d) \in Nat /\ u \in 0..Len(d)
  BY <1>1, More
<1> HIDE DEF u
<1>3. u \in Nat
  BY <1>2
<1>4. /\ From(d \o q, u) = From(d, u) \o q /\ From(d, u) \in Bytes
      /\ Len(From(d, u)) = Len(d) - u
  BY <1>2, MoreBehind
<1> QED
  BY <1>1, <1>2, <1>3, <1>4 DEF u

\* A name, a size and a content.
LEMMA FileSteady ==
  ASSUME NEW d \in Bytes, NEW q \in Bytes
  PROVE  Steady(decode_file(d), decode_file(d \o q), Len(d))
<1> DEFINE e == d \o q
           r == decode_file(d)
           s == decode_file(e)
           n == decode_text_view(d, MAX_FILENAME_SIZE)
           m == decode_text_view(e, MAX_FILENAME_SIZE)
           at == n.used
           w == decode_uint64(From(d, at))
           x == decode_uint64(From(e, at))
           size == w.val
           end == at + w.used + size
           content(z) == SubSeq(z, at + w.used + 1, at + w.used + size)
           Bad(z) == \/ size % WORD_SIZE # 0
                     \/ size > MAX_FILE_CONTENT_SIZE
                     \/ end > Len(z)
<1> SUFFICES ASSUME r.ok PROVE Steady(r, s, Len(d))
  BY FailSteady
<1>1. n.ok
  BY FailIsNot DEF decode_file, Then
<1>2. Steady(n, m, Len(d))
  BY TextSteady, CapsAssumption
<1>3. /\ m = n /\ at \in 0..Len(d) /\ at \in Nat
      /\ From(e, at) = From(d, at) \o q /\ From(d, at) \in Bytes
      /\ Len(From(d, at)) = Len(d) - at
  BY <1>1, <1>2, SteadyOn
<1>r. r = IF w.ok THEN (IF Bad(d) THEN Fail ELSE Got([name |-> n.val, content |-> content(d)], end)) ELSE Fail
  BY <1>1, Zenon DEF decode_file, Then
<1>s. s = IF x.ok THEN (IF \/ x.val % WORD_SIZE # 0
                           \/ x.val > MAX_FILE_CONTENT_SIZE
                           \/ at + x.used + x.val > Len(e)
                        THEN Fail
                        ELSE Got([name |-> n.val, content |-> SubSeq(e, at + x.used + 1, at + x.used + x.val)],
                                 at + x.used + x.val)) ELSE Fail
  BY <1>1, <1>3, Zenon DEF decode_file, Then
<1> HIDE DEF r, s, n, m
<1>4. w.ok
  BY <1>r, FailIsNot
<1>5. Steady(w, x, Len(From(d, at))) /\ size \in 0..(WordRange - 1) /\ w.used = WORD_SIZE
  BY <1>3, <1>4, WordSteady
<1>6. x = w
  BY <1>4, <1>5 DEF Steady
<1>7. size \in Nat /\ WORD_SIZE \in Nat
  BY <1>5, WordFacts, WireSizesAssumption
<1>8. ~Bad(d)
  BY <1>r, <1>4, FailIsNot
<1>9. Len(d) \in Nat /\ Len(q) \in Nat /\ Len(e) = Len(d) + Len(q)
  BY More
<1> HIDE DEF w, x, e, at, size
<1>10. end \in 0..Len(d) /\ ~(end > Len(e)) /\ at + w.used \in Nat
  BY <1>3, <1>5, <1>7, <1>8, <1>9
<1>11. content(e) = content(d)
  <2>1. (at + w.used) + size <= Len(d)
    BY <1>10
  <2> QED
    BY <1>7, <1>10, <2>1, PartKept DEF Bytes, e
<1> DEFINE v == [name |-> n.val, content |-> content(d)]
<1>12. r = Got(v, end)
  BY <1>r, <1>4, <1>8
<1>13. s = Got(v, end)
  <2>1. s = IF w.ok THEN (IF Bad(e) THEN Fail ELSE Got([name |-> n.val, content |-> content(e)], end)) ELSE Fail
    BY <1>s, <1>6, Zenon DEF size
  <2>2. ~Bad(e)
    BY <1>8, <1>10
  <2> HIDE DEF end
  <2> QED
    BY <2>1, <2>2, <1>4, <1>11
<1> HIDE DEF v, end
<1> QED
  BY <1>10, <1>12, <1>13, GotSteady

\* What decode_node makes of what it read.
NodeOf(id, address, role) ==
  IF id.ok THEN IF address.ok THEN IF role.ok
  THEN IF \/ id.val = 0
          \/ address.val = <<>>
          \/ role.val > SPARE /\ unknown_role_policy = "reject"
       THEN Fail
       ELSE Got([node_id |-> id.val, address |-> address.val, role |-> Smaller(role.val, SPARE)],
                id.used + address.used + role.used)
  ELSE Fail ELSE Fail ELSE Fail

\* A node id, an address and a role.
LEMMA NodeSteady ==
  ASSUME NEW d \in Bytes, NEW q \in Bytes
  PROVE  Steady(decode_node(d), decode_node(d \o q), Len(d))
<1> DEFINE e == d \o q
           r == decode_node(d)
           s == decode_node(e)
           w == decode_uint64(d)
           x == decode_uint64(e)
           a == w.used
           t == decode_text_view(From(d, a), MAX_ADDRESS_SIZE)
           u == decode_text_view(From(e, a), MAX_ADDRESS_SIZE)
           b == a + t.used
           y == decode_uint64(From(d, b))
           z == decode_uint64(From(e, b))
           Bad == \/ w.val = 0
                  \/ t.val = <<>>
                  \/ y.val > SPARE /\ unknown_role_policy = "reject"
           v == [node_id |-> w.val, address |-> t.val, role |-> Smaller(y.val, SPARE)]
<1> SUFFICES ASSUME r.ok PROVE Steady(r, s, Len(d))
  BY FailSteady
<1>r. r = IF w.ok THEN IF t.ok THEN IF y.ok THEN IF Bad THEN Fail ELSE Got(v, a + t.used + y.used)
                                   ELSE Fail ELSE Fail ELSE Fail
  BY Zenon DEF decode_node, Then
<1>1. w.ok /\ t.ok /\ y.ok /\ ~Bad
  <2> HIDE DEF r, w, t, y, Bad, v
  <2> QED
    BY <1>r, FailIsNot
<1>2. Steady(w, x, Len(d))
  BY WordSteady
<1>3. /\ x = w /\ a \in 0..Len(d) /\ a \in Nat
      /\ From(e, a) = From(d, a) \o q /\ From(d, a) \in Bytes
      /\ Len(From(d, a)) = Len(d) - a
  BY <1>1, <1>2, SteadyOn
<1>4. Steady(t, u, Len(From(d, a)))
  BY <1>3, TextSteady, CapsAssumption
<1>5. u = t /\ t.used \in 0..(Len(d) - a)
  BY <1>1, <1>3, <1>4 DEF Steady, Uses
<1>6. Len(d) \in Nat
  BY More
<1> HIDE DEF r, s, w, x, t, u, Bad, v
<1>7. b \in 0..Len(d) /\ b \in Nat
  BY <1>3, <1>5, <1>6
<1>8. From(e, b) = From(d, b) \o q /\ From(d, b) \in Bytes /\ Len(From(d, b)) = Len(d) - b
  BY <1>7, MoreBehind
<1> HIDE DEF b
<1>9. Steady(y, z, Len(From(d, b)))
  BY <1>8, WordSteady
<1>10. z = y /\ y.used \in 0..(Len(d) - b)
  BY <1>1, <1>8, <1>9 DEF Steady, Uses
<1>11. b + y.used \in 0..Len(d)
  <2> HIDE DEF y
  <2> QED
    BY <1>6, <1>7, <1>10
<1>12. r = Got(v, b + y.used)
  BY <1>r, <1>1 DEF b
<1>13. s = r
  <2>1. r = NodeOf(w, t, y)
    BY <1>r, Zenon DEF NodeOf, Bad, v
  <2> DEFINE u1 == decode_text_view(From(e, x.used), MAX_ADDRESS_SIZE)
             z1 == decode_uint64(From(e, x.used + u1.used))
  <2>2. s = NodeOf(x, u1, z1)
    BY Zenon DEF s, decode_node, Then, NodeOf, x
  <2>3. u1 = u
    BY <1>3 DEF u
  <2>4. z1 = z
    BY <1>3, <1>5, <2>3 DEF b
  <2> HIDE DEF u1, z1, y, z
  <2> QED
    BY <1>3, <1>5, <1>10, <2>1, <2>2, <2>3, <2>4
<1> HIDE DEF y
<1> QED
  BY <1>11, <1>12, <1>13, GotSteady

\* The files of a dump look no further than the last.
LEMMA FileListSteady ==
  ASSUME NEW d \in Bytes, NEW q \in Bytes, NEW n \in Nat
  PROVE  Steady(Times(n, decode_file, d), Times(n, decode_file, d \o q), Len(d))
<1> DEFINE e == d \o q
           D == [k \in 1..n |-> [at \in 0..Len(d) |-> decode_file(From(d, at))]]
           E == [k \in 1..n |-> [at \in 0..Len(e) |-> decode_file(From(e, at))]]
<1>1. Len([i \in 1..n |-> i]) = n
  OBVIOUS
<1>2. Times(n, decode_file, d) = InTurn(D) /\ Times(n, decode_file, e) = InTurn(E)
  BY <1>1, Zenon DEF Times, Each
<1>3. Over(D, d, n) /\ Over(E, e, n)
  BY Zenon DEF Over
<1>4. ASSUME NEW k \in 1..n, NEW at \in 0..Len(d) PROVE Steady(D[k][at], E[k][at], Len(d) - at)
  <2>1. /\ From(e, at) = From(d, at) \o q /\ From(d, at) \in Bytes
        /\ Len(From(d, at)) = Len(d) - at /\ at \in 0..Len(e)
    BY MoreBehind
  <2>2. D[k][at] = decode_file(From(d, at)) /\ E[k][at] = decode_file(From(e, at))
    BY <2>1, Zenon
  <2>3. Steady(decode_file(From(d, at)), decode_file(From(d, at) \o q), Len(From(d, at)))
    BY <2>1, FileSteady
  <2> HIDE DEF D, E
  <2> QED
    BY <2>1, <2>2, <2>3
<1> HIDE DEF D, E
<1>5. Steady(InTurn(D), InTurn(E), Len(d))
  BY <1>3, <1>4, OverSteady
<1> QED
  BY <1>2, <1>5

\* The nodes of a cluster look no further than the last.
LEMMA NodeListSteady ==
  ASSUME NEW d \in Bytes, NEW q \in Bytes, NEW n \in Nat
  PROVE  Steady(Times(n, decode_node, d), Times(n, decode_node, d \o q), Len(d))
<1> DEFINE e == d \o q
           D == [k \in 1..n |-> [at \in 0..Len(d) |-> decode_node(From(d, at))]]
           E == [k \in 1..n |-> [at \in 0..Len(e) |-> decode_node(From(e, at))]]
<1>1. Len([i \in 1..n |-> i]) = n
  OBVIOUS
<1>2. Times(n, decode_node, d) = InTurn(D) /\ Times(n, decode_node, e) = InTurn(E)
  BY <1>1, Zenon DEF Times, Each
<1>3. Over(D, d, n) /\ Over(E, e, n)
  BY Zenon DEF Over
<1>4. ASSUME NEW k \in 1..n, NEW at \in 0..Len(d) PROVE Steady(D[k][at], E[k][at], Len(d) - at)
  <2>1. /\ From(e, at) = From(d, at) \o q /\ From(d, at) \in Bytes
        /\ Len(From(d, at)) = Len(d) - at /\ at \in 0..Len(e)
    BY MoreBehind
  <2>2. D[k][at] = decode_node(From(d, at)) /\ E[k][at] = decode_node(From(e, at))
    BY <2>1, Zenon
  <2>3. Steady(decode_node(From(d, at)), decode_node(From(d, at) \o q), Len(From(d, at)))
    BY <2>1, NodeSteady
  <2> HIDE DEF D, E
  <2> QED
    BY <2>1, <2>2, <2>3
<1> HIDE DEF D, E
<1>5. Steady(InTurn(D), InTurn(E), Len(d))
  BY <1>3, <1>4, OverSteady
<1> QED
  BY <1>2, <1>5

-----------------------------------------------------------------------------
(* Bodies and longer bodies *)

\* More bytes behind make a longer sequence.
LEMMA Longer ==
  ASSUME NEW d \in Bytes, NEW q \in Bytes, q # <<>>
  PROVE  /\ Len(d) \in Nat /\ Len(q) \in Nat \ {0} /\ d \o q \in Bytes
         /\ Len(d \o q) = Len(d) + Len(q) /\ Len(d \o q) # Len(d)
<1>1. Len(q) # 0
  BY EmptySeq DEF Bytes
<1> QED
  BY <1>1, More

\* No flat body is another one and more.
LEMMA FlatExact ==
  ASSUME NEW d \in Bytes, NEW q \in Bytes, q # <<>>, NEW kind \in FlatKinds, kind # "AssignRequest",
         NEW schema \in schemas(kind), decode_flat(kind, d, schema).ok
  PROVE  ~decode_flat(kind, d \o q, schema).ok
<1> DEFINE e == d \o q
           layout == flat_layout(kind, schema)
           r == decode_fields(d, layout)
           s == decode_fields(e, layout)
<1>1. LayoutOk(layout)
  BY FlatLayouts
<1>2. decode_flat(kind, d, schema).ok => r.ok /\ r.used = Len(d)
  BY FailIsNot, Zenon DEF decode_flat, FlatOf, Then
<1>3. decode_flat(kind, e, schema).ok => s.ok /\ s.used = Len(e)
  BY FailIsNot, Zenon DEF decode_flat, FlatOf, Then
<1>4. Steady(r, s, Len(d))
  BY <1>1, FieldsSteady
<1>5. s = r
  BY <1>2, <1>4 DEF Steady
<1> HIDE DEF r, s, layout
<1> QED
  BY <1>2, <1>3, <1>5, Longer

\* Nor is the one of the old protocol.
LEMMA LegacyExact ==
  ASSUME NEW d \in Bytes, NEW q \in Bytes, q # <<>>, decode_body_legacy(d).ok
  PROVE  ~decode_body_legacy(d \o q).ok
<1> DEFINE e == d \o q
           r == decode_fields(d, LegacyLeader)
           s == decode_fields(e, LegacyLeader)
<1>1. r.ok /\ r.used = Len(d)
  BY FailIsNot, Zenon DEF decode_body_legacy, Then, consumed
<1>2. decode_body_legacy(e).ok => s.ok /\ s.used = Len(e)
  BY FailIsNot, Zenon DEF decode_body_legacy, Then, consumed
<1>3. Steady(r, s, Len(d))
  BY NamedLayouts, FieldsSteady
<1>4. s = r
  BY <1>1, <1>3 DEF Steady
<1> HIDE DEF r, s
<1> QED
  BY <1>1, <1>2, <1>4, Longer

\* The count of a list and what is behind it.
LEMMA CountSteady ==
  ASSUME NEW d \in Bytes, NEW q \in Bytes, decode_uint64(d).ok
  PROVE  LET w == decode_uint64(d) IN
         /\ decode_uint64(d \o q) = w /\ w.val \in Nat /\ w.used = WORD_SIZE
         /\ w.used \in 0..Len(d) /\ w.used \in Nat
         /\ From(d \o q, w.used) = From(d, w.used) \o q /\ From(d, w.used) \in Bytes
         /\ Len(From(d, w.used)) = Len(d) - w.used
<1> DEFINE w == decode_uint64(d)
           x == decode_uint64(d \o q)
<1>1. Steady(w, x, Len(d)) /\ w.val \in 0..(WordRange - 1) /\ w.used = WORD_SIZE
  BY WordSteady
<1>2. w.val \in Nat
  BY <1>1, WordFacts
<1>4. w.ok
  OBVIOUS
<1> HIDE DEF w, x
<1>3. /\ x = w /\ w.used \in 0..Len(d) /\ w.used \in Nat
      /\ From(d \o q, w.used) = From(d, w.used) \o q /\ From(d, w.used) \in Bytes
      /\ Len(From(d, w.used)) = Len(d) - w.used
  BY <1>1, <1>4, SteadyOn
<1> QED
  BY <1>1, <1>2, <1>3, Zenon DEF w, x

\* Nor is a list of files.
LEMMA FilesExact ==
  ASSUME NEW d \in Bytes, NEW q \in Bytes, q # <<>>, decode_files(d).ok
  PROVE  ~decode_files(d \o q).ok
<1> DEFINE e == d \o q
           w == decode_uint64(d)
           x == decode_uint64(e)
           r == Times(w.val, decode_file, From(d, w.used))
           s == Times(x.val, decode_file, From(e, x.used))
<1>1. w.ok /\ r.ok /\ w.used + r.used = Len(d)
  BY FailIsNot, Zenon DEF decode_files, Then, consumed
<1>2. decode_files(e).ok => s.ok /\ x.used + s.used = Len(e)
  BY FailIsNot, Zenon DEF decode_files, Then, consumed
<1>3. /\ x = w /\ w.val \in Nat /\ w.used = WORD_SIZE
      /\ From(e, w.used) = From(d, w.used) \o q /\ From(d, w.used) \in Bytes
  BY <1>1, CountSteady
<1> DEFINE t == Times(w.val, decode_file, From(d, w.used) \o q)
<1>4. s = t
  BY <1>3
<1>5. Steady(r, t, Len(From(d, w.used)))
  BY <1>3, FileListSteady
<1>6. t = r
  BY <1>1, <1>5 DEF Steady
<1> HIDE DEF r, s, t, w, x
<1> QED
  BY <1>1, <1>2, <1>3, <1>4, <1>6, Longer

\* Nor is a list of servers.
LEMMA ServersExact ==
  ASSUME NEW d \in Bytes, NEW q \in Bytes, q # <<>>, decode_servers(d).ok
  PROVE  ~decode_servers(d \o q).ok
<1> DEFINE e == d \o q
           w == decode_uint64(d)
           x == decode_uint64(e)
           r == Times(w.val, decode_node, From(d, w.used))
           s == Times(x.val, decode_node, From(e, x.used))
<1>1. w.ok /\ r.ok /\ w.used + r.used = Len(d)
  BY FailIsNot, Zenon DEF decode_servers, Then, consumed
<1>2. decode_servers(e).ok => s.ok /\ x.used + s.used = Len(e)
  BY FailIsNot, Zenon DEF decode_servers, Then, consumed
<1>3. /\ x = w /\ w.val \in Nat /\ w.used = WORD_SIZE
      /\ From(e, w.used) = From(d, w.used) \o q /\ From(d, w.used) \in Bytes
  BY <1>1, CountSteady
<1> DEFINE t == Times(w.val, decode_node, From(d, w.used) \o q)
<1>4. s = t
  BY <1>3
<1>5. Steady(r, t, Len(From(d, w.used)))
  BY <1>3, NodeListSteady
<1>6. t = r
  BY <1>1, <1>5 DEF Steady
<1> HIDE DEF r, s, t, w, x
<1> QED
  BY <1>1, <1>2, <1>3, <1>4, <1>6, Longer

\* A code and a message, if they are there, are the same with more behind them.
LEMMA RecordSteady ==
  ASSUME NEW d \in Bytes, NEW q \in Bytes
  PROVE  Steady(FailureRecord(d), FailureRecord(d \o q), Len(d))
<1> DEFINE e == d \o q
           a == FailureRecord(d)
           b == FailureRecord(e)
           w == decode_uint64(d)
           x == decode_uint64(e)
           r == decode_text(From(d, w.used), MAX_FAILURE_MESSAGE_SIZE)
           s == decode_text(From(e, x.used), MAX_FAILURE_MESSAGE_SIZE)
<1> SUFFICES ASSUME a.ok PROVE Steady(a, b, Len(d))
  BY FailSteady
<1>1. ~(Len(d) < WORD_SIZE + 1) /\ w.ok /\ r.ok /\ a = Got(Failure(w.val, r.val), w.used + r.used)
  BY FailIsNot, Zenon DEF FailureRecord, Then
<1>2. b = IF Len(e) < WORD_SIZE + 1 THEN Fail
          ELSE IF x.ok THEN IF s.ok THEN Got(Failure(x.val, s.val), x.used + s.used) ELSE Fail
          ELSE Fail
  BY Zenon DEF FailureRecord, Then
<1>3. /\ x = w /\ w.used \in 0..Len(d) /\ w.used \in Nat
      /\ From(e, w.used) = From(d, w.used) \o q /\ From(d, w.used) \in Bytes
      /\ Len(From(d, w.used)) = Len(d) - w.used
  BY <1>1, CountSteady
<1> DEFINE t == decode_text(From(d, w.used) \o q, MAX_FAILURE_MESSAGE_SIZE)
<1>4. s = t
  BY <1>3
<1>5. Steady(r, t, Len(From(d, w.used)))
  BY <1>3, CapsAssumption, TextSteady
<1>6. t = r /\ r.used \in 0..(Len(d) - w.used)
  BY <1>1, <1>3, <1>5 DEF Steady, Uses
<1>7. /\ Len(d) \in Nat /\ Len(q) \in Nat /\ Len(e) = Len(d) + Len(q)
  BY More
<1> HIDE DEF r, s, t, w, x, a, b
<1>8. WORD_SIZE \in Nat
  BY WireSizesAssumption
<1>9. ~(Len(e) < WORD_SIZE + 1) /\ w.used + r.used \in 0..Len(d)
  BY <1>1, <1>3, <1>6, <1>7, <1>8
<1>10. b = Got(Failure(w.val, r.val), w.used + r.used)
  BY <1>1, <1>2, <1>3, <1>4, <1>6, <1>9
<1> QED
  BY <1>1, <1>9, <1>10, GotSteady

\* The types of a row fill a word or more.
LEMMA HeaderWords ==
  ASSUME NEW count \in Nat \ {0}
  PROVE  LET n == (count + 1) \div 2 IN
         n \in Nat /\ n + pad_to_word(n) \in Nat /\ n + pad_to_word(n) >= n
           /\ n + pad_to_word(n) >= WORD_SIZE
<1> DEFINE n == (count + 1) \div 2
           p == pad_to_word(n)
<1>1. n \in Nat /\ n >= 1
  BY Halves
<1> HIDE DEF n
<1>2. /\ p \in 0..(WORD_SIZE - 1) /\ WORD_SIZE \in Nat \ {0}
      /\ \E words \in 0..(n + p) : words * WORD_SIZE = n + p
  BY <1>1, Padding, WireSizesAssumption
<1> HIDE DEF p
<1>3. PICK words \in 0..(n + p) : words * WORD_SIZE = n + p
  BY <1>2
<1>4. words \in Nat /\ words # 0
  BY <1>1, <1>2, <1>3
<1>5. words * WORD_SIZE >= WORD_SIZE
  <2>1. \A x \in Nat \ {0}, y \in Nat : x * y >= y
    <3> SUFFICES ASSUME NEW x \in Nat \ {0}, NEW y \in Nat PROVE x * y >= y
      OBVIOUS
    <3>1. x - 1 \in Nat /\ x * y = (x - 1) * y + y
      OBVIOUS
    <3>2. (x - 1) * y \in Nat
      BY <3>1
    <3> QED
      BY <3>1, <3>2
  <2> QED
    BY <1>2, <1>4, <2>1
<1>6. n + p \in Nat /\ n + p >= n /\ n + p >= WORD_SIZE
  BY <1>1, <1>2, <1>3, <1>5
<1> QED
  BY <1>1, <1>6 DEF n, p

\* The types of a row, if they are there, are the same with more behind them.
LEMMA TypesSteady ==
  ASSUME NEW d \in Bytes, NEW q \in Bytes, NEW count \in Nat \ {0}, decode_row_types(d, count).ok
  PROVE  LET r == decode_row_types(d, count) IN
         /\ decode_row_types(d \o q, count) = r
         /\ r.used \in 0..Len(d) /\ r.used >= WORD_SIZE /\ Len(r.val) = count
         /\ \A k \in 1..count : r.val[k] \in ValueType
<1> DEFINE e == d \o q
           r == decode_row_types(d, count)
           s == decode_row_types(e, count)
           n == (count + 1) \div 2
           size == n + pad_to_word(n)
           T == [i \in 1..count |-> Nibble(d, i)]
           U == [i \in 1..count |-> Nibble(e, i)]
<1>1. n \in Nat /\ size \in Nat /\ size >= n /\ size >= WORD_SIZE
  BY HeaderWords
<1>2. \A i \in 1..count : (i - 1) \div 2 + 1 \in 1..n
  BY Halves
<1>r. r = IF Len(d) < size THEN Fail ELSE IF ~ToSet(T) \subseteq ValueType THEN Fail ELSE Got(T, size)
  BY Zenon DEF decode_row_types
<1>s. s = IF Len(e) < size THEN Fail ELSE IF ~ToSet(U) \subseteq ValueType THEN Fail ELSE Got(U, size)
  BY Zenon DEF decode_row_types
<1>0. r.ok
  OBVIOUS
<1> HIDE DEF r, s, n, size, T, U
<1>3. ~(Len(d) < size) /\ ToSet(T) \subseteq ValueType /\ r = Got(T, size)
  BY <1>0, <1>r, FailIsNot
<1>4. /\ Len(d) \in Nat /\ Len(q) \in Nat /\ Len(e) = Len(d) + Len(q)
      /\ \A i \in 1..Len(d) : e[i] = d[i]
  BY More
<1>5. size \in 0..Len(d) /\ ~(Len(e) < size) /\ 1..n \subseteq 1..Len(d)
  BY <1>1, <1>3, <1>4
<1>6. U = T
  <2>1. ASSUME NEW i \in 1..count PROVE Nibble(e, i) = Nibble(d, i)
    <3>1. e[(i - 1) \div 2 + 1] = d[(i - 1) \div 2 + 1]
      BY <1>2, <1>4, <1>5
    <3> QED
      BY <3>1, Zenon DEF Nibble
  <2> QED
    BY <2>1, Zenon DEF T, U
<1>7. s = r
  BY <1>r, <1>s, <1>3, <1>5, <1>6
<1>8. Len(T) = count /\ \A k \in 1..count : T[k] \in ValueType
  <2>1. Len(T) = count /\ DOMAIN T = 1..count
    BY DEF T
  <2>2. \A k \in 1..count : T[k] \in ToSet(T)
    BY <2>1 DEF ToSet
  <2> QED
    BY <1>3, <2>1, <2>2
<1>9. r.val = T /\ r.used = size
  BY <1>3, GotIs
<1>10. /\ s = r /\ r.used \in 0..Len(d) /\ r.used >= WORD_SIZE /\ Len(r.val) = count
       /\ \A k \in 1..count : r.val[k] \in ValueType
  BY <1>1, <1>5, <1>7, <1>8, <1>9
<1> QED
  BY <1>10, Zenon DEF r, s, e

\* Only the first word tells an end marker.
LEMMA MarkerKept ==
  ASSUME NEW d \in Bytes, NEW q \in Bytes, Len(d) >= WORD_SIZE
  PROVE  MarkerAt(d \o q) = MarkerAt(d)
<1> DEFINE e == d \o q
<1>1. /\ Len(d) \in Nat /\ Len(q) \in Nat /\ Len(e) = Len(d) + Len(q) /\ WORD_SIZE \in Nat
  BY More, WireSizesAssumption
<1>2. SubSeq(e, 0 + 1, 0 + WORD_SIZE) = SubSeq(d, 0 + 1, 0 + WORD_SIZE)
  <2>1. 0 \in Nat /\ 0 + WORD_SIZE <= Len(d)
    BY <1>1
  <2> QED
    BY <1>1, <2>1, PartKept DEF Bytes
<1>3. SubSeq(e, 1, WORD_SIZE) = SubSeq(d, 1, WORD_SIZE)
  BY <1>1, <1>2
<1>4. ~(Len(d) < WORD_SIZE) /\ ~(Len(e) < WORD_SIZE)
  BY <1>1
<1> DEFINE x == SubSeq(d, 1, WORD_SIZE)
           y == SubSeq(e, 1, WORD_SIZE)
<1>5. ROW_DONE_MARKER # ROW_PART_MARKER
  <2>1. 1 \in 1..WORD_SIZE
    BY WireSizesAssumption
  <2>2. ROW_DONE_MARKER[1] = 255 /\ ROW_PART_MARKER[1] = 238
    BY <2>1 DEF ROW_DONE_MARKER, ROW_PART_MARKER, Marker
  <2> QED
    BY <2>2
<1>6. /\ MarkerAt(d) = CASE x = ROW_DONE_MARKER -> "done" [] x = ROW_PART_MARKER -> "part" [] OTHER -> "none"
      /\ MarkerAt(e) = CASE y = ROW_DONE_MARKER -> "done" [] y = ROW_PART_MARKER -> "part" [] OTHER -> "none"
  BY <1>4 DEF MarkerAt
<1>7. y = x
  BY <1>3
<1> HIDE DEF x, y
<1> QED
  BY <1>5, <1>6, <1>7

\* A marker, or none.
LEMMA MarkerNames ==
  ASSUME NEW d
  PROVE  /\ MarkerAt(d) \in {"none", "done", "part"}
         /\ MarkerAt(d) = "done" => SubSeq(d, 1, WORD_SIZE) = ROW_DONE_MARKER /\ ~(Len(d) < WORD_SIZE)
         /\ MarkerAt(d) = "part" => SubSeq(d, 1, WORD_SIZE) = ROW_PART_MARKER /\ ~(Len(d) < WORD_SIZE)
  BY DEF MarkerAt

\* The loop is at a row of d.
Onward(d, s) == s = RowsAt(s.at, s.row_types, s.rows, "none") /\ s.at \in 0..Len(d)

\* It is at the end marker of d.
Ended(d, s) ==
  /\ s = RowsAt(s.at, s.row_types, s.rows, s.ends) /\ s.ends \in {"done", "part"}
  /\ s.at \in 0..Len(d) /\ EndsAt(d, s.at) /\ MarkerAt(From(d, s.at)) = s.ends

\* The parts of a state of the loop.
LEMMA RowsAtIs ==
  ASSUME NEW at, NEW types, NEW rows, NEW ends
  PROVE  LET s == RowsAt(at, types, rows, ends) IN
         s.ok /\ s.at = at /\ s.row_types = types /\ s.rows = rows /\ s.ends = ends
  BY DEF RowsAt

\* A pass that finds a row goes forward and finds the same row with more behind; a pass
\* that finds the end finds none with more behind.
LEMMA PassSteady ==
  ASSUME NEW d \in Bytes, NEW q \in Bytes, NEW count \in Nat, NEW s, Onward(d, s),
         RowPass(d, s, count).ok
  PROVE  \/ /\ Onward(d, RowPass(d, s, count)) /\ RowPass(d, s, count).at > s.at
            /\ RowPass(d \o q, s, count) = RowPass(d, s, count)
         \/ Ended(d, RowPass(d, s, count)) /\ (q # <<>> => ~RowPass(d \o q, s, count).ok)
<1> DEFINE e == d \o q
           a == s.at
           r == RowPass(d, s, count)
           t == RowPass(e, s, count)
           M == MarkerAt(From(d, a))
           L == MarkerAt(From(e, a))
           h == decode_row_types(From(d, a), count)
           k == decode_row_types(From(e, a), count)
           v == decode_row_values(From(d, a + h.used), h.val)
           w == decode_row_values(From(e, a + k.used), k.val)
<1>1. s.ok /\ s.ends = "none" /\ a \in 0..Len(d)
  BY RowsAtIs DEF Onward
<1>2. /\ From(e, a) = From(d, a) \o q /\ From(d, a) \in Bytes
      /\ Len(From(d, a)) = Len(d) - a /\ Len(d) - a \in Nat
  BY <1>1, MoreBehind
<1>3. Len(d) \in Nat /\ WORD_SIZE \in Nat \ {0} /\ a \in Nat
  BY <1>1, More, WireSizesAssumption
<1>r. r = IF M # "none"
          THEN IF EndsAt(d, a) THEN RowsAt(a, s.row_types, s.rows, M) ELSE Fail
          ELSE IF count = 0 \/ a >= Len(d) THEN Fail
          ELSE IF h.ok THEN IF v.ok
               THEN RowsAt(a + h.used + v.used, Append(s.row_types, h.val), Append(s.rows, v.val), "none")
               ELSE Fail ELSE Fail
  BY <1>1, Zenon DEF RowPass, Then
<1>t. t = IF L # "none"
          THEN IF EndsAt(e, a) THEN RowsAt(a, s.row_types, s.rows, L) ELSE Fail
          ELSE IF count = 0 \/ a >= Len(e) THEN Fail
          ELSE IF k.ok THEN IF w.ok
               THEN RowsAt(a + k.used + w.used, Append(s.row_types, k.val), Append(s.rows, w.val), "none")
               ELSE Fail ELSE Fail
  BY <1>1, Zenon DEF RowPass, Then
<1>0. r.ok
  OBVIOUS
<1> HIDE DEF r, t
<1>4. CASE M # "none"
  <2>1. EndsAt(d, a) /\ r = RowsAt(a, s.row_types, s.rows, M)
    <3> HIDE DEF M
    <3> QED
      BY <1>0, <1>4, <1>r, FailIsNot
  <2>2. M \in {"done", "part"}
    BY <1>4, MarkerNames
  <2>3. Ended(d, r)
    <3>1. r.at = a /\ r.row_types = s.row_types /\ r.rows = s.rows /\ r.ends = M
      BY <2>1, RowsAtIs
    <3> QED
      BY <1>1, <2>1, <2>2, <3>1 DEF Ended
  <2>4. ASSUME q # <<>> PROVE ~t.ok
    <3>1. Len(From(d, a)) >= WORD_SIZE
      BY <1>2, <1>3, <2>1 DEF EndsAt
    <3>2. L = M
      BY <1>2, <3>1, MarkerKept
    <3>3. ~EndsAt(e, a)
      BY <1>3, <2>1, <2>4, Longer DEF EndsAt
    <3> HIDE DEF M, L
    <3> QED
      BY <1>4, <1>t, <3>2, <3>3, FailIsNot
  <2> QED
    BY <2>3, <2>4 DEF r, t
<1>5. CASE M = "none"
  <2>1. /\ count # 0 /\ ~(a >= Len(d)) /\ h.ok /\ v.ok
        /\ r = RowsAt(a + h.used + v.used, Append(s.row_types, h.val), Append(s.rows, v.val), "none")
    <3> HIDE DEF M, h, v
    <3> QED
      BY <1>0, <1>5, <1>r, FailIsNot
  <2>2. count \in Nat \ {0}
    BY <2>1
  <2>3. /\ decode_row_types(From(d, a) \o q, count) = h
        /\ h.used \in 0..Len(From(d, a)) /\ h.used >= WORD_SIZE /\ Len(h.val) = count
        /\ \A i \in 1..count : h.val[i] \in ValueType
    BY <1>2, <2>1, <2>2, TypesSteady
  <2>4. k = h
    BY <1>2, <2>3
  <2>5. L = "none"
    <3>1. Len(From(d, a)) >= WORD_SIZE
      BY <1>2, <1>3, <2>3
    <3> QED
      BY <1>2, <1>5, <3>1, MarkerKept
  <2> DEFINE b == a + h.used
             x == decode_row_values(From(d, b) \o q, h.val)
  <2> HIDE DEF h, k
  <2>6. b \in 0..Len(d) /\ h.used \in Nat
    BY <1>2, <1>3, <2>3
  <2>7. From(e, b) = From(d, b) \o q /\ From(d, b) \in Bytes /\ Len(From(d, b)) = Len(d) - b
    <3>1. b \in 0..Len(d)
      BY <2>6
    <3> HIDE DEF b
    <3> QED
      BY <3>1, MoreBehind
  <2>8. Steady(v, x, Len(From(d, b)))
    <3>1. From(d, b) \in Bytes
      BY <2>7
    <3> HIDE DEF b
    <3>2. Steady(decode_row_values(From(d, b), h.val), x, Len(From(d, b)))
      BY <2>2, <2>3, <3>1, ValuesSteady
    <3> QED
      BY <3>2 DEF b
  <2>9. w = x
    BY <2>4, <2>7
  <2>10. x = v /\ v.used \in 0..(Len(d) - b)
    BY <2>1, <2>7, <2>8 DEF Steady, Uses
  <2> DEFINE c == a + h.used + v.used
  <2> HIDE DEF v, w, x
  <2>11. c \in 0..Len(d) /\ c > a
    BY <1>3, <2>3, <2>6, <2>10
  <2>12. Len(e) >= Len(d) /\ Len(e) \in Nat
    BY More
  <2>13. t = r
    <3>1. ~(a >= Len(e))
      BY <1>3, <2>1, <2>12
    <3> HIDE DEF L
    <3> QED
      BY <1>t, <2>1, <2>4, <2>5, <2>9, <2>10, <3>1
  <2>14. Onward(d, r) /\ r.at > s.at
    <3>1. r = RowsAt(c, Append(s.row_types, h.val), Append(s.rows, v.val), "none") /\ c \in 0..Len(d) /\ c > a
      BY <2>1, <2>11
    <3> DEFINE A == Append(s.row_types, h.val)
               B == Append(s.rows, v.val)
    <3> HIDE DEF c, A, B
    <3>2. r = RowsAt(c, A, B, "none")
      BY <3>1 DEF A, B
    <3>3. r.at = c /\ r.row_types = A /\ r.rows = B
      BY <3>2 DEF RowsAt
    <3>4. Onward(d, r)
      BY <3>1, <3>2, <3>3, Zenon DEF Onward
    <3> QED
      BY <3>1, <3>3, <3>4
  <2> QED
    BY <2>13, <2>14 DEF r, t
<1> QED
  BY <1>4, <1>5

\* f[i] is what the loop has after i passes.
PassesTo(f, d, o, count, n) ==
  f[0] = RowsAt(o, <<>>, <<>>, "none") /\ \A i \in 1..n : f[i] = RowPass(d, f[i - 1], count)

\* The loop over any body has its passes.
LEMMA PassesExist ==
  ASSUME NEW d, Len(d) \in Nat, NEW o, NEW count
  PROVE  \E F : InPasses(F, d, o, count) /\ RowsFrom(d, o, count) = F[Len(d)]
<1> DEFINE N == Len(d)
           T == {n \in Nat : \E f : PassesTo(f, d, o, count, n)}
<1>0. N \in Nat
  OBVIOUS
<1>1. 0 \in T
  <2> DEFINE f == [i \in {0} |-> RowsAt(o, <<>>, <<>>, "none")]
  <2>1. f[0] = RowsAt(o, <<>>, <<>>, "none")
    OBVIOUS
  <2> HIDE DEF f
  <2>2. PassesTo(f, d, o, count, 0)
    BY <2>1 DEF PassesTo
  <2> QED
    BY <2>2
<1>2. ASSUME NEW n \in Nat, n \in T PROVE n + 1 \in T
  <2>1. PICK f : PassesTo(f, d, o, count, n)
    BY <1>2
  <2> DEFINE last == RowPass(d, f[n], count)
             g == [i \in 0..(n + 1) |-> IF i = n + 1 THEN last ELSE f[i]]
  <2>2. g[n + 1] = last /\ \A i \in 0..n : g[i] = f[i]
    <3> HIDE DEF last
    <3> QED
      OBVIOUS
  <2> HIDE DEF g
  <2>3. g[0] = RowsAt(o, <<>>, <<>>, "none")
    BY <2>1, <2>2 DEF PassesTo
  <2>4. ASSUME NEW i \in 1..(n + 1) PROVE g[i] = RowPass(d, g[i - 1], count)
    <3>1. CASE i = n + 1
      <4>1. i - 1 = n /\ n \in 0..n
        BY <3>1
      <4>2. g[i - 1] = f[n]
        BY <2>2, <4>1
      <4> QED
        BY <2>2, <3>1, <4>2 DEF last
    <3>2. CASE i \in 1..n
      <4>1. i \in 0..n /\ i - 1 \in 0..n
        BY <3>2
      <4>2. g[i] = f[i] /\ g[i - 1] = f[i - 1]
        BY <2>2, <4>1
      <4>3. f[i] = RowPass(d, f[i - 1], count)
        BY <2>1, <3>2 DEF PassesTo
      <4> QED
        BY <4>2, <4>3
    <3> QED
      BY <3>1, <3>2
  <2>5. PassesTo(g, d, o, count, n + 1)
    BY <2>3, <2>4 DEF PassesTo
  <2> QED
    BY <2>5
<1> HIDE DEF T, N
<1>3. N \in T
  BY <1>0, <1>1, <1>2, SetInduction
<1>4. PICK f : PassesTo(f, d, o, count, N)
  BY <1>3 DEF T
<1> DEFINE F == [n \in 0..N |-> f[n]]
<1>5. F = [n \in 0..N |-> F[n]] /\ \A n \in 0..N : F[n] = f[n]
  OBVIOUS
<1> HIDE DEF F
<1>6. F[0] = RowsAt(o, <<>>, <<>>, "none")
  <2>1. 0 \in 0..N
    BY <1>0
  <2> QED
    BY <1>4, <1>5, <2>1 DEF PassesTo
<1>7. ASSUME NEW n \in 1..N PROVE F[n] = RowPass(d, F[n - 1], count)
  <2>1. n \in 0..N /\ n - 1 \in 0..N
    BY <1>0
  <2>2. f[n] = RowPass(d, f[n - 1], count) /\ F[n] = f[n] /\ F[n - 1] = f[n - 1]
    BY <1>4, <1>5, <2>1 DEF PassesTo
  <2> QED
    BY <2>2
<1>8. InPasses(F, d, o, count)
  BY <1>0, <1>5, <1>6, <1>7 DEF InPasses, N
<1> QED
  BY <1>8, PassesGive

\* A pass behind the end, or behind a failure, changes nothing.
LEMMA PassOver ==
  ASSUME NEW d, NEW s, NEW count, ~s.ok \/ s.ends # "none"
  PROVE  RowPass(d, s, count) = s
  BY Zenon DEF RowPass

\* The loop over the rows of a body ends at its end marker, and with more behind the
\* marker it fails.
LEMMA LoopSteady ==
  ASSUME NEW d \in Bytes, NEW q \in Bytes, NEW count \in Nat, NEW o \in 1..Len(d),
         RowsFrom(d, o, count).ok
  PROVE  /\ Ended(d, RowsFrom(d, o, count))
         /\ q # <<>> => ~RowsFrom(d \o q, o, count).ok
<1> DEFINE e == d \o q
           N == Len(d)
           K == Len(e)
<1>1. N \in Nat /\ K \in Nat /\ K - N \in Nat /\ e \in Bytes
  BY More
<1>2. PICK F : InPasses(F, d, o, count) /\ RowsFrom(d, o, count) = F[N]
  BY <1>1, PassesExist
<1>3. PICK G : InPasses(G, e, o, count) /\ RowsFrom(e, o, count) = G[K]
  BY <1>1, PassesExist
<1>4. F[0] = RowsAt(o, <<>>, <<>>, "none") /\ \A n \in 1..N : F[n] = RowPass(d, F[n - 1], count)
  BY <1>2 DEF InPasses
<1>5. G[0] = RowsAt(o, <<>>, <<>>, "none") /\ \A n \in 1..K : G[n] = RowPass(e, G[n - 1], count)
  BY <1>3 DEF InPasses
<1>6. o \in Nat /\ o >= 1 /\ o \in 0..N
  BY <1>1
<1>7. F[N].ok
  BY <1>2
<1> DEFINE Going(n) == Onward(d, F[n]) /\ F[n].at >= o + n /\ G[n] = F[n]
           Over_(n) == Ended(d, F[n]) /\ (q # <<>> => ~G[n].ok)
           P == {n \in Nat : n <= N => ~F[n].ok \/ Going(n) \/ Over_(n)}
<1> HIDE DEF N, K, e
<1>8. 0 \in P
  <2>1. F[0].at = o /\ F[0].row_types = <<>> /\ F[0].rows = <<>>
    BY <1>4, RowsAtIs
  <2>2. Onward(d, F[0])
    BY <1>4, <1>6, <2>1 DEF Onward, N
  <2>3. Going(0)
    BY <1>4, <1>5, <1>6, <2>1, <2>2
  <2> QED
    BY <2>3
<1>9. ASSUME NEW n \in Nat, n \in P PROVE n + 1 \in P
  <2> SUFFICES ASSUME n + 1 <= N, F[n + 1].ok PROVE Going(n + 1) \/ Over_(n + 1)
    OBVIOUS
  <2>1. n <= N /\ n + 1 \in 1..N /\ n + 1 \in 1..K /\ (n + 1) - 1 = n
    BY <1>1
  <2>2. F[n + 1] = RowPass(d, F[n], count)
    BY <1>4, <2>1
  <2>3. G[n + 1] = RowPass(e, G[n], count)
    BY <1>5, <2>1
  <2>4. F[n].ok
    BY <2>2, PassOver
  <2>5. CASE Going(n)
    <3>1. \/ /\ Onward(d, F[n + 1]) /\ F[n + 1].at > F[n].at
             /\ RowPass(e, F[n], count) = F[n + 1]
          \/ Ended(d, F[n + 1]) /\ (q # <<>> => ~RowPass(e, F[n], count).ok)
      BY <2>2, <2>5, PassSteady DEF e
    <3>2. CASE /\ Onward(d, F[n + 1]) /\ F[n + 1].at > F[n].at
               /\ RowPass(e, F[n], count) = F[n + 1]
      <4>1. F[n + 1].at \in Nat /\ F[n].at \in Nat
        BY <1>1, <2>5, <3>2 DEF Onward, N
      <4>2. F[n + 1].at >= o + (n + 1)
        BY <1>6, <2>5, <3>2, <4>1
      <4> QED
        BY <2>3, <2>5, <3>2, <4>2
    <3>3. CASE Ended(d, F[n + 1]) /\ (q # <<>> => ~RowPass(e, F[n], count).ok)
      BY <2>3, <2>5, <3>3
    <3> QED
      BY <3>1, <3>2, <3>3
  <2>6. CASE Over_(n)
    <3>1. F[n].ends # "none"
      BY <2>6 DEF Ended
    <3>2. F[n + 1] = F[n]
      BY <2>2, <3>1, PassOver
    <3>3. ~G[n].ok => G[n + 1] = G[n]
      BY <2>3, PassOver
    <3> QED
      BY <2>6, <3>2, <3>3
  <2> QED
    BY <1>9, <2>1, <2>4, <2>5, <2>6
<1> HIDE DEF P
<1>10. N \in P
  BY <1>1, <1>8, <1>9, SetInduction
<1>11. Going(N) \/ Over_(N)
  BY <1>1, <1>7, <1>10 DEF P
<1>12. ~Going(N)
  <2> SUFFICES ASSUME Going(N) PROVE FALSE
    OBVIOUS
  <2>1. F[N].at \in 0..N
    BY DEF Onward, N
  <2> QED
    BY <1>1, <1>6, <2>1
<1>13. Ended(d, F[N]) /\ (q # <<>> => ~G[N].ok)
  BY <1>11, <1>12
<1> DEFINE Q == {n \in Nat : N + n <= K => ~G[N + n].ok}
<1>14. ASSUME q # <<>> PROVE ~G[K].ok
  <2>1. 0 \in Q
    BY <1>1, <1>13, <1>14
  <2>2. ASSUME NEW n \in Nat, n \in Q PROVE n + 1 \in Q
    <3> SUFFICES ASSUME N + (n + 1) <= K PROVE ~G[N + (n + 1)].ok
      OBVIOUS
    <3>1. N + n <= K /\ N + (n + 1) \in 1..K /\ (N + (n + 1)) - 1 = N + n
      BY <1>1
    <3>2. G[N + (n + 1)] = RowPass(e, G[N + n], count)
      BY <1>5, <3>1
    <3>3. ~G[N + n].ok
      BY <2>2, <3>1
    <3> QED
      BY <3>2, <3>3, PassOver
  <2> HIDE DEF Q
  <2>3. K - N \in Q
    BY <1>1, <2>1, <2>2, SetInduction
  <2>4. N + (K - N) = K
    BY <1>1
  <2> QED
    BY <1>1, <2>3, <2>4 DEF Q
<1> QED
  BY <1>2, <1>3, <1>13, <1>14 DEF e

\* Where the rows of a body start: behind the count and the column names.
LEMMA RowsStart ==
  ASSUME NEW d \in Bytes, NEW q \in Bytes, decode_rows(d).ok
  PROVE  \E count \in Nat, o \in 1..Len(d) :
           /\ RowsFrom(d, o, count).ok
           /\ decode_rows(d).val.has_more = (RowsFrom(d, o, count).ends = "part")
           /\ decode_rows(d \o q).ok => RowsFrom(d \o q, o, count).ok
<1> DEFINE e == d \o q
           w == decode_uint64(d)
           x == decode_uint64(e)
           r == Times(w.val, column_name, From(d, w.used))
           s == Times(x.val, column_name, From(e, x.used))
           o == w.used + r.used
           body == RowsFrom(d, o, w.val)
<1>1. w.ok /\ r.ok /\ decode_rows(d) = RowsOf(r.val, body, Len(d))
  BY FailIsNot, Zenon DEF decode_rows, Then
<1>2. decode_rows(e).ok =>
        s.ok /\ RowsOf(s.val, RowsFrom(e, x.used + s.used, x.val), Len(e)).ok
  BY FailIsNot, Zenon DEF decode_rows, Then
<1>3. ASSUME NEW names, NEW b, NEW size, RowsOf(names, b, size).ok
      PROVE  b.ok /\ RowsOf(names, b, size).val.has_more = (b.ends = "part")
  BY <1>3 DEF RowsOf, Got, Rows, Fail
<1>4. /\ x = w /\ w.val \in Nat /\ w.used = WORD_SIZE /\ w.used \in 0..Len(d)
      /\ From(e, w.used) = From(d, w.used) \o q /\ From(d, w.used) \in Bytes
      /\ Len(From(d, w.used)) = Len(d) - w.used
  BY <1>1, CountSteady
<1> DEFINE t == Times(w.val, column_name, From(d, w.used) \o q)
<1>5. s = t
  BY <1>4
<1>6. Steady(r, t, Len(From(d, w.used)))
  BY <1>4, NamesSteady
<1>7. t = r /\ r.used \in 0..(Len(d) - w.used)
  BY <1>1, <1>4, <1>6 DEF Steady, Uses
<1>8. body.ok /\ decode_rows(d).val.has_more = (body.ends = "part")
  BY <1>1, <1>3
<1> HIDE DEF r, s, t, w, x
<1>9. o \in 1..Len(d)
  <2>1. Len(d) \in Nat /\ WORD_SIZE \in Nat \ {0}
    BY More, WireSizesAssumption
  <2> QED
    BY <1>4, <1>7, <2>1
<1>10. decode_rows(e).ok => RowsFrom(e, o, w.val).ok
  BY <1>2, <1>3, <1>4, <1>5, <1>7
<1> HIDE DEF o
<1> QED
  BY <1>4, <1>8, <1>9, <1>10

\* No body of rows is another one and more.
LEMMA RowsExact ==
  ASSUME NEW d \in Bytes, NEW q \in Bytes, q # <<>>, decode_rows(d).ok
  PROVE  ~decode_rows(d \o q).ok
  BY RowsStart, LoopSteady

\* A body of rows ends with an end marker, that of the value it decodes to.
LEMMA RowsEnd ==
  ASSUME NEW d \in Bytes, decode_rows(d).ok
  PROVE  /\ WORD_SIZE <= Len(d)
         /\ From(d, Len(d) - WORD_SIZE)
              = IF decode_rows(d).val.has_more THEN ROW_PART_MARKER ELSE ROW_DONE_MARKER
<1>0. <<>> \in Bytes
  BY DEF Bytes
<1>1. PICK count \in Nat, o \in 1..Len(d) :
        /\ RowsFrom(d, o, count).ok
        /\ decode_rows(d).val.has_more = (RowsFrom(d, o, count).ends = "part")
  BY <1>0, RowsStart
<1> DEFINE s == RowsFrom(d, o, count)
           a == s.at
           c == From(d, a)
<1>2. Ended(d, s)
  BY <1>0, <1>1, LoopSteady
<1>3. a \in 0..Len(d) /\ a + WORD_SIZE = Len(d) /\ MarkerAt(c) = s.ends /\ s.ends \in {"done", "part"}
  BY <1>2 DEF Ended, EndsAt
<1>4. Len(d) \in Nat /\ WORD_SIZE \in Nat
  BY <1>0, More, WireSizesAssumption
<1> HIDE DEF s, a
<1>5. a = Len(d) - WORD_SIZE /\ WORD_SIZE <= Len(d)
  BY <1>3, <1>4
<1>6. c \in Bytes /\ Len(c) = WORD_SIZE
  <2>1. c \in Bytes /\ Len(c) = Len(d) - a
    BY <1>0, <1>3, MoreBehind
  <2> QED
    BY <1>3, <1>4, <2>1
<1> HIDE DEF c
<1>7. SubSeq(c, 1, WORD_SIZE) = c
  BY <1>6, SubSeqFull DEF Bytes
<1>8. IF s.ends = "part" THEN c = ROW_PART_MARKER ELSE c = ROW_DONE_MARKER
  BY <1>3, <1>7, MarkerNames
<1>9. From(d, Len(d) - WORD_SIZE) = c
  BY <1>5 DEF c
<1> QED
  BY <1>1, <1>5, <1>8, <1>9 DEF s

\* Classes of which no body is another one and more.
ExactClasses == Classes \ (ParamsRequests \cup {"FailureResponse", "AssignRequest"})

\* No body is taken for a message of these classes if the same body and more is.
LEMMA BodyExact ==
  ASSUME NEW d \in Bytes, NEW q \in Bytes, q # <<>>, NEW class \in ExactClasses, NEW schema,
         decode_body(class, d, schema).ok
  PROVE  ~decode_body(class, d \o q, schema).ok
<1> DEFINE e == d \o q
<1>1. schema \in schemas(class)
  BY FailIsNot DEF decode_body
<1>2. /\ class \in Classes /\ class \notin ParamsRequests
      /\ class # "FailureResponse" /\ class # "AssignRequest"
  BY DEF ExactClasses
<1>3. CASE class = "RowsResponse"
  <2>1. \A z : decode_body(class, z, schema) = decode_rows(z)
    BY <1>1, <1>2, <1>3 DEF decode_body
  <2> QED
    BY <2>1, RowsExact
<1>4. CASE class = "FilesResponse"
  <2>1. \A z : decode_body(class, z, schema) = decode_files(z)
    BY <1>1, <1>2, <1>4 DEF decode_body
  <2> QED
    BY <2>1, FilesExact
<1>5. CASE class = "ServersResponse"
  <2>1. \A z : decode_body(class, z, schema) = decode_servers(z)
    BY <1>1, <1>2, <1>5 DEF decode_body
  <2> QED
    BY <2>1, ServersExact
<1>6. CASE class \notin {"RowsResponse", "FilesResponse", "ServersResponse"}
  <2>1. \A z : decode_body(class, z, schema) = decode_flat(class, z, schema)
    BY <1>1, <1>2, <1>6 DEF decode_body
  <2>2. class \in FlatKinds
    BY <1>2, <1>6, ClassNames DEF FlatKinds, OneKind, WordRequests, NodeAddressRequests, ParamsRequests,
       PreparedRequests, SqlTextRequests
  <2> QED
    BY <1>1, <1>2, <2>1, <2>2, FlatExact
<1> QED
  BY <1>3, <1>4, <1>5, <1>6

\* The same for the end of decode_bytes.
LEMMA DispatchExact ==
  ASSUME NEW d \in Bytes, NEW q \in Bytes, q # <<>>, NEW code, NEW schema, NEW dec,
         msg_class(code, dec.is_request) \in ExactClasses \cup {None},
         Dispatch(code, schema, d, dec).ok
  PROVE  ~Dispatch(code, schema, d \o q, dec).ok
<1> DEFINE c == msg_class(code, dec.is_request)
<1>1. c # None /\ schema_supported(code, schema, dec.is_request)
  BY FailIsNot DEF Dispatch
<1>2. c \in ExactClasses
  BY <1>1
<1> HIDE DEF c
<1>3. CASE reads_legacy(code, dec)
  <2>1. \A z : Dispatch(code, schema, z, dec) = decode_body_legacy(z)
    BY <1>1, <1>3 DEF Dispatch, c
  <2> QED
    BY <2>1, LegacyExact
<1>4. CASE ~reads_legacy(code, dec)
  <2>1. \A z : Dispatch(code, schema, z, dec) = decode_body(c, z, schema)
    BY <1>1, <1>4 DEF Dispatch, c
  <2> QED
    BY <1>2, <2>1, BodyExact
<1> QED
  BY <1>3, <1>4

-----------------------------------------------------------------------------
(* Bodies that are cut short or have grown *)

\* A header in front of a body.
LEMMA Headed ==
  ASSUME NEW words \in Nat, NEW code \in 0..(BYTE - 1), NEW schema \in 0..(BYTE - 1), NEW body \in Bytes
  PROVE  LET d == Header(words, code, schema) \o body IN
         /\ d \in Bytes /\ msg_type(d) = code /\ schema_of(d) = schema /\ body_of(d) = body
<1> DEFINE h == Header(words, code, schema)
           d == h \o body
<1>1. /\ h \in Bytes /\ Len(h) = HEADER_SIZE
      /\ h[UINT32_SIZE + 1] = code /\ h[UINT32_SIZE + 2] = schema
  BY HeaderBytes, HeaderFacts
<1> HIDE DEF h
<1>2. /\ d \in Bytes /\ \A i \in 1..Len(h) : d[i] = h[i]
  BY <1>1, More
<1>3. UINT32_SIZE + 1 \in 1..HEADER_SIZE /\ UINT32_SIZE + 2 \in 1..HEADER_SIZE
  BY WireSizes
<1>4. body_of(d) = body
  <2>1. 0 \in 0..Len(body) /\ h \in Seq(0..(BYTE - 1)) /\ body \in Seq(0..(BYTE - 1))
    BY <1>1, LenProperties DEF Bytes
  <2>2. From(h \o body, Len(h)) = body
    BY <2>1, Behind
  <2> QED
    BY <1>1, <2>2 DEF body_of
<1> QED
  BY <1>1, <1>2, <1>3, <1>4, Zenon DEF msg_type, schema_of, h

\* A sequence is its start and the rest.
LEMMA SplitAt ==
  ASSUME NEW b \in Bytes, NEW k \in Nat, k < Len(b)
  PROVE  /\ SubSeq(b, 1, k) \in Bytes /\ From(b, k) \in Bytes /\ From(b, k) # <<>>
         /\ b = SubSeq(b, 1, k) \o From(b, k)
<1> DEFINE p == SubSeq(b, 1, k)
           q == From(b, k)
           c == p \o q
           S == 0..(BYTE - 1)
<1>0. b \in Seq(S) /\ Len(b) \in Nat
  BY LenProperties DEF Bytes
<1> HIDE DEF S
<1>1. p \in Seq(S) /\ Len(p) = k /\ \A i \in 1..k : p[i] = b[i]
  BY <1>0, StartOf
<1>2. k \in 0..Len(b)
  BY <1>0
<1>3. q \in Seq(S) /\ Len(q) = Len(b) - k /\ \A i \in 1..(Len(b) - k) : q[i] = b[k + i]
  BY <1>0, <1>2, FromFacts
<1> HIDE DEF p, q
<1>4. /\ c \in Seq(S) /\ Len(c) = Len(p) + Len(q)
      /\ \A i \in 1..(Len(p) + Len(q)) : c[i] = IF i <= Len(p) THEN p[i] ELSE q[i - Len(p)]
  BY <1>1, <1>3, ConcatProperties, Zenon
<1> HIDE DEF c
<1>5. Len(c) = Len(b)
  BY <1>0, <1>1, <1>3, <1>4
<1>6. ASSUME NEW i \in 1..Len(b) PROVE b[i] = c[i]
  <2>1. i \in 1..(Len(p) + Len(q))
    BY <1>0, <1>1, <1>3
  <2>2. c[i] = IF i <= k THEN p[i] ELSE q[i - k]
    BY <1>1, <1>4, <2>1
  <2>3. CASE i <= k
    <3>1. i \in 1..k
      BY <2>3
    <3> QED
      BY <1>1, <2>2, <2>3, <3>1
  <2>4. CASE ~(i <= k)
    <3>1. i - k \in 1..(Len(b) - k) /\ k + (i - k) = i
      BY <1>0, <2>4
    <3> QED
      BY <1>3, <2>2, <2>4, <3>1
  <2> QED
    BY <2>3, <2>4
<1>7. b = c
  BY <1>0, <1>4, <1>5, <1>6, SeqEqual
<1>8. q # <<>>
  <2>1. Len(q) # 0
    BY <1>0, <1>3
  <2> QED
    BY <2>1
<1> QED
  BY <1>1, <1>3, <1>7, <1>8 DEF p, q, c, S, Bytes

\* The frame of this message with another body.
Rebodied(m, f, body) ==
  f \in Bytes /\ msg_type(f) = MSG_TYPE(class_of(m)) /\ schema_of(f) = get_schema(m) /\ body_of(f) = body

\* The frame has less of the message's body than was sent.
CutFrame(m, f) ==
  \E p, q \in Bytes : q # <<>> /\ encode_body(m) = p \o q /\ Rebodied(m, f, p)

\* The frame has all of it and more.
GrownFrame(m, f) ==
  \E q \in Bytes : q # <<>> /\ Rebodied(m, f, encode_body(m) \o q)

\* What damage makes of the frame of a message.
LEMMA DamageDone ==
  ASSUME Okay(message), encode_message(message).ok, frame = encode_message(message).val, Damaged
  PROVE  /\ frame' \in Bytes
         /\ damage' = "cut" => CutFrame(message, frame')
         /\ damage' = "grown" => GrownFrame(message, frame')
<1> DEFINE body == encode_body(message)
           code == MSG_TYPE(class_of(message))
           schema == get_schema(message)
           S == 0..(BYTE - 1)
<1>1. Carried(message, Reading(message))
  BY EveryMessage
<1>2. /\ Sized(frame) /\ msg_type(frame) = code /\ schema_of(frame) = schema /\ body_of(frame) = body
      /\ Len(frame) = HEADER_SIZE + Len(body)
  BY <1>1, MessageFramed DEF Okay, FrameSize
<1>3. frame \in Bytes /\ body \in Bytes /\ Len(body) \in Nat /\ Len(body) \div WORD_SIZE \in Nat
  BY <1>1, FrameIsBytes, WordsCounted DEF Carried
<1>4. code \in 0..(BYTE - 1) /\ schema \in 0..(BYTE - 1)
  <2>1. class_of(message) \in Classes /\ schema \in 0..1
    BY <1>1 DEF Carried, schemas
  <2> QED
    BY <2>1, TypeBytes DEF BYTE
<1>5. frame \in Seq(S) /\ Len(frame) \in Nat /\ {0, 1, 7, 10, 65, 255} \subseteq S
  BY <1>3, LenProperties DEF Bytes, BYTE
<1> HIDE DEF body, code, schema, S
<1>6. ASSUME NEW b \in Bytes, frame' = Reframed(b) PROVE Rebodied(message, frame', b)
  <2>1. Len(b) \div WORD_SIZE \in Nat
    <3>1. Len(b) \in Nat /\ WORD_SIZE \in Nat \ {0}
      BY LenProperties, WireSizesAssumption DEF Bytes
    <3> QED
      BY <3>1
  <2>2. frame' = Header(Len(b) \div WORD_SIZE, code, schema) \o b
    BY <1>2, <1>6 DEF Reframed
  <2> DEFINE n == Len(b) \div WORD_SIZE
  <2> HIDE DEF n
  <2>3. frame' = Header(n, code, schema) \o b /\ n \in Nat
    BY <2>1, <2>2 DEF n
  <2> DEFINE f == Header(n, code, schema) \o b
  <2>4. f \in Bytes /\ msg_type(f) = code /\ schema_of(f) = schema /\ body_of(f) = b
    BY <1>4, <2>3, Headed
  <2> HIDE DEF f
  <2>5. frame' = f
    BY <2>3 DEF f
  <2> QED
    BY <2>4, <2>5 DEF Rebodied, code, schema
<1>7. CASE damage' = "torn" /\ \E n \in 0..(Len(frame) - 1) : frame' = SubSeq(frame, 1, n)
  <2>1. PICK n \in 0..(Len(frame) - 1) : frame' = SubSeq(frame, 1, n)
    BY <1>7
  <2>2. n \in Nat /\ n <= Len(frame)
    BY <1>5, <2>1
  <2>3. frame' \in Seq(S)
    BY <1>5, <2>1, <2>2, StartOf
  <2> QED
    BY <1>7, <2>3 DEF Bytes, S
<1>8. CASE damage' = "torn" /\ \E byte \in {0, 1, 255} : frame' = Append(frame, byte)
  <2>1. PICK byte \in {0, 1, 255} : frame' = Append(frame, byte)
    BY <1>8
  <2>2. byte \in S
    BY <1>5, <2>1
  <2>3. frame' \in Seq(S)
    BY <1>5, <2>1, <2>2, AppendProperties
  <2> QED
    BY <1>8, <2>3 DEF Bytes, S
<1>9. CASE /\ damage' = "cut"
           /\ \E words \in 0..(size_words(frame) - 1) :
                frame' = Reframed(SubSeq(body_of(frame), 1, words * WORD_SIZE))
  <2>1. PICK words \in 0..(size_words(frame) - 1) :
          frame' = Reframed(SubSeq(body_of(frame), 1, words * WORD_SIZE))
    BY <1>9
  <2> DEFINE z == size_words(frame)
             k == words * WORD_SIZE
  <2>2. Len(body) = z * WORD_SIZE /\ z \in Nat
    <3>1. z \in Nat
      <4>1. UINT32_SIZE \in Nat /\ UINT32_SIZE <= Len(frame)
        BY <1>2, <1>3, <1>5, WireSizes
      <4>2. SubSeq(frame, 1, UINT32_SIZE) \in Bytes
        BY <1>5, <4>1, StartOf DEF Bytes, S
      <4>3. Number(SubSeq(frame, 1, UINT32_SIZE)) \in 0..(Codes(Len(SubSeq(frame, 1, UINT32_SIZE))) - 1)
        BY <4>2, NumberRange DEF Bytes
      <4> QED
        BY <4>3 DEF size_words
    <3>2. Len(frame) = HEADER_SIZE + z * WORD_SIZE
      BY <1>2 DEF Sized, frame_exactly
    <3> HIDE DEF z
    <3>3. z * WORD_SIZE \in Nat
      BY <3>1, WireSizes
    <3> QED
      BY <1>2, <1>3, <3>1, <3>2, <3>3, WireSizes
  <2>3. k \in Nat /\ k < Len(body)
    <3>1. words \in Nat /\ words + 1 <= z
      BY <2>1, <2>2
    <3>2. \A x, y, w \in Nat : x + 1 <= y => x * w + w <= y * w
      <4> SUFFICES ASSUME NEW x \in Nat, NEW y \in Nat, NEW w \in Nat, x + 1 <= y
                   PROVE  x * w + w <= y * w
        OBVIOUS
      <4>1. y - (x + 1) \in Nat /\ y * w = (x * w + w) + (y - (x + 1)) * w
        OBVIOUS
      <4>2. (y - (x + 1)) * w \in Nat /\ x * w + w \in Nat
        BY <4>1
      <4> QED
        BY <4>1, <4>2
    <3> HIDE DEF z
    <3>3. words * WORD_SIZE + WORD_SIZE <= z * WORD_SIZE /\ words * WORD_SIZE \in Nat
      BY <2>2, <3>1, <3>2, WireSizes
    <3> QED
      BY <1>3, <2>2, <3>3, WireSizes
  <2> HIDE DEF k
  <2>4. /\ SubSeq(body, 1, k) \in Bytes /\ From(body, k) \in Bytes /\ From(body, k) # <<>>
        /\ body = SubSeq(body, 1, k) \o From(body, k)
    BY <1>3, <2>3, SplitAt
  <2>5. Rebodied(message, frame', SubSeq(body, 1, k))
    BY <1>2, <1>6, <2>1, <2>4 DEF k
  <2>6. CutFrame(message, frame')
    BY <2>4, <2>5 DEF CutFrame, body
  <2> QED
    BY <1>9, <2>5, <2>6 DEF Rebodied
<1>10. CASE damage' = "grown" /\ \E byte \in {0, 1, 255} : frame' = Reframed(body_of(frame) \o Marker(byte))
  <2>1. PICK byte \in {0, 1, 255} : frame' = Reframed(body_of(frame) \o Marker(byte))
    BY <1>10
  <2> DEFINE q == Marker(byte)
  <2>2. q \in Bytes /\ Len(q) = WORD_SIZE
    <3>1. byte \in 0..(BYTE - 1)
      BY <2>1 DEF BYTE
    <3> QED
      BY <3>1, WireSizes DEF Marker, Bytes
  <2> HIDE DEF q
  <2>3. q # <<>>
    BY <2>2, WireSizes
  <2>4. body \o q \in Bytes
    BY <1>3, <2>2, More
  <2>5. Rebodied(message, frame', body \o q)
    BY <1>2, <1>6, <2>1, <2>4 DEF q
  <2>6. GrownFrame(message, frame')
    BY <2>2, <2>3, <2>5 DEF GrownFrame, body
  <2> QED
    BY <1>10, <2>5, <2>6 DEF Rebodied
<1>11. CASE /\ damage' = "altered"
            /\ \E i \in DOMAIN frame, byte \in {0, 1, 7, 10, 65, 255} :
                 byte # frame[i] /\ frame' = [frame EXCEPT ![i] = byte]
  <2>1. PICK i \in DOMAIN frame, byte \in {0, 1, 7, 10, 65, 255} :
          byte # frame[i] /\ frame' = [frame EXCEPT ![i] = byte]
    BY <1>11, Zenon
  <2>2. i \in 1..Len(frame) /\ byte \in S
    <3>1. DOMAIN frame = 1..Len(frame)
      BY <1>5, LenProperties
    <3>2. byte \in S
      <4>1. byte \in {0, 1, 7, 10, 65, 255}
        BY <2>1
      <4> QED
        BY <1>5, <4>1
    <3>3. i \in DOMAIN frame
      BY <2>1
    <3>4. i \in 1..Len(frame)
      BY <3>1, <3>3
    <3> QED
      BY <3>2, <3>4
  <2>3. frame' \in Seq(S)
    BY <1>5, <2>1, <2>2, ExceptSeq
  <2> QED
    BY <1>11, <2>3 DEF Bytes, S
<1> QED
  BY <1>7, <1>8, <1>9, <1>10, <1>11 DEF Damaged

\* The frame of a message that encodes; what damage made of it.  A damaged frame goes to
\* the reader the message is meant for.
DamageInv ==
  /\ frame \in Bytes
  /\ stage \in {"built", "sent"} \/ damage # "none" => reader = Addressee(message)
  /\ damage # "none" => encode_message(message).ok
  /\ damage = "cut" => CutFrame(message, frame)
  /\ damage = "grown" => GrownFrame(message, frame)

\* It holds at the start.
LEMMA InitDamage == Init => DamageInv
<1> SUFFICES ASSUME Init PROVE DamageInv
  OBVIOUS
<1>1. frame = <<>> /\ damage = "none" /\ reader = Addressee(message)
  BY DEF Init
<1> QED
  BY <1>1 DEF DamageInv, Bytes

\* Every step keeps it.
LEMMA NextDamage == RelayInv /\ DamageInv /\ [Next]_relay_vars => DamageInv'
<1> SUFFICES ASSUME RelayInv, DamageInv, [Next]_relay_vars PROVE DamageInv'
  OBVIOUS
<1>1. CASE send
  <2> DEFINE r == encode_message(message)
  <2>1. /\ UNCHANGED <<message, reader, damage>> /\ Sent(r) /\ stage = "built" /\ damage = "none"
        /\ \E i \in DOMAIN Messages : message \in Messages[i]
    BY <1>1 DEF send, RelayInv, FrameInv
  <2>2. frame' \in Bytes
    <3>1. CASE r.ok
      <4>1. encodable(message)
        BY <3>1 DEF encode_message, Fail
      <4>2. Okay(message)
        BY <2>1, <4>1, SentFrame
      <4>3. Carried(message, Reading(message))
        BY <4>2, EveryMessage
      <4>4. r.val \in Bytes
        BY <3>1, <4>3, FrameIsBytes
      <4> HIDE DEF r
      <4> QED
        BY <2>1, <3>1, <4>4 DEF Sent
    <3>2. CASE ~r.ok
      <4> HIDE DEF r
      <4> QED
        BY <2>1, <3>2 DEF Sent, DamageInv
    <3> QED
      BY <3>1, <3>2
  <2>3. damage' = "none" /\ reader' = Addressee(message)'
    BY <2>1 DEF DamageInv
  <2> QED
    BY <2>2, <2>3 DEF DamageInv
<1>2. CASE disturb
  <2>1. stage = "sent" /\ damage = "none" /\ Damaged /\ UNCHANGED <<message, stage, reader>>
    BY <1>2 DEF disturb
  <2>2. /\ encode_message(message).ok /\ frame = encode_message(message).val
        /\ \E i \in DOMAIN Messages : message \in Messages[i]
    BY <2>1 DEF RelayInv, FrameInv, CodecInv
  <2>3. encodable(message)
    BY <2>2 DEF encode_message, Fail
  <2>4. Okay(message)
    BY <2>2, <2>3, SentFrame
  <2>5. /\ frame' \in Bytes
        /\ damage' = "cut" => CutFrame(message, frame')
        /\ damage' = "grown" => GrownFrame(message, frame')
    BY <2>1, <2>2, <2>4, DamageDone
  <2>6. /\ reader' = Addressee(message)' /\ encode_message(message)'.ok
        /\ CutFrame(message, frame)' = CutFrame(message, frame')
        /\ GrownFrame(message, frame)' = GrownFrame(message, frame')
    BY <2>1, <2>2 DEF DamageInv
  <2> QED
    BY <2>5, <2>6 DEF DamageInv
<1>3. CASE receive
  <2>1. /\ UNCHANGED <<message, frame, damage>> /\ stage' \in {"received", "refused"}
        /\ damage # "none" => reader' = reader
    BY <1>3 DEF receive
  <2>2. damage' # "none" => reader' = Addressee(message)'
    BY <2>1 DEF DamageInv
  <2>3. /\ encode_message(message)' = encode_message(message)
        /\ CutFrame(message, frame)' = CutFrame(message, frame)
        /\ GrownFrame(message, frame)' = GrownFrame(message, frame)
    BY <2>1
  <2> QED
    BY <2>1, <2>2, <2>3 DEF DamageInv
<1>4. CASE resend
  <2>1. UNCHANGED <<message, frame, damage, reader>> /\ stage' \in {"resent", "kept"}
    BY <1>4 DEF resend, Resent
  <2>2. /\ encode_message(message)' = encode_message(message) /\ Addressee(message)' = Addressee(message)
        /\ CutFrame(message, frame)' = CutFrame(message, frame)
        /\ GrownFrame(message, frame)' = GrownFrame(message, frame)
    BY <2>1
  <2> QED
    BY <2>1, <2>2 DEF DamageInv
<1>5. CASE Done \/ UNCHANGED relay_vars
  <2>1. UNCHANGED <<message, stage, frame, damage, reader>>
    BY <1>5 DEF Done, relay_vars
  <2>2. /\ encode_message(message)' = encode_message(message) /\ Addressee(message)' = Addressee(message)
        /\ CutFrame(message, frame)' = CutFrame(message, frame)
        /\ GrownFrame(message, frame)' = GrownFrame(message, frame)
    BY <2>1
  <2> QED
    BY <2>1, <2>2 DEF DamageInv
<1> QED
  BY <1>1, <1>2, <1>3, <1>4, <1>5 DEF Next

\* What decode_message accepts it dispatches.
LEMMA Accepted ==
  ASSUME NEW d, NEW dec, decode_message(d, dec).ok
  PROVE  /\ decode_message(d, dec) = Dispatch(msg_type(d), schema_of(d), body_of(d), dec)
         /\ ~(Len(d) < HEADER_SIZE)
  BY FailIsNot DEF decode_message

\* The reader a message is meant for suits it.
LEMMA AddresseeSuits ==
  ASSUME NEW m
  PROVE  Suits(Addressee(m), m) /\ Addressee(m).is_request = is_request_class(class_of(m))
  BY CodecAssumption DEF Suits, Addressee, Decoder

\* The addressee accepts the intact body of a message, unless no decoder knows its class.
LEMMA IntactDispatch ==
  ASSUME NEW m, Okay(m), encode_message(m).ok
  PROVE  LET c == class_of(m)
             again == Dispatch(MSG_TYPE(c), get_schema(m), encode_body(m), Addressee(m))
         IN  /\ c \in Classes
             /\ msg_class(MSG_TYPE(c), Addressee(m).is_request) = IF c \in Private THEN None ELSE c
             /\ c \notin Private => again.ok
<1> DEFINE c == class_of(m)
           f == encode_message(m).val
           r == Addressee(m)
<1>1. Carried(m, Reading(m))
  BY EveryMessage
<1>2. c \in Classes
  BY <1>1 DEF Carried
<1>3. r.is_request = is_request_class(c) /\ Suits(r, m)
  BY AddresseeSuits
<1>4. msg_class(MSG_TYPE(c), r.is_request) = IF c \in Private THEN None ELSE c
  BY <1>2, <1>3, KnownClass, PrivateClass
<1>5. msg_type(f) = MSG_TYPE(c) /\ schema_of(f) = get_schema(m) /\ body_of(f) = encode_body(m)
  BY <1>1, MessageFramed DEF Okay
<1>6. ASSUME c \notin Private PROVE Dispatch(MSG_TYPE(c), get_schema(m), encode_body(m), r).ok
  <2>1. decode_message(f, r) = Got(Reading(m), Len(encode_body(m)))
    BY <1>1, <1>3, <1>6, MessageReads
  <2>2. decode_message(f, r).ok
    BY <2>1, GotIs
  <2>3. decode_message(f, r) = Dispatch(msg_type(f), schema_of(f), body_of(f), r)
    BY <2>2, Accepted
  <2> QED
    BY <1>5, <2>2, <2>3
<1> QED
  BY <1>2, <1>4, <1>6, Zenon

\* The body of a failure that is cut short is no failure.
LEMMA FailureCut ==
  ASSUME NEW m, Okay(m), m.kind = "FailureResponse", NEW p \in Bytes, NEW q \in Bytes, q # <<>>,
         encode_body(m) = p \o q
  PROVE  ~decode_failure(p).ok
<1>0. m.kind \notin ParamsRequests
  BY ClassNames
<1>1. failure_encodable(m) /\ failure_typed(m)
  <2>1. encodable(m) <=> failure_encodable(m)
    BY <1>0 DEF encodable
  <2>2. WellFormed(m) <=> failure_typed(m)
    BY <1>0 DEF WellFormed
  <2> QED
    BY <2>1, <2>2 DEF Okay
<1>2. p \o q = FailureBytes(m.code, m.message)
  BY <1>0 DEF encode_body, encode_failure, FailureBytes
<1>3. FailureFits(m.code, m.message)
  BY <1>1 DEF failure_encodable, failure_typed, FailureFits, is_uint64
<1> DEFINE e == p \o q
<1>4. /\ Len(p) \in Nat /\ Len(q) \in Nat \ {0} /\ e \in Bytes /\ Len(e) = Len(p) + Len(q)
  BY Longer
<1>5. FailureRecord(e) = Got(Failure(m.code, m.message), Len(e))
  <2>1. <<>> \in Bytes /\ e \o <<>> = e
    BY <1>4, ConcatEmptySeq DEF Bytes
  <2>2. FailureRecord(e \o <<>>) = Got(Failure(m.code, m.message), Len(e))
    BY <1>2, <1>3, <2>1, FailureRecordReads
  <2> QED
    BY <2>1, <2>2
<1>6. Steady(FailureRecord(p), FailureRecord(e), Len(p))
  BY RecordSteady
<1>7. decode_failure(p).ok => FailureRecord(p).ok
  BY FailIsNot, Zenon DEF decode_failure, Then
<1> SUFFICES ASSUME FailureRecord(p).ok PROVE FALSE
  BY <1>7
<1>8. FailureRecord(e).used \in 0..Len(p)
  BY <1>6 DEF Steady, Uses
<1>9. FailureRecord(e).used = Len(e)
  BY <1>5, GotIs
<1> HIDE DEF e
<1> QED
  BY <1>4, <1>8, <1>9

\* A body that is cut short or has grown is refused, where the protocol has no exception.
LEMMA CutRefused ==
  ASSUME RelayInv, DamageInv, accepted, damage \in {"cut", "grown"}
  PROVE  /\ class_of(message) \in ParamsRequests \cup {"FailureResponse", "AssignRequest"}
         /\ ~(message.kind = "FailureResponse" /\ damage = "cut")
<1> DEFINE c == class_of(message)
           code == MSG_TYPE(c)
           schema == get_schema(message)
           body == encode_body(message)
           r == Addressee(message)
           R(b) == Dispatch(code, schema, b, r)
<1>1. reader = r /\ encode_message(message).ok /\ \E i \in DOMAIN Messages : message \in Messages[i]
  BY DEF DamageInv, RelayInv, FrameInv
<1>2. encodable(message)
  BY <1>1, FailIsNot DEF encode_message
<1>3. Okay(message)
  BY <1>1, <1>2, SentFrame
<1>4. /\ c \in Classes /\ msg_class(code, r.is_request) = IF c \in Private THEN None ELSE c
      /\ c \notin Private => R(body).ok
  BY <1>1, <1>3, IntactDispatch
<1>5. decode_message(frame, r).ok
  BY <1>1 DEF RelayInv, FrameInv
<1>6. Dispatch(msg_type(frame), schema_of(frame), body_of(frame), r).ok
  BY <1>5, Accepted
<1>7. ASSUME NEW b, Rebodied(message, frame, b) PROVE R(b).ok
  BY <1>6, <1>7 DEF Rebodied
<1>8. body \in Bytes
  <2>1. Carried(message, Reading(message))
    BY <1>3, EveryMessage
  <2> QED
    BY <2>1, WordsCounted DEF Carried
<1>9. \A b : R(b).ok => msg_class(code, r.is_request) # None
  BY FailIsNot DEF Dispatch
<1>10. \E p, q \in Bytes : q # <<>> /\ R(p).ok /\ R(p \o q).ok
  <2>1. CASE damage = "cut"
    <3>1. PICK p \in Bytes, q \in Bytes : q # <<>> /\ body = p \o q /\ Rebodied(message, frame, p)
      BY <2>1 DEF DamageInv, CutFrame
    <3>2. R(p).ok
      BY <1>7, <3>1
    <3>3. c \notin Private
      BY <1>4, <1>9, <3>2
    <3> HIDE DEF R, body
    <3> QED
      BY <1>4, <3>1, <3>2, <3>3
  <2>2. CASE damage = "grown"
    <3>1. PICK q \in Bytes : q # <<>> /\ Rebodied(message, frame, body \o q)
      BY <2>2 DEF DamageInv, GrownFrame
    <3>2. R(body \o q).ok
      BY <1>7, <3>1
    <3>3. c \notin Private
      BY <1>4, <1>9, <3>2
    <3> HIDE DEF R, body
    <3> QED
      BY <1>4, <1>8, <3>1, <3>2, <3>3
  <2> QED
    BY <2>1, <2>2
<1>11. c \in ParamsRequests \cup {"FailureResponse", "AssignRequest"}
  <2> SUFFICES ASSUME c \notin ParamsRequests \cup {"FailureResponse", "AssignRequest"} PROVE FALSE
    OBVIOUS
  <2>1. msg_class(code, r.is_request) \in ExactClasses \cup {None}
    BY <1>4 DEF ExactClasses
  <2> HIDE DEF c, code, schema, r
  <2> QED
    BY <1>10, <2>1, DispatchExact
<1>12. ~(message.kind = "FailureResponse" /\ damage = "cut")
  <2> SUFFICES ASSUME message.kind = "FailureResponse", damage = "cut" PROVE FALSE
    OBVIOUS
  <2>1. PICK p \in Bytes, q \in Bytes : q # <<>> /\ body = p \o q /\ Rebodied(message, frame, p)
    BY DEF DamageInv, CutFrame
  <2>2. R(p).ok
    BY <1>7, <2>1
  <2>3. c = "FailureResponse"
    BY DEF class_of
  <2>4. c \notin Private /\ code # ResponseType.LeaderResponse
    BY <2>3 DEF Private, MSG_TYPE, is_request_class, RequestType, ResponseType
  <2>5. ~reads_legacy(code, r) /\ msg_class(code, r.is_request) = "FailureResponse"
    BY <1>4, <2>3, <2>4 DEF reads_legacy
  <2>6. decode_body("FailureResponse", p, schema).ok
    <3> HIDE DEF code, schema, r, c
    <3> QED
      BY <2>2, <2>5, FailIsNot DEF Dispatch
  <2>7. decode_failure(p).ok
    <3> HIDE DEF code, schema, r, c
    <3>1. schema \in schemas("FailureResponse")
      BY <2>6, FailIsNot DEF decode_body
    <3>2. "FailureResponse" \notin ParamsRequests
      BY DEF ParamsRequests, PreparedRequests, SqlTextRequests
    <3>3. decode_body("FailureResponse", p, schema) = decode_failure(p)
      BY <3>1, <3>2 DEF decode_body
    <3> QED
      BY <2>6, <3>3
  <2> QED
    BY <1>3, <2>1, <2>7, FailureCut
<1> QED
  BY <1>11, <1>12

\* What is taken for rows ends with the marker it was read with.
LEMMA RowsMarked ==
  ASSUME RelayInv, DamageInv, accepted, decoded.val.kind = "RowsResponse"
  PROVE  SubSeq(frame, Len(frame) - WORD_SIZE + 1, Len(frame))
           = IF decoded.val.has_more THEN ROW_PART_MARKER ELSE ROW_DONE_MARKER
<1> DEFINE r == decode_message(frame, reader)
           b == body_of(frame)
<1>1. /\ IsFrame(frame) /\ decoded = r /\ r.ok /\ reader.is_request \in BOOLEAN /\ frame \in Bytes
  BY DEF RelayInv, FrameInv, DamageInv
<1>2. /\ is_request_class("RowsResponse") = reader.is_request
      /\ MSG_TYPE("RowsResponse") = msg_type(frame)
  BY <1>1, MessageObeys
<1>3. msg_class(msg_type(frame), reader.is_request) = "RowsResponse"
  <2>1. "RowsResponse" \in Classes \ Private
    BY ClassNames DEF Private
  <2> QED
    BY <1>2, <2>1, KnownClass
<1>4. ~reads_legacy(msg_type(frame), reader)
  BY <1>2 DEF reads_legacy, MSG_TYPE, is_request_class, RequestType, ResponseType
<1>5. r = Dispatch(msg_type(frame), schema_of(frame), b, reader) /\ ~(Len(frame) < HEADER_SIZE)
  BY <1>1, Accepted
<1>6. r = decode_body("RowsResponse", b, schema_of(frame))
  <2> HIDE DEF r, b
  <2> QED
    BY <1>1, <1>3, <1>4, <1>5, FailIsNot DEF Dispatch
<1>7. r = decode_rows(b)
  <2>1. "RowsResponse" \notin ParamsRequests
    BY ClassNames
  <2> HIDE DEF r, b
  <2> QED
    BY <1>1, <1>6, <2>1, FailIsNot DEF decode_body
<1>8. Len(frame) \in Nat /\ HEADER_SIZE \in 0..Len(frame) /\ WORD_SIZE \in Nat
  <2>1. Len(frame) \in Nat
    BY <1>1, LenProperties DEF Bytes
  <2> QED
    BY <1>5, <2>1, WireSizes
<1>9. b \in Bytes /\ Len(b) = Len(frame) - HEADER_SIZE
  BY <1>1, <1>8, FromFacts DEF body_of, Bytes
<1> HIDE DEF r, b
<1>10. /\ WORD_SIZE <= Len(b)
       /\ From(b, Len(b) - WORD_SIZE) = IF r.val.has_more THEN ROW_PART_MARKER ELSE ROW_DONE_MARKER
  BY <1>1, <1>7, <1>9, RowsEnd
<1>11. From(b, Len(b) - WORD_SIZE) = From(frame, Len(frame) - WORD_SIZE)
  <2> DEFINE k == Len(b) - WORD_SIZE
  <2>1. /\ k \in 0..(Len(frame) - HEADER_SIZE) /\ HEADER_SIZE + k = Len(frame) - WORD_SIZE
        /\ HEADER_SIZE \in Nat
    BY <1>8, <1>9, <1>10
  <2> HIDE DEF k
  <2>2. From(From(frame, HEADER_SIZE), k) = From(frame, HEADER_SIZE + k)
    BY <1>1, <1>8, <2>1, FromFrom DEF Bytes
  <2> QED
    BY <2>1, <2>2 DEF b, body_of, k
<1>12. From(frame, Len(frame) - WORD_SIZE) = SubSeq(frame, Len(frame) - WORD_SIZE + 1, Len(frame))
  BY DEF From
<1> QED
  BY <1>1, <1>10, <1>11, <1>12

\* Whatever the messages and the limits: no body that was cut short or has grown is taken
\* for a complete one, but where the protocol itself cannot tell, and rows are taken for
\* complete at an end marker only.
THEOREM CutsDetectedAlways == Spec => []CutsDetected
<1>1. RelayInv /\ DamageInv => CutsDetected
  <2> SUFFICES ASSUME RelayInv, DamageInv, accepted
               PROVE  /\ damage \in {"cut", "grown"} =>
                           class_of(message) \in ParamsRequests \cup {"FailureResponse", "AssignRequest"}
                      /\ message.kind = "FailureResponse" => damage # "cut"
                      /\ decoded.val.kind = "RowsResponse" =>
                           SubSeq(frame, Len(frame) - WORD_SIZE + 1, Len(frame))
                             = IF decoded.val.has_more THEN ROW_PART_MARKER ELSE ROW_DONE_MARKER
    BY DEF CutsDetected
  <2> QED
    BY CutRefused, RowsMarked
<1> QED
  BY <1>1, InitRelay, NextRelay, InitDamage, NextDamage, PTL DEF Spec

-----------------------------------------------------------------------------
(* What a decoder returns: a value of its type that takes the bytes it was read from *)

\* What a text measures.
LEMMA TextLength ==
  ASSUME NEW s \in Bytes
  PROVE  encode_text(s) \in Bytes /\ Len(encode_text(s)) = Len(s) + 1 + pad_to_word(Len(s) + 1)
<1> DEFINE n == Len(s)
           z == 1 + pad_to_word(n + 1)
<1>1. n \in Nat /\ n + 1 \in Nat
  BY LenProperties DEF Bytes
<1>2. pad_to_word(n + 1) \in Nat
  BY <1>1, PadNat
<1>3. z \in Nat
  BY <1>2
<1>4. Zeros(z) \in Bytes /\ Len(Zeros(z)) = z
  BY <1>3, ZerosFacts
<1>5. s \o Zeros(z) \in Bytes /\ Len(s \o Zeros(z)) = Len(s) + z
  BY <1>4, More
<1> QED
  BY <1>1, <1>2, <1>5 DEF encode_text

\* What a blob measures.
LEMMA BlobLength ==
  ASSUME NEW s \in Bytes
  PROVE  encode_blob(s) \in Bytes /\ Len(encode_blob(s)) = WORD_SIZE + Len(s) + pad_to_word(Len(s))
<1> DEFINE n == Len(s)
           w == encode_uint64(n)
           z == Zeros(pad_to_word(n))
<1>1. n \in Nat /\ WORD_SIZE \in Nat
  BY LenProperties, WireSizesAssumption DEF Bytes
<1>2. pad_to_word(n) \in Nat
  BY <1>1, PadNat
<1>3. z \in Bytes /\ Len(z) = pad_to_word(n)
  BY <1>2, ZerosFacts
<1>4. w \in Bytes /\ Len(w) = WORD_SIZE
  BY <1>1, LittleEndianBytes DEF encode_uint64, Bytes
<1>5. encode_blob(s) = (w \o s) \o z
  BY DEF encode_blob
<1> HIDE DEF w, z, n
<1>6. w \o s \in Bytes /\ Len(w \o s) = WORD_SIZE + Len(s)
  BY <1>4, More
<1>7. (w \o s) \o z \in Bytes /\ Len((w \o s) \o z) = Len(w \o s) + Len(z)
  BY <1>3, <1>6, More
<1> QED
  BY <1>3, <1>5, <1>6, <1>7 DEF n

\* decode_text returns a text that can be written, and takes what writing it takes.
LEMMA TextMade ==
  ASSUME NEW d \in Bytes, NEW cap \in Nat, decode_text(d, cap).ok
  PROVE  LET r == decode_text(d, cap) IN
         /\ r.val \in AllTexts /\ text_encodable(r.val, cap)
         /\ r.used = Len(encode_text(r.val)) /\ decode_text_view(d, cap) = r
<1> DEFINE r == decode_text(d, cap)
<1>1. PICK nul : TextIn(d, cap, nul) /\ r = TextRead(d, nul)
  BY TextIs
<1> DEFINE t == SubSeq(d, 1, nul)
<1>a. nul \in 0..cap /\ nul < Len(d) /\ \A i \in 1..nul : d[i] # 0 /\ d[i] < 128
  BY <1>1 DEF TextIn
<1>b. Len(d) \in Nat
  BY LenProperties DEF Bytes
<1>2. Len(d) \in Nat /\ nul \in 0..cap /\ nul \in Nat /\ nul <= Len(d)
  <2> HIDE DEF r, t
  <2>1. nul \in Nat /\ nul \in 0..cap
    BY <1>a
  <2> QED
    BY <1>a, <1>b, <2>1
<1>3. t \in Seq(0..(BYTE - 1)) /\ Len(t) = nul /\ \A i \in 1..nul : t[i] = d[i]
  BY <1>2, StartOf DEF Bytes
<1> HIDE DEF t, r
<1>4. r.val = t /\ r.used = nul + 1 + pad_to_word(nul + 1)
  <2>1. r = Got(t, nul + 1 + pad_to_word(nul + 1))
    BY <1>1 DEF TextRead, t
  <2> QED
    BY <2>1 DEF Got
<1>5. DOMAIN t = 1..nul
  BY <1>3
<1>6. ASSUME NEW i \in 1..nul PROVE t[i] \in 0..127 /\ t[i] # 0
  <2>1. t[i] \in 0..(BYTE - 1)
    BY <1>3, ElementOfSeq
  <2>2. t[i] # 0 /\ t[i] < 128
    BY <1>a, <1>3
  <2> QED
    BY <2>1, <2>2 DEF BYTE
<1>7. t \in AllTexts
  BY <1>2, <1>3, <1>5, <1>6 DEF AllTexts
<1>8. text_encodable(t, cap)
  BY <1>2, <1>3, <1>5, <1>6 DEF text_encodable, Contains
<1>9. r.used = Len(encode_text(t))
  BY <1>3, <1>4, TextLength DEF Bytes
<1>10. decode_text_view(d, cap) = decode_text(d, cap)
  BY ViewIsBytes DEF Bytes
<1> QED
  BY <1>4, <1>7, <1>8, <1>9, <1>10 DEF r

\* The same for texts in views of bytes.
LEMMA ViewMade ==
  ASSUME NEW d \in Bytes, NEW cap \in Nat, decode_text_view(d, cap).ok
  PROVE  LET r == decode_text_view(d, cap) IN
         /\ r.val \in AllTexts /\ text_encodable(r.val, cap)
         /\ r.used = Len(encode_text(r.val))
<1>1. decode_text_view(d, cap) = decode_text(d, cap)
  BY ViewIsBytes DEF Bytes
<1> QED
  BY <1>1, TextMade

\* A word.
LEMMA WordMade ==
  ASSUME NEW d \in Bytes, decode_uint64(d).ok
  PROVE  /\ decode_uint64(d).val \in 0..(WordRange - 1) /\ decode_uint64(d).val \in Nat
         /\ decode_uint64(d).used = WORD_SIZE /\ WORD_SIZE <= Len(d)
<1>1. <<>> \in Bytes
  BY DEF Bytes
<1>2. decode_uint64(d).val \in 0..(WordRange - 1) /\ decode_uint64(d).used = WORD_SIZE
      /\ WORD_SIZE <= Len(d)
  BY <1>1, WordSteady
<1> QED
  BY <1>2, WordFacts

\* What a word measures, whatever the number.
LEMMA WordLength ==
  ASSUME NEW n
  PROVE  Len(encode_uint64(n)) = WORD_SIZE
<1>1. WORD_SIZE \in Nat
  BY WireSizesAssumption
<1> DEFINE f == CHOOSE g : IsRest(g, n, WORD_SIZE)
<1>2. encode_uint64(n) = [i \in 1..WORD_SIZE |-> f[i - 1] % BYTE]
  BY Zenon DEF encode_uint64, LittleEndian, IsRest
<1> HIDE DEF f
<1> QED
  BY <1>1, <1>2

\* A blob.
LEMMA BlobMade ==
  ASSUME NEW d \in Bytes, decode_blob(d).ok
  PROVE  decode_blob(d).val \in AllBytes /\ decode_blob(d).used = Len(encode_blob(decode_blob(d).val))
<1> DEFINE r == decode_blob(d)
           w == decode_uint64(d)
           n == w.val
           size == WORD_SIZE + n + pad_to_word(n)
<1>1. w.ok
  BY FailIsNot DEF decode_blob, Then
<1>2. n \in Nat /\ w.used = WORD_SIZE /\ WORD_SIZE \in Nat /\ Len(d) \in Nat
  BY <1>1, WordMade, LenProperties, WireSizesAssumption DEF Bytes
<1>3. r = IF n > MAX_BLOB_SIZE \/ Len(d) < size THEN Fail
          ELSE Got(SubSeq(d, WORD_SIZE + 1, WORD_SIZE + n), size)
  BY <1>1, <1>2 DEF decode_blob, Then
<1>4. pad_to_word(n) \in Nat
  BY <1>2, PadNat
<1> HIDE DEF r, w, n, size
<1>5. ~(Len(d) < size) /\ r = Got(SubSeq(d, WORD_SIZE + 1, WORD_SIZE + n), size)
  BY <1>3, FailIsNot DEF r
<1>6. WORD_SIZE + n <= Len(d)
  BY <1>2, <1>4, <1>5 DEF size
<1> DEFINE p == SubSeq(d, WORD_SIZE + 1, WORD_SIZE + n)
<1>7. p \in Seq(0..(BYTE - 1)) /\ Len(p) = n
  <2>1. d \in Seq(0..(BYTE - 1))
    BY DEF Bytes
  <2> DEFINE B == 0..(BYTE - 1)
  <2>2. d \in Seq(B) /\ n \in Nat /\ WORD_SIZE \in Nat
    BY <1>2, <2>1
  <2> HIDE DEF B
  <2>3. p \in Seq(B) /\ Len(p) = n
    BY <1>6, <2>2, PartOf
  <2> QED
    BY <2>3 DEF B
<1>a. r = Got(p, size)
  BY <1>5
<1> HIDE DEF p
<1>8. r.val = p /\ r.used = size
  BY <1>a DEF Got
<1>9. r.val \in Bytes /\ Len(r.val) = n
  BY <1>7, <1>8 DEF Bytes
<1>10. r.used = Len(encode_blob(r.val))
  BY <1>8, <1>9, BlobLength DEF size
<1> QED
  BY <1>9, <1>10 DEF r, Bytes, AllBytes

\* What a number measures as a value.
LEMMA NumberBytes ==
  ASSUME NEW x, NEW t \in {INTEGER, UNIXTIME, FLOAT, BOOLEAN_},
         x.v \in Int, t \in {FLOAT, BOOLEAN_} => x.v \in Nat
  PROVE  encode_value(x, t) \in Bytes /\ Len(encode_value(x, t)) = WORD_SIZE
<1>1. WORD_SIZE \in Nat /\ WordRange \in Nat \ {0}
  BY WireSizesAssumption, WordFacts
<1>2. \A n \in Nat : encode_uint64(n) \in Bytes /\ Len(encode_uint64(n)) = WORD_SIZE
  BY <1>1, LittleEndianBytes DEF encode_uint64, Bytes
<1>3. t # NULL /\ t \notin {TEXT, ISO8601, BLOB}
  BY Tags
<1>4. CASE t \in {INTEGER, UNIXTIME}
  <2>1. t \notin {FLOAT, BOOLEAN_}
    BY <1>4, Tags
  <2>2. encode_value(x, t) = encode_uint64(x.v % WordRange)
    BY <1>3, <1>4, <2>1 DEF encode_value, encode_int64
  <2>3. x.v % WordRange \in Nat
    BY <1>1
  <2> QED
    BY <1>2, <2>2, <2>3
<1>5. CASE t \in {FLOAT, BOOLEAN_}
  <2>0. t \notin {INTEGER, UNIXTIME}
    BY <1>5, Tags
  <2>1. encode_value(x, t) = encode_uint64(x.v)
    BY <1>3, <1>5, <2>0 DEF encode_value
  <2>2. x.v \in Nat
    BY <1>5
  <2> QED
    BY <1>2, <2>1, <2>2
<1> QED
  BY <1>4, <1>5

\* x is a value of type t that takes n bytes, and as many under the type that is
\* inferred from it.
ValueOfSize(x, t, n) ==
  /\ is_value(x) /\ (x.py = "None" <=> t = NULL)
  /\ encode_value(x, t) \in Bytes /\ Len(encode_value(x, t)) = n
  /\ infer_value_type(x) \in ValueType
  /\ encode_value(x, infer_value_type(x)) \in Bytes /\ Len(encode_value(x, infer_value_type(x))) = n

\* What decode_int64 returns.
LEMMA Int64Made ==
  ASSUME NEW d \in Bytes, decode_int64(d).ok
  PROVE  decode_int64(d).val \in Int /\ decode_int64(d).used = WORD_SIZE
<1> DEFINE r == decode_uint64(d)
           v == IF r.val >= WordRange \div 2 THEN r.val - WordRange ELSE r.val
           a == decode_int64(d)
<1>1. a = IF r.ok THEN Got(v, r.used) ELSE Fail
  BY DEF decode_int64, Then
<1>2. r.ok
  BY <1>1, FailIsNot
<1>3. r.val \in Nat /\ r.used = WORD_SIZE
  BY <1>2, WordMade
<1> HIDE DEF r, a
<1>4. v \in Int
  BY <1>3, WordFacts
<1> HIDE DEF v
<1>5. a = Got(v, WORD_SIZE)
  BY <1>1, <1>2, <1>3
<1>6. a.val = v /\ a.used = WORD_SIZE
  BY <1>5 DEF Got
<1> QED
  BY <1>4, <1>6 DEF a

\* What a decoder makes of the result of another.
LEMMA MadeOf ==
  ASSUME NEW r, NEW a, NEW v, a.ok, a = IF r.ok THEN Got(v, r.used) ELSE Fail
  PROVE  r.ok /\ a.val = v /\ a.used = r.used
<1>1. r.ok
  BY FailIsNot
<1>2. a = Got(v, r.used)
  BY <1>1
<1> QED
  BY <1>1, <1>2 DEF Got

\* decode_value returns a value of the type it is told, that takes what it took.
LEMMA ValueMade ==
  ASSUME NEW d \in Bytes, NEW t \in ValueType, decode_value(d, t).ok
  PROVE  ValueOfSize(decode_value(d, t).val, t, decode_value(d, t).used)
<1> DEFINE a == decode_value(d, t)
           x == a.val
<1>0. t \in {1, 2, 3, 4, 5, 9, 10, 11} /\ a.ok
  BY Tags
<1>1. CASE t \in {INTEGER, UNIXTIME}
  <2> DEFINE r == decode_int64(d)
             v == Py("int", r.val)
  <2>1. t \notin {FLOAT, TEXT, ISO8601, BLOB, NULL, BOOLEAN_}
    BY <1>1, Tags
  <2>2. a = IF r.ok THEN Got(v, r.used) ELSE Fail
    BY <1>1, <2>1 DEF decode_value, Then
  <2> HIDE DEF a, r, v
  <2>3. r.ok /\ x = v /\ a.used = r.used
    BY <1>0, <2>2, MadeOf
  <2>4. r.val \in Int /\ r.used = WORD_SIZE
    BY <2>3, Int64Made DEF r
  <2>5. x.py = "int" /\ x.v = r.val /\ x = Py(x.py, x.v)
    BY <2>3 DEF v, Py
  <2> HIDE DEF x
  <2>6. is_value(x) /\ infer_value_type(x) = INTEGER
    BY <2>4, <2>5 DEF is_value, infer_value_type
  <2>7. \A y \in {INTEGER, UNIXTIME} : encode_value(x, y) \in Bytes /\ Len(encode_value(x, y)) = WORD_SIZE
    <3> SUFFICES ASSUME NEW y \in {INTEGER, UNIXTIME}
                 PROVE encode_value(x, y) \in Bytes /\ Len(encode_value(x, y)) = WORD_SIZE
      OBVIOUS
    <3>1. y \notin {FLOAT, BOOLEAN_}
      BY Tags
    <3> QED
      BY <2>4, <2>5, <3>1, NumberBytes
  <2>8. INTEGER \in ValueType
    BY Tags
  <2> QED
    BY <1>1, <2>1, <2>3, <2>4, <2>5, <2>6, <2>7, <2>8 DEF ValueOfSize, a, x
<1>2. CASE t = FLOAT
  <2> DEFINE r == decode_uint64(d)
             v == Py("float", r.val)
  <2>1. t \notin {INTEGER, UNIXTIME, TEXT, ISO8601, BLOB, NULL, BOOLEAN_}
    BY <1>2, Tags
  <2>2. a = IF r.ok THEN Got(v, r.used) ELSE Fail
    BY <1>2, <2>1 DEF decode_value, Then
  <2> HIDE DEF a, r, v
  <2>3. r.ok /\ x = v /\ a.used = r.used
    BY <1>0, <2>2, MadeOf
  <2>4. r.val \in Nat /\ r.val \in Int /\ r.val \in 0..(WordRange - 1) /\ r.used = WORD_SIZE
    BY <2>3, WordMade DEF r
  <2>5. x.py = "float" /\ x.v = r.val /\ x = Py(x.py, x.v)
    BY <2>3 DEF v, Py
  <2> HIDE DEF x
  <2>6. is_value(x) /\ infer_value_type(x) = FLOAT
    BY <2>4, <2>5 DEF is_value, infer_value_type, is_uint64
  <2>7. encode_value(x, t) \in Bytes /\ Len(encode_value(x, t)) = WORD_SIZE
    BY <1>2, <2>4, <2>5, NumberBytes
  <2> QED
    BY <1>2, <2>1, <2>3, <2>4, <2>5, <2>6, <2>7 DEF ValueOfSize, a, x
<1>3. CASE t \in {TEXT, ISO8601}
  <2> DEFINE r == decode_text_view(d, MAX_TEXT_VALUE_SIZE)
             v == Py("str", r.val)
  <2>1. t \notin {INTEGER, UNIXTIME, FLOAT, BLOB, NULL, BOOLEAN_}
    BY <1>3, Tags
  <2>2. a = IF r.ok THEN Got(v, r.used) ELSE Fail
    BY <1>3, <2>1 DEF decode_value, Then
  <2> HIDE DEF a, r, v
  <2>3. r.ok /\ x = v /\ a.used = r.used
    BY <1>0, <2>2, MadeOf
  <2>4. r.val \in AllTexts /\ r.used = Len(encode_text(r.val))
    BY <2>3, ViewMade, WireSizesAssumption DEF r
  <2>5. encode_text(r.val) \in Bytes
    BY <2>4, TextFacts, TextLength
  <2>6. x.py = "str" /\ x.v = r.val /\ x = Py(x.py, x.v)
    BY <2>3 DEF v, Py
  <2> HIDE DEF x
  <2>7. is_value(x) /\ infer_value_type(x) = TEXT
    BY <2>4, <2>6 DEF is_value, infer_value_type
  <2>8. \A y \in {TEXT, ISO8601} : encode_value(x, y) = encode_text(r.val)
    <3> SUFFICES ASSUME NEW y \in {TEXT, ISO8601} PROVE encode_value(x, y) = encode_text(r.val)
      OBVIOUS
    <3>1. y \notin {INTEGER, UNIXTIME, FLOAT, BLOB, NULL, BOOLEAN_}
      BY Tags
    <3> QED
      BY <2>6, <3>1 DEF encode_value
  <2>9. TEXT \in ValueType
    BY Tags
  <2> QED
    BY <1>3, <2>1, <2>3, <2>4, <2>5, <2>6, <2>7, <2>8, <2>9 DEF ValueOfSize, a, x
<1>4. CASE t = BLOB
  <2> DEFINE r == decode_blob(d)
             v == Py("bytes", r.val)
  <2>1. t \notin {INTEGER, UNIXTIME, FLOAT, TEXT, ISO8601, NULL, BOOLEAN_}
    BY <1>4, Tags
  <2>2. a = IF r.ok THEN Got(v, r.used) ELSE Fail
    BY <1>4, <2>1 DEF decode_value, Then
  <2> HIDE DEF a, r, v
  <2>3. r.ok /\ x = v /\ a.used = r.used
    BY <1>0, <2>2, MadeOf
  <2>4. r.val \in AllBytes /\ r.used = Len(encode_blob(r.val))
    BY <2>3, BlobMade DEF r
  <2>5. encode_blob(r.val) \in Bytes
    BY <2>4, BlobLength DEF AllBytes, Bytes
  <2>6. x.py = "bytes" /\ x.v = r.val /\ x = Py(x.py, x.v)
    BY <2>3 DEF v, Py
  <2> HIDE DEF x
  <2>7. is_value(x) /\ infer_value_type(x) = BLOB
    BY <2>4, <2>6 DEF is_value, infer_value_type
  <2>8. encode_value(x, t) = encode_blob(r.val)
    BY <1>4, <2>1, <2>6 DEF encode_value
  <2> QED
    BY <1>4, <2>1, <2>3, <2>4, <2>5, <2>6, <2>7, <2>8 DEF ValueOfSize, a, x
<1>5. CASE t = NULL
  <2> DEFINE r == decode_uint64(d)
  <2>1. t \notin {INTEGER, UNIXTIME, FLOAT, TEXT, ISO8601, BLOB, BOOLEAN_}
    BY <1>5, Tags
  <2>2. a = IF r.ok THEN Got(PyNone, r.used) ELSE Fail
    BY <1>5, <2>1 DEF decode_value, Then
  <2> HIDE DEF a, r
  <2>3. r.ok /\ x = PyNone /\ a.used = r.used
    BY <1>0, <2>2, MadeOf
  <2>4. r.used = WORD_SIZE
    BY <2>3, WordMade DEF r
  <2>5. x.py = "None" /\ x.v = 0 /\ x = Py(x.py, x.v)
    BY <2>3 DEF PyNone, Py
  <2> HIDE DEF x
  <2>6. is_value(x) /\ infer_value_type(x) = NULL
    BY <2>5 DEF is_value, infer_value_type
  <2>7. encode_value(x, t) = Zeros(WORD_SIZE)
    BY <1>5, <2>1 DEF encode_value
  <2>8. Zeros(WORD_SIZE) \in Bytes /\ Len(Zeros(WORD_SIZE)) = WORD_SIZE
    BY ZerosFacts, WireSizesAssumption
  <2>9. encode_value(x, t) \in Bytes /\ Len(encode_value(x, t)) = a.used
    BY <2>3, <2>4, <2>7, <2>8
  <2>10. infer_value_type(x) = t /\ (x.py = "None" <=> t = NULL)
    BY <1>5, <2>5, <2>6
  <2> QED
    BY <2>6, <2>9, <2>10 DEF ValueOfSize, a, x
<1>6. CASE t = BOOLEAN_
  <2> DEFINE r == decode_uint64(d)
             v == Py("bool", Smaller(r.val, 1))
  <2>1. t \notin {INTEGER, UNIXTIME, FLOAT, TEXT, ISO8601, BLOB, NULL}
    BY <1>6, Tags
  <2>2. a = IF r.ok THEN Got(v, r.used) ELSE Fail
    BY <1>6, <2>1 DEF decode_value, Then
  <2> HIDE DEF a, r, v
  <2>3. r.ok /\ x = v /\ a.used = r.used
    BY <1>0, <2>2, MadeOf
  <2>4. r.val \in Nat /\ r.used = WORD_SIZE
    BY <2>3, WordMade DEF r
  <2>5. Smaller(r.val, 1) \in {0, 1}
    BY <2>4 DEF Smaller
  <2>6. x.py = "bool" /\ x.v = Smaller(r.val, 1) /\ x = Py(x.py, x.v)
    BY <2>3 DEF v, Py
  <2> HIDE DEF x
  <2>7. is_value(x) /\ infer_value_type(x) = BOOLEAN_
    BY <2>5, <2>6 DEF is_value, infer_value_type
  <2>8. encode_value(x, t) \in Bytes /\ Len(encode_value(x, t)) = WORD_SIZE
    BY <1>6, <2>5, <2>6, NumberBytes
  <2> QED
    BY <1>6, <2>1, <2>3, <2>4, <2>6, <2>7, <2>8 DEF ValueOfSize, a, x
<1> QED
  BY <1>0, <1>1, <1>2, <1>3, <1>4, <1>5, <1>6, Tags

\* decode_field returns what can be written in the field, and takes what that takes.
LEMMA FieldMade ==
  ASSUME NEW d \in Bytes, NEW f, FieldOk(f), decode_field(d, f).ok
  PROVE  LET r == decode_field(d, f) IN
         /\ FieldFits(r.val, f) /\ (f.of = "reserved" => r.val = 0)
         /\ r.used = Len(encode_field(r.val, f)) /\ encode_field(r.val, f) \in Bytes
<1> DEFINE a == decode_field(d, f)
           x == a.val
<1>0. f.of \in {"uint", "reserved", "text", "view"} /\ f.size \in Nat /\ f.max \in Nat
  BY DEF FieldOk
<1> SUFFICES ASSUME a.ok
             PROVE  /\ field_encodable(x, f) /\ (f.of \in {"text", "view"} => x \in AllTexts)
                    /\ (f.of = "reserved" => x = 0) /\ a.used = Len(encode_field(x, f))
  <2>1. <<>> \in Bytes
    BY Nothing
  <2> HIDE DEF a
  <2>2. FieldFits(x, f) /\ (f.of = "reserved" => x = 0) /\ a.used = Len(encode_field(x, f))
    BY DEF FieldFits, a
  <2> QED
    BY <2>1, <2>2, FieldRoundTrip DEF a
<1>1. CASE f.of = "uint"
  <2> DEFINE r == decode_uint(d, f.size)
  <2>1. a = IF r.ok THEN (IF r.val > f.max THEN Fail ELSE Got(r.val, r.used)) ELSE Fail
    BY <1>1 DEF decode_field, Then
  <2> HIDE DEF a
  <2>2. r.ok
    BY <2>1, FailIsNot
  <2>3. r = Got(Number(SubSeq(d, 1, f.size)), f.size)
        /\ Number(SubSeq(d, 1, f.size)) \in 0..(Codes(f.size) - 1)
    BY <1>0, <2>2, UintGot
  <2>4. Codes(f.size) \in Nat
    BY <1>0, CodesFacts
  <2> HIDE DEF r
  <2>5. r.val \in Nat /\ r.used = f.size
    BY <2>3, <2>4 DEF Got
  <2>6. ~(r.val > f.max) /\ a = Got(r.val, r.used)
    BY <2>1, <2>2, FailIsNot
  <2>7. a.val = r.val /\ a.used = f.size
    BY <2>5, <2>6 DEF Got
  <2>8. a.val \in 0..f.max
    BY <1>0, <2>5, <2>6, <2>7
  <2>9. Len(encode_field(x, f)) = f.size
    BY <1>0, <1>1, <2>5, <2>7, LittleEndianBytes DEF encode_field
  <2> QED
    BY <1>1, <2>7, <2>8, <2>9 DEF field_encodable
<1>2. CASE f.of = "reserved"
  <2> DEFINE r == decode_uint(d, f.size)
  <2>1. a = IF r.ok THEN Got(0, r.used) ELSE Fail
    BY <1>2 DEF decode_field, Then
  <2> HIDE DEF a
  <2>2. r.ok
    BY <2>1, FailIsNot
  <2>3. r = Got(Number(SubSeq(d, 1, f.size)), f.size)
    BY <1>0, <2>2, UintGot
  <2> HIDE DEF r
  <2>4. a.val = 0 /\ a.used = f.size
    BY <2>1, <2>2, <2>3 DEF Got
  <2>5. Len(encode_field(x, f)) = f.size
    BY <1>0, <1>2, ZerosFacts DEF encode_field
  <2> QED
    BY <1>2, <2>4, <2>5 DEF field_encodable
<1>3. CASE f.of = "text"
  <2>1. a = decode_text(d, f.max)
    BY <1>3 DEF decode_field
  <2>2. x \in AllTexts /\ text_encodable(x, f.max) /\ a.used = Len(encode_text(x))
    BY <1>0, <2>1, TextMade
  <2> HIDE DEF a
  <2> QED
    BY <1>3, <2>2 DEF field_encodable, encode_field
<1>4. CASE f.of = "view"
  <2>1. a = decode_text_view(d, f.max)
    BY <1>4 DEF decode_field
  <2>2. x \in AllTexts /\ text_encodable(x, f.max) /\ a.used = Len(encode_text(x))
    BY <1>0, <2>1, ViewMade
  <2> HIDE DEF a
  <2> QED
    BY <1>4, <2>2 DEF field_encodable, encode_field
<1> QED
  BY <1>0, <1>1, <1>2, <1>3, <1>4

-----------------------------------------------------------------------------
(* Lists *)

\* Parts that are counted one after the other.
LEMMA SumLength ==
  ASSUME NEW S, NEW parts \in Seq(Seq(S)), NEW off, off[0] = 0,
         \A k \in 1..Len(parts) : off[k] = off[k - 1] + Len(parts[k])
  PROVE  Len(FlattenSeq(parts)) = off[Len(parts)]
<1> DEFINE N == Len(parts)
<1>1. N \in Nat
  BY LenProperties
<1>2. PICK at : Offsets(at, parts)
  BY FlattenFacts
<1>3. at[0] = 0 /\ \A k \in 1..N : at[k] = at[k - 1] + Len(parts[k])
  BY <1>2 DEF Offsets
<1>4. Len(FlattenSeq(parts)) = at[N]
  BY <1>2 DEF Offsets
<1>5. \A k \in 1..N : off[k] = off[k - 1] + Len(parts[k])
  OBVIOUS
<1> HIDE DEF N
<1> DEFINE T == {n \in Nat : n <= N => off[n] = at[n]}
<1>6. 0 \in T
  BY <1>3
<1>7. ASSUME NEW n \in Nat, n \in T PROVE n + 1 \in T
  <2> SUFFICES ASSUME n + 1 <= N PROVE off[n + 1] = at[n + 1]
    OBVIOUS
  <2>1. n + 1 \in 1..N /\ (n + 1) - 1 = n /\ n <= N
    BY <1>1
  <2>2. off[n] = at[n]
    BY <1>7, <2>1
  <2>3. off[n + 1] = off[(n + 1) - 1] + Len(parts[n + 1]) /\ at[n + 1] = at[(n + 1) - 1] + Len(parts[n + 1])
    BY <1>3, <1>5, <2>1
  <2> QED
    BY <2>1, <2>2, <2>3
<1> HIDE DEF T
<1>8. N \in T
  BY <1>1, <1>6, <1>7, SetInduction
<1> QED
  BY <1>1, <1>4, <1>8 DEF T, N

\* One part more.
LEMMA OneMorePart ==
  ASSUME NEW S, NEW parts \in Seq(Seq(S)), NEW p \in Seq(S)
  PROVE  /\ Len(FlattenSeq(Append(parts, p))) = Len(FlattenSeq(parts)) + Len(p)
         /\ Append(parts, p) \in Seq(Seq(S)) /\ Len(FlattenSeq(parts)) \in Nat /\ Len(p) \in Nat
<1> DEFINE N == Len(parts)
           more == Append(parts, p)
<1>1. /\ N \in Nat /\ more \in Seq(Seq(S)) /\ Len(more) = N + 1
      /\ more[N + 1] = p /\ \A k \in 1..N : more[k] = parts[k]
  BY LenProperties, AppendProperties
<1> HIDE DEF more
<1>2. PICK off : Offsets(off, more)
  BY <1>1, FlattenFacts
<1>3. /\ off[0] = 0 /\ \A k \in 1..(N + 1) : off[k] = off[k - 1] + Len(more[k])
      /\ Len(FlattenSeq(more)) = off[N + 1]
  BY <1>1, <1>2 DEF Offsets
<1>4. Len(FlattenSeq(parts)) = off[N]
  <2>1. \A k \in 1..N : off[k] = off[k - 1] + Len(parts[k])
    BY <1>1, <1>3
  <2> QED
    BY <1>3, <2>1, SumLength
<1>5. off[N + 1] = off[N] + Len(p)
  <2>1. N + 1 \in 1..(N + 1) /\ (N + 1) - 1 = N
    BY <1>1
  <2> QED
    BY <1>1, <1>3, <2>1
<1>6. Len(FlattenSeq(parts)) \in Nat
  BY FlattenFacts, LenProperties
<1> QED
  BY <1>1, <1>3, <1>4, <1>5, <1>6, LenProperties DEF more

\* Decoder k got w[k] somewhere in its bytes, and off[k] - off[k - 1] of them.
Collected(D, L, off, w) ==
  /\ IsSequence(w) /\ Len(w) = Len(D) /\ off[0] = 0
  /\ \A k \in 1..Len(D) : \E at \in 0..L :
       D[k][at].ok /\ D[k][at].val = w[k] /\ off[k] = off[k - 1] + D[k][at].used
  /\ InTurn(D) = Got(w, off[Len(D)])

\* What decoders in turn collect.
LEMMA ListCollected ==
  ASSUME NEW D, Len(D) \in Nat, NEW L \in Nat, AllUse(D, L), InTurn(D).ok
  PROVE  \E off, w : Collected(D, L, off, w)
<1>1. PICK off, w : Traced(D, L, off, w)
  BY InTurnTrace
<1> DEFINE N == Len(D)
<1>2. /\ InSteps(D, off, w, N) /\ IsSequence(w) /\ InTurn(D) = Got(w, off[N])
      /\ \A k \in 0..N : off[k] \in 0..L
      /\ \A k \in 1..N : off[k] - off[k - 1] \in Nat
  BY <1>1 DEF Traced
<1>3. /\ Len(w) = N /\ off \in [0..N -> Nat] /\ off[0] = 0
      /\ \A k \in 1..N : D[k][off[k - 1]] = Got(w[k], off[k] - off[k - 1])
  BY <1>2 DEF InSteps
<1>4. N \in Nat
  OBVIOUS
<1> HIDE DEF N
<1>5. ASSUME NEW k \in 1..N
      PROVE  \E at \in 0..L : D[k][at].ok /\ D[k][at].val = w[k] /\ off[k] = off[k - 1] + D[k][at].used
  <2> DEFINE at == off[k - 1]
             r == D[k][at]
  <2>1. k - 1 \in 0..N /\ k \in 0..N
    BY <1>4
  <2>2. at \in 0..L /\ off[k] \in Nat /\ off[k - 1] \in Nat
    BY <1>2, <1>3, <2>1
  <2>3. r = Got(w[k], off[k] - off[k - 1])
    BY <1>3
  <2>4. r.ok /\ r.val = w[k] /\ r.used = off[k] - off[k - 1]
    BY <2>3 DEF Got
  <2> HIDE DEF r, at
  <2>5. off[k] = off[k - 1] + r.used
    BY <2>2, <2>4
  <2> QED
    BY <2>2, <2>4, <2>5 DEF r
<1> QED
  BY <1>2, <1>3, <1>5 DEF Collected, N

\* What they collect measures what they took, if that holds of each of them.
LEMMA ListSized ==
  ASSUME NEW D, Len(D) \in Nat, NEW L, NEW off, NEW w, Collected(D, L, off, w),
         NEW S, NEW parts \in Seq(Seq(S)), Len(parts) = Len(D),
         \A k \in 1..Len(D) : \A at \in 0..L :
           D[k][at].ok /\ D[k][at].val = w[k] => D[k][at].used = Len(parts[k])
  PROVE  InTurn(D).used = Len(FlattenSeq(parts))
<1>1. \A k \in 1..Len(D) : off[k] = off[k - 1] + Len(parts[k])
  <2> SUFFICES ASSUME NEW k \in 1..Len(D) PROVE off[k] = off[k - 1] + Len(parts[k])
    OBVIOUS
  <2>1. PICK at \in 0..L : D[k][at].ok /\ D[k][at].val = w[k] /\ off[k] = off[k - 1] + D[k][at].used
    BY DEF Collected
  <2>2. D[k][at].used = Len(parts[k])
    BY <2>1
  <2> QED
    BY <2>1, <2>2
<1>2. off[0] = 0 /\ InTurn(D) = Got(w, off[Len(D)])
  BY DEF Collected
<1>3. Len(FlattenSeq(parts)) = off[Len(D)]
  BY <1>1, <1>2, SumLength
<1> QED
  BY <1>2, <1>3 DEF Got

\* The decoders of a list over the bytes d.
LEMMA OverCollected ==
  ASSUME NEW d \in Bytes, NEW n \in Nat, NEW D, Over(D, d, n),
         \A k \in 1..n : \A at \in 0..Len(d) : Uses(D[k][at], Len(d) - at), InTurn(D).ok
  PROVE  Len(D) = n /\ \E off, w : Collected(D, Len(d), off, w)
<1>1. Len(D) = n
  <2>1. \A f, g : f = [k \in 1..n |-> g[k]] => Len(f) = n
    OBVIOUS
  <2> DEFINE g == [k \in 1..n |-> [at \in 0..Len(d) |-> D[k][at]]]
  <2>2. D = [k \in 1..n |-> g[k]]
    BY DEF Over
  <2> HIDE DEF g
  <2> QED
    BY <2>1, <2>2
<1>2. Len(d) \in Nat
  BY LenProperties DEF Bytes
<1>3. AllUse(D, Len(d))
  BY <1>1 DEF AllUse
<1> QED
  BY <1>1, <1>2, <1>3, ListCollected

\* What is behind an offset in bytes.
LEMMA BytesBehind ==
  ASSUME NEW d \in Bytes, NEW at \in 0..Len(d)
  PROVE  From(d, at) \in Bytes /\ Len(From(d, at)) = Len(d) - at
  BY Nothing, MoreBehind

-----------------------------------------------------------------------------
(* Layouts and lists of items *)

\* The fields of a layout.
LEMMA FieldsMade ==
  ASSUME NEW d \in Bytes, NEW layout, LayoutOk(layout), decode_fields(d, layout).ok
  PROVE  LET r == decode_fields(d, layout) IN
         /\ IsSequence(r.val) /\ Len(r.val) = Len(layout)
         /\ FieldsFit(r.val, layout) /\ fields_typed(r.val, layout)
         /\ r.used = Len(encode_fields(r.val, layout)) /\ WholeWords(encode_fields(r.val, layout))
<1> DEFINE n == Len(layout)
           D == [k \in 1..n |-> [at \in 0..Len(d) |-> decode_field(From(d, at), layout[k])]]
           r == decode_fields(d, layout)
           w == r.val
           parts == [i \in DOMAIN layout |-> encode_field(w[i], layout[i])]
<1>1. n \in Nat /\ IsSequence(layout) /\ DOMAIN layout = 1..n /\ \A k \in 1..n : FieldOk(layout[k])
  BY Items DEF LayoutOk
<1>2. r = InTurn(D)
  BY DEF decode_fields, Each
<1>3. Over(D, d, n)
  BY Zenon DEF Over
<1>4. \A k \in 1..n : \A at \in 0..Len(d) :
        D[k][at] = decode_field(From(d, at), layout[k])
  BY Zenon
<1> HIDE DEF D, n, r
<1>5. ASSUME NEW k \in 1..n, NEW at \in 0..Len(d) PROVE Uses(D[k][at], Len(d) - at)
  <2>1. From(d, at) \in Bytes /\ Len(From(d, at)) = Len(d) - at
    BY BytesBehind
  <2>2. Uses(decode_field(From(d, at), layout[k]), Len(From(d, at)))
    BY <1>1, <2>1, Nothing, FieldSteady DEF Steady
  <2> QED
    BY <1>4, <2>1, <2>2
<1>6. InTurn(D).ok
  BY <1>2 DEF r
<1>7. Len(D) = n /\ \E off, v : Collected(D, Len(d), off, v)
  BY <1>1, <1>3, <1>5, <1>6, OverCollected
<1>8. PICK off, v : Collected(D, Len(d), off, v)
  BY <1>7
<1>9. v = w /\ IsSequence(w) /\ Len(w) = n
  BY <1>2, <1>7, <1>8 DEF Collected, Got
<1>10. ASSUME NEW k \in 1..n, NEW at \in 0..Len(d), D[k][at].ok
       PROVE  /\ FieldFits(D[k][at].val, layout[k]) /\ (layout[k].of = "reserved" => D[k][at].val = 0)
              /\ D[k][at].used = Len(encode_field(D[k][at].val, layout[k]))
              /\ encode_field(D[k][at].val, layout[k]) \in Bytes
  <2>1. From(d, at) \in Bytes
    BY BytesBehind
  <2>2. decode_field(From(d, at), layout[k]).ok
    BY <1>4, <1>10
  <2> QED
    BY <1>1, <1>4, <2>1, <2>2, FieldMade
<1> HIDE DEF w
<1>11. ASSUME NEW k \in 1..n
       PROVE  /\ FieldFits(w[k], layout[k]) /\ (layout[k].of = "reserved" => w[k] = 0)
              /\ encode_field(w[k], layout[k]) \in Bytes
  <2>1. PICK at \in 0..Len(d) : D[k][at].ok /\ D[k][at].val = w[k]
    BY <1>7, <1>8, <1>9 DEF Collected
  <2> QED
    BY <1>10, <2>1
<1>12. parts = [i \in 1..n |-> encode_field(w[i], layout[i])]
  BY <1>1
<1>13. parts \in Seq(Bytes) /\ Len(parts) = n /\ \A k \in 1..n : parts[k] = encode_field(w[k], layout[k])
  BY <1>1, <1>11, <1>12
<1> HIDE DEF parts
<1>14. InTurn(D).used = Len(FlattenSeq(parts))
  <2>1. \A k \in 1..Len(D) : \A at \in 0..Len(d) :
          D[k][at].ok /\ D[k][at].val = v[k] => D[k][at].used = Len(parts[k])
    BY <1>7, <1>9, <1>10, <1>13
  <2>2. Len(D) \in Nat /\ Len(parts) = Len(D) /\ parts \in Seq(Seq(0..(BYTE - 1)))
    BY <1>1, <1>7, <1>13 DEF Bytes
  <2> QED
    BY <1>8, <2>1, <2>2, ListSized
<1>15. r.used = Len(encode_fields(w, layout))
  BY <1>2, <1>14 DEF parts, encode_fields
<1>16. FieldsFit(w, layout)
  BY <1>1, <1>11 DEF FieldsFit, n
<1>17. fields_typed(w, layout)
  BY <1>1, <1>9, <1>11 DEF fields_typed, FieldFits
<1>18. WholeWords(encode_fields(w, layout))
  BY <1>16, Nothing, FieldsRoundTrip DEF LayoutOk
<1> QED
  BY <1>9, <1>15, <1>16, <1>17, <1>18 DEF r, w, n

\* The values of a row or of parameters.
LEMMA ValuesMade ==
  ASSUME NEW d \in Bytes, NEW types, NEW n \in Nat, Len(types) = n,
         \A k \in 1..n : types[k] \in ValueType, decode_row_values(d, types).ok
  PROVE  LET r == decode_row_values(d, types)
             w == r.val
         IN  /\ are_values(w) /\ Len(w) = n /\ DOMAIN w = 1..n
             /\ \A k \in 1..n : w[k].py = "None" <=> types[k] = NULL
             /\ r.used = Len(encode_row_values(w, types)) /\ encode_row_values(w, types) \in Bytes
             /\ LET inferred == FlattenSeq([i \in DOMAIN w |-> encode_value(w[i], infer_value_type(w[i]))])
                IN  r.used = Len(inferred) /\ inferred \in Bytes
<1> DEFINE D == [k \in 1..n |-> [at \in 0..Len(d) |-> decode_value(From(d, at), types[k])]]
           r == decode_row_values(d, types)
           w == r.val
           parts == [i \in DOMAIN w |-> encode_value(w[i], types[i])]
           again == [i \in DOMAIN w |-> encode_value(w[i], infer_value_type(w[i]))]
<1>2. r = InTurn(D)
  BY DEF decode_row_values, Each
<1>3. Over(D, d, n)
  BY Zenon DEF Over
<1>4. \A k \in 1..n : \A at \in 0..Len(d) : D[k][at] = decode_value(From(d, at), types[k])
  BY Zenon
<1> HIDE DEF D, r
<1>5. ASSUME NEW k \in 1..n, NEW at \in 0..Len(d) PROVE Uses(D[k][at], Len(d) - at)
  <2>1. From(d, at) \in Bytes /\ Len(From(d, at)) = Len(d) - at
    BY BytesBehind
  <2>2. Uses(decode_value(From(d, at), types[k]), Len(From(d, at)))
    BY <2>1, Nothing, ValueSteady DEF Steady
  <2> QED
    BY <1>4, <2>1, <2>2
<1>6. InTurn(D).ok
  BY <1>2 DEF r
<1>7. Len(D) = n /\ \E off, v : Collected(D, Len(d), off, v)
  BY <1>3, <1>5, <1>6, OverCollected
<1>8. PICK off, v : Collected(D, Len(d), off, v)
  BY <1>7
<1>9. v = w /\ IsSequence(w) /\ Len(w) = n
  BY <1>2, <1>7, <1>8 DEF Collected, Got
<1>10. ASSUME NEW k \in 1..n, NEW at \in 0..Len(d), D[k][at].ok
       PROVE  ValueOfSize(D[k][at].val, types[k], D[k][at].used)
  <2>1. From(d, at) \in Bytes
    BY BytesBehind
  <2>2. decode_value(From(d, at), types[k]).ok
    BY <1>4, <1>10
  <2> QED
    BY <1>4, <2>1, <2>2, ValueMade
<1> HIDE DEF w
<1>11. ASSUME NEW k \in 1..n PROVE \E u : ValueOfSize(w[k], types[k], u)
  <2>1. PICK at \in 0..Len(d) : D[k][at].ok /\ D[k][at].val = w[k]
    BY <1>7, <1>8, <1>9 DEF Collected
  <2> QED
    BY <1>10, <2>1
<1>12. DOMAIN w = 1..n
  BY <1>9, Items
<1>13. parts = [i \in 1..n |-> encode_value(w[i], types[i])]
       /\ again = [i \in 1..n |-> encode_value(w[i], infer_value_type(w[i]))]
  BY <1>12
<1>14. /\ parts \in Seq(Bytes) /\ Len(parts) = n /\ again \in Seq(Bytes) /\ Len(again) = n
       /\ \A k \in 1..n : parts[k] = encode_value(w[k], types[k])
       /\ \A k \in 1..n : again[k] = encode_value(w[k], infer_value_type(w[k]))
  <2>1. \A k \in 1..n : encode_value(w[k], types[k]) \in Bytes
                        /\ encode_value(w[k], infer_value_type(w[k])) \in Bytes
    BY <1>11 DEF ValueOfSize
  <2> QED
    BY <1>13, <2>1
<1> HIDE DEF parts, again
<1>15. InTurn(D).used = Len(FlattenSeq(parts)) /\ InTurn(D).used = Len(FlattenSeq(again))
  <2>1. \A k \in 1..Len(D) : \A at \in 0..Len(d) :
          D[k][at].ok /\ D[k][at].val = v[k] => D[k][at].used = Len(parts[k])
    BY <1>7, <1>9, <1>10, <1>14 DEF ValueOfSize
  <2>2. \A k \in 1..Len(D) : \A at \in 0..Len(d) :
          D[k][at].ok /\ D[k][at].val = v[k] => D[k][at].used = Len(again[k])
    BY <1>7, <1>9, <1>10, <1>14 DEF ValueOfSize
  <2> DEFINE B == 0..(BYTE - 1)
  <2>3. Len(D) \in Nat /\ Len(parts) = Len(D) /\ parts \in Seq(Seq(B))
    BY <1>7, <1>14 DEF Bytes
  <2>4. Len(again) = Len(D) /\ again \in Seq(Seq(B))
    BY <1>7, <1>14 DEF Bytes
  <2> HIDE DEF B
  <2>5. ASSUME NEW p \in Seq(Seq(B)), Len(p) = Len(D),
               \A k \in 1..Len(D) : \A at \in 0..Len(d) :
                 D[k][at].ok /\ D[k][at].val = v[k] => D[k][at].used = Len(p[k])
        PROVE  InTurn(D).used = Len(FlattenSeq(p))
    <3>1. Len(D) \in Nat
      BY <2>3
    <3> QED
      BY <1>8, <2>5, <3>1, ListSized
  <2>6. InTurn(D).used = Len(FlattenSeq(parts))
    BY <2>1, <2>3, <2>5
  <2>7. InTurn(D).used = Len(FlattenSeq(again))
    BY <2>2, <2>4, <2>5
  <2> QED
    BY <2>6, <2>7
<1>16. FlattenSeq(parts) \in Bytes /\ FlattenSeq(again) \in Bytes
  BY <1>14, FlattenFacts DEF Bytes
<1>17. are_values(w) /\ \A k \in 1..n : w[k].py = "None" <=> types[k] = NULL
  BY <1>9, <1>11, <1>12 DEF are_values, ValueOfSize
<1>18. FlattenSeq(parts) = encode_row_values(w, types)
  BY DEF parts, encode_row_values
<1> QED
  BY <1>2, <1>9, <1>12, <1>15, <1>16, <1>17, <1>18 DEF r, w, again

\* Column names.
LEMMA NamesMade ==
  ASSUME NEW d \in Bytes, NEW n \in Nat, Times(n, column_name, d).ok
  PROVE  LET r == Times(n, column_name, d) IN
         /\ r.val \in Seq(AllTexts) /\ Len(r.val) = n
         /\ r.used = Len(TextBytes(r.val)) /\ TextBytes(r.val) \in Bytes
<1> DEFINE D == [k \in 1..n |-> [at \in 0..Len(d) |-> column_name(From(d, at))]]
           r == Times(n, column_name, d)
           w == r.val
           parts == [i \in DOMAIN w |-> encode_text(w[i])]
<1>1. Len([i \in 1..n |-> i]) = n
  OBVIOUS
<1>2. r = InTurn(D)
  BY <1>1, Zenon DEF Times, Each
<1>3. Over(D, d, n)
  BY Zenon DEF Over
<1>4. \A k \in 1..n : \A at \in 0..Len(d) : D[k][at] = column_name(From(d, at))
  BY Zenon
<1> HIDE DEF D, r
<1>5. ASSUME NEW k \in 1..n, NEW at \in 0..Len(d) PROVE Uses(D[k][at], Len(d) - at)
  <2>1. From(d, at) \in Bytes /\ Len(From(d, at)) = Len(d) - at
    BY BytesBehind
  <2>2. Uses(column_name(From(d, at)), Len(From(d, at)))
    BY <2>1, Nothing, TextSteady, CapsAssumption DEF Steady, column_name
  <2> QED
    BY <1>4, <2>1, <2>2
<1>6. InTurn(D).ok
  BY <1>2 DEF r
<1>7. Len(D) = n /\ \E off, v : Collected(D, Len(d), off, v)
  BY <1>3, <1>5, <1>6, OverCollected
<1>8. PICK off, v : Collected(D, Len(d), off, v)
  BY <1>7
<1>9. v = w /\ IsSequence(w) /\ Len(w) = n
  BY <1>2, <1>7, <1>8 DEF Collected, Got
<1>10. ASSUME NEW k \in 1..n, NEW at \in 0..Len(d), D[k][at].ok
       PROVE  D[k][at].val \in AllTexts /\ D[k][at].used = Len(encode_text(D[k][at].val))
  <2>1. From(d, at) \in Bytes
    BY BytesBehind
  <2>2. decode_text_view(From(d, at), MAX_COLUMN_NAME_SIZE).ok
    BY <1>4, <1>10 DEF column_name
  <2>3. D[k][at] = decode_text_view(From(d, at), MAX_COLUMN_NAME_SIZE)
    BY <1>4 DEF column_name
  <2> QED
    BY <2>1, <2>2, <2>3, ViewMade, CapsAssumption
<1> HIDE DEF w
<1>11. ASSUME NEW k \in 1..n PROVE w[k] \in AllTexts
  <2>1. PICK at \in 0..Len(d) : D[k][at].ok /\ D[k][at].val = w[k]
    BY <1>7, <1>8, <1>9 DEF Collected
  <2> QED
    BY <1>10, <2>1
<1>12. DOMAIN w = 1..n /\ w = [k \in 1..n |-> w[k]]
  BY <1>9, Items DEF IsSequence
<1>13. w \in Seq(AllTexts)
  BY <1>11, <1>12
<1>14. parts = [i \in 1..n |-> encode_text(w[i])]
  BY <1>12
<1>15. parts \in Seq(Bytes) /\ Len(parts) = n /\ \A k \in 1..n : parts[k] = encode_text(w[k])
  <2>1. \A k \in 1..n : encode_text(w[k]) \in Bytes
    BY <1>11, TextFacts, TextLength
  <2> QED
    BY <1>14, <2>1
<1> HIDE DEF parts
<1>16. InTurn(D).used = Len(FlattenSeq(parts))
  <2>1. \A k \in 1..Len(D) : \A at \in 0..Len(d) :
          D[k][at].ok /\ D[k][at].val = v[k] => D[k][at].used = Len(parts[k])
    BY <1>7, <1>9, <1>10, <1>15
  <2> DEFINE B == 0..(BYTE - 1)
  <2>2. Len(D) \in Nat /\ Len(parts) = Len(D) /\ parts \in Seq(Seq(B))
    BY <1>7, <1>15 DEF Bytes
  <2> HIDE DEF B
  <2> QED
    BY <1>8, <2>1, <2>2, ListSized
<1>17. FlattenSeq(parts) \in Bytes
  BY <1>15, FlattenFacts DEF Bytes
<1> QED
  BY <1>2, <1>9, <1>13, <1>16, <1>17 DEF r, w, parts, TextBytes

\* A file.
LEMMA FileMade ==
  ASSUME NEW d \in Bytes, decode_file(d).ok
  PROVE  LET r == decode_file(d)
             f == r.val
         IN  /\ f = [name |-> f.name, content |-> f.content]
             /\ f.name \in AllTexts /\ f.content \in AllBytes
             /\ r.used = Len(FileBytes(f)) /\ FileBytes(f) \in Bytes
<1> DEFINE r == decode_file(d)
           n == decode_text_view(d, MAX_FILENAME_SIZE)
           at == n.used
           w == decode_uint64(From(d, at))
           size == w.val
           end == at + w.used + size
           content == SubSeq(d, at + w.used + 1, at + w.used + size)
           f == [name |-> n.val, content |-> content]
           Bad == \/ size % WORD_SIZE # 0
                  \/ size > MAX_FILE_CONTENT_SIZE
                  \/ end > Len(d)
<1>1. n.ok
  BY FailIsNot DEF decode_file, Then
<1>2. r = IF w.ok THEN (IF Bad THEN Fail ELSE Got(f, end)) ELSE Fail
  BY <1>1, Zenon DEF decode_file, Then
<1>3. w.ok /\ ~Bad /\ r = Got(f, end)
  <2> HIDE DEF r, w, Bad, f, end
  <2>1. r.ok
    BY DEF r
  <2> QED
    BY <1>2, <2>1, FailIsNot
<1>4. n.val \in AllTexts /\ at = Len(encode_text(n.val))
  BY <1>1, ViewMade, CapsAssumption
<1>5. at \in 0..Len(d) /\ at \in Nat /\ Len(d) \in Nat
  <2>1. Uses(n, Len(d))
    BY Nothing, TextSteady, CapsAssumption DEF Steady
  <2>2. Len(d) \in Nat
    BY Nothing
  <2> HIDE DEF n
  <2> QED
    BY <1>1, <2>1, <2>2 DEF Uses
<1> HIDE DEF r, n, f
<1>6. From(d, at) \in Bytes
  BY <1>5, BytesBehind
<1>7. size \in Nat /\ w.used = WORD_SIZE /\ WORD_SIZE \in Nat
  BY <1>3, <1>6, WordMade, WireSizesAssumption
<1> HIDE DEF w, at
<1>8. at + WORD_SIZE + size <= Len(d) /\ end = at + WORD_SIZE + size
  BY <1>3, <1>5, <1>7
<1>9. content \in Bytes /\ Len(content) = size
  <2> DEFINE a == at + WORD_SIZE
  <2>1. a \in Nat /\ a + size <= Len(d) /\ content = SubSeq(d, a + 1, a + size)
    BY <1>5, <1>7, <1>8
  <2> DEFINE B == 0..(BYTE - 1)
             p == SubSeq(d, a + 1, a + size)
  <2>2. d \in Seq(B)
    BY DEF Bytes
  <2> HIDE DEF a, B
  <2>3. p \in Seq(B) /\ Len(p) = size
    BY <1>7, <2>1, <2>2, PartOf
  <2> HIDE DEF p
  <2> QED
    BY <2>1, <2>3 DEF B, Bytes, p
<1> HIDE DEF content, end, Bad, size
<1>10. r.val = f /\ r.used = end
  BY <1>3 DEF Got
<1>11. f.name = n.val /\ f.content = content /\ f = [name |-> f.name, content |-> f.content]
  BY DEF f
<1>12. encode_text(n.val) \in Bytes /\ encode_uint64(size) \in Bytes /\ Len(encode_uint64(size)) = WORD_SIZE
  <2>1. encode_text(n.val) \in Bytes
    BY <1>4, TextFacts, TextLength
  <2>2. encode_uint64(size) \in Bytes /\ Len(encode_uint64(size)) = WORD_SIZE
    BY <1>7, LittleEndianBytes DEF encode_uint64, Bytes
  <2> QED
    BY <2>1, <2>2
<1>13. FileBytes(f) = (encode_text(n.val) \o encode_uint64(size)) \o content
  BY <1>9, <1>11 DEF FileBytes
<1> DEFINE t == encode_text(n.val)
           u == encode_uint64(size)
<1> HIDE DEF t, u
<1>14. t \o u \in Bytes /\ Len(t \o u) = at + WORD_SIZE
  <2>1. t \in Bytes /\ Len(t) = at /\ u \in Bytes /\ Len(u) = WORD_SIZE
    BY <1>4, <1>12 DEF t, u
  <2>2. t \o u \in Bytes /\ Len(t \o u) = Len(t) + Len(u)
    BY <2>1, More
  <2> QED
    BY <2>1, <2>2
<1>15. (t \o u) \o content \in Bytes /\ Len((t \o u) \o content) = Len(t \o u) + Len(content)
  BY <1>9, <1>14, More
<1>16. FileBytes(f) \in Bytes /\ Len(FileBytes(f)) = end
  BY <1>8, <1>9, <1>13, <1>14, <1>15 DEF t, u
<1> QED
  BY <1>4, <1>9, <1>10, <1>11, <1>16 DEF r, Bytes, AllBytes

\* A node.
LEMMA NodeMade ==
  ASSUME NEW d \in Bytes, decode_node(d).ok
  PROVE  LET r == decode_node(d)
             n == r.val
         IN  /\ n = [node_id |-> n.node_id, address |-> n.address, role |-> n.role]
             /\ n.address \in AllTexts
             /\ r.used = Len(NodeBytes(n)) /\ NodeBytes(n) \in Bytes
<1> DEFINE r == decode_node(d)
           w == decode_uint64(d)
           a == w.used
           t == decode_text_view(From(d, a), MAX_ADDRESS_SIZE)
           b == a + t.used
           y == decode_uint64(From(d, b))
           n == [node_id |-> w.val, address |-> t.val, role |-> Smaller(y.val, SPARE)]
           Bad == \/ w.val = 0
                  \/ t.val = <<>>
                  \/ y.val > SPARE /\ unknown_role_policy = "reject"
<1>1. r = IF w.ok THEN IF t.ok THEN IF y.ok THEN IF Bad THEN Fail ELSE Got(n, a + t.used + y.used)
                                   ELSE Fail ELSE Fail ELSE Fail
  BY Zenon DEF decode_node, Then
<1>2. w.ok /\ t.ok /\ y.ok /\ r = Got(n, a + t.used + y.used)
  <2> HIDE DEF r, w, t, y, Bad, n
  <2>1. r.ok
    BY DEF r
  <2> QED
    BY <1>1, <2>1, FailIsNot
<1>3. w.val \in Nat /\ a = WORD_SIZE /\ WORD_SIZE \in Nat /\ WORD_SIZE <= Len(d) /\ Len(d) \in Nat
  BY <1>2, WordMade, Nothing, WireSizesAssumption
<1> HIDE DEF r, n, w
<1>4. From(d, a) \in Bytes /\ Len(From(d, a)) = Len(d) - a
  BY <1>3, BytesBehind
<1>5. t.val \in AllTexts /\ t.used = Len(encode_text(t.val))
  BY <1>2, <1>4, ViewMade, CapsAssumption
<1>6. t.used \in 0..(Len(d) - a)
  <2>1. Uses(t, Len(From(d, a)))
    BY <1>4, Nothing, TextSteady, CapsAssumption DEF Steady
  <2> HIDE DEF t
  <2> QED
    BY <1>2, <1>4, <2>1 DEF Uses
<1> HIDE DEF t
<1>7. b \in 0..Len(d)
  BY <1>3, <1>6
<1>8. From(d, b) \in Bytes
  BY <1>7, BytesBehind
<1>9. y.val \in Nat /\ y.used = WORD_SIZE
  BY <1>2, <1>8, WordMade
<1> HIDE DEF y, b
<1> DEFINE role == Smaller(y.val, SPARE)
<1>10. role \in Nat
  BY <1>9 DEF Smaller, SPARE
<1>11. r.val = n /\ r.used = a + t.used + y.used
  BY <1>2 DEF Got
<1>12. n.node_id = w.val /\ n.address = t.val /\ n.role = role
       /\ n = [node_id |-> n.node_id, address |-> n.address, role |-> n.role]
  BY DEF n
<1> HIDE DEF role
<1> DEFINE p == encode_uint64(w.val)
           q == encode_text(t.val)
           z == encode_uint64(role)
<1>13. p \in Bytes /\ Len(p) = WORD_SIZE /\ z \in Bytes /\ Len(z) = WORD_SIZE
  BY <1>3, <1>10, LittleEndianBytes DEF encode_uint64, Bytes
<1>14. q \in Bytes /\ Len(q) = t.used
  BY <1>5, TextFacts, TextLength
<1>15. NodeBytes(n) = (p \o q) \o z
  BY <1>12 DEF NodeBytes
<1> HIDE DEF p, q, z
<1>16. p \o q \in Bytes /\ Len(p \o q) = WORD_SIZE + t.used
  <2>1. p \in Bytes /\ q \in Bytes
    BY <1>13, <1>14
  <2>2. p \o q \in Bytes /\ Len(p \o q) = Len(p) + Len(q)
    BY <2>1, More
  <2> QED
    BY <1>13, <1>14, <2>2
<1>17. (p \o q) \o z \in Bytes /\ Len((p \o q) \o z) = Len(p \o q) + WORD_SIZE
  BY <1>13, <1>16, More
<1>18. NodeBytes(n) \in Bytes /\ Len(NodeBytes(n)) = r.used
  BY <1>3, <1>9, <1>11, <1>15, <1>16, <1>17
<1> QED
  BY <1>5, <1>11, <1>12, <1>18 DEF r

\* A file as files_typed has it.
FileTyped(f) == f = [name |-> f.name, content |-> f.content] /\ f.name \in AllTexts /\ f.content \in AllBytes

\* A node as servers_typed has it.
NodeTyped(n) ==
  n = [node_id |-> n.node_id, address |-> n.address, role |-> n.role] /\ n.address \in AllTexts

\* Files.
LEMMA FileListMade ==
  ASSUME NEW d \in Bytes, NEW n \in Nat, Times(n, decode_file, d).ok
  PROVE  LET r == Times(n, decode_file, d) IN
         /\ IsSequence(r.val) /\ Len(r.val) = n /\ DOMAIN r.val = 1..n
         /\ \A k \in 1..n : FileTyped(r.val[k])
         /\ r.used = Len(FileListBytes(r.val)) /\ FileListBytes(r.val) \in Bytes
<1> DEFINE D == [k \in 1..n |-> [at \in 0..Len(d) |-> decode_file(From(d, at))]]
           r == Times(n, decode_file, d)
           w == r.val
           parts == [i \in DOMAIN w |-> FileBytes(w[i])]
<1>1. Len([i \in 1..n |-> i]) = n
  OBVIOUS
<1>2. r = InTurn(D)
  BY <1>1, Zenon DEF Times, Each
<1>3. Over(D, d, n)
  BY Zenon DEF Over
<1>4. \A k \in 1..n : \A at \in 0..Len(d) : D[k][at] = decode_file(From(d, at))
  BY Zenon
<1> HIDE DEF D, r
<1>5. ASSUME NEW k \in 1..n, NEW at \in 0..Len(d) PROVE Uses(D[k][at], Len(d) - at)
  <2>1. From(d, at) \in Bytes /\ Len(From(d, at)) = Len(d) - at
    BY BytesBehind
  <2>2. Uses(decode_file(From(d, at)), Len(From(d, at)))
    BY <2>1, Nothing, FileSteady DEF Steady
  <2> QED
    BY <1>4, <2>1, <2>2
<1>6. InTurn(D).ok
  BY <1>2 DEF r
<1>7. Len(D) = n /\ \E off, v : Collected(D, Len(d), off, v)
  BY <1>3, <1>5, <1>6, OverCollected
<1>8. PICK off, v : Collected(D, Len(d), off, v)
  BY <1>7
<1>9. v = w /\ IsSequence(w) /\ Len(w) = n
  BY <1>2, <1>7, <1>8 DEF Collected, Got
<1>10. ASSUME NEW k \in 1..n, NEW at \in 0..Len(d), D[k][at].ok
       PROVE  /\ FileTyped(D[k][at].val) /\ FileBytes(D[k][at].val) \in Bytes
              /\ D[k][at].used = Len(FileBytes(D[k][at].val))
  <2>1. From(d, at) \in Bytes
    BY BytesBehind
  <2>2. decode_file(From(d, at)).ok
    BY <1>4, <1>10
  <2> QED
    BY <1>4, <2>1, <2>2, FileMade DEF FileTyped
<1> HIDE DEF w
<1>11. ASSUME NEW k \in 1..n PROVE FileTyped(w[k]) /\ FileBytes(w[k]) \in Bytes
  <2>1. PICK at \in 0..Len(d) : D[k][at].ok /\ D[k][at].val = w[k]
    BY <1>7, <1>8, <1>9 DEF Collected
  <2> QED
    BY <1>10, <2>1
<1>12. DOMAIN w = 1..n
  BY <1>9, Items
<1>13. parts = [i \in 1..n |-> FileBytes(w[i])]
  BY <1>12
<1>14. parts \in Seq(Bytes) /\ Len(parts) = n /\ \A k \in 1..n : parts[k] = FileBytes(w[k])
  BY <1>11, <1>13
<1> HIDE DEF parts
<1>15. InTurn(D).used = Len(FlattenSeq(parts))
  <2>1. \A k \in 1..Len(D) : \A at \in 0..Len(d) :
          D[k][at].ok /\ D[k][at].val = v[k] => D[k][at].used = Len(parts[k])
    BY <1>7, <1>9, <1>10, <1>14
  <2> DEFINE B == 0..(BYTE - 1)
  <2>2. Len(D) \in Nat /\ Len(parts) = Len(D) /\ parts \in Seq(Seq(B))
    BY <1>7, <1>14 DEF Bytes
  <2> HIDE DEF B
  <2> QED
    BY <1>8, <2>1, <2>2, ListSized
<1>16. FlattenSeq(parts) \in Bytes
  BY <1>14, FlattenFacts DEF Bytes
<1> QED
  BY <1>2, <1>9, <1>11, <1>12, <1>15, <1>16 DEF r, w, parts, FileListBytes

\* Nodes.
LEMMA NodeListMade ==
  ASSUME NEW d \in Bytes, NEW n \in Nat, Times(n, decode_node, d).ok
  PROVE  LET r == Times(n, decode_node, d) IN
         /\ IsSequence(r.val) /\ Len(r.val) = n /\ DOMAIN r.val = 1..n
         /\ \A k \in 1..n : NodeTyped(r.val[k])
         /\ r.used = Len(NodeListBytes(r.val)) /\ NodeListBytes(r.val) \in Bytes
<1> DEFINE D == [k \in 1..n |-> [at \in 0..Len(d) |-> decode_node(From(d, at))]]
           r == Times(n, decode_node, d)
           w == r.val
           parts == [i \in DOMAIN w |-> NodeBytes(w[i])]
<1>1. Len([i \in 1..n |-> i]) = n
  OBVIOUS
<1>2. r = InTurn(D)
  BY <1>1, Zenon DEF Times, Each
<1>3. Over(D, d, n)
  BY Zenon DEF Over
<1>4. \A k \in 1..n : \A at \in 0..Len(d) : D[k][at] = decode_node(From(d, at))
  BY Zenon
<1> HIDE DEF D, r
<1>5. ASSUME NEW k \in 1..n, NEW at \in 0..Len(d) PROVE Uses(D[k][at], Len(d) - at)
  <2>1. From(d, at) \in Bytes /\ Len(From(d, at)) = Len(d) - at
    BY BytesBehind
  <2>2. Uses(decode_node(From(d, at)), Len(From(d, at)))
    BY <2>1, Nothing, NodeSteady DEF Steady
  <2> QED
    BY <1>4, <2>1, <2>2
<1>6. InTurn(D).ok
  BY <1>2 DEF r
<1>7. Len(D) = n /\ \E off, v : Collected(D, Len(d), off, v)
  BY <1>3, <1>5, <1>6, OverCollected
<1>8. PICK off, v : Collected(D, Len(d), off, v)
  BY <1>7
<1>9. v = w /\ IsSequence(w) /\ Len(w) = n
  BY <1>2, <1>7, <1>8 DEF Collected, Got
<1>10. ASSUME NEW k \in 1..n, NEW at \in 0..Len(d), D[k][at].ok
       PROVE  /\ NodeTyped(D[k][at].val) /\ NodeBytes(D[k][at].val) \in Bytes
              /\ D[k][at].used = Len(NodeBytes(D[k][at].val))
  <2>1. From(d, at) \in Bytes
    BY BytesBehind
  <2>2. decode_node(From(d, at)).ok
    BY <1>4, <1>10
  <2> QED
    BY <1>4, <2>1, <2>2, NodeMade DEF NodeTyped
<1> HIDE DEF w
<1>11. ASSUME NEW k \in 1..n PROVE NodeTyped(w[k]) /\ NodeBytes(w[k]) \in Bytes
  <2>1. PICK at \in 0..Len(d) : D[k][at].ok /\ D[k][at].val = w[k]
    BY <1>7, <1>8, <1>9 DEF Collected
  <2> QED
    BY <1>10, <2>1
<1>12. DOMAIN w = 1..n
  BY <1>9, Items
<1>13. parts = [i \in 1..n |-> NodeBytes(w[i])]
  BY <1>12
<1>14. parts \in Seq(Bytes) /\ Len(parts) = n /\ \A k \in 1..n : parts[k] = NodeBytes(w[k])
  BY <1>11, <1>13
<1> HIDE DEF parts
<1>15. InTurn(D).used = Len(FlattenSeq(parts))
  <2>1. \A k \in 1..Len(D) : \A at \in 0..Len(d) :
          D[k][at].ok /\ D[k][at].val = v[k] => D[k][at].used = Len(parts[k])
    BY <1>7, <1>9, <1>10, <1>14
  <2> DEFINE B == 0..(BYTE - 1)
  <2>2. Len(D) \in Nat /\ Len(parts) = Len(D) /\ parts \in Seq(Seq(B))
    BY <1>7, <1>14 DEF Bytes
  <2> HIDE DEF B
  <2> QED
    BY <1>8, <2>1, <2>2, ListSized
<1>16. FlattenSeq(parts) \in Bytes
  BY <1>14, FlattenFacts DEF Bytes
<1> QED
  BY <1>2, <1>9, <1>11, <1>12, <1>15, <1>16 DEF r, w, parts, NodeListBytes

-----------------------------------------------------------------------------
(* Bodies *)

\* A whole FilesResponse.
LEMMA FilesMade ==
  ASSUME NEW d \in Bytes, decode_files(d).ok
  PROVE  LET m == decode_files(d).val IN
         m.kind = "FilesResponse" /\ files_typed(m) /\ Len(encode_files(m)) = Len(d)
<1> DEFINE r == decode_files(d)
           w == decode_uint64(d)
           count == w.val
           at == w.used
           t == Times(count, decode_file, From(d, at))
           m == Files(t.val)
           Bad == count > MAX_FILE_COUNT \/ count > (Len(d) - at) \div (2 * WORD_SIZE)
           Good == Distinct(t.val, LAMBDA f : f.name) /\ consumed(d, at + t.used)
<1>1. r = IF w.ok THEN IF Bad THEN Fail ELSE IF t.ok THEN IF Good THEN Got(m, Len(d)) ELSE Fail
                       ELSE Fail ELSE Fail
  BY Zenon DEF decode_files, Then
<1>2. w.ok /\ t.ok /\ Good /\ r = Got(m, Len(d))
  <2> HIDE DEF r, w, t, Bad, Good, m
  <2>1. r.ok
    BY DEF r
  <2> QED
    BY <1>1, <2>1, FailIsNot
<1>3. count \in Nat /\ at = WORD_SIZE /\ WORD_SIZE \in Nat /\ WORD_SIZE <= Len(d) /\ Len(d) \in Nat
  BY <1>2, WordMade, Nothing, WireSizesAssumption
<1> HIDE DEF r, m, w
<1>4. From(d, at) \in Bytes
  BY <1>3, BytesBehind
<1>5. /\ IsSequence(t.val) /\ Len(t.val) = count /\ DOMAIN t.val = 1..count
      /\ \A k \in 1..count : FileTyped(t.val[k])
      /\ t.used = Len(FileListBytes(t.val)) /\ FileListBytes(t.val) \in Bytes
  BY <1>2, <1>3, <1>4, FileListMade
<1>6. Distinct(t.val, LAMBDA f : f.name) /\ at + t.used = Len(d)
  BY <1>2 DEF consumed
<1> HIDE DEF t, Good
<1>7. r.val = m
  BY <1>2 DEF Got
<1>8. m.kind = "FilesResponse" /\ m.files = t.val /\ m = Files(m.files)
  BY DEF m, Files
<1>9. files_typed(m)
  BY <1>5, <1>6, <1>8 DEF files_typed, FileTyped
<1>10. encode_files(m) = encode_uint64(count) \o FileListBytes(t.val)
  BY <1>5, <1>8, Zenon DEF encode_files, FileListBytes, FileBytes
<1> DEFINE u == encode_uint64(count)
           b == FileListBytes(t.val)
<1>11. u \in Bytes /\ Len(u) = WORD_SIZE
  BY <1>3, LittleEndianBytes DEF encode_uint64, Bytes
<1>12. b \in Bytes /\ Len(b) = t.used
  BY <1>5
<1> HIDE DEF u, b
<1>13. Len(u \o b) = Len(u) + Len(b)
  BY <1>11, <1>12, More
<1>14. Len(encode_files(m)) = Len(d)
  BY <1>3, <1>6, <1>10, <1>11, <1>12, <1>13 DEF u, b
<1> QED
  BY <1>7, <1>8, <1>9, <1>14 DEF r

\* A whole ServersResponse.
LEMMA ServersMade ==
  ASSUME NEW d \in Bytes, decode_servers(d).ok
  PROVE  LET m == decode_servers(d).val IN
         m.kind = "ServersResponse" /\ servers_typed(m) /\ Len(encode_servers(m)) = Len(d)
<1> DEFINE r == decode_servers(d)
           w == decode_uint64(d)
           count == w.val
           at == w.used
           t == Times(count, decode_node, From(d, at))
           m == Servers(t.val)
           Bad == count > MAX_NODE_COUNT \/ count > (Len(d) - at) \div (3 * WORD_SIZE)
           Good == Distinct(t.val, LAMBDA f : f.node_id) /\ consumed(d, at + t.used)
<1>1. r = IF w.ok THEN IF Bad THEN Fail ELSE IF t.ok THEN IF Good THEN Got(m, Len(d)) ELSE Fail
                       ELSE Fail ELSE Fail
  BY Zenon DEF decode_servers, Then
<1>2. w.ok /\ t.ok /\ Good /\ r = Got(m, Len(d))
  <2> HIDE DEF r, w, t, Bad, Good, m
  <2>1. r.ok
    BY DEF r
  <2> QED
    BY <1>1, <2>1, FailIsNot
<1>3. count \in Nat /\ at = WORD_SIZE /\ WORD_SIZE \in Nat /\ WORD_SIZE <= Len(d) /\ Len(d) \in Nat
  BY <1>2, WordMade, Nothing, WireSizesAssumption
<1> HIDE DEF r, m, w
<1>4. From(d, at) \in Bytes
  BY <1>3, BytesBehind
<1>5. /\ IsSequence(t.val) /\ Len(t.val) = count /\ DOMAIN t.val = 1..count
      /\ \A k \in 1..count : NodeTyped(t.val[k])
      /\ t.used = Len(NodeListBytes(t.val)) /\ NodeListBytes(t.val) \in Bytes
  BY <1>2, <1>3, <1>4, NodeListMade
<1>6. Distinct(t.val, LAMBDA f : f.node_id) /\ at + t.used = Len(d)
  BY <1>2 DEF consumed
<1> HIDE DEF t, Good
<1>7. r.val = m
  BY <1>2 DEF Got
<1>8. m.kind = "ServersResponse" /\ m.nodes = t.val /\ m = Servers(m.nodes)
  BY DEF m, Servers
<1>9. servers_typed(m)
  BY <1>5, <1>6, <1>8 DEF servers_typed, NodeTyped
<1>10. encode_servers(m) = encode_uint64(count) \o NodeListBytes(t.val)
  BY <1>5, <1>8, Zenon DEF encode_servers, NodeListBytes, NodeBytes
<1> DEFINE u == encode_uint64(count)
           b == NodeListBytes(t.val)
<1>11. u \in Bytes /\ Len(u) = WORD_SIZE
  BY <1>3, LittleEndianBytes DEF encode_uint64, Bytes
<1>12. b \in Bytes /\ Len(b) = t.used
  BY <1>5
<1> HIDE DEF u, b
<1>13. Len(u \o b) = Len(u) + Len(b)
  BY <1>11, <1>12, More
<1>14. Len(encode_servers(m)) = Len(d)
  BY <1>3, <1>6, <1>10, <1>11, <1>12, <1>13 DEF u, b
<1> QED
  BY <1>7, <1>8, <1>9, <1>14 DEF r

-----------------------------------------------------------------------------
(* Flat messages and failures *)

\* The fields a flat message is made of, and its schema, are those that were read.
LEMMA FlatTyped ==
  ASSUME NEW kind \in FlatKinds \ {"Promote", "LegacyLeader"}, NEW schema \in schemas(kind), NEW w,
         fields_typed(w, flat_layout(kind, schema)),
         kind = "StmtResponse" => Len(w) = Len(StmtResponse(schema))
  PROVE  LET m == Flat(kind, w, schema, TRUE) IN
         /\ m.kind = kind /\ flat_typed(m)
         /\ encode_flat(m) = encode_fields(w, flat_layout(kind, schema))
<1> DEFINE m == Flat(kind, w, schema, TRUE)
<1>1. m.kind = kind /\ m.fields = w /\ m.schema = schema /\ m = Flat(m.kind, m.fields, m.schema, m.decoded)
  BY DEF Flat
<1>2. schema \in {0, 1}
  BY DEF schemas
<1> HIDE DEF m
<1>3. flat_schema(m) = schema
  BY <1>1, <1>2, NoneAssumption DEF flat_schema
<1>4. ~(kind = "StmtResponse" /\ schema = 1 /\ Len(w) = 3)
  <2>1. kind = "StmtResponse" /\ schema = 1 => Len(w) = 4
    BY StmtLayout
  <2> HIDE DEF m
  <2>2. ASSUME kind = "StmtResponse", schema = 1, Len(w) = 3 PROVE FALSE
    BY <2>1, <2>2
  <2> QED
    BY <2>2
<1>5. flat_fields(m) = w
  BY <1>1, <1>4 DEF flat_fields
<1>6. kind \in Classes /\ kind # "Promote"
  BY ClassNames DEF FlatKinds, WordRequests, NodeAddressRequests, OneKind
<1>7. flat_typed(m)
  BY <1>1, <1>3, <1>5, <1>6, Zenon DEF flat_typed, Classes
<1> QED
  BY <1>1, <1>3, <1>5, <1>7, Zenon DEF m, encode_flat

\* A flat message.
LEMMA FlatMade ==
  ASSUME NEW d \in Bytes, NEW kind \in FlatKinds \ {"Promote", "LegacyLeader"},
         NEW schema \in schemas(kind), decode_flat(kind, d, schema).ok
  PROVE  LET m == decode_flat(kind, d, schema).val IN
         /\ m.kind = kind /\ flat_typed(m)
         /\ kind # "AssignRequest" => Len(encode_flat(m)) = Len(d)
<1> DEFINE short == kind = "AssignRequest" /\ Len(d) = WORD_SIZE
           layout == flat_layout(IF short THEN "Promote" ELSE kind, schema)
           r == decode_fields(d, layout)
           w == r.val
           m == Flat(kind, w, schema, TRUE)
           a == decode_flat(kind, d, schema)
           Good == r.used = Len(d) /\ (kind = "LeaderResponse" => leader_atomic(w))
<1>1. a = IF r.ok THEN IF Good THEN Got(m, Len(d)) ELSE Fail ELSE Fail
  BY Zenon DEF decode_flat, FlatOf, Then
<1>2. r.ok /\ r.used = Len(d) /\ a = Got(m, Len(d))
  <2> HIDE DEF r, a, m, Good
  <2>1. a.ok
    BY DEF a
  <2>2. r.ok /\ Good /\ a = Got(m, Len(d))
    BY <1>1, <2>1, FailIsNot
  <2> QED
    BY <2>2 DEF Good
<1>3. a.val = m
  BY <1>2 DEF Got
<1>4. LayoutOk(layout)
  <2>1. LayoutOk(flat_layout(kind, schema))
    BY FlatLayouts
  <2>2. LayoutOk(flat_layout("Promote", schema))
    <3>1. flat_layout("Promote", schema) = Promote
      BY DEF flat_layout, WordRequests, NodeAddressRequests
    <3> QED
      BY <3>1, NamedLayouts
  <2> QED
    BY <2>1, <2>2
<1> HIDE DEF r, m, a
<1>5. /\ IsSequence(w) /\ Len(w) = Len(layout) /\ fields_typed(w, layout)
      /\ Len(d) = Len(encode_fields(w, layout))
  BY <1>2, <1>4, FieldsMade DEF r
<1> HIDE DEF w
<1>6. CASE ~short
  <2>1. layout = flat_layout(kind, schema)
    BY <1>6
  <2>2. kind = "StmtResponse" => layout = StmtResponse(schema)
    BY <2>1 DEF flat_layout, WordRequests, NodeAddressRequests
  <2> HIDE DEF layout, short
  <2>3. m.kind = kind /\ flat_typed(m) /\ encode_flat(m) = encode_fields(w, layout)
    <3>1. fields_typed(w, flat_layout(kind, schema))
      BY <1>5, <2>1
    <3>2. kind = "StmtResponse" => Len(w) = Len(StmtResponse(schema))
      BY <1>5, <2>2
    <3> QED
      BY <2>1, <3>1, <3>2, FlatTyped DEF m
  <2> QED
    BY <1>3, <1>5, <2>3 DEF a
<1>7. CASE short
  <2>1. kind = "AssignRequest"
    BY <1>7
  <2>2. flat_layout(kind, schema) = AssignRequest
    BY <2>1 DEF flat_layout, WordRequests, NodeAddressRequests
  <2>3. AssignRequest = <<uint64, capped(SPARE)>> /\ uint64.of = "uint" /\ capped(SPARE).of = "uint"
    BY Uint64Ok DEF AssignRequest, capped, Field
  <2>4. \A i \in DOMAIN AssignRequest : AssignRequest[i].of = "uint"
    BY <2>3
  <2>5. fields_typed(w, flat_layout(kind, schema))
    BY <1>5, <2>2, <2>4 DEF fields_typed
  <2>6. m.kind = kind /\ flat_typed(m)
    BY <2>1, <2>5, FlatTyped DEF m
  <2> QED
    BY <1>3, <2>1, <2>6 DEF a
<1> QED
  BY <1>6, <1>7

\* A LEADER response of the old protocol.
LEMMA LegacyMade ==
  ASSUME NEW d \in Bytes, decode_body_legacy(d).ok
  PROVE  LET m == decode_body_legacy(d).val IN m.kind = "LeaderResponse" /\ flat_typed(m)
<1> DEFINE r == decode_fields(d, LegacyLeader)
           w == r.val
           m == Flat("LeaderResponse", w, 0, TRUE)
           a == decode_body_legacy(d)
<1>1. a = IF r.ok THEN IF consumed(d, r.used) THEN Got(m, r.used) ELSE Fail ELSE Fail
  BY Zenon DEF decode_body_legacy, Then
<1>2. r.ok /\ a = Got(m, r.used)
  <2> HIDE DEF r, a, m
  <2>1. a.ok
    BY DEF a
  <2> QED
    BY <1>1, <2>1, FailIsNot
<1>3. a.val = m
  BY <1>2 DEF Got
<1> HIDE DEF r, m, a
<1>4. IsSequence(w) /\ Len(w) = Len(LegacyLeader) /\ fields_typed(w, LegacyLeader)
  BY <1>2, NamedLayouts, FieldsMade DEF r
<1> HIDE DEF w
<1>5. LegacyLeader = <<uint(0), text(MAX_ADDRESS_SIZE)>> /\ LeaderResponse = <<uint64, text(MAX_ADDRESS_SIZE)>>
      /\ text(MAX_ADDRESS_SIZE).of = "text" /\ uint64.of = "uint"
  BY Uint64Ok, TextsOk, CapFacts DEF LegacyLeader, LeaderResponse
<1>6. DOMAIN LegacyLeader = 1..2 /\ DOMAIN LeaderResponse = 1..2
      /\ LegacyLeader[2] = text(MAX_ADDRESS_SIZE) /\ LeaderResponse[2] = text(MAX_ADDRESS_SIZE)
      /\ LeaderResponse[1] = uint64
  BY <1>5
<1>7. w[2] \in AllTexts
  BY <1>4, <1>5, <1>6 DEF fields_typed
<1>8. fields_typed(w, LeaderResponse)
  <2>1. \A i \in 1..2 : i = 1 \/ i = 2
    OBVIOUS
  <2> QED
    BY <1>4, <1>5, <1>6, <1>7, <2>1 DEF fields_typed
<1>9. flat_layout("LeaderResponse", 0) = LeaderResponse
  BY DEF flat_layout, WordRequests, NodeAddressRequests
<1>10. "LeaderResponse" \in FlatKinds \ {"Promote", "LegacyLeader"} /\ 0 \in schemas("LeaderResponse")
  BY DEF FlatKinds, OneKind, schemas
<1>11. m.kind = "LeaderResponse" /\ flat_typed(m)
  <2>1. fields_typed(w, flat_layout("LeaderResponse", 0))
    BY <1>8, <1>9
  <2> QED
    BY <1>10, <2>1, FlatTyped DEF m
<1> QED
  BY <1>3, <1>11 DEF a

-----------------------------------------------------------------------------
(* Failures *)

\* Control characters become question marks, and a text stays a text.
LEMMA SanitizedText ==
  ASSUME NEW s \in AllTexts
  PROVE  sanitize_server_text(s) \in AllTexts
<1> DEFINE z == sanitize_server_text(s)
           n == Len(s)
<1> DEFINE T == 0..127
<1>0. s \in Seq(T)
  BY DEF AllTexts
<1> HIDE DEF T
<1>1. n \in Nat /\ DOMAIN s = 1..n /\ \A i \in 1..n : s[i] \in T
  BY <1>0
<1>2. z = [i \in 1..n |-> IF s[i] \in (0..8) \cup (11..31) \cup {127} THEN 63 ELSE s[i]]
  BY <1>1 DEF sanitize_server_text
<1> HIDE DEF n, z
<1>3. 63 \in T
  BY DEF T
<1>4. z \in Seq(T)
  BY <1>1, <1>2, <1>3
<1> QED
  BY <1>4 DEF T, AllTexts, z

\* A code and a message.
LEMMA RecordMade ==
  ASSUME NEW d \in Bytes, FailureRecord(d).ok
  PROVE  LET r == FailureRecord(d)
             m == r.val
         IN  m = Failure(m.code, m.message) /\ m.message \in AllTexts
<1> DEFINE a == FailureRecord(d)
           w == decode_uint64(d)
           r == decode_text(From(d, w.used), MAX_FAILURE_MESSAGE_SIZE)
           m == Failure(w.val, r.val)
<1>1. w.ok /\ r.ok /\ a = Got(m, w.used + r.used)
  BY FailIsNot, Zenon DEF FailureRecord, Then
<1>2. a.val = m
  BY <1>1 DEF Got
<1>3. m.code = w.val /\ m.message = r.val /\ m = Failure(m.code, m.message)
  BY DEF Failure
<1>4. w.used = WORD_SIZE /\ WORD_SIZE \in Nat /\ WORD_SIZE <= Len(d) /\ Len(d) \in Nat
  BY <1>1, WordMade, Nothing, WireSizesAssumption
<1> HIDE DEF a, m, w
<1>5. From(d, w.used) \in Bytes
  BY <1>4, BytesBehind
<1>6. r.val \in AllTexts
  BY <1>1, <1>5, TextMade, CapsAssumption
<1> QED
  BY <1>2, <1>3, <1>6 DEF a

\* The record behind the column names of a rows header.
LEMMA TrailingMade ==
  ASSUME NEW d \in Bytes, NEW count \in Nat, WORD_SIZE <= Len(d), recover_trailing(d, count).ok
  PROVE  LET m == recover_trailing(d, count).val IN m = Failure(m.code, m.message) /\ m.message \in AllTexts
<1> DEFINE a == recover_trailing(d, count)
           name(e) == decode_text(e, MAX_COLUMN_NAME_SIZE)
           b == From(d, WORD_SIZE)
           t == Times(count, name, b)
           o == WORD_SIZE + t.used
           r == FailureRecord(From(d, o))
           D == [k \in 1..count |-> [at \in 0..Len(b) |-> name(From(b, at))]]
<1>1. a = IF count > MAX_COLUMN_COUNT THEN Fail
          ELSE IF t.ok THEN IF r.ok THEN IF consumed(d, o + r.used) THEN Got(r.val, r.used) ELSE Fail
               ELSE Fail ELSE Fail
  BY Zenon DEF recover_trailing, Then
<1>2. t.ok /\ r.ok /\ a = Got(r.val, r.used)
  <2> HIDE DEF t, r, a, o
  <2>1. a.ok
    BY DEF a
  <2> QED
    BY <1>1, <2>1, FailIsNot
<1>3. a.val = r.val
  BY <1>2 DEF Got
<1>4. WORD_SIZE \in Nat /\ Len(d) \in Nat /\ b \in Bytes /\ Len(b) = Len(d) - WORD_SIZE
  <2>1. WORD_SIZE \in Nat /\ Len(d) \in Nat
    BY WireSizesAssumption, Nothing
  <2>2. WORD_SIZE \in 0..Len(d)
    BY <2>1
  <2> QED
    BY <2>1, <2>2, BytesBehind
<1> HIDE DEF a, r, b
<1>5. t.used \in 0..Len(b)
  <2>1. Len([i \in 1..count |-> i]) = count
    OBVIOUS
  <2>2. t = InTurn(D)
    BY <2>1, Zenon DEF Times, Each
  <2>3. Over(D, b, count)
    BY Zenon DEF Over
  <2>4. \A k \in 1..count : \A at \in 0..Len(b) : D[k][at] = name(From(b, at))
    BY Zenon
  <2> HIDE DEF D, t
  <2>5. ASSUME NEW k \in 1..count, NEW at \in 0..Len(b) PROVE Steady(D[k][at], D[k][at], Len(b) - at)
    <3>1. From(b, at) \in Bytes /\ Len(From(b, at)) = Len(b) - at
      BY <1>4, BytesBehind
    <3>2. Uses(name(From(b, at)), Len(From(b, at)))
      BY <3>1, Nothing, TextSteady, CapsAssumption DEF Steady
    <3> HIDE DEF name
    <3> QED
      BY <2>4, <3>1, <3>2 DEF Steady
  <2>6. b \o <<>> = b
    BY <1>4, Nothing
  <2>7. Over(D, b \o <<>>, count)
    BY <2>3, <2>6
  <2>8. Steady(InTurn(D), InTurn(D), Len(b))
    BY <1>4, <2>3, <2>5, <2>7, Nothing, OverSteady
  <2> QED
    BY <1>2, <2>2, <2>8 DEF Steady, Uses
<1> HIDE DEF t
<1>6. o \in 0..Len(d)
  BY <1>4, <1>5
<1>7. From(d, o) \in Bytes
  BY <1>6, BytesBehind
<1> HIDE DEF o
<1>8. LET m == r.val IN m = Failure(m.code, m.message) /\ m.message \in AllTexts
  BY <1>2, <1>7, RecordMade DEF r
<1> QED
  BY <1>3, <1>8 DEF a

\* A whole FailureResponse.
LEMMA FailureMade ==
  ASSUME NEW d \in Bytes, decode_failure(d).ok
  PROVE  LET m == decode_failure(d).val IN m.kind = "FailureResponse" /\ failure_typed(m)
<1> DEFINE a == decode_failure(d)
           r == FailureRecord(d)
           first == r.val
           t == recover_trailing(d, first.code)
           chosen == IF r.used = Len(d) THEN first ELSE IF t.ok THEN t.val ELSE first
           m == [chosen EXCEPT !.message = sanitize_server_text(@)]
<1>1. a = IF r.ok THEN Got(m, Len(d)) ELSE Fail
  BY Zenon DEF decode_failure, Then, Chosen
<1>2. r.ok /\ a = Got(m, Len(d))
  <2> HIDE DEF r, a, m
  <2>1. a.ok
    BY DEF a
  <2> QED
    BY <1>1, <2>1, FailIsNot
<1>3. a.val = m
  BY <1>2 DEF Got
<1>4. first = Failure(first.code, first.message) /\ first.message \in AllTexts
  BY <1>2, RecordMade
<1>5. first.code \in Nat /\ WORD_SIZE <= Len(d)
  <2> DEFINE w == decode_uint64(d)
             x == decode_text(From(d, w.used), MAX_FAILURE_MESSAGE_SIZE)
  <2>1. w.ok /\ r = Got(Failure(w.val, x.val), w.used + x.used)
    BY <1>2, FailIsNot, Zenon DEF FailureRecord, Then
  <2>2. first.code = w.val
    BY <2>1 DEF Got, Failure
  <2> QED
    BY <2>1, <2>2, WordMade
<1>6. t.ok => LET n == t.val IN n = Failure(n.code, n.message) /\ n.message \in AllTexts
  BY <1>5, TrailingMade
<1> HIDE DEF r, t, first, a
<1>7. chosen = Failure(chosen.code, chosen.message) /\ chosen.message \in AllTexts
  BY <1>4, <1>6
<1> HIDE DEF chosen
<1>8. m = Failure(chosen.code, sanitize_server_text(chosen.message))
  BY <1>7, Sanitized, Zenon
<1> DEFINE z == sanitize_server_text(chosen.message)
<1>9. z \in AllTexts
  BY <1>7, SanitizedText
<1> HIDE DEF z, m
<1>10. m = Failure(chosen.code, z)
  BY <1>8 DEF z
<1>11. m.kind = "FailureResponse" /\ m.code = chosen.code /\ m.message = z
  BY <1>10 DEF Failure
<1>12. failure_typed(m)
  BY <1>9, <1>10, <1>11 DEF failure_typed
<1> QED
  BY <1>3, <1>11, <1>12 DEF a

-----------------------------------------------------------------------------
(* Statements *)

\* Behind whole words a count alone is padded to a word.
LEMMA CountPadded ==
  ASSUME NEW schema \in {0, 1}, NEW offset \in Nat, NEW w \in Nat, offset = w * WORD_SIZE
  PROVE  CountSize(schema) + pad_to_word(offset + CountSize(schema)) = WORD_SIZE
<1> DEFINE cs == CountSize(schema)
<1>1. cs \in 1..WORD_SIZE /\ cs \in Nat
  BY TupleSizesAssumption, WireSizesAssumption DEF CountSize
<1>2. offset + cs \in Nat /\ (w + 1) \in Nat
  BY <1>1
<1>3. (w + 1) * WORD_SIZE = offset + WORD_SIZE
  BY Sizes
<1>4. (w + 1) * WORD_SIZE \in (offset + cs)..(offset + cs + WORD_SIZE - 1)
  BY <1>1, <1>3, Sizes
<1>5. (w + 1) * WORD_SIZE = offset + cs + pad_to_word(offset + cs)
  BY <1>2, <1>4, Padding
<1>6. pad_to_word(offset + cs) \in Nat
  BY <1>2, PadNat
<1> HIDE DEF cs
<1> QED
  BY <1>1, <1>3, <1>5, <1>6, Sizes DEF cs

\* Count and type codes.
LEMMA ParamsHeaderLength ==
  ASSUME NEW types \in Seq(ValueType), NEW schema \in {0, 1}, NEW offset \in Nat
  PROVE  LET n == CountSize(schema) + Len(types) IN
         /\ ParamsHeader(types, schema, offset) \in Bytes
         /\ Len(ParamsHeader(types, schema, offset)) = n + pad_to_word(offset + n)
<1> DEFINE cs == CountSize(schema)
           cf == CountField(Len(types), schema)
           n == cs + Len(types)
           head == cf \o types
           pad == pad_to_word(offset + n)
           z == Zeros(pad)
<1>1. cs \in Nat /\ Len(types) \in Nat
  BY TupleSizesAssumption, WireSizesAssumption DEF CountSize
<1>2. cf \in Bytes /\ Len(cf) = cs
  BY <1>1, LittleEndianBytes DEF CountField, Bytes
<1>3. types \in Bytes
  <2>1. ValueType \subseteq 0..(BYTE - 1)
    BY Tags DEF BYTE
  <2> DEFINE B == 0..(BYTE - 1)
             V == ValueType
  <2> HIDE DEF B, V
  <2>2. types \in Seq(V) /\ V \subseteq B
    BY <2>1 DEF B, V
  <2>3. types \in Seq(B)
    BY <2>2, SeqSubset
  <2> QED
    BY <2>3 DEF B, Bytes
<1> HIDE DEF cf, cs
<1>4. head \in Bytes /\ Len(head) = n
  BY <1>2, <1>3, More
<1>5. pad \in Nat
  <2>1. offset + n \in Nat
    BY <1>1
  <2> HIDE DEF n
  <2> QED
    BY <2>1, PadNat
<1>6. ParamsHeader(types, schema, offset) = head \o z
  <2>1. ParamsHeader(types, schema, offset) = head \o Zeros(pad_to_word(offset + Len(head)))
    BY Zenon DEF ParamsHeader, cf
  <2> HIDE DEF head
  <2> QED
    BY <1>4, <2>1
<1> HIDE DEF head, pad
<1>7. z \in Bytes /\ Len(z) = pad
  BY <1>5, ZerosFacts
<1> HIDE DEF z
<1>8. head \o z \in Bytes /\ Len(head \o z) = Len(head) + Len(z)
  BY <1>4, <1>7, More
<1> QED
  BY <1>4, <1>6, <1>7, <1>8 DEF pad, cs

\* The types inferred for values.
LEMMA InferredTypes ==
  ASSUME NEW w, are_values(w), NEW n \in Nat, DOMAIN w = 1..n
  PROVE  LET types == [i \in DOMAIN w |-> infer_value_type(w[i])] IN
         types \in Seq(ValueType) /\ Len(types) = n /\ \A i \in 1..n : types[i] = infer_value_type(w[i])
<1>1. \A i \in 1..n : infer_value_type(w[i]) \in ValueType
  <2>1. ASSUME NEW i \in 1..n PROVE infer_value_type(w[i]) \in ValueType
    <3>1. is_value(w[i])
      BY DEF are_values
    <3> QED
      BY <3>1, ValueIsPy, Inferred
  <2> QED
    BY <2>1
<1> HIDE DEF ValueType
<1> QED
  BY <1>1

\* A tuple of parameters.
LEMMA ParamsMade ==
  ASSUME NEW d \in Bytes, NEW schema \in {0, 1}, NEW offset \in Nat, NEW words \in Nat,
         offset = words * WORD_SIZE, decode_params_tuple(d, schema, offset).ok
  PROVE  LET r == decode_params_tuple(d, schema, offset)
             b == encode_params_tuple(r.val, schema, offset, r.val = <<>> /\ r.used > 0)
         IN  are_values(r.val) /\ b \in Bytes /\ Len(b) = r.used
<1> DEFINE r == decode_params_tuple(d, schema, offset)
           b == encode_params_tuple(r.val, schema, offset, r.val = <<>> /\ r.used > 0)
           cs == CountSize(schema)
           count == Number(SubSeq(d, 1, cs))
           n == cs + count
           padded == n + pad_to_word(offset + n)
           types == SubSeq(d, cs + 1, n)
           e == From(d, padded)
           v == decode_row_values(e, types)
           Bad == \/ count > MAX_PARAM_COUNT
                  \/ Len(d) < padded
                  \/ ~ToSet(types) \subseteq ValueType \ {UNIXTIME}
<1>1. r = IF d = <<>> THEN Got(<<>>, 0)
          ELSE IF Len(d) < WORD_SIZE THEN Fail
          ELSE IF count = 0 THEN Got(<<>>, padded)
          ELSE IF Bad THEN Fail
          ELSE IF v.ok THEN Got(v.val, padded + v.used) ELSE Fail
  BY Zenon DEF decode_params_tuple, Then, decode_row_values
<1>2. r.ok
  OBVIOUS
<1>3. are_values(<<>>)
  BY DEF are_values, IsSequence
<1>4. CASE d = <<>>
  <2>1. r.val = <<>> /\ r.used = 0
    BY <1>1, <1>4 DEF Got
  <2> HIDE DEF r
  <2>2. b = <<>>
    BY <2>1 DEF encode_params_tuple
  <2> QED
    BY <1>3, <2>1, <2>2, Nothing DEF r
<1>5. cs \in Nat /\ cs >= 1 /\ cs <= WORD_SIZE /\ WORD_SIZE \in Nat \ {0} /\ Len(d) \in Nat
  BY TupleSizesAssumption, WireSizesAssumption, Nothing DEF CountSize
<1>6. CASE d # <<>> /\ count = 0
  <2>1. n = cs
    BY <1>5, <1>6
  <2>2. padded = WORD_SIZE
    BY <2>1, CountPadded
  <2> HIDE DEF padded, count, r, v, Bad
  <2>3. r.val = <<>> /\ r.used = WORD_SIZE
    <3>1. r = Got(<<>>, padded)
      BY <1>1, <1>2, <1>6, FailIsNot
    <3> QED
      BY <2>2, <3>1 DEF Got
  <2>4. b = Zeros(WORD_SIZE)
    BY <1>5, <2>3 DEF encode_params_tuple
  <2>5. Zeros(WORD_SIZE) \in Bytes /\ Len(Zeros(WORD_SIZE)) = WORD_SIZE
    BY <1>5, ZerosFacts
  <2> QED
    BY <1>3, <2>3, <2>4, <2>5 DEF r
<1>7. CASE d # <<>> /\ count # 0
  <2>1. ~(Len(d) < WORD_SIZE) /\ ~Bad /\ v.ok /\ r = Got(v.val, padded + v.used)
    <3> HIDE DEF padded, count, r, v, Bad
    <3> QED
      BY <1>1, <1>2, <1>7, FailIsNot
  <2>2. r.val = v.val /\ r.used = padded + v.used
    BY <2>1 DEF Got
  <2>3. count \in Nat
    <3>1. decode_uint(d, cs).ok
      BY <1>5, <2>1 DEF decode_uint, Got
    <3>2. decode_uint(d, cs) = Got(count, cs) /\ count \in 0..(Codes(cs) - 1)
      BY <1>5, <3>1, UintGot
    <3> HIDE DEF count
    <3> QED
      BY <3>2
  <2> HIDE DEF count, cs, r, v
  <2>4. n \in Nat /\ pad_to_word(offset + n) \in Nat /\ padded \in Nat /\ padded <= Len(d) /\ n <= padded
    <3>1. n \in Nat /\ offset + n \in Nat
      BY <1>5, <2>3
    <3>2. pad_to_word(offset + n) \in Nat
      BY <3>1, PadNat
    <3> QED
      BY <1>5, <2>1, <3>1, <3>2
  <2>5. types \in Seq(0..(BYTE - 1)) /\ Len(types) = count
    <3> DEFINE B == 0..(BYTE - 1)
    <3>1. d \in Seq(B)
      BY DEF Bytes
    <3> HIDE DEF B
    <3>2. SubSeq(d, cs + 1, cs + count) \in Seq(B) /\ Len(SubSeq(d, cs + 1, cs + count)) = count
      <4>1. cs + count <= Len(d)
        BY <1>5, <2>3, <2>4
      <4> QED
        BY <1>5, <2>3, <3>1, <4>1, PartOf
    <3> QED
      BY <3>2 DEF B
  <2>6. \A k \in 1..count : types[k] \in ValueType
    <3>1. ToSet(types) \subseteq ValueType
      BY <2>1
    <3> HIDE DEF types, ValueType
    <3>2. \A k \in 1..count : types[k] \in ToSet(types)
      BY <2>3, <2>5 DEF ToSet
    <3> QED
      BY <3>1, <3>2
  <2> HIDE DEF padded, n
  <2>7. e \in Bytes
    <3>1. padded \in 0..Len(d)
      BY <1>5, <2>4
    <3> QED
      BY <3>1, BytesBehind
  <2> HIDE DEF types, e
  <2> DEFINE w == v.val
             inferred == FlattenSeq([i \in DOMAIN w |-> encode_value(w[i], infer_value_type(w[i]))])
             again == [i \in DOMAIN w |-> infer_value_type(w[i])]
  <2>8. /\ are_values(w) /\ Len(w) = count /\ DOMAIN w = 1..count
        /\ v.used = Len(inferred) /\ inferred \in Bytes
    BY <2>1, <2>3, <2>5, <2>6, <2>7, ValuesMade DEF v
  <2> HIDE DEF w
  <2>9. again \in Seq(ValueType) /\ Len(again) = count /\ \A i \in 1..count : again[i] = infer_value_type(w[i])
    BY <2>3, <2>8, InferredTypes
  <2>10. w # <<>>
    BY <1>7, <2>8
  <2> DEFINE head == ParamsHeader(again, schema, offset)
             body == FlattenSeq([i \in DOMAIN w |-> encode_value(w[i], again[i])])
  <2>11. r.val = w
    BY <2>2 DEF w
  <2>12. b = head \o body
    BY <2>10, <2>11, Zenon DEF encode_params_tuple
  <2> HIDE DEF b
  <2>13. body = inferred
    BY <2>8, <2>9
  <2> HIDE DEF again, inferred, body
  <2>14. head \in Bytes /\ Len(head) = padded
    BY <2>9, ParamsHeaderLength DEF padded, n, cs
  <2> HIDE DEF head
  <2>15. head \o body \in Bytes /\ Len(head \o body) = Len(head) + Len(body)
    BY <2>8, <2>13, <2>14, More
  <2> QED
    BY <2>2, <2>8, <2>11, <2>12, <2>13, <2>14, <2>15 DEF r, b
<1> QED
  BY <1>4, <1>6, <1>7

\* A whole statement request.
LEMMA StatementMade ==
  ASSUME NEW d \in Bytes, NEW kind \in ParamsRequests, NEW schema \in {0, 1},
         decode_statement(kind, d, schema).ok
  PROVE  LET m == decode_statement(kind, d, schema).val IN
         m.kind = kind /\ statement_typed(m) /\ Len(encode_statement(m)) = Len(d)
<1> DEFINE a == decode_statement(kind, d, schema)
           layout == prefix_layout(kind)
           p == decode_fields(d, layout)
           t == decode_params_tuple(From(d, p.used), schema, p.used)
           empty == t.val = <<>> /\ t.used > 0
           m == Statement(kind, p.val, t.val, schema, empty)
<1>1. a = IF p.ok THEN IF t.ok THEN IF ~consumed(d, p.used + t.used) THEN Fail ELSE Got(m, Len(d))
          ELSE Fail ELSE Fail
  BY Zenon DEF decode_statement, Then, empty_header_seen
<1>2. p.ok /\ t.ok /\ p.used + t.used = Len(d) /\ a = Got(m, Len(d))
  <2> HIDE DEF p, t, a, m
  <2>1. a.ok
    BY DEF a
  <2>2. p.ok /\ t.ok /\ consumed(d, p.used + t.used) /\ a = Got(m, Len(d))
    BY <1>1, <2>1, FailIsNot
  <2> QED
    BY <2>2 DEF consumed
<1>3. a.val = m
  BY <1>2 DEF Got
<1>4. LayoutOk(layout)
  BY PrefixLayouts DEF prefix_layout
<1> DEFINE pre == encode_fields(p.val, layout)
<1> HIDE DEF a, m, t
<1>5. fields_typed(p.val, layout) /\ p.used = Len(pre) /\ WholeWords(pre)
  BY <1>2, <1>4, FieldsMade
<1>6. p.used \in 0..Len(d)
  <2>1. Uses(p, Len(d))
    BY <1>4, Nothing, FieldsSteady DEF Steady
  <2> HIDE DEF p
  <2> QED
    BY <1>2, <2>1 DEF Uses
<1> HIDE DEF p, pre, layout
<1>7. From(d, p.used) \in Bytes /\ Len(d) \in Nat /\ p.used \in Nat
  <2>1. Len(d) \in Nat
    BY Nothing
  <2>2. From(d, p.used) \in Bytes
    BY <1>6, BytesBehind
  <2> QED
    BY <1>6, <2>1, <2>2
<1>8. PICK words \in Nat : p.used = words * WORD_SIZE
  BY <1>5 DEF WholeWords
<1> DEFINE params == encode_params_tuple(t.val, schema, p.used, empty)
<1>9. are_values(t.val) /\ params \in Bytes /\ Len(params) = t.used
  BY <1>2, <1>7, <1>8, ParamsMade DEF t
<1>10. empty \in BOOLEAN
  OBVIOUS
<1> HIDE DEF empty
<1>11. /\ m.kind = kind /\ m.prefix = p.val /\ m.params = t.val /\ m.decoded_schema = schema
       /\ m.decoded_empty_header = empty
       /\ m = Statement(m.kind, m.prefix, m.params, m.decoded_schema, m.decoded_empty_header)
  BY DEF m, Statement
<1>12. statement_typed(m)
  BY <1>5, <1>9, <1>10, <1>11 DEF statement_typed, layout
<1>13. params_schema(m) = schema
  BY <1>11, NoneAssumption DEF params_schema
<1>14. encode_statement(m) = pre \o params
  BY <1>5, <1>11, <1>13, Zenon DEF encode_statement, WithParams, pre, layout
<1> HIDE DEF params, m
<1>15. Len(pre \o params) = Len(pre) + Len(params)
  BY <1>5, <1>9, More DEF WholeWords
<1>16. Len(encode_statement(m)) = Len(d)
  BY <1>2, <1>5, <1>9, <1>14, <1>15
<1> QED
  BY <1>3, <1>11, <1>12, <1>16 DEF a

-----------------------------------------------------------------------------
(* Rows *)

\* One item more.
LEMMA Appended ==
  ASSUME NEW s, IsSequence(s), NEW x
  PROVE  LET t == Append(s, x) IN
         /\ IsSequence(t) /\ Len(t) = Len(s) + 1 /\ DOMAIN t = 1..(Len(s) + 1)
         /\ t[Len(s) + 1] = x /\ \A i \in 1..Len(s) : t[i] = s[i]
<1> DEFINE n == Len(s)
           V == {s[i] : i \in DOMAIN s} \cup {x}
           t == Append(s, x)
<1>1. n \in Nat /\ s \in Seq({s[i] : i \in DOMAIN s})
  BY Items
<1>2. s \in Seq(V)
  <2> DEFINE U == {s[i] : i \in DOMAIN s}
  <2>1. U \subseteq V /\ s \in Seq(U)
    BY <1>1
  <2> HIDE DEF U, V
  <2> QED
    BY <2>1, SeqSubset
<1>3. x \in V
  OBVIOUS
<1> HIDE DEF V
<1>4. t \in Seq(V) /\ Len(t) = n + 1 /\ t[n + 1] = x /\ \A i \in 1..n : t[i] = s[i]
  BY <1>1, <1>2, <1>3
<1> HIDE DEF t, n
<1>5. t = [i \in 1..(n + 1) |-> t[i]] /\ DOMAIN t = 1..(n + 1)
  BY <1>1, <1>4
<1>6. n + 1 \in Nat
  BY <1>1
<1>7. IsSequence(t)
  BY <1>4, <1>5, <1>6 DEF IsSequence
<1> QED
  BY <1>4, <1>5, <1>7 DEF t, n

\* The types in front of a row.
LEMMA HeaderMade ==
  ASSUME NEW d \in Bytes, NEW count \in Nat \ {0}, decode_row_types(d, count).ok
  PROVE  LET r == decode_row_types(d, count) IN
         /\ r.val \in Seq(ValueType) /\ Len(r.val) = count
         /\ r.used = Len(encode_row_header(r.val)) /\ encode_row_header(r.val) \in Bytes
<1> DEFINE r == decode_row_types(d, count)
           n == (count + 1) \div 2
           size == n + pad_to_word(n)
           T == [i \in 1..count |-> Nibble(d, i)]
           e == encode_row_header(T)
           s == decode_row_types(e, count)
           U == [i \in 1..count |-> Nibble(e, i)]
<1>1. /\ Len(r.val) = count /\ \A k \in 1..count : r.val[k] \in ValueType
  BY Nothing, TypesSteady
<1>r. r = IF Len(d) < size THEN Fail ELSE IF ~ToSet(T) \subseteq ValueType THEN Fail ELSE Got(T, size)
  BY Zenon DEF decode_row_types
<1>s. s = IF Len(e) < size THEN Fail ELSE IF ~ToSet(U) \subseteq ValueType THEN Fail ELSE Got(U, size)
  BY Zenon DEF decode_row_types
<1>0. r.ok
  OBVIOUS
<1>t. Len(T) = count /\ T = [k \in 1..count |-> T[k]]
  OBVIOUS
<1> HIDE DEF r, s, size, T, U, e
<1>2. r = Got(T, size)
  BY <1>0, <1>r, FailIsNot
<1>3. r.val = T /\ r.used = size
  BY <1>2 DEF Got
<1>4. T \in Seq(ValueType) /\ Len(T) = count
  <2>1. \A k \in 1..count : T[k] \in ValueType
    BY <1>1, <1>3
  <2> HIDE DEF ValueType
  <2> QED
    BY <1>t, <2>1
<1>5. e \in Bytes /\ s = Got(T, Len(e))
  <2>1. Len(T) # 0
    BY <1>4
  <2>2. WholeWords(e) /\ decode_row_types(e \o <<>>, Len(T)) = Got(T, Len(e))
    BY <1>4, <2>1, Nothing, RowHeaderReads DEF e
  <2>3. e \in Bytes /\ e \o <<>> = e
    BY <2>2, Nothing DEF WholeWords
  <2> QED
    BY <1>4, <2>2, <2>3 DEF s
<1>6. s.ok /\ s.used = Len(e)
  BY <1>5 DEF Got
<1>7. s.used = size
  BY <1>s, <1>6 DEF Got, Fail
<1> QED
  BY <1>3, <1>4, <1>5, <1>6, <1>7 DEF r, e

\* The values of a row.
LEMMA RowValuesMade ==
  ASSUME NEW d \in Bytes, NEW types, NEW n \in Nat, Len(types) = n,
         \A k \in 1..n : types[k] \in ValueType, decode_row_values(d, types).ok
  PROVE  LET r == decode_row_values(d, types)
             w == r.val
         IN  /\ are_values(w) /\ Len(w) = n /\ DOMAIN w = 1..n
             /\ \A k \in 1..n : w[k].py = "None" <=> types[k] = NULL
             /\ r.used = Len(encode_row_values(w, types)) /\ encode_row_values(w, types) \in Bytes
<1> DEFINE r == decode_row_values(d, types)
           w == r.val
           inferred == FlattenSeq([i \in DOMAIN w |-> encode_value(w[i], infer_value_type(w[i]))])
<1>1. /\ are_values(w) /\ Len(w) = n /\ DOMAIN w = 1..n
      /\ \A k \in 1..n : w[k].py = "None" <=> types[k] = NULL
      /\ r.used = Len(encode_row_values(w, types)) /\ encode_row_values(w, types) \in Bytes
      /\ r.used = Len(inferred) /\ inferred \in Bytes
  BY ValuesMade
<1> QED
  BY <1>1, Zenon

\* A row and its types, as they come off the wire.
RowMade(row, types, count) ==
  /\ are_values(row) /\ Len(row) = count /\ DOMAIN row = 1..count
  /\ types \in Seq(ValueType) /\ Len(types) = count
  /\ \A k \in 1..count : row[k].py = "None" <=> types[k] = NULL
  /\ RowBytes(row, types) \in Bytes

\* The loop, started at offset o, has gone over the bytes its rows encode to.
Gathered(s, o, count) ==
  /\ IsSequence(s.rows) /\ IsSequence(s.row_types) /\ Len(s.rows) = Len(s.row_types)
  /\ \A i \in 1..Len(s.rows) : RowMade(s.rows[i], s.row_types[i], count)
  /\ s.at = o + Len(RowListBytes(s.rows, s.row_types))

\* The bytes of rows are those of each.
LEMMA RowListParts ==
  ASSUME NEW rows, NEW types, NEW count, IsSequence(rows),
         \A i \in 1..Len(rows) : RowMade(rows[i], types[i], count)
  PROVE  LET parts == [i \in 1..Len(rows) |-> RowBytes(rows[i], types[i])] IN
         /\ parts \in Seq(Seq(0..(BYTE - 1))) /\ Len(parts) = Len(rows)
         /\ RowListBytes(rows, types) = FlattenSeq(parts)
         /\ RowListBytes(rows, types) \in Bytes
<1> DEFINE n == Len(rows)
           parts == [i \in 1..n |-> RowBytes(rows[i], types[i])]
           B == 0..(BYTE - 1)
<1>1. n \in Nat /\ DOMAIN rows = 1..n
  BY Items
<1>2. \A i \in 1..n : RowBytes(rows[i], types[i]) \in Seq(B)
  BY DEF RowMade, Bytes
<1>3. RowListBytes(rows, types) = FlattenSeq(parts)
  BY <1>1 DEF RowListBytes
<1> HIDE DEF B
<1>4. parts \in Seq(Seq(B)) /\ Len(parts) = n
  BY <1>1, <1>2
<1> HIDE DEF parts
<1>5. FlattenSeq(parts) \in Seq(B)
  BY <1>4, FlattenFacts
<1> QED
  BY <1>3, <1>4, <1>5 DEF parts, n, B, Bytes

\* One row more.
LEMMA OneMoreRow ==
  ASSUME NEW s, NEW o \in Nat, NEW count, Gathered(s, o, count), NEW row, NEW types,
         RowMade(row, types, count), NEW ends
  PROVE  Gathered(RowsAt(s.at + Len(RowBytes(row, types)), Append(s.row_types, types),
                         Append(s.rows, row), ends), o, count)
<1> DEFINE n == Len(s.rows)
           rows == Append(s.rows, row)
           all == Append(s.row_types, types)
           at == s.at + Len(RowBytes(row, types))
           t == RowsAt(at, all, rows, ends)
           parts == [i \in 1..n |-> RowBytes(s.rows[i], s.row_types[i])]
           more == [i \in 1..(n + 1) |-> RowBytes(rows[i], all[i])]
           p == RowBytes(row, types)
           B == 0..(BYTE - 1)
<1>1. /\ n \in Nat /\ IsSequence(s.rows) /\ IsSequence(s.row_types) /\ Len(s.row_types) = n
      /\ \A i \in 1..n : RowMade(s.rows[i], s.row_types[i], count)
      /\ s.at = o + Len(RowListBytes(s.rows, s.row_types))
  BY DEF Gathered, IsSequence
<1>2. IsSequence(rows) /\ Len(rows) = n + 1 /\ rows[n + 1] = row /\ \A i \in 1..n : rows[i] = s.rows[i]
  BY <1>1, Appended
<1>3. IsSequence(all) /\ Len(all) = n + 1 /\ all[n + 1] = types /\ \A i \in 1..n : all[i] = s.row_types[i]
  <2>1. LET u == Append(s.row_types, types)
            k == Len(s.row_types)
        IN  IsSequence(u) /\ Len(u) = k + 1 /\ u[k + 1] = types /\ \A i \in 1..k : u[i] = s.row_types[i]
    BY <1>1, Appended
  <2> QED
    BY <1>1, <2>1
<1> HIDE DEF rows, all, n
<1>4. ASSUME NEW i \in 1..(n + 1) PROVE RowMade(rows[i], all[i], count)
  <2>1. CASE i \in 1..n
    BY <1>1, <1>2, <1>3, <2>1
  <2>2. CASE i = n + 1
    BY <1>2, <1>3, <2>2
  <2> QED
    BY <1>1, <2>1, <2>2
<1>5. RowListBytes(s.rows, s.row_types) = FlattenSeq(parts) /\ parts \in Seq(Seq(B)) /\ Len(parts) = n
  BY <1>1, RowListParts DEF n
<1>6. RowListBytes(rows, all) = FlattenSeq(more)
  BY <1>2, <1>4, RowListParts
<1>7. p \in Seq(B)
  BY DEF RowMade, Bytes
<1>8. more = Append(parts, p)
  <2>1. Append(parts, p) \in Seq(Seq(B)) /\ Len(Append(parts, p)) = n + 1
        /\ Append(parts, p)[n + 1] = p /\ \A i \in 1..n : Append(parts, p)[i] = parts[i]
    <3> HIDE DEF parts, p, B
    <3> QED
      BY <1>1, <1>5, <1>7
  <2>2. \A i \in 1..(n + 1) : more[i] = RowBytes(rows[i], all[i])
    OBVIOUS
  <2>3. \A i \in 1..n : parts[i] = RowBytes(s.rows[i], s.row_types[i])
    OBVIOUS
  <2>4. DOMAIN more = 1..(n + 1) /\ more = [i \in 1..(n + 1) |-> more[i]]
    OBVIOUS
  <2> HIDE DEF more, parts
  <2>5. ASSUME NEW i \in 1..(n + 1) PROVE more[i] = Append(parts, p)[i]
    <3>1. CASE i \in 1..n
      BY <1>2, <1>3, <2>1, <2>2, <2>3, <3>1
    <3>2. CASE i = n + 1
      BY <1>2, <1>3, <2>1, <2>2, <3>2
    <3>3. i \in 1..n \/ i = n + 1
      BY <1>1
    <3> QED
      BY <3>1, <3>2, <3>3
  <2>6. Append(parts, p) = [i \in 1..(n + 1) |-> Append(parts, p)[i]]
    <3> DEFINE u == Append(parts, p)
    <3> HIDE DEF u, B
    <3>1. u \in Seq(Seq(B)) /\ Len(u) = n + 1
      BY <2>1 DEF u
    <3>2. u = [i \in 1..(n + 1) |-> u[i]]
      BY <3>1
    <3> QED
      BY <3>2 DEF u
  <2> QED
    BY <2>4, <2>5, <2>6
<1> HIDE DEF parts, more, p, B
<1>9. /\ Len(FlattenSeq(Append(parts, p))) = Len(FlattenSeq(parts)) + Len(p)
      /\ Len(FlattenSeq(parts)) \in Nat /\ Len(p) \in Nat
  BY <1>5, <1>7, OneMorePart
<1>10. at = o + Len(RowListBytes(rows, all))
  <2>1. at = s.at + Len(p)
    BY DEF p
  <2> QED
    BY <1>1, <1>5, <1>6, <1>8, <1>9, <2>1
<1> HIDE DEF at
<1>11. t.at = at /\ t.row_types = all /\ t.rows = rows
  BY RowsAtIs
<1> HIDE DEF t
<1> QED
  BY <1>2, <1>3, <1>4, <1>10, <1>11 DEF Gathered, t, at, rows, all

\* A pass keeps the loop in step with the bytes.
LEMMA PassGathers ==
  ASSUME NEW d \in Bytes, NEW count \in Nat, NEW s, Onward(d, s), NEW o \in Nat, Gathered(s, o, count),
         RowPass(d, s, count).ok
  PROVE  Gathered(RowPass(d, s, count), o, count)
<1> DEFINE a == s.at
           r == RowPass(d, s, count)
           M == MarkerAt(From(d, a))
           h == decode_row_types(From(d, a), count)
           v == decode_row_values(From(d, a + h.used), h.val)
<1>1. s.ok /\ s.ends = "none" /\ a \in 0..Len(d)
  BY RowsAtIs DEF Onward
<1>2. From(d, a) \in Bytes /\ Len(From(d, a)) = Len(d) - a
  BY <1>1, BytesBehind
<1>r. r = IF M # "none"
          THEN IF EndsAt(d, a) THEN RowsAt(a, s.row_types, s.rows, M) ELSE Fail
          ELSE IF count = 0 \/ a >= Len(d) THEN Fail
          ELSE IF h.ok THEN IF v.ok
               THEN RowsAt(a + h.used + v.used, Append(s.row_types, h.val), Append(s.rows, v.val), "none")
               ELSE Fail ELSE Fail
  BY <1>1, Zenon DEF RowPass, Then
<1>0. r.ok
  OBVIOUS
<1> HIDE DEF r
<1>3. CASE M # "none"
  <2>1. r = RowsAt(a, s.row_types, s.rows, M)
    <3> HIDE DEF M
    <3> QED
      BY <1>0, <1>3, <1>r, FailIsNot
  <2>2. r.at = a /\ r.row_types = s.row_types /\ r.rows = s.rows
    BY <2>1, RowsAtIs
  <2> QED
    BY <2>2 DEF Gathered, r
<1>4. CASE M = "none"
  <2>1. /\ count # 0 /\ h.ok /\ v.ok
        /\ r = RowsAt(a + h.used + v.used, Append(s.row_types, h.val), Append(s.rows, v.val), "none")
    <3> HIDE DEF M, h, v
    <3> QED
      BY <1>0, <1>4, <1>r, FailIsNot
  <2>2. /\ h.val \in Seq(ValueType) /\ Len(h.val) = count
        /\ h.used = Len(encode_row_header(h.val)) /\ encode_row_header(h.val) \in Bytes
    BY <1>2, <2>1, HeaderMade
  <2>3. h.used \in 0..Len(From(d, a))
    <3>1. count \in Nat \ {0}
      BY <2>1
    <3> QED
      BY <1>2, <2>1, <3>1, Nothing, TypesSteady
  <2> DEFINE b == a + h.used
  <2> HIDE DEF h
  <2>4. Len(d) \in Nat /\ b \in 0..Len(d) /\ a \in Nat /\ h.used \in Nat
    <3>1. Len(d) \in Nat
      BY Nothing
    <3> QED
      BY <1>1, <1>2, <2>3, <3>1
  <2>5. From(d, b) \in Bytes
    <3>1. b \in 0..Len(d)
      BY <2>4
    <3> HIDE DEF b
    <3> QED
      BY <3>1, BytesBehind
  <2>6. \A k \in 1..count : h.val[k] \in ValueType
    <3> HIDE DEF ValueType
    <3> QED
      BY <2>2
  <2> DEFINE w == v.val
             types == h.val
             x == encode_row_header(types)
             y == encode_row_values(w, types)
  <2>7. /\ are_values(w) /\ Len(w) = count /\ DOMAIN w = 1..count
        /\ \A k \in 1..count : w[k].py = "None" <=> types[k] = NULL
        /\ v.used = Len(y) /\ y \in Bytes
    <3> DEFINE g == From(d, b)
    <3>1. v = decode_row_values(g, types)
      OBVIOUS
    <3>2. g \in Bytes
      BY <2>5
    <3> HIDE DEF v, types, g
    <3>3. Len(types) = count /\ \A k \in 1..count : types[k] \in ValueType
      BY <2>2, <2>6 DEF types
    <3>4. decode_row_values(g, types).ok
      BY <2>1, <3>1
    <3> DEFINE u == decode_row_values(g, types)
    <3>5. /\ are_values(u.val) /\ Len(u.val) = count /\ DOMAIN u.val = 1..count
          /\ \A k \in 1..count : u.val[k].py = "None" <=> types[k] = NULL
          /\ u.used = Len(encode_row_values(u.val, types)) /\ encode_row_values(u.val, types) \in Bytes
      BY <3>2, <3>3, <3>4, RowValuesMade
    <3>6. u = v
      BY <3>1
    <3> HIDE DEF u
    <3> QED
      BY <3>5, <3>6
  <2> HIDE DEF v, w
  <2>8. RowBytes(w, types) = x \o y
    BY DEF RowBytes
  <2>9. x \in Bytes /\ Len(x) = h.used
    BY <2>2
  <2>10. Len(y) \in Nat
    BY <2>7, Nothing
  <2> HIDE DEF types, x, y
  <2>11. x \o y \in Bytes /\ Len(x \o y) = Len(x) + Len(y)
    BY <2>7, <2>9, More
  <2>12. RowMade(w, types, count)
    BY <2>2, <2>7, <2>8, <2>11 DEF RowMade, types
  <2>13. a + h.used + v.used = a + Len(RowBytes(w, types))
    <3>1. Len(RowBytes(w, types)) = h.used + v.used
      BY <2>7, <2>8, <2>9, <2>11
    <3>2. v.used \in Nat
      BY <2>7, <2>10
    <3> QED
      BY <2>4, <3>1, <3>2
  <2>14. r = RowsAt(s.at + Len(RowBytes(w, types)), Append(s.row_types, types), Append(s.rows, w), "none")
    BY <2>1, <2>13 DEF types, w
  <2>15. Gathered(r, o, count)
    BY <2>12, <2>14, OneMoreRow
  <2> QED
    BY <2>15 DEF r
<1> QED
  BY <1>3, <1>4

\* The rows of a body take the bytes they encode to, up to the end marker.
LEMMA LoopGathers ==
  ASSUME NEW d \in Bytes, NEW count \in Nat, NEW o \in 1..Len(d), RowsFrom(d, o, count).ok
  PROVE  Gathered(RowsFrom(d, o, count), o, count)
<1> DEFINE N == Len(d)
<1>1. N \in Nat
  BY Nothing
<1>2. PICK F : InPasses(F, d, o, count) /\ RowsFrom(d, o, count) = F[N]
  BY <1>1, PassesExist
<1>3. F[0] = RowsAt(o, <<>>, <<>>, "none") /\ \A n \in 1..N : F[n] = RowPass(d, F[n - 1], count)
  BY <1>2 DEF InPasses
<1>4. o \in Nat /\ o \in 0..N
  BY <1>1
<1>5. F[N].ok
  BY <1>2
<1> DEFINE Good(n) == Gathered(F[n], o, count) /\ (Onward(d, F[n]) \/ Ended(d, F[n]))
           P == {n \in Nat : n <= N => ~F[n].ok \/ Good(n)}
<1> HIDE DEF N
<1>6. 0 \in P
  <2>1. F[0].at = o /\ F[0].row_types = <<>> /\ F[0].rows = <<>>
    BY <1>3, RowsAtIs
  <2>2. Onward(d, F[0])
    BY <1>3, <1>4, <2>1 DEF Onward, N
  <2>3. Len(RowListBytes(<<>>, <<>>)) = 0
    <3> DEFINE parts == [i \in DOMAIN <<>> |-> RowBytes(<<>>[i], <<>>[i])]
    <3>1. parts = <<>> /\ parts \in Seq(Seq(Nat))
      OBVIOUS
    <3> DEFINE off == [k \in {0} |-> 0]
    <3>2. off[0] = 0 /\ Len(parts) = 0
      BY <3>1
    <3> HIDE DEF off, parts
    <3>3. \A k \in 1..Len(parts) : off[k] = off[k - 1] + Len(parts[k])
      BY <3>2
    <3>4. Len(FlattenSeq(parts)) = off[Len(parts)]
      <4>1. parts \in Seq(Seq(Nat))
        BY <3>1
      <4> QED
        BY <3>2, <3>3, <4>1, SumLength
    <3>5. Len(FlattenSeq(parts)) = 0
      BY <3>2, <3>4
    <3> QED
      BY <3>5 DEF RowListBytes, parts
  <2>4. IsSequence(<<>>) /\ Len(<<>>) = 0
    BY DEF IsSequence
  <2>5. Gathered(F[0], o, count)
    BY <1>4, <2>1, <2>3, <2>4 DEF Gathered
  <2> QED
    BY <2>2, <2>5
<1>7. ASSUME NEW n \in Nat, n \in P PROVE n + 1 \in P
  <2> SUFFICES ASSUME n + 1 <= N, F[n + 1].ok PROVE Good(n + 1)
    OBVIOUS
  <2>1. n <= N /\ n + 1 \in 1..N /\ (n + 1) - 1 = n
    BY <1>1
  <2>2. F[n + 1] = RowPass(d, F[n], count)
    BY <1>3, <2>1
  <2>3. F[n].ok
    BY <2>2, PassOver
  <2>4. Good(n)
    BY <1>7, <2>1, <2>3
  <2>5. CASE Onward(d, F[n])
    <3>1. Onward(d, F[n + 1]) \/ Ended(d, F[n + 1])
      BY <2>2, <2>5, Nothing, PassSteady
    <3>2. Gathered(F[n + 1], o, count)
      BY <1>4, <2>2, <2>4, <2>5, PassGathers
    <3> QED
      BY <3>1, <3>2
  <2>6. CASE Ended(d, F[n])
    <3>1. F[n].ends # "none"
      BY <2>6 DEF Ended
    <3>2. F[n + 1] = F[n]
      BY <2>2, <3>1, PassOver
    <3> QED
      BY <2>4, <3>2
  <2> QED
    BY <2>4, <2>5, <2>6
<1> HIDE DEF P
<1>8. N \in P
  BY <1>1, <1>6, <1>7, SetInduction
<1> QED
  BY <1>1, <1>2, <1>5, <1>8 DEF P

\* The types of a row that was read are kept when it is encoded.
LEMMA TypesKept ==
  ASSUME NEW m, NEW i, NEW count, m.row_types # <<>>, RowMade(m.rows[i], m.row_types[i], count)
  PROVE  get_row_types(m, i) = m.row_types[i]
<1> DEFINE row == m.rows[i]
           types == m.row_types[i]
<1>1. /\ types \in Seq(ValueType) /\ Len(types) = count
      /\ \A k \in 1..count : row[k].py = "None" <=> types[k] = NULL
  BY DEF RowMade
<1>2. get_row_types(m, i) = [c \in DOMAIN types |-> IF row[c].py = "None" THEN NULL ELSE types[c]]
  BY Zenon DEF get_row_types
<1> HIDE DEF row, types, ValueType, NULL
<1>3. DOMAIN types = 1..count /\ types = [c \in 1..count |-> types[c]]
  BY <1>1
<1>4. \A c \in 1..count : (IF row[c].py = "None" THEN NULL ELSE types[c]) = types[c]
  BY <1>1
<1>5. get_row_types(m, i) = [c \in 1..count |-> types[c]]
  BY <1>2, <1>3, <1>4
<1> QED
  BY <1>3, <1>5 DEF types

\* The message of rows that were read.
LEMMA RowsOfMade ==
  ASSUME NEW names, NEW body, NEW size, NEW o, NEW count, RowsOf(names, body, size).ok,
         Gathered(body, o, count), names \in Seq(AllTexts)
  PROVE  LET m == RowsOf(names, body, size).val IN
         /\ m.kind = "RowsResponse" /\ rows_typed(m)
         /\ encode_rows(m) = RowsBytes(names, body.rows, body.row_types, body.ends = "part")
<1> DEFINE a == RowsOf(names, body, size)
           rows == body.rows
           types == body.row_types
           column_types == IF rows = <<>> THEN <<>> ELSE types[1]
           more == body.ends = "part"
           m == Rows(names, column_types, types, rows, more)
<1>1. a = IF ~body.ok THEN Fail ELSE IF Len(rows) >= max_rows /\ rows # <<>> THEN Fail ELSE Got(m, size)
  BY Zenon DEF RowsOf
<1>2. a.ok
  OBVIOUS
<1> HIDE DEF a
<1>3. a = Got(m, size) /\ (rows # <<>> => ~(Len(rows) >= max_rows))
  <2> HIDE DEF m, rows
  <2> QED
    BY <1>1, <1>2, FailIsNot
<1>4. a.val = m
  BY <1>3 DEF Got
<1> DEFINE n == Len(rows)
<1>5. /\ IsSequence(rows) /\ IsSequence(types) /\ n \in Nat /\ Len(types) = n
      /\ DOMAIN rows = 1..n /\ DOMAIN types = 1..n
      /\ \A i \in 1..n : RowMade(rows[i], types[i], count)
  <2>1. IsSequence(rows) /\ IsSequence(types) /\ n = Len(types)
        /\ \A i \in 1..n : RowMade(rows[i], types[i], count)
    BY DEF Gathered
  <2> HIDE DEF rows, types
  <2>2. n \in Nat /\ DOMAIN rows = 1..n
    BY <2>1, Items
  <2>3. DOMAIN types = 1..Len(types)
    BY <2>1, Items
  <2> QED
    BY <2>1, <2>2, <2>3
<1>6. /\ m.kind = "RowsResponse" /\ m.column_names = names /\ m.column_types = column_types
      /\ m.row_types = types /\ m.rows = rows /\ m.has_more = more
      /\ m = Rows(m.column_names, m.column_types, m.row_types, m.rows, m.has_more)
  BY DEF Rows
<1>7. more \in BOOLEAN
  OBVIOUS
<1> HIDE DEF m, rows, types, more
<1>8. rows = <<>> <=> n = 0
  BY <1>5, EmptyIffLength
<1>9. types = <<>> <=> n = 0
  BY <1>5, EmptyIffLength
<1> DEFINE V == Seq(ValueType)
<1>10. \A i \in 1..n : types[i] \in V
  BY <1>5 DEF RowMade
<1>11. <<>> \in V
  OBVIOUS
<1> HIDE DEF V, n
<1>12. types \in Seq(V)
  <2>1. types = [i \in 1..n |-> types[i]]
    BY <1>5 DEF IsSequence
  <2> QED
    BY <1>5, <1>10, <2>1
<1>13. column_types \in V
  BY <1>5, <1>8, <1>10, <1>11
<1>14. rows # <<>> => n < max_rows
  BY <1>3, <1>5, CapsAssumption DEF n
<1>15. \A i \in DOMAIN rows : are_values(rows[i])
  BY <1>5 DEF RowMade
<1> HIDE DEF column_types
<1>16. rows_typed(m)
  BY <1>5, <1>6, <1>7, <1>12, <1>13, <1>14, <1>15 DEF rows_typed, V, n
<1>17. \A i \in 1..n : get_row_types(m, i) = types[i]
  <2>1. ASSUME NEW i \in 1..n PROVE get_row_types(m, i) = types[i]
    <3>1. m.row_types # <<>>
      BY <1>5, <1>6, <1>9, <2>1
    <3>2. RowMade(m.rows[i], m.row_types[i], count)
      BY <1>5, <1>6
    <3> QED
      BY <1>6, <3>1, <3>2, TypesKept
  <2> QED
    BY <2>1
<1>18. [i \in DOMAIN rows |-> encode_row_header(get_row_types(m, i))
                                \o encode_row_values(m.rows[i], get_row_types(m, i))]
         = [i \in DOMAIN rows |-> RowBytes(rows[i], types[i])]
  BY <1>5, <1>6, <1>17 DEF RowBytes
<1>19. encode_rows(m) = RowsBytes(names, rows, types, more)
  BY <1>6, <1>18, Zenon DEF encode_rows, RowsBytes, TextBytes, RowListBytes, EndMarker
<1> QED
  BY <1>4, <1>6, <1>16, <1>19 DEF a, rows, types, more

\* A whole RowsResponse.
LEMMA RowsMade ==
  ASSUME NEW d \in Bytes, decode_rows(d).ok
  PROVE  LET m == decode_rows(d).val IN
         m.kind = "RowsResponse" /\ rows_typed(m) /\ Len(encode_rows(m)) = Len(d)
<1> DEFINE w == decode_uint64(d)
           r == Times(w.val, column_name, From(d, w.used))
           o == w.used + r.used
           body == RowsFrom(d, o, w.val)
           a == decode_rows(d)
           b == RowsOf(r.val, body, Len(d))
<1>1. w.ok /\ r.ok /\ a = b
  BY FailIsNot, Zenon DEF decode_rows, Then
<1>2. b.ok
  BY <1>1
<1>3. body.ok
  BY <1>2, FailIsNot DEF RowsOf
<1>4. w.val \in Nat /\ w.used = WORD_SIZE /\ WORD_SIZE \in Nat \ {0} /\ WORD_SIZE <= Len(d) /\ Len(d) \in Nat
  BY <1>1, WordMade, Nothing, WireSizesAssumption
<1> HIDE DEF a, b, w
<1>5. From(d, w.used) \in Bytes /\ Len(From(d, w.used)) = Len(d) - w.used
  BY <1>4, BytesBehind
<1>6. /\ r.val \in Seq(AllTexts) /\ Len(r.val) = w.val
      /\ r.used = Len(TextBytes(r.val)) /\ TextBytes(r.val) \in Bytes
  BY <1>1, <1>4, <1>5, NamesMade
<1>7. r.used \in 0..(Len(d) - w.used)
  <2>1. Uses(r, Len(From(d, w.used)))
    BY <1>4, <1>5, Nothing, NamesSteady DEF Steady
  <2> HIDE DEF r
  <2> QED
    BY <1>1, <1>5, <2>1 DEF Uses
<1> HIDE DEF r
<1>8. o \in 1..Len(d)
  BY <1>4, <1>7
<1> HIDE DEF o
<1>9. Gathered(body, o, w.val) /\ Ended(d, body)
  BY <1>3, <1>4, <1>8, Nothing, LoopGathers, LoopSteady
<1> HIDE DEF body
<1> DEFINE m == b.val
           more == body.ends = "part"
           list == RowListBytes(body.rows, body.row_types)
           u == encode_uint64(w.val)
           t == TextBytes(r.val)
           z == EndMarker(more)
<1>10. /\ m.kind = "RowsResponse" /\ rows_typed(m)
       /\ encode_rows(m) = RowsBytes(r.val, body.rows, body.row_types, more)
  BY <1>2, <1>6, <1>9, RowsOfMade DEF b
<1>11. encode_rows(m) = ((u \o t) \o list) \o z
  BY <1>6, <1>10, Zenon DEF RowsBytes
<1>12. u \in Bytes /\ Len(u) = WORD_SIZE
  BY <1>4, LittleEndianBytes DEF encode_uint64, Bytes
<1>13. t \in Bytes /\ Len(t) = r.used
  BY <1>6
<1>14. list \in Bytes /\ body.at = o + Len(list) /\ Len(list) \in Nat
  <2>1. IsSequence(body.rows) /\ \A i \in 1..Len(body.rows) : RowMade(body.rows[i], body.row_types[i], w.val)
    BY <1>9 DEF Gathered
  <2>2. list \in Bytes
    BY <2>1, RowListParts
  <2>3. body.at = o + Len(list)
    BY <1>9 DEF Gathered
  <2> QED
    BY <2>2, <2>3, Nothing
<1>15. z \in Bytes /\ Len(z) = WORD_SIZE
  BY EndMarkerFacts DEF WholeWords
<1>16. body.at + WORD_SIZE = Len(d)
  BY <1>9 DEF Ended, EndsAt
<1> HIDE DEF m, u, t, list, z, more
<1>17. u \o t \in Bytes /\ Len(u \o t) = Len(u) + Len(t)
  BY <1>12, <1>13, More
<1>18. (u \o t) \o list \in Bytes /\ Len((u \o t) \o list) = Len(u \o t) + Len(list)
  BY <1>14, <1>17, More
<1>19. Len(((u \o t) \o list) \o z) = Len((u \o t) \o list) + Len(z)
  BY <1>15, <1>18, More
<1>20. Len(encode_rows(m)) = Len(d)
  <2>1. Len(encode_rows(m)) = (WORD_SIZE + r.used) + Len(list) + WORD_SIZE
    BY <1>11, <1>12, <1>13, <1>15, <1>17, <1>18, <1>19
  <2>2. o = WORD_SIZE + r.used
    BY <1>4 DEF o
  <2> QED
    BY <1>14, <1>16, <2>1, <2>2
<1> QED
  BY <1>1, <1>10, <1>20 DEF a, m

-----------------------------------------------------------------------------
(* Whole messages *)

\* Kinds of messages that encode to a length of their own, whatever was read.
Resized == {"FailureResponse", "AssignRequest", "LeaderResponse"}

\* What is made of a body is a message of its class that a program can build, as long as
\* the body.
LEMMA BodyMade ==
  ASSUME NEW d \in Bytes, NEW class \in Classes \ Private, NEW schema, decode_body(class, d, schema).ok
  PROVE  LET m == decode_body(class, d, schema).val IN
         /\ m.kind = class /\ WellFormed(m)
         /\ class \notin Resized => Len(encode_body(m)) = Len(d)
<1> DEFINE a == decode_body(class, d, schema)
           m == a.val
<1>1. schema \in schemas(class) /\ schema \in {0, 1}
  BY FailIsNot DEF decode_body, schemas
<1>2. a.ok
  OBVIOUS
<1>3. CASE class = "RowsResponse"
  <2>1. a = decode_rows(d)
    BY <1>1, <1>3, ClassNames DEF decode_body
  <2>2. m.kind = "RowsResponse" /\ rows_typed(m) /\ Len(encode_rows(m)) = Len(d)
    BY <1>2, <2>1, RowsMade
  <2> HIDE DEF m
  <2>3. m.kind \notin ParamsRequests
    BY <2>2, ClassNames
  <2>4. WellFormed(m) <=> rows_typed(m)
    BY <2>2, <2>3 DEF WellFormed
  <2>5. encode_body(m) = encode_rows(m)
    BY <2>2, <2>3 DEF encode_body
  <2> QED
    BY <1>3, <2>2, <2>4, <2>5 DEF m, a
<1>4. CASE class = "FailureResponse"
  <2>1. a = decode_failure(d)
    BY <1>1, <1>4, ClassNames DEF decode_body
  <2>2. m.kind = "FailureResponse" /\ failure_typed(m)
    BY <1>2, <2>1, FailureMade
  <2> HIDE DEF m
  <2>3. m.kind \notin ParamsRequests
    BY <2>2, ClassNames
  <2>4. WellFormed(m) <=> failure_typed(m)
    BY <2>2, <2>3 DEF WellFormed
  <2> QED
    BY <1>4, <2>2, <2>4 DEF m, a, Resized
<1>5. CASE class = "FilesResponse"
  <2>1. a = decode_files(d)
    BY <1>1, <1>5, ClassNames DEF decode_body
  <2>2. m.kind = "FilesResponse" /\ files_typed(m) /\ Len(encode_files(m)) = Len(d)
    BY <1>2, <2>1, FilesMade
  <2> HIDE DEF m
  <2>3. m.kind \notin ParamsRequests
    BY <2>2, ClassNames
  <2>4. WellFormed(m) <=> files_typed(m)
    BY <2>2, <2>3 DEF WellFormed
  <2>5. encode_body(m) = encode_files(m)
    BY <2>2, <2>3 DEF encode_body
  <2> QED
    BY <1>5, <2>2, <2>4, <2>5 DEF m, a
<1>6. CASE class = "ServersResponse"
  <2>1. a = decode_servers(d)
    BY <1>1, <1>6, ClassNames DEF decode_body
  <2>2. m.kind = "ServersResponse" /\ servers_typed(m) /\ Len(encode_servers(m)) = Len(d)
    BY <1>2, <2>1, ServersMade
  <2> HIDE DEF m
  <2>3. m.kind \notin ParamsRequests
    BY <2>2, ClassNames
  <2>4. WellFormed(m) <=> servers_typed(m)
    BY <2>2, <2>3 DEF WellFormed
  <2>5. encode_body(m) = encode_servers(m)
    BY <2>2, <2>3 DEF encode_body
  <2> QED
    BY <1>6, <2>2, <2>4, <2>5 DEF m, a
<1>7. CASE class \in ParamsRequests
  <2>0. class \notin ListKinds
    BY <1>7, ClassNames DEF ListKinds
  <2>1. a = decode_statement(class, d, schema)
    BY <1>1, <1>7, <2>0 DEF decode_body, ListKinds
  <2>2. m.kind = class /\ statement_typed(m) /\ Len(encode_statement(m)) = Len(d)
    BY <1>1, <1>2, <1>7, <2>1, StatementMade
  <2> HIDE DEF m
  <2>4. WellFormed(m) <=> statement_typed(m)
    BY <1>7, <2>0, <2>2, ClassNames DEF WellFormed, ListKinds
  <2>5. encode_body(m) = encode_statement(m)
    BY <1>7, <2>0, <2>2, ClassNames DEF encode_body, ListKinds
  <2>6. m.kind = class /\ WellFormed(m) /\ Len(encode_body(m)) = Len(d)
    BY <2>2, <2>4, <2>5
  <2> QED
    BY <2>6, Zenon DEF m, a
<1>8. CASE class \notin ListKinds \cup ParamsRequests
  <2>1. a = decode_flat(class, d, schema)
    BY <1>1, <1>8 DEF decode_body, ListKinds
  <2>2. class \in FlatKinds \ {"Promote", "LegacyLeader"} /\ class # "HalfRows" /\ class # "Tagged"
    BY <1>8, ClassNames DEF ListKinds, FlatKinds, WordRequests, NodeAddressRequests, OneKind, Private
  <2>3. /\ m.kind = class /\ flat_typed(m)
        /\ class # "AssignRequest" => Len(encode_flat(m)) = Len(d)
    BY <1>1, <1>2, <2>1, <2>2, FlatMade
  <2> HIDE DEF m
  <2>4. WellFormed(m) <=> flat_typed(m)
    BY <1>8, <2>2, <2>3 DEF WellFormed, ListKinds
  <2>5. encode_body(m) = encode_flat(m)
    BY <1>8, <2>2, <2>3 DEF encode_body, ListKinds
  <2> QED
    BY <2>3, <2>4, <2>5 DEF m, a, Resized
<1> QED
  BY <1>3, <1>4, <1>5, <1>6, <1>7, <1>8, ClassNames DEF ListKinds, Private

\* The bytes of a frame behind its header.
LEMMA BodyBytes ==
  ASSUME NEW f \in Bytes, ~(Len(f) < HEADER_SIZE)
  PROVE  body_of(f) \in Bytes /\ Len(f) = HEADER_SIZE + Len(body_of(f))
<1>1. Len(f) \in Nat /\ HEADER_SIZE \in Nat
  BY LenProperties, WireSizes DEF Bytes
<1>2. HEADER_SIZE \in 0..Len(f)
  BY <1>1
<1>3. body_of(f) \in Bytes /\ Len(body_of(f)) = Len(f) - HEADER_SIZE
  BY <1>2, FromFacts DEF body_of, Bytes
<1> QED
  BY <1>1, <1>3

\* Whatever bytes decode_message accepts, from anyone: what it returns is a message that a
\* program can build, and that encodes to as many bytes.
THEOREM MessageMade ==
  ASSUME NEW f \in Bytes, IsFrame(f), NEW dec, dec.is_request \in BOOLEAN, decode_message(f, dec).ok
  PROVE  LET m == decode_message(f, dec).val IN
         /\ m.kind \in Classes \ Private /\ WellFormed(m)
         /\ m.kind \notin Resized => Len(f) = FrameSize(m)
<1> DEFINE code == msg_type(f)
           schema == schema_of(f)
           b == body_of(f)
           c == msg_class(code, dec.is_request)
           r == decode_message(f, dec)
           m == r.val
<1>1. r = Dispatch(code, schema, b, dec) /\ ~(Len(f) < HEADER_SIZE) /\ r.ok
  BY Accepted
<1>2. b \in Bytes /\ Len(f) = HEADER_SIZE + Len(b)
  BY <1>1, BodyBytes
<1> HIDE DEF code, schema, b, r
<1>3. /\ c # None /\ schema_supported(code, schema, dec.is_request)
      /\ r = IF reads_legacy(code, dec) THEN decode_body_legacy(b) ELSE decode_body(c, b, schema)
  BY <1>1, FailIsNot DEF Dispatch
<1>4. c \in Classes \ Private
  <2>1. c \notin Private
    BY <1>3, ClassFacts
  <2>2. c \in Classes
    <3>1. CASE dec.is_request
      <4>1. c \in {k \in REQUEST_TYPES : RequestType[k] = code}
        BY <1>3, <3>1 DEF msg_class
      <4> QED
        BY <4>1 DEF REQUEST_TYPES, Classes
    <3>2. CASE ~dec.is_request
      <4>1. c \in {k \in RESPONSE_TYPES : ResponseType[k] = code}
        BY <1>3, <3>2 DEF msg_class
      <4> QED
        BY <4>1 DEF RESPONSE_TYPES, Classes
    <3> QED
      BY <3>1, <3>2
  <2> QED
    BY <2>1, <2>2
<1> HIDE DEF c
<1>5. CASE reads_legacy(code, dec)
  <2>1. r = decode_body_legacy(b)
    BY <1>3, <1>5
  <2>2. m.kind = "LeaderResponse" /\ flat_typed(m)
    BY <1>1, <1>2, <2>1, LegacyMade
  <2> HIDE DEF m
  <2>3. m.kind \in Classes \ Private /\ m.kind \notin ParamsRequests
    BY <2>2, ClassNames DEF Private
  <2>4. WellFormed(m) <=> flat_typed(m)
    BY <2>2, <2>3 DEF WellFormed
  <2> QED
    BY <2>2, <2>3, <2>4 DEF m, r, Resized
<1>6. CASE ~reads_legacy(code, dec)
  <2>1. r = decode_body(c, b, schema)
    BY <1>3, <1>6
  <2>2. /\ m.kind = c /\ WellFormed(m)
        /\ c \notin Resized => Len(encode_body(m)) = Len(b)
    BY <1>1, <1>2, <1>4, <2>1, BodyMade
  <2> HIDE DEF m
  <2>3. m.kind \notin Resized => Len(f) = FrameSize(m)
    BY <1>2, <2>2 DEF FrameSize
  <2> QED
    BY <1>4, <2>2, <2>3 DEF m, r
<1> QED
  BY <1>5, <1>6

\* Who reads has a direction and a version.
ReaderInv == reader \in Readers

\* It holds at the start.
LEMMA InitReader == Init => ReaderInv
<1> SUFFICES ASSUME Init PROVE reader \in Readers
  BY DEF ReaderInv
<1>1. reader = Addressee(message)
  BY DEF Init
<1> QED
  BY <1>1 DEF Addressee, Decoder, Readers, is_request_class

\* Every step keeps it.
LEMMA NextReader == ReaderInv /\ [Next]_relay_vars => ReaderInv'
<1> SUFFICES ASSUME reader \in Readers, [Next]_relay_vars PROVE reader' \in Readers
  BY DEF ReaderInv
<1>1. CASE receive
  BY <1>1 DEF receive, Readers
<1>2. CASE send \/ disturb \/ resend \/ Done \/ UNCHANGED relay_vars
  BY <1>2 DEF send, disturb, resend, Done, relay_vars
<1> QED
  BY <1>1, <1>2 DEF Next

\* Whatever the messages, the limits, the readers and the damage: a message that was
\* decoded and encodes once more is decoded to the same again, and its second frame is as
\* long as the first where its class has one form only.
THEOREM StableAlways == Spec => []Stable
<1>1. RelayInv /\ DamageInv /\ ReaderInv => Stable
  <2> DEFINE m == decoded.val
             r == [reader EXCEPT !.version = PROTOCOL_VERSION]
  <2> SUFFICES ASSUME RelayInv, DamageInv, ReaderInv, stage = "resent"
               PROVE  /\ m.kind \notin Resized => Len(second) = Len(frame)
                      /\ decode_message(second, r).ok /\ SameMessage(m, decode_message(second, r).val)
    BY DEF Stable, Resized
  <2>1. /\ IsFrame(frame) /\ frame \in Bytes /\ reader.is_request \in BOOLEAN
        /\ decoded = decode_message(frame, reader) /\ decoded.ok
        /\ encode_message(m).ok /\ second = encode_message(m).val
    BY DEF RelayInv, FrameInv, CodecInv, DamageInv, accepted
  <2>2. /\ m.kind \in Classes \ Private /\ WellFormed(m)
        /\ m.kind \notin Resized => Len(frame) = FrameSize(m)
    BY <2>1, MessageMade
  <2>3. is_request_class(m.kind) = reader.is_request
    BY <2>1, MessageObeys
  <2> HIDE DEF m
  <2>4. encodable(m) /\ Okay(m)
    BY <2>1, <2>2, FailIsNot DEF encode_message, Okay
  <2>5. Carried(m, Reading(m))
    BY <2>4, EveryMessage
  <2>6. m.kind \notin {"HalfRows", "Tagged", "LegacyLeader", "Promote"}
    BY <2>2, ClassNames
  <2>7. class_of(m) = m.kind
    BY <2>6 DEF class_of
  <2>8. r.version = PROTOCOL_VERSION /\ r.is_request = reader.is_request
    <3>1. reader = [is_request |-> reader.is_request, version |-> reader.version]
      BY DEF ReaderInv, Readers
    <3>2. r = [is_request |-> reader.is_request, version |-> PROTOCOL_VERSION]
      BY <3>1
    <3> HIDE DEF r
    <3> QED
      BY <3>2
  <2>9. Suits(r, m)
    BY <2>3, <2>6, <2>7, <2>8, CodecAssumption DEF Suits
  <2> HIDE DEF r
  <2>10. decode_message(second, r) = Got(Reading(m), Len(encode_body(m)))
    BY <2>1, <2>2, <2>5, <2>7, <2>9, MessageReads
  <2>11. decode_message(second, r).ok /\ SameMessage(m, decode_message(second, r).val)
    BY <2>5, <2>10, GotIs DEF Carried
  <2>12. Len(second) = FrameSize(m)
    BY <2>1, <2>4, <2>5, MessageFramed
  <2> QED
    BY <2>2, <2>11, <2>12
<1> QED
  BY <1>1, InitRelay, NextRelay, InitDamage, NextDamage, InitReader, NextReader, PTL DEF Spec

=============================================================================
