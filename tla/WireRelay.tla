------------------------------ MODULE WireRelay ------------------------------
(***************************************************************************)
(* A message on its way through two ends of the library: one encodes it    *)
(* (encode_message), the frame may be damaged on the way, the other        *)
(* decodes it (decode_message), as a client or as a server and at one of   *)
(* the two versions, and, as a proxy or a replay tool does, encodes what   *)
(* it decoded once more.                                                   *)
(***************************************************************************)
EXTENDS MessageTypes

CONSTANT Messages   \* the messages that are sent, in a sequence of sets

ASSUME MessagesAssumption ==
  \A i \in DOMAIN Messages : \A m \in Messages[i] : encodable(m) => WellFormed(m)

VARIABLES
  message,   \* what the sender built
  stage,     \* "built", "refused", "sent", "received", "resent" or "kept"
  frame,     \* what travels
  damage,    \* what happened to it: "none", "torn", "cut", "grown" or "altered"
  reader,    \* who decoded it
  decoded,   \* what decode_message returned
  second     \* the frame encoded from it

relay_vars == <<message, stage, frame, damage, reader, decoded, second>>

Readers == [is_request : BOOLEAN, version : {PROTOCOL_VERSION, PROTOCOL_VERSION_LEGACY}]

\* The reader a message is meant for.
Addressee(m) ==
  Decoder(is_request_class(class_of(m)),
          IF m.kind = "LegacyLeader" THEN PROTOCOL_VERSION_LEGACY ELSE PROTOCOL_VERSION)

Init ==
  /\ \E i \in DOMAIN Messages : message \in Messages[i]
  /\ stage = "built"
  /\ frame = <<>>
  /\ damage = "none"
  /\ reader = Addressee(message)
  /\ decoded = Fail
  /\ second = <<>>

\* Building or encoding the message raises EncodeError, or a frame is sent.
Sent(r) ==
  /\ stage' = IF r.ok THEN "sent" ELSE "refused"
  /\ frame' = IF r.ok THEN r.val ELSE frame

send ==
  /\ stage = "built"
  /\ Sent(encode_message(message))
  /\ UNCHANGED <<message, damage, reader, decoded, second>>

\* The frame with another body and a header to match.
Reframed(body) ==
  Header(Len(body) \div WORD_SIZE, msg_type(frame), schema_of(frame)) \o body

\* The transport loses the end of a frame or adds the start of the next; a
\* peer writes a body that is whole words short or long; a byte changes.
Damaged ==
  \/ /\ damage' = "torn"
     /\ \/ \E n \in 0..(Len(frame) - 1) : frame' = SubSeq(frame, 1, n)
        \/ \E byte \in {0, 1, 255} : frame' = Append(frame, byte)
  \/ /\ damage' = "cut"
     /\ \E words \in 0..(size_words(frame) - 1) :
          frame' = Reframed(SubSeq(body_of(frame), 1, words * WORD_SIZE))
  \/ /\ damage' = "grown"
     /\ \E byte \in {0, 1, 255} : frame' = Reframed(body_of(frame) \o Marker(byte))
  \/ /\ damage' = "altered"
     /\ \E i \in DOMAIN frame, byte \in {0, 1, 7, 10, 65, 255} :
          byte # frame[i] /\ frame' = [frame EXCEPT ![i] = byte]

disturb ==
  /\ stage = "sent"
  /\ damage = "none"
  /\ Damaged
  /\ UNCHANGED <<message, stage, reader, decoded, second>>

\* Any reader may get an intact frame; a damaged one is left to its addressee.
receive ==
  /\ stage = "sent"
  /\ reader' \in IF damage = "none" THEN Readers ELSE {reader}
  /\ decoded' = decode_message(frame, reader')
  /\ stage' = IF decoded'.ok THEN "received" ELSE "refused"
  /\ UNCHANGED <<message, frame, damage, second>>

Resent(r) ==
  IF r.ok THEN second' = r.val /\ stage' = "resent"
  ELSE stage' = "kept" /\ UNCHANGED second

resend ==
  /\ stage = "received"
  /\ Resent(encode_message(decoded.val))
  /\ UNCHANGED <<message, frame, damage, reader, decoded>>

Done ==
  /\ stage \in {"refused", "resent", "kept"}
  /\ UNCHANGED relay_vars

Next == send \/ disturb \/ receive \/ resend \/ Done

Spec == Init /\ [][Next]_relay_vars

-----------------------------------------------------------------------------
(* Properties *)

accepted == stage \in {"received", "resent", "kept"}

\* Whatever one end can encode within the cap is sent, and every reader of its
\* direction, at either version, decodes it to the same message: rows of every
\* type and width, a failure behind the header of a response the server gave
\* up, lists, statements with either count, and both forms of the flat
\* messages that have two (encode_message and decode_message with the same
\* max_message_size).
RoundTrip ==
  stage # "built" /\ damage = "none" /\ encodable(message) =>
    /\ frame = <<>> => FrameSize(message) > max_message_size
    /\ frame # <<>> /\ stage # "sent" /\ Suits(reader, message) /\ message.kind \notin Private =>
         accepted /\ SameMessage(message, decoded.val)

\* A decoded message encodes to the bytes it was decoded from: the schema and
\* empty-header hints of requests, the row types of a rows response, the schema
\* byte of a statement response with a zero tail and the order of lists keep
\* what the frame said (_decoded_schema, row_types, StmtResponse.schema).
Reencodes ==
  /\ damage = "none"
  /\ Suits(reader, message)
  /\ message.kind \notin {"HalfRows", "Tagged", "FailureResponse", "LegacyLeader", "Promote"}
  => /\ stage = "resent" => second = frame
     /\ stage # "kept"

\* Part of a frame, or a frame and more, is never taken for a message, whatever
\* the message, the place of the tear and the reader (the size field Message.encode
\* writes, and its comparison with the length in decode_bytes).
TornRefused == accepted => damage # "torn"

\* A body cut short or followed by more words is not taken for a complete one,
\* and no altered end marker for one (strict decoding in decode_body,
\* decode_row_header).  The exceptions are the protocol's: parameters may be
\* missing, bytes may follow a failure, and the two forms of ASSIGN differ by a
\* word.
CutsDetected ==
  accepted =>
    /\ damage \in {"cut", "grown"} =>
         class_of(message) \in ParamsRequests \cup {"FailureResponse", "AssignRequest"}
    /\ message.kind = "FailureResponse" => damage # "cut"
    /\ decoded.val.kind = "RowsResponse" =>
         SubSeq(frame, Len(frame) - WORD_SIZE + 1, Len(frame))
           = IF decoded.val.has_more THEN ROW_PART_MARKER ELSE ROW_DONE_MARKER

\* Whatever a frame that decodes came from (damage, a peer of the other
\* direction or version), its message encodes to a frame that decodes to the
\* same message, of the same length where the class has one form only: nothing
\* in the frame was silently left over.
Stable ==
  stage = "resent" =>
    /\ decoded.val.kind \notin {"FailureResponse", "AssignRequest", "LeaderResponse"} =>
         Len(second) = Len(frame)
    /\ LET again == decode_message(second, [reader EXCEPT !.version = PROTOCOL_VERSION]) IN
       again.ok /\ SameMessage(decoded.val, again.val)

\* A decoder returns only messages of its own direction, of the type and the
\* schema in the header it read, although the numbers of requests and responses
\* overlap and a legacy body has no schema of its own (the type maps and schema
\* ceilings of decode_bytes).
HeaderObeyed ==
  accepted =>
    /\ is_request_class(decoded.val.kind) = reader.is_request
    /\ decoded.val.kind \notin Private
    /\ MSG_TYPE(decoded.val.kind) = msg_type(frame)
    /\ get_schema(decoded.val) = schema_of(frame)
=============================================================================
