----------------------------- MODULE WireSession -----------------------------
(***************************************************************************)
(* One direction of a connection from end to end: what encode_handshake    *)
(* and encode_message write at one end goes, cut into chunks, through the  *)
(* buffer and the decoder of the other end, whose owner feeds it only when *)
(* there is nothing left to decode and reconnects when it is poisoned.     *)
(*                                                                         *)
(* The stream of MessageDecoder is not assumed here: what it says of every *)
(* offset is what decode_message makes of the bytes at that offset.        *)
(***************************************************************************)
EXTENDS MessageDecoder

CONSTANTS
  UINT32_SIZE, MAX_TEXT_VALUE_SIZE, MAX_BLOB_SIZE, TEXT_SHORT_PROBE,
  TEXT_ONE_SHOT_MAX, TEXT_SCAN_CHUNK, IsoTexts, MAX_PARAM_COUNT, V0_MAX_PARAMS,
  MAX_COLUMN_COUNT, MAX_COLUMN_NAME_SIZE, MAX_FAILURE_MESSAGE_SIZE,
  MAX_FILE_COUNT, MAX_FILENAME_SIZE, MAX_FILE_CONTENT_SIZE, MAX_NODE_COUNT,
  MAX_ADDRESS_SIZE, unknown_role_policy, MAX_DUMP_FILENAME_SIZE,
  MAX_TAIL_OFFSET, MAX_ROWS_AFFECTED, PROTOCOL_VERSION, PROTOCOL_VERSION_LEGACY

\* The codec, and what is proved of it.
C == INSTANCE MessageProofs

ASSUME CodecAssumptions ==
  /\ C!WireSizesAssumption /\ C!BlobsAssumption /\ C!TupleSizesAssumption
  /\ C!NoneAssumption /\ C!CapsAssumption /\ C!FieldCapsAssumption
  /\ C!CodecAssumption /\ C!ClassesAssumption
  /\ HANDSHAKE_SIZE = WORD_SIZE

CONSTANTS
  Scripts,   \* what the writers may send, in a sequence
  Later      \* which of them may follow a reconnect

VARIABLES
  connection,  \* what is sent on the open connection
  delivered    \* the messages returned by decode() and decode_continuation()

session_vars == <<connection, delivered>>

-----------------------------------------------------------------------------
(* The writer *)

\* encode_message raises for some messages; the writer goes on without them.
Written(s) ==
  LET after[k \in 0..Len(s.messages)] ==
        IF k = 0
        THEN [sent  |-> <<>>,
              bytes |-> IF s.is_request THEN C!encode_handshake(s.version) ELSE <<>>]
        ELSE LET w == after[k - 1]
                 r == C!encode_message(s.messages[k])
             IN  IF r.ok THEN [sent  |-> Append(w.sent, s.messages[k]),
                               bytes |-> w.bytes \o r.val]
                 ELSE w
  IN  after[Len(s.messages)]

\* How much of an open result is sent after message m.
NothingOpen == [frames |-> 0, rows |-> 0, cols |-> None]

Collected(p, m) ==
  IF m.kind = "RowsResponse" /\ m.has_more
  THEN [frames |-> p.frames + 1, rows |-> p.rows + Len(m.rows), cols |-> m.column_names]
  ELSE NothingOpen

\* A server follows a page that announces another by one with the same columns,
\* within the caps of the reader, or ends the result.
Follows(p, m) ==
  IF p.frames = 0
  THEN m.kind = "RowsResponse" /\ m.has_more => Within(Len(m.rows), max_total_rows)
  ELSE \/ m.kind \in {"FailureResponse", "HalfRows", "EmptyResponse"}
       \/ /\ m.kind = "RowsResponse"
          /\ Within(p.frames + 1, max_continuation_frames)
          /\ Within(p.rows + Len(m.rows), max_total_rows)
          /\ m.column_names = p.cols

PagesInOrder(sent) ==
  LET open[k \in 0..Len(sent)] ==
        IF k = 0 THEN NothingOpen ELSE Collected(open[k - 1], sent[k])
  IN  \A k \in 1..Len(sent) : Follows(open[k - 1], sent[k])

Reader(s) == C!Decoder(s.is_request, s.version)

\* The scripts are what programs that keep to the protocol write, at one of the
\* versions, and they fit in the stream of the model.
ASSUME ScriptsAssumption ==
  /\ C!IsSequence(Scripts) /\ Later \subseteq DOMAIN Scripts
  /\ StreamLen > 0
  /\ \A i \in DOMAIN Scripts : LET s == Scripts[i] IN
       /\ s.is_request \in BOOLEAN
       /\ s.version \in {PROTOCOL_VERSION, PROTOCOL_VERSION_LEGACY}
       /\ C!IsSequence(s.messages)
       /\ \A k \in DOMAIN s.messages : LET m == s.messages[k] IN
            /\ C!encodable(m) => C!WellFormed(m)
            /\ C!Suits(Reader(s), m) /\ C!class_of(m) \notin C!Private
       /\ PagesInOrder(Written(s).sent)
       /\ Len(Written(s).bytes) <= StreamLen

-----------------------------------------------------------------------------
(* What the other end makes of the bytes *)

\* How decode_continuation() tells the types apart.
TypeName(class) ==
  CASE class = "RowsResponse"    -> "ROWS"
    [] class = "FailureResponse" -> "FAILURE"
    [] class = "EmptyResponse"   -> "EMPTY"
    [] class = None              -> "UNKNOWN"
    [] OTHER                     -> "OTHER"

FrameBytes(bytes, o) ==
  LET d == C!From(bytes, o) IN
  SubSeq(d, 1, Least(HEADER_SIZE + C!size_words(d) * WORD_SIZE, Len(d)))

Described(s, d, r) ==
  LET rows == r.ok /\ r.val.kind = "RowsResponse" IN
  [words     |-> C!size_words(d),
   type      |-> TypeName(C!msg_class(C!msg_type(d), s.is_request)),
   schema_ok |-> C!schema_supported(C!msg_type(d), C!schema_of(d), s.is_request),
   ok        |-> r.ok,
   rows      |-> IF rows THEN Len(r.val.rows) ELSE 0,
   cols      |-> IF rows THEN r.val.column_names ELSE <<>>,
   more      |-> rows /\ r.val.has_more,
   request   |-> s.is_request,
   version   |-> C!Number(SubSeq(d, 1, HANDSHAKE_SIZE))]

\* What is read at each of the offsets of a stream of these bytes, behind which
\* zeros follow that never arrive.
Views(s, bytes) ==
  SubSeq([i \in 1..StreamLen |->
            Described(s, C!From(bytes, i - 1),
                      C!decode_message(FrameBytes(bytes, i - 1), Reader(s)))],
         1, StreamLen)

\* A script, what is sent of it and how that looks on the wire.
Connection(s) ==
  [is_request |-> s.is_request,
   version    |-> s.version,
   sent       |-> Written(s).sent,
   bytes      |-> Written(s).bytes]

Prepared(s) ==
  [connection |-> Connection(s), views |-> Views(s, Written(s).bytes \o C!Zeros(StreamLen))]

Connections == SubSeq([i \in DOMAIN Scripts |-> Prepared(Scripts[i])], 1, Len(Scripts))

StreamOf(prepared) == [o \in 0..(StreamLen - 1) |-> prepared.views[o + 1]]

\* The message decoded from the frame at offset o.
MessageAt(o) ==
  C!decode_message(FrameBytes(connection.bytes, o), Reader(connection)).val

-----------------------------------------------------------------------------
(* The reader *)

SessionInit ==
  /\ \E i \in DOMAIN Connections :
       connection = Connections[i].connection /\ stream = StreamOf(Connections[i])
  /\ DecoderInit
  /\ ~is_request => version = connection.version
  /\ delivered = <<>>

\* decode() and decode_continuation() return a message, decode_handshake() none.
Delivers ==
  delivered' = IF got' # got /\ got'.ret = "message" /\ got'.call # "handshake"
               THEN Append(delivered, MessageAt(got'.at)) ELSE delivered

\* The owner calls whichever of the three the state of the decoder asks for.
call == decode \/ decode_failed \/ decode_continuation \/ decode_handshake

step ==
  /\ call
  /\ Delivers
  /\ UNCHANGED connection

\* It reads from the connection when there is nothing to decode.
Idle == ~has_message /\ ~HandshakeReady

Arrives(n) == Idle /\ fed + n <= Len(connection.bytes)

arrive ==
  /\ \E n \in Chunks : Arrives(n) /\ decoder_feed(n)
  /\ UNCHANGED session_vars

\* An exception where a handler sees it, or where there is nothing to tear.
interrupt ==
  /\ \/ \E n \in Chunks : Arrives(n) /\ decoder_feed_interrupted(n)
     \/ decode_interrupted
     \/ decode_continuation_interrupted
     \/ decode_handshake_interrupted
  /\ UNCHANGED session_vars

\* A new connection, to the same kind of peer.
reconnect ==
  /\ is_poisoned
  /\ \E i \in Later :
       connection' = Connections[i].connection /\ stream' = StreamOf(Connections[i])
  /\ ~is_request => version = connection'.version
  /\ reset
  /\ delivered' = <<>>

\* The writer is done and the reader has it all.
finished ==
  /\ Len(delivered) = Len(connection.sent)
  /\ UNCHANGED <<vars, session_vars>>

SessionNext == step \/ arrive \/ interrupt \/ reconnect \/ finished

all_vars == <<vars, session_vars>>

\* The owner keeps reading what arrives and decoding what is there.
SessionSpec ==
  /\ SessionInit /\ [][SessionNext]_all_vars
  /\ WF_vars(call)
  /\ WF_vars(\E n \in Chunks : Arrives(n) /\ feed(n) /\ UNCHANGED decoder_vars)

-----------------------------------------------------------------------------
(* Properties *)

\* Where the reader is on the wire after some of the messages, and what it has
\* of the result that is open there.
FirstStation ==
  [at |-> IF connection.is_request THEN HANDSHAKE_SIZE ELSE 0,
   frames |-> 0, rows |-> 0, cols |-> None]

NextStation(p) ==
  LET f == stream[p.at]
      end == p.at + Claimed(p.at)
  IN  IF Announces(f)
      THEN [at |-> end, frames |-> p.frames + 1, rows |-> p.rows + f.rows, cols |-> f.cols]
      ELSE [at |-> end, frames |-> 0, rows |-> 0, cols |-> None]

Stations ==
  LET after[k \in 0..Len(connection.sent)] ==
        IF k = 0 THEN FirstStation ELSE NextStation(after[k - 1])
  IN  after

\* The frame at station p is within the caps and not out of place there.
InPlace(p) ==
  LET f == stream[p.at] IN
  /\ Claimed(p.at) <= max_message_size
  /\ BodyDecodes(f)
  /\ IF p.frames = 0
     THEN Announces(f) => Within(f.rows, max_total_rows)
     ELSE \/ f.type \in {"FAILURE", "EMPTY"}
          \/ /\ f.type = "ROWS"
             /\ Within(p.frames + 1, max_continuation_frames)
             /\ Within(p.rows + f.rows, max_total_rows)
             /\ f.cols = p.cols

\* What the writer puts on the wire is what the decoder is made for: a handshake
\* from a client only, then one frame for each message that encodes, end to end,
\* each of which decodes to its message (encode_handshake, encode_message and
\* decode_message agree on sizes, types, schemas and caps).
FramesAsSent ==
  LET after == Stations
      n == Len(connection.sent)
  IN  /\ n \in Nat /\ Len(connection.bytes) \in 0..StreamLen
      /\ stream[0].request = connection.is_request
      /\ connection.is_request => stream[0].version = connection.version
      /\ after[n].at = Len(connection.bytes)
      /\ \A k \in 1..n :
           /\ InPlace(after[k - 1])
           /\ C!SameMessage(connection.sent[k], MessageAt(after[k - 1].at))

\* What the reader has got from this connection is what the writer sent, from
\* the first message on, in order, without a gap, whatever the chunks and
\* whatever happened on the connection before it (encode_message, feed, decode,
\* decode_continuation, decode_handshake and reset together).
DeliveredInOrder ==
  /\ Len(delivered) <= Len(connection.sent)
  /\ \A i \in DOMAIN delivered : C!SameMessage(connection.sent[i], delivered[i])

\* Nothing the encoder writes fails in the decoder: no frame is oversized, of
\* unknown type or schema, malformed or out of place, and the handshake is of a
\* version the reader supports (the caps and tables the two halves share).
WriterNeverFailsReader ==
  /\ got.ret # "error"
  /\ poisoned \notin {"decode", "capped"}
  /\ ~is_poisoned /\ has_header /\ handshake_done => ~oversized
  /\ is_request /\ handshake_done => version = connection.version

\* An owner that keeps reading and decoding gets every message that was sent,
\* unless an interrupt or a chunk too large for what is still buffered poisons
\* the buffer: no message of legal size is waited for in vain.
EverythingDelivered ==
  ~is_poisoned ~> (Len(delivered) = Len(connection.sent) \/ poisoned \in {"interrupt", "overflow"})
=============================================================================
