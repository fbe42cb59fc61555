------------------------------ MODULE WireCodec ------------------------------
(***************************************************************************)
(* Whole frames: the header of dqlitewire.messages.base, and the encoding  *)
(* and dispatch of dqlitewire.codec (MessageEncoder, decode_bytes,         *)
(* encode_message, decode_message).                                        *)
(***************************************************************************)
EXTENDS FlatBodies

CONSTANTS
  HEADER_SIZE,               \* size_words, msg_type, schema, reserved
  max_message_size,          \* of encoder and decoder
  PROTOCOL_VERSION,
  PROTOCOL_VERSION_LEGACY

ASSUME CodecAssumption ==
  /\ HEADER_SIZE \in Nat /\ HEADER_SIZE >= UINT32_SIZE + 2
  /\ max_message_size \in 1..(Codes(UINT32_SIZE) - 1)   \* MAX_MESSAGE_SIZE_CEILING
  /\ {PROTOCOL_VERSION, PROTOCOL_VERSION_LEGACY} \subseteq 0..(WordRange - 1)
  /\ PROTOCOL_VERSION # PROTOCOL_VERSION_LEGACY

\* The numbers of requests and of responses overlap.
RequestType ==
  [LeaderRequest |-> 0, ClientRequest |-> 1, HeartbeatRequest |-> 2, OpenRequest |-> 3,
   PrepareRequest |-> 4, ExecRequest |-> 5, QueryRequest |-> 6, FinalizeRequest |-> 7,
   ExecSqlRequest |-> 8, QuerySqlRequest |-> 9, InterruptRequest |-> 10,
   ConnectRequest |-> 11, AddRequest |-> 12, AssignRequest |-> 13, RemoveRequest |-> 14,
   DumpRequest |-> 15, ClusterRequest |-> 16, TransferRequest |-> 17,
   DescribeRequest |-> 18, WeightRequest |-> 19]

ResponseType ==
  [FailureResponse |-> 0, LeaderResponse |-> 1, WelcomeResponse |-> 2,
   ServersResponse |-> 3, DbResponse |-> 4, StmtResponse |-> 5, ResultResponse |-> 6,
   RowsResponse |-> 7, EmptyResponse |-> 8, FilesResponse |-> 9, MetadataResponse |-> 10]

\* None is no class.
ASSUME ClassesAssumption == None \notin DOMAIN RequestType \cup DOMAIN ResponseType

\* What a decoder of either direction knows: neither HEARTBEAT nor CONNECT.
REQUEST_TYPES  == DOMAIN RequestType \ {"HeartbeatRequest", "ConnectRequest"}
RESPONSE_TYPES == DOMAIN ResponseType

REQUEST_MAX_SCHEMA ==
  [c \in {RequestType.PrepareRequest, RequestType.ExecRequest, RequestType.QueryRequest,
          RequestType.ExecSqlRequest, RequestType.QuerySqlRequest} |-> 1]
RESPONSE_MAX_SCHEMA == [c \in {ResponseType.StmtResponse} |-> 1]

-----------------------------------------------------------------------------
(* Messages *)

\* The class a message is decoded as: some are written by an older form of
\* the class or by another program.
class_of(m) ==
  CASE m.kind = "HalfRows"     -> "FailureResponse"
    [] m.kind = "Tagged"       -> m.class
    [] m.kind = "LegacyLeader" -> "LeaderResponse"
    [] m.kind = "Promote"      -> "AssignRequest"
    [] OTHER                   -> m.kind

is_request_class(class) == class \in DOMAIN RequestType

MSG_TYPE(class) ==
  IF is_request_class(class) THEN RequestType[class] ELSE ResponseType[class]

encodable(m) ==
  CASE m.kind = "RowsResponse"           -> rows_encodable(m)
    [] m.kind = "FailureResponse"        -> failure_encodable(m)
    [] m.kind = "FilesResponse"          -> files_encodable(m)
    [] m.kind = "ServersResponse"        -> servers_encodable(m)
    [] m.kind \in ParamsRequests         -> statement_encodable(m)
    [] m.kind \in {"HalfRows", "Tagged"} -> TRUE
    [] OTHER                             -> flat_encodable(m)

encode_body(m) ==
  CASE m.kind = "RowsResponse"    -> encode_rows(m)
    [] m.kind = "FailureResponse" -> encode_failure(m)
    [] m.kind = "HalfRows"        -> encode_half_rows(m)
    [] m.kind = "FilesResponse"   -> encode_files(m)
    [] m.kind = "ServersResponse" -> encode_servers(m)
    [] m.kind \in ParamsRequests  -> encode_statement(m)
    [] m.kind = "Tagged"          -> encode_tagged(m)
    [] OTHER                      -> encode_flat(m)

get_schema(m) ==
  IF m.kind \in ParamsRequests THEN params_schema(m)
  ELSE IF "fields" \in DOMAIN m THEN flat_schema(m)
  ELSE 0

-----------------------------------------------------------------------------
(* Frames *)

\* The schema byte is left at zero.
HeaderWithoutSchema(words, code, schema) ==
  LittleEndian(words, UINT32_SIZE) \o <<code>>
    \o Zeros(HEADER_SIZE - UINT32_SIZE - 1)

Header(words, code, schema) ==
  LittleEndian(words, UINT32_SIZE) \o <<code, schema>>
    \o Zeros(HEADER_SIZE - UINT32_SIZE - 2)

\* The header is not counted.
body_fits(size) == size - HEADER_SIZE <= max_message_size

\* MessageEncoder.encode and decode_bytes both compare the whole frame with
\* their max_message_size.
frame_fits(size) == size <= max_message_size

\* Message.encode: the body must be whole words, and no more of them than the
\* size field counts.  MessageEncoder.encode: the frame must fit.
FrameOf(class, schema, body) ==
  LET words == Len(body) \div WORD_SIZE
      frame == Header(words, MSG_TYPE(class), schema) \o body
  IN  IF /\ Len(body) % WORD_SIZE = 0
         /\ words < Codes(UINT32_SIZE)
         /\ frame_fits(Len(frame))
      THEN Got(frame, Len(frame)) ELSE Fail

encode_message(m) ==
  IF encodable(m) THEN FrameOf(class_of(m), get_schema(m), encode_body(m)) ELSE Fail

encode_handshake(n) == encode_uint64(n)

\* Whoever decodes a frame does so as a client or a server, at a version.
Decoder(serves, speaks) == [is_request |-> serves, version |-> speaks]

size_words(d) == Number(SubSeq(d, 1, UINT32_SIZE))
msg_type(d)   == d[UINT32_SIZE + 1]
schema_of(d)  == d[UINT32_SIZE + 2]
body_of(d)    == From(d, HEADER_SIZE)

\* The class the type map of this direction gives for the type byte, or None.
msg_class(code, serves) ==
  LET known == IF serves THEN {c \in REQUEST_TYPES : RequestType[c] = code}
               ELSE {c \in RESPONSE_TYPES : ResponseType[c] = code}
  IN  IF known = {} THEN None ELSE CHOOSE c \in known : TRUE

\* Any schema is passed on to decode_body.
any_schema(code, schema, serves) == TRUE

schema_supported(code, schema, serves) ==
  LET ceilings == IF serves THEN REQUEST_MAX_SCHEMA ELSE RESPONSE_MAX_SCHEMA IN
  schema <= IF code \in DOMAIN ceilings THEN ceilings[code] ELSE 0

\* The legacy body is chosen by version and type byte alone.
reads_legacy_of_either(code, dec) ==
  code = ResponseType.LeaderResponse /\ dec.version = PROTOCOL_VERSION_LEGACY

\* Which body a LEADER response has is decided by the version of the decoder;
\* the type byte alone would also match a CLIENT request.
reads_legacy(code, dec) ==
  /\ ~dec.is_request
  /\ code = ResponseType.LeaderResponse
  /\ dec.version = PROTOCOL_VERSION_LEGACY

decode_body(class, d, schema) ==
  IF schema \notin schemas(class) THEN Fail
  ELSE CASE class = "RowsResponse"    -> decode_rows(d)
         [] class = "FailureResponse" -> decode_failure(d)
         [] class = "FilesResponse"   -> decode_files(d)
         [] class = "ServersResponse" -> decode_servers(d)
         [] class \in ParamsRequests  -> decode_statement(class, d, schema)
         [] OTHER                     -> decode_flat(class, d, schema)

\* The end of decode_bytes: from type, schema and body to the message.
Dispatch(code, schema, body, dec) ==
  IF \/ msg_class(code, dec.is_request) = None
     \/ ~schema_supported(code, schema, dec.is_request)
  THEN Fail
  ELSE IF reads_legacy(code, dec) THEN decode_body_legacy(body)
  ELSE decode_body(msg_class(code, dec.is_request), body, schema)

\* Bytes behind the frame are let pass.
frame_within(d) == Len(d) >= HEADER_SIZE + size_words(d) * WORD_SIZE

\* No byte of the body is missing, and none follows it.
frame_exactly(d) == Len(d) = HEADER_SIZE + size_words(d) * WORD_SIZE

\* decode_bytes of a decoder whose handshake is done; decode_message builds
\* such a decoder for one frame.
decode_message(d, dec) ==
  IF Len(d) < HEADER_SIZE THEN Fail
  ELSE IF \/ ~frame_fits(HEADER_SIZE + size_words(d) * WORD_SIZE)
          \/ ~frame_exactly(d)
  THEN Fail
  ELSE Dispatch(msg_type(d), schema_of(d), body_of(d), dec)

-----------------------------------------------------------------------------
(* What a reader should get *)

SameCells(xs, ys) ==
  Len(xs) = Len(ys) /\ \A i \in DOMAIN xs : PyEqual(xs[i], ys[i])

\* The decoded message d says what message m said.
SameMessage(m, d) ==
  /\ d.kind = class_of(m)
  /\ CASE m.kind = "RowsResponse" ->
            /\ d.column_names = m.column_names
            /\ d.has_more = m.has_more
            /\ Len(d.rows) = Len(m.rows)
            /\ \A i \in DOMAIN d.rows : SameCells(m.rows[i], d.rows[i])
            /\ d.row_types = [i \in DOMAIN m.rows |-> get_row_types(m, i)]
       [] m.kind \in {"FailureResponse", "HalfRows"} ->
            d.code = m.code /\ d.message = sanitize_server_text(m.message)
       [] m.kind = "FilesResponse" -> d.files = m.files
       [] m.kind = "ServersResponse" -> d.nodes = m.nodes
       [] m.kind \in ParamsRequests \cup {"Tagged"} ->
            d.prefix = m.prefix /\ SameCells(m.params, d.params)
       [] m.kind = "Promote" -> d.fields = <<m.fields[1], VOTER>>
       [] OTHER -> d.fields = flat_fields(m) /\ get_schema(d) = get_schema(m)
=============================================================================
