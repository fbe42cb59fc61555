----------------------------- MODULE FlatBodies ------------------------------
(***************************************************************************)
(* The bodies of dqlitewire.messages that are a fixed list of fields, one  *)
(* layout per class, and what each class asks of its fields besides.       *)
(***************************************************************************)
EXTENDS MessageBodies

CONSTANTS MAX_DUMP_FILENAME_SIZE, MAX_TAIL_OFFSET, MAX_ROWS_AFFECTED

ASSUME FieldCapsAssumption ==
  /\ MAX_DUMP_FILENAME_SIZE \in Nat
  /\ {MAX_TAIL_OFFSET, MAX_ROWS_AFFECTED} \subseteq 0..(WordRange - 1)

\* schema is what the caller or the frame gave; decoded marks a request that
\* came off the wire.
Flat(kind, fields, schema, decoded) ==
  [kind |-> kind, fields |-> fields, schema |-> schema, decoded |-> decoded]

-----------------------------------------------------------------------------
(* Requests *)

WordRequests == {"ClientRequest", "HeartbeatRequest", "InterruptRequest",
                 "RemoveRequest", "TransferRequest", "WeightRequest"}
NodeAddressRequests == {"AddRequest", "ConnectRequest"}

WordRequest        == <<uint64>>
LeaderRequest      == <<capped(0)>>
NodeAddressRequest == <<uint64, text(MAX_ADDRESS_SIZE)>>
PrepareRequest     == <<uint64, text_view(MAX_TEXT_VALUE_SIZE)>>
FinalizeRequest    == <<uint32, uint32_rest>>
OpenRequest        == <<text_view(MAX_FILENAME_SIZE), uint64, text_view(MAX_FILENAME_SIZE)>>
DumpRequest        == <<text(MAX_DUMP_FILENAME_SIZE)>>
AssignRequest      == <<uint64, capped(SPARE)>>
ClusterRequest     == <<capped(1)>>
DescribeRequest    == <<capped(0)>>

\* The one-word form of ASSIGN (encode_body_legacy): the role takes no bytes
\* and reads as 0, VOTER.
Promote == <<uint64, reserved(0)>>

\* Only a decoded ClusterRequest may ask for the format without roles.
cluster_format_ok(m) == m.fields = <<0>> => m.decoded

-----------------------------------------------------------------------------
(* Responses *)

LeaderResponse   == <<uint64, text(MAX_ADDRESS_SIZE)>>
WelcomeResponse  == <<uint64>>
DbResponse       == <<uint32, reserved(WORD_SIZE - UINT32_SIZE)>>
ResultResponse   == <<uint64, capped(MAX_ROWS_AFFECTED)>>
EmptyResponse    == <<reserved(WORD_SIZE)>>
MetadataResponse == <<uint64, uint64>>

StmtResponse(schema) ==
  <<uint32, uint32_rest, capped(MAX_PARAM_COUNT)>>
    \o IF schema = 1 THEN <<capped(MAX_TAIL_OFFSET)>> ELSE <<>>

\* The address alone (encode_body_legacy, decode_body_legacy): the node id
\* takes no bytes, must be 0 and reads as 0.
LegacyLeader == <<uint(0), text(MAX_ADDRESS_SIZE)>>

\* No node is the leader, or a node is: an address without a node is neither.
leader_atomic(fields) == fields[1] = 0 => fields[2] = <<>>

\* Message._get_schema: a StmtResponse without one takes that of its fields.
flat_schema(m) ==
  IF m.schema # None THEN m.schema ELSE IF Len(m.fields) = 4 THEN 1 ELSE 0

\* StmtResponse.__post_init__: schema 1 without a tail offset has offset 0.
flat_fields(m) ==
  IF m.kind = "StmtResponse" /\ m.schema = 1 /\ Len(m.fields) = 3
  THEN Append(m.fields, 0) ELSE m.fields

-----------------------------------------------------------------------------
(* All of them *)

flat_layout(kind, schema) ==
  CASE kind \in WordRequests        -> WordRequest
    [] kind \in NodeAddressRequests -> NodeAddressRequest
    [] kind = "LeaderRequest"       -> LeaderRequest
    [] kind = "PrepareRequest"      -> PrepareRequest
    [] kind = "FinalizeRequest"     -> FinalizeRequest
    [] kind = "OpenRequest"         -> OpenRequest
    [] kind = "DumpRequest"         -> DumpRequest
    [] kind = "AssignRequest"       -> AssignRequest
    [] kind = "Promote"             -> Promote
    [] kind = "ClusterRequest"      -> ClusterRequest
    [] kind = "DescribeRequest"     -> DescribeRequest
    [] kind = "LeaderResponse"      -> LeaderResponse
    [] kind = "LegacyLeader"        -> LegacyLeader
    [] kind = "WelcomeResponse"     -> WelcomeResponse
    [] kind = "DbResponse"          -> DbResponse
    [] kind = "StmtResponse"        -> StmtResponse(schema)
    [] kind = "ResultResponse"      -> ResultResponse
    [] kind = "EmptyResponse"       -> EmptyResponse
    [] kind = "MetadataResponse"    -> MetadataResponse

\* require_schema, and the same test spelled out in the responses.
schemas(kind) ==
  IF kind \in ParamsRequests \cup {"PrepareRequest", "StmtResponse"} THEN {0, 1} ELSE {0}

flat_encodable(m) ==
  /\ flat_schema(m) \in schemas(m.kind)
  /\ fields_encodable(flat_fields(m), flat_layout(m.kind, flat_schema(m)))
  /\ m.kind = "ClusterRequest" => cluster_format_ok(m)
  /\ m.kind = "LeaderResponse" => leader_atomic(m.fields)

encode_flat(m) == encode_fields(flat_fields(m), flat_layout(m.kind, flat_schema(m)))

\* A message of this class, if the fields are all there is.
FlatOf(kind, r, schema, size) ==
  Then(r, LAMBDA fields, used :
    IF used = size /\ (kind = "LeaderResponse" => leader_atomic(fields))
    THEN Got(Flat(kind, fields, schema, TRUE), size)
    ELSE Fail)

decode_flat(kind, d, schema) ==
  FlatOf(kind,
         decode_fields(d, flat_layout(IF kind = "AssignRequest" /\ Len(d) = WORD_SIZE
                                      THEN "Promote" ELSE kind, schema)),
         schema, Len(d))

decode_body_legacy(d) ==
  Then(decode_fields(d, LegacyLeader), LAMBDA fields, used :
    IF consumed(d, used) THEN Got(Flat("LeaderResponse", fields, 0, TRUE), used) ELSE Fail)
=============================================================================
