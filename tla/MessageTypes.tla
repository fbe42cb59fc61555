---------------------------- MODULE MessageTypes -----------------------------
(***************************************************************************)
(* The messages a program can build.  The fields hold what the annotations *)
(* of the classes of dqlitewire.messages say, and texts are made of what   *)
(* IsUtf8 accepts; what else an encoder asks for is in `encodable`.        *)
(***************************************************************************)
EXTENDS WireCodec

AllBytes == Seq(0..(BYTE - 1))
AllTexts == Seq(0..127)

IsSequence(s) == Len(s) \in Nat /\ s = [i \in 1..Len(s) |-> s[i]]

is_value(x) ==
  /\ x = Py(x.py, x.v)
  /\ CASE x.py = "None"  -> x.v = 0
       [] x.py = "bool"  -> x.v \in {0, 1}
       [] x.py = "int"   -> x.v \in Int
       [] x.py = "float" -> is_uint64(x.v)
       [] x.py = "str"   -> x.v \in AllTexts
       [] x.py = "bytes" -> x.v \in AllBytes
       [] OTHER          -> FALSE

are_values(xs) == IsSequence(xs) /\ \A i \in DOMAIN xs : is_value(xs[i])

\* Texts where the layout has texts; reserved fields are no attributes.
fields_typed(xs, layout) ==
  /\ IsSequence(xs)
  /\ \A i \in DOMAIN layout :
       /\ layout[i].of \in {"text", "view"} => xs[i] \in AllTexts
       /\ layout[i].of = "reserved" => xs[i] = 0

\* The reader's row limit is above the rows that are sent.
rows_typed(m) ==
  /\ m = Rows(m.column_names, m.column_types, m.row_types, m.rows, m.has_more)
  /\ m.column_names \in Seq(AllTexts)
  /\ m.column_types \in Seq(ValueType)
  /\ m.row_types \in Seq(Seq(ValueType))
  /\ IsSequence(m.rows) /\ \A i \in DOMAIN m.rows : are_values(m.rows[i])
  /\ m.has_more \in BOOLEAN
  /\ m.rows # <<>> => Len(m.rows) < max_rows

failure_typed(m) == m = Failure(m.code, m.message) /\ m.message \in AllTexts

\* A dictionary has no key twice.
files_typed(m) ==
  /\ m = Files(m.files)
  /\ IsSequence(m.files)
  /\ \A i \in DOMAIN m.files : LET f == m.files[i] IN
       f = [name |-> f.name, content |-> f.content] /\ f.name \in AllTexts /\ f.content \in AllBytes
  /\ Distinct(m.files, LAMBDA f : f.name)

\* A node is a member of the cluster once.
servers_typed(m) ==
  /\ m = Servers(m.nodes)
  /\ IsSequence(m.nodes)
  /\ \A i \in DOMAIN m.nodes : LET n == m.nodes[i] IN
       n = [node_id |-> n.node_id, address |-> n.address, role |-> n.role] /\ n.address \in AllTexts
  /\ Distinct(m.nodes, LAMBDA n : n.node_id)

statement_typed(m) ==
  /\ m = Statement(m.kind, m.prefix, m.params, m.decoded_schema, m.decoded_empty_header)
  /\ m.decoded_empty_header \in BOOLEAN
  /\ fields_typed(m.prefix, prefix_layout(m.kind))
  /\ are_values(m.params)

\* ASSIGN has a role in its one-word form too, and does not send it.
flat_typed(m) ==
  /\ m.kind \in DOMAIN RequestType \cup DOMAIN ResponseType \cup {"Promote", "LegacyLeader"}
  /\ m = Flat(m.kind, m.fields, m.schema, m.decoded)
  /\ IF m.kind = "Promote" THEN IsSequence(m.fields)
     ELSE fields_typed(flat_fields(m), flat_layout(m.kind, flat_schema(m)))

\* What the other program sends: the start of a rows response with a column or
\* more, and then a failure.
half_rows_sent(m) ==
  /\ m = HalfRowsFailure(m.names, m.code, m.message)
  /\ m.names \in Seq(AllTexts)
  /\ Len(m.names) \in 1..MAX_COLUMN_COUNT
  /\ \A c \in DOMAIN m.names : text_encodable(m.names[c], MAX_COLUMN_NAME_SIZE)
  /\ failure_encodable(m) /\ m.message \in AllTexts

\* What the other client sends: parameters that fit their tags.
tagged_sent(m) ==
  /\ m = Tagged(m.class, m.prefix, m.params, m.types)
  /\ m.class \in ParamsRequests
  /\ fields_encodable(m.prefix, prefix_layout(m.class))
  /\ fields_typed(m.prefix, prefix_layout(m.class))
  /\ are_values(m.params) /\ m.types \in Seq(ValueType \ {UNIXTIME})
  /\ row_encodable(m.params, m.types)
  /\ Len(m.params) \in 1..Smaller(V0_MAX_PARAMS, MAX_PARAM_COUNT)

WellFormed(m) ==
  CASE m.kind = "RowsResponse"    -> rows_typed(m)
    [] m.kind = "FailureResponse" -> failure_typed(m)
    [] m.kind = "FilesResponse"   -> files_typed(m)
    [] m.kind = "ServersResponse" -> servers_typed(m)
    [] m.kind \in ParamsRequests  -> statement_typed(m)
    [] m.kind = "HalfRows"        -> half_rows_sent(m)
    [] m.kind = "Tagged"          -> tagged_sent(m)
    [] OTHER                      -> flat_typed(m)

-----------------------------------------------------------------------------
(* Their frames and readers *)

\* Kinds whose classes no decoder knows.
Private == {"HeartbeatRequest", "ConnectRequest"}

\* What a message's frame would measure.
FrameSize(m) == HEADER_SIZE + Len(encode_body(m))

\* The reader has the direction of the message and, where it matters, reads
\* the form of body that was written.
Suits(r, m) ==
  /\ r.is_request = is_request_class(class_of(m))
  /\ class_of(m) = "LeaderResponse" =>
       (r.version = PROTOCOL_VERSION_LEGACY <=> m.kind = "LegacyLeader")
=============================================================================
