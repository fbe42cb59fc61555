---------------------------- MODULE MessageBodies ----------------------------
(***************************************************************************)
(* The bodies of dqlitewire.messages that are more than a fixed list of    *)
(* fields: rows, failures, file and server lists, and the statement        *)
(* requests with their parameters.  A message is a record; its kind is its *)
(* class.                                                                  *)
(***************************************************************************)
EXTENDS WireFields

CONSTANTS
  MAX_COLUMN_COUNT, MAX_COLUMN_NAME_SIZE,
  MAX_FAILURE_MESSAGE_SIZE,
  MAX_FILE_COUNT, MAX_FILENAME_SIZE, MAX_FILE_CONTENT_SIZE,
  MAX_NODE_COUNT, MAX_ADDRESS_SIZE,
  max_rows,              \* exclusive
  unknown_role_policy,   \* "reject", "warn" or "accept"
  None

ASSUME NoneAssumption == None \notin {0, 1}

\* The counts and sizes the caps allow fit the words that hold them, and a column
\* name is no longer than the message of a failure.
ASSUME CapsAssumption ==
  /\ \A cap \in {MAX_COLUMN_COUNT, MAX_FILE_COUNT, MAX_FILE_CONTENT_SIZE, MAX_NODE_COUNT} :
       cap \in Nat /\ cap < WordRange
  /\ {MAX_COLUMN_NAME_SIZE, MAX_FAILURE_MESSAGE_SIZE, MAX_FILENAME_SIZE,
      MAX_ADDRESS_SIZE} \subseteq Nat
  /\ MAX_COLUMN_NAME_SIZE <= MAX_FAILURE_MESSAGE_SIZE
  /\ max_rows \in Nat

\* require_consumed, and the same test spelled out in the responses.
consumed(d, offset) == offset = Len(d)

-----------------------------------------------------------------------------
(* RowsResponse *)

Rows(names, column_types, row_types, rows, has_more) ==
  [kind |-> "RowsResponse", column_names |-> names, column_types |-> column_types,
   row_types |-> row_types, rows |-> rows, has_more |-> has_more]

\* _get_row_types: given per row, given per column or inferred; None is NULL.
get_row_types(m, i) ==
  LET given == IF m.row_types # <<>> THEN m.row_types[i]
               ELSE IF m.column_types # <<>> THEN m.column_types
               ELSE [c \in DOMAIN m.rows[i] |-> infer_value_type(m.rows[i][c])]
  IN  [c \in DOMAIN given |-> IF m.rows[i][c].py = "None" THEN NULL ELSE given[c]]

rows_encodable(m) ==
  LET col_count == Len(m.column_names) IN
  /\ col_count <= MAX_COLUMN_COUNT
  /\ m.column_types # <<>> => Len(m.column_types) = col_count
  /\ m.row_types # <<>> => Len(m.row_types) = Len(m.rows)
  /\ col_count = 0 => m.rows = <<>>
  /\ \A i \in DOMAIN m.rows :
       /\ Len(m.rows[i]) = col_count
       /\ m.row_types # <<>> => Len(m.row_types[i]) = col_count
       /\ row_encodable(m.rows[i], get_row_types(m, i))
  /\ \A c \in DOMAIN m.column_names :
       text_encodable(m.column_names[c], MAX_COLUMN_NAME_SIZE)

encode_rows(m) ==
  encode_uint64(Len(m.column_names))
    \o FlattenSeq([c \in DOMAIN m.column_names |-> encode_text(m.column_names[c])])
    \o FlattenSeq([i \in DOMAIN m.rows |->
                     encode_row_header(get_row_types(m, i))
                       \o encode_row_values(m.rows[i], get_row_types(m, i))])
    \o (IF m.has_more THEN ROW_PART_MARKER ELSE ROW_DONE_MARKER)

column_name(d) == decode_text_view(d, MAX_COLUMN_NAME_SIZE)

\* Bytes behind the marker are ignored.
EndsLoosely(d, o) == TRUE

\* The end marker at offset o is the last word of the body.
EndsAt(d, o) == o + WORD_SIZE = Len(d)

\* The loop over the rows at offset `at`: what it has collected, and the end
\* marker it met.
RowsAt(at, row_types, rows, ends) ==
  [ok |-> TRUE, at |-> at, row_types |-> row_types, rows |-> rows, ends |-> ends]

\* One pass of the loop: a row, or the end marker.
RowPass(d, s, column_count) ==
  LET marker == MarkerAt(From(d, s.at)) IN
  IF ~s.ok \/ s.ends # "none" THEN s
  ELSE IF marker # "none" THEN
    IF EndsAt(d, s.at) THEN RowsAt(s.at, s.row_types, s.rows, marker) ELSE Fail
  ELSE IF column_count = 0 \/ s.at >= Len(d) THEN Fail
  ELSE Then(decode_row_types(From(d, s.at), column_count), LAMBDA types, header :
         Then(decode_row_values(From(d, s.at + header), types), LAMBDA row, used :
           RowsAt(s.at + header + used, Append(s.row_types, types), Append(s.rows, row), "none")))

\* The rows of body d from offset o up to the end marker.  A pass takes a word
\* or more, or is the last.
RowsFrom(d, o, column_count) ==
  LET passes[n \in 0..Len(d)] ==
        IF n = 0 THEN RowsAt(o, <<>>, <<>>, "none")
        ELSE RowPass(d, passes[n - 1], column_count)
  IN  passes[Len(d)]

\* The message with these column names and rows, unless there are too many.
RowsOf(names, body, size) ==
  IF ~body.ok THEN Fail
  ELSE IF Len(body.rows) >= max_rows /\ body.rows # <<>> THEN Fail
  ELSE Got(Rows(names, IF body.rows = <<>> THEN <<>> ELSE body.row_types[1],
                body.row_types, body.rows, body.ends = "part"), size)

decode_rows(d) ==
  LET remaining   == Len(d) - WORD_SIZE
      max_columns == (IF remaining > WORD_SIZE THEN remaining - WORD_SIZE ELSE 0)
                       \div WORD_SIZE
  IN  Then(decode_uint64(d), LAMBDA count, at :
        IF count > MAX_COLUMN_COUNT \/ count > max_columns THEN Fail
        ELSE Then(Times(count, column_name, From(d, at)), LAMBDA names, used :
               RowsOf(names, RowsFrom(d, at + used, count), Len(d))))

-----------------------------------------------------------------------------
(* FailureResponse *)

Failure(code, message) == [kind |-> "FailureResponse", code |-> code, message |-> message]

\* sanitize_server_text: control characters become question marks.
sanitize_server_text(s) ==
  [i \in DOMAIN s |-> IF s[i] \in (0..8) \cup (11..31) \cup {127} THEN 63 ELSE s[i]]

failure_encodable(m) ==
  is_uint64(m.code) /\ text_encodable(m.message, MAX_FAILURE_MESSAGE_SIZE)

encode_failure(m) == encode_uint64(m.code) \o encode_text(m.message)

\* A code and a message at the start of d.
FailureRecord(d) ==
  IF Len(d) < WORD_SIZE + 1 THEN Fail
  ELSE Then(decode_uint64(d), LAMBDA code, at :
         Then(decode_text(From(d, at), MAX_FAILURE_MESSAGE_SIZE), LAMBDA message, used :
           Got(Failure(code, message), at + used)))

\* _recover_trailing_failure_record: the record behind the column names of a
\* rows header that the server began and did not take back.
recover_trailing(d, column_count) ==
  LET name(e) == decode_text(e, MAX_COLUMN_NAME_SIZE) IN
  IF column_count > MAX_COLUMN_COUNT THEN Fail
  ELSE Then(Times(column_count, name, From(d, WORD_SIZE)), LAMBDA names, at :
         Then(FailureRecord(From(d, WORD_SIZE + at)), LAMBDA record, used :
           IF consumed(d, WORD_SIZE + at + used) THEN Got(record, used) ELSE Fail))

\* The recovered record, or the first one where there is none.
Chosen(recovered, first) == IF recovered.ok THEN recovered.val ELSE first

decode_failure(d) ==
  Then(FailureRecord(d), LAMBDA first, used :
    LET chosen == IF used = Len(d) THEN first
                  ELSE Chosen(recover_trailing(d, first.code), first)
    IN  Got([chosen EXCEPT !.message = sanitize_server_text(@)], Len(d)))

\* External: the body of a server that fails in the middle of a rows response.
HalfRowsFailure(names, code, message) ==
  [kind |-> "HalfRows", names |-> names, code |-> code, message |-> message]

encode_half_rows(m) ==
  encode_uint64(Len(m.names))
    \o FlattenSeq([c \in DOMAIN m.names |-> encode_text(m.names[c])])
    \o encode_failure(m)

-----------------------------------------------------------------------------
(* FilesResponse: a dictionary, as the sequence of its items *)

Files(files) == [kind |-> "FilesResponse", files |-> files]

file_encodable(f) ==
  /\ Len(f.content) % WORD_SIZE = 0
  /\ Len(f.content) <= MAX_FILE_CONTENT_SIZE
  /\ text_encodable(f.name, MAX_FILENAME_SIZE)

files_encodable(m) ==
  /\ Len(m.files) <= MAX_FILE_COUNT
  /\ \A i \in DOMAIN m.files : file_encodable(m.files[i])

encode_files(m) ==
  encode_uint64(Len(m.files))
    \o FlattenSeq([i \in DOMAIN m.files |->
          encode_text(m.files[i].name) \o encode_uint64(Len(m.files[i].content))
            \o m.files[i].content])

decode_file(d) ==
  Then(decode_text_view(d, MAX_FILENAME_SIZE), LAMBDA name, at :
    Then(decode_uint64(From(d, at)), LAMBDA size, used :
      IF \/ size % WORD_SIZE # 0
         \/ size > MAX_FILE_CONTENT_SIZE
         \/ at + used + size > Len(d)
      THEN Fail
      ELSE Got([name |-> name, content |-> SubSeq(d, at + used + 1, at + used + size)],
               at + used + size)))

\* No two items of sequence s have the same key.
Distinct(s, key(_)) == \A i, j \in DOMAIN s : key(s[i]) = key(s[j]) => i = j

decode_files(d) ==
  Then(decode_uint64(d), LAMBDA count, at :
    IF count > MAX_FILE_COUNT \/ count > (Len(d) - at) \div (2 * WORD_SIZE) THEN Fail
    ELSE Then(Times(count, decode_file, From(d, at)), LAMBDA files, used :
           IF Distinct(files, LAMBDA f : f.name) /\ consumed(d, at + used)
           THEN Got(Files(files), Len(d))
           ELSE Fail))

-----------------------------------------------------------------------------
(* ServersResponse *)

VOTER   == 0
STANDBY == 1
SPARE   == 2

Servers(nodes) == [kind |-> "ServersResponse", nodes |-> nodes]

\* What NodeInfo accepts at construction.
node_valid(n) ==
  /\ is_uint64(n.node_id) /\ n.node_id # 0
  /\ n.address # <<>>
  /\ n.role \in {VOTER, STANDBY, SPARE}

servers_encodable(m) ==
  /\ Len(m.nodes) <= MAX_NODE_COUNT
  /\ \A i \in DOMAIN m.nodes :
       node_valid(m.nodes[i]) /\ text_encodable(m.nodes[i].address, MAX_ADDRESS_SIZE)

encode_servers(m) ==
  encode_uint64(Len(m.nodes))
    \o FlattenSeq([i \in DOMAIN m.nodes |->
          encode_uint64(m.nodes[i].node_id) \o encode_text(m.nodes[i].address)
            \o encode_uint64(m.nodes[i].role)])

decode_node(d) ==
  Then(decode_uint64(d), LAMBDA node_id, id_size :
    Then(decode_text_view(From(d, id_size), MAX_ADDRESS_SIZE), LAMBDA address, text_size :
      Then(decode_uint64(From(d, id_size + text_size)), LAMBDA raw_role, role_size :
        IF \/ node_id = 0
           \/ address = <<>>
           \/ raw_role > SPARE /\ unknown_role_policy = "reject"
        THEN Fail
        ELSE Got([node_id |-> node_id, address |-> address, role |-> Smaller(raw_role, SPARE)],
                 id_size + text_size + role_size))))

decode_servers(d) ==
  Then(decode_uint64(d), LAMBDA count, at :
    IF count > MAX_NODE_COUNT \/ count > (Len(d) - at) \div (3 * WORD_SIZE) THEN Fail
    ELSE Then(Times(count, decode_node, From(d, at)), LAMBDA nodes, used :
           IF Distinct(nodes, LAMBDA n : n.node_id) /\ consumed(d, at + used)
           THEN Got(Servers(nodes), Len(d))
           ELSE Fail))

-----------------------------------------------------------------------------
(* Statement requests: a prefix that identifies the statement, then the    *)
(* parameters.                                                             *)

PreparedRequests == {"ExecRequest", "QueryRequest"}
SqlTextRequests  == {"ExecSqlRequest", "QuerySqlRequest"}
ParamsRequests   == PreparedRequests \cup SqlTextRequests

\* The prefix is db_id and stmt_id, or db_id and the SQL.
Statement(kind, prefix, params, decoded_schema, decoded_empty_header) ==
  [kind |-> kind, prefix |-> prefix, params |-> params,
   decoded_schema |-> decoded_schema, decoded_empty_header |-> decoded_empty_header]

PreparedPrefix == <<uint32, uint32_rest>>
SqlTextPrefix  == <<uint64, text_view(MAX_TEXT_VALUE_SIZE)>>

prefix_layout(kind) == IF kind \in PreparedRequests THEN PreparedPrefix ELSE SqlTextPrefix

\* _ParamsRequest._get_schema
params_schema(m) ==
  IF m.decoded_schema # None THEN m.decoded_schema
  ELSE IF Len(m.params) > V0_MAX_PARAMS THEN 1 ELSE 0

statement_encodable(m) ==
  /\ fields_encodable(m.prefix, prefix_layout(m.kind))
  /\ m.decoded_empty_header => m.params = <<>>
  /\ params_encodable(m.params, params_schema(m))

WithParams(prefix, m) ==
  prefix \o encode_params_tuple(m.params, params_schema(m), Len(prefix),
                               m.decoded_empty_header)

encode_statement(m) == WithParams(encode_fields(m.prefix, prefix_layout(m.kind)), m)

\* The decoder does not note that C wrote an empty header.
empty_header_forgotten(params, used) == FALSE

empty_header_seen(params, used) == params = <<>> /\ used > 0

decode_statement(kind, d, schema) ==
  Then(decode_fields(d, prefix_layout(kind)), LAMBDA prefix, offset :
    Then(decode_params_tuple(From(d, offset), schema, offset), LAMBDA params, used :
      IF ~consumed(d, offset + used) THEN Fail
      ELSE Got(Statement(kind, prefix, params, schema, empty_header_seen(params, used)),
               Len(d))))

\* External: the same request from a client that tags its parameters itself.
Tagged(class, prefix, params, types) ==
  [kind |-> "Tagged", class |-> class, prefix |-> prefix, params |-> params, types |-> types]

TaggedWith(prefix, m) ==
  prefix \o ParamsHeader(m.types, 0, Len(prefix))
    \o FlattenSeq([i \in DOMAIN m.params |-> encode_value(m.params[i], m.types[i])])

encode_tagged(m) == TaggedWith(encode_fields(m.prefix, prefix_layout(m.class)), m)
=============================================================================
