---------------------------- MODULE MCWireRelay ------------------------------
(* Small instances of WireRelay for TLC: words of three bytes, so that a     *)
(* row header spills into a second word at seven columns.                    *)
EXTENDS WireRelay

A   == <<65>>
AB  == <<65, 66>>
ABC == <<65, 66, 67>>
Iso == <<50, 48>>

MCIsoTexts == {Iso}

Cells == {Py("int", 0), Py("int", 1), Py("int", -1), Py("int", 300), Py("bool", 1),
          Py("float", 7), PyNone, Py("str", <<>>), Py("str", AB), Py("str", ABC),
          Py("str", Iso), Py("bytes", <<>>), Py("bytes", <<0, 255>>),
          Py("bytes", <<1, 2, 3, 4>>)}

Names(n) == [i \in 1..n |-> IF i % 2 = 1 THEN A ELSE AB]

Fill(n, x) == [i \in 1..n |-> x]

\* One cell under every type, given for the column or for the row, or inferred.
OneCell ==
  {Rows(<<A>>, <<t>>, <<>>, <<<<x>>>>, FALSE) : t \in ValueType, x \in Cells}
    \cup {Rows(<<A>>, <<>>, <<<<t>>>>, <<<<x>>>>, TRUE) : t \in ValueType, x \in Cells}
    \cup {Rows(<<ABC>>, <<>>, <<>>, <<<<x>>>>, FALSE) : x \in Cells}

Pairs == {Py("int", 300), PyNone, Py("str", ABC), Py("bytes", <<0, 255>>)}

\* Two columns, no, one, two or three rows of mixed types.
Grids ==
  {Rows(<<A, <<>>>>, <<>>, <<>>, rows, more) :
      rows \in {<<>>} \cup {<<<<x, y>>>> : x, y \in Pairs}
                \cup {<<<<x, y>>, <<y, x>>>> : x, y \in Pairs}
                \cup {<<<<x, x>>, <<x, y>>, <<y, x>>>> : x, y \in Pairs},
      more \in BOOLEAN}

\* As many columns as a name list and a row header may have, and one more.
Wide ==
  {Rows(Names(n), <<>>, <<>>, Fill(k, Fill(n, x)), FALSE) :
      n \in 0..8, k \in 0..1, x \in {PyNone, Py("int", 1)}}

Misfits ==
  {Rows(<<A>>, <<INTEGER, INTEGER>>, <<>>, <<>>, FALSE),
   Rows(<<A>>, <<>>, <<<<INTEGER>>>>, <<>>, FALSE),
   Rows(<<A>>, <<>>, <<>>, <<<<>>>>, FALSE),
   Rows(<<<<65, 0>>>>, <<>>, <<>>, <<>>, FALSE),
   Rows(<<<<65, 65, 65, 65, 65>>>>, <<>>, <<>>, <<>>, FALSE)}

RowMessages == OneCell \cup Grids \cup Wide \cup Misfits

File(name, content) == [name |-> name, content |-> content]
Node(id, address, role) == [node_id |-> id, address |-> address, role |-> role]

Contents == {<<>>, <<7, 8, 9>>, <<1, 2, 3, 4, 5, 6>>, <<1>>, Fill(9, 1)}

ListMessages ==
  {Files(<<>>), Servers(<<>>)}
    \cup {Files(<<File(n, c)>>) : n \in {<<>>, AB, ABC}, c \in Contents}
    \cup {Files(<<File(A, c), File(ABC, e)>>) : c, e \in Contents}
    \cup {Files(<<File(A, <<>>), File(AB, <<>>), File(ABC, <<>>)>>)}
    \cup {Servers(<<Node(i, s, r)>>) : i \in 0..1, s \in {<<>>, AB, ABC}, r \in 0..3}
    \cup {Servers(<<Node(300, s, r), Node(2, ABC, 1)>>) : s \in {A, ABC}, r \in 0..2}

FailureMessages ==
  {Failure(c, m) : c \in {0, 1, 300}, m \in {<<>>, AB, ABC, <<65, 10, 27>>, Fill(7, 65)}}
    \cup {HalfRowsFailure(ns, c, m) :
            ns \in {<<<<>>>>, <<A>>, <<ABC, A>>, <<A, AB, ABC>>},
            c \in {0, 1, 300}, m \in {<<>>, AB, ABC, <<27>>}}

Args == {Py("int", 300), Py("bool", 1), PyNone, Py("str", ABC), Py("bytes", <<0, 255>>)}

PrefixesOf(kind) ==
  IF kind \in PreparedRequests THEN {<<1, 2>>, <<300, 0>>} ELSE {<<1, AB>>, <<300, ABC>>}

\* Every number of parameters up to one more than is allowed, fresh and as a
\* decoded request would hold them.
StatementsOf(kind) ==
  {Statement(kind, p, args, s, FALSE) :
      p \in PrefixesOf(kind), s \in {None, 0, 1},
      args \in {Fill(n, x) : n \in 0..5, x \in Args}}
    \cup {Statement(kind, p, <<x, y>>, None, FALSE) : p \in PrefixesOf(kind), x, y \in Args}
    \cup {Statement(kind, p, <<>>, s, TRUE) : p \in PrefixesOf(kind), s \in {0, 1}}

OneStatementOf(kind) ==
  {Statement(kind, p, <<Py("int", 1)>>, None, FALSE) : p \in PrefixesOf(kind)}

TaggedOf(kind) ==
  {Tagged(kind, p, <<Py("str", Iso)>>, <<t>>) : p \in PrefixesOf(kind), t \in {TEXT, ISO8601}}

Fresh(kind, fields) == Flat(kind, fields, 0, FALSE)

Values == {0, 1, 300, WordRange - 1}
Texts  == {<<>>, A, ABC, Fill(4, 65), Fill(5, 65), <<65, 0>>}

\* Every flat class at and beyond the limits of its fields, by the shape of the
\* fields.
NumberMessages ==
  {Fresh(k, <<n>>) : k \in WordRequests, n \in {0, WordRange}}
    \cup {Fresh("ClientRequest", <<n>>) : n \in Values \cup {66 + 256 * 66}}
    \cup {Fresh("LeaderRequest", <<0>>)}
    \cup {Fresh("FinalizeRequest", <<d, s>>) : d \in {1, 300}, s \in {0, 255, 256}}
    \cup {Fresh("AssignRequest", <<n, r>>) : n \in {0, 300}, r \in 0..3}
    \cup {Fresh("AssignRequest", <<1>>)}
    \cup {Fresh("Promote", <<n, r>>) : n \in {0, 300}, r \in {VOTER, SPARE}}
    \cup {Flat("ClusterRequest", <<f>>, 0, d) : f \in 0..2, d \in BOOLEAN}
    \cup {Fresh("DescribeRequest", <<f>>) : f \in 0..1}
    \cup {Fresh("WelcomeResponse", <<n>>) : n \in Values}
    \cup {Fresh("DbResponse", <<d, 0>>) : d \in {0, 300, 65536}}
    \cup {Flat("StmtResponse", <<1, 2, p>> \o tail, s, FALSE) :
             p \in {0, 4, 5}, s \in {None, 0, 1}, tail \in {<<>>, <<0>>, <<6>>, <<7>>}}
    \cup {Fresh("ResultResponse", <<i, r>>) : i \in Values, r \in {0, 8, 9}}
    \cup {Fresh("EmptyResponse", <<0>>)}
    \cup {Fresh("MetadataResponse", <<f, w>>) : f, w \in {0, 300}}

NumberTextMessages ==
  {Fresh(k, <<n, t>>) : k \in NodeAddressRequests \cup {"LeaderResponse", "LegacyLeader"},
                        n \in {0, 1, 300}, t \in Texts}
    \cup {Flat("PrepareRequest", <<n, t>>, s, FALSE) :
             n \in {1, 300}, t \in Texts, s \in 0..2}

TextMessages ==
  {Fresh("OpenRequest", <<t, 300, u>>) : t, u \in Texts}
    \cup {Fresh("DumpRequest", <<t>>) : t \in Texts}

MCMessages ==
  <<RowMessages, ListMessages, FailureMessages,
    StatementsOf("ExecRequest"), StatementsOf("QuerySqlRequest"),
    OneStatementOf("QueryRequest"), OneStatementOf("ExecSqlRequest"),
    TaggedOf("ExecRequest"), TaggedOf("QuerySqlRequest"),
    NumberMessages, NumberTextMessages, TextMessages>>
=============================================================================
