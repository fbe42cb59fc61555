---------------------------- MODULE MCWireSession ----------------------------
(* Small instances of WireSession for TLC: the word, header and caps of      *)
(* MCWireRelay, and scripts that meet the caps.                              *)
EXTENDS WireSession

A   == <<65>>
AB  == <<65, 66>>
ABC == <<65, 66, 67>>
Iso == <<50, 48>>

MCIsoTexts == {Iso}

Fresh(kind, fields) == C!Flat(kind, fields, 0, FALSE)

Page(names, rows, more) == C!Rows(names, <<>>, <<>>, rows, more)

Int1 == C!Py("int", 1)
Str3 == C!Py("str", ABC)

Query(params) == C!Statement("QuerySqlRequest", <<1, AB>>, params, None, FALSE)
Exec(params)  == C!Statement("ExecRequest", <<1, 2>>, params, None, FALSE)

Asks(v, messages)    == [is_request |-> TRUE, version |-> v, messages |-> messages]
Answers(v, messages) == [is_request |-> FALSE, version |-> v, messages |-> messages]

\* Frames of exactly the cap, and one a word longer.
AtCap(more) == Page(<<ABC, ABC>>, <<<<Str3, Str3>>>>, more)
OverCap     == Page(<<ABC, ABC>>, <<<<Str3, C!Py("bytes", <<1, 2, 3, 4>>)>>>>, TRUE)
FilesAtCap  == C!Files(<<[name |-> ABC, content |-> <<1, 2, 3, 4, 5, 6>>],
                         [name |-> <<66, 66, 66>>, content |-> <<6, 5, 4, 3, 2, 1>>]>>)

\* Results of several pages ended by a page, a failure or an empty response,
\* and the other messages, at both versions.
MCScripts ==
  <<Answers(PROTOCOL_VERSION,
            <<Page(<<A>>, <<<<Int1>>, <<C!PyNone>>>>, TRUE), Page(<<A>>, <<<<Str3>>>>, TRUE),
              Page(<<A>>, <<>>, FALSE), Fresh("EmptyResponse", <<0>>)>>),
    Answers(PROTOCOL_VERSION,
            <<Page(<<A, AB>>, <<<<Int1, Str3>>>>, TRUE), C!Failure(300, AB),
              Page(<<ABC>>, <<>>, FALSE), Page(<<A>>, <<<<Int1>>>>, TRUE),
              C!HalfRowsFailure(<<A>>, 1, ABC)>>),
    Answers(PROTOCOL_VERSION,
            <<AtCap(TRUE), OverCap, AtCap(FALSE), Fresh("ResultResponse", <<1, 2>>)>>),
    Answers(PROTOCOL_VERSION,
            <<Page(<<A>>, <<<<Int1>>>>, TRUE), Fresh("EmptyResponse", <<0>>),
              FilesAtCap, C!Files(<<>>)>>),
    Answers(PROTOCOL_VERSION,
            <<Fresh("LeaderResponse", <<1, ABC>>), Fresh("WelcomeResponse", <<300>>),
              Fresh("DbResponse", <<1, 0>>),
              C!Flat("StmtResponse", <<1, 2, 3>>, 1, FALSE),
              C!Servers(<<[node_id |-> 1, address |-> A, role |-> 2]>>),
              Fresh("MetadataResponse", <<1, 300>>)>>),
    Answers(PROTOCOL_VERSION_LEGACY,
            <<Fresh("LegacyLeader", <<0, ABC>>), Fresh("WelcomeResponse", <<1>>),
              Page(<<>>, <<>>, FALSE)>>),
    Asks(PROTOCOL_VERSION,
         <<Fresh("LeaderRequest", <<0>>), Fresh("ClientRequest", <<300>>),
           Fresh("OpenRequest", <<A, 0, <<>>>>), Query(<<Int1, Str3, C!PyNone>>),
           Exec(<<>>)>>),
    Asks(PROTOCOL_VERSION_LEGACY,
         <<Fresh("ClientRequest", <<66 + 256 * 66>>),
           C!Flat("PrepareRequest", <<1, ABC>>, 1, FALSE), Exec(<<Str3, Str3, Str3, Str3>>),
           Fresh("FinalizeRequest", <<1, 2>>), Fresh("Promote", <<1, 0>>),
           Fresh("DumpRequest", <<AB>>)>>)>>

MCLater == {1, 6, 7, 8}

MCStreams      == {StreamOf(Connections[i]) : i \in DOMAIN Connections}
MCLaterStreams == {StreamOf(Connections[i]) : i \in Later}

MCVersions == {PROTOCOL_VERSION, PROTOCOL_VERSION_LEGACY}
MCChunks   == {1, 3, 8, 38}
NoRawReads == {}
=============================================================================
