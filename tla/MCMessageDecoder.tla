-------------------------- MODULE MCMessageDecoder --------------------------
(* Small instances of MessageDecoder for TLC.  HEADER_SIZE = WORD_SIZE = 1:  *)
(* a frame of no words is one byte long, and every offset starts a frame.    *)
EXTENDS MessageDecoderWindows

Frm(type, words, rows, cols, more, ok, schema_ok) ==
  [type |-> type, words |-> words, rows |-> rows, cols |-> cols, more |-> more,
   ok |-> ok, schema_ok |-> schema_ok, request |-> FALSE, version |-> 7]

a == <<"a">>
b == <<"b">>

RowsMore   == Frm("ROWS", 0, 1, a, TRUE,  TRUE,  TRUE)
RowsMore2  == Frm("ROWS", 1, 2, a, TRUE,  TRUE,  TRUE)
RowsLast   == Frm("ROWS", 0, 1, a, FALSE, TRUE,  TRUE)
RowsDrift  == Frm("ROWS", 0, 1, b, TRUE,  TRUE,  TRUE)
RowsTooBig == Frm("ROWS", 0, 4, a, TRUE,  TRUE,  TRUE)
RowsCapped == Frm("ROWS", 0, 5, a, FALSE, TRUE,  TRUE)
RowsWide   == Frm("ROWS", 0, 4, a, FALSE, TRUE,  TRUE)
Failure    == Frm("FAILURE", 0, 0, a, FALSE, TRUE,  TRUE)
BadFailure == Frm("FAILURE", 0, 0, a, FALSE, FALSE, TRUE)
Empty      == Frm("EMPTY", 0, 0, a, FALSE, TRUE,  TRUE)
BadEmpty   == Frm("EMPTY", 0, 0, a, FALSE, TRUE,  FALSE)
Other      == Frm("OTHER", 0, 0, a, FALSE, TRUE,  TRUE)
Unknown    == Frm("UNKNOWN", 0, 0, a, FALSE, TRUE, TRUE)
Oversized  == Frm("ROWS", 4, 1, a, TRUE,  TRUE,  TRUE)

ClientFrames == {RowsMore, RowsMore2, RowsLast, RowsDrift, Failure, BadFailure,
                 Empty, Other, Oversized}

FirstFrames == {RowsMore, RowsLast, RowsWide, RowsTooBig, RowsCapped, Other, Unknown, BadEmpty}

\* One leading frame, then four of any kind.
Sequels == [1..3 -> ClientFrames]

ClientStreams ==
  {[o \in 0..(StreamLen - 1) |-> IF o = 0 THEN f ELSE s[((o - 1) % 3) + 1]] :
      f \in FirstFrames, s \in Sequels}

ClientLaterStreams ==
  {[o \in 0..(StreamLen - 1) |-> f] : f \in {RowsMore, RowsLast}}

DrainStreams ==
  ClientLaterStreams \cup
  {[o \in 0..(StreamLen - 1) |-> IF o = 2 THEN f ELSE RowsMore] :
      f \in {Oversized, RowsDrift, Failure, Other}}

\* The start of a request stream holds the handshake, of a supported or an
\* unsupported version; request types never are ROWS to the decoder.
Asked(f)     == [f EXCEPT !.request = TRUE]
Handshake(v) == [Asked(Other) EXCEPT !.version = v, !.words = 1]

ServerStreams ==
  {[o \in 0..(StreamLen - 1) |-> IF o = 0 THEN Handshake(v) ELSE s[((o - 1) % 2) + 1]] :
      v \in {1, 2, 9},
      s \in [1..2 -> {Asked(Other), Asked(Unknown), Asked(Oversized), Handshake(1),
                      [Asked(Other) EXCEPT !.ok = FALSE]}]}

ServerLaterStreams ==
  {[o \in 0..(StreamLen - 1) |-> IF o = 0 THEN Handshake(2) ELSE Asked(Other)]}

AllStreams      == ClientStreams \cup ServerStreams
AllLaterStreams == ClientLaterStreams \cup ServerLaterStreams

SmallChunks == {1, 2, 4}
NoRawReads  == {}
Versions    == {1, 2}
OneVersion  == {1}
=============================================================================
