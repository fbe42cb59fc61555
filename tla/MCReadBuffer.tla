---------------------------- MODULE MCReadBuffer ----------------------------
(* A small instance of ReadBuffer for TLC. *)
EXTENDS ReadBufferWindows

\* Size fields along a stream repeat one of these patterns, word by word: with
\* HEADER_SIZE = WORD_SIZE = 2 and a cap of 6 bytes, 0 words is the shortest
\* frame, 2 the longest legal one and 3 an oversized one.
Stream(p) ==
  [o \in 0..(StreamLen - 1) |-> [words |-> p[((o \div WORD_SIZE) % Len(p)) + 1]]]

ShortStreams == {Stream(p) : p \in [1..2 -> {0, 2, 3}]}

MCStreams == ShortStreams \cup {Stream(p) : p \in [1..3 -> {0, 2, 3}]}

MCLaterStreams == {Stream(<<0, 2>>), Stream(<<2, 3>>)}

\* 7 is more than the cap, 13 more than twice the cap.
MCChunks == {0, 1, 3, 5, 7, 13}

FewChunks == {1, 4, 7}

MCRawReads == {0, 1, 2}
=============================================================================
