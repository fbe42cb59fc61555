---------------------------- MODULE FrameStream -----------------------------
(***************************************************************************)
(* What a ReadBuffer promises its owner, without storage, read positions   *)
(* or compaction: a window onto the peer's stream from which frames leave  *)
(* whole and in order, and which dies, rather than misframe, on an         *)
(* oversized frame or on an interrupted call, until it is reconnected.     *)
(***************************************************************************)
EXTENDS Integers, Sequences

CONSTANTS HEADER_SIZE, WORD_SIZE, max_message_size, StreamLen, Streams

VARIABLES
  stream,   \* the peer's bytes
  rx,       \* bytes accepted so far
  taken,    \* bytes removed so far
  owed,     \* bytes of a doomed frame still to be thrown away on arrival
  mode,     \* "up" or "dead"
  last      \* the latest run of bytes removed

fs_vars == <<stream, rx, taken, owed, mode, last>>

Bytes(o, n) == [i \in 1..n |-> o + i - 1]

Frame == HEADER_SIZE + stream[taken].words * WORD_SIZE

HeaderIn == taken + HEADER_SIZE <= rx

Init ==
  /\ stream \in Streams
  /\ rx = 0 /\ taken = 0 /\ owed = 0
  /\ mode = "up"
  /\ last = [op |-> "none", at |-> 0, bytes |-> <<>>]

\* n more bytes arrive and fit the window.
Accept(n) ==
  /\ mode = "up" /\ owed = 0
  /\ rx + n - taken <= max_message_size
  /\ rx + n <= StreamLen
  /\ rx' = rx + n
  /\ UNCHANGED <<stream, taken, owed, mode, last>>

Remove(n, op) ==
  /\ taken' = taken + n
  /\ last' = [op |-> op, at |-> taken, bytes |-> Bytes(taken, n)]

\* A complete frame of legal size leaves the window, read or skipped.
Deliver(op) ==
  /\ mode = "up" /\ owed = 0
  /\ HeaderIn
  /\ Frame <= max_message_size
  /\ taken + Frame <= rx
  /\ Remove(Frame, op)
  /\ UNCHANGED <<stream, rx, owed, mode>>

\* n raw bytes leave the window.
Raw(n) ==
  /\ mode = "up"
  /\ taken + n <= rx
  /\ Remove(n, "raw")
  /\ UNCHANGED <<stream, rx, owed, mode>>

\* An oversized frame is given up: what arrived is thrown away, and so will
\* be what follows, up to the cap.
Doom ==
  /\ mode = "up" /\ owed = 0
  /\ HeaderIn
  /\ Frame > max_message_size
  /\ rx - taken < max_message_size
  /\ Remove(rx - taken, "skipped")
  /\ owed' = max_message_size - (rx - taken)
  /\ UNCHANGED <<stream, rx, mode>>

ThrowAway(n) ==
  /\ mode = "up" /\ n < owed
  /\ rx + n <= StreamLen
  /\ rx' = rx + n
  /\ taken' = taken + n
  /\ owed' = owed - n
  /\ UNCHANGED <<stream, mode, last>>

\* An error ends the connection for good; at most the bytes of a doomed frame
\* are still thrown away by the call that fails.
Die ==
  /\ mode = "up"
  /\ mode' = "dead"
  /\ rx' = 0 /\ taken' = 0 /\ owed' = 0
  /\ \/ last' = last
     \/ /\ HeaderIn /\ Frame > max_message_size
        /\ last' = [op |-> "skipped", at |-> taken,
                    bytes |-> Bytes(taken, max_message_size)]
  /\ UNCHANGED stream

Reconnect ==
  /\ stream' \in Streams
  /\ rx' = 0 /\ taken' = 0 /\ owed' = 0
  /\ mode' = "up"
  /\ last' = [op |-> "none", at |-> 0, bytes |-> <<>>]

Next ==
  \/ \E n \in 0..StreamLen : Accept(n) \/ ThrowAway(n) \/ Raw(n)
  \/ Deliver("frame") \/ Deliver("skipped")
  \/ Doom
  \/ Die
  \/ Reconnect

Spec == Init /\ [][Next]_fs_vars
=============================================================================
