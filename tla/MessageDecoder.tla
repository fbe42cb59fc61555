--------------------------- MODULE MessageDecoder ---------------------------
(***************************************************************************)
(* dqlitewire.codec.MessageDecoder on top of its ReadBuffer: the handshake *)
(* gate of a request decoder, top-level decoding, and the draining of a    *)
(* ROWS result that the server spreads over continuation frames.           *)
(*                                                                         *)
(* stream[o] describes the frame whose header starts at offset o:          *)
(*   type      "ROWS", "FAILURE", "EMPTY", another known type "OTHER", or  *)
(*             "UNKNOWN";                                                  *)
(*   schema_ok its schema byte is one the decoder supports;                *)
(*   ok        its header and body are well formed;                        *)
(*   rows, cols, more  row count, column names and has_more of a ROWS body;*)
(*   request   a client sent it;                                           *)
(*   version   what the eight bytes at o read as in a handshake.           *)
(***************************************************************************)
EXTENDS ReadBuffer

CONSTANTS
  max_rows,                  \* per frame, exclusive
  max_continuation_frames,   \* per result, or None
  max_total_rows,            \* per result, or None
  HANDSHAKE_SIZE,            \* bytes of the version handshake
  SUPPORTED_VERSIONS,        \* _SUPPORTED_VERSIONS
  ClientVersions,            \* those a client's decoder may be built with
  None

ASSUME DecoderAssumption ==
  /\ max_rows \in Nat \ {0}
  /\ max_continuation_frames = None \/ max_continuation_frames \in Nat \ {0}
  /\ max_total_rows = None \/ max_total_rows \in Nat \ {0}
  /\ HANDSHAKE_SIZE \in Nat \ {0}
  /\ ClientVersions \subseteq SUPPORTED_VERSIONS
  /\ None \notin SUPPORTED_VERSIONS \cup Nat

\* A row count is a count, and column names are a tuple even when there are none.
ASSUME FramesAssumption ==
  \A s \in Streams :
    /\ s[0].request \in BOOLEAN
    /\ \A o \in 0..(StreamLen - 1) : s[o].rows \in Nat /\ s[o].cols # None

VARIABLES
  is_request,             \* _is_request: decodes requests (server side)
  version,                \* _version
  handshake_done,         \* _handshake_done
  continuation_expected,  \* _continuation_expected
  frame_count,            \* _continuation_frame_count
  total_rows,             \* _continuation_total_rows
  columns,                \* _continuation_column_names (and their count)
  result,                 \* ROWS frames returned for the current result
  shaken,                 \* handshake bytes consumed on this connection, None
                          \* once flags and bytes may have come apart
  got                     \* the latest decode call that consumed or failed

continuation_vars == <<continuation_expected, frame_count, total_rows, columns>>
handshake_vars    == <<is_request, version, handshake_done, shaken>>
decoder_vars      == <<is_request, version, handshake_done, continuation_expected,
                       frame_count, total_rows, columns, result, shaken, got>>
vars == <<data, pos, skip_remaining, poisoned, poison_after_skip,
          stream, fed, taken, last,
          is_request, version, handshake_done, continuation_expected,
          frame_count, total_rows, columns, result, shaken, got>>

Ends == {"none", "rows", "failure", "empty", "error", "bypassed"}

NoResult == [frames |-> <<>>, end |-> "none"]

NoCall == [call |-> "none", at |-> 0, ret |-> "none"]

Within(n, cap) == cap # None => n <= cap

\* The frame at the read position.
head == stream[data[pos + 1]]

-----------------------------------------------------------------------------
(* Continuation state *)

\* The counters survive the end of a drain.
FinalizeKeepsCounters ==
  /\ UNCHANGED is_request
  /\ continuation_expected' = FALSE
  /\ UNCHANGED <<frame_count, total_rows, columns>>
  /\ IF is_request THEN handshake_done' = FALSE /\ version' = None
     ELSE UNCHANGED <<handshake_done, version>>

\* The handshake is not re-armed.
FinalizeKeepsHandshake ==
  /\ UNCHANGED is_request
  /\ continuation_expected' = FALSE
  /\ frame_count' = 0
  /\ total_rows' = 0
  /\ columns' = None
  /\ UNCHANGED <<handshake_done, version>>

\* _finalize_continuation_state(), called by every exit of a drain and by
\* reset(); on a request decoder it also re-arms the handshake.
Finalize ==
  /\ UNCHANGED is_request
  /\ continuation_expected' = FALSE
  /\ frame_count' = 0
  /\ total_rows' = 0
  /\ columns' = None
  /\ IF is_request THEN handshake_done' = FALSE /\ version' = None
     ELSE UNCHANGED <<handshake_done, version>>

\* decode_body accepts the frame (max_rows is exclusive).
BodyDecodes(f) ==
  /\ f.ok
  /\ f.schema_ok
  /\ f.type # "UNKNOWN"
  /\ f.type = "ROWS" /\ ~is_request => f.rows < max_rows

\* decode_bytes() returned a RowsResponse that announces more frames.
Announces(f) == ~is_request /\ f.type = "ROWS" /\ f.more

-----------------------------------------------------------------------------
(* Calls passed straight to the buffer *)

decoder_feed(n) == (feed(n) \/ feed_reject(n)) /\ UNCHANGED decoder_vars

decoder_feed_interrupted(n) == feed_interrupted(n) /\ UNCHANGED decoder_vars

\* skip_message() refuses to run in the middle of a result.
decoder_skip_message ==
  /\ ~continuation_expected
  /\ skip_message_complete \/ skip_message_oversized \/ skip_message_interrupted
  /\ UNCHANGED decoder_vars

\* take_frame() hands out a raw frame at any time, without telling the
\* continuation state: an owner that calls it in the middle of a result has
\* bypassed the drain.
take_frame ==
  /\ read_message
  /\ result' = IF continuation_expected THEN [result EXCEPT !.end = "bypassed"]
               ELSE result
  /\ UNCHANGED <<is_request, version, handshake_done, continuation_expected,
                 frame_count, total_rows, columns, shaken, got>>

take_frame_interrupted == read_message_interrupted /\ UNCHANGED decoder_vars

-----------------------------------------------------------------------------
(* decode() *)

\* The guard against a result in progress is missing.
DecodableWithoutGate == Readable /\ handshake_done

Decodable == Readable /\ ~continuation_expected /\ handshake_done

\* The initial frame of a result must not exceed the row cap by itself; the
\* check precedes every store of continuation state.
Accepted(f) ==
  /\ BodyDecodes(f)
  /\ Announces(f) => Within(f.rows, max_total_rows)

BeginContinuation(f) ==
  /\ continuation_expected' = TRUE
  /\ frame_count' = 1
  /\ total_rows' = f.rows
  /\ columns' = f.cols

decode ==
  /\ Decodable
  /\ Accepted(head)
  /\ Take(total_size, "frame")
  /\ IF Announces(head) THEN BeginContinuation(head)
     ELSE UNCHANGED continuation_vars
  /\ result' = IF head.type = "ROWS" /\ ~is_request
               THEN [frames |-> <<taken>>, end |-> IF head.more THEN "none" ELSE "rows"]
               ELSE NoResult
  /\ got' = [call |-> "decode", at |-> taken, ret |-> "message"]
  /\ UNCHANGED <<skip_remaining, poisoned, poison_after_skip, stream, fed>>
  /\ UNCHANGED handshake_vars

\* The frame is consumed but does not decode: the stream offset cannot be
\* trusted, the buffer is poisoned and the continuation state left alone.
decode_failed ==
  /\ Decodable
  /\ ~Accepted(head)
  /\ Take(total_size, "frame")
  /\ poisoned' = PoisonedBy("decode")
  /\ got' = [call |-> "decode", at |-> taken, ret |-> "error"]
  /\ UNCHANGED <<skip_remaining, poison_after_skip, stream, fed, result>>
  /\ UNCHANGED continuation_vars
  /\ UNCHANGED handshake_vars

\* What an exception between the stores of a new continuation leaves behind.
TornBegin(f) ==
  \/ UNCHANGED continuation_vars
  \/ /\ Accepted(f) /\ Announces(f)
     /\ continuation_expected' = TRUE
     /\ \/ UNCHANGED <<frame_count, total_rows, columns>>
        \/ frame_count' = 1 /\ UNCHANGED <<total_rows, columns>>
        \/ frame_count' = 1 /\ total_rows' = f.rows /\ columns' \in {columns, f.cols}

\* The handler re-raises without poisoning.
ReleasedByInterrupt == poisoned' = poisoned

\* The poison the handlers of decode() and decode_continuation() leave when an
\* asynchronous exception lands inside their try blocks.
PoisonedByInterrupt == poisoned' = PoisonedBy("interrupt")

decode_interrupted ==
  /\ Decodable
  /\ \/ read_message_interrupted /\ UNCHANGED continuation_vars
     \/ /\ Take(total_size, "frame")
        /\ PoisonedByInterrupt
        /\ TornBegin(head)
        /\ UNCHANGED <<skip_remaining, poison_after_skip, stream, fed>>
  /\ got' = [call |-> "decode", at |-> taken, ret |-> "interrupted"]
  /\ UNCHANGED <<is_request, version, handshake_done, shaken, result>>

-----------------------------------------------------------------------------
(* decode_continuation() *)

Drainable == Readable /\ continuation_expected

\* The caps are compared before the frame is counted.
ExtendsOffByOne(f) ==
  /\ f.type = "ROWS"
  /\ BodyDecodes(f)
  /\ Within(frame_count, max_continuation_frames)
  /\ Within(total_rows, max_total_rows)
  /\ columns \in {None, f.cols}

\* The column check is missing.
ExtendsAnyColumns(f) ==
  /\ f.type = "ROWS"
  /\ BodyDecodes(f)
  /\ Within(frame_count + 1, max_continuation_frames)
  /\ Within(total_rows + f.rows, max_total_rows)

\* A continuation frame keeps the columns of the initial frame and both caps.
Extends(f) ==
  /\ f.type = "ROWS"
  /\ BodyDecodes(f)
  /\ Within(frame_count + 1, max_continuation_frames)
  /\ Within(total_rows + f.rows, max_total_rows)
  /\ columns \in {None, f.cols}

\* FAILURE and EMPTY end a result cleanly.
Terminates(f) == f.type \in {"FAILURE", "EMPTY"} /\ BodyDecodes(f)

decode_continuation_rows ==
  /\ Drainable
  /\ Extends(head)
  /\ Take(total_size, "frame")
  /\ IF head.more
     THEN /\ frame_count' = frame_count + 1
          /\ total_rows' = total_rows + head.rows
          /\ UNCHANGED <<continuation_expected, columns, is_request, handshake_done, version>>
     ELSE Finalize
  /\ result' = [frames |-> Append(result.frames, taken),
                end |-> IF result.end = "none" /\ ~head.more THEN "rows"
                        ELSE result.end]
  /\ got' = [call |-> "continuation", at |-> taken, ret |-> "message"]
  /\ UNCHANGED <<skip_remaining, poisoned, poison_after_skip, stream, fed, shaken>>

decode_continuation_end ==
  /\ Drainable
  /\ Terminates(head)
  /\ Take(total_size, "frame")
  /\ Finalize
  /\ result' = [result EXCEPT !.end = IF head.type = "EMPTY" THEN "empty" ELSE "failure"]
  /\ got' = [call |-> "continuation", at |-> taken, ret |-> "message"]
  /\ UNCHANGED <<skip_remaining, poisoned, poison_after_skip, stream, fed, shaken>>

\* Wrong type (StreamError), unsupported schema, malformed body, a cap or the
\* columns exceeded (DecodeError): the drain is given up without poisoning.
decode_continuation_error ==
  /\ Drainable
  /\ ~Extends(head) /\ ~Terminates(head)
  /\ Take(total_size, "frame")
  /\ Finalize
  /\ result' = [result EXCEPT !.end = "error"]
  /\ got' = [call |-> "continuation", at |-> taken, ret |-> "error"]
  /\ UNCHANGED <<skip_remaining, poisoned, poison_after_skip, stream, fed, shaken>>

\* An oversized continuation frame is taken for an incomplete one.
decode_continuation_waits == FALSE

\* An oversized continuation frame cannot be skipped: poison.
decode_continuation_oversized ==
  /\ ~is_poisoned
  /\ continuation_expected
  /\ has_header /\ oversized
  /\ poisoned' = PoisonedBy("decode")
  /\ Finalize
  /\ result' = [result EXCEPT !.end = "error"]
  /\ got' = [call |-> "continuation", at |-> taken, ret |-> "error"]
  /\ UNCHANGED <<data, pos, skip_remaining, poison_after_skip, shaken>>
  /\ UNCHANGED wire_vars

\* Inside read_message() only the buffer's handler runs; afterwards the drain
\* is finalised and the buffer poisoned.
decode_continuation_interrupted ==
  /\ Drainable
  /\ \/ /\ read_message_interrupted
        /\ UNCHANGED continuation_vars
        /\ UNCHANGED <<is_request, version, handshake_done>>
     \/ /\ Take(total_size, "frame")
        /\ PoisonedByInterrupt
        /\ Finalize
        /\ UNCHANGED <<skip_remaining, poison_after_skip, stream, fed>>
  /\ got' = [call |-> "continuation", at |-> taken, ret |-> "interrupted"]
  /\ UNCHANGED <<result, shaken>>

decode_continuation ==
  \/ decode_continuation_rows
  \/ decode_continuation_end
  \/ decode_continuation_error
  \/ decode_continuation_oversized

-----------------------------------------------------------------------------
(* decode_handshake() *)

\* Eight bytes are in and none were taken as a handshake yet.
HandshakeReady ==
  /\ ~handshake_done
  /\ ~is_poisoned
  /\ available >= HANDSHAKE_SIZE

Committed == version' = head.version /\ handshake_done' = TRUE

\* The handler catches less than every exception.
NotReverted == Committed

Reverted == version' = None /\ handshake_done' = FALSE

\* Committed, and the bytes consumed.
CompleteHandshake ==
  /\ Committed
  /\ Take(HANDSHAKE_SIZE, "raw")
  /\ shaken' = IF shaken = None THEN None ELSE shaken + HANDSHAKE_SIZE
  /\ UNCHANGED <<skip_remaining, poisoned, poison_after_skip, stream, fed>>

HandshakeCall(ret) ==
  /\ got' = [call |-> "handshake", at |-> taken, ret |-> ret]
  /\ UNCHANGED <<is_request, result>>
  /\ UNCHANGED continuation_vars

\* A supported version is committed and its bytes consumed; an unsupported one
\* raises and leaves everything as it was.
decode_handshake ==
  /\ HandshakeReady
  /\ head.version \in SUPPORTED_VERSIONS
  /\ CompleteHandshake
  /\ HandshakeCall("message")

\* An exception before the flag is stored; one out of read_bytes(), which
\* reverts the commit, and has poisoned if it came from inside the mutation
\* block there; or one behind it all, when only the return value is lost.
decode_handshake_interrupted ==
  /\ HandshakeReady
  /\ head.version \in SUPPORTED_VERSIONS
  /\ \/ /\ version' \in {version, head.version}
        /\ UNCHANGED <<handshake_done, shaken>>
        /\ UNCHANGED rb_vars
     \/ /\ Reverted
        /\ UNCHANGED shaken
        /\ UNCHANGED rb_vars \/ read_bytes_interrupted(HANDSHAKE_SIZE)
     \/ CompleteHandshake
  /\ HandshakeCall("interrupted")

\* The two places that part the flags from the bytes, without poison: behind
\* the commit and before the try, where no handler reverts; and behind the
\* handler of read_bytes() but still under the one that reverts.
decode_handshake_torn ==
  /\ HandshakeReady
  /\ head.version \in SUPPORTED_VERSIONS
  /\ \/ Committed /\ UNCHANGED rb_vars
     \/ /\ Reverted
        /\ Take(HANDSHAKE_SIZE, "raw")
        /\ UNCHANGED <<skip_remaining, poisoned, poison_after_skip, stream, fed>>
  /\ shaken' = None
  /\ HandshakeCall("interrupted")

-----------------------------------------------------------------------------
\* reset() after a reconnect to a peer of the same kind.
reset ==
  /\ reset_after_reconnect
  /\ is_request = stream'[0].request
  /\ Finalize
  /\ result' = NoResult
  /\ shaken' = 0
  /\ got' = NoCall

DecoderInit ==
  /\ Init
  /\ is_request = stream[0].request
  /\ version \in IF is_request THEN {None} ELSE ClientVersions
  /\ handshake_done = ~is_request
  /\ continuation_expected = FALSE
  /\ frame_count = 0
  /\ total_rows = 0
  /\ columns = None
  /\ result = NoResult
  /\ shaken = 0
  /\ got = NoCall

DecoderInterrupted ==
  \/ \E n \in Chunks : decoder_feed_interrupted(n)
  \/ take_frame_interrupted
  \/ decode_interrupted
  \/ decode_continuation_interrupted
  \/ decode_handshake_interrupted
  \/ decode_handshake_torn

DecoderNext ==
  \/ \E n \in Chunks : decoder_feed(n)
  \/ decoder_skip_message
  \/ take_frame
  \/ decode
  \/ decode_failed
  \/ decode_continuation
  \/ decode_handshake
  \/ DecoderInterrupted
  \/ reset

DecoderSpec == DecoderInit /\ [][DecoderNext]_vars

-----------------------------------------------------------------------------
(* Properties *)

\* The type of the decoder's variables.
DecoderTypeOK ==
  /\ TypeOK
  /\ is_request \in BOOLEAN
  /\ version \in SUPPORTED_VERSIONS \cup {None}
  /\ handshake_done \in BOOLEAN
  /\ continuation_expected \in BOOLEAN
  /\ frame_count \in Nat
  /\ total_rows \in Nat
  /\ result.frames \in Seq(0..StreamLen)
  /\ result.end \in Ends
  /\ shaken \in Nat \cup {None}

LastFrame == result.frames[Len(result.frames)]

RowsOf(frames) ==
  LET upto[i \in 0..Len(frames)] ==
        IF i = 0 THEN 0 ELSE upto[i - 1] + stream[frames[i]].rows
  IN  upto[Len(frames)]

\* A result the owner has drained, or is draining without error, is whole: its
\* frames follow each other in the stream without a gap, all announce the same
\* columns, all but the last announce more, and it is over exactly when the
\* last one does not (decode, decode_continuation, skip_message's refusal).  A
\* result bypassed by take_frame() has gaps and is otherwise the same.
ResultIntact ==
  LET fs == result.frames IN
  result.end \in {"none", "rows", "bypassed"} =>
    /\ \A i \in 1..(Len(fs) - 1) :
         /\ fs[i + 1] >= fs[i] + Claimed(fs[i])
         /\ result.end # "bypassed" => fs[i + 1] = fs[i] + Claimed(fs[i])
         /\ stream[fs[i]].more
         /\ stream[fs[i + 1]].cols = stream[fs[1]].cols
    /\ fs # <<>> /\ result.end # "bypassed" =>
         (stream[LastFrame].more <=> result.end = "none")

\* The continuation state agrees with the wire: while the flag is set the next
\* byte to read is the first of the frame after the last one returned, or one
\* further on after take_frame(), and the counters are those of the frames
\* returned; while it is clear they are clear (_finalize_continuation_state at
\* every exit).
DrainInStep ==
  ~is_poisoned =>
    IF continuation_expected
    THEN /\ result.end \in {"none", "bypassed"} /\ result.frames # <<>>
         /\ taken >= LastFrame + Claimed(LastFrame)
         /\ result.end = "none" => taken = LastFrame + Claimed(LastFrame)
         /\ frame_count = Len(result.frames)
         /\ total_rows = RowsOf(result.frames)
         /\ columns = stream[LastFrame].cols
    ELSE /\ frame_count = 0 /\ total_rows = 0 /\ columns = None
         /\ result.end = "none" => result.frames = <<>>

\* No result the owner receives exceeds max_continuation_frames frames, and none
\* that was announced to be, or is, of several frames exceeds max_total_rows
\* rows, whatever was abandoned before it and however it ended.
WithinCaps ==
  LET fs == result.frames IN
  /\ Within(Len(fs), max_continuation_frames)
  /\ fs # <<>> /\ (Len(fs) > 1 \/ stream[fs[1]].more) =>
       Within(RowsOf(fs), max_total_rows)

\* A request decoder has consumed the handshake exactly once when it accepts
\* messages, and not at all when it does not, on this and on no earlier
\* connection: over retries of interrupted calls, poison and reconnects, as long
\* as no exception hit one of the two places that part flags from bytes
\* (decode_handshake_torn).  Even then no message is accepted without a version,
\* whichever stores were reached, and a reset re-arms the handshake.
HandshakeOnce ==
  /\ ~is_poisoned /\ shaken # None =>
       handshake_done = (~is_request \/ shaken = HANDSHAKE_SIZE)
  /\ shaken \in {0, HANDSHAKE_SIZE, None}
  /\ handshake_done => version # None

\* What decode() returns never comes from inside a result that is still being
\* drained, and what decode_continuation() returns always does: one cannot
\* take the place of the other unless the owner or an error gave the result up.
CallsMatchWire ==
  [][got' # got /\ got'.ret = "message" =>
       CASE got'.call = "decode" ->
              ~(result.frames # <<>> /\ result.end = "none" /\ stream[LastFrame].more)
         [] got'.call = "continuation" ->
              result.frames # <<>> /\ result.end \in {"none", "bypassed"}
         [] OTHER -> is_request]_vars

-----------------------------------------------------------------------------
(* The owner's drain loop: it feeds what arrives and calls                 *)
(* decode_continuation() whenever a result is in progress.                 *)

DrainSpec ==
  /\ DecoderInit /\ [][DecoderNext]_vars
  /\ WF_vars(\E n \in Chunks : feed(n) /\ UNCHANGED decoder_vars)
  /\ WF_vars(decode_continuation)

\* No result keeps its owner draining for ever: the drain ends, the buffer
\* poisons, or the server falls silent in the middle of a frame.
DrainEnds ==
  continuation_expected ~>
    (~continuation_expected \/ is_poisoned \/ (fed = StreamLen /\ ~has_message))

=============================================================================
