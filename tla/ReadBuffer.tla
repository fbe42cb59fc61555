----------------------------- MODULE ReadBuffer -----------------------------
(***************************************************************************)
(* dqlitewire.buffer.ReadBuffer: the single-owner receive buffer that cuts *)
(* the byte stream of one connection into frames, discards oversized       *)
(* frames, compacts its storage and poisons itself when its offset can no  *)
(* longer be trusted.                                                      *)
(*                                                                         *)
(* A byte is identified by its offset in the peer's stream, so `data` is a *)
(* sequence of offsets and every reordering, loss or duplication inside    *)
(* the buffer is visible.  stream[o].words is what the size field of a     *)
(* header read at offset o decodes to, at frame boundaries and elsewhere.  *)
(***************************************************************************)
EXTENDS Integers, Sequences

CONSTANTS
  HEADER_SIZE,         \* bytes of a frame header
  WORD_SIZE,           \* bytes per size word
  max_message_size,    \* constructor argument
  COMPACT_THRESHOLD,   \* _COMPACT_THRESHOLD
  StreamLen,           \* bytes the peer sends on a connection
  Streams,             \* the streams a peer may send
  LaterStreams,        \* those it may send after a reconnect
  Chunks,              \* sizes of the chunks the owner feeds
  RawReads             \* sizes the owner passes to read_bytes

ASSUME SizesAssumption ==
  /\ HEADER_SIZE \in Nat \ {0}
  /\ WORD_SIZE \in Nat \ {0}
  /\ max_message_size \in Nat \ {0}
  /\ COMPACT_THRESHOLD \in Nat
  /\ StreamLen \in Nat

ASSUME InputsAssumption ==
  /\ LaterStreams \subseteq Streams
  /\ Chunks \subseteq Nat
  /\ RawReads \subseteq Nat
  /\ \A s \in Streams : \A o \in 0..(StreamLen - 1) : s[o].words \in Nat

VARIABLES
  data,                \* _data
  pos,                 \* _pos
  skip_remaining,      \* _skip_remaining
  poisoned,            \* _poisoned: the first error, or "none"
  poison_after_skip,   \* _poison_after_skip
  stream,              \* the peer's bytes on this connection
  fed,                 \* bytes of the stream the buffer has accepted
  taken,               \* bytes of the stream removed from the buffer
  last                 \* the latest run of bytes handed to the owner

buffer_vars == <<data, pos, skip_remaining, poisoned, poison_after_skip>>
wire_vars   == <<stream, fed, taken, last>>
rb_vars     == <<data, pos, skip_remaining, poisoned, poison_after_skip,
                 stream, fed, taken, last>>

Causes == {"none", "interrupt", "overflow", "capped", "decode"}

Handed == [op : {"none", "frame", "skipped", "raw"}, at : Nat, bytes : Seq(Nat)]

Nothing == [op |-> "none", at |-> 0, bytes |-> <<>>]

-----------------------------------------------------------------------------
(* Observers *)

\* The n consecutive bytes of the stream that start at offset o.
Run(o, n) == [i \in 1..n |-> o + i - 1]

Least(a, b) == IF a <= b THEN a ELSE b

is_poisoned == poisoned # "none"

available == Len(data) - pos

is_skipping == skip_remaining > 0

\* Size claimed by the header at the read position, header included.
total_size == HEADER_SIZE + stream[data[pos + 1]].words * WORD_SIZE

has_header == available >= HEADER_SIZE

oversized == total_size > max_message_size

has_message == has_header /\ (oversized \/ available >= total_size)

-----------------------------------------------------------------------------
(* _maybe_compact on storage d with read position p.  An asynchronous      *)
(* exception between its two stores leaves the new storage with the old    *)
(* position; the handler around it then poisons.                           *)

\* The half-consumed test the wrong way round.
CompactsEarlyOnly(d, p) == p > COMPACT_THRESHOLD /\ p < Len(d) \div 2

Compacts(d, p) == p > COMPACT_THRESHOLD /\ p >= Len(d) \div 2

\* The slice starts one byte early.
CompactedKeepsHead(d, p) == IF Compacts(d, p) THEN SubSeq(d, p, Len(d)) ELSE d

Compacted(d, p) == IF Compacts(d, p) THEN SubSeq(d, p + 1, Len(d)) ELSE d

CompactedPos(d, p) == IF Compacts(d, p) THEN 0 ELSE p

TornCompactions(d, p) ==
  {<<d, p>>, <<Compacted(d, p), p>>, <<Compacted(d, p), CompactedPos(d, p)>>}

-----------------------------------------------------------------------------
(* poison(): the first error wins. *)

PoisonedBy(e) == IF is_poisoned THEN poisoned ELSE e

poison(e) ==
  /\ poisoned' = PoisonedBy(e)
  /\ UNCHANGED <<data, pos, skip_remaining, poison_after_skip>>
  /\ UNCHANGED wire_vars

-----------------------------------------------------------------------------
(* feed() *)

\* Bytes of an n-byte chunk that outlive the discard of a skip in flight.
effective_len(n) == IF n > skip_remaining THEN n - skip_remaining ELSE 0

projected(n) == available + effective_len(n)

\* The projection forgets what is already buffered.
RejectsOnlyChunk(n) == n > 2 * max_message_size \/ effective_len(n) > max_message_size

\* The cap is taken as exclusive.
RejectsAtCap(n) == n > 2 * max_message_size \/ projected(n) >= max_message_size

Rejects(n) == n > 2 * max_message_size \/ projected(n) > max_message_size

\* A chunk that does not fit is never appended.  With wire state in flight the
\* buffer poisons itself; on an idle buffer the reject leaves it usable.
feed_reject(n) ==
  /\ ~is_poisoned
  /\ Rejects(n)
  /\ fed + n <= StreamLen
  /\ skip_remaining > 0 \/ available > 0
  /\ skip_remaining' = 0
  /\ poison_after_skip' = IF is_skipping THEN "none" ELSE poison_after_skip
  /\ poisoned' = PoisonedBy("overflow")
  /\ UNCHANGED <<data, pos>>
  /\ UNCHANGED wire_vars

\* The discard is not limited to what the skip still owes.
DiscardsAll(n) == IF is_skipping THEN n ELSE 0

discard(n) == Least(n, skip_remaining)

\* The deferred poison of a capped skip never fires.
NeverFires(n) == FALSE

\* The chunk completes a capped skip, so its deferred poison fires.
Fires(n) ==
  /\ is_skipping
  /\ skip_remaining = discard(n)
  /\ poison_after_skip # "none"

\* Storage after an accepted chunk: untouched when the skip ate all of it.
Extended(n) ==
  IF is_skipping /\ n = discard(n) THEN data
  ELSE Compacted(data, pos) \o Run(fed + discard(n), n - discard(n))

ExtendedPos(n) ==
  IF is_skipping /\ n = discard(n) THEN pos ELSE CompactedPos(data, pos)

feed(n) ==
  /\ ~is_poisoned
  /\ ~Rejects(n)
  /\ fed + n <= StreamLen
  /\ skip_remaining' = skip_remaining - discard(n)
  /\ poisoned' = IF Fires(n) THEN poison_after_skip ELSE poisoned
  /\ poison_after_skip' = IF Fires(n) THEN "none" ELSE poison_after_skip
  /\ data' = Extended(n)
  /\ pos' = ExtendedPos(n)
  /\ fed' = fed + n
  /\ taken' = taken + discard(n)
  /\ UNCHANGED <<stream, last>>

\* An asynchronous exception inside the mutation block of feed(): any prefix
\* of its stores has happened, and the handler poisons unless the deferred
\* poison already did.  The owner still holds the chunk.
feed_interrupted(n) ==
  /\ ~is_poisoned
  /\ ~Rejects(n)
  /\ fed + n <= StreamLen
  /\ \/ /\ skip_remaining' \in {skip_remaining, skip_remaining - discard(n)}
        /\ poisoned' = "interrupt"
        /\ UNCHANGED <<data, pos, poison_after_skip>>
     \/ /\ Fires(n)
        /\ skip_remaining' = 0
        /\ poisoned' = poison_after_skip
        /\ poison_after_skip' \in {"none", poison_after_skip}
        /\ UNCHANGED <<data, pos>>
     \/ /\ ~(is_skipping /\ n = discard(n))
        /\ skip_remaining' = skip_remaining - discard(n)
        /\ poisoned' = IF Fires(n) THEN poison_after_skip ELSE "interrupt"
        /\ poison_after_skip' = IF Fires(n) THEN "none" ELSE poison_after_skip
        /\ \/ \E t \in TornCompactions(data, pos) : data' = t[1] /\ pos' = t[2]
           \/ data' = Extended(n) /\ pos' = ExtendedPos(n)
  /\ UNCHANGED wire_vars

-----------------------------------------------------------------------------
(* Consuming calls.  Take(n, op) removes n bytes at the read position,     *)
(* compacts, and records which bytes left the buffer.                      *)

\* The read position is not advanced.
TakeWithoutAdvance(n, op) ==
  /\ data' = Compacted(data, pos)
  /\ pos' = CompactedPos(data, pos)
  /\ taken' = taken + n
  /\ last' = [op |-> op, at |-> taken, bytes |-> SubSeq(data, pos + 1, pos + n)]

Take(n, op) ==
  /\ data' = Compacted(data, pos + n)
  /\ pos' = CompactedPos(data, pos + n)
  /\ taken' = taken + n
  /\ last' = [op |-> op, at |-> taken, bytes |-> SubSeq(data, pos + 1, pos + n)]

\* The same call cut short inside its mutation block: nothing is handed out.
TakeInterrupted(n) ==
  /\ poisoned' = PoisonedBy("interrupt")
  /\ \E t \in {<<data, pos>>} \cup TornCompactions(data, pos + n) :
        data' = t[1] /\ pos' = t[2]

\* read_message() and skip_message() of a frame of legal size need all of it.
\* read_message() returns None or raises without effect otherwise.
Readable ==
  /\ ~is_poisoned
  /\ has_header
  /\ ~oversized
  /\ available >= total_size

read_message ==
  /\ Readable
  /\ Take(total_size, "frame")
  /\ UNCHANGED <<skip_remaining, poisoned, poison_after_skip, stream, fed>>

read_message_interrupted ==
  /\ Readable
  /\ TakeInterrupted(total_size)
  /\ UNCHANGED <<skip_remaining, poison_after_skip>>
  /\ UNCHANGED wire_vars

skip_message_complete ==
  /\ Readable
  /\ Take(total_size, "skipped")
  /\ UNCHANGED <<skip_remaining, poisoned, poison_after_skip, stream, fed>>

\* An oversized frame is skipped only up to the cap, then the buffer poisons:
\* now if the cap is reached, else when feed() has discarded the rest.
effective_total == Least(total_size, max_message_size)

skip_now == Least(effective_total, available)

\* The cap is forgotten when the rest of the frame is still to come.
DeferredNever(remaining) == "none"

\* _poison_after_skip once `remaining` bytes are left to discard.
Deferred(remaining) ==
  IF effective_total < total_size /\ remaining > 0 THEN "capped"
  ELSE poison_after_skip

skip_message_oversized ==
  /\ ~is_poisoned
  /\ has_header
  /\ oversized
  /\ Take(skip_now, "skipped")
  /\ skip_remaining' = effective_total - skip_now
  /\ poisoned' = IF effective_total < total_size /\ effective_total = skip_now
                 THEN PoisonedBy("capped") ELSE poisoned
  /\ poison_after_skip' = Deferred(effective_total - skip_now)
  /\ UNCHANGED <<stream, fed>>

skip_message_interrupted ==
  /\ \/ /\ Readable
        /\ TakeInterrupted(total_size)
        /\ UNCHANGED <<skip_remaining, poison_after_skip>>
     \/ /\ ~is_poisoned
        /\ has_header
        /\ oversized
        /\ \E done \in 0..3 :   \* how many of the stores were reached
              /\ skip_remaining' = IF done >= 2 THEN effective_total - skip_now
                                   ELSE skip_remaining
              /\ poison_after_skip' = IF done = 3
                                      THEN Deferred(effective_total - skip_now)
                                      ELSE poison_after_skip
              /\ poisoned' = IF done = 3 /\ effective_total = skip_now
                             THEN "capped" ELSE "interrupt"
              /\ \E t \in IF done = 3 THEN TornCompactions(data, pos + skip_now)
                         ELSE {<<data, IF done = 0 THEN pos ELSE pos + skip_now>>} :
                    data' = t[1] /\ pos' = t[2]
  /\ UNCHANGED wire_vars

read_bytes(n) ==
  /\ ~is_poisoned
  /\ available >= n
  /\ Take(n, "raw")
  /\ UNCHANGED <<skip_remaining, poisoned, poison_after_skip, stream, fed>>

read_bytes_interrupted(n) ==
  /\ ~is_poisoned
  /\ available >= n
  /\ TakeInterrupted(n)
  /\ UNCHANGED <<skip_remaining, poison_after_skip>>
  /\ UNCHANGED wire_vars

-----------------------------------------------------------------------------
(* reset() and clear() *)

Cleared ==
  /\ data' = <<>>
  /\ pos' = 0
  /\ skip_remaining' = 0
  /\ poisoned' = "none"
  /\ poison_after_skip' = "none"

Reconnected ==
  /\ stream' \in LaterStreams
  /\ fed' = 0
  /\ taken' = 0
  /\ last' = Nothing

\* The owner opens a new connection and resets the buffer for it.
reset_after_reconnect == Cleared /\ Reconnected

\* The other use the docstring of feed() allows: resetting an idle buffer in
\* place after a reject that did not poison.
reset_idle ==
  /\ ~is_poisoned
  /\ available = 0
  /\ skip_remaining = 0
  /\ Cleared
  /\ UNCHANGED wire_vars

-----------------------------------------------------------------------------
Init ==
  /\ data = <<>>
  /\ pos = 0
  /\ skip_remaining = 0
  /\ poisoned = "none"
  /\ poison_after_skip = "none"
  /\ stream \in Streams
  /\ fed = 0
  /\ taken = 0
  /\ last = Nothing

Interrupted ==
  \/ \E n \in Chunks : feed_interrupted(n)
  \/ read_message_interrupted
  \/ skip_message_interrupted
  \/ \E n \in RawReads : read_bytes_interrupted(n)

Next ==
  \/ \E n \in Chunks : feed(n) \/ feed_reject(n)
  \/ read_message
  \/ skip_message_complete
  \/ skip_message_oversized
  \/ \E n \in RawReads : read_bytes(n)
  \/ poison("decode")
  \/ Interrupted
  \/ reset_idle
  \/ reset_after_reconnect

Spec == Init /\ [][Next]_rb_vars

-----------------------------------------------------------------------------
(* Properties *)

\* The type of every variable.
TypeOK ==
  /\ data \in Seq(Nat)
  /\ pos \in Nat
  /\ skip_remaining \in 0..max_message_size
  /\ poisoned \in Causes
  /\ poison_after_skip \in {"none", "capped"}
  /\ \A o \in 0..(StreamLen - 1) : stream[o].words \in Nat
  /\ fed \in 0..StreamLen
  /\ taken \in Nat
  /\ last \in Handed

\* While the buffer is not poisoned its unread part is exactly the bytes the
\* peer sent between what was removed and what was accepted: no sequence of
\* feeds, reads, skips, compactions, interrupts and resets loses, repeats or
\* reorders a byte without poisoning (feed, read_message, _maybe_compact).
Coherent ==
  ~is_poisoned =>
    /\ pos \in 0..Len(data)
    /\ SubSeq(data, pos + 1, Len(data)) = Run(taken, fed - taken)

\* Whatever read_message, skip_message and read_bytes remove is the run of
\* bytes that follows the previous removal, and a frame that read_message
\* returns is as long as its own header claims and within max_message_size.
HandedInOrder ==
  /\ last.bytes = Run(last.at, Len(last.bytes))
  /\ last.op = "frame" =>
       /\ Len(last.bytes) = HEADER_SIZE + stream[last.at].words * WORD_SIZE
       /\ Len(last.bytes) <= max_message_size

\* A skip still discarding holds nothing readable and has its deferred poison
\* armed; the deferred poison is armed at no other time (skip_message, feed).
SkipIsArmed ==
  ~is_poisoned =>
    /\ is_skipping <=> poison_after_skip # "none"
    /\ is_skipping => available = 0

Larger(a, b) == IF a >= b THEN a ELSE b

\* The storage stays below the cap plus the larger of the cap and the
\* compaction threshold, poisoned or not: lazy compaction cannot let consumed
\* bytes pile up (_maybe_compact called from feed and from every read).
MemoryBound ==
  Len(data) <= max_message_size + Larger(COMPACT_THRESHOLD, max_message_size)

\* An unpoisoned buffer is never stuck: its owner can consume something or can
\* feed one more byte, provided the cap leaves room for a header.
NoWedge ==
  ~is_poisoned /\ HEADER_SIZE <= max_message_size => has_message \/ ~Rejects(1)

\* Once poisoned, or while skipping an oversized frame, the buffer hands out
\* no more bytes of this connection; a skip ends in poison, never in a silent
\* resynchronisation on a false frame boundary; and the first error stays on
\* record until the reset (poison, skip_message, feed).
DeadUntilReset ==
  [][is_poisoned \/ is_skipping =>
       \/ fed' = 0 /\ last' = Nothing /\ ~is_poisoned' /\ ~is_skipping'
       \/ /\ last' = last \/ last'.bytes = <<>>
          /\ IF is_poisoned THEN poisoned' = poisoned
             ELSE is_poisoned' \/ is_skipping']_rb_vars

-----------------------------------------------------------------------------
(* The owner's pump loop: feed what arrives, consume what has_message      *)
(* reports, skip what read_message rejects, reconnect once the buffer is   *)
(* poisoned or the peer has closed.                                        *)

PumpNext ==
  \/ \E n \in Chunks : feed(n) \/ feed_reject(n)
  \/ read_message
  \/ skip_message_oversized
  \/ Interrupted
  \/ is_poisoned /\ reset_after_reconnect

PumpSpec ==
  /\ Init /\ [][PumpNext]_rb_vars
  /\ WF_rb_vars(\E n \in Chunks : feed(n))
  /\ WF_rb_vars(read_message)
  /\ WF_rb_vars(skip_message_oversized)

Claimed(o) == HEADER_SIZE + stream[o].words * WORD_SIZE

\* The peer sends enough for the owner to be done with the frame at `taken`.
HeadSent ==
  /\ taken + HEADER_SIZE <= StreamLen
  /\ taken + Least(Claimed(taken), max_message_size) <= StreamLen

\* Under the pump loop every frame whose bytes the peer sends is consumed, or
\* the buffer poisons; in particular an oversized frame ends in poison rather
\* than in an endless skip (has_message, skip_message, deferred poison).
EveryFrameSettled ==
  \A o \in 0..StreamLen :
    (~is_poisoned /\ taken = o /\ HeadSent) ~> (is_poisoned \/ taken > o)

-----------------------------------------------------------------------------
(* What the buffer promises: its storage, read position, compaction and    *)
(* torn states are invisible, except that errors kill the connection.      *)

Promise == INSTANCE FrameStream WITH
  rx    <- IF is_poisoned THEN 0 ELSE fed,
  taken <- IF is_poisoned THEN 0 ELSE taken,
  owed  <- IF is_poisoned THEN 0 ELSE skip_remaining,
  mode  <- IF is_poisoned THEN "dead" ELSE "up"

\* Every behaviour of the buffer is a behaviour of the abstract frame stream:
\* each call of its owner is one abstract step or none.
ImplementsFrameStream == Promise!Spec

=============================================================================
