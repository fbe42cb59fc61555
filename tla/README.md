# A verification project for python-dqlite-wire

`dqlitewire` is a sans-I/O implementation of the dqlite wire protocol: it turns
Python messages into bytes and the bytes a socket delivers into messages.  It
opens no socket and starts no thread.  Its owner (a client or a test server)
feeds it chunks and asks it for messages, and may interrupt it at any bytecode
with an asynchronous exception (`KeyboardInterrupt`, a cancellation delivered
with `PyThreadState_SetAsyncExc`).  This directory holds TLA+ models of its
code, TLC runs over small instances, and TLAPS proofs.

Paths such as `buffer.py:134` are relative to `src/src/dqlitewire/`.

## The system

| part | state | operations | hard behaviour |
|---|---|---|---|
| `ReadBuffer` (`buffer.py`) | `_data`, `_pos`, `_skip_remaining`, `_poisoned`, `_poison_after_skip` | `feed`, `read_message`, `skip_message`, `read_bytes`, `peek_*`, `has_message`, `poison`, `reset`/`clear` | lazy compaction under a moving read position, oversized frames skipped across several `feed` calls, chunks at the cap, exceptions between the stores of a method |
| `MessageDecoder` (`codec.py`) | the buffer, `_version`, `_handshake_done`, `_continuation_*` | `feed`, `decode`, `decode_continuation`, `decode_handshake`, `skip_message`, `take_frame`, `reset` | a ROWS result spread over frames, three caps, column drift, every error exit of a drain, exceptions between consuming a frame and recording it |
| `MessageEncoder`, `encode_message`, `decode_message` (`codec.py`) | a version, a cap | one frame at a time | type numbers shared by requests and responses, schema ceilings per direction, the legacy body chosen by version, one cap for both ends |
| wire types (`types.py`) | none | words, text, blobs, tagged values | padding, terminators, bounds |
| tuples (`tuples.py`) | none | parameter tuples, row headers and rows | count width, nibble packing, header padding, end markers |
| header (`messages/base.py`) | none | 8-byte header | size in words, type, schema |
| requests, responses (`messages/`) | none | bodies, the flat ones and those with lists | rows markers, failure trailing record, file and server lists, hints of decoded requests, two forms of ASSIGN, LEADER and STMT |
| constants (`constants.py`) | none | `primary_sqlite_code`, `is_dqlite_namespace_code` | two families of error codes in one number space |
| limits, exceptions, truncation, exports | none | none | none |

The owner calls the decoder; the decoder calls its buffer; the buffer calls
nothing.  There are no callbacks and there is no shared state beyond the
decoder's reference to its buffer.  Both classes document single ownership
(`docs/thread-safety.md`), so the concurrency that matters is not that of
threads but of *interrupts*.

Where an exception can strike:

* Between the stores under a handler (`except BaseException`) and anywhere in
  `decode_handshake`: these are actions of `ReadBuffer` and `MessageDecoder`, and
  the passing runs and the theorems of those modules cover them.
* Where no handler covers a pair of stores that belong together, or a frame that has
  left the buffer: inside `reset` of the buffer, inside the reject of `feed`, and
  between `read_message` and the `try` of its caller.  Each of these is an action of a
  `...Windows` module, and a run that TLC refutes shows what it breaks.  The remaining
  place of this kind, between the two calls of the decoder's `reset`
  (`codec.py:301`), is not modelled: see the end of this file.
* On a line where only the return value is left to lose, an exception ends a call
  whose state change is complete, and no store is torn: the message of the last line
  of `decode` (`codec.py:564`) is gone, although the decoder is in step.  Of these
  only that of `decode_handshake` is an action.
* A handler, once entered, is taken to run to its end.

What makes each part correct:

* **ReadBuffer** - while it is not poisoned its unread bytes are exactly the
  peer's bytes between what was removed and what was accepted; what it hands
  out is consecutive, and a frame is as long as its header says; storage is
  bounded; it cannot get stuck; once its offset is in doubt it hands out
  nothing until a reset.
* **MessageDecoder** - a result delivered without error has all its frames, in
  order, with the same columns and within the caps; the continuation state
  agrees with the wire after every call; a request decoder consumes exactly one
  handshake per connection; a call cut short poisons or takes back what it did.
* **wire types, tuples, bodies** - what one end encodes the other decodes to the
  same message and encodes again to the same bytes; encodings are whole words;
  a body that lost or gained words, or whose end marker is torn, is never taken
  for a complete one; all decoders agree on where a field ends, whichever way
  they scan for it.
* **frames** - a decoder returns only messages of its own direction, of the type
  and the schema in the header; nothing one end may write is refused by the
  other, at whatever limit.
* **the whole** - over any chunking, and after any failed connection, the owner
  at one end gets what was given to the encoder at the other, in order and, if
  it keeps reading, all of it.

## Modules

| module | models | extends |
|---|---|---|
| `FrameStream` | what a receive buffer promises: a stream of bytes from which whole frames are removed in order, until an error kills the connection | |
| `ReadBuffer` | `buffer.py` | instantiates `FrameStream` for the refinement |
| `ReadBufferWindows` | the two places of `buffer.py` where an exception between two stores meets no handler, and one claim of its documentation | `ReadBuffer` |
| `ReadBufferProofs` | theorems about `ReadBuffer`, with its refinement of `FrameStream` | `ReadBuffer` |
| `MessageDecoder` | `codec.py`'s decoder composed with its buffer | `ReadBuffer` |
| `MessageDecoderProofs` | theorems about the decoder over its buffer | `MessageDecoder`, `ReadBufferProofs`, `NatSets` |
| `MessageDecoderWindows` | the place of `codec.py` where an exception costs a message, and one claim of `decode_handshake` | `MessageDecoder` |
| `WireTypes` | `types.py` | |
| `WireTypesProofs` | theorems and lemmas about the encodings of `types.py` | `WireTypes`, `NatSets` |
| `WireTuples` | `tuples.py` | `WireTypes` |
| `WireFields` | lists of fields: what a class writes one after the other and reads back in the same order | `WireTuples` |
| `MessageBodies` | rows, failure, files and servers of `messages/responses.py`, statement requests of `messages/requests.py` | `WireFields` |
| `FlatBodies` | every other class of the two files, with the legacy forms | `MessageBodies` |
| `WireCodec` | the header of `messages/base.py`; `MessageEncoder`, `encode_message`, `decode_bytes` and `decode_message` of `codec.py` | `FlatBodies` |
| `MessageTypes` | the messages a program can build: what the fields of each class hold, and which reader a message is for | `WireCodec` |
| `MessageProofs` | theorems about lists, fields, tuples, rows, bodies, frames and error codes | `MessageTypes`, `WireTypesProofs`, `ErrorCodes` |
| `WireRelay` | a message encoded, carried, decoded by any reader and encoded again | `MessageTypes` |
| `WireRelayProofs` | theorems about what readers make of a frame, intact or damaged | `WireRelay`, `MessageProofs` |
| `WireSession` | one direction of a connection from end to end: encoder, chunks, buffer, decoder, owner | `MessageDecoder`, an instance of `MessageProofs` |
| `WireSessionProofs` | theorems about the session | `WireSession`, `MessageDecoderProofs` |
| `ErrorCodes` | the error codes of `constants.py` | |
| `TextScan` | the two ways through `decode_text`, against a definition that does not scan | `WireTypes` |
| `TextScanProofs` | the theorem of `text_scan` for all inputs | `TextScan`, `WireTypesProofs` |
| `NatSets` | induction and recursion over the naturals, in a form the provers can use | |
| `MCReadBuffer`, `MCMessageDecoder`, `MCWireRelay`, `MCWireSession`, `MCTextScan` | instances for TLC | the module each is named after |

### ReadBuffer

Variables are named after the fields.  A byte is represented by its offset in
the peer's stream, so `data` is a sequence of offsets: a loss, a repetition or
a reordering inside the buffer shows.  `stream[o].words` is what a size field
read at offset `o` would decode to, at true frame boundaries and anywhere else,
so that a buffer that lost its place reads a wrong size and not an error of the
model.  Four history variables (`stream`, `fed`, `taken`, `last`) say what the
peer sent, how much was accepted, how much was removed, and the latest run of
bytes handed out.

Each mutating method is an action; the guard is the method's early returns
and raises, and calls that return or raise without effect are stutters.  Methods
with a handler (`except BaseException: poison`) have a second action,
`..._interrupted`, which takes any prefix of the stores inside the handler and
then poisons; `TornCompactions` lists what an exception inside
`_maybe_compact` leaves.  `poisoned` keeps which kind of error came first.

`reset` appears twice: after a reconnect, which replaces the stream, and in
place on an idle buffer, the other use the docstring of `feed` describes.

Not visible in the model: `peek_header`, `peek_bytes`, `has_message`,
`available`, `is_poisoned`, `poison_cause` (they change nothing; those the other
methods rely on are operators), the text of errors, and the check for a torn
header that only free-threaded builds can need.

### MessageDecoder

`stream[o]` also says what kind of frame starts at `o`: its type, whether its
body is well formed and its schema supported, and for ROWS the row count,
columns and whether more frames follow.  A handshake version is read from the
same place, and the stream says whether it is a client's or a server's:
`is_request`, fixed when a decoder is built, is a variable, so one run covers
both directions.  `decode`, `decode_continuation` and `decode_handshake` are split by
outcome; each calls the buffer's own `Take`, so one action is the whole method.
The decoder's history variables are `result` (where the frames of the current
result started, and how it ended), `shaken` (handshake bytes consumed, or
`None`, see below) and `got` (the latest call that consumed or failed).

`decode_handshake` stores two flags, consumes eight bytes under a handler that
takes the flags back, and returns.  An exception there has one of six outcomes:

| where | flags | bytes | buffer | action |
|---|---|---|---|---|
| before the store of the second flag (`codec.py:656`-`664`) | not done, the version perhaps stored | kept | usable | `decode_handshake_interrupted` |
| behind it, before the `try` (`codec.py:665`) | set | kept | usable | `decode_handshake_torn` |
| in `read_bytes`, before its handler | taken back | kept | usable | `decode_handshake_interrupted` |
| under the handler of `read_bytes` | taken back | kept or consumed | poisoned | `decode_handshake_interrupted` |
| on the return of `read_bytes` (`buffer.py:359`) | taken back | consumed | usable | `decode_handshake_torn` |
| on the return of `decode_handshake` | set | consumed | usable | `decode_handshake_interrupted` |

The two torn ones leave flags and bytes apart without poison.  They are steps of
`DecoderSpec`, so every property of the decoder is checked and proved over what
comes after them; `shaken` is `None` from there to the next reset, and
`HandshakeOnce` then promises only that no message is accepted without a version.
That the code claims more is what `handshake_window` refutes.

`take_frame` has no guard in the code.  Calling it in the middle of a result
removes a frame from it; the model marks such a result `bypassed`.  That the
result has a hole is then the caller's doing, but the rest still holds and is
checked: what is returned of it is in stream order and has the columns of its
first frame, the counters and the snapshot are those of the frames returned,
and the caps apply (`ResultIntact`, `DrainInStep`, `WithinCaps`).

`WithinCaps` bounds the rows of a result that has several frames or announces
more: a single frame is held to `max_rows` alone.

`reset` comes with a reconnect, as its docstring asks, and is one action.  In place it
would re-arm the handshake of a request decoder too, although the peer will not
send it again (`codec.py:317`).

### The codecs: WireTypes to WireCodec

The codecs are pure functions and are written as operators of the same names
over sequences of bytes.  A decoder returns `Fail` where the code raises
`DecodeError`, else the value and the bytes used; an encoder is a pair, the
condition under which the code does not raise `EncodeError` (`..._encodable`)
and the bytes it then returns.  `Then`
goes on with what a decoder returned.  Loops are recursive functions: of the number
of items for the decoders that run one behind the other (`InTurn`, with `Each` and
`Times` on top of it), of the number of passes for the row loop (`RowsFrom`, whose pass is
`RowPass`), of the offset for the chunked text scan.  A Python value is its type and contents, a text is
its UTF-8 bytes, a float the number its bit pattern spells.  The two
validation stages of a message (construction and `encode_body`) are one
condition.  The four statement requests differ in their type byte and in
their prefix, two 32-bit ids or a word and SQL; one `Statement` stands for all of
them.

A class that is a fixed list of fields is a layout (`FlatBodies`): its fields'
kinds, sizes and limits in order, `capped` where the class has a limit or a set
of legal values that starts at zero (roles, formats), `reserved` where it writes
zeros and ignores what it reads.  The forms of a class that only differ in their
fields are further layouts: `Promote` for the one-word ASSIGN, `LegacyLeader` for
a leader's address alone, two for the schemas of STMT.  A word of three bytes
holds one `uint32` of two bytes and, for a second one, the byte that is left
(`uint32_rest`).

Numbers are written as the code's width demands: `Codes(size)` is how many
numbers `size` bytes hold, `LittleEndian` takes them apart by repeated division
and `Number` puts them together from the top, each as a recursive function, so
that TLC computes them and the proofs can reason about them.

`WireCodec` puts bodies into frames.  `encode_message` is `MessageEncoder.encode`
of a message; `decode_message(d, dec)` is `decode_bytes` for a reader that is a
client or a server at one of the two versions: length, cap, exact length, type map of its
direction, schema ceiling, legacy selection, body, in the order of the code.
An encoder refuses a body of more words than the size field can count
(`messages/base.py:46`).
The reserved bytes of the header are written as zeros and not looked at.

Simplified: only ASCII counts as valid UTF-8 (what matters is that some bytes
are not); text errors are `strict`; `sanitize_server_text` replaces the ASCII
part of its class; which texts `fromisoformat` accepts is the constant
`IsoTexts`.

### WireRelay and TextScan

`MessageTypes` says what a program can put into a message: the annotations of
the classes, for the part that an encoder does not check.  `WireRelay` takes a
message from `Messages` (a sequence of sets, one for each
shape of record) through `send`, an optional `disturb`, then `receive` and
`resend`.  An intact frame may be read by any of the four readers, those of the
wrong direction and the wrong version included: type numbers overlap, so a
server may well decode a response as a request, and `Stable` and `HeaderObeyed`
say what it then holds.  Damage is external: part of a frame arrives or a byte
too many (`torn`), a peer writes a body with words missing or added under a
header that matches (`cut`, `grown`), or one byte of header or body is
`altered`.  `HalfRowsFailure` (what a server leaves that fails in the middle of
a rows response, as the comment at `messages/responses.py:163` describes it) and
`Tagged` (a client that tags its parameters itself) are messages the library
only receives, modelled from how it decodes them.  A decoded message that cannot
be encoded ends in stage `kept`.

The exclusions are the protocol's: the bytes behind a failure record are
benign by design (`messages/responses.py:169`), a statement cut before its
parameters is a statement without parameters, and an ASSIGN without its second
word is a PROMOTE, so `CutsDetected` is not stated for those.

### WireSession

`MessageDecoder` assumes what a frame at an offset is; `WireSession` derives it.  A
script is a direction, a version and a list of messages; `Written` is the
handshake, if the writer is a client, and the frames `encode_message` writes,
without the messages it refuses.  Scripts are those of programs that keep to the
protocol (`ScriptsAssumption`): messages of the writer's direction and version, and a page that
announces another is followed by a page of the same columns within the caps of the
reader, or by a response that ends the result (`PagesInOrder`).  `Views` decodes the bytes at *every*
offset with `decode_message`, and that is the `stream` the buffer and the decoder
run on: the model's decoder therefore sees exactly what the encoder wrote, and a
decoder that lost its place would see what the bytes at the wrong offset spell.
The owner feeds a chunk only when nothing is left to decode (`Idle`), calls
`decode`, `decode_continuation` or `decode_handshake` as the state of the decoder
asks, and reconnects, to a peer of the same direction and version, once the
buffer is poisoned.  `delivered` is what the calls returned.  An exception strikes
(`interrupt`) where a handler sees it, before a store or behind the last one; the
torn handshakes and the places of the `...Windows` modules are left out.  With them
the session's properties do not hold: behind `codec.py:665` the handshake is read as
the header of a frame, behind `codec.py:527` a message is missing.

`FramesAsSent` is the interface between the codec and the control: walking from
station to station along the bytes, each frame lies where the one before it
ended, decodes to the message that was given to the encoder, and leaves the
result it belongs to within the caps.  It says nothing of the reader: it is proved of
the bytes, and what the reader does on such a stream is proved from it (below).

A client's decoder is built with its peer's version, as the docstring at
`messages/responses.py:266` requires; a server's takes it from the handshake.

## Runs

Passing runs:

| run | checks | shows |
|---|---|---|
| `buffer` | `TypeOK`, `Coherent`, `HandedInOrder`, `SkipIsArmed`, `MemoryBound`, `NoWedge`, `DeadUntilReset`, `ImplementsFrameStream` | every order of feeds, rejects, reads, skips, raw reads, interrupts and resets; storage, positions, compaction and torn states are invisible to the owner |
| `buffer_pump` | `EveryFrameSettled` | under the pump loop every frame is consumed or the buffer poisons |
| `decoder` | `DecoderTypeOK`, `ResultIntact`, `DrainInStep`, `WithinCaps`, `HandshakeOnce`, `CallsMatchWire` | decoding of responses over good, malformed, drifting, too long and oversized frames, with frames taken out from under a result; decoding of requests behind the handshake gate, over unsupported versions and handshakes cut short at every line; interrupts and reconnects in both |
| `decoder_drain` | `DrainEnds` | no result keeps its owner draining for ever |
| `relay` | `RoundTrip`, `Reencodes`, `TornRefused`, `CutsDetected`, `Stable`, `HeaderObeyed` | every value under every type, given or inferred, rows up to the column and row limits, files, servers, failures, statements (parameter counts up to one above the limit, both count widths, both prefixes, fresh and as decoded) and every flat class at and beyond its limits, read by clients and servers of both versions, with and without damage |
| `session` | `FramesAsSent`, `DeliveredInOrder`, `WriterNeverFailsReader`, `EverythingDelivered` | encoder and decoder together: eight scripts in both directions and at both versions, any chunking, interrupts and reconnects |
| `text_scan` | `TextMatchesReference` | probes and chunks of `decode_text` lose or add no byte, whatever the cap |

Runs that TLC refutes, each about what a line of documentation, a comment or a
test says:

| run | refuted | the code |
|---|---|---|
| `reset_window` | `Coherent` with an exception inside `reset` | `buffer.py:68` clears the storage before it zeroes the position and has no handler: an unpoisoned buffer with `_pos > len(_data)`, whose next `feed` swallows bytes. `tests/test_signal_safety.py:20` promises "self-consistent or poisoned, never silently torn" |
| `reject_window` | `DeadUntilReset` with an exception inside the reject of `feed` | `buffer.py:141` forgets a skip in flight before it calls `poison()`, outside the handler: in between the buffer looks idle but sits inside an oversized frame.  `buffer.py:101` says the reject self-poisons |
| `skip_recovers` | `SkipRecovers` | a skip of an oversized frame always ends in poison (the frame is longer than the cap, the skip is not); `buffer.py:233` and `codec.py:338` call it a recovery |
| `drop_window` | `ResultIntact` with an exception at `codec.py:527` | between `read_message()` and the `try` a consumed frame can be dropped without poison |
| `handshake_window` | `HandshakeAtomic` | an exception at `codec.py:665` leaves the flags set, the bytes unread and the buffer unpoisoned, one at `buffer.py:359` the flags reverted, the bytes consumed and the buffer unpoisoned; `codec.py:662` says the pair is atomic |

The window runs place exceptions at the granularity the repository's own
signal-safety tests use: before any source line.  In CPython pending exceptions
are raised at calls and backward jumps; for `reset_window` (the call of
`_data.clear()`) and `reject_window` (the call of `poison()`) such a point exists
between the stores.

### Bounds

* Buffer runs: `HEADER_SIZE = WORD_SIZE = 2`, `max_message_size = 6`,
  `COMPACT_THRESHOLD = 2`, `StreamLen = 14` (16 in the other buffer
  runs).  Size fields of 0, 2 and 3 words give the shortest frame, the longest
  legal one (exactly the cap) and an oversized one, in all patterns of period 2 and 3.  Chunks of 0, 1, 3, 5, 7
  and 13 bytes fall short of a header, straddle frames, exceed the cap, and
  exceed twice the cap.  Fourteen bytes hold two frames of the cap and a
  header, several compactions, and a skip completed by a later chunk.
* Decoder runs: `HEADER_SIZE = WORD_SIZE = 1`, a cap of 3, five bytes of stream
  (up to five frames) with `max_rows = 5`, `max_continuation_frames = 3` and
  `max_total_rows = 3`, so that every cap is met and exceeded inside a result, and
  a request stream holds a handshake and four frames.  One kind of frame has more rows
  than `max_total_rows` and fewer than `max_rows`, so that only the cap on the whole result can refuse it.  `decoder_drain` disables the frame cap
  (`None`), so that nothing but the stream ends a result.
* Relay run: a word of three bytes keeps word-sized numbers within TLC's
  integers and makes seven columns spill the row header into a second word (17 at
  eight bytes).  Probes of one and two bytes and chunks of two put every text on
  a border; the one-byte count ends at two parameters instead of 255, the
  maximum is four, and five are tried; names, contents, file lists and columns
  are tried up to and beyond their limit, messages and node lists up to it.  A header is
  five bytes (size of two, type, schema, one reserved) and the cap of 38 is a frame of
  eleven words, which some messages meet and others exceed.  Damage is any proper prefix, one
  trailing byte, one cut at any word, one added word or one altered byte.  The legacy
  version is a number that is not 1 and fits a word.  Node lists with a repeated id are
  left out of the messages: see the consequences below.
* Session run: the sizes of the relay run.  Results of several pages ended by a page, a failure and
  an empty response; two pages and a file list of exactly the cap and a page one word above it,
  which the encoder refuses; every class of response and nine of request; a CLIENT request at the legacy version, whose type byte is
  LEADER's.  Chunks of 1, 3, 8 and 38 bytes: single bytes, words, less than two frames, a whole
  cap (which overflows behind a partial frame and poisons).  `StreamLen = 140` exceeds the longest
  script; what lies behind it never arrives.  `max_continuation_frames` and `max_total_rows` are
  3, which the longest results meet without exceeding.
* `text_scan`: all inputs up to six bytes over a NUL, a letter and a byte that
  is not UTF-8, alone and behind a prefix as long as the longer probe, with
  caps below, between and above the windows.
* `LaterStreams` bounds what the peer sends after a reconnect.  The state after
  a reset is an initial state, so a later connection shows nothing that a first
  one does not, except what the reset forgot to clear; two later streams are
  enough for that.
* Every counter is bounded by `StreamLen`: a connection is a finite stream.  No
  run uses symmetry or a state constraint.

`MessageDecoderDrain` and the pump run use fewer streams and chunks, as
liveness checking costs more.

### Fairness

The code has no scheduler, so the fairness is the owner's.  `PumpSpec` assumes
weak fairness of feeding, of `read_message` and of `skip_message` on an
oversized header: the loop `while has_message(): ...` that the docstring of
`has_message` (`buffer.py:190`) prescribes.  `DrainSpec` assumes the owner keeps
feeding and calls `decode_continuation` while a result is in progress, as the
docstring of `decode_continuation` says.  Interrupts, rejects and resets have no
fairness.  `SessionSpec` assumes the same of an owner that feeds what arrives
when nothing is left to decode and otherwise makes the call the decoder's state
asks for; it gives the writer no further obligation, as all its bytes are in
flight from the start.  In `DrainSpec` the peer may also fall silent, and then `DrainEnds` says only that the
decoder holds nothing it could still decode.

## Proofs

Everything below is proved for every value of the constants: header and word
sizes, caps, thresholds, streams, chunkings, messages.

### The buffer (`ReadBufferProofs`)

* `TypeCorrect`, `CoherentAlways`, `InOrderAlways`, `SkipArmedAlways`,
  `MemoryBounded`, `NeverWedged` - `Spec => []P` for the invariants of the run
  `buffer`;
* `DeadUntilResetAlways` - its action property;
* `Refinement` - `Spec => ImplementsFrameStream`: each action is a step of the
  abstract stream or a stutter.

None of the properties is inductive by itself.  The invariant `Inv` adds to
them, for an unpoisoned buffer, that the unread window is no longer than the
cap (else `MemoryBound` fails at the next `feed`), that its length is
`fed - taken` (else `Coherent` says nothing about bytes behind it), and that a
skip in flight has emptied the window; for a poisoned one only that the storage
is bounded, which is all that survives a torn compaction.
The lemmas are about runs of consecutive offsets (`RunFacts`, `RunUnique`,
`PartFacts`), compaction (`CompactFacts`), and one per action (`...KeepsInv`);
they are stated for the action alone, so that the decoder's proofs use them too.

### The decoder (`MessageDecoderProofs`)

* `DecoderTypeCorrect`, `ResultIntactAlways`, `DrainInStepAlways`,
  `WithinCapsAlways`, `HandshakeOnceAlways` - the invariants of the run
  `decoder`, over all interrupts of `DecoderSpec`, the torn handshakes among them;
* `CallsMatchWireAlways` - its action property;
* `BufferUnderDecoder`, `DeadUnderDecoder` - the buffer keeps its invariants and
  stays dead until a reset when it is the decoder that drives it.

The inductive invariant `DecoderInv` is `Inv`, the decoder's own invariants, and
three facts none of them says: every frame of the current result lies in the
stream (`Typed`); only a request decoder waits for a handshake and only a
response decoder drains, poisoned or not (`Roles`, without which the reset of a
poisoned decoder could re-arm the wrong gate); and while a result is being drained
no skip is in flight and its last frame announced more (`Draining`, which for a
bypassed result does not follow from `ResultIntact`).  The row total of a result
is a fold over its frames; `RowsOfIsSum` and `RowSumAppend` prove by induction
that one more frame adds its rows.

The proof attempt refuted an earlier form of `WithinCaps`, which told a result of
several frames by the flag `continuation_expected`: an interrupted `decode` may
have set the flag for the next result already, behind a single frame of more than
`max_total_rows` rows that the cap does not apply to.  TLC found the counterexample once
such frames were enumerated.  The property now asks the frames, and the run keeps them.

### Values, texts and messages (`WireTypesProofs`, `TextScanProofs`, `MessageProofs`)

* `ViewIsBytes` (`WireTypesProofs`): the probes and chunks through which
  `decode_text` scans a memoryview find the terminator that a single scan finds;
  `TextAlwaysMatches` (`TextScanProofs`): both accept exactly the inputs
  that start with a padded text within the cap, and return it.
* `ValueRoundTrip` (`WireTypesProofs`): every value `encode_value` accepts, under
  every type, fills whole words and decodes, whatever follows it, to an
  equal value, with exactly its bytes used.  It rests on lemmas of
  their own interest: `Padding` (the padded size is the only multiple of a word in
  reach), `NumberRoundTrip` and `NumberRange` (little-endian numbers of any
  width), `Int64RoundTrip` (two's complement), `TextRoundTrip`, `BlobRoundTrip`.
* Lists: `ListRoundTrip` says that items which decode one by one, whatever
  follows them, decode as a list; `FlattenFacts` says where the
  bytes of each item lie.  From it come `ValuesRoundTrip` (the cells of a row, the values of a
  tuple) and `FieldsRoundTrip` (the fields of a layout).
* Bodies, one theorem for each shape: `FlatRoundTrip` and `LegacyRoundTrip`, `FailureRoundTrip` and
  `HalfRoundTrip` (a failure behind the start of a rows response is found and its
  message is the one that was written), `FilesRoundTrip`, `ServersRoundTrip`,
  `StatementRoundTrip` and `TaggedRoundTrip` (both counts, with and without
  parameters), `RowsBodyRoundTrip`.  The last one is about the row loop: pass
  `i` starts where row `i` lies (`RowsLoop`), the nibbles of a row header give
  its types back and never spell an end marker (`RowHeaderReads`, `Halves`),
  and the pass behind the last row meets the marker.
* Frames: `EveryMessage` joins the bodies (a body is whole words, and the class
  reads it back to the same message); `MessageReads` adds the header: type and
  schema pass the maps and ceilings of the reader, and the legacy form is
  chosen exactly where it was written.  `EncodedAgain`: what was decoded encodes to
  the same body under the same schema, for the kinds of which `Reencodes` says so.
* Error codes: for all codes, masking an extended SQLite code gives its
  primary code and never meets dqlite's own range (`ExtendedCodes`; the comment at
  `constants.py:208` claims it, and the proof gives the exact bound, primaries
  below 232), no dqlite code is taken for a SQLite one (`NamespaceCodes`), and
  all four leader-change codes are in the set after which the server has
  rolled back (`LeaderCodesRollBack`).  No run is needed: there is no state.

### The relay (`WireRelayProofs`)

* `RoundTripAlways`, `ReencodesAlways` - an intact frame is decoded by every
  reader it suits to the message that was encoded, and encodes to the same bytes
  again, for all messages of all classes.
* `HeaderObeyedAlways` - whatever happened to a frame and
  whoever reads it, what `decode_message` returns has the reader's direction and
  the type and schema of the header.
* `TornRefusedAlways` - no tear of a frame goes unnoticed.
* `CutsDetectedAlways` - no body that was cut short or has grown by whole words is taken
  for a complete one, but for the classes `CutsDetected` excepts, and rows are complete only
  at an end marker.
* `StableAlways` - what was decoded from any frame, damaged or read by the wrong
  reader, and encodes once more, decodes to the same message, from a frame of the same length
  where the class has one form.

The inductive invariant `RelayInv` has two parts.  `FrameInv` says that a frame
is as long as its size field claims until it is torn and never after
(`FramedSized` proves the first from `NumberRoundTrip`, and needs the encoder's
refusal of bodies that the size field cannot count); `CodecInv` says that an
intact frame is the one `encode_message` gives for the message, and that what was refused, resent or
kept is what the two functions say of it.  With it `RoundTrip` and `Reencodes` are consequences of `MessageReads`
and `EncodedAgain`.

The last two theorems are about decoders on *arbitrary* bytes, of which the round trips
say nothing.

`CutsDetected` rests on decoders being steady: a decoder that has found what it wants in
some bytes finds the same, and uses as many, in the same bytes with more behind them
(`TextSteady`, `ValueSteady`, `FieldsSteady`, ..., `LoopSteady`).  A class that asks for the whole body
to be used (`ExactClasses`) therefore cannot accept a body and the same body with more behind it
(`BodyExact`), and whichever of the two was sent is accepted.  The row loop needs an argument of its own, as a pass may
meet an end marker or a row: the passes of the two bodies agree until the shorter one's is at its
marker, and there the longer one's is too (`PassSteady`, `LoopSteady`), so the marker is not at its end.  `DamageInv` adds to `RelayInv`
where the frame came from: its bytes are bytes, its reader is the
addressee once it is damaged, and a frame that was cut or has grown is the frame of a
beginning of the message's body or of the body and more, under the same type and schema
(`CutFrame`, `GrownFrame`).

`Stable` rests on what decoders return: every decoder's value is one its encoder's
fields may hold and encodes to as many bytes as were used (`TextMade`, `ValueMade`, `FieldsMade`,
`FilesMade`, `StatementMade`, `RowsMade`, ...).  For the row loop `Gathered` is the loop invariant: the
rows so far, encoded again, are as long as what was read of the body.  So whatever `decode_message` accepts is a message
in the sense of `MessageTypes` (`MessageMade`), although nothing is known of who sent it, and the round trip of
`EveryMessage` and `MessageReads` applies to it.

Proving made definitions precise that TLC had no trouble with: arms of
`CASE` that overlapped, in the dispatch of bodies, schemas and values,
now exclude each other; and the round trip turned out to need
bounds that the code has and the model had not stated (`CapsAssumption`,
`FieldCapsAssumption`, the ceiling of `max_message_size`).

### The session (`WireSessionProofs`)

* `SessionIsDecoder`: a session is a behaviour of the decoder, so all that is proved of
  the decoder holds in it.
* `FramesAsSentAlways`: on every connection, whatever the script, the stream the decoder
  runs on consists of the frames of the messages the encoder accepted, each in its place,
  described as that message, within the caps of its result.
* `DeliveredInOrderAlways`, `ReaderNeverFails`: the owner gets the messages in the order they
  were written, and no frame an encoder wrote makes its reader fail, for every
  script, cap and chunking and over every interrupt and reconnect.

The first is a fact about bytes: `WritesWell` shows by induction over the script that
the bytes written so far are the frames of the messages accepted so far, `AtFrame` that
at the start of each of them the stream says what `MessageReads` says of its message, and `ScriptWalk` that
the stations of `FramesAsSent` are these starts.  `OnWireAlways` keeps that through
reconnects.  The other two follow from it with the invariant `SessionPart`: the
reader stands at the station of the messages it has delivered and its
decoder knows about the open result exactly what that station says.

### Assumptions

All are evaluated by TLC in the runs; nothing else is assumed.

* `SizesAssumption`, `InputsAssumption` of `ReadBuffer`: positive sizes, a natural
  threshold; size fields are naturals, chunks and raw reads are sizes.  The cap need
  not hold a header, except in `NoWedge`, which says so.
* `DecoderAssumption`, `FramesAssumption`: caps are positive or `None`, as the
  constructor demands; a frame has a natural number of rows, and column names are
  not Python's `None`.
* `WireSizesAssumption`, `TupleSizesAssumption`, `CodecAssumption`: widths and limits are sizes, a
  `uint32` fits a word and holds the largest parameter count, the parameter count of schema 0 fits a byte, the header holds its fields, versions are
  `uint64`, and the cap of a message is below what 32 bits count
  (`MAX_MESSAGE_SIZE_CEILING`, which both constructors enforce).
* `BlobsAssumption`, `CapsAssumption`, `FieldCapsAssumption`: the caps of `constants.py` fit the words that
  hold the counts and sizes they bound, and a column name is no longer than the
  message of a failure (the values in the code are far below 2^64).
* `NoneAssumption`, `ClassesAssumption`: `None` is neither a schema number nor the name of a class.
* `MessagesAssumption` of `WireRelay`: a message that encodes is well typed, as
  `MessageTypes` says.  The two kinds of message the library does not build itself
  (`HalfRows`, `Tagged`) are as their authors write them.
* `CodecAssumptions`, `ScriptsAssumption` of `WireSession`: the assumptions above for the codec's constants, a
  handshake of one word, and scripts of programs that keep to the protocol.
* `InputsAssumption` of `TextScan`: inputs are bytes, caps are naturals.

### Induction

The library's induction theorems take an operator as parameter, which the
installed provers cannot instantiate.  `NatSets` proves the same principle for a
*set* (`SetInduction`, from the well-foundedness of the naturals): the set of
numbers that have a property replaces the property.  `RecursionExists` gives the
functions a recursive definition promises.  All results about scans, numbers,
lists, the row loop, row totals and scripts rest on these two.

### Only model-checked

* Liveness: `EveryFrameSettled`, `DrainEnds`, `EverythingDelivered`.  Temporal
  reasoning under fairness and ENABLED are out of the prover's reach.

Every invariant and every action property of the runs that pass is proved.

## Consequences worth knowing

Not findings, as no documentation contradicts them:

* a drain given up on an error leaves the rest of the result on the wire and
  the buffer usable, and resynchronising to the caller (`codec.py:494`); leftover continuation frames then decode as top-level
  results (`codec.py:492`);
* `max_total_rows` is not applied to a result of a single frame;
* a chunk between one and two caps is accepted only when a skip absorbs the
  excess, and rejecting it behind a partial frame costs the connection;
* with `max_message_size` below the header size a buffer can never hold a
  header; it rejects or poisons on the first chunk that does not fit;
* a `ServersResponse` with a repeated node id encodes, and its bytes do not
  decode (`messages/responses.py:1130`); the same goes for a
  `RowsResponse` of `max_rows` rows, the decoder's cap being exclusive;
* a BOOLEAN other than 0 and 1 and a NULL cell that is not zero decode, and
  encode to other bytes (`types.py:453`, `types.py:567` say so), which is why
  `Reencodes` is stated for undamaged frames;
* a chunk that does not fit behind a partial frame poisons although every frame
  in it is legal (`buffer.py:134`): `EverythingDelivered` has to except it, and an
  owner that reads up to `max_message_size` at once can meet it;
* a LEADER response of a legacy peer decodes to node 0 with an address, which
  `encode_body` refuses by design (`messages/responses.py:229`); a proxy must
  call `encode_body_legacy`.  A decoder of the wrong version misreads the body
  silently, as `messages/responses.py:268` says;
* an ASSIGN request that lost its second word is a PROMOTE to VOTER
  (`messages/requests.py:560`);
* HEARTBEAT and CONNECT requests encode, and no decoder of the package knows
  them (`codec.py:66`);
* `messages/responses.py:403` speaks of "the strict header reserved bytes"; the
  header ignores them (`messages/base.py:28`), as `HeaderObeyed`'s run shows on
  altered frames that decode;
* the tag of a parameter is inferred again when a decoded request is encoded
  (`tuples.py:76`): an ISO8601 parameter of another client decodes to a `str`
  and encodes as TEXT, so of such frames only the round trip is stated.  The
  docstring at `messages/requests.py:241` claims identical bytes for what the two
  hints cover, the schema and the empty header.

Where code and documentation part, read from the code and not shown by a run:

* `except DecodeError` (`codec.py:492`) gives a drain up without poisoning also for a
  malformed FAILURE, which `exceptions.py:77` and `codec.py:415` say poisons;
* after an exception under the handler of `read_bytes`, `decode_handshake` takes its
  flags back for a retry (`codec.py:650`), but the buffer is poisoned; after one
  at `buffer.py:359` the retry reads the next message as a version, which
  `tests/test_signal_safety.py:595` rules out.  Both outcomes are in the
  table of handshakes above;
* `exceptions.py:64` offers `reset()` in the middle of a result, to proceed.  On
  the same connection the rest of the result is still to come, and
  `decode` returns it as messages of their own;
* an exception between `codec.py:301` and the stores of `codec.py:312`-`319` leaves an
  unpoisoned decoder whose buffer is fresh and whose continuation or handshake state
  is the old connection's; `codec.py:300` promises a fresh state.

## Not modelled, and why

* `reset` of the decoder in two steps, and in place in the middle of a result: the
  last two points above;

* use from several threads and the torn-header check for free-threaded builds:
  outside the contract of the classes;
* an exception inside a handler, also one that a decode error has entered
  (`codec.py:376`, `codec.py:495`);
* lines where only a return value can be lost, except in `decode_handshake`;
* in `MessageDecoder`, the bytes of bodies: it keeps what its control depends
  on (whether a body decodes and what it announces); `WireSession` closes the gap
  for what the encoder writes, the malformed frames of `MessageDecoder` are
  assumed;
* in `WireSession`, the torn handshakes and the places of the `...Windows`
  modules, see there; damage on the wire is left to `WireRelay`;
* `DescribeRequest.decode_body(strict=False)`, which no decoder calls, and
  accessors that convert a field (`heartbeat_timeout_seconds`,
  `last_insert_id_signed`);
* arguments of the wrong Python type, which constructors reject;
* the `count` argument of `decode_params_tuple`, which no caller in the package
  passes;
* the remaining constants, exception classes, log truncation, exports: no
  behaviour that changes or depends on state.

## Plan

1. (done) `FrameStream`, `ReadBuffer`, refinement, proofs.
2. (done) `MessageDecoder` over the buffer; runs for both roles and the drain.
3. (done) Wire types and tuples; bodies of rows, failures, files, servers and
   statements; the relay and text runs.
4. (done) The remaining bodies with their legacy forms, the header,
   `MessageEncoder` and `decode_message`; whole frames in the relay; encoder and
   decoder composed in the session; the error codes.
5. (done) Proofs about the decoder over its buffer, and about the session over
   the decoder.
6. (done) The encodings of `types.py`, the text scan, the header and torn frames.
7. (done) Lists, layouts of fields, parameter tuples, row headers, rows and all
   bodies; with them `RoundTrip`, `Reencodes` and `FramesAsSent`, and the session
   without hypothesis.
8. (done) What decoders make of arbitrary bytes: `CutsDetected` and `Stable`.
9. (done) Every place of an exception in `decode_handshake`, and the unguarded places
   of the buffer's `reset` and `feed`.
10. Open: the unguarded place of the decoder's `reset`.
