------------------------ MODULE MessageDecoderProofs ------------------------
(***************************************************************************)
(* Proofs about MessageDecoder, for every stream, cap, chunking and set of *)
(* supported versions, on top of the invariant of its buffer.              *)
(***************************************************************************)
EXTENDS MessageDecoder, ReadBufferProofs, NatSets

(* The inductive invariant.  The properties checked by TLC are not          *)
(* inductive by themselves: that a drain never meets a skip in flight, that *)
(* the last frame of a bypassed result announced more, and that a response  *)
(* decoder keeps its handshake even while poisoned, is what they rest on.   *)

\* The types, and a result whose frames all lie inside the stream.
Typed ==
  /\ stream \in Streams
  /\ is_request \in BOOLEAN
  /\ version \in SUPPORTED_VERSIONS \cup {None}
  /\ handshake_done \in BOOLEAN
  /\ continuation_expected \in BOOLEAN
  /\ frame_count \in Nat
  /\ total_rows \in Nat
  /\ result \in [frames : Seq(0..(StreamLen - 1)), end : Ends]
  /\ shaken \in Nat \cup {None}

\* Only a request decoder waits for a handshake and only a response decoder
\* drains, poisoned or not.
Roles ==
  /\ ~is_request => handshake_done
  /\ is_request => ~continuation_expected

\* A drain in progress follows a frame that announced more and is not in the
\* middle of a skip.
Draining ==
  ~is_poisoned /\ continuation_expected =>
    /\ skip_remaining = 0
    /\ stream[LastFrame].more

\* What the decoder adds to the invariant of its buffer.
DecoderPart ==
  /\ Typed
  /\ Roles
  /\ Draining
  /\ HandshakeOnce
  /\ ResultIntact
  /\ DrainInStep
  /\ WithinCaps

DecoderInv == Inv /\ DecoderPart

-----------------------------------------------------------------------------
(* The rows of a result *)

\* f[i] is the number of rows of the first i of the frames.
IsSum(f, s, frames) ==
  f = [i \in 0..Len(frames) |-> IF i = 0 THEN 0 ELSE f[i - 1] + s[frames[i]].rows]

RowSum(s, frames) == (CHOOSE f : IsSum(f, s, frames))[Len(frames)]

FrameOffsets == Seq(0..(StreamLen - 1))

\* Offsets of frames lead to numbers of rows.
LEMMA RowsType ==
  ASSUME NEW s \in Streams, NEW frames \in FrameOffsets
  PROVE  /\ Len(frames) \in Nat
         /\ \A i \in 1..Len(frames) : frames[i] \in 0..(StreamLen - 1) /\ s[frames[i]].rows \in Nat
<1>1. Len(frames) \in Nat /\ \A i \in 1..Len(frames) : frames[i] \in 0..(StreamLen - 1)
  BY LenProperties DEF FrameOffsets
<1> QED
  BY <1>1, FramesAssumption

\* No two functions are the running sum of the same frames.
LEMMA SumUnique ==
  ASSUME NEW s \in Streams, NEW frames \in FrameOffsets, NEW f, NEW g,
         IsSum(f, s, frames), IsSum(g, s, frames)
  PROVE  f = g
<1> DEFINE n == Len(frames)
           S == {i \in Nat : i <= n => f[i] = g[i]}
<1>0. n \in Nat
  BY RowsType
<1>1. /\ \A i \in 0..n : f[i] = IF i = 0 THEN 0 ELSE f[i - 1] + s[frames[i]].rows
      /\ \A i \in 0..n : g[i] = IF i = 0 THEN 0 ELSE g[i - 1] + s[frames[i]].rows
  BY DEF IsSum
<1>2. 0 \in S
  BY <1>0, <1>1
<1>3. ASSUME NEW i \in Nat, i \in S PROVE i + 1 \in S
  <2> SUFFICES ASSUME i + 1 <= n PROVE f[i + 1] = g[i + 1]
    OBVIOUS
  <2>1. i + 1 \in 0..n /\ i + 1 # 0 /\ (i + 1) - 1 = i /\ i <= n
    BY <1>0
  <2>2. f[i] = g[i]
    BY <1>3, <2>1
  <2>3. /\ f[i + 1] = f[i] + s[frames[i + 1]].rows
        /\ g[i + 1] = g[i] + s[frames[i + 1]].rows
    BY <1>1, <2>1
  <2> QED
    BY <2>2, <2>3
<1>4. \A i \in Nat : i \in S
  <2> HIDE DEF S
  <2> QED
    BY <1>2, <1>3, SetInduction
<1>5. \A i \in 0..n : f[i] = g[i]
  BY <1>0, <1>4
<1>6. f = [i \in 0..n |-> f[i]] /\ g = [i \in 0..n |-> g[i]]
  BY DEF IsSum
<1> QED
  BY <1>5, <1>6

\* Every result has a running sum.
LEMMA SumExists ==
  ASSUME NEW s \in Streams, NEW frames \in FrameOffsets
  PROVE  \E f \in [0..Len(frames) -> Nat] : IsSum(f, s, frames)
<1> DEFINE n == Len(frames)
           At(f, i) == f[i] = IF i = 0 THEN 0 ELSE f[i - 1] + s[frames[i]].rows
           Partial(k) == \E f \in [0..k -> Nat] : \A i \in 0..k : At(f, i)
           S == {k \in Nat : k <= n => Partial(k)}
<1> HIDE DEF Partial
<1>0. n \in Nat /\ \A i \in 1..n : s[frames[i]].rows \in Nat
  BY RowsType
<1>1. 0 \in S
  <2>1. [i \in 0..0 |-> 0] \in [0..0 -> Nat]
    OBVIOUS
  <2>2. \A i \in 0..0 : At([j \in 0..0 |-> 0], i)
    OBVIOUS
  <2> QED
    BY <2>1, <2>2 DEF Partial
<1>2. ASSUME NEW k \in Nat, k \in S PROVE k + 1 \in S
  <2>1. ASSUME k + 1 <= n PROVE Partial(k + 1)
    <3>0. Partial(k)
      BY <1>2, <1>0, <2>1
    <3>1. PICK f \in [0..k -> Nat] : \A i \in 0..k : At(f, i)
      BY <3>0 DEF Partial
    <3> DEFINE g == [i \in 0..(k + 1) |-> IF i = k + 1 THEN f[k] + s[frames[k + 1]].rows ELSE f[i]]
    <3>2. f[k] \in Nat /\ s[frames[k + 1]].rows \in Nat /\ k \in 0..k
      BY <1>0, <2>1
    <3>3. \A i \in 0..(k + 1) : i = k + 1 \/ i \in 0..k
      OBVIOUS
    <3>4. g \in [0..(k + 1) -> Nat]
      BY <3>2, <3>3
    <3>5. ASSUME NEW i \in 0..(k + 1) PROVE At(g, i)
      <4>1. CASE i = k + 1
        <5>1. k \in 0..(k + 1) /\ k # k + 1 /\ i # 0 /\ i - 1 = k
          BY <4>1
        <5>2. g[k] = f[k] /\ g[i] = f[k] + s[frames[i]].rows
          BY <4>1, <5>1
        <5> QED
          BY <5>1, <5>2
      <4>2. CASE i = 0
        BY <4>2, <3>1
      <4>3. CASE i \in 1..k
        <5>1. i \in 0..k /\ i # 0 /\ i - 1 \in 0..(k + 1) /\ i - 1 # k + 1 /\ i # k + 1
          BY <4>3
        <5>2. g[i] = f[i] /\ g[i - 1] = f[i - 1]
          BY <5>1
        <5>3. f[i] = f[i - 1] + s[frames[i]].rows
          BY <3>1, <5>1
        <5> QED
          BY <5>1, <5>2, <5>3
      <4> QED
        BY <4>1, <4>2, <4>3
    <3> HIDE DEF g, At
    <3> QED
      BY <3>4, <3>5 DEF Partial
  <2> QED
    BY <2>1
<1>3. n \in S
  <2> HIDE DEF S
  <2> QED
    BY <1>0, <1>1, <1>2, SetInduction
<1>4. PICK f \in [0..n -> Nat] : \A i \in 0..n : At(f, i)
  BY <1>0, <1>3 DEF Partial
<1>5. f = [i \in 0..n |-> IF i = 0 THEN 0 ELSE f[i - 1] + s[frames[i]].rows]
  BY <1>4
<1> QED
  BY <1>5 DEF IsSum

\* The running sum the definition of RowSum names.
LEMMA SumChosen ==
  ASSUME NEW s \in Streams, NEW frames \in FrameOffsets, NEW f, IsSum(f, s, frames)
  PROVE  RowSum(s, frames) = f[Len(frames)] /\ RowSum(s, frames) \in Nat
<1> DEFINE c == CHOOSE g : IsSum(g, s, frames)
<1>1. IsSum(c, s, frames)
  OBVIOUS
<1>2. PICK h \in [0..Len(frames) -> Nat] : IsSum(h, s, frames)
  BY SumExists
<1> HIDE DEF c
<1>3. c = f /\ c = h
  BY <1>1, <1>2, SumUnique
<1>4. h[Len(frames)] \in Nat
  BY <1>2, RowsType
<1>5. RowSum(s, frames) = c[Len(frames)]
  BY DEF RowSum, c
<1> QED
  BY <1>3, <1>4, <1>5

\* A result without frames has no rows, one of a single frame has its rows.
LEMMA RowSumOne ==
  ASSUME NEW s \in Streams, NEW o \in 0..(StreamLen - 1)
  PROVE  RowSum(s, <<o>>) = s[o].rows
<1>1. <<o>> \in FrameOffsets /\ Len(<<o>>) = 1 /\ <<o>>[1] = o
  BY DEF FrameOffsets
<1> DEFINE f == [i \in 0..1 |-> IF i = 0 THEN 0 ELSE s[o].rows]
<1>2. s[o].rows \in Nat
  BY FramesAssumption
<1>3. IsSum(f, s, <<o>>)
  <2>1. \A i \in 0..1 : f[i] = IF i = 0 THEN 0 ELSE f[i - 1] + s[<<o>>[i]].rows
    BY <1>1, <1>2
  <2> QED
    BY <1>1, <2>1 DEF IsSum
<1>4. f[Len(<<o>>)] = s[o].rows
  BY <1>1
<1> HIDE DEF f
<1> QED
  BY <1>1, <1>3, <1>4, SumChosen

\* One more frame adds its rows.
LEMMA RowSumAppend ==
  ASSUME NEW s \in Streams, NEW frames \in FrameOffsets, NEW o \in 0..(StreamLen - 1)
  PROVE  /\ Append(frames, o) \in FrameOffsets
         /\ RowSum(s, frames) \in Nat
         /\ RowSum(s, Append(frames, o)) = RowSum(s, frames) + s[o].rows
<1> DEFINE n == Len(frames)
           more == Append(frames, o)
<1>0. /\ n \in Nat /\ more \in FrameOffsets /\ Len(more) = n + 1
      /\ \A i \in 1..n : more[i] = frames[i]
      /\ more[n + 1] = o
  BY RowsType, AppendProperties DEF FrameOffsets
<1>1. PICK f \in [0..n -> Nat] : IsSum(f, s, frames)
  BY SumExists
<1>2. RowSum(s, frames) = f[n] /\ RowSum(s, frames) \in Nat
  BY <1>1, SumChosen
<1> DEFINE g == [i \in 0..(n + 1) |-> IF i = n + 1 THEN f[n] + s[o].rows ELSE f[i]]
<1>3. ASSUME NEW i \in 0..(n + 1)
      PROVE  g[i] = IF i = 0 THEN 0 ELSE g[i - 1] + s[more[i]].rows
  <2>0. f = [j \in 0..n |-> IF j = 0 THEN 0 ELSE f[j - 1] + s[frames[j]].rows]
    BY <1>1 DEF IsSum
  <2>1. CASE i = n + 1
    <3>1. i # 0 /\ i - 1 = n /\ n \in 0..(n + 1) /\ n # n + 1 /\ more[i] = o
      BY <1>0, <2>1
    <3>2. g[i] = f[n] + s[o].rows /\ g[n] = f[n]
      BY <2>1, <3>1, Zenon
    <3> QED
      BY <3>1, <3>2
  <2>2. CASE i = 0
    <3>1. f[0] = 0
      BY <1>0, <2>0
    <3> QED
      BY <1>0, <2>2, <3>1
  <2>3. CASE i \in 1..n
    <3>1. /\ i \in 0..n /\ i # 0 /\ i # n + 1
          /\ i - 1 \in 0..(n + 1) /\ i - 1 # n + 1 /\ more[i] = frames[i]
      BY <1>0, <2>3
    <3>2. f[i] = f[i - 1] + s[frames[i]].rows
      BY <2>0, <3>1
    <3>3. g[i] = f[i] /\ g[i - 1] = f[i - 1]
      BY <3>1
    <3> QED
      BY <3>1, <3>2, <3>3
  <2> QED
    BY <1>0, <2>1, <2>2, <2>3
<1>4. IsSum(g, s, more)
  BY <1>0, <1>3 DEF IsSum
<1>5. g[n + 1] = f[n] + s[o].rows
  BY <1>0
<1> HIDE DEF g, more
<1>6. RowSum(s, more) = g[n + 1]
  BY <1>0, <1>4, SumChosen
<1> QED
  BY <1>0, <1>2, <1>5, <1>6 DEF more

\* RowsOf of the current result, before and after a step.
LEMMA RowsOfIsSum ==
  /\ RowsOf(result.frames) = RowSum(stream, result.frames)
  /\ RowsOf(result.frames)' = RowSum(stream', result.frames')
  BY DEF RowsOf, RowSum, IsSum

-----------------------------------------------------------------------------
(* The buffer under the decoder *)

\* Every call on the decoder preserves the invariant of its buffer, also the
\* ones that consume a frame and poison in one go.
LEMMA DecoderKeepsInv ==
  ASSUME Inv, [DecoderNext]_vars
  PROVE  Inv'
<1>0. Chunks \subseteq Nat /\ HANDSHAKE_SIZE \in Nat
  BY InputsAssumption, DecoderAssumption
<1>1. ASSUME Readable, Take(total_size, "frame"), poisoned' \in Causes,
             UNCHANGED <<skip_remaining, poison_after_skip, stream, fed>>
      PROVE  Inv'
  BY <1>1, ReadableFacts, TakeKeepsInv
<1>2. ASSUME read_message_interrupted PROVE Inv'
  BY <1>2, NextInv DEF Next, Interrupted
<1>3. poisoned \in Causes /\ PoisonedBy("decode") \in Causes /\ PoisonedBy("interrupt") \in Causes
  BY DEF Inv, TypeOK, PoisonedBy, Causes
<1>4. ASSUME NEW n \in Chunks, decoder_feed(n) PROVE Inv'
  BY <1>4, NextInv DEF decoder_feed, Next
<1>5. ASSUME NEW n \in Chunks, decoder_feed_interrupted(n) PROVE Inv'
  BY <1>5, NextInv DEF decoder_feed_interrupted, Next, Interrupted
<1>6. CASE decoder_skip_message
  BY <1>6, NextInv DEF decoder_skip_message, Next, Interrupted
<1>7. CASE take_frame \/ take_frame_interrupted
  BY <1>7, <1>2, NextInv DEF take_frame, take_frame_interrupted, Next
<1>8. CASE decode \/ decode_failed
  BY <1>1, <1>3, <1>8 DEF decode, decode_failed, Decodable
<1>9. CASE decode_interrupted
  BY <1>1, <1>2, <1>3, <1>9 DEF decode_interrupted, Decodable, PoisonedByInterrupt
<1>10. CASE decode_continuation_rows \/ decode_continuation_end \/ decode_continuation_error
  BY <1>1, <1>3, <1>10 DEF decode_continuation_rows, decode_continuation_end,
                           decode_continuation_error, Drainable
<1>11. CASE decode_continuation_oversized
  <2>1. poison("decode")
    BY <1>11 DEF decode_continuation_oversized, poison
  <2> QED
    BY <2>1, NextInv DEF Next
<1>12. CASE decode_continuation_interrupted
  BY <1>1, <1>2, <1>3, <1>12 DEF decode_continuation_interrupted, Drainable,
                                 PoisonedByInterrupt
<1>13. ASSUME HandshakeReady, Take(HANDSHAKE_SIZE, "raw"),
              UNCHANGED <<skip_remaining, poisoned, poison_after_skip, stream, fed>>
       PROVE  Inv'
  <2>1. ~is_poisoned /\ HANDSHAKE_SIZE <= available
    BY <1>0, <1>13, Basics DEF HandshakeReady
  <2> QED
    BY <1>0, <1>3, <1>13, <2>1, TakeKeepsInv
<1>14. ASSUME read_bytes_interrupted(HANDSHAKE_SIZE) PROVE Inv'
  <2>1. /\ ~is_poisoned /\ HANDSHAKE_SIZE <= available /\ TakeInterrupted(HANDSHAKE_SIZE)
        /\ UNCHANGED <<skip_remaining, poison_after_skip>> /\ UNCHANGED wire_vars
    BY <1>0, <1>14, Basics DEF read_bytes_interrupted
  <2> QED
    BY <1>0, <2>1, TakeInterruptedKeepsInv
<1>15. ASSUME UNCHANGED rb_vars PROVE Inv'
  BY <1>15, NextInv
<1>16. CASE decode_handshake \/ decode_handshake_interrupted \/ decode_handshake_torn
  BY <1>13, <1>14, <1>15, <1>16 DEF decode_handshake, decode_handshake_interrupted,
     decode_handshake_torn, CompleteHandshake
<1>17. CASE reset
  BY <1>17, NextInv DEF reset, Next
<1>18. CASE UNCHANGED vars
  BY <1>18, NextInv DEF vars, rb_vars
<1> QED
  BY <1>4, <1>5, <1>6, <1>7, <1>8, <1>9, <1>10, <1>11, <1>12, <1>16, <1>17,
     <1>18 DEF DecoderNext, DecoderInterrupted, decode_continuation

-----------------------------------------------------------------------------
(* Steps that leave the decoder's own state alone *)

\* A call passed to the buffer may only touch the wire position while no result
\* is being drained.
LEMMA QuietStep ==
  ASSUME DecoderInv, UNCHANGED decoder_vars, stream' = stream, ~is_poisoned,
         is_poisoned' \/ ~continuation_expected \/ (taken' = taken /\ skip_remaining' = 0)
  PROVE  DecoderPart'
<1>1. /\ UNCHANGED <<is_request, version, handshake_done>>
      /\ UNCHANGED <<continuation_expected, frame_count, total_rows, columns>>
      /\ UNCHANGED <<result, shaken, got>>
  BY DEF decoder_vars
<1>2. Typed' /\ Roles'
  BY <1>1 DEF DecoderInv, DecoderPart, Typed, Roles
<1>3. LastFrame' = LastFrame /\ \A o : Claimed(o)' = Claimed(o)
  BY <1>1 DEF LastFrame, Claimed
<1>4. Draining'
  BY <1>1, <1>3 DEF DecoderInv, DecoderPart, Draining
<1>5. HandshakeOnce'
  BY <1>1 DEF DecoderInv, DecoderPart, HandshakeOnce
<1>6. ResultIntact'
  BY <1>1, <1>3 DEF DecoderInv, DecoderPart, ResultIntact
<1>7. RowsOf(result.frames)' = RowsOf(result.frames)
  BY <1>1, RowsOfIsSum
<1>8. DrainInStep'
  BY <1>1, <1>3, <1>7 DEF DecoderInv, DecoderPart, DrainInStep
<1>9. WithinCaps'
  BY <1>1, <1>7 DEF DecoderInv, DecoderPart, WithinCaps, Within
<1> QED
  BY <1>2, <1>4, <1>5, <1>6, <1>8, <1>9 DEF DecoderPart

\* A step that poisons and leaves the result as it was owes the types and the
\* roles only: nothing else is promised of a poisoned decoder.
LEMMA PoisonedStep ==
  ASSUME DecoderInv, is_poisoned', Typed', Roles',
         UNCHANGED <<stream, result, shaken>>, handshake_done' => version' # None
  PROVE  DecoderPart'
<1>1. LastFrame' = LastFrame /\ \A o : Claimed(o)' = Claimed(o)
  BY DEF LastFrame, Claimed
<1>2. RowsOf(result.frames)' = RowsOf(result.frames)
  BY RowsOfIsSum
<1>3. Draining' /\ DrainInStep'
  BY DEF Draining, DrainInStep
<1>4. HandshakeOnce'
  BY DEF DecoderInv, DecoderPart, HandshakeOnce
<1>5. ResultIntact'
  BY <1>1 DEF DecoderInv, DecoderPart, ResultIntact
<1>6. WithinCaps'
  BY <1>2 DEF DecoderInv, DecoderPart, WithinCaps, Within
<1> QED
  BY <1>3, <1>4, <1>5, <1>6 DEF DecoderPart

\* Finalising a drain clears the continuation state and nothing else, since
\* only a response decoder drains.
LEMMA FinalizeFacts ==
  ASSUME DecoderInv, continuation_expected, Finalize
  PROVE  /\ UNCHANGED <<is_request, handshake_done, version>>
         /\ ~is_request
         /\ continuation_expected' = FALSE
         /\ frame_count' = 0 /\ total_rows' = 0 /\ columns' = None
  BY DEF DecoderInv, DecoderPart, Roles, Finalize

\* A drain that is given up or ended by a frame that carries no rows.
LEMMA StoppedStep ==
  ASSUME DecoderInv, ~is_poisoned, continuation_expected, Finalize,
         UNCHANGED <<stream, shaken>>,
         NEW e \in {"empty", "failure", "error"}, result' = [result EXCEPT !.end = e]
  PROVE  DecoderPart'
<1>1. /\ UNCHANGED <<is_request, handshake_done, version>>
      /\ ~is_request
      /\ continuation_expected' = FALSE
      /\ frame_count' = 0 /\ total_rows' = 0 /\ columns' = None
  BY FinalizeFacts
<1>2. result \in [frames : Seq(0..(StreamLen - 1)), end : Ends]
  BY DEF DecoderInv, DecoderPart, Typed
<1>3. /\ result' \in [frames : Seq(0..(StreamLen - 1)), end : Ends]
      /\ result'.frames = result.frames /\ result'.end = e
  BY <1>2 DEF Ends
<1>4. Typed' /\ Roles'
  BY <1>1, <1>3 DEF DecoderInv, DecoderPart, Typed, Roles
<1>5. Draining' /\ ResultIntact' /\ DrainInStep'
  BY <1>1, <1>3 DEF Draining, ResultIntact, DrainInStep
<1>6. HandshakeOnce'
  BY <1>1 DEF DecoderInv, DecoderPart, HandshakeOnce
<1>7. RowsOf(result.frames)' = RowsOf(result.frames)
  BY <1>3, RowsOfIsSum
<1>8. WithinCaps'
  BY <1>3, <1>7 DEF DecoderInv, DecoderPart, WithinCaps, Within
<1> QED
  BY <1>4, <1>5, <1>6, <1>8 DEF DecoderPart

\* A frame of the decoder at the read position: where it starts, how it is
\* described and what taking it does to the wire position.
LEMMA FrameFacts ==
  ASSUME DecoderInv, Readable, Take(total_size, "frame")
  PROVE  /\ ~is_poisoned /\ skip_remaining = 0
         /\ head = stream[taken]
         /\ taken \in 0..(StreamLen - 1)
         /\ Claimed(taken) \in Nat
         /\ taken' = taken + Claimed(taken)
         /\ head.rows \in Nat /\ head.cols # None
<1>1. /\ ~is_poisoned /\ skip_remaining = 0 /\ taken \in 0..(StreamLen - 1)
      /\ data[pos + 1] = taken
      /\ total_size \in Nat
      /\ total_size = HEADER_SIZE + stream[taken].words * WORD_SIZE
  BY ReadableFacts DEF DecoderInv
<1>2. head = stream[taken] /\ Claimed(taken) = total_size
  BY <1>1 DEF head, Claimed
<1>3. stream[taken].rows \in Nat /\ stream[taken].cols # None
  BY <1>1, FramesAssumption DEF DecoderInv, DecoderPart, Typed
<1> QED
  BY <1>1, <1>2, <1>3 DEF Take

-----------------------------------------------------------------------------
(* The calls that change the decoder's state *)

\* A raw frame taken out from under a result leaves a gap and is noted.
LEMMA TakeFrameStep ==
  ASSUME DecoderInv, take_frame
  PROVE  DecoderPart'
<1>1. /\ Readable /\ Take(total_size, "frame")
      /\ UNCHANGED <<skip_remaining, poisoned, poison_after_skip, stream, fed>>
      /\ UNCHANGED <<is_request, version, handshake_done, continuation_expected>>
      /\ UNCHANGED <<frame_count, total_rows, columns, shaken, got>>
      /\ result' = IF continuation_expected THEN [result EXCEPT !.end = "bypassed"] ELSE result
  BY DEF take_frame, read_message
<1>2. /\ ~is_poisoned /\ skip_remaining = 0 /\ Claimed(taken) \in Nat
      /\ taken \in Nat /\ taken' = taken + Claimed(taken)
  BY <1>1, FrameFacts
<1>3. CASE ~continuation_expected
  <2>1. UNCHANGED decoder_vars
    BY <1>1, <1>3 DEF decoder_vars
  <2> QED
    BY <1>1, <1>2, <1>3, <2>1, QuietStep
<1>4. CASE continuation_expected
  <2>1. result \in [frames : Seq(0..(StreamLen - 1)), end : Ends]
    BY DEF DecoderInv, DecoderPart, Typed
  <2>2. /\ result' \in [frames : Seq(0..(StreamLen - 1)), end : Ends]
        /\ result'.frames = result.frames /\ result'.end = "bypassed"
    BY <1>1, <1>4, <2>1 DEF Ends
  <2>3. LastFrame' = LastFrame /\ \A o : Claimed(o)' = Claimed(o)
    BY <1>1, <2>2 DEF LastFrame, Claimed
  <2>4. RowsOf(result.frames)' = RowsOf(result.frames)
    BY <1>1, <2>2, RowsOfIsSum
  <2>5. /\ result.end \in {"none", "bypassed"} /\ result.frames # <<>>
        /\ taken >= LastFrame + Claimed(LastFrame)
        /\ frame_count = Len(result.frames)
        /\ total_rows = RowsOf(result.frames)
        /\ columns = stream[LastFrame].cols
    BY <1>2, <1>4 DEF DecoderInv, DecoderPart, DrainInStep
  <2>6. LastFrame \in Nat /\ Claimed(LastFrame) \in Nat
    <3>1. Len(result.frames) \in 1..Len(result.frames)
      BY <2>1, <2>5, EmptySeq, LenProperties
    <3>2. LastFrame \in 0..(StreamLen - 1)
      BY <2>1, <3>1, LenProperties DEF LastFrame
    <3>3. stream[LastFrame].words \in Nat
      BY <3>2 DEF DecoderInv, Inv, TypeOK
    <3>4. stream[LastFrame].words * WORD_SIZE \in Nat
      BY <3>3, SizesAssumption
    <3> QED
      BY <3>2, <3>4, SizesAssumption DEF Claimed
  <2>7. taken' >= LastFrame + Claimed(LastFrame)
    BY <1>2, <2>5, <2>6
  <2>8. Typed' /\ Roles'
    BY <1>1, <2>2 DEF DecoderInv, DecoderPart, Typed, Roles
  <2>9. Draining' /\ HandshakeOnce'
    BY <1>1, <1>2, <2>3 DEF DecoderInv, DecoderPart, Draining, HandshakeOnce, is_poisoned
  <2>10. ResultIntact'
    BY <1>1, <2>2, <2>3, <2>5 DEF DecoderInv, DecoderPart, ResultIntact
  <2>11. DrainInStep'
    BY <1>1, <1>4, <2>2, <2>3, <2>4, <2>5, <2>7 DEF DrainInStep
  <2>12. WithinCaps'
    BY <1>1, <2>2, <2>4 DEF DecoderInv, DecoderPart, WithinCaps, Within
  <2> QED
    BY <2>8, <2>9, <2>10, <2>11, <2>12 DEF DecoderPart
<1> QED
  BY <1>3, <1>4

\* A first frame: it opens a result, is a whole one, or carries no rows.
LEMMA DecodeStep ==
  ASSUME DecoderInv, decode
  PROVE  DecoderPart'
<1>1. /\ Readable /\ ~continuation_expected /\ handshake_done
      /\ Accepted(head)
      /\ Take(total_size, "frame")
      /\ UNCHANGED <<skip_remaining, poisoned, poison_after_skip, stream, fed>>
      /\ UNCHANGED <<is_request, version, handshake_done, shaken>>
      /\ IF Announces(head) THEN BeginContinuation(head) ELSE UNCHANGED continuation_vars
      /\ result' = IF head.type = "ROWS" /\ ~is_request
                   THEN [frames |-> <<taken>>, end |-> IF head.more THEN "none" ELSE "rows"]
                   ELSE NoResult
      /\ got'.ret = "message"
  BY DEF decode, Decodable, handshake_vars
<1>2. /\ ~is_poisoned /\ skip_remaining = 0 /\ head = stream[taken]
      /\ taken \in 0..(StreamLen - 1) /\ taken \in Nat /\ Claimed(taken) \in Nat
      /\ taken' = taken + Claimed(taken)
      /\ head.rows \in Nat
  BY <1>1, FrameFacts
<1>3. /\ frame_count = 0 /\ total_rows = 0 /\ columns = None
  BY <1>1, <1>2 DEF DecoderInv, DecoderPart, DrainInStep
<1>4. <<>> \in Seq(0..(StreamLen - 1)) /\ Len(<<>>) = 0
  BY EmptySeq
<1>5. <<taken>> \in Seq(0..(StreamLen - 1)) /\ Len(<<taken>>) = 1 /\ <<taken>>[1] = taken
  BY <1>2
<1>6. HandshakeOnce'
  BY <1>1 DEF DecoderInv, DecoderPart, HandshakeOnce, is_poisoned
<1>7. \A o : Claimed(o)' = Claimed(o)
  BY <1>1 DEF Claimed
<1>8. max_continuation_frames = None \/ max_continuation_frames \in Nat \ {0}
  BY DecoderAssumption
<1>9. CASE head.type = "ROWS" /\ ~is_request
  <2>1. /\ result'.frames = <<taken>>
        /\ result'.end = IF head.more THEN "none" ELSE "rows"
        /\ result' \in [frames : Seq(0..(StreamLen - 1)), end : Ends]
    BY <1>1, <1>5, <1>9 DEF Ends
  <2>2. LastFrame' = taken
    BY <1>5, <2>1 DEF LastFrame
  <2>3. RowsOf(result.frames)' = head.rows
    BY <1>1, <1>2, <2>1, RowsOfIsSum, RowSumOne DEF DecoderInv, DecoderPart, Typed
  <2>4. ResultIntact'
    <3>1. 1..(Len(result'.frames) - 1) = {}
      BY <1>5, <2>1
    <3> QED
      BY <1>1, <1>2, <2>1, <2>2, <3>1 DEF ResultIntact
  <2>5. WithinCaps'
    <3>1. Within(1, max_continuation_frames)
      BY <1>8 DEF Within
    <3>2. head.more => Within(head.rows, max_total_rows)
      BY <1>1, <1>9 DEF Accepted, Announces
    <3>3. Len(result'.frames) = 1 /\ result'.frames[1] = taken
      BY <1>5, <2>1
    <3>4. ~(Len(result'.frames) > 1)
      BY <3>3
    <3>5. stream'[result'.frames[1]] = head
      BY <1>1, <1>2, <3>3
    <3> QED
      BY <2>3, <3>1, <3>2, <3>3, <3>4, <3>5 DEF WithinCaps
  <2>6. CASE head.more
    <3>1. /\ continuation_expected' = TRUE /\ frame_count' = 1
          /\ total_rows' = head.rows /\ columns' = head.cols
      BY <1>1, <1>9, <2>6 DEF Announces, BeginContinuation
    <3>2. Typed' /\ Roles'
      BY <1>1, <1>2, <1>9, <2>1, <3>1 DEF DecoderInv, DecoderPart, Typed, Roles
    <3>3. Draining'
      BY <1>1, <1>2, <2>2, <2>6 DEF Draining
    <3>4. DrainInStep'
      <4>1. taken' >= taken + Claimed(taken) /\ <<taken>> # <<>>
        BY <1>2, <1>4, <1>5
      <4> QED
        BY <1>1, <1>2, <1>5, <1>7, <2>1, <2>2, <2>3, <2>6, <3>1, <4>1 DEF DrainInStep
    <3> QED
      BY <1>6, <2>4, <2>5, <3>2, <3>3, <3>4 DEF DecoderPart
  <2>7. CASE ~head.more
    <3>1. UNCHANGED <<continuation_expected, frame_count, total_rows, columns>>
      BY <1>1, <2>7 DEF Announces, continuation_vars
    <3>2. Typed' /\ Roles'
      BY <1>1, <2>1, <3>1 DEF DecoderInv, DecoderPart, Typed, Roles
    <3>3. Draining' /\ DrainInStep'
      BY <1>1, <1>3, <2>1, <2>7, <3>1 DEF Draining, DrainInStep
    <3> QED
      BY <1>6, <2>4, <2>5, <3>2, <3>3 DEF DecoderPart
  <2> QED
    BY <2>6, <2>7
<1>10. CASE ~(head.type = "ROWS" /\ ~is_request)
  <2>1. /\ result' = NoResult
        /\ result'.frames = <<>> /\ result'.end = "none"
        /\ result' \in [frames : Seq(0..(StreamLen - 1)), end : Ends]
    BY <1>1, <1>4, <1>10 DEF NoResult, Ends
  <2>2. UNCHANGED <<continuation_expected, frame_count, total_rows, columns>>
    BY <1>1, <1>10 DEF Announces, continuation_vars
  <2>3. Typed' /\ Roles'
    BY <1>1, <2>1, <2>2 DEF DecoderInv, DecoderPart, Typed, Roles
  <2>4. Draining' /\ DrainInStep'
    BY <1>1, <1>3, <2>1, <2>2 DEF Draining, DrainInStep
  <2>5. ResultIntact' /\ WithinCaps'
    BY <1>4, <1>8, <2>1 DEF ResultIntact, WithinCaps, Within
  <2> QED
    BY <1>6, <2>3, <2>4, <2>5 DEF DecoderPart
<1> QED
  BY <1>9, <1>10

\* One more frame of a result in progress.
LEMMA ContinuationRowsStep ==
  ASSUME DecoderInv, decode_continuation_rows
  PROVE  DecoderPart'
<1> DEFINE fs == result.frames
           gs == result'.frames
<1>1. /\ Readable /\ continuation_expected
      /\ Extends(head)
      /\ Take(total_size, "frame")
      /\ UNCHANGED <<skip_remaining, poisoned, poison_after_skip, stream, fed, shaken>>
      /\ result' = [frames |-> Append(fs, taken),
                    end |-> IF result.end = "none" /\ ~head.more THEN "rows" ELSE result.end]
      /\ got'.ret = "message"
  BY DEF decode_continuation_rows, Drainable
<1>2. /\ ~is_poisoned /\ skip_remaining = 0 /\ head = stream[taken]
      /\ taken \in 0..(StreamLen - 1) /\ taken \in Nat /\ Claimed(taken) \in Nat
      /\ taken' = taken + Claimed(taken)
      /\ head.rows \in Nat /\ head.cols # None
  BY <1>1, FrameFacts
<1>3. /\ result.end \in {"none", "bypassed"} /\ fs # <<>>
      /\ taken >= LastFrame + Claimed(LastFrame)
      /\ result.end = "none" => taken = LastFrame + Claimed(LastFrame)
      /\ frame_count = Len(fs)
      /\ total_rows = RowsOf(fs)
      /\ columns = stream[LastFrame].cols
      /\ stream[LastFrame].more
  BY <1>1, <1>2 DEF DecoderInv, DecoderPart, DrainInStep, Draining
<1>4. stream \in Streams /\ fs \in Seq(0..(StreamLen - 1)) /\ result.end \in Ends
      /\ ~is_request /\ total_rows \in Nat
  BY <1>1 DEF DecoderInv, DecoderPart, Typed, Roles
<1>5. /\ Len(fs) \in Nat \ {0}
      /\ \A i \in 1..Len(fs) : fs[i] \in 0..(StreamLen - 1)
  BY <1>3, <1>4, EmptySeq, LenProperties
<1>6. /\ gs = Append(fs, taken)
      /\ gs \in Seq(0..(StreamLen - 1)) /\ Len(gs) = Len(fs) + 1
      /\ \A i \in 1..Len(fs) : gs[i] = fs[i]
      /\ gs[Len(fs) + 1] = taken
      /\ gs # <<>>
      /\ result'.end = IF result.end = "none" /\ ~head.more THEN "rows" ELSE result.end
      /\ result' \in [frames : Seq(0..(StreamLen - 1)), end : Ends]
  <2>1. /\ gs = Append(fs, taken)
        /\ gs \in Seq(0..(StreamLen - 1)) /\ Len(gs) = Len(fs) + 1
        /\ \A i \in 1..Len(fs) : gs[i] = fs[i]
        /\ gs[Len(fs) + 1] = taken
    BY <1>1, <1>2, <1>4, AppendProperties
  <2>2. gs # <<>>
    BY <1>5, <2>1, EmptySeq
  <2> QED
    BY <1>1, <1>4, <2>1, <2>2 DEF Ends
<1>7. LastFrame' = taken /\ \A o : Claimed(o)' = Claimed(o)
  BY <1>1, <1>6 DEF LastFrame, Claimed
<1>8. RowsOf(result.frames)' = RowsOf(fs) + head.rows /\ RowsOf(fs) \in Nat
  BY <1>1, <1>2, <1>4, <1>6, RowsOfIsSum, RowSumAppend DEF FrameOffsets
<1>9. columns = head.cols
  <2>1. Len(fs) \in 1..Len(fs)
    BY <1>5
  <2>2. stream[LastFrame].cols # None
    BY <1>4, <1>5, <2>1, FramesAssumption DEF LastFrame
  <2> QED
    BY <1>1, <1>3, <2>2 DEF Extends
<1>10. ResultIntact'
  <2>0. /\ result'.end \in {"none", "rows", "bypassed"}
        /\ result'.end # "bypassed" => result.end = "none"
        /\ result'.end # "bypassed" => (head.more <=> result'.end = "none")
    BY <1>3, <1>6
  <2>1. ASSUME NEW i \in 1..(Len(fs) - 1)
        PROVE  /\ fs[i + 1] >= fs[i] + Claimed(fs[i])
               /\ result.end # "bypassed" => fs[i + 1] = fs[i] + Claimed(fs[i])
               /\ stream[fs[i]].more
               /\ stream[fs[i + 1]].cols = stream[fs[1]].cols
    BY <1>3 DEF DecoderInv, DecoderPart, ResultIntact
  <2>2. stream[LastFrame].cols = stream[fs[1]].cols
    <3>1. CASE Len(fs) = 1
      BY <3>1 DEF LastFrame
    <3>2. CASE Len(fs) # 1
      <4>1. Len(fs) - 1 \in 1..(Len(fs) - 1) /\ (Len(fs) - 1) + 1 = Len(fs)
        <5>1. \A n \in Nat \ {0} : n # 1 => n - 1 \in 1..(n - 1) /\ (n - 1) + 1 = n
          OBVIOUS
        <5> QED
          BY <1>5, <3>2, <5>1, Zenon
      <4> QED
        BY <2>1, <4>1 DEF LastFrame
    <3> QED
      BY <3>1, <3>2
  <2>3. ASSUME NEW i \in 1..(Len(gs) - 1)
        PROVE  /\ gs[i + 1] >= gs[i] + Claimed(gs[i])
               /\ result'.end # "bypassed" => gs[i + 1] = gs[i] + Claimed(gs[i])
               /\ stream[gs[i]].more
               /\ stream[gs[i + 1]].cols = stream[gs[1]].cols
    <3>0. 1 \in 1..Len(fs)
      BY <1>5
    <3>1. CASE i = Len(fs)
      <4>1. i \in 1..Len(fs)
        BY <1>5, <3>1
      <4>2. gs[i] = LastFrame /\ gs[i + 1] = taken /\ gs[1] = fs[1]
        BY <1>6, <3>0, <3>1, <4>1 DEF LastFrame
      <4> QED
        BY <1>2, <1>3, <1>9, <2>0, <2>2, <4>2
    <3>2. CASE i # Len(fs)
      <4>1. i \in 1..(Len(fs) - 1) /\ i \in 1..Len(fs) /\ i + 1 \in 1..Len(fs)
        BY <1>5, <1>6, <3>2
      <4>2. gs[i] = fs[i] /\ gs[i + 1] = fs[i + 1] /\ gs[1] = fs[1]
        BY <1>6, <3>0, <4>1
      <4> QED
        BY <2>0, <2>1, <4>1, <4>2
    <3> QED
      BY <3>1, <3>2
  <2>4. gs # <<>> /\ result'.end # "bypassed" => (stream'[LastFrame'].more <=> result'.end = "none")
    BY <1>1, <1>2, <1>7, <2>0
  <2> QED
    BY <1>1, <2>3, <2>4, SMTT(30) DEF ResultIntact, Claimed
<1>11. WithinCaps'
  <2>1. /\ Within(Len(fs) + 1, max_continuation_frames)
        /\ Within(RowsOf(fs) + head.rows, max_total_rows)
    BY <1>1, <1>3 DEF Extends
  <2> QED
    BY <1>6, <1>8, <2>1 DEF WithinCaps, Within
<1>12. CASE head.more
  <2>1. /\ frame_count' = frame_count + 1
        /\ total_rows' = total_rows + head.rows
        /\ UNCHANGED <<continuation_expected, columns, is_request, handshake_done, version>>
    BY <1>12 DEF decode_continuation_rows
  <2>2. Typed' /\ Roles'
    BY <1>1, <1>2, <1>6, <2>1, SMTT(30) DEF DecoderInv, DecoderPart, Typed, Roles
  <2>3. HandshakeOnce'
    BY <1>1, <2>1 DEF DecoderInv, DecoderPart, HandshakeOnce, is_poisoned
  <2>4. Draining'
    BY <1>1, <1>2, <1>7, <1>12 DEF Draining
  <2>5. DrainInStep'
    <3>1. /\ result'.end \in {"none", "bypassed"} /\ gs # <<>>
          /\ taken' >= taken + Claimed(taken)
          /\ frame_count' = Len(gs)
          /\ total_rows' = RowsOf(result.frames)'
          /\ columns' = stream'[taken].cols
      BY <1>1, <1>2, <1>3, <1>6, <1>8, <1>9, <1>12, <2>1
    <3> QED
      BY <1>1, <1>2, <1>7, <2>1, <3>1 DEF DrainInStep
  <2> QED
    BY <1>10, <1>11, <2>2, <2>3, <2>4, <2>5 DEF DecoderPart
<1>13. CASE ~head.more
  <2>1. Finalize
    BY <1>13 DEF decode_continuation_rows
  <2>2. /\ UNCHANGED <<is_request, handshake_done, version>>
        /\ continuation_expected' = FALSE
        /\ frame_count' = 0 /\ total_rows' = 0 /\ columns' = None
    BY <1>1, <2>1, FinalizeFacts
  <2>3. Typed' /\ Roles'
    BY <1>1, <1>6, <2>2 DEF DecoderInv, DecoderPart, Typed, Roles
  <2>4. HandshakeOnce'
    BY <1>1, <2>2 DEF DecoderInv, DecoderPart, HandshakeOnce, is_poisoned
  <2>5. Draining' /\ DrainInStep'
    BY <1>3, <1>6, <1>13, <2>2 DEF Draining, DrainInStep
  <2> QED
    BY <1>10, <1>11, <2>3, <2>4, <2>5 DEF DecoderPart
<1> QED
  BY <1>12, <1>13

\* Only a request decoder shakes hands, in the middle of no result: what a
\* handshake does to flags, bytes and poison concerns HandshakeOnce alone.
LEMMA ShakeStep ==
  ASSUME DecoderInv, HandshakeReady,
         UNCHANGED <<stream, is_request, result>>, UNCHANGED continuation_vars,
         version' \in SUPPORTED_VERSIONS \cup {None}, handshake_done' \in BOOLEAN,
         shaken' \in Nat \cup {None}, HandshakeOnce'
  PROVE  DecoderPart'
<1>1. /\ ~handshake_done /\ ~is_poisoned
      /\ UNCHANGED <<continuation_expected, frame_count, total_rows, columns>>
  BY DEF HandshakeReady, continuation_vars
<1>2. is_request /\ ~continuation_expected
  BY <1>1 DEF DecoderInv, DecoderPart, Typed, Roles
<1>3. Typed' /\ Roles'
  BY <1>1, <1>2 DEF DecoderInv, DecoderPart, Typed, Roles
<1>4. RowsOf(result.frames)' = RowsOf(result.frames) /\ LastFrame' = LastFrame
  BY RowsOfIsSum DEF LastFrame
<1>5. Draining' /\ DrainInStep'
  BY <1>1, <1>2 DEF DecoderInv, DecoderPart, Draining, DrainInStep
<1>6. ResultIntact'
  BY <1>4 DEF DecoderInv, DecoderPart, ResultIntact, Claimed
<1>7. WithinCaps'
  BY <1>4 DEF DecoderInv, DecoderPart, WithinCaps, Within
<1> QED
  BY <1>3, <1>5, <1>6, <1>7 DEF DecoderPart

\* A handshake completed, given up, taken back or torn apart.
LEMMA HandshakeStep ==
  ASSUME DecoderInv,
         decode_handshake \/ decode_handshake_interrupted \/ decode_handshake_torn
  PROVE  DecoderPart'
<1>1. /\ HandshakeReady /\ ~handshake_done /\ ~is_poisoned
      /\ head.version \in SUPPORTED_VERSIONS
      /\ UNCHANGED <<is_request, result>>
      /\ UNCHANGED continuation_vars
  BY DEF decode_handshake, decode_handshake_interrupted, decode_handshake_torn,
         HandshakeReady, HandshakeCall
<1>2. /\ is_request /\ shaken \in {0, None} /\ shaken \in Nat \cup {None}
      /\ handshake_done = FALSE
      /\ version \in SUPPORTED_VERSIONS \cup {None}
  BY <1>1 DEF DecoderInv, DecoderPart, Typed, Roles, HandshakeOnce
<1>3. /\ HANDSHAKE_SIZE \in Nat \ {0} /\ None \notin SUPPORTED_VERSIONS
      /\ None \notin Nat
  BY DecoderAssumption
<1>4. /\ version' = head.version => version' \in SUPPORTED_VERSIONS /\ version' # None
      /\ is_request' = TRUE
  BY <1>1, <1>2, <1>3
<1>5. CASE CompleteHandshake
  <2>1. /\ version' = head.version /\ handshake_done' = TRUE /\ stream' = stream
        /\ shaken' = IF shaken = None THEN None ELSE shaken + HANDSHAKE_SIZE
    BY <1>5 DEF CompleteHandshake, Committed
  <2>2. shaken' \in {HANDSHAKE_SIZE, None}
    BY <1>2, <1>3, <2>1
  <2>3. HandshakeOnce'
    BY <1>4, <2>1, <2>2 DEF HandshakeOnce
  <2> QED
    BY <1>1, <1>3, <1>4, <2>1, <2>2, <2>3, ShakeStep
<1>6. CASE /\ version' \in {version, head.version}
           /\ UNCHANGED <<handshake_done, shaken>>
           /\ UNCHANGED rb_vars
  <2>1. stream' = stream /\ poisoned' = poisoned
    BY <1>6 DEF rb_vars
  <2>2. HandshakeOnce'
    BY <1>1, <1>2, <1>4, <1>6, <2>1 DEF DecoderInv, DecoderPart, HandshakeOnce, is_poisoned
  <2>3. version' \in SUPPORTED_VERSIONS \cup {None} /\ handshake_done' \in BOOLEAN
    BY <1>2, <1>4, <1>6
  <2> QED
    BY <1>1, <1>2, <1>6, <2>1, <2>2, <2>3, ShakeStep
<1>7. CASE /\ Reverted
           /\ UNCHANGED shaken
           /\ UNCHANGED rb_vars \/ read_bytes_interrupted(HANDSHAKE_SIZE)
  <2>1. stream' = stream
    BY <1>7 DEF rb_vars, read_bytes_interrupted, wire_vars
  <2>2. version' = None /\ handshake_done' = FALSE /\ shaken' = shaken
    BY <1>7 DEF Reverted
  <2>3. HandshakeOnce'
    BY <1>2, <1>3, <1>4, <2>2 DEF HandshakeOnce
  <2>4. version' \in SUPPORTED_VERSIONS \cup {None} /\ handshake_done' \in BOOLEAN
    BY <2>2
  <2> QED
    BY <1>1, <1>2, <2>1, <2>2, <2>3, <2>4, ShakeStep
<1>8. CASE decode_handshake_torn
  <2>1. stream' = stream /\ shaken' = None
    BY <1>8 DEF decode_handshake_torn, rb_vars
  <2>2. \/ version' = head.version /\ handshake_done' = TRUE
        \/ version' = None /\ handshake_done' = FALSE
    BY <1>8 DEF decode_handshake_torn, Committed, Reverted
  <2>3. HandshakeOnce'
    BY <1>4, <2>1, <2>2 DEF HandshakeOnce
  <2> QED
    BY <1>1, <1>4, <2>1, <2>2, <2>3, ShakeStep
<1> QED
  BY <1>5, <1>6, <1>7, <1>8 DEF decode_handshake, decode_handshake_interrupted

\* reset() keeps the kind of the decoder, and a request decoder waits again.
LEMMA ResetStep ==
  ASSUME DecoderInv, reset
  PROVE  DecoderPart'
<1>1. /\ stream' \in Streams
      /\ is_request' = is_request
      /\ continuation_expected' = FALSE
      /\ frame_count' = 0 /\ total_rows' = 0 /\ columns' = None
      /\ IF is_request THEN handshake_done' = FALSE /\ version' = None
         ELSE UNCHANGED <<handshake_done, version>>
      /\ result' = NoResult /\ shaken' = 0 /\ got' = NoCall
  BY InputsAssumption DEF reset, reset_after_reconnect, Reconnected, Finalize
<1>2. NoResult \in [frames : Seq(0..(StreamLen - 1)), end : Ends]
  BY EmptySeq DEF NoResult, Ends
<1>3. Typed' /\ Roles'
  BY <1>1, <1>2 DEF DecoderInv, DecoderPart, Typed, Roles
<1>4. HandshakeOnce'
  BY <1>1, DecoderAssumption DEF DecoderInv, DecoderPart, Typed, Roles, HandshakeOnce
<1>5. /\ ~continuation_expected'
      /\ frame_count' = 0 /\ total_rows' = 0 /\ columns' = None
      /\ result' = NoResult /\ got' = NoCall
  BY <1>1
<1>6. result'.frames = <<>> /\ result'.end = "none" /\ Len(<<>>) = 0
  BY <1>1, EmptySeq DEF NoResult
<1>7. Draining' /\ DrainInStep'
  BY <1>5, <1>6 DEF Draining, DrainInStep
<1>8. ResultIntact'
  BY <1>6 DEF ResultIntact
<1>9. WithinCaps'
  BY <1>6, DecoderAssumption DEF WithinCaps, Within
<1> QED
  BY <1>3, <1>4, <1>7, <1>8, <1>9 DEF DecoderPart

\* A frame that does not decode, and every interrupted call that decodes one.
LEMMA PoisoningCallsStep ==
  ASSUME DecoderInv,
         decode_failed \/ decode_interrupted \/ decode_continuation_interrupted
  PROVE  DecoderPart'
<1>0. Typed /\ Roles /\ HandshakeOnce
  BY DEF DecoderInv, DecoderPart
<1>1. CASE decode_failed
  <2>1. /\ is_poisoned'
        /\ UNCHANGED <<stream, result, shaken, is_request, version, handshake_done>>
        /\ UNCHANGED <<continuation_expected, frame_count, total_rows>>
    BY <1>1 DEF decode_failed, PoisonedBy, is_poisoned, handshake_vars, continuation_vars
  <2>2. Typed' /\ Roles' /\ (handshake_done' => version' # None)
    BY <1>0, <2>1 DEF Typed, Roles, HandshakeOnce
  <2> QED
    BY <2>1, <2>2, PoisonedStep
<1>2. CASE decode_interrupted
  <2>1. /\ is_poisoned'
        /\ UNCHANGED <<stream, result, shaken, is_request, version, handshake_done>>
    BY <1>2 DEF decode_interrupted, read_message_interrupted, TakeInterrupted,
                PoisonedByInterrupt, PoisonedBy, is_poisoned, wire_vars
  <2>2. /\ continuation_expected' \in BOOLEAN /\ frame_count' \in Nat /\ total_rows' \in Nat
        /\ is_request => ~continuation_expected'
    <3>1. CASE UNCHANGED continuation_vars
      BY <1>0, <3>1 DEF Typed, Roles, continuation_vars
    <3>2. CASE Readable /\ Take(total_size, "frame") /\ TornBegin(head)
      <4>1. head.rows \in Nat
        BY <3>2, FrameFacts
      <4>2. \/ UNCHANGED continuation_vars
            \/ /\ ~is_request /\ continuation_expected' = TRUE
               /\ frame_count' \in {frame_count, 1}
               /\ total_rows' \in {total_rows, head.rows}
        BY <3>2 DEF TornBegin, Announces
      <4>3. frame_count \in Nat /\ total_rows \in Nat /\ 1 \in Nat
        BY <1>0 DEF Typed
      <4> QED
        BY <3>1, <4>1, <4>2, <4>3
    <3> QED
      BY <1>2, <3>1, <3>2 DEF decode_interrupted, Decodable
  <2>3. Typed' /\ Roles' /\ (handshake_done' => version' # None)
    BY <1>0, <2>1, <2>2 DEF Typed, Roles, HandshakeOnce
  <2> QED
    BY <2>1, <2>3, PoisonedStep
<1>3. CASE decode_continuation_interrupted
  <2>1. /\ is_poisoned' /\ continuation_expected
        /\ UNCHANGED <<stream, result, shaken>>
    BY <1>3 DEF decode_continuation_interrupted, Drainable, read_message_interrupted,
                TakeInterrupted, PoisonedByInterrupt, PoisonedBy, is_poisoned, wire_vars
  <2>2. /\ UNCHANGED <<is_request, version, handshake_done>>
        /\ continuation_expected' \in BOOLEAN /\ frame_count' \in Nat /\ total_rows' \in Nat
        /\ is_request => ~continuation_expected'
    <3>1. CASE UNCHANGED continuation_vars /\ UNCHANGED <<is_request, version, handshake_done>>
      BY <1>0, <3>1 DEF Typed, Roles, continuation_vars
    <3>2. CASE Finalize
      BY <2>1, <3>2, FinalizeFacts
    <3> QED
      BY <1>3, <3>1, <3>2 DEF decode_continuation_interrupted
  <2>3. Typed' /\ Roles' /\ (handshake_done' => version' # None)
    BY <1>0, <2>1, <2>2 DEF Typed, Roles, HandshakeOnce
  <2> QED
    BY <2>1, <2>3, PoisonedStep
<1> QED
  BY <1>1, <1>2, <1>3

-----------------------------------------------------------------------------
(* The invariant *)

\* A new decoder satisfies the invariant (MessageDecoder.__init__).
LEMMA InitDecoderInv == DecoderInit => DecoderInv
<1> SUFFICES ASSUME DecoderInit PROVE DecoderInv
  OBVIOUS
<1>1. Inv
  BY InitInv DEF DecoderInit
<1>2. /\ stream \in Streams /\ is_request = stream[0].request
      /\ version \in (IF is_request THEN {None} ELSE ClientVersions)
      /\ handshake_done = ~is_request
      /\ continuation_expected = FALSE
      /\ frame_count = 0 /\ total_rows = 0 /\ columns = None
      /\ result = NoResult /\ shaken = 0 /\ got = NoCall
  BY DEF DecoderInit, Init
<1>3. NoResult \in [frames : Seq(0..(StreamLen - 1)), end : Ends]
  BY EmptySeq DEF NoResult, Ends
<1>4. is_request \in BOOLEAN
  BY <1>2, FramesAssumption
<1>5. version \in SUPPORTED_VERSIONS \cup {None} /\ (~is_request => version # None)
  BY <1>2, DecoderAssumption
<1>6. Typed /\ Roles
  BY <1>2, <1>3, <1>4, <1>5 DEF Typed, Roles
<1>7. HandshakeOnce
  BY <1>2, <1>4, <1>5, DecoderAssumption DEF HandshakeOnce
<1>8. result.frames = <<>> /\ result.end = "none" /\ Len(<<>>) = 0
  BY <1>2, EmptySeq DEF NoResult
<1>9. Draining /\ DrainInStep
  BY <1>2, <1>8 DEF Draining, DrainInStep
<1>10. ResultIntact
  BY <1>8 DEF ResultIntact
<1>11. WithinCaps
  BY <1>8, DecoderAssumption DEF WithinCaps, Within
<1> QED
  BY <1>1, <1>6, <1>7, <1>9, <1>10, <1>11 DEF DecoderInv, DecoderPart

\* Every call on the decoder preserves its invariant.
LEMMA NextDecoderInv == DecoderInv /\ [DecoderNext]_vars => DecoderInv'
<1> SUFFICES ASSUME DecoderInv, [DecoderNext]_vars PROVE DecoderInv'
  OBVIOUS
<1>0. Inv'
  BY DecoderKeepsInv DEF DecoderInv
<1> SUFFICES DecoderPart'
  BY <1>0 DEF DecoderInv
<1>1. ASSUME NEW n \in Chunks, decoder_feed(n) PROVE DecoderPart'
  <2>0. n \in Nat /\ skip_remaining \in Nat /\ taken \in Nat
    BY InputsAssumption, Basics DEF DecoderInv
  <2>1. ~is_poisoned /\ UNCHANGED decoder_vars /\ stream' = stream
    BY <1>1 DEF decoder_feed, feed, feed_reject, wire_vars
  <2>2. CASE feed_reject(n)
    <3>1. is_poisoned'
      BY <2>2 DEF feed_reject, PoisonedBy, is_poisoned
    <3> QED
      BY <2>1, <3>1, QuietStep
  <2>3. CASE feed(n)
    <3>1. CASE continuation_expected
      <4>1. skip_remaining = 0
        BY <2>1, <3>1 DEF DecoderInv, DecoderPart, Draining
      <4>2. discard(n) = 0
        BY <2>0, <4>1 DEF discard, Least
      <4>3. taken' = taken /\ skip_remaining' = 0
        BY <2>0, <2>3, <4>1, <4>2 DEF feed
      <4> QED
        BY <2>1, <4>3, QuietStep
    <3>2. CASE ~continuation_expected
      BY <2>1, <3>2, QuietStep
    <3> QED
      BY <3>1, <3>2
  <2> QED
    BY <1>1, <2>2, <2>3 DEF decoder_feed
<1>2. ASSUME NEW n \in Chunks, decoder_feed_interrupted(n) PROVE DecoderPart'
  <2>1. ~is_poisoned /\ is_poisoned' /\ UNCHANGED decoder_vars /\ stream' = stream
    BY <1>2 DEF decoder_feed_interrupted, feed_interrupted, Fires, is_poisoned, wire_vars
  <2> QED
    BY <2>1, QuietStep
<1>3. CASE decoder_skip_message
  <2>1. /\ ~is_poisoned /\ ~continuation_expected
        /\ UNCHANGED decoder_vars /\ stream' = stream
    BY <1>3 DEF decoder_skip_message, skip_message_complete, skip_message_oversized,
                skip_message_interrupted, Readable, wire_vars
  <2> QED
    BY <2>1, QuietStep
<1>4. CASE take_frame
  BY <1>4, TakeFrameStep
<1>5. CASE take_frame_interrupted
  <2>1. ~is_poisoned /\ is_poisoned' /\ UNCHANGED decoder_vars /\ stream' = stream
    BY <1>5 DEF take_frame_interrupted, read_message_interrupted, Readable,
                TakeInterrupted, PoisonedBy, is_poisoned, wire_vars
  <2> QED
    BY <2>1, QuietStep
<1>6. CASE decode
  BY <1>6, DecodeStep
<1>7. CASE decode_continuation_rows
  BY <1>7, ContinuationRowsStep
<1>8. CASE decode_continuation_end
  <2>1. /\ ~is_poisoned /\ continuation_expected /\ Finalize
        /\ UNCHANGED <<stream, shaken>>
        /\ result' = [result EXCEPT !.end = IF head.type = "EMPTY" THEN "empty" ELSE "failure"]
    BY <1>8 DEF decode_continuation_end, Drainable, Readable
  <2>2. (IF head.type = "EMPTY" THEN "empty" ELSE "failure") \in {"empty", "failure", "error"}
    OBVIOUS
  <2> QED
    BY <2>1, <2>2, StoppedStep
<1>9. CASE decode_continuation_error
  <2>1. /\ ~is_poisoned /\ continuation_expected /\ Finalize
        /\ UNCHANGED <<stream, shaken>>
        /\ result' = [result EXCEPT !.end = "error"]
    BY <1>9 DEF decode_continuation_error, Drainable, Readable
  <2> QED
    BY <2>1, StoppedStep
<1>10. CASE decode_continuation_oversized
  <2>1. /\ ~is_poisoned /\ continuation_expected /\ Finalize
        /\ UNCHANGED <<stream, shaken>>
        /\ result' = [result EXCEPT !.end = "error"]
    BY <1>10 DEF decode_continuation_oversized, wire_vars
  <2> QED
    BY <2>1, StoppedStep
<1>11. CASE decode_handshake \/ decode_handshake_interrupted \/ decode_handshake_torn
  BY <1>11, HandshakeStep
<1>12. CASE decode_failed \/ decode_interrupted \/ decode_continuation_interrupted
  BY <1>12, PoisoningCallsStep
<1>13. CASE reset
  BY <1>13, ResetStep
<1>14. CASE UNCHANGED vars
  <2>1. /\ UNCHANGED decoder_vars
        /\ UNCHANGED <<stream, taken, skip_remaining, poisoned>>
    BY <1>14 DEF vars, decoder_vars
  <2>2. CASE ~is_poisoned
    <3>1. continuation_expected => taken' = taken /\ skip_remaining' = 0
      BY <2>1, <2>2 DEF DecoderInv, DecoderPart, Draining
    <3> QED
      BY <2>1, <2>2, <3>1, QuietStep
  <2>3. CASE is_poisoned
    <3>1. is_poisoned' /\ UNCHANGED <<stream, result, shaken>>
      BY <2>1, <2>3 DEF decoder_vars, is_poisoned
    <3>2. Typed' /\ Roles' /\ (handshake_done' => version' # None)
      BY <2>1 DEF decoder_vars, DecoderInv, DecoderPart, Typed, Roles, HandshakeOnce
    <3> QED
      BY <3>1, <3>2, PoisonedStep
  <2> QED
    BY <2>2, <2>3
<1> QED
  BY <1>1, <1>2, <1>3, <1>4, <1>5, <1>6, <1>7, <1>8, <1>9, <1>10, <1>11, <1>12, <1>13,
     <1>14 DEF DecoderNext, DecoderInterrupted, decode_continuation

\* The inductive invariant holds of every reachable state of the decoder.
THEOREM DecoderInvariance == DecoderSpec => []DecoderInv
  BY InitDecoderInv, NextDecoderInv, PTL DEF DecoderSpec

\* Every variable of the decoder keeps its type.
THEOREM DecoderTypeCorrect == DecoderSpec => []DecoderTypeOK
<1>1. DecoderInv => DecoderTypeOK
  <2> SUFFICES ASSUME DecoderInv PROVE DecoderTypeOK
    OBVIOUS
  <2>1. TypeOK /\ Typed
    BY DEF DecoderInv, DecoderPart, Inv
  <2>2. result.frames \in Seq(0..(StreamLen - 1)) /\ result.end \in Ends
    BY <2>1 DEF Typed
  <2>3. 0..(StreamLen - 1) \subseteq 0..StreamLen
    BY SizesAssumption
  <2>4. \A S, T, q : S \subseteq T /\ q \in Seq(S) => q \in Seq(T)
    OBVIOUS
  <2>5. result.frames \in Seq(0..StreamLen)
    BY <2>2, <2>3, <2>4
  <2> QED
    BY <2>1, <2>2, <2>5 DEF DecoderTypeOK, Typed
<1> QED
  BY <1>1, DecoderInvariance, PTL

\* A result returned frame by frame is whole: consecutive frames of the same
\* columns, over exactly when the last of them announces no more.
THEOREM ResultIntactAlways == DecoderSpec => []ResultIntact
<1>1. DecoderInv => ResultIntact
  BY DEF DecoderInv, DecoderPart
<1> QED
  BY <1>1, DecoderInvariance, PTL

\* The continuation state always agrees with the wire and with what was returned.
THEOREM DrainInStepAlways == DecoderSpec => []DrainInStep
<1>1. DecoderInv => DrainInStep
  BY DEF DecoderInv, DecoderPart
<1> QED
  BY <1>1, DecoderInvariance, PTL

\* No sequence of frames and of earlier abandoned results exceeds the caps.
THEOREM WithinCapsAlways == DecoderSpec => []WithinCaps
<1>1. DecoderInv => WithinCaps
  BY DEF DecoderInv, DecoderPart
<1> QED
  BY <1>1, DecoderInvariance, PTL

\* The handshake is consumed once per connection, by request decoders only, and
\* retries, poison and clean reverts in any order keep flags and bytes together.
\* Where an exception has torn them apart, a request decoder still accepts no
\* message without a version, and reset() still re-arms it.
THEOREM HandshakeOnceAlways == DecoderSpec => []HandshakeOnce
<1>1. DecoderInv => HandshakeOnce
  BY DEF DecoderInv, DecoderPart
<1> QED
  BY <1>1, DecoderInvariance, PTL

\* Poisoning decode errors and raw handshake reads, which the buffer by itself
\* does not know, leave what the buffer promises intact.
THEOREM BufferUnderDecoder ==
  DecoderSpec => [](Coherent /\ HandedInOrder /\ SkipIsArmed /\ MemoryBound /\ NoWedge)
<1>1. DecoderInv => Coherent /\ HandedInOrder /\ SkipIsArmed /\ MemoryBound /\ NoWedge
  BY InvImplies DEF DecoderInv
<1> QED
  BY <1>1, DecoderInvariance, PTL

\* decode() never returns a frame from inside a result that is being drained,
\* and decode_continuation() returns nothing else.
THEOREM CallsMatchWireAlways == DecoderSpec => CallsMatchWire
<1> DEFINE A == got' # got /\ got'.ret = "message" =>
       CASE got'.call = "decode" ->
              ~(result.frames # <<>> /\ result.end = "none" /\ stream[LastFrame].more)
         [] got'.call = "continuation" ->
              result.frames # <<>> /\ result.end \in {"none", "bypassed"}
         [] OTHER -> is_request
<1>1. DecoderInv /\ [DecoderNext]_vars => [A]_vars
  <2> SUFFICES ASSUME DecoderInv, DecoderNext, got' # got, got'.ret = "message" PROVE A
    OBVIOUS
  <2>1. \/ decode
        \/ decode_continuation_rows \/ decode_continuation_end
        \/ decode_handshake
    BY DEF DecoderNext, DecoderInterrupted, decoder_feed, decoder_feed_interrupted,
       decoder_skip_message, take_frame, take_frame_interrupted, decode_failed,
       decode_interrupted, decode_continuation, decode_continuation_error,
       decode_continuation_oversized, decode_continuation_interrupted,
       decode_handshake_interrupted, decode_handshake_torn, HandshakeCall, reset,
       NoCall, decoder_vars
  <2>2. CASE decode
    <3>1. got'.call = "decode" /\ ~is_poisoned /\ ~continuation_expected
      BY <2>2 DEF decode, Decodable, Readable
    <3>2. result.end = "none" => result.frames = <<>>
      BY <3>1 DEF DecoderInv, DecoderPart, DrainInStep
    <3> QED
      BY <3>1, <3>2
  <2>3. CASE decode_continuation_rows \/ decode_continuation_end
    <3>1. got'.call = "continuation" /\ ~is_poisoned /\ continuation_expected
      BY <2>3 DEF decode_continuation_rows, decode_continuation_end, Drainable, Readable
    <3>2. result.end \in {"none", "bypassed"} /\ result.frames # <<>>
      BY <3>1 DEF DecoderInv, DecoderPart, DrainInStep
    <3> QED
      BY <3>1, <3>2
  <2>4. CASE decode_handshake
    <3>1. got'.call = "handshake" /\ ~handshake_done
      BY <2>4 DEF decode_handshake, HandshakeReady, HandshakeCall
    <3>2. is_request
      BY <3>1 DEF DecoderInv, DecoderPart, Roles
    <3> QED
      BY <3>1, <3>2
  <2> QED
    BY <2>1, <2>2, <2>3, <2>4
<1>2. DecoderSpec => [][A]_vars
  BY <1>1, DecoderInvariance, PTL DEF DecoderSpec
<1> QED
  BY <1>2 DEF CallsMatchWire

\* Under the decoder too nothing leaves a poisoned or skipping buffer before
\* reset(): a handshake, which takes raw bytes, finds none there.
THEOREM DeadUnderDecoder == DecoderSpec => DeadUntilReset
<1>1. ASSUME DecoderInv, DecoderNext, is_poisoned \/ is_skipping
      PROVE  StaysDead
  <2>1. is_skipping /\ ~is_poisoned => available = 0
    BY <1>1 DEF DecoderInv, Inv, Live
  <2>2. HANDSHAKE_SIZE \in Nat \ {0} /\ HEADER_SIZE \in Nat \ {0}
    BY DecoderAssumption, SizesAssumption
  <2>3. ~Readable /\ ~HandshakeReady /\ ~(~is_poisoned /\ has_header)
    BY <1>1, <2>1, <2>2 DEF Readable, HandshakeReady, has_header
  <2>4. \/ \E n \in Chunks : feed(n) \/ feed_reject(n) \/ feed_interrupted(n)
        \/ read_message \/ read_message_interrupted
        \/ skip_message_complete \/ skip_message_oversized \/ skip_message_interrupted
        \/ reset_after_reconnect
    BY <1>1, <2>3 DEF DecoderNext, DecoderInterrupted, decoder_feed,
       decoder_feed_interrupted, decoder_skip_message, take_frame, take_frame_interrupted,
       decode, decode_failed, decode_interrupted, Decodable, decode_continuation,
       decode_continuation_rows, decode_continuation_end, decode_continuation_error,
       decode_continuation_oversized, decode_continuation_interrupted, Drainable,
       decode_handshake, decode_handshake_interrupted, decode_handshake_torn, reset
  <2>5. Next
    BY <2>4 DEF Next, Interrupted
  <2> QED
    BY <1>1, <2>5, DeadStep DEF DecoderInv
<1>2. DecoderInv /\ [DecoderNext]_vars => [is_poisoned \/ is_skipping => StaysDead]_rb_vars
  <2>1. UNCHANGED vars => UNCHANGED rb_vars
    BY DEF vars, rb_vars
  <2> QED
    BY <1>1, <2>1
<1>3. DecoderSpec => [][is_poisoned \/ is_skipping => StaysDead]_rb_vars
  BY <1>2, DecoderInvariance, PTL DEF DecoderSpec
<1> QED
  BY <1>3 DEF DeadUntilReset, StaysDead

=============================================================================
