----------------------- MODULE MessageDecoderWindows ------------------------
(***************************************************************************)
(* The place of dqlitewire.codec where an asynchronous exception costs a   *)
(* message and meets no handler, and what a comment in decode_handshake()  *)
(* says that its code does not do.                                         *)
(***************************************************************************)
EXTENDS MessageDecoder

\* decode() and decode_continuation() test what read_message() returned before
\* they enter the try block: an exception there, or at the `return` of
\* read_message(), drops the consumed frame.
decode_dropped ==
  /\ Decodable \/ Drainable
  /\ Take(total_size, "frame")
  /\ got' = [call |-> IF continuation_expected THEN "continuation" ELSE "decode",
             at |-> taken, ret |-> "interrupted"]
  /\ UNCHANGED <<skip_remaining, poisoned, poison_after_skip, stream, fed, result>>
  /\ UNCHANGED continuation_vars
  /\ UNCHANGED handshake_vars

DropWindowSpec == DecoderInit /\ [][DecoderNext \/ decode_dropped]_vars

CutShort == got' # got /\ got'.call = "handshake" /\ got'.ret = "interrupted"

\* A comment in decode_handshake() says that the commit and the consume are
\* atomic: a call cut short has done both or neither, or has poisoned.
HandshakeAtomic ==
  [][CutShort /\ ~is_poisoned' => (handshake_done' <=> taken' # taken)]_vars
=============================================================================
