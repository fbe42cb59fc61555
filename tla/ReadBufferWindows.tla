------------------------- MODULE ReadBufferWindows --------------------------
(***************************************************************************)
(* The places of dqlitewire.buffer where an asynchronous exception lands   *)
(* between two stores and no handler poisons the buffer, and what the      *)
(* documentation of the buffer says that its code does not do.             *)
(***************************************************************************)
EXTENDS ReadBuffer

\* reset() stores its five fields one after the other without a handler: after
\* an exception behind the first, second, third or fourth store the rest keep
\* their old values.
reset_interrupted ==
  /\ Reconnected
  /\ data' = <<>>
  /\ \E done \in 1..4 :
       /\ pos' = IF done >= 2 THEN 0 ELSE pos
       /\ skip_remaining' = IF done >= 3 THEN 0 ELSE skip_remaining
       /\ poisoned' = IF done >= 4 THEN "none" ELSE poisoned
  /\ UNCHANGED poison_after_skip

ResetWindowSpec == Init /\ [][Next \/ reset_interrupted]_rb_vars

\* A chunk that feed() rejects ends a skip in flight with poison, but the skip
\* is forgotten first, and outside the handler: an exception behind the first or
\* the second store leaves a usable buffer inside an oversized frame.
feed_reject_interrupted(n) ==
  /\ ~is_poisoned
  /\ is_skipping
  /\ Rejects(n)
  /\ fed + n <= StreamLen
  /\ skip_remaining' = 0
  /\ poison_after_skip' \in {poison_after_skip, "none"}
  /\ UNCHANGED <<data, pos, poisoned>>
  /\ UNCHANGED wire_vars

RejectWindowSpec ==
  Init /\ [][Next \/ (\E n \in Chunks : feed_reject_interrupted(n))]_rb_vars

\* The docstrings of read_message() and of MessageDecoder.skip_message() say
\* that skipping recovers from an oversized frame: neither the skip nor a chunk
\* that feed() accepts afterwards costs the connection.
SkipRecovers ==
  [][skip_message_oversized \/ (\E n \in Chunks : feed(n)) => ~is_poisoned']_rb_vars
=============================================================================
