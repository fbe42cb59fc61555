----------------------------- MODULE ErrorCodes ------------------------------
(***************************************************************************)
(* The error codes of dqlitewire.constants: SQLite's, a primary code with  *)
(* a sub-code above its low byte, and dqlite's own, which share the number *)
(* space and must not be masked.                                           *)
(***************************************************************************)
EXTENDS Integers

Extended(primary, sub) == primary + 256 * sub

SQLITE_ABORT     == 4
SQLITE_NOMEM     == 7
SQLITE_INTERRUPT == 9
SQLITE_IOERR     == 10
SQLITE_CORRUPT   == 11
SQLITE_FULL      == 13

SQLITE_IOERR_NOT_LEADER             == Extended(SQLITE_IOERR, 40)
SQLITE_IOERR_LEADERSHIP_LOST        == Extended(SQLITE_IOERR, 41)
SQLITE_IOERR_NOT_LEADER_LEGACY      == Extended(SQLITE_IOERR, 32)
SQLITE_IOERR_LEADERSHIP_LOST_LEGACY == Extended(SQLITE_IOERR, 33)

LEADER_ERROR_CODES ==
  {SQLITE_IOERR_NOT_LEADER, SQLITE_IOERR_LEADERSHIP_LOST,
   SQLITE_IOERR_NOT_LEADER_LEGACY, SQLITE_IOERR_LEADERSHIP_LOST_LEGACY}

TX_AUTO_ROLLBACK_PRIMARY_CODES ==
  {SQLITE_ABORT, SQLITE_NOMEM, SQLITE_INTERRUPT, SQLITE_IOERR, SQLITE_CORRUPT,
   SQLITE_FULL}

is_dqlite_namespace_code(code) == 1000 <= code /\ code < 1024

primary_sqlite_code(code) ==
  IF is_dqlite_namespace_code(code) THEN code ELSE code % 256

\* Below this a primary code is safe whatever its sub-code; SQLite's end at 28.
SafePrimary == 1000 - 3 * 256
=============================================================================
