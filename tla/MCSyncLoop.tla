----------------------------- MODULE MCSyncLoop -----------------------------
(* SyncLoop with two links; MIN_INTERVAL is one unit, MAX_INTERVAL five. *)
EXTENDS SyncLoop

CONSTANTS work, home, first, second

MCAccount == {work, home}
MCLink == {first, second}
=============================================================================
