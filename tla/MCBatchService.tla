--------------------------- MODULE MCBatchService ---------------------------
(* Small instances of the batch service for TLC. *)
EXTENDS BatchService

CONSTANTS b1, b2, t1, t2

OneBatch   == {b1}
TwoBatches == {b1, b2}
OneThread  == {t1}
TwoThreads == {t1, t2}

=============================================================================
