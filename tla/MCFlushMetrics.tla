--------------------------- MODULE MCFlushMetrics ---------------------------
(* FlushMetrics for TLC.                                                   *)
EXTENDS MCFlushControl, FlushMetrics
=============================================================================
