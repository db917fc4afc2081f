---------------------------- MODULE MCRecordScan ----------------------------
(* RecordScan for TLC.  A payload of zeros looks like a lost block.        *)
EXTENDS RecordScan

MCPayloads == {<<>>, <<0>>, <<3>>}
=============================================================================
