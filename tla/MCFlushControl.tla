--------------------------- MODULE MCFlushControl ---------------------------
(* FlushControl for TLC, with the byte count compared to a plain sum.      *)
EXTENDS FlushControl

BytesIn(s) ==
    LET sum[i \in 0..Len(s)] == IF i = 0 THEN 0 ELSE sum[i - 1] + s[i].size
    IN  sum[Len(s)]

(* The encoded data resident in the request path, summed request by        *)
(* request, is what QueuedBytes counts, and stays within the limit or is   *)
(* one oversized request: the promise of Config::flush_queue_max_bytes.    *)
ResidentBytesBounded ==
    Counting =>
        LET resident == HandBytes + BytesIn(queue) + batchBytes IN
        /\ used = resident
        /\ \/ resident <= Limit
           \/ resident \in {creq.size, batchBytes}
              \union {queue[i].size : i \in DOMAIN queue}
=============================================================================
