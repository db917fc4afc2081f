---------------------------- MODULE FlushMetrics ----------------------------
(***************************************************************************)
(* AtomicFlushMetrics: the counters the flush worker keeps of its batches  *)
(* (record_batch) and the owner of the WAL reads (flush_metrics), added to *)
(* FlushControl without changing what its two threads do.                  *)
(*                                                                         *)
(* Every counter is an atomic of its own, updated and read Relaxed, so the *)
(* two threads see the updates of one batch one by one and in any order.   *)
(* The worker's later steps (a callback, a mutex section) publish them     *)
(* all.  Of the counters there is one of each kind: two sums, a maximum    *)
(* and a latest value; times, callbacks and syncs are summed alike.        *)
(***************************************************************************)
EXTENDS FlushControl

VARIABLES
    metrics,    \* AtomicFlushMetrics
    batchM,     \* BatchMetrics of the worker's batch
    recording,  \* counters record_batch has yet to update
    snap,       \* FlushMetrics the owner reads, or read last
    unread,     \* counters snapshot has yet to load
    snapIdle,   \* history: the worker was idle when the snapshot began
    accepted,   \* history: write requests accepted by the channel
    called      \* history: write callbacks called

metricVars == <<metrics, batchM, recording>>
snapVars == <<snap, unread, snapIdle>>
mvars == <<vars, metricVars, snapVars, accepted, called>>

Counters == {"write_request_count", "write_bytes", "batch_size_max",
             "last_batch_size"}
Zeros == [c \in Counters |-> 0]

MInit ==
    /\ Init
    /\ metrics = Zeros /\ batchM = [batch_size |-> 0, write_bytes |-> 0]
    /\ recording = {}
    /\ snap = Zeros /\ unread = {} /\ snapIdle = FALSE
    /\ accepted = 0 /\ called = 0

(* BatchMetrics::new and record_queued_write for each write of the batch.  *)
BatchMetrics == [batch_size |-> Len(writes), write_bytes |-> batchBytes]

(* The batch is written and perhaps synced, well or not, and record_batch  *)
(* begins.                                                                 *)
MIo(res) ==
    /\ Io(res)
    /\ batchM' = BatchMetrics
    /\ recording' = Counters
    /\ UNCHANGED <<metrics, snapVars, accepted, called>>

(* Mutant: the sum of requests counts batches.                             *)
RecordedCountingBatches(c) ==
    CASE c = "write_request_count" -> metrics[c] + 1
      [] c = "write_bytes" -> metrics[c] + batchM.write_bytes
      [] c = "batch_size_max" -> MaxOf(metrics[c], batchM.batch_size)
      [] OTHER -> batchM.batch_size

(* The new value of a counter: fetch_add, update_max or store.             *)
Recorded(c) ==
    CASE c = "write_request_count" -> metrics[c] + batchM.batch_size
      [] c = "write_bytes" -> metrics[c] + batchM.write_bytes
      [] c = "batch_size_max" -> MaxOf(metrics[c], batchM.batch_size)
      [] OTHER -> batchM.batch_size

RecordBatch(c) ==
    /\ c \in recording
    /\ metrics' = [metrics EXCEPT ![c] = Recorded(c)]
    /\ recording' = recording \ {c}
    /\ UNCHANGED <<vars, batchM, snapVars, accepted, called>>

(* Mutant: the callbacks do not wait for record_batch.                     *)
CallbackAtOnce ==
    /\ Callback \/ CallbackPanic
    /\ called' = called + 1
    /\ UNCHANGED <<metricVars, snapVars, accepted>>

(* A callback is called once record_batch has returned.                    *)
MCallback ==
    /\ recording = {}
    /\ Callback \/ CallbackPanic
    /\ called' = called + 1
    /\ UNCHANGED <<metricVars, snapVars, accepted>>

(* The worker's other steps.                                               *)
MWorker ==
    /\ recording = {}
    /\ \/ Recv \/ RecvClosed \/ Collect \/ CollectEnd \/ IoPanic \/ Release
       \/ HandleNonFlush \/ HandleNonFlushErr \/ Complete
       \/ Unwind \/ ReleaseAll \/ Fail \/ Exit
    /\ UNCHANGED <<metricVars, snapVars, accepted, called>>

-----------------------------------------------------------------------------
(* ChunkedWal::flush_metrics: snapshot loads the counters one by one.  The *)
(* owner is in no other call meanwhile; it may also ask after shutdown.    *)
BeginSnapshot ==
    /\ cpc \in {"idle", "closed"} /\ unread = {}
    /\ unread' = Counters /\ snap' = Zeros
    /\ snapIdle' = (IdleReached /\ ~failed)
    /\ UNCHANGED <<vars, metricVars, accepted, called>>

LoadCounter(c) ==
    /\ c \in unread
    /\ snap' = [snap EXCEPT ![c] = metrics[c]]
    /\ unread' = unread \ {c}
    /\ UNCHANGED <<vars, metricVars, snapIdle, accepted, called>>

(* The owner's other calls; the last snapshot is let go.                   *)
MClient ==
    /\ unread = {}
    /\ ClientCall \/ ClientStep
    /\ accepted' = IF Len(queue') > Len(queue) /\ creq.kind = "write"
                   THEN accepted + 1 ELSE accepted
    /\ snap' = Zeros /\ snapIdle' = FALSE
    /\ UNCHANGED <<metricVars, unread, called>>

MNext ==
    \/ \E res \in {"ok", "err"} : MIo(res)
    \/ \E c \in Counters : RecordBatch(c)
    \/ MCallback \/ MWorker
    \/ BeginSnapshot \/ (\E c \in Counters : LoadCounter(c)) \/ MClient

MSpec == MInit /\ [][MNext]_mvars

-----------------------------------------------------------------------------
(* Whoever was called back finds the write counted, whether it succeeded   *)
(* or failed, and no write is counted that the channel did not accept.     *)
CallbacksCounted ==
    /\ called <= metrics["write_request_count"]
    /\ metrics["write_request_count"] <= accepted

(* A snapshot taken while the worker is idle is not torn and not stale: it *)
(* holds every write sent, every byte, and the sizes of real batches.  So  *)
(* wait_worker_idle before flush_metrics gives exact figures, although     *)
(* every load is Relaxed.                                                  *)
SnapshotExactWhenIdle ==
    snapIdle /\ unread = {} =>
        /\ snap["write_request_count"] = accepted
        /\ snap["write_bytes"] = creq.cum
        /\ snap["last_batch_size"] <= snap["batch_size_max"]
        /\ snap["batch_size_max"] <= MaxItems
        /\ accepted > 0 => snap["last_batch_size"] > 0
=============================================================================
