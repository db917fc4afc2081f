------------------------- MODULE FlushMetricsProofs -------------------------
(***************************************************************************)
(* What the flush worker's counters count, for every limit, channel        *)
(* capacity, batch size and number of requests: that callbacks are counted *)
(* before they are called, and that a snapshot taken while the worker is   *)
(* idle is exact.  At the end, the memory of the request path, summed      *)
(* request by request.                                                     *)
(*                                                                         *)
(* Neither property is inductive.  Both follow from an account of all      *)
(* accepted writes: those counted, those of the batch that record_batch    *)
(* has yet to count, and those in the channel (WriteCount), and the same   *)
(* for bytes (ByteCount).  The account is exact until run_inner fails; a   *)
(* failure leaves done_seq behind sent_seq for good (Behind), so that      *)
(* nobody finds the worker idle after one.                                 *)
(***************************************************************************)
EXTENDS MCFlushMetrics, FlushControlProofs, WellFoundedInduction

(* A batch that is collected or written has a write and is not too long.   *)
BatchLen == /\ wpc \in {"collect", "io"} => writes /= <<>>
            /\ Len(writes) <= MaxItems

(* How run_inner ends: failed, or after the client has closed the channel  *)
(* and everything in it was received.                                      *)
Ends ==
    /\ wpc \in {"recv", "collect", "io", "nonflush", "complete"}
           => result = "ok"
    /\ wpc \in {"unwind", "fail"} \/ failed => result /= "ok"
    /\ wpc \in {"stop", "exit", "done"} /\ result = "ok"
           => ~tx /\ queue = <<>>

(* The worker has a request in its hands, or has met a failure.            *)
Busy == \/ wpc \in {"collect", "io", "callbacks", "nonflush", "complete"}
        \/ result /= "ok"

Behind == Busy => doneSeq < sentSeq

(* What the two threads alone keep; EInv rests on IInv and OInv.           *)
EInv == BatchLen /\ Ends /\ Behind

-----------------------------------------------------------------------------
MType ==
    /\ metrics \in [Counters -> Nat] /\ snap \in [Counters -> Nat]
    /\ batchM \in [batch_size : Nat, write_bytes : Nat]
    /\ recording \in SUBSET Counters /\ unread \in SUBSET Counters
    /\ snapIdle \in BOOLEAN /\ accepted \in Nat /\ called \in Nat

(* record_batch works on the batch whose callbacks come next.              *)
RecInv ==
    recording /= {} =>
        /\ wpc = "callbacks" /\ writes /= <<>>
        /\ batchM.batch_size = Len(writes)
        /\ batchM.write_bytes = batchBytes

(* Writes and bytes of the batch that record_batch has yet to count.       *)
WritesLeft == IF wpc \in {"collect", "io"}
                 \/ "write_request_count" \in recording
              THEN Len(writes) ELSE 0
BytesLeft == IF wpc \in {"collect", "io"} \/ "write_bytes" \in recording
             THEN batchBytes ELSE 0

(* Callbacks still to be called are counted too.                           *)
CallCount ==
    called + (IF wpc = "callbacks" THEN Len(writes) ELSE 0)
        <= metrics["write_request_count"]
           + (IF "write_request_count" \in recording
              THEN Len(writes) ELSE 0)

(* Where the account of writes starts.                                     *)
Counted == metrics["write_request_count"] + WritesLeft

(* t[i]: the writes up to the i-th request of the queue q.                 *)
IsWrite(r) == IF r.kind = "write" THEN 1 ELSE 0
CountsQueue(t, q, base) ==
    /\ t[0] = base
    /\ \A i \in 1..Len(q) : t[i] = t[i - 1] + IsWrite(q[i])
    /\ \A i, j \in 0..Len(q) : i <= j => t[i] <= t[j]

WriteCount ==
    \E t \in [0..Len(queue) -> Nat] :
        /\ CountsQueue(t, queue, Counted)
        /\ t[Len(queue)] <= accepted
        /\ result = "ok" => t[Len(queue)] = accepted

ByteCount ==
    result = "ok" =>
        creq.cum = metrics["write_bytes"] + BytesLeft + QueueBytes
                   + (IF cpc \in Sending THEN creq.size ELSE 0)

(* The sizes of batches: the maximum bounds the latest, also while only    *)
(* one of the two is recorded.                                             *)
SizeInv ==
    /\ metrics["batch_size_max"] <= MaxItems
    /\ \/ metrics["last_batch_size"] <= metrics["batch_size_max"]
       \/ /\ "batch_size_max" \in recording
          /\ metrics["last_batch_size"] = batchM.batch_size
    /\ recording /= {} /\ "batch_size_max" \notin recording
           => batchM.batch_size <= metrics["batch_size_max"]
    /\ recording /= {} /\ "last_batch_size" \notin recording
           => metrics["last_batch_size"] = batchM.batch_size
    /\ metrics["write_request_count"] > 0
           => metrics["last_batch_size"] > 0 \/ "last_batch_size" \in recording

(* Nothing moves under a snapshot of an idle worker.                       *)
SnapInv ==
    snapIdle =>
        /\ result = "ok" /\ queue = <<>> /\ recording = {}
        /\ wpc \in {"recv", "stop", "exit", "done"}
        /\ cpc \in {"idle", "closed"}
        /\ \A c \in Counters \ unread : snap[c] = metrics[c]

MInv == /\ MType /\ RecInv /\ CallCount /\ WriteCount /\ ByteCount
        /\ SizeInv /\ SnapInv

-----------------------------------------------------------------------------
(* A step with metrics is a step of the two threads, or moves none.        *)
LEMMA MStepIsStep ==
    ASSUME [MNext]_mvars PROVE [Next]_vars
<1>1. CASE UNCHANGED mvars
      BY <1>1 DEF mvars
<1>2. CASE \E res \in {"ok", "err"} : MIo(res)
      BY <1>2 DEF MIo, Next, WorkerStep
<1>3. CASE \E c \in Counters : RecordBatch(c)
      BY <1>3 DEF RecordBatch
<1>4. CASE MCallback \/ MWorker
      BY <1>4 DEF MCallback, MWorker, Next, WorkerStep
<1>5. CASE BeginSnapshot \/ \E c \in Counters : LoadCounter(c)
      BY <1>5 DEF BeginSnapshot, LoadCounter
<1>6. CASE MClient
      BY <1>6 DEF MClient, Next
<1> QED BY <1>1, <1>2, <1>3, <1>4, <1>5, <1>6 DEF MNext

(* The first queued request is still pending: done_seq has not reached it. *)
LEMMA QueuedIsPending ==
    ASSUME IInv, OInv, queue /= <<>>
    PROVE  doneSeq < sentSeq
<1>1. /\ Len(queue) \in Nat /\ Len(queue) >= 1 /\ Len(writes) \in Nat
      /\ sentSeq \in 0..MaxSeq /\ doneSeq \in 0..MaxSeq
      /\ outcome \in [1..MaxSeq -> Outcomes]
      BY DEF IInv, TypeOK
<1>2. /\ Accepted \in Int /\ QBase \in Int /\ WBase \in Int
      /\ QBase = Accepted - Len(queue) /\ WBase <= QBase /\ WBase >= 0
      /\ Accepted <= sentSeq
  <2>1. /\ Accepted \in Int /\ QBase \in Int /\ WBase \in Int
        /\ WBase <= QBase
        BY BorderTypes DEF IInv
  <2>2. WBase >= 0
        BY DEF OInv, SeqInv, SeqChain
  <2>3. Accepted <= sentSeq
        BY <1>1 DEF Accepted
  <2> QED BY <2>1, <2>2, <2>3 DEF QBase
<1>3. WBase < Accepted /\ Accepted \in 1..MaxSeq
      BY <1>1, <1>2, ConstantsAssumption
<1>4. outcome[Accepted] = "pending"
      BY <1>2, <1>3 DEF OInv, ZoneInv, Zones
<1>5. Accepted \notin 1..doneSeq
      BY <1>4 DEF OInv, ZoneInv, DoneMeansHandled
<1> QED BY <1>1, <1>2, <1>3, <1>5

(* Each step of either thread keeps what EInv says of them.                *)
LEMMA StepEInv ==
    ASSUME IInv, OInv, EInv, [Next]_vars
    PROVE  EInv'
<1> USE DEF EInv, BatchLen, Ends, Behind, Busy
<1>1. CASE UNCHANGED vars
      BY <1>1 DEF vars, clientVars, workerVars, sharedVars
<1>2. CASE ClientCall
      BY <1>2 DEF ClientCall, Send, WaitIdle, Shutdown, BeginSend, workerVars,
                  sharedVars
<1>3. CASE AcquireWait \/ StatReply \/ WaitForTurn \/ Close \/ Join
      BY <1>3 DEF AcquireWait, StatReply, WaitForTurn, Close, Join,
                  workerVars, sharedVars
<1>4. CASE Acquire
  <2>1. sentSeq' = sentSeq + 1 /\ sentSeq \in Nat /\ doneSeq \in Nat
        BY <1>4 DEF Acquire, OInv, SeqInv, ClientSeq, IInv, TypeOK
  <2> QED BY <1>4, <2>1 DEF Acquire, workerVars
<1>5. CASE Push
  <2>1. tx
        BY <1>5 DEF Push, OInv, LifeInv, ClientLife, Sending
  <2> QED BY <1>5, <2>1 DEF Push, workerVars
<1>6. CASE PushFail \/ ReleaseErr
  <2>1. UNCHANGED <<tx, sentSeq, wpc, writes, result, doneSeq, failed, queue>>
        BY <1>6 DEF PushFail, ReleaseErr, workerVars
  <2> QED BY <2>1
<1>7. CASE Recv
  <2>1. doneSeq < sentSeq
        BY <1>7, QueuedIsPending DEF Recv
  <2>2. \/ writes' = <<Head(queue)>> /\ wpc' = "collect"
        \/ writes' = <<>> /\ wpc' = "nonflush"
        BY <1>7 DEF Recv
  <2>3. Len(writes') <= MaxItems /\ (wpc' = "collect" => writes' /= <<>>)
    <3>1. CASE writes' = <<Head(queue)>>
      <4>1. Len(writes') = 1 /\ writes' /= <<>>
            BY <3>1
      <4> QED BY <4>1, ConstantsAssumption
    <3>2. CASE writes' = <<>> /\ wpc' = "nonflush"
      <4>1. Len(writes') = 0
            BY <3>2
      <4> QED BY <3>2, <4>1, ConstantsAssumption
    <3> QED BY <2>2, <3>1, <3>2
  <2>4. UNCHANGED <<tx, sentSeq, result, doneSeq, failed>> /\ result = "ok"
        BY <1>7 DEF Recv, clientVars
  <2> QED BY <2>1, <2>2, <2>3, <2>4
<1>8. CASE Collect
  <2>1. writes \in Seq(Request) /\ Head(queue) \in Request
        BY <1>8 DEF Collect, IInv, TypeOK
  <2>2. writes' /= <<>> /\ Len(writes') <= MaxItems
        BY <1>8, <2>1, ConstantsAssumption DEF Collect
  <2> QED BY <1>8, <2>2 DEF Collect, clientVars
<1>9. CASE RecvClosed \/ CollectEnd
      BY <1>9 DEF RecvClosed, CollectEnd, clientVars, sharedVars
<1>10. CASE (\E res \in {"ok", "err"} : Io(res)) \/ IoPanic
      BY <1>10 DEF Io, IoPanic, clientVars, sharedVars
<1>11. CASE Callback \/ CallbackPanic
  <2>1. Len(writes') <= MaxItems
        BY <1>11, ConstantsAssumption
        DEF Callback, CallbackPanic, IInv, TypeOK
  <2> QED BY <1>11, <2>1 DEF Callback, CallbackPanic, clientVars
<1>12. CASE Release
      BY <1>12 DEF Release, AfterBatch, IInv, Shape, ResultInv, TypeOK
<1>13. CASE HandleNonFlush \/ HandleNonFlushErr
      BY <1>13 DEF HandleNonFlush, HandleNonFlushErr, clientVars, sharedVars
<1>14. CASE Complete
      BY <1>14 DEF Complete
<1>15. CASE Unwind
      BY <1>15, ConstantsAssumption DEF Unwind, clientVars
<1>16. CASE ReleaseAll \/ Fail
      BY <1>16 DEF ReleaseAll, Fail, AfterRun
<1>17. CASE Exit
      BY <1>17 DEF Exit, clientVars
<1> QED BY <1>1, <1>2, <1>3, <1>4, <1>5, <1>6, <1>7, <1>8, <1>9, <1>10,
           <1>11, <1>12, <1>13, <1>14, <1>15, <1>16, <1>17
        DEF Next, ClientStep, WorkerStep, Closed

-----------------------------------------------------------------------------
(* The account of writes.                                                  *)

(* It stays when the queue stays.                                          *)
LEMMA CountSame ==
    ASSUME WriteCount, UNCHANGED <<queue, accepted>>, Counted' = Counted,
           result' = "ok" => result = "ok"
    PROVE  WriteCount'
BY DEF WriteCount

(* A request that is received leaves the queue for the batch.              *)
LEMMA CountTake ==
    ASSUME TypeOK, WriteCount, queue /= <<>>, queue' = Tail(queue),
           Counted' = Counted + IsWrite(Head(queue)),
           UNCHANGED <<accepted, result>>
    PROVE  WriteCount'
<1>1. PICK t \in [0..Len(queue) -> Nat] :
          /\ CountsQueue(t, queue, Counted) /\ t[Len(queue)] <= accepted
          /\ result = "ok" => t[Len(queue)] = accepted
      BY DEF WriteCount
<1>2. /\ Len(queue) \in Nat /\ Len(queue) >= 1 /\ Head(queue) = queue[1]
      /\ Len(queue') = Len(queue) - 1
      /\ \A i \in 1..Len(queue') : queue'[i] = queue[i + 1]
      BY DEF TypeOK
<1> DEFINE u == [i \in 0..Len(queue') |-> t[i + 1]]
<1>3. u \in [0..Len(queue') -> Nat]
      BY <1>2
<1>4. u[0] = Counted'
  <2>1. t[0] = Counted /\ t[1] = t[1 - 1] + IsWrite(queue[1])
        BY <1>1, <1>2 DEF CountsQueue
  <2>2. u[0] = t[1]
        BY <1>2
  <2> QED BY <1>2, <2>1, <2>2
<1>5. ASSUME NEW i \in 1..Len(queue')
      PROVE  u[i] = u[i - 1] + IsWrite(queue'[i])
  <2>1. i + 1 \in 1..Len(queue) /\ queue'[i] = queue[i + 1]
        /\ (i + 1) - 1 = i
        BY <1>2
  <2>2. t[i + 1] = t[(i + 1) - 1] + IsWrite(queue[i + 1])
        BY <1>1, <2>1 DEF CountsQueue
  <2>3. u[i] = t[i + 1] /\ u[i - 1] = t[i]
        BY <1>2
  <2> QED BY <2>1, <2>2, <2>3
<1>6. \A i, j \in 0..Len(queue') : i <= j => u[i] <= u[j]
      BY <1>1, <1>2 DEF CountsQueue
<1>7. u[Len(queue')] = t[Len(queue)]
      BY <1>2
<1> HIDE DEF u
<1>8. CountsQueue(u, queue', Counted')
      BY <1>4, <1>5, <1>6 DEF CountsQueue
<1> QED BY <1>1, <1>3, <1>7, <1>8 DEF WriteCount

(* A request that is sent is accepted.                                     *)
LEMMA CountPush ==
    ASSUME TypeOK, MType, WriteCount, queue' = Append(queue, creq),
           Counted' = Counted, accepted' = accepted + IsWrite(creq),
           UNCHANGED result
    PROVE  WriteCount'
<1>1. PICK t \in [0..Len(queue) -> Nat] :
          /\ CountsQueue(t, queue, Counted) /\ t[Len(queue)] <= accepted
          /\ result = "ok" => t[Len(queue)] = accepted
      BY DEF WriteCount
<1>2. /\ Len(queue) \in Nat /\ Len(queue') = Len(queue) + 1
      /\ queue'[Len(queue')] = creq
      /\ \A i \in 1..Len(queue) : queue'[i] = queue[i]
      BY DEF TypeOK
<1>3. IsWrite(creq) \in Nat /\ accepted \in Nat
      BY DEF IsWrite, MType
<1> DEFINE u == [i \in 0..Len(queue') |->
                   IF i \in 0..Len(queue) THEN t[i]
                   ELSE t[Len(queue)] + IsWrite(creq)]
<1>4. /\ u \in [0..Len(queue') -> Nat]
      /\ \A i \in 0..Len(queue) : u[i] = t[i]
      /\ u[Len(queue')] = t[Len(queue)] + IsWrite(creq)
      BY <1>2, <1>3
<1> HIDE DEF u
<1>5. u[0] = Counted'
      BY <1>1, <1>2, <1>4 DEF CountsQueue
<1>6. ASSUME NEW i \in 1..Len(queue')
      PROVE  u[i] = u[i - 1] + IsWrite(queue'[i])
  <2>1. CASE i \in 1..Len(queue)
    <3>1. t[i] = t[i - 1] + IsWrite(queue[i])
          BY <1>1, <2>1 DEF CountsQueue
    <3>2. i \in 0..Len(queue) /\ i - 1 \in 0..Len(queue)
          BY <1>2, <2>1
    <3> QED BY <1>2, <1>4, <2>1, <3>1, <3>2
  <2>2. CASE i = Len(queue')
    <3>1. i - 1 = Len(queue) /\ i - 1 \in 0..Len(queue)
          BY <1>2, <2>2
    <3> QED BY <1>2, <1>4, <2>2, <3>1
  <2> QED BY <1>2, <2>1, <2>2
<1>7. ASSUME NEW i \in 0..Len(queue'), NEW j \in 0..Len(queue'), i <= j
      PROVE  u[i] <= u[j]
  <2>1. CASE j \in 0..Len(queue)
    <3>1. i \in 0..Len(queue)
          BY <1>2, <1>7, <2>1
    <3> QED BY <1>1, <1>4, <1>7, <2>1, <3>1 DEF CountsQueue
  <2>2. CASE j = Len(queue') /\ i \in 0..Len(queue)
    <3>1. t[i] <= t[Len(queue)] /\ t[i] \in Nat /\ t[Len(queue)] \in Nat
          BY <1>1, <1>2, <2>2 DEF CountsQueue
    <3> QED BY <1>3, <1>4, <2>2, <3>1
  <2>3. CASE j = Len(queue') /\ i = j
        BY <1>4, <2>3
  <2> QED BY <1>2, <1>7, <2>1, <2>2, <2>3
<1>8. CountsQueue(u, queue', Counted')
      BY <1>5, <1>6, <1>7 DEF CountsQueue
<1>9. /\ u[Len(queue')] <= accepted'
      /\ result' = "ok" => u[Len(queue')] = accepted'
  <2>1. t[Len(queue)] \in Nat
        BY <1>1, <1>2
  <2> QED BY <1>1, <1>3, <1>4, <2>1
<1> QED BY <1>4, <1>8, <1>9 DEF WriteCount

(* A failure may drop writes that were not counted.                        *)
LEMMA CountLess ==
    ASSUME TypeOK, WriteCount, UNCHANGED <<queue, accepted>>,
           Counted \in Nat, Counted' \in Nat, Counted' <= Counted,
           accepted \in Nat, result' /= "ok"
    PROVE  WriteCount'
<1>1. PICK t \in [0..Len(queue) -> Nat] :
          CountsQueue(t, queue, Counted) /\ t[Len(queue)] <= accepted
      BY DEF WriteCount
<1>2. Len(queue) \in Nat /\ t[0] = Counted
      BY <1>1 DEF TypeOK, CountsQueue
<1> DEFINE u == [i \in 0..Len(queue) |-> t[i] - (Counted - Counted')]
<1>3. \A i \in 0..Len(queue) :
          t[i] \in Nat /\ Counted <= t[i] /\ u[i] = t[i] - (Counted - Counted')
      BY <1>1, <1>2 DEF CountsQueue
<1>4. u \in [0..Len(queue) -> Nat]
      BY <1>3
<1> HIDE DEF u
<1>5. u[0] = Counted' /\ u[Len(queue)] <= accepted
      BY <1>1, <1>2, <1>3
<1>6. ASSUME NEW i \in 1..Len(queue)
      PROVE  u[i] = u[i - 1] + IsWrite(queue[i])
  <2>1. t[i] = t[i - 1] + IsWrite(queue[i])
        BY <1>1 DEF CountsQueue
  <2>2. i \in 0..Len(queue) /\ i - 1 \in 0..Len(queue)
        /\ IsWrite(queue[i]) \in Nat
        BY <1>2 DEF IsWrite
  <2>3. /\ u[i] = t[i] - (Counted - Counted') /\ t[i] \in Nat
        /\ u[i - 1] = t[i - 1] - (Counted - Counted') /\ t[i - 1] \in Nat
        BY <1>3, <2>2
  <2> HIDE <1>3
  <2> QED BY <2>1, <2>2, <2>3
<1>7. \A i, j \in 0..Len(queue) : i <= j => u[i] <= u[j]
      BY <1>1, <1>3 DEF CountsQueue
<1>8. CountsQueue(u, queue', Counted')
      BY <1>5, <1>6, <1>7 DEF CountsQueue
<1> QED BY <1>4, <1>5, <1>8 DEF WriteCount

(* When the channel goes, what was counted remains.                        *)
LEMMA CountGone ==
    ASSUME TypeOK, WriteCount, Counted \in Nat, Counted' = Counted,
           queue' = <<>>, UNCHANGED <<accepted, result>>,
           accepted \in Nat, result = "ok" => queue = <<>>
    PROVE  WriteCount'
<1>1. PICK t \in [0..Len(queue) -> Nat] :
          /\ CountsQueue(t, queue, Counted) /\ t[Len(queue)] <= accepted
          /\ result = "ok" => t[Len(queue)] = accepted
      BY DEF WriteCount
<1>2. /\ Len(queue) \in Nat /\ t[0] = Counted /\ Len(queue') = 0
      /\ t[0] <= t[Len(queue)] /\ t[Len(queue)] \in Nat
      BY <1>1 DEF TypeOK, CountsQueue
<1> DEFINE u == [i \in 0..0 |-> Counted]
<1>3. u \in [0..0 -> Nat] /\ u[0] = Counted
      OBVIOUS
<1> HIDE DEF u
<1>4. \A i \in 0..0 : i = 0
      OBVIOUS
<1>5. CountsQueue(u, queue', Counted')
      BY <1>2, <1>3, <1>4 DEF CountsQueue
<1>6. u[0] <= accepted' /\ (result' = "ok" => u[0] = accepted')
  <2>1. result = "ok" => Len(queue) = 0
        OBVIOUS
  <2> QED BY <1>1, <1>2, <1>3, <2>1
<1> QED BY <1>2, <1>3, <1>5, <1>6 DEF WriteCount

-----------------------------------------------------------------------------
(* The types of what the accounts add up.                                  *)
LEMMA CountTypes ==
    ASSUME TypeOK, MType
    PROVE  /\ WritesLeft \in Nat /\ BytesLeft \in Nat /\ Counted \in Nat
           /\ Len(writes) \in Nat /\ batchBytes \in Nat
           /\ metrics["write_request_count"] \in Nat
           /\ metrics["write_bytes"] \in Nat
           /\ metrics["batch_size_max"] \in Nat
           /\ metrics["last_batch_size"] \in Nat
           /\ accepted \in Nat /\ called \in Nat
<1>1. Len(writes) \in Nat /\ batchBytes \in Nat
      BY DEF TypeOK
<1>2. WritesLeft \in Nat /\ BytesLeft \in Nat
      BY <1>1 DEF WritesLeft, BytesLeft
<1>3. /\ metrics["write_request_count"] \in Nat
      /\ metrics["write_bytes"] \in Nat
      /\ metrics["batch_size_max"] \in Nat
      /\ metrics["last_batch_size"] \in Nat
      BY DEF MType, Counters
<1> QED BY <1>1, <1>2, <1>3 DEF Counted, MType

(* A step of the worker, outside record_batch, that moves no write and no  *)
(* byte between the accounts.                                              *)
LEMMA WorkerStill ==
    ASSUME TypeOK, MInv, recording = {},
           UNCHANGED <<metricVars, snapVars, accepted, called, queue, creq>>,
           WritesLeft' = WritesLeft, BytesLeft' = BytesLeft,
           cpc' \in Sending <=> cpc \in Sending,
           result' = "ok" => result = "ok",
           wpc' /= "callbacks", SnapInv'
    PROVE  MInv'
<1> USE DEF metricVars, snapVars
<1>1. MType' /\ RecInv' /\ SizeInv'
      BY DEF MInv, MType, RecInv, SizeInv
<1>2. CallCount'
      BY CountTypes DEF MInv, CallCount
<1>3. WriteCount'
      BY CountSame DEF MInv, Counted
<1>4. ByteCount'
      BY QueueBytesUnchanged DEF MInv, ByteCount
<1> QED BY <1>1, <1>2, <1>3, <1>4 DEF MInv

(* The batch is written: record_batch has all of it before it.             *)
LEMMA MIoStep ==
    ASSUME IInv, EInv, MInv, NEW res \in {"ok", "err"}, MIo(res)
    PROVE  MInv'
<1>1. /\ wpc = "io" /\ wpc' = "callbacks" /\ recording = {}
      /\ recording' = Counters /\ result = "ok" /\ writes /= <<>>
      /\ UNCHANGED <<writes, batchBytes, queue, creq, cpc, metrics, snapVars,
                     accepted, called>>
      /\ batchM' = [batch_size |-> Len(writes), write_bytes |-> batchBytes]
      /\ ~snapIdle
      BY DEF MIo, Io, BatchMetrics, MInv, RecInv, EInv, Ends, BatchLen,
             SnapInv, clientVars, sharedVars
<1>2. TypeOK /\ Len(writes) \in Nat /\ batchBytes \in Nat
      BY DEF IInv, TypeOK
<1>3. MType'
      BY <1>1, <1>2 DEF MInv, MType, snapVars
<1>4. RecInv' /\ SizeInv' /\ SnapInv'
      BY <1>1 DEF RecInv, SizeInv, SnapInv, MInv, Counters, snapVars
<1>5. WritesLeft' = WritesLeft /\ BytesLeft' = BytesLeft
      BY <1>1 DEF WritesLeft, BytesLeft, Counters
<1>6. CallCount'
      BY <1>1, <1>2, CountTypes DEF MInv, CallCount, Counters
<1>7. WriteCount'
      BY <1>1, <1>5, CountSame DEF MInv, Counted
<1>8. ByteCount'
      BY <1>1, <1>5, QueueBytesUnchanged DEF MInv, ByteCount
<1> QED BY <1>3, <1>4, <1>6, <1>7, <1>8 DEF MInv

(* record_batch moves writes and bytes from the batch to the counters, one *)
(* counter at a time and in any order.                                     *)
LEMMA RecordStep ==
    ASSUME IInv, EInv, MInv, NEW c \in Counters, RecordBatch(c)
    PROVE  MInv'
<1>1. /\ c \in recording /\ recording' = recording \ {c}
      /\ wpc = "callbacks" /\ writes /= <<>> /\ ~snapIdle
      /\ batchM.batch_size = Len(writes) /\ batchM.write_bytes = batchBytes
      /\ UNCHANGED <<vars, batchM, snapVars, accepted, called>>
      BY DEF RecordBatch, MInv, RecInv, SnapInv
<1>2. UNCHANGED <<wpc, cpc, writes, batchBytes, queue, creq, result>>
      BY <1>1 DEF vars, clientVars, workerVars, sharedVars
<1>3. /\ TypeOK /\ MType /\ Len(writes) \in Nat /\ batchBytes \in Nat
      /\ Len(writes) > 0 /\ Len(writes) <= MaxItems
      BY <1>1 DEF IInv, TypeOK, MInv, EInv, BatchLen
<1>4. Recorded(c) \in Nat
  <2>1. /\ metrics["write_request_count"] \in Nat
        /\ metrics["write_bytes"] \in Nat
        /\ metrics["batch_size_max"] \in Nat
        BY <1>3, CountTypes
  <2>2. batchM.batch_size \in Nat /\ batchM.write_bytes \in Nat
        BY <1>1, <1>3
  <2> QED BY <2>1, <2>2 DEF Recorded, MaxOf, Counters
<1>5. /\ metrics' = [metrics EXCEPT ![c] = Recorded(c)]
      /\ metrics'[c] = Recorded(c)
      /\ \A d \in Counters \ {c} : metrics'[d] = metrics[d]
      BY <1>3 DEF RecordBatch, MType
<1>6. MType'
      BY <1>1, <1>3, <1>4, <1>5 DEF MType, snapVars
<1>7. RecInv' /\ SnapInv'
      BY <1>1, <1>2 DEF RecInv, SnapInv, snapVars
<1>8. /\ Counted' = Counted
      /\ CallCount'
  <2>1. CASE c = "write_request_count"
    <3>1. metrics'[c] = metrics[c] + Len(writes)
          BY <1>1, <1>5, <2>1 DEF Recorded
    <3>2. WritesLeft = Len(writes) /\ WritesLeft' = 0
          BY <1>1, <1>2, <2>1 DEF WritesLeft
    <3> QED BY <1>1, <1>2, <1>3, <2>1, <3>1, <3>2, CountTypes
            DEF Counted, CallCount, MInv
  <2>2. CASE c /= "write_request_count"
    <3>1. UNCHANGED metrics["write_request_count"]
          BY <1>5, <2>2 DEF Counters
    <3>2. "write_request_count" \in recording'
              <=> "write_request_count" \in recording
          BY <1>1, <2>2
    <3> QED BY <1>1, <1>2, <3>1, <3>2
            DEF Counted, WritesLeft, CallCount, MInv
  <2> QED BY <2>1, <2>2
<1>9. WriteCount'
      BY <1>1, <1>2, <1>8, CountSame DEF MInv
<1>10. ByteCount'
  <2>1. metrics'["write_bytes"] + BytesLeft' = metrics["write_bytes"] + BytesLeft
    <3>1. CASE c = "write_bytes"
      <4>1. metrics'[c] = metrics[c] + batchBytes
            BY <1>1, <1>5, <3>1 DEF Recorded
      <4>2. BytesLeft = batchBytes /\ BytesLeft' = 0
            BY <1>1, <1>2, <3>1 DEF BytesLeft
      <4> QED BY <1>3, <3>1, <4>1, <4>2, CountTypes
    <3>2. CASE c /= "write_bytes"
      <4>1. UNCHANGED metrics["write_bytes"]
            BY <1>5, <3>2 DEF Counters
      <4> QED BY <1>1, <1>2, <3>2, <4>1 DEF BytesLeft
    <3> QED BY <3>1, <3>2
  <2> QED BY <1>2, <2>1, QueueBytesUnchanged DEF MInv, ByteCount
<1>11. SizeInv'
  <2>0. /\ MaxItems \in Nat /\ SizeInv
        BY ConstantsAssumption DEF MInv
  <2>1. CASE c = "batch_size_max"
    <3>1. metrics'[c] = MaxOf(metrics[c], Len(writes))
          BY <1>1, <1>5, <2>1 DEF Recorded
    <3>2. /\ UNCHANGED metrics["last_batch_size"]
          /\ UNCHANGED metrics["write_request_count"]
          BY <1>5, <2>1 DEF Counters
    <3>3. /\ metrics["batch_size_max"] \in Nat
          /\ metrics["last_batch_size"] \in Nat
          BY <1>3, CountTypes
    <3>4. /\ metrics'["batch_size_max"] \in Nat
          /\ metrics["batch_size_max"] <= metrics'["batch_size_max"]
          /\ Len(writes) <= metrics'["batch_size_max"]
          /\ metrics'["batch_size_max"] <= MaxItems
          BY <1>3, <2>0, <2>1, <3>1, <3>3 DEF SizeInv, MaxOf
    <3>5. /\ batchM' = batchM /\ batchM.batch_size = Len(writes)
          /\ "batch_size_max" \notin recording'
          /\ "last_batch_size" \in recording' <=> "last_batch_size" \in recording
          /\ recording /= {}
          BY <1>1, <2>1
    <3>6. metrics["last_batch_size"] <= metrics'["batch_size_max"]
          BY <1>3, <2>0, <3>3, <3>4, <3>5 DEF SizeInv
    <3> QED BY <2>0, <3>2, <3>4, <3>5, <3>6 DEF SizeInv
  <2>2. CASE c = "last_batch_size"
    <3>1. metrics'[c] = Len(writes)
          BY <1>1, <1>5, <2>2 DEF Recorded
    <3>2. /\ UNCHANGED metrics["batch_size_max"]
          /\ UNCHANGED metrics["write_request_count"]
          BY <1>5, <2>2 DEF Counters
    <3> QED BY <1>1, <1>3, <2>0, <2>2, <3>1, <3>2, CountTypes DEF SizeInv
  <2>3. CASE c = "write_bytes"
    <3>1. /\ UNCHANGED metrics["batch_size_max"]
          /\ UNCHANGED metrics["last_batch_size"]
          /\ UNCHANGED metrics["write_request_count"]
          BY <1>5, <2>3 DEF Counters
    <3> QED BY <1>1, <2>0, <2>3, <3>1 DEF SizeInv
  <2>4. CASE c = "write_request_count"
    <3>1. /\ UNCHANGED metrics["batch_size_max"]
          /\ UNCHANGED metrics["last_batch_size"]
          BY <1>5, <2>4 DEF Counters
    <3> QED BY <1>1, <2>0, <2>4, <3>1, CountTypes, <1>3 DEF SizeInv
  <2> QED BY <2>1, <2>2, <2>3, <2>4 DEF Counters
<1> QED BY <1>6, <1>7, <1>8, <1>9, <1>10, <1>11 DEF MInv

(* A callback is called after the batch was counted.                       *)
LEMMA MCallbackStep ==
    ASSUME IInv, MInv, MCallback
    PROVE  MInv'
<1>1. /\ recording = {} /\ wpc = "callbacks" /\ writes /= <<>>
      /\ writes' = Tail(writes) /\ wpc' \in {"callbacks", "unwind"}
      /\ result' = "ok" => result = "ok"
      /\ called' = called + 1 /\ ~snapIdle
      /\ UNCHANGED <<metricVars, snapVars, accepted, queue, creq, cpc>>
      BY DEF MCallback, Callback, CallbackPanic, MInv, SnapInv, clientVars
<1>2. TypeOK /\ MType /\ Len(writes) \in Nat /\ Len(writes') = Len(writes) - 1
      BY <1>1 DEF IInv, TypeOK, MInv
<1>3. MType' /\ RecInv' /\ SizeInv' /\ SnapInv'
  <2>1. MType'
        BY <1>1, <1>2 DEF MType, metricVars, snapVars
  <2>2. RecInv'
        BY <1>1 DEF RecInv, metricVars
  <2>3. SizeInv'
        BY <1>1 DEF MInv, SizeInv, metricVars
  <2>4. SnapInv'
        BY <1>1 DEF SnapInv, snapVars
  <2> QED BY <2>1, <2>2, <2>3, <2>4
<1>4. WritesLeft' = WritesLeft /\ BytesLeft' = BytesLeft
      BY <1>1 DEF WritesLeft, BytesLeft, metricVars
<1>5. CallCount'
      BY <1>1, <1>2, CountTypes DEF MInv, CallCount, metricVars
<1>6. WriteCount'
      BY <1>1, <1>4, CountSame DEF MInv, Counted, metricVars
<1>7. ByteCount'
      BY <1>1, <1>4, QueueBytesUnchanged DEF MInv, ByteCount, metricVars
<1> QED BY <1>3, <1>5, <1>6, <1>7 DEF MInv

(* Receiving moves a request from the queue to the batch.                  *)
LEMMA TakeMStep ==
    ASSUME IInv, OInv, EInv, MInv, Recv \/ Collect,
           UNCHANGED <<metricVars, snapVars, accepted, called>>
    PROVE  MInv'
<1> DEFINE r == Head(queue)
<1>1. /\ queue /= <<>> /\ queue' = Tail(queue) /\ wpc \in {"recv", "collect"}
      /\ recording = {} /\ ~snapIdle
      /\ wpc' \in {"collect", "nonflush", "io"}
      /\ UNCHANGED <<result, creq, cpc, metrics, recording>>
      BY DEF Recv, Collect, MInv, RecInv, SnapInv, clientVars, metricVars
<1>2. /\ TypeOK /\ MType /\ writes \in Seq(Request) /\ r \in Request
      /\ Len(writes) \in Nat /\ batchBytes \in Nat
      BY <1>1 DEF IInv, TypeOK, MInv
<1>3. /\ QueueBytes' = QueueBytes - r.size
      /\ r.kind /= "write" => r.size = 0
      /\ r.size \in Nat /\ QueueBytes \in Nat
      BY <1>1, ChainTail, QueueBytesNat DEF IInv, ByteInv, TypeOK
<1>4. /\ WritesLeft' = WritesLeft + IsWrite(r)
      /\ BytesLeft' = BytesLeft + r.size
  <2>1. CASE Recv /\ r.kind = "write"
    <3>1. writes' = <<r>> /\ wpc' = "collect" /\ batchBytes' = r.size
          /\ wpc = "recv"
          BY <2>1 DEF Recv
    <3>2. Len(writes') = 1
          BY <3>1
    <3>3. WritesLeft = 0 /\ BytesLeft = 0
          BY <1>1, <3>1 DEF WritesLeft, BytesLeft
    <3>4. WritesLeft' = 1 /\ BytesLeft' = r.size /\ IsWrite(r) = 1
          BY <1>1, <2>1, <3>1, <3>2 DEF WritesLeft, BytesLeft, IsWrite
    <3> QED BY <1>3, <3>3, <3>4
  <2>2. CASE Recv /\ r.kind /= "write"
    <3>1. wpc' = "nonflush" /\ wpc = "recv"
          BY <2>2 DEF Recv
    <3> QED BY <1>1, <2>2, <1>3, <3>1 DEF WritesLeft, BytesLeft, IsWrite
  <2>3. CASE Collect /\ r.kind = "write"
    <3>1. /\ writes' = Append(writes, r) /\ wpc' = wpc /\ wpc = "collect"
          /\ batchBytes' = batchBytes + r.size
          BY <2>3 DEF Collect
    <3>2. Len(writes') = Len(writes) + 1
          BY <1>2, <3>1
    <3> QED BY <1>1, <2>3, <3>1, <3>2 DEF WritesLeft, BytesLeft, IsWrite
  <2>4. CASE Collect /\ r.kind /= "write"
    <3>1. /\ writes' = writes /\ wpc' = "io" /\ wpc = "collect"
          /\ batchBytes' = batchBytes
          BY <2>4 DEF Collect
    <3> QED BY <1>1, <1>2, <1>3, <2>4, <3>1
            DEF WritesLeft, BytesLeft, IsWrite
  <2> QED BY <2>1, <2>2, <2>3, <2>4
<1>5. MType' /\ RecInv' /\ SizeInv' /\ SnapInv'
      BY <1>1, <1>2
      DEF MInv, MType, RecInv, SizeInv, SnapInv, metricVars, snapVars
<1>6. CallCount'
      BY <1>1, <1>2, CountTypes DEF MInv, CallCount
<1>7. WriteCount'
  <2>1. Counted' = Counted + IsWrite(r)
        BY <1>1, <1>2, <1>4, CountTypes DEF Counted, IsWrite
  <2> QED BY <1>1, <1>2, <2>1, CountTake DEF MInv
<1>8. ByteCount'
  <2>1. metrics["write_bytes"] \in Nat /\ BytesLeft \in Nat
        BY <1>2, CountTypes
  <2>2. BytesLeft' + QueueBytes' = BytesLeft + QueueBytes
        BY <1>3, <1>4, <2>1
  <2>3. /\ creq' = creq /\ result' = result /\ metrics' = metrics
        /\ cpc' = cpc /\ creq.size \in Nat
        BY <1>1, <1>2 DEF Request, TypeOK
  <2>4. BytesLeft' \in Nat /\ QueueBytes' \in Int
        BY <1>3, <1>4, <2>1
  <2>5. SUFFICES ASSUME result = "ok"
                 PROVE  creq.cum = metrics["write_bytes"] + BytesLeft'
                            + QueueBytes'
                            + (IF cpc \in Sending THEN creq.size ELSE 0)
        BY <2>3 DEF ByteCount
  <2>6. creq.cum = metrics["write_bytes"] + BytesLeft + QueueBytes
                   + (IF cpc \in Sending THEN creq.size ELSE 0)
        BY <2>5 DEF MInv, ByteCount
  <2> QED BY <1>3, <2>1, <2>2, <2>3, <2>4, <2>6
<1> QED BY <1>5, <1>6, <1>7, <1>8 DEF MInv

(* The worker's other steps.                                               *)
LEMMA MWorkerStep ==
    ASSUME IInv, OInv, EInv, MInv, MWorker
    PROVE  MInv'
<1>1. /\ recording = {} /\ TypeOK /\ MType
      /\ UNCHANGED <<metricVars, snapVars, accepted, called>>
      BY DEF MWorker, MInv, IInv
<1>2. CASE Recv \/ Collect
      BY <1>1, <1>2, TakeMStep
<1>3. CASE RecvClosed
  <2>1. /\ wpc = "recv" /\ wpc' = "stop"
        /\ UNCHANGED <<result, queue, creq, cpc>>
        BY <1>3 DEF RecvClosed, clientVars, sharedVars
  <2>2. SnapInv'
        BY <1>1, <2>1 DEF MInv, SnapInv, metricVars, snapVars
  <2> QED BY <1>1, <2>1, <2>2, WorkerStill
          DEF WritesLeft, BytesLeft, metricVars
<1>4. CASE CollectEnd
  <2>1. /\ wpc = "collect" /\ wpc' = "io"
        /\ UNCHANGED <<result, queue, creq, cpc, writes, batchBytes>>
        BY <1>4 DEF CollectEnd, clientVars, sharedVars
  <2>2. SnapInv'
        BY <1>1, <2>1 DEF MInv, SnapInv, snapVars
  <2> QED BY <1>1, <2>1, <2>2, WorkerStill
          DEF WritesLeft, BytesLeft, metricVars
<1>5. CASE HandleNonFlush \/ HandleNonFlushErr \/ Unwind
  <2>1. /\ wpc \in {"nonflush", "unwind"}
        /\ wpc' \in {"complete", "unwind", "stop"}
        /\ result' = "ok" => result = "ok"
        /\ UNCHANGED <<queue, creq, cpc>>
        BY <1>5 DEF HandleNonFlush, HandleNonFlushErr, Unwind, clientVars,
                    sharedVars
  <2>2. SnapInv'
        BY <1>1, <2>1 DEF MInv, SnapInv, snapVars
  <2> QED BY <1>1, <2>1, <2>2, WorkerStill
          DEF WritesLeft, BytesLeft, metricVars
<1>6. CASE Release \/ Complete \/ Fail
  <2>1. /\ wpc \in {"callbacks", "complete", "fail"}
        /\ wpc' \in {"unwind", "nonflush", "complete", "recv", "exit"}
        /\ UNCHANGED <<result, queue, creq>>
        BY <1>6 DEF Release, Complete, Fail, AfterBatch
  <2>2. cpc' \in Sending <=> cpc \in Sending
        BY <1>6 DEF Release, Complete, Fail, NotifyReleased, NotifyChanged,
                    Sending
  <2>3. SnapInv'
        BY <1>1, <2>1 DEF MInv, SnapInv, snapVars
  <2> QED BY <1>1, <2>1, <2>2, <2>3, WorkerStill
          DEF WritesLeft, BytesLeft, metricVars
<1>7. CASE ReleaseAll
  <2>1. /\ wpc = "stop" /\ wpc' \in {"exit", "fail"}
        /\ result = "ok" => wpc' = "exit"
        /\ UNCHANGED <<result, queue, creq>>
        BY <1>7 DEF ReleaseAll, AfterRun
  <2>2. /\ cpc' \in Sending <=> cpc \in Sending
        /\ cpc \in {"idle", "closed"} => cpc' = cpc
        BY <1>7 DEF ReleaseAll, NotifyReleased, Sending
  <2>3. SnapInv'
        BY <1>1, <2>1, <2>2 DEF MInv, SnapInv, metricVars, snapVars
  <2> QED BY <1>1, <2>1, <2>2, <2>3, WorkerStill
          DEF WritesLeft, BytesLeft, metricVars
<1>8. CASE IoPanic
  <2>1. /\ wpc = "io" /\ wpc' = "unwind" /\ result' = "panic"
        /\ UNCHANGED <<queue, creq, cpc, metrics, recording, accepted, called>>
        BY <1>1, <1>8 DEF IoPanic, clientVars, sharedVars, metricVars
  <2>2. MType' /\ RecInv' /\ SizeInv' /\ SnapInv' /\ ByteCount'
        BY <1>1, <2>1 DEF MInv, MType, RecInv, SizeInv, SnapInv, ByteCount,
                          metricVars, snapVars
  <2>3. CallCount'
        BY <1>1, <2>1, CountTypes DEF MInv, CallCount
  <2>4. WriteCount'
    <3>1. WritesLeft' = 0 /\ WritesLeft \in Nat
          BY <1>1, <2>1, CountTypes DEF WritesLeft
    <3>2. Counted' \in Nat /\ Counted' <= Counted
          BY <1>1, <2>1, <3>1, CountTypes DEF Counted
    <3> QED BY <1>1, <2>1, <3>2, CountTypes, CountLess DEF MInv
  <2> QED BY <2>2, <2>3, <2>4 DEF MInv
<1>9. CASE Exit
  <2>1. /\ wpc = "exit" /\ wpc' = "done" /\ queue' = <<>>
        /\ result = "ok" => queue = <<>>
        /\ UNCHANGED <<creq, cpc, result, metrics, recording, accepted,
                       called>>
        BY <1>1, <1>9 DEF Exit, clientVars, EInv, Ends, metricVars
  <2>2. MType' /\ RecInv' /\ SizeInv' /\ SnapInv'
        BY <1>1, <2>1 DEF MInv, MType, RecInv, SizeInv, SnapInv, metricVars,
                          snapVars
  <2>3. WritesLeft' = WritesLeft /\ BytesLeft' = BytesLeft
        BY <1>1, <2>1 DEF WritesLeft, BytesLeft
  <2>4. CallCount'
        BY <1>1, <2>1, CountTypes DEF MInv, CallCount
  <2>5. WriteCount'
        BY <1>1, <2>1, <2>3, CountTypes, CountGone DEF MInv, Counted
  <2>6. ByteCount'
        BY <2>1, <2>3 DEF MInv, ByteCount, QueueBytes
  <2> QED BY <2>2, <2>4, <2>5, <2>6 DEF MInv
<1> QED BY <1>2, <1>3, <1>4, <1>5, <1>6, <1>7, <1>8, <1>9 DEF MWorker

(* Whoever finds the worker idle finds nothing on its way: done_seq is at  *)
(* sent_seq, which leaves no batch, no queued request and no failure.      *)
LEMMA IdleIsQuiet ==
    ASSUME IInv, OInv, EInv, RecInv, IdleReached
    PROVE  /\ result = "ok" /\ queue = <<>> /\ recording = {}
           /\ wpc \in {"recv", "stop", "exit", "done"}
<1>1. ~(doneSeq < sentSeq)
      BY DEF IdleReached, IInv, TypeOK
<1>2. ~Busy
      BY <1>1 DEF EInv, Behind
<1>3. queue = <<>>
      BY <1>1, QueuedIsPending
<1>4. wpc \in {"recv", "stop", "exit", "done"} /\ result = "ok"
      BY <1>2 DEF Busy, EInv, Ends, IInv, TypeOK, WorkerPCs
<1>5. recording = {}
      BY <1>4 DEF RecInv
<1> QED BY <1>3, <1>4, <1>5

(* A snapshot begins, or loads one counter.                                *)
LEMMA SnapshotStep ==
    ASSUME IInv, OInv, EInv, MInv,
           BeginSnapshot \/ \E c \in Counters : LoadCounter(c)
    PROVE  MInv'
<1>1. UNCHANGED <<vars, metricVars, accepted, called>>
      BY DEF BeginSnapshot, LoadCounter
<1>2. UNCHANGED <<cpc, creq, queue, wpc, writes, batchBytes, result, metrics,
                  batchM, recording, accepted, called>>
      BY <1>1 DEF vars, clientVars, workerVars, sharedVars, metricVars
<1>3. RecInv' /\ CallCount' /\ SizeInv'
      BY <1>2 DEF MInv, RecInv, CallCount, SizeInv
<1>4. WritesLeft' = WritesLeft /\ BytesLeft' = BytesLeft
      BY <1>2 DEF WritesLeft, BytesLeft
<1>5. WriteCount'
      BY <1>2, <1>4, CountSame DEF MInv, Counted
<1>6. ByteCount'
      BY <1>2, <1>4, QueueBytesUnchanged DEF MInv, ByteCount
<1>7. CASE BeginSnapshot
  <2>1. MType'
        BY <1>2, <1>7 DEF BeginSnapshot, MInv, MType, Zeros
  <2>2. SnapInv'
        BY <1>2, <1>7, IdleIsQuiet DEF BeginSnapshot, MInv, SnapInv
  <2> QED BY <1>3, <1>5, <1>6, <2>1, <2>2 DEF MInv
<1>8. ASSUME NEW c \in Counters, LoadCounter(c) PROVE MInv'
  <2>1. metrics[c] \in Nat
        BY <1>8 DEF MInv, MType
  <2>2. MType'
        BY <1>2, <1>8, <2>1 DEF LoadCounter, MInv, MType
  <2>3. /\ snap'[c] = metrics[c] /\ unread' = unread \ {c}
        /\ \A d \in Counters \ {c} : snap'[d] = snap[d]
        /\ snapIdle' = snapIdle
        BY <1>8 DEF LoadCounter, MInv, MType
  <2>4. SnapInv'
        BY <1>2, <2>3 DEF MInv, SnapInv
  <2> QED BY <1>3, <1>5, <1>6, <2>2, <2>4 DEF MInv
<1> QED BY <1>7, <1>8

(* A call of the owner moves a request into the channel, or no write and   *)
(* no byte.                                                                *)
LEMMA MClientStep ==
    ASSUME IInv, OInv, EInv, MInv, MClient
    PROVE  MInv'
<1>1. /\ ClientCall \/ ClientStep
      /\ accepted' = IF Len(queue') > Len(queue) /\ creq.kind = "write"
                     THEN accepted + 1 ELSE accepted
      /\ snap' = Zeros /\ snapIdle' = FALSE
      /\ UNCHANGED <<metrics, batchM, recording, unread, called>>
      BY DEF MClient, metricVars
<1>2. UNCHANGED <<wpc, writes, batchBytes, result>>
  <2>1. UNCHANGED workerVars
        BY <1>1
        DEF ClientCall, ClientStep, Send, WaitIdle, Shutdown, AcquireWait,
            Acquire, Push, PushFail, ReleaseErr, StatReply, WaitForTurn,
            Close, Join
  <2> QED BY <2>1 DEF workerVars
<1>3. TypeOK /\ MType /\ Len(queue) \in Nat
      BY DEF IInv, TypeOK, MInv
<1>4. MType'
  <2>1. accepted' \in Nat
        BY <1>1, <1>3 DEF MType
  <2>2. snap' \in [Counters -> Nat]
        BY <1>1 DEF Zeros
  <2> QED BY <1>1, <1>3, <2>1, <2>2 DEF MType
<1>5. RecInv' /\ CallCount' /\ SizeInv' /\ SnapInv'
      BY <1>1, <1>2 DEF MInv, RecInv, CallCount, SizeInv, SnapInv
<1>6. WritesLeft' = WritesLeft /\ BytesLeft' = BytesLeft /\ Counted' = Counted
      BY <1>1, <1>2 DEF WritesLeft, BytesLeft, Counted
<1>7. /\ metrics["write_bytes"] \in Nat /\ BytesLeft \in Nat
      /\ QueueBytes \in Nat /\ creq.size \in Nat /\ creq.cum \in Nat
      BY <1>3, CountTypes, QueueBytesNat DEF IInv, ByteInv, TypeOK, Request
<1>8. CASE Push
  <2>1. /\ cpc = "push" /\ queue' = Append(queue, creq) /\ creq' = creq
        /\ cpc' \notin Sending /\ cpc \in Sending
        BY <1>8 DEF Push, AfterSend, Sending
  <2>2. Len(queue') > Len(queue)
        BY <1>3, <2>1 DEF TypeOK
  <2>3. accepted' = accepted + IsWrite(creq)
        BY <1>1, <1>3, <2>2 DEF IsWrite, MType
  <2>4. WriteCount'
        BY <1>2, <1>3, <1>6, <2>1, <2>3, CountPush DEF MInv
  <2>5. QueueBytes' = QueueBytes + creq.size
        BY <2>1, ChainAppend DEF IInv, ByteInv
  <2>6. ByteCount'
    <3>1. SUFFICES ASSUME result = "ok"
                   PROVE  creq.cum = metrics["write_bytes"] + BytesLeft
                                     + QueueBytes'
          BY <1>1, <1>2, <1>6, <1>7, <2>1, <2>5 DEF ByteCount
    <3>2. creq.cum = metrics["write_bytes"] + BytesLeft + QueueBytes
                     + creq.size
          BY <2>1, <3>1 DEF MInv, ByteCount
    <3> QED BY <1>7, <2>5, <3>2
  <2> QED BY <1>4, <1>5, <2>4, <2>6 DEF MInv
<1>9. CASE ~Push
  <2>1. queue' = queue
        BY <1>1, <1>9
        DEF ClientCall, ClientStep, Send, WaitIdle, Shutdown, AcquireWait,
            Acquire, PushFail, ReleaseErr, StatReply, WaitForTurn, Close,
            Join, sharedVars
  <2>2. accepted' = accepted
        BY <1>1, <1>3, <2>1
  <2>3. WriteCount'
        BY <1>2, <1>6, <2>1, <2>2, CountSame DEF MInv
  <2>4. QueueBytes' = QueueBytes
        BY <2>1, QueueBytesUnchanged
  <2>5. ByteCount'
    <3>1. ASSUME NEW o, NEW kind, NEW size \in Nat, BeginSend(o, kind, size),
                 cpc = "idle"
          PROVE  ByteCount'
      <4>1. /\ creq'.cum = creq.cum + size /\ creq'.size = size
            /\ cpc' \in Sending /\ cpc \notin Sending
            BY <3>1 DEF BeginSend, Sending
      <4> QED BY <1>1, <1>2, <1>6, <1>7, <2>4, <4>1 DEF MInv, ByteCount
    <3>2. CASE ClientCall
      <4>1. CASE WaitIdle
            BY <1>1, <1>2, <1>6, <2>4, <4>1
            DEF WaitIdle, MInv, ByteCount, Sending
      <4>2. CASE \E kind \in Kinds, size \in Sizes \union {0} :
                     Send(kind, size)
            BY <3>1, <4>2, ConstantsAssumption DEF Send
      <4>3. CASE \E size \in Sizes : Shutdown(size)
            BY <3>1, <4>3, ConstantsAssumption DEF Shutdown
      <4> QED BY <3>2, <4>1, <4>2, <4>3 DEF ClientCall
    <3>3. CASE ReleaseErr
      <4>1. result /= "ok"
            BY <3>3 DEF ReleaseErr, OInv, LifeInv, ClientLife, EInv, Ends
      <4> QED BY <1>2, <4>1 DEF ByteCount
    <3>4. CASE \/ AcquireWait \/ Acquire \/ PushFail \/ StatReply
               \/ WaitForTurn \/ Close \/ Join
      <4>1. creq' = creq /\ (cpc' \in Sending <=> cpc \in Sending)
            BY <3>4 DEF AcquireWait, Acquire, PushFail, StatReply,
                        WaitForTurn, Close, Join, Sending
      <4> QED BY <1>1, <1>2, <1>6, <2>4, <4>1 DEF MInv, ByteCount
    <3> QED BY <1>1, <1>9, <3>2, <3>3, <3>4 DEF ClientStep
  <2> QED BY <1>4, <1>5, <2>3, <2>5 DEF MInv
<1> QED BY <1>8, <1>9

-----------------------------------------------------------------------------
(* Nothing is counted at the start.                                        *)
LEMMA InitMInv == MInit => EInv /\ MInv
<1> SUFFICES ASSUME MInit PROVE EInv /\ MInv
    OBVIOUS
<1>1. /\ cpc = "idle" /\ creq = NoReq /\ queue = <<>> /\ wpc = "recv"
      /\ writes = <<>> /\ result = "ok" /\ failed = FALSE
      /\ metrics = Zeros /\ batchM = [batch_size |-> 0, write_bytes |-> 0]
      /\ recording = {} /\ snap = Zeros /\ unread = {} /\ snapIdle = FALSE
      /\ accepted = 0 /\ called = 0
      BY DEF MInit, Init
<1>2. /\ Zeros \in [Counters -> Nat]
      /\ \A c \in Counters : Zeros[c] = 0
      BY DEF Zeros
<1>3. EInv
      BY <1>1, ConstantsAssumption
      DEF EInv, BatchLen, Ends, Behind, Busy
<1>4. MType /\ RecInv /\ SnapInv
      BY <1>1, <1>2 DEF MType, RecInv, SnapInv
<1>5. CallCount /\ SizeInv
      BY <1>1, <1>2, ConstantsAssumption DEF CallCount, SizeInv, Counters
<1>6. WriteCount
  <2> DEFINE u == [i \in 0..0 |-> 0]
  <2>1. u \in [0..0 -> Nat] /\ u[0] = 0 /\ Len(queue) = 0
        BY <1>1
  <2>2. Counted = 0
        BY <1>1, <1>2 DEF Counted, WritesLeft, Counters
  <2> HIDE DEF u
  <2>3. \A i \in 0..0 : i = 0
        OBVIOUS
  <2>4. CountsQueue(u, queue, Counted)
        BY <2>1, <2>2, <2>3 DEF CountsQueue
  <2> QED BY <1>1, <2>1, <2>4 DEF WriteCount
<1>7. ByteCount
      BY <1>1, <1>2
      DEF ByteCount, BytesLeft, QueueBytes, NoReq, Counters, Sending
<1> QED BY <1>3, <1>4, <1>5, <1>6, <1>7 DEF MInv

(* Each step of the two threads and of the counters keeps the accounts.    *)
LEMMA StepMInv ==
    IInv /\ OInv /\ EInv /\ MInv /\ [MNext]_mvars => EInv' /\ MInv'
<1> SUFFICES ASSUME IInv, OInv, EInv, MInv, [MNext]_mvars
             PROVE  EInv' /\ MInv'
    OBVIOUS
<1>1. EInv'
      BY MStepIsStep, StepEInv
<1>2. MInv'
  <2>1. CASE UNCHANGED mvars
    <3>1. UNCHANGED <<cpc, creq, queue, wpc, writes, batchBytes, result,
                      metrics, batchM, recording, snap, unread, snapIdle,
                      accepted, called>>
          BY <2>1 DEF mvars, vars, clientVars, workerVars, sharedVars,
                      metricVars, snapVars
    <3>2. WritesLeft' = WritesLeft /\ BytesLeft' = BytesLeft
          BY <3>1 DEF WritesLeft, BytesLeft
    <3>3. MType' /\ RecInv' /\ CallCount' /\ SizeInv' /\ SnapInv'
          BY <3>1 DEF MInv, MType, RecInv, CallCount, SizeInv, SnapInv
    <3>4. WriteCount'
          BY <3>1, <3>2, CountSame DEF MInv, Counted
    <3>5. ByteCount'
          BY <3>1, <3>2, QueueBytesUnchanged DEF MInv, ByteCount
    <3> QED BY <3>3, <3>4, <3>5 DEF MInv
  <2>2. CASE \E res \in {"ok", "err"} : MIo(res)
        BY <2>2, MIoStep
  <2>3. CASE \E c \in Counters : RecordBatch(c)
        BY <2>3, RecordStep
  <2>4. CASE MCallback
        BY <2>4, MCallbackStep
  <2>5. CASE MWorker
        BY <2>5, MWorkerStep
  <2>6. CASE BeginSnapshot \/ \E c \in Counters : LoadCounter(c)
        BY <2>6, SnapshotStep
  <2>7. CASE MClient
        BY <2>7, MClientStep
  <2> QED BY <2>1, <2>2, <2>3, <2>4, <2>5, <2>6, <2>7 DEF MNext
<1> QED BY <1>1, <1>2

(* So they always hold, beside the invariants of FlushControl.             *)
LEMMA AlwaysMInv == MSpec => [](IInv /\ OInv /\ EInv /\ MInv)
<1>1. MInit => IInv /\ OInv
      BY InitIInv, InitOInv DEF MInit
<1>2. IInv /\ OInv /\ [MNext]_mvars => IInv' /\ OInv'
      BY MStepIsStep, StepIInv, StepOInv
<1> QED BY <1>1, <1>2, InitMInv, StepMInv, PTL DEF MSpec

(* Whoever was called back finds the write counted, and nothing is counted *)
(* that the channel did not accept, through every failure of the worker.   *)
THEOREM CallbacksAreCounted == MSpec => []CallbacksCounted
<1>1. ASSUME IInv, MInv PROVE CallbacksCounted
  <2>1. TypeOK /\ MType
        BY <1>1 DEF IInv, MInv
  <2>2. called <= metrics["write_request_count"]
    <3>1. CASE wpc = "callbacks"
          BY <1>1, <2>1, <3>1, CountTypes DEF MInv, CallCount
    <3>2. CASE wpc /= "callbacks"
      <4>1. recording = {}
            BY <1>1, <3>2 DEF MInv, RecInv
      <4> QED BY <1>1, <2>1, <3>2, <4>1, CountTypes DEF MInv, CallCount
    <3> QED BY <3>1, <3>2
  <2>3. metrics["write_request_count"] <= accepted
    <3>1. PICK t \in [0..Len(queue) -> Nat] :
              CountsQueue(t, queue, Counted) /\ t[Len(queue)] <= accepted
          BY <1>1 DEF MInv, WriteCount
    <3>2. Len(queue) \in Nat
          BY <2>1 DEF TypeOK
    <3>3. t[0] = Counted /\ t[0] <= t[Len(queue)] /\ t[Len(queue)] \in Nat
          BY <3>1, <3>2 DEF CountsQueue
    <3> QED BY <2>1, <3>1, <3>3, CountTypes DEF Counted
  <2> QED BY <2>2, <2>3 DEF CallbacksCounted
<1> QED BY <1>1, AlwaysMInv, PTL

(* Every figure read after wait_worker_idle is exact, although counters    *)
(* are updated and loaded one by one in any order.                         *)
THEOREM IdleSnapshotsExact == MSpec => []SnapshotExactWhenIdle
<1>1. ASSUME IInv, EInv, MInv PROVE SnapshotExactWhenIdle
  <2> SUFFICES ASSUME snapIdle, unread = {}
               PROVE  /\ snap["write_request_count"] = accepted
                      /\ snap["write_bytes"] = creq.cum
                      /\ snap["last_batch_size"] <= snap["batch_size_max"]
                      /\ snap["batch_size_max"] <= MaxItems
                      /\ accepted > 0 => snap["last_batch_size"] > 0
      BY DEF SnapshotExactWhenIdle
  <2>1. /\ TypeOK /\ MType /\ result = "ok" /\ queue = <<>>
        /\ recording = {} /\ wpc \in {"recv", "stop", "exit", "done"}
        /\ cpc \notin Sending
        BY <1>1 DEF IInv, MInv, SnapInv, Sending
  <2>2. /\ snap["write_request_count"] = metrics["write_request_count"]
        /\ snap["write_bytes"] = metrics["write_bytes"]
        /\ snap["batch_size_max"] = metrics["batch_size_max"]
        /\ snap["last_batch_size"] = metrics["last_batch_size"]
        BY <1>1 DEF MInv, SnapInv, Counters
  <2>3. WritesLeft = 0 /\ BytesLeft = 0 /\ QueueBytes = 0 /\ Len(queue) = 0
        BY <2>1 DEF WritesLeft, BytesLeft, QueueBytes
  <2>4. metrics["write_request_count"] = accepted
    <3>1. PICK t \in [0..Len(queue) -> Nat] :
              CountsQueue(t, queue, Counted) /\ t[Len(queue)] = accepted
          BY <1>1, <2>1 DEF MInv, WriteCount
    <3> QED BY <2>1, <2>3, <3>1, CountTypes DEF CountsQueue, Counted
  <2>5. metrics["write_bytes"] = creq.cum
        BY <1>1, <2>1, <2>3, CountTypes DEF MInv, ByteCount
  <2>6. /\ metrics["last_batch_size"] <= metrics["batch_size_max"]
        /\ metrics["batch_size_max"] <= MaxItems
        /\ metrics["write_request_count"] > 0 => metrics["last_batch_size"] > 0
        BY <1>1, <2>1 DEF MInv, SizeInv
  <2> QED BY <2>2, <2>4, <2>5, <2>6
<1> QED BY <1>1, AlwaysMInv, PTL

-----------------------------------------------------------------------------
(* The memory of the request path, summed request by request.  The sum is  *)
(* a recursive function of the queue; that it is the difference of two     *)
(* running totals takes an induction, from the least number principle.     *)

LEMMA LessIsRelated ==
    \A x, y \in Nat : x < y => <<x, y>> \in OpToRel(<, Nat)
BY Zenon DEF OpToRel

(* A set of natural numbers has a least one.                               *)
LEMMA LeastNatural ==
    ASSUME NEW T, T \subseteq Nat, T /= {}
    PROVE  \E m \in T : \A k \in T : m <= k
<1>1. PICK m \in T : \A k \in T : <<k, m>> \notin OpToRel(<, Nat)
      BY NatLessThanWellFounded, WFMin, Zenon
<1>2. \A k \in T : ~(k < m)
      BY <1>1, LessIsRelated
<1> QED BY <1>2

(* g sums up the sizes of s.                                               *)
Sums(g, s) ==
    g = [i \in 0..Len(s) |-> IF i = 0 THEN 0 ELSE g[i - 1] + s[i].size]

LEMMA BytesInIsASum ==
    ASSUME NEW s, NEW f, Sums(f, s)
    PROVE  \E g : Sums(g, s) /\ BytesIn(s) = g[Len(s)]
<1>1. Sums((CHOOSE g : Sums(g, s)), s)
      BY Zenon
<1>2. BytesIn(s) = (CHOOSE g : Sums(g, s))[Len(s)]
      BY Zenon DEF BytesIn, Sums
<1> QED BY <1>1, <1>2, Zenon

(* There is only one sum.                                                  *)
LEMMA SumsAgree ==
    ASSUME NEW s, Len(s) \in Nat, NEW f, NEW g, Sums(f, s), Sums(g, s)
    PROVE  \A i \in 0..Len(s) : f[i] = g[i]
<1> DEFINE T == {i \in 0..Len(s) : f[i] /= g[i]}
<1>1. SUFFICES ASSUME T /= {} PROVE FALSE
      OBVIOUS
<1>2. PICK m \in T : \A k \in T : m <= k
  <2>1. T \subseteq Nat
        OBVIOUS
  <2> HIDE DEF T
  <2> QED BY <1>1, <2>1, LeastNatural
<1>3. /\ m \in 0..Len(s) /\ f[m] /= g[m]
      /\ f[m] = IF m = 0 THEN 0 ELSE f[m - 1] + s[m].size
      /\ g[m] = IF m = 0 THEN 0 ELSE g[m - 1] + s[m].size
      BY <1>2 DEF Sums
<1>4. CASE m = 0
      BY <1>3, <1>4
<1>5. CASE m /= 0
  <2>1. m - 1 \in 0..Len(s) /\ ~(m <= m - 1)
        BY <1>3, <1>5
  <2>2. f[m - 1] = g[m - 1]
        BY <1>2, <2>1
  <2> QED BY <1>3, <1>5, <2>2
<1> QED BY <1>4, <1>5

(* The sizes of the queued requests add up to QueueBytes.                  *)
LEMMA SumOfQueue ==
    ASSUME queue \in Seq(Request), QueueChain
    PROVE  BytesIn(queue) = QueueBytes
<1> DEFINE f == [i \in 0..Len(queue) |->
                   IF i = 0 THEN 0
                   ELSE queue[i].cum - queue[1].cum + queue[1].size]
<1>1. /\ Len(queue) \in Nat
      /\ \A i \in 1..Len(queue) : /\ queue[i].cum \in Nat
                                  /\ queue[i].size \in Nat
  <2>1. \A i \in 1..Len(queue) : queue[i] \in Request
        OBVIOUS
  <2> QED BY <2>1 DEF Request
<1>2. ASSUME NEW i \in 0..Len(queue), i /= 0
      PROVE  f[i] = f[i - 1] + queue[i].size
  <2>1. i \in 1..Len(queue) /\ 1 \in 1..Len(queue)
        BY <1>1, <1>2
  <2>2. CASE i = 1
        BY <1>1, <2>1, <2>2
  <2>3. CASE i /= 1
    <3>1. i - 1 \in 1..Len(queue) /\ (i - 1) + 1 = i
          BY <1>1, <2>1, <2>3
    <3>2. queue[i].cum = queue[i - 1].cum + queue[i].size
          BY <2>1, <3>1 DEF QueueChain
    <3>3. /\ f[i] = queue[i].cum - queue[1].cum + queue[1].size
          /\ f[i - 1] = queue[i - 1].cum - queue[1].cum + queue[1].size
          BY <2>1, <3>1
    <3>4. /\ queue[i].cum \in Nat /\ queue[i - 1].cum \in Nat
          /\ queue[i].size \in Nat
          /\ queue[1].cum \in Nat /\ queue[1].size \in Nat
          BY <1>1, <2>1, <3>1
    <3> HIDE DEF f
    <3>5. PICK a \in Nat, b \in Nat, c \in Nat, d \in Nat, e \in Nat :
              /\ a = queue[i].cum /\ b = queue[i - 1].cum
              /\ c = queue[1].cum /\ d = queue[1].size /\ e = queue[i].size
          BY <3>4
    <3>6. a = b + e
          BY <3>2, <3>5
    <3>7. f[i] = a - c + d /\ f[i - 1] = b - c + d
          BY <3>3, <3>5
    <3>8. a - c + d = (b - c + d) + e
          BY <3>6
    <3> QED BY <3>5, <3>7, <3>8
  <2> QED BY <2>2, <2>3
<1>3. Sums(f, queue)
      BY <1>2 DEF Sums
<1>4. f[Len(queue)] = QueueBytes
  <2>1. CASE queue = <<>>
        BY <1>1, <2>1 DEF QueueBytes
  <2>2. CASE queue /= <<>>
    <3>1. Len(queue) \in 1..Len(queue)
          BY <1>1, <2>2
    <3> QED BY <2>2, <3>1 DEF QueueBytes
  <2> QED BY <2>1, <2>2
<1> HIDE DEF f
<1>5. PICK g : Sums(g, queue) /\ BytesIn(queue) = g[Len(queue)]
      BY <1>3, BytesInIsASum
<1>6. f[Len(queue)] = g[Len(queue)]
      BY <1>1, <1>3, <1>5, SumsAgree
<1> QED BY <1>4, <1>5, <1>6

(* No queued request is bigger than all of them.                           *)
LEMMA PartOfQueue ==
    ASSUME queue \in Seq(Request), QueueChain, NEW i \in 1..Len(queue)
    PROVE  queue[i].size \in Nat /\ queue[i].size <= QueueBytes
<1>1. /\ Len(queue) \in Nat /\ queue /= <<>> /\ 1 \in 1..Len(queue)
      /\ Len(queue) \in 1..Len(queue)
      OBVIOUS
<1>2. \A j \in 1..Len(queue) : queue[j].cum \in Nat /\ queue[j].size \in Nat
  <2>1. \A j \in 1..Len(queue) : queue[j] \in Request
        OBVIOUS
  <2> QED BY <2>1 DEF Request
<1>3. queue[1].cum <= queue[i].cum /\ queue[i].cum <= queue[Len(queue)].cum
      BY <1>1 DEF QueueChain
<1>4. CASE i = 1
      BY <1>1, <1>2, <1>3, <1>4 DEF QueueBytes
<1>5. CASE i /= 1
  <2>1. i - 1 \in 1..Len(queue) /\ (i - 1) + 1 = i
        BY <1>1, <1>5
  <2>2. /\ queue[i].cum = queue[i - 1].cum + queue[i].size
        /\ queue[1].cum <= queue[i - 1].cum
        BY <1>1, <2>1 DEF QueueChain
  <2>3. /\ queue[i].cum \in Nat /\ queue[i - 1].cum \in Nat
        /\ queue[i].size \in Nat
        /\ queue[1].cum \in Nat /\ queue[1].size \in Nat
        /\ queue[Len(queue)].cum \in Nat
        BY <1>1, <1>2, <2>1
  <2>4. QueueBytes = queue[Len(queue)].cum - queue[1].cum + queue[1].size
        BY <1>1 DEF QueueBytes
  <2>5. \A a, b, c, d, e, l \in Nat :
            a = b + e /\ c <= b /\ a <= l => e <= l - c + d
        OBVIOUS
  <2>6. queue[i].size <= queue[Len(queue)].cum - queue[1].cum + queue[1].size
        BY <1>3, <2>2, <2>3, <2>5, Zenon
  <2> QED BY <2>3, <2>4, <2>6, Zenon
<1> QED BY <1>4, <1>5

(* Above the limit, one request holds all the bytes there are.             *)
OneBig == Counting => \/ used <= Limit
                      \/ used = HandBytes \/ used = batchBytes
                      \/ \E i \in 1..Len(queue) : queue[i].size = used

(* The bytes counted, part by part.                                        *)
LEMMA CountedParts ==
    ASSUME IInv, Counting
    PROVE  /\ used = HandBytes + QueueBytes + batchBytes
           /\ used \in Nat /\ HandBytes \in Nat /\ QueueBytes \in Nat
           /\ batchBytes \in Nat /\ Limit \in Nat
           /\ \A i \in 1..Len(queue) : /\ queue[i].size \in Nat
                                       /\ queue[i].size <= QueueBytes
<1>1. /\ batchBytes \in Nat /\ creq.size \in Nat /\ used \in Nat
      /\ queue \in Seq(Request)
  <2>1. used \in 0..UsizeMax
        BY DEF IInv, TypeOK
  <2>2. creq.size \in Nat
        BY DEF IInv, TypeOK, Request
  <2> QED BY <2>1, <2>2, ConstantsAssumption DEF IInv, TypeOK
<1>2. HandBytes \in Nat /\ QueueBytes \in Nat
      BY <1>1, QueueBytesNat DEF IInv, ByteInv, HandBytes
<1>3. used = HandBytes + QueueBytes + batchBytes
      BY DEF IInv, ByteInv, BytesAccounted
<1>4. \A i \in 1..Len(queue) : /\ queue[i].size \in Nat
                               /\ queue[i].size <= QueueBytes
      BY <1>1, PartOfQueue DEF IInv, ByteInv
<1> QED BY <1>1, <1>2, <1>3, <1>4, ConstantsAssumption

(* Sending keeps it: a reservation above the limit is made alone.          *)
LEMMA ClientOneBig ==
    ASSUME IInv, OneBig, ClientCall \/ ClientStep
    PROVE  OneBig'
<1>1. /\ wpc' = wpc /\ batchBytes' = batchBytes /\ TypeOK
      /\ Counting' = Counting
  <2>1. UNCHANGED workerVars
        BY DEF ClientCall, ClientStep, Send, WaitIdle, Shutdown, AcquireWait,
               Acquire, Push, PushFail, ReleaseErr, StatReply, WaitForTurn,
               Close, Join
  <2> QED BY <2>1 DEF workerVars, Counting, IInv
<1>2. CASE Acquire
  <2> SUFFICES ASSUME Counting
               PROVE  used' <= Limit \/ used' = HandBytes'
      BY <1>1 DEF OneBig
  <2>1. /\ used' = used + creq.size
        /\ used = 0 \/ used' <= Limit
        BY <1>1, <1>2, AcquireExact
        DEF Acquire, IInv, ByteInv
  <2>2. HandBytes' = creq.size /\ creq.size \in Nat
        BY <1>1, <1>2 DEF Acquire, HandBytes, TypeOK, Request
  <2> QED BY <2>1, <2>2
<1>3. CASE Push
  <2> SUFFICES ASSUME Counting
               PROVE  \/ used' <= Limit \/ used' = batchBytes'
                      \/ \E i \in 1..Len(queue') : queue'[i].size = used'
      BY <1>1 DEF OneBig
  <2>1. /\ used' = used /\ queue' = Append(queue, creq)
        /\ cpc = "push" /\ HandBytes = creq.size
        BY <1>3 DEF Push, HandBytes
  <2>2. /\ Len(queue) \in Nat /\ Len(queue') = Len(queue) + 1
        /\ queue'[Len(queue')] = creq
        /\ \A i \in 1..Len(queue) : queue'[i] = queue[i]
        BY <1>1, <2>1 DEF TypeOK
  <2>3. CASE used = HandBytes
        BY <2>1, <2>2, <2>3
  <2>4. CASE \E i \in 1..Len(queue) : queue[i].size = used
        BY <2>1, <2>2, <2>4
  <2> QED BY <1>1, <2>1, <2>3, <2>4 DEF OneBig
<1>4. CASE PushFail \/ ReleaseErr
  <2>1. ~Counting
        BY <1>4 DEF PushFail, ReleaseErr, Counting, IInv, ByteInv, RxInv
  <2> QED BY <1>1, <2>1 DEF OneBig
<1>5. CASE \/ ClientCall \/ AcquireWait \/ StatReply \/ WaitForTurn
           \/ Close \/ Join
  <2>1. /\ UNCHANGED <<used, queue>>
        /\ cpc \notin {"push", "release_err"}
        /\ cpc' \notin {"push", "release_err"}
        BY <1>5 DEF ClientCall, Send, WaitIdle, Shutdown, BeginSend,
                    AcquireWait, StatReply, WaitForTurn, Close, Join,
                    sharedVars
  <2>2. HandBytes' = HandBytes
        BY <2>1 DEF HandBytes
  <2> QED BY <1>1, <2>1, <2>2 DEF OneBig
<1> QED BY <1>2, <1>3, <1>4, <1>5 DEF ClientStep

(* The worker keeps it: a request that holds all the bytes is alone in the *)
(* queue or in the batch, but for requests without any.                    *)
LEMMA WorkerOneBig ==
    ASSUME IInv, OneBig, WorkerStep
    PROVE  OneBig'
<1> SUFFICES ASSUME Counting'
             PROVE  \/ used' <= Limit
                    \/ used' = HandBytes' \/ used' = batchBytes'
                    \/ \E i \in 1..Len(queue') : queue'[i].size = used'
    BY DEF OneBig
<1>1. /\ TypeOK /\ queue \in Seq(Request) /\ Len(queue) \in Nat
      BY DEF IInv, TypeOK
<1>2. HandBytes' = HandBytes
  <2>1. creq' = creq
        BY DEF WorkerStep, Recv, RecvClosed, Collect, CollectEnd, Io, IoPanic,
               Callback, CallbackPanic, Release, HandleNonFlush,
               HandleNonFlushErr, Complete, Unwind, ReleaseAll, Fail, Exit,
               clientVars
  <2>2. cpc' = cpc \/ NotifyReleased \/ NotifyChanged
        BY DEF WorkerStep, Recv, RecvClosed, Collect, CollectEnd, Io, IoPanic,
               Callback, CallbackPanic, Release, HandleNonFlush,
               HandleNonFlushErr, Complete, Unwind, ReleaseAll, Fail, Exit,
               clientVars
  <2> QED BY <2>1, <2>2 DEF HandBytes, NotifyReleased, NotifyChanged
<1>3. CASE Recv \/ Collect
  <2> DEFINE r == Head(queue)
  <2>1. /\ queue /= <<>> /\ queue' = Tail(queue) /\ used' = used
        /\ Counting
        BY <1>3 DEF Recv, Collect, Counting
  <2>2. /\ 1 \in 1..Len(queue) /\ r = queue[1]
        /\ Len(queue') = Len(queue) - 1
        /\ \A i \in 1..Len(queue') : queue'[i] = queue[i + 1]
        BY <1>1, <2>1
  <2>3. /\ used = HandBytes + QueueBytes + batchBytes
        /\ HandBytes \in Nat /\ QueueBytes \in Nat /\ batchBytes \in Nat
        /\ Limit \in Nat /\ r.size \in Nat /\ r.size <= QueueBytes
        BY <2>1, <2>2, CountedParts
  <2>4. r.kind /= "write" => r.size = 0
        BY <2>2 DEF IInv, ByteInv, NonWriteFree
  <2>5. batchBytes' = batchBytes + r.size
    <3>1. CASE Recv
      <4>1. batchBytes = 0
            BY <3>1 DEF Recv, IInv, ByteInv, IdleBatch
      <4> QED BY <2>3, <2>4, <3>1, <4>1 DEF Recv
    <3>2. CASE Collect
          BY <2>3, <2>4, <3>2 DEF Collect
    <3> QED BY <1>3, <3>1, <3>2
  <2>6. CASE used <= Limit \/ used = HandBytes
        BY <1>2, <2>1, <2>6
  <2>7. CASE used = batchBytes
        BY <2>1, <2>3, <2>5, <2>7
  <2>8. ASSUME NEW i \in 1..Len(queue), queue[i].size = used
        PROVE  \/ used' = batchBytes'
               \/ \E j \in 1..Len(queue') : queue'[j].size = used'
    <3>1. CASE i = 1
          BY <2>1, <2>2, <2>3, <2>5, <2>8, <3>1
    <3>2. CASE i /= 1
      <4>1. i - 1 \in 1..Len(queue') /\ queue'[i - 1] = queue[(i - 1) + 1]
            /\ (i - 1) + 1 = i
            BY <1>1, <2>2, <2>8, <3>2
      <4>2. queue'[i - 1].size = used'
            BY <2>1, <2>8, <4>1
      <4> QED BY <4>1, <4>2
    <3> QED BY <3>1, <3>2
  <2> QED BY <2>1, <2>6, <2>7, <2>8 DEF OneBig
<1>4. CASE Release
  <2>1. /\ wpc = "callbacks" /\ Counting /\ queue' = queue
        /\ used' = USub(used, batchBytes)
        BY <1>4 DEF Release, ReleasedBytes, Counting
  <2>2. /\ used = HandBytes + QueueBytes + batchBytes
        /\ HandBytes \in Nat /\ QueueBytes \in Nat /\ batchBytes \in Nat
        /\ Limit \in Nat /\ used \in Nat
        /\ \A i \in 1..Len(queue) : /\ queue[i].size \in Nat
                                    /\ queue[i].size <= QueueBytes
        BY <2>1, CountedParts
  <2>3. used' = used - batchBytes
        BY <2>1, <2>2 DEF USub
  <2>4. CASE used <= Limit \/ used = batchBytes
        BY <2>2, <2>3, <2>4
  <2>5. CASE used = HandBytes
        BY <1>2, <2>2, <2>3, <2>5
  <2>6. ASSUME NEW i \in 1..Len(queue), queue[i].size = used
        PROVE  queue'[i].size = used'
    <3>1. batchBytes = 0
          BY <2>2, <2>6
    <3> QED BY <2>1, <2>2, <2>3, <2>6, <3>1
  <2> QED BY <2>1, <2>4, <2>5, <2>6 DEF OneBig
<1>5. CASE ReleaseAll \/ Fail \/ Exit
      BY <1>5 DEF ReleaseAll, Fail, Exit, Counting, AfterRun
<1>6. CASE \/ RecvClosed \/ CollectEnd
           \/ (\E res \in {"ok", "err"} : Io(res)) \/ IoPanic
           \/ Callback \/ CallbackPanic \/ HandleNonFlush
           \/ HandleNonFlushErr \/ Complete \/ Unwind
  <2>1. UNCHANGED <<used, queue, batchBytes>> /\ Counting
        BY <1>6 DEF RecvClosed, CollectEnd, Io, IoPanic, Callback,
                    CallbackPanic, HandleNonFlush, HandleNonFlushErr,
                    Complete, Unwind, sharedVars, Counting
  <2> QED BY <1>2, <2>1 DEF OneBig
<1> QED BY <1>3, <1>4, <1>5, <1>6 DEF WorkerStep

LEMMA StepOneBig == IInv /\ OneBig /\ [Next]_vars => OneBig'
<1> SUFFICES ASSUME IInv, OneBig, [Next]_vars PROVE OneBig'
    OBVIOUS
<1>1. CASE UNCHANGED vars
      BY <1>1 DEF vars, clientVars, workerVars, sharedVars, OneBig, Counting,
                  HandBytes
<1> QED BY <1>1, ClientOneBig, WorkerOneBig DEF Next, Closed

(* The encoded data resident in the request path, summed over its requests *)
(* one by one, is what QueuedBytes counts; it is within the limit, or one  *)
(* request is all of it.                                                   *)
THEOREM ResidentMemoryBounded == Spec => []ResidentBytesBounded
<1>1. Init => OneBig
      BY ConstantsAssumption DEF Init, OneBig
<1>2. ASSUME IInv, OneBig PROVE ResidentBytesBounded
  <2> DEFINE resident == HandBytes + BytesIn(queue) + batchBytes
  <2> SUFFICES ASSUME Counting
               PROVE  /\ used = resident
                      /\ \/ resident <= Limit
                         \/ resident \in {creq.size, batchBytes}
                            \union {queue[i].size : i \in DOMAIN queue}
      BY DEF ResidentBytesBounded
  <2>1. queue \in Seq(Request) /\ DOMAIN queue = 1..Len(queue)
        BY <1>2 DEF IInv, TypeOK
  <2>2. used = resident
        BY <1>2, <2>1, SumOfQueue, CountedParts DEF IInv, ByteInv
  <2> HIDE DEF resident
  <2>3. CASE used = HandBytes
    <3>1. used = creq.size \/ used = 0
          BY <2>3 DEF HandBytes
    <3> QED BY <2>2, <3>1, ConstantsAssumption
  <2> QED BY <1>2, <2>1, <2>2, <2>3 DEF OneBig
<1> QED BY <1>1, <1>2, StepOneBig, AlwaysIInv, PTL DEF Spec

-----------------------------------------------------------------------------
(* The counters only observe: whatever is proved of FlushControl holds     *)
(* with them too.                                                          *)
THEOREM MetricsOnlyObserve == MSpec => Spec
<1>1. MInit => Init
      BY DEF MInit
<1>2. [MNext]_mvars => [Next]_vars
      BY MStepIsStep
<1> QED BY <1>1, <1>2, PTL DEF MSpec, Spec

=============================================================================
