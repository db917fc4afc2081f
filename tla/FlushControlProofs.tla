------------------------- MODULE FlushControlProofs -------------------------
(***************************************************************************)
(* The request path, for every limit, channel capacity, batch size and     *)
(* number of requests: first its byte accounting, then what becomes of the *)
(* requests.                                                               *)
(*                                                                         *)
(* BytesAccounted is not inductive: it speaks of the first and the last    *)
(* queued request only, and says nothing of what a receive leaves behind.  *)
(* IInv adds that the running totals of the queued requests form a chain   *)
(* (QueueChain), that the last one is the client's latest (LastCum), that  *)
(* no batch is held between two batches (IdleBatch), that a request other  *)
(* than a write carries no bytes (NonWriteFree), and that the channel is   *)
(* there as long as the worker is (RxInv).                                 *)
(***************************************************************************)
EXTENDS FlushControl, TLAPS

Sending == {"acquire", "acquire_wait", "push", "release_err"}

(* One sequence number stays free for the write of shutdown.               *)
SeqRoom ==
    handle => /\ sentSeq < MaxSeq
              /\ cpc \in {"acquire", "acquire_wait"} => creq.seq < MaxSeq

(* Callbacks are sent Ok or Err, never the result of a panic.              *)
ResultInv == wpc = "callbacks" => result /= "panic"

(* The channel lives as long as the worker, and nothing is queued after.   *)
RxInv ==
    /\ wpc /= "done" => rx
    /\ ~rx => queue = <<>>
    /\ cpc = "release_err" => ~rx

NonWriteFree ==
    /\ \A i \in 1..Len(queue) : queue[i].kind /= "write" => queue[i].size = 0
    /\ creq.kind /= "write" => creq.size = 0

IdleBatch == wpc \in {"recv", "nonflush", "complete"} => batchBytes = 0

QueueChain ==
    /\ \A i, j \in 1..Len(queue) : i <= j => queue[i].cum <= queue[j].cum
    /\ \A i \in 1..Len(queue) : i + 1 \in 1..Len(queue) =>
          queue[i + 1].cum = queue[i].cum + queue[i + 1].size

LastCum ==
    queue /= <<>> =>
        creq.cum = queue[Len(queue)].cum
                   + IF cpc \in Sending THEN creq.size ELSE 0

ByteInv == /\ RxInv /\ NonWriteFree /\ IdleBatch
           /\ QueueChain /\ LastCum
           /\ BytesAccounted /\ QueuedBytesBounded

Shape == SeqRoom /\ ResultInv

IInv == TypeOK /\ Shape /\ ByteInv

-----------------------------------------------------------------------------
(* Facts about the operators of the model.                                 *)

(* The bytes of the queue are a natural number.                            *)
LEMMA QueueBytesNat ==
    ASSUME queue \in Seq(Request), QueueChain
    PROVE  QueueBytes \in Nat
<1>1. CASE queue = <<>>
      BY <1>1 DEF QueueBytes
<1>2. CASE queue /= <<>>
      <2>1. Len(queue) \in Nat /\ 1 \in 1..Len(queue)
            /\ Len(queue) \in 1..Len(queue)
            BY <1>2
      <2>2. queue[1] \in Request /\ queue[Len(queue)] \in Request
            BY <2>1
      <2>3. queue[1].cum <= queue[Len(queue)].cum
            BY <2>1 DEF QueueChain
      <2> QED BY <1>2, <2>2, <2>3 DEF QueueBytes, Request
<1> QED BY <1>1, <1>2

(* A batch that is accounted for can be released.                          *)
LEMMA AccountedFits ==
    ASSUME IInv PROVE WorkerReleaseFits
<1> SUFFICES ASSUME wpc = "callbacks" PROVE used >= batchBytes
    BY DEF WorkerReleaseFits
<1>1. QueueBytes \in Nat
      BY QueueBytesNat DEF IInv, TypeOK, ByteInv
<1>2. HandBytes \in Nat
      BY DEF HandBytes, IInv, TypeOK, Request
<1>3. used = HandBytes + QueueBytes + batchBytes
      BY DEF IInv, ByteInv, BytesAccounted, Counting
<1> QED BY <1>1, <1>2, <1>3 DEF IInv, TypeOK

(* usize addition and subtraction stay within usize.                       *)
LEMMA USizeRange ==
    ASSUME NEW a \in 0..UsizeMax, NEW b \in 0..UsizeMax
    PROVE  UAdd(a, b) \in 0..UsizeMax /\ USub(a, b) \in 0..UsizeMax
BY ConstantsAssumption DEF UAdd, USub

(* Every request size fits in a usize.                                     *)
LEMMA SizeRange ==
    ASSUME NEW s \in Sizes \union {0} PROVE s \in 0..UsizeMax
BY ConstantsAssumption, UsizeAssumption

(* What Head, Tail and Append do to the channel and to the batch.          *)
LEMMA QueueOps ==
    ASSUME NEW q \in Seq(Request), NEW r \in Request
    PROVE  /\ Append(q, r) \in Seq(Request)
           /\ q /= <<>> => Head(q) \in Request /\ Tail(q) \in Seq(Request)
OBVIOUS

-----------------------------------------------------------------------------
(* Each step keeps the types, as long as the worker's release fits.        *)
LEMMA NextType ==
    ASSUME TypeOK, Shape, WorkerReleaseFits, [Next]_vars
    PROVE  TypeOK' /\ Shape'
<1> USE ConstantsAssumption
    DEF TypeOK, Shape, SeqRoom, ResultInv, clientVars, workerVars,
        sharedVars
<1>1. CASE UNCHANGED vars
      BY <1>1 DEF vars
<1>2. ASSUME NEW kind \in Kinds, NEW size \in Sizes \union {0},
             Send(kind, size)
      PROVE  TypeOK' /\ Shape'
      BY <1>2 DEF Send, BeginSend, Request, ClientPCs
<1>3. CASE WaitIdle
      BY <1>3 DEF WaitIdle, ClientPCs
<1>4. ASSUME NEW size \in Sizes, Shutdown(size)
      PROVE  TypeOK' /\ Shape'
      <2>1. sentSeq + 1 \in 0..MaxSeq /\ creq.cum + size \in Nat
            BY <1>4 DEF Shutdown, Request
      <2>2. creq' \in Request /\ creq'.size \in Sizes \union {0}
            BY <1>4, <2>1 DEF Shutdown, BeginSend, Request, Kinds
      <2> QED BY <1>4, <2>2 DEF Shutdown, BeginSend, ClientPCs
<1>5. CASE AcquireWait
      BY <1>5 DEF AcquireWait, ClientPCs
<1>6. CASE Acquire
      <2>1. used' \in 0..UsizeMax
            BY <1>6, USizeRange, SizeRange DEF Acquire
      <2> QED BY <1>6, <2>1 DEF Acquire, ClientPCs, Request
<1>7. CASE Push
      <2>1. queue' \in Seq(Request) /\ Len(queue') <= ChanCap
            BY <1>7, QueueOps DEF Push, ChannelHasRoom
      <2>2. outcome' \in [1..MaxSeq -> Outcomes]
            BY <1>7 DEF Push, ChannelHasRoom, Outcomes
      <2> QED BY <1>7, <2>1, <2>2
          DEF Push, ChannelHasRoom, AfterSend, ClientPCs
<1>8. CASE PushFail
      <2>1. outcome' \in [1..MaxSeq -> Outcomes]
            BY <1>8 DEF PushFail, Outcomes
      <2> QED BY <1>8, <2>1 DEF PushFail, ClientPCs
<1>9. CASE ReleaseErr
      <2>1. used' \in 0..UsizeMax
            BY <1>9, USizeRange, SizeRange DEF ReleaseErr
      <2> QED BY ZenonT(60), <1>9, <2>1 DEF ReleaseErr, AfterSend, ClientPCs
<1>10. CASE StatReply
      BY <1>10 DEF StatReply, ClientPCs
<1>11. CASE WaitForTurn
      BY <1>11 DEF WaitForTurn, ClientPCs
<1>12. CASE Close
      BY ZenonT(60), <1>12 DEF Close, ClientPCs
<1>13. CASE Join
      BY <1>13 DEF Join, Joined, ClientPCs
<1>14. CASE Recv
      <2>1. Head(queue) \in Request /\ Tail(queue) \in Seq(Request)
            /\ Len(Tail(queue)) <= ChanCap
            BY <1>14 DEF Recv
      <2>2. NoReq \in Request
            BY DEF NoReq, Request, Kinds
      <2>3. <<Head(queue)>> \in Seq(Request) /\ <<>> \in Seq(Request)
            BY <2>1
      <2>4. Head(queue).seq \in 0..MaxSeq /\ Head(queue).size \in Nat
            BY <2>1 DEF Request
      <2>5. /\ writes' \in Seq(Request) /\ nonFlush' \in Request
            /\ maxSeq' \in 0..MaxSeq /\ batchBytes' \in Nat
        <3>1. CASE Head(queue).kind = "write"
              BY <1>14, <2>2, <2>3, <2>4, <3>1 DEF Recv
        <3>2. CASE Head(queue).kind /= "write"
              BY <1>14, <2>1, <2>3, <3>2 DEF Recv
        <3> QED BY <3>1, <3>2
      <2>6. wpc' \in {"collect", "nonflush"} /\ queue' = Tail(queue)
            BY <1>14 DEF Recv
      <2> QED BY <1>14, <2>1, <2>5, <2>6 DEF Recv, WorkerPCs
<1>15. CASE RecvClosed
      BY <1>15 DEF RecvClosed, WorkerPCs
<1>16. CASE Collect
      <2>1. Head(queue) \in Request /\ Tail(queue) \in Seq(Request)
            /\ Len(Tail(queue)) <= ChanCap
            BY <1>16 DEF Collect
      <2>2. Append(writes, Head(queue)) \in Seq(Request)
            BY <2>1
      <2>3. Head(queue).seq \in 0..MaxSeq /\ Head(queue).size \in Nat
            BY <2>1 DEF Request
      <2>4. /\ writes' \in Seq(Request) /\ nonFlush' \in Request
            /\ maxSeq' \in 0..MaxSeq /\ batchBytes' \in Nat
        <3>1. CASE Head(queue).kind = "write"
          <4>1. /\ writes' = Append(writes, Head(queue))
                /\ maxSeq' = MaxOf(maxSeq, Head(queue).seq)
                /\ batchBytes' = batchBytes + Head(queue).size
                /\ nonFlush' = nonFlush
                BY <1>16, <3>1 DEF Collect
          <4>2. MaxOf(maxSeq, Head(queue).seq) \in 0..MaxSeq
                BY <2>3 DEF MaxOf
          <4> QED BY SMTT(60), <2>2, <2>3, <4>1, <4>2
        <3>2. CASE Head(queue).kind /= "write"
              BY <1>16, <2>1, <3>2 DEF Collect
        <3> QED BY <3>1, <3>2
      <2>5. wpc' \in {"collect", "io"} /\ queue' = Tail(queue)
            BY <1>16 DEF Collect
      <2> QED BY <1>16, <2>1, <2>4, <2>5 DEF Collect, WorkerPCs
<1>17. CASE CollectEnd
      BY <1>17 DEF CollectEnd, WorkerPCs
<1>18. ASSUME NEW res \in {"ok", "err"}, Io(res)
      PROVE  TypeOK' /\ Shape'
      BY <1>18 DEF Io, WorkerPCs
<1>19. CASE IoPanic
      BY <1>19 DEF IoPanic, WorkerPCs
<1>20. CASE Callback
      <2>1. writes' \in Seq(Request)
            BY <1>20 DEF Callback
      <2>2. outcome' \in [1..MaxSeq -> Outcomes]
            BY <1>20 DEF Callback, Outcomes
      <2> QED BY <1>20, <2>1, <2>2 DEF Callback
<1>21. CASE CallbackPanic
      <2>1. writes' \in Seq(Request)
            BY <1>21 DEF CallbackPanic
      <2>2. outcome' \in [1..MaxSeq -> Outcomes]
            BY <1>21 DEF CallbackPanic, Outcomes
      <2> QED BY <1>21, <2>1, <2>2 DEF CallbackPanic, WorkerPCs
<1>22. CASE Release
      <2>1. used' \in 0..UsizeMax
            BY <1>22
                DEF Release, ReleasedBytes, AfterBatch, WorkerReleaseFits,
                    USub
      <2> QED BY <1>22, <2>1
          DEF Release, ReleasedBytes, AfterBatch, NotifyReleased, ClientPCs,
              WorkerPCs
<1>23. CASE HandleNonFlush
      <2>1. NoReq \in Request
            BY DEF NoReq, Request, Kinds
      <2>2. outcome' \in [1..MaxSeq -> Outcomes]
            BY <1>23 DEF HandleNonFlush, Outcomes
      <2>3. maxSeq' \in 0..MaxSeq
            BY <1>23 DEF HandleNonFlush, MaxOf, Request
      <2> QED BY <1>23, <2>1, <2>2, <2>3 DEF HandleNonFlush, WorkerPCs
<1>24. CASE HandleNonFlushErr
      BY <1>24 DEF HandleNonFlushErr, WorkerPCs
<1>25. CASE Complete
      BY <1>25 DEF Complete, NotifyChanged, MaxOf, ClientPCs, WorkerPCs
<1>26. CASE Unwind
      <2>1. NoReq \in Request /\ <<>> \in Seq(Request)
            BY DEF NoReq, Request, Kinds
      <2>2. outcome' \in [1..MaxSeq -> Outcomes]
            BY <1>26 DEF Unwind, Drop, Outcomes
      <2> QED BY ZenonT(60), <1>26, <2>1, <2>2 DEF Unwind, WorkerPCs
<1>27. CASE ReleaseAll
      BY <1>27 DEF ReleaseAll, AfterRun, NotifyReleased, ClientPCs, WorkerPCs
<1>28. CASE Fail
      BY <1>28 DEF Fail, NotifyChanged, ClientPCs, WorkerPCs
<1>29. CASE Exit
      <2>1. outcome' \in [1..MaxSeq -> Outcomes]
            BY <1>29 DEF Exit, Drop, Outcomes
      <2>2. <<>> \in Seq(Request) /\ Len(<<>>) <= ChanCap
            OBVIOUS
      <2> QED BY ZenonT(60), <1>29, <2>1, <2>2 DEF Exit, WorkerPCs
<1>30. CASE Closed
      BY <1>30 DEF Closed, vars
<1> QED
    BY <1>1, <1>2, <1>3, <1>4, <1>5, <1>6, <1>7, <1>8, <1>9, <1>10, <1>11,
       <1>12, <1>13, <1>14, <1>15, <1>16, <1>17, <1>18, <1>19, <1>20, <1>21,
       <1>22, <1>23, <1>24, <1>25, <1>26, <1>27, <1>28, <1>29, <1>30
    DEF Next, ClientCall, ClientStep, WorkerStep

-----------------------------------------------------------------------------
(* A step that leaves the queue and the requests alone keeps the chain.    *)
LEMMA ChainUnchanged ==
    ASSUME QueueChain, NonWriteFree, UNCHANGED <<queue, creq>>
    PROVE  QueueChain' /\ NonWriteFree'
BY DEF QueueChain, NonWriteFree

(* Receiving the first request shortens the chain by its bytes.            *)
LEMMA ChainTail ==
    ASSUME TypeOK, QueueChain, NonWriteFree, queue /= <<>>,
           queue' = Tail(queue), UNCHANGED creq
    PROVE  /\ QueueChain' /\ NonWriteFree'
           /\ QueueBytes' = QueueBytes - Head(queue).size
           /\ queue' /= <<>> => queue'[Len(queue')] = queue[Len(queue)]
           /\ Head(queue).kind /= "write" => Head(queue).size = 0
           /\ Head(queue).size \in Nat
<1>1. /\ queue \in Seq(Request) /\ Len(queue) \in Nat /\ Len(queue) >= 1
      /\ Len(queue') = Len(queue) - 1
      /\ Head(queue) = queue[1]
      /\ \A i \in 1..Len(queue') : queue'[i] = queue[i + 1]
      BY DEF TypeOK
<1>2. QueueChain' /\ NonWriteFree'
  <2>1. \A i \in 1..Len(queue') : i + 1 \in 1..Len(queue)
        BY <1>1
  <2>2. \A i, j \in 1..Len(queue') :
            i <= j => queue'[i].cum <= queue'[j].cum
        BY <1>1, <2>1 DEF QueueChain
  <2>3. ASSUME NEW i \in 1..Len(queue'), i + 1 \in 1..Len(queue')
        PROVE  queue'[i + 1].cum = queue'[i].cum + queue'[i + 1].size
    <3>1. queue'[i] = queue[i + 1] /\ queue'[i + 1] = queue[(i + 1) + 1]
          BY <1>1, <2>3
    <3>2. i + 1 \in 1..Len(queue) /\ (i + 1) + 1 \in 1..Len(queue)
          BY <2>1, <2>3
    <3> QED BY <3>1, <3>2 DEF QueueChain
  <2>4. NonWriteFree'
        BY <1>1, <2>1 DEF NonWriteFree
  <2> QED BY <2>2, <2>3, <2>4 DEF QueueChain
<1>3. \A i \in 1..Len(queue) :
          queue[i].cum \in Nat /\ queue[i].size \in Nat
  <2>1. \A i \in 1..Len(queue) : queue[i] \in Request
        BY <1>1
  <2> QED BY <2>1 DEF Request
<1>4. QueueBytes' = QueueBytes - Head(queue).size
  <2>1. CASE Len(queue) = 1
        BY <1>1, <1>3, <2>1 DEF QueueBytes
  <2>2. CASE Len(queue) > 1
    <3>1. 2 \in 1..Len(queue) /\ 1 \in 1..Len(queue)
          /\ Len(queue) \in 1..Len(queue)
          BY <1>1, <2>2
    <3>2. queue[2].cum = queue[1].cum + queue[2].size
          BY <1>1, <3>1 DEF QueueChain
    <3>3. queue'[1] = queue[2] /\ queue'[Len(queue')] = queue[Len(queue)]
      <4>1. 1 \in 1..Len(queue') /\ Len(queue') \in 1..Len(queue')
            BY <1>1, <2>2
      <4>2. 1 + 1 = 2 /\ Len(queue') + 1 = Len(queue)
            BY <1>1
      <4> QED BY <1>1, <4>1, <4>2
    <3>4. queue' /= <<>> /\ queue /= <<>>
      <4>1. Len(queue') > 0
            BY <1>1, <2>2
      <4>2. Len(<<>>) = 0
            OBVIOUS
      <4> QED BY <4>1, <4>2
    <3> QED BY SMTT(60), <1>1, <1>3, <3>1, <3>2, <3>3, <3>4 DEF QueueBytes
  <2> QED BY <1>1, <2>1, <2>2
<1>5. queue' /= <<>> => queue'[Len(queue')] = queue[Len(queue)]
      BY <1>1 DEF TypeOK
<1>6. Head(queue).kind /= "write" => Head(queue).size = 0
      BY <1>1 DEF NonWriteFree
<1> QED BY <1>1, <1>2, <1>3, <1>4, <1>5, <1>6

(* Sending a request that was reserved lengthens the chain by its bytes.   *)
LEMMA ChainAppend ==
    ASSUME TypeOK, QueueChain, NonWriteFree, LastCum, cpc = "push",
           queue' = Append(queue, creq), UNCHANGED creq
    PROVE  /\ QueueChain' /\ NonWriteFree'
           /\ QueueBytes' = QueueBytes + creq.size
           /\ queue' /= <<>> /\ queue'[Len(queue')] = creq
<1>1. /\ queue \in Seq(Request) /\ Len(queue) \in Nat /\ creq \in Request
      /\ Len(queue') = Len(queue) + 1
      /\ queue'[Len(queue) + 1] = creq
      /\ \A i \in 1..Len(queue) : queue'[i] = queue[i]
      BY DEF TypeOK
<1>2. /\ \A i \in 1..Len(queue) :
            queue[i].cum \in Nat /\ queue[i].size \in Nat
      /\ creq.cum \in Nat /\ creq.size \in Nat
  <2>1. \A i \in 1..Len(queue) : queue[i] \in Request
        BY <1>1
  <2> QED BY <1>1, <2>1 DEF Request
<1>3. Len(queue) >= 1 => creq.cum = queue[Len(queue)].cum + creq.size
      BY <1>1 DEF LastCum, Sending
<1>4. \A i \in 1..Len(queue) : queue[i].cum <= creq.cum
      BY <1>1, <1>2, <1>3 DEF QueueChain
<1>5. QueueChain'
  <2>1. \A i \in 1..Len(queue') : i \in 1..Len(queue) \/ i = Len(queue) + 1
        BY <1>1
  <2>2. \A i, j \in 1..Len(queue') :
            i <= j => queue'[i].cum <= queue'[j].cum
        BY <1>1, <1>2, <1>4, <2>1 DEF QueueChain
  <2>3. ASSUME NEW i \in 1..Len(queue'), i + 1 \in 1..Len(queue')
        PROVE  queue'[i + 1].cum = queue'[i].cum + queue'[i + 1].size
    <3>1. i \in 1..Len(queue) /\ queue'[i] = queue[i]
          BY <1>1, <2>3
    <3>2. CASE i + 1 \in 1..Len(queue)
          BY <1>1, <3>1, <3>2 DEF QueueChain
    <3>3. CASE i = Len(queue)
          BY <1>1, <1>3, <3>1, <3>3
    <3> QED BY <2>1, <2>3, <3>1, <3>2, <3>3
  <2> QED BY <2>2, <2>3 DEF QueueChain
<1>6. NonWriteFree'
      BY <1>1 DEF NonWriteFree
<1>7. queue' /= <<>>
      BY <1>1
<1>8. QueueBytes' = QueueBytes + creq.size
  <2>1. CASE queue = <<>>
        BY <1>1, <1>2, <1>7, <2>1 DEF QueueBytes
  <2>2. CASE queue /= <<>>
        BY SMTT(60), <1>1, <1>2, <1>3, <1>7, <2>2 DEF QueueBytes
  <2> QED BY <2>1, <2>2
<1> QED BY <1>1, <1>5, <1>6, <1>7, <1>8

(* The bytes of the queue depend on the queue alone.                       *)
LEMMA QueueBytesUnchanged ==
    ASSUME UNCHANGED queue PROVE QueueBytes' = QueueBytes
BY DEF QueueBytes

(* While bytes are counted, a reservation never wraps.                     *)
LEMMA AcquireExact ==
    ASSUME TypeOK, QueuedBytesBounded, Counting, ~AcquireBlocks
    PROVE  /\ UAdd(used, creq.size) = used + creq.size
           /\ used = 0 \/ used + creq.size <= Limit
<1>1. creq.size \in 0..UsizeMax /\ used \in 0..UsizeMax
      BY SizeRange DEF TypeOK
<1>2. used + creq.size <= UsizeMax
  <2>1. CASE creq.size = 0
        BY <1>1, <2>1, ConstantsAssumption
  <2>2. CASE creq.size \in Sizes
    <3>1. CASE used <= Limit
          BY <1>1, <2>2, <3>1, ConstantsAssumption, UsizeAssumption
    <3>2. ASSUME NEW s \in Sizes, used <= s
          PROVE  used + creq.size <= UsizeMax
          BY <1>1, <2>2, <3>2, ConstantsAssumption, UsizeAssumption
    <3> QED BY <3>1, <3>2 DEF QueuedBytesBounded
  <2> QED BY <2>1, <2>2 DEF TypeOK
<1>3. UAdd(used, creq.size) = used + creq.size
      BY <1>2 DEF UAdd
<1>4. used = 0 \/ used + creq.size <= Limit
      BY <1>1, <1>3, ConstantsAssumption DEF AcquireBlocks
<1> QED BY <1>3, <1>4

-----------------------------------------------------------------------------
(* A client step that reserves and sends nothing keeps the byte invariant. *)
LEMMA ClientQuiet ==
    ASSUME IInv, UNCHANGED <<queue, creq, used, batchBytes, rx, wpc>>,
           cpc \in Sending <=> cpc' \in Sending,
           cpc \in {"push", "release_err"} <=> cpc' \in {"push", "release_err"},
           RxInv'
    PROVE  ByteInv'
<1>1. QueueChain' /\ NonWriteFree'
      BY ChainUnchanged DEF IInv, ByteInv
<1>2. QueueBytes' = QueueBytes
      BY QueueBytesUnchanged
<1>3. HandBytes' = HandBytes /\ (Counting' <=> Counting)
      BY DEF HandBytes, Counting
<1>4. LastCum'
      BY DEF LastCum, IInv, ByteInv
<1>5. BytesAccounted' /\ QueuedBytesBounded'
      BY <1>2, <1>3
      DEF BytesAccounted, QueuedBytesBounded, IInv, ByteInv
<1>6. IdleBatch'
      BY DEF IdleBatch, IInv, ByteInv
<1> QED BY <1>1, <1>4, <1>5, <1>6 DEF ByteInv

(* A worker step that touches neither queue nor bytes keeps it too.        *)
LEMMA WorkerQuiet ==
    ASSUME IInv, UNCHANGED <<queue, creq, cpc, used, batchBytes, rx>>,
           IdleBatch', Counting' => Counting, wpc' /= "done", wpc /= "done"
    PROVE  ByteInv'
<1>1. QueueChain' /\ NonWriteFree'
      BY ChainUnchanged DEF IInv, ByteInv
<1>2. QueueBytes' = QueueBytes
      BY QueueBytesUnchanged
<1>3. HandBytes' = HandBytes
      BY DEF HandBytes
<1>4. LastCum'
      BY DEF LastCum, IInv, ByteInv
<1>5. BytesAccounted' /\ QueuedBytesBounded'
      BY <1>2, <1>3
      DEF BytesAccounted, QueuedBytesBounded, IInv, ByteInv
<1>6. RxInv'
      BY DEF RxInv, IInv, ByteInv
<1> QED BY <1>1, <1>4, <1>5, <1>6 DEF ByteInv

(* Each step of the client keeps the byte invariant.                       *)
LEMMA ClientBytes ==
    ASSUME IInv, ClientCall \/ ClientStep
    PROVE  ByteInv'
<1> USE DEF workerVars, sharedVars
<1>1. ASSUME NEW o, NEW kind \in Kinds, NEW size \in Sizes \union {0},
             kind /= "write" => size = 0, cpc = "idle",
             BeginSend(o, kind, size), UNCHANGED <<workerVars, sharedVars>>
      PROVE  ByteInv'
  <2>1. creq' = [seq |-> sentSeq + 1, kind |-> kind, size |-> size,
                 cum |-> creq.cum + size] /\ cpc' = "acquire"
        BY <1>1 DEF BeginSend
  <2>2. QueueChain' /\ NonWriteFree'
        BY <1>1, <2>1 DEF QueueChain, NonWriteFree, IInv, ByteInv
  <2>3. LastCum'
    <3>1. ASSUME queue /= <<>>
          PROVE  creq.cum = queue[Len(queue)].cum
                 /\ queue[Len(queue)].cum \in Nat
      <4>1. queue[Len(queue)] \in Request
            BY <3>1 DEF IInv, TypeOK
      <4> QED BY <1>1, <3>1, <4>1
              DEF LastCum, Sending, IInv, ByteInv, Request
    <3> QED BY <1>1, <2>1, <3>1, ConstantsAssumption DEF LastCum, Sending
  <2>4. QueueBytes' = QueueBytes
        BY <1>1, QueueBytesUnchanged
  <2>5. HandBytes = 0 /\ HandBytes' = 0 /\ (Counting' <=> Counting)
        BY <1>1, <2>1 DEF HandBytes, Counting
  <2>6. BytesAccounted' /\ QueuedBytesBounded'
        BY <1>1, <2>4, <2>5
        DEF BytesAccounted, QueuedBytesBounded, IInv, ByteInv
  <2>7. RxInv' /\ IdleBatch'
        BY <1>1, <2>1 DEF RxInv, IdleBatch, IInv, ByteInv
  <2> QED BY <2>2, <2>3, <2>6, <2>7 DEF ByteInv
<1>2. ASSUME NEW kind \in Kinds, NEW size \in Sizes \union {0},
             Send(kind, size)
      PROVE  ByteInv'
      BY <1>1, <1>2 DEF Send
<1>3. ASSUME NEW size \in Sizes, Shutdown(size)
      PROVE  ByteInv'
      BY <1>1, <1>3 DEF Shutdown, Kinds
<1>4. CASE WaitIdle \/ AcquireWait \/ StatReply \/ WaitForTurn \/ Close
           \/ Join
  <2>1. RxInv'
        BY <1>4 DEF WaitIdle, AcquireWait, StatReply, WaitForTurn, Close,
                    Join, RxInv, IInv, ByteInv
  <2> QED BY <1>4, <2>1, ClientQuiet
          DEF WaitIdle, AcquireWait, StatReply, WaitForTurn, Close, Join,
              Sending
<1>5. CASE Acquire
  <2>1. QueueChain' /\ NonWriteFree'
        BY <1>5, ChainUnchanged DEF Acquire, IInv, ByteInv
  <2>2. QueueBytes' = QueueBytes
        BY <1>5, QueueBytesUnchanged DEF Acquire
  <2>3. HandBytes = 0 /\ HandBytes' = creq.size /\ (Counting' <=> Counting)
        BY <1>5 DEF Acquire, HandBytes, Counting
  <2>4. LastCum' /\ RxInv' /\ IdleBatch'
        BY <1>5 DEF Acquire, LastCum, RxInv, IdleBatch, Sending, IInv, ByteInv
  <2>5. CASE Counting
    <3>1. used' = used + creq.size /\ (used = 0 \/ used' <= Limit)
          BY <1>5, <2>5, AcquireExact DEF Acquire, IInv, ByteInv
    <3>2. creq.size \in Nat /\ batchBytes \in Nat /\ QueueBytes \in Nat
          BY QueueBytesNat, ConstantsAssumption
          DEF IInv, ByteInv, TypeOK, Request
    <3>3. BytesAccounted'
          BY <1>5, <2>2, <2>3, <2>5, <3>1, <3>2
          DEF Acquire, BytesAccounted, IInv, ByteInv
    <3>4. QueuedBytesBounded'
      <4>1. CASE used = 0 /\ creq.size = 0
            BY <3>1, <4>1, ConstantsAssumption DEF QueuedBytesBounded
      <4>2. CASE used = 0 /\ creq.size \in Sizes
            BY <3>1, <3>2, <4>2 DEF QueuedBytesBounded
      <4>3. CASE used' <= Limit
            BY <4>3 DEF QueuedBytesBounded
      <4> QED BY <3>1, <4>1, <4>2, <4>3 DEF IInv, TypeOK
    <3> QED BY <2>1, <2>4, <3>3, <3>4 DEF ByteInv
  <2>6. CASE ~Counting
        BY <2>1, <2>3, <2>4, <2>6
        DEF ByteInv, BytesAccounted, QueuedBytesBounded
  <2> QED BY <2>5, <2>6
<1>6. CASE Push
  <2>1. /\ QueueChain' /\ NonWriteFree'
        /\ QueueBytes' = QueueBytes + creq.size
        /\ queue' /= <<>> /\ queue'[Len(queue')] = creq
        BY <1>6, ChainAppend DEF Push, ChannelHasRoom, IInv, ByteInv
  <2>2. /\ HandBytes = creq.size /\ HandBytes' = 0
        /\ (Counting' <=> Counting) /\ cpc' \notin Sending
        BY <1>6
            DEF Push, ChannelHasRoom, HandBytes, Counting, AfterSend, Sending
  <2>3. LastCum'
        BY <1>6, <2>1, <2>2
            DEF Push, ChannelHasRoom, LastCum, IInv, TypeOK, Request
  <2>4. creq.size \in Nat /\ batchBytes \in Nat /\ QueueBytes \in Nat
        BY QueueBytesNat DEF IInv, ByteInv, TypeOK, Request
  <2>5. BytesAccounted' /\ QueuedBytesBounded'
        BY <1>6, <2>1, <2>2, <2>4

            DEF Push, ChannelHasRoom, BytesAccounted, QueuedBytesBounded,
                IInv, ByteInv
  <2>6. RxInv' /\ IdleBatch'
        BY <1>6, <2>2
            DEF Push, ChannelHasRoom, RxInv, IdleBatch, Sending, IInv, ByteInv
  <2> QED BY <2>1, <2>3, <2>5, <2>6 DEF ByteInv
<1>7. CASE PushFail
  <2>1. RxInv'
        BY <1>7 DEF PushFail, RxInv, IInv, ByteInv
  <2> QED BY <1>7, <2>1, ClientQuiet DEF PushFail, Sending
<1>8. CASE ReleaseErr
  <2>1. QueueChain' /\ NonWriteFree'
        BY <1>8, ChainUnchanged DEF ReleaseErr, IInv, ByteInv
  <2>2. ~Counting' /\ queue' = <<>> /\ RxInv' /\ IdleBatch'
        BY <1>8 DEF ReleaseErr, AfterSend, Counting, RxInv, IdleBatch, IInv,
                    ByteInv
  <2> QED BY <2>1, <2>2
          DEF ByteInv, LastCum, BytesAccounted, QueuedBytesBounded
<1> QED
    BY <1>2, <1>3, <1>4, <1>5, <1>6, <1>7, <1>8 DEF ClientCall, ClientStep

(* Each step of the worker keeps the byte invariant.                       *)
LEMMA WorkerBytes ==
    ASSUME IInv, WorkerStep
    PROVE  ByteInv'
<1> USE DEF clientVars, sharedVars
<1>1. ASSUME wpc /= "done", queue /= <<>>, queue' = Tail(queue),
             UNCHANGED <<cpc, creq, used, rx>>, IdleBatch',
             wpc \notin {"fail", "exit"}, wpc' /= "done",
             batchBytes' = batchBytes + Head(queue).size
      PROVE  ByteInv'
  <2>1. /\ QueueChain' /\ NonWriteFree'
        /\ QueueBytes' = QueueBytes - Head(queue).size
        /\ queue' /= <<>> => queue'[Len(queue')] = queue[Len(queue)]
        /\ Head(queue).size \in Nat
        BY <1>1, ChainTail DEF IInv, ByteInv
  <2>2. HandBytes' = HandBytes /\ HandBytes \in Nat
        BY <1>1 DEF HandBytes, IInv, TypeOK, Request
  <2>3. QueueBytes \in Nat /\ batchBytes \in Nat
        BY QueueBytesNat DEF IInv, ByteInv, TypeOK
  <2>4. LastCum' /\ RxInv'
        BY <1>1, <2>1 DEF LastCum, RxInv, IInv, ByteInv
  <2>5. used = HandBytes + QueueBytes + batchBytes
        BY <1>1 DEF IInv, ByteInv, BytesAccounted, Counting
  <2>6. BytesAccounted'
        BY SMTT(60), <1>1, <2>1, <2>2, <2>3, <2>5 DEF BytesAccounted
  <2>7. QueuedBytesBounded'
        BY <1>1 DEF QueuedBytesBounded, Counting, IInv, ByteInv
  <2> QED BY <1>1, <2>1, <2>4, <2>6, <2>7 DEF ByteInv
<1>2. ASSUME queue /= <<>>
      PROVE  /\ Head(queue).kind /= "write" => Head(queue).size = 0
             /\ Head(queue).size \in Nat
  <2>1. Head(queue) = queue[1] /\ 1 \in 1..Len(queue)
        /\ Head(queue) \in Request
        BY <1>2 DEF IInv, TypeOK
  <2> QED BY <2>1 DEF IInv, ByteInv, NonWriteFree, Request
<1>3. CASE Recv
  <2>1. batchBytes = 0
        BY <1>3 DEF Recv, IInv, ByteInv, IdleBatch
  <2>2. batchBytes' = batchBytes + Head(queue).size /\ IdleBatch'
        /\ wpc' /= "done"
        BY <1>2, <1>3, <2>1 DEF Recv, IdleBatch
  <2> QED BY <1>1, <1>3, <2>2 DEF Recv
<1>4. CASE Collect
  <2>1. batchBytes' = batchBytes + Head(queue).size /\ IdleBatch'
        /\ wpc' /= "done"
        BY SMTT(60), <1>2, <1>4 DEF Collect, IdleBatch, IInv, TypeOK
  <2> QED BY <1>1, <1>4, <2>1 DEF Collect
<1>5. CASE RecvClosed \/ CollectEnd \/ IoPanic \/ Callback \/ CallbackPanic
           \/ HandleNonFlush \/ HandleNonFlushErr \/ Unwind
           \/ \E res \in {"ok", "err"} : Io(res)
  <2>1. /\ IdleBatch' /\ (Counting' => Counting) /\ wpc' /= "done"
        /\ wpc /= "done"
        BY <1>5
        DEF RecvClosed, CollectEnd, IoPanic, Callback, CallbackPanic, Io,
            HandleNonFlush, HandleNonFlushErr, Unwind, IdleBatch, Counting,
            IInv, ByteInv
  <2> QED BY <1>5, <2>1, WorkerQuiet
          DEF RecvClosed, CollectEnd, IoPanic, Callback, CallbackPanic, Io,
              HandleNonFlush, HandleNonFlushErr, Unwind
<1>6. ASSUME cpc' = cpc \/ (cpc \notin {"push", "release_err"}
                            /\ cpc' \notin {"push", "release_err"}),
             cpc \in Sending <=> cpc' \in Sending,
             UNCHANGED <<queue, creq, rx>>, wpc' /= "done", wpc /= "done"
      PROVE  /\ QueueChain' /\ NonWriteFree' /\ LastCum' /\ RxInv'
             /\ HandBytes' = HandBytes /\ QueueBytes' = QueueBytes
  <2>1. QueueChain' /\ NonWriteFree'
        BY <1>6, ChainUnchanged DEF IInv, ByteInv
  <2>2. LastCum' /\ RxInv'
        BY <1>6 DEF LastCum, RxInv, IInv, ByteInv
  <2>3. HandBytes' = HandBytes
        BY <1>6 DEF HandBytes
  <2> QED BY <1>6, <2>1, <2>2, <2>3, QueueBytesUnchanged
<1>7. CASE Release
  <2>1. /\ QueueChain' /\ NonWriteFree' /\ LastCum' /\ RxInv'
        /\ HandBytes' = HandBytes /\ QueueBytes' = QueueBytes
        BY <1>6, <1>7
            DEF Release, ReleasedBytes, AfterBatch, NotifyReleased, Sending
  <2>2. used >= batchBytes
        BY <1>7, AccountedFits
            DEF Release, ReleasedBytes, AfterBatch, WorkerReleaseFits
  <2>3. used' = used - batchBytes /\ batchBytes' = 0
        BY <1>7, <2>2 DEF Release, ReleasedBytes, AfterBatch, USub
  <2>4. QueueBytes \in Nat /\ HandBytes \in Nat /\ batchBytes \in Nat
        /\ used \in Nat
        BY QueueBytesNat, ConstantsAssumption
        DEF HandBytes, IInv, ByteInv, TypeOK, Request
  <2>5. used = HandBytes + QueueBytes + batchBytes
        BY <1>7
            DEF Release, ReleasedBytes, AfterBatch, IInv, ByteInv,
                BytesAccounted, Counting
  <2>6. BytesAccounted' /\ IdleBatch'
        BY <2>1, <2>3, <2>4, <2>5 DEF BytesAccounted, IdleBatch
  <2>7. QueuedBytesBounded'
    <3>1. used <= Limit \/ \E s \in Sizes : used <= s
          BY <1>7
              DEF Release, ReleasedBytes, AfterBatch, IInv, ByteInv,
                  QueuedBytesBounded, Counting
    <3> QED BY <2>3, <2>4, <3>1, ConstantsAssumption DEF QueuedBytesBounded
  <2> QED BY <2>1, <2>6, <2>7 DEF ByteInv
<1>8. CASE Complete
  <2>1. /\ QueueChain' /\ NonWriteFree' /\ LastCum' /\ RxInv'
        /\ HandBytes' = HandBytes /\ QueueBytes' = QueueBytes
        BY <1>6, <1>8 DEF Complete, NotifyChanged, Sending
  <2>2. BytesAccounted' /\ QueuedBytesBounded' /\ IdleBatch'
        BY <1>8, <2>1
        DEF Complete, BytesAccounted, QueuedBytesBounded, IdleBatch, Counting,
            IInv, ByteInv
  <2> QED BY <2>1, <2>2 DEF ByteInv
<1>9. CASE ReleaseAll
  <2>1. QueueChain' /\ NonWriteFree' /\ LastCum' /\ RxInv'
        BY <1>6, <1>9 DEF ReleaseAll, AfterRun, NotifyReleased, Sending
  <2>2. ~Counting' /\ IdleBatch'
        BY <1>9 DEF ReleaseAll, AfterRun, Counting, IdleBatch
  <2> QED BY <2>1, <2>2 DEF ByteInv, BytesAccounted, QueuedBytesBounded
<1>10. CASE Fail
  <2>1. QueueChain' /\ NonWriteFree' /\ LastCum' /\ RxInv'
        BY <1>6, <1>10 DEF Fail, NotifyChanged, Sending
  <2>2. ~Counting' /\ IdleBatch'
        BY <1>10 DEF Fail, Counting, IdleBatch
  <2> QED BY <2>1, <2>2 DEF ByteInv, BytesAccounted, QueuedBytesBounded
<1>11. CASE Exit
  <2>1. queue' = <<>> /\ creq' = creq
        BY <1>11 DEF Exit
  <2>2. ~Counting' /\ IdleBatch' /\ RxInv' /\ LastCum'
        BY <1>11, <2>1
        DEF Exit, Counting, IdleBatch, RxInv, LastCum, IInv, ByteInv
  <2>3. QueueChain' /\ NonWriteFree'
        BY <2>1 DEF QueueChain, NonWriteFree, IInv, ByteInv
  <2> QED BY <2>2, <2>3 DEF ByteInv, BytesAccounted, QueuedBytesBounded
<1> QED
    BY <1>3, <1>4, <1>5, <1>7, <1>8, <1>9, <1>10, <1>11 DEF WorkerStep

-----------------------------------------------------------------------------
(* The invariant holds of an idle client and a worker that waits.          *)
LEMMA InitIInv == Init => IInv
<1> SUFFICES ASSUME Init PROVE IInv
    OBVIOUS
<1> USE ConstantsAssumption DEF Init
<1>1. NoReq \in Request /\ NoReq.size = 0 /\ <<>> \in Seq(Request)
      BY DEF NoReq, Request, Kinds
<1>2. outcome \in [1..MaxSeq -> Outcomes]
      BY DEF Outcomes
<1>3. TypeOK
  <2>1. Len(queue) <= ChanCap /\ used \in 0..UsizeMax
        /\ 0 \in 0..MaxSeq /\ batchBytes \in Nat
        OBVIOUS
  <2> QED BY <1>1, <1>2, <2>1 DEF TypeOK, ClientPCs, WorkerPCs
<1>4. Shape
      BY DEF Shape, SeqRoom, ResultInv
<1>5. ByteInv
  <2>1. RxInv /\ IdleBatch /\ LastCum
        BY DEF RxInv, IdleBatch, LastCum
  <2>2. QueueChain /\ NonWriteFree
        BY <1>1 DEF QueueChain, NonWriteFree
  <2>3. BytesAccounted /\ QueuedBytesBounded
        BY DEF BytesAccounted, QueuedBytesBounded, QueueBytes, HandBytes
  <2> QED BY <2>1, <2>2, <2>3 DEF ByteInv
<1> QED BY <1>3, <1>4, <1>5 DEF IInv

(* Every step of the client or the worker keeps the invariant.             *)
LEMMA StepIInv == IInv /\ [Next]_vars => IInv'
<1> SUFFICES ASSUME IInv, [Next]_vars PROVE IInv'
    OBVIOUS
<1>1. TypeOK' /\ Shape'
      BY NextType, AccountedFits DEF IInv
<1>2. ByteInv'
  <2>1. CASE UNCHANGED vars
    <3>1. UNCHANGED <<queue, creq, used, batchBytes, rx, wpc, cpc>>
          BY <2>1 DEF vars, clientVars, workerVars, sharedVars
    <3>2. RxInv'
          BY <3>1 DEF RxInv, IInv, ByteInv
    <3> QED BY <3>1, <3>2, ClientQuiet
  <2>2. CASE ClientCall \/ ClientStep
        BY <2>2, ClientBytes
  <2>3. CASE WorkerStep
        BY <2>3, WorkerBytes
  <2> QED BY <2>1, <2>2, <2>3 DEF Next, Closed
<1> QED BY <1>1, <1>2 DEF IInv

(* So the invariant always holds.                                          *)
LEMMA AlwaysIInv == Spec => []IInv
BY InitIInv, StepIInv, PTL DEF Spec

(* The client, the channel and the worker keep their types: in particular  *)
(* the channel never holds more than its capacity.                         *)
THEOREM TypeCorrect == Spec => []TypeOK
<1>1. IInv => TypeOK
      BY DEF IInv
<1> QED BY <1>1, AlwaysIInv, PTL

(* Until the worker stops, QueuedBytes counts exactly the bytes in the     *)
(* request path, whatever the interleaving of acquire, send, receive and   *)
(* release.                                                                *)
THEOREM BytesAlwaysAccounted == Spec => []BytesAccounted
<1>1. IInv => BytesAccounted
      BY DEF IInv, ByteInv
<1> QED BY <1>1, AlwaysIInv, PTL

(* The worker's release never underflows the byte count.                   *)
THEOREM WorkerNeverUnderflows == Spec => []WorkerReleaseFits
<1>1. IInv => WorkerReleaseFits
      BY AccountedFits
<1> QED BY <1>1, AlwaysIInv, PTL

(* The bytes held by the request path stay within flush_queue_max_bytes,   *)
(* or within the size of one request.                                      *)
THEOREM QueueMemoryBounded == Spec => []QueuedBytesBounded
<1>1. IInv => QueuedBytesBounded
      BY DEF IInv, ByteInv
<1> QED BY <1>1, AlwaysIInv, PTL

-----------------------------------------------------------------------------
(***************************************************************************)
(* What becomes of the requests, for every number of requests, channel     *)
(* capacity and batch size: requests succeed in order, done_seq is never   *)
(* ahead of the work, an outcome is final, and shutdown settles them all.  *)
(*                                                                         *)
(* None of these is inductive.  The argument is that the sequence numbers  *)
(* 1 .. sentSeq are cut into four zones: settled, held by the worker's     *)
(* batch, queued, and not yet accepted.  The borders WBase, QBase and      *)
(* Accepted are computed from the lengths of the batch and of the queue;   *)
(* SeqInv says that the requests found there carry just the numbers that   *)
(* follow the borders, ZoneInv what the history says of each zone, and     *)
(* LifeInv how the two threads' life ends are ordered.                     *)
(***************************************************************************)

(* The last request that tx.send has accepted or refused.                  *)
Accepted == IF cpc = "push" THEN sentSeq - 1 ELSE sentSeq

(* The last request taken from the channel, and the last one settled.      *)
QBase == Accepted - Len(queue)
WBase == QBase - (IF nonFlush = NoReq THEN 0 ELSE 1) - Len(writes)

SeqChain ==
    /\ WBase >= 0
    /\ \A i \in 1..Len(queue) : queue[i].seq = QBase + i
    /\ nonFlush /= NoReq => nonFlush.seq = QBase
    /\ \A i \in 1..Len(writes) : writes[i].seq = WBase + i

ClientSeq ==
    /\ cpc \in {"acquire", "acquire_wait"} => creq.seq = sentSeq + 1
    /\ cpc \in {"push", "release_err"} => creq.seq = sentSeq

(* What the batch holds at each point of run_inner.                        *)
HeldInv ==
    /\ wpc \notin {"io", "callbacks", "nonflush", "unwind"}
           => nonFlush = NoReq
    /\ wpc \notin {"collect", "io", "callbacks", "unwind"} => writes = <<>>
    /\ wpc = "nonflush" => nonFlush /= NoReq

(* max_seq counts nothing that is not in the batch or settled.             *)
MaxSeqInv ==
    wpc \in {"collect", "io", "callbacks", "nonflush", "complete"}
        => maxSeq <= WBase + Len(writes)

SeqInv == SeqChain /\ ClientSeq /\ HeldInv /\ MaxSeqInv

(* run_inner has met no failure.                                           *)
Healthy == \/ wpc \in {"recv", "collect", "io", "nonflush", "complete"}
           \/ wpc = "callbacks" /\ result = "ok"

Settled == {"ok", "err", "dropped"}

Zones ==
    \A s \in 1..MaxSeq :
        /\ s > Accepted => outcome[s] = "unsent"
        /\ WBase < s /\ s <= Accepted => outcome[s] = "pending"
        /\ s <= WBase => outcome[s] \in Settled
        /\ s <= WBase /\ Healthy => outcome[s] = "ok"

ZoneInv == Zones /\ OkIsPrefix /\ DoneMeansHandled

(* The worker stops because it failed, which is on record before its end   *)
(* of the channel goes, or because the client has closed the other end.    *)
WorkerLife ==
    /\ wpc = "unwind" => result /= "ok"
    /\ wpc = "stop" /\ result = "ok" => ~tx
    /\ wpc \in {"exit", "done"} => failed \/ ~tx
    /\ wpc = "done" => ~rx

(* Only shutdown closes the client's end, and it joins the worker next.    *)
ClientLife ==
    /\ handle => tx
    /\ op = "shutdown" => ~handle
    /\ cpc \in Sending \union {"close"} => tx
    /\ cpc = "close" => op = "shutdown"
    /\ op = "shutdown" =>
           cpc \in Sending \union {"close", "join", "idle_check", "idle_wait",
                                   "closed"}
    /\ cpc \in {"join", "closed"} => ~tx
    /\ op = "shutdown" /\ cpc \in {"idle_check", "idle_wait"} => ~tx
    /\ ~tx => /\ op = "shutdown"
              /\ cpc \in {"join", "idle_check", "idle_wait", "closed"}
              /\ cpc /= "join" => wpc = "done"
    /\ ~sendOk \/ cpc = "release_err" => failed
    /\ cpc = "closed" => (sendOk /\ IdleReached) \/ failed

LifeInv == WorkerLife /\ ClientLife

OInv == SeqInv /\ ZoneInv /\ LifeInv

-----------------------------------------------------------------------------
(* The borders are integers.                                               *)
LEMMA BorderTypes ==
    ASSUME TypeOK
    PROVE  /\ Accepted \in Int /\ QBase \in Int /\ WBase \in Int
           /\ Len(queue) \in Nat /\ Len(writes) \in Nat /\ sentSeq \in Int
           /\ WBase + Len(writes) \in Int
           /\ WBase + Len(writes) = IF nonFlush = NoReq THEN QBase ELSE QBase - 1
           /\ QBase <= Accepted /\ WBase <= QBase
           /\ WBase + Len(writes) <= QBase
<1>1. Len(queue) \in Nat /\ Len(writes) \in Nat
      BY DEF TypeOK
<1>2. sentSeq \in Int /\ Accepted \in Int
      BY DEF TypeOK, Accepted
<1>3. QBase \in Int /\ QBase <= Accepted
      BY <1>1, <1>2 DEF QBase
<1>4. WBase \in Int /\ WBase <= QBase
      BY <1>1, <1>3 DEF WBase
<1>5. WBase + Len(writes) = IF nonFlush = NoReq THEN QBase ELSE QBase - 1
      BY <1>1, <1>3 DEF WBase
<1> QED BY <1>1, <1>2, <1>3, <1>4, <1>5

(* The sequence numbers of a run of requests.                              *)
LEMMA SeqsOfChain ==
    ASSUME NEW q \in Seq(Request), NEW b \in Int,
           \A i \in 1..Len(q) : q[i].seq = b + i,
           NEW s \in Int
    PROVE  s \in SeqsOf(q) <=> b < s /\ s <= b + Len(q)
<1>1. DOMAIN q = 1..Len(q) /\ Len(q) \in Nat
      OBVIOUS
<1>2. s \in SeqsOf(q) => b < s /\ s <= b + Len(q)
      BY <1>1 DEF SeqsOf
<1>3. ASSUME b < s, s <= b + Len(q) PROVE s \in SeqsOf(q)
  <2>1. s - b \in 1..Len(q) /\ b + (s - b) = s
        BY <1>1, <1>3
  <2>2. q[s - b].seq = s
        BY <2>1
  <2> QED BY <1>1, <2>1, <2>2 DEF SeqsOf
<1> QED BY <1>2, <1>3

-----------------------------------------------------------------------------
(* Each step keeps the order in which the two threads end.                 *)
LEMMA NextLife ==
    ASSUME IInv, LifeInv, [Next]_vars
    PROVE  LifeInv'
<1> USE DEF LifeInv, WorkerLife, ClientLife, Sending, IdleReached, IInv,
            TypeOK, ByteInv, RxInv
<1>1. CASE UNCHANGED vars
      BY <1>1 DEF vars, clientVars, workerVars, sharedVars
<1>2. CASE ClientCall
      BY <1>2 DEF ClientCall, Send, WaitIdle, Shutdown, BeginSend, workerVars,
                  sharedVars
<1>3. CASE AcquireWait \/ Acquire \/ StatReply \/ WaitForTurn \/ Close
           \/ Join
      BY <1>3 DEF AcquireWait, Acquire, StatReply, WaitForTurn, Close, Join,
                  Joined, workerVars, sharedVars
<1>4. CASE Push \/ PushFail \/ ReleaseErr
      BY <1>4 DEF Push, PushFail, ReleaseErr, AfterSend, workerVars,
                  ClientPCs
<1>5. CASE Recv \/ RecvClosed \/ Collect \/ CollectEnd
      BY <1>5 DEF Recv, RecvClosed, Collect, CollectEnd, clientVars,
                  sharedVars
<1>6. CASE \/ \E res \in {"ok", "err"} : Io(res)
           \/ IoPanic \/ Callback \/ CallbackPanic
      BY <1>6 DEF Io, IoPanic, Callback, CallbackPanic, clientVars,
                  sharedVars
<1>7. CASE Release
      BY <1>7 DEF Release, NotifyReleased, AfterBatch
<1>8. CASE HandleNonFlush \/ HandleNonFlushErr \/ Unwind
      BY <1>8 DEF HandleNonFlush, HandleNonFlushErr, Unwind, clientVars,
                  sharedVars
<1>9. CASE Complete
      BY <1>9 DEF Complete, NotifyChanged, MaxOf
<1>10. CASE ReleaseAll \/ Fail
      BY <1>10 DEF ReleaseAll, Fail, NotifyReleased, NotifyChanged, AfterRun
<1>11. CASE Exit
      BY <1>11 DEF Exit, clientVars
<1>12. CASE Closed
      BY <1>12, <1>1 DEF Closed
<1> QED BY <1>1, <1>2, <1>3, <1>4, <1>5, <1>6, <1>7, <1>8, <1>9, <1>10,
           <1>11, <1>12 DEF Next, ClientStep, WorkerStep

-----------------------------------------------------------------------------
(* Where each step moves the borders, and that the requests between them   *)
(* keep the numbers that follow the borders.                               *)

(* The borders and all they enclose stay where they are.                   *)
Still == /\ Accepted' = Accepted /\ QBase' = QBase /\ WBase' = WBase
         /\ UNCHANGED <<queue, writes, nonFlush>>

(* A step that moves no request moves no border.                           *)
LEMMA StillStep ==
    ASSUME TypeOK, SeqChain, UNCHANGED <<queue, writes, nonFlush>>,
           Accepted' = Accepted
    PROVE  Still /\ SeqChain'
<1>1. Still
      BY DEF Still, QBase, WBase
<1> QED BY <1>1 DEF Still, SeqChain

(* The first queued request, once taken, is in the batch.                  *)
LEMMA TakeStep ==
    ASSUME TypeOK, SeqChain, queue /= <<>>, nonFlush = NoReq,
           queue' = Tail(queue), UNCHANGED <<cpc, sentSeq>>,
           \/ writes' = Append(writes, Head(queue)) /\ nonFlush' = NoReq
           \/ writes' = writes /\ nonFlush' = Head(queue)
    PROVE  /\ SeqChain' /\ Accepted' = Accepted /\ QBase' = QBase + 1
           /\ WBase' = WBase
           /\ Head(queue).seq = QBase + 1 /\ Head(queue) /= NoReq
           /\ WBase + Len(writes) = QBase
<1>1. /\ Len(queue) \in Nat /\ Len(queue') = Len(queue) - 1
      /\ Head(queue) = queue[1] /\ 1 \in 1..Len(queue)
      /\ \A i \in 1..Len(queue') : queue'[i] = queue[i + 1]
                                  /\ i + 1 \in 1..Len(queue)
      BY DEF TypeOK
<1>2. /\ Accepted \in Int /\ QBase \in Int /\ WBase \in Int
      /\ WBase + Len(writes) = QBase /\ Len(writes) \in Nat
      BY BorderTypes
<1>3. Accepted' = Accepted /\ QBase' = QBase + 1
      BY <1>1, <1>2 DEF Accepted, QBase
<1>4. Head(queue).seq = QBase + 1 /\ QBase >= 0
      BY <1>1, <1>2 DEF SeqChain
<1>5. Head(queue) /= NoReq
      BY <1>2, <1>4 DEF NoReq
<1>6. \A i \in 1..Len(queue') : queue'[i].seq = QBase' + i
      BY <1>1, <1>2, <1>3 DEF SeqChain
<1>7. CASE writes' = Append(writes, Head(queue)) /\ nonFlush' = NoReq
  <2>1. /\ Len(writes') = Len(writes) + 1
        /\ writes'[Len(writes) + 1] = Head(queue)
        /\ \A i \in 1..Len(writes) : writes'[i] = writes[i]
        BY <1>1, <1>7 DEF TypeOK
  <2>2. WBase' = WBase
        BY <1>2, <1>3, <1>7, <2>1 DEF WBase
  <2>3. ASSUME NEW i \in 1..Len(writes')
        PROVE  writes'[i].seq = WBase' + i
    <3>1. CASE i \in 1..Len(writes)
          BY <2>1, <2>2, <3>1 DEF SeqChain
    <3>2. CASE i = Len(writes) + 1
      <4>1. writes'[i] = Head(queue)
            BY <2>1, <3>2
      <4>2. WBase' + i = QBase + 1
            BY <1>2, <2>2, <3>2
      <4> QED BY <1>4, <4>1, <4>2
    <3> QED BY <1>2, <2>1, <2>3, <3>1, <3>2
  <2> QED BY <1>2, <1>3, <1>4, <1>5, <1>6, <1>7, <2>2, <2>3 DEF SeqChain
<1>8. CASE writes' = writes /\ nonFlush' = Head(queue)
  <2>1. WBase' = WBase
        BY <1>2, <1>3, <1>5, <1>8 DEF WBase
  <2> QED BY <1>2, <1>3, <1>4, <1>5, <1>6, <1>8, <2>1 DEF SeqChain
<1> QED BY <1>7, <1>8

(* The first write of the batch is settled.                                *)
LEMMA SettleStep ==
    ASSUME TypeOK, SeqChain, writes /= <<>>, writes' = Tail(writes),
           UNCHANGED <<cpc, sentSeq, queue, nonFlush>>
    PROVE  /\ SeqChain' /\ Accepted' = Accepted /\ QBase' = QBase
           /\ WBase' = WBase + 1 /\ Head(writes).seq = WBase + 1
           /\ WBase' + Len(writes') = WBase + Len(writes)
           /\ WBase' <= QBase
<1>1. /\ Len(writes) \in Nat /\ Len(writes') = Len(writes) - 1
      /\ Head(writes) = writes[1] /\ 1 \in 1..Len(writes)
      /\ \A i \in 1..Len(writes') : writes'[i] = writes[i + 1]
                                   /\ i + 1 \in 1..Len(writes)
      BY DEF TypeOK
<1>2. /\ Accepted \in Int /\ QBase \in Int /\ WBase \in Int
      /\ WBase + Len(writes) <= QBase
      BY BorderTypes
<1>3. Accepted' = Accepted /\ QBase' = QBase
      BY DEF Accepted, QBase
<1>4. WBase' = WBase + 1
      BY <1>1, <1>2, <1>3 DEF WBase
<1>5. Head(writes).seq = WBase + 1
      BY <1>1 DEF SeqChain
<1>6. \A i \in 1..Len(writes') : writes'[i].seq = WBase' + i
      BY <1>1, <1>2, <1>4 DEF SeqChain
<1>7. SeqChain'
      BY <1>2, <1>3, <1>4, <1>6 DEF SeqChain
<1> QED BY <1>1, <1>2, <1>3, <1>4, <1>5, <1>7

(* The batch is empty: whatever it held is settled.                        *)
LEMMA EmptyStep ==
    ASSUME TypeOK, SeqChain, writes' = <<>>, nonFlush' = NoReq,
           UNCHANGED <<cpc, sentSeq, queue>>
    PROVE  /\ SeqChain' /\ Accepted' = Accepted /\ QBase' = QBase
           /\ WBase' = QBase
<1>1. /\ Accepted \in Int /\ QBase \in Int /\ WBase \in Int
      /\ WBase <= QBase
      BY BorderTypes
<1>2. Accepted' = Accepted /\ QBase' = QBase
      BY DEF Accepted, QBase
<1>3. WBase' = QBase /\ Len(writes') = 0
      BY <1>1, <1>2 DEF WBase
<1> QED BY <1>1, <1>2, <1>3 DEF SeqChain

(* The request in the client's hand is queued.                             *)
LEMMA PushStep ==
    ASSUME TypeOK, SeqInv, Push
    PROVE  /\ SeqChain' /\ Accepted' = Accepted + 1 /\ QBase' = QBase
           /\ WBase' = WBase /\ creq.seq = Accepted + 1
<1>1. /\ Len(queue') = Len(queue) + 1 /\ Len(queue) \in Nat
      /\ queue'[Len(queue) + 1] = creq
      /\ \A i \in 1..Len(queue) : queue'[i] = queue[i]
      BY DEF TypeOK, Push
<1>2. cpc = "push" /\ cpc' /= "push" /\ creq.seq = sentSeq
      /\ UNCHANGED <<sentSeq, writes, nonFlush>>
      BY DEF Push, AfterSend, SeqInv, ClientSeq, workerVars
<1>3. Accepted \in Int /\ QBase \in Int /\ sentSeq \in Int
      BY BorderTypes
<1>4. Accepted' = Accepted + 1 /\ creq.seq = Accepted + 1
      BY <1>2, <1>3 DEF Accepted
<1>5. QBase' = QBase /\ WBase' = WBase
  <2>1. QBase' = QBase
        BY <1>1, <1>3, <1>4 DEF QBase
  <2> QED BY <1>2, <2>1 DEF WBase
<1>6. ASSUME NEW i \in 1..Len(queue')
      PROVE  queue'[i].seq = QBase' + i
  <2>1. CASE i \in 1..Len(queue)
        BY <1>1, <1>5, <2>1 DEF SeqInv, SeqChain
  <2>2. CASE i = Len(queue) + 1
        BY <1>1, <1>3, <1>4, <1>5, <2>2 DEF QBase
  <2> QED BY <1>1, <1>6, <2>1, <2>2
<1> QED BY <1>2, <1>4, <1>5, <1>6 DEF SeqInv, SeqChain

(* The channel is gone: everything before the refused request is settled.  *)
LEMMA RefuseStep ==
    ASSUME IInv, SeqInv, PushFail
    PROVE  /\ SeqChain' /\ WBase = Accepted /\ WBase' = Accepted'
           /\ Accepted' = Accepted + 1 /\ creq.seq = Accepted + 1
<1>1. /\ wpc = "done" /\ queue = <<>> /\ writes = <<>> /\ nonFlush = NoReq
      /\ UNCHANGED <<queue, writes, nonFlush, sentSeq>>
      /\ cpc = "push" /\ cpc' = "release_err" /\ creq.seq = sentSeq
      BY DEF PushFail, IInv, ByteInv, RxInv, SeqInv, HeldInv, ClientSeq,
             workerVars
<1>2. sentSeq \in Int /\ Accepted \in Int
      BY BorderTypes DEF IInv
<1>3. Accepted' = Accepted + 1 /\ creq.seq = Accepted + 1
      BY <1>1, <1>2 DEF Accepted
<1>4. Len(queue) = 0 /\ Len(writes) = 0 /\ Len(queue') = 0
      /\ Len(writes') = 0
      BY <1>1
<1>5. WBase = Accepted /\ WBase' = Accepted'
      BY <1>1, <1>2, <1>3, <1>4 DEF WBase, QBase
<1> QED BY <1>1, <1>2, <1>3, <1>4, <1>5 DEF SeqInv, SeqChain

(* The requests still queued are freed.                                    *)
LEMMA FreeStep ==
    ASSUME TypeOK, SeqInv, Exit
    PROVE  /\ SeqChain' /\ Accepted' = Accepted /\ WBase' = Accepted
           /\ WBase = QBase
<1>1. /\ writes = <<>> /\ nonFlush = NoReq /\ queue' = <<>>
      /\ UNCHANGED <<writes, nonFlush, sentSeq, cpc>>
      BY DEF Exit, SeqInv, HeldInv, clientVars
<1>2. /\ Accepted \in Int /\ QBase \in Int /\ WBase \in Int
      /\ WBase <= QBase /\ QBase <= Accepted
      BY BorderTypes
<1>3. Accepted' = Accepted /\ WBase = QBase
      BY <1>1, <1>2 DEF Accepted, WBase
<1>4. Len(queue') = 0 /\ Len(writes') = 0
      BY <1>1
<1>5. QBase' = Accepted /\ WBase' = Accepted
      BY <1>1, <1>2, <1>3, <1>4 DEF QBase, WBase
<1> QED BY <1>1, <1>2, <1>3, <1>4, <1>5 DEF SeqInv, SeqChain

-----------------------------------------------------------------------------
(* The steps that move no request between client, channel and batch.       *)
Quiet ==
    \/ UNCHANGED vars \/ ClientCall \/ AcquireWait \/ Acquire \/ ReleaseErr
    \/ StatReply \/ WaitForTurn \/ Close \/ Join
    \/ RecvClosed \/ CollectEnd \/ (\E res \in {"ok", "err"} : Io(res))
    \/ IoPanic \/ Release \/ HandleNonFlushErr \/ Complete \/ ReleaseAll
    \/ Fail \/ Closed

(* They change neither the borders nor the history of outcomes.            *)
LEMMA QuietStep ==
    ASSUME TypeOK, SeqInv, Quiet
    PROVE  Still /\ SeqChain' /\ outcome' = outcome
<1> USE DEF vars, clientVars, workerVars, sharedVars
<1>1. UNCHANGED <<queue, writes, nonFlush, outcome>>
      BY DEF Quiet, ClientCall, Send, WaitIdle, Shutdown, AcquireWait,
             Acquire, ReleaseErr, StatReply, WaitForTurn, Close, Join,
             RecvClosed, CollectEnd, Io, IoPanic, Release, HandleNonFlushErr,
             Complete, ReleaseAll, Fail, Closed
<1>2. sentSeq \in Int
      BY DEF TypeOK
<1>3. Accepted' = Accepted
  <2>1. CASE UNCHANGED vars \/ Closed
        BY <2>1 DEF Closed, Accepted
  <2>2. CASE ClientCall
        BY <2>2 DEF ClientCall, Send, WaitIdle, Shutdown, BeginSend, Accepted
  <2>3. CASE Acquire
        BY <1>2, <2>3 DEF Acquire, Accepted, SeqInv, ClientSeq
  <2>4. CASE AcquireWait \/ ReleaseErr \/ StatReply \/ WaitForTurn \/ Close
             \/ Join
        BY <2>4 DEF AcquireWait, ReleaseErr, AfterSend, StatReply,
                    WaitForTurn, Close, Join, Accepted
  <2>5. CASE Release \/ Complete \/ ReleaseAll \/ Fail
        BY <2>5 DEF Release, Complete, ReleaseAll, Fail, NotifyReleased,
                    NotifyChanged, Accepted
  <2>6. CASE \/ RecvClosed \/ CollectEnd \/ IoPanic \/ HandleNonFlushErr
             \/ \E res \in {"ok", "err"} : Io(res)
        BY <2>6 DEF RecvClosed, CollectEnd, IoPanic, HandleNonFlushErr, Io,
                    Accepted
  <2> QED BY <2>1, <2>2, <2>3, <2>4, <2>5, <2>6 DEF Quiet
<1> QED BY <1>1, <1>3, StillStep DEF SeqInv

(* The client's request carries the number it was given.                   *)
LEMMA NextClientSeq ==
    ASSUME TypeOK, ClientSeq, [Next]_vars
    PROVE  ClientSeq'
<1> USE DEF ClientSeq, clientVars
<1>1. CASE UNCHANGED vars \/ Closed
      BY <1>1 DEF vars, Closed
<1>2. CASE ClientCall
      BY <1>2 DEF ClientCall, Send, WaitIdle, Shutdown, BeginSend
<1>3. CASE ClientStep
      BY <1>3 DEF ClientStep, AcquireWait, Acquire, Push, PushFail,
                  ReleaseErr, StatReply, WaitForTurn, Close, Join, AfterSend
<1>4. CASE Release \/ Complete \/ ReleaseAll \/ Fail
      BY <1>4 DEF Release, Complete, ReleaseAll, Fail, NotifyReleased,
                  NotifyChanged
<1>5. CASE WorkerStep /\ ~(Release \/ Complete \/ ReleaseAll \/ Fail)
      BY <1>5 DEF WorkerStep, Recv, RecvClosed, Collect, CollectEnd, Io,
                  IoPanic, Callback, CallbackPanic, HandleNonFlush,
                  HandleNonFlushErr, Unwind, Exit
<1> QED BY <1>1, <1>2, <1>3, <1>4, <1>5 DEF Next

(* Each step keeps what the batch may hold at each point of run_inner.     *)
LEMMA NextHeld ==
    ASSUME TypeOK, SeqInv, [Next]_vars
    PROVE  HeldInv'
<1> USE DEF SeqInv, HeldInv, workerVars
<1>1. CASE UNCHANGED vars \/ Closed \/ ClientCall \/ ClientStep
  <2>1. UNCHANGED <<wpc, nonFlush, writes>>
        BY <1>1 DEF vars, Closed, ClientCall, Send, WaitIdle, Shutdown,
                    ClientStep, AcquireWait, Acquire, Push, PushFail,
                    ReleaseErr, StatReply, WaitForTurn, Close, Join
  <2> QED BY <2>1
<1>2. CASE Recv
  <2>1. Head(queue) /= NoReq
    <3>1. Head(queue) = queue[1] /\ 1 \in 1..Len(queue)
          BY <1>2 DEF Recv, TypeOK
    <3>2. queue[1].seq = QBase + 1 /\ QBase \in Int /\ QBase >= 0
          BY <3>1, BorderTypes DEF SeqChain
    <3> QED BY <3>1, <3>2 DEF NoReq
  <2> QED BY <1>2, <2>1 DEF Recv
<1>3. CASE Release
      BY <1>3 DEF Release, AfterBatch
<1>4. CASE WorkerStep /\ ~(Recv \/ Release)
      BY <1>4 DEF WorkerStep, RecvClosed, Collect, CollectEnd, Io, IoPanic,
                  Callback, CallbackPanic, HandleNonFlush, HandleNonFlushErr,
                  Complete, Unwind, ReleaseAll, AfterRun, Fail, Exit
<1> QED BY <1>1, <1>2, <1>3, <1>4 DEF Next

(* Each step keeps the sequence numbers in order.                          *)
LEMMA NextSeq ==
    ASSUME IInv, SeqInv, [Next]_vars
    PROVE  SeqInv'
<1> USE DEF IInv
<1>1. ClientSeq' /\ HeldInv'
      BY NextClientSeq, NextHeld DEF SeqInv
<1>2. /\ Accepted \in Int /\ QBase \in Int /\ WBase \in Int
      /\ Len(writes) \in Nat /\ WBase + Len(writes) <= QBase
      /\ maxSeq \in Int /\ WBase >= 0
      BY BorderTypes DEF TypeOK, SeqInv, SeqChain
<1>3. CASE Quiet
  <2>1. Still /\ SeqChain'
        BY <1>3, QuietStep
  <2>2. MaxSeqInv'
    <3>1. UNCHANGED <<wpc, maxSeq>> => MaxSeqInv'
          BY <2>1 DEF Still, MaxSeqInv, SeqInv
    <3>2. CASE Release
          BY <2>1, <3>2 DEF Still, MaxSeqInv, SeqInv, Release
    <3>3. CASE Quiet /\ ~Release
          BY <2>1, <3>1, <3>3
          DEF Quiet, Still, MaxSeqInv, SeqInv, ClientCall, Send, WaitIdle,
              Shutdown, AcquireWait, Acquire, ReleaseErr, StatReply,
              WaitForTurn, Close, Join, RecvClosed, CollectEnd, Io, IoPanic,
              HandleNonFlushErr, Complete, ReleaseAll, AfterRun, Fail,
              Closed, vars, workerVars
    <3> QED BY <1>3, <3>2, <3>3
  <2> QED BY <1>1, <2>1, <2>2 DEF SeqInv
<1>4. CASE Push
  <2>1. SeqChain' /\ WBase' = WBase
        BY <1>4, PushStep
  <2>2. MaxSeqInv'
        BY <1>4, <2>1 DEF Push, MaxSeqInv, SeqInv, workerVars
  <2> QED BY <1>1, <2>1, <2>2 DEF SeqInv
<1>5. CASE PushFail
  <2>1. SeqChain'
        BY <1>5, RefuseStep
  <2>2. MaxSeqInv'
        BY <1>5 DEF PushFail, MaxSeqInv, ByteInv, RxInv, workerVars
  <2> QED BY <1>1, <2>1, <2>2 DEF SeqInv
<1>6. CASE Recv
  <2>1. /\ queue /= <<>> /\ nonFlush = NoReq /\ writes = <<>>
        /\ queue' = Tail(queue) /\ UNCHANGED <<cpc, sentSeq>>
        BY <1>6 DEF Recv, SeqInv, HeldInv, clientVars
  <2>2. Append(writes, Head(queue)) = <<Head(queue)>>
        BY <2>1
  <2>3. \/ /\ writes' = Append(writes, Head(queue)) /\ nonFlush' = NoReq
           /\ maxSeq' = Head(queue).seq
        \/ /\ writes' = writes /\ nonFlush' = Head(queue)
           /\ maxSeq' = 0
        BY <1>6, <2>1, <2>2 DEF Recv
  <2>4. /\ SeqChain' /\ QBase' = QBase + 1 /\ WBase' = WBase
        /\ Head(queue).seq = QBase + 1 /\ WBase + Len(writes) = QBase
        BY <2>1, <2>3, TakeStep DEF SeqInv
  <2>5. maxSeq' <= WBase' + Len(writes')
    <3>1. writes' = Append(writes, Head(queue))
              => Len(writes') = Len(writes) + 1
          BY DEF TypeOK
    <3> QED BY <1>2, <2>3, <2>4, <3>1
  <2> QED BY <1>1, <2>4, <2>5 DEF SeqInv, MaxSeqInv
<1>7. CASE Collect
  <2>1. /\ queue /= <<>> /\ nonFlush = NoReq /\ wpc = "collect"
        /\ queue' = Tail(queue) /\ UNCHANGED <<cpc, sentSeq>>
        BY <1>7 DEF Collect, SeqInv, HeldInv, clientVars
  <2>2. \/ /\ writes' = Append(writes, Head(queue)) /\ nonFlush' = NoReq
           /\ maxSeq' = MaxOf(maxSeq, Head(queue).seq)
        \/ /\ writes' = writes /\ nonFlush' = Head(queue)
           /\ maxSeq' = maxSeq
        BY <1>7, <2>1 DEF Collect
  <2>3. /\ SeqChain' /\ QBase' = QBase + 1 /\ WBase' = WBase
        /\ Head(queue).seq = QBase + 1 /\ WBase + Len(writes) = QBase
        BY <2>1, <2>2, TakeStep DEF SeqInv
  <2>4. maxSeq <= QBase
        BY <2>1, <2>3 DEF SeqInv, MaxSeqInv
  <2>5. maxSeq' <= WBase' + Len(writes')
    <3>1. writes' = Append(writes, Head(queue))
              => Len(writes') = Len(writes) + 1
          BY DEF TypeOK
    <3> QED BY <1>2, <2>2, <2>3, <2>4, <3>1 DEF MaxOf
  <2> QED BY <1>1, <2>3, <2>5 DEF SeqInv, MaxSeqInv
<1>8. CASE Callback \/ CallbackPanic
  <2>1. SeqChain' /\ WBase' + Len(writes') = WBase + Len(writes)
        BY <1>8, SettleStep DEF Callback, CallbackPanic, SeqInv, clientVars
  <2>2. MaxSeqInv'
        BY <1>8, <2>1 DEF Callback, CallbackPanic, MaxSeqInv, SeqInv
  <2> QED BY <1>1, <2>1, <2>2 DEF SeqInv
<1>9. CASE HandleNonFlush
  <2>1. /\ writes = <<>> /\ writes' = <<>> /\ nonFlush' = NoReq
        /\ nonFlush.seq = QBase
        /\ UNCHANGED <<cpc, sentSeq, queue>> /\ wpc = "nonflush"
        BY <1>9 DEF HandleNonFlush, SeqInv, HeldInv, SeqChain, clientVars
  <2>2. SeqChain' /\ WBase' = QBase
        BY <2>1, EmptyStep DEF SeqInv
  <2>3. maxSeq <= QBase
        BY <1>2, <2>1 DEF SeqInv, MaxSeqInv
  <2>4. maxSeq' <= QBase
        BY <1>2, <1>9, <2>1, <2>3 DEF HandleNonFlush, MaxOf
  <2>5. Len(writes') = 0
        BY <2>1
  <2> QED BY <1>1, <1>2, <2>2, <2>4, <2>5 DEF SeqInv, MaxSeqInv
<1>10. CASE Unwind
  <2>1. SeqChain'
        BY <1>10, EmptyStep DEF Unwind, SeqInv, clientVars
  <2> QED BY <1>1, <1>10, <2>1 DEF SeqInv, MaxSeqInv, Unwind
<1>11. CASE Exit
  <2>1. SeqChain'
        BY <1>11, FreeStep
  <2> QED BY <1>1, <1>11, <2>1 DEF SeqInv, MaxSeqInv, Exit
<1> QED
    BY <1>3, <1>4, <1>5, <1>6, <1>7, <1>8, <1>9, <1>10, <1>11
    DEF Next, ClientStep, WorkerStep, Quiet

-----------------------------------------------------------------------------
(* An outcome that was reached stays: the step of OutcomeFinal.            *)
FinalStep == \A s \in 1..MaxSeq :
                 outcome[s] \in Settled => outcome'[s] = outcome[s]

(* Settling the next request, with success only when none failed before.   *)
LEMMA SettleNext ==
    ASSUME TypeOK, TypeOK', ZoneInv, NEW r \in Settled,
           NEW t \in 1..MaxSeq, t = WBase + 1, t <= Accepted',
           \/ Accepted' = Accepted
           \/ Accepted' = Accepted + 1 /\ t = Accepted + 1,
           outcome' = [outcome EXCEPT ![t] = r],
           r = "ok" => Healthy, WBase' = WBase + 1,
           Healthy' => Healthy /\ r = "ok", doneSeq' = doneSeq
    PROVE  ZoneInv' /\ FinalStep
<1>1. /\ WBase \in Int /\ Accepted \in Int /\ MaxSeq \in Nat
      /\ doneSeq \in 0..MaxSeq
      BY BorderTypes, ConstantsAssumption DEF TypeOK
<1>2. /\ outcome'[t] = r
      /\ \A s \in 1..MaxSeq : s /= t => outcome'[s] = outcome[s]
      BY DEF TypeOK
<1>3. outcome[t] \notin Settled
      BY <1>1 DEF ZoneInv, Zones, Settled
<1>4. FinalStep
      BY <1>2, <1>3 DEF FinalStep
<1>5. Zones'
  <2> SUFFICES ASSUME NEW s \in 1..MaxSeq
               PROVE  /\ s > Accepted' => outcome'[s] = "unsent"
                      /\ WBase' < s /\ s <= Accepted'
                             => outcome'[s] = "pending"
                      /\ s <= WBase' => outcome'[s] \in Settled
                      /\ s <= WBase' /\ Healthy' => outcome'[s] = "ok"
      BY DEF Zones
  <2>1. CASE s = t
        BY <1>1, <1>2, <2>1
  <2>2. CASE s /= t
        BY <1>1, <1>2, <2>2 DEF ZoneInv, Zones
  <2> QED BY <2>1, <2>2
<1>6. OkIsPrefix'
  <2> SUFFICES ASSUME NEW u \in 1..MaxSeq, outcome'[u] = "ok",
                      NEW s \in 1..u
               PROVE  outcome'[s] = "ok"
      BY DEF OkIsPrefix
  <2>1. s \in 1..MaxSeq /\ s <= u
        BY <1>1
  <2>2. CASE u = t
    <3>1. r = "ok" /\ Healthy
          BY <1>2, <2>2
    <3> QED BY <1>1, <1>2, <2>1, <2>2, <3>1 DEF ZoneInv, Zones
  <2>3. CASE u /= t
    <3>1. outcome[s] = "ok"
          BY <1>2, <2>3 DEF ZoneInv, OkIsPrefix
    <3> QED BY <1>4, <2>1, <3>1 DEF FinalStep, Settled
  <2> QED BY <2>2, <2>3
<1>7. DoneMeansHandled'
  <2>1. ASSUME NEW s \in 1..doneSeq PROVE outcome'[s] = "ok"
    <3>1. outcome[s] = "ok" /\ s \in 1..MaxSeq
          BY <1>1 DEF ZoneInv, DoneMeansHandled
    <3> QED BY <1>4, <3>1 DEF FinalStep, Settled
  <2> QED BY <2>1 DEF DoneMeansHandled
<1> QED BY <1>4, <1>5, <1>6, <1>7 DEF ZoneInv

(* Freeing the requests between two borders; none succeeds after that.     *)
LEMMA DropRange ==
    ASSUME TypeOK, ZoneInv, NEW S, NEW b \in Int, b <= Accepted,
           WBase <= b,
           \A s \in 1..MaxSeq : s \in S <=> WBase < s /\ s <= b,
           outcome' = Drop(S), Accepted' = Accepted, WBase' = b,
           ~Healthy', doneSeq' = doneSeq
    PROVE  ZoneInv' /\ FinalStep
<1>1. /\ WBase \in Int /\ Accepted \in Int /\ MaxSeq \in Nat
      /\ doneSeq \in 0..MaxSeq
      BY BorderTypes, ConstantsAssumption DEF TypeOK
<1>2. \A s \in 1..MaxSeq :
          outcome'[s] = IF s \in S /\ outcome[s] = "pending" THEN "dropped"
                        ELSE outcome[s]
      BY DEF Drop, TypeOK
<1>3. FinalStep
      BY <1>2 DEF FinalStep, Settled
<1>4. \A s \in 1..MaxSeq : outcome'[s] = "ok" => outcome[s] = "ok"
      BY <1>2
<1>5. Zones'
  <2> SUFFICES ASSUME NEW s \in 1..MaxSeq
               PROVE  /\ s > Accepted' => outcome'[s] = "unsent"
                      /\ WBase' < s /\ s <= Accepted'
                             => outcome'[s] = "pending"
                      /\ s <= WBase' => outcome'[s] \in Settled
      BY DEF Zones
  <2>1. CASE s \in S
        BY <1>1, <1>2, <2>1 DEF ZoneInv, Zones, Settled
  <2>2. CASE s \notin S
        BY <1>1, <1>2, <2>2 DEF ZoneInv, Zones
  <2> QED BY <2>1, <2>2
<1>6. OkIsPrefix'
  <2> SUFFICES ASSUME NEW u \in 1..MaxSeq, outcome'[u] = "ok",
                      NEW s \in 1..u
               PROVE  outcome'[s] = "ok"
      BY DEF OkIsPrefix
  <2>1. outcome[s] = "ok" /\ s \in 1..MaxSeq
        BY <1>1, <1>4 DEF ZoneInv, OkIsPrefix
  <2> QED BY <1>3, <2>1 DEF FinalStep, Settled
<1>7. DoneMeansHandled'
  <2>1. ASSUME NEW s \in 1..doneSeq PROVE outcome'[s] = "ok"
    <3>1. outcome[s] = "ok" /\ s \in 1..MaxSeq
          BY <1>1 DEF ZoneInv, DoneMeansHandled
    <3> QED BY <1>3, <3>1 DEF FinalStep, Settled
  <2> QED BY <2>1 DEF DoneMeansHandled
<1> QED BY <1>3, <1>5, <1>6, <1>7 DEF ZoneInv

(* Each step keeps the zones of the history, and no outcome is revised.    *)
LEMMA NextZones ==
    ASSUME IInv, IInv', SeqInv, SeqInv', ZoneInv, [Next]_vars
    PROVE  ZoneInv' /\ FinalStep
<1> USE DEF IInv
<1>1. /\ WBase \in Int /\ QBase \in Int /\ Accepted \in Int
      /\ Len(writes) \in Nat /\ WBase >= 0 /\ Accepted <= MaxSeq
      /\ QBase <= Accepted /\ WBase <= QBase /\ MaxSeq \in Nat
      /\ WBase + Len(writes) <= QBase
      BY SMTT(60), BorderTypes, ConstantsAssumption
      DEF SeqInv, SeqChain, TypeOK, Accepted
<1>2. CASE Quiet
  <2>1. Still /\ outcome' = outcome
        BY <1>2, QuietStep
  <2>2. Healthy' => Healthy
    <3>1. CASE Release
          BY <3>1 DEF Release, AfterBatch, Healthy, Shape, ResultInv, TypeOK
    <3>2. CASE Quiet /\ ~Release
          BY <3>2
          DEF Quiet, Healthy, ClientCall, Send, WaitIdle, Shutdown,
              AcquireWait, Acquire, ReleaseErr, StatReply, WaitForTurn,
              Close, Join, RecvClosed, CollectEnd, Io, IoPanic,
              HandleNonFlushErr, Complete, ReleaseAll, AfterRun, Fail,
              Closed, vars, workerVars
    <3> QED BY <1>2, <3>1, <3>2
  <2>3. Zones' /\ OkIsPrefix' /\ FinalStep
        BY <2>1, <2>2
        DEF ZoneInv, Zones, OkIsPrefix, FinalStep, Still
  <2>4. DoneMeansHandled'
    <3>1. CASE Complete
      <4>1. maxSeq <= WBase /\ Healthy /\ maxSeq \in 0..MaxSeq
            /\ doneSeq \in 0..MaxSeq
        <5>1. Len(writes) = 0
              BY <3>1 DEF Complete, SeqInv, HeldInv
        <5> QED BY <1>1, <3>1, <5>1
                DEF Complete, Healthy, SeqInv, MaxSeqInv, TypeOK
      <4>2. \A s \in 1..maxSeq : outcome[s] = "ok"
            BY <1>1, <4>1 DEF ZoneInv, Zones
      <4>3. doneSeq' \in {doneSeq, maxSeq}
            BY <3>1 DEF Complete, MaxOf
      <4> QED BY <2>1, <4>2, <4>3 DEF DoneMeansHandled, ZoneInv
    <3>2. CASE Quiet /\ ~Complete
      <4>1. doneSeq' = doneSeq
            BY <3>2
            DEF Quiet, ClientCall, Send, WaitIdle, Shutdown, AcquireWait,
                Acquire, ReleaseErr, StatReply, WaitForTurn, Close, Join,
                RecvClosed, CollectEnd, Io, IoPanic, HandleNonFlushErr,
                Release, ReleaseAll, Fail, Closed, vars, sharedVars
      <4> QED BY <2>1, <4>1 DEF DoneMeansHandled, ZoneInv
    <3> QED BY <1>2, <3>1, <3>2
  <2> QED BY <2>3, <2>4 DEF ZoneInv
<1>3. CASE Push
  <2>1. /\ Accepted' = Accepted + 1 /\ WBase' = WBase
        /\ creq.seq = Accepted + 1
        BY <1>3, PushStep
  <2>2. /\ outcome' = [outcome EXCEPT ![creq.seq] = "pending"]
        /\ UNCHANGED <<wpc, result, doneSeq>>
        BY <1>3 DEF Push, workerVars
  <2>3. creq.seq \in 1..MaxSeq
    <3>1. creq.seq \in 0..MaxSeq
          BY DEF TypeOK, Request
    <3> QED BY <1>1, <2>1, <3>1
  <2>4. /\ outcome'[creq.seq] = "pending" /\ outcome[creq.seq] = "unsent"
        /\ \A s \in 1..MaxSeq : s /= creq.seq => outcome'[s] = outcome[s]
        BY <1>1, <2>1, <2>2, <2>3 DEF ZoneInv, Zones, TypeOK
  <2>5. FinalStep
        BY <2>4 DEF FinalStep, Settled
  <2>6. (Healthy' <=> Healthy)
        BY <2>2 DEF Healthy
  <2>7. Zones'
    <3> SUFFICES ASSUME NEW s \in 1..MaxSeq
                 PROVE  /\ s > Accepted' => outcome'[s] = "unsent"
                        /\ WBase' < s /\ s <= Accepted'
                               => outcome'[s] = "pending"
                        /\ s <= WBase' => outcome'[s] \in Settled
                        /\ s <= WBase' /\ Healthy' => outcome'[s] = "ok"
        BY DEF Zones
    <3> QED BY <1>1, <2>1, <2>3, <2>4, <2>6 DEF ZoneInv, Zones
  <2>8. OkIsPrefix'
    <3> SUFFICES ASSUME NEW u \in 1..MaxSeq, outcome'[u] = "ok",
                        NEW s \in 1..u
                 PROVE  outcome'[s] = "ok"
        BY DEF OkIsPrefix
    <3>1. outcome[u] = "ok" /\ s \in 1..MaxSeq
          BY <1>1, <2>4
    <3>2. outcome[s] = "ok"
          BY <3>1 DEF ZoneInv, OkIsPrefix
    <3> QED BY <2>5, <3>1, <3>2 DEF FinalStep, Settled
  <2>9. DoneMeansHandled'
    <3>1. ASSUME NEW s \in 1..doneSeq PROVE outcome'[s] = "ok"
      <4>1. outcome[s] = "ok" /\ s \in 1..MaxSeq
            BY SMTT(60), <1>1 DEF ZoneInv, DoneMeansHandled, TypeOK
      <4> QED BY <2>5, <4>1 DEF FinalStep, Settled
    <3> QED BY <2>2, <3>1 DEF DoneMeansHandled
  <2> QED BY <2>5, <2>7, <2>8, <2>9 DEF ZoneInv
<1>4. CASE PushFail
  <2>1. /\ WBase = Accepted /\ WBase' = Accepted'
        /\ Accepted' = Accepted + 1 /\ creq.seq = Accepted + 1
        BY <1>4, RefuseStep
  <2>2. /\ outcome' = [outcome EXCEPT ![creq.seq] = "dropped"]
        /\ doneSeq' = doneSeq /\ ~Healthy'
        BY <1>4 DEF PushFail, Healthy, ByteInv, RxInv, workerVars
  <2>3. creq.seq \in 1..MaxSeq
    <3>1. creq.seq \in 0..MaxSeq
          BY DEF TypeOK, Request
    <3> QED BY <1>1, <2>1, <3>1
  <2>4. creq.seq = WBase + 1 /\ creq.seq <= Accepted' /\ WBase' = WBase + 1
        BY <1>1, <2>1
  <2>5. "dropped" \in Settled /\ TypeOK /\ TypeOK'
        BY DEF Settled
  <2> QED BY <2>1, <2>2, <2>3, <2>4, <2>5, SettleNext
<1>5. CASE Recv \/ Collect
  <2>1. /\ queue /= <<>> /\ nonFlush = NoReq
        /\ queue' = Tail(queue) /\ UNCHANGED <<cpc, sentSeq>>
        /\ UNCHANGED <<outcome, doneSeq>> /\ Healthy
        BY <1>5 DEF Recv, Collect, SeqInv, HeldInv, clientVars, Healthy
  <2>2. \/ /\ writes' = Append(writes, Head(queue)) /\ nonFlush' = NoReq
        \/ /\ writes' = writes /\ nonFlush' = Head(queue)
    <3>1. CASE Recv
      <4>1. writes = <<>> /\ Append(writes, Head(queue)) = <<Head(queue)>>
            BY <3>1 DEF Recv, SeqInv, HeldInv
      <4> QED BY <3>1, <4>1 DEF Recv
    <3>2. CASE Collect
          BY <2>1, <3>2 DEF Collect
    <3> QED BY <1>5, <3>1, <3>2
  <2>3. Accepted' = Accepted /\ WBase' = WBase
        BY <2>1, <2>2, TakeStep DEF SeqInv
  <2> QED BY <2>1, <2>3
          DEF ZoneInv, Zones, OkIsPrefix, DoneMeansHandled, FinalStep
<1>6. CASE Callback \/ CallbackPanic
  <2>1. /\ Accepted' = Accepted /\ WBase' = WBase + 1
        /\ Head(writes).seq = WBase + 1 /\ WBase' <= QBase
        BY <1>6, SettleStep DEF Callback, CallbackPanic, SeqInv, clientVars
  <2>2. /\ outcome' = [outcome EXCEPT ![Head(writes).seq] = result]
        /\ doneSeq' = doneSeq /\ wpc = "callbacks"
        BY <1>6 DEF Callback, CallbackPanic
  <2>3. result \in Settled /\ (result = "ok" => Healthy)
        BY <2>2 DEF Settled, Shape, ResultInv, TypeOK, Healthy
  <2>4. Healthy' => Healthy /\ result = "ok"
        BY <1>6 DEF Callback, CallbackPanic, Healthy
  <2>5. Head(writes).seq \in 1..MaxSeq
        BY <1>1, <2>1
  <2>6. Head(writes).seq <= Accepted' /\ TypeOK /\ TypeOK'
        BY <1>1, <2>1
  <2> QED BY <2>1, <2>2, <2>3, <2>4, <2>5, <2>6, SettleNext
<1>7. CASE HandleNonFlush
  <2>1. /\ writes = <<>> /\ writes' = <<>> /\ nonFlush' = NoReq
        /\ nonFlush /= NoReq /\ nonFlush.seq = QBase
        /\ UNCHANGED <<cpc, sentSeq, queue, doneSeq>> /\ Healthy
        /\ outcome' = [outcome EXCEPT ![nonFlush.seq] = "ok"]
        BY <1>7 DEF HandleNonFlush, SeqInv, HeldInv, SeqChain, clientVars,
                    Healthy
  <2>2. Accepted' = Accepted /\ WBase' = QBase
        BY <2>1, EmptyStep DEF SeqInv
  <2>3. QBase = WBase + 1
        BY <1>1, <2>1 DEF WBase
  <2>4. nonFlush.seq \in 1..MaxSeq
        BY <1>1, <2>1, <2>3
  <2> QED BY <1>1, <2>1, <2>2, <2>3, <2>4, SettleNext DEF Settled
<1>8. CASE Unwind
  <2>1. Accepted' = Accepted /\ WBase' = QBase
        BY <1>8, EmptyStep DEF Unwind, SeqInv, clientVars
  <2>2. /\ outcome' = Drop(SeqsOf(writes) \union {nonFlush.seq})
        /\ doneSeq' = doneSeq /\ ~Healthy'
        BY <1>8 DEF Unwind, Healthy
  <2>3. \A s \in 1..MaxSeq :
            s \in SeqsOf(writes) <=> WBase < s /\ s <= WBase + Len(writes)
    <3>1. /\ writes \in Seq(Request)
          /\ \A i \in 1..Len(writes) : writes[i].seq = WBase + i
          BY DEF SeqInv, SeqChain, TypeOK
    <3>2. \A s \in 1..MaxSeq : s \in Int
          BY <1>1
    <3> QED BY <1>1, <3>1, <3>2, SeqsOfChain
  <2>4. \A s \in 1..MaxSeq :
            s \in SeqsOf(writes) \union {nonFlush.seq}
                <=> WBase < s /\ s <= QBase
    <3>1. CASE nonFlush = NoReq
      <4>1. nonFlush.seq = 0 /\ WBase + Len(writes) = QBase
            BY <3>1, BorderTypes DEF NoReq
      <4> QED BY <1>1, <2>3, <4>1
    <3>2. CASE nonFlush /= NoReq
      <4>1. nonFlush.seq = QBase /\ WBase + Len(writes) = QBase - 1
            BY <3>2, BorderTypes DEF SeqInv, SeqChain
      <4> QED BY <1>1, <2>3, <4>1
    <3> QED BY <3>1, <3>2
  <2> QED BY <1>1, <2>1, <2>2, <2>4, DropRange
<1>9. CASE Exit
  <2>1. Accepted' = Accepted /\ WBase' = Accepted /\ WBase = QBase
        BY <1>9, FreeStep
  <2>2. /\ outcome' = Drop(SeqsOf(queue)) /\ doneSeq' = doneSeq /\ ~Healthy'
        BY <1>9 DEF Exit, Healthy
  <2>3. \A s \in 1..MaxSeq :
            s \in SeqsOf(queue) <=> QBase < s /\ s <= QBase + Len(queue)
    <3>1. /\ queue \in Seq(Request)
          /\ \A i \in 1..Len(queue) : queue[i].seq = QBase + i
          BY DEF SeqInv, SeqChain, TypeOK
    <3>2. \A s \in 1..MaxSeq : s \in Int
          BY <1>1
    <3> QED BY <1>1, <3>1, <3>2, SeqsOfChain
  <2>4. QBase + Len(queue) = Accepted
        BY <1>1, BorderTypes DEF QBase
  <2> QED BY <1>1, <2>1, <2>2, <2>3, <2>4, DropRange
<1> QED
    BY <1>2, <1>3, <1>4, <1>5, <1>6, <1>7, <1>8, <1>9
    DEF Next, ClientStep, WorkerStep, Quiet

-----------------------------------------------------------------------------
(* At the start nothing is sent, and every number is in the last zone.     *)
LEMMA InitOInv == Init => OInv
<1> SUFFICES ASSUME Init PROVE OInv
    OBVIOUS
<1> USE ConstantsAssumption DEF Init
<1>1. Accepted = 0 /\ QBase = 0 /\ WBase = 0
  <2>1. Accepted = 0 /\ Len(queue) = 0 /\ Len(writes) = 0
        BY DEF Accepted
  <2>2. nonFlush = NoReq
        OBVIOUS
  <2> HIDE ConstantsAssumption DEF Init
  <2>3. QBase = 0
        BY <2>1 DEF QBase
  <2> QED BY <2>1, <2>2, <2>3 DEF WBase
<1>2. SeqInv
  <2>1. Len(queue) = 0 /\ Len(writes) = 0
        OBVIOUS
  <2>2. SeqChain
        BY <1>1, <2>1 DEF SeqChain
  <2>3. ClientSeq /\ HeldInv /\ MaxSeqInv
        BY DEF ClientSeq, HeldInv, MaxSeqInv
  <2> QED BY <2>2, <2>3 DEF SeqInv
<1>3. ZoneInv
      BY <1>1 DEF ZoneInv, Zones, OkIsPrefix, DoneMeansHandled
<1>4. LifeInv
      BY DEF LifeInv, WorkerLife, ClientLife, Sending, IdleReached
<1> QED BY <1>2, <1>3, <1>4 DEF OInv

(* Every step keeps the invariant.                                         *)
LEMMA StepOInv == IInv /\ IInv' /\ OInv /\ [Next]_vars => OInv' /\ FinalStep
BY NextLife, NextSeq, NextZones DEF OInv

(* So it always holds, beside the invariant of the byte accounting.        *)
LEMMA AlwaysOInv == Spec => [](IInv /\ OInv)
BY InitIInv, StepIInv, InitOInv, StepOInv, PTL DEF Spec

(* When done_seq has reached s, every request up to s was carried out:     *)
(* wait_worker_idle never returns Ok for work that failed or is pending.   *)
THEOREM DoneNeverAhead == Spec => []DoneMeansHandled
<1>1. OInv => DoneMeansHandled
      BY DEF OInv, ZoneInv
<1> QED BY <1>1, AlwaysOInv, PTL

(* An Ok callback vouches for every earlier request, whatever mix of I/O   *)
(* errors, panics and batches the worker meets.                            *)
THEOREM SuccessInOrder == Spec => []OkIsPrefix
<1>1. OInv => OkIsPrefix
      BY DEF OInv, ZoneInv
<1> QED BY <1>1, AlwaysOInv, PTL

(* A send that finds the channel closed finds the failure on record.       *)
THEOREM DisconnectIsFailure == Spec => []DisconnectMeansFailed
<1>1. IInv /\ OInv => DisconnectMeansFailed
      BY DEF IInv, ByteInv, RxInv, OInv, LifeInv, WorkerLife,
             DisconnectMeansFailed
<1> QED BY <1>1, AlwaysOInv, PTL

(* When shutdown returns the thread is gone and every request is settled;  *)
(* unless all of them succeeded, the failure is visible.                   *)
THEOREM ShutdownSettles == Spec => []ShutdownSettlesAll
<1>1. ASSUME IInv, OInv PROVE ShutdownSettlesAll
  <2> SUFFICES ASSUME cpc = "closed"
               PROVE  /\ wpc = "done" /\ queue = <<>>
                      /\ \A s \in 1..sentSeq : outcome[s] \in Settled
                      /\ (sendOk /\ IdleReached) \/ failed
      BY DEF ShutdownSettlesAll, Settled
  <2>1. /\ wpc = "done" /\ queue = <<>>
        /\ (sendOk /\ IdleReached) \/ failed
        BY <1>1 DEF OInv, LifeInv, ClientLife, WorkerLife, IInv, ByteInv,
                    RxInv
  <2>2. writes = <<>> /\ nonFlush = NoReq /\ sentSeq \in 0..MaxSeq
        BY <1>1, <2>1 DEF OInv, SeqInv, HeldInv, IInv, TypeOK
  <2>3. WBase = sentSeq
    <3>1. Accepted = sentSeq /\ Len(queue) = 0 /\ Len(writes) = 0
          BY <2>1, <2>2 DEF Accepted
    <3> QED BY <2>2, <3>1 DEF WBase, QBase
  <2>4. \A s \in 1..sentSeq : outcome[s] \in Settled
        BY <1>1, <2>2, <2>3, ConstantsAssumption DEF OInv, ZoneInv, Zones
  <2> QED BY <2>1, <2>4
<1> QED BY <1>1, AlwaysOInv, PTL

(* A callback is called at most once, and what a sender was told is never  *)
(* contradicted.                                                           *)
THEOREM OutcomesAreFinal == Spec => OutcomeFinal
<1>1. FinalStep => \A s \in 1..MaxSeq :
          outcome[s] \in {"ok", "err", "dropped"} => outcome'[s] = outcome[s]
      BY DEF FinalStep, Settled
<1>2. IInv /\ IInv' /\ OInv /\ [Next]_vars =>
          [\A s \in 1..MaxSeq : outcome[s] \in {"ok", "err", "dropped"}
                                   => outcome'[s] = outcome[s]]_vars
      BY <1>1, StepOInv
<1> QED BY <1>2, AlwaysOInv, PTL DEF Spec, OutcomeFinal
=============================================================================
