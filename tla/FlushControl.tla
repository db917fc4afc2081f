---------------------------- MODULE FlushControl ----------------------------
(***************************************************************************)
(* Flow control between a ChunkedWal and its flush worker: FlushClient     *)
(* (the WAL's side), WorkerState with its QueuedBytes (shared), the        *)
(* bounded request channel, and the life of the worker thread              *)
(* (FlushWorker::run and run_inner).                                       *)
(*                                                                         *)
(* Two threads take part.  Every ChunkedWal method that sends a request    *)
(* takes &mut self, so the client is one sequential process; it runs       *)
(* concurrently with the worker.  Each action is the code between two      *)
(* points where the other thread can be seen: a mutex section, a channel   *)
(* operation, or a call into the file system or into user code.            *)
(*                                                                         *)
(* What the requests do to files is the subject of ChunkedWal; here an     *)
(* I/O step only succeeds, fails, or panics in a user callback.            *)
(***************************************************************************)
EXTENDS Integers, Sequences

CONSTANTS
    Limit,      \* Config::flush_queue_max_bytes
    ChanCap,    \* capacity of the request channel (1024 in the code)
    MaxItems,   \* Config::flush_batch_max_items
    Sizes,      \* the data sizes a write request may have
    MaxSeq,     \* bound: the number of requests sent in one life of the WAL
    UsizeMax,   \* largest usize: counters of bytes wrap above it
    Faults      \* what may go wrong on the worker thread

(* Config::validate rejects a zero limit and a zero batch size.            *)
ASSUME ConstantsAssumption ==
    /\ Limit \in Nat \ {0}
    /\ ChanCap \in Nat \ {0}
    /\ MaxItems \in Nat \ {0}
    /\ Sizes \subseteq Nat
    /\ MaxSeq \in Nat \ {0}
    /\ UsizeMax \in Nat
    /\ Faults \subseteq {"io", "panic"}

(* No buffer is longer than isize::MAX, so two of them fit in a usize, and *)
(* neither does a configured limit come near usize::MAX.                   *)
ASSUME UsizeAssumption ==
    \A s \in Sizes : /\ Limit + s <= UsizeMax
                     /\ \A t \in Sizes : s + t <= UsizeMax

VARIABLES
    cpc,        \* where the client is
    op,         \* the call the client is in: send, stat or shutdown
    creq,       \* the request the client is sending, or sent last
    sendOk,     \* result of the client's last FlushClient::send
    tx,         \* FlushClient.tx is Some
    handle,     \* ChunkedWal.worker_handle is Some
    sentSeq,    \* FlushClient.sent_seq
    used,       \* QueuedBytes.used
    doneSeq,    \* WorkerProgress.done_seq
    failed,     \* WorkerProgress.status is Failed
    queue,      \* requests in the channel
    rx,         \* the worker's end of the channel exists
    wpc,        \* where the worker is
    writes,     \* WriteBatch.writes, less those whose callback was called
    nonFlush,   \* WriteBatch.last_non_flush, NoReq for None
    maxSeq,     \* WriteBatch.max_seq
    batchBytes, \* bytes of the batch not yet given back to QueuedBytes
    result,     \* outcome of the worker's I/O
    outcome     \* history: what became of each request

clientVars == <<cpc, op, creq, sendOk, tx, handle, sentSeq>>
workerVars == <<wpc, writes, nonFlush, maxSeq, batchBytes, result>>
sharedVars == <<used, doneSeq, failed, queue, rx, outcome>>
vars == <<clientVars, workerVars, sharedVars>>

-----------------------------------------------------------------------------
(* Requests.  "stat" is GetFlushStat, whose sender waits for a reply;      *)
(* "other" is AppendFile and RemoveChunks.  cum is a history field: the    *)
(* bytes reserved for this request and all requests before it.             *)
Kinds == {"write", "stat", "other"}
NoReq == [seq |-> 0, kind |-> "other", size |-> 0, cum |-> 0]
Request == [seq : 0..MaxSeq, kind : Kinds, size : Nat, cum : Nat]

ClientPCs == {"idle", "acquire", "acquire_wait", "push", "release_err",
              "stat_wait", "close", "join", "idle_check", "idle_wait",
              "closed"}
WorkerPCs == {"recv", "collect", "io", "callbacks", "nonflush", "complete",
              "unwind", "stop", "fail", "exit", "done"}
Outcomes == {"unsent", "pending", "ok", "err", "dropped"}

Init ==
    /\ cpc = "idle" /\ op = "send" /\ creq = NoReq /\ sendOk = TRUE
    /\ tx = TRUE /\ handle = TRUE /\ sentSeq = 0
    /\ used = 0 /\ doneSeq = 0 /\ failed = FALSE
    /\ queue = <<>> /\ rx = TRUE
    /\ wpc = "recv" /\ writes = <<>> /\ nonFlush = NoReq /\ maxSeq = 0
    /\ batchBytes = 0 /\ result = "ok"
    /\ outcome = [s \in 1..MaxSeq |-> "unsent"]

(* usize arithmetic of a release build: it wraps.                          *)
UAdd(a, b) == IF a + b <= UsizeMax THEN a + b ELSE a + b - UsizeMax - 1
USub(a, b) == IF a >= b THEN a - b ELSE a - b + UsizeMax + 1

MaxOf(a, b) == IF a >= b THEN a ELSE b

(* Mutant: a condvar is not notified.                                      *)
NotifyNobody == cpc' = cpc

(* Condvar::notify_all on QueuedBytes.released and WorkerState.changed.    *)
NotifyReleased == cpc' = IF cpc = "acquire_wait" THEN "acquire" ELSE cpc
NotifyChanged == cpc' = IF cpc = "idle_wait" THEN "idle_check" ELSE cpc

(* The requests of S are freed with their callbacks and reply channels.    *)
Drop(S) == [s \in DOMAIN outcome |->
              IF s \in S /\ outcome[s] = "pending" THEN "dropped"
              ELSE outcome[s]]
SeqsOf(q) == {q[i].seq : i \in DOMAIN q}

-----------------------------------------------------------------------------
(* The client: FlushClient::send.                                          *)

(* FlushClient::send is called: tx is Some, the reservation is the data    *)
(* length of a write and 0 otherwise.  One sequence number is kept for     *)
(* the write of shutdown.                                                  *)
BeginSend(o, kind, size) ==
    /\ creq' = [seq |-> sentSeq + 1, kind |-> kind, size |-> size,
                cum |-> creq.cum + size]
    /\ op' = o
    /\ cpc' = "acquire"

Send(kind, size) ==
    /\ cpc = "idle" /\ tx
    /\ sentSeq + 1 < MaxSeq
    /\ kind /= "write" => size = 0
    /\ BeginSend(IF kind = "stat" THEN "stat" ELSE "send", kind, size)
    /\ UNCHANGED <<sendOk, tx, handle, sentSeq>>
    /\ UNCHANGED <<workerVars, sharedVars>>

(* Mutant: acquire waits only once the limit has been passed.              *)
AcquireBlocksLate == used > Limit

AcquireBlocks == used > 0 /\ UAdd(used, creq.size) > Limit

(* QueuedBytes::acquire finds no room and waits on the condvar.            *)
AcquireWait ==
    /\ cpc = "acquire" /\ AcquireBlocks
    /\ cpc' = "acquire_wait"
    /\ UNCHANGED <<op, creq, sendOk, tx, handle, sentSeq>>
    /\ UNCHANGED <<workerVars, sharedVars>>

(* Mutant: sent_seq is not advanced.                                       *)
AcquireReusingSeq ==
    /\ cpc = "acquire" /\ ~AcquireBlocks
    /\ used' = UAdd(used, creq.size)
    /\ cpc' = "push"
    /\ UNCHANGED <<op, creq, sendOk, tx, handle, sentSeq>>
    /\ UNCHANGED <<workerVars, doneSeq, failed, queue, rx, outcome>>

(* QueuedBytes::acquire reserves; the request gets its sequence number.    *)
Acquire ==
    /\ cpc = "acquire" /\ ~AcquireBlocks
    /\ used' = UAdd(used, creq.size)
    /\ sentSeq' = creq.seq
    /\ cpc' = "push"
    /\ UNCHANGED <<op, creq, sendOk, tx, handle>>
    /\ UNCHANGED <<workerVars, doneSeq, failed, queue, rx, outcome>>

(* Where the caller of FlushClient::send goes on.                          *)
AfterSend(ok) ==
    CASE op = "shutdown" -> "close"
      [] op = "stat" /\ ok -> "stat_wait"
      [] OTHER -> "idle"

(* Mutant: a channel without a bound.                                      *)
UnboundedRoom == TRUE

ChannelHasRoom == Len(queue) < ChanCap

(* tx.send succeeds: it blocks while the channel is full.                  *)
Push ==
    /\ cpc = "push" /\ rx /\ ChannelHasRoom
    /\ queue' = Append(queue, creq)
    /\ outcome' = [outcome EXCEPT ![creq.seq] = "pending"]
    /\ sendOk' = TRUE
    /\ cpc' = AfterSend(TRUE)
    /\ UNCHANGED <<op, creq, tx, handle, sentSeq>>
    /\ UNCHANGED <<workerVars, used, doneSeq, failed, rx>>

(* tx.send fails because the receiver is gone; the request is freed.       *)
PushFail ==
    /\ cpc = "push" /\ ~rx
    /\ outcome' = [outcome EXCEPT ![creq.seq] = "dropped"]
    /\ cpc' = "release_err"
    /\ UNCHANGED <<op, creq, sendOk, tx, handle, sentSeq>>
    /\ UNCHANGED <<workerVars, used, doneSeq, failed, queue, rx>>

(* The error path of send gives the reservation back.                      *)
ReleaseErr ==
    /\ cpc = "release_err"
    /\ used' = USub(used, creq.size)
    /\ sendOk' = FALSE
    /\ cpc' = AfterSend(FALSE)
    /\ UNCHANGED <<op, creq, tx, handle, sentSeq>>
    /\ UNCHANGED <<workerVars, doneSeq, failed, queue, rx, outcome>>

(* ChunkedWal::get_stat receives the reply, or the error of a dropped one. *)
StatReply ==
    /\ cpc = "stat_wait"
    /\ outcome[creq.seq] \in {"ok", "dropped"}
    /\ cpc' = "idle"
    /\ UNCHANGED <<op, creq, sendOk, tx, handle, sentSeq>>
    /\ UNCHANGED <<workerVars, sharedVars>>

-----------------------------------------------------------------------------
(* The client: wait_worker_idle and shutdown.                              *)

(* wait_worker_idle: wait_for(sent_seq).                                   *)
WaitIdle ==
    /\ cpc = "idle"
    /\ cpc' = "idle_check" /\ op' = "send"
    /\ UNCHANGED <<creq, sendOk, tx, handle, sentSeq>>
    /\ UNCHANGED <<workerVars, sharedVars>>

IdleReached == doneSeq >= sentSeq

(* One turn of the loop of WorkerState::wait_for: Ok, Err, or wait.        *)
WaitForTurn ==
    /\ cpc = "idle_check"
    /\ cpc' = IF IdleReached \/ failed
              THEN IF op = "shutdown" THEN "closed" ELSE "idle"
              ELSE "idle_wait"
    /\ UNCHANGED <<op, creq, sendOk, tx, handle, sentSeq>>
    /\ UNCHANGED <<workerVars, sharedVars>>

(* shutdown (and Drop): takes the handle and sends the pending data.       *)
Shutdown(size) ==
    /\ cpc = "idle" /\ handle
    /\ handle' = FALSE
    /\ BeginSend("shutdown", "write", size)
    /\ UNCHANGED <<sendOk, tx, sentSeq>>
    /\ UNCHANGED <<workerVars, sharedVars>>

(* Mutant: shutdown joins without dropping the sender.                     *)
CloseKeepingSender ==
    /\ cpc = "close"
    /\ cpc' = "join"
    /\ UNCHANGED <<op, creq, sendOk, tx, handle, sentSeq>>
    /\ UNCHANGED <<workerVars, sharedVars>>

(* shutdown closes the client, then waits for the worker thread.           *)
Close ==
    /\ cpc = "close"
    /\ tx' = FALSE
    /\ cpc' = "join"
    /\ UNCHANGED <<op, creq, sendOk, handle, sentSeq>>
    /\ UNCHANGED <<workerVars, sharedVars>>

(* Mutant: the thread is detached instead of joined.                       *)
Detached == TRUE

(* The handle's join: the thread has ended.                                *)
Joined == wpc = "done"

(* The thread is joined; a failed send is returned before wait_idle.       *)
Join ==
    /\ cpc = "join" /\ Joined
    /\ cpc' = IF sendOk THEN "idle_check" ELSE "closed"
    /\ UNCHANGED <<op, creq, sendOk, tx, handle, sentSeq>>
    /\ UNCHANGED <<workerVars, sharedVars>>

-----------------------------------------------------------------------------
(* The worker: run_inner.                                                  *)

(* batch.reset and rx.recv: a write begins a batch, anything else is       *)
(* handled alone.                                                          *)
Recv ==
    /\ wpc = "recv" /\ queue /= <<>>
    /\ LET r == Head(queue) IN
         IF r.kind = "write"
         THEN /\ writes' = <<r>> /\ maxSeq' = r.seq /\ batchBytes' = r.size
              /\ nonFlush' = NoReq /\ wpc' = "collect"
         ELSE /\ writes' = <<>> /\ maxSeq' = 0 /\ batchBytes' = 0
              /\ nonFlush' = r /\ wpc' = "nonflush"
    /\ queue' = Tail(queue)
    /\ UNCHANGED <<result, used, doneSeq, failed, rx, outcome>>
    /\ UNCHANGED clientVars

(* rx.recv fails: the sender is gone and the queue is drained.             *)
RecvClosed ==
    /\ wpc = "recv" /\ queue = <<>> /\ ~tx
    /\ wpc' = "stop"
    /\ UNCHANGED <<writes, nonFlush, maxSeq, batchBytes, result>>
    /\ UNCHANGED <<clientVars, sharedVars>>

(* collect_write_batch takes one more request before the deadline; a       *)
(* request that is no write ends the batch.                                *)
Collect ==
    /\ wpc = "collect" /\ queue /= <<>> /\ Len(writes) < MaxItems
    /\ LET r == Head(queue) IN
         IF r.kind = "write"
         THEN /\ writes' = Append(writes, r)
              /\ maxSeq' = MaxOf(maxSeq, r.seq)
              /\ batchBytes' = batchBytes + r.size
              /\ UNCHANGED <<nonFlush, wpc>>
         ELSE /\ nonFlush' = r /\ wpc' = "io"
              /\ UNCHANGED <<writes, maxSeq, batchBytes>>
    /\ queue' = Tail(queue)
    /\ UNCHANGED <<result, used, doneSeq, failed, rx, outcome>>
    /\ UNCHANGED clientVars

(* The batch is full, the deadline passed or the channel is disconnected.  *)
CollectEnd ==
    /\ wpc = "collect"
    /\ wpc' = "io"
    /\ UNCHANGED <<writes, nonFlush, maxSeq, batchBytes, result>>
    /\ UNCHANGED <<clientVars, sharedVars>>

(* The batch is written and, if a write asks for it, synced.               *)
Io(res) ==
    /\ wpc = "io"
    /\ res = "err" => "io" \in Faults
    /\ result' = res
    /\ wpc' = "callbacks"
    /\ UNCHANGED <<writes, nonFlush, maxSeq, batchBytes>>
    /\ UNCHANGED <<clientVars, sharedVars>>

(* The chunk-persisted callback, called in sync_data_files, panics.        *)
IoPanic ==
    /\ wpc = "io" /\ "panic" \in Faults
    /\ result' = "panic"
    /\ wpc' = "unwind"
    /\ UNCHANGED <<writes, nonFlush, maxSeq, batchBytes>>
    /\ UNCHANGED <<clientVars, sharedVars>>

(* The next write's callback is sent the batch's result.                   *)
Callback ==
    /\ wpc = "callbacks" /\ writes /= <<>>
    /\ outcome' = [outcome EXCEPT ![Head(writes).seq] = result]
    /\ writes' = Tail(writes)
    /\ UNCHANGED <<wpc, nonFlush, maxSeq, batchBytes, result>>
    /\ UNCHANGED <<clientVars, used, doneSeq, failed, queue, rx>>

(* A write callback is given its result and panics.                        *)
CallbackPanic ==
    /\ wpc = "callbacks" /\ writes /= <<>> /\ "panic" \in Faults
    /\ outcome' = [outcome EXCEPT ![Head(writes).seq] = result]
    /\ writes' = Tail(writes)
    /\ result' = "panic"
    /\ wpc' = "unwind"
    /\ UNCHANGED <<nonFlush, maxSeq, batchBytes>>
    /\ UNCHANGED <<clientVars, used, doneSeq, failed, queue, rx>>

(* Mutant: an error returns before the bytes are given back.               *)
NoBytesOnError == IF result = "err" THEN 0 ELSE batchBytes

(* What the batch gives back to QueuedBytes: its bytes, whatever its       *)
(* result.                                                                 *)
ReleasedBytes == batchBytes

(* Mutant: the I/O error does not end run_inner.                           *)
AfterBatchIgnoringError == IF nonFlush = NoReq THEN "complete" ELSE "nonflush"

(* An I/O error ends run_inner, before the request that ended the batch is *)
(* looked at.                                                              *)
AfterBatch ==
    CASE result = "err" -> "unwind"
      [] result /= "err" /\ nonFlush /= NoReq -> "nonflush"
      [] OTHER -> "complete"

(* The callbacks are called: the batch's bytes go back to QueuedBytes.     *)
Release ==
    /\ wpc = "callbacks" /\ writes = <<>>
    /\ used' = USub(used, ReleasedBytes)
    /\ NotifyReleased
    /\ batchBytes' = 0
    /\ wpc' = AfterBatch
    /\ UNCHANGED <<writes, nonFlush, maxSeq, result>>
    /\ UNCHANGED <<op, creq, sendOk, tx, handle, sentSeq>>
    /\ UNCHANGED <<doneSeq, failed, queue, rx, outcome>>

(* handle_non_flush_request succeeds.                                      *)
HandleNonFlush ==
    /\ wpc = "nonflush"
    /\ outcome' = [outcome EXCEPT ![nonFlush.seq] = "ok"]
    /\ maxSeq' = MaxOf(maxSeq, nonFlush.seq)
    /\ nonFlush' = NoReq
    /\ wpc' = "complete"
    /\ UNCHANGED <<writes, batchBytes, result>>
    /\ UNCHANGED <<clientVars, used, doneSeq, failed, queue, rx>>

HandleNonFlushErr ==
    /\ wpc = "nonflush" /\ "io" \in Faults
    /\ result' = "err"
    /\ wpc' = "unwind"
    /\ UNCHANGED <<writes, nonFlush, maxSeq, batchBytes>>
    /\ UNCHANGED <<clientVars, sharedVars>>

(* WorkerState::complete.                                                  *)
Complete ==
    /\ wpc = "complete"
    /\ doneSeq' = MaxOf(doneSeq, maxSeq)
    /\ NotifyChanged
    /\ wpc' = "recv"
    /\ UNCHANGED <<writes, nonFlush, maxSeq, batchBytes, result>>
    /\ UNCHANGED <<op, creq, sendOk, tx, handle, sentSeq>>
    /\ UNCHANGED <<used, failed, queue, rx, outcome>>

-----------------------------------------------------------------------------
(* The worker: run, after run_inner has returned or panicked.              *)

(* run_inner's batch is freed with whatever callbacks it still holds.      *)
Unwind ==
    /\ wpc = "unwind"
    /\ outcome' = Drop(SeqsOf(writes) \union {nonFlush.seq})
    /\ writes' = <<>> /\ nonFlush' = NoReq
    /\ wpc' = "stop"
    /\ UNCHANGED <<maxSeq, batchBytes, result>>
    /\ UNCHANGED <<clientVars, used, doneSeq, failed, queue, rx>>

(* Mutant: a failure of run_inner is not recorded.                         *)
AlwaysExit == "exit"

(* run returns at once if run_inner returned Ok.                           *)
AfterRun == IF result = "ok" THEN "exit" ELSE "fail"

(* QueuedBytes::release_all.                                               *)
ReleaseAll ==
    /\ wpc = "stop"
    /\ used' = 0 /\ batchBytes' = 0
    /\ NotifyReleased
    /\ wpc' = AfterRun
    /\ UNCHANGED <<writes, nonFlush, maxSeq, result>>
    /\ UNCHANGED <<op, creq, sendOk, tx, handle, sentSeq>>
    /\ UNCHANGED <<doneSeq, failed, queue, rx, outcome>>

(* WorkerState::fail.                                                      *)
Fail ==
    /\ wpc = "fail"
    /\ failed' = TRUE
    /\ NotifyChanged
    /\ wpc' = "exit"
    /\ UNCHANGED <<writes, nonFlush, maxSeq, batchBytes, result>>
    /\ UNCHANGED <<op, creq, sendOk, tx, handle, sentSeq>>
    /\ UNCHANGED <<used, doneSeq, queue, rx, outcome>>

(* Mutant: the receiver outlives the worker, and its requests with it.     *)
ExitLeaking ==
    /\ wpc = "exit"
    /\ wpc' = "done"
    /\ UNCHANGED <<writes, nonFlush, maxSeq, batchBytes, result>>
    /\ UNCHANGED <<clientVars, sharedVars>>

(* run returns: the worker and its receiver are dropped, and the requests  *)
(* still queued with them.                                                 *)
Exit ==
    /\ wpc = "exit"
    /\ rx' = FALSE
    /\ queue' = <<>>
    /\ outcome' = Drop(SeqsOf(queue))
    /\ wpc' = "done"
    /\ UNCHANGED <<writes, nonFlush, maxSeq, batchBytes, result>>
    /\ UNCHANGED <<clientVars, used, doneSeq, failed>>

-----------------------------------------------------------------------------
ClientCall ==
    \/ \E kind \in Kinds, size \in Sizes \union {0} : Send(kind, size)
    \/ WaitIdle
    \/ \E size \in Sizes : Shutdown(size)

ClientStep ==
    \/ AcquireWait \/ Acquire \/ Push \/ PushFail \/ ReleaseErr \/ StatReply
    \/ WaitForTurn \/ Close \/ Join

WorkerStep ==
    \/ Recv \/ RecvClosed \/ Collect \/ CollectEnd
    \/ \E res \in {"ok", "err"} : Io(res)
    \/ IoPanic \/ Callback \/ CallbackPanic \/ Release
    \/ HandleNonFlush \/ HandleNonFlushErr \/ Complete
    \/ Unwind \/ ReleaseAll \/ Fail \/ Exit

(* After shutdown every sending method returns an error at once.           *)
Closed == cpc = "closed" /\ UNCHANGED vars

Next == ClientCall \/ ClientStep \/ WorkerStep \/ Closed

Spec == Init /\ [][Next]_vars

(* Both threads are scheduled: a call the client is in goes on, and the    *)
(* worker never stops between two steps.  No call has to be made.          *)
FairSpec == Spec /\ WF_vars(ClientStep) /\ WF_vars(WorkerStep)

-----------------------------------------------------------------------------
(* Type invariant of the client, the shared state and the worker.          *)
TypeOK ==
    /\ cpc \in ClientPCs /\ op \in {"send", "stat", "shutdown"}
    /\ creq \in Request /\ creq.size \in Sizes \union {0}
    /\ sendOk \in BOOLEAN /\ tx \in BOOLEAN /\ handle \in BOOLEAN
    /\ sentSeq \in 0..MaxSeq
    /\ used \in 0..UsizeMax /\ doneSeq \in 0..MaxSeq
    /\ failed \in BOOLEAN /\ rx \in BOOLEAN
    /\ queue \in Seq(Request) /\ Len(queue) <= ChanCap
    /\ wpc \in WorkerPCs /\ writes \in Seq(Request)
    /\ nonFlush \in Request /\ maxSeq \in 0..MaxSeq
    /\ batchBytes \in Nat /\ result \in {"ok", "err", "panic"}
    /\ outcome \in [1..MaxSeq -> Outcomes]

(* The worker has not run release_all: the byte count is still kept.       *)
Counting == wpc \notin {"fail", "exit", "done"}

(* Bytes of the queued requests, from their running totals.                *)
QueueBytes == IF queue = <<>> THEN 0
              ELSE queue[Len(queue)].cum - queue[1].cum + queue[1].size

(* Bytes reserved for a request that is on its way into the channel.       *)
HandBytes == IF cpc \in {"push", "release_err"} THEN creq.size ELSE 0

(* QueuedBytes counts exactly the bytes of the requests that hold memory:  *)
(* the one being sent, those in the channel and the worker's batch.  A     *)
(* release that is forgotten, doubled or out of order breaks it; if it     *)
(* runs ahead, a later release underflows, and if it lags, senders are     *)
(* throttled forever.                                                      *)
BytesAccounted == Counting => used = HandBytes + QueueBytes + batchBytes

(* QueuedBytes::acquire bounds the memory of queued writes: by the limit,  *)
(* or, for a request bigger than the limit, by that request alone.         *)
QueuedBytesBounded ==
    Counting => used <= Limit \/ \E s \in Sizes : used <= s

(* The worker's release(batch_bytes) never takes more than is reserved,    *)
(* whatever the client does at the same time.                              *)
WorkerReleaseFits == wpc = "callbacks" => used >= batchBytes

(* done_seq is never ahead of the work: when it reaches s, every request   *)
(* up to s was carried out, so wait_worker_idle cannot return Ok early.    *)
DoneMeansHandled == \A s \in 1..doneSeq : outcome[s] = "ok"

(* Requests succeed in the order they were sent, and none succeeds after   *)
(* one that failed: an Ok callback vouches for every earlier write.        *)
OkIsPrefix == \A t \in 1..MaxSeq : outcome[t] = "ok" =>
                  \A s \in 1..t : outcome[s] = "ok"

(* A sender that finds the channel closed was not shut down: the failure   *)
(* is on record by then, so waiting after a failed send returns its error. *)
DisconnectMeansFailed == ~rx /\ tx => failed

(* When shutdown has returned, the worker is gone, every request has its   *)
(* outcome, and anything but success is visible as an error of shutdown.   *)
ShutdownSettlesAll ==
    cpc = "closed" =>
        /\ wpc = "done" /\ queue = <<>>
        /\ \A s \in 1..sentSeq : outcome[s] \in {"ok", "err", "dropped"}
        /\ (sendOk /\ IdleReached) \/ failed

(* A callback is called at most once and never contradicted.               *)
OutcomeFinal ==
    [][\A s \in 1..MaxSeq : outcome[s] \in {"ok", "err", "dropped"}
                                => outcome'[s] = outcome[s]]_vars

(* wait_worker_idle returns, also when the worker fails or panics while    *)
(* it waits (the purpose of catch_unwind in FlushWorker::run).             *)
WaitIdleReturns ==
    cpc \in {"idle_check", "idle_wait"} ~> cpc \in {"idle", "closed"}

(* Every accepted request is resolved: carried out, failed, or freed with  *)
(* its callback and reply channel, so that no caller waits on it forever.  *)
RequestsResolve ==
    \A s \in 1..MaxSeq : outcome[s] = "pending" ~> outcome[s] /= "pending"

(* Shutdown, once called, returns.                                         *)
ShutdownReturns == ~handle ~> cpc = "closed"

(* Shutdown returns as long as the worker has not failed: it waits for the *)
(* byte limit, for room in the channel and for the thread.                 *)
ShutdownReturnsOrFailed == ~handle ~> cpc = "closed" \/ failed

(* A call of send returns: a sender blocked on the byte limit or on a full *)
(* channel is let go on, or the worker's failure is on record.             *)
SendReturnsOrFailed ==
    cpc \in {"acquire", "acquire_wait", "push", "release_err"} ~>
        cpc \in {"idle", "stat_wait", "close"} \/ failed

(* The error path of send gives back bytes that are still reserved.        *)
ErrorReleaseFits == cpc = "release_err" => used >= creq.size
=============================================================================
