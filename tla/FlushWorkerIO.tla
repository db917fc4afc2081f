---------------------------- MODULE FlushWorkerIO ----------------------------
(***************************************************************************)
(* What the flush worker does to the chunk files: run_inner with           *)
(* write_batch_vectored, sync_data_files and handle_non_flush_request.     *)
(* Sequence numbers, byte limits and waiting are in FlushControl.          *)
(***************************************************************************)
EXTENDS WalState

LastFile == Last(files)

(* The requests of one batch: the first k queued requests, all writes, and *)
(* perhaps the request after them, which is no write and ends the batch.   *)
(* Which of these is taken depends on the deadline; only the worker        *)
(* removes requests, so taking them in one step loses no behaviour.        *)
TakeBatch(k, ends) ==
    /\ k <= MaxBatch /\ \A i \in 1..k : queue[i].kind = "write"
    /\ ends => k < MaxBatch /\ k < Len(queue) /\ queue[k + 1].kind /= "write"
    /\ batch' = SubSeq(queue, 1, k)
    /\ nonFlush' = IF ends THEN queue[k + 1] ELSE NoReq
    /\ queue' = SubSeq(queue, (IF ends THEN k + 2 ELSE k + 1), Len(queue))
    /\ wpc' = "write"

(* A first request that is no write is handled alone.                      *)
TakeNonFlush ==
    /\ Head(queue).kind /= "write"
    /\ batch' = <<>> /\ nonFlush' = Head(queue)
    /\ queue' = Tail(queue)
    /\ wpc' = "nonflush"

Recv ==
    /\ wpc = "recv" /\ queue /= <<>>
    /\ \/ TakeNonFlush
       \/ \E k \in 1..Len(queue), ends \in BOOLEAN : TakeBatch(k, ends)
    /\ UNCHANGED <<fs, mainVars, files, wrote, result, rx, histVars, boundVars>>

(* Mutant: a disconnected channel is polled again.                         *)
RecvClosedRetrying ==
    /\ wpc = "recv" /\ queue = <<>> /\ pc = "closing"
    /\ UNCHANGED vars

(* The sender is dropped by shutdown and the queue is drained.             *)
RecvClosed ==
    /\ wpc = "recv" /\ queue = <<>> /\ pc = "closing"
    /\ wpc' = "quit"
    /\ UNCHANGED <<fs, mainVars, files, batch, wrote, nonFlush, result,
                   chanVars, histVars, boundVars>>

NeedSync == \E i \in 1..Len(batch) : batch[i].sync
NextData == batch[wrote + 1].data

(* write_batch_vectored: the data of the whole batch goes to the last      *)
(* file, of one write after the other; sync_data_files follows if one of   *)
(* the writes asks for it.                                                 *)
WriteBatch ==
    /\ wpc = "write"
    /\ fs' = WriteFile(fs, LastFile, NextData, "none")
    /\ \/ /\ wrote + 1 < Len(batch)
          /\ wrote' = wrote + 1 /\ UNCHANGED wpc
       \/ /\ wrote + 1 = Len(batch)
          /\ wrote' = 0
          /\ wpc' = IF NeedSync THEN "sync" ELSE "callbacks"
    /\ UNCHANGED <<mainVars, files, batch, nonFlush, result, chanVars,
                   histVars, boundVars>>

(* It fails after k records of a write, perhaps inside the next one.       *)
WriteBatchErr ==
    /\ wpc = "write" /\ Fault("write")
    /\ \E k \in 0..(Len(NextData) - 1), tail \in {"none", "short"} :
         fs' = WriteFile(fs, LastFile, SubSeq(NextData, 1, k), tail)
    /\ wrote' = 0
    /\ result' = "err"
    /\ wpc' = "callbacks"
    /\ UNCHANGED <<mainVars, files, batch, nonFlush, chanVars, histVars,
                   nextAction, crashes>>

(* sync_data_files takes a superseded file off the list and syncs it.      *)
SyncOldFile ==
    /\ wpc = "sync" /\ Len(files) > 1
    /\ fs' = SyncFile(fs, Head(files))
    /\ files' = Tail(files)
    /\ UNCHANGED <<mainVars, wpc, batch, wrote, nonFlush, result, chanVars,
                   histVars, boundVars>>

(* Mutant: the report goes out without the sync.                           *)
SyncLastFileSkipped ==
    /\ wpc = "sync" /\ Len(files) = 1
    /\ reported' = [reported EXCEPT
                      ![LastFile] = MaxOf(@, Last(batch).upto - LastFile)]
    /\ wpc' = "callbacks"
    /\ UNCHANGED <<fs, mainVars, files, batch, wrote, nonFlush, result, chanVars,
                   acked, written, boundVars>>

(* It syncs the last file and reports the offset of the batch's last write. *)
SyncLastFile ==
    /\ wpc = "sync" /\ Len(files) = 1
    /\ fs' = SyncFile(fs, LastFile)
    /\ reported' = [reported EXCEPT
                      ![LastFile] = MaxOf(@, Last(batch).upto - LastFile)]
    /\ wpc' = "callbacks"
    /\ UNCHANGED <<mainVars, files, batch, wrote, nonFlush, result, chanVars,
                   acked, written, boundVars>>

SyncErr ==
    /\ wpc = "sync" /\ Fault("sync")
    /\ files' = IF Len(files) > 1 THEN Tail(files) ELSE files
    /\ result' = "err"
    /\ wpc' = "callbacks"
    /\ UNCHANGED <<fs, mainVars, batch, wrote, nonFlush, chanVars, histVars,
                   nextAction, crashes>>

(* Actions the callbacks of the batch vouch for.                           *)
Vouched(S) == Max({0} \union {batch[i].len : i \in S})
Called == {i \in 1..Len(batch) : batch[i].cb}

(* Mutant: a failed batch is reported, and the worker goes on.             *)
CallbacksIgnoringError ==
    /\ wpc = "callbacks"
    /\ IF result = "ok"
       THEN /\ acked' = MaxOf(acked,
                              Vouched({i \in Called : batch[i].sync}))
            /\ written' = MaxOf(written, Vouched(Called))
       ELSE UNCHANGED <<acked, written>>
    /\ wpc' = IF nonFlush = NoReq THEN "recv" ELSE "nonflush"
    /\ batch' = <<>> /\ result' = "ok"
    /\ UNCHANGED <<fs, mainVars, files, wrote, nonFlush, chanVars, reported,
                   boundVars>>

(* The callbacks get the result; an error ends the worker, before the      *)
(* request that ended the batch is handled.                                *)
Callbacks ==
    /\ wpc = "callbacks"
    /\ IF result = "ok"
       THEN /\ acked' = MaxOf(acked,
                              Vouched({i \in Called : batch[i].sync}))
            /\ written' = MaxOf(written, Vouched(Called))
            /\ wpc' = IF nonFlush = NoReq THEN "recv" ELSE "nonflush"
       ELSE wpc' = "stop" /\ UNCHANGED <<acked, written>>
    /\ batch' = <<>>
    /\ UNCHANGED <<fs, mainVars, files, wrote, nonFlush, result, chanVars,
                   reported, boundVars>>

(* User code panics: the chunk-persisted callback (k = 0), or a write      *)
(* callback after the first k were called.                                 *)
CallbackPanic ==
    /\ wpc = "callbacks" /\ result = "ok" /\ Fault("callback")
    /\ \E k \in 0..Len(batch) :
         /\ IF k = 0 THEN NeedSync ELSE batch[k].cb
         /\ acked' = MaxOf(acked, Vouched({i \in Called : i <= k
                                                          /\ batch[i].sync}))
         /\ written' = MaxOf(written, Vouched({i \in Called : i <= k}))
    /\ batch' = <<>>
    /\ wpc' = "stop"
    /\ UNCHANGED <<fs, mainVars, files, wrote, nonFlush, result, chanVars,
                   reported, nextAction, crashes>>

(* handle_non_flush_request: AppendFile.                                   *)
AppendFile ==
    /\ wpc = "nonflush" /\ nonFlush.kind = "append"
    /\ files' = Append(files, nonFlush.id)
    /\ nonFlush' = NoReq
    /\ wpc' = "recv"
    /\ UNCHANGED <<fs, mainVars, batch, wrote, result, chanVars, histVars,
                   boundVars>>

(* RemoveChunks unlinks the files one by one, oldest first.                *)
RemoveChunk ==
    /\ wpc = "nonflush" /\ nonFlush.kind = "remove"
    /\ LET i == Min(nonFlush.ids) IN
         /\ fs' = RemoveFile(fs, i)
         /\ IF nonFlush.ids = {i}
            THEN nonFlush' = NoReq /\ wpc' = "rmsync"
            ELSE nonFlush' = [nonFlush EXCEPT !.ids = @ \ {i}] /\ wpc' = wpc
    /\ UNCHANGED <<mainVars, files, batch, wrote, result, chanVars, histVars,
                   boundVars>>

(* RemoveChunks ends with sync_dir.                                        *)
RemoveSync ==
    /\ wpc = "rmsync"
    /\ fs' = SyncDir(fs)
    /\ wpc' = "recv"
    /\ UNCHANGED <<mainVars, files, batch, wrote, nonFlush, result, chanVars,
                   histVars, boundVars>>

RemoveErr ==
    /\ \/ wpc = "nonflush" /\ nonFlush.kind = "remove"
       \/ wpc = "rmsync"
    /\ Fault("remove")
    /\ wpc' = "stop"
    /\ UNCHANGED <<fs, mainVars, files, batch, wrote, nonFlush, result, chanVars,
                   histVars, nextAction, crashes>>

(* FlushWorker::run returns, after a failure or when the channel closed:   *)
(* receiver, queued requests and files are dropped.                        *)
WorkerExit ==
    /\ wpc \in {"stop", "quit"}
    /\ rx' = FALSE /\ queue' = <<>>
    /\ wpc' = IF wpc = "stop" THEN "dead" ELSE "done"
    /\ files' = <<>> /\ batch' = <<>> /\ wrote' = 0 /\ nonFlush' = NoReq
    /\ result' = "ok"
    /\ UNCHANGED <<fs, mainVars, histVars, boundVars>>

WorkerNext ==
    \/ Recv \/ RecvClosed \/ WriteBatch \/ WriteBatchErr
    \/ SyncOldFile \/ SyncLastFile \/ SyncErr
    \/ Callbacks \/ CallbackPanic
    \/ AppendFile \/ RemoveChunk \/ RemoveSync \/ RemoveErr \/ WorkerExit
=============================================================================
