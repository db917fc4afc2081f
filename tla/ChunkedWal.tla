----------------------------- MODULE ChunkedWal -----------------------------
(***************************************************************************)
(* A ChunkedWal over its whole life: opened on a directory, appended to,   *)
(* flushed, rotated, purged and shut down by its owner, served by a flush  *)
(* worker, and cut short by process crashes and power losses.              *)
(*                                                                         *)
(* The owner's methods take &mut self and form one process; the worker     *)
(* (FlushWorkerIO) runs beside it, joined by a FIFO channel.  The byte     *)
(* limit and the sequence numbers of the channel are in FlushControl.      *)
(***************************************************************************)
EXTENDS FlushWorkerIO, WalOpen

Init ==
    /\ fs = EmptyDisk
    /\ pc = "down" /\ sm = <<>> /\ open = NoChunk /\ closed = {}
    /\ openSync = FALSE /\ rec = NoRec
    /\ queue = <<>> /\ rx = FALSE
    /\ wpc = "none" /\ files = <<>> /\ batch = <<>> /\ wrote = 0
    /\ nonFlush = NoReq /\ result = "ok"
    /\ acked = 0 /\ written = 0 /\ reported = [i \in Ids |-> 0]
    /\ nextAction = 1 /\ crashes = 0 /\ faults = 0

(* Chunk::global_end of the open chunk.                                    *)
OpenEnd == open.id + open.n

-----------------------------------------------------------------------------
(* WAL::append and the caller's state machine: the record is encoded into  *)
(* the pending buffer and gets its offset.  An action that does not encode *)
(* changes nothing.                                                        *)
AppendAction ==
    /\ pc = "idle" /\ nextAction <= MaxActions
    /\ open' = [open EXCEPT !.n = @ + 1,
                            !.pending = Append(@, Action(nextAction))]
    /\ sm' = Append(sm, nextAction)
    /\ nextAction' = nextAction + 1
    /\ UNCHANGED <<fs, pc, closed, openSync, rec, workVars, chanVars,
                   histVars, crashes, faults>>

(* Mutant: a channel without the capacity bound.                           *)
SendOkUnbounded(req) ==
    /\ rx
    /\ queue' = Append(queue, req)
    /\ UNCHANGED rx

(* FlushClient::send as the owner sees it: it blocks while the channel is  *)
(* full, and fails once the worker is gone.  Where it blocks on the byte   *)
(* limit the step is not taken; FairSpec says when it may be taken never.  *)
SendOk(req) ==
    /\ rx /\ Len(queue) < MaxQueue
    /\ queue' = Append(queue, req)
    /\ UNCHANGED rx

SendErr == ~rx /\ UNCHANGED chanVars

(* send_pending: the buffer is taken before the request is sent, and is    *)
(* lost if that fails.                                                     *)
PendingReq(sync, cb) ==
    WriteReq(open.id, OpenEnd, open.pending, sync, cb, Len(sm))
TakePending == open' = [open EXCEPT !.pending = <<>>]

(* The caller passes a callback; without one there is only less to vouch   *)
(* for.                                                                    *)
SendPending(sync) ==
    /\ pc = "idle"
    /\ TakePending
    /\ \/ SendOk(PendingReq(sync, TRUE)) /\ openSync' = (openSync \/ sync)
       \/ SendErr /\ UNCHANGED openSync
    /\ UNCHANGED <<fs, pc, sm, closed, rec, workVars, histVars, boundVars>>

-----------------------------------------------------------------------------
(* try_close_full_chunk, one action for each call that can fail or that    *)
(* the worker can see.  An error returns at once.                          *)

IsOpenChunkFull == open.n >= MaxRecords

(* Mutant: the full chunk is written but not synced.                       *)
RotateFlushUnsynced ==
    /\ pc = "idle" /\ IsOpenChunkFull
    /\ TakePending
    /\ \/ /\ SendOk(PendingReq(FALSE, FALSE))
          /\ openSync' = TRUE /\ pc' = "rot_create"
       \/ SendErr /\ UNCHANGED <<openSync, pc>>
    /\ UNCHANGED <<fs, sm, closed, rec, workVars, histVars, boundVars>>

RotateFlush ==
    /\ pc = "idle" /\ IsOpenChunkFull
    /\ TakePending
    /\ \/ /\ SendOk(PendingReq(TRUE, FALSE))
          /\ openSync' = TRUE /\ pc' = "rot_create"
       \/ SendErr /\ UNCHANGED <<openSync, pc>>
    /\ UNCHANGED <<fs, sm, closed, rec, workVars, histVars, boundVars>>

(* create_file: create_new refuses a name that exists.                     *)
RotateCreate ==
    /\ pc = "rot_create"
    /\ \/ /\ OpenEnd \in Ids \ fs.names
          /\ fs' = CreateFile(fs, OpenEnd)
          /\ pc' = "rot_sync" /\ UNCHANGED faults
       \/ /\ OpenEnd \in fs.names
          /\ pc' = "idle" /\ UNCHANGED <<fs, faults>>
       \/ Fault("create") /\ pc' = "idle" /\ UNCHANGED fs
    /\ UNCHANGED <<sm, open, closed, openSync, rec, workVars, chanVars,
                   histVars, nextAction, crashes>>

(* Mutant: the new name is not synced.                                     *)
RotateSyncSkipped ==
    /\ pc = "rot_sync"
    /\ pc' = "rot_append"
    /\ UNCHANGED <<fs, sm, open, closed, openSync, rec, workVars, chanVars,
                   histVars, boundVars>>

(* create_file: sync_dir.  Its failure leaves the file behind.             *)
RotateSync ==
    /\ pc = "rot_sync"
    /\ \/ fs' = SyncDir(fs) /\ pc' = "rot_append" /\ UNCHANGED faults
       \/ Fault("syncdir") /\ pc' = "idle" /\ UNCHANGED fs
    /\ UNCHANGED <<sm, open, closed, openSync, rec, workVars, chanVars,
                   histVars, nextAction, crashes>>

(* AppendFile is sent, then the new chunk replaces the open one and gets   *)
(* the checkpoint as its first record.                                     *)
RotateAppend ==
    /\ pc = "rot_append"
    /\ \/ /\ SendOk(AppendFileReq(OpenEnd))
          /\ open' = [id |-> OpenEnd, n |-> 1, pending |-> <<Checkpoint(sm)>>]
          /\ openSync' = FALSE
          /\ rec' = [NoRec EXCEPT !.prev = open.id]
          /\ pc' = "rot_cp"
       \/ SendErr /\ pc' = "idle" /\ UNCHANGED <<open, openSync, rec>>
    /\ UNCHANGED <<fs, sm, closed, workVars, histVars, boundVars>>

(* Mutant: what was encoded before the error stays in the buffer.          *)
RotateEncodeErrPartial ==
    /\ pc = "rot_append" /\ Fault("encode")
    /\ SendOk(AppendFileReq(OpenEnd))
    /\ open' = [id |-> OpenEnd, n |-> 0, pending |-> <<Checkpoint(sm)>>]
    /\ openSync' = FALSE
    /\ pc' = "idle"
    /\ UNCHANGED <<fs, sm, closed, rec, workVars, histVars, nextAction,
                   crashes>>

(* The checkpoint does not encode: the old chunk is no longer open and     *)
(* never joins closed, and nothing of the record is left in the new one.   *)
RotateEncodeErr ==
    /\ pc = "rot_append" /\ Fault("encode")
    /\ SendOk(AppendFileReq(OpenEnd))
    /\ open' = [id |-> OpenEnd, n |-> 0, pending |-> <<>>]
    /\ openSync' = FALSE
    /\ pc' = "idle"
    /\ UNCHANGED <<fs, sm, closed, rec, workVars, histVars, nextAction,
                   crashes>>

(* Mutant: the old chunk is forgotten.                                     *)
RotateCheckpointLosing ==
    /\ pc = "rot_cp"
    /\ TakePending
    /\ SendOk(PendingReq(FALSE, FALSE)) \/ SendErr
    /\ rec' = NoRec
    /\ pc' = "idle"
    /\ UNCHANGED <<fs, sm, closed, openSync, workVars, histVars, boundVars>>

(* The checkpoint is sent, and the old chunk joins closed unless that      *)
(* fails.                                                                  *)
RotateCheckpoint ==
    /\ pc = "rot_cp"
    /\ TakePending
    /\ \/ /\ SendOk(PendingReq(FALSE, FALSE))
          /\ closed' = closed \union {[id |-> rec.prev, end |-> open.id]}
       \/ SendErr /\ UNCHANGED closed
    /\ rec' = NoRec
    /\ pc' = "idle"
    /\ UNCHANGED <<fs, sm, openSync, workVars, histVars, boundVars>>

-----------------------------------------------------------------------------
(* drain_closed_chunks_while takes the oldest chunks, up to one the caller *)
(* still needs.                                                            *)
Drained(c) == {d \in closed : d.id <= c.id}

(* send_remove_chunks: the caller gives up the drained chunks.  It is left *)
(* to the caller to have a sync of the open chunk queued before.           *)
RemoveChunks(c) ==
    /\ pc = "idle" /\ (SyncBeforeRemove => openSync)
    /\ closed' = closed \ Drained(c)
    /\ \/ SendOk(RemoveReq(open.id, OpenEnd - Len(open.pending),
                           {d.id : d \in Drained(c)}))
       \/ SendErr
    /\ UNCHANGED <<fs, pc, sm, open, openSync, rec, workVars, histVars,
                   boundVars>>

(* shutdown (and Drop) is called ...                                       *)
Shutdown ==
    /\ pc = "idle"
    /\ pc' = "shutdown"
    /\ UNCHANGED <<fs, sm, open, closed, openSync, rec, workVars, chanVars,
                   histVars, boundVars>>

(* ... and sends the pending data with a sync, which may wait for room, or *)
(* fails to; either way the channel is closed.                             *)
ShutdownSend ==
    /\ pc = "shutdown"
    /\ TakePending
    /\ SendOk(PendingReq(TRUE, FALSE)) \/ SendErr
    /\ pc' = "closing"
    /\ UNCHANGED <<fs, sm, closed, openSync, rec, workVars, histVars,
                   boundVars>>

(* Everything volatile is gone.                                            *)
Vanish ==
    /\ pc' = "down" /\ open' = NoChunk /\ closed' = {} /\ openSync' = FALSE
    /\ rec' = NoRec
    /\ queue' = <<>> /\ rx' = FALSE
    /\ wpc' = "none" /\ files' = <<>> /\ batch' = <<>> /\ wrote' = 0
    /\ nonFlush' = NoReq /\ result' = "ok"

(* shutdown joins the worker; it returns Ok if the worker did not fail.    *)
Join ==
    /\ pc = "closing" /\ wpc \in {"done", "dead"}
    /\ Vanish
    /\ IF wpc = "done"
       THEN acked' = Len(sm) /\ written' = Len(sm)
       ELSE UNCHANGED <<acked, written>>
    /\ UNCHANGED <<fs, sm, reported, boundVars>>

-----------------------------------------------------------------------------
(* A write in progress may have got as far as the middle of a record.      *)
InFlight ==
    {fs} \union
    (IF wpc = "write"
     THEN {WriteFile(fs, LastFile, SubSeq(NextData, 1, k), "short") :
             k \in 0..(Len(NextData) - 1)}
     ELSE {}) \union
    (IF pc = "newwrite"
     THEN {WriteFile(fs, NewChunkId, <<>>, "short")} ELSE {})

ProcessCrash ==
    /\ crashes < MaxCrashes
    /\ crashes' = crashes + 1
    /\ fs' \in InFlight
    /\ Vanish
    /\ UNCHANGED <<sm, histVars, nextAction, faults>>

(* Power is lost: files fall back to what is on stable storage, and a      *)
(* write that was not synced is no longer vouched for.                     *)
PowerLoss ==
    /\ crashes < MaxCrashes
    /\ crashes' = crashes + 1
    /\ \E d \in InFlight : fs' \in PowerLossImages(d)
    /\ Vanish
    /\ written' = acked
    /\ UNCHANGED <<sm, acked, reported, nextAction, faults>>

OwnerNext ==
    \/ AppendAction
    \/ \E sync \in BOOLEAN : SendPending(sync)
    \/ RotateFlush \/ RotateCreate \/ RotateSync \/ RotateAppend
    \/ RotateEncodeErr \/ RotateCheckpoint
    \/ \E c \in closed : RemoveChunks(c)
    \/ Shutdown \/ ShutdownSend \/ Join

Next == OwnerNext \/ WorkerNext \/ OpenNext \/ ProcessCrash \/ PowerLoss

Spec == Init /\ [][Next]_vars

WorkerFailed == wpc \in {"stop", "dead"}

(* The worker is scheduled, and open and the join of shutdown go on once   *)
(* begun.  A send is sure to go on only while the worker is there to make  *)
(* room: after its failure the byte limit may hold it for ever             *)
(* (FlushControl).  Nobody has to make a call.                             *)
FairSpec ==
    /\ Spec
    /\ WF_vars(WorkerNext) /\ WF_vars(OpenStep) /\ WF_vars(Join)
    /\ WF_vars(~WorkerFailed /\ ShutdownSend)

-----------------------------------------------------------------------------
Record == [checkpoint : BOOLEAN, values : Seq(1..MaxActions)]
WorkerRequest ==
    [kind : {"none", "write", "append", "remove"}, id : Ids, upto : Nat,
     data : Seq(Record), sync : BOOLEAN, cb : BOOLEAN, len : Nat,
     ids : SUBSET Ids]

FsType ==
    /\ fs \in [names : SUBSET Ids, images : SUBSET SUBSET Ids,
               file : [Ids -> [data : Seq(Record), synced : Nat,
                               tail : Tails]]]
    /\ fs.names \in fs.images
    /\ \A i \in Ids : fs.file[i].synced <= Len(fs.file[i].data)

OwnerType ==
    /\ pc \in OpenPCs \union UpPCs /\ sm \in Seq(1..MaxActions)
    /\ open \in [id : Ids, n : Nat, pending : Seq(Record)]
    /\ closed \subseteq [id : Ids, end : Nat] /\ openSync \in BOOLEAN
    /\ rec \in [todo : SUBSET Ids, prev : Nat \union {-1},
                truncate : BOOLEAN, truncated : BOOLEAN, n : Nat,
                sm : Seq(1..MaxActions)]

WorkerType ==
    /\ queue \in Seq(WorkerRequest) /\ Len(queue) <= MaxQueue
    /\ rx \in BOOLEAN /\ wpc \in WorkerPCs /\ files \in Seq(Ids)
    /\ batch \in Seq(WorkerRequest) /\ Len(batch) <= MaxBatch /\ wrote \in Nat
    /\ nonFlush \in WorkerRequest /\ result \in {"ok", "err"}

HistoryType ==
    /\ acked \in Nat /\ written \in Nat /\ reported \in [Ids -> Nat]
    /\ nextAction \in 1..(MaxActions + 1) /\ crashes \in 0..MaxCrashes
    /\ faults \in 0..MaxFaults

(* Type invariant of the directory, the owner and the worker.              *)
TypeOK == FsType /\ OwnerType /\ WorkerType /\ HistoryType

(* The rule recovery rests on (remove_incomplete_tail_chunks): a chunk has *)
(* a record only if every earlier chunk is whole, synced, and ends where   *)
(* the next chunk starts.  Several requests, their order in the channel    *)
(* and the worker's file list together uphold it.                          *)
PredecessorDurable ==
    \A i, j \in fs.names :
        i < j /\ fs.file[j].data /= <<>> =>
            /\ fs.file[i].synced = Len(fs.file[i].data)
            /\ fs.file[i].tail = "none"
            /\ EndOf(fs, i) \in fs.names

WorkerSound == rx /\ wpc \notin {"stop", "quit"} /\ result = "ok"

(* What the worker still has to do after its batch.                        *)
Todo == IF nonFlush = NoReq THEN queue ELSE <<nonFlush>> \o queue

(* A place in the log: a chunk and an offset in it.  Where the worker's    *)
(* last file ends now, where it will end after the batch, and before the   *)
(* k-th of the requests that follow.                                       *)
Place(id, upto) == [id |-> id, upto |-> upto]
PlaceOf(req) == Place(req.id, req.upto)
FilePlace == Place(LastFile, EndOf(fs, LastFile))
BatchPlace == IF wpc = "write" THEN PlaceOf(Last(batch)) ELSE FilePlace
PlaceBefore(k) == IF k = 1 THEN BatchPlace ELSE PlaceOf(Todo[k - 1])

(* A request carried out at place p leads to the place it says: a write    *)
(* moves the end of the file to its upto_offset, AppendFile goes on in the *)
(* chunk that starts there.                                                *)
Follows(req, p) ==
    \/ req.kind = "write" /\ PlaceOf(req) = Place(p.id, p.upto + Len(req.data))
    \/ req.kind = "append" /\ PlaceOf(req) = Place(p.upto, p.upto)
    \/ req.kind = "remove" /\ PlaceOf(req) = p

(* Each request starts where the one before it ends, the first at the end  *)
(* of the worker's file; the pending buffer fills the gap up to the        *)
(* owner's global_end.                                                     *)
BatchChain ==
    wpc = "write" =>
        /\ Follows(batch[wrote + 1], FilePlace)
        /\ \A k \in (wrote + 2)..Len(batch) :
               Follows(batch[k], PlaceOf(batch[k - 1]))
TodoChain ==
    /\ \A k \in 1..Len(Todo) : Follows(Todo[k], PlaceBefore(k))
    /\ PlaceBefore(Len(Todo) + 1) =
           Place(open.id, OpenEnd - Len(open.pending))

(* Records land where the owner was told they are: append returns a        *)
(* Segment long before the worker, which only appends, gives the record    *)
(* that place.                                                             *)
OffsetsAgree == WorkerSound => BatchChain /\ TodoChain

(* The worker never reports a chunk persisted beyond what it has synced    *)
(* (ChunkPersisted.synced_offset), not even after a power loss.            *)
ReportedIsDurable ==
    \A i \in fs.names : reported[i] <= fs.file[i].synced

(* load_record finds each record of a closed chunk in its file.            *)
LoadRecordFinds(c) == c.id \in fs.names /\ EndOf(fs, c.id) = c.end

(* When the worker has caught up, load_record finds every record of every  *)
(* closed chunk in its file: wait_worker_idle is enough before reading.    *)
ClosedReadableWhenIdle ==
    WorkerSound /\ wpc = "recv" /\ queue = <<>> =>
        \A c \in closed : LoadRecordFinds(c)

(* As long as the worker lives, the chunks the owner knows of cover one    *)
(* range of offsets without a hole, so load_record finds the chunk of      *)
(* every segment handed out since the oldest of them.  Rotation moves the  *)
(* full chunk to closed only in its last step, after two sends and the     *)
(* encoding of the checkpoint: where that may fail, the map gets a hole.   *)
ChunkMapContiguous ==
    pc = "idle" /\ rx =>
        \A c \in closed :
            c.end \in {d.id : d \in closed} \union {open.id}

(* A file that is no longer the worker's last has been reported to its     *)
(* end: sync_data_files calls on_persisted for the last file only, so a    *)
(* chunk superseded before that would never be reported.                   *)
SupersededFileReported ==
    \A k \in 1..(Len(files) - 1) :
        files[k] \in fs.names =>
            reported[files[k]] = Len(fs.file[files[k]].data)

(* Chunk::last_segment, which indexes the last but one offset, is never    *)
(* asked of a chunk without records by recovery, whatever rotations and    *)
(* recoveries that failed left in the directory.                           *)
LastSegmentDefined == pc = "replay" => HasLastSegment(Min(rec.todo))

(* RemoveChunks runs after what replaces the removed chunks is flushed     *)
(* (WorkerRequest::RemoveChunks): the checkpoint at the start of the       *)
(* oldest chunk left is on stable storage before the removal is final.     *)
PurgeAfterFlush ==
    wpc = "rmsync" => /\ fs.names /= {}
                      /\ fs.file[Min(fs.names)].synced > 0

(* Whatever the crash, the WAL opens: no directory that the WAL itself     *)
(* produced is refused as damaged or as having a gap.                      *)
OpenSucceeds == pc /= "failed"

(* A file left by a failed rotation after which the WAL went on.           *)
Orphan(i) == fs.file[i] = NoFile /\ i /= Max(fs.names)

(* open refuses a directory for one of three reasons only: a torn tail and *)
(* truncation is off, a record that was overwritten rather than cut short, *)
(* or the file that a failed rotation left behind.                         *)
OpenRefusesOnlyDamage ==
    pc = "failed" =>
        \E i \in fs.names :
            \/ Damaged(i) /\ (~rec.truncate \/ fs.file[i].tail = "mixed")
            \/ Orphan(i)

(* open reports a chunk persisted up to an offset only if its records up   *)
(* to there are on stable storage (the contract of ChunkPersisted).        *)
OpenReportsDurable ==
    pc \in OpenPCs =>
        \A c \in closed : fs.file[c.id].synced >= c.end - c.id

(* The chunked log implements the durable log: what recovery hands back is *)
(* a prefix of what was appended, and holds all that was vouched for.      *)
DL == INSTANCE DurableLog WITH
        Actions <- 1..MaxActions, log <- sm, up <- pc \in UpPCs

ImplementsDurableLog == DL!Spec

(* open, once called, returns an open WAL, unless the process dies first.  *)
OpenReturns == pc = "trim" ~> pc \in {"idle", "down"}

(* shutdown sends, drains the queue and returns, unless the worker failed  *)
(* and its send waits for room; once the channel is closed it returns in   *)
(* any case, also when the worker failed.                                  *)
ShutdownCompletes ==
    /\ pc = "shutdown" ~> (pc = "down" \/ (WorkerFailed /\ pc = "shutdown"))
    /\ pc = "closing" ~> pc = "down"
=============================================================================
