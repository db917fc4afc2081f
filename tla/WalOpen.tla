------------------------------- MODULE WalOpen -------------------------------
(***************************************************************************)
(* ChunkedWal::open_locked: what a WAL does with the directory it finds.   *)
(* Each step ends where a crash would leave a different directory.  An     *)
(* I/O error of the system in one of these steps is not modelled: open     *)
(* then returns it and leaves what a process crash at that step leaves.    *)
(***************************************************************************)
EXTENDS WalState

OpenUnchanged == <<sm, open, openSync, workVars, chanVars, histVars,
                   boundVars>>

(* open is called, perhaps after it has failed, with truncation allowed or *)
(* not: load_chunk_ids.                                                    *)
LoadChunkIds ==
    /\ pc \in {"down", "failed"}
    /\ pc' = "trim"
    /\ \E t \in Truncates :
         rec' = [NoRec EXCEPT !.todo = fs.names, !.truncate = t]
    /\ closed' = {}
    /\ UNCHANGED <<fs, OpenUnchanged>>

(* How reading a chunk ends: at its end, or with a record that does not    *)
(* decode, because the file ends in it or for another reason; then         *)
(* verify_trailing_zeros looks at the rest of the file.                    *)
Damaged(i) == fs.file[i].tail /= "none"
UnexpectedEof(i) == fs.file[i].tail = "short"
TrailingZeros(i) == fs.file[i].tail = "zero"

(* has_complete_initial_record: an empty, a short and a zero-filled file   *)
(* have none; anything else that does not decode is an error.              *)
HasCompleteInitialRecord(i) == fs.file[i].data /= <<>>
UnreadableInitialRecord(i) ==
    Damaged(i) /\ ~UnexpectedEof(i) /\ ~TrailingZeros(i)

(* Mutant: no trailing chunk is discarded.                                 *)
TrimTailKeeping ==
    /\ pc = "trim"
    /\ pc' = "scan"
    /\ UNCHANGED <<fs, rec, closed, OpenUnchanged>>

(* Mutant: the discarded chunk stays in the list of chunk ids.             *)
TrimTailRepeating ==
    /\ pc = "trim"
    /\ LET last == Max(rec.todo) IN
         IF rec.todo = {} \/ HasCompleteInitialRecord(last)
         THEN pc' = "scan" /\ UNCHANGED fs
         ELSE /\ fs' = RemoveFile(fs, last)
              /\ pc' = "trimsync"
    /\ UNCHANGED <<rec, closed, OpenUnchanged>>

(* remove_incomplete_tail_chunks: unlink the last file, or stop.           *)
TrimTail ==
    /\ pc = "trim"
    /\ LET last == Max(rec.todo) IN
         IF rec.todo = {} \/ HasCompleteInitialRecord(last)
         THEN pc' = "scan" /\ UNCHANGED <<fs, rec>>
         ELSE IF UnreadableInitialRecord(last)
         THEN pc' = "failed" /\ UNCHANGED <<fs, rec>>
         ELSE /\ fs' = RemoveFile(fs, last)
              /\ rec' = [rec EXCEPT !.todo = @ \ {last}]
              /\ pc' = "trimsync"
    /\ UNCHANGED <<closed, OpenUnchanged>>

(* remove_incomplete_tail_chunks: sync_dir after the unlink.               *)
TrimSync ==
    /\ pc = "trimsync"
    /\ fs' = SyncDir(fs)
    /\ pc' = "trim"
    /\ UNCHANGED <<rec, closed, OpenUnchanged>>

(* ensure_consecutive_chunks.                                              *)
Gap(i) == rec.prev /= -1 /\ rec.prev /= i

(* Mutant: trailing zeros are taken for damage.                            *)
CanTruncateShortOnly(i) ==
    rec.truncate /\ i = Max(fs.names) /\ UnexpectedEof(i)

(* handle_record_error: a short record or trailing zeros are cut off, in   *)
(* the last chunk and if the configuration allows it.                      *)
CanTruncate(i) ==
    rec.truncate /\ i = Max(fs.names) /\ (UnexpectedEof(i) \/ TrailingZeros(i))

(* open_with_truncate reads the next chunk, up to set_len.                 *)
ScanChunk ==
    /\ pc = "scan" /\ rec.todo /= {}
    /\ LET i == Min(rec.todo) IN
         IF Gap(i) \/ (Damaged(i) /\ ~CanTruncate(i))
         THEN pc' = "failed" /\ UNCHANGED <<fs, rec>>
         ELSE IF Damaged(i)
         THEN /\ fs' = SetLen(fs, i)
              /\ rec' = [rec EXCEPT !.truncated = TRUE]
              /\ pc' = "truncsync"
         ELSE pc' = "replay" /\ UNCHANGED <<fs, rec>>
    /\ UNCHANGED <<closed, OpenUnchanged>>

(* open_with_truncate: sync_all after set_len.                             *)
TruncateSync ==
    /\ pc = "truncsync"
    /\ fs' = SyncFile(fs, Min(rec.todo))
    /\ pc' = "replay"
    /\ UNCHANGED <<rec, closed, OpenUnchanged>>

(* Chunk::last_segment indexes the last but one offset of the chunk.       *)
HasLastSegment(i) == fs.file[i].data /= <<>>

(* on_chunk_persisted is called with the chunk's end, and the records are  *)
(* applied one by one.                                                     *)
ReplayRecord ==
    /\ pc = "replay"
    /\ LET data == fs.file[Min(rec.todo)].data IN
         /\ rec.n < Len(data)
         /\ rec' = [rec EXCEPT !.n = @ + 1, !.sm = Apply(@, data[rec.n + 1])]
    /\ UNCHANGED <<fs, pc, closed, OpenUnchanged>>

(* last_segment panics: open_locked unwinds like an open that fails.       *)
ReplayPanic ==
    /\ pc = "replay" /\ ~HasLastSegment(Min(rec.todo))
    /\ pc' = "failed"
    /\ UNCHANGED <<fs, rec, closed, OpenUnchanged>>

(* Then the chunk joins closed: while the WAL is being opened, closed is   *)
(* also what was reported.                                                 *)
ReplayChunk ==
    /\ pc = "replay" /\ HasLastSegment(Min(rec.todo))
    /\ LET i == Min(rec.todo) IN
         /\ rec.n = Len(fs.file[i].data)
         /\ rec' = [rec EXCEPT !.todo = @ \ {i},
                               !.prev = EndOf(fs, i),
                               !.n = 0]
         /\ closed' = closed \union {[id |-> i, end |-> EndOf(fs, i)]}
    /\ pc' = "scan"
    /\ UNCHANGED <<fs, OpenUnchanged>>

-----------------------------------------------------------------------------
(* ChunkedWal::new: the WAL is up, its worker has the open chunk's file.   *)
(* What was replayed is in the files, so it is what the WAL now holds.     *)
StartUp(chunk) ==
    /\ open' = chunk
    /\ openSync' = FALSE
    /\ sm' = rec.sm
    /\ rx' = TRUE /\ queue' = <<>>
    /\ wpc' = "recv" /\ files' = <<chunk.id>>
    /\ batch' = <<>> /\ wrote' = 0 /\ nonFlush' = NoReq /\ result' = "ok"
    /\ pc' = "idle"
    /\ rec' = NoRec
    /\ written' = Len(rec.sm)
    /\ UNCHANGED <<acked, reported, boundVars>>

Scanned == pc = "scan" /\ rec.todo = {}

(* reopen_last_closed: a last chunk that was not truncated stays open.     *)
ReopenLastClosed ==
    /\ Scanned /\ closed /= {} /\ ~rec.truncated
    /\ \E last \in closed :
         /\ \A c \in closed : c.id <= last.id
         /\ closed' = closed \ {last}
         /\ StartUp([id |-> last.id, n |-> last.end - last.id,
                     pending |-> <<>>])
    /\ UNCHANGED fs

NewChunkId == IF rec.prev = -1 THEN 0 ELSE rec.prev

(* Otherwise create_with_initial_record: create_new ...                    *)
CreateChunk ==
    /\ Scanned /\ (closed = {} \/ rec.truncated) /\ NewChunkId \in Ids
    /\ fs' = CreateFile(fs, NewChunkId)
    /\ pc' = "newsync"
    /\ UNCHANGED <<rec, closed, OpenUnchanged>>

(* ... sync_dir ...                                                        *)
CreateSync ==
    /\ pc = "newsync"
    /\ fs' = SyncDir(fs)
    /\ pc' = "newwrite"
    /\ UNCHANGED <<rec, closed, OpenUnchanged>>

(* ... and the checkpoint, written but not synced.                         *)
CreateWrite ==
    /\ pc = "newwrite"
    /\ fs' = WriteFile(fs, NewChunkId, <<Checkpoint(rec.sm)>>, "none")
    /\ StartUp([id |-> NewChunkId, n |-> 1, pending |-> <<>>])
    /\ UNCHANGED closed

(* open_locked once it has begun, and all of it.                           *)
OpenStep ==
    \/ TrimTail \/ TrimSync \/ ScanChunk \/ TruncateSync
    \/ ReplayRecord \/ ReplayPanic \/ ReplayChunk
    \/ ReopenLastClosed \/ CreateChunk \/ CreateSync \/ CreateWrite

OpenNext == LoadChunkIds \/ OpenStep
=============================================================================
