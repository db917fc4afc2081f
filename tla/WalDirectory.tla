---------------------------- MODULE WalDirectory ----------------------------
(***************************************************************************)
(* Several processes and one WAL directory: the directory lock (WalLock),  *)
(* open and dump, the flush worker that outlives its owner's last call,    *)
(* and the ClosedChunkReader that outlives the WAL it came from.           *)
(*                                                                         *)
(* The directory maps names to files.  A record has size 1, so a chunk's   *)
(* id plus its number of records is where the next chunk starts.  What a   *)
(* crash of the system does to files is in ChunkedWal; here a process or   *)
(* a worker may die.  The LOCK file has no contents and is never removed,  *)
(* so opening it and trying the lock is one step.                          *)
(***************************************************************************)
EXTENDS ChunkNames, FiniteSets

CONSTANTS
    Procs,      \* processes that use the directory
    Strays,     \* files of other origin that may lie in the directory
    MaxQueue,   \* bound: requests queued to a worker
    MaxFiles,   \* bound: files ever created
    MaxWrites,  \* bound: records written after a chunk's first
    MaxDeaths   \* bound: processes and workers that die

ASSUME DirectoryAssumption ==
    /\ MaxQueue \in Nat \ {0} /\ MaxFiles \in Nat \ {0}
    /\ MaxWrites \in Nat /\ MaxDeaths \in Nat
    /\ "nobody" \notin Procs
    /\ \A s \in Strays : \A n \in 0..MaxNum : s /= ChunkFileName(n)

VARIABLES
    lock,       \* holder of the exclusive lock on LOCK
    dir,        \* names in the directory, each with its file
    data,       \* the records in each file
    pc,         \* where each process is
    ids,        \* names that gave the chunk ids not yet looked at
    closed,     \* ChunkedWal.closed: id, file and records of each chunk
    open,       \* OpenChunk, or the chunk replayed last
    left,       \* history: chunks that failed rotations left out of both
    worker,     \* each process's flush worker
    reader,     \* chunks of the ClosedChunkReader the process holds
    readerOk,   \* history: no worker of the process failed since
    writes, deaths  \* bounds

ownerVars == <<pc, ids, closed, open, left>>
readerVars == <<reader, readerOk>>
vars == <<lock, dir, data, ownerVars, worker, readerVars, writes, deaths>>

(* The names that may be in the directory, and what each is parsed as.     *)
ChunkName == [id \in 0..MaxNum |-> ChunkFileName(id)]
Names == {ChunkName[id] : id \in 0..MaxNum} \union Strays
Parsed == [n \in Names |-> ParseChunkFileName(n)]

Nobody == "nobody"
NoChunk == [id |-> 0, file |-> 0, recs |-> <<>>]
NoWorker == [alive |-> FALSE, file |-> 0, queue |-> <<>>]
EndOf(c) == c.id + Len(c.recs)

Init ==
    /\ lock = Nobody
    /\ dir = <<>> /\ data = <<>>
    /\ pc = [p \in Procs |-> "out"] /\ ids = [p \in Procs |-> {}]
    /\ closed = [p \in Procs |-> {}] /\ open = [p \in Procs |-> NoChunk]
    /\ left = [p \in Procs |-> {}]
    /\ worker = [p \in Procs |-> NoWorker]
    /\ reader = [p \in Procs |-> {}] /\ readerOk = [p \in Procs |-> TRUE]
    /\ writes = 0 /\ deaths = 0

-----------------------------------------------------------------------------
(* The lock.                                                               *)

(* Mutant: the lock is not exclusive.                                      *)
TryLockShared(p) ==
    /\ pc[p] = "out"
    /\ lock' = p
    /\ pc' = [pc EXCEPT ![p] = "locked"]
    /\ UNCHANGED <<dir, data, ids, closed, open, left, worker, readerVars,
                   writes, deaths>>

(* WalLock::new: try_lock_exclusive succeeds; an error changes nothing.    *)
TryLock(p) ==
    /\ pc[p] = "out" /\ lock = Nobody
    /\ lock' = p
    /\ pc' = [pc EXCEPT ![p] = "locked"]
    /\ UNCHANGED <<dir, data, ids, closed, open, left, worker, readerVars,
                   writes, deaths>>

(* The process lets go of the lock, and of what it knew of the directory.  *)
Leave(p) ==
    /\ lock' = Nobody
    /\ pc' = [pc EXCEPT ![p] = "out"]
    /\ ids' = [ids EXCEPT ![p] = {}]
    /\ closed' = [closed EXCEPT ![p] = {}]
    /\ open' = [open EXCEPT ![p] = NoChunk]
    /\ left' = [left EXCEPT ![p] = {}]

(* Mutant: the worker is detached.                                         *)
Detached(p) == TRUE

WorkerJoined(p) == ~worker[p].alive

(* A WalLock, or a ChunkedWal with one, is dropped.  The drop of a         *)
(* ChunkedWal runs shutdown first.                                         *)
DropLock(p) ==
    /\ pc[p] \in {"locked", "shut"}
    /\ Leave(p)
    /\ UNCHANGED <<dir, data, worker, readerVars, writes, deaths>>

-----------------------------------------------------------------------------
(* open_locked and dump_records.                                           *)

(* load_chunk_ids: names that do not parse are ignored.  The ids are kept  *)
(* with the names they were read from, since two names may give one id.    *)
ChunkIds == {n \in DOMAIN dir : Parsed[n] /= Invalid}

(* The ids are sorted: the next one and the last one.                      *)
Lowest(S) == {n \in S : \A m \in S : Parsed[n] <= Parsed[m]}
Highest(S) == {n \in S : \A m \in S : Parsed[m] <= Parsed[n]}

LoadChunkIds(p, call) ==
    /\ pc[p] = "locked"
    /\ ids' = [ids EXCEPT ![p] = ChunkIds]
    /\ pc' = [pc EXCEPT ![p] = call]
    /\ UNCHANGED <<lock, dir, data, closed, open, left, worker, readerVars,
                   writes, deaths>>

(* open_chunk_file opens a chunk by the name the WAL gives it.             *)
Exists(id) == ChunkName[id] \in DOMAIN dir
FileOf(id) == dir[ChunkName[id]]

(* Chunk::dump of one chunk after the other; the lock stays with the       *)
(* caller, also when a file is not found.                                  *)
Dump(p) ==
    /\ pc[p] = "dump"
    /\ \/ \E n \in Lowest(ids[p]) :
            /\ Exists(Parsed[n])
            /\ ids' = [ids EXCEPT ![p] = @ \ {n}]
            /\ UNCHANGED pc
       \/ /\ \A n \in Lowest(ids[p]) : ~Exists(Parsed[n])
          /\ ids' = [ids EXCEPT ![p] = {}]
          /\ pc' = [pc EXCEPT ![p] = "locked"]
    /\ UNCHANGED <<lock, dir, data, closed, open, left, worker, readerVars,
                   writes, deaths>>

(* remove_incomplete_tail_chunks: the last chunk has its first record, or  *)
(* there is none ...                                                       *)
TrimEnd(p) ==
    /\ pc[p] = "trim"
    /\ \A n \in Highest(ids[p]) :
          Exists(Parsed[n]) /\ data[FileOf(Parsed[n])] /= <<>>
    /\ pc' = [pc EXCEPT ![p] = "replay"]
    /\ UNCHANGED <<lock, dir, data, ids, closed, open, left, worker,
                   readerVars, writes, deaths>>

(* ... or it is removed.                                                   *)
Trim(p) ==
    /\ pc[p] = "trim"
    /\ \E n \in Highest(ids[p]) :
          /\ Exists(Parsed[n]) /\ data[FileOf(Parsed[n])] = <<>>
          /\ dir' = [m \in DOMAIN dir \ {ChunkName[Parsed[n]]} |-> dir[m]]
          /\ ids' = [ids EXCEPT ![p] = @ \ {n}]
    /\ UNCHANGED <<lock, data, pc, closed, open, left, worker, readerVars,
                   writes, deaths>>

(* Mutant: chunks are not compared with their predecessors.                *)
AnyChunk(p, id) == Exists(id) /\ data[FileOf(id)] /= <<>>

(* ensure_consecutive_chunks, and a chunk that has its first record.       *)
CanReplay(p, id) ==
    /\ Exists(id) /\ data[FileOf(id)] /= <<>>
    /\ open[p] /= NoChunk => id = EndOf(open[p])

(* The next chunk is replayed; the one before is closed.                   *)
Replay(p) ==
    /\ pc[p] = "replay"
    /\ \E n \in Lowest(ids[p]) : LET id == Parsed[n] IN
         /\ CanReplay(p, id)
         /\ open' = [open EXCEPT ![p] = [id |-> id, file |-> FileOf(id),
                                         recs |-> data[FileOf(id)]]]
         /\ ids' = [ids EXCEPT ![p] = @ \ {n}]
    /\ closed' = [closed EXCEPT ![p] = @ \union ({open[p]} \ {NoChunk})]
    /\ UNCHANGED <<lock, dir, data, pc, left, worker, readerVars, writes,
                   deaths>>

(* open_locked returns an error: the WalLock it was given is dropped.      *)
OpenFails(p) ==
    /\ \/ /\ pc[p] = "trim"
          /\ \E n \in Highest(ids[p]) : ~Exists(Parsed[n])
       \/ /\ pc[p] = "replay"
          /\ \E n \in Lowest(ids[p]) : ~CanReplay(p, Parsed[n])
    /\ Leave(p)
    /\ UNCHANGED <<dir, data, worker, readerVars, writes, deaths>>

Record(p) == [by |-> p, n |-> writes]

(* ChunkedWal::new: the worker gets the file of the open chunk.            *)
StartWorker(p, f) ==
    worker' = [worker EXCEPT ![p] = [NoWorker EXCEPT !.alive = TRUE,
                                                     !.file = f]]

(* reopen_last_closed: the chunk replayed last is the open one.            *)
ReopenLast(p) ==
    /\ pc[p] = "replay" /\ ids[p] = {} /\ open[p] /= NoChunk
    /\ StartWorker(p, open[p].file)
    /\ pc' = [pc EXCEPT ![p] = "up"]
    /\ UNCHANGED <<lock, dir, data, ids, closed, open, left, readerVars,
                   writes, deaths>>

(* create_new of a chunk's file.                                           *)
CreateFile(id, recs) ==
    /\ Len(data) < MaxFiles /\ ~Exists(id)
    /\ data' = Append(data, recs)
    /\ dir' = [n \in DOMAIN dir \union {ChunkName[id]} |->
                 IF n = ChunkName[id] THEN Len(data) + 1 ELSE dir[n]]

(* create_with_initial_record in an empty directory.                       *)
CreateFirst(p) ==
    /\ pc[p] = "replay" /\ ids[p] = {} /\ open[p] = NoChunk
    /\ CreateFile(0, <<Record(p)>>)
    /\ open' = [open EXCEPT ![p] = [id |-> 0, file |-> Len(data) + 1,
                                    recs |-> <<Record(p)>>]]
    /\ StartWorker(p, Len(data) + 1)
    /\ pc' = [pc EXCEPT ![p] = "up"]
    /\ UNCHANGED <<lock, ids, closed, left, readerVars, writes, deaths>>

-----------------------------------------------------------------------------
(* The WAL while it is up.  Sends to a dead worker fail and change nothing *)
(* here.                                                                   *)

CanSend(p) == worker[p].alive /\ Len(worker[p].queue) < MaxQueue
Enqueue(p, reqs) == worker' = [worker EXCEPT ![p].queue = @ \o reqs]

(* append and send_pending of one record.                                  *)
Write(p) ==
    /\ pc[p] = "up" /\ CanSend(p) /\ writes < MaxWrites
    /\ writes' = writes + 1
    /\ LET r == [by |-> p, n |-> writes'] IN
         /\ open' = [open EXCEPT ![p].recs = Append(@, r)]
         /\ Enqueue(p, <<[kind |-> "write", rec |-> r]>>)
    /\ UNCHANGED <<lock, dir, data, pc, ids, closed, left, readerVars, deaths>>

(* try_close_full_chunk creates a file for the next chunk ...              *)
CanRotate(p) ==
    /\ pc[p] = "up" /\ CanSend(p)
    /\ Len(open[p].recs) > 1 /\ EndOf(open[p]) <= MaxNum

(* ... and sends AppendFile and the checkpoint.  Its single steps are in   *)
(* ChunkedWal.                                                             *)
Rotate(p) ==
    /\ CanRotate(p) /\ CreateFile(EndOf(open[p]), <<>>)
    /\ closed' = [closed EXCEPT ![p] = @ \union {open[p]}]
    /\ open' = [open EXCEPT ![p] = [id |-> EndOf(open[p]),
                                    file |-> Len(data) + 1,
                                    recs |-> <<Record(p)>>]]
    /\ Enqueue(p, <<[kind |-> "append", file |-> Len(data) + 1],
                    [kind |-> "write", rec |-> Record(p)]>>)
    /\ UNCHANGED <<lock, pc, ids, left, readerVars, writes, deaths>>

(* sync_dir fails: the file stays, and the WAL goes on without it.  When   *)
(* AppendFile finds the worker dead, this step and WorkerFails are what    *)
(* has happened.                                                           *)
RotateSyncErr(p) ==
    /\ CanRotate(p) /\ CreateFile(EndOf(open[p]), <<>>)
    /\ left' = [left EXCEPT ![p] = @ \union {EndOf(open[p])}]
    /\ UNCHANGED <<lock, pc, ids, closed, open, worker, readerVars, writes,
                   deaths>>

(* The checkpoint cannot be encoded: the new chunk is open and has no      *)
(* record, and the full one, out of open already, is not put into closed.  *)
RotateEncodeErr(p) ==
    /\ CanRotate(p) /\ CreateFile(EndOf(open[p]), <<>>)
    /\ left' = [left EXCEPT ![p] = @ \union {open[p].id}]
    /\ open' = [open EXCEPT ![p] = [id |-> EndOf(open[p]),
                                    file |-> Len(data) + 1, recs |-> <<>>]]
    /\ Enqueue(p, <<[kind |-> "append", file |-> Len(data) + 1]>>)
    /\ UNCHANGED <<lock, pc, ids, closed, readerVars, writes, deaths>>

(* drain_closed_chunks_while and send_remove_chunks of the oldest chunk.   *)
Purge(p) ==
    /\ pc[p] = "up" /\ CanSend(p)
    /\ \E c \in closed[p] :
         /\ \A d \in closed[p] : c.id <= d.id
         /\ closed' = [closed EXCEPT ![p] = @ \ {c}]
         /\ Enqueue(p, <<[kind |-> "remove", id |-> c.id]>>)
    /\ UNCHANGED <<lock, dir, data, pc, ids, open, left, readerVars, writes,
                   deaths>>

(* closed_chunk_reader: a copy of the closed map with its open files.      *)
TakeReader(p) ==
    /\ pc[p] = "up" /\ closed[p] /= {}
    /\ reader' = [reader EXCEPT ![p] = closed[p]]
    /\ readerOk' = [readerOk EXCEPT ![p] = worker[p].alive]
    /\ UNCHANGED <<lock, dir, data, ownerVars, worker, writes, deaths>>

(* ClosedChunkReader::read_record reads the file the chunk was opened as,  *)
(* whatever has become of its name.                                        *)
ReadableBy(c) == data[c.file]

(* The worker carries out the next request.                                *)
WorkerStep(p) ==
    /\ worker[p].alive /\ worker[p].queue /= <<>>
    /\ LET r == Head(worker[p].queue) IN
         \/ /\ r.kind = "write"
            /\ data' = [data EXCEPT ![worker[p].file] = Append(@, r.rec)]
            /\ worker' = [worker EXCEPT ![p].queue = Tail(@)]
            /\ UNCHANGED dir
         \/ /\ r.kind = "append"
            /\ worker' = [worker EXCEPT ![p].queue = Tail(@),
                                        ![p].file = r.file]
            /\ UNCHANGED <<dir, data>>
         \/ /\ r.kind = "remove"
            /\ dir' = [n \in DOMAIN dir \ {ChunkName[r.id]} |-> dir[n]]
            /\ worker' = [worker EXCEPT ![p].queue = Tail(@)]
            /\ UNCHANGED data
    /\ UNCHANGED <<lock, ownerVars, readerVars, writes, deaths>>

(* An I/O error or a panic ends the worker.                                *)
WorkerFails(p) ==
    /\ worker[p].alive /\ deaths < MaxDeaths
    /\ deaths' = deaths + 1
    /\ worker' = [worker EXCEPT ![p] = NoWorker]
    /\ readerOk' = [readerOk EXCEPT ![p] = FALSE]
    /\ UNCHANGED <<lock, dir, data, ownerVars, reader, writes>>

(* shutdown closes the channel ...                                         *)
Shutdown(p) ==
    /\ pc[p] = "up"
    /\ pc' = [pc EXCEPT ![p] = "closing"]
    /\ UNCHANGED <<lock, dir, data, ids, closed, open, left, worker,
                   readerVars, writes, deaths>>

(* ... the worker returns when its queue is drained ...                    *)
WorkerQuits(p) ==
    /\ pc[p] = "closing" /\ worker[p].alive /\ worker[p].queue = <<>>
    /\ worker' = [worker EXCEPT ![p] = NoWorker]
    /\ UNCHANGED <<lock, dir, data, ownerVars, readerVars, writes, deaths>>

(* ... and shutdown returns.  The lock is held until the drop.             *)
Join(p) ==
    /\ pc[p] = "closing" /\ WorkerJoined(p)
    /\ pc' = [pc EXCEPT ![p] = "shut"]
    /\ UNCHANGED <<lock, dir, data, ids, closed, open, left, worker,
                   readerVars, writes, deaths>>

(* The process dies: the system frees its lock, its threads are gone.      *)
ProcessDies(p) ==
    /\ pc[p] /= "out" /\ deaths < MaxDeaths
    /\ deaths' = deaths + 1
    /\ Leave(p)
    /\ worker' = [worker EXCEPT ![p] = NoWorker]
    /\ reader' = [reader EXCEPT ![p] = {}]
    /\ readerOk' = [readerOk EXCEPT ![p] = TRUE]
    /\ UNCHANGED <<dir, data, writes>>

(* A file of other origin is put into the directory while no WAL uses it.  *)
StrayAppears(s) ==
    /\ lock = Nobody /\ s \notin DOMAIN dir
    /\ dir' = [n \in DOMAIN dir \union {s} |-> IF n = s THEN 0 ELSE dir[n]]
    /\ UNCHANGED <<lock, data, ownerVars, worker, readerVars, writes, deaths>>

Next ==
    \/ \E s \in Strays : StrayAppears(s)
    \/ \E p \in Procs :
        \/ TryLock(p) \/ DropLock(p)
        \/ (\E call \in {"trim", "dump"} : LoadChunkIds(p, call))
        \/ Dump(p) \/ Trim(p) \/ TrimEnd(p) \/ Replay(p) \/ OpenFails(p)
        \/ ReopenLast(p) \/ CreateFirst(p)
        \/ Write(p) \/ Rotate(p) \/ RotateSyncErr(p) \/ RotateEncodeErr(p)
        \/ Purge(p) \/ TakeReader(p)
        \/ WorkerStep(p) \/ WorkerFails(p)
        \/ Shutdown(p) \/ WorkerQuits(p) \/ Join(p) \/ ProcessDies(p)

Spec == Init /\ [][Next]_vars

-----------------------------------------------------------------------------
(* The directory has one user at a time, worker threads included: whoever  *)
(* lists, dumps, opens or writes it holds the lock, and the lock outlasts  *)
(* the worker that may still write and unlink files.                       *)
OneOwner ==
    \A p \in Procs : pc[p] /= "out" \/ worker[p].alive => lock = p

(* A chunk that was listed is still there when it is opened, for replay or *)
(* for a dump; NotFound comes only from a file with a misspelt name.       *)
ListedChunksFound ==
    \A p \in Procs : \A n \in ids[p] :
        \/ Exists(Parsed[n])
        \/ \E m \in DOMAIN dir : Misspelt(m) /\ Parsed[m] = Parsed[n]

Removing(p) ==
    {worker[p].queue[i].id : i \in {j \in 1..Len(worker[p].queue) :
                                      worker[p].queue[j].kind = "remove"}}

(* A WAL that is up knows every chunk file in its directory but those that *)
(* its rotations left out when they returned an error (open_chunk.rs:106,  *)
(* chunked_wal.rs:687), and nothing else is there: no name that a WAL      *)
(* wrote is ignored, and a file left out is neither replayed nor unlinked  *)
(* later.  It knows each chunk once: no name that repeats an offset in     *)
(* another spelling is accepted (it would replay a chunk twice).           *)
KnowsItsChunks ==
    \A p \in Procs : pc[p] = "up" /\ worker[p].alive =>
        /\ {n \in DOMAIN dir : Parsed[n] /= Invalid} =
              {ChunkName[i] : i \in {c.id : c \in closed[p]}
                                        \union {open[p].id} \union Removing(p)
                                        \union left[p]}
        /\ \A c \in closed[p] \union {open[p]} :
              /\ c.id \notin left[p]
              /\ \A d \in closed[p] \union {open[p]} : c.id = d.id => c = d

(* A ClosedChunkReader reads the records its WAL appended or none at all:  *)
(* not those of a later owner, also after the WAL is dropped, the chunk is *)
(* unlinked or its offset is used again, unless that WAL's worker failed.  *)
ReaderReadsItsRecords ==
    \A p \in Procs : readerOk[p] =>
        \A c \in reader[p] :
            IsPrefix(ReadableBy(c), c.recs) \/ IsPrefix(c.recs, ReadableBy(c))
=============================================================================
