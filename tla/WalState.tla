------------------------------ MODULE WalState ------------------------------
(***************************************************************************)
(* The state of a ChunkedWal, its flush worker and its directory, shared   *)
(* by the modules that describe what each does: FlushWorkerIO, WalOpen and *)
(* ChunkedWal.                                                             *)
(***************************************************************************)
EXTENDS WalDisk, SequencesExt

CONSTANTS
    MaxRecords,     \* Config::chunk_max_records
    MaxBatch,       \* Config::flush_batch_max_items
    Truncates,      \* the values of Config::truncate_incomplete_record in use
    SyncBeforeRemove, \* the caller syncs the open chunk before it removes
    Faults,         \* which operations may fail
    MaxFaults,      \* bound: how often one fails
    MaxActions,     \* bound: actions the caller appends
    MaxQueue,       \* bound: requests in the channel (1024 in the code)
    MaxCrashes      \* bound: process crashes and power losses

FaultKinds ==
    {"write", "sync", "callback", "create", "syncdir", "remove", "encode"}

(* Config::validate rejects zero for each of the first two.                *)
ASSUME WalAssumption ==
    /\ MaxRecords \in Nat \ {0} /\ MaxBatch \in Nat \ {0}
    /\ Truncates \subseteq BOOLEAN /\ SyncBeforeRemove \in BOOLEAN
    /\ Faults \subseteq FaultKinds /\ MaxFaults \in Nat
    /\ MaxActions \in Nat /\ MaxQueue \in Nat \ {0} /\ MaxCrashes \in Nat

VARIABLES
    fs,         \* the directory (WalDisk)
    pc,         \* where the thread that owns the WAL is
    sm,         \* the caller's state machine: the actions applied so far
    open,       \* OpenChunk: its id, record count and pending records
    closed,     \* ChunkedWal.closed: id and end offset of each chunk
    openSync,   \* a sync write was sent since the open chunk was made
    queue,      \* the request channel
    rx,         \* the worker's end of the channel exists
    wpc,        \* where the flush worker is
    files,      \* FlushWorker.files, by chunk id
    batch,      \* WriteBatch.writes
    wrote,      \* how many of them are in the file
    nonFlush,   \* WriteBatch.last_non_flush, NoReq for None
    result,     \* outcome of the batch
    rec,        \* locals of open_locked and of try_close_full_chunk
    acked,      \* history: actions vouched for by an Ok sync
    written,    \* history: actions known to be in the files
    reported,   \* history: records per chunk reported by the worker
    nextAction, crashes, faults     \* bounds

mainVars == <<pc, sm, open, closed, openSync, rec>>
workVars == <<wpc, files, batch, wrote, nonFlush, result>>
chanVars == <<queue, rx>>
histVars == <<acked, written, reported>>
boundVars == <<nextAction, crashes, faults>>
vars == <<fs, mainVars, workVars, chanVars, histVars, boundVars>>

(* Records.  An action adds its value to the state machine; a checkpoint   *)
(* holds the whole of it.                                                  *)
Action(a) == [checkpoint |-> FALSE, values |-> <<a>>]
Checkpoint(s) == [checkpoint |-> TRUE, values |-> s]

(* StateMachine::apply.                                                    *)
Apply(s, r) == IF r.checkpoint THEN r.values ELSE s \o r.values

(* Requests.  Three fields are history: id and upto say where the worker's *)
(* last file ends once the request is carried out (upto of a write is its  *)
(* upto_offset), len how many actions it vouches for.                      *)
NoReq == [kind |-> "none", id |-> 0, upto |-> 0, data |-> <<>>,
          sync |-> FALSE, cb |-> FALSE, len |-> 0, ids |-> {}]
WriteReq(id, upto, data, sync, cb, len) ==
    [kind |-> "write", id |-> id, upto |-> upto, data |-> data,
     sync |-> sync, cb |-> cb, len |-> len, ids |-> {}]
AppendFileReq(i) ==
    [kind |-> "append", id |-> i, upto |-> i, data |-> <<>>,
     sync |-> FALSE, cb |-> FALSE, len |-> 0, ids |-> {}]
RemoveReq(id, upto, ids) ==
    [kind |-> "remove", id |-> id, upto |-> upto, data |-> <<>>,
     sync |-> FALSE, cb |-> FALSE, len |-> 0, ids |-> ids]

NoChunk == [id |-> 0, n |-> 0, pending |-> <<>>]
NoRec == [todo |-> {}, prev |-> -1, truncate |-> FALSE, truncated |-> FALSE,
          n |-> 0, sm |-> <<>>]

OpenPCs == {"down", "trim", "trimsync", "scan", "truncsync", "replay",
            "newsync", "newwrite", "failed"}
UpPCs == {"idle", "rot_create", "rot_sync", "rot_append", "rot_cp",
          "shutdown", "closing"}
WorkerPCs == {"none", "recv", "write", "sync", "callbacks", "nonflush",
              "rmsync", "quit", "stop", "done", "dead"}

(* The system refuses an operation, or the application's codec fails.      *)
Fault(kind) ==
    /\ kind \in Faults /\ faults < MaxFaults
    /\ faults' = faults + 1

MaxOf(a, b) == IF a >= b THEN a ELSE b
=============================================================================
