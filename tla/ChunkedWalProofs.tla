-------------------------- MODULE ChunkedWalProofs --------------------------
(***************************************************************************)
(* What ChunkedWal promises about its files, for all values of the         *)
(* constants.  The invariant has two halves: what holds of the directory   *)
(* and of the owner at any time, and what ties the requests on their way   *)
(* to the worker (Todo) to both, as long as the worker has not failed.     *)
(***************************************************************************)
EXTENDS ChunkedWalTypeProofs

-----------------------------------------------------------------------------
(* Opening.                                                                *)

(* remove_incomplete_tail_chunks works on the whole directory.             *)
TrimInv ==
    pc \in {"trim", "trimsync"} =>
        /\ rec.todo = fs.names /\ closed = {} /\ rec.prev = -1
        /\ ~rec.truncated

Scanning == {"scan", "truncsync", "replay", "newsync", "newwrite"}
Creating == {"newsync", "newwrite"}

(* The chunks read so far end where the next one starts, and the last of   *)
(* those still to be read has records.                                     *)
ScanInv ==
    pc \in Scanning =>
        /\ \A c \in closed :
              c.id \in fs.names /\ Used(fs, c.id) /\ c.end = EndOf(fs, c.id)
        /\ \A i \in fs.names : \/ i \in rec.todo
                               \/ \E c \in closed : c.id = i
                               \/ pc \in Creating /\ i = NewChunkId
        /\ rec.todo \subseteq fs.names
        /\ \A c \in closed : \A t \in rec.todo : c.id < t
        /\ rec.prev = -1 <=> closed = {}
        /\ closed /= {} =>
              \E c \in closed : /\ c.end = rec.prev
                                /\ \A d \in closed : d.id <= c.id
        /\ rec.todo /= {} =>
              \E t \in rec.todo : /\ Used(fs, t)
                                  /\ \A u \in rec.todo : u <= t

(* After a truncation every chunk is whole and synced, so that the chunk   *)
(* that takes the next records comes after whole chunks.                   *)
CreateInv ==
    /\ pc = "truncsync" => fs.file[Min(rec.todo)].tail = "none"
    /\ pc \in Scanning /\ rec.truncated =>
          \A i \in fs.names :
              Whole(fs, i) \/ (pc = "truncsync" /\ i = Min(rec.todo))
    /\ pc \in Creating =>
          /\ rec.todo = {} /\ NewChunkId \in fs.names
          /\ fs.file[NewChunkId] = NoFile
          /\ \A c \in closed : c.id < NewChunkId
          /\ closed = {} \/ rec.truncated
    /\ pc = "newwrite" => fs.images = {fs.names}

(* An open WAL: the open chunk has a record, and it is the last that has.  *)
(* Rotation and shutdown begin by sending what is pending.                 *)
UpInv ==
    pc \in UpPCs =>
        /\ open.n > 0 /\ (pc /= "rot_cp" => Len(open.pending) < open.n)
        /\ \A dir \in fs.images : \A i \in dir : Used(fs, i) => i <= open.id
        /\ \A c \in closed : c.id < open.id
        /\ pc = "rot_cp" => rec.prev < open.id
        /\ pc \in {"rot_create", "rot_sync", "rot_append", "closing"} =>
              open.pending = <<>>
        /\ pc \in {"rot_sync", "rot_append"} => OpenEnd \in fs.names
        /\ pc = "rot_append" => \A dir \in fs.images : OpenEnd \in dir

-----------------------------------------------------------------------------
(* The requests on their way.                                              *)
IsAppend(r) == r.kind = "append"
SyncWrite(r) == r.kind = "write" /\ r.sync
Grows(r) == IsAppend(r) \/ r.id < r.upto
After(id, r) == id <= r.id /\ (IsAppend(r) => id < r.id)

(* The worker will move on to chunk i.                                     *)
Pend(i) == \E k \in 1..Len(Todo) : IsAppend(Todo[k]) /\ Todo[k].id = i

(* The file being written comes after whole chunks and before empty ones,  *)
(* whatever a power loss makes of the directory.  The open chunk's file is *)
(* there, whether or not the worker has got to it.                         *)
FileInv ==
    /\ open.id \in fs.names
    /\ \A dir \in fs.images :
          /\ LastFile \in dir /\ Below(fs, dir, LastFile)
          /\ \A i \in dir : i > LastFile => ~Used(fs, i)

(* The batch is for that file.                                             *)
BatchInv ==
    /\ \A k \in 1..Len(batch) : batch[k].id = LastFile /\ Grows(batch[k])
    /\ wpc = "sync" => fs.file[LastFile].tail = "none"
    /\ wpc \in {"recv", "nonflush", "rmsync"} => batch = <<>>

(* The requests go from chunk to chunk, up to the open one.                *)
MonoInv ==
    /\ LastFile <= open.id
    /\ \A k \in 1..Len(Todo) :
          /\ After(LastFile, Todo[k]) /\ Grows(Todo[k])
          /\ Todo[k].id <= open.id
          /\ Todo[k].kind = "remove" \/ Todo[k].ids = {}
    /\ \A k, m \in 1..Len(Todo) : k < m => After(Todo[k].id, Todo[m])

(* A chunk the worker will move on to is in the directory for good, and    *)
(* the chunks in between are empty.                                        *)
FreshInv ==
    /\ \A i \in Ids : Pend(i) => \A dir \in fs.images : i \in dir
    /\ pc = "rot_append" \/ (\E i \in Ids : Pend(i)) =>
          \A dir \in fs.images : \A i \in dir :
              i > LastFile => fs.file[i] = NoFile
    /\ \A i \in fs.names : i > LastFile => fs.file[i] = NoFile

(* A chunk is synced before the worker moves on: AppendFile comes directly *)
(* after a sync write.  So does the end of the requests at shutdown.       *)
HeadSynced ==
    \/ wpc \in {"write", "sync"} /\ Last(batch).sync
    \/ wpc \in {"callbacks", "recv", "nonflush"} /\ Whole(fs, LastFile)
SyncInv ==
    /\ \A k \in 2..Len(Todo) : IsAppend(Todo[k]) => SyncWrite(Todo[k - 1])
    /\ Todo /= <<>> /\ IsAppend(Todo[1]) => HeadSynced
    /\ pc \in {"rot_create", "rot_sync", "rot_append", "closing"} =>
          IF Todo = <<>> THEN HeadSynced ELSE SyncWrite(Todo[Len(Todo)])

(* A chunk of the log, not one a failed rotation left behind.              *)
Real(i) == i \in fs.names /\ (Used(fs, i) \/ i = LastFile \/ Pend(i))

(* Chunks are removed from the front: one before a removed chunk is        *)
(* removed no later, one before the open chunk is removed or known.        *)
RemInv ==
    /\ \A k \in 1..Len(Todo) : \A x \in Todo[k].ids :
          /\ x < Todo[k].id
          /\ \A i \in fs.names :
                Real(i) /\ i < x => \E m \in 1..k : i \in Todo[m].ids
    /\ \A i \in fs.names : Real(i) /\ i < open.id =>
          \/ \E m \in 1..Len(Todo) : i \in Todo[m].ids
          \/ \E c \in closed : c.id = i
          \/ pc = "rot_cp" /\ i = rec.prev

(* The chunks before the open one, as rotation leaves them.                *)
Full ==
    IF pc = "rot_cp" THEN closed \union {[id |-> rec.prev, end |-> open.id]}
    ELSE closed

(* They stay in the directory, and they end where the owner believes, now  *)
(* or once the worker has got there.                                       *)
ClosedInv ==
    \A c \in Full : /\ c.id \in fs.names
                    /\ \A m \in 1..Len(Todo) : c.id \notin Todo[m].ids
EndInv ==
    \A c \in Full :
        \/ c.id < LastFile /\ EndOf(fs, c.id) = c.end
        \/ \E k \in 1..Len(Todo) :
              IsAppend(Todo[k]) /\ PlaceBefore(k) = Place(c.id, c.end)

-----------------------------------------------------------------------------
OpeningInv == TrimInv /\ ScanInv /\ CreateInv
PipeInv ==
    /\ FileInv /\ BatchInv /\ MonoInv /\ FreshInv /\ SyncInv
    /\ RemInv /\ ClosedInv /\ EndInv /\ BatchChain /\ TodoChain

WInv ==
    /\ TInv /\ DiskInv(fs) /\ OpeningInv /\ UpInv
    /\ WorkerSound => PipeInv

-----------------------------------------------------------------------------
(* Facts about the requests.                                               *)
LEMMA RequestFacts ==
    ASSUME NEW r \in WorkerRequest
    PROVE  /\ r.id \in Ids /\ r.id \in Nat /\ r.upto \in Nat
           /\ r.data \in Seq(Record) /\ Len(r.data) \in Nat
           /\ r.ids \in SUBSET Ids
           /\ r.kind \in {"none", "write", "append", "remove"}
<1>1. /\ r.id \in Ids /\ r.upto \in Nat /\ r.data \in Seq(Record)
      /\ r.ids \in SUBSET Ids
      /\ r.kind \in {"none", "write", "append", "remove"}
      BY DEF WorkerRequest
<1>2. r.id \in Nat
      BY <1>1, DiskAssumption DEF Ids
<1> QED BY <1>1, <1>2

LEMMA TodoFacts ==
    ASSUME TInv
    PROVE  /\ Todo \in Seq(WorkerRequest) /\ Len(Todo) \in Nat
           /\ Todo /= <<>> <=> Len(Todo) > 0
           /\ nonFlush = NoReq => Todo = queue
           /\ nonFlush /= NoReq =>
                 /\ Len(Todo) = Len(queue) + 1 /\ Todo[1] = nonFlush
                 /\ \A k \in 1..Len(queue) : Todo[k + 1] = queue[k]
           /\ \A k \in 1..Len(Todo) :
                 /\ Todo[k] \in WorkerRequest /\ Todo[k].kind /= "none"
                 /\ Todo[k].kind = "remove" => Todo[k].ids /= {}
<1>1. /\ queue \in Seq(WorkerRequest) /\ nonFlush \in WorkerRequest
      BY DEF TInv, TypeOK, WorkerType
<1>2. CASE nonFlush = NoReq
  <2>1. Todo = queue
        BY <1>2 DEF Todo
  <2>2. \A k \in 1..Len(queue) :
            /\ queue[k] \in WorkerRequest /\ queue[k].kind /= "none"
            /\ queue[k].kind = "remove" => queue[k].ids /= {}
        BY <1>1 DEF TInv, Requests
  <2>3. Len(queue) \in Nat /\ (queue /= <<>> <=> Len(queue) > 0)
        BY <1>1
  <2> QED BY <1>1, <1>2, <2>1, <2>2, <2>3
<1>3. CASE nonFlush /= NoReq
  <2>1. Todo = <<nonFlush>> \o queue
        BY <1>3 DEF Todo
  <2>2. /\ Todo \in Seq(WorkerRequest) /\ Len(Todo) = Len(queue) + 1
        /\ Todo[1] = nonFlush
        /\ \A k \in 1..Len(queue) : Todo[k + 1] = queue[k]
        BY <1>1, <2>1
  <2>3. \A k \in 1..Len(Todo) :
            k = 1 \/ (k - 1 \in 1..Len(queue) /\ Todo[k] = queue[k - 1])
    <3>1. ASSUME NEW k \in 1..Len(Todo), k /= 1
          PROVE  k - 1 \in 1..Len(queue) /\ Todo[k] = queue[k - 1]
      <4>1. k - 1 \in 1..Len(queue) /\ (k - 1) + 1 = k
            BY <1>1, <2>2, <3>1
      <4> QED BY <2>2, <4>1
    <3> QED BY <3>1
  <2>4. \A k \in 1..Len(Todo) :
            /\ Todo[k] \in WorkerRequest /\ Todo[k].kind /= "none"
            /\ Todo[k].kind = "remove" => Todo[k].ids /= {}
    <3>1. /\ nonFlush.kind \in {"append", "remove"}
          /\ nonFlush.kind = "remove" => nonFlush.ids /= {}
          /\ \A k \in 1..Len(queue) :
                /\ queue[k] \in WorkerRequest /\ queue[k].kind /= "none"
                /\ queue[k].kind = "remove" => queue[k].ids /= {}
          BY <1>1, <1>3 DEF TInv, Requests
    <3> QED BY <1>1, <2>2, <2>3, <3>1
  <2>5. Todo /= <<>> /\ Len(Todo) \in Nat /\ Len(Todo) > 0
        BY <1>1, <2>2
  <2> QED BY <1>3, <2>2, <2>4, <2>5
<1> QED BY <1>2, <1>3

(* A request is sent.                                                      *)
LEMMA TodoAppend ==
    ASSUME TInv, NEW req \in WorkerRequest, SendOk(req),
           UNCHANGED workVars
    PROVE  /\ Len(Todo') = Len(Todo) + 1 /\ Todo'[Len(Todo) + 1] = req
           /\ \A k \in 1..Len(Todo) : Todo'[k] = Todo[k]
           /\ 1..Len(Todo') = (1..Len(Todo)) \union {Len(Todo) + 1}
<1>1. /\ queue \in Seq(WorkerRequest) /\ nonFlush \in WorkerRequest
      /\ queue' = Append(queue, req) /\ nonFlush' = nonFlush
      BY DEF TInv, TypeOK, WorkerType, SendOk, workVars
<1>2. Todo \in Seq(WorkerRequest) /\ Len(Todo) \in Nat
      BY TodoFacts
<1>3. Todo' = Append(Todo, req)
  <2>1. CASE nonFlush = NoReq
        BY <1>1, <2>1 DEF Todo
  <2>2. CASE nonFlush /= NoReq
    <3>1. Todo = <<nonFlush>> \o queue
          /\ Todo' = <<nonFlush>> \o Append(queue, req)
          BY <1>1, <2>2 DEF Todo
    <3>2. /\ <<nonFlush>> \in Seq(WorkerRequest)
          /\ \A s, t \in Seq(WorkerRequest) :
                s \o Append(t, req) = Append(s \o t, req)
          BY <1>1
    <3> QED BY <1>1, <3>1, <3>2
  <2> QED BY <2>1, <2>2
<1>4. /\ Len(Todo') = Len(Todo) + 1 /\ Todo'[Len(Todo) + 1] = req
      /\ \A k \in 1..Len(Todo) : Todo'[k] = Todo[k]
      BY <1>2, <1>3
<1> QED BY <1>2, <1>4

(* The numbers that the invariant compares.                                *)
NumberFacts ==
    /\ Ids \subseteq Nat /\ open.id \in Nat /\ open.n \in Nat
    /\ Len(open.pending) \in Nat /\ Len(open.pending) <= open.n
    /\ OpenEnd = open.id + open.n /\ OpenEnd \in Nat
    /\ DiskType(fs, Record) /\ fs.names \in fs.images
    /\ \A dir \in fs.images : \A i \in dir : i \in Ids /\ i \in Nat
    /\ \A i \in fs.names : i \in Ids /\ i \in Nat
    /\ \A i \in Ids : i \in Nat /\ EndOf(fs, i) \in Nat
    /\ \A c \in closed : /\ c.id \in Nat /\ c.end \in Nat
                         /\ c.id \in Ids /\ c.id <= c.end
    /\ \A c, d \in closed : c.id = d.id /\ c.end = d.end => c = d
    /\ rx => LastFile \in Ids /\ LastFile \in Nat

LEMMA Numbers == TInv => NumberFacts
<1> SUFFICES ASSUME TInv PROVE NumberFacts
    OBVIOUS
<1>1. Ids \subseteq Nat
      BY DiskAssumption DEF Ids
<1>2. /\ open.id \in Nat /\ open.n \in Nat /\ OpenEnd = open.id + open.n
      /\ OpenEnd \in Nat /\ Len(open.pending) \in Nat
      /\ Len(open.pending) <= open.n
      BY OpenFacts DEF OpenEnd, TInv, Locals
<1>3. DiskType(fs, Record) /\ closed \subseteq [id : Ids, end : Nat]
      /\ \A c \in closed : c.id <= c.end
      BY RecFacts
<1>4. /\ fs.names \in fs.images /\ fs.names \subseteq Ids
      /\ \A dir \in fs.images : dir \subseteq Ids
      /\ \A i \in Ids : EndOf(fs, i) \in Nat
      BY <1>3, DiskFacts
<1>5. \A c \in closed : /\ c.id \in Nat /\ c.end \in Nat
                        /\ c.id \in Ids /\ c.id <= c.end
      BY <1>1, <1>3
<1>7. \A c, d \in closed : c.id = d.id /\ c.end = d.end => c = d
      BY <1>3
<1>6. rx => LastFile \in Ids
      BY LastFileType
<1> QED BY <1>1, <1>2, <1>3, <1>4, <1>5, <1>6, <1>7 DEF NumberFacts

LEMMA NumbersNext == TInv' => NumberFacts'
BY Numbers, PTL

-----------------------------------------------------------------------------
(* Steps that leave the requests where they are.                           *)

(* A file that did not get worse.                                          *)
Kept(d, e, i) ==
    /\ d.file[i] = NoFile => e.file[i] = NoFile
    /\ Whole(d, i) => Whole(e, i)
    /\ EndOf(e, i) = EndOf(d, i)
    /\ Used(e, i) => Used(d, i)

LEMMA SyncKeeps ==
    ASSUME NEW d, DiskType(d, Record), NEW i \in Ids, NEW k \in Ids
    PROVE  Kept(d, SyncFile(d, i), k)
<1> DEFINE e == SyncFile(d, i)
<1>1. /\ DiskType(e, Record) /\ e.file[i].data = d.file[i].data
      /\ e.file[i].synced = Len(d.file[i].data)
      /\ e.file[i].tail = d.file[i].tail
      /\ k /= i => e.file[k] = d.file[k]
      BY SyncFileFacts
<1> SUFFICES Kept(d, e, k)
    OBVIOUS
<1> HIDE DEF e
<1>2. CASE k /= i
      BY <1>1, <1>2, SameFile DEF Kept
<1>3. CASE k = i
  <2>1. d.file[i] = NoFile => e.file[i] = NoFile
    <3>1. e.file[i] \in File(Record)
          BY <1>1, DiskFacts
    <3>2. ASSUME d.file[i] = NoFile PROVE e.file[i] = NoFile
          BY <1>1, <3>1, <3>2 DEF NoFile, File
    <3> QED BY <3>2
  <2> QED BY <1>1, <1>3, <2>1 DEF Kept, Whole, EndOf, Used
<1> QED BY <1>2, <1>3

(* Opening is over.                                                        *)
LEMMA UpIsNotOpening == pc' \in UpPCs => OpeningInv'
BY DEF OpeningInv, TrimInv, ScanInv, CreateInv, Scanning, Creating, UpPCs

LEMMA WorkerFrame ==
    ASSUME TInv, TInv', rx, rx', PipeInv, UpInv,
           UNCHANGED <<pc, open, closed, rec>>, LastFile' = LastFile,
           Todo' = Todo, BatchPlace' = BatchPlace,
           fs'.names = fs.names, fs'.images \subseteq fs.images,
           \A dir \in fs'.images : \A i \in dir :
               i /= LastFile => Kept(fs, fs', i),
           HeadSynced => HeadSynced'
    PROVE  /\ OpeningInv' /\ UpInv'
           /\ FileInv' /\ MonoInv' /\ FreshInv' /\ SyncInv' /\ RemInv'
           /\ ClosedInv' /\ EndInv' /\ TodoChain'
<1> DEFINE K == LastFile
<1>1. /\ K \in Nat /\ K \in Ids /\ open.id \in Nat
      /\ \A dir \in fs'.images : \A i \in dir : i \in Nat /\ i \in Ids
      /\ fs.names \in fs'.images /\ pc \in UpPCs /\ K <= open.id
      BY Numbers, NumbersNext DEF NumberFacts, TInv, Control, PipeInv, MonoInv
<1>2. \A dir \in fs'.images : \A i \in dir : i /= K =>
          /\ EndOf(fs', i) = EndOf(fs, i) /\ (Used(fs', i) => Used(fs, i))
          /\ Whole(fs, i) => Whole(fs', i)
          /\ fs.file[i] = NoFile => fs'.file[i] = NoFile
      BY DEF Kept
<1>3. \A i \in fs.names : i /= K =>
          /\ EndOf(fs', i) = EndOf(fs, i) /\ (Used(fs', i) => Used(fs, i))
          /\ fs.file[i] = NoFile => fs'.file[i] = NoFile
      BY <1>1, <1>2
<1>4. OpeningInv'
      BY <1>1, UpIsNotOpening
<1>5. OpenEnd' = OpenEnd
      BY DEF OpenEnd
<1>6. UpInv'
  <2>1. ASSUME NEW dir \in fs'.images, NEW i \in dir, Used(fs', i)
        PROVE  i <= open.id
    <3>1. CASE i = K
          BY <1>1, <3>1
    <3>2. CASE i /= K
          BY <1>1, <1>2, <2>1, <3>2 DEF UpInv
    <3> QED BY <3>1, <3>2
  <2> QED BY <1>1, <1>5, <2>1 DEF UpInv
<1>7. FileInv'
  <2>1. ASSUME NEW dir \in fs'.images
        PROVE  /\ K \in dir /\ Below(fs', dir, K)
               /\ \A i \in dir : i > K => ~Used(fs', i)
    <3>1. /\ K \in dir /\ Below(fs, dir, K)
          /\ \A i \in dir : i > K => ~Used(fs, i)
          BY <2>1 DEF PipeInv, FileInv
    <3>2. \A i \in dir : i < K \/ i > K => i /= K
          BY <1>1
    <3>3. Below(fs', dir, K)
          BY <1>2, <3>1, <3>2, BelowKept
    <3> QED BY <1>2, <3>1, <3>2, <3>3
  <2> QED BY <2>1 DEF PipeInv, FileInv
<1>8. MonoInv'
      BY DEF PipeInv, MonoInv
<1>9. \A i : Pend(i)' <=> Pend(i)
      BY DEF Pend
<1>10. FreshInv'
  <2>1. \A i \in Ids : Pend(i)' => \A dir \in fs'.images : i \in dir
        BY <1>9 DEF PipeInv, FreshInv
  <2>2. ASSUME pc = "rot_append" \/ (\E i \in Ids : Pend(i)'),
               NEW dir \in fs'.images, NEW i \in dir, i > K
        PROVE  fs'.file[i] = NoFile
    <3>1. fs.file[i] = NoFile
          BY <1>9, <2>2 DEF PipeInv, FreshInv
    <3>2. i /= K
          BY <1>1, <2>2
    <3> QED BY <1>2, <3>1, <3>2
  <2>3. ASSUME NEW i \in fs.names, i > K
        PROVE  fs'.file[i] = NoFile
    <3>1. fs.file[i] = NoFile
          BY <2>3 DEF PipeInv, FreshInv
    <3>2. i /= K
          BY <1>1, <2>3
    <3> QED BY <1>3, <3>1, <3>2
  <2> QED BY <2>1, <2>2, <2>3 DEF FreshInv
<1>11. SyncInv'
      BY DEF PipeInv, SyncInv
<1>12. \A i : Real(i)' => Real(i)
      BY <1>3, <1>9 DEF Real
<1>13. RemInv'
      BY <1>12 DEF PipeInv, RemInv
<1>14. Full' = Full
      BY DEF Full
<1>15. ClosedInv'
      BY <1>14 DEF PipeInv, ClosedInv
<1>16. \A k : PlaceBefore(k)' = PlaceBefore(k)
      BY DEF PlaceBefore
<1>17. EndInv'
  <2>1. ASSUME NEW c \in Full, c.id < K, EndOf(fs, c.id) = c.end
        PROVE  EndOf(fs', c.id) = c.end
    <3>1. c.id \in fs.names /\ c.id /= K
          BY <1>1, <2>1 DEF PipeInv, ClosedInv
    <3> QED BY <1>3, <2>1, <3>1
  <2> QED BY <1>14, <1>16, <2>1 DEF PipeInv, EndInv
<1>18. TodoChain'
      BY <1>5, <1>16 DEF PipeInv, TodoChain
<1> QED BY <1>4, <1>6, <1>7, <1>8, <1>10, <1>11, <1>13, <1>15, <1>17, <1>18

(* The invariant of a worker that has not failed.                          *)
LEMMA SoundFacts ==
    ASSUME WInv, wpc \in {"recv", "write", "sync", "nonflush", "rmsync"}
    PROVE  /\ WorkerSound /\ PipeInv /\ rx /\ pc \in UpPCs /\ result = "ok"
           /\ LastFile \in fs.names /\ LastFile \in Ids
<1>1. rx /\ pc \in UpPCs /\ result = "ok" /\ WorkerSound
      BY DEF WInv, TInv, TypeOK, WorkerType, Control, WorkerSound
<1>2. PipeInv
      BY <1>1 DEF WInv
<1>3. LastFile \in Ids /\ fs.names \in fs.images
      BY <1>1, Numbers DEF WInv, NumberFacts
<1>4. LastFile \in fs.names
      BY <1>2, <1>3 DEF PipeInv, FileInv
<1> QED BY <1>1, <1>2, <1>3, <1>4

(* A step after which the worker has failed or is gone.                    *)
LEMMA UnsoundStep ==
    ASSUME WInv, TInv', ~WorkerSound', DiskInv(fs'),
           UNCHANGED <<pc, open, closed, rec>>, pc \in UpPCs,
           fs'.names = fs.names, fs'.images = fs.images,
           \A dir \in fs'.images : \A i \in dir :
               Used(fs', i) => Used(fs, i) \/ i <= open.id
    PROVE  WInv'
<1>1. OpeningInv'
      BY UpIsNotOpening
<1>2. UpInv'
  <2>1. \A dir \in fs'.images : \A i \in dir : Used(fs', i) => i <= open.id
        BY DEF WInv, UpInv
  <2> QED BY <2>1 DEF WInv, UpInv, OpenEnd
<1> QED BY <1>1, <1>2 DEF WInv

(* What a write to the last file needs, and keeps.                         *)
LEMMA WriteKeeps ==
    ASSUME WInv, wpc = "write", NEW recs \in Seq(Record), NEW tail \in Tails
    PROVE  LET e == WriteFile(fs, LastFile, recs, tail) IN
           /\ DiskInv(e) /\ DiskType(e, Record)
           /\ e.names = fs.names /\ e.images = fs.images
           /\ EndOf(e, LastFile) = EndOf(fs, LastFile) + Len(recs)
           /\ e.file[LastFile].tail = tail
           /\ \A i \in Ids : i /= LastFile => Kept(fs, e, i)
<1> DEFINE e == WriteFile(fs, LastFile, recs, tail)
<1>1. DiskType(fs, Record) /\ DiskInv(fs) /\ LastFile \in fs.names
      /\ LastFile \in Ids /\ PipeInv
      BY SoundFacts, Numbers DEF WInv, NumberFacts
<1>2. /\ DiskType(e, Record) /\ e.names = fs.names /\ e.images = fs.images
      /\ e.file[LastFile].data = fs.file[LastFile].data \o recs
      /\ e.file[LastFile].tail = tail
      /\ \A i \in Ids \ {LastFile} : e.file[i] = fs.file[i]
      BY <1>1, WriteFileFacts
<1>3. DiskInv(e)
  <2>1. \A dir \in fs.images :
            /\ LastFile \in dir /\ Below(fs, dir, LastFile)
            /\ \A j \in dir : LastFile < j => ~Used(fs, j)
    <3>1. \A dir \in fs.images : \A j \in dir : LastFile < j <=> j > LastFile
          OBVIOUS
    <3> QED BY <1>1, <3>1 DEF PipeInv, FileInv
  <2> QED BY <1>1, <2>1, WriteKeepsRule
<1> HIDE DEF e
<1>4. EndOf(e, LastFile) = EndOf(fs, LastFile) + Len(recs)
  <2>1. fs.file[LastFile].data \in Seq(Record) /\ LastFile \in Nat
        BY <1>1, DiskFacts, Numbers DEF WInv, NumberFacts
  <2>2. Len(fs.file[LastFile].data \o recs) =
            Len(fs.file[LastFile].data) + Len(recs)
        BY <2>1
  <2> QED BY <1>2, <2>1, <2>2 DEF EndOf
<1>5. \A i \in Ids : i /= LastFile => Kept(fs, e, i)
      BY <1>2, SameFile DEF Kept
<1> QED BY <1>2, <1>3, <1>4, <1>5 DEF e

LEMMA WriteBatchKeeps == ASSUME WInv, WriteBatch PROVE WInv'
<1> DEFINE r == batch[wrote + 1]
<1>1. /\ wpc = "write" /\ fs' = WriteFile(fs, LastFile, NextData, "none")
      /\ UNCHANGED <<pc, open, closed, rec, files, batch, nonFlush, queue, rx,
                     result>>
      BY DEF WriteBatch, mainVars, chanVars
<1>2. /\ PipeInv /\ rx /\ LastFile \in Ids /\ LastFile \in Nat /\ pc \in UpPCs
      /\ UpInv /\ TInv /\ DiskType(fs, Record)
      BY <1>1, SoundFacts, Numbers DEF WInv, NumberFacts
<1>3. TInv'
      BY <1>2, WriteTypes
<1>4. /\ wrote + 1 \in 1..Len(batch) /\ r \in WorkerRequest
      /\ NextData \in Seq(Record) /\ NextData = r.data
      /\ r.kind = "write" /\ Len(batch) \in Nat /\ wrote \in Nat
      BY <1>1, <1>2, BatchFacts
      DEF NextData, TInv, TypeOK, WorkerType, Requests
<1>5. /\ DiskInv(fs') /\ fs'.names = fs.names /\ fs'.images = fs.images
      /\ EndOf(fs', LastFile) = EndOf(fs, LastFile) + Len(r.data)
      /\ fs'.file[LastFile].tail = "none"
      /\ \A i \in Ids : i /= LastFile => Kept(fs, fs', i)
  <2>1. "none" \in Tails
        BY DEF Tails
  <2> QED BY <1>1, <1>4, <2>1, WriteKeeps
<1>6. LastFile' = LastFile /\ Todo' = Todo
      BY <1>1 DEF LastFile, Todo
<1>7. FilePlace' = PlaceOf(r)
  <2>1. PlaceOf(r) = Place(LastFile, EndOf(fs, LastFile) + Len(r.data))
        BY <1>1, <1>2, <1>4
        DEF PipeInv, BatchChain, Follows, FilePlace, Place, PlaceOf
  <2> QED BY <1>5, <1>6, <2>1 DEF FilePlace, Place
<1>8. Last(batch) = batch[Len(batch)] /\ Last(batch)' = Last(batch)
      BY <1>1 DEF Last
<1>9. CASE wrote + 1 < Len(batch)
  <2>1. wpc' = "write" /\ wrote' = wrote + 1
        BY <1>1, <1>4, <1>9 DEF WriteBatch
  <2>2. BatchPlace' = BatchPlace /\ (HeadSynced => HeadSynced')
        BY <1>1, <1>8, <2>1 DEF BatchPlace, HeadSynced, PlaceOf, Place
  <2>3. BatchChain'
    <3>1. \A k \in (wrote + 2)..Len(batch) :
              Follows(batch[k], PlaceOf(batch[k - 1]))
          BY <1>1, <1>2 DEF PipeInv, BatchChain
    <3>2. wrote + 2 \in (wrote + 2)..Len(batch) /\ (wrote + 2) - 1 = wrote + 1
          BY <1>4, <1>9
    <3>3. Follows(batch[wrote + 2], FilePlace')
          BY <1>7, <3>1, <3>2
    <3>4. \A k \in (wrote + 3)..Len(batch) : k \in (wrote + 2)..Len(batch)
          BY <1>4
    <3>5. wrote' + 1 = wrote + 2 /\ wrote' + 2 = wrote + 3
          BY <1>4, <2>1
    <3> QED BY <1>1, <3>1, <3>3, <3>4, <3>5 DEF BatchChain, Follows, PlaceOf
  <2>4. BatchInv'
        BY <1>1, <1>2, <1>6, <2>1 DEF PipeInv, BatchInv
  <2>5. \A dir \in fs'.images : \A i \in dir :
            i /= LastFile => Kept(fs, fs', i)
        BY <1>2, <1>5, Numbers DEF NumberFacts
  <2>6. rx' /\ fs'.images \subseteq fs.images
        BY <1>1, <1>2, <1>5
  <2> QED BY <1>1, <1>2, <1>3, <1>5, <1>6, <2>2, <2>3, <2>4, <2>5, <2>6,
             WorkerFrame DEF WInv, PipeInv
<1>10. CASE wrote + 1 = Len(batch)
  <2>1. wpc' = IF NeedSync THEN "sync" ELSE "callbacks"
        BY <1>1, <1>4, <1>10 DEF WriteBatch
  <2>2. BatchPlace' = BatchPlace
        BY <1>1, <1>7, <1>8, <1>10, <2>1 DEF BatchPlace
  <2>3. HeadSynced => HeadSynced'
    <3>1. Last(batch).sync => NeedSync
          BY <1>4, <1>8, <1>10 DEF NeedSync
    <3> QED BY <1>1, <1>8, <2>1, <3>1 DEF HeadSynced
  <2>4. BatchChain'
        BY <2>1 DEF BatchChain
  <2>5. BatchInv'
        BY <1>1, <1>2, <1>5, <1>6, <2>1 DEF PipeInv, BatchInv
  <2>6. \A dir \in fs'.images : \A i \in dir :
            i /= LastFile => Kept(fs, fs', i)
        BY <1>2, <1>5, Numbers DEF NumberFacts
  <2>7. rx' /\ fs'.images \subseteq fs.images
        BY <1>1, <1>2, <1>5
  <2> QED BY <1>1, <1>2, <1>3, <1>5, <1>6, <2>2, <2>3, <2>4, <2>5, <2>6, <2>7,
             WorkerFrame DEF WInv, PipeInv
<1> QED BY <1>1, <1>4, <1>9, <1>10

LEMMA WriteBatchErrKeeps == ASSUME WInv, WriteBatchErr PROVE WInv'
<1>1. /\ wpc = "write" /\ result' = "err"
      /\ UNCHANGED <<pc, open, closed, rec>>
      BY DEF WriteBatchErr, mainVars
<1>2. /\ PipeInv /\ LastFile <= open.id /\ pc \in UpPCs /\ TInv
      BY <1>1, SoundFacts DEF WInv, PipeInv, MonoInv
<1>3. TInv'
      BY <1>2, WriteTypes
<1>4. PICK k \in 0..(Len(NextData) - 1), tail \in {"none", "short"} :
          fs' = WriteFile(fs, LastFile, SubSeq(NextData, 1, k), tail)
      BY DEF WriteBatchErr
<1>5. SubSeq(NextData, 1, k) \in Seq(Record) /\ tail \in Tails
      BY <1>1, <1>2, BatchFacts, SubSeqType DEF Tails
<1>6. /\ DiskInv(fs') /\ fs'.names = fs.names /\ fs'.images = fs.images
      /\ \A i \in Ids : i /= LastFile => Kept(fs, fs', i)
      BY <1>1, <1>4, <1>5, WriteKeeps
<1>7. \A dir \in fs'.images : \A i \in dir :
          Used(fs', i) => Used(fs, i) \/ i <= open.id
      BY <1>2, <1>6, Numbers DEF Kept, NumberFacts
<1>8. ~WorkerSound'
      BY <1>1 DEF WorkerSound
<1> QED BY <1>1, <1>2, <1>3, <1>6, <1>7, <1>8, UnsoundStep

LEMMA SyncKeepsPipe ==
    ASSUME WInv, SyncOldFile \/ SyncLastFile PROVE WInv'
<1>1. /\ wpc = "sync"
      /\ UNCHANGED <<pc, open, closed, rec, batch, wrote, nonFlush, queue, rx,
                     result>>
      BY DEF SyncOldFile, SyncLastFile, mainVars, chanVars
<1>2. /\ PipeInv /\ rx /\ LastFile \in Ids /\ UpInv /\ TInv
      /\ DiskType(fs, Record) /\ DiskInv(fs)
      BY <1>1, SoundFacts, Numbers DEF WInv, NumberFacts
<1>3. TInv'
      BY <1>2, SyncTypes
<1>4. files \in Seq(Ids) /\ Len(files) \in Nat \ {0}
      BY <1>2, LastFileType DEF TInv, TypeOK, WorkerType
<1>5. PICK i \in Ids : fs' = SyncFile(fs, i)
  <2>1. CASE SyncOldFile
    <3>1. Head(files) \in Ids
          BY <1>4
    <3> QED BY <2>1, <3>1 DEF SyncOldFile
  <2>2. CASE SyncLastFile
        BY <1>2, <2>2 DEF SyncLastFile
  <2> QED BY <2>1, <2>2
<1>6. /\ fs'.names = fs.names /\ fs'.images = fs.images
      /\ fs'.file[LastFile].tail = fs.file[LastFile].tail
      BY <1>2, <1>5, SyncFileFacts
<1>7. DiskInv(fs') /\ \A k \in Ids : Kept(fs, fs', k)
      BY <1>2, <1>5, SyncKeeps, RepairKeepsRule
<1>8. LastFile' = LastFile
  <2>1. CASE SyncOldFile
    <3>1. files' = Tail(files) /\ Len(files) > 1
          BY <2>1 DEF SyncOldFile
    <3>2. /\ Len(Tail(files)) = Len(files) - 1
          /\ Tail(files)[Len(files) - 1] = files[Len(files)]
          BY <1>4, <3>1
    <3> QED BY <3>1, <3>2 DEF LastFile, Last
  <2>2. CASE SyncLastFile
        BY <2>2 DEF SyncLastFile, LastFile
  <2> QED BY <2>1, <2>2
<1>9. Todo' = Todo /\ Last(batch)' = Last(batch)
      BY <1>1 DEF Todo, Last
<1>10. wpc' \in {"sync", "callbacks"}
      BY <1>1 DEF SyncOldFile, SyncLastFile
<1>11. BatchPlace' = BatchPlace
      BY <1>1, <1>2, <1>7, <1>8, <1>10 DEF BatchPlace, FilePlace, Kept
<1>12. HeadSynced => HeadSynced'
  <2>1. CASE SyncOldFile
        BY <1>1, <1>9, <2>1 DEF SyncOldFile, HeadSynced
  <2>2. CASE SyncLastFile
    <3>1. fs' = SyncFile(fs, LastFile) /\ wpc' = "callbacks"
          BY <2>2 DEF SyncLastFile
    <3>2. /\ fs'.file[LastFile].data = fs.file[LastFile].data
          /\ fs'.file[LastFile].synced = Len(fs.file[LastFile].data)
          BY <1>2, <3>1, SyncFileFacts
    <3>3. Whole(fs', LastFile)
          BY <1>1, <1>2, <1>6, <3>2 DEF Whole, PipeInv, BatchInv
    <3> QED BY <1>8, <3>1, <3>3 DEF HeadSynced
  <2> QED BY <2>1, <2>2
<1>13. BatchInv' /\ BatchChain'
      BY <1>1, <1>2, <1>6, <1>8, <1>10 DEF PipeInv, BatchInv, BatchChain
<1>14. \A dir \in fs'.images : \A k \in dir :
          k /= LastFile => Kept(fs, fs', k)
      BY <1>2, <1>6, <1>7, Numbers DEF NumberFacts
<1>15. rx' /\ fs'.images \subseteq fs.images
      BY <1>1, <1>2, <1>6
<1> QED BY <1>1, <1>2, <1>3, <1>6, <1>7, <1>8, <1>9, <1>11, <1>12, <1>13,
           <1>14, <1>15, WorkerFrame DEF WInv, PipeInv

(* Steps that do not touch a file and end the worker's work.               *)
LEMMA EndKeeps ==
    ASSUME WInv,
           \/ SyncErr \/ CallbackPanic \/ RecvClosed \/ RemoveErr
           \/ WorkerExit \/ (Callbacks /\ result /= "ok")
    PROVE  WInv'
<1>1. fs' = fs /\ UNCHANGED <<pc, open, closed, rec>>
      BY DEF SyncErr, CallbackPanic, RecvClosed, RemoveErr, WorkerExit,
             Callbacks, mainVars
<1>2. ~WorkerSound'
      BY DEF SyncErr, CallbackPanic, RecvClosed, RemoveErr, WorkerExit,
             Callbacks, WorkerSound
<1>3. TInv'
      BY SyncTypes, CallbacksTypes, ExitTypes, RemoveTypes DEF WInv
<1>4. pc \in UpPCs
  <2>1. wpc \notin {"none", "done", "dead"}
        BY DEF SyncErr, CallbackPanic, RecvClosed, RemoveErr, WorkerExit,
               Callbacks
  <2> QED BY <2>1 DEF WInv, TInv, Control
<1> QED BY <1>1, <1>2, <1>3, <1>4, UnsoundStep DEF WInv

LEMMA CallbacksKeeps ==
    ASSUME WInv, Callbacks, result = "ok" PROVE WInv'
<1>1. /\ wpc = "callbacks" /\ wpc' \in {"recv", "nonflush"} /\ fs' = fs
      /\ batch' = <<>>
      /\ UNCHANGED <<pc, open, closed, rec, files, nonFlush, queue, rx>>
      BY DEF Callbacks, mainVars, chanVars
<1>2. rx /\ WorkerSound
      BY <1>1 DEF WInv, TInv, Control, WorkerSound
<1>3. PipeInv /\ TInv /\ UpInv /\ DiskInv(fs)
      BY <1>2 DEF WInv
<1>4. TInv'
      BY <1>3, CallbacksTypes
<1>5. LastFile' = LastFile /\ Todo' = Todo
      BY <1>1 DEF LastFile, Todo
<1>6. BatchPlace' = BatchPlace
      BY <1>1, <1>5 DEF BatchPlace, FilePlace
<1>7. HeadSynced => HeadSynced'
      BY <1>1, <1>5 DEF HeadSynced
<1>8. BatchInv' /\ BatchChain'
  <2>1. 1..Len(batch') = {}
        BY <1>1
  <2> QED BY <1>1, <2>1 DEF BatchInv, BatchChain
<1>9. \A i : Kept(fs, fs', i)
      BY <1>1 DEF Kept
<1> QED BY <1>1, <1>2, <1>3, <1>4, <1>5, <1>6, <1>7, <1>8, <1>9, WorkerFrame
        DEF WInv, PipeInv

LEMMA RemoveSyncKeeps == ASSUME WInv, RemoveSync PROVE WInv'
<1>1. /\ wpc = "rmsync" /\ wpc' = "recv" /\ fs' = SyncDir(fs)
      /\ UNCHANGED <<pc, open, closed, rec, files, batch, nonFlush, queue, rx>>
      BY DEF RemoveSync, mainVars, chanVars
<1>2. PipeInv /\ TInv /\ UpInv /\ DiskInv(fs) /\ rx /\ DiskType(fs, Record)
      /\ LastFile \in fs.names /\ fs.names \in fs.images
      BY <1>1, SoundFacts, Numbers DEF WInv, NumberFacts
<1>3. TInv'
      BY <1>2, RemoveTypes
<1>4. /\ fs'.names = fs.names /\ fs'.images = {fs.names}
      /\ \A k \in fs.names : fs'.file[k] = fs.file[k]
      BY <1>1, <1>2, SyncDirFacts
<1>5. DiskInv(fs')
      BY <1>1, <1>2, SyncDirKeepsRule
<1>6. LastFile' = LastFile /\ Todo' = Todo
      BY <1>1 DEF LastFile, Todo
<1>7. \A k \in fs.names : Kept(fs, fs', k)
      BY <1>4, SameFile DEF Kept
<1>8. BatchPlace' = BatchPlace
      BY <1>1, <1>2, <1>6, <1>7 DEF BatchPlace, FilePlace, Kept
<1>9. HeadSynced => HeadSynced'
      BY <1>1 DEF HeadSynced
<1>10. BatchInv' /\ BatchChain'
      BY <1>1, <1>2, <1>6 DEF PipeInv, BatchInv, BatchChain
<1>11. rx' /\ fs'.images \subseteq fs.images
      BY <1>1, <1>2, <1>4
<1> QED BY <1>1, <1>2, <1>3, <1>4, <1>5, <1>6, <1>7, <1>8, <1>9, <1>10,
           <1>11, WorkerFrame DEF WInv, PipeInv

-----------------------------------------------------------------------------
(* Steps that take requests.                                               *)
LEMMA TodoFactsNext ==
    ASSUME TInv'
    PROVE  Todo' \in Seq(WorkerRequest) /\ Len(Todo') \in Nat
<1>1. queue' \in Seq(WorkerRequest) /\ nonFlush' \in WorkerRequest
      BY DEF TInv, TypeOK, WorkerType
<1>2. <<nonFlush'>> \in Seq(WorkerRequest)
      BY <1>1
<1>3. <<nonFlush'>> \o queue' \in Seq(WorkerRequest)
      BY <1>1, <1>2
<1>4. Todo' \in Seq(WorkerRequest)
      BY <1>1, <1>3 DEF Todo
<1> QED BY <1>4

(* The first n requests are taken; what follows them is as it was.         *)
LEMMA ShiftFrame ==
    ASSUME TInv, TInv', rx, rx', PipeInv,
           NEW n \in 1..Len(Todo), Len(Todo') = Len(Todo) - n,
           \A k \in 1..Len(Todo') :
               Todo'[k] = Todo[k + n] /\ After(LastFile', Todo[k + n]),
           BatchPlace' = PlaceBefore(n + 1),
           UNCHANGED <<pc, open, closed, rec>>,
           fs'.names \subseteq fs.names,
           \A k \in 1..n : \A i \in fs'.names : i \notin Todo[k].ids,
           \A i \in fs'.names : Real(i)' => Real(i),
           \A c \in Full : c.id \in fs'.names,
           LastFile <= LastFile', LastFile' <= open.id,
           \A i \in Ids : EndOf(fs', i) = EndOf(fs, i),
           \A c \in Full : \A k \in 1..n :
               IsAppend(Todo[k]) /\ PlaceBefore(k) = Place(c.id, c.end) =>
                   c.id < LastFile' /\ EndOf(fs', c.id) = c.end
    PROVE  /\ MonoInv' /\ RemInv' /\ ClosedInv' /\ EndInv' /\ TodoChain'
           /\ \A k \in 2..Len(Todo') :
                 IsAppend(Todo'[k]) => SyncWrite(Todo'[k - 1])
           /\ \A i : Pend(i)' => Pend(i)
<1>1. /\ n \in Nat /\ Len(Todo) \in Nat /\ Len(Todo') \in Nat
      /\ n <= Len(Todo) /\ n >= 1
      BY TodoFacts, TodoFactsNext
<1>2. \A k \in 1..Len(Todo') : k + n \in 1..Len(Todo) /\ k \in Nat
      BY <1>1
<1>3. \A k \in 1..Len(Todo) : k \in 1..n \/ (k - n \in 1..Len(Todo')
                                             /\ (k - n) + n = k /\ k \in Nat)
      BY <1>1
<1>4. \A i : Pend(i)' => Pend(i)
      BY <1>2 DEF Pend
<1>5. \A k \in 1..(Len(Todo') + 1) : PlaceBefore(k)' = PlaceBefore(k + n)
  <2>1. ASSUME NEW k \in 1..(Len(Todo') + 1)
        PROVE  PlaceBefore(k)' = PlaceBefore(k + n)
    <3>1. CASE k = 1
      <4>1. PlaceBefore(k)' = BatchPlace' /\ k + n = n + 1
            BY <1>1, <3>1 DEF PlaceBefore
      <4> QED BY <4>1
    <3>2. CASE k /= 1
      <4>1. /\ k - 1 \in 1..Len(Todo') /\ (k - 1) + n = (k + n) - 1
            /\ k + n /= 1
            BY <1>1, <2>1, <3>2
      <4>2. Todo'[k - 1] = Todo[(k + n) - 1]
            BY <4>1
      <4>3. /\ PlaceBefore(k)' = PlaceOf(Todo'[k - 1])
            /\ PlaceBefore(k + n) = PlaceOf(Todo[(k + n) - 1])
            BY <3>2, <4>1 DEF PlaceBefore, PlaceOf
      <4> QED BY <4>2, <4>3
    <3> QED BY <3>1, <3>2
  <2> QED BY <2>1
<1>6. MonoInv'
  <2>1. \A k \in 1..Len(Todo') :
            /\ After(LastFile', Todo'[k]) /\ Grows(Todo'[k])
            /\ Todo'[k].id <= open.id
            /\ Todo'[k].kind = "remove" \/ Todo'[k].ids = {}
        BY <1>2 DEF PipeInv, MonoInv
  <2>2. ASSUME NEW k \in 1..Len(Todo'), NEW m \in 1..Len(Todo'), k < m
        PROVE  After(Todo'[k].id, Todo'[m])
    <3>1. /\ k + n \in 1..Len(Todo) /\ m + n \in 1..Len(Todo)
          /\ k + n < m + n
          BY <1>1, <1>2, <2>2
    <3> QED BY <3>1 DEF PipeInv, MonoInv
  <2> QED BY <2>1, <2>2 DEF MonoInv
<1>7. RemInv'
  <2>1. ASSUME NEW k \in 1..Len(Todo'), NEW x \in Todo'[k].ids
        PROVE  /\ x < Todo'[k].id
               /\ \A i \in fs'.names : Real(i)' /\ i < x =>
                     \E m \in 1..k : i \in Todo'[m].ids
    <3>1. k + n \in 1..Len(Todo) /\ x \in Todo[k + n].ids
          BY <1>2, <2>1
    <3>2. x < Todo'[k].id
          BY <3>1 DEF PipeInv, RemInv
    <3>3. ASSUME NEW i \in fs'.names, Real(i)', i < x
          PROVE  \E m \in 1..k : i \in Todo'[m].ids
      <4>1. PICK m \in 1..(k + n) : i \in Todo[m].ids
            BY <3>1, <3>3 DEF PipeInv, RemInv
      <4>2. m \in 1..Len(Todo) /\ m \notin 1..n
            BY <1>1, <3>1, <3>3, <4>1
      <4>3. m - n \in 1..k /\ m - n \in 1..Len(Todo') /\ (m - n) + n = m
            BY <1>1, <1>3, <4>1, <4>2
      <4> QED BY <4>1, <4>3
    <3> QED BY <3>2, <3>3
  <2>2. ASSUME NEW i \in fs'.names, Real(i)', i < open.id
        PROVE  \/ \E m \in 1..Len(Todo') : i \in Todo'[m].ids
               \/ \E c \in closed : c.id = i
               \/ pc = "rot_cp" /\ i = rec.prev
    <3>1. \/ \E m \in 1..Len(Todo) : i \in Todo[m].ids
          \/ \E c \in closed : c.id = i
          \/ pc = "rot_cp" /\ i = rec.prev
          BY <2>2 DEF PipeInv, RemInv
    <3>2. ASSUME NEW m \in 1..Len(Todo), i \in Todo[m].ids
          PROVE  \E j \in 1..Len(Todo') : i \in Todo'[j].ids
      <4>1. m - n \in 1..Len(Todo') /\ (m - n) + n = m
            BY <1>3, <2>2, <3>2
      <4> QED BY <3>2, <4>1
    <3> QED BY <3>1, <3>2
  <2> QED BY <2>1, <2>2 DEF RemInv
<1>8. Full' = Full
      BY DEF Full
<1>9. ClosedInv'
      BY <1>2, <1>8 DEF PipeInv, ClosedInv
<1>10. EndInv'
  <2>1. ASSUME NEW c \in Full
        PROVE  \/ c.id < LastFile' /\ EndOf(fs', c.id) = c.end
               \/ \E k \in 1..Len(Todo') :
                     /\ IsAppend(Todo'[k])
                     /\ PlaceBefore(k)' = Place(c.id, c.end)
    <3>1. CASE c.id < LastFile /\ EndOf(fs, c.id) = c.end
      <4>1. c.id \in Nat /\ c.id \in Ids /\ LastFile \in Nat
            /\ LastFile' \in Nat
            BY Numbers, NumbersNext DEF NumberFacts
      <4> QED BY <3>1, <4>1
    <3>2. ASSUME NEW k \in 1..Len(Todo), IsAppend(Todo[k]),
                 PlaceBefore(k) = Place(c.id, c.end)
          PROVE  \/ c.id < LastFile' /\ EndOf(fs', c.id) = c.end
                 \/ \E j \in 1..Len(Todo') :
                       /\ IsAppend(Todo'[j])
                       /\ PlaceBefore(j)' = Place(c.id, c.end)
      <4>1. CASE k \in 1..n
            BY <3>2, <4>1
      <4>2. CASE k \notin 1..n
        <5>1. /\ k - n \in 1..Len(Todo') /\ (k - n) + n = k
              /\ k - n \in 1..(Len(Todo') + 1)
              BY <1>1, <1>3, <4>2
        <5>2. Todo'[k - n] = Todo[k] /\ PlaceBefore(k - n)' = PlaceBefore(k)
              BY <1>5, <5>1
        <5> QED BY <3>2, <5>1, <5>2
      <4> QED BY <4>1, <4>2
    <3> QED BY <3>1, <3>2 DEF PipeInv, EndInv
  <2> QED BY <1>8, <2>1 DEF EndInv
<1>11. TodoChain'
  <2>1. ASSUME NEW k \in 1..Len(Todo')
        PROVE  Follows(Todo'[k], PlaceBefore(k)')
    <3>1. k + n \in 1..Len(Todo) /\ k \in 1..(Len(Todo') + 1)
          BY <1>1, <1>2
    <3>2. Follows(Todo[k + n], PlaceBefore(k + n))
          BY <3>1 DEF PipeInv, TodoChain
    <3> QED BY <1>5, <3>1, <3>2
  <2>2. (PlaceBefore(Len(Todo) + 1))' = PlaceBefore(Len(Todo) + 1)
    <3>0. Len(Todo') + 1 \in 1..(Len(Todo') + 1)
          BY <1>1
    <3>1. PICK m \in 1..(Len(Todo') + 1) : m = Len(Todo') + 1
          BY <3>0
    <3>2. m + n = Len(Todo) + 1
          BY <1>1, <3>1
    <3>3. (PlaceBefore(Len(Todo) + 1))' = PlaceBefore(m)'
          BY <3>1 DEF PlaceBefore
    <3> QED BY <1>5, <3>2, <3>3
  <2>3. Place(open.id, OpenEnd - Len(open.pending))' =
            Place(open.id, OpenEnd - Len(open.pending))
        BY DEF Place, OpenEnd
  <2>4. PlaceBefore(Len(Todo) + 1) =
            Place(open.id, OpenEnd - Len(open.pending))
        BY DEF PipeInv, TodoChain
  <2> QED BY <2>1, <2>2, <2>3, <2>4 DEF TodoChain, Follows
<1>12. \A k \in 2..Len(Todo') :
          IsAppend(Todo'[k]) => SyncWrite(Todo'[k - 1])
  <2>1. ASSUME NEW k \in 2..Len(Todo'), IsAppend(Todo'[k])
        PROVE  SyncWrite(Todo'[k - 1])
    <3>1. /\ k \in 1..Len(Todo') /\ k - 1 \in 1..Len(Todo')
          /\ k + n \in 2..Len(Todo) /\ (k + n) - 1 = (k - 1) + n
          BY <1>1
    <3>2. Todo'[k] = Todo[k + n] /\ Todo'[k - 1] = Todo[(k + n) - 1]
          BY <3>1
    <3> QED BY <2>1, <3>1, <3>2 DEF PipeInv, SyncInv
  <2> QED BY <2>1
<1> QED BY <1>4, <1>6, <1>7, <1>9, <1>10, <1>11, <1>12

LEMMA TakeNonFlushKeeps ==
    ASSUME WInv, Recv, TakeNonFlush PROVE WInv'
<1>1. /\ wpc = "recv" /\ wpc' = "nonflush" /\ fs' = fs /\ queue /= <<>>
      /\ batch' = <<>> /\ nonFlush' = Head(queue) /\ queue' = Tail(queue)
      /\ UNCHANGED <<pc, open, closed, rec, files, rx>>
      BY DEF Recv, TakeNonFlush, mainVars
<1>2. PipeInv /\ TInv /\ UpInv /\ DiskInv(fs) /\ rx
      BY <1>1, SoundFacts DEF WInv
<1>3. TInv'
      BY <1>2, RecvTypes
<1>4. LastFile' = LastFile
      BY <1>1 DEF LastFile
<1>5. Todo' = Todo
  <2>1. /\ nonFlush = NoReq /\ queue \in Seq(WorkerRequest)
        /\ queue[1].kind /= "none" /\ Head(queue) = queue[1]
        BY <1>1, <1>2 DEF TInv, TypeOK, WorkerType, Requests
  <2>2. nonFlush' /= NoReq
        BY <1>1, <2>1, NoReqType
  <2>3. <<Head(queue)>> \o Tail(queue) = queue
        BY <1>1, <2>1
  <2> QED BY <1>1, <2>1, <2>2, <2>3 DEF Todo
<1>6. BatchPlace' = BatchPlace
      BY <1>1, <1>4 DEF BatchPlace, FilePlace
<1>7. HeadSynced => HeadSynced'
      BY <1>1, <1>4 DEF HeadSynced
<1>8. BatchInv' /\ BatchChain'
  <2>1. 1..Len(batch') = {}
        BY <1>1
  <2> QED BY <1>1, <2>1 DEF BatchInv, BatchChain
<1>9. \A i : Kept(fs, fs', i)
      BY <1>1 DEF Kept
<1> QED BY <1>1, <1>2, <1>3, <1>4, <1>5, <1>6, <1>7, <1>8, <1>9, WorkerFrame
        DEF WInv, PipeInv

(* The writes at the front of the queue are for the worker's last file.    *)
LEMMA FrontWrites ==
    ASSUME TInv, PipeInv, rx, wpc = "recv", NEW n \in 0..Len(Todo),
           \A k \in 1..n : Todo[k].kind = "write"
    PROVE  \A k \in 1..n : Todo[k].id = LastFile
<1> DEFINE S == {j \in Nat : j \in 1..n => Todo[j].id = LastFile}
<1>1. n \in Nat /\ Len(Todo) \in Nat
      BY TodoFacts
<1>2. 0 \in S
      OBVIOUS
<1>3. ASSUME NEW j \in Nat, j \in S PROVE j + 1 \in S
  <2>1. ASSUME j + 1 \in 1..n PROVE Todo[j + 1].id = LastFile
    <3>1. j + 1 \in 1..Len(Todo) /\ j < n /\ Todo[j + 1].kind = "write"
          BY <1>1, <2>1
    <3>2. Follows(Todo[j + 1], PlaceBefore(j + 1))
          BY <3>1 DEF PipeInv, TodoChain
    <3>3. Todo[j + 1].id = PlaceBefore(j + 1).id
          BY <3>1, <3>2 DEF Follows, PlaceOf, Place
    <3>4. PlaceBefore(j + 1).id = LastFile
      <4>1. CASE j = 0
            BY <4>1 DEF PlaceBefore, BatchPlace, FilePlace, Place
      <4>2. CASE j /= 0
        <5>1. j \in 1..n /\ j + 1 /= 1 /\ (j + 1) - 1 = j
              BY <1>1, <3>1, <4>2
        <5>2. PlaceBefore(j + 1) = PlaceOf(Todo[j])
              BY <5>1 DEF PlaceBefore
        <5> QED BY <1>3, <5>1, <5>2 DEF PlaceOf, Place
      <4> QED BY <4>1, <4>2
    <3> QED BY <3>3, <3>4
  <2> QED BY <2>1
<1>4. Nat \subseteq S
  <2> HIDE DEF S
  <2> QED BY <1>2, <1>3, NatSetInduction
<1>5. \A k \in 1..n : k \in Nat
      BY <1>1
<1> QED BY <1>4, <1>5

(* What is left of a sequence from its element m on.                       *)
LEMMA SuffixFacts ==
    ASSUME NEW S, NEW s \in Seq(S), NEW m \in 1..(Len(s) + 1)
    PROVE  /\ SubSeq(s, m, Len(s)) \in Seq(S)
           /\ Len(SubSeq(s, m, Len(s))) = Len(s) - m + 1
           /\ \A k \in 1..Len(SubSeq(s, m, Len(s))) :
                  SubSeq(s, m, Len(s))[k] = s[k + m - 1]
OBVIOUS

(* A batch is taken off the front of the requests.                         *)
LEMMA TakeBatchShift ==
    ASSUME TInv, wpc = "recv", queue /= <<>>, NEW n \in 1..Len(queue),
           NEW ends \in BOOLEAN, TakeBatch(n, ends)
    PROVE  /\ Len(batch') = n /\ \A k \in 1..n : batch'[k] = Todo[k]
           /\ \A k \in 1..n : Todo[k].kind = "write"
           /\ n \in 1..Len(Todo) /\ Len(Todo) \in Nat
           /\ Len(Todo') = Len(Todo) - n
           /\ \A k \in 1..Len(Todo') : Todo'[k] = Todo[k + n]
<1>1. /\ batch' = SubSeq(queue, 1, n)
      /\ nonFlush' = IF ends THEN queue[n + 1] ELSE NoReq
      /\ queue' = SubSeq(queue, (IF ends THEN n + 2 ELSE n + 1), Len(queue))
      /\ ends => n < Len(queue)
      /\ \A k \in 1..n : queue[k].kind = "write"
      BY DEF TakeBatch
<1>2. /\ Todo = queue /\ queue \in Seq(WorkerRequest)
      /\ Len(queue) \in Nat /\ n \in Nat /\ n >= 1 /\ n <= Len(queue)
      /\ \A k \in 1..Len(queue) : queue[k].kind /= "none"
      BY DEF Todo, TInv, Requests, TypeOK, WorkerType
<1>3. Len(batch') = n /\ \A k \in 1..n : batch'[k] = Todo[k]
      BY <1>1, <1>2
<1>4. /\ Len(Todo') = Len(Todo) - n
      /\ \A k \in 1..Len(Todo') : Todo'[k] = Todo[k + n]
  <2>1. CASE ~ends
    <3>1. Todo' = SubSeq(queue, n + 1, Len(queue))
          BY <1>1, <2>1 DEF Todo
    <3> QED BY <1>2, <3>1
  <2>2. CASE ends
    <3>1. n + 1 \in 1..Len(queue) /\ n + 2 \in Nat
          BY <1>1, <1>2, <2>2
    <3>2. nonFlush' = queue[n + 1] /\ nonFlush' /= NoReq
          BY <1>1, <1>2, <2>2, <3>1, NoReqType
    <3> DEFINE t == SubSeq(queue, n + 2, Len(queue))
    <3>3. Todo' = <<queue[n + 1]>> \o t
          BY <1>1, <2>2, <3>2 DEF Todo
    <3>4. /\ t \in Seq(WorkerRequest) /\ Len(t) = Len(queue) - n - 1
          /\ \A k \in 1..Len(t) : t[k] = queue[k + n + 1]
      <4>1. /\ n + 2 \in 1..(Len(queue) + 1)
            /\ Len(queue) - (n + 2) + 1 = Len(queue) - n - 1
            /\ \A k \in Nat : k + (n + 2) - 1 = k + n + 1
            BY <1>2, <3>1
      <4>2. /\ t \in Seq(WorkerRequest) /\ Len(t) = Len(queue) - (n + 2) + 1
            /\ \A k \in 1..Len(t) : t[k] = queue[k + (n + 2) - 1]
            BY <1>2, <4>1, SuffixFacts
      <4> HIDE DEF t
      <4>3. \A k \in 1..Len(t) : k \in Nat
            OBVIOUS
      <4> QED BY <4>1, <4>2, <4>3
    <3> HIDE DEF t
    <3>5. queue[n + 1] \in WorkerRequest
          BY <1>2, <3>1
    <3>6. /\ Len(Todo') = Len(t) + 1 /\ Todo'[1] = queue[n + 1]
          /\ \A k \in 1..Len(t) : Todo'[k + 1] = t[k]
          BY <3>3, <3>4, <3>5
    <3>7. ASSUME NEW k \in 1..Len(Todo'), k /= 1
          PROVE  Todo'[k] = queue[k + n]
      <4>1. /\ k - 1 \in 1..Len(t) /\ (k - 1) + 1 = k
            /\ (k - 1) + n + 1 = k + n
            BY <1>2, <3>4, <3>6, <3>7
      <4> QED BY <3>4, <3>6, <4>1
    <3> QED BY <1>2, <3>4, <3>6, <3>7
  <2> QED BY <2>1, <2>2
<1> QED BY <1>1, <1>2, <1>3, <1>4

LEMMA TakeBatchKeeps ==
    ASSUME WInv, Recv, NEW n \in 1..Len(queue), NEW ends \in BOOLEAN,
           TakeBatch(n, ends)
    PROVE  WInv'
<1>1. /\ wpc = "recv" /\ wpc' = "write" /\ fs' = fs /\ queue /= <<>>
      /\ UNCHANGED <<pc, open, closed, rec, files, rx, wrote>>
      /\ batch' = SubSeq(queue, 1, n)
      /\ nonFlush' = IF ends THEN queue[n + 1] ELSE NoReq
      /\ queue' = SubSeq(queue, (IF ends THEN n + 2 ELSE n + 1), Len(queue))
      /\ ends => n < Len(queue)
      /\ \A k \in 1..n : queue[k].kind = "write"
      BY DEF Recv, TakeBatch, mainVars
<1>2. PipeInv /\ TInv /\ UpInv /\ DiskInv(fs) /\ rx
      BY <1>1, SoundFacts DEF WInv
<1>3. TInv' /\ rx'
      BY <1>1, <1>2, RecvTypes
<1>4. LastFile' = LastFile
      BY <1>1 DEF LastFile
<1>5. /\ Todo = queue /\ wrote = 0 /\ queue \in Seq(WorkerRequest)
      /\ Len(queue) \in Nat /\ n \in Nat /\ n >= 1 /\ n <= Len(queue)
      /\ \A k \in 1..Len(queue) : queue[k].kind /= "none"
      BY <1>1, <1>2
      DEF Todo, TInv, Control, Requests, TypeOK, WorkerType
<1>6. Len(batch') = n /\ \A k \in 1..n : batch'[k] = Todo[k]
      BY <1>2, <1>1, TakeBatchShift
<1>7. /\ Len(Todo') = Len(Todo) - n
      /\ \A k \in 1..Len(Todo') : Todo'[k] = Todo[k + n]
      BY <1>2, <1>1, TakeBatchShift
<1>8. /\ n \in 1..Len(Todo) /\ n + 1 /= 1 /\ (n + 1) - 1 = n
      /\ \A k \in 1..Len(Todo') : k + n \in 1..Len(Todo)
      /\ \A k \in 1..n : k \in 1..Len(Todo)
      BY <1>5, <1>7
<1>9. /\ BatchPlace' = PlaceBefore(n + 1) /\ Last(batch)' = Todo[n]
  <2>1. Last(batch)' = Todo[n]
        BY <1>5, <1>6 DEF Last
  <2>2. BatchPlace' = PlaceOf(Todo[n])
        BY <1>1, <2>1 DEF BatchPlace, PlaceOf, Place
  <2> QED BY <1>8, <2>1, <2>2 DEF PlaceBefore
<1>10. \A k \in 1..n : /\ Todo[k].kind = "write" /\ Todo[k].ids = {}
                       /\ ~IsAppend(Todo[k]) /\ Todo[k].id = LastFile
                       /\ Grows(Todo[k])
  <2>1. \A k \in 1..n : Todo[k].kind = "write"
        BY <1>1, <1>5
  <2>2. \A k \in 1..n : Todo[k].ids = {} /\ Grows(Todo[k])
        BY <1>2, <1>8, <2>1 DEF PipeInv, MonoInv
  <2>3. n \in 0..Len(Todo)
        BY <1>5
  <2>4. \A k \in 1..n : Todo[k].id = LastFile
        BY <1>1, <1>2, <2>1, <2>3, FrontWrites
  <2> QED BY <2>1, <2>2, <2>4 DEF IsAppend
<1>11. \A i : Pend(i)' => Pend(i)
      BY <1>7, <1>8 DEF Pend
<1>12. \A i : Real(i)' => Real(i)
      BY <1>1, <1>4, <1>11 DEF Real
<1>13. \A k \in 1..Len(Todo') : After(LastFile', Todo[k + n])
      BY <1>2, <1>4, <1>8 DEF PipeInv, MonoInv
<1>14. /\ LastFile <= LastFile' /\ LastFile' <= open.id
  <2>1. LastFile \in Nat /\ LastFile <= open.id
        BY <1>2, Numbers DEF NumberFacts, PipeInv, MonoInv
  <2> QED BY <1>4, <2>1
<1>15. /\ MonoInv' /\ RemInv' /\ ClosedInv' /\ EndInv' /\ TodoChain'
       /\ \A k \in 2..Len(Todo') :
             IsAppend(Todo'[k]) => SyncWrite(Todo'[k - 1])
  <2>1. /\ UNCHANGED <<pc, open, closed, rec>>
        /\ fs'.names \subseteq fs.names
        /\ \A i \in fs'.names : Real(i)' => Real(i)
        /\ \A i \in Ids : EndOf(fs', i) = EndOf(fs, i)
        BY <1>1, <1>12
  <2>2. /\ \A k \in 1..n : \A i \in fs'.names : i \notin Todo[k].ids
        /\ \A k \in 1..n : ~IsAppend(Todo[k])
        BY <1>10
  <2>3. \A c \in Full : c.id \in fs'.names
        BY <1>1, <1>2 DEF PipeInv, ClosedInv
  <2> QED BY <1>2, <1>3, <1>7, <1>8, <1>9, <1>13, <1>14, <2>1, <2>2, <2>3,
             ShiftFrame
<1>16. FileInv'
      BY <1>1, <1>2, <1>4 DEF PipeInv, FileInv
<1>17. FreshInv'
      BY <1>1, <1>2, <1>4, <1>11 DEF PipeInv, FreshInv
<1>18. BatchInv'
      BY <1>1, <1>4, <1>6, <1>10 DEF BatchInv
<1>19. BatchChain'
  <2>1. \A k \in 1..n : Follows(Todo[k], PlaceBefore(k))
        BY <1>2, <1>8 DEF PipeInv, TodoChain
  <2>2. PlaceBefore(1) = FilePlace /\ FilePlace' = FilePlace
        BY <1>1, <1>4 DEF PlaceBefore, BatchPlace, FilePlace
  <2>3. 1 \in 1..n /\ wrote' + 1 = 1 /\ wrote' + 2 = 2
        BY <1>1, <1>5
  <2>4. Follows(batch'[1], FilePlace')
        BY <1>6, <2>1, <2>2, <2>3
  <2>5. ASSUME NEW k \in 2..n
        PROVE  Follows(batch'[k], PlaceOf(batch'[k - 1]))
    <3>1. k \in 1..n /\ k - 1 \in 1..n /\ k /= 1
          BY <1>5
    <3>2. PlaceBefore(k) = PlaceOf(Todo[k - 1])
          BY <3>1 DEF PlaceBefore
    <3> QED BY <1>6, <2>1, <3>1, <3>2
  <2> QED BY <1>6, <2>3, <2>4, <2>5 DEF BatchChain, PlaceOf
<1>20. SyncInv'
  <2>1. SyncWrite(Todo[n]) => HeadSynced'
        BY <1>1, <1>9 DEF SyncWrite, HeadSynced
  <2>2. ASSUME Todo' /= <<>>, IsAppend(Todo'[1]) PROVE HeadSynced'
    <3>1. Len(Todo') >= 1
          BY <1>3, <2>2, TodoFactsNext
    <3>2. 1 \in 1..Len(Todo') /\ 1 + n \in 2..Len(Todo) /\ (1 + n) - 1 = n
      <4>1. \A x, y \in Nat :
                n <= x /\ y = x - n /\ y >= 1
                    => 1 \in 1..y /\ 1 + n \in 2..x /\ (1 + n) - 1 = n
            BY <1>5
      <4>2. Len(Todo) \in Nat /\ n <= Len(Todo) /\ Len(Todo') = Len(Todo) - n
            BY <1>5, <1>7
      <4>3. Len(Todo') \in Nat
            BY <1>3, TodoFactsNext
      <4> QED BY <3>1, <4>1, <4>2, <4>3
    <3>3. IsAppend(Todo[1 + n])
          BY <1>7, <2>2, <3>2
    <3> QED BY <1>2, <2>1, <3>2, <3>3 DEF PipeInv, SyncInv
  <2>3. ASSUME pc \in {"rot_create", "rot_sync", "rot_append", "closing"}
        PROVE  IF Todo' = <<>> THEN HeadSynced'
               ELSE SyncWrite(Todo'[Len(Todo')])
    <3>1. Todo /= <<>>
          BY <1>1, <1>5
    <3>2. SyncWrite(Todo[Len(Todo)])
          BY <1>2, <2>3, <3>1 DEF PipeInv, SyncInv
    <3>3. CASE Todo' = <<>>
      <4>1. Len(Todo) = n
            BY <1>5, <1>7, <3>3
      <4> QED BY <2>1, <3>2, <3>3, <4>1
    <3>4. CASE Todo' /= <<>>
      <4>1. Len(Todo') \in 1..Len(Todo')
            BY <1>3, <3>4, TodoFactsNext
      <4>2. Len(Todo') + n = Len(Todo)
            BY <1>5, <1>7
      <4> QED BY <1>7, <3>2, <3>4, <4>1, <4>2
    <3> QED BY <3>3, <3>4
  <2> QED BY <1>1, <1>15, <2>2, <2>3 DEF SyncInv
<1>21. OpeningInv' /\ UpInv'
  <2>1. pc' \in UpPCs
        BY <1>2, <1>3 DEF TInv, Control
  <2> QED BY <1>1, <1>2, <2>1, UpIsNotOpening DEF UpInv, OpenEnd
<1> QED BY <1>1, <1>2, <1>3, <1>15, <1>16, <1>17, <1>18, <1>19, <1>20, <1>21
        DEF WInv, PipeInv

LEMMA AppendFileKeeps == ASSUME WInv, AppendFile PROVE WInv'
<1> DEFINE K == LastFile
           J == nonFlush.id
<1>1. /\ wpc = "nonflush" /\ nonFlush.kind = "append" /\ wpc' = "recv"
      /\ fs' = fs /\ files' = Append(files, J) /\ nonFlush' = NoReq
      /\ UNCHANGED <<pc, open, closed, rec, batch, queue, rx>>
      BY DEF AppendFile, mainVars, chanVars
<1>2. PipeInv /\ TInv /\ UpInv /\ DiskInv(fs) /\ rx
      BY <1>1, SoundFacts DEF WInv
<1>3. TInv' /\ rx'
      BY <1>1, <1>2, AppendFileTypes
<1>4. LastFile' = J
  <2>1. files \in Seq(Ids) /\ J \in Ids
        BY <1>2 DEF TInv, TypeOK, WorkerType, WorkerRequest
  <2> QED BY <1>1, <2>1 DEF LastFile, Last
<1>5. /\ Todo[1] = nonFlush /\ Len(Todo) = Len(queue) + 1
      /\ Len(Todo') = Len(Todo) - 1 /\ Len(Todo) \in Nat
      /\ \A k \in 1..Len(Todo') : Todo'[k] = Todo[k + 1]
      /\ Todo' = queue /\ Len(queue) \in Nat
  <2>1. nonFlush /= NoReq /\ Todo' = queue
        BY <1>1, NoReqType DEF Todo
  <2>2. queue \in Seq(WorkerRequest)
        BY <1>2 DEF TInv, TypeOK, WorkerType
  <2> QED BY <1>2, <2>1, <2>2, TodoFacts
<1>6. /\ 1 \in 1..Len(Todo) /\ IsAppend(Todo[1]) /\ Todo /= <<>>
      /\ \A k \in 1..Len(Todo') : k + 1 \in 1..Len(Todo) /\ k + 1 > 1
  <2>1. 1 \in 1..Len(Todo) /\ IsAppend(Todo[1])
        BY <1>1, <1>5 DEF IsAppend
  <2>2. \A k \in 1..Len(Todo') : k + 1 \in 1..Len(Todo) /\ k + 1 > 1
        BY <1>5
  <2> QED BY <2>1, <2>2
<1>7. /\ J \in Ids /\ J \in Nat /\ K \in Nat /\ K \in Ids /\ open.id \in Nat
      /\ \A dir \in fs.images : \A i \in dir : i \in Nat
      BY <1>2, <1>5, Numbers, RequestFacts
      DEF NumberFacts, TInv, TypeOK, WorkerType
<1>8. /\ K < J /\ J <= open.id /\ Todo[1].ids = {}
      BY <1>1, <1>2, <1>5, <1>6 DEF PipeInv, MonoInv, After
<1>9. Pend(J)
      BY <1>5, <1>6 DEF Pend
<1>10. \A dir \in fs.images :
           J \in dir /\ \A i \in dir : i > K => fs.file[i] = NoFile
      BY <1>2, <1>7, <1>9 DEF PipeInv, FreshInv
<1>11. Whole(fs, K)
      BY <1>1, <1>2, <1>6 DEF PipeInv, SyncInv, HeadSynced
<1>12. J = EndOf(fs, K) /\ PlaceBefore(1) = Place(K, EndOf(fs, K))
       /\ PlaceOf(Todo[1]) = Place(J, J)
  <2>1. PlaceBefore(1) = Place(K, EndOf(fs, K))
        BY <1>1 DEF PlaceBefore, BatchPlace, FilePlace
  <2>2. Follows(Todo[1], PlaceBefore(1))
        BY <1>2, <1>6 DEF PipeInv, TodoChain
  <2>3. PlaceOf(Todo[1]) = Place(EndOf(fs, K), EndOf(fs, K))
        BY <1>6, <2>1, <2>2 DEF Follows, IsAppend, Place
  <2>4. J = EndOf(fs, K)
        BY <1>5, <2>3 DEF PlaceOf, Place
  <2> QED BY <2>1, <2>3, <2>4
<1>13. J \in fs.names /\ fs.file[J] = NoFile /\ EndOf(fs, J) = J
  <2>1. fs.names \in fs.images
        BY <1>2, Numbers DEF NumberFacts
  <2>2. J \in fs.names /\ fs.file[J] = NoFile
        BY <1>7, <1>8, <1>10, <2>1
  <2> QED BY <1>7, <2>2 DEF EndOf, NoFile
<1>14. BatchPlace' = PlaceBefore(2)
  <2>1. BatchPlace' = Place(J, J)
        BY <1>1, <1>4, <1>13 DEF BatchPlace, FilePlace
  <2> QED BY <1>12, <2>1 DEF PlaceBefore
<1>15. FileInv'
  <2>1. ASSUME NEW dir \in fs.images
        PROVE  /\ J \in dir /\ Below(fs, dir, J)
               /\ \A i \in dir : i > J => ~Used(fs, i)
    <3>1. /\ J \in dir /\ Below(fs, dir, K)
          BY <1>2, <1>10 DEF PipeInv, FileInv
    <3>2. \A i \in dir : i > K => ~Used(fs, i) /\ Whole(fs, i)
                                  /\ EndOf(fs, i) = i
          BY <1>7, <1>10 DEF Used, Whole, EndOf, NoFile
    <3>3. ASSUME NEW i \in dir, i < J
          PROVE  Whole(fs, i) /\ EndOf(fs, i) \in dir /\ EndOf(fs, i) <= J
      <4>1. CASE i < K
        <5>1. Whole(fs, i) /\ EndOf(fs, i) \in dir /\ EndOf(fs, i) <= K
              BY <3>1, <4>1 DEF Below
        <5>2. EndOf(fs, i) \in Nat
              BY <1>7, <5>1
        <5> QED BY <1>7, <1>8, <5>1, <5>2
      <4>2. CASE i = K
            BY <1>7, <1>11, <1>12, <3>1, <4>2
      <4>3. CASE i > K
            BY <1>7, <3>2, <3>3, <4>3
      <4>4. i \in Nat
            BY <1>7
      <4> QED BY <1>7, <4>1, <4>2, <4>3, <4>4
    <3>4. \A i \in dir : i > J => i > K
          BY <1>7, <1>8
    <3> QED BY <3>1, <3>2, <3>3, <3>4 DEF Below
  <2> QED BY <1>1, <1>2, <1>4, <2>1 DEF PipeInv, FileInv
<1>16. \A i : Pend(i)' => Pend(i)
      BY <1>5, <1>6 DEF Pend
<1>17. \A i : Real(i)' => Real(i)
      BY <1>1, <1>4, <1>9, <1>16 DEF Real
<1>18. \A k \in 1..Len(Todo') : After(LastFile', Todo[k + 1])
      BY <1>2, <1>4, <1>5, <1>6 DEF PipeInv, MonoInv
<1>19. /\ MonoInv' /\ RemInv' /\ ClosedInv' /\ EndInv' /\ TodoChain'
       /\ \A k \in 2..Len(Todo') :
             IsAppend(Todo'[k]) => SyncWrite(Todo'[k - 1])
  <2>1. /\ UNCHANGED <<pc, open, closed, rec>>
        /\ fs'.names \subseteq fs.names
        /\ \A i \in fs'.names : Real(i)' => Real(i)
        /\ \A i \in Ids : EndOf(fs', i) = EndOf(fs, i)
        BY <1>1, <1>17
  <2>2. \A k \in 1..1 : k = 1
        OBVIOUS
  <2>3. /\ \A k \in 1..1 : \A i \in fs'.names : i \notin Todo[k].ids
        BY <1>8, <2>2
  <2>4. ASSUME NEW c \in Full, PlaceBefore(1) = Place(c.id, c.end)
        PROVE  c.id < LastFile' /\ EndOf(fs', c.id) = c.end
        BY <1>1, <1>4, <1>8, <1>12, <2>4 DEF Place
  <2>5. \A c \in Full : \A k \in 1..1 :
            IsAppend(Todo[k]) /\ PlaceBefore(k) = Place(c.id, c.end) =>
                c.id < LastFile' /\ EndOf(fs', c.id) = c.end
        BY <2>2, <2>4
  <2>6. \A c \in Full : c.id \in fs'.names
        BY <1>1, <1>2 DEF PipeInv, ClosedInv
  <2>7. LastFile <= LastFile' /\ LastFile' <= open.id /\ 1 + 1 = 2
        BY <1>4, <1>7, <1>8
  <2> QED BY <1>2, <1>3, <1>5, <1>6, <1>14, <1>18, <2>1, <2>3, <2>5, <2>6,
             <2>7, ShiftFrame
<1>20. FreshInv'
  <2>1. \A dir \in fs.images : \A i \in dir : i > J => fs.file[i] = NoFile
        BY <1>7, <1>8, <1>10
  <2>2. fs.names \in fs.images
        BY <1>2, Numbers DEF NumberFacts
  <2>3. \A i \in Ids : Pend(i)' => \A dir \in fs.images : i \in dir
        BY <1>2, <1>16 DEF PipeInv, FreshInv
  <2> QED BY <1>1, <1>4, <2>1, <2>2, <2>3 DEF FreshInv
<1>21. BatchInv' /\ BatchChain'
  <2>1. batch' = <<>> /\ 1..Len(batch') = {}
        BY <1>1, <1>2 DEF PipeInv, BatchInv
  <2> QED BY <1>1, <2>1 DEF BatchInv, BatchChain
<1>22. SyncInv'
  <2>1. ~SyncWrite(Todo[1])
        BY <1>6 DEF SyncWrite, IsAppend
  <2>2. ASSUME Todo' /= <<>> PROVE ~IsAppend(Todo'[1])
    <3>1. 1 \in 1..Len(Todo') /\ 2 \in 2..Len(Todo) /\ 1 + 1 = 2 /\ 2 - 1 = 1
      <4>1. Len(Todo') >= 1
            BY <1>3, <2>2, TodoFactsNext
      <4> QED BY <1>5, <4>1
    <3>2. Todo'[1] = Todo[2]
          BY <1>5, <3>1
    <3>3. IsAppend(Todo[2]) => SyncWrite(Todo[1])
          BY <1>2, <3>1 DEF PipeInv, SyncInv
    <3> QED BY <2>1, <3>2, <3>3
  <2>3. ASSUME pc \in {"rot_create", "rot_sync", "rot_append", "closing"}
        PROVE  Todo' /= <<>> /\ SyncWrite(Todo'[Len(Todo')])
    <3>1. SyncWrite(Todo[Len(Todo)])
          BY <1>2, <1>6, <2>3 DEF PipeInv, SyncInv
    <3>2. Len(Todo) /= 1
          BY <2>1, <3>1
    <3>3. Len(Todo') \in 1..Len(Todo') /\ Len(Todo') + 1 = Len(Todo)
          BY <1>5, <3>2
    <3>4. Todo' /= <<>>
          BY <3>3
    <3> QED BY <1>5, <3>1, <3>3, <3>4
  <2> QED BY <1>1, <1>19, <2>2, <2>3 DEF SyncInv
<1>23. OpeningInv' /\ UpInv'
  <2>1. pc' \in UpPCs
        BY <1>2, <1>3 DEF TInv, Control
  <2> QED BY <1>1, <1>2, <2>1, UpIsNotOpening DEF UpInv, OpenEnd
<1> QED BY <1>1, <1>2, <1>3, <1>15, <1>19, <1>20, <1>21, <1>22, <1>23
        DEF WInv, PipeInv

(* The removal of the oldest chunk of a RemoveChunks request: no chunk of  *)
(* the log is before it, and the worker's file comes after it.             *)
LEMMA RemoveFacts ==
    ASSUME WInv, RemoveChunk
    PROVE  LET x == Min(nonFlush.ids) IN
           /\ PipeInv /\ TInv /\ UpInv /\ rx /\ Todo[1] = nonFlush
           /\ Len(Todo) = Len(queue) + 1 /\ Len(Todo) \in Nat
           /\ 1 \in 1..Len(Todo)
           /\ x \in nonFlush.ids /\ x \in Ids /\ x \in Nat
           /\ x < LastFile /\ LastFile \in Nat
           /\ fs'.names = fs.names \ {x}
           /\ fs'.images = fs.images \union {fs.names \ {x}}
           /\ fs'.file = fs.file
           /\ \A i \in nonFlush.ids : x <= i
           /\ \A i \in fs.names : i /= x => EndOf(fs, i) /= x
           /\ DiskInv(fs')
<1> DEFINE x == Min(nonFlush.ids)
           K == LastFile
<1>1. /\ wpc = "nonflush" /\ nonFlush.kind = "remove"
      /\ fs' = RemoveFile(fs, x)
      BY DEF RemoveChunk
<1>2. PipeInv /\ TInv /\ UpInv /\ DiskInv(fs) /\ rx /\ K \in fs.names
      BY <1>1, SoundFacts DEF WInv
<1>3. /\ Todo[1] = nonFlush /\ Len(Todo) = Len(queue) + 1
      /\ Len(Todo) \in Nat /\ 1 \in 1..Len(Todo)
  <2>1. nonFlush /= NoReq
        BY <1>1, NoReqType
  <2>2. queue \in Seq(WorkerRequest)
        BY <1>2 DEF TInv, TypeOK, WorkerType
  <2> QED BY <1>2, <2>1, <2>2, TodoFacts
<1>4. /\ nonFlush.ids \in SUBSET Ids /\ nonFlush.ids /= {}
      /\ nonFlush.ids \in SUBSET Nat
      BY <1>1, <1>2, DiskAssumption
      DEF TInv, TypeOK, WorkerType, WorkerRequest, Requests, Ids
<1>5. x \in nonFlush.ids /\ \A i \in nonFlush.ids : x <= i
      BY <1>4, MinFacts
<1> HIDE DEF x
<1>6. /\ x \in Ids /\ x \in Nat /\ K \in Nat /\ DiskType(fs, Record)
      /\ \A i \in fs.names : i \in Nat /\ i \in Ids
      BY <1>2, <1>4, <1>5, Numbers DEF NumberFacts
<1>7. nonFlush.id = K /\ Used(fs, K)
  <2>1. Follows(Todo[1], FilePlace)
        BY <1>1, <1>2, <1>3
        DEF PipeInv, TodoChain, PlaceBefore, BatchPlace
  <2>2. nonFlush.id = K /\ nonFlush.upto = EndOf(fs, K)
        BY <1>1, <1>3, <2>1 DEF Follows, PlaceOf, FilePlace, Place
  <2>3. nonFlush.id < nonFlush.upto
        BY <1>1, <1>2, <1>3 DEF PipeInv, MonoInv, Grows, IsAppend
  <2>4. ~Used(fs, K) => EndOf(fs, K) = K
        BY <1>2, <1>6, DiskFacts
  <2> QED BY <1>6, <2>2, <2>3, <2>4
<1>8. x < K
      BY <1>2, <1>3, <1>5, <1>7 DEF PipeInv, RemInv
<1>9. ASSUME NEW i \in fs.names, i /= x
      PROVE  EndOf(fs, i) /= x
  <2>1. SUFFICES ASSUME EndOf(fs, i) = x PROVE FALSE
        OBVIOUS
  <2>2. i \in Nat /\ i \in Ids
        BY <1>6
  <2>3. i <= x /\ Used(fs, i)
        BY <1>6, <1>9, <2>1, <2>2, DiskFacts
  <2>4. i < x /\ Real(i)
        BY <1>6, <1>9, <2>2, <2>3 DEF Real
  <2>5. PICK m \in 1..1 : i \in Todo[m].ids
        BY <1>2, <1>3, <1>5, <2>4 DEF PipeInv, RemInv
  <2>6. i \in nonFlush.ids
        BY <1>3, <2>5
  <2> QED BY <1>5, <1>6, <2>2, <2>4, <2>6
<1>10. /\ fs'.names = fs.names \ {x} /\ fs'.file = fs.file
       /\ fs'.images = fs.images \union {fs.names \ {x}}
      BY <1>1, <1>6, RemoveFileFacts
<1>11. DiskInv(fs')
  <2>1. /\ \A k, j \in fs.names :
               k /= x /\ EndOf(fs, k) = x /\ k < j /\ Used(fs, j) => j = x
        /\ Used(fs, x) => \E k \in fs.names : x < k /\ Used(fs, k)
        BY <1>2, <1>7, <1>8, <1>9
  <2> QED BY <1>1, <1>2, <1>6, <2>1, RemoveKeepsRule
<1> QED BY <1>2, <1>3, <1>5, <1>6, <1>8, <1>9, <1>10, <1>11 DEF x

(* What the removal keeps, whether or not it is the last of its request.   *)
LEMMA RemoveFrame ==
    ASSUME WInv, RemoveChunk, \A i : Pend(i)' => Pend(i)
    PROVE  /\ OpeningInv' /\ UpInv' /\ FileInv' /\ FreshInv'
           /\ BatchInv' /\ BatchChain' /\ BatchPlace' = BatchPlace
           /\ LastFile' = LastFile
           /\ \A i \in fs'.names : Real(i)' => Real(i)
           /\ \A c \in Full : c.id \in fs'.names
<1> DEFINE x == Min(nonFlush.ids)
           K == LastFile
<1>1. /\ wpc = "nonflush" /\ nonFlush.kind = "remove"
      /\ wpc' \in {"nonflush", "rmsync"}
      /\ UNCHANGED <<pc, open, closed, rec, files, batch, queue, rx>>
      BY DEF RemoveChunk, mainVars, chanVars
<1>2. /\ PipeInv /\ TInv /\ UpInv /\ rx /\ Todo[1] = nonFlush
      /\ 1 \in 1..Len(Todo)
      /\ x \in nonFlush.ids /\ x \in Ids /\ x \in Nat
      /\ x < K /\ K \in Nat
      /\ fs'.names = fs.names \ {x}
      /\ fs'.images = fs.images \union {fs.names \ {x}}
      /\ fs'.file = fs.file
      /\ \A i \in fs.names : i /= x => EndOf(fs, i) /= x
      BY RemoveFacts
<1> HIDE DEF x
<1>3. /\ fs.names \in fs.images /\ open.id \in Nat /\ OpenEnd \in Nat
      /\ OpenEnd >= open.id /\ pc \in UpPCs
      BY <1>2, Numbers DEF NumberFacts, TInv, Control
<1>4. LastFile' = K
      BY <1>1 DEF LastFile
<1>5. \A i : /\ EndOf(fs', i) = EndOf(fs, i) /\ (Used(fs', i) <=> Used(fs, i))
             /\ Whole(fs', i) <=> Whole(fs, i)
      BY <1>2, SameFile
<1>6. BatchPlace' = BatchPlace
      BY <1>1, <1>4, <1>5 DEF BatchPlace, FilePlace
<1>7. BatchInv' /\ BatchChain'
  <2>1. batch' = <<>> /\ 1..Len(batch') = {}
        BY <1>1, <1>2 DEF PipeInv, BatchInv
  <2> QED BY <1>1, <2>1 DEF BatchInv, BatchChain
<1>8. FileInv'
  <2>1. ASSUME NEW dir \in fs.images
        PROVE  /\ K \in dir /\ Below(fs', dir, K)
               /\ \A i \in dir : i > K => ~Used(fs', i)
    <3>1. /\ K \in dir /\ Below(fs, dir, K)
          /\ \A i \in dir : i > K => ~Used(fs, i)
          BY <1>2 DEF PipeInv, FileInv
    <3>2. Below(fs', dir, K)
          BY <1>5, <3>1, BelowKept
    <3> QED BY <1>5, <3>1, <3>2
  <2>2. /\ K \in fs.names \ {x} /\ Below(fs', fs.names \ {x}, K)
        /\ \A i \in fs.names \ {x} : i > K => ~Used(fs', i)
    <3>1. /\ K \in fs.names /\ Below(fs', fs.names, K)
          /\ \A i \in fs.names : i > K => ~Used(fs', i)
          BY <1>3, <2>1
    <3>2. Below(fs', fs.names \ {x}, K)
          BY <1>2, <1>5, <3>1 DEF Below
    <3>3. K /= x
          BY <1>2
    <3> QED BY <3>1, <3>2, <3>3
  <2>3. open.id \in fs'.names
    <3>1. open.id \in fs.names /\ LastFile <= open.id
          BY <1>2 DEF PipeInv, FileInv, MonoInv
    <3> QED BY <1>2, <1>3, <3>1
  <2> QED BY <1>1, <1>2, <1>4, <2>1, <2>2, <2>3 DEF FileInv
<1>9. FreshInv'
  <2>1. ASSUME NEW i \in Ids, Pend(i)', NEW dir \in fs'.images
        PROVE  i \in dir
    <3>1. Pend(i) /\ \A d \in fs.images : i \in d
          BY <1>2, <2>1 DEF PipeInv, FreshInv
    <3>2. PICK k \in 1..Len(Todo) : IsAppend(Todo[k]) /\ Todo[k].id = i
          BY <3>1 DEF Pend
    <3>3. K < i
          BY <1>2, <3>2 DEF PipeInv, MonoInv, After
    <3>4. i \in Nat
          BY <2>1, DiskAssumption DEF Ids
    <3>5. i /= x
          BY <1>2, <3>3, <3>4
    <3> QED BY <1>2, <1>3, <2>1, <3>1, <3>5
  <2>2. ASSUME pc = "rot_append" \/ \E i \in Ids : Pend(i)',
               NEW dir \in fs'.images, NEW i \in dir, i > K
        PROVE  fs.file[i] = NoFile
    <3>1. \E d \in fs.images : i \in d
          BY <1>2, <1>3
    <3> QED BY <1>2, <2>2, <3>1 DEF PipeInv, FreshInv
  <2>3. \A i \in fs'.names : i > K => fs.file[i] = NoFile
        BY <1>2 DEF PipeInv, FreshInv
  <2> QED BY <1>1, <1>2, <1>4, <2>1, <2>2, <2>3 DEF FreshInv
<1>10. \A i \in fs'.names : Real(i)' => Real(i)
      BY <1>2, <1>4, <1>5 DEF Real
<1>11. \A c \in Full : c.id \in fs'.names
  <2>1. \A c \in Full : c.id \in fs.names /\ c.id \notin Todo[1].ids
        BY <1>2 DEF PipeInv, ClosedInv
  <2> QED BY <1>2, <2>1
<1>12. OpeningInv' /\ UpInv'
  <2>1. OpenEnd' = OpenEnd /\ OpenEnd /= x
    <3>1. K <= open.id
          BY <1>2 DEF PipeInv, MonoInv
    <3> QED BY <1>1, <1>2, <1>3, <3>1 DEF OpenEnd
  <2>2. ASSUME NEW dir \in fs'.images, NEW i \in dir, Used(fs', i)
        PROVE  i <= open.id
    <3>1. \E d \in fs.images : i \in d
          BY <1>2, <1>3
    <3> QED BY <1>2, <1>5, <2>2, <3>1, <1>3 DEF UpInv
  <2>3. pc \in {"rot_sync", "rot_append"} => OpenEnd \in fs'.names
        BY <1>2, <1>3, <2>1 DEF UpInv
  <2>4. pc = "rot_append" => \A dir \in fs'.images : OpenEnd \in dir
        BY <1>2, <1>3, <2>1 DEF UpInv
  <2>5. UpInv'
        BY <1>1, <1>2, <1>3, <2>1, <2>2, <2>3, <2>4 DEF UpInv
  <2>6. pc' \in UpPCs
        BY <1>1, <1>3
  <2> QED BY <2>5, <2>6, UpIsNotOpening
<1> QED BY <1>4, <1>6, <1>7, <1>8, <1>9, <1>10, <1>11, <1>12

(* The last chunk of the request: the request is done.                     *)
LEMMA RemoveLastKeeps ==
    ASSUME WInv, RemoveChunk, nonFlush.ids = {Min(nonFlush.ids)} PROVE WInv'
<1> DEFINE x == Min(nonFlush.ids)
<1>1. /\ wpc' = "rmsync" /\ nonFlush' = NoReq /\ nonFlush.kind = "remove"
      /\ UNCHANGED <<pc, open, closed, rec, queue, rx>>
      BY DEF RemoveChunk, mainVars, chanVars
<1>2. /\ PipeInv /\ TInv /\ UpInv /\ rx /\ Todo[1] = nonFlush
      /\ Len(Todo) = Len(queue) + 1 /\ Len(Todo) \in Nat
      /\ 1 \in 1..Len(Todo) /\ LastFile \in Nat
      /\ fs'.names = fs.names \ {x} /\ fs'.file = fs.file
      /\ DiskInv(fs')
      BY RemoveFacts
<1>3. nonFlush.ids = {x}
      OBVIOUS
<1> HIDE DEF x
<1>4. TInv' /\ rx'
      BY <1>1, <1>2, RemoveTypes
<1>5. /\ Len(Todo') = Len(Todo) - 1 /\ Todo' = queue
      /\ \A k \in 1..Len(Todo') : Todo'[k] = Todo[k + 1]
      /\ Todo /= <<>> /\ Len(queue) \in Nat
  <2>1. nonFlush /= NoReq /\ Todo' = queue
        BY <1>1, NoReqType DEF Todo
  <2>2. queue \in Seq(WorkerRequest)
        BY <1>2 DEF TInv, TypeOK, WorkerType
  <2> QED BY <1>2, <2>1, <2>2, TodoFacts
<1>6. \A k \in 1..Len(Todo') : k + 1 \in 1..Len(Todo)
      BY <1>2, <1>5
<1>7. \A i : Pend(i)' => Pend(i)
      BY <1>5, <1>6 DEF Pend
<1>8. /\ OpeningInv' /\ UpInv' /\ FileInv' /\ FreshInv'
      /\ BatchInv' /\ BatchChain' /\ BatchPlace' = BatchPlace
      /\ LastFile' = LastFile
      /\ \A i \in fs'.names : Real(i)' => Real(i)
      /\ \A c \in Full : c.id \in fs'.names
      BY <1>7, RemoveFrame
<1>9. BatchPlace' = PlaceBefore(2)
  <2>1. Follows(Todo[1], PlaceBefore(1))
        BY <1>2 DEF PipeInv, TodoChain
  <2>2. PlaceOf(Todo[1]) = BatchPlace
        BY <1>1, <1>2, <2>1 DEF Follows, PlaceBefore
  <2> QED BY <1>8, <2>2 DEF PlaceBefore
<1>10. /\ MonoInv' /\ RemInv' /\ ClosedInv' /\ EndInv' /\ TodoChain'
       /\ \A k \in 2..Len(Todo') :
             IsAppend(Todo'[k]) => SyncWrite(Todo'[k - 1])
  <2>1. \A k \in 1..1 : k = 1
        OBVIOUS
  <2>2. \A k \in 1..1 : \A i \in fs'.names : i \notin Todo[k].ids
        BY <1>2, <1>3, <2>1
  <2>3. \A k \in 1..1 : ~IsAppend(Todo[k])
        BY <1>1, <1>2, <2>1 DEF IsAppend
  <2>4. \A k \in 1..Len(Todo') : After(LastFile', Todo[k + 1])
        BY <1>2, <1>6, <1>8 DEF PipeInv, MonoInv
  <2>5. LastFile <= LastFile' /\ LastFile' <= open.id /\ 1 + 1 = 2
        BY <1>2, <1>8 DEF PipeInv, MonoInv
  <2>6. /\ fs'.names \subseteq fs.names
        /\ \A i \in Ids : EndOf(fs', i) = EndOf(fs, i)
        BY <1>2 DEF EndOf
  <2> QED BY <1>1, <1>2, <1>4, <1>5, <1>8, <1>9, <2>2, <2>3, <2>4, <2>5,
             <2>6, ShiftFrame
<1>11. SyncInv'
  <2>1. ~SyncWrite(Todo[1])
        BY <1>1, <1>2 DEF SyncWrite
  <2>2. ASSUME Todo' /= <<>> PROVE ~IsAppend(Todo'[1])
    <3>1. 1 \in 1..Len(Todo') /\ 2 \in 2..Len(Todo) /\ 1 + 1 = 2 /\ 2 - 1 = 1
      <4>1. Len(Todo') >= 1
            BY <1>4, <2>2, TodoFactsNext
      <4> QED BY <1>2, <1>5, <4>1
    <3>2. Todo'[1] = Todo[2]
          BY <1>5, <3>1
    <3>3. IsAppend(Todo[2]) => SyncWrite(Todo[1])
          BY <1>2, <3>1 DEF PipeInv, SyncInv
    <3> QED BY <2>1, <3>2, <3>3
  <2>3. ASSUME pc \in {"rot_create", "rot_sync", "rot_append", "closing"}
        PROVE  Todo' /= <<>> /\ SyncWrite(Todo'[Len(Todo')])
    <3>1. SyncWrite(Todo[Len(Todo)])
          BY <1>2, <1>5, <2>3 DEF PipeInv, SyncInv
    <3>2. Len(Todo) /= 1
          BY <2>1, <3>1
    <3>3. Len(Todo') \in 1..Len(Todo') /\ Len(Todo') + 1 = Len(Todo)
          BY <1>2, <1>5, <3>2
    <3>4. Todo' /= <<>>
          BY <3>3
    <3> QED BY <1>5, <3>1, <3>3, <3>4
  <2> QED BY <1>1, <1>10, <2>2, <2>3 DEF SyncInv
<1> QED BY <1>2, <1>4, <1>8, <1>10, <1>11 DEF WInv, PipeInv

(* Another chunk of the request is left.                                   *)
LEMMA RemoveOneKeeps ==
    ASSUME WInv, RemoveChunk, nonFlush.ids /= {Min(nonFlush.ids)} PROVE WInv'
<1> DEFINE x == Min(nonFlush.ids)
<1>1. /\ wpc = "nonflush" /\ wpc' = wpc /\ nonFlush.kind = "remove"
      /\ nonFlush' = [nonFlush EXCEPT !.ids = nonFlush.ids \ {x}]
      /\ UNCHANGED <<pc, open, closed, rec, queue, rx>>
      BY DEF RemoveChunk, mainVars, chanVars
<1>2. /\ PipeInv /\ TInv /\ UpInv /\ rx /\ Todo[1] = nonFlush
      /\ Len(Todo) = Len(queue) + 1 /\ Len(Todo) \in Nat
      /\ 1 \in 1..Len(Todo) /\ LastFile \in Nat
      /\ fs'.names = fs.names \ {x} /\ fs'.file = fs.file
      /\ DiskInv(fs')
      BY RemoveFacts
<1> HIDE DEF x
<1>3. TInv' /\ rx'
      BY <1>1, <1>2, RemoveTypes
<1>4. /\ nonFlush \in WorkerRequest /\ queue \in Seq(WorkerRequest)
      /\ nonFlush' \in WorkerRequest
      BY <1>2, <1>3 DEF TInv, TypeOK, WorkerType
<1>5. /\ nonFlush'.kind = nonFlush.kind /\ nonFlush'.id = nonFlush.id
      /\ nonFlush'.upto = nonFlush.upto /\ nonFlush'.data = nonFlush.data
      /\ nonFlush'.sync = nonFlush.sync
      /\ nonFlush'.ids = nonFlush.ids \ {x}
      BY <1>1, <1>4 DEF WorkerRequest
<1>6. /\ Todo' = <<nonFlush'>> \o queue /\ Todo = <<nonFlush>> \o queue
      /\ Todo /= <<>> /\ Todo' /= <<>>
  <2>1. nonFlush /= NoReq /\ nonFlush' /= NoReq
        BY <1>1, <1>5, NoReqType
  <2>2. Todo' = <<nonFlush'>> \o queue /\ Todo = <<nonFlush>> \o queue
        BY <1>1, <2>1 DEF Todo
  <2> QED BY <1>4, <2>2
<1>7. /\ Len(Todo') = Len(Todo) /\ Todo'[1] = nonFlush'
      /\ \A k \in 1..Len(Todo) : k /= 1 => Todo'[k] = Todo[k]
      BY <1>4, <1>6
<1>8. \A k \in 1..Len(Todo) :
          /\ Todo'[k].kind = Todo[k].kind /\ Todo'[k].id = Todo[k].id
          /\ Todo'[k].upto = Todo[k].upto /\ Todo'[k].data = Todo[k].data
          /\ Todo'[k].sync = Todo[k].sync
          /\ Todo'[k].ids \subseteq Todo[k].ids
          /\ \A i \in fs'.names : i \in Todo[k].ids => i \in Todo'[k].ids
          /\ PlaceOf(Todo'[k]) = PlaceOf(Todo[k])
  <2>1. ASSUME NEW k \in 1..Len(Todo), k = 1
        PROVE  /\ Todo'[k].kind = Todo[k].kind /\ Todo'[k].id = Todo[k].id
               /\ Todo'[k].upto = Todo[k].upto
               /\ Todo'[k].data = Todo[k].data
               /\ Todo'[k].sync = Todo[k].sync
               /\ Todo'[k].ids \subseteq Todo[k].ids
               /\ \A i \in fs'.names : i \in Todo[k].ids => i \in Todo'[k].ids
        BY <1>2, <1>5, <1>7, <2>1
  <2> QED BY <1>7, <2>1 DEF PlaceOf
<1>9. \A i : Pend(i)' => Pend(i)
      BY <1>7, <1>8 DEF Pend, IsAppend
<1>10. /\ OpeningInv' /\ UpInv' /\ FileInv' /\ FreshInv'
       /\ BatchInv' /\ BatchChain' /\ BatchPlace' = BatchPlace
       /\ LastFile' = LastFile
       /\ \A i \in fs'.names : Real(i)' => Real(i)
       /\ \A c \in Full : c.id \in fs'.names
      BY <1>9, RemoveFrame
<1>11. MonoInv'
  <2>1. ASSUME NEW k \in 1..Len(Todo)
        PROVE  /\ After(LastFile, Todo'[k]) /\ Grows(Todo'[k])
               /\ Todo'[k].id <= open.id
               /\ Todo'[k].kind = "remove" \/ Todo'[k].ids = {}
    <3>1. /\ After(LastFile, Todo[k]) /\ Grows(Todo[k])
          /\ Todo[k].id <= open.id
          /\ Todo[k].kind = "remove" \/ Todo[k].ids = {}
          BY <1>2 DEF PipeInv, MonoInv
    <3> QED BY <1>8, <3>1 DEF After, Grows, IsAppend
  <2>2. ASSUME NEW k \in 1..Len(Todo), NEW m \in 1..Len(Todo), k < m
        PROVE  After(Todo'[k].id, Todo'[m])
    <3>1. After(Todo[k].id, Todo[m])
          BY <1>2, <2>2 DEF PipeInv, MonoInv
    <3> QED BY <1>8, <3>1 DEF After, IsAppend
  <2>3. LastFile <= open.id
        BY <1>2 DEF PipeInv, MonoInv
  <2> QED BY <1>1, <1>7, <1>10, <2>1, <2>2, <2>3 DEF MonoInv
<1>12. SyncInv'
  <2>1. \A k \in 1..Len(Todo) : /\ IsAppend(Todo'[k]) <=> IsAppend(Todo[k])
                                /\ SyncWrite(Todo'[k]) <=> SyncWrite(Todo[k])
        BY <1>8 DEF IsAppend, SyncWrite
  <2>2. ASSUME NEW k \in 2..Len(Todo), IsAppend(Todo'[k])
        PROVE  SyncWrite(Todo'[k - 1])
    <3>1. k \in 1..Len(Todo) /\ k - 1 \in 1..Len(Todo)
          BY <1>2
    <3> QED BY <1>2, <2>1, <2>2, <3>1 DEF PipeInv, SyncInv
  <2>3. ~IsAppend(Todo'[1])
        BY <1>1, <1>5, <1>7 DEF IsAppend
  <2>4. Len(Todo) \in 1..Len(Todo)
        BY <1>2
  <2>5. pc \in {"rot_create", "rot_sync", "rot_append", "closing"} =>
            SyncWrite(Todo'[Len(Todo')])
        BY <1>2, <1>6, <1>7, <2>1, <2>4 DEF PipeInv, SyncInv
  <2> QED BY <1>1, <1>6, <1>7, <2>2, <2>3, <2>5 DEF SyncInv
<1>13. RemInv'
  <2>1. ASSUME NEW k \in 1..Len(Todo), NEW y \in Todo'[k].ids
        PROVE  /\ y < Todo'[k].id
               /\ \A i \in fs'.names : Real(i)' /\ i < y =>
                     \E m \in 1..k : i \in Todo'[m].ids
    <3>1. y \in Todo[k].ids
          BY <1>8, <2>1
    <3>2. y < Todo'[k].id
          BY <1>2, <1>8, <3>1 DEF PipeInv, RemInv
    <3>3. ASSUME NEW i \in fs'.names, Real(i)', i < y
          PROVE  \E m \in 1..k : i \in Todo'[m].ids
      <4>1. i \in fs.names /\ Real(i)
            BY <1>2, <1>10, <3>3
      <4>2. PICK m \in 1..k : i \in Todo[m].ids
            BY <1>2, <3>1, <3>3, <4>1 DEF PipeInv, RemInv
      <4>3. m \in 1..Len(Todo)
            BY <1>2
      <4> QED BY <1>8, <4>2, <4>3
    <3> QED BY <3>2, <3>3
  <2>2. ASSUME NEW i \in fs'.names, Real(i)', i < open.id
        PROVE  \/ \E m \in 1..Len(Todo) : i \in Todo'[m].ids
               \/ \E c \in closed : c.id = i
               \/ pc = "rot_cp" /\ i = rec.prev
    <3>1. i \in fs.names /\ Real(i)
          BY <1>2, <1>10, <2>2
    <3> QED BY <1>2, <1>8, <2>2, <3>1 DEF PipeInv, RemInv
  <2> QED BY <1>1, <1>7, <2>1, <2>2 DEF RemInv
<1>14. Full' = Full
      BY <1>1 DEF Full
<1>15. ClosedInv'
      BY <1>2, <1>7, <1>8, <1>10, <1>14 DEF PipeInv, ClosedInv
<1>16. \A k \in 1..(Len(Todo) + 1) : PlaceBefore(k)' = PlaceBefore(k)
  <2>1. ASSUME NEW k \in 1..(Len(Todo) + 1), k /= 1
        PROVE  PlaceBefore(k)' = PlaceBefore(k)
    <3>1. k - 1 \in 1..Len(Todo)
          BY <1>2, <2>1
    <3>2. PlaceOf(Todo[k - 1])' = PlaceOf(Todo'[k - 1])
          BY DEF PlaceOf
    <3> QED BY <1>8, <2>1, <3>1, <3>2 DEF PlaceBefore
  <2>2. PlaceBefore(1)' = PlaceBefore(1)
        BY <1>10 DEF PlaceBefore
  <2> QED BY <2>1, <2>2
<1>17. \A k \in 1..Len(Todo) : k \in 1..(Len(Todo) + 1)
      BY <1>2
<1>18. EndInv'
  <2>1. \A i : EndOf(fs', i) = EndOf(fs, i)
        BY <1>2 DEF EndOf
  <2>2. ASSUME NEW c \in Full
        PROVE  \/ c.id < LastFile /\ EndOf(fs', c.id) = c.end
               \/ \E k \in 1..Len(Todo) : /\ IsAppend(Todo'[k])
                                          /\ PlaceBefore(k)' = Place(c.id, c.end)
    <3>1. CASE c.id < LastFile /\ EndOf(fs, c.id) = c.end
          BY <2>1, <3>1
    <3>2. ASSUME NEW k \in 1..Len(Todo), IsAppend(Todo[k]),
                 PlaceBefore(k) = Place(c.id, c.end)
          PROVE  IsAppend(Todo'[k]) /\ PlaceBefore(k)' = Place(c.id, c.end)
          BY <1>8, <1>16, <1>17, <3>2 DEF IsAppend
    <3> QED BY <1>2, <3>1, <3>2 DEF PipeInv, EndInv
  <2> QED BY <1>7, <1>10, <1>14, <2>2 DEF EndInv
<1>19. TodoChain'
  <2>1. ASSUME NEW k \in 1..Len(Todo)
        PROVE  Follows(Todo'[k], PlaceBefore(k)')
    <3>1. Follows(Todo[k], PlaceBefore(k))
          BY <1>2 DEF PipeInv, TodoChain
    <3> QED BY <1>8, <1>16, <1>17, <3>1 DEF Follows
  <2>2. (PlaceBefore(Len(Todo) + 1))' = PlaceBefore(Len(Todo) + 1)
    <3>1. Len(Todo) + 1 \in 1..(Len(Todo) + 1)
          BY <1>2
    <3>2. PICK m \in 1..(Len(Todo) + 1) : m = Len(Todo) + 1
          BY <3>1
    <3>3. (PlaceBefore(Len(Todo) + 1))' = PlaceBefore(m)'
          BY <1>7, <3>2 DEF PlaceBefore
    <3> QED BY <1>16, <3>2, <3>3
  <2>3. Place(open.id, OpenEnd - Len(open.pending))' =
            Place(open.id, OpenEnd - Len(open.pending))
        BY <1>1 DEF Place, OpenEnd
  <2>4. PlaceBefore(Len(Todo) + 1) =
            Place(open.id, OpenEnd - Len(open.pending))
        BY <1>2 DEF PipeInv, TodoChain
  <2> QED BY <1>7, <2>1, <2>2, <2>3, <2>4 DEF TodoChain
<1> QED BY <1>2, <1>3, <1>10, <1>11, <1>12, <1>13, <1>15, <1>18, <1>19
        DEF WInv, PipeInv

LEMMA WorkerKeeps == ASSUME WInv, WorkerNext PROVE WInv'
<1>1. ASSUME Recv PROVE WInv'
      BY <1>1, TakeNonFlushKeeps, TakeBatchKeeps DEF Recv
<1>2. ASSUME Callbacks PROVE WInv'
      BY <1>2, CallbacksKeeps, EndKeeps
<1>3. ASSUME RemoveChunk PROVE WInv'
      BY <1>3, RemoveOneKeeps, RemoveLastKeeps
<1> QED BY <1>1, <1>2, <1>3, WriteBatchKeeps, WriteBatchErrKeeps,
           SyncKeepsPipe, EndKeeps, AppendFileKeeps, RemoveSyncKeeps
        DEF WorkerNext

-----------------------------------------------------------------------------
(* The owner's calls.                                                      *)

(* A step of the owner that sends nothing: it may create a file that no    *)
(* request is for, or sync the directory.                                  *)
LEMMA QuietFrame ==
    ASSUME TInv, TInv', rx, PipeInv,
           UNCHANGED <<workVars, chanVars, closed, rec>>,
           open'.id = open.id, pc /= "rot_cp", pc' /= "rot_cp",
           OpenEnd' - Len(open'.pending) = OpenEnd - Len(open.pending),
           pc' \in {"rot_create", "rot_sync", "rot_append", "closing"} =>
               pc \in {"rot_create", "rot_sync", "rot_append", "closing"},
           fs.names \subseteq fs'.names,
           \A i \in fs.names : fs'.file[i] = fs.file[i],
           \A i \in fs'.names \ fs.names : ~Used(fs', i),
           FileInv', FreshInv'
    PROVE  PipeInv'
<1>1. /\ LastFile' = LastFile /\ Todo' = Todo /\ wpc' = wpc /\ batch' = batch
      /\ wrote' = wrote
      BY DEF workVars, chanVars, LastFile, Todo
<1>2. LastFile \in fs.names /\ fs.names \in fs.images
      BY Numbers DEF NumberFacts, PipeInv, FileInv
<1>3. \A i \in fs.names :
          /\ EndOf(fs', i) = EndOf(fs, i) /\ (Used(fs', i) <=> Used(fs, i))
          /\ Whole(fs', i) <=> Whole(fs, i)
      BY SameFile
<1>4. FilePlace' = FilePlace /\ BatchPlace' = BatchPlace
  <2>1. FilePlace' = FilePlace
        BY <1>1, <1>2, <1>3 DEF FilePlace
  <2> QED BY <1>1, <2>1 DEF BatchPlace, PlaceOf
<1>5. HeadSynced => HeadSynced'
      BY <1>1, <1>2, <1>3 DEF HeadSynced
<1>6. BatchInv'
      BY <1>1, <1>2 DEF PipeInv, BatchInv
<1>7. BatchChain'
      BY <1>1, <1>4 DEF PipeInv, BatchChain, PlaceOf
<1>8. MonoInv'
      BY <1>1 DEF PipeInv, MonoInv
<1>9. SyncInv'
      BY <1>1, <1>5 DEF PipeInv, SyncInv
<1>10. \A i : Pend(i)' <=> Pend(i)
      BY <1>1 DEF Pend
<1>11. ASSUME NEW i \in fs'.names, Real(i)'
       PROVE  i \in fs.names /\ Real(i)
  <2>1. CASE i \in fs.names
        BY <1>1, <1>3, <1>10, <1>11, <2>1 DEF Real
  <2>2. CASE i \notin fs.names
    <3>1. Pend(i)
          BY <1>1, <1>2, <1>10, <1>11, <2>2 DEF Real
    <3>2. i \in Ids
          BY NumbersNext DEF NumberFacts
    <3>3. i \in fs.names
          BY <1>2, <3>1, <3>2 DEF PipeInv, FreshInv
    <3> QED BY <2>2, <3>3
  <2> QED BY <2>1, <2>2
<1>12. RemInv'
      BY <1>1, <1>11 DEF PipeInv, RemInv
<1>13. Full' = Full
      BY DEF Full
<1>14. ClosedInv'
      BY <1>1, <1>13 DEF PipeInv, ClosedInv
<1>15. \A k : PlaceBefore(k)' = PlaceBefore(k)
      BY <1>1, <1>4 DEF PlaceBefore
<1>16. EndInv'
  <2>1. \A c \in Full : EndOf(fs', c.id) = EndOf(fs, c.id)
        BY <1>3 DEF PipeInv, ClosedInv
  <2> QED BY <1>1, <1>13, <1>15, <2>1 DEF PipeInv, EndInv
<1>17. TodoChain'
  <2>1. \A k \in 1..Len(Todo') : Follows(Todo'[k], PlaceBefore(k)')
        BY <1>1, <1>15 DEF PipeInv, TodoChain
  <2>2. (PlaceBefore(Len(Todo) + 1))' = PlaceBefore(Len(Todo) + 1)
        BY <1>1, <1>4 DEF PlaceBefore
  <2>3. Place(open.id, OpenEnd - Len(open.pending))' =
            Place(open.id, OpenEnd - Len(open.pending))
        BY DEF Place
  <2>4. PlaceBefore(Len(Todo) + 1) =
            Place(open.id, OpenEnd - Len(open.pending))
        BY DEF PipeInv, TodoChain
  <2> QED BY <2>1, <2>2, <2>3, <2>4 DEF TodoChain
<1> QED BY <1>6, <1>7, <1>8, <1>9, <1>12, <1>14, <1>16, <1>17 DEF PipeInv

LEMMA SoundUnchanged ==
    ASSUME UNCHANGED workVars, rx' = rx
    PROVE  WorkerSound' <=> WorkerSound
BY DEF workVars, WorkerSound

LEMMA AppendActionKeeps == ASSUME WInv, AppendAction PROVE WInv'
<1>1. /\ pc = "idle" /\ pc' = "idle" /\ fs' = fs
      /\ UNCHANGED <<workVars, chanVars, closed, rec>>
      BY DEF AppendAction
<1>2. TInv /\ UpInv /\ TInv' /\ DiskInv(fs)
      BY AppendActionTypes DEF WInv
<1>3. /\ open'.id = open.id /\ open'.n = open.n + 1
      /\ Len(open'.pending) = Len(open.pending) + 1
  <2>1. open' = [open EXCEPT !.n = open.n + 1,
                             !.pending = Append(open.pending, Action(nextAction))]
        BY DEF AppendAction
  <2>2. /\ open \in [id : Ids, n : Nat, pending : Seq(Record)]
        /\ Action(nextAction) \in Record
    <3>1. nextAction \in 1..MaxActions
          BY <1>2, WalAssumption DEF TInv, TypeOK, HistoryType, AppendAction
    <3> QED BY <1>2, <3>1, OpenFacts, RecordTypes
  <2> HIDE DEF Action
  <2>3. /\ open'.id = open.id /\ open'.n = open.n + 1
        /\ open'.pending = Append(open.pending, Action(nextAction))
        BY <2>1, <2>2
  <2>4. Len(Append(open.pending, Action(nextAction))) = Len(open.pending) + 1
        BY <2>2
  <2> QED BY <2>3, <2>4
<1>4. /\ open.id \in Nat /\ open.n \in Nat /\ Len(open.pending) \in Nat
      /\ OpenEnd = open.id + open.n /\ OpenEnd' = open'.id + open'.n
      BY <1>2, Numbers, NumbersNext DEF NumberFacts
<1>5. OpenEnd' - Len(open'.pending) = OpenEnd - Len(open.pending)
  <2>0. \A a, b \in Nat : a + (b + 1) = (a + b) + 1 /\ a + b \in Nat
        OBVIOUS
  <2>1. OpenEnd' = OpenEnd + 1 /\ OpenEnd \in Nat
        BY <1>3, <1>4, <2>0
  <2>2. \A a, b \in Nat : (a + 1) - (b + 1) = a - b
        OBVIOUS
  <2> QED BY <1>3, <1>4, <2>1, <2>2
<1>6. UpInv' /\ OpeningInv'
  <2>1. open'.n > 0 /\ Len(open'.pending) < open'.n
        BY <1>1, <1>2, <1>3, <1>4 DEF UpInv, UpPCs
  <2>2. UpInv'
        BY <1>1, <1>2, <1>3, <2>1 DEF UpInv, UpPCs
  <2>3. pc' \in UpPCs
        BY <1>1 DEF UpPCs
  <2> QED BY <2>2, <2>3, UpIsNotOpening
<1>7. WorkerSound' => PipeInv'
  <2>1. SUFFICES ASSUME WorkerSound' PROVE PipeInv'
        OBVIOUS
  <2>2. WorkerSound /\ rx /\ PipeInv
        BY <1>1, <2>1, SoundUnchanged DEF WInv, WorkerSound, chanVars
  <2>3. LastFile' = LastFile /\ Todo' = Todo
        BY <1>1 DEF workVars, chanVars, LastFile, Todo
  <2>4. FileInv'
        BY <1>1, <1>3, <2>2, <2>3 DEF PipeInv, FileInv
  <2>5. FreshInv'
        BY <1>1, <2>2, <2>3 DEF PipeInv, FreshInv, Pend
  <2> QED BY <1>1, <1>2, <1>3, <1>5, <2>2, <2>4, <2>5, QuietFrame
<1> QED BY <1>1, <1>2, <1>6, <1>7 DEF WInv

LEMMA RotateCreateKeeps == ASSUME WInv, RotateCreate PROVE WInv'
<1>1. /\ pc = "rot_create" /\ pc' \in {"rot_sync", "idle"}
      /\ UNCHANGED <<workVars, chanVars, closed, rec, open>>
      BY DEF RotateCreate
<1>2. TInv /\ UpInv /\ TInv' /\ DiskInv(fs)
      BY RotateFileTypes DEF WInv
<1>3. /\ OpenEnd' = OpenEnd /\ open.id \in Nat /\ open.n \in Nat
      /\ OpenEnd = open.id + open.n /\ open.n > 0 /\ open.id < OpenEnd
      /\ DiskType(fs, Record) /\ pc' \in UpPCs /\ pc \in UpPCs
      /\ fs.names \in fs.images /\ open.pending = <<>>
      /\ \A dir \in fs.images : \A i \in dir : i \in Ids /\ i \in Nat
  <2>1. /\ open.id \in Nat /\ open.n \in Nat /\ OpenEnd = open.id + open.n
        /\ DiskType(fs, Record) /\ fs.names \in fs.images
        /\ \A dir \in fs.images : \A i \in dir : i \in Ids /\ i \in Nat
        BY <1>2, Numbers DEF NumberFacts
  <2>2. OpenEnd' = OpenEnd /\ pc' \in UpPCs /\ pc \in UpPCs
        BY <1>1 DEF OpenEnd, UpPCs
  <2>3. open.n > 0 /\ open.pending = <<>>
        BY <1>1, <1>2, <2>2 DEF UpInv
  <2> QED BY <2>1, <2>2, <2>3
<1>4. WorkerSound' => WorkerSound /\ rx /\ PipeInv
      BY <1>1, SoundUnchanged DEF WInv, WorkerSound, chanVars
<1>5. LastFile' = LastFile /\ Todo' = Todo
      BY <1>1 DEF workVars, chanVars, LastFile, Todo
<1>6. CASE fs' = fs /\ pc' = "idle"
  <2>1. UpInv' /\ OpeningInv'
        BY <1>1, <1>2, <1>3, <1>6, UpIsNotOpening DEF UpInv
  <2>2. ASSUME WorkerSound' PROVE PipeInv'
    <3>1. rx /\ PipeInv
          BY <1>4, <2>2
    <3>2. FileInv' /\ FreshInv'
          BY <1>1, <1>5, <1>6, <3>1 DEF PipeInv, FileInv, FreshInv, Pend
    <3> QED BY <1>1, <1>2, <1>3, <1>6, <3>1, <3>2, QuietFrame
  <2> QED BY <1>2, <1>6, <2>1, <2>2 DEF WInv
<1>7. CASE /\ OpenEnd \in Ids \ fs.names /\ fs' = CreateFile(fs, OpenEnd)
           /\ pc' = "rot_sync"
  <2>1. /\ fs'.names = fs.names \union {OpenEnd}
        /\ fs'.images = fs.images \union {fs.names \union {OpenEnd}}
        /\ fs'.file[OpenEnd] = NoFile
        /\ \A k \in Ids \ {OpenEnd} : fs'.file[k] = fs.file[k]
        BY <1>3, <1>7, CreateFileFacts
  <2>2. \A dir \in fs.images : \A i \in dir : Used(fs, i) => i <= open.id
        BY <1>2, <1>3 DEF UpInv
  <2>3. DiskInv(fs')
    <3>1. \A dir \in fs.images : OpenEnd \in dir => ~Used(fs, OpenEnd)
          BY <1>3, <2>2
    <3> QED BY <1>2, <1>3, <1>7, <3>1, CreateKeepsRule
  <2>4. /\ ~Used(fs', OpenEnd)
        /\ \A k \in Ids : k /= OpenEnd =>
              /\ EndOf(fs', k) = EndOf(fs, k) /\ (Used(fs', k) <=> Used(fs, k))
              /\ Whole(fs', k) <=> Whole(fs, k)
    <3>1. ~Used(fs', OpenEnd)
          BY <2>1 DEF Used, NoFile
    <3> QED BY <2>1, <3>1, SameFile
  <2>5. UpInv' /\ OpeningInv'
    <3>1. ASSUME NEW dir \in fs'.images, NEW i \in dir, Used(fs', i)
          PROVE  i <= open.id
      <4>1. i /= OpenEnd
            BY <2>4, <3>1
      <4>2. \E d \in fs.images : i \in d
            BY <1>3, <2>1, <4>1
      <4> QED BY <1>3, <2>2, <2>4, <3>1, <4>1, <4>2
    <3>2. OpenEnd' \in fs'.names
          BY <1>3, <2>1
    <3> QED BY <1>1, <1>2, <1>3, <1>7, <3>1, <3>2, UpIsNotOpening DEF UpInv
  <2>6. ASSUME WorkerSound' PROVE PipeInv'
    <3>1. rx /\ PipeInv /\ LastFile \in Nat /\ LastFile \in Ids
          /\ LastFile <= open.id
          BY <1>2, <1>4, <2>6, Numbers DEF NumberFacts, PipeInv, MonoInv
    <3>2. ASSUME NEW dir \in fs'.images
          PROVE  /\ LastFile \in dir /\ Below(fs', dir, LastFile)
                 /\ \A i \in dir : i > LastFile => ~Used(fs', i)
      <4>1. PICK d \in fs.images : dir = d \/ dir = d \union {OpenEnd}
            BY <1>3, <2>1
      <4>2. /\ LastFile \in d /\ Below(fs, d, LastFile)
            /\ \A i \in d : i > LastFile => ~Used(fs, i)
            BY <3>1 DEF PipeInv, FileInv
      <4>3. \A i \in dir : i < LastFile => i \in d /\ i \in Ids /\ i /= OpenEnd
            BY <1>3, <3>1, <4>1
      <4>4. Below(fs', dir, LastFile)
            BY <2>4, <4>1, <4>2, <4>3 DEF Below
      <4>5. \A i \in dir : i > LastFile => ~Used(fs', i)
            BY <1>3, <2>4, <4>1, <4>2
      <4> QED BY <4>1, <4>2, <4>4, <4>5
    <3>3. FileInv'
          BY <1>1, <1>5, <2>1, <3>1, <3>2 DEF PipeInv, FileInv
    <3>4. FreshInv'
      <4>1. \A i \in Ids : Pend(i)' => Pend(i)
            BY <1>5 DEF Pend
      <4>2. \A i \in Ids : Pend(i)' => \A dir \in fs'.images : i \in dir
        <5>1. \A i \in Ids : Pend(i) => \A dir \in fs.images : i \in dir
              BY <3>1 DEF PipeInv, FreshInv
        <5> QED BY <1>3, <2>1, <4>1, <5>1
      <4>3. \A i \in Ids : fs.file[i] = NoFile => fs'.file[i] = NoFile
            BY <2>1
      <4>4. ASSUME \E i \in Ids : Pend(i)', NEW dir \in fs'.images,
                   NEW i \in dir, i > LastFile
            PROVE  fs'.file[i] = NoFile
        <5>1. CASE i = OpenEnd
              BY <2>1, <5>1
        <5>2. CASE i /= OpenEnd
          <6>1. \E d \in fs.images : i \in d
                BY <1>3, <2>1, <5>2
          <6>2. fs.file[i] = NoFile
                BY <3>1, <4>1, <4>4, <6>1 DEF PipeInv, FreshInv
          <6> QED BY <1>3, <4>3, <6>1, <6>2
        <5> QED BY <5>1, <5>2
      <4>5. \A i \in fs'.names : i > LastFile => fs'.file[i] = NoFile
            BY <1>3, <2>1, <3>1, <4>3 DEF PipeInv, FreshInv
      <4> QED BY <1>5, <1>7, <4>2, <4>4, <4>5 DEF FreshInv
    <3>5. /\ fs.names \subseteq fs'.names
          /\ \A i \in fs.names : fs'.file[i] = fs.file[i]
          /\ \A i \in fs'.names \ fs.names : ~Used(fs', i)
          BY <1>3, <1>7, <2>1, <2>4
    <3> QED BY <1>1, <1>2, <1>3, <1>7, <3>1, <3>3, <3>4, <3>5, QuietFrame
  <2> QED BY <1>2, <2>3, <2>5, <2>6 DEF WInv
<1> QED BY <1>6, <1>7 DEF RotateCreate

LEMMA RotateSyncKeeps == ASSUME WInv, RotateSync PROVE WInv'
<1>1. /\ pc = "rot_sync" /\ pc' \in {"rot_append", "idle"}
      /\ UNCHANGED <<workVars, chanVars, closed, rec, open>>
      BY DEF RotateSync
<1>2. TInv /\ UpInv /\ TInv' /\ DiskInv(fs)
      BY RotateFileTypes DEF WInv
<1>3. /\ OpenEnd' = OpenEnd /\ DiskType(fs, Record) /\ fs.names \in fs.images
      /\ pc' \in UpPCs /\ pc \in UpPCs
  <2>1. DiskType(fs, Record) /\ fs.names \in fs.images
        BY <1>2, Numbers DEF NumberFacts
  <2> QED BY <1>1, <2>1 DEF OpenEnd, UpPCs
<1>4. WorkerSound' => WorkerSound /\ rx /\ PipeInv
      BY <1>1, SoundUnchanged DEF WInv, WorkerSound, chanVars
<1>5. LastFile' = LastFile /\ Todo' = Todo
      BY <1>1 DEF workVars, chanVars, LastFile, Todo
<1>6. CASE fs' = fs /\ pc' = "idle"
  <2>1. UpInv' /\ OpeningInv'
        BY <1>1, <1>2, <1>3, <1>6, UpIsNotOpening DEF UpInv
  <2>2. ASSUME WorkerSound' PROVE PipeInv'
    <3>1. rx /\ PipeInv
          BY <1>4, <2>2
    <3>2. FileInv' /\ FreshInv'
          BY <1>1, <1>5, <1>6, <3>1 DEF PipeInv, FileInv, FreshInv, Pend
    <3> QED BY <1>1, <1>2, <1>3, <1>6, <3>1, <3>2, QuietFrame
  <2> QED BY <1>2, <1>6, <2>1, <2>2 DEF WInv
<1>7. CASE fs' = SyncDir(fs) /\ pc' = "rot_append"
  <2>1. /\ fs'.names = fs.names /\ fs'.images = {fs.names}
        /\ \A k \in fs.names : fs'.file[k] = fs.file[k]
        BY <1>3, <1>7, SyncDirFacts
  <2>2. DiskInv(fs')
        BY <1>2, <1>3, <1>7, SyncDirKeepsRule
  <2>3. \A k \in fs.names :
            /\ EndOf(fs', k) = EndOf(fs, k) /\ (Used(fs', k) <=> Used(fs, k))
            /\ Whole(fs', k) <=> Whole(fs, k)
        BY <2>1, SameFile
  <2>4. UpInv' /\ OpeningInv'
        BY <1>1, <1>2, <1>3, <1>7, <2>1, <2>3, UpIsNotOpening DEF UpInv
  <2>5. ASSUME WorkerSound' PROVE PipeInv'
    <3>1. rx /\ PipeInv
          BY <1>4, <2>5
    <3>2. /\ LastFile \in fs.names /\ Below(fs', fs.names, LastFile)
          /\ \A i \in fs.names : i > LastFile => ~Used(fs', i)
          BY <1>3, <2>3, <3>1, BelowKept DEF PipeInv, FileInv
    <3>3. FileInv'
          BY <1>1, <1>5, <2>1, <3>1, <3>2 DEF PipeInv, FileInv
    <3>4. FreshInv'
          BY <1>3, <1>5, <2>1, <3>1 DEF PipeInv, FreshInv, Pend
    <3> QED BY <1>1, <1>2, <1>3, <1>7, <2>1, <3>1, <3>3, <3>4, QuietFrame
  <2> QED BY <1>2, <2>2, <2>4, <2>5 DEF WInv
<1> QED BY <1>6, <1>7 DEF RotateSync

(* A request is sent: it goes on where the last one ends.                  *)
LEMMA SendFrame ==
    ASSUME TInv, TInv', PipeInv, UpInv, pc \in UpPCs,
           NEW req \in WorkerRequest, SendOk(req), UNCHANGED workVars,
           fs' = fs, open'.id \in fs.names,
           Follows(req, Place(open.id, OpenEnd - Len(open.pending))),
           PlaceOf(req) = Place(open'.id, OpenEnd' - Len(open'.pending)),
           Grows(req), open.id <= open'.id,
           req.kind = "remove" \/ req.ids = {},
           IsAppend(req) => pc = "rot_append" /\ open.id < open'.id
                            /\ open'.id = OpenEnd,
           pc' /= "rot_append",
           pc' \in {"rot_create", "rot_sync", "closing"} => SyncWrite(req)
    PROVE  /\ FileInv' /\ BatchInv' /\ BatchChain' /\ MonoInv' /\ FreshInv'
           /\ SyncInv' /\ TodoChain'
           /\ \A k \in 1..(Len(Todo) + 1) : PlaceBefore(k)' = PlaceBefore(k)
           /\ \A i : Real(i)' => Real(i) \/ (IsAppend(req) /\ i = req.id)
<1> DEFINE n == Len(Todo)
<1>1. /\ LastFile' = LastFile /\ wpc' = wpc /\ batch' = batch
      /\ wrote' = wrote /\ rx /\ nonFlush' = nonFlush
      BY DEF workVars, SendOk, LastFile
<1>2. /\ Len(Todo') = n + 1 /\ Todo'[n + 1] = req
      /\ \A k \in 1..n : Todo'[k] = Todo[k]
      /\ 1..Len(Todo') = (1..n) \union {n + 1}
      BY TodoAppend
<1>3. /\ n \in Nat /\ \A k \in 1..n : Todo[k] \in WorkerRequest
      /\ Todo /= <<>> <=> n > 0
      BY TodoFacts
<1>4. /\ LastFile \in Nat /\ open.id \in Nat /\ open'.id \in Nat
      /\ LastFile <= open.id /\ req.id = open'.id
      /\ \A k \in 1..n : Todo[k].id \in Nat /\ Todo[k].id <= open.id
  <2>1. LastFile \in Nat /\ open.id \in Nat /\ open'.id \in Nat
        BY <1>1, Numbers, NumbersNext DEF NumberFacts
  <2>2. req.id = open'.id
        BY DEF PlaceOf, Place
  <2>3. \A k \in 1..n : Todo[k].id \in Nat
        BY <1>3, RequestFacts
  <2> QED BY <2>1, <2>2, <2>3 DEF PipeInv, MonoInv
<1>5. FilePlace' = FilePlace /\ BatchPlace' = BatchPlace
  <2>1. FilePlace' = FilePlace
        BY <1>1 DEF FilePlace
  <2> QED BY <1>1, <2>1 DEF BatchPlace, PlaceOf
<1>6. HeadSynced' <=> HeadSynced
      BY <1>1 DEF HeadSynced
<1>7. FileInv'
      BY <1>1 DEF PipeInv, FileInv
<1>8. BatchInv' /\ BatchChain'
  <2>1. BatchInv'
        BY <1>1 DEF PipeInv, BatchInv
  <2>2. BatchChain'
        BY <1>1, <1>5 DEF PipeInv, BatchChain, PlaceOf
  <2> QED BY <2>1, <2>2
<1>9. MonoInv'
  <2>1. ASSUME NEW id \in Nat, id <= open.id
        PROVE  After(id, req)
        BY <1>4, <2>1 DEF After
  <2>2. ASSUME NEW k \in 1..n
        PROVE  /\ After(LastFile, Todo[k]) /\ Grows(Todo[k])
               /\ Todo[k].id <= open'.id
               /\ Todo[k].kind = "remove" \/ Todo[k].ids = {}
        BY <1>4 DEF PipeInv, MonoInv
  <2>3. req.id <= open'.id /\ LastFile <= open'.id
        BY <1>4
  <2>4. \A k \in 1..Len(Todo') :
            /\ After(LastFile, Todo'[k]) /\ Grows(Todo'[k])
            /\ Todo'[k].id <= open'.id
            /\ Todo'[k].kind = "remove" \/ Todo'[k].ids = {}
        BY <1>2, <1>4, <2>1, <2>2, <2>3
  <2>5. ASSUME NEW k \in 1..Len(Todo'), NEW m \in 1..Len(Todo'), k < m
        PROVE  After(Todo'[k].id, Todo'[m])
    <3>1. k \in 1..n
          BY <1>2, <1>3, <2>5
    <3>2. CASE m = n + 1
          BY <1>2, <1>4, <2>1, <3>1, <3>2
    <3>3. CASE m \in 1..n
          BY <1>2, <2>5, <3>1, <3>3 DEF PipeInv, MonoInv
    <3> QED BY <1>2, <3>2, <3>3
  <2> QED BY <1>1, <2>3, <2>4, <2>5 DEF MonoInv
<1>10. \A i : Pend(i)' => Pend(i) \/ (IsAppend(req) /\ i = req.id)
      BY <1>2 DEF Pend
<1>11. FreshInv'
  <2>1. ASSUME NEW i \in Ids, Pend(i)', NEW dir \in fs.images
        PROVE  i \in dir
    <3>1. CASE Pend(i)
          BY <3>1 DEF PipeInv, FreshInv
    <3>2. CASE IsAppend(req) /\ i = req.id
          BY <1>4, <3>2 DEF UpInv
    <3> QED BY <1>10, <2>1, <3>1, <3>2
  <2>2. ASSUME \E i \in Ids : Pend(i)', NEW dir \in fs.images, NEW i \in dir,
               i > LastFile
        PROVE  fs.file[i] = NoFile
    <3>1. pc = "rot_append" \/ \E j \in Ids : Pend(j)
          BY <1>10, <2>2
    <3> QED BY <2>2, <3>1 DEF PipeInv, FreshInv
  <2>3. \A i \in fs.names : i > LastFile => fs.file[i] = NoFile
        BY DEF PipeInv, FreshInv
  <2> QED BY <1>1, <2>1, <2>2, <2>3 DEF FreshInv
<1>12. SyncInv'
  <2>1. ASSUME NEW k \in 2..Len(Todo'), IsAppend(Todo'[k])
        PROVE  SyncWrite(Todo'[k - 1])
    <3>1. k - 1 \in 1..n /\ k \in 1..Len(Todo')
          BY <1>2, <1>3
    <3>2. CASE k = n + 1
      <4>1. pc = "rot_append" /\ Todo /= <<>> /\ k - 1 = n
            BY <1>2, <1>3, <2>1, <3>1, <3>2
      <4>2. SyncWrite(Todo[n])
            BY <4>1 DEF PipeInv, SyncInv
      <4> QED BY <1>2, <3>1, <4>1, <4>2
    <3>3. CASE k \in 1..n
      <4>1. k \in 2..n
            BY <1>3, <3>3
      <4> QED BY <1>2, <2>1, <3>1, <3>3, <4>1 DEF PipeInv, SyncInv
    <3> QED BY <1>2, <3>1, <3>2, <3>3
  <2>2. ASSUME IsAppend(Todo'[1]) PROVE HeadSynced'
    <3>1. CASE n = 0
      <4>1. Todo'[1] = req /\ Todo = <<>>
            BY <1>2, <1>3, <3>1
      <4> QED BY <1>6, <2>2, <4>1 DEF PipeInv, SyncInv
    <3>2. CASE n /= 0
      <4>1. 1 \in 1..n /\ Todo /= <<>>
            BY <1>3, <3>2
      <4> QED BY <1>2, <1>6, <2>2, <4>1 DEF PipeInv, SyncInv
    <3> QED BY <3>1, <3>2
  <2>3. pc' \in {"rot_create", "rot_sync", "rot_append", "closing"} =>
            Todo' /= <<>> /\ SyncWrite(Todo'[Len(Todo')])
    <3>1. Todo' /= <<>>
          BY <1>2, <1>3
    <3> QED BY <1>2, <3>1
  <2> QED BY <2>1, <2>2, <2>3 DEF SyncInv
<1>13. \A k \in 1..(n + 1) : PlaceBefore(k)' = PlaceBefore(k)
  <2>1. ASSUME NEW k \in 1..(n + 1), k /= 1
        PROVE  PlaceBefore(k)' = PlaceBefore(k)
    <3>1. k - 1 \in 1..n
          BY <1>3, <2>1
    <3>2. PlaceOf(Todo[k - 1])' = PlaceOf(Todo'[k - 1])
          BY DEF PlaceOf
    <3> QED BY <1>2, <2>1, <3>1, <3>2 DEF PlaceBefore
  <2>2. PlaceBefore(1)' = PlaceBefore(1)
        BY <1>5 DEF PlaceBefore
  <2> QED BY <2>1, <2>2
<1>14. TodoChain'
  <2>1. ASSUME NEW k \in 1..Len(Todo')
        PROVE  Follows(Todo'[k], PlaceBefore(k)')
    <3>1. k \in 1..(n + 1)
          BY <1>2
    <3>2. CASE k \in 1..n
      <4>1. Follows(Todo[k], PlaceBefore(k))
            BY <3>2 DEF PipeInv, TodoChain
      <4> QED BY <1>2, <1>13, <3>1, <3>2, <4>1
    <3>3. CASE k = n + 1
      <4>1. PlaceBefore(k) = Place(open.id, OpenEnd - Len(open.pending))
            BY <3>3 DEF PipeInv, TodoChain
      <4>2. Follows(req, PlaceBefore(k))
            BY <4>1
      <4> QED BY <1>2, <1>13, <3>1, <3>3, <4>2
    <3> QED BY <1>2, <3>2, <3>3
  <2>2. (PlaceBefore(Len(Todo) + 1))' = PlaceOf(req)
    <3>1. Len(Todo') + 1 /= 1 /\ (Len(Todo') + 1) - 1 = n + 1
          BY <1>2, <1>3
    <3>2. (PlaceBefore(Len(Todo) + 1))' = PlaceOf(Todo'[n + 1])
          BY <3>1 DEF PlaceBefore, PlaceOf
    <3> QED BY <1>2, <3>2
  <2>3. Place(open.id, OpenEnd - Len(open.pending))' = PlaceOf(req)
        BY DEF Place
  <2> QED BY <2>1, <2>2, <2>3 DEF TodoChain
<1>15. \A i : Real(i)' => Real(i) \/ (IsAppend(req) /\ i = req.id)
      BY <1>1, <1>10 DEF Real
<1> QED BY <1>7, <1>8, <1>9, <1>11, <1>12, <1>13, <1>14, <1>15

(* The ends of the chunks before the open one, seen from a longer Todo.    *)
LEMMA EndsKept ==
    ASSUME TInv, TInv', rx, NEW req \in WorkerRequest, SendOk(req),
           UNCHANGED workVars, fs' = fs, EndInv,
           \A k \in 1..(Len(Todo) + 1) : PlaceBefore(k)' = PlaceBefore(k),
           NEW c \in Full
    PROVE  \/ c.id < LastFile' /\ EndOf(fs', c.id) = c.end
           \/ \E k \in 1..Len(Todo') :
                 IsAppend(Todo'[k]) /\ PlaceBefore(k)' = Place(c.id, c.end)
<1>1. /\ Len(Todo') = Len(Todo) + 1 /\ Len(Todo) \in Nat
      /\ \A k \in 1..Len(Todo) : Todo'[k] = Todo[k]
      BY TodoAppend, TodoFacts
<1>2. LastFile' = LastFile
      BY DEF workVars, LastFile
<1>3. ASSUME NEW k \in 1..Len(Todo), IsAppend(Todo[k]),
             PlaceBefore(k) = Place(c.id, c.end)
      PROVE  \E j \in 1..Len(Todo') :
                IsAppend(Todo'[j]) /\ PlaceBefore(j)' = Place(c.id, c.end)
  <2>1. k \in 1..Len(Todo') /\ k \in 1..(Len(Todo) + 1)
        BY <1>1
  <2> QED BY <1>1, <1>3, <2>1
<1> QED BY <1>2, <1>3 DEF EndInv

(* The pending buffer is sent.                                             *)
LEMMA PendingKeeps ==
    ASSUME TInv, TInv', PipeInv, UpInv, pc \in UpPCs, TakePending,
           NEW s \in BOOLEAN, NEW b \in BOOLEAN, SendOk(PendingReq(s, b)),
           UNCHANGED workVars, fs' = fs, Full' = Full, pc' /= "rot_cp",
           pc /= "rot_cp" => closed' = closed,
           pc' \notin {"rot_append", "rot_sync"},
           pc' \in {"rot_create", "closing"} => s
    PROVE  PipeInv'
<1> DEFINE req == PendingReq(s, b)
<1>1. /\ req \in WorkerRequest /\ req.kind = "write" /\ req.id = open.id
      /\ req.upto = OpenEnd /\ req.data = open.pending /\ req.sync = s
      /\ req.ids = {}
      BY OpenFacts DEF PendingReq, WriteReq
<1>2. /\ open'.id = open.id /\ open'.n = open.n /\ open'.pending = <<>>
      /\ OpenEnd' = OpenEnd
      BY TakePendingType
<1>3. /\ open.id \in Nat /\ open.n \in Nat /\ OpenEnd = open.id + open.n
      /\ Len(open.pending) \in Nat /\ open.n > 0
      BY Numbers DEF NumberFacts, UpInv
<1>4. SendOk(req) /\ rx
      BY DEF SendOk
<1> HIDE DEF req
<1>5. Follows(req, Place(open.id, OpenEnd - Len(open.pending)))
  <2>1. (OpenEnd - Len(open.pending)) + Len(open.pending) = OpenEnd
        BY <1>3
  <2> QED BY <1>1, <2>1 DEF Follows, PlaceOf, Place
<1>6. PlaceOf(req) = Place(open'.id, OpenEnd' - Len(open'.pending))
  <2>1. OpenEnd' - Len(open'.pending) = OpenEnd
        BY <1>2, <1>3
  <2> QED BY <1>1, <1>2, <2>1 DEF PlaceOf, Place
<1>7. Grows(req) /\ ~IsAppend(req) /\ (SyncWrite(req) <=> s)
      BY <1>1, <1>3 DEF Grows, IsAppend, SyncWrite
<1>8. open'.id \in fs.names /\ open.id <= open'.id
      BY <1>2, <1>3 DEF PipeInv, FileInv
<1>9. /\ FileInv' /\ BatchInv' /\ BatchChain' /\ MonoInv' /\ FreshInv'
      /\ SyncInv' /\ TodoChain'
      /\ \A k \in 1..(Len(Todo) + 1) : PlaceBefore(k)' = PlaceBefore(k)
      /\ \A i : Real(i)' => Real(i)
      BY <1>1, <1>4, <1>5, <1>6, <1>7, <1>8, SendFrame
<1>10. /\ Len(Todo') = Len(Todo) + 1 /\ Todo'[Len(Todo) + 1] = req
       /\ \A k \in 1..Len(Todo) : Todo'[k] = Todo[k]
       /\ 1..Len(Todo') = (1..Len(Todo)) \union {Len(Todo) + 1}
       /\ Len(Todo) \in Nat
      BY <1>1, <1>4, TodoAppend, TodoFacts
<1>11. RemInv'
  <2>1. ASSUME NEW k \in 1..Len(Todo'), NEW x \in Todo'[k].ids
        PROVE  /\ x < Todo'[k].id
               /\ \A i \in fs.names : Real(i)' /\ i < x =>
                     \E m \in 1..k : i \in Todo'[m].ids
    <3>1. k \in 1..Len(Todo) /\ Todo'[k] = Todo[k]
          BY <1>1, <1>10, <2>1
    <3>2. \A m \in 1..k : Todo'[m] = Todo[m]
          BY <1>10, <3>1
    <3> QED BY <1>9, <2>1, <3>1, <3>2 DEF PipeInv, RemInv
  <2>2. ASSUME NEW i \in fs.names, Real(i)', i < open'.id
        PROVE  \/ \E m \in 1..Len(Todo') : i \in Todo'[m].ids
               \/ \E c \in closed' : c.id = i
    <3>1. \/ \E m \in 1..Len(Todo) : i \in Todo[m].ids
          \/ \E c \in closed : c.id = i
          \/ pc = "rot_cp" /\ i = rec.prev
          BY <1>2, <1>9, <2>2 DEF PipeInv, RemInv
    <3>2. ASSUME NEW m \in 1..Len(Todo), i \in Todo[m].ids
          PROVE  \E j \in 1..Len(Todo') : i \in Todo'[j].ids
          BY <1>10, <3>2
    <3>3. closed' = Full
          BY DEF Full
    <3>4. \/ \E m \in 1..Len(Todo) : i \in Todo[m].ids
          \/ \E c \in Full : c.id = i
      <4>1. CASE pc = "rot_cp"
        <5>1. /\ [id |-> rec.prev, end |-> open.id] \in Full
              /\ closed \subseteq Full
              BY <4>1 DEF Full
        <5>2. [id |-> rec.prev, end |-> open.id].id = rec.prev
              OBVIOUS
        <5> QED BY <3>1, <5>1, <5>2
      <4>2. CASE pc /= "rot_cp"
            BY <3>1, <4>2 DEF Full
      <4> QED BY <4>1, <4>2
    <3> QED BY <3>2, <3>3, <3>4
  <2> QED BY <2>1, <2>2 DEF RemInv
<1>12. ClosedInv'
  <2>1. \A c \in Full : \A m \in 1..Len(Todo') : c.id \notin Todo'[m].ids
        BY <1>1, <1>10 DEF PipeInv, ClosedInv
  <2> QED BY <2>1 DEF PipeInv, ClosedInv
<1>13. EndInv'
  <2>1. ASSUME NEW c \in Full
        PROVE  \/ c.id < LastFile' /\ EndOf(fs', c.id) = c.end
               \/ \E k \in 1..Len(Todo') : /\ IsAppend(Todo'[k])
                                           /\ PlaceBefore(k)' = Place(c.id, c.end)
    <3>1. EndInv
          BY DEF PipeInv
    <3> QED BY <1>1, <1>4, <1>9, <3>1, EndsKept
  <2> QED BY <2>1 DEF EndInv
<1> QED BY <1>9, <1>11, <1>12, <1>13 DEF PipeInv

LEMMA SendPendingKeeps ==
    ASSUME WInv,
           \/ \E sync \in BOOLEAN : SendPending(sync)
           \/ RotateFlush \/ RotateCheckpoint \/ ShutdownSend
    PROVE  WInv'
<1>1. /\ pc \in UpPCs /\ pc' \in {"idle", "rot_create", "closing"}
      /\ UNCHANGED <<workVars, fs>> /\ TakePending /\ pc' \in UpPCs
      /\ pc /= "rot_cp" => closed' = closed /\ rec' = rec
      BY DEF SendPending, RotateFlush, RotateCheckpoint, ShutdownSend, UpPCs
<1>2. TInv /\ UpInv /\ TInv' /\ DiskInv(fs)
      BY SendPendingTypes DEF WInv
<1>3. /\ open'.id = open.id /\ open'.n = open.n /\ open'.pending = <<>>
      /\ OpenEnd' = OpenEnd
      BY <1>1, <1>2, TakePendingType
<1>4. \/ SendErr
      \/ /\ \E s, b \in BOOLEAN : /\ SendOk(PendingReq(s, b))
                                  /\ pc' \in {"rot_create", "closing"} => s
         /\ pc = "rot_cp" =>
               closed' = closed \union {[id |-> rec.prev, end |-> open.id]}
      BY DEF SendPending, RotateFlush, RotateCheckpoint, ShutdownSend
<1>5. /\ closed' \subseteq closed \union {[id |-> rec.prev, end |-> open.id]}
      /\ pc /= "rot_cp" => closed' = closed
      BY DEF SendPending, RotateFlush, RotateCheckpoint, ShutdownSend
<1>6. UpInv' /\ OpeningInv'
  <2>1. \A c \in closed' : c.id < open.id
    <3>1. \A c \in closed : c.id < open.id
          BY <1>1, <1>2 DEF UpInv
    <3>2. pc = "rot_cp" => rec.prev < open.id
          BY <1>1, <1>2 DEF UpInv
    <3>3. [id |-> rec.prev, end |-> open.id].id = rec.prev
          OBVIOUS
    <3> QED BY <1>5, <3>1, <3>2, <3>3
  <2>2. open'.n > 0 /\ Len(open'.pending) < open'.n
        BY <1>1, <1>2, <1>3 DEF UpInv
  <2>3. pc' \notin {"rot_cp", "rot_sync", "rot_append"}
        BY <1>1
  <2>4. \A dir \in fs'.images : \A i \in dir : Used(fs', i) => i <= open'.id
        BY <1>1, <1>2, <1>3 DEF UpInv
  <2>5. UpInv'
        BY <1>3, <2>1, <2>2, <2>3, <2>4 DEF UpInv
  <2> QED BY <1>1, <2>5, UpIsNotOpening
<1>7. WorkerSound' => PipeInv'
  <2>1. SUFFICES ASSUME WorkerSound' PROVE PipeInv'
        OBVIOUS
  <2>2. ~SendErr
        BY <2>1 DEF SendErr, chanVars, WorkerSound
  <2>3. PICK s \in BOOLEAN, b \in BOOLEAN :
            SendOk(PendingReq(s, b)) /\ (pc' \in {"rot_create", "closing"} => s)
        BY <1>4, <2>2
  <2>4. WorkerSound /\ PipeInv
        BY <1>1, <2>1, <2>3, SoundUnchanged DEF WInv, SendOk
  <2>5. Full' = Full
    <3>1. CASE pc = "rot_cp"
          BY <1>1, <1>4, <2>2, <3>1 DEF Full
    <3>2. CASE pc /= "rot_cp"
          BY <1>1, <3>2 DEF Full
    <3> QED BY <3>1, <3>2
  <2> QED BY <1>1, <1>2, <2>3, <2>4, <2>5, PendingKeeps
<1> QED BY <1>1, <1>2, <1>6, <1>7 DEF WInv

LEMMA RotateAppendKeeps == ASSUME WInv, RotateAppend PROVE WInv'
<1>1. /\ pc = "rot_append" /\ pc' \in {"idle", "rot_cp"}
      /\ UNCHANGED <<workVars, fs, closed>> /\ pc' \in UpPCs /\ pc \in UpPCs
      BY DEF RotateAppend, UpPCs
<1>2. TInv /\ UpInv /\ TInv' /\ DiskInv(fs)
      BY RotateAppendTypes DEF WInv
<1>3. /\ open.id \in Nat /\ open.n \in Nat /\ OpenEnd = open.id + open.n
      /\ open.n > 0 /\ open.pending = <<>> /\ open.id < OpenEnd
      /\ OpenEnd \in fs.names /\ OpenEnd \in Nat /\ OpenEnd \in Ids
      /\ \A dir \in fs.images : OpenEnd \in dir
      /\ \A i \in fs.names : i \in Nat
  <2>1. /\ open.id \in Nat /\ open.n \in Nat /\ OpenEnd = open.id + open.n
        /\ \A i \in fs.names : i \in Nat /\ i \in Ids
        BY <1>2, Numbers DEF NumberFacts
  <2>2. /\ open.n > 0 /\ open.pending = <<>> /\ OpenEnd \in fs.names
        /\ \A dir \in fs.images : OpenEnd \in dir
        BY <1>1, <1>2 DEF UpInv
  <2> QED BY <2>1, <2>2
<1>4. CASE SendErr /\ pc' = "idle" /\ UNCHANGED <<open, openSync, rec>>
  <2>1. UpInv'
        BY <1>1, <1>2, <1>4 DEF UpInv
  <2>2. ~WorkerSound'
        BY <1>4 DEF SendErr, chanVars, WorkerSound
  <2> QED BY <1>1, <1>2, <2>1, <2>2, UpIsNotOpening DEF WInv
<1>5. CASE /\ SendOk(AppendFileReq(OpenEnd))
           /\ open' = [id |-> OpenEnd, n |-> 1,
                       pending |-> <<Checkpoint(sm)>>]
           /\ rec' = [NoRec EXCEPT !.prev = open.id]
           /\ pc' = "rot_cp"
  <2>1. /\ open'.id = OpenEnd /\ open'.n = 1 /\ Len(open'.pending) = 1
        /\ rec'.prev = open.id
        BY <1>5 DEF NoRec
  <2>2. OpenEnd' = OpenEnd + 1 /\ OpenEnd' - Len(open'.pending) = OpenEnd
        /\ OpenEnd - Len(open.pending) = OpenEnd
    <3>1. OpenEnd' = OpenEnd + 1
          BY <2>1 DEF OpenEnd
    <3> QED BY <1>3, <2>1, <3>1
  <2>3. UpInv' /\ OpeningInv'
    <3>1. ASSUME NEW dir \in fs.images, NEW i \in dir, Used(fs, i)
          PROVE  i <= OpenEnd /\ i \in Nat /\ i <= open.id
      <4>1. i \in Nat /\ i <= open.id
            BY <1>1, <1>2, <3>1, Numbers DEF NumberFacts, UpInv
      <4> QED BY <1>3, <4>1
    <3>2. ASSUME NEW c \in closed PROVE c.id < OpenEnd
      <4>1. c.id \in Nat /\ c.id < open.id
            BY <1>1, <1>2, Numbers DEF NumberFacts, UpInv
      <4> QED BY <1>3, <4>1
    <3>3. open'.n > 0 /\ rec'.prev < open'.id
          BY <1>3, <2>1
    <3>4. UpInv'
          BY <1>1, <1>5, <2>1, <3>1, <3>2, <3>3 DEF UpInv
    <3> QED BY <1>1, <3>4, UpIsNotOpening
  <2>4. ASSUME WorkerSound' PROVE PipeInv'
    <3> DEFINE req == AppendFileReq(OpenEnd)
    <3>1. /\ req \in WorkerRequest /\ req.kind = "append"
          /\ req.id = OpenEnd /\ req.upto = OpenEnd /\ req.ids = {}
          BY <1>3, AppendFileReqType DEF AppendFileReq
    <3>2. SendOk(req) /\ rx /\ PipeInv
          BY <1>1, <1>5, <2>4, SoundUnchanged DEF WInv, SendOk
    <3> HIDE DEF req
    <3>3. /\ Follows(req, Place(open.id, OpenEnd - Len(open.pending)))
          /\ PlaceOf(req) = Place(open'.id, OpenEnd' - Len(open'.pending))
          BY <2>1, <2>2, <3>1 DEF Follows, PlaceOf, Place
    <3>4. /\ Grows(req) /\ IsAppend(req) /\ open.id <= open'.id
          /\ open'.id \in fs.names /\ open.id < open'.id
          BY <1>3, <2>1, <3>1 DEF Grows, IsAppend
    <3>5. /\ FileInv' /\ BatchInv' /\ BatchChain' /\ MonoInv' /\ FreshInv'
          /\ SyncInv' /\ TodoChain'
          /\ \A k \in 1..(Len(Todo) + 1) : PlaceBefore(k)' = PlaceBefore(k)
          /\ \A i : Real(i)' => Real(i) \/ i = OpenEnd
          BY <1>1, <1>2, <1>5, <2>1, <3>1, <3>2, <3>3, <3>4, SendFrame
    <3>6. /\ Len(Todo') = Len(Todo) + 1 /\ Todo'[Len(Todo) + 1] = req
          /\ \A k \in 1..Len(Todo) : Todo'[k] = Todo[k]
          /\ 1..Len(Todo') = (1..Len(Todo)) \union {Len(Todo) + 1}
          /\ Len(Todo) \in Nat
          BY <1>1, <1>2, <3>1, <3>2, TodoAppend, TodoFacts
    <3>7. RemInv'
      <4>1. ASSUME NEW k \in 1..Len(Todo'), NEW x \in Todo'[k].ids
            PROVE  /\ x < Todo'[k].id
                   /\ \A i \in fs.names : Real(i)' /\ i < x =>
                         \E m \in 1..k : i \in Todo'[m].ids
        <5>1. k \in 1..Len(Todo) /\ Todo'[k] = Todo[k]
              BY <3>1, <3>6, <4>1
        <5>2. \A m \in 1..k : Todo'[m] = Todo[m]
              BY <3>6, <5>1
        <5>3. /\ x < Todo[k].id
              /\ \A i \in fs.names : Real(i) /\ i < x =>
                    \E m \in 1..k : i \in Todo[m].ids
              BY <3>2, <4>1, <5>1 DEF PipeInv, RemInv
        <5>4. x < OpenEnd /\ x \in Nat
          <6>1. Todo[k] \in WorkerRequest /\ Todo[k].id <= open.id
                BY <1>2, <3>2, <5>1, TodoFacts DEF PipeInv, MonoInv
          <6>2. Todo[k].id \in Nat /\ x \in Ids
                BY <4>1, <5>1, <6>1, RequestFacts
          <6>3. x \in Nat
                BY <6>2, DiskAssumption DEF Ids
          <6> QED BY <1>3, <5>3, <6>1, <6>2, <6>3
        <5>5. \A i \in fs.names : i < x => i /= OpenEnd
              BY <1>3, <5>4
        <5> QED BY <3>5, <5>1, <5>2, <5>3, <5>5
      <4>2. ASSUME NEW i \in fs.names, Real(i)', i < OpenEnd
            PROVE  \/ \E m \in 1..Len(Todo') : i \in Todo'[m].ids
                   \/ \E c \in closed : c.id = i
                   \/ i = open.id
        <5>1. Real(i) /\ i \in Nat
              BY <1>3, <3>5, <4>2
        <5>2. i <= open.id
          <6>1. Used(fs, i) => i <= open.id
                BY <1>1, <1>2, Numbers DEF NumberFacts, UpInv
          <6>2. LastFile <= open.id /\ (Pend(i) => i <= open.id)
                BY <3>2 DEF PipeInv, MonoInv, Pend
          <6> QED BY <5>1, <6>1, <6>2 DEF Real
        <5>3. CASE i < open.id
          <6>1. \/ \E m \in 1..Len(Todo) : i \in Todo[m].ids
                \/ \E c \in closed : c.id = i
                BY <1>1, <3>2, <5>1, <5>3 DEF PipeInv, RemInv
          <6>2. ASSUME NEW m \in 1..Len(Todo), i \in Todo[m].ids
                PROVE  \E j \in 1..Len(Todo') : i \in Todo'[j].ids
                BY <3>6, <6>2
          <6> QED BY <6>1, <6>2
        <5> QED BY <1>3, <5>1, <5>2, <5>3
      <4> QED BY <1>1, <1>5, <2>1, <4>1, <4>2 DEF RemInv
    <3> DEFINE new == [id |-> open.id, end |-> OpenEnd]
    <3>8. new.id = open.id /\ new.end = OpenEnd
          OBVIOUS
    <3>9. Full = closed /\ Full' = closed \union {new}
          BY <1>1, <1>5, <2>1 DEF Full
    <3> HIDE DEF new
    <3>10. ClosedInv'
      <4>1. \A c \in closed : /\ c.id \in fs.names
                              /\ \A m \in 1..Len(Todo') : c.id \notin Todo'[m].ids
            BY <3>1, <3>2, <3>6, <3>9 DEF PipeInv, ClosedInv
      <4>2. \A m \in 1..Len(Todo) : open.id \notin Todo[m].ids
        <5>1. ASSUME NEW m \in 1..Len(Todo), open.id \in Todo[m].ids
              PROVE  FALSE
          <6>1. open.id < Todo[m].id /\ Todo[m].id <= open.id
                BY <3>2, <5>1 DEF PipeInv, RemInv, MonoInv
          <6>2. Todo[m].id \in Nat
                BY <1>2, <5>1, TodoFacts, RequestFacts
          <6> QED BY <1>3, <6>1, <6>2
        <5> QED BY <5>1
      <4>3. /\ open.id \in fs.names
            /\ \A m \in 1..Len(Todo') : open.id \notin Todo'[m].ids
            BY <3>1, <3>2, <3>6, <4>2 DEF PipeInv, FileInv
      <4> QED BY <1>1, <3>8, <3>9, <4>1, <4>3 DEF ClosedInv
    <3>11. EndInv'
      <4>1. ASSUME NEW c \in closed
            PROVE  \/ c.id < LastFile' /\ EndOf(fs', c.id) = c.end
                   \/ \E k \in 1..Len(Todo') :
                         /\ IsAppend(Todo'[k])
                         /\ PlaceBefore(k)' = Place(c.id, c.end)
        <5>1. EndInv /\ c \in Full
              BY <3>2, <3>9 DEF PipeInv
        <5> QED BY <1>1, <1>2, <3>1, <3>2, <3>5, <5>1, EndsKept
      <4>2. \E k \in 1..Len(Todo') :
               /\ IsAppend(Todo'[k])
               /\ PlaceBefore(k)' = Place(new.id, new.end)
        <5>1. PICK k \in 1..Len(Todo') : k = Len(Todo) + 1
              BY <3>6
        <5>2. k \in 1..(Len(Todo) + 1) /\ IsAppend(Todo'[k])
              BY <3>4, <3>6, <5>1
        <5>3. PlaceBefore(k) = Place(open.id, OpenEnd)
              BY <2>2, <3>2, <5>1 DEF PipeInv, TodoChain
        <5> QED BY <3>5, <3>8, <5>2, <5>3
      <4> QED BY <3>9, <4>1, <4>2 DEF EndInv
    <3> QED BY <3>5, <3>7, <3>10, <3>11 DEF PipeInv
  <2> QED BY <1>1, <1>2, <2>3, <2>4 DEF WInv
<1> QED BY <1>4, <1>5 DEF RotateAppend

LEMMA RemoveChunksKeeps ==
    ASSUME WInv, NEW c \in closed, RemoveChunks(c) PROVE WInv'
<1> DEFINE ids == {d.id : d \in Drained(c)}
           req == RemoveReq(open.id, OpenEnd - Len(open.pending), ids)
<1>1. /\ pc = "idle" /\ pc' = pc /\ pc \in UpPCs
      /\ closed' = closed \ Drained(c)
      /\ SendOk(req) \/ SendErr
      /\ UNCHANGED <<workVars, fs, open, rec>>
      BY DEF RemoveChunks, UpPCs
<1>2. TInv /\ UpInv /\ TInv' /\ DiskInv(fs)
      BY RemoveChunksTypes DEF WInv
<1>3. /\ open.id \in Nat /\ open.n \in Nat /\ OpenEnd = open.id + open.n
      /\ Len(open.pending) \in Nat /\ Len(open.pending) < open.n
      /\ OpenEnd' = OpenEnd /\ open.id \in Ids
      /\ \A d \in closed : d.id \in Nat /\ d.id \in Ids /\ d.id < open.id
      /\ \A i \in fs.names : i \in Nat
  <2>1. /\ open.id \in Nat /\ open.n \in Nat /\ OpenEnd = open.id + open.n
        /\ Len(open.pending) \in Nat
        /\ \A d \in closed : d.id \in Nat /\ d.id \in Ids
        /\ \A i \in fs.names : i \in Nat
        BY <1>2, Numbers DEF NumberFacts
  <2>2. /\ Len(open.pending) < open.n /\ \A d \in closed : d.id < open.id
        BY <1>1, <1>2 DEF UpInv
  <2>3. OpenEnd' = OpenEnd /\ open.id \in Ids
        BY <1>1, <1>2, OpenFacts DEF OpenEnd
  <2> QED BY <2>1, <2>2, <2>3
<1>4. UpInv' /\ OpeningInv'
      BY <1>1, <1>2, <1>3, UpIsNotOpening DEF UpInv
<1>5. ASSUME WorkerSound' PROVE PipeInv'
  <2>1. SendOk(req) /\ rx
        BY <1>1, <1>5 DEF SendErr, SendOk, chanVars, WorkerSound
  <2>2. PipeInv
        BY <1>1, <1>5, <2>1, SoundUnchanged DEF WInv, SendOk
  <2>3. /\ ids \in SUBSET Ids
        /\ \A d \in closed : d.id <= c.id => d.id \in ids
        /\ \A x \in ids : /\ x < open.id /\ x \in Nat /\ x <= c.id
                          /\ \E d \in Drained(c) : x = d.id
        BY <1>3 DEF Drained
  <2>4. /\ OpenEnd - Len(open.pending) \in Nat
        /\ open.id < OpenEnd - Len(open.pending)
        BY <1>3
  <2> HIDE DEF ids
  <2>5. /\ req \in WorkerRequest /\ req.kind = "remove"
        /\ req.id = open.id /\ req.upto = OpenEnd - Len(open.pending)
        /\ req.ids = ids
    <3>1. req \in WorkerRequest
          BY <1>3, <2>3, <2>4, RemoveReqType
    <3> QED BY <3>1 DEF RemoveReq
  <2> HIDE DEF req
  <2>6. /\ Follows(req, Place(open.id, OpenEnd - Len(open.pending)))
        /\ PlaceOf(req) = Place(open'.id, OpenEnd' - Len(open'.pending))
        BY <1>1, <1>3, <2>5 DEF Follows, PlaceOf, Place
  <2>7. Grows(req) /\ ~IsAppend(req) /\ open'.id \in fs.names
        /\ open.id <= open'.id
        BY <1>1, <1>3, <2>2, <2>4, <2>5
        DEF Grows, IsAppend, PipeInv, FileInv
  <2>8. /\ FileInv' /\ BatchInv' /\ BatchChain' /\ MonoInv' /\ FreshInv'
        /\ SyncInv' /\ TodoChain'
        /\ \A k \in 1..(Len(Todo) + 1) : PlaceBefore(k)' = PlaceBefore(k)
        /\ \A i : Real(i)' => Real(i)
        BY <1>1, <1>2, <2>1, <2>2, <2>5, <2>6, <2>7, SendFrame
  <2>9. /\ Len(Todo') = Len(Todo) + 1 /\ Todo'[Len(Todo) + 1] = req
        /\ \A k \in 1..Len(Todo) : Todo'[k] = Todo[k]
        /\ 1..Len(Todo') = (1..Len(Todo)) \union {Len(Todo) + 1}
        /\ Len(Todo) \in Nat
        BY <1>1, <1>2, <2>1, <2>5, TodoAppend, TodoFacts
  <2>10. RemInv'
    <3>1. ASSUME NEW k \in 1..Len(Todo), NEW x \in Todo'[k].ids
          PROVE  /\ x < Todo'[k].id
                 /\ \A i \in fs.names : Real(i)' /\ i < x =>
                       \E m \in 1..k : i \in Todo'[m].ids
      <4>1. Todo'[k] = Todo[k] /\ \A m \in 1..k : Todo'[m] = Todo[m]
            BY <2>9
      <4> QED BY <2>2, <2>8, <3>1, <4>1 DEF PipeInv, RemInv
    <3>2. ASSUME NEW i \in fs.names, Real(i), i < open.id
          PROVE  \/ \E m \in 1..Len(Todo) : i \in Todo[m].ids
                 \/ \E d \in closed : d.id = i
          BY <1>1, <2>2, <3>2 DEF PipeInv, RemInv
    <3>3. ASSUME NEW x \in ids, NEW i \in fs.names, Real(i), i < x
          PROVE  \E m \in 1..(Len(Todo) + 1) : i \in Todo'[m].ids
      <4>1. i < open.id /\ i <= c.id
        <5>1. i \in Nat /\ x \in Nat /\ c.id \in Nat /\ x < open.id
              /\ x <= c.id
              BY <1>3, <2>3
        <5> QED BY <1>3, <3>3, <5>1
      <4>2. CASE \E m \in 1..Len(Todo) : i \in Todo[m].ids
            BY <2>9, <4>2
      <4>3. CASE \E d \in closed : d.id = i
        <5>1. i \in ids
              BY <2>3, <4>1, <4>3
        <5> QED BY <2>5, <2>9, <5>1
      <4> QED BY <3>2, <3>3, <4>1, <4>2, <4>3
    <3>4. ASSUME NEW x \in Todo'[Len(Todo) + 1].ids
          PROVE  /\ x < Todo'[Len(Todo) + 1].id
                 /\ \A i \in fs.names : Real(i)' /\ i < x =>
                       \E m \in 1..(Len(Todo) + 1) : i \in Todo'[m].ids
          BY <2>3, <2>5, <2>8, <2>9, <3>3, <3>4
    <3>5. ASSUME NEW i \in fs.names, Real(i)', i < open.id
          PROVE  \/ \E m \in 1..Len(Todo') : i \in Todo'[m].ids
                 \/ \E d \in closed' : d.id = i
      <4>1. CASE \E m \in 1..Len(Todo) : i \in Todo[m].ids
            BY <2>9, <4>1
      <4>2. ASSUME NEW d \in closed, d.id = i
            PROVE  i \in ids \/ d \in closed'
            BY <1>1, <2>3, <4>2 DEF Drained
      <4>3. i \in ids => \E m \in 1..Len(Todo') : i \in Todo'[m].ids
            BY <2>5, <2>9
      <4> QED BY <2>8, <3>2, <3>5, <4>1, <4>2, <4>3
    <3>6. \A k \in 1..Len(Todo') : \A x \in Todo'[k].ids :
             /\ x < Todo'[k].id
             /\ \A i \in fs.names : Real(i)' /\ i < x =>
                   \E m \in 1..k : i \in Todo'[m].ids
          BY <2>9, <3>1, <3>4
    <3> QED BY <1>1, <3>5, <3>6 DEF RemInv
  <2>11. Full = closed /\ Full' = closed' /\ closed' \subseteq closed
         BY <1>1 DEF Full
  <2>12. ClosedInv'
    <3>1. ASSUME NEW d \in closed'
          PROVE  /\ d.id \in fs.names
                 /\ \A m \in 1..Len(Todo') : d.id \notin Todo'[m].ids
      <4>1. /\ d.id \in fs.names
            /\ \A m \in 1..Len(Todo) : d.id \notin Todo[m].ids
            BY <2>2, <2>11 DEF PipeInv, ClosedInv
      <4>2. d.id \notin ids
        <5>1. ~(d.id <= c.id)
              BY <1>1, <3>1 DEF Drained
        <5> QED BY <2>3, <5>1
      <4> QED BY <2>5, <2>9, <4>1, <4>2
    <3> QED BY <1>1, <2>11, <3>1 DEF ClosedInv
  <2>13. EndInv'
    <3>1. ASSUME NEW d \in closed'
          PROVE  \/ d.id < LastFile' /\ EndOf(fs', d.id) = d.end
                 \/ \E k \in 1..Len(Todo') :
                       /\ IsAppend(Todo'[k])
                       /\ PlaceBefore(k)' = Place(d.id, d.end)
      <4>1. EndInv /\ d \in Full
            BY <2>2, <2>11 DEF PipeInv
      <4> QED BY <1>1, <1>2, <2>1, <2>5, <2>8, <4>1, EndsKept
    <3> QED BY <2>11, <3>1 DEF EndInv
  <2> QED BY <2>8, <2>10, <2>12, <2>13 DEF PipeInv
<1> QED BY <1>1, <1>2, <1>4, <1>5 DEF WInv

(* The process is gone: nothing is known but the directory.                *)
LEMMA VanishKeeps ==
    ASSUME Vanish, TInv', DiskInv(fs') PROVE WInv'
<1>1. pc' = "down" /\ ~WorkerSound'
      BY DEF Vanish, WorkerSound
<1>2. OpeningInv' /\ UpInv'
      BY <1>1 DEF OpeningInv, TrimInv, ScanInv, CreateInv, Scanning, Creating,
                  UpInv, UpPCs
<1> QED BY <1>1, <1>2 DEF WInv

(* shutdown is called.                                                     *)
LEMMA ShutdownKeeps == ASSUME WInv, Shutdown PROVE WInv'
<1>1. /\ pc = "idle" /\ pc' = "shutdown" /\ pc \in UpPCs /\ pc' \in UpPCs
      /\ UNCHANGED <<fs, open, closed, rec, workVars, chanVars>>
      BY DEF Shutdown, UpPCs
<1>2. TInv /\ TInv' /\ UpInv /\ DiskInv(fs')
      BY <1>1, ShutdownTypes DEF WInv
<1>3. OpenEnd' = OpenEnd
      BY <1>1 DEF OpenEnd
<1>4. UpInv' /\ OpeningInv'
      BY <1>1, <1>2, <1>3, UpIsNotOpening DEF UpInv
<1>5. ASSUME WorkerSound' PROVE PipeInv'
  <2>1. rx /\ PipeInv
        BY <1>1, <1>5, SoundUnchanged DEF WInv, WorkerSound, chanVars
  <2>2. LastFile' = LastFile /\ Todo' = Todo
        BY <1>1 DEF LastFile, Todo, workVars, chanVars
  <2>3. FileInv' /\ FreshInv'
    <3>1. \A i : Pend(i)' <=> Pend(i)
          BY <2>2 DEF Pend
    <3> QED BY <1>1, <2>1, <2>2, <3>1 DEF PipeInv, FileInv, FreshInv
  <2> QED BY <1>1, <1>2, <1>3, <2>1, <2>3, QuietFrame
<1> QED BY <1>2, <1>4, <1>5 DEF WInv

(* The codec encodes every checkpoint: a full chunk always joins closed.   *)
LEMMA EncodesAlways ==
    ASSUME "encode" \notin Faults PROVE ~RotateEncodeErr
BY DEF RotateEncodeErr, Fault

LEMMA OwnerKeeps ==
    ASSUME "encode" \notin Faults, WInv, OwnerNext PROVE WInv'
<1>1. ASSUME Join PROVE WInv'
  <2>1. Vanish /\ fs' = fs
        BY <1>1 DEF Join
  <2>2. TInv'
        BY <1>1, JoinTypes DEF WInv
  <2> QED BY <2>1, <2>2, VanishKeeps DEF WInv
<1>2. ASSUME \/ \E sync \in BOOLEAN : SendPending(sync)
             \/ RotateFlush \/ RotateCheckpoint \/ ShutdownSend
      PROVE  WInv'
      BY <1>2, SendPendingKeeps
<1> QED BY <1>1, <1>2, AppendActionKeeps, RotateCreateKeeps, RotateSyncKeeps,
           RotateAppendKeeps, EncodesAlways, RemoveChunksKeeps,
           ShutdownKeeps DEF OwnerNext

-----------------------------------------------------------------------------
(* Opening.                                                                *)
LEMMA OpenFrame ==
    ASSUME pc' \in OpenPCs, TInv', DiskInv(fs'), OpeningInv' PROVE WInv'
<1>1. ~WorkerSound' /\ UpInv'
      BY DEF TInv, Control, WorkerSound, UpInv, OpenPCs, UpPCs
<1> QED BY <1>1 DEF WInv

LEMMA LoadKeeps == ASSUME WInv, LoadChunkIds PROVE WInv'
<1>1. /\ pc' = "trim" /\ fs' = fs /\ closed' = {}
      /\ \E t \in Truncates :
            rec' = [NoRec EXCEPT !.todo = fs.names, !.truncate = t]
      BY DEF LoadChunkIds
<1>2. TInv' /\ DiskInv(fs')
      BY <1>1, LoadTypes DEF WInv
<1>3. rec'.todo = fs.names /\ rec'.prev = -1 /\ ~rec'.truncated
      BY <1>1 DEF NoRec
<1>4. OpeningInv'
      BY <1>1, <1>3
      DEF OpeningInv, TrimInv, ScanInv, CreateInv, Scanning, Creating
<1> QED BY <1>1, <1>2, <1>4, OpenFrame DEF OpenPCs

LEMMA TrimTailKeeps == ASSUME WInv, TrimTail PROVE WInv'
<1> DEFINE last == Max(rec.todo)
<1>1. /\ pc = "trim" /\ closed' = closed
      /\ pc' \in {"scan", "failed", "trimsync"}
      BY DEF TrimTail
<1>2. /\ TInv /\ TInv' /\ DiskInv(fs) /\ DiskType(fs, Record)
      /\ rec.todo = fs.names /\ closed = {} /\ rec.prev = -1
      /\ ~rec.truncated /\ fs.names \in fs.images
      /\ \A i \in fs.names : i \in Nat /\ i \in Ids
      BY <1>1, TrimTypes, Numbers
      DEF WInv, OpeningInv, TrimInv, NumberFacts
<1>3. rec.todo /= {} => /\ last \in fs.names /\ last \in Ids /\ last \in Nat
                        /\ \A i \in fs.names : i <= last
      BY <1>2, LastChunk
<1> HIDE DEF last
<1>4. CASE /\ rec.todo = {} \/ HasCompleteInitialRecord(last)
           /\ pc' = "scan" /\ UNCHANGED <<fs, rec>>
  <2>1. ScanInv'
    <3>1. ASSUME rec.todo /= {}
          PROVE  \E t \in rec.todo : /\ Used(fs, t)
                                     /\ \A u \in rec.todo : u <= t
      <4>1. Used(fs, last)
            BY <1>4, <3>1 DEF HasCompleteInitialRecord, Used
      <4> QED BY <1>2, <1>3, <3>1, <4>1
    <3> QED BY <1>1, <1>2, <1>4, <3>1 DEF ScanInv
  <2>2. OpeningInv'
        BY <1>1, <1>2, <1>4, <2>1
        DEF OpeningInv, TrimInv, CreateInv, Creating
  <2> QED BY <1>2, <1>4, <2>2, OpenFrame DEF OpenPCs
<1>5. CASE pc' = "failed" /\ UNCHANGED <<fs, rec>>
  <2>1. OpeningInv'
        BY <1>5
        DEF OpeningInv, TrimInv, ScanInv, CreateInv, Scanning, Creating
  <2> QED BY <1>2, <1>5, <2>1, OpenFrame DEF OpenPCs
<1>6. CASE /\ rec.todo /= {} /\ ~HasCompleteInitialRecord(last)
           /\ fs' = RemoveFile(fs, last)
           /\ rec' = [rec EXCEPT !.todo = @ \ {last}]
           /\ pc' = "trimsync"
  <2>1. fs'.names = fs.names \ {last}
        BY <1>2, <1>6, RemoveFileFacts
  <2>2. ~Used(fs, last)
        BY <1>6 DEF HasCompleteInitialRecord, Used
  <2>3. ASSUME NEW k \in fs.names, NEW j \in fs.names,
               EndOf(fs, k) = last, k < j, Used(fs, j)
        PROVE  j = last
    <3>1. EndOf(fs, k) <= j
          BY <1>2, <2>3 DEF DiskInv, ImageRule, Below
    <3>2. last <= j /\ j <= last /\ j \in Nat /\ last \in Nat
          BY <1>2, <1>3, <1>6, <2>3, <3>1
    <3> QED BY <3>2
  <2>4. DiskInv(fs')
        BY <1>2, <1>3, <1>6, <2>2, <2>3, RemoveKeepsRule
  <2>5. /\ rec'.todo = rec.todo \ {last} /\ rec'.prev = rec.prev
        /\ rec'.truncated = rec.truncated
        BY <1>2, <1>6, RecFacts DEF OpenLocals
  <2>6. OpeningInv'
        BY <1>1, <1>2, <1>6, <2>1, <2>5
        DEF OpeningInv, TrimInv, ScanInv, CreateInv, Scanning, Creating
  <2> QED BY <1>2, <1>6, <2>4, <2>6, OpenFrame DEF OpenPCs
<1> QED BY <1>4, <1>5, <1>6 DEF TrimTail, last

LEMMA TrimSyncKeeps == ASSUME WInv, TrimSync PROVE WInv'
<1>1. /\ pc = "trimsync" /\ pc' = "trim" /\ fs' = SyncDir(fs)
      /\ UNCHANGED <<closed, rec>>
      BY DEF TrimSync
<1>2. TInv /\ TInv' /\ DiskInv(fs) /\ DiskType(fs, Record)
      BY TrimTypes, Numbers DEF WInv, NumberFacts
<1>3. fs'.names = fs.names /\ DiskInv(fs')
      BY <1>1, <1>2, SyncDirFacts, SyncDirKeepsRule
<1>4. OpeningInv'
      BY <1>1, <1>3
      DEF WInv, OpeningInv, TrimInv, ScanInv, CreateInv, Scanning, Creating
<1> QED BY <1>1, <1>2, <1>3, <1>4, OpenFrame DEF OpenPCs

(* A step of the scan that leaves what was read and what is to be read.    *)
LEMMA ScanFrame ==
    ASSUME ScanInv, pc \in Scanning, pc' \in Scanning, pc \notin Creating,
           closed' = closed, rec'.todo = rec.todo, rec'.prev = rec.prev,
           fs'.names = fs.names,
           \A i \in fs.names : fs'.file[i].data = fs.file[i].data
    PROVE  ScanInv'
<1>1. \A i \in fs.names : /\ EndOf(fs', i) = EndOf(fs, i)
                          /\ Used(fs', i) <=> Used(fs, i)
      BY DEF EndOf, Used
<1> QED BY <1>1 DEF ScanInv

LEMMA ScanChunkKeeps == ASSUME WInv, ScanChunk PROVE WInv'
<1> DEFINE x == Min(rec.todo)
<1>1. /\ pc = "scan" /\ closed' = closed /\ rec.todo /= {}
      /\ pc' \in {"failed", "truncsync", "replay"}
      BY DEF ScanChunk
<1>2. /\ TInv /\ TInv' /\ DiskInv(fs) /\ DiskType(fs, Record)
      /\ fs.names \in fs.images /\ ScanInv /\ CreateInv
      /\ \A i \in fs.names : i \in Nat /\ i \in Ids
      BY <1>1, ScanTypes, Numbers DEF WInv, OpeningInv, NumberFacts
<1>3. /\ x \in rec.todo /\ x \in Ids /\ \A i \in rec.todo : x <= i
      /\ rec.todo \subseteq fs.names
      BY <1>1, <1>2, NextChunk DEF ScanInv, Scanning
<1>4. CASE pc' = "failed" /\ UNCHANGED <<fs, rec>>
  <2>1. OpeningInv'
        BY <1>4
        DEF OpeningInv, TrimInv, ScanInv, CreateInv, Scanning, Creating
  <2> QED BY <1>2, <1>4, <2>1, OpenFrame DEF OpenPCs
<1>5. CASE /\ CanTruncate(x) /\ fs' = SetLen(fs, x)
           /\ rec' = [rec EXCEPT !.truncated = TRUE]
           /\ pc' = "truncsync"
  <2>1. /\ fs'.names = fs.names /\ fs'.images = fs.images
        /\ fs'.file[x].data = fs.file[x].data /\ fs'.file[x].tail = "none"
        /\ \A k \in Ids \ {x} : fs'.file[k] = fs.file[k]
        BY <1>2, <1>3, <1>5, SetLenFacts
  <2>2. DiskInv(fs')
        BY <1>2, <1>3, <1>5, RepairKeepsRule
  <2>3. rec'.todo = rec.todo /\ rec'.prev = rec.prev
        BY <1>2, <1>5, RecFacts DEF OpenLocals
  <2>4. ScanInv'
    <3>1. \A i \in fs.names : fs'.file[i].data = fs.file[i].data
          BY <1>2, <2>1
    <3> QED BY <1>1, <1>2, <1>5, <2>1, <2>3, <3>1, ScanFrame
            DEF Scanning, Creating
  <2>5. \A i \in fs.names : i <= x
    <3>1. x = Max(fs.names)
          BY <1>5 DEF CanTruncate
    <3>2. fs.names \in SUBSET (0..MaxId) /\ fs.names /= {} /\ MaxId \in Nat
          BY <1>2, <1>3, DiskAssumption DEF Ids
    <3> QED BY <3>1, <3>2, MaxFacts
  <2>6. Used(fs, x)
    <3>1. PICK t \in rec.todo : Used(fs, t)
          BY <1>1, <1>2 DEF ScanInv, Scanning
    <3>2. t = x
      <4>1. t <= x /\ x <= t /\ t \in Nat /\ x \in Nat
            BY <1>2, <1>3, <2>5
      <4> QED BY <4>1
    <3> QED BY <3>1, <3>2
  <2>7. ASSUME NEW i \in fs.names, i /= x
        PROVE  Whole(fs', i)
    <3>1. i < x
      <4>1. i <= x /\ i \in Nat /\ x \in Nat
            BY <1>2, <1>3, <2>5
      <4> QED BY <2>7, <4>1
    <3>2. Whole(fs, i)
          BY <1>2, <1>3, <2>6, <3>1 DEF DiskInv, ImageRule, Below
    <3> QED BY <1>2, <2>1, <2>7, <3>2, SameFile
  <2>8. CreateInv'
    <3>1. Min(rec'.todo) = x
          BY <2>3
    <3> QED BY <1>5, <2>1, <2>7, <3>1 DEF CreateInv, Scanning, Creating
  <2>9. OpeningInv'
        BY <1>5, <2>4, <2>8 DEF OpeningInv, TrimInv
  <2> QED BY <1>2, <1>5, <2>2, <2>9, OpenFrame DEF OpenPCs
<1>6. CASE pc' = "replay" /\ UNCHANGED <<fs, rec>>
  <2>1. ScanInv'
        BY <1>1, <1>2, <1>6, ScanFrame DEF Scanning, Creating
  <2>2. CreateInv'
        BY <1>1, <1>2, <1>6 DEF CreateInv, Scanning, Creating
  <2>3. OpeningInv'
        BY <1>6, <2>1, <2>2 DEF OpeningInv, TrimInv
  <2> QED BY <1>2, <1>6, <2>3, OpenFrame DEF OpenPCs
<1> QED BY <1>4, <1>5, <1>6 DEF ScanChunk

LEMMA TruncateSyncKeeps == ASSUME WInv, TruncateSync PROVE WInv'
<1> DEFINE x == Min(rec.todo)
<1>1. /\ pc = "truncsync" /\ pc' = "replay" /\ fs' = SyncFile(fs, x)
      /\ UNCHANGED <<closed, rec>>
      BY DEF TruncateSync
<1>2. /\ TInv /\ TInv' /\ DiskInv(fs) /\ DiskType(fs, Record)
      /\ ScanInv /\ CreateInv /\ \A i \in fs.names : i \in Nat /\ i \in Ids
      BY <1>1, ScanTypes, Numbers DEF WInv, OpeningInv, NumberFacts
<1>3. x \in Ids
      BY <1>1, <1>2, NextChunk DEF TInv, Locals
<1>4. /\ fs'.names = fs.names /\ fs'.images = fs.images
      /\ fs'.file[x].data = fs.file[x].data
      /\ fs'.file[x].synced = Len(fs.file[x].data)
      /\ fs'.file[x].tail = fs.file[x].tail
      /\ \A k \in Ids \ {x} : fs'.file[k] = fs.file[k]
      BY <1>1, <1>2, <1>3, SyncFileFacts
<1>5. DiskInv(fs')
      BY <1>1, <1>2, <1>3, RepairKeepsRule
<1>6. ScanInv'
  <2>1. \A i \in fs.names : fs'.file[i].data = fs.file[i].data
        BY <1>2, <1>4
  <2> QED BY <1>1, <1>2, <1>4, <2>1, ScanFrame DEF Scanning, Creating
<1>7. CreateInv'
  <2>1. fs.file[x].tail = "none"
        BY <1>1, <1>2 DEF CreateInv
  <2>2. Whole(fs', x)
        BY <1>4, <2>1 DEF Whole
  <2>3. ASSUME rec.truncated, NEW i \in fs.names PROVE Whole(fs', i)
    <3>1. CASE i = x
          BY <2>2, <3>1
    <3>2. CASE i /= x
      <4>1. Whole(fs, i)
            BY <1>1, <1>2, <2>3, <3>2 DEF CreateInv, Scanning
      <4> QED BY <1>2, <1>4, <3>2, <4>1, SameFile
    <3> QED BY <3>1, <3>2
  <2> QED BY <1>1, <1>4, <2>3 DEF CreateInv, Scanning, Creating
<1>8. OpeningInv'
      BY <1>1, <1>6, <1>7 DEF OpeningInv, TrimInv
<1> QED BY <1>1, <1>2, <1>5, <1>8, OpenFrame DEF OpenPCs

LEMMA ReplayKeeps ==
    ASSUME WInv, ReplayRecord \/ ReplayPanic PROVE WInv'
<1>1. /\ pc = "replay" /\ pc' \in {"replay", "failed"} /\ fs' = fs
      /\ closed' = closed
      BY DEF ReplayRecord, ReplayPanic
<1>2. TInv /\ TInv' /\ DiskInv(fs) /\ ScanInv /\ CreateInv
      BY ReplayTypes DEF WInv, OpeningInv
<1>3. /\ rec'.todo = rec.todo /\ rec'.prev = rec.prev
      /\ rec'.truncated = rec.truncated
  <2>1. CASE ReplayRecord
        BY <1>2, <2>1, RecFacts DEF ReplayRecord, OpenLocals
  <2>2. CASE ReplayPanic
        BY <2>2 DEF ReplayPanic
  <2> QED BY <2>1, <2>2
<1>4. CASE pc' = "replay"
  <2>1. ScanInv'
        BY <1>1, <1>2, <1>3, <1>4, ScanFrame DEF Scanning, Creating
  <2>2. CreateInv'
        BY <1>1, <1>2, <1>3, <1>4 DEF CreateInv, Scanning, Creating
  <2>3. OpeningInv'
        BY <1>4, <2>1, <2>2 DEF OpeningInv, TrimInv
  <2> QED BY <1>1, <1>2, <1>4, <2>3, OpenFrame DEF OpenPCs
<1>5. CASE pc' = "failed"
  <2>1. OpeningInv'
        BY <1>5
        DEF OpeningInv, TrimInv, ScanInv, CreateInv, Scanning, Creating
  <2> QED BY <1>1, <1>2, <1>5, <2>1, OpenFrame DEF OpenPCs
<1> QED BY <1>1, <1>4, <1>5

LEMMA ReplayChunkKeeps == ASSUME WInv, ReplayChunk PROVE WInv'
<1> DEFINE x == Min(rec.todo)
           new == [id |-> x, end |-> EndOf(fs, x)]
<1>1. /\ pc = "replay" /\ pc' = "scan" /\ fs' = fs /\ HasLastSegment(x)
      /\ rec' = [rec EXCEPT !.todo = rec.todo \ {x}, !.prev = EndOf(fs, x),
                            !.n = 0]
      /\ closed' = closed \union {new}
      BY DEF ReplayChunk
<1>2. /\ TInv /\ TInv' /\ DiskInv(fs) /\ DiskType(fs, Record)
      /\ ScanInv /\ CreateInv /\ rec.todo /= {}
      /\ \A i \in fs.names : i \in Nat /\ i \in Ids
      /\ \A c \in closed : c.id \in Nat
      BY <1>1, ReplayTypes, Numbers
      DEF WInv, OpeningInv, NumberFacts, TInv, Locals
<1>3. /\ x \in rec.todo /\ x \in Ids /\ \A i \in rec.todo : x <= i
      /\ rec.todo \subseteq fs.names /\ x \in Nat
      BY <1>1, <1>2, NextChunk DEF ScanInv, Scanning
<1>4. /\ rec'.todo = rec.todo \ {x} /\ rec'.prev = EndOf(fs, x)
      /\ rec'.truncated = rec.truncated
      BY <1>1, <1>2, RecFacts DEF OpenLocals
<1>5. new.id = x /\ new.end = EndOf(fs, x)
      OBVIOUS
<1> HIDE DEF new, x
<1>6. EndOf(fs, x) \in Nat /\ Used(fs, x)
      BY <1>1, <1>2, <1>3, DiskFacts DEF HasLastSegment, Used
<1>7. ScanInv'
  <2>1. /\ \A c \in closed : /\ c.id \in fs.names /\ Used(fs, c.id)
                             /\ c.end = EndOf(fs, c.id)
        /\ \A i \in fs.names : i \in rec.todo \/ \E c \in closed : c.id = i
        /\ \A c \in closed : \A t \in rec.todo : c.id < t
        BY <1>1, <1>2 DEF ScanInv, Scanning, Creating
  <2>2. \A c \in closed' : /\ c.id \in fs.names /\ Used(fs, c.id)
                           /\ c.end = EndOf(fs, c.id)
        BY <1>1, <1>3, <1>5, <1>6, <2>1
  <2>3. \A i \in fs.names : i \in rec'.todo \/ \E c \in closed' : c.id = i
        BY <1>1, <1>4, <1>5, <2>1
  <2>4. ASSUME NEW c \in closed', NEW t \in rec'.todo
        PROVE  c.id < t
    <3>1. t \in rec.todo /\ t /= x /\ t \in Nat /\ x <= t
          BY <1>2, <1>3, <1>4
    <3> QED BY <1>1, <1>3, <1>5, <2>1, <3>1
  <2>5. rec'.prev /= -1 /\ closed' /= {}
        BY <1>1, <1>4, <1>6
  <2>6. \E c \in closed' : /\ c.end = rec'.prev
                           /\ \A d \in closed' : d.id <= c.id
    <3>1. \A d \in closed' : d.id <= new.id
          BY <1>1, <1>2, <1>3, <1>5, <2>1
    <3> QED BY <1>1, <1>4, <1>5, <3>1
  <2>7. ASSUME rec'.todo /= {}
        PROVE  \E t \in rec'.todo : /\ Used(fs, t)
                                    /\ \A u \in rec'.todo : u <= t
    <3>1. PICK t \in rec.todo : Used(fs, t) /\ \A u \in rec.todo : u <= t
          BY <1>1, <1>2 DEF ScanInv, Scanning
    <3>2. PICK u \in rec.todo : u /= x
          BY <1>4, <2>7
    <3>3. t /= x
      <4>1. u <= t /\ x <= u /\ u \in Nat /\ t \in Nat
            BY <1>2, <1>3, <3>1, <3>2
      <4> QED BY <1>3, <3>2, <4>1
    <3> QED BY <1>4, <3>1, <3>3
  <2>8. rec'.todo \subseteq fs.names
        BY <1>3, <1>4
  <2> QED BY <1>1, <2>2, <2>3, <2>4, <2>5, <2>6, <2>7, <2>8 DEF ScanInv
<1>8. CreateInv'
      BY <1>1, <1>2, <1>4 DEF CreateInv, Scanning, Creating
<1>9. OpeningInv'
      BY <1>1, <1>7, <1>8 DEF OpeningInv, TrimInv
<1> QED BY <1>1, <1>2, <1>9, OpenFrame DEF OpenPCs

(* Where the chunk that open creates starts: after every chunk that any    *)
(* directory has records of.                                               *)
LEMMA NewChunkFacts ==
    ASSUME WInv, Scanned
    PROVE  /\ \A dir \in fs.images : \A j \in dir :
                 Used(fs, j) => j < NewChunkId
           /\ \A i \in fs.names : i < NewChunkId
           /\ \A c \in closed : c.id < NewChunkId
           /\ NewChunkId \in Nat
<1>1. /\ TInv /\ DiskInv(fs) /\ ScanInv /\ rec.todo = {} /\ pc = "scan"
      /\ DiskType(fs, Record)
      /\ \A dir \in fs.images : \A i \in dir : i \in Ids /\ i \in Nat
      /\ \A i \in fs.names : i \in Ids /\ i \in Nat
      /\ rec.prev \in Nat \union {-1}
      BY Numbers, RecFacts DEF WInv, OpeningInv, NumberFacts, Scanned
<1>2. /\ \A c \in closed : /\ c.id \in fs.names /\ Used(fs, c.id)
                           /\ c.end = EndOf(fs, c.id)
      /\ \A i \in fs.names : \E c \in closed : c.id = i
      /\ rec.prev = -1 <=> closed = {}
      /\ closed /= {} => \E c \in closed : /\ c.end = rec.prev
                                           /\ \A d \in closed : d.id <= c.id
      BY <1>1 DEF ScanInv, Scanning, Creating
<1>3. CASE closed = {}
  <2>1. fs.names = {} /\ NewChunkId = 0
        BY <1>2, <1>3 DEF NewChunkId
  <2>2. \A dir \in fs.images : \A j \in dir : ~Used(fs, j)
        BY <1>1, <2>1 DEF DiskInv, ImageTop
  <2> QED BY <1>3, <2>1, <2>2
<1>4. CASE closed /= {}
  <2>1. PICK c \in closed : c.end = rec.prev /\ \A d \in closed : d.id <= c.id
        BY <1>2, <1>4
  <2>2. /\ NewChunkId = EndOf(fs, c.id) /\ c.id \in fs.names
        /\ c.id \in Ids /\ c.id \in Nat /\ Used(fs, c.id)
        BY <1>1, <1>2, <1>4, <2>1 DEF NewChunkId
  <2>3. c.id < NewChunkId /\ NewChunkId \in Nat
        BY <1>1, <2>2, DiskFacts
  <2>4. \A i \in fs.names : i <= c.id /\ i < NewChunkId
    <3>1. \A i \in fs.names : i <= c.id
          BY <1>2, <2>1
    <3> QED BY <1>1, <2>2, <2>3, <3>1
  <2>5. ASSUME NEW dir \in fs.images, NEW j \in dir, Used(fs, j)
        PROVE  j < NewChunkId
    <3>1. PICK k \in fs.names : j <= k
          BY <1>1, <2>5 DEF DiskInv, ImageTop
    <3>2. j \in Nat /\ k \in Nat /\ k < NewChunkId
          BY <1>1, <2>4
    <3> QED BY <2>3, <3>1, <3>2
  <2>6. \A d \in closed : d.id < NewChunkId
        BY <1>2, <2>4
  <2> QED BY <2>3, <2>4, <2>5, <2>6
<1> QED BY <1>3, <1>4

LEMMA CreateChunkKeeps == ASSUME WInv, CreateChunk PROVE WInv'
<1> DEFINE x == NewChunkId
<1>1. /\ Scanned /\ pc = "scan" /\ pc' = "newsync" /\ x \in Ids
      /\ fs' = CreateFile(fs, x) /\ UNCHANGED <<closed, rec>>
      /\ closed = {} \/ rec.truncated
      BY DEF CreateChunk, Scanned
<1>2. /\ TInv /\ TInv' /\ DiskInv(fs) /\ DiskType(fs, Record)
      /\ ScanInv /\ CreateInv /\ rec.todo = {}
      /\ \A i \in fs.names : i \in Ids
      BY <1>1, CreateTypes, Numbers
      DEF WInv, OpeningInv, NumberFacts, Scanned
<1>3. /\ \A dir \in fs.images : \A j \in dir : Used(fs, j) => j < x
      /\ \A i \in fs.names : i < x
      /\ \A c \in closed : c.id < x
      /\ x \in Nat /\ NewChunkId' = x
      BY <1>1, NewChunkFacts DEF NewChunkId
<1> HIDE DEF x
<1>4. /\ fs'.names = fs.names \union {x} /\ fs'.file[x] = NoFile
      /\ \A k \in Ids \ {x} : fs'.file[k] = fs.file[k]
      BY <1>1, <1>2, CreateFileFacts
<1>5. DiskInv(fs')
  <2>1. \A dir \in fs.images : x \in dir => ~Used(fs, x)
        BY <1>3
  <2> QED BY <1>1, <1>2, <2>1, CreateKeepsRule
<1>6. \A i \in fs.names : /\ EndOf(fs', i) = EndOf(fs, i)
                          /\ Used(fs', i) <=> Used(fs, i)
                          /\ Whole(fs', i) <=> Whole(fs, i)
  <2>1. \A i \in fs.names : fs'.file[i] = fs.file[i]
        BY <1>2, <1>3, <1>4
  <2> QED BY <2>1, SameFile
<1>7. ScanInv'
  <2>1. /\ \A c \in closed : /\ c.id \in fs.names /\ Used(fs, c.id)
                             /\ c.end = EndOf(fs, c.id)
        /\ \A i \in fs.names : \E c \in closed : c.id = i
        /\ rec.prev = -1 <=> closed = {}
        /\ closed /= {} => \E c \in closed : /\ c.end = rec.prev
                                             /\ \A d \in closed : d.id <= c.id
        BY <1>1, <1>2 DEF ScanInv, Scanning, Creating
  <2>2. \A c \in closed : /\ c.id \in fs'.names /\ Used(fs', c.id)
                          /\ c.end = EndOf(fs', c.id)
        BY <1>4, <1>6, <2>1
  <2> QED BY <1>1, <1>2, <1>3, <1>4, <2>1, <2>2 DEF ScanInv, Scanning, Creating
<1>8. CreateInv'
  <2>1. Whole(fs', x)
        BY <1>4 DEF Whole, NoFile
  <2>2. rec.truncated => \A i \in fs'.names : Whole(fs', i)
        BY <1>1, <1>2, <1>4, <1>6, <2>1 DEF CreateInv, Scanning
  <2> QED BY <1>1, <1>2, <1>3, <1>4, <2>2 DEF CreateInv, Creating
<1>9. OpeningInv'
      BY <1>1, <1>7, <1>8 DEF OpeningInv, TrimInv
<1> QED BY <1>1, <1>2, <1>5, <1>9, OpenFrame DEF OpenPCs

LEMMA CreateSyncKeeps == ASSUME WInv, CreateSync PROVE WInv'
<1>1. /\ pc = "newsync" /\ pc' = "newwrite" /\ fs' = SyncDir(fs)
      /\ UNCHANGED <<closed, rec>> /\ NewChunkId' = NewChunkId
      BY DEF CreateSync, NewChunkId
<1>2. /\ TInv /\ TInv' /\ DiskInv(fs) /\ DiskType(fs, Record)
      /\ ScanInv /\ CreateInv
      BY <1>1, CreateTypes, Numbers DEF WInv, OpeningInv, NumberFacts
<1>3. /\ fs'.names = fs.names /\ fs'.images = {fs.names}
      /\ \A k \in fs.names : fs'.file[k] = fs.file[k]
      BY <1>1, <1>2, SyncDirFacts
<1>4. DiskInv(fs')
      BY <1>1, <1>2, SyncDirKeepsRule
<1>5. \A i \in fs.names : /\ EndOf(fs', i) = EndOf(fs, i)
                          /\ Used(fs', i) <=> Used(fs, i)
                          /\ Whole(fs', i) <=> Whole(fs, i)
      BY <1>3, SameFile
<1>6. ScanInv'
      BY <1>1, <1>2, <1>3, <1>5 DEF ScanInv, Scanning, Creating
<1>7. CreateInv'
      BY <1>1, <1>2, <1>3, <1>5 DEF CreateInv, Scanning, Creating
<1>8. OpeningInv'
      BY <1>1, <1>6, <1>7 DEF OpeningInv, TrimInv
<1> QED BY <1>1, <1>2, <1>4, <1>8, OpenFrame DEF OpenPCs

(* The checkpoint may be written to the new chunk: it comes after whole    *)
(* chunks.                                                                 *)
LEMMA NewWriteRule ==
    ASSUME WInv, pc = "newwrite"
    PROVE  /\ NewChunkId \in fs.names /\ fs.images = {fs.names}
           /\ \A i \in fs.names : i <= NewChunkId
           /\ Below(fs, fs.names, NewChunkId)
           /\ \A dir \in fs.images :
                 /\ NewChunkId \in dir /\ Below(fs, dir, NewChunkId)
                 /\ \A j \in dir : NewChunkId < j => ~Used(fs, j)
<1> DEFINE x == NewChunkId
<1>1. /\ TInv /\ DiskInv(fs) /\ ScanInv /\ CreateInv
      /\ fs.names \in fs.images
      /\ \A i \in fs.names : i \in Ids /\ i \in Nat
      BY Numbers DEF WInv, OpeningInv, NumberFacts
<1>2. /\ rec.todo = {} /\ x \in fs.names /\ \A c \in closed : c.id < x
      /\ closed = {} \/ rec.truncated
      /\ fs.images = {fs.names}
      /\ rec.truncated => \A i \in fs.names : Whole(fs, i)
      BY <1>1 DEF CreateInv, Creating, Scanning
<1>3. /\ \A c \in closed : /\ c.id \in fs.names /\ Used(fs, c.id)
                           /\ c.end = EndOf(fs, c.id)
      /\ \A i \in fs.names : i = x \/ \E c \in closed : c.id = i
      /\ rec.prev = -1 <=> closed = {}
      /\ closed /= {} => \E c \in closed : /\ c.end = rec.prev
                                           /\ \A d \in closed : d.id <= c.id
      BY <1>1, <1>2 DEF ScanInv, Scanning
<1>4. closed /= {} => x = rec.prev
      BY <1>3 DEF NewChunkId
<1> HIDE DEF x
<1>5. \A i \in fs.names : i <= x
      BY <1>1, <1>2, <1>3
<1>6. ASSUME NEW i \in fs.names, i < x
      PROVE  Whole(fs, i) /\ EndOf(fs, i) \in fs.names /\ EndOf(fs, i) <= x
  <2>1. i /= x /\ closed /= {}
        BY <1>1, <1>2, <1>3, <1>6
  <2>2. PICK c \in closed : c.end = rec.prev /\ \A d \in closed : d.id <= c.id
        BY <1>3, <2>1
  <2>3. i <= c.id /\ EndOf(fs, c.id) = x
        BY <1>3, <1>4, <2>1, <2>2
  <2>4. Whole(fs, i)
        BY <1>2, <2>1
  <2>5. CASE i = c.id
        BY <1>1, <1>2, <2>3, <2>4, <2>5
  <2>6. CASE i /= c.id
    <3>1. /\ c.id \in fs.names /\ Used(fs, c.id) /\ c.id < x
          BY <1>2, <1>3
    <3>2. i < c.id
          BY <1>1, <2>3, <2>6, <3>1
    <3>3. EndOf(fs, i) \in fs.names /\ EndOf(fs, i) <= c.id
          BY <1>1, <3>1, <3>2 DEF DiskInv, ImageRule, Below
    <3> QED BY <1>1, <1>2, <2>4, <3>1, <3>3
  <2> QED BY <2>5, <2>6
<1>7. Below(fs, fs.names, x)
      BY <1>6 DEF Below
<1>8. \A j \in fs.names : ~(x < j)
      BY <1>1, <1>2, <1>5
<1> QED BY <1>2, <1>5, <1>7, <1>8 DEF x

LEMMA NewWriteKeeps ==
    ASSUME WInv, pc = "newwrite", NEW recs \in Seq(Record), NEW tail \in Tails
    PROVE  LET e == WriteFile(fs, NewChunkId, recs, tail) IN
           /\ DiskInv(e) /\ e.names = fs.names /\ e.images = fs.images
           /\ e.file[NewChunkId].data = fs.file[NewChunkId].data \o recs
           /\ \A k \in Ids \ {NewChunkId} : e.file[k] = fs.file[k]
<1> DEFINE e == WriteFile(fs, NewChunkId, recs, tail)
<1>1. DiskType(fs, Record) /\ DiskInv(fs) /\ NewChunkId \in Ids
      BY RecFacts DEF WInv, TInv, Locals
<1>2. DiskInv(e)
      BY <1>1, NewWriteRule, WriteKeepsRule
<1>3. /\ e.names = fs.names /\ e.images = fs.images
      /\ e.file[NewChunkId].data = fs.file[NewChunkId].data \o recs
      /\ \A k \in Ids \ {NewChunkId} : e.file[k] = fs.file[k]
      BY <1>1, WriteFileFacts
<1> QED BY <1>2, <1>3

(* The WAL is up: nothing is queued, and the worker's file is the open     *)
(* chunk.                                                                  *)
LEMMA StartFrame ==
    ASSUME TInv', DiskInv(fs'), NEW chunk, StartUp(chunk),
           chunk.pending = <<>>, chunk.n > 0,
           chunk.id + chunk.n = EndOf(fs', chunk.id),
           chunk.id \in fs'.names,
           \A i \in fs'.names : i <= chunk.id,
           \A dir \in fs'.images :
               /\ chunk.id \in dir /\ Below(fs', dir, chunk.id)
               /\ \A j \in dir : chunk.id < j => ~Used(fs', j),
           \A i \in fs'.names :
               i = chunk.id \/ \E c \in closed' : c.id = i,
           \A c \in closed' : /\ c.id \in fs'.names /\ c.id < chunk.id
                              /\ EndOf(fs', c.id) = c.end
    PROVE  WInv'
<1>1. /\ open' = chunk /\ rx' = TRUE /\ queue' = <<>> /\ wpc' = "recv"
      /\ files' = <<chunk.id>> /\ batch' = <<>> /\ nonFlush' = NoReq
      /\ result' = "ok" /\ pc' = "idle"
      BY DEF StartUp
<1>2. NumberFacts'
      BY NumbersNext
<1>3. /\ chunk.id \in Nat /\ chunk.n \in Nat
      /\ OpenEnd' = chunk.id + chunk.n
      /\ fs'.names \in fs'.images
      /\ \A dir \in fs'.images : \A i \in dir : i \in Nat
      /\ \A i \in fs'.names : i \in Nat
      BY <1>1, <1>2 DEF NumberFacts
<1>4. Todo' = <<>> /\ Len(Todo') = 0 /\ 1..Len(Todo') = {}
  <2>1. Todo' = <<>>
        BY <1>1 DEF Todo
  <2>2. Len(<<>>) = 0 /\ 1..0 = {}
        OBVIOUS
  <2> QED BY <2>1, <2>2
<1>5. LastFile' = chunk.id
  <2>1. \A i : Last(<<i>>) = i
        BY DEF Last
  <2> QED BY <1>1, <2>1 DEF LastFile
<1>6. OpeningInv'
      BY <1>1
      DEF OpeningInv, TrimInv, ScanInv, CreateInv, Scanning, Creating
<1>7. Len(chunk.pending) = 0
      OBVIOUS
<1>8. UpInv'
  <2>1. \A dir \in fs'.images : \A i \in dir : Used(fs', i) => i <= chunk.id
        BY <1>3
  <2> QED BY <1>1, <1>7, <2>1 DEF UpInv
<1>9. ~(\E i \in Ids : Pend(i)') /\ \A i : ~Pend(i)'
      BY <1>4 DEF Pend
<1>10. FileInv'
  <2>1. \A dir \in fs'.images : \A i \in dir : i > chunk.id => ~Used(fs', i)
    <3>1. \A i : i > chunk.id <=> chunk.id < i
          OBVIOUS
    <3> QED BY <3>1
  <2> QED BY <1>1, <1>5, <2>1 DEF FileInv
<1>11. BatchInv'
  <2>1. 1..Len(batch') = {}
        BY <1>1
  <2> QED BY <1>1, <2>1 DEF BatchInv
<1>12. MonoInv'
       BY <1>1, <1>3, <1>4, <1>5 DEF MonoInv
<1>13. FreshInv'
  <2>1. \A i \in fs'.names : ~(i > chunk.id)
        BY <1>3
  <2> QED BY <1>1, <1>5, <1>9, <2>1 DEF FreshInv
<1>14. SyncInv'
  <2>1. 2..Len(Todo') = {}
        BY <1>4
  <2> QED BY <1>1, <1>4, <2>1 DEF SyncInv
<1>15. RemInv'
       BY <1>1, <1>3, <1>4 DEF RemInv
<1>16. Full' = closed'
       BY <1>1 DEF Full
<1>17. ClosedInv' /\ EndInv'
       BY <1>4, <1>5, <1>16 DEF ClosedInv, EndInv
<1>18. BatchChain'
       BY <1>1 DEF BatchChain
<1>19. TodoChain'
  <2>1. (PlaceBefore(Len(Todo) + 1))' = Place(chunk.id, EndOf(fs', chunk.id))
        BY <1>1, <1>4, <1>5 DEF PlaceBefore, BatchPlace, FilePlace, Place
  <2>2. OpenEnd' - Len(open'.pending) = EndOf(fs', chunk.id)
        BY <1>1, <1>3, <1>7
  <2> QED BY <1>1, <1>4, <2>1, <2>2 DEF TodoChain
<1>20. PipeInv'
       BY <1>10, <1>11, <1>12, <1>13, <1>14, <1>15, <1>17, <1>18, <1>19
       DEF PipeInv
<1> QED BY <1>6, <1>8, <1>20 DEF WInv

LEMMA ReopenKeeps == ASSUME WInv, ReopenLastClosed PROVE WInv'
<1>1. PICK last \in closed :
          /\ \A c \in closed : c.id <= last.id
          /\ closed' = closed \ {last} /\ fs' = fs
          /\ StartUp([id |-> last.id, n |-> last.end - last.id,
                      pending |-> <<>>])
      BY DEF ReopenLastClosed
<1>2. /\ TInv /\ TInv' /\ DiskInv(fs) /\ ScanInv /\ pc = "scan"
      /\ rec.todo = {} /\ DiskType(fs, Record) /\ NumberFacts
      BY UpTypes, Numbers
      DEF WInv, OpeningInv, NumberFacts, ReopenLastClosed, Scanned
<1>3. /\ \A c \in closed : /\ c.id \in fs.names /\ Used(fs, c.id)
                           /\ c.end = EndOf(fs, c.id)
      /\ \A i \in fs.names : \E c \in closed : c.id = i
      BY <1>2 DEF ScanInv, Scanning, Creating
<1> DEFINE chunk == [id |-> last.id, n |-> last.end - last.id,
                     pending |-> <<>>]
<1>4. /\ chunk.id = last.id /\ chunk.n = last.end - last.id
      /\ chunk.pending = <<>> /\ StartUp(chunk)
      BY <1>1
<1> HIDE DEF chunk
<1>5. /\ last.id \in Nat /\ last.id \in Ids /\ last.id \in fs.names
      /\ Used(fs, last.id) /\ EndOf(fs, last.id) = last.end
      /\ last.end \in Nat
      BY <1>2, <1>3 DEF NumberFacts
<1>6. last.id < last.end
      BY <1>2, <1>5, DiskFacts
<1>7. /\ chunk.n > 0 /\ chunk.id + chunk.n = EndOf(fs', chunk.id)
      BY <1>1, <1>4, <1>5, <1>6
<1>8. \A i \in fs.names : i <= last.id
      BY <1>1, <1>3
<1>9. \A dir \in fs.images : /\ last.id \in dir /\ Below(fs, dir, last.id)
                             /\ \A j \in dir : last.id < j => ~Used(fs, j)
  <2>1. \A dir \in fs.images : last.id \in dir /\ Below(fs, dir, last.id)
        BY <1>2, <1>5 DEF DiskInv, NameSynced, ImageRule
  <2>2. ASSUME NEW dir \in fs.images, NEW j \in dir, last.id < j, Used(fs, j)
        PROVE  FALSE
    <3>1. PICK k \in fs.names : j <= k
          BY <1>2, <2>2 DEF DiskInv, ImageTop
    <3>2. j \in Nat /\ k \in Nat /\ k <= last.id
          BY <1>2, <1>8 DEF NumberFacts
    <3> QED BY <1>5, <2>2, <3>1, <3>2
  <2> QED BY <2>1, <2>2
<1>10. \A i \in fs.names : i = last.id \/ \E c \in closed' : c.id = i
       BY <1>1, <1>3
<1>11. ASSUME NEW c \in closed'
       PROVE  /\ c.id \in fs.names /\ c.id < last.id
              /\ EndOf(fs, c.id) = c.end
  <2>1. c \in closed /\ c /= last
        BY <1>1
  <2>2. c.id /= last.id
        BY <1>2, <1>3, <2>1 DEF NumberFacts
  <2>3. c.id < last.id
        BY <1>1, <1>2, <1>5, <2>1, <2>2 DEF NumberFacts
  <2> QED BY <1>3, <2>1, <2>3
<1> QED BY <1>1, <1>2, <1>4, <1>5, <1>7, <1>8, <1>9, <1>10, <1>11, StartFrame

LEMMA CreateWriteKeeps == ASSUME WInv, CreateWrite PROVE WInv'
<1> DEFINE x == NewChunkId
           recs == <<Checkpoint(rec.sm)>>
           chunk == [id |-> x, n |-> 1, pending |-> <<>>]
<1>1. /\ pc = "newwrite" /\ fs' = WriteFile(fs, x, recs, "none")
      /\ StartUp(chunk) /\ closed' = closed
      BY DEF CreateWrite
<1>2. /\ TInv /\ TInv' /\ DiskInv(fs) /\ ScanInv /\ CreateInv
      /\ DiskType(fs, Record) /\ NumberFacts
      BY <1>1, UpTypes, Numbers DEF WInv, OpeningInv, NumberFacts
<1>3. recs \in Seq(Record) /\ Len(recs) = 1 /\ "none" \in Tails
      BY <1>2, RecFacts, RecordTypes DEF Tails
<1>4. chunk.id = x /\ chunk.n = 1 /\ chunk.pending = <<>>
      OBVIOUS
<1>5. /\ x \in fs.names /\ \A i \in fs.names : i <= x
      /\ Below(fs, fs.names, x) /\ fs.images = {fs.names}
      /\ \A dir \in fs.images : /\ x \in dir /\ Below(fs, dir, x)
                                /\ \A j \in dir : x < j => ~Used(fs, j)
      BY <1>1, NewWriteRule
<1>6. /\ fs.file[x] = NoFile /\ \A c \in closed : c.id < x
      /\ rec.todo = {}
      BY <1>1, <1>2 DEF CreateInv, Creating
<1>7. /\ \A c \in closed : c.id \in fs.names /\ c.end = EndOf(fs, c.id)
      /\ \A i \in fs.names : i = x \/ \E c \in closed : c.id = i
      BY <1>1, <1>2, <1>6 DEF ScanInv, Scanning
<1> HIDE DEF x, recs, chunk
<1>8. x \in Ids /\ x \in Nat
      BY <1>2, <1>5 DEF NumberFacts
<1>10. /\ DiskInv(fs') /\ fs'.names = fs.names /\ fs'.images = fs.images
       /\ fs'.file[x].data = fs.file[x].data \o recs
       /\ \A k \in Ids \ {x} : fs'.file[k] = fs.file[k]
       BY <1>1, <1>3, NewWriteKeeps DEF x
<1>11. EndOf(fs', x) = x + 1
  <2>1. fs.file[x].data = <<>>
        BY <1>6 DEF NoFile
  <2>2. <<>> \o recs = recs
        BY <1>3
  <2> QED BY <1>3, <1>10, <2>1, <2>2 DEF EndOf
<1>12. ASSUME NEW i \in fs.names, i < x
       PROVE  /\ EndOf(fs', i) = EndOf(fs, i)
              /\ Whole(fs', i) <=> Whole(fs, i)
  <2>1. fs'.file[i] = fs.file[i]
        BY <1>2, <1>8, <1>10, <1>12 DEF NumberFacts
  <2> QED BY <2>1, SameFile
<1>13. Below(fs', fs.names, x)
       BY <1>5, <1>12, BelowKept
<1>14. \A j \in fs.names : ~(x < j)
       BY <1>2, <1>5, <1>8 DEF NumberFacts
<1>15. \A dir \in fs'.images : /\ x \in dir /\ Below(fs', dir, x)
                               /\ \A j \in dir : x < j => ~Used(fs', j)
       BY <1>5, <1>10, <1>13, <1>14
<1>16. \A c \in closed' : /\ c.id \in fs'.names /\ c.id < x
                          /\ EndOf(fs', c.id) = c.end
       BY <1>1, <1>6, <1>7, <1>10, <1>12
<1> QED BY <1>1, <1>2, <1>4, <1>5, <1>7, <1>10, <1>11, <1>15, <1>16,
           StartFrame

LEMMA OpenKeeps == ASSUME WInv, OpenNext PROVE WInv'
BY LoadKeeps, TrimTailKeeps, TrimSyncKeeps, ScanChunkKeeps, TruncateSyncKeeps,
   ReplayKeeps, ReplayChunkKeeps, ReopenKeeps, CreateChunkKeeps,
   CreateSyncKeeps, CreateWriteKeeps
DEF OpenNext, OpenStep

-----------------------------------------------------------------------------
(* A crash.  What a write in progress leaves obeys the rule as well.       *)
LEMMA InFlightKeeps ==
    ASSUME WInv, NEW d \in InFlight PROVE DiskInv(d)
<1>1. TInv /\ DiskInv(fs) /\ DiskType(fs, Record)
      BY RecFacts DEF WInv
<1>2. CASE d = fs
      BY <1>1, <1>2
<1>3. ASSUME wpc = "write", NEW k \in 0..(Len(NextData) - 1),
             d = WriteFile(fs, LastFile, SubSeq(NextData, 1, k), "short")
      PROVE  DiskInv(d)
  <2>1. SubSeq(NextData, 1, k) \in Seq(Record) /\ "short" \in Tails
        BY <1>1, <1>3, BatchFacts, SubSeqType DEF Tails
  <2> QED BY <1>3, <2>1, WriteKeeps
<1>4. ASSUME pc = "newwrite", d = WriteFile(fs, NewChunkId, <<>>, "short")
      PROVE  DiskInv(d)
  <2>1. <<>> \in Seq(Record) /\ "short" \in Tails
        BY DEF Tails
  <2> QED BY <1>4, <2>1, NewWriteKeeps
<1> QED BY <1>2, <1>3, <1>4 DEF InFlight

LEMMA CrashKeeps == ASSUME WInv, ProcessCrash \/ PowerLoss PROVE WInv'
<1>1. TInv /\ TInv' /\ Vanish
      BY CrashTypes DEF WInv, ProcessCrash, PowerLoss
<1>2. DiskInv(fs')
  <2>1. CASE ProcessCrash
        BY <2>1, InFlightKeeps DEF ProcessCrash
  <2>2. CASE PowerLoss
    <3>1. PICK d \in InFlight : fs' \in PowerLossImages(d)
          BY <2>2 DEF PowerLoss
    <3>2. DiskInv(d) /\ DiskType(d, Record)
          BY <1>1, InFlightKeeps, InFlightType
    <3> QED BY <3>1, <3>2, PowerLossKeepsRule
  <2> QED BY <2>1, <2>2
<1> QED BY <1>1, <1>2, VanishKeeps

-----------------------------------------------------------------------------
LEMMA InitKeeps == ASSUME Init PROVE WInv
<1>1. TInv
      BY InitTypes
<1>2. DiskInv(fs)
  <2>1. fs.names = {} /\ fs.images = {{}}
        BY DEF Init, EmptyDisk
  <2> QED BY <2>1 DEF DiskInv, ImageRule, ImageTop, NameSynced
<1>3. OpeningInv /\ UpInv /\ ~WorkerSound
      BY DEF Init, OpeningInv, TrimInv, ScanInv, CreateInv, Scanning,
             Creating, UpInv, UpPCs, WorkerSound
<1> QED BY <1>1, <1>2, <1>3 DEF WInv

LEMMA StutterKeeps == ASSUME WInv, UNCHANGED vars PROVE WInv'
<1>1. UNCHANGED <<fs, pc, open, closed, rec, wpc, files, batch, wrote,
                  nonFlush, result, queue, rx>>
      BY DEF vars, mainVars, workVars, chanVars
<1>2. TInv'
      BY NextTypes DEF WInv
<1>3. DiskInv(fs') /\ OpeningInv' /\ UpInv'
      BY <1>1
      DEF WInv, OpeningInv, TrimInv, ScanInv, CreateInv, UpInv, OpenEnd,
          NewChunkId
<1>4. /\ Todo' = Todo /\ LastFile' = LastFile /\ OpenEnd' = OpenEnd
      /\ WorkerSound' = WorkerSound /\ Full' = Full
      BY <1>1 DEF Todo, LastFile, OpenEnd, WorkerSound, Full
<1>5. /\ \A i : Pend(i)' <=> Pend(i)
      /\ \A i : Real(i)' <=> Real(i)
      BY <1>1, <1>4 DEF Pend, Real
<1>6. /\ HeadSynced' <=> HeadSynced
      /\ FilePlace' = FilePlace /\ BatchPlace' = BatchPlace
      BY <1>1, <1>4 DEF HeadSynced, FilePlace, BatchPlace
<1>7. \A k : PlaceBefore(k)' = PlaceBefore(k)
      BY <1>4, <1>6 DEF PlaceBefore
<1>8. PipeInv => FileInv' /\ BatchInv' /\ MonoInv' /\ FreshInv'
      BY <1>1, <1>4, <1>5
      DEF PipeInv, FileInv, BatchInv, MonoInv, FreshInv
<1>9. PipeInv => SyncInv' /\ RemInv' /\ ClosedInv' /\ EndInv'
      BY <1>1, <1>4, <1>5, <1>6, <1>7
      DEF PipeInv, SyncInv, RemInv, ClosedInv, EndInv
<1>10. PipeInv => BatchChain' /\ TodoChain'
       BY <1>1, <1>4, <1>6, <1>7
       DEF PipeInv, BatchChain, TodoChain, PlaceBefore
<1>11. PipeInv => PipeInv'
       BY <1>8, <1>9, <1>10 DEF PipeInv
<1> QED BY <1>2, <1>3, <1>4, <1>11 DEF WInv

LEMMA NextKeeps ==
    ASSUME "encode" \notin Faults, WInv, [Next]_vars PROVE WInv'
BY WorkerKeeps, OwnerKeeps, OpenKeeps, CrashKeeps, StutterKeeps DEF Next

(* The invariant holds throughout, whatever the system refuses and         *)
(* whenever the process dies or power is lost.  A checkpoint that does not *)
(* encode breaks it: the full chunk is then neither open nor closed.       *)
THEOREM WalInvariant ==
    ASSUME "encode" \notin Faults PROVE Spec => []WInv
BY InitKeeps, NextKeeps, PTL DEF Spec

(* A chunk has a record only if every earlier chunk is whole, synced and   *)
(* ends where the next one starts: the order in which try_close_full_chunk *)
(* sends its requests, and in which the worker carries them out, keeps the *)
(* directory in the shape that open_locked can recover.                    *)
THEOREM PredecessorAlwaysDurable ==
    ASSUME "encode" \notin Faults PROVE Spec => []PredecessorDurable
<1>1. ASSUME WInv PROVE PredecessorDurable
  <2>1. DiskInv(fs) /\ fs.names \in fs.images
        BY <1>1, Numbers DEF WInv, NumberFacts
  <2> QED BY <2>1
          DEF DiskInv, ImageRule, Below, Whole, Used, PredecessorDurable
<1> QED BY <1>1, WalInvariant, PTL

(* The offsets that append hands out are the ones the worker, which only   *)
(* appends to its last file, gives the records: each request starts where  *)
(* the one before it ends.                                                 *)
THEOREM RecordsLandWhereTold ==
    ASSUME "encode" \notin Faults PROVE Spec => []OffsetsAgree
<1>1. WInv => OffsetsAgree
      BY DEF WInv, PipeInv, OffsetsAgree
<1> QED BY <1>1, WalInvariant, PTL

(* Once the worker has caught up, every record of a closed chunk is in the *)
(* chunk's file, where load_record looks for it.                           *)
THEOREM ClosedAreReadable ==
    ASSUME "encode" \notin Faults PROVE Spec => []ClosedReadableWhenIdle
<1>1. ASSUME WInv, WorkerSound, wpc = "recv", queue = <<>>,
             NEW c \in closed
      PROVE  LoadRecordFinds(c)
  <2>1. ClosedInv /\ EndInv /\ TInv
        BY <1>1 DEF WInv, PipeInv
  <2>2. c \in Full
        BY DEF Full
  <2>3. Todo = <<>> /\ 1..Len(Todo) = {}
    <3>1. nonFlush = NoReq
          BY <1>1, <2>1 DEF TInv, Requests
    <3>2. Len(<<>>) = 0 /\ 1..0 = {}
          OBVIOUS
    <3> QED BY <1>1, <3>1, <3>2 DEF Todo
  <2> QED BY <2>1, <2>2, <2>3 DEF ClosedInv, EndInv, LoadRecordFinds
<1>2. WInv => ClosedReadableWhenIdle
      BY <1>1 DEF ClosedReadableWhenIdle
<1> QED BY <1>2, WalInvariant, PTL
=============================================================================
