-------------------------- MODULE WalDirectoryProofs -------------------------
(***************************************************************************)
(* One directory and any number of processes: who may touch it, that a WAL *)
(* that is up knows its chunk files, and what a reader reads, for every    *)
(* set of stray files and every bound on queues, files, records and        *)
(* deaths.                                                                 *)
(*                                                                         *)
(* OwnerInv carries OneOwner: no process is in two minds about the lock,   *)
(* and a worker lives only between the end of open and the join.  ListInv  *)
(* says how the names still to be looked at are related to the directory   *)
(* and to the chunks already replayed; two names that read as one id can   *)
(* never both be taken, because ids grow strictly while chunks are         *)
(* replayed.  UpInv is what is left of that when the list is empty, and    *)
(* the order in which purged chunks are unlinked keeps it.  The invariant  *)
(* of the second part, RInv, looks ahead to the end of the worker's queue. *)
(***************************************************************************)
EXTENDS WalDirectory, TLAPS

PCs == {"out", "locked", "dump", "trim", "replay", "up", "closing", "shut"}
Rec == [by : Procs, n : Nat]
Chunk == [id : 0..MaxNum, file : Nat, recs : Seq(Rec)]
Req == [kind : {"write"}, rec : Rec] \union [kind : {"append"}, file : Nat]
       \union [kind : {"remove"}, id : 0..MaxNum]
Readable == {n \in Names : Parsed[n] /= Invalid}
Worker == [alive : BOOLEAN, file : Nat, queue : Seq(Req)]

TypeInv ==
    /\ lock \in Procs \union {Nobody}
    /\ DOMAIN dir \subseteq Names
    /\ data \in Seq(Seq(Rec))
    /\ \A n \in DOMAIN dir : n \notin Strays => dir[n] \in 1..Len(data)
    /\ pc \in [Procs -> PCs]
    /\ ids \in [Procs -> SUBSET Readable]
    /\ closed \in [Procs -> SUBSET Chunk]
    /\ open \in [Procs -> Chunk]
    /\ left \in [Procs -> SUBSET (0..MaxNum)]
    /\ worker \in [Procs -> Worker]
    /\ writes \in Nat

Owner(p) ==
    /\ pc[p] /= "out" => lock = p
    /\ worker[p].alive => pc[p] \in {"up", "closing"}
    /\ pc[p] \notin {"dump", "trim", "replay"} => ids[p] = {}
    /\ pc[p] \in {"out", "locked", "dump", "trim"} =>
           open[p] = NoChunk /\ closed[p] = {}
    /\ pc[p] \notin {"up", "closing", "shut"} => left[p] = {}

(* The chunks replayed so far, or used by the WAL.                         *)
Known(p) == {c \in closed[p] \union {open[p]} : c /= NoChunk}

(* Chunks were taken in the order of their ids, and replayed with their    *)
(* records.                                                                *)
Ordered(p) ==
    /\ \A c \in closed[p] : c.id < open[p].id /\ c /= NoChunk
    /\ \A c, d \in closed[p] : c.id = d.id => c = d
    /\ pc[p] = "replay" /\ open[p] /= NoChunk => open[p].recs /= <<>>

(* What was listed is there, or is listed under a name that is.            *)
ListedThere(p) ==
    \A n \in ids[p] :
        /\ Misspelt(n) => n \in DOMAIN dir
        /\ \/ Exists(Parsed[n])
           \/ \E m \in DOMAIN dir : Misspelt(m) /\ Parsed[m] = Parsed[n]

(* What is there was listed or is known.  A misspelt name that is no       *)
(* longer on the list has left the proper name there, which will stop the  *)
(* open: its file is gone, or its chunk is replayed already.               *)
ThereListed(p) ==
    pc[p] \in {"trim", "replay"} =>
        /\ \A i \in 0..MaxNum : Exists(i) =>
               \/ ChunkName[i] \in ids[p]
               \/ \E c \in Known(p) : c.id = i
        /\ \A m \in DOMAIN dir : Misspelt(m) =>
               \/ m \in ids[p]
               \/ /\ ChunkName[Parsed[m]] \in ids[p]
                  /\ \/ ~Exists(Parsed[m])
                     \/ \E c \in Known(p) : c.id = Parsed[m]
        /\ \A c \in Known(p) : Exists(c.id)

(* The requests to unlink a chunk, which go out in the order of the ids.   *)
Removals(p) == {k \in 1..Len(worker[p].queue) :
                    worker[p].queue[k].kind = "remove"}

Up(p) ==
    pc[p] = "up" /\ worker[p].alive =>
        /\ open[p] /= NoChunk
        /\ \A m \in DOMAIN dir : ~Misspelt(m)
        /\ \A i \in 0..MaxNum : Exists(i) <=>
               \/ \E c \in Known(p) : c.id = i
               \/ \E k \in Removals(p) : worker[p].queue[k].id = i
               \/ i \in left[p]
        /\ \A c \in Known(p) : c.id \notin left[p]
        /\ \A k \in Removals(p) :
               /\ worker[p].queue[k].id \notin left[p]
               /\ \A c \in Known(p) : worker[p].queue[k].id < c.id
               /\ \A j \in Removals(p) :
                      k < j => worker[p].queue[k].id < worker[p].queue[j].id

Good(p) == Owner(p) /\ Ordered(p) /\ ListedThere(p) /\ ThereListed(p) /\ Up(p)

DInv == TypeInv /\ \A p \in Procs : Good(p)

-----------------------------------------------------------------------------
(* What a name reads as, and which names are proper.                       *)
LEMMA NameFacts ==
    /\ \A i \in 0..MaxNum : /\ ChunkName[i] \in Names
                            /\ ChunkName[i] \notin Strays
                            /\ Parsed[ChunkName[i]] = i
                            /\ ~Misspelt(ChunkName[i])
    /\ \A n \in Names : /\ Parsed[n] /= Invalid => Parsed[n] \in 0..MaxNum
                        /\ Misspelt(n) => /\ Parsed[n] \in 0..MaxNum
                                          /\ n /= ChunkName[Parsed[n]]
                        /\ Parsed[n] /= Invalid /\ ~Misspelt(n)
                               => n = ChunkName[Parsed[n]]
    /\ \A n \in Names : Parsed[n] \in Int
<1>1. \A i \in 0..MaxNum : ChunkName[i] = ChunkFileName(i)
      BY DEF ChunkName
<1>2. \A n \in Names : Parsed[n] = ParseChunkFileName(n)
      BY DEF Parsed
<1>3. \A n : ParseChunkFileName(n) /= Invalid
                 => ParseChunkFileName(n) \in 0..MaxNum
      BY DEF ParseChunkFileName
<1>4. \A i \in 0..MaxNum : ChunkName[i] \in Names
      BY DEF Names
<1>5. \A i \in 0..MaxNum : Parsed[ChunkName[i]] = i
      BY <1>1, <1>2, <1>4, NamesRoundTrip
<1>6. \A i \in 0..MaxNum : i /= Invalid
      BY DEF Invalid
<1>7. \A i \in 0..MaxNum : ~Misspelt(ChunkName[i])
      BY <1>1, <1>6, NamesRoundTrip DEF Misspelt
<1>8. \A i \in 0..MaxNum : ChunkName[i] \notin Strays
      BY <1>1, DirectoryAssumption
<1>9. \A n \in Names :
          /\ Misspelt(n) => /\ Parsed[n] \in 0..MaxNum
                            /\ n /= ChunkName[Parsed[n]]
          /\ Parsed[n] /= Invalid /\ ~Misspelt(n) => n = ChunkName[Parsed[n]]
      BY <1>1, <1>2, <1>3 DEF Misspelt
<1>10. \A n \in Names : Parsed[n] \in Int
  <2>1. Invalid \in Int
        BY DEF Invalid
  <2> QED BY <1>2, <1>3, <2>1
<1> QED BY <1>2, <1>3, <1>4, <1>5, <1>7, <1>8, <1>9, <1>10

(* The constants of the model have their types.                            *)
LEMMA ConstTypes ==
    /\ NoChunk \in Chunk /\ NoWorker \in Worker /\ MaxNum \in Nat
    /\ 0 \in 0..MaxNum
<1>1. MaxNum \in Nat
      BY NamesAssumption
<1>2. <<>> \in Seq(Rec) /\ <<>> \in Seq(Req)
      OBVIOUS
<1> QED BY <1>1, <1>2 DEF NoChunk, NoWorker, Chunk, Worker

-----------------------------------------------------------------------------
(* Adding a file or a record keeps the types of the directory.             *)
LEMMA CreateTypes ==
    ASSUME TypeInv, NEW id \in 0..MaxNum, NEW recs \in Seq(Rec),
           CreateFile(id, recs)
    PROVE  /\ data' \in Seq(Seq(Rec)) /\ Len(data) + 1 \in Nat
           /\ DOMAIN dir' = DOMAIN dir \union {ChunkName[id]}
           /\ DOMAIN dir' \subseteq Names
           /\ \A n \in DOMAIN dir' :
                  n \notin Strays => dir'[n] \in 1..Len(data')
<1>1. data \in Seq(Seq(Rec)) /\ data' = Append(data, recs)
      BY DEF TypeInv, CreateFile
<1>2. data' \in Seq(Seq(Rec)) /\ Len(data') = Len(data) + 1
      /\ Len(data) \in Nat
      BY <1>1
<1>3. /\ DOMAIN dir' = DOMAIN dir \union {ChunkName[id]}
      /\ \A n \in DOMAIN dir' :
            dir'[n] = IF n = ChunkName[id] THEN Len(data) + 1 ELSE dir[n]
      BY DEF CreateFile
<1>4. DOMAIN dir' \subseteq Names
      BY <1>3, NameFacts DEF TypeInv
<1>5. \A n \in DOMAIN dir' : n \notin Strays => dir'[n] \in 1..Len(data')
  <2> SUFFICES ASSUME NEW n \in DOMAIN dir', n \notin Strays
               PROVE  dir'[n] \in 1..Len(data')
      OBVIOUS
  <2>1. CASE n = ChunkName[id]
        BY <1>2, <1>3, <2>1
  <2>2. CASE n /= ChunkName[id]
    <3>1. n \in DOMAIN dir /\ dir'[n] = dir[n]
          BY <1>3, <2>2
    <3>2. dir[n] \in 1..Len(data)
          BY <3>1 DEF TypeInv
    <3> QED BY <1>2, <3>1, <3>2
  <2> QED BY <2>1, <2>2
<1> QED BY <1>2, <1>3, <1>4, <1>5

(* The file of a proper name is one of the files with data.                *)
LEMMA FileTypes ==
    ASSUME TypeInv, NEW id \in 0..MaxNum, Exists(id)
    PROVE  FileOf(id) \in 1..Len(data) /\ FileOf(id) \in Nat
           /\ data[FileOf(id)] \in Seq(Rec)
<1>1. FileOf(id) \in 1..Len(data)
      BY NameFacts DEF TypeInv, Exists, FileOf
<1> QED BY <1>1 DEF TypeInv

(* The process lets go: its entries are as at the start.                   *)
LEMMA LeaveTypes ==
    ASSUME TypeInv, NEW p \in Procs, Leave(p), UNCHANGED <<dir, data, writes>>,
           worker' \in [Procs -> Worker]
    PROVE  TypeInv'
BY ConstTypes DEF TypeInv, Leave, PCs

(* Requests go to the end of a worker's queue.                             *)
LEMMA EnqueueTypes ==
    ASSUME TypeInv, NEW p \in Procs, NEW reqs \in Seq(Req), Enqueue(p, reqs)
    PROVE  /\ worker' \in [Procs -> Worker]
           /\ worker'[p].queue = worker[p].queue \o reqs
           /\ worker'[p].alive = worker[p].alive
           /\ \A q \in Procs : q /= p => worker'[q] = worker[q]
<1>1. worker[p] \in Worker
      BY DEF TypeInv
<1>2. worker[p].queue \o reqs \in Seq(Req)
      BY <1>1 DEF Worker
<1>3. worker' = [worker EXCEPT ![p] =
                   [worker[p] EXCEPT !.queue = worker[p].queue \o reqs]]
      BY DEF Enqueue
<1>4. [worker[p] EXCEPT !.queue = worker[p].queue \o reqs] \in Worker
      BY <1>1, <1>2 DEF Worker
<1> QED BY <1>1, <1>3, <1>4 DEF TypeInv, Worker

(* A rotation begins: where the open chunk ends, above its id.             *)
LEMMA EndTypes ==
    ASSUME TypeInv, NEW p \in Procs, CanRotate(p)
    PROVE  /\ pc[p] = "up" /\ worker[p].alive
           /\ open[p] \in Chunk /\ open[p].id \in 0..MaxNum
           /\ EndOf(open[p]) \in 0..MaxNum /\ open[p].id < EndOf(open[p])
<1>1. open[p] \in Chunk
      BY DEF TypeInv
<1>2. open[p].id \in 0..MaxNum /\ Len(open[p].recs) \in Nat
      BY <1>1 DEF Chunk
<1> QED BY <1>1, <1>2, ConstTypes DEF CanRotate, CanSend, EndOf

(* Each step keeps the types.                                              *)
LEMMA NextTypes ==
    ASSUME TypeInv, Next
    PROVE  TypeInv'
<1> USE DEF readerVars, ownerVars
<1>1. ASSUME NEW s \in Strays, StrayAppears(s)
      PROVE  TypeInv'
  <2>1. DOMAIN dir' = DOMAIN dir \union {s} /\ UNCHANGED data
        /\ \A n \in DOMAIN dir' : n \notin Strays => dir'[n] = dir[n]
                                                  /\ n \in DOMAIN dir
        BY <1>1 DEF StrayAppears
  <2>2. DOMAIN dir' \subseteq Names
        BY <1>1, <2>1 DEF TypeInv, Names
  <2> QED BY <1>1, <2>1, <2>2 DEF TypeInv, StrayAppears
<1>2. ASSUME NEW p \in Procs, TryLock(p)
      PROVE  TypeInv'
      BY <1>2 DEF TypeInv, TryLock, PCs
<1>3. ASSUME NEW p \in Procs, DropLock(p)
      PROVE  TypeInv'
  <2>1. worker' \in [Procs -> Worker]
        BY <1>3 DEF DropLock, TypeInv
  <2> QED BY <1>3, <2>1, LeaveTypes DEF DropLock
<1>4. ASSUME NEW p \in Procs, NEW call \in {"trim", "dump"},
             LoadChunkIds(p, call)
      PROVE  TypeInv'
      BY <1>4 DEF TypeInv, LoadChunkIds, ChunkIds, Readable, PCs
<1>5. ASSUME NEW p \in Procs, Dump(p)
      PROVE  TypeInv'
  <2>1. ids' \in [Procs -> SUBSET Readable] /\ pc' \in [Procs -> PCs]
    <3>1. CASE UNCHANGED pc /\ \E n \in Lowest(ids[p]) :
                   ids' = [ids EXCEPT ![p] = @ \ {n}]
          BY <3>1 DEF TypeInv
    <3>2. CASE /\ ids' = [ids EXCEPT ![p] = {}]
               /\ pc' = [pc EXCEPT ![p] = "locked"]
          BY <3>2 DEF TypeInv, PCs
    <3> QED BY <1>5, <3>1, <3>2 DEF Dump
  <2> QED BY <1>5, <2>1 DEF Dump, TypeInv
<1>6. ASSUME NEW p \in Procs, Trim(p)
      PROVE  TypeInv'
  <2>1. PICK n \in Highest(ids[p]) :
          /\ dir' = [m \in DOMAIN dir \ {ChunkName[Parsed[n]]} |-> dir[m]]
          /\ ids' = [ids EXCEPT ![p] = @ \ {n}]
        BY <1>6 DEF Trim
  <2>2. ids' \in [Procs -> SUBSET Readable]
        BY <2>1 DEF TypeInv
  <2>3. DOMAIN dir' \subseteq DOMAIN dir
        /\ \A m \in DOMAIN dir' : dir'[m] = dir[m]
        BY <2>1
  <2> QED BY <1>6, <2>2, <2>3 DEF Trim, TypeInv
<1>7. ASSUME NEW p \in Procs, TrimEnd(p)
      PROVE  TypeInv'
      BY <1>7 DEF TrimEnd, TypeInv, PCs
<1>8. ASSUME NEW p \in Procs, Replay(p)
      PROVE  TypeInv'
  <2>1. PICK n \in Lowest(ids[p]) :
          /\ CanReplay(p, Parsed[n])
          /\ open' = [open EXCEPT ![p] =
                         [id |-> Parsed[n], file |-> FileOf(Parsed[n]),
                          recs |-> data[FileOf(Parsed[n])]]]
          /\ ids' = [ids EXCEPT ![p] = @ \ {n}]
        BY <1>8 DEF Replay
  <2>2. n \in Readable /\ Exists(Parsed[n])
        BY <2>1 DEF Lowest, TypeInv, CanReplay
  <2>3. Parsed[n] \in 0..MaxNum
        BY <2>2, NameFacts DEF Readable
  <2>4. [id |-> Parsed[n], file |-> FileOf(Parsed[n]),
         recs |-> data[FileOf(Parsed[n])]] \in Chunk
        BY <2>2, <2>3, FileTypes DEF Chunk
  <2>5. /\ open' \in [Procs -> Chunk] /\ closed' \in [Procs -> SUBSET Chunk]
        /\ ids' \in [Procs -> SUBSET Readable]
        BY <1>8, <2>1, <2>4 DEF TypeInv, Replay
  <2> QED BY <1>8, <2>5 DEF TypeInv, Replay
<1>9. ASSUME NEW p \in Procs, OpenFails(p)
      PROVE  TypeInv'
  <2>1. worker' \in [Procs -> Worker]
        BY <1>9 DEF OpenFails, TypeInv
  <2> QED BY <1>9, <2>1, LeaveTypes DEF OpenFails
<1>10. ASSUME NEW p \in Procs, NEW f \in Nat, StartWorker(p, f)
      PROVE  worker' \in [Procs -> Worker]
  <2>1. [NoWorker EXCEPT !.alive = TRUE, !.file = f] \in Worker
        BY ConstTypes DEF Worker
  <2> QED BY <1>10, <2>1 DEF StartWorker, TypeInv
<1>11. ASSUME NEW p \in Procs, ReopenLast(p)
      PROVE  TypeInv'
  <2>1. open[p].file \in Nat
        BY DEF TypeInv, Chunk
  <2>2. worker' \in [Procs -> Worker]
        BY <1>10, <1>11, <2>1 DEF ReopenLast
  <2> QED BY <1>11, <2>2 DEF ReopenLast, TypeInv, PCs
<1>12. \A p \in Procs : Record(p) \in Rec
      BY DEF Record, Rec, TypeInv
<1>13. ASSUME NEW p \in Procs, CreateFirst(p)
      PROVE  TypeInv'
  <2>1. <<Record(p)>> \in Seq(Rec)
        BY <1>12
  <2>2. CreateFile(0, <<Record(p)>>)
        BY <1>13 DEF CreateFirst
  <2>3. /\ data' \in Seq(Seq(Rec)) /\ Len(data) + 1 \in Nat
        /\ DOMAIN dir' \subseteq Names
        /\ \A n \in DOMAIN dir' : n \notin Strays => dir'[n] \in 1..Len(data')
        BY <2>1, <2>2, CreateTypes, ConstTypes
  <2>4. worker' \in [Procs -> Worker]
        BY <1>10, <1>13, <2>3 DEF CreateFirst
  <2>5. open' \in [Procs -> Chunk]
        BY <1>13, <2>1, <2>3, ConstTypes DEF CreateFirst, TypeInv, Chunk
  <2> QED BY <1>13, <2>3, <2>4, <2>5 DEF CreateFirst, TypeInv, PCs
<1>14. ASSUME NEW p \in Procs, Write(p)
      PROVE  TypeInv'
  <2> DEFINE r == [by |-> p, n |-> writes']
  <2>1. writes' \in Nat /\ r \in Rec
        BY <1>14 DEF Write, TypeInv, Rec
  <2>2. open[p] \in Chunk /\ Append(open[p].recs, r) \in Seq(Rec)
        BY <2>1 DEF TypeInv, Chunk
  <2>3. open' = [open EXCEPT ![p] =
                   [open[p] EXCEPT !.recs = Append(open[p].recs, r)]]
        BY <1>14 DEF Write
  <2>4. [open[p] EXCEPT !.recs = Append(open[p].recs, r)] \in Chunk
        BY <2>2 DEF Chunk
  <2>5. open' \in [Procs -> Chunk]
        BY <2>3, <2>4 DEF TypeInv
  <2>6. <<[kind |-> "write", rec |-> r]>> \in Seq(Req)
        BY <2>1 DEF Req
  <2>7. worker' \in [Procs -> Worker]
        BY <1>14, <2>6, EnqueueTypes DEF Write
  <2> QED BY <1>14, <2>1, <2>5, <2>7 DEF Write, TypeInv
<1>15. ASSUME NEW p \in Procs, Rotate(p)
      PROVE  TypeInv'
  <2>1. EndOf(open[p]) \in 0..MaxNum
        BY <1>15, EndTypes DEF Rotate
  <2>2. <<Record(p)>> \in Seq(Rec) /\ <<>> \in Seq(Rec)
        BY <1>12
  <2>3. CreateFile(EndOf(open[p]), <<>>)
        BY <1>15 DEF Rotate
  <2>4. /\ data' \in Seq(Seq(Rec)) /\ Len(data) + 1 \in Nat
        /\ DOMAIN dir' \subseteq Names
        /\ \A n \in DOMAIN dir' : n \notin Strays => dir'[n] \in 1..Len(data')
        BY <2>1, <2>2, <2>3, CreateTypes
  <2>5. <<[kind |-> "append", file |-> Len(data) + 1],
          [kind |-> "write", rec |-> Record(p)]>> \in Seq(Req)
    <3>1. [kind |-> "append", file |-> Len(data) + 1] \in Req
          BY <2>4 DEF Req
    <3>2. [kind |-> "write", rec |-> Record(p)] \in Req
          BY <1>12 DEF Req
    <3> QED BY <3>1, <3>2
  <2>6. worker' \in [Procs -> Worker]
        BY <1>15, <2>5, EnqueueTypes DEF Rotate
  <2>7. /\ open' \in [Procs -> Chunk]
        /\ closed' \in [Procs -> SUBSET Chunk]
        BY <1>15, <2>1, <2>2, <2>4 DEF Rotate, TypeInv, Chunk
  <2> QED BY <1>15, <2>4, <2>6, <2>7 DEF Rotate, TypeInv
<1>16. ASSUME NEW p \in Procs, Purge(p)
      PROVE  TypeInv'
  <2>1. PICK c \in closed[p] :
          /\ closed' = [closed EXCEPT ![p] = @ \ {c}]
          /\ Enqueue(p, <<[kind |-> "remove", id |-> c.id]>>)
        BY <1>16 DEF Purge
  <2>2. c.id \in 0..MaxNum
        BY <2>1 DEF TypeInv, Chunk
  <2>3. <<[kind |-> "remove", id |-> c.id]>> \in Seq(Req)
    <3>1. [kind |-> "remove", id |-> c.id] \in Req
          BY <2>2 DEF Req
    <3> QED BY <3>1
  <2>4. worker' \in [Procs -> Worker]
        BY <2>1, <2>3, EnqueueTypes
  <2>5. closed' \in [Procs -> SUBSET Chunk]
        BY <2>1 DEF TypeInv
  <2> QED BY <1>16, <2>4, <2>5 DEF Purge, TypeInv
<1>17. ASSUME NEW p \in Procs, TakeReader(p) \/ Shutdown(p) \/ Join(p)
      PROVE  TypeInv'
      BY <1>17 DEF TakeReader, Shutdown, Join, TypeInv, PCs
<1>18. ASSUME NEW p \in Procs, WorkerStep(p)
      PROVE  TypeInv'
  <2>1. worker[p] \in Worker /\ worker[p].queue \in Seq(Req)
        BY DEF TypeInv, Worker
  <2>2. Tail(worker[p].queue) \in Seq(Req) /\ Head(worker[p].queue) \in Req
    <3>1. worker[p].queue /= <<>>
          BY <1>18 DEF WorkerStep
    <3>2. \A q \in Seq(Req) : q /= <<>> => Tail(q) \in Seq(Req) /\ Head(q) \in Req
          OBVIOUS
    <3> QED BY <2>1, <3>1, <3>2
  <2>3. worker' \in [Procs -> Worker]
    <3>1. CASE worker' = [worker EXCEPT ![p].queue = Tail(@)]
          BY <2>1, <2>2, <3>1 DEF TypeInv, Worker
    <3>2. CASE /\ Head(worker[p].queue).kind = "append"
               /\ worker' = [worker EXCEPT ![p].queue = Tail(@),
                             ![p].file = Head(worker[p].queue).file]
      <4>1. Head(worker[p].queue).file \in Nat
            BY <2>2, <3>2 DEF Req
      <4> QED BY <2>1, <2>2, <3>2, <4>1 DEF TypeInv, Worker
    <3> QED BY <1>18, <3>1, <3>2 DEF WorkerStep
  <2>4. data' \in Seq(Seq(Rec)) /\ Len(data') = Len(data)
    <3>1. CASE /\ Head(worker[p].queue).kind = "write"
               /\ data' = [data EXCEPT ![worker[p].file] =
                             Append(@, Head(worker[p].queue).rec)]
      <4>1. Head(worker[p].queue).rec \in Rec
            BY <2>2, <3>1 DEF Req
      <4>2. ASSUME worker[p].file \in DOMAIN data
            PROVE  Append(data[worker[p].file], Head(worker[p].queue).rec)
                       \in Seq(Rec)
            BY <4>1, <4>2 DEF TypeInv
      <4>3. CASE worker[p].file \in DOMAIN data
        <5>1. data \in [1..Len(data) -> Seq(Rec)] /\ Len(data) \in Nat
              BY DEF TypeInv
        <5>2. data' \in [1..Len(data) -> Seq(Rec)]
              BY <3>1, <4>2, <4>3, <5>1
        <5> QED BY <5>1, <5>2
      <4>4. CASE worker[p].file \notin DOMAIN data
        <5>1. data' = data
              BY <3>1, <4>4 DEF TypeInv
        <5> QED BY <5>1 DEF TypeInv
      <4> QED BY <4>3, <4>4
    <3>2. CASE data' = data
          BY <3>2 DEF TypeInv
    <3> QED BY <1>18, <3>1, <3>2 DEF WorkerStep
  <2>5. DOMAIN dir' \subseteq DOMAIN dir
        /\ \A m \in DOMAIN dir' : dir'[m] = dir[m]
        BY <1>18 DEF WorkerStep
  <2> QED BY <1>18, <2>3, <2>4, <2>5 DEF WorkerStep, TypeInv
<1>19. ASSUME NEW p \in Procs, WorkerFails(p) \/ WorkerQuits(p)
      PROVE  TypeInv'
      BY <1>19, ConstTypes DEF WorkerFails, WorkerQuits, TypeInv
<1>20. ASSUME NEW p \in Procs, ProcessDies(p)
      PROVE  TypeInv'
  <2>1. worker' \in [Procs -> Worker]
        BY <1>20, ConstTypes DEF ProcessDies, TypeInv
  <2> QED BY <1>20, <2>1, LeaveTypes DEF ProcessDies
<1>21. ASSUME NEW p \in Procs, RotateSyncErr(p)
      PROVE  TypeInv'
  <2>1. EndOf(open[p]) \in 0..MaxNum
        BY <1>21, EndTypes DEF RotateSyncErr
  <2>2. <<>> \in Seq(Rec) /\ CreateFile(EndOf(open[p]), <<>>)
        BY <1>21 DEF RotateSyncErr
  <2>3. /\ data' \in Seq(Seq(Rec)) /\ DOMAIN dir' \subseteq Names
        /\ \A n \in DOMAIN dir' : n \notin Strays => dir'[n] \in 1..Len(data')
        BY <2>1, <2>2, CreateTypes
  <2>4. left' \in [Procs -> SUBSET (0..MaxNum)]
        BY <1>21, <2>1 DEF RotateSyncErr, TypeInv
  <2> QED BY <1>21, <2>3, <2>4 DEF RotateSyncErr, TypeInv
<1>22. ASSUME NEW p \in Procs, RotateEncodeErr(p)
      PROVE  TypeInv'
  <2>1. EndOf(open[p]) \in 0..MaxNum /\ open[p].id \in 0..MaxNum
        BY <1>22, EndTypes DEF RotateEncodeErr
  <2>2. <<>> \in Seq(Rec) /\ CreateFile(EndOf(open[p]), <<>>)
        BY <1>22 DEF RotateEncodeErr
  <2>3. /\ data' \in Seq(Seq(Rec)) /\ Len(data) + 1 \in Nat
        /\ DOMAIN dir' \subseteq Names
        /\ \A n \in DOMAIN dir' : n \notin Strays => dir'[n] \in 1..Len(data')
        BY <2>1, <2>2, CreateTypes
  <2>4. <<[kind |-> "append", file |-> Len(data) + 1]>> \in Seq(Req)
    <3>1. [kind |-> "append", file |-> Len(data) + 1] \in Req
          BY <2>3 DEF Req
    <3> QED BY <3>1
  <2>5. worker' \in [Procs -> Worker]
        BY <1>22, <2>4, EnqueueTypes DEF RotateEncodeErr
  <2>6. /\ open' \in [Procs -> Chunk]
        /\ left' \in [Procs -> SUBSET (0..MaxNum)]
        BY <1>22, <2>1, <2>2, <2>3 DEF RotateEncodeErr, TypeInv, Chunk
  <2> QED BY <1>22, <2>3, <2>5, <2>6 DEF RotateEncodeErr, TypeInv
<1> QED
    BY <1>1, <1>2, <1>3, <1>4, <1>5, <1>6, <1>7, <1>8, <1>9, <1>11, <1>13,
       <1>14, <1>15, <1>16, <1>17, <1>18, <1>19, <1>20, <1>21, <1>22 DEF Next

-----------------------------------------------------------------------------
(* Whatever the lock's holder does is no concern of the other processes.   *)
LEMMA OthersGood ==
    ASSUME NEW q \in Procs, Good(q), lock /= q, pc'[q] = pc[q],
           ids'[q] = ids[q], closed'[q] = closed[q], open'[q] = open[q],
           left'[q] = left[q], worker'[q] = worker[q]
    PROVE  Good(q)'
<1>1. pc[q] = "out" /\ ids[q] = {} /\ ~worker[q].alive
      /\ open[q] = NoChunk /\ closed[q] = {} /\ left[q] = {}
      BY DEF Good, Owner
<1>2. Owner(q)' /\ Ordered(q)'
      BY <1>1 DEF Owner, Ordered
<1>3. ListedThere(q)' /\ ThereListed(q)' /\ Up(q)'
      BY <1>1 DEF ListedThere, ThereListed, Up
<1> QED BY <1>2, <1>3 DEF Good

(* A process without the lock, and without a memory of the directory.      *)
LEMMA OutGood ==
    ASSUME NEW p \in Procs, pc'[p] \in {"out", "locked"}, ids'[p] = {},
           closed'[p] = {}, open'[p] = NoChunk, left'[p] = {},
           ~worker'[p].alive,
           pc'[p] = "out" \/ lock' = p
    PROVE  Good(p)'
BY DEF Good, Owner, Ordered, ListedThere, ThereListed, Up

(* The chunks listed are the chunk files there are.                        *)
LEMMA ListGood ==
    ASSUME DInv, NEW p \in Procs, NEW call \in {"trim", "dump"},
           LoadChunkIds(p, call)
    PROVE  Good(p)'
<1>1. /\ ids'[p] = {n \in DOMAIN dir : Parsed[n] /= Invalid}
      /\ pc'[p] = call /\ pc[p] = "locked"
      /\ UNCHANGED <<lock, dir, closed, open, left, worker>>
      BY DEF LoadChunkIds, ChunkIds, DInv, TypeInv
<1>2. /\ lock = p /\ open[p] = NoChunk /\ closed[p] = {} /\ ~worker[p].alive
      /\ left[p] = {} /\ DOMAIN dir \subseteq Names
      BY <1>1 DEF DInv, TypeInv, Good, Owner
<1>3. Owner(p)' /\ Ordered(p)' /\ Up(p)'
      BY <1>1, <1>2 DEF Owner, Ordered, Up
<1>4. ListedThere(p)'
  <2> SUFFICES ASSUME NEW n \in ids'[p]
               PROVE  /\ n \in DOMAIN dir
                      /\ \/ Exists(Parsed[n])
                         \/ \E m \in DOMAIN dir :
                                Misspelt(m) /\ Parsed[m] = Parsed[n]
      BY <1>1 DEF ListedThere, Exists
  <2>1. n \in DOMAIN dir /\ n \in Names /\ Parsed[n] /= Invalid
        BY <1>1, <1>2
  <2>2. CASE Misspelt(n)
        BY <2>1, <2>2
  <2>3. CASE ~Misspelt(n)
        BY <2>1, <2>3, NameFacts DEF Exists
  <2> QED BY <2>1, <2>2, <2>3
<1>5. ThereListed(p)'
  <2>1. Known(p)' = {}
        BY <1>1, <1>2 DEF Known
  <2>2. \A i \in 0..MaxNum : Exists(i)' => ChunkName[i] \in ids'[p]
    <3>1. \A i \in 0..MaxNum : i /= Invalid
          BY DEF Invalid
    <3> QED BY <1>1, <3>1, NameFacts DEF Exists
  <2>3. \A m \in DOMAIN dir' : Misspelt(m) => m \in ids'[p]
        BY <1>1 DEF Misspelt, Parsed, DInv, TypeInv
  <2> QED BY <2>1, <2>2, <2>3 DEF ThereListed
<1> QED BY <1>3, <1>4, <1>5 DEF Good

(* A dump takes names off the list and touches no file.                    *)
LEMMA DumpGood ==
    ASSUME DInv, NEW p \in Procs, Dump(p)
    PROVE  Good(p)'
<1>1. /\ pc[p] = "dump" /\ UNCHANGED <<lock, dir, closed, open, left, worker>>
      /\ ids'[p] \subseteq ids[p]
      /\ pc'[p] = "dump" \/ (pc'[p] = "locked" /\ ids'[p] = {})
      BY DEF Dump, DInv, TypeInv
<1>2. ListedThere(p)'
      BY <1>1 DEF DInv, Good, ListedThere, Exists
<1> QED BY <1>1, <1>2
        DEF DInv, Good, Owner, Ordered, ThereListed, Up

(* The last chunk is removed: if two names read as its id, the other one   *)
(* stays on the list, or stays in the directory.                           *)
LEMMA TrimGood ==
    ASSUME DInv, NEW p \in Procs, Trim(p)
    PROVE  Good(p)'
<1>1. PICK n \in Highest(ids[p]) :
          /\ Exists(Parsed[n])
          /\ dir' = [m \in DOMAIN dir \ {ChunkName[Parsed[n]]} |-> dir[m]]
          /\ ids' = [ids EXCEPT ![p] = @ \ {n}]
      BY DEF Trim
<1> DEFINE id == Parsed[n]
           c == ChunkName[id]
<1>2. /\ pc[p] = "trim" /\ pc'[p] = "trim"
      /\ UNCHANGED <<lock, closed, open, left, worker>>
      /\ ids'[p] = ids[p] \ {n} /\ DOMAIN dir' = DOMAIN dir \ {c}
      BY <1>1 DEF Trim, DInv, TypeInv
<1>3. /\ lock = p /\ open[p] = NoChunk /\ closed[p] = {} /\ ~worker[p].alive
      /\ n \in ids[p] /\ ids[p] \subseteq Readable /\ left[p] = {}
      /\ DOMAIN dir \subseteq Names
      BY <1>1, <1>2 DEF DInv, TypeInv, Good, Owner, Highest
<1>4. id \in 0..MaxNum /\ c \in DOMAIN dir /\ ~Misspelt(c)
      /\ Parsed[c] = id
      BY <1>1, <1>3, NameFacts DEF Readable, Exists
<1>5. Known(p) = {} /\ Known(p)' = {}
      BY <1>2, <1>3 DEF Known
<1>6. Owner(p)' /\ Ordered(p)' /\ Up(p)'
      BY <1>2, <1>3 DEF Owner, Ordered, Up
<1>7. \A m \in ids[p] : m \in Names /\ Parsed[m] \in 0..MaxNum
      BY <1>3, NameFacts DEF Readable
<1>8. c \in ids[p]
      BY <1>2, <1>4, <1>5 DEF DInv, Good, ThereListed, Exists
<1>9. \A m \in DOMAIN dir : Misspelt(m) => m \in DOMAIN dir'
      BY <1>2, <1>4
<1>10. ListedThere(p)'
  <2> SUFFICES ASSUME NEW k \in ids'[p]
               PROVE  /\ Misspelt(k) => k \in DOMAIN dir'
                      /\ \/ ChunkName[Parsed[k]] \in DOMAIN dir'
                         \/ \E m \in DOMAIN dir' :
                                Misspelt(m) /\ Parsed[m] = Parsed[k]
      BY DEF ListedThere, Exists
  <2>1. k \in ids[p] /\ k /= n
        BY <1>2
  <2>2. /\ Misspelt(k) => k \in DOMAIN dir
        /\ \/ ChunkName[Parsed[k]] \in DOMAIN dir
           \/ \E m \in DOMAIN dir : Misspelt(m) /\ Parsed[m] = Parsed[k]
        BY <2>1 DEF DInv, Good, ListedThere, Exists
  <2>3. CASE Parsed[k] = id
    <3>1. CASE Misspelt(k)
          BY <1>9, <2>2, <3>1
    <3>2. CASE ~Misspelt(k)
      <4>1. k = c
            BY <1>3, <2>1, <2>3, <3>2, NameFacts DEF Readable
      <4>2. Misspelt(n)
            BY <1>3, <2>1, <4>1, NameFacts DEF Readable
      <4>3. n \in DOMAIN dir
            BY <1>3, <4>2 DEF DInv, Good, ListedThere
      <4> QED BY <1>9, <2>3, <3>2, <4>2, <4>3
    <3> QED BY <3>1, <3>2
  <2>4. CASE Parsed[k] /= id
    <3>1. ChunkName[Parsed[k]] /= c
          BY <1>4, <1>7, <2>1, <2>4, NameFacts
    <3> QED BY <1>2, <1>9, <2>2, <3>1
  <2> QED BY <2>3, <2>4
<1>11. ThereListed(p)'
  <2>1. ASSUME NEW i \in 0..MaxNum, ChunkName[i] \in DOMAIN dir'
        PROVE  ChunkName[i] \in ids'[p]
    <3>1. ChunkName[i] \in ids[p] /\ ChunkName[i] /= c
          BY <1>2, <1>5, <2>1 DEF DInv, Good, ThereListed, Exists
    <3>2. ChunkName[i] /= n
      <4>1. CASE ChunkName[i] = n
        <5>1. Parsed[n] = i
              BY <4>1, NameFacts
        <5> QED BY <3>1, <4>1, <5>1
      <4> QED BY <4>1
    <3> QED BY <1>2, <3>1, <3>2
  <2>2. ASSUME NEW m \in DOMAIN dir', Misspelt(m)
        PROVE  \/ m \in ids'[p]
               \/ ChunkName[Parsed[m]] \in ids'[p]
                  /\ ChunkName[Parsed[m]] \notin DOMAIN dir'
    <3>1. m \in DOMAIN dir /\ m \in Names
          BY <1>2, <1>3
    <3>2. \/ m \in ids[p]
          \/ ChunkName[Parsed[m]] \in ids[p]
             /\ ChunkName[Parsed[m]] \notin DOMAIN dir
          BY <1>2, <1>5, <2>2, <3>1 DEF DInv, Good, ThereListed, Exists
    <3>3. CASE m = n
      <4>1. c /= n
            BY <1>4, <2>2, <3>3
      <4> QED BY <1>2, <1>8, <3>3, <4>1
    <3>4. CASE m /= n /\ m \in ids[p]
          BY <1>2, <3>4
    <3>5. CASE m \notin ids[p]
      <4>1. ChunkName[Parsed[m]] /= n
        <5>1. CASE ChunkName[Parsed[m]] = n
          <6>1. Parsed[m] \in 0..MaxNum
                BY <2>2, <3>1, NameFacts
          <6>2. Parsed[n] = Parsed[m]
                BY <5>1, <6>1, NameFacts
          <6> QED BY <1>4, <3>2, <3>5, <6>2
        <5> QED BY <5>1
      <4> QED BY <1>2, <3>2, <3>5, <4>1
    <3> QED BY <3>3, <3>4, <3>5
  <2> QED BY <1>5, <2>1, <2>2 DEF ThereListed, Exists
<1> QED BY <1>6, <1>10, <1>11 DEF Good

(* A chunk is replayed: its id is above all that were replayed before.     *)
LEMMA ReplayGood ==
    ASSUME DInv, NEW p \in Procs, Replay(p)
    PROVE  Good(p)'
<1>1. PICK n \in Lowest(ids[p]) :
          /\ CanReplay(p, Parsed[n])
          /\ open' = [open EXCEPT ![p] =
                         [id |-> Parsed[n], file |-> FileOf(Parsed[n]),
                          recs |-> data[FileOf(Parsed[n])]]]
          /\ ids' = [ids EXCEPT ![p] = @ \ {n}]
      BY DEF Replay
<1> DEFINE id == Parsed[n]
           c == ChunkName[id]
           nc == [id |-> id, file |-> FileOf(id), recs |-> data[FileOf(id)]]
<1>2. /\ pc[p] = "replay" /\ pc'[p] = "replay"
      /\ UNCHANGED <<lock, dir, left, worker>>
      /\ ids'[p] = ids[p] \ {n} /\ open'[p] = nc
      /\ closed'[p] = closed[p] \union ({open[p]} \ {NoChunk})
      BY <1>1 DEF Replay, DInv, TypeInv
<1>3. /\ lock = p /\ ~worker[p].alive /\ left[p] = {} /\ n \in ids[p]
      /\ ids[p] \subseteq Readable /\ DOMAIN dir \subseteq Names
      BY <1>1, <1>2 DEF DInv, TypeInv, Good, Owner, Lowest
<1>4. /\ id \in 0..MaxNum /\ Exists(id) /\ ~Misspelt(c) /\ Parsed[c] = id
      BY <1>1, <1>3, NameFacts DEF Readable, CanReplay
<1>5. data[FileOf(id)] \in Seq(Rec) /\ data[FileOf(id)] /= <<>>
      BY <1>1, <1>4, FileTypes DEF DInv, CanReplay
<1>6. nc /= NoChunk
      BY <1>5 DEF NoChunk
<1>7. \A d \in Known(p) : d.id < id
  <2>1. closed[p] \subseteq Chunk /\ open[p] \in Chunk
        BY DEF DInv, TypeInv
  <2>2. \A d \in closed[p] : d.id < open[p].id
        BY DEF DInv, Good, Ordered
  <2>3. CASE open[p] = NoChunk
    <3>1. \A d \in closed[p] : d.id >= 0 /\ d.id < 0
          BY <2>1, <2>2, <2>3 DEF Chunk, NoChunk
    <3> QED BY <2>1, <2>3, <3>1 DEF Known, Chunk
  <2>4. CASE open[p] /= NoChunk
    <3>1. open[p].recs \in Seq(Rec) /\ open[p].recs /= <<>>
          /\ open[p].id \in 0..MaxNum
          BY <1>2, <2>1, <2>4 DEF DInv, Good, Ordered, Chunk
    <3>2. open[p].id < EndOf(open[p]) /\ id = EndOf(open[p])
          BY <1>1, <2>4, <3>1 DEF CanReplay, EndOf
    <3>3. \A d \in closed[p] : d.id \in Int
          BY <2>1 DEF Chunk
    <3> QED BY <1>4, <2>2, <3>1, <3>2, <3>3 DEF Known
  <2> QED BY <2>3, <2>4
<1>8. Known(p)' = Known(p) \union {nc}
      BY <1>2, <1>6 DEF Known
<1>9. Owner(p)'
      BY <1>2, <1>3 DEF Owner
<1>10. Ordered(p)'
  <2>1. \A d \in closed'[p] : d \in Known(p)
        BY <1>2 DEF Known, DInv, Good, Ordered
  <2>2. \A d \in closed'[p] : d.id < id /\ d /= NoChunk
        BY <1>7, <2>1 DEF Known
  <2>3. \A d \in closed[p] : d.id < open[p].id
        BY DEF DInv, Good, Ordered
  <2>4. closed[p] \subseteq Chunk /\ open[p] \in Chunk
        BY DEF DInv, TypeInv
  <2>5. \A d, e \in closed'[p] : d.id = e.id => d = e
    <3>1. \A d \in Chunk : d.id \in Int
          BY DEF Chunk
    <3>2. \A d, e \in closed[p] : d.id = e.id => d = e
          BY DEF DInv, Good, Ordered
    <3> QED BY <1>2, <2>3, <2>4, <3>1, <3>2
  <2> QED BY <1>2, <1>5, <2>2, <2>5 DEF Ordered
<1>11. ListedThere(p)'
      BY <1>2 DEF DInv, Good, ListedThere, Exists
<1>12. c \in ids[p]
  <2>1. ~\E d \in Known(p) : d.id = id
        BY <1>4, <1>7
  <2> QED BY <1>2, <1>4, <2>1 DEF DInv, Good, ThereListed
<1>13. ThereListed(p)'
  <2>1. ASSUME NEW i \in 0..MaxNum, Exists(i)
        PROVE  ChunkName[i] \in ids'[p] \/ \E d \in Known(p)' : d.id = i
    <3>1. ChunkName[i] \in ids[p] \/ \E d \in Known(p) : d.id = i
          BY <1>2, <2>1 DEF DInv, Good, ThereListed
    <3>2. CASE ChunkName[i] = n
      <4>1. nc.id = i
            BY <3>2, NameFacts
      <4> QED BY <1>8, <4>1
    <3> QED BY <1>2, <1>8, <3>1, <3>2
  <2>2. ASSUME NEW m \in DOMAIN dir, Misspelt(m)
        PROVE  \/ m \in ids'[p]
               \/ /\ ChunkName[Parsed[m]] \in ids'[p]
                  /\ \/ ~Exists(Parsed[m])
                     \/ \E d \in Known(p)' : d.id = Parsed[m]
    <3>1. \/ m \in ids[p]
          \/ /\ ChunkName[Parsed[m]] \in ids[p]
             /\ \/ ~Exists(Parsed[m])
                \/ \E d \in Known(p) : d.id = Parsed[m]
          BY <1>2, <2>2 DEF DInv, Good, ThereListed
    <3>2. CASE m = n
      <4>1. c \in ids'[p]
            BY <1>2, <1>4, <1>12, <2>2, <3>2
      <4>2. nc \in Known(p)' /\ nc.id = Parsed[m]
            BY <1>8, <3>2
      <4> QED BY <3>2, <4>1, <4>2
    <3>3. CASE m \notin ids[p]
      <4>1. ChunkName[Parsed[m]] /= n
        <5>1. CASE ChunkName[Parsed[m]] = n
          <6>1. Parsed[m] \in 0..MaxNum
                BY <1>3, <2>2, NameFacts
          <6>2. id = Parsed[m]
                BY <5>1, <6>1, NameFacts
          <6>3. \E d \in Known(p) : d.id = id
                BY <1>4, <3>1, <3>3, <6>2
          <6> QED BY <1>4, <1>7, <6>3
        <5> QED BY <5>1
      <4> QED BY <1>2, <1>8, <3>1, <3>3, <4>1
    <3> QED BY <1>2, <3>2, <3>3
  <2>3. \A d \in Known(p)' : Exists(d.id)
        BY <1>2, <1>4, <1>8 DEF DInv, Good, ThereListed
  <2> QED BY <1>2, <2>1, <2>2, <2>3 DEF ThereListed, Exists
<1>14. Up(p)'
      BY <1>2 DEF Up
<1> QED BY <1>9, <1>10, <1>11, <1>13, <1>14 DEF Good

(* The list is done: what is known is what is there.                       *)
LEMMA AllListed ==
    ASSUME DInv, NEW p \in Procs, pc[p] = "replay", ids[p] = {}
    PROVE  /\ \A m \in DOMAIN dir : ~Misspelt(m)
           /\ \A i \in 0..MaxNum :
                  Exists(i) <=> \E c \in Known(p) : c.id = i
BY DEF DInv, Good, ThereListed

(* The WAL comes up with the chunks it has replayed ...                    *)
LEMMA ReopenGood ==
    ASSUME DInv, NEW p \in Procs, ReopenLast(p)
    PROVE  Good(p)'
<1>1. /\ pc[p] = "replay" /\ pc'[p] = "up" /\ ids[p] = {}
      /\ open[p] /= NoChunk /\ UNCHANGED <<lock, dir, ids, closed, open, left>>
      /\ worker'[p].queue = <<>>
      BY DEF ReopenLast, StartWorker, NoWorker, DInv, TypeInv
<1>2. Owner(p)' /\ Ordered(p)' /\ ListedThere(p)' /\ ThereListed(p)'
      BY <1>1
      DEF DInv, Good, Owner, Ordered, ListedThere, ThereListed, Exists
<1>3. Up(p)'
  <2>1. Removals(p)' = {} /\ Known(p)' = Known(p)
        BY <1>1 DEF Removals, Known
  <2>2. left'[p] = {}
        BY <1>1 DEF DInv, Good, Owner
  <2> QED BY <1>1, <2>1, <2>2, AllListed DEF Up, Exists
<1> QED BY <1>2, <1>3 DEF Good

(* ... or with its first chunk, in a directory that has none.              *)
LEMMA CreateFirstGood ==
    ASSUME DInv, NEW p \in Procs, CreateFirst(p)
    PROVE  Good(p)'
<1> DEFINE nc == [id |-> 0, file |-> Len(data) + 1, recs |-> <<Record(p)>>]
<1>1. /\ pc[p] = "replay" /\ pc'[p] = "up" /\ ids[p] = {}
      /\ open[p] = NoChunk /\ open'[p] = nc
      /\ UNCHANGED <<lock, ids, closed, left>> /\ worker'[p].queue = <<>>
      BY DEF CreateFirst, StartWorker, NoWorker, DInv, TypeInv
<1>2. DOMAIN dir' = DOMAIN dir \union {ChunkName[0]}
      BY DEF CreateFirst, CreateFile
<1>3. closed[p] = {} /\ left'[p] = {} /\ lock = p
  <2>1. \A d \in closed[p] : d.id >= 0 /\ d.id < 0
        BY <1>1 DEF DInv, TypeInv, Good, Ordered, NoChunk, Chunk
  <2>2. \A d \in closed[p] : d.id \in Int
        BY DEF DInv, TypeInv, Chunk
  <2> QED BY <1>1, <2>1, <2>2 DEF DInv, Good, Owner
<1>4. nc.recs /= <<>> /\ nc /= NoChunk
      BY DEF NoChunk
<1>5. Known(p) = {} /\ Known(p)' = {nc}
      BY <1>1, <1>3, <1>4 DEF Known
<1>6. Owner(p)' /\ Ordered(p)' /\ ListedThere(p)' /\ ThereListed(p)'
      BY <1>1, <1>3, <1>4 DEF Owner, Ordered, ListedThere, ThereListed
<1>7. Up(p)'
  <2>1. Removals(p)' = {}
        BY <1>1 DEF Removals
  <2>2. \A m \in DOMAIN dir' : ~Misspelt(m)
        BY <1>1, <1>2, AllListed, NameFacts, ConstTypes
  <2>3. \A i \in 0..MaxNum : Exists(i)' <=> i = 0
    <3>1. \A i \in 0..MaxNum : ChunkName[i] \notin DOMAIN dir
          BY <1>1, <1>5, AllListed DEF Exists
    <3>2. \A i \in 0..MaxNum : ChunkName[i] = ChunkName[0] => i = 0
          BY NameFacts, ConstTypes
    <3> QED BY <1>2, <3>1, <3>2 DEF Exists
  <2> QED BY <1>1, <1>3, <1>4, <1>5, <2>1, <2>2, <2>3 DEF Up
<1> QED BY <1>6, <1>7 DEF Good

-----------------------------------------------------------------------------
(* Requests that remove nothing leave the removals as they were.           *)
LEMMA QuietEnqueue ==
    ASSUME DInv, NEW p \in Procs, NEW reqs \in Seq(Req), Enqueue(p, reqs),
           \A k \in 1..Len(reqs) : reqs[k].kind /= "remove"
    PROVE  /\ Removals(p)' = Removals(p)
           /\ \A k \in Removals(p) : worker'[p].queue[k] = worker[p].queue[k]
           /\ worker'[p].alive = worker[p].alive
<1>1. /\ worker'[p].queue = worker[p].queue \o reqs
      /\ worker'[p].alive = worker[p].alive /\ worker[p].queue \in Seq(Req)
      BY EnqueueTypes DEF DInv, TypeInv, Worker
<1>2. /\ Len(worker'[p].queue) = Len(worker[p].queue) + Len(reqs)
      /\ Len(worker[p].queue) \in Nat /\ Len(reqs) \in Nat
      /\ \A k \in 1..Len(worker[p].queue) :
            worker'[p].queue[k] = worker[p].queue[k]
      /\ \A k \in Len(worker[p].queue) + 1 .. Len(worker'[p].queue) :
            /\ k - Len(worker[p].queue) \in 1..Len(reqs)
            /\ worker'[p].queue[k] = reqs[k - Len(worker[p].queue)]
      BY SMTT(60), <1>1
<1>3. Removals(p)' = Removals(p)
  <2>1. ASSUME NEW k \in 1..Len(worker'[p].queue)
        PROVE  worker'[p].queue[k].kind = "remove" <=> k \in Removals(p)
    <3>1. CASE k \in 1..Len(worker[p].queue)
          BY <1>2, <3>1 DEF Removals
    <3>2. CASE k \in Len(worker[p].queue) + 1 .. Len(worker'[p].queue)
          BY <1>2, <3>2 DEF Removals
    <3> QED BY <1>2, <2>1, <3>1, <3>2
  <2>2. 1..Len(worker[p].queue) \subseteq 1..Len(worker'[p].queue)
        BY <1>2
  <2> QED BY <2>1, <2>2 DEF Removals
<1> QED BY <1>1, <1>2, <1>3 DEF Removals

(* A write changes the records of the open chunk only.                     *)
LEMMA WriteGood ==
    ASSUME DInv, NEW p \in Procs, Write(p)
    PROVE  Good(p)'
<1> DEFINE r == [by |-> p, n |-> writes']
<1>1. /\ pc[p] = "up" /\ pc'[p] = "up" /\ worker[p].alive
      /\ UNCHANGED <<lock, dir, ids, closed, left>>
      /\ open' = [open EXCEPT ![p].recs = Append(@, r)]
      /\ Enqueue(p, <<[kind |-> "write", rec |-> r]>>)
      BY DEF Write, CanSend
<1>2. r \in Rec /\ open[p] \in Chunk
      BY DEF Write, DInv, TypeInv, Rec
<1>3. [kind |-> "write", rec |-> r] \in Req
      BY <1>2 DEF Req
<1>4. /\ <<[kind |-> "write", rec |-> r]>> \in Seq(Req)
      /\ \A k \in 1..Len(<<[kind |-> "write", rec |-> r]>>) :
            <<[kind |-> "write", rec |-> r]>>[k].kind /= "remove"
      BY <1>3
<1>5. /\ Removals(p)' = Removals(p)
      /\ \A k \in Removals(p) : worker'[p].queue[k] = worker[p].queue[k]
      /\ worker'[p].alive
      BY <1>1, <1>4, QuietEnqueue
<1>6. /\ open'[p].id = open[p].id /\ open'[p].recs = Append(open[p].recs, r)
      BY <1>1, <1>2 DEF DInv, TypeInv, Chunk
<1>7. open'[p].recs /= <<>> /\ open'[p] /= NoChunk
      BY <1>2, <1>6 DEF Chunk, NoChunk
<1>8. open[p] /= NoChunk
      BY <1>1 DEF DInv, Good, Up
<1>9. Known(p) = closed[p] \union {open[p]}
      /\ Known(p)' = closed[p] \union {open'[p]}
      BY <1>1, <1>7, <1>8 DEF Known, DInv, Good, Ordered
<1>10. Owner(p)' /\ Ordered(p)' /\ ListedThere(p)' /\ ThereListed(p)'
      BY <1>1, <1>6, <1>7
      DEF DInv, Good, Owner, Ordered, ListedThere, ThereListed, Exists
<1>11. Up(p)'
  <2>1. /\ \A m \in DOMAIN dir : ~Misspelt(m)
        /\ \A i \in 0..MaxNum : Exists(i) <=>
               \/ \E c \in Known(p) : c.id = i
               \/ \E k \in Removals(p) : worker[p].queue[k].id = i
               \/ i \in left[p]
        /\ \A c \in Known(p) : c.id \notin left[p]
        /\ \A k \in Removals(p) :
               /\ worker[p].queue[k].id \notin left[p]
               /\ \A c \in Known(p) : worker[p].queue[k].id < c.id
               /\ \A j \in Removals(p) :
                      k < j => worker[p].queue[k].id < worker[p].queue[j].id
        BY <1>1 DEF DInv, Good, Up
  <2>2. \A i \in 0..MaxNum : (\E c \in Known(p)' : c.id = i)
                                 <=> (\E c \in Known(p) : c.id = i)
    <3>1. ASSUME NEW i \in 0..MaxNum, NEW c \in Known(p)', c.id = i
          PROVE  \E d \in Known(p) : d.id = i
          BY <1>6, <1>9, <3>1
    <3>2. ASSUME NEW i \in 0..MaxNum, NEW c \in Known(p), c.id = i
          PROVE  \E d \in Known(p)' : d.id = i
          BY <1>6, <1>9, <3>2
    <3> QED BY <3>1, <3>2
  <2>3. \A k \in Removals(p) : \A c \in Known(p)' : worker[p].queue[k].id < c.id
        BY <1>6, <1>9, <2>1
  <2>4. \A c \in Known(p)' : c.id \notin left[p]
        BY <1>6, <1>9, <2>1
  <2> QED BY SMTT(60), <1>1, <1>5, <1>7, <2>1, <2>2, <2>3, <2>4 DEF Up, Exists
<1> QED BY <1>10, <1>11 DEF Good

(* A new chunk begins where the open one ends, above every known id.       *)
LEMMA RotateGood ==
    ASSUME DInv, NEW p \in Procs, Rotate(p)
    PROVE  Good(p)'
<1> DEFINE id == EndOf(open[p])
           nc == [id |-> id, file |-> Len(data) + 1, recs |-> <<Record(p)>>]
           reqs == <<[kind |-> "append", file |-> Len(data) + 1],
                     [kind |-> "write", rec |-> Record(p)]>>
<1>1. /\ pc[p] = "up" /\ pc'[p] = "up" /\ worker[p].alive
      /\ UNCHANGED <<lock, ids, left>> /\ Enqueue(p, reqs)
      /\ closed'[p] = closed[p] \union {open[p]} /\ open'[p] = nc
      /\ CreateFile(id, <<>>) /\ id <= MaxNum /\ Len(open[p].recs) > 1
      BY DEF Rotate, CanRotate, CanSend, DInv, TypeInv
<1>2. open[p] \in Chunk /\ closed[p] \subseteq Chunk /\ lock = p
      /\ MaxNum \in Nat
      BY <1>1, ConstTypes DEF DInv, TypeInv, Good, Owner
<1>3. id \in 0..MaxNum /\ open[p].id < id /\ open[p].id \in 0..MaxNum
      BY EndTypes DEF Rotate, DInv
<1>4. /\ Removals(p)' = Removals(p)
      /\ \A k \in Removals(p) : worker'[p].queue[k] = worker[p].queue[k]
      /\ worker'[p].alive
  <2>1. Record(p) \in Rec /\ Len(data) + 1 \in Nat
        BY DEF Record, Rec, DInv, TypeInv
  <2>2. [kind |-> "append", file |-> Len(data) + 1] \in Req
        /\ [kind |-> "write", rec |-> Record(p)] \in Req
        BY <2>1 DEF Req
  <2>3. reqs \in Seq(Req)
        /\ \A k \in 1..Len(reqs) : reqs[k].kind /= "remove"
        BY <2>2
  <2> QED BY <1>1, <2>3, QuietEnqueue
<1>5. nc.recs /= <<>> /\ nc /= NoChunk
      BY DEF NoChunk
<1>6. open[p] /= NoChunk /\ ids[p] = {}
      BY <1>1 DEF DInv, Good, Up, Owner
<1>7. /\ Known(p) = closed[p] \union {open[p]}
      /\ Known(p)' = Known(p) \union {nc}
      BY <1>1, <1>5, <1>6 DEF Known, DInv, Good, Ordered
<1>8. \A c \in Known(p) : c.id < id /\ c.id \in Int /\ c /= NoChunk
  <2>1. \A c \in closed[p] : c.id < open[p].id /\ c.id \in Int
        BY <1>2 DEF DInv, Good, Ordered, Chunk
  <2> QED BY <1>3, <1>6, <1>7, <2>1 DEF Known
<1>9. Ordered(p)'
  <2>1. \A c, d \in closed'[p] : c.id = d.id => c = d
    <3>1. /\ \A c \in closed[p] : c.id < open[p].id
          /\ \A c, d \in closed[p] : c.id = d.id => c = d
          BY DEF DInv, Good, Ordered
    <3>2. \A c \in closed[p] : c.id \in Int
          BY <1>2 DEF Chunk
    <3> QED BY <1>1, <1>3, <3>1, <3>2
  <2> QED BY <1>1, <1>5, <1>7, <1>8, <2>1 DEF Ordered
<1>10. Owner(p)' /\ ListedThere(p)' /\ ThereListed(p)'
      BY <1>1, <1>2, <1>6 DEF Owner, ListedThere, ThereListed
<1>11. DOMAIN dir' = DOMAIN dir \union {ChunkName[id]} /\ ~Exists(id)
      BY <1>1 DEF CreateFile
<1>12. Up(p)'
  <2>1. /\ \A m \in DOMAIN dir : ~Misspelt(m)
        /\ \A i \in 0..MaxNum : Exists(i) <=>
               \/ \E c \in Known(p) : c.id = i
               \/ \E k \in Removals(p) : worker[p].queue[k].id = i
               \/ i \in left[p]
        /\ \A c \in Known(p) : c.id \notin left[p]
        /\ \A k \in Removals(p) :
               /\ worker[p].queue[k].id \notin left[p]
               /\ \A c \in Known(p) : worker[p].queue[k].id < c.id
               /\ \A j \in Removals(p) :
                      k < j => worker[p].queue[k].id < worker[p].queue[j].id
        BY <1>1 DEF DInv, Good, Up
  <2>2. \A m \in DOMAIN dir' : ~Misspelt(m)
        BY <1>3, <1>11, <2>1, NameFacts
  <2>3. ASSUME NEW i \in 0..MaxNum
        PROVE  Exists(i)' <=>
                   \/ \E c \in Known(p)' : c.id = i
                   \/ \E k \in Removals(p)' : worker'[p].queue[k].id = i
                   \/ i \in left[p]
    <3>1. Exists(i)' <=> Exists(i) \/ i = id
          BY <1>3, <1>11, NameFacts DEF Exists
    <3>2. (\E c \in Known(p)' : c.id = i)
              <=> (\E c \in Known(p) : c.id = i) \/ i = id
      <4>1. nc.id = id
            OBVIOUS
      <4> HIDE DEF nc
      <4> QED BY <1>7, <4>1
    <3> QED BY <1>4, <2>1, <3>1, <3>2
  <2>4. \A k \in Removals(p) : \A c \in Known(p)' : worker[p].queue[k].id < c.id
    <3>1. \A k \in Removals(p) : worker[p].queue[k].id \in Int
      <4>1. \A k \in Removals(p) : worker[p].queue[k] \in Req
            BY DEF Removals, DInv, TypeInv, Worker
      <4> QED BY <4>1 DEF Removals, Req
    <3>2. open[p] \in Known(p)
          BY <1>7
    <3> QED BY <1>3, <1>7, <2>1, <3>1, <3>2
  <2>5. \A c \in Known(p)' : c.id \notin left[p]
    <3>1. id \notin left[p]
          BY <1>3, <1>11, <2>1
    <3> QED BY <1>7, <2>1, <3>1
  <2> QED BY <1>1, <1>4, <1>5, <2>1, <2>2, <2>3, <2>4, <2>5 DEF Up
<1> QED BY <1>9, <1>10, <1>12 DEF Good

(* A chunk file that the WAL does not take over is left out, and nothing   *)
(* else is changed.                                                        *)
LEMMA RotateSyncErrGood ==
    ASSUME DInv, NEW p \in Procs, RotateSyncErr(p)
    PROVE  Good(p)'
<1> DEFINE id == EndOf(open[p])
<1>1. /\ pc[p] = "up" /\ pc'[p] = "up" /\ worker[p].alive
      /\ UNCHANGED <<lock, ids, closed, open, worker>>
      /\ left'[p] = left[p] \union {id} /\ CreateFile(id, <<>>)
      BY EndTypes DEF RotateSyncErr, DInv, TypeInv
<1>2. id \in 0..MaxNum
      BY EndTypes DEF RotateSyncErr, DInv
<1>3. Known(p)' = Known(p) /\ Removals(p)' = Removals(p)
      BY <1>1 DEF Known, Removals
<1>4. Owner(p)' /\ Ordered(p)' /\ ListedThere(p)' /\ ThereListed(p)'
  <2>1. ids[p] = {}
        BY <1>1 DEF DInv, Good, Owner
  <2> QED BY <1>1, <2>1
          DEF DInv, Good, Owner, Ordered, ListedThere, ThereListed
<1>5. DOMAIN dir' = DOMAIN dir \union {ChunkName[id]} /\ ~Exists(id)
      BY <1>1 DEF CreateFile
<1>6. \A i \in 0..MaxNum : Exists(i)' <=> Exists(i) \/ i = id
      BY <1>2, <1>5, NameFacts DEF Exists
<1>7. \A m \in DOMAIN dir : ~Misspelt(m)
      BY <1>1 DEF DInv, Good, Up
<1>8. \A m \in DOMAIN dir' : ~Misspelt(m)
      BY <1>2, <1>5, <1>7, NameFacts
<1>9. /\ \A c \in Known(p) : c.id /= id
      /\ \A k \in Removals(p) : worker[p].queue[k].id /= id
      BY <1>1, <1>2, <1>5 DEF DInv, Good, Up
<1>10. Up(p)'
      BY <1>1, <1>3, <1>6, <1>8, <1>9 DEF DInv, Good, Up
<1> QED BY <1>4, <1>10 DEF Good

(* The full chunk is left out; the new one is known, with no record.       *)
LEMMA RotateEncodeErrGood ==
    ASSUME DInv, NEW p \in Procs, RotateEncodeErr(p)
    PROVE  Good(p)'
<1> DEFINE id == EndOf(open[p])
           nc == [id |-> id, file |-> Len(data) + 1, recs |-> <<>>]
           reqs == <<[kind |-> "append", file |-> Len(data) + 1]>>
<1>1. /\ pc[p] = "up" /\ pc'[p] = "up" /\ worker[p].alive
      /\ UNCHANGED <<lock, ids, closed>> /\ Enqueue(p, reqs)
      /\ left'[p] = left[p] \union {open[p].id} /\ open'[p] = nc
      /\ CreateFile(id, <<>>)
      BY EndTypes DEF RotateEncodeErr, DInv, TypeInv
<1>2. /\ id \in 0..MaxNum /\ open[p].id < id /\ open[p].id \in 0..MaxNum
      /\ open[p] \in Chunk /\ closed[p] \subseteq Chunk
      BY EndTypes DEF RotateEncodeErr, DInv, TypeInv
<1>3. Len(data) \in Nat
      BY DEF DInv, TypeInv
<1>4. /\ Removals(p)' = Removals(p)
      /\ \A k \in Removals(p) : worker'[p].queue[k] = worker[p].queue[k]
      /\ worker'[p].alive
  <2>1. [kind |-> "append", file |-> Len(data) + 1] \in Req
        BY <1>3 DEF Req
  <2>2. reqs \in Seq(Req)
        /\ \A k \in 1..Len(reqs) : reqs[k].kind /= "remove"
        BY <2>1
  <2> QED BY <1>1, <2>2, QuietEnqueue
<1>5. nc /= NoChunk /\ nc.id = id
      BY <1>3 DEF NoChunk
<1> HIDE DEF nc
<1>6. open[p] /= NoChunk /\ ids[p] = {} /\ lock = p
      BY <1>1 DEF DInv, Good, Up, Owner
<1>7. /\ Known(p) = closed[p] \union {open[p]}
      /\ Known(p)' = closed[p] \union {nc}
      BY <1>1, <1>5, <1>6 DEF Known, DInv, Good, Ordered
<1>8. \A c \in closed[p] : c.id < open[p].id /\ c.id \in Int
      BY <1>2 DEF DInv, Good, Ordered, Chunk
<1>9. Ordered(p)'
  <2>1. \A c \in closed[p] : c.id < nc.id /\ c /= NoChunk
        BY <1>2, <1>5, <1>8 DEF DInv, Good, Ordered
  <2> QED BY <1>1, <2>1 DEF DInv, Good, Ordered
<1>10. Owner(p)' /\ ListedThere(p)' /\ ThereListed(p)'
      BY <1>1, <1>6 DEF Owner, ListedThere, ThereListed
<1>11. DOMAIN dir' = DOMAIN dir \union {ChunkName[id]} /\ ~Exists(id)
      BY <1>1 DEF CreateFile
<1>12. Up(p)'
  <2>1. /\ \A m \in DOMAIN dir : ~Misspelt(m)
        /\ \A i \in 0..MaxNum : Exists(i) <=>
               \/ \E c \in Known(p) : c.id = i
               \/ \E k \in Removals(p) : worker[p].queue[k].id = i
               \/ i \in left[p]
        /\ \A c \in Known(p) : c.id \notin left[p]
        /\ \A k \in Removals(p) :
               /\ worker[p].queue[k].id \notin left[p]
               /\ \A c \in Known(p) : worker[p].queue[k].id < c.id
               /\ \A j \in Removals(p) :
                      k < j => worker[p].queue[k].id < worker[p].queue[j].id
        BY <1>1 DEF DInv, Good, Up
  <2>2. \A m \in DOMAIN dir' : ~Misspelt(m)
        BY <1>2, <1>11, <2>1, NameFacts
  <2>3. ASSUME NEW i \in 0..MaxNum
        PROVE  Exists(i)' <=>
                   \/ \E c \in Known(p)' : c.id = i
                   \/ \E k \in Removals(p)' : worker'[p].queue[k].id = i
                   \/ i \in left'[p]
    <3>1. Exists(i)' <=> Exists(i) \/ i = id
          BY <1>2, <1>11, NameFacts DEF Exists
    <3>2. (\E c \in Known(p)' : c.id = i) \/ i = open[p].id
              <=> (\E c \in Known(p) : c.id = i) \/ i = id
          BY <1>5, <1>7
    <3>3. (\E k \in Removals(p)' : worker'[p].queue[k].id = i)
              <=> (\E k \in Removals(p) : worker[p].queue[k].id = i)
          BY <1>4
    <3> QED BY <1>1, <2>1, <3>1, <3>2, <3>3
  <2>4. \A k \in Removals(p) :
            /\ worker[p].queue[k].id \notin left'[p]
            /\ \A c \in Known(p)' : worker[p].queue[k].id < c.id
    <3>1. \A k \in Removals(p) : worker[p].queue[k].id \in Int
      <4>1. \A k \in Removals(p) : worker[p].queue[k] \in Req
            BY DEF Removals, DInv, TypeInv, Worker
      <4> QED BY <4>1 DEF Removals, Req
    <3>2. \A k \in Removals(p) : worker[p].queue[k].id < open[p].id
          BY <1>7, <2>1
    <3> QED BY <1>1, <1>2, <1>5, <1>7, <2>1, <3>1, <3>2
  <2>5. \A c \in Known(p)' : c.id \notin left'[p]
    <3>1. \A c \in closed[p] : c.id \notin left'[p]
          BY <1>1, <1>2, <1>7, <1>8, <2>1
    <3>2. id \notin left'[p]
          BY <1>1, <1>2, <1>11, <2>1
    <3> QED BY <1>5, <1>7, <3>1, <3>2
  <2>6. open'[p] /= NoChunk
        BY <1>1, <1>5
  <2> QED BY <1>4, <2>1, <2>2, <2>3, <2>4, <2>5, <2>6 DEF Up
<1> QED BY <1>9, <1>10, <1>12 DEF Good

(* The oldest chunk is purged: its removal goes behind the older ones.     *)
LEMMA PurgeGood ==
    ASSUME DInv, NEW p \in Procs, Purge(p)
    PROVE  Good(p)'
<1>1. PICK c \in closed[p] :
         /\ \A d \in closed[p] : c.id <= d.id
         /\ closed' = [closed EXCEPT ![p] = @ \ {c}]
         /\ Enqueue(p, <<[kind |-> "remove", id |-> c.id]>>)
      BY DEF Purge
<1> DEFINE q == worker[p].queue
           r == [kind |-> "remove", id |-> c.id]
           l == Len(q) + 1
<1>2. /\ pc[p] = "up" /\ pc'[p] = "up" /\ worker[p].alive
      /\ UNCHANGED <<lock, dir, ids, open, left>>
      /\ closed'[p] = closed[p] \ {c}
      BY <1>1 DEF Purge, CanSend, DInv, TypeInv
<1>3. /\ open[p] \in Chunk /\ closed[p] \subseteq Chunk /\ q \in Seq(Req)
      /\ open[p] /= NoChunk
      BY <1>2 DEF DInv, TypeInv, Worker, Good, Up
<1>4. c.id \in 0..MaxNum
      BY <1>1, <1>3 DEF Chunk
<1>5. <<r>> \in Seq(Req)
  <2>1. r \in Req
        BY <1>4 DEF Req
  <2> QED BY <2>1
<1>6. worker'[p].queue = q \o <<r>> /\ worker'[p].alive
      BY <1>1, <1>2, <1>5, EnqueueTypes DEF DInv
<1>7. /\ Len(worker'[p].queue) = l /\ Len(q) \in Nat
      /\ worker'[p].queue[l] = r
      /\ \A k \in 1..Len(q) : worker'[p].queue[k] = q[k]
      BY <1>3, <1>6
<1>8. /\ Removals(p)' = Removals(p) \union {l} /\ Removals(p) \subseteq 1..Len(q)
  <2>1. \A k : k \in Removals(p)' <=>
            k \in 1..l /\ worker'[p].queue[k].kind = "remove"
        BY <1>7 DEF Removals
  <2>2. \A k : k \in Removals(p) <=> k \in 1..Len(q) /\ q[k].kind = "remove"
        BY DEF Removals
  <2>3. \A k \in 1..l : k \in 1..Len(q) \/ k = l
        BY <1>7
  <2>4. l \in 1..l /\ 1..Len(q) \subseteq 1..l
        BY <1>7
  <2>5. r.kind = "remove"
        OBVIOUS
  <2> HIDE DEF q, r, l
  <2> QED BY <1>7, <2>1, <2>2, <2>3, <2>4, <2>5
<1>9. /\ Known(p) = closed[p] \union {open[p]}
      /\ Known(p)' = (closed[p] \ {c}) \union {open[p]}
      BY <1>2, <1>3 DEF Known, DInv, Good, Ordered
<1>10. \A d \in Known(p)' : c.id < d.id
  <2>1. /\ \A d \in closed[p] : d.id < open[p].id /\ d.id \in Int
        /\ \A d \in closed[p] : c.id = d.id => c = d
        BY <1>1, <1>3 DEF DInv, Good, Ordered, Chunk
  <2> QED BY <1>1, <1>4, <1>9, <2>1
<1>11. Owner(p)' /\ Ordered(p)' /\ ListedThere(p)' /\ ThereListed(p)'
  <2>1. ids[p] = {} /\ lock = p
        BY <1>2 DEF DInv, Good, Owner
  <2>2. Ordered(p)'
        BY <1>2 DEF DInv, Good, Ordered
  <2> QED BY <1>2, <2>1, <2>2 DEF Owner, ListedThere, ThereListed
<1>12. Up(p)'
  <2>1. /\ \A m \in DOMAIN dir : ~Misspelt(m)
        /\ \A i \in 0..MaxNum : Exists(i) <=>
               \/ \E d \in Known(p) : d.id = i
               \/ \E k \in Removals(p) : q[k].id = i
               \/ i \in left[p]
        /\ \A d \in Known(p) : d.id \notin left[p]
        /\ \A k \in Removals(p) :
               /\ q[k].id \notin left[p]
               /\ \A d \in Known(p) : q[k].id < d.id
               /\ \A j \in Removals(p) : k < j => q[k].id < q[j].id
        BY <1>2 DEF DInv, Good, Up
  <2>2. ASSUME NEW i \in 0..MaxNum
        PROVE  Exists(i)' <=>
                   \/ \E d \in Known(p)' : d.id = i
                   \/ \E k \in Removals(p)' : worker'[p].queue[k].id = i
                   \/ i \in left[p]
    <3>1. Exists(i)' <=> Exists(i)
          BY <1>2 DEF Exists
    <3>2. (\E d \in Known(p) : d.id = i)
              <=> (\E d \in Known(p)' : d.id = i) \/ i = c.id
          BY <1>1, <1>9
    <3>3. (\E k \in Removals(p)' : worker'[p].queue[k].id = i)
              <=> (\E k \in Removals(p) : q[k].id = i) \/ i = c.id
      <4>1. r.id = c.id
            OBVIOUS
      <4> HIDE DEF q, r, l
      <4> QED BY <1>7, <1>8, <4>1
    <3> QED BY <2>1, <3>1, <3>2, <3>3
  <2>3. ASSUME NEW k \in Removals(p)'
        PROVE  /\ worker'[p].queue[k].id \notin left[p]
               /\ \A d \in Known(p)' : worker'[p].queue[k].id < d.id
               /\ \A j \in Removals(p)' : k < j =>
                      worker'[p].queue[k].id < worker'[p].queue[j].id
    <3>1. CASE k = l
      <4>1. \A j \in Removals(p)' : ~(k < j)
            BY <1>7, <1>8, <3>1
      <4>2. c.id \notin left[p]
            BY <1>1, <1>9, <2>1
      <4> QED BY <1>7, <1>10, <3>1, <4>1, <4>2
    <3>2. CASE k \in Removals(p)
      <4>1. worker'[p].queue[k] = q[k]
            BY <1>7, <1>8, <3>2
      <4>2. \A d \in Known(p)' : q[k].id < d.id
            BY <1>9, <2>1, <3>2
      <4>3. q[k].id < c.id
            BY <1>1, <1>9, <2>1, <3>2
      <4>4. \A j \in Removals(p)' : k < j => q[k].id < worker'[p].queue[j].id
        <5> SUFFICES ASSUME NEW j \in Removals(p)', k < j
                     PROVE  q[k].id < worker'[p].queue[j].id
            OBVIOUS
        <5>1. r.id = c.id
              OBVIOUS
        <5> HIDE DEF q, r, l
        <5>2. CASE j = l
              BY <1>7, <4>3, <5>1, <5>2
        <5>3. CASE j \in Removals(p)
              BY <1>7, <1>8, <2>1, <3>2, <5>3
        <5> QED BY <1>8, <5>2, <5>3
      <4> QED BY <2>1, <3>2, <4>1, <4>2, <4>4
    <3> QED BY <1>8, <3>1, <3>2
  <2>4. \A d \in Known(p)' : d.id \notin left[p]
        BY <1>9, <2>1
  <2> QED BY <1>2, <1>3, <2>1, <2>2, <2>3, <2>4 DEF Up
<1> QED BY <1>11, <1>12 DEF Good

(* The worker unlinks a chunk the WAL has purged, and no other.            *)
LEMMA WorkerGood ==
    ASSUME DInv, NEW p \in Procs, WorkerStep(p)
    PROVE  Good(p)'
<1> DEFINE q == worker[p].queue
           r == Head(q)
<1>1. /\ worker[p].alive /\ q /= <<>> /\ q \in Seq(Req)
      /\ UNCHANGED <<lock, pc, ids, closed, open, left>>
      /\ pc[p] \in {"up", "closing"} /\ lock = p /\ ids[p] = {}
      BY DEF WorkerStep, ownerVars, DInv, TypeInv, Worker, Good, Owner
<1>2. worker[p] \in Worker
      BY DEF DInv, TypeInv
<1>3. worker'[p].queue = Tail(q) /\ worker'[p].alive
  <2>1. CASE worker' = [worker EXCEPT ![p].queue = Tail(@)]
        BY <1>1, <1>2, <2>1 DEF DInv, TypeInv, Worker
  <2>2. CASE worker' = [worker EXCEPT ![p].queue = Tail(@), ![p].file = r.file]
        BY <1>1, <1>2, <2>2 DEF DInv, TypeInv, Worker
  <2> QED BY <2>1, <2>2 DEF WorkerStep
<1>4. Owner(p)' /\ Ordered(p)' /\ ListedThere(p)' /\ ThereListed(p)'
      BY <1>1, <1>3
      DEF DInv, Good, Owner, Ordered, ListedThere, ThereListed
<1>5. Known(p)' = Known(p)
      BY <1>1 DEF Known
<1>6. /\ Len(q) \in Nat /\ Len(worker'[p].queue) = Len(q) - 1
      /\ r = q[1] /\ 1 \in 1..Len(q)
      /\ \A k \in 1..Len(worker'[p].queue) :
            worker'[p].queue[k] = q[k + 1] /\ k + 1 \in 1..Len(q)
      /\ \A k \in 1..Len(q) :
            k = 1 \/ (k - 1 \in 1..Len(worker'[p].queue)
                      /\ worker'[p].queue[k - 1] = q[k])
      BY <1>1, <1>3
<1>7. /\ \A k \in Removals(p)' : k + 1 \in Removals(p)
                                /\ worker'[p].queue[k] = q[k + 1]
      /\ \A k \in Removals(p) : k = 1 \/ (k - 1 \in Removals(p)'
                                    /\ worker'[p].queue[k - 1] = q[k])
      /\ Removals(p) \subseteq Int /\ Removals(p)' \subseteq Int
  <2>1. \A k : k \in Removals(p)' <=>
            k \in 1..Len(worker'[p].queue)
            /\ worker'[p].queue[k].kind = "remove"
        BY DEF Removals
  <2>2. \A k : k \in Removals(p) <=> k \in 1..Len(q) /\ q[k].kind = "remove"
        BY DEF Removals
  <2>3. Removals(p) \subseteq Int /\ Removals(p)' \subseteq Int
        BY <2>1, <2>2
  <2>4. ASSUME NEW k \in Removals(p)'
        PROVE  k + 1 \in Removals(p) /\ worker'[p].queue[k] = q[k + 1]
    <3>1. k \in 1..Len(worker'[p].queue)
          /\ worker'[p].queue[k].kind = "remove"
          BY <2>1, <2>4
    <3>2. worker'[p].queue[k] = q[k + 1] /\ k + 1 \in 1..Len(q)
          BY <1>6, <3>1
    <3> QED BY <2>2, <3>1, <3>2
  <2>5. ASSUME NEW k \in Removals(p), k /= 1
        PROVE  k - 1 \in Removals(p)' /\ worker'[p].queue[k - 1] = q[k]
    <3>1. k \in 1..Len(q) /\ q[k].kind = "remove"
          BY <2>2
    <3>2. k - 1 \in 1..Len(worker'[p].queue) /\ worker'[p].queue[k - 1] = q[k]
          BY <1>6, <2>5, <3>1
    <3> QED BY <2>1, <3>1, <3>2
  <2> QED BY <2>3, <2>4, <2>5
<1>8. Up(p)'
  <2> SUFFICES ASSUME pc[p] = "up" PROVE Up(p)'
      BY <1>1 DEF Up
  <2>1. /\ open[p] /= NoChunk
        /\ \A m \in DOMAIN dir : ~Misspelt(m)
        /\ \A i \in 0..MaxNum : Exists(i) <=>
               \/ \E c \in Known(p) : c.id = i
               \/ \E k \in Removals(p) : q[k].id = i
               \/ i \in left[p]
        /\ \A c \in Known(p) : c.id \notin left[p]
        /\ \A k \in Removals(p) :
               /\ q[k].id \notin left[p]
               /\ \A c \in Known(p) : q[k].id < c.id
               /\ \A j \in Removals(p) : k < j => q[k].id < q[j].id
        BY <1>1 DEF DInv, Good, Up
  <2>2. \A k \in Removals(p)' :
            /\ worker'[p].queue[k].id \notin left[p]
            /\ \A c \in Known(p)' : worker'[p].queue[k].id < c.id
            /\ \A j \in Removals(p)' : k < j =>
                   worker'[p].queue[k].id < worker'[p].queue[j].id
    <3> SUFFICES ASSUME NEW k \in Removals(p)'
                 PROVE  /\ worker'[p].queue[k].id \notin left[p]
                        /\ \A c \in Known(p)' : worker'[p].queue[k].id < c.id
                        /\ \A j \in Removals(p)' : k < j =>
                             worker'[p].queue[k].id < worker'[p].queue[j].id
        OBVIOUS
    <3>1. \A j \in Removals(p)' : k < j => k + 1 < j + 1
          BY <1>7
    <3> QED BY <1>5, <1>7, <2>1, <3>1
  <2>3. CASE r.kind = "remove"
    <3>1. DOMAIN dir' = DOMAIN dir \ {ChunkName[r.id]}
          BY <2>3 DEF WorkerStep
    <3>2. 1 \in Removals(p) /\ r.id \in 0..MaxNum
      <4>1. r \in Req
            BY <1>1
      <4> QED BY <1>6, <2>3, <4>1 DEF Removals, Req
    <3>3. ASSUME NEW i \in 0..MaxNum
          PROVE  Exists(i)' <=>
                     \/ \E c \in Known(p)' : c.id = i
                     \/ \E k \in Removals(p)' : worker'[p].queue[k].id = i
                     \/ i \in left[p]
      <4>1. Exists(i)' <=> Exists(i) /\ i /= r.id
            BY <3>1, <3>2, NameFacts DEF Exists
      <4>2. \A c \in Known(p) : c.id /= r.id
            BY <1>6, <2>1, <3>2
      <4>3. \A k \in Removals(p)' : worker'[p].queue[k].id /= r.id
        <5> SUFFICES ASSUME NEW k \in Removals(p)'
                     PROVE  worker'[p].queue[k].id /= r.id
            OBVIOUS
        <5>1. k + 1 \in Removals(p) /\ worker'[p].queue[k] = q[k + 1]
              /\ k \in 1..Len(worker'[p].queue)
              BY <1>7 DEF Removals
        <5>2. 1 < k + 1
              BY <1>6, <5>1
        <5>3. q[1].id < q[k + 1].id
              BY <2>1, <3>2, <5>1, <5>2
        <5> QED BY <1>6, <3>2, <5>1, <5>3
      <4>4. (\E k \in Removals(p)' : worker'[p].queue[k].id = i)
                <=> (\E k \in Removals(p) : q[k].id = i) /\ i /= r.id
        <5>1. ASSUME NEW k \in Removals(p)', worker'[p].queue[k].id = i
              PROVE  \E j \in Removals(p) : q[j].id = i
              BY <1>7, <5>1
        <5>2. ASSUME NEW k \in Removals(p), q[k].id = i, i /= r.id
              PROVE  \E j \in Removals(p)' : worker'[p].queue[j].id = i
          <6>1. k /= 1
                BY <1>6, <5>2
          <6> QED BY <1>7, <5>2, <6>1
        <5> QED BY <4>3, <5>1, <5>2
      <4>5. r.id \notin left[p]
            BY <1>6, <2>1, <3>2
      <4> QED BY <1>5, <2>1, <4>1, <4>2, <4>4, <4>5
    <3>4. \A m \in DOMAIN dir' : ~Misspelt(m)
          BY <2>1, <3>1
    <3> QED BY <1>1, <1>5, <2>1, <2>2, <3>3, <3>4 DEF Up
  <2>4. CASE r.kind /= "remove"
    <3>1. UNCHANGED dir
          BY <2>4 DEF WorkerStep
    <3>2. 1 \notin Removals(p)
          BY <1>6, <2>4 DEF Removals
    <3>3. \A i : (\E k \in Removals(p)' : worker'[p].queue[k].id = i)
                    <=> (\E k \in Removals(p) : q[k].id = i)
          BY <1>7, <3>2
    <3> QED BY <1>1, <1>5, <2>1, <2>2, <3>1, <3>3 DEF Up, Exists
  <2> QED BY <2>3, <2>4
<1> QED BY <1>4, <1>8 DEF Good

(* A step that touches neither the directory nor what its users know.      *)
LEMMA SameGood ==
    ASSUME DInv, UNCHANGED <<lock, dir, data, pc, ids, closed, open, left,
                             worker, writes>>
    PROVE  DInv'
<1>1. TypeInv'
      BY DEF DInv, TypeInv
<1>2. ASSUME NEW p \in Procs PROVE Good(p)'
  <2>1. /\ Known(p)' = Known(p) /\ Removals(p)' = Removals(p)
        /\ \A i : Exists(i)' <=> Exists(i)
        BY DEF Known, Removals, Exists
  <2>2. Owner(p)' /\ Ordered(p)'
        BY DEF DInv, Good, Owner, Ordered
  <2>3. ListedThere(p)'
        BY <2>1 DEF DInv, Good, ListedThere
  <2>4. ThereListed(p)'
        BY <2>1 DEF DInv, Good, ThereListed
  <2>5. Up(p)'
        BY <2>1 DEF DInv, Good, Up
  <2> QED BY <2>2, <2>3, <2>4, <2>5 DEF Good
<1> QED BY <1>1, <1>2 DEF DInv

-----------------------------------------------------------------------------
(* At the start nobody is there.                                           *)
LEMMA InitDInv == Init => DInv
<1> SUFFICES ASSUME Init PROVE DInv
    OBVIOUS
<1>1. TypeInv
  <2>1. DOMAIN dir = {} /\ data \in Seq(Seq(Rec))
        BY DEF Init
  <2>2. pc \in [Procs -> PCs]
        BY DEF Init, PCs
  <2> QED BY <2>1, <2>2, ConstTypes DEF Init, TypeInv
<1>2. ASSUME NEW p \in Procs PROVE Good(p)
      BY <1>2 DEF Init, NoWorker, Good, Owner, Ordered, ListedThere,
                  ThereListed, Up
<1> QED BY <1>1, <1>2 DEF DInv

(* Every step of every process keeps the invariant.                        *)
LEMMA StepDInv == DInv /\ [Next]_vars => DInv'
<1> SUFFICES ASSUME DInv, [Next]_vars PROVE DInv'
    OBVIOUS
<1>1. CASE UNCHANGED vars
      BY <1>1, SameGood DEF vars, ownerVars
<1>2. CASE Next
  <2>1. TypeInv'
        BY <1>2, NextTypes DEF DInv
  <2>2. ASSUME NEW s \in Strays, StrayAppears(s)
        PROVE  DInv'
    <3>1. ASSUME NEW q \in Procs PROVE Good(q)'
      <4>1. lock /= q
            BY <2>2, DirectoryAssumption DEF StrayAppears, Nobody
      <4> QED BY <2>2, <4>1, OthersGood DEF StrayAppears, ownerVars, DInv
    <3> QED BY <2>1, <3>1 DEF DInv
  <2>3. ASSUME NEW p \in Procs, Good(p)',
               lock \in {p, Nobody},
               \A q \in Procs \ {p} :
                   /\ pc'[q] = pc[q] /\ ids'[q] = ids[q]
                   /\ closed'[q] = closed[q] /\ open'[q] = open[q]
                   /\ left'[q] = left[q] /\ worker'[q] = worker[q]
        PROVE  DInv'
    <3>1. ASSUME NEW q \in Procs PROVE Good(q)'
      <4>1. CASE q = p
            BY <2>3, <4>1
      <4>2. CASE q /= p
        <5>1. lock /= q
              BY <2>3, <4>2, DirectoryAssumption DEF Nobody
        <5> QED BY <2>3, <4>2, <5>1, OthersGood DEF DInv
      <4> QED BY <4>1, <4>2
    <3> QED BY <2>1, <3>1 DEF DInv
  <2> USE DEF ownerVars
  <2>4. \A p \in Procs : pc[p] /= "out" => lock = p
        BY DEF DInv, Good, Owner
  <2>5. \A p \in Procs : worker[p].alive => lock = p
        BY <2>4 DEF DInv, Good, Owner
  <2>6. ASSUME NEW p \in Procs, TryLock(p)
        PROVE  DInv'
    <3>1. Good(p)'
          BY <2>6, OutGood DEF TryLock, DInv, TypeInv, Good, Owner
    <3> QED BY <2>3, <2>6, <3>1 DEF TryLock, DInv, TypeInv
  <2>7. ASSUME NEW p \in Procs, Leave(p), ~worker'[p].alive,
               pc[p] /= "out",
               \A q \in Procs \ {p} : worker'[q] = worker[q]
        PROVE  DInv'
    <3>1. Good(p)'
          BY <2>7, OutGood DEF Leave, DInv, TypeInv
    <3> QED BY <2>3, <2>4, <2>7, <3>1 DEF Leave, DInv, TypeInv
  <2>8. ASSUME NEW p \in Procs, DropLock(p) \/ OpenFails(p)
        PROVE  DInv'
    <3>1. ~worker[p].alive /\ UNCHANGED worker /\ pc[p] /= "out"
          BY <2>8 DEF DropLock, OpenFails, DInv, Good, Owner
    <3> QED BY <2>7, <2>8, <3>1 DEF DropLock, OpenFails
  <2>9. ASSUME NEW p \in Procs, ProcessDies(p)
        PROVE  DInv'
    <3>1. /\ ~worker'[p].alive /\ pc[p] /= "out"
          /\ \A q \in Procs \ {p} : worker'[q] = worker[q]
          BY <2>9 DEF ProcessDies, NoWorker, DInv, TypeInv
    <3> QED BY <2>7, <2>9, <3>1 DEF ProcessDies
  <2>10. ASSUME NEW p \in Procs, NEW call \in {"trim", "dump"},
                LoadChunkIds(p, call)
        PROVE  DInv'
    <3>1. Good(p)'
          BY <2>10, ListGood
    <3> QED BY <2>3, <2>4, <2>10, <3>1 DEF LoadChunkIds, DInv, TypeInv
  <2>11. ASSUME NEW p \in Procs, Dump(p)
        PROVE  DInv'
    <3>1. Good(p)'
          BY <2>11, DumpGood
    <3> QED BY <2>3, <2>4, <2>11, <3>1 DEF Dump, DInv, TypeInv
  <2>12. ASSUME NEW p \in Procs, Trim(p)
        PROVE  DInv'
    <3>1. Good(p)'
          BY <2>12, TrimGood
    <3> QED BY <2>3, <2>4, <2>12, <3>1 DEF Trim, DInv, TypeInv
  <2>13. ASSUME NEW p \in Procs, TrimEnd(p)
        PROVE  DInv'
    <3>1. Good(p)'
          BY SMTT(60), <2>13 DEF TrimEnd, DInv, TypeInv, Good, Owner, Ordered,
                       ListedThere, ThereListed, Up, Known, Exists
    <3> QED BY <2>3, <2>4, <2>13, <3>1 DEF TrimEnd, DInv, TypeInv
  <2>14. ASSUME NEW p \in Procs, Replay(p)
        PROVE  DInv'
    <3>1. Good(p)'
          BY <2>14, ReplayGood
    <3> QED BY <2>3, <2>4, <2>14, <3>1 DEF Replay, DInv, TypeInv
  <2>15. ASSUME NEW p \in Procs, ReopenLast(p)
        PROVE  DInv'
    <3>1. Good(p)'
          BY <2>15, ReopenGood
    <3> QED BY <2>3, <2>4, <2>15, <3>1
            DEF ReopenLast, StartWorker, DInv, TypeInv
  <2>16. ASSUME NEW p \in Procs, CreateFirst(p)
        PROVE  DInv'
    <3>1. Good(p)'
          BY <2>16, CreateFirstGood
    <3> QED BY <2>3, <2>4, <2>16, <3>1
            DEF CreateFirst, StartWorker, DInv, TypeInv
  <2>17. ASSUME NEW p \in Procs, Write(p)
        PROVE  DInv'
    <3>1. Good(p)'
          BY <2>17, WriteGood
    <3> QED BY <2>3, <2>4, <2>17, <3>1 DEF Write, Enqueue, DInv, TypeInv
  <2>18. ASSUME NEW p \in Procs, Rotate(p)
        PROVE  DInv'
    <3>1. Good(p)'
          BY <2>18, RotateGood
    <3>2. pc[p] = "up"
          BY <2>18 DEF Rotate, CanRotate
    <3> QED BY <2>3, <2>4, <2>18, <3>1, <3>2
            DEF Rotate, Enqueue, DInv, TypeInv
  <2>19. ASSUME NEW p \in Procs, Purge(p)
        PROVE  DInv'
    <3>1. Good(p)'
          BY <2>19, PurgeGood
    <3> QED BY <2>3, <2>4, <2>19, <3>1 DEF Purge, Enqueue, DInv, TypeInv
  <2>20. ASSUME NEW p \in Procs, TakeReader(p)
        PROVE  DInv'
        BY <2>20, SameGood DEF TakeReader
  <2>21. ASSUME NEW p \in Procs, WorkerStep(p)
        PROVE  DInv'
    <3>1. Good(p)'
          BY <2>21, WorkerGood
    <3>2. \A q \in Procs \ {p} : worker'[q] = worker[q]
          BY <2>21 DEF WorkerStep, DInv, TypeInv
    <3> QED BY <2>3, <2>5, <2>21, <3>1, <3>2 DEF WorkerStep, DInv, TypeInv
  <2>22. ASSUME NEW p \in Procs, WorkerFails(p) \/ WorkerQuits(p)
        PROVE  DInv'
    <3>1. /\ ~worker'[p].alive /\ UNCHANGED <<pc, ids, closed, open, left, lock,
                                             dir>>
          /\ \A q \in Procs \ {p} : worker'[q] = worker[q]
          /\ lock = p
          BY <2>5, <2>22 DEF WorkerFails, WorkerQuits, NoWorker, DInv, TypeInv
    <3>2. Owner(p)' /\ Ordered(p)' /\ Up(p)'
          BY <3>1 DEF DInv, Good, Owner, Ordered, Up
    <3>3. ListedThere(p)' /\ ThereListed(p)'
      <4>1. Known(p)' = Known(p) /\ \A i : Exists(i)' <=> Exists(i)
            BY <3>1 DEF Known, Exists
      <4> QED BY <3>1, <4>1 DEF DInv, Good, ListedThere, ThereListed
    <3>4. Good(p)'
          BY <3>2, <3>3 DEF Good
    <3> QED BY <2>3, <3>1, <3>4
  <2>23. ASSUME NEW p \in Procs, Shutdown(p) \/ Join(p)
        PROVE  DInv'
    <3>1. /\ UNCHANGED <<ids, closed, open, left, lock, dir, worker>>
          /\ pc[p] \in {"up", "closing"} /\ pc'[p] \in {"closing", "shut"}
          /\ worker[p].alive => pc'[p] = "closing"
          /\ \A q \in Procs \ {p} : pc'[q] = pc[q]
          BY <2>23 DEF Shutdown, Join, WorkerJoined, DInv, TypeInv
    <3>2. Good(p)'
          BY <3>1 DEF DInv, Good, Owner, Ordered, ListedThere, ThereListed,
                      Up, Exists
    <3> QED BY <2>3, <2>4, <3>1, <3>2
  <2>24. ASSUME NEW p \in Procs, RotateSyncErr(p)
        PROVE  DInv'
    <3>1. Good(p)'
          BY <2>24, RotateSyncErrGood
    <3>2. pc[p] = "up"
          BY <2>24 DEF RotateSyncErr, CanRotate
    <3> QED BY <2>3, <2>4, <2>24, <3>1, <3>2 DEF RotateSyncErr, DInv, TypeInv
  <2>25. ASSUME NEW p \in Procs, RotateEncodeErr(p)
        PROVE  DInv'
    <3>1. Good(p)'
          BY <2>25, RotateEncodeErrGood
    <3>2. pc[p] = "up"
          BY <2>25 DEF RotateEncodeErr, CanRotate
    <3> QED BY <2>3, <2>4, <2>25, <3>1, <3>2
            DEF RotateEncodeErr, Enqueue, DInv, TypeInv
  <2> QED
      BY <1>2, <2>2, <2>6, <2>8, <2>9, <2>10, <2>11, <2>12, <2>13, <2>14,
         <2>15, <2>16, <2>17, <2>18, <2>19, <2>20, <2>21, <2>22, <2>23, <2>24,
         <2>25
      DEF Next
<1> QED BY <1>1, <1>2

(* So it always holds.                                                     *)
LEMMA AlwaysDInv == Spec => []DInv
BY InitDInv, StepDInv, PTL DEF Spec

(* WalLock: at any time one process at most lists, opens, dumps or uses    *)
(* the directory, its worker thread included, however many there are.      *)
THEOREM SingleOwner == Spec => []OneOwner
<1>1. DInv => OneOwner
      BY DEF DInv, Good, Owner, OneOwner
<1> QED BY <1>1, AlwaysDInv, PTL

(* Every chunk that load_chunk_ids found is there when it is opened, for   *)
(* replay or dump, unless its name is misspelt.                            *)
THEOREM ListedAreFound == Spec => []ListedChunksFound
<1>1. DInv => ListedChunksFound
      BY DEF DInv, Good, ListedThere, ListedChunksFound
<1> QED BY <1>1, AlwaysDInv, PTL

(* A WAL that is up knows every chunk file in its directory, each of them  *)
(* once, but for those left out by rotations that returned an error: these *)
(* stay where they are (try_close_full_chunk, create_file).                *)
THEOREM ChunksAreKnown == Spec => []KnowsItsChunks
<1>1. ASSUME DInv PROVE KnowsItsChunks
  <2> SUFFICES ASSUME NEW p \in Procs, pc[p] = "up", worker[p].alive
               PROVE  /\ {n \in DOMAIN dir : Parsed[n] /= Invalid} =
                            {ChunkName[i] : i \in {c.id : c \in closed[p]}
                                \union {open[p].id} \union Removing(p)
                                \union left[p]}
                      /\ \A c \in closed[p] \union {open[p]} :
                            /\ c.id \notin left[p]
                            /\ \A d \in closed[p] \union {open[p]} :
                                  c.id = d.id => c = d
      BY DEF KnowsItsChunks
  <2>1. /\ open[p] /= NoChunk
        /\ \A m \in DOMAIN dir : ~Misspelt(m)
        /\ \A i \in 0..MaxNum : Exists(i) <=>
               \/ \E c \in Known(p) : c.id = i
               \/ \E k \in Removals(p) : worker[p].queue[k].id = i
               \/ i \in left[p]
        /\ \A c \in Known(p) : c.id \notin left[p]
        BY <1>1 DEF DInv, Good, Up
  <2>2. /\ DOMAIN dir \subseteq Names /\ closed[p] \subseteq Chunk
        /\ open[p] \in Chunk /\ worker[p].queue \in Seq(Req)
        /\ left[p] \subseteq 0..MaxNum
        BY <1>1 DEF DInv, TypeInv, Worker
  <2>3. Known(p) = closed[p] \union {open[p]}
        BY <1>1, <2>1 DEF Known, DInv, Good, Ordered
  <2>4. \A c \in Known(p) : c.id \in 0..MaxNum
        BY <2>2, <2>3 DEF Chunk
  <2>5. \A k \in Removals(p) : worker[p].queue[k].id \in 0..MaxNum
    <3>1. \A k \in Removals(p) : worker[p].queue[k] \in Req
          BY <2>2 DEF Removals
    <3> QED BY <3>1 DEF Removals, Req
  <2> DEFINE I == {c.id : c \in closed[p]} \union {open[p].id}
                  \union Removing(p) \union left[p]
  <2>6. Removing(p) = {worker[p].queue[k].id : k \in Removals(p)}
        BY DEF Removing, Removals
  <2>7. I \subseteq 0..MaxNum /\ \A i \in 0..MaxNum : i \in I <=> Exists(i)
        BY <2>1, <2>2, <2>3, <2>4, <2>5, <2>6
  <2>8. ASSUME NEW n \in DOMAIN dir, Parsed[n] /= Invalid
        PROVE  n \in {ChunkName[i] : i \in I}
    <3>1. n = ChunkName[Parsed[n]] /\ Parsed[n] \in 0..MaxNum
          BY <2>1, <2>2, <2>8, NameFacts
    <3> QED BY <2>7, <3>1 DEF Exists
  <2>9. ASSUME NEW i \in I
        PROVE  ChunkName[i] \in DOMAIN dir /\ Parsed[ChunkName[i]] /= Invalid
        BY <2>7, NameFacts DEF Exists, Invalid
  <2>10. \A c, d \in closed[p] \union {open[p]} : c.id = d.id => c = d
    <3>1. /\ \A c \in closed[p] : c.id < open[p].id /\ c.id \in Int
          /\ \A c, d \in closed[p] : c.id = d.id => c = d
          /\ open[p].id \in Int
          BY <1>1, <2>2 DEF DInv, Good, Ordered, Chunk
    <3> QED BY <3>1
  <2> QED BY <2>1, <2>3, <2>8, <2>9, <2>10
<1> QED BY <1>1, AlwaysDInv, PTL

-----------------------------------------------------------------------------
(***************************************************************************)
(* What a ClosedChunkReader reads.  ReaderReadsItsRecords compares a file  *)
(* with records whose writes may still be queued, so the invariant follows *)
(* the queue: D[k] and W[k] are the files and the worker's current file    *)
(* after the worker's next k requests (Runs).  At the end of the queue     *)
(* every chunk the WAL or its reader knows has all its records (Plan).     *)
(* Files only grow, so what is there by then begins with what is there     *)
(* now.  When the worker has quit, the queue is empty and the records are  *)
(* in the files, where later owners only add to them.                      *)
(***************************************************************************)
Files == Seq(Seq(Rec))

Begins(s, t) == Len(s) <= Len(t) /\ \A i \in 1..Len(s) : s[i] = t[i]

Grows(d, e) == Len(d) <= Len(e) /\ \A f \in 1..Len(d) : Begins(d[f], e[f])

Holds(c, d) == c.file \in 1..Len(d) /\ Begins(c.recs, d[c.file])

(* The worker's file and the files after one more request.                 *)
NextFile(r, w) == IF r.kind = "append" THEN r.file ELSE w
NextFiles(r, d, w) == IF r.kind = "write"
                      THEN [d EXCEPT ![w] = Append(d[w], r.rec)] ELSE d

Runs(q, D, W) ==
    /\ D \in [0..Len(q) -> Files] /\ W \in [0..Len(q) -> Nat]
    /\ \A k \in 0..Len(q) : /\ Len(D[k]) = Len(D[0])
                            /\ W[k] \in 1..Len(D[0])
    /\ \A k \in 1..Len(q) : /\ W[k] = NextFile(q[k], W[k - 1])
                            /\ D[k] = NextFiles(q[k], D[k - 1], W[k - 1])
    /\ \A k \in 0..Len(q) : Grows(D[k], D[Len(q)])

(* The chunks whose records the process may read through its reader.       *)
Promised(p) == closed[p] \union {c \in reader[p] : readerOk[p]}

(* What is true at the end of the queue.                                   *)
Complete(o, S, d, w) ==
    /\ w = o.file /\ d[o.file] = o.recs
    /\ \A c \in S : Holds(c, d)

(* The queue takes files d and file w to files e and file v.               *)
Leads(q, d, w, e, v) ==
    \E D, W : /\ Runs(q, D, W)
              /\ D[0] = d /\ W[0] = w /\ D[Len(q)] = e /\ W[Len(q)] = v

Plan(p) ==
    \E e, v : /\ Leads(worker[p].queue, data, worker[p].file, e, v)
              /\ Complete(open[p], Promised(p), e, v)

Reads(p) ==
    /\ worker[p].alive => Plan(p)
    /\ ~worker[p].alive /\ readerOk[p] => \A c \in reader[p] : Holds(c, data)
    /\ pc[p] = "replay" =>
           /\ \A c \in closed[p] : Holds(c, data)
           /\ open[p] /= NoChunk => /\ open[p].file \in 1..Len(data)
                                    /\ data[open[p].file] = open[p].recs

RInv == /\ reader \in [Procs -> SUBSET Chunk]
        /\ readerOk \in [Procs -> BOOLEAN]
        /\ \A p \in Procs : Reads(p)

-----------------------------------------------------------------------------
(* Beginnings of sequences.                                                *)
LEMMA BeginsFacts ==
    /\ \A s \in Seq(Rec) : Begins(s, s)
    /\ \A s, t, u \in Seq(Rec) : Begins(s, t) /\ Begins(t, u) => Begins(s, u)
    /\ \A s \in Seq(Rec), r \in Rec : Begins(s, Append(s, r))
    /\ \A s, t, u \in Seq(Rec) :
           Begins(s, u) /\ Begins(t, u) => Begins(s, t) \/ Begins(t, s)
<1>1. \A s \in Seq(Rec) : Len(s) \in Nat
      OBVIOUS
<1>2. \A s \in Seq(Rec) : Begins(s, s)
      BY DEF Begins
<1>3. \A s, t, u \in Seq(Rec) :
          Begins(s, t) /\ Begins(t, u) => Begins(s, u)
  <2> SUFFICES ASSUME NEW s \in Seq(Rec), NEW t \in Seq(Rec),
                      NEW u \in Seq(Rec), Begins(s, t), Begins(t, u)
               PROVE  Begins(s, u)
      OBVIOUS
  <2>1. /\ Len(s) \in Nat /\ Len(t) \in Nat /\ Len(u) \in Nat
        /\ Len(s) <= Len(t) /\ Len(t) <= Len(u)
        BY <1>1 DEF Begins
  <2>2. \A i \in 1..Len(s) : i \in 1..Len(t) /\ s[i] = t[i] /\ t[i] = u[i]
        BY <2>1 DEF Begins
  <2> QED BY <2>1, <2>2 DEF Begins
<1>4. \A s \in Seq(Rec), r \in Rec : Begins(s, Append(s, r))
      BY DEF Begins
<1>5. \A s, t, u \in Seq(Rec) :
          Begins(s, u) /\ Begins(t, u) => Begins(s, t) \/ Begins(t, s)
  <2> SUFFICES ASSUME NEW s \in Seq(Rec), NEW t \in Seq(Rec),
                      NEW u \in Seq(Rec), Begins(s, u), Begins(t, u)
               PROVE  Begins(s, t) \/ Begins(t, s)
      OBVIOUS
  <2>1. Len(s) \in Nat /\ Len(t) \in Nat
        BY <1>1
  <2>2. CASE Len(s) <= Len(t)
    <3>1. \A i \in 1..Len(s) : i \in 1..Len(t) /\ s[i] = u[i] /\ t[i] = u[i]
          BY <2>1, <2>2 DEF Begins
    <3> QED BY <2>2, <3>1 DEF Begins
  <2>3. CASE Len(t) <= Len(s)
    <3>1. \A i \in 1..Len(t) : i \in 1..Len(s) /\ s[i] = u[i] /\ t[i] = u[i]
          BY <2>1, <2>3 DEF Begins
    <3> QED BY <2>3, <3>1 DEF Begins
  <2> QED BY <2>1, <2>2, <2>3
<1> QED BY <1>2, <1>3, <1>4, <1>5

LEMMA BeginsIsPrefix ==
    ASSUME NEW s \in Seq(Rec), NEW t \in Seq(Rec), Begins(s, t)
    PROVE  IsPrefix(s, t)
<1>1. Len(s) \in Nat /\ Len(t) \in Nat /\ Len(s) <= Len(t)
      BY DEF Begins
<1>2. SubSeq(s, 1, Len(s)) = SubSeq(t, 1, Len(s))
      BY <1>1 DEF Begins
<1> QED BY <1>1, <1>2 DEF IsPrefix

(* Files grow when one of them is added to, or a new one is made.          *)
LEMMA GrowsFacts ==
    /\ \A d \in Files : Grows(d, d)
    /\ \A d, e, g \in Files : Grows(d, e) /\ Grows(e, g) => Grows(d, g)
    /\ \A d \in Files, r \in Rec : \A w \in 1..Len(d) :
           LET e == [d EXCEPT ![w] = Append(d[w], r)] IN
           e \in Files /\ Len(e) = Len(d) /\ Grows(d, e)
    /\ \A d \in Files, s \in Seq(Rec) :
           Append(d, s) \in Files /\ Grows(d, Append(d, s))
<1>1. \A d \in Files : /\ Len(d) \in Nat
                       /\ \A f \in 1..Len(d) : d[f] \in Seq(Rec)
      BY DEF Files
<1>2. \A d \in Files : Grows(d, d)
      BY <1>1, BeginsFacts DEF Grows
<1>3. \A d, e, g \in Files : Grows(d, e) /\ Grows(e, g) => Grows(d, g)
  <2> SUFFICES ASSUME NEW d \in Files, NEW e \in Files, NEW g \in Files,
                      Grows(d, e), Grows(e, g)
               PROVE  Grows(d, g)
      OBVIOUS
  <2>1. Len(d) \in Nat /\ Len(e) \in Nat /\ Len(g) \in Nat
        /\ Len(d) <= Len(e) /\ Len(e) <= Len(g)
        BY <1>1 DEF Grows
  <2>2. ASSUME NEW f \in 1..Len(d) PROVE Begins(d[f], g[f])
    <3>1. f \in 1..Len(e) /\ f \in 1..Len(g)
          BY <2>1
    <3>2. Begins(d[f], e[f]) /\ Begins(e[f], g[f])
          BY <3>1 DEF Grows
    <3> QED BY <1>1, <3>1, <3>2, BeginsFacts
  <2> QED BY <2>1, <2>2 DEF Grows
<1>4. ASSUME NEW d \in Files, NEW r \in Rec, NEW w \in 1..Len(d)
      PROVE  LET e == [d EXCEPT ![w] = Append(d[w], r)] IN
             e \in Files /\ Len(e) = Len(d) /\ Grows(d, e)
  <2> DEFINE e == [d EXCEPT ![w] = Append(d[w], r)]
  <2>1. d[w] \in Seq(Rec) /\ Append(d[w], r) \in Seq(Rec)
        BY <1>1
  <2>2. e \in Files /\ Len(e) = Len(d)
        BY <2>1 DEF Files
  <2>3. ASSUME NEW f \in 1..Len(d) PROVE Begins(d[f], e[f])
    <3>1. CASE f = w
      <4>1. e[f] = Append(d[f], r)
            BY <3>1 DEF Files
      <4> QED BY <1>1, <4>1, BeginsFacts
    <3>2. CASE f /= w
      <4>1. e[f] = d[f]
            BY <3>2 DEF Files
      <4> QED BY <1>1, <4>1, BeginsFacts
    <3> QED BY <3>1, <3>2
  <2> QED BY <1>1, <2>2, <2>3 DEF Grows
<1>5. ASSUME NEW d \in Files, NEW s \in Seq(Rec)
      PROVE  Append(d, s) \in Files /\ Grows(d, Append(d, s))
  <2>1. /\ Append(d, s) \in Files /\ Len(Append(d, s)) = Len(d) + 1
        /\ \A f \in 1..Len(d) : Append(d, s)[f] = d[f]
        BY DEF Files
  <2> QED BY <1>1, <2>1, BeginsFacts DEF Grows
<1> QED BY <1>2, <1>3, <1>4, <1>5

(* A chunk that a file holds stays there while files grow.                 *)
LEMMA HoldsGrows ==
    ASSUME NEW d \in Files, NEW e \in Files, Grows(d, e),
           NEW c \in Chunk, Holds(c, d)
    PROVE  Holds(c, e)
<1>1. /\ Len(d) \in Nat /\ Len(e) \in Nat /\ Len(d) <= Len(e)
      /\ c.file \in 1..Len(d) /\ c.file \in 1..Len(e)
      BY DEF Grows, Holds, Files
<1>2. Begins(c.recs, d[c.file]) /\ Begins(d[c.file], e[c.file])
      BY <1>1 DEF Grows, Holds
<1>3. c.recs \in Seq(Rec) /\ d[c.file] \in Seq(Rec) /\ e[c.file] \in Seq(Rec)
      BY <1>1 DEF Chunk, Files
<1> QED BY <1>1, <1>2, <1>3, BeginsFacts DEF Holds

-----------------------------------------------------------------------------
(* Runs of a queue that gets one request more, or one less.                *)
LEMMA ReqFacts ==
    \A r \in Req : /\ r.kind = "write" => r.rec \in Rec
                   /\ r.kind = "append" => r.file \in Nat
BY DEF Req

LEMMA RunsTypes ==
    ASSUME NEW q \in Seq(Req), NEW D, NEW W, Runs(q, D, W)
    PROVE  /\ Len(q) \in Nat /\ Len(q) \in 0..Len(q) /\ 0 \in 0..Len(q)
           /\ \A k \in 0..Len(q) : /\ D[k] \in Files /\ Len(D[k]) = Len(D[0])
                                   /\ Len(D[k]) \in Nat
                                   /\ W[k] \in 1..Len(D[k])
<1>1. \A k \in 0..Len(q) : /\ D[k] \in Files /\ Len(D[k]) = Len(D[0])
                           /\ W[k] \in 1..Len(D[0])
      BY DEF Runs
<1>2. \A d \in Files : Len(d) \in Nat
      BY DEF Files
<1> QED BY <1>1, <1>2

(* What one request does to the files.                                     *)
LEMMA NextFilesGrow ==
    ASSUME NEW d \in Files, NEW w \in 1..Len(d), NEW r \in Req
    PROVE  /\ NextFiles(r, d, w) \in Files
           /\ Len(NextFiles(r, d, w)) = Len(d)
           /\ Grows(d, NextFiles(r, d, w))
<1>1. CASE r.kind = "write"
  <2>1. r.rec \in Rec
        BY <1>1, ReqFacts
  <2> QED BY <1>1, <2>1, GrowsFacts DEF NextFiles
<1>2. CASE r.kind /= "write"
      BY <1>2, GrowsFacts DEF NextFiles
<1> QED BY <1>1, <1>2

LEMMA RunsEmpty ==
    ASSUME NEW d \in Files, NEW w \in 1..Len(d)
    PROVE  \E D, W : /\ Runs(<<>>, D, W)
                     /\ D[0] = d /\ W[0] = w
<1> DEFINE D == [k \in 0..0 |-> d]
           W == [k \in 0..0 |-> w]
<1>1. /\ D \in [0..0 -> Files] /\ W \in [0..0 -> Nat]
      /\ \A k \in 0..0 : k = 0 /\ D[k] = d /\ W[k] = w
      BY DEF Files
<1> HIDE DEF D, W
<1>2. Len(<<>>) = 0
      OBVIOUS
<1>3. Runs(<<>>, D, W)
      BY <1>1, <1>2, GrowsFacts DEF Runs
<1> QED BY <1>1, <1>3

LEMMA RunsAppend ==
    ASSUME NEW q \in Seq(Req), NEW r \in Req, NEW D, NEW W, Runs(q, D, W),
           NextFile(r, W[Len(q)]) \in 1..Len(D[0])
    PROVE  \E E, X : /\ Runs(Append(q, r), E, X)
                     /\ E[0] = D[0] /\ X[0] = W[0]
                     /\ E[Len(q) + 1] = NextFiles(r, D[Len(q)], W[Len(q)])
                     /\ X[Len(q) + 1] = NextFile(r, W[Len(q)])
<1> DEFINE n == Len(q)
           last == NextFiles(r, D[n], W[n])
           E == [k \in 0..(n + 1) |-> IF k \in 0..n THEN D[k] ELSE last]
           X == [k \in 0..(n + 1) |->
                   IF k \in 0..n THEN W[k] ELSE NextFile(r, W[n])]
<1>1. /\ n \in Nat /\ Len(Append(q, r)) = n + 1
      /\ \A k \in 1..n : Append(q, r)[k] = q[k]
      /\ Append(q, r)[n + 1] = r
      OBVIOUS
<1>2. \A k \in 0..n : /\ D[k] \in Files /\ Len(D[k]) = Len(D[0])
                      /\ W[k] \in 1..Len(D[0]) /\ W[k] \in Nat
                      /\ W[k] \in 1..Len(D[k])
      BY RunsTypes DEF Runs
<1>3. last \in Files /\ Len(last) = Len(D[0]) /\ Grows(D[n], last)
  <2>1. n \in 0..n
        BY <1>1
  <2> QED BY <1>2, <2>1, NextFilesGrow
<1>4. NextFile(r, W[n]) \in Nat
  <2>1. Len(D[0]) \in Nat
        BY <1>1, <1>2 DEF Files
  <2> QED BY <2>1
<1> HIDE DEF last
<1>5. E \in [0..(n + 1) -> Files] /\ X \in [0..(n + 1) -> Nat]
      BY <1>1, <1>2, <1>3, <1>4
<1>6. /\ \A k \in 0..n : E[k] = D[k] /\ X[k] = W[k]
      /\ E[n + 1] = last /\ X[n + 1] = NextFile(r, W[n])
      BY <1>1
<1> HIDE DEF E, X
<1>7. \A k \in 0..(n + 1) : k \in 0..n \/ k = n + 1
      BY <1>1
<1>8. 0 \in 0..n /\ E[0] = D[0] /\ X[0] = W[0]
      BY <1>1, <1>6
<1>9. \A k \in 0..(n + 1) : Len(E[k]) = Len(E[0]) /\ X[k] \in 1..Len(E[0])
      BY <1>2, <1>3, <1>6, <1>7, <1>8
<1>10. ASSUME NEW k \in 1..(n + 1)
       PROVE  /\ X[k] = NextFile(Append(q, r)[k], X[k - 1])
              /\ E[k] = NextFiles(Append(q, r)[k], E[k - 1], X[k - 1])
  <2>1. CASE k \in 1..n
    <3>1. k \in 0..n /\ k - 1 \in 0..n
          BY <1>1, <2>1
    <3> QED BY <1>1, <1>6, <2>1, <3>1 DEF Runs
  <2>2. CASE k = n + 1
    <3>1. k - 1 = n /\ n \in 0..n
          BY <1>1, <2>2
    <3> QED BY <1>1, <1>6, <2>2, <3>1 DEF last
  <2> QED BY <1>1, <2>1, <2>2
<1>11. ASSUME NEW k \in 0..(n + 1) PROVE Grows(E[k], E[n + 1])
  <2>1. CASE k \in 0..n
    <3>1. Grows(D[k], D[n]) /\ D[k] \in Files /\ D[n] \in Files
          BY <1>1, <1>2, <2>1 DEF Runs
    <3> QED BY <1>3, <1>6, <2>1, <3>1, GrowsFacts
  <2>2. CASE k = n + 1
        BY <1>3, <1>6, <2>2, GrowsFacts
  <2> QED BY <1>7, <2>1, <2>2
<1>12. Runs(Append(q, r), E, X)
       BY <1>1, <1>5, <1>9, <1>10, <1>11 DEF Runs
<1> QED BY <1>6, <1>8, <1>12 DEF last

LEMMA RunsTail ==
    ASSUME NEW q \in Seq(Req), q /= <<>>, NEW D, NEW W, Runs(q, D, W)
    PROVE  \E E, X : /\ Runs(Tail(q), E, X)
                     /\ E[0] = NextFiles(Head(q), D[0], W[0])
                     /\ X[0] = NextFile(Head(q), W[0])
                     /\ E[Len(Tail(q))] = D[Len(q)]
                     /\ X[Len(Tail(q))] = W[Len(q)]
<1> DEFINE n == Len(q) - 1
           E == [k \in 0..n |-> D[k + 1]]
           X == [k \in 0..n |-> W[k + 1]]
<1>1. /\ n \in Nat /\ Len(q) = n + 1 /\ Len(Tail(q)) = n
      /\ Tail(q) \in Seq(Req) /\ Head(q) = q[1]
      /\ \A k \in 1..n : Tail(q)[k] = q[k + 1]
      OBVIOUS
<1>2. \A k \in 0..Len(q) : /\ D[k] \in Files /\ Len(D[k]) = Len(D[0])
                           /\ W[k] \in 1..Len(D[0]) /\ W[k] \in Nat
                           /\ Grows(D[k], D[Len(q)])
      BY RunsTypes DEF Runs
<1> HIDE DEF n
<1>3. \A k \in 0..n : k + 1 \in 0..Len(q) /\ k + 1 \in 1..Len(q)
      BY <1>1
<1>4. E \in [0..n -> Files] /\ X \in [0..n -> Nat]
      BY <1>2, <1>3
<1>5. \A k \in 0..n : E[k] = D[k + 1] /\ X[k] = W[k + 1]
      OBVIOUS
<1> HIDE DEF E, X
<1>6. 0 \in 0..n /\ n \in 0..n /\ E[n] = D[Len(q)] /\ X[n] = W[Len(q)]
      BY <1>1, <1>5
<1>7. E[0] = NextFiles(Head(q), D[0], W[0]) /\ X[0] = NextFile(Head(q), W[0])
  <2>1. 1 \in 1..Len(q) /\ 1 - 1 = 0 /\ E[0] = D[1] /\ X[0] = W[1]
        BY <1>1, <1>5, <1>6
  <2>2. W[1] = NextFile(q[1], W[1 - 1]) /\ D[1] = NextFiles(q[1], D[1 - 1], W[1 - 1])
        BY <2>1 DEF Runs
  <2> QED BY <1>1, <2>1, <2>2
<1>8. ASSUME NEW k \in 0..n
      PROVE  /\ Len(E[k]) = Len(E[0]) /\ X[k] \in 1..Len(E[0])
             /\ Grows(E[k], E[n])
  <2>1. k + 1 \in 0..Len(q) /\ 0 + 1 \in 0..Len(q) /\ E[0] = D[0 + 1]
        BY <1>3, <1>5, <1>6
  <2> QED BY <1>2, <1>5, <1>6, <2>1
<1>9. ASSUME NEW k \in 1..n
      PROVE  /\ X[k] = NextFile(Tail(q)[k], X[k - 1])
             /\ E[k] = NextFiles(Tail(q)[k], E[k - 1], X[k - 1])
  <2>1. /\ k \in 0..n /\ k - 1 \in 0..n /\ k + 1 \in 1..Len(q)
        /\ (k - 1) + 1 = k /\ (k + 1) - 1 = k
        BY <1>1
  <2>2. /\ W[k + 1] = NextFile(q[k + 1], W[(k + 1) - 1])
        /\ D[k + 1] = NextFiles(q[k + 1], D[(k + 1) - 1], W[(k + 1) - 1])
        BY <2>1 DEF Runs
  <2>3. X[k - 1] = W[k] /\ E[k - 1] = D[k] /\ X[k] = W[k + 1] /\ E[k] = D[k + 1]
        BY <1>5, <2>1
  <2> QED BY <1>1, <2>1, <2>2, <2>3
<1>10. Runs(Tail(q), E, X)
       BY <1>1, <1>4, <1>8, <1>9 DEF Runs
<1> QED BY <1>1, <1>6, <1>7, <1>10

(* Sequences with the same elements; a sequence and one element more.      *)
LEMMA SameSequence ==
    ASSUME NEW S, NEW s \in Seq(S), NEW t \in Seq(S), Len(s) = Len(t),
           \A i \in 1..Len(s) : s[i] = t[i]
    PROVE  s = t
OBVIOUS

LEMMA OneMore ==
    ASSUME NEW S, NEW s \in Seq(S), NEW r \in S
    PROVE  /\ Append(s, r) \in Seq(S) /\ Len(Append(s, r)) = Len(s) + 1
           /\ \A i \in 1..Len(s) : Append(s, r)[i] = s[i]
           /\ Append(s, r)[Len(s) + 1] = r
OBVIOUS

(* A file may be changed before or after a new one is added.               *)
LEMMA AppendExcept ==
    ASSUME NEW d \in Files, NEW w \in 1..Len(d), NEW a \in Seq(Rec),
           NEW s \in Seq(Rec)
    PROVE  Append([d EXCEPT ![w] = a], s) = [Append(d, s) EXCEPT ![w] = a]
<1> DEFINE e == [d EXCEPT ![w] = a]
           f == Append(d, s)
           g == [f EXCEPT ![w] = a]
<1>1. /\ Len(d) \in Nat /\ e \in Files /\ Len(e) = Len(d)
      /\ \A i \in 1..Len(d) : e[i] = IF i = w THEN a ELSE d[i]
      BY DEF Files
<1>2. /\ f \in Files /\ Len(f) = Len(d) + 1 /\ w \in 1..Len(f)
      /\ \A i \in 1..Len(d) : f[i] = d[i]
      /\ f[Len(d) + 1] = s
      BY <1>1 DEF Files
<1>3. /\ Append(e, s) \in Files /\ Len(Append(e, s)) = Len(d) + 1
      /\ \A i \in 1..Len(d) : Append(e, s)[i] = e[i]
      /\ Append(e, s)[Len(d) + 1] = s
  <2> HIDE DEF e
  <2>1. e \in Seq(Seq(Rec))
        BY <1>1 DEF Files
  <2>2. /\ Append(e, s) \in Seq(Seq(Rec)) /\ Len(Append(e, s)) = Len(e) + 1
        /\ \A i \in 1..Len(e) : Append(e, s)[i] = e[i]
        /\ Append(e, s)[Len(e) + 1] = s
        BY <2>1, OneMore
  <2> QED BY <1>1, <2>2 DEF Files
<1>4. /\ g \in Files /\ Len(g) = Len(d) + 1
      /\ \A i \in 1..Len(f) : g[i] = IF i = w THEN a ELSE f[i]
  <2> HIDE DEF f
  <2> QED BY <1>2 DEF Files
<1> HIDE DEF e, f, g
<1>5. ASSUME NEW i \in 1..(Len(d) + 1) PROVE Append(e, s)[i] = g[i]
  <2>1. CASE i = Len(d) + 1
    <3>1. i /= w /\ i \in 1..Len(f)
          BY <1>1, <1>2, <2>1
    <3> QED BY <1>2, <1>3, <1>4, <2>1, <3>1
  <2>2. CASE i \in 1..Len(d)
    <3>1. i \in 1..Len(f)
          BY <1>1, <1>2, <2>2
    <3> QED BY <1>1, <1>2, <1>3, <1>4, <2>2, <3>1
  <2> QED BY <1>1, <2>1, <2>2
<1>6. Append(e, s) = g
  <2> DEFINE h == Append(e, s)
  <2>1. /\ h \in Files /\ Len(h) = Len(d) + 1
        /\ \A i \in 1..(Len(d) + 1) : h[i] = g[i]
        BY <1>3, <1>5
  <2> HIDE DEF h
  <2>2. h = g
        BY <1>4, <2>1, SameSequence DEF Files
  <2> QED BY <2>2 DEF h
<1> QED BY <1>6 DEF e, f, g

(* A new file changes nothing for the requests already queued.             *)
LEMMA RunsNew ==
    ASSUME NEW q \in Seq(Req), NEW D, NEW W, Runs(q, D, W), NEW s \in Seq(Rec)
    PROVE  \E E : /\ Runs(q, E, W) /\ E[0] = Append(D[0], s)
                  /\ E[Len(q)] = Append(D[Len(q)], s)
<1> DEFINE E == [k \in 0..Len(q) |-> Append(D[k], s)]
<1>1. /\ Len(q) \in Nat /\ 0 \in 0..Len(q) /\ Len(q) \in 0..Len(q)
      /\ \A k \in 0..Len(q) : /\ D[k] \in Files /\ Len(D[k]) = Len(D[0])
                              /\ Len(D[k]) \in Nat /\ W[k] \in 1..Len(D[k])
                              /\ Grows(D[k], D[Len(q)])
      BY RunsTypes DEF Runs
<1>2. \A d \in Files : /\ Append(d, s) \in Files
                       /\ Len(Append(d, s)) = Len(d) + 1
                       /\ \A f \in 1..Len(d) : Append(d, s)[f] = d[f]
                       /\ Append(d, s)[Len(d) + 1] = s
      BY DEF Files
<1>3. /\ E \in [0..Len(q) -> Files]
      /\ \A k \in 0..Len(q) : E[k] = Append(D[k], s)
      BY <1>1, <1>2
<1> HIDE DEF E
<1>4. ASSUME NEW k \in 0..Len(q)
      PROVE  Len(E[k]) = Len(E[0]) /\ W[k] \in 1..Len(E[0])
  <2>1. /\ D[k] \in Files /\ D[0] \in Files /\ Len(D[k]) = Len(D[0])
        /\ Len(D[0]) \in Nat /\ W[k] \in 1..Len(D[0])
        /\ E[k] = Append(D[k], s) /\ E[0] = Append(D[0], s)
        BY <1>1, <1>3
  <2>2. Len(E[k]) = Len(D[0]) + 1 /\ Len(E[0]) = Len(D[0]) + 1
        BY <1>2, <2>1
  <2> QED BY <2>1, <2>2
<1>5. ASSUME NEW k \in 1..Len(q)
      PROVE  E[k] = NextFiles(q[k], E[k - 1], W[k - 1])
  <2>1. k - 1 \in 0..Len(q) /\ k \in 0..Len(q) /\ q[k] \in Req
        BY <1>1
  <2> DEFINE d == D[k - 1]
             w == W[k - 1]
  <2>2. /\ d \in Files /\ w \in 1..Len(d) /\ D[k] = NextFiles(q[k], d, w)
        /\ E[k] = Append(D[k], s) /\ E[k - 1] = Append(d, s)
        BY <1>1, <1>3, <2>1 DEF Runs
  <2> HIDE DEF d, w
  <2>3. CASE q[k].kind = "write"
    <3> DEFINE a == Append(d[w], q[k].rec)
    <3>1. a \in Seq(Rec) /\ d \in Seq(Seq(Rec)) /\ Len(d) \in Nat
          BY <2>1, <2>2, <2>3, ReqFacts DEF Files
    <3>2. D[k] = [d EXCEPT ![w] = a] /\ Append(d, s)[w] = d[w]
          BY <1>2, <2>2, <2>3 DEF NextFiles
    <3> HIDE DEF a
    <3>3. Append([d EXCEPT ![w] = a], s) = [Append(d, s) EXCEPT ![w] = a]
          BY <2>2, <3>1, AppendExcept
    <3>4. NextFiles(q[k], E[k - 1], w) = [Append(d, s) EXCEPT ![w] = a]
          BY <2>2, <2>3, <3>2 DEF NextFiles, a
    <3> QED BY <2>2, <3>2, <3>3, <3>4 DEF w
  <2>4. CASE q[k].kind /= "write"
        BY <2>2, <2>4 DEF NextFiles
  <2> QED BY <2>3, <2>4
<1>6. ASSUME NEW k \in 0..Len(q) PROVE Grows(E[k], E[Len(q)])
  <2> DEFINE d == D[k]
             e == D[Len(q)]
  <2>1. /\ d \in Files /\ e \in Files /\ Len(d) = Len(e) /\ Len(d) \in Nat
        /\ Grows(d, e) /\ E[k] = Append(d, s) /\ E[Len(q)] = Append(e, s)
        BY <1>1, <1>3
  <2> HIDE DEF d, e
  <2>2. ASSUME NEW f \in 1..(Len(d) + 1)
        PROVE  Begins(Append(d, s)[f], Append(e, s)[f])
    <3>1. CASE f \in 1..Len(d)
          BY <1>2, <2>1, <3>1 DEF Grows
    <3>2. CASE f = Len(d) + 1
          BY <1>2, <2>1, <3>2, BeginsFacts
    <3> QED BY <2>1, <3>1, <3>2
  <2> QED BY <1>2, <2>1, <2>2 DEF Grows
<1>7. Runs(q, E, W)
      BY <1>3, <1>4, <1>5, <1>6 DEF Runs
<1> QED BY <1>1, <1>3, <1>7

-----------------------------------------------------------------------------
(* Where a queue leads, in the same cases.                                 *)
LEMMA LeadsTypes ==
    ASSUME NEW q \in Seq(Req), NEW d, NEW w, NEW e, NEW v,
           Leads(q, d, w, e, v)
    PROVE  /\ d \in Files /\ e \in Files /\ Len(e) = Len(d) /\ Len(d) \in Nat
           /\ w \in 1..Len(d) /\ v \in 1..Len(d) /\ Grows(d, e)
           /\ q = <<>> => e = d /\ v = w
<1>1. PICK D, W : /\ Runs(q, D, W) /\ D[0] = d /\ W[0] = w
                  /\ D[Len(q)] = e /\ W[Len(q)] = v
      BY DEF Leads
<1>2. 0 \in 0..Len(q) /\ Len(q) \in 0..Len(q)
      BY <1>1, RunsTypes
<1>3. Grows(d, e)
      BY <1>1, <1>2 DEF Runs
<1>4. q = <<>> => Len(q) = 0
      OBVIOUS
<1> QED BY <1>1, <1>2, <1>3, <1>4, RunsTypes

LEMMA LeadsEmpty ==
    ASSUME NEW d \in Files, NEW w \in 1..Len(d)
    PROVE  Leads(<<>>, d, w, d, w)
<1>1. PICK D, W : Runs(<<>>, D, W) /\ D[0] = d /\ W[0] = w
      BY RunsEmpty
<1>2. Len(<<>>) = 0
      OBVIOUS
<1> QED BY <1>1, <1>2 DEF Leads

LEMMA LeadsAppend ==
    ASSUME NEW q \in Seq(Req), NEW r \in Req, NEW d, NEW w, NEW e, NEW v,
           Leads(q, d, w, e, v), NextFile(r, v) \in 1..Len(d)
    PROVE  Leads(Append(q, r), d, w, NextFiles(r, e, v), NextFile(r, v))
<1>1. PICK D, W : /\ Runs(q, D, W) /\ D[0] = d /\ W[0] = w
                  /\ D[Len(q)] = e /\ W[Len(q)] = v
      BY DEF Leads
<1>2. PICK E, X : /\ Runs(Append(q, r), E, X)
                  /\ E[0] = D[0] /\ X[0] = W[0]
                  /\ E[Len(q) + 1] = NextFiles(r, D[Len(q)], W[Len(q)])
                  /\ X[Len(q) + 1] = NextFile(r, W[Len(q)])
      BY <1>1, RunsAppend
<1>3. Len(Append(q, r)) = Len(q) + 1
      OBVIOUS
<1> QED BY <1>1, <1>2, <1>3 DEF Leads

LEMMA LeadsTail ==
    ASSUME NEW q \in Seq(Req), q /= <<>>, NEW d, NEW w, NEW e, NEW v,
           Leads(q, d, w, e, v)
    PROVE  Leads(Tail(q), NextFiles(Head(q), d, w), NextFile(Head(q), w), e, v)
<1>1. PICK D, W : /\ Runs(q, D, W) /\ D[0] = d /\ W[0] = w
                  /\ D[Len(q)] = e /\ W[Len(q)] = v
      BY DEF Leads
<1>2. PICK E, X : /\ Runs(Tail(q), E, X)
                  /\ E[0] = NextFiles(Head(q), D[0], W[0])
                  /\ X[0] = NextFile(Head(q), W[0])
                  /\ E[Len(Tail(q))] = D[Len(q)]
                  /\ X[Len(Tail(q))] = W[Len(q)]
      BY <1>1, RunsTail
<1> QED BY <1>1, <1>2 DEF Leads

LEMMA LeadsNew ==
    ASSUME NEW q \in Seq(Req), NEW d, NEW w, NEW e, NEW v,
           Leads(q, d, w, e, v), NEW s \in Seq(Rec)
    PROVE  Leads(q, Append(d, s), w, Append(e, s), v)
<1>1. PICK D, W : /\ Runs(q, D, W) /\ D[0] = d /\ W[0] = w
                  /\ D[Len(q)] = e /\ W[Len(q)] = v
      BY DEF Leads
<1>2. PICK E : /\ Runs(q, E, W) /\ E[0] = Append(D[0], s)
               /\ E[Len(q)] = Append(D[Len(q)], s)
      BY <1>1, RunsNew
<1> QED BY <1>1, <1>2 DEF Leads

-----------------------------------------------------------------------------
(* Processes that do not step.                                             *)
LEMMA SameReads ==
    ASSUME NEW p \in Procs, Reads(p), UNCHANGED data,
           worker'[p] = worker[p], closed'[p] = closed[p], open'[p] = open[p],
           reader'[p] = reader[p], readerOk'[p] = readerOk[p],
           pc'[p] = pc[p] \/ pc'[p] /= "replay"
    PROVE  Reads(p)'
<1>1. Promised(p)' = Promised(p)
      BY DEF Promised
<1>2. Plan(p) => Plan(p)'
      BY <1>1 DEF Plan
<1> QED BY <1>2 DEF Reads

LEMMA OthersReads ==
    ASSUME TypeInv, TypeInv', NEW p \in Procs, NEW q \in Procs, q /= p,
           Owner(q), Reads(q), reader[q] \subseteq Chunk,
           lock = p, Grows(data, data'),
           worker'[q] = worker[q], reader'[q] = reader[q],
           readerOk'[q] = readerOk[q], pc'[q] = pc[q]
    PROVE  Reads(q)'
<1>1. ~worker[q].alive /\ pc[q] = "out"
      BY DEF Owner
<1>2. readerOk[q] => \A c \in reader[q] : Holds(c, data)
      BY <1>1 DEF Reads
<1>3. data \in Files /\ data' \in Files
      BY DEF TypeInv, Files
<1>4. readerOk[q] => \A c \in reader[q] : Holds(c, data')
      BY <1>2, <1>3, HoldsGrows
<1> QED BY <1>1, <1>4 DEF Reads

(* What p leaves alone of the others.                                      *)
Apart(p) ==
    \A q \in Procs : q /= p =>
        /\ worker'[q] = worker[q] /\ closed'[q] = closed[q]
        /\ open'[q] = open[q] /\ reader'[q] = reader[q]
        /\ readerOk'[q] = readerOk[q] /\ pc'[q] = pc[q]

LEMMA OneReads ==
    ASSUME DInv, DInv', RInv, NEW p \in Procs, Apart(p), Reads(p)',
           data' = data \/ (lock = p /\ Grows(data, data'))
    PROVE  \A q \in Procs : Reads(q)'
<1> SUFFICES ASSUME NEW q \in Procs, q /= p PROVE Reads(q)'
    OBVIOUS
<1>1. Reads(q) /\ Owner(q) /\ reader[q] \subseteq Chunk /\ TypeInv /\ TypeInv'
      BY DEF RInv, DInv, Good
<1>2. CASE data' = data
      BY <1>1, <1>2, SameReads DEF Apart
<1>3. CASE lock = p /\ Grows(data, data')
      BY <1>1, <1>3, OthersReads DEF Apart
<1> QED BY <1>2, <1>3

(* A process whose worker is gone, or was never there.                     *)
LEMMA DeadReads ==
    ASSUME NEW p \in Procs, ~worker'[p].alive, pc'[p] /= "replay",
           readerOk'[p] => \A c \in reader'[p] : Holds(c, data')
    PROVE  Reads(p)'
BY DEF Reads

(* The new file comes last.                                                *)
LEMMA NewFile ==
    ASSUME NEW d \in Files, NEW s \in Seq(Rec)
    PROVE  /\ Append(d, s) \in Files /\ Grows(d, Append(d, s))
           /\ Len(Append(d, s)) = Len(d) + 1
           /\ Len(d) + 1 \in 1..Len(Append(d, s))
           /\ Append(d, s)[Len(d) + 1] = s
<1>1. d \in Seq(Seq(Rec)) /\ Len(d) \in Nat
      BY DEF Files
<1>2. /\ Len(Append(d, s)) = Len(d) + 1
      /\ Append(d, s)[Len(d) + 1] = s
      BY <1>1, OneMore
<1> QED BY <1>1, <1>2, GrowsFacts

-----------------------------------------------------------------------------
(* Opening.                                                                *)
LEMMA ReplayReads ==
    ASSUME DInv, RInv, NEW p \in Procs, Replay(p)
    PROVE  Reads(p)'
<1>1. /\ TypeInv /\ Owner(p) /\ Reads(p) /\ pc[p] = "replay"
      /\ data' = data /\ data \in Files /\ UNCHANGED <<pc, worker, readerVars>>
      BY DEF DInv, Good, RInv, Replay, TypeInv, Files
<1>2. ~worker[p].alive
      BY <1>1 DEF Owner
<1>3. PICK n \in Lowest(ids[p]) :
         /\ CanReplay(p, Parsed[n])
         /\ open' = [open EXCEPT ![p] =
                        [id |-> Parsed[n], file |-> FileOf(Parsed[n]),
                         recs |-> data[FileOf(Parsed[n])]]]
      BY DEF Replay
<1>4. Parsed[n] \in 0..MaxNum /\ Exists(Parsed[n])
  <2>1. n \in Readable
        BY <1>1, <1>3 DEF Lowest, TypeInv
  <2> QED BY <1>3, <2>1, NameFacts DEF Readable, CanReplay
<1>5. FileOf(Parsed[n]) \in 1..Len(data)
      BY <1>1, <1>4, FileTypes
<1>6. /\ open'[p].file \in 1..Len(data')
      /\ data'[open'[p].file] = open'[p].recs
      BY <1>1, <1>3, <1>5 DEF TypeInv
<1>7. \A c \in closed'[p] : Holds(c, data')
  <2>1. closed'[p] = closed[p] \union ({open[p]} \ {NoChunk})
        BY <1>1 DEF Replay, TypeInv
  <2>2. \A c \in closed[p] : Holds(c, data)
        BY <1>1 DEF Reads
  <2>3. open[p] /= NoChunk => Holds(open[p], data)
    <3>1. open[p] /= NoChunk => /\ open[p].file \in 1..Len(data)
                                /\ data[open[p].file] = open[p].recs
          BY <1>1 DEF Reads
    <3>2. open[p].recs \in Seq(Rec)
          BY <1>1 DEF TypeInv, Chunk
    <3> QED BY <3>1, <3>2, BeginsFacts DEF Holds
  <2> QED BY <1>1, <2>1, <2>2, <2>3
<1>8. readerOk'[p] => \A c \in reader'[p] : Holds(c, data')
      BY <1>1, <1>2 DEF Reads, readerVars
<1>9. ~worker'[p].alive
      BY <1>1, <1>2
<1> QED BY <1>6, <1>7, <1>8, <1>9 DEF Reads

(* A new worker has nothing to do: what is complete is so at once.         *)
LEMMA StartReads ==
    ASSUME TypeInv, NEW p \in Procs, data' \in Files,
           open'[p].file \in 1..Len(data'),
           data'[open'[p].file] = open'[p].recs,
           StartWorker(p, open'[p].file),
           \A c \in closed'[p] : Holds(c, data'),
           readerOk'[p] => \A c \in reader'[p] : Holds(c, data'),
           pc'[p] = "up"
    PROVE  Reads(p)'
<1> DEFINE w == open'[p].file
<1>1. /\ worker'[p].alive /\ worker'[p].file = w
      /\ worker'[p].queue = <<>>
      BY DEF StartWorker, TypeInv, NoWorker
<1>2. Leads(worker'[p].queue, data', worker'[p].file, data', w)
      BY <1>1, LeadsEmpty
<1>3. \A c \in Promised(p)' : Holds(c, data')
      BY DEF Promised
<1>4. Complete(open'[p], Promised(p)', data', w)
      BY <1>3 DEF Complete
<1>5. Plan(p)'
  <2> DEFINE e == data'
             v == w
  <2>1. Leads(worker'[p].queue, data', worker'[p].file, e, v)
        /\ Complete(open'[p], Promised(p)', e, v)
        BY <1>2, <1>4
  <2> HIDE DEF e, v
  <2> QED BY <2>1 DEF Plan
<1> QED BY <1>1, <1>5 DEF Reads

LEMMA ReopenReads ==
    ASSUME DInv, RInv, NEW p \in Procs, ReopenLast(p)
    PROVE  Reads(p)'
<1>1. /\ TypeInv /\ Owner(p) /\ Reads(p) /\ pc[p] = "replay"
      /\ data' = data /\ data \in Files /\ open[p] /= NoChunk
      /\ UNCHANGED <<closed, open, readerVars>>
      BY DEF DInv, Good, RInv, ReopenLast, TypeInv, Files
<1>2. ~worker[p].alive
      BY <1>1 DEF Owner
<1>3. /\ open[p].file \in 1..Len(data) /\ data[open[p].file] = open[p].recs
      /\ \A c \in closed[p] : Holds(c, data)
      /\ readerOk[p] => \A c \in reader[p] : Holds(c, data)
      BY <1>1, <1>2 DEF Reads
<1>4. pc'[p] = "up" /\ StartWorker(p, open'[p].file)
      BY <1>1 DEF ReopenLast, TypeInv
<1> QED BY <1>1, <1>3, <1>4, StartReads DEF readerVars

LEMMA CreateFirstReads ==
    ASSUME DInv, RInv, NEW p \in Procs, CreateFirst(p)
    PROVE  Reads(p)' /\ Grows(data, data')
<1>1. /\ TypeInv /\ Owner(p) /\ Reads(p) /\ pc[p] = "replay"
      /\ data' = Append(data, <<Record(p)>>) /\ data \in Files
      /\ UNCHANGED <<closed, readerVars>>
      /\ reader[p] \subseteq Chunk /\ closed[p] \subseteq Chunk
      BY DEF DInv, Good, RInv, CreateFirst, CreateFile, TypeInv, Files
<1>2. ~worker[p].alive
      BY <1>1 DEF Owner
<1>3. Record(p) \in Rec /\ <<Record(p)>> \in Seq(Rec)
      BY <1>1 DEF TypeInv, Record, Rec
<1>4. data' \in Files /\ Grows(data, data')
      BY <1>1, <1>3, GrowsFacts
<1>5. /\ Len(data') = Len(data) + 1 /\ data'[Len(data) + 1] = <<Record(p)>>
      /\ Len(data) + 1 \in 1..Len(data')
      BY <1>1, <1>3, OneMore DEF Files
<1>6. /\ open'[p].file = Len(data) + 1 /\ open'[p].recs = <<Record(p)>>
      /\ pc'[p] = "up" /\ StartWorker(p, open'[p].file)
      BY <1>1 DEF CreateFirst, TypeInv
<1>7. /\ \A c \in closed'[p] : Holds(c, data')
      /\ readerOk'[p] => \A c \in reader'[p] : Holds(c, data')
  <2>1. /\ \A c \in closed[p] : Holds(c, data)
        /\ readerOk[p] => \A c \in reader[p] : Holds(c, data)
        BY <1>1, <1>2 DEF Reads
  <2> QED BY <1>1, <1>4, <2>1, HoldsGrows DEF readerVars
<1> QED BY <1>1, <1>4, <1>5, <1>6, <1>7, StartReads

-----------------------------------------------------------------------------
(* Requests.                                                               *)
LEMMA PlanFacts ==
    ASSUME DInv, RInv, NEW p \in Procs, worker[p].alive
    PROVE  /\ worker[p].queue \in Seq(Req) /\ data \in Files
           /\ \E e, v :
                 /\ Leads(worker[p].queue, data, worker[p].file, e, v)
                 /\ Complete(open[p], Promised(p), e, v)
                 /\ e \in Files /\ Len(e) = Len(data) /\ Len(data) \in Nat
                 /\ open[p].file \in 1..Len(data)
                 /\ Promised(p) \subseteq Chunk
<1>1. TypeInv /\ Reads(p) /\ worker[p] \in Worker /\ reader[p] \subseteq Chunk
      BY DEF DInv, RInv, TypeInv
<1>2. worker[p].queue \in Seq(Req) /\ data \in Files
      BY <1>1 DEF TypeInv, Worker, Files
<1>3. PICK e, v : /\ Leads(worker[p].queue, data, worker[p].file, e, v)
                  /\ Complete(open[p], Promised(p), e, v)
      BY <1>1 DEF Reads, Plan
<1>4. /\ e \in Files /\ Len(e) = Len(data) /\ Len(data) \in Nat
      /\ v \in 1..Len(data)
      BY <1>2, <1>3, LeadsTypes
<1>5. v = open[p].file
      BY <1>3 DEF Complete
<1>6. Promised(p) \subseteq Chunk
      BY <1>1 DEF Promised, TypeInv
<1> QED BY <1>2, <1>3, <1>4, <1>5, <1>6

(* What was promised is kept when the queue leads further.                 *)
LEMMA PromiseGrows ==
    ASSUME NEW S \in SUBSET Chunk, NEW T \in SUBSET S,
           NEW d \in Files, NEW e \in Files,
           Grows(d, e), \A c \in S : Holds(c, d)
    PROVE  \A c \in T : Holds(c, e)
BY HoldsGrows

LEMMA WriteReads ==
    ASSUME DInv, RInv, NEW p \in Procs, Write(p)
    PROVE  Reads(p)'
<1> DEFINE q == worker[p].queue
           r == [by |-> p, n |-> writes']
           m == [kind |-> "write", rec |-> r]
           f == open[p].file
<1>1. /\ TypeInv /\ worker[p].alive /\ Enqueue(p, <<m>>) /\ pc'[p] = "up"
      /\ data' = data /\ UNCHANGED <<closed, readerVars>>
      /\ writes' = writes + 1
      BY DEF DInv, Write, CanSend, TypeInv
<1>2. r \in Rec /\ m \in Req /\ <<m>> \in Seq(Req)
  <2>1. r \in Rec
        BY <1>1 DEF TypeInv, Rec
  <2> QED BY <2>1 DEF Req
<1>3. /\ q \in Seq(Req) /\ data \in Files
      /\ open[p].file \in 1..Len(data) /\ Promised(p) \subseteq Chunk
      BY <1>1, PlanFacts
<1>4. PICK e, v : /\ Leads(q, data, worker[p].file, e, v)
                  /\ Complete(open[p], Promised(p), e, v)
                  /\ e \in Files /\ Len(e) = Len(data) /\ Len(data) \in Nat
      BY <1>1, PlanFacts
<1>5. /\ worker'[p].queue = Append(q, m) /\ worker'[p].file = worker[p].file
      /\ worker'[p].alive
  <2>1. worker'[p].queue = q \o <<m>> /\ worker'[p].alive = worker[p].alive
        BY <1>1, <1>2, EnqueueTypes
  <2>2. q \o <<m>> = Append(q, m)
    <3> HIDE DEF q, m
    <3> QED BY <1>2, <1>3
  <2>3. worker'[p].file = worker[p].file
        BY <1>1 DEF Enqueue, TypeInv, Worker
  <2> QED BY <1>1, <2>1, <2>2, <2>3
<1>6. /\ open'[p].file = f
      /\ open'[p].recs = Append(open[p].recs, r)
      BY DEF Write, DInv, TypeInv, Chunk
<1>7. v = f /\ e[f] = open[p].recs /\ \A c \in Promised(p) : Holds(c, e)
      BY <1>4 DEF Complete
<1> DEFINE g == [e EXCEPT ![f] = Append(e[f], r)]
<1>8. NextFile(m, v) = f /\ NextFiles(m, e, v) = g
      BY <1>7 DEF NextFile, NextFiles
<1> HIDE DEF q, m
<1>9. Leads(Append(q, m), data, worker[p].file, g, f)
      BY <1>2, <1>3, <1>4, <1>7, <1>8, LeadsAppend
<1>10. g \in Files /\ Grows(e, g)
       BY <1>2, <1>3, <1>4, GrowsFacts
<1>11. g[f] = Append(open[p].recs, r)
       BY <1>3, <1>4, <1>7 DEF Files
<1>12. Promised(p)' = Promised(p)
       BY <1>1 DEF Promised, readerVars
<1>13. \A c \in Promised(p) : Holds(c, g)
       BY <1>3, <1>4, <1>7, <1>10, HoldsGrows
<1> HIDE DEF g
<1>14. Complete(open'[p], Promised(p)', g, f)
       BY <1>6, <1>11, <1>12, <1>13 DEF Complete
<1>15. Plan(p)'
       BY <1>1, <1>5, <1>9, <1>14 DEF Plan
<1> QED BY <1>1, <1>5, <1>15 DEF Reads

LEMMA RotateReads ==
    ASSUME DInv, RInv, NEW p \in Procs, Rotate(p)
    PROVE  Reads(p)' /\ Grows(data, data')
<1> DEFINE q == worker[p].queue
           f == Len(data) + 1
           m1 == [kind |-> "append", file |-> f]
           m2 == [kind |-> "write", rec |-> Record(p)]
<1>1. /\ TypeInv /\ worker[p].alive /\ Enqueue(p, <<m1, m2>>) /\ pc'[p] = "up"
      /\ data' = Append(data, <<>>) /\ UNCHANGED readerVars
      /\ open[p] \in Chunk
      BY DEF DInv, Rotate, CanRotate, CanSend, CreateFile, TypeInv
<1>2. /\ q \in Seq(Req) /\ data \in Files
      /\ open[p].file \in 1..Len(data) /\ Promised(p) \subseteq Chunk
      BY <1>1, PlanFacts
<1>3. PICK e, v : /\ Leads(q, data, worker[p].file, e, v)
                  /\ Complete(open[p], Promised(p), e, v)
                  /\ e \in Files /\ Len(e) = Len(data) /\ Len(data) \in Nat
      BY <1>1, PlanFacts
<1>4. /\ Record(p) \in Rec /\ m1 \in Req /\ m2 \in Req
      /\ <<m1, m2>> \in Seq(Req)
  <2>1. Record(p) \in Rec /\ f \in Nat
        BY <1>1, <1>3 DEF Record, Rec, TypeInv
  <2>2. m1 \in Req /\ m2 \in Req
        BY <2>1 DEF Req
  <2> HIDE DEF m1, m2
  <2> QED BY <2>1, <2>2
<1>5. /\ worker'[p].queue = Append(Append(q, m1), m2)
      /\ worker'[p].file = worker[p].file
      /\ worker'[p].alive
  <2>1. /\ worker'[p].queue = q \o <<m1, m2>>
        /\ worker'[p].alive = worker[p].alive
        BY <1>1, <1>4, EnqueueTypes
  <2>2. q \o <<m1, m2>> = Append(Append(q, m1), m2)
    <3> HIDE DEF q, m1, m2
    <3> QED BY <1>2, <1>4
  <2>3. worker'[p].file = worker[p].file
        BY <1>1 DEF Enqueue, TypeInv, Worker
  <2> QED BY <1>1, <2>1, <2>2, <2>3
<1>6. open'[p].file = f /\ open'[p].recs = <<Record(p)>>
      BY <1>1 DEF Rotate, TypeInv
<1>7. v = open[p].file /\ e[v] = open[p].recs
      /\ \A c \in Promised(p) : Holds(c, e)
      BY <1>3 DEF Complete
<1> DEFINE e1 == Append(e, <<>>)
           e2 == [e1 EXCEPT ![f] = Append(e1[f], Record(p))]
<1>8. <<>> \in Seq(Rec)
      OBVIOUS
<1>9. /\ data' \in Files /\ Len(data') = Len(data) + 1
      /\ Grows(data, data') /\ f \in 1..Len(data')
      BY <1>1, <1>2, <1>3, <1>8, NewFile
<1>10. /\ e1 \in Files /\ Grows(e, e1) /\ Len(e1) = f /\ f \in 1..Len(e1)
       /\ e1[f] = <<>>
       BY <1>3, <1>8, NewFile
<1>11. /\ NextFile(m1, v) = f /\ NextFiles(m1, e1, v) = e1
       /\ NextFile(m2, f) = f /\ NextFiles(m2, e1, f) = e2
       BY DEF NextFile, NextFiles
<1> HIDE DEF m1, m2, e1, e2, q, f
<1>12. Leads(q, data', worker[p].file, e1, v)
       BY <1>1, <1>2, <1>3, <1>8, LeadsNew DEF e1
<1>13. Leads(Append(q, m1), data', worker[p].file, e1, f)
       BY <1>2, <1>4, <1>9, <1>11, <1>12, LeadsAppend
<1>14. Append(q, m1) \in Seq(Req)
       BY <1>2, <1>4
<1>15. Leads(Append(Append(q, m1), m2), data', worker[p].file, e2, f)
       BY <1>4, <1>9, <1>11, <1>13, <1>14, LeadsAppend
<1>16. e2 \in Files /\ Grows(e1, e2)
       BY <1>4, <1>10, GrowsFacts DEF e2
<1>17. e2[f] = <<Record(p)>>
  <2>1. e2[f] = Append(e1[f], Record(p))
        BY <1>10 DEF Files, e2
  <2> QED BY <1>10, <2>1
<1>18. Grows(e, e2)
       BY <1>3, <1>10, <1>16, GrowsFacts
<1>19. Promised(p)' \subseteq Promised(p) \union {open[p]}
       BY <1>1 DEF Promised, Rotate, readerVars, DInv, TypeInv
<1>20. \A c \in Promised(p) \union {open[p]} : c \in Chunk /\ Holds(c, e)
  <2>1. Holds(open[p], e)
        BY <1>1, <1>2, <1>3, <1>7, BeginsFacts DEF Holds, Chunk
  <2> QED BY <1>1, <1>2, <1>7, <2>1
<1>21. \A c \in Promised(p)' : Holds(c, e2)
       BY <1>3, <1>16, <1>18, <1>19, <1>20, HoldsGrows
<1>22. Complete(open'[p], Promised(p)', e2, f)
       BY <1>6, <1>17, <1>21 DEF Complete
<1>23. Plan(p)'
       BY <1>5, <1>15, <1>22 DEF Plan
<1> QED BY <1>1, <1>5, <1>9, <1>23 DEF Reads

LEMMA RotateSyncErrReads ==
    ASSUME DInv, RInv, NEW p \in Procs, RotateSyncErr(p)
    PROVE  Reads(p)' /\ Grows(data, data')
<1>1. /\ worker[p].alive /\ data' = Append(data, <<>>) /\ pc'[p] = "up"
      /\ UNCHANGED <<closed, open, worker, readerVars>>
      BY EndTypes DEF DInv, RotateSyncErr, CreateFile
<1>2. /\ worker[p].queue \in Seq(Req) /\ data \in Files
      /\ Promised(p) \subseteq Chunk
      BY <1>1, PlanFacts
<1>3. PICK e, v : /\ Leads(worker[p].queue, data, worker[p].file, e, v)
                  /\ Complete(open[p], Promised(p), e, v)
                  /\ e \in Files /\ open[p].file \in 1..Len(e)
      BY <1>1, PlanFacts
<1>4. <<>> \in Seq(Rec)
      OBVIOUS
<1> DEFINE e1 == Append(e, <<>>)
<1>5. Grows(data, data') /\ e1 \in Files /\ Grows(e, e1)
      BY <1>1, <1>2, <1>3, <1>4, NewFile
<1>6. Leads(worker[p].queue, data', worker[p].file, e1, v)
      BY <1>1, <1>2, <1>3, <1>4, LeadsNew
<1>7. Promised(p)' = Promised(p)
      BY <1>1 DEF Promised, readerVars
<1>8. v = open[p].file /\ e1[open[p].file] = open[p].recs
      BY <1>3 DEF Complete, Files
<1>9. \A c \in Promised(p) : Holds(c, e1)
      BY <1>2, <1>3, <1>5, HoldsGrows DEF Complete
<1> HIDE DEF e1
<1>10. Complete(open'[p], Promised(p)', e1, v)
       BY <1>1, <1>7, <1>8, <1>9 DEF Complete
<1>11. Plan(p)'
       BY <1>1, <1>6, <1>10 DEF Plan
<1> QED BY <1>1, <1>5, <1>11 DEF Reads

LEMMA RotateEncodeErrReads ==
    ASSUME DInv, RInv, NEW p \in Procs, RotateEncodeErr(p)
    PROVE  Reads(p)' /\ Grows(data, data')
<1> DEFINE q == worker[p].queue
           f == Len(data) + 1
           m == [kind |-> "append", file |-> f]
<1>1. /\ TypeInv /\ worker[p].alive /\ Enqueue(p, <<m>>) /\ pc'[p] = "up"
      /\ data' = Append(data, <<>>) /\ UNCHANGED <<closed, readerVars>>
      BY EndTypes DEF DInv, RotateEncodeErr, CreateFile
<1>2. /\ q \in Seq(Req) /\ data \in Files /\ Promised(p) \subseteq Chunk
      BY <1>1, PlanFacts
<1>3. PICK e, v : /\ Leads(q, data, worker[p].file, e, v)
                  /\ Complete(open[p], Promised(p), e, v)
                  /\ e \in Files /\ Len(e) = Len(data) /\ Len(data) \in Nat
      BY <1>1, PlanFacts
<1>4. m \in Req /\ <<m>> \in Seq(Req)
  <2>1. m \in Req
        BY <1>3 DEF Req
  <2> QED BY <2>1
<1>5. /\ worker'[p].queue = Append(q, m) /\ worker'[p].file = worker[p].file
      /\ worker'[p].alive
  <2>1. worker'[p].queue = q \o <<m>> /\ worker'[p].alive = worker[p].alive
        BY <1>1, <1>4, EnqueueTypes
  <2>2. q \o <<m>> = Append(q, m)
    <3> HIDE DEF q, m
    <3> QED BY <1>2, <1>4
  <2>3. worker'[p].file = worker[p].file
        BY <1>1 DEF Enqueue, TypeInv, Worker
  <2> QED BY <1>1, <2>1, <2>2, <2>3
<1>6. open'[p].file = f /\ open'[p].recs = <<>>
      BY <1>1 DEF RotateEncodeErr, TypeInv
<1>7. \A c \in Promised(p) : Holds(c, e)
      BY <1>3 DEF Complete
<1> DEFINE e1 == Append(e, <<>>)
<1>8. <<>> \in Seq(Rec)
      OBVIOUS
<1>9. Grows(data, data') /\ f \in 1..Len(data')
      BY <1>1, <1>2, <1>3, <1>8, NewFile
<1>10. e1 \in Files /\ Grows(e, e1) /\ e1[f] = <<>>
       BY <1>3, <1>8, NewFile
<1>11. NextFile(m, v) = f /\ NextFiles(m, e1, v) = e1
       BY DEF NextFile, NextFiles
<1> HIDE DEF m, e1, q, f
<1>12. Leads(q, data', worker[p].file, e1, v)
       BY <1>1, <1>2, <1>3, <1>8, LeadsNew DEF e1
<1>13. Leads(Append(q, m), data', worker[p].file, e1, f)
       BY <1>2, <1>4, <1>9, <1>11, <1>12, LeadsAppend
<1>14. Promised(p)' = Promised(p)
       BY <1>1 DEF Promised, readerVars
<1>15. \A c \in Promised(p) : Holds(c, e1)
       BY <1>2, <1>3, <1>7, <1>10, HoldsGrows
<1>16. Complete(open'[p], Promised(p)', e1, f)
       BY <1>6, <1>10, <1>14, <1>15 DEF Complete
<1>17. Plan(p)'
       BY <1>5, <1>13, <1>16 DEF Plan
<1> QED BY <1>1, <1>5, <1>9, <1>17 DEF Reads

LEMMA PurgeReads ==
    ASSUME DInv, RInv, NEW p \in Procs, Purge(p)
    PROVE  Reads(p)'
<1> DEFINE q == worker[p].queue
<1>1. /\ TypeInv /\ worker[p].alive /\ pc'[p] = "up"
      /\ data' = data /\ UNCHANGED <<open, readerVars>>
      BY DEF DInv, Purge, CanSend, TypeInv
<1>2. PICK c \in closed[p] :
         /\ closed' = [closed EXCEPT ![p] = @ \ {c}]
         /\ Enqueue(p, <<[kind |-> "remove", id |-> c.id]>>)
      BY DEF Purge
<1> DEFINE m == [kind |-> "remove", id |-> c.id]
<1>3. m \in Req /\ <<m>> \in Seq(Req)
  <2>1. c.id \in 0..MaxNum
        BY <1>1 DEF TypeInv, Chunk
  <2> QED BY <2>1 DEF Req
<1>4. /\ q \in Seq(Req) /\ data \in Files
      /\ open[p].file \in 1..Len(data)
      BY <1>1, PlanFacts
<1>5. PICK e, v : /\ Leads(q, data, worker[p].file, e, v)
                  /\ Complete(open[p], Promised(p), e, v)
      BY <1>1, PlanFacts
<1>6. /\ worker'[p].queue = Append(q, m) /\ worker'[p].file = worker[p].file
      /\ worker'[p].alive
  <2>1. worker'[p].queue = q \o <<m>> /\ worker'[p].alive = worker[p].alive
        BY <1>1, <1>2, <1>3, EnqueueTypes
  <2>2. q \o <<m>> = Append(q, m)
    <3> HIDE DEF q, m
    <3> QED BY <1>3, <1>4
  <2>3. worker'[p].file = worker[p].file
        BY <1>1, <1>2 DEF Enqueue, TypeInv, Worker
  <2> QED BY <1>1, <2>1, <2>2, <2>3
<1>7. NextFile(m, v) = v /\ NextFiles(m, e, v) = e
      BY DEF NextFile, NextFiles
<1>8. v \in 1..Len(data)
      BY <1>4, <1>5 DEF Complete
<1> HIDE DEF q, m
<1>9. Leads(Append(q, m), data, worker[p].file, e, v)
      BY <1>3, <1>4, <1>5, <1>7, <1>8, LeadsAppend
<1>10. Promised(p)' \subseteq Promised(p)
       BY <1>1, <1>2 DEF Promised, readerVars, TypeInv
<1>11. Complete(open'[p], Promised(p)', e, v)
       BY <1>1, <1>5, <1>10 DEF Complete
<1>12. Plan(p)'
       BY <1>1, <1>6, <1>9, <1>11 DEF Plan
<1> QED BY <1>1, <1>6, <1>12 DEF Reads

LEMMA TakeReaderReads ==
    ASSUME DInv, RInv, NEW p \in Procs, TakeReader(p)
    PROVE  Reads(p)'
<1>1. /\ TypeInv /\ pc'[p] = "up" /\ data' = data
      /\ UNCHANGED <<open, closed, worker>>
      BY DEF DInv, TakeReader, ownerVars
<1>2. /\ readerOk'[p] = worker[p].alive /\ reader'[p] = closed[p]
      BY DEF TakeReader, RInv
<1>3. CASE ~worker[p].alive
      BY <1>1, <1>2, <1>3, DeadReads
<1>4. CASE worker[p].alive
  <2>1. PICK e, v : /\ Leads(worker[p].queue, data, worker[p].file, e, v)
                    /\ Complete(open[p], Promised(p), e, v)
        BY <1>4, PlanFacts
  <2>2. Promised(p)' \subseteq Promised(p)
        BY <1>1, <1>2 DEF Promised
  <2>3. Complete(open'[p], Promised(p)', e, v)
        BY <1>1, <2>1, <2>2 DEF Complete
  <2>4. Plan(p)'
        BY <1>1, <2>1, <2>3 DEF Plan
  <2> QED BY <1>1, <1>4, <2>4 DEF Reads
<1> QED BY <1>3, <1>4

LEMMA WorkerStepReads ==
    ASSUME DInv, RInv, NEW p \in Procs, WorkerStep(p)
    PROVE  Reads(p)' /\ Grows(data, data')
<1> DEFINE q == worker[p].queue
           r == Head(q)
           w == worker[p].file
<1>1. /\ TypeInv /\ worker[p].alive /\ q /= <<>>
      /\ UNCHANGED <<pc, closed, open, readerVars>>
      /\ worker \in [Procs -> Worker]
      BY DEF DInv, WorkerStep, ownerVars, TypeInv
<1>2. q \in Seq(Req) /\ data \in Files /\ Promised(p) \subseteq Chunk
      BY <1>1, PlanFacts
<1>3. PICK e, v : /\ Leads(q, data, w, e, v)
                  /\ Complete(open[p], Promised(p), e, v)
      BY <1>1, PlanFacts
<1>4. w \in 1..Len(data)
      BY <1>2, <1>3, LeadsTypes
<1>5. r \in Req
      BY <1>1, <1>2
<1>6. /\ data' = NextFiles(r, data, w)
      /\ worker'[p].queue = Tail(q) /\ worker'[p].file = NextFile(r, w)
      /\ worker'[p].alive
  <2>0. ASSUME worker' = [worker EXCEPT ![p].queue = Tail(@)]
        PROVE  /\ worker'[p].queue = Tail(q) /\ worker'[p].file = w
               /\ worker'[p].alive
    <3>1. worker'[p] = [worker[p] EXCEPT !.queue = Tail(q)]
          BY <1>1, <2>0
    <3>2. worker[p] \in Worker
          BY <1>1
    <3> HIDE DEF q
    <3> QED BY <1>1, <3>1, <3>2 DEF Worker
  <2>1. CASE r.kind = "write"
    <3>1. /\ data' = [data EXCEPT ![w] = Append(data[w], r.rec)]
          /\ worker' = [worker EXCEPT ![p].queue = Tail(@)]
          BY <2>1 DEF WorkerStep
    <3> QED BY <2>0, <2>1, <3>1 DEF NextFiles, NextFile
  <2>2. CASE r.kind = "append"
    <3>1. /\ UNCHANGED data
          /\ worker' = [worker EXCEPT ![p].queue = Tail(@),
                                     ![p].file = r.file]
          BY <2>2 DEF WorkerStep
    <3>2. worker'[p] = [worker[p] EXCEPT !.queue = Tail(q), !.file = r.file]
          BY <1>1, <3>1
    <3>3. worker[p] \in Worker
          BY <1>1
    <3>4. /\ worker'[p].queue = Tail(q) /\ worker'[p].file = r.file
          /\ worker'[p].alive = worker[p].alive
      <4> HIDE DEF q, r
      <4> QED BY <3>2, <3>3 DEF Worker
    <3> QED BY <1>1, <2>2, <3>1, <3>4 DEF NextFiles, NextFile
  <2>3. CASE r.kind = "remove"
    <3>1. UNCHANGED data /\ worker' = [worker EXCEPT ![p].queue = Tail(@)]
          BY <2>3 DEF WorkerStep
    <3> QED BY <2>0, <2>3, <3>1 DEF NextFiles, NextFile
  <2> QED BY <2>1, <2>2, <2>3 DEF WorkerStep
<1>7. Leads(Tail(q), data', NextFile(r, w), e, v)
      BY <1>1, <1>2, <1>3, <1>6, LeadsTail
<1>8. Grows(data, data')
      BY <1>2, <1>4, <1>5, <1>6, NextFilesGrow
<1>9. Promised(p)' = Promised(p)
      BY <1>1 DEF Promised, readerVars
<1>10. Plan(p)'
       BY <1>1, <1>3, <1>6, <1>7, <1>9 DEF Plan
<1>11. pc'[p] /= "replay"
       BY <1>1 DEF DInv, Good, Owner
<1> QED BY <1>6, <1>8, <1>10, <1>11 DEF Reads

(* The worker returns only with an empty queue: the files are complete.    *)
LEMMA QuitReads ==
    ASSUME DInv, RInv, NEW p \in Procs, WorkerQuits(p)
    PROVE  Reads(p)'
<1>1. /\ TypeInv /\ worker[p].alive /\ worker[p].queue = <<>>
      /\ UNCHANGED <<data, pc, readerVars>> /\ pc'[p] = "closing"
      BY DEF DInv, WorkerQuits, ownerVars
<1>2. PICK e, v : /\ Leads(worker[p].queue, data, worker[p].file, e, v)
                  /\ Complete(open[p], Promised(p), e, v)
      BY <1>1, PlanFacts
<1>3. e = data
      BY <1>1, <1>2, LeadsTypes, PlanFacts
<1>4. readerOk[p] => \A c \in reader[p] : Holds(c, data)
      BY <1>2, <1>3 DEF Complete, Promised
<1>5. ~worker'[p].alive
      BY <1>1 DEF WorkerQuits, NoWorker, TypeInv
<1> QED BY <1>1, <1>4, <1>5, DeadReads DEF readerVars

-----------------------------------------------------------------------------
(* The invariant holds at first, and in every step.                        *)
LEMMA InitRInv == Init => RInv
<1> SUFFICES ASSUME Init PROVE RInv
    OBVIOUS
<1>1. reader \in [Procs -> SUBSET Chunk] /\ readerOk \in [Procs -> BOOLEAN]
      BY DEF Init
<1>2. ASSUME NEW p \in Procs PROVE Reads(p)
      BY DEF Init, Reads, NoWorker
<1> QED BY <1>1, <1>2 DEF RInv

(* One step of one process.                                                *)
StepOf(p) ==
    \/ TryLock(p) \/ DropLock(p)
    \/ \E call \in {"trim", "dump"} : LoadChunkIds(p, call)
    \/ Dump(p) \/ Trim(p) \/ TrimEnd(p) \/ Replay(p) \/ OpenFails(p)
    \/ ReopenLast(p) \/ CreateFirst(p)
    \/ Write(p) \/ Rotate(p) \/ RotateSyncErr(p) \/ RotateEncodeErr(p)
    \/ Purge(p) \/ TakeReader(p)
    \/ WorkerStep(p) \/ WorkerFails(p)
    \/ Shutdown(p) \/ WorkerQuits(p) \/ Join(p) \/ ProcessDies(p)

LEMMA StepReads ==
    ASSUME DInv, DInv', RInv, NEW p \in Procs, StepOf(p)
    PROVE  /\ Reads(p)'
           /\ data' = data \/ (lock = p /\ Grows(data, data'))
<1>1. /\ TypeInv /\ Owner(p) /\ Reads(p) /\ pc \in [Procs -> PCs]
      /\ worker \in [Procs -> Worker] /\ readerOk \in [Procs -> BOOLEAN]
      /\ reader \in [Procs -> SUBSET Chunk]
      BY DEF DInv, Good, RInv, TypeInv
<1>2. ASSUME UNCHANGED <<data, closed, open, worker, readerVars>>,
             pc'[p] = pc[p] \/ pc'[p] /= "replay"
      PROVE  Reads(p)' /\ data' = data
  <2>1. /\ data' = data /\ worker'[p] = worker[p] /\ closed'[p] = closed[p]
        /\ open'[p] = open[p] /\ reader'[p] = reader[p]
        /\ readerOk'[p] = readerOk[p]
        BY <1>2 DEF readerVars
  <2> QED BY <1>1, <1>2, <2>1, SameReads
<1>3. CASE TryLock(p)
  <2>1. pc'[p] = "locked"
        BY <1>1, <1>3 DEF TryLock
  <2>2. UNCHANGED <<data, closed, open, worker, readerVars>>
        BY <1>3 DEF TryLock
  <2> QED BY <1>2, <2>1, <2>2
<1>4. CASE \E call \in {"trim", "dump"} : LoadChunkIds(p, call)
  <2>1. pc'[p] /= "replay"
        BY <1>1, <1>4 DEF LoadChunkIds
  <2>2. UNCHANGED <<data, closed, open, worker, readerVars>>
        BY <1>4 DEF LoadChunkIds
  <2> QED BY <1>2, <2>1, <2>2
<1>5. CASE Dump(p)
  <2>1. pc'[p] = pc[p] \/ pc'[p] = "locked"
        BY <1>1, <1>5 DEF Dump
  <2>2. UNCHANGED <<data, closed, open, worker, readerVars>>
        BY <1>5 DEF Dump
  <2> QED BY <1>2, <2>1, <2>2
<1>6. CASE Trim(p)
  <2>1. UNCHANGED <<data, pc, closed, open, worker, readerVars>>
        BY <1>6 DEF Trim
  <2> QED BY <1>2, <2>1
<1>7. CASE Shutdown(p) \/ Join(p)
  <2>1. pc'[p] = "closing" \/ pc'[p] = "shut"
        BY <1>1, <1>7 DEF Shutdown, Join
  <2>2. UNCHANGED <<data, closed, open, worker, readerVars>>
        BY <1>7 DEF Shutdown, Join
  <2> QED BY <1>2, <2>1, <2>2
<1>8. CASE TrimEnd(p)
  <2>1. pc[p] = "trim" /\ UNCHANGED <<data, closed, open, worker, readerVars>>
        BY <1>8 DEF TrimEnd
  <2>2. ~worker[p].alive /\ closed[p] = {} /\ open[p] = NoChunk
        BY <1>1, <2>1 DEF Owner
  <2>3. readerOk'[p] => \A c \in reader'[p] : Holds(c, data')
        BY <1>1, <2>1, <2>2 DEF Reads, readerVars
  <2>4. ~worker'[p].alive /\ closed'[p] = {} /\ open'[p] = NoChunk
        BY <2>1, <2>2
  <2> QED BY <2>1, <2>3, <2>4 DEF Reads
<1>9. ASSUME Leave(p), ~worker'[p].alive, data' = data,
             readerOk'[p] => \A c \in reader'[p] : Holds(c, data)
      PROVE  Reads(p)' /\ data' = data
  <2>1. pc'[p] = "out"
        BY <1>1, <1>9 DEF Leave
  <2> QED BY <1>9, <2>1, DeadReads
<1>10. CASE DropLock(p) \/ OpenFails(p)
  <2>1. /\ pc[p] \in {"locked", "shut", "trim", "replay"}
        /\ Leave(p) /\ UNCHANGED <<data, worker, readerVars>>
        BY <1>10 DEF DropLock, OpenFails
  <2>2. ~worker[p].alive
        BY <1>1, <2>1 DEF Owner
  <2>3. readerOk[p] => \A c \in reader[p] : Holds(c, data)
        BY <1>1, <2>2 DEF Reads
  <2>4. /\ ~worker'[p].alive /\ data' = data
        /\ readerOk'[p] => \A c \in reader'[p] : Holds(c, data)
        BY <2>1, <2>2, <2>3 DEF readerVars
  <2> QED BY <1>9, <2>1, <2>4
<1>11. CASE ProcessDies(p)
  <2>1. Leave(p) /\ data' = data
        BY <1>11 DEF ProcessDies
  <2>2. reader'[p] = {}
        BY <1>1, <1>11 DEF ProcessDies
  <2>3. ~worker'[p].alive
        BY <1>1, <1>11 DEF ProcessDies, NoWorker
  <2> QED BY <1>9, <2>1, <2>2, <2>3
<1>12. CASE WorkerFails(p)
  <2>1. worker[p].alive /\ UNCHANGED <<data, pc>>
        BY <1>12 DEF WorkerFails, ownerVars
  <2>2. pc'[p] /= "replay"
        BY <1>1, <2>1 DEF Owner
  <2>3. ~worker'[p].alive
        BY <1>1, <1>12 DEF WorkerFails, NoWorker
  <2>4. readerOk'[p] = FALSE
        BY <1>1, <1>12 DEF WorkerFails
  <2> QED BY <2>1, <2>2, <2>3, <2>4, DeadReads
<1>13. CASE \/ CreateFirst(p) \/ Rotate(p) \/ RotateSyncErr(p)
            \/ RotateEncodeErr(p)
  <2>1. pc[p] \in {"replay", "up"}
        BY <1>13 DEF CreateFirst, Rotate, RotateSyncErr, RotateEncodeErr,
                     CanRotate
  <2>2. lock = p
        BY <1>1, <2>1 DEF Owner
  <2> QED BY <1>13, <2>2, CreateFirstReads, RotateReads,
             RotateSyncErrReads, RotateEncodeErrReads
<1>14. CASE WorkerStep(p)
  <2>1. worker[p].alive
        BY <1>14 DEF WorkerStep
  <2>2. lock = p
        BY <1>1, <2>1 DEF Owner
  <2> QED BY <1>14, <2>2, WorkerStepReads
<1>15. CASE Replay(p) \/ ReopenLast(p)
  <2>1. data' = data
        BY <1>15 DEF Replay, ReopenLast
  <2> QED BY <1>15, <2>1, ReplayReads, ReopenReads
<1>16. CASE Write(p) \/ Purge(p) \/ TakeReader(p) \/ WorkerQuits(p)
  <2>1. data' = data
        BY <1>16 DEF Write, Purge, TakeReader, WorkerQuits
  <2> QED BY <1>16, <2>1, WriteReads, PurgeReads, TakeReaderReads, QuitReads
<1> QED BY <1>3, <1>4, <1>5, <1>6, <1>7, <1>8, <1>10, <1>11, <1>12, <1>13,
           <1>14, <1>15, <1>16 DEF StepOf

(* A step of p is a step of p alone.                                       *)
LEMMA StepApart ==
    ASSUME DInv, RInv, NEW p \in Procs, StepOf(p)
    PROVE  /\ Apart(p)
           /\ reader' \in [Procs -> SUBSET Chunk]
           /\ readerOk' \in [Procs -> BOOLEAN]
<1>1. /\ pc \in [Procs -> PCs] /\ closed \in [Procs -> SUBSET Chunk]
      /\ open \in [Procs -> Chunk] /\ worker \in [Procs -> Worker]
      /\ reader \in [Procs -> SUBSET Chunk] /\ readerOk \in [Procs -> BOOLEAN]
      BY DEF DInv, TypeInv, RInv
<1>2. CASE \/ TryLock(p) \/ Dump(p) \/ Trim(p) \/ TrimEnd(p)
           \/ Shutdown(p) \/ Join(p)
           \/ \E call \in {"trim", "dump"} : LoadChunkIds(p, call)
  <2>1. /\ UNCHANGED <<closed, open, worker, reader, readerOk>>
        /\ \E c : pc' = pc \/ pc' = [pc EXCEPT ![p] = c]
        BY <1>2 DEF TryLock, Dump, Trim, TrimEnd, Shutdown, Join,
                    LoadChunkIds, readerVars
  <2> QED BY <1>1, <2>1 DEF Apart
<1>3. CASE DropLock(p) \/ OpenFails(p)
  <2>1. Leave(p) /\ UNCHANGED <<worker, reader, readerOk>>
        BY <1>3 DEF DropLock, OpenFails, readerVars
  <2> QED BY <1>1, <2>1 DEF Apart, Leave
<1>4. CASE ProcessDies(p)
      BY <1>1, <1>4 DEF Apart, ProcessDies, Leave
<1>5. CASE WorkerFails(p)
      BY <1>1, <1>5 DEF Apart, WorkerFails, ownerVars
<1>6. CASE WorkerQuits(p)
      BY <1>1, <1>6 DEF Apart, WorkerQuits, ownerVars, readerVars
<1>7. CASE WorkerStep(p)
  <2>1. UNCHANGED <<pc, closed, open, reader, readerOk>>
        BY <1>7 DEF WorkerStep, ownerVars, readerVars
  <2>2. \E x : worker' = [worker EXCEPT ![p] = x]
        BY <1>7 DEF WorkerStep
  <2> QED BY <1>1, <2>1, <2>2 DEF Apart
<1>8. CASE TakeReader(p)
      BY <1>1, <1>8 DEF Apart, TakeReader, ownerVars, Worker
<1>9. CASE Replay(p)
  <2>1. UNCHANGED <<pc, worker, reader, readerOk>>
        BY <1>9 DEF Replay, readerVars
  <2>2. \E x, y : /\ open' = [open EXCEPT ![p] = x]
                  /\ closed' = [closed EXCEPT ![p] = y]
        BY <1>9 DEF Replay
  <2> QED BY <1>1, <2>1, <2>2 DEF Apart
<1>10. CASE ReopenLast(p)
       BY <1>1, <1>10 DEF Apart, ReopenLast, StartWorker, readerVars
<1>11. CASE CreateFirst(p)
       BY <1>1, <1>11 DEF Apart, CreateFirst, StartWorker, readerVars
<1>12. CASE \/ Write(p) \/ Rotate(p) \/ Purge(p)
            \/ RotateSyncErr(p) \/ RotateEncodeErr(p)
  <2>1. UNCHANGED <<pc, reader, readerOk>>
        BY <1>12 DEF Write, Rotate, Purge, RotateSyncErr, RotateEncodeErr,
                     CanRotate, readerVars
  <2>2. \E x : worker' = worker \/ worker' = [worker EXCEPT ![p] = x]
        BY <1>12 DEF Write, Rotate, Purge, RotateSyncErr, RotateEncodeErr,
                     Enqueue
  <2>3. \E x : open' = open \/ open' = [open EXCEPT ![p] = x]
        BY <1>12 DEF Write, Rotate, Purge, RotateSyncErr, RotateEncodeErr
  <2>4. \E x : closed' = closed \/ closed' = [closed EXCEPT ![p] = x]
        BY <1>12 DEF Write, Rotate, Purge, RotateSyncErr, RotateEncodeErr
  <2> QED BY <1>1, <2>1, <2>2, <2>3, <2>4 DEF Apart
<1> QED BY <1>2, <1>3, <1>4, <1>5, <1>6, <1>7, <1>8, <1>9, <1>10, <1>11,
           <1>12 DEF StepOf

LEMMA StepRInv == DInv /\ DInv' /\ RInv /\ [Next]_vars => RInv'
<1> SUFFICES ASSUME DInv, DInv', RInv, [Next]_vars PROVE RInv'
    OBVIOUS
<1>1. CASE \/ UNCHANGED vars
           \/ \E s \in Strays : StrayAppears(s)
  <2>1. UNCHANGED <<data, pc, closed, open, worker, reader, readerOk>>
        BY <1>1 DEF vars, ownerVars, readerVars, StrayAppears
  <2>2. ASSUME NEW p \in Procs PROVE Reads(p)'
    <3>1. Reads(p)
          BY DEF RInv
    <3> QED BY <2>1, <3>1, SameReads
  <2> QED BY <2>1, <2>2 DEF RInv
<1>2. ASSUME NEW p \in Procs, StepOf(p) PROVE RInv'
  <2>1. /\ Reads(p)'
        /\ data' = data \/ (lock = p /\ Grows(data, data'))
        BY <1>2, StepReads
  <2>2. /\ Apart(p)
        /\ reader' \in [Procs -> SUBSET Chunk]
        /\ readerOk' \in [Procs -> BOOLEAN]
        BY <1>2, StepApart
  <2>3. \A q \in Procs : Reads(q)'
        BY <2>1, <2>2, OneReads
  <2> QED BY <2>2, <2>3 DEF RInv
<1>3. Next => \/ \E s \in Strays : StrayAppears(s)
              \/ \E p \in Procs : StepOf(p)
      BY DEF Next, StepOf
<1> QED BY <1>1, <1>2, <1>3

(* A reader reads the records of its own WAL, or none at all.  While the   *)
(* worker lives, what the file holds now and what the WAL has appended are *)
(* both beginnings of what the file will hold; afterwards the file begins  *)
(* with the chunk's records.                                               *)
LEMMA RInvReads == DInv /\ RInv => ReaderReadsItsRecords
<1> SUFFICES ASSUME DInv, RInv, NEW p \in Procs, readerOk[p],
                    NEW c \in reader[p]
             PROVE  \/ IsPrefix(ReadableBy(c), c.recs)
                    \/ IsPrefix(c.recs, ReadableBy(c))
    BY DEF ReaderReadsItsRecords
<1>1. Reads(p) /\ c \in Chunk /\ c.recs \in Seq(Rec) /\ data \in Files
      BY DEF RInv, DInv, TypeInv, Chunk, Files
<1>2. CASE ~worker[p].alive
  <2>1. c.file \in 1..Len(data) /\ Begins(c.recs, data[c.file])
        BY <1>1, <1>2 DEF Reads, Holds
  <2>2. data[c.file] \in Seq(Rec)
        BY <1>1, <2>1 DEF Files
  <2> QED BY <1>1, <2>1, <2>2, BeginsIsPrefix DEF ReadableBy
<1>3. CASE worker[p].alive
  <2>1. worker[p].queue \in Seq(Req)
        BY <1>3, PlanFacts
  <2>2. PICK e, v : /\ Leads(worker[p].queue, data, worker[p].file, e, v)
                    /\ Complete(open[p], Promised(p), e, v)
        BY <1>3, PlanFacts
  <2>3. /\ e \in Files /\ Len(e) = Len(data) /\ Len(data) \in Nat
        /\ Grows(data, e)
        BY <2>1, <2>2, LeadsTypes
  <2>4. c.file \in 1..Len(e) /\ Begins(c.recs, e[c.file])
        BY <2>2 DEF Complete, Promised, Holds
  <2>5. /\ c.file \in 1..Len(data) /\ Begins(data[c.file], e[c.file])
        /\ data[c.file] \in Seq(Rec) /\ e[c.file] \in Seq(Rec)
        BY <1>1, <2>3, <2>4 DEF Grows, Files
  <2>6. Begins(c.recs, data[c.file]) \/ Begins(data[c.file], c.recs)
        BY <1>1, <2>4, <2>5, BeginsFacts
  <2> QED BY <1>1, <2>5, <2>6, BeginsIsPrefix DEF ReadableBy
<1> QED BY <1>2, <1>3

(* The records of a chunk stay what its WAL wrote (ClosedChunkReader,      *)
(* FlushWorker, WalLock): a ClosedChunkReader never reads the records of   *)
(* another owner of the directory, whoever opens, purges, rotates or dies  *)
(* meanwhile, unless its own WAL's worker failed.                          *)
THEOREM ReadersReadTheirRecords == Spec => []ReaderReadsItsRecords
<1>1. Init => RInv
      BY InitRInv
<1>2. DInv /\ DInv' /\ RInv /\ [Next]_vars => RInv'
      BY StepRInv
<1>3. DInv /\ RInv => ReaderReadsItsRecords
      BY RInvReads
<1>4. Spec => []DInv
      BY AlwaysDInv
<1> QED BY <1>1, <1>2, <1>3, <1>4, PTL DEF Spec

=============================================================================
