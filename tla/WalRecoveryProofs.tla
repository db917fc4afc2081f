-------------------------- MODULE WalRecoveryProofs --------------------------
(***************************************************************************)
(* For all values of the constants: what open_locked makes of the          *)
(* directories a ChunkedWal leaves behind (why it may refuse one, that it  *)
(* never does unless a sync_dir failed, and that the chunks it and the     *)
(* rotations after it put together have no hole), and that what the flush  *)
(* worker reports as persisted is on stable storage, and chunks are        *)
(* removed only after what replaces them is, if the caller syncs the open  *)
(* chunk before it removes closed ones (SyncBeforeRemove).                 *)
(***************************************************************************)
EXTENDS ChunkedWalProofs

(* The chunk to be read next: it follows the chunks read so far, or it is  *)
(* an empty file before the last chunk; a chunk that is not whole is the   *)
(* last.                                                                   *)
LEMMA NextRead ==
    ASSUME WInv, pc \in {"scan", "truncsync", "replay"}, rec.todo /= {}
    PROVE  LET x == Min(rec.todo) IN
           /\ x \in fs.names /\ x \in Ids
           /\ Used(fs, x) => ~Gap(x)
           /\ Damaged(x) => x = Max(fs.names)
           /\ ~Used(fs, x) => Orphan(x)
<1> DEFINE x == Min(rec.todo)
<1>1. /\ TInv /\ DiskInv(fs) /\ ScanInv /\ DiskType(fs, Record)
      /\ fs.names \in fs.images
      /\ \A i \in fs.names : i \in Ids /\ i \in Nat
      BY Numbers DEF WInv, OpeningInv, NumberFacts
<1>2. /\ \A c \in closed : /\ c.id \in fs.names /\ Used(fs, c.id)
                           /\ c.end = EndOf(fs, c.id)
      /\ \A i \in fs.names : i \in rec.todo \/ \E c \in closed : c.id = i
      /\ rec.todo \subseteq fs.names
      /\ \A c \in closed : \A t \in rec.todo : c.id < t
      /\ rec.prev = -1 <=> closed = {}
      /\ closed /= {} => \E c \in closed : /\ c.end = rec.prev
                                           /\ \A d \in closed : d.id <= c.id
      /\ \E t \in rec.todo : Used(fs, t) /\ \A u \in rec.todo : u <= t
      BY <1>1 DEF ScanInv, Scanning, Creating
<1>3. /\ x \in rec.todo /\ x \in fs.names /\ x \in Ids /\ x \in Nat
      /\ \A i \in rec.todo : x <= i
      BY <1>1, <1>2, NextChunk
<1> HIDE DEF x
<1>4. PICK t \in rec.todo : Used(fs, t) /\ \A u \in rec.todo : u <= t
      BY <1>2
<1>5. t \in fs.names /\ t \in Nat /\ x <= t /\ \A i \in fs.names : i <= t
  <2>1. t \in fs.names /\ t \in Nat /\ x <= t
        BY <1>1, <1>2, <1>3, <1>4
  <2>2. ASSUME NEW i \in fs.names PROVE i <= t
        BY <1>1, <1>2, <1>4, <2>1
  <2> QED BY <2>1, <2>2
<1>6. Max(fs.names) = t
  <2>1. MaxId \in Nat /\ fs.names \in SUBSET (0..MaxId) /\ fs.names /= {}
        BY <1>1, <1>5, DiskAssumption DEF Ids
  <2>2. Max(fs.names) \in fs.names /\ \A i \in fs.names : i <= Max(fs.names)
        BY <2>1, MaxFacts
  <2>3. Max(fs.names) <= t /\ t <= Max(fs.names) /\ Max(fs.names) \in Nat
        BY <1>1, <1>5, <2>2
  <2> QED BY <1>5, <2>3
<1>7. x /= t => Whole(fs, x)
  <2>1. x /= t => x < t
        BY <1>3, <1>5
  <2> QED BY <1>1, <1>3, <1>4, <1>5, <2>1 DEF DiskInv, ImageRule, Below
<1>8. Damaged(x) => x = Max(fs.names)
      BY <1>6, <1>7 DEF Damaged, Whole
<1>9. ~Used(fs, x) => Orphan(x)
  <2>1. SUFFICES ASSUME ~Used(fs, x) PROVE Orphan(x)
        OBVIOUS
  <2>2. x /= t /\ Whole(fs, x)
        BY <1>4, <1>7, <2>1
  <2>3. /\ fs.file[x] \in File(Record) /\ fs.file[x].data = <<>>
        /\ fs.file[x].synced = 0 /\ fs.file[x].tail = "none"
        BY <1>1, <1>3, <2>1, <2>2, DiskFacts DEF Used, Whole
  <2>4. fs.file[x] = NoFile
        BY <2>3 DEF File, NoFile
  <2> QED BY <1>6, <2>2, <2>4 DEF Orphan
<1>10. ASSUME Used(fs, x) PROVE ~Gap(x)
  <2>1. SUFFICES ASSUME closed /= {} PROVE rec.prev = x
        BY <1>2 DEF Gap
  <2>2. PICK c \in closed : c.end = rec.prev /\ \A d \in closed : d.id <= c.id
        BY <1>2, <2>1
  <2>3. /\ c.id \in fs.names /\ c.id \in Ids /\ c.id \in Nat /\ c.id < x
        /\ EndOf(fs, c.id) = rec.prev
        BY <1>1, <1>2, <1>3, <2>2
  <2>4. c.id < EndOf(fs, c.id) /\ EndOf(fs, c.id) \in Nat
        BY <1>1, <1>2, <2>3, DiskFacts
  <2>5. EndOf(fs, c.id) \in fs.names /\ EndOf(fs, c.id) <= x
        BY <1>1, <1>3, <1>10, <2>3 DEF DiskInv, ImageRule, Below
  <2>6. \A d \in closed : d.id /= EndOf(fs, c.id)
        BY <1>1, <1>2, <2>2, <2>3, <2>4
  <2>7. EndOf(fs, c.id) \in rec.todo
        BY <1>2, <2>5, <2>6
  <2>8. x <= EndOf(fs, c.id)
        BY <1>3, <2>7
  <2> QED BY <1>3, <2>3, <2>4, <2>5, <2>8
<1> QED BY <1>3, <1>8, <1>9, <1>10 DEF x

-----------------------------------------------------------------------------
(* Why open refuses a directory.                                           *)
LEMMA FailedStep ==
    ASSUME TInv, Next, pc' = "failed"
    PROVE  TrimTail \/ ScanChunk \/ ReplayPanic
<1>1. ~OwnerNext
      BY DEF OwnerNext, AppendAction, SendPending, RotateFlush, RotateCreate,
             RotateSync, RotateAppend, RotateEncodeErr, RotateCheckpoint,
             RemoveChunks, Shutdown, ShutdownSend, Join, Vanish
<1>2. ~WorkerNext
  <2>1. WorkerNext => pc' = pc /\ wpc /= "none"
        BY DEF WorkerNext, Recv, RecvClosed, WriteBatch, WriteBatchErr,
               SyncOldFile, SyncLastFile, SyncErr, Callbacks, CallbackPanic,
               AppendFile, RemoveChunk, RemoveSync, RemoveErr, WorkerExit,
               mainVars
  <2> QED BY <2>1 DEF TInv, Control, OpenPCs
<1>3. ~ProcessCrash /\ ~PowerLoss
      BY DEF ProcessCrash, PowerLoss, Vanish
<1>4. OpenNext
      BY <1>1, <1>2, <1>3 DEF Next
<1>5. /\ ~LoadChunkIds /\ ~TrimSync /\ ~TruncateSync /\ ~ReplayRecord
      /\ ~ReplayChunk /\ ~ReopenLastClosed /\ ~CreateChunk /\ ~CreateSync
      /\ ~CreateWrite
      BY DEF LoadChunkIds, TrimSync, TruncateSync, ReplayRecord, ReplayChunk,
             ReopenLastClosed, CreateChunk, CreateSync, CreateWrite, StartUp
<1> QED BY <1>4, <1>5 DEF OpenNext, OpenStep

LEMMA RefusalKeeps ==
    ASSUME WInv, OpenRefusesOnlyDamage, [Next]_vars
    PROVE  OpenRefusesOnlyDamage'
<1> DEFINE Reason(i) == \/ /\ Damaged(i)
                           /\ ~rec.truncate \/ fs.file[i].tail = "mixed"
                        \/ Orphan(i)
<1>1. CASE UNCHANGED vars
  <2>1. UNCHANGED <<pc, fs, rec>>
        BY <1>1 DEF vars, mainVars
  <2> QED BY <2>1 DEF OpenRefusesOnlyDamage, Damaged, Orphan
<1>2. SUFFICES ASSUME Next, pc' = "failed"
               PROVE  /\ \E i \in fs.names : Reason(i)
                      /\ UNCHANGED <<fs, rec>>
  <2>1. ASSUME NEW i \in fs.names, Reason(i), UNCHANGED <<fs, rec>>
        PROVE  OpenRefusesOnlyDamage'
        BY <2>1 DEF OpenRefusesOnlyDamage, Damaged, Orphan
  <2>2. pc' /= "failed" => OpenRefusesOnlyDamage'
        BY DEF OpenRefusesOnlyDamage
  <2> QED BY <1>1, <2>1, <2>2
<1>3. /\ TInv /\ DiskType(fs, Record)
      /\ \A i \in Ids : fs.file[i].tail \in Tails
  <2>1. TInv /\ DiskType(fs, Record)
        BY RecFacts DEF WInv
  <2>2. \A i \in Ids : fs.file[i] \in File(Record)
        BY <2>1, DiskFacts
  <2> QED BY <2>1, <2>2 DEF File
<1>4. CASE TrimTail
  <2>1. /\ pc = "trim" /\ UNCHANGED <<fs, rec>> /\ rec.todo /= {}
        /\ UnreadableInitialRecord(Max(rec.todo))
        BY <1>2, <1>4 DEF TrimTail
  <2>2. rec.todo = fs.names
        BY <2>1 DEF WInv, OpeningInv, TrimInv
  <2>3. Max(rec.todo) \in fs.names /\ Max(rec.todo) \in Ids
        BY <1>3, <2>1, <2>2, LastChunk
  <2>4. /\ Damaged(Max(rec.todo)) /\ fs.file[Max(rec.todo)].tail = "mixed"
        BY <1>3, <2>1, <2>3
        DEF UnreadableInitialRecord, Damaged, UnexpectedEof, TrailingZeros,
            Tails
  <2> QED BY <2>1, <2>3, <2>4
<1>5. CASE ScanChunk
  <2> DEFINE x == Min(rec.todo)
  <2>1. /\ pc = "scan" /\ rec.todo /= {} /\ UNCHANGED <<fs, rec>>
        /\ Gap(x) \/ (Damaged(x) /\ ~CanTruncate(x))
        BY <1>2, <1>5 DEF ScanChunk
  <2>2. /\ x \in fs.names /\ x \in Ids
        /\ Used(fs, x) => ~Gap(x)
        /\ Damaged(x) => x = Max(fs.names)
        /\ ~Used(fs, x) => Orphan(x)
        BY <2>1, NextRead
  <2>3. Damaged(x) /\ ~CanTruncate(x) =>
            ~rec.truncate \/ fs.file[x].tail = "mixed"
        BY <1>3, <2>2
        DEF CanTruncate, Damaged, UnexpectedEof, TrailingZeros, Tails
  <2> HIDE DEF x
  <2> QED BY <2>1, <2>2, <2>3
<1>6. CASE ReplayPanic
  <2>1. /\ pc = "replay" /\ ~Used(fs, Min(rec.todo)) /\ rec.todo /= {}
        /\ UNCHANGED <<fs, rec>>
        BY <1>3, <1>6 DEF ReplayPanic, HasLastSegment, Used, TInv, Locals
  <2> QED BY <2>1, NextRead
<1> QED BY <1>2, <1>3, <1>4, <1>5, <1>6, FailedStep

(* open refuses a directory that a ChunkedWal left behind only because of  *)
(* a torn tail that it may not cut off, a record overwritten in part, or a *)
(* file that a failed rotation left behind (ensure_consecutive_chunks,     *)
(* handle_record_error, has_complete_initial_record, last_segment).        *)
THEOREM RefusesOnlyDamage ==
    ASSUME "encode" \notin Faults PROVE Spec => []OpenRefusesOnlyDamage
<1>1. Init => OpenRefusesOnlyDamage
      BY DEF Init, OpenRefusesOnlyDamage
<1>2. WInv /\ OpenRefusesOnlyDamage /\ [Next]_vars => OpenRefusesOnlyDamage'
      BY RefusalKeeps
<1> QED BY <1>1, <1>2, WalInvariant, PTL DEF Spec

-----------------------------------------------------------------------------
(* The chunk map has no hole.                                              *)

(* Each chunk of S ends at e or where another one starts.                  *)
Linked(S, e) == \A c \in S : c.end = e \/ \E d \in S : d.id = c.end

(* While the WAL is being opened the chunks lead to the end of the last    *)
(* one read, afterwards to the open chunk; during a rotation, together     *)
(* with the one that is about to join them.                                *)
MapInv ==
    /\ pc \in Scanning => Linked(closed, rec.prev)
    /\ pc \in {"truncsync", "replay"} => ~Gap(Min(rec.todo))
    /\ rx => Linked(Full, open.id)

(* A step that leaves the map and both ends.                               *)
LEMMA MapFrame ==
    ASSUME MapInv, UNCHANGED <<closed, pc>>, rec'.prev = rec.prev,
           rec'.todo = rec.todo, rx' => rx, open'.id = open.id
    PROVE  MapInv'
<1>1. Full' = Full
      BY DEF Full
<1>2. \A i : Gap(i)' <=> Gap(i)
      BY DEF Gap
<1> QED BY <1>1, <1>2 DEF MapInv, Linked

(* A call of an open WAL that leaves the map.                              *)
LEMMA UpMapFrame ==
    ASSUME MapInv, pc \in UpPCs \ {"rot_cp"}, pc' \in UpPCs \ {"rot_cp"},
           closed' = closed, rx' => rx, open'.id = open.id
    PROVE  MapInv'
<1>1. Full = closed /\ Full' = closed
      BY DEF Full
<1> QED BY <1>1 DEF MapInv, Linked, UpPCs, Scanning

LEMMA OwnerMap ==
    ASSUME "encode" \notin Faults, WInv, MapInv, OwnerNext PROVE MapInv'
<1>1. TInv /\ NumberFacts
      BY Numbers DEF WInv
<1>2. CASE AppendAction
  <2>1. /\ pc = "idle" /\ open'.id = open.id
        /\ UNCHANGED <<pc, closed, rec, rx>>
        BY <1>1, <1>2, OpenFacts DEF AppendAction, chanVars
  <2> QED BY <2>1, MapFrame
<1>3. CASE \/ \E sync \in BOOLEAN : SendPending(sync)
           \/ RotateFlush \/ ShutdownSend
  <2>1. /\ pc \in {"idle", "shutdown"}
        /\ pc' \in {"idle", "rot_create", "closing"}
        /\ closed' = closed /\ TakePending /\ rx' = rx
        BY <1>3 DEF SendPending, RotateFlush, ShutdownSend, SendOk, SendErr,
                    chanVars
  <2>2. open'.id = open.id
        BY <1>1, <2>1, TakePendingType
  <2> QED BY <2>1, <2>2, UpMapFrame DEF UpPCs
<1>4. CASE RotateCreate \/ RotateSync
  <2>1. /\ pc \in {"rot_create", "rot_sync"}
        /\ pc' \in {"idle", "rot_sync", "rot_append"}
        /\ UNCHANGED <<closed, open, rx>>
        BY <1>4 DEF RotateCreate, RotateSync, chanVars
  <2> QED BY <2>1, UpMapFrame DEF UpPCs
<1>5. CASE RotateAppend
  <2>1. CASE pc' = "idle"
    <3>1. pc = "rot_append" /\ UNCHANGED <<closed, open, rx>>
          BY <1>5, <2>1 DEF RotateAppend, SendErr, chanVars
    <3> QED BY <2>1, <3>1, UpMapFrame DEF UpPCs
  <2>2. CASE pc' = "rot_cp"
    <3> DEFINE new == [id |-> open.id, end |-> OpenEnd]
    <3>1. /\ pc = "rot_append" /\ closed' = closed /\ rx' = rx
          /\ open'.id = OpenEnd /\ rec'.prev = open.id
          BY <1>5, <2>2 DEF RotateAppend, SendOk, NoRec
    <3>2. new.id = open.id /\ new.end = OpenEnd
          OBVIOUS
    <3>3. Full = closed /\ Full' = closed \union {new}
          BY <2>2, <3>1 DEF Full
    <3> HIDE DEF new
    <3>4. rx => Linked(Full', open'.id)
          BY <3>1, <3>2, <3>3 DEF MapInv, Linked
    <3> QED BY <2>2, <3>1, <3>4 DEF MapInv, Scanning
  <2> QED BY <1>5, <2>1, <2>2 DEF RotateAppend
<1>6. CASE RotateCheckpoint
  <2> DEFINE new == [id |-> rec.prev, end |-> open.id]
  <2>1. pc = "rot_cp" /\ pc' = "idle"
        BY <1>6 DEF RotateCheckpoint
  <2>2. TakePending
        BY <1>6 DEF RotateCheckpoint
  <2>3. Full = closed \union {new}
        BY <2>1 DEF Full
  <2>4. \/ rx' = rx /\ closed' = closed \union {new}
        \/ ~rx /\ rx' = rx
        BY <1>6 DEF RotateCheckpoint, SendOk, SendErr, chanVars
  <2> HIDE DEF new
  <2>5. /\ pc = "rot_cp" /\ pc' = "idle" /\ rx' = rx
        /\ (closed' = Full \/ ~rx')
        BY <2>1, <2>3, <2>4
  <2>6. open'.id = open.id
        BY <1>1, <2>2, TakePendingType
  <2>7. Full' = closed'
        BY <2>5 DEF Full
  <2> QED BY <2>5, <2>6, <2>7 DEF MapInv, Linked, Scanning
<1>7. ASSUME NEW c \in closed, RemoveChunks(c) PROVE MapInv'
  <2>1. /\ pc = "idle" /\ pc' = "idle" /\ open' = open
        /\ closed' = closed \ Drained(c) /\ rx' = rx
        BY <1>7 DEF RemoveChunks, SendOk, SendErr, chanVars
  <2>2. Full = closed /\ Full' = closed'
        BY <2>1 DEF Full
  <2>3. ASSUME Linked(closed, open.id), NEW d \in closed'
        PROVE  d.end = open.id \/ \E e \in closed' : e.id = d.end
    <3>1. d \in closed /\ ~(d.id <= c.id)
          BY <2>1 DEF Drained
    <3>2. SUFFICES ASSUME NEW e \in closed, e.id = d.end
                   PROVE  e \in closed'
          BY <2>3, <3>1 DEF Linked
    <3>3. /\ d.id <= d.end /\ d.id \in Nat /\ c.id \in Nat /\ e.id \in Nat
          BY <1>1, <3>1 DEF NumberFacts
    <3>4. ~(e.id <= c.id)
          BY <3>1, <3>2, <3>3
    <3> QED BY <2>1, <3>2, <3>4 DEF Drained
  <2> QED BY <2>1, <2>2, <2>3 DEF MapInv, Linked, Scanning
<1>8. CASE Join
      BY <1>8 DEF Join, Vanish, MapInv, Scanning
<1>9. CASE Shutdown
  <2>1. /\ pc = "idle" /\ pc' = "shutdown" /\ UNCHANGED <<closed, open, rx>>
        BY <1>9 DEF Shutdown, chanVars
  <2> QED BY <2>1, UpMapFrame DEF UpPCs
<1> QED BY <1>2, <1>3, <1>4, <1>5, <1>6, <1>7, <1>8, <1>9, EncodesAlways
        DEF OwnerNext

(* The step that reads a chunk, and the two that bring the WAL up.         *)
LEMMA ReplayMap == ASSUME WInv, MapInv, ReplayChunk PROVE MapInv'
<1> DEFINE x == Min(rec.todo)
           new == [id |-> x, end |-> EndOf(fs, x)]
<1>1. /\ pc = "replay" /\ pc' = "scan" /\ rx' = rx
      /\ rec' = [rec EXCEPT !.todo = rec.todo \ {x}, !.prev = EndOf(fs, x),
                            !.n = 0]
      /\ closed' = closed \union {new}
      BY DEF ReplayChunk, OpenUnchanged, chanVars
<1>2. TInv /\ ScanInv /\ ~rx
      BY <1>1 DEF WInv, OpeningInv, TInv, Control, UpPCs
<1>3. rec'.prev = EndOf(fs, x)
      BY <1>1, <1>2, RecFacts DEF OpenLocals
<1>4. new.id = x /\ new.end = EndOf(fs, x)
      OBVIOUS
<1>5. ~Gap(x) /\ Linked(closed, rec.prev)
      BY <1>1 DEF MapInv, Scanning
<1>6. closed /= {} => rec.prev = x
      BY <1>1, <1>2, <1>5 DEF Gap, ScanInv, Scanning
<1> HIDE DEF x, new
<1>7. Linked(closed', rec'.prev)
      BY <1>1, <1>3, <1>4, <1>5, <1>6 DEF Linked
<1> QED BY <1>1, <1>2, <1>7 DEF MapInv

LEMMA UpMap ==
    ASSUME WInv, MapInv, ReopenLastClosed \/ CreateWrite PROVE MapInv'
<1>1. /\ TInv /\ ScanInv /\ DiskInv(fs) /\ NumberFacts
      /\ fs.names \in fs.images /\ DiskType(fs, Record)
      BY Numbers DEF WInv, OpeningInv, NumberFacts
<1>2. /\ pc \in Scanning /\ pc' = "idle" /\ Full' = closed'
      /\ rec.prev = -1 <=> closed = {}
  <2>1. pc \in Scanning /\ pc' = "idle"
        BY DEF ReopenLastClosed, CreateWrite, StartUp, Scanned, Scanning
  <2> QED BY <1>1, <2>1 DEF Full, ScanInv
<1>3. Linked(closed, rec.prev)
      BY <1>2 DEF MapInv
<1>4. Linked(closed', open'.id)
  <2>1. CASE CreateWrite
    <3>1. closed' = closed /\ open'.id = NewChunkId
          BY <2>1 DEF CreateWrite, StartUp
    <3> QED BY <1>2, <1>3, <3>1 DEF Linked, NewChunkId
  <2>2. CASE ReopenLastClosed
    <3>1. PICK last \in closed :
              /\ \A c \in closed : c.id <= last.id
              /\ closed' = closed \ {last} /\ open'.id = last.id
          BY <2>2 DEF ReopenLastClosed, StartUp
    <3>2. pc = "scan" /\ rec.todo = {}
          BY <2>2 DEF ReopenLastClosed, Scanned
    <3>3. /\ \A c \in closed : /\ c.id \in fs.names /\ Used(fs, c.id)
                               /\ c.end = EndOf(fs, c.id)
          /\ \E c \in closed : /\ c.end = rec.prev
                               /\ \A d \in closed : d.id <= c.id
          BY <1>1, <3>1, <3>2 DEF ScanInv, Scanning
    <3>4. last.end = rec.prev
      <4>1. PICK c \in closed : c.end = rec.prev
                                /\ \A d \in closed : d.id <= c.id
            BY <3>3
      <4>2. c.id <= last.id /\ last.id <= c.id
            /\ c.id \in Nat /\ last.id \in Nat
            BY <1>1, <3>1, <4>1 DEF NumberFacts
      <4>3. c.id = last.id
            BY <4>2
      <4> QED BY <3>3, <4>1, <4>3
    <3>5. ASSUME NEW c \in closed'
          PROVE  c.end = last.id \/ \E d \in closed' : d.id = c.end
      <4>1. c \in closed /\ c /= last
            BY <3>1
      <4>2. c.id /= last.id /\ c.id <= last.id
            BY <1>1, <3>1, <3>3, <4>1 DEF NumberFacts
      <4>3. c.id \in Nat /\ last.id \in Nat /\ last.id \in Ids
            BY <1>1, <4>1 DEF NumberFacts
      <4>4. c.end <= last.id /\ c.end \in Nat
        <5>1. c.id < last.id
              BY <4>2, <4>3
        <5> QED BY <1>1, <3>3, <4>1, <5>1
                DEF DiskInv, ImageRule, Below, NumberFacts
      <4>5. last.id < last.end /\ last.end \in Nat
            BY <1>1, <3>3, <4>3, DiskFacts
      <4>6. c.end /= rec.prev
            BY <3>4, <4>3, <4>4, <4>5
      <4>7. PICK d \in closed : d.id = c.end
            BY <1>3, <4>1, <4>6 DEF Linked
      <4> QED BY <3>1, <4>7
    <3> QED BY <3>1, <3>5 DEF Linked
  <2> QED BY <2>1, <2>2
<1> QED BY <1>2, <1>4 DEF MapInv, Scanning

LEMMA OpenMap == ASSUME WInv, MapInv, OpenNext PROVE MapInv'
<1>1. TInv /\ rec \in OpenLocals
      BY RecFacts DEF WInv
<1>2. pc \in OpenPCs => ~rx
      BY <1>1 DEF TInv, Control, OpenPCs, UpPCs
<1>3. CASE LoadChunkIds \/ TrimSync
  <2>1. pc \in OpenPCs /\ pc' = "trim" /\ rx' = rx
        BY <1>3
        DEF LoadChunkIds, TrimSync, OpenUnchanged, chanVars, OpenPCs
  <2> QED BY <1>2, <2>1 DEF MapInv, Scanning
<1>4. CASE TrimTail
  <2>1. /\ pc = "trim" /\ pc' \in {"scan", "failed", "trimsync"}
        /\ closed' = closed /\ rx' = rx
        BY <1>4 DEF TrimTail, OpenUnchanged, chanVars
  <2>2. closed = {} /\ ~rx
        BY <1>2, <2>1 DEF WInv, OpeningInv, TrimInv, OpenPCs
  <2> QED BY <2>1, <2>2 DEF MapInv, Linked
<1>5. CASE ScanChunk
  <2>1. /\ pc = "scan" /\ pc' \in {"failed", "truncsync", "replay"}
        /\ pc' /= "failed" => ~Gap(Min(rec.todo))
        /\ closed' = closed /\ rx' = rx
        /\ rec' = rec \/ rec' = [rec EXCEPT !.truncated = TRUE]
        BY <1>5 DEF ScanChunk, OpenUnchanged, chanVars
  <2>2. rec'.prev = rec.prev /\ rec'.todo = rec.todo /\ ~rx
        BY <1>1, <1>2, <2>1 DEF OpenLocals, OpenPCs
  <2> QED BY <2>1, <2>2 DEF MapInv, Linked, Gap, Scanning
<1>6. CASE TruncateSync \/ CreateChunk \/ CreateSync
  <2>1. /\ pc \in Scanning /\ pc' \in Scanning /\ ~rx
        /\ pc' \in {"truncsync", "replay"} => pc = "truncsync"
        /\ UNCHANGED <<closed, rec, rx>>
        BY <1>2, <1>6 DEF TruncateSync, CreateChunk, CreateSync, Scanned,
                          Scanning, OpenUnchanged, chanVars, OpenPCs
  <2> QED BY <2>1 DEF MapInv, Linked, Gap
<1>7. CASE ReplayRecord
  <2>1. /\ UNCHANGED <<pc, closed, rx, open>>
        /\ rec'.prev = rec.prev /\ rec'.todo = rec.todo
        BY <1>1, <1>7 DEF ReplayRecord, OpenLocals, OpenUnchanged, chanVars
  <2> QED BY <2>1, MapFrame
<1>8. CASE ReplayPanic
  <2>1. pc = "replay" /\ pc' = "failed" /\ rx' = rx
        BY <1>8 DEF ReplayPanic, OpenUnchanged, chanVars
  <2> QED BY <1>2, <2>1 DEF MapInv, Scanning, OpenPCs
<1> QED BY <1>3, <1>4, <1>5, <1>6, <1>7, <1>8, ReplayMap, UpMap
        DEF OpenNext, OpenStep

LEMMA NextMap ==
    ASSUME "encode" \notin Faults, WInv, MapInv, [Next]_vars PROVE MapInv'
<1>1. CASE UNCHANGED vars
      BY <1>1, MapFrame DEF vars, mainVars, chanVars
<1>2. CASE WorkerNext
  <2>1. UNCHANGED mainVars /\ (rx' = rx \/ rx' = FALSE)
        BY <1>2 DEF WorkerNext, Recv, RecvClosed, WriteBatch, WriteBatchErr,
                    SyncOldFile, SyncLastFile, SyncErr, Callbacks,
                    CallbackPanic, AppendFile, RemoveChunk, RemoveSync,
                    RemoveErr, WorkerExit, chanVars
  <2> QED BY <2>1, MapFrame DEF mainVars
<1>3. CASE ProcessCrash \/ PowerLoss
      BY <1>3 DEF ProcessCrash, PowerLoss, Vanish, MapInv, Scanning
<1> QED BY <1>1, <1>2, <1>3, OwnerMap, OpenMap DEF Next

(* As long as the worker lives, the closed chunks and the open one cover   *)
(* one range of offsets without a hole: try_close_full_chunk moves a chunk *)
(* to closed only after its successor took over, drain_closed_chunks_while *)
(* takes the oldest, and ensure_consecutive_chunks sees to it on open.     *)
(* That holds for a codec that encodes every checkpoint: where one fails,  *)
(* the full chunk is in neither, and the map has a hole.                   *)
THEOREM MapHasNoHole ==
    ASSUME "encode" \notin Faults PROVE Spec => []ChunkMapContiguous
<1>1. Init => MapInv
      BY DEF Init, MapInv, Scanning
<1>2. WInv /\ MapInv /\ [Next]_vars => MapInv'
      BY NextMap
<1>3. MapInv => ChunkMapContiguous
      BY DEF MapInv, Linked, Full, ChunkMapContiguous
<1> QED BY <1>1, <1>2, <1>3, WalInvariant, PTL DEF Spec
-----------------------------------------------------------------------------
(* No chunk without records is left before the last one, as long as        *)
(* sync_dir does not fail.                                                 *)

(* In no directory that a power loss may leave is there an unused chunk    *)
(* before a used one.                                                      *)
Ordered(d) ==
    \A dir \in d.images : \A i, j \in dir :
        i < j /\ Used(d, j) => Used(d, i)

(* The chunks before the worker's last file have records; each one after   *)
(* it is the worker's to move on to, or the one being created.  Once the   *)
(* worker is to move on, that holds of every directory a power loss may    *)
(* leave.                                                                  *)
FillInv == \A dir \in fs.images : \A i \in dir : i < LastFile => Used(fs, i)
Coming(i) == Pend(i) \/ (pc \in {"rot_sync", "rot_append"} /\ i = OpenEnd)
SparseInv ==
    /\ \A i \in fs.names : i > LastFile => Coming(i)
    /\ pc = "rot_append" \/ (\E i \in Ids : Pend(i)) =>
          \A dir \in fs.images : \A i \in dir : i > LastFile => Coming(i)

OrphanInv == Ordered(fs) /\ (WorkerSound => FillInv /\ SparseInv)

LEMMA OrderedFrame ==
    ASSUME NEW d, NEW e, Ordered(d), d.names \in d.images,
           e.names \subseteq d.names,
           e.images \subseteq d.images \union {e.names},
           \A dir \in e.images : \A i \in dir : Used(e, i) <=> Used(d, i)
    PROVE  Ordered(e)
<1>1. ASSUME NEW dir \in e.images, NEW i \in dir, NEW j \in dir,
             i < j, Used(e, j)
      PROVE  Used(e, i)
  <2>1. Used(d, j)
        BY <1>1
  <2>2. PICK full \in d.images : i \in full /\ j \in full
        BY <1>1
  <2>3. Used(d, i)
        BY <1>1, <2>1, <2>2 DEF Ordered
  <2> QED BY <1>1, <2>3
<1> QED BY <1>1 DEF Ordered

(* The operations that add no name and no record.                          *)
LEMMA ShrinkFacts ==
    ASSUME NEW d, DiskType(d, Record), NEW i \in Ids,
           NEW e \in {SyncFile(d, i), SetLen(d, i), RemoveFile(d, i),
                      SyncDir(d)}
    PROVE  /\ e.names \subseteq d.names
           /\ e.images \subseteq d.images \union {e.names}
           /\ \A dir \in e.images : \A k \in dir : Used(e, k) <=> Used(d, k)
<1>1. /\ d.names \in d.images /\ d.names \subseteq Ids
      /\ \A dir \in d.images : dir \subseteq Ids
      BY DiskFacts
<1>2. CASE e \in {SyncFile(d, i), SetLen(d, i)}
  <2>1. /\ e.names = d.names /\ e.images = d.images
        /\ e.file[i].data = d.file[i].data
        /\ \A k \in Ids \ {i} : e.file[k] = d.file[k]
    <3>1. CASE e = SyncFile(d, i)
          BY <3>1, SyncFileFacts
    <3>2. CASE e = SetLen(d, i)
          BY <3>2, SetLenFacts
    <3> QED BY <1>2, <3>1, <3>2
  <2> QED BY <1>1, <2>1 DEF Used
<1>3. CASE e = RemoveFile(d, i)
  <2>1. /\ e.names = d.names \ {i} /\ e.file = d.file
        /\ e.images = d.images \union {d.names \ {i}}
        BY <1>3, RemoveFileFacts
  <2> QED BY <2>1 DEF Used
<1>4. CASE e = SyncDir(d)
  <2>1. /\ e.names = d.names /\ e.images = {d.names}
        /\ \A k \in d.names : e.file[k] = d.file[k]
        BY <1>4, SyncDirFacts
  <2> QED BY <1>1, <2>1 DEF Used
<1> QED BY <1>2, <1>3, <1>4

LEMMA OrderedShrink ==
    ASSUME NEW d, DiskType(d, Record), Ordered(d), NEW i \in Ids,
           NEW e \in {SyncFile(d, i), SetLen(d, i), RemoveFile(d, i),
                      SyncDir(d)}
    PROVE  Ordered(e)
<1>1. d.names \in d.images
      BY DiskFacts
<1> QED BY <1>1, ShrinkFacts, OrderedFrame

LEMMA OrderedWrite ==
    ASSUME NEW d, DiskType(d, Record), Ordered(d), NEW i \in Ids,
           NEW recs \in Seq(Record), NEW tail \in Tails,
           \A dir \in d.images : \A k \in dir : k < i => Used(d, k)
    PROVE  LET e == WriteFile(d, i, recs, tail) IN
           /\ Ordered(e) /\ e.names = d.names /\ e.images = d.images
           /\ \A k \in Ids : Used(d, k) => Used(e, k)
<1> DEFINE e == WriteFile(d, i, recs, tail)
<1>1. /\ e.names = d.names /\ e.images = d.images
      /\ e.file[i].data = d.file[i].data \o recs
      /\ \A k \in Ids \ {i} : e.file[k] = d.file[k]
      BY WriteFileFacts
<1> HIDE DEF e
<1>2. /\ \A dir \in d.images : dir \subseteq Ids
      /\ d.file[i].data \in Seq(Record)
      BY DiskFacts
<1>3. d.file[i].data /= <<>> => d.file[i].data \o recs /= <<>>
      BY <1>2
<1>4. \A k \in Ids : /\ Used(d, k) => Used(e, k)
                     /\ k /= i /\ Used(e, k) => Used(d, k)
      BY <1>1, <1>3 DEF Used
<1>5. ASSUME NEW dir \in e.images, NEW k \in dir, NEW j \in dir,
             k < j, Used(e, j)
      PROVE  Used(e, k)
  <2>1. k \in Ids /\ j \in Ids /\ dir \in d.images
        BY <1>1, <1>2
  <2>2. CASE j = i
        BY <1>4, <1>5, <2>1, <2>2
  <2>3. CASE j /= i
    <3>1. Used(d, j)
          BY <1>4, <1>5, <2>1, <2>3
    <3>2. Used(d, k)
          BY <1>5, <2>1, <3>1 DEF Ordered
    <3> QED BY <1>4, <2>1, <3>2
  <2> QED BY <2>2, <2>3
<1>6. Ordered(e)
      BY <1>5 DEF Ordered
<1> QED BY <1>1, <1>4, <1>6 DEF e

LEMMA OrderedCreate ==
    ASSUME NEW d, DiskType(d, Record), Ordered(d), NEW i \in Ids,
           \A dir \in d.images : \A j \in dir : Used(d, j) => j < i
    PROVE  /\ Ordered(CreateFile(d, i))
           /\ \A k \in Ids : k /= i =>
                 (Used(CreateFile(d, i), k) <=> Used(d, k))
<1> DEFINE e == CreateFile(d, i)
<1>1. /\ e.images = d.images \union {d.names \union {i}}
      /\ e.file[i] = NoFile /\ \A k \in Ids \ {i} : e.file[k] = d.file[k]
      BY CreateFileFacts
<1> HIDE DEF e
<1>2. /\ \A dir \in d.images : dir \subseteq Ids
      /\ d.names \in d.images /\ d.names \subseteq Ids /\ Ids \subseteq Nat
      BY DiskFacts
<1>3. /\ ~Used(e, i)
      /\ \A k \in Ids : k /= i => (Used(e, k) <=> Used(d, k))
      BY <1>1 DEF Used, NoFile
<1>4. ASSUME NEW dir \in e.images, NEW k \in dir, NEW j \in dir,
             k < j, Used(e, j)
      PROVE  Used(e, k)
  <2>1. k \in Ids /\ j \in Ids /\ k \in Nat /\ j \in Nat /\ j /= i
        BY <1>1, <1>2, <1>3, <1>4
  <2>2. PICK full \in d.images : j \in full /\ (k = i \/ k \in full)
        BY <1>1, <1>2, <2>1
  <2>3. Used(d, j) /\ j < i /\ i \in Nat
        BY <1>2, <1>3, <1>4, <2>1, <2>2
  <2>4. k /= i /\ k \in full
        BY <1>4, <2>1, <2>2, <2>3
  <2>5. Used(d, k)
        BY <1>4, <2>2, <2>3, <2>4 DEF Ordered
  <2> QED BY <1>3, <2>1, <2>4, <2>5
<1>5. Ordered(e)
      BY <1>4 DEF Ordered
<1> QED BY <1>3, <1>5 DEF e

LEMMA OrderedPower ==
    ASSUME NEW d, DiskType(d, Record), Ordered(d), DiskInv(d),
           NEW e \in PowerLossImages(d)
    PROVE  Ordered(e)
<1>1. /\ e.names \in d.images /\ e.images = {e.names}
      /\ \A i \in e.names :
            /\ e.file[i].data =
                   SubSeq(d.file[i].data, 1, Len(e.file[i].data))
            /\ Len(e.file[i].data) \in d.file[i].synced..Len(d.file[i].data)
            /\ Whole(d, i) => e.file[i] = d.file[i]
      BY PowerLossFacts
<1>2. \A dir \in d.images : dir \subseteq Ids
      BY DiskFacts
<1>3. ASSUME NEW i \in e.names, NEW j \in e.names, i < j, Used(e, j)
      PROVE  Used(e, i)
  <2>1. j \in Ids /\ d.file[j].data \in Seq(Record)
        BY <1>1, <1>2, DiskFacts
  <2>2. Used(d, j)
    <3>1. SUFFICES ASSUME d.file[j].data = <<>> PROVE FALSE
          BY DEF Used
    <3>2. Len(e.file[j].data) \in d.file[j].synced..0
          BY <1>1, <3>1
    <3>3. e.file[j].data = SubSeq(<<>>, 1, Len(e.file[j].data))
          BY <1>1, <3>1
    <3>4. d.file[j].synced \in Nat
          BY <2>1, DiskFacts DEF File
    <3>5. Len(e.file[j].data) = 0
          BY <3>2, <3>4
    <3>6. e.file[j].data = <<>>
          BY <3>3, <3>5
    <3> QED BY <1>3, <3>6 DEF Used
  <2>3. Used(d, i) /\ Whole(d, i)
        BY <1>1, <1>3, <2>2 DEF Ordered, DiskInv, ImageRule, Below
  <2> QED BY <1>1, <2>3 DEF Used
<1> QED BY <1>1, <1>3 DEF Ordered

(* What the worker is to move on to, by the queue and the request in hand. *)
LEMMA PendInQueue ==
    TInv => \A i : Pend(i) <=>
        \/ IsAppend(nonFlush) /\ nonFlush.id = i
        \/ \E k \in 1..Len(queue) : IsAppend(queue[k]) /\ queue[k].id = i
<1> SUFFICES ASSUME TInv, NEW i
             PROVE  Pend(i) <=>
                \/ IsAppend(nonFlush) /\ nonFlush.id = i
                \/ \E k \in 1..Len(queue) : IsAppend(queue[k]) /\ queue[k].id = i
    OBVIOUS
<1>1. Len(queue) \in Nat
      BY DEF TInv, TypeOK, WorkerType
<1>2. CASE nonFlush = NoReq
  <2>1. Todo = queue /\ ~IsAppend(nonFlush)
        BY <1>2, TodoFacts, NoReqType DEF IsAppend
  <2> QED BY <2>1 DEF Pend
<1>3. CASE nonFlush /= NoReq
  <2>1. /\ Len(Todo) = Len(queue) + 1 /\ Todo[1] = nonFlush
        /\ \A k \in 1..Len(queue) : Todo[k + 1] = queue[k]
        BY <1>3, TodoFacts
  <2>2. /\ 1 \in 1..Len(Todo)
        /\ \A k \in 1..Len(queue) : k + 1 \in 1..Len(Todo)
        /\ \A k \in 1..Len(Todo) :
              k = 1 \/ (k - 1 \in 1..Len(queue) /\ (k - 1) + 1 = k)
        BY <1>1, <2>1
  <2>3. ASSUME NEW k \in 1..Len(Todo)
        PROVE  Todo[k] = nonFlush \/ \E m \in 1..Len(queue) : Todo[k] = queue[m]
        BY <2>1, <2>2
  <2>4. ASSUME Pend(i)
        PROVE  \/ IsAppend(nonFlush) /\ nonFlush.id = i
               \/ \E k \in 1..Len(queue) : IsAppend(queue[k]) /\ queue[k].id = i
        BY <2>3, <2>4 DEF Pend
  <2>5. IsAppend(nonFlush) /\ nonFlush.id = i => Pend(i)
        BY <2>1, <2>2 DEF Pend
  <2>6. ASSUME NEW k \in 1..Len(queue), IsAppend(queue[k]), queue[k].id = i
        PROVE  Pend(i)
        BY <2>1, <2>2, <2>6 DEF Pend
  <2> QED BY <2>4, <2>5, <2>6
<1> QED BY <1>2, <1>3

LEMMA PendInQueueNext ==
    TInv' => \A i : Pend(i)' <=>
        \/ IsAppend(nonFlush') /\ nonFlush'.id = i
        \/ \E k \in 1..Len(queue') : IsAppend(queue'[k]) /\ queue'[k].id = i
<1>1. (TInv => \A i : Pend(i) <=>
          \/ IsAppend(nonFlush) /\ nonFlush.id = i
          \/ \E k \in 1..Len(queue) : IsAppend(queue[k]) /\ queue[k].id = i)'
      BY PendInQueue, PTL
<1> QED BY <1>1 DEF IsAppend

(* A step that adds no name, keeps the worker's file and what it is to     *)
(* move on to.                                                             *)
LEMMA SparseFrame ==
    ASSUME FillInv, SparseInv, fs.names \in fs.images, LastFile' = LastFile,
           fs'.names \subseteq fs.names,
           fs'.images \subseteq fs.images \union {fs'.names},
           \A dir \in fs'.images : \A i \in dir : Used(fs, i) => Used(fs', i),
           \A i : Coming(i) => Coming(i)',
           pc' = "rot_append" \/ (\E i \in Ids : Pend(i)') =>
               \/ pc = "rot_append" \/ (\E i \in Ids : Pend(i))
               \/ fs'.images = {fs'.names}
    PROVE  FillInv' /\ SparseInv'
<1>1. ASSUME NEW dir \in fs'.images, NEW i \in dir, i < LastFile
      PROVE  Used(fs', i)
  <2>1. \E full \in fs.images : i \in full
        BY <1>1
  <2> QED BY <1>1, <2>1 DEF FillInv
<1>2. \A i \in fs'.names : i > LastFile => Coming(i)'
      BY DEF SparseInv
<1>3. ASSUME pc' = "rot_append" \/ (\E i \in Ids : Pend(i)'),
             NEW dir \in fs'.images, NEW i \in dir, i > LastFile
      PROVE  Coming(i)'
  <2>1. CASE dir = fs'.names
        BY <1>2, <1>3, <2>1
  <2>2. CASE dir /= fs'.names
    <3>1. dir \in fs.images /\ fs'.images /= {fs'.names}
          BY <1>3, <2>2
    <3> QED BY <1>3, <3>1 DEF SparseInv
  <2> QED BY <2>1, <2>2
<1> QED BY <1>1, <1>2, <1>3 DEF FillInv, SparseInv
-----------------------------------------------------------------------------
(* The steps of the worker.                                                *)
LEMMA WriteOrders ==
    ASSUME WInv, OrphanInv, wpc = "write", NEW recs \in Seq(Record),
           NEW tail \in Tails
    PROVE  LET e == WriteFile(fs, LastFile, recs, tail) IN
           /\ Ordered(e) /\ e.names = fs.names /\ e.images = fs.images
           /\ \A k \in Ids : Used(fs, k) => Used(e, k)
<1>1. /\ DiskType(fs, Record) /\ LastFile \in Ids /\ WorkerSound
      BY SoundFacts, RecFacts DEF WInv
<1>2. Ordered(fs) /\ \A dir \in fs.images : \A k \in dir :
                         k < LastFile => Used(fs, k)
      BY <1>1 DEF OrphanInv, FillInv
<1> QED BY <1>1, <1>2, OrderedWrite

(* A step of the worker that keeps the directory's names.                  *)
LEMMA WorkerOrphanFrame ==
    ASSUME WInv, OrphanInv, WorkerSound, Ordered(fs'), LastFile' = LastFile,
           UNCHANGED <<pc, open>>,
           fs'.names \subseteq fs.names,
           fs'.images \subseteq fs.images \union {fs'.names},
           \A dir \in fs'.images : \A i \in dir : Used(fs, i) => Used(fs', i),
           \A i : Pend(i)' <=> Pend(i)
    PROVE  OrphanInv'
<1>1. fs.names \in fs.images
      BY Numbers DEF WInv, NumberFacts
<1>2. \A i : Coming(i) => Coming(i)'
      BY DEF Coming, OpenEnd
<1>3. pc' = "rot_append" \/ (\E i \in Ids : Pend(i)') =>
          \/ pc = "rot_append" \/ (\E i \in Ids : Pend(i))
          \/ fs'.images = {fs'.names}
      OBVIOUS
<1>4. FillInv /\ SparseInv
      BY DEF OrphanInv
<1>5. FillInv' /\ SparseInv'
      BY <1>1, <1>2, <1>3, <1>4, SparseFrame
<1> QED BY <1>5 DEF OrphanInv

(* What the worker is to move on to changes only with AppendFile.          *)
LEMMA RecvPend ==
    ASSUME TInv, TInv', Recv PROVE \A i : Pend(i)' <=> Pend(i)
<1>1. /\ queue \in Seq(WorkerRequest) /\ Len(queue) \in Nat
      /\ ~IsAppend(nonFlush) /\ ~IsAppend(NoReq) /\ wpc = "recv"
      /\ queue /= <<>>
  <2>1. nonFlush = NoReq /\ wpc = "recv" /\ queue /= <<>>
        BY DEF Recv, TInv, Requests
  <2> QED BY <2>1, NoReqType DEF IsAppend, TInv, TypeOK, WorkerType
<1>2. CASE TakeNonFlush
  <2>1. nonFlush' = queue[1] /\ queue' = Tail(queue)
        BY <1>1, <1>2 DEF TakeNonFlush
  <2>2. /\ Len(queue') = Len(queue) - 1
        /\ \A k \in 1..(Len(queue) - 1) : queue'[k] = queue[k + 1]
        BY <1>1, <2>1
  <2>3. /\ 1 \in 1..Len(queue)
        /\ \A k \in 1..(Len(queue) - 1) : k + 1 \in 1..Len(queue)
        /\ \A k \in 1..Len(queue) :
              k = 1 \/ (k - 1 \in 1..(Len(queue) - 1) /\ (k - 1) + 1 = k)
        BY <1>1
  <2>4. ASSUME NEW i
        PROVE  (\E k \in 1..Len(queue) : IsAppend(queue[k]) /\ queue[k].id = i)
               <=> \/ IsAppend(queue[1]) /\ queue[1].id = i
                   \/ \E k \in 1..Len(queue') :
                         IsAppend(queue'[k]) /\ queue'[k].id = i
    <3>1. ASSUME NEW k \in 1..Len(queue), k /= 1
          PROVE  \E m \in 1..Len(queue') : queue'[m] = queue[k]
          BY <2>2, <2>3, <3>1
    <3>2. ASSUME NEW k \in 1..Len(queue')
          PROVE  \E m \in 1..Len(queue) : queue[m] = queue'[k]
          BY <2>2, <2>3
    <3> QED BY <2>3, <3>1, <3>2
  <2> QED BY <1>1, <2>1, <2>4, PendInQueue, PendInQueueNext
<1>3. ASSUME NEW n \in 1..Len(queue), NEW ends \in BOOLEAN,
             TakeBatch(n, ends)
      PROVE  \A i : Pend(i)' <=> Pend(i)
  <2>1. /\ n \in 1..Len(Todo) /\ Len(Todo) \in Nat
        /\ \A k \in 1..n : Todo[k].kind = "write"
        /\ Len(Todo') = Len(Todo) - n
        /\ \A k \in 1..Len(Todo') : Todo'[k] = Todo[k + n]
        BY <1>1, <1>3, TakeBatchShift
  <2>2. /\ \A k \in 1..Len(Todo') : k + n \in 1..Len(Todo)
        /\ \A k \in 1..Len(Todo) :
              k \in 1..n \/ (k - n \in 1..Len(Todo') /\ (k - n) + n = k)
        BY <2>1
  <2>3. \A i : Pend(i)' => Pend(i)
        BY <2>1, <2>2 DEF Pend
  <2>4. ASSUME NEW i, NEW k \in 1..Len(Todo), IsAppend(Todo[k]),
               Todo[k].id = i
        PROVE  Pend(i)'
    <3>1. k \notin 1..n
          BY <2>1, <2>4 DEF IsAppend
    <3>2. k - n \in 1..Len(Todo') /\ Todo'[k - n] = Todo[k]
          BY <2>1, <2>2, <3>1
    <3> QED BY <2>4, <3>2 DEF Pend
  <2> QED BY <2>3, <2>4 DEF Pend
<1> QED BY <1>2, <1>3 DEF Recv

LEMMA RemovePend ==
    ASSUME TInv, TInv', RemoveChunk PROVE \A i : Pend(i)' <=> Pend(i)
<1>1. /\ nonFlush.kind = "remove" /\ queue' = queue
      /\ nonFlush' = NoReq
            \/ nonFlush' = [nonFlush EXCEPT !.ids = nonFlush.ids
                                                      \ {Min(nonFlush.ids)}]
      BY DEF RemoveChunk, chanVars
<1>2. nonFlush'.kind \in {"none", "remove"}
      BY <1>1, NoReqType DEF TInv, TypeOK, WorkerType, WorkerRequest
<1> QED BY <1>1, <1>2, PendInQueue, PendInQueueNext DEF IsAppend

(* The worker goes on with the next chunk: it is the next to come, and the *)
(* one it leaves has records.                                              *)
LEMMA AppendFileOrders ==
    ASSUME WInv, OrphanInv, AppendFile PROVE OrphanInv'
<1> DEFINE K == LastFile
           J == nonFlush.id
<1>1. /\ wpc = "nonflush" /\ nonFlush.kind = "append" /\ fs' = fs
      /\ files' = Append(files, J) /\ nonFlush' = NoReq
      /\ UNCHANGED <<pc, open, queue>>
      BY DEF AppendFile, mainVars, chanVars
<1>2. /\ PipeInv /\ TInv /\ NumberFacts /\ WorkerSound
      BY <1>1, SoundFacts, Numbers DEF WInv
<1>3. TInv'
      BY <1>2, AppendFileTypes
<1>4. LastFile' = J /\ J \in Ids /\ J \in Nat /\ K \in Ids /\ K \in Nat
  <2>1. files \in Seq(Ids) /\ J \in Ids
        BY <1>2 DEF TInv, TypeOK, WorkerType, WorkerRequest
  <2>2. LastFile' = J
        BY <1>1, <2>1 DEF LastFile, Last
  <2>3. J \in Nat /\ K \in Ids /\ K \in Nat
        BY <1>2, <2>1 DEF NumberFacts, WorkerSound
  <2> QED BY <2>1, <2>2, <2>3
<1>5. /\ Len(Todo) \in Nat /\ 1 \in 1..Len(Todo) /\ Todo[1] = nonFlush
  <2>1. nonFlush /= NoReq /\ Len(queue) \in Nat
        BY <1>1, <1>2, NoReqType DEF TInv, TypeOK, WorkerType
  <2>2. Len(Todo) = Len(queue) + 1 /\ Todo[1] = nonFlush
        BY <1>2, <2>1, TodoFacts
  <2> QED BY <2>1, <2>2
<1>6. Pend(J)
      BY <1>1, <1>5 DEF Pend, IsAppend
<1>7. ASSUME NEW i, Pend(i) PROVE i = J \/ i > J
  <2>1. PICK k \in 1..Len(Todo) : IsAppend(Todo[k]) /\ Todo[k].id = i
        BY <1>7 DEF Pend
  <2>2. k = 1 \/ 1 < k
        BY <1>5
  <2>3. 1 < k => After(Todo[1].id, Todo[k])
        BY <1>2, <1>5, <2>1 DEF PipeInv, MonoInv
  <2>4. 1 < k => J < i
        BY <1>5, <2>1, <2>3 DEF After
  <2>5. i \in Nat
        BY <1>2, <2>1, TodoFacts, RequestFacts
  <2> QED BY <1>4, <1>5, <2>1, <2>2, <2>4, <2>5
<1>8. J <= open.id /\ open.id <= OpenEnd /\ OpenEnd \in Nat /\ K < J
  <2>1. J <= open.id /\ After(K, Todo[1])
        BY <1>2, <1>5 DEF PipeInv, MonoInv
  <2> QED BY <1>1, <1>2, <1>5, <2>1 DEF After, IsAppend, NumberFacts
<1>9. \A i : Pend(i) <=> i = J \/ Pend(i)'
  <2>1. ~IsAppend(nonFlush') /\ IsAppend(nonFlush)
        BY <1>1, NoReqType DEF IsAppend
  <2> QED BY <1>1, <1>2, <1>3, <2>1, PendInQueue, PendInQueueNext
<1>10. \A dir \in fs.images : \A i \in dir : i > K => Coming(i)
      BY <1>2, <1>4, <1>6 DEF OrphanInv, SparseInv
<1>11. \A i \in Ids : Coming(i) => i >= J
  <2>1. ASSUME NEW i \in Ids, Coming(i) PROVE i >= J
    <3>1. i \in Nat /\ open.id \in Nat
          BY <1>2 DEF NumberFacts
    <3>2. CASE Pend(i)
          BY <1>4, <1>7, <3>1, <3>2
    <3>3. CASE i = OpenEnd
          BY <1>4, <1>8, <3>1, <3>3
    <3> QED BY <2>1, <3>2, <3>3 DEF Coming
  <2> QED BY <2>1
<1>12. Used(fs, K)
  <2>1. J = EndOf(fs, K)
    <3>1. PlaceBefore(1) = Place(K, EndOf(fs, K))
          BY <1>1 DEF PlaceBefore, BatchPlace, FilePlace
    <3>2. Follows(Todo[1], PlaceBefore(1))
          BY <1>2, <1>5 DEF PipeInv, TodoChain
    <3> QED BY <1>1, <1>5, <3>1, <3>2 DEF Follows, PlaceOf, Place
  <2> QED BY <1>2, <1>4, <1>8, <2>1, DiskFacts DEF NumberFacts
<1>13. FillInv'
  <2>1. ASSUME NEW dir \in fs.images, NEW i \in dir, i < J
        PROVE  Used(fs, i)
    <3>1. i \in Ids /\ i \in Nat
          BY <1>2 DEF NumberFacts
    <3>2. CASE i < K
          BY <1>2, <3>2 DEF OrphanInv, FillInv
    <3>3. ~(i > K)
          BY <1>4, <1>10, <1>11, <2>1, <3>1
    <3> QED BY <1>4, <1>12, <3>1, <3>2, <3>3
  <2> QED BY <1>1, <1>4, <2>1 DEF FillInv
<1>14. \A i \in Ids : Coming(i) /\ i > J => Coming(i)'
      BY <1>1, <1>4, <1>9 DEF Coming, OpenEnd
<1>15. \A dir \in fs.images : \A i \in dir : i > J => Coming(i)'
  <2>1. ASSUME NEW dir \in fs.images, NEW i \in dir, i > J
        PROVE  Coming(i)'
    <3>1. i \in Ids /\ i \in Nat /\ i > K
          BY <1>2, <1>4, <1>8, <2>1 DEF NumberFacts
    <3> QED BY <1>10, <1>14, <2>1, <3>1
  <2> QED BY <2>1
<1>16. SparseInv'
      BY <1>1, <1>2, <1>4, <1>15 DEF SparseInv, NumberFacts
<1> QED BY <1>1, <1>13, <1>16 DEF OrphanInv

LEMMA WorkerOrders == ASSUME WInv, OrphanInv, WorkerNext PROVE OrphanInv'
<1>1. /\ TInv /\ TInv' /\ DiskType(fs, Record) /\ NumberFacts
      BY WorkerKeeps, Numbers DEF WInv, NumberFacts
<1>2. CASE Recv
  <2>1. /\ wpc = "recv" /\ UNCHANGED <<fs, files, pc, open>>
        BY <1>2 DEF Recv, mainVars
  <2>2. WorkerSound /\ LastFile' = LastFile
        BY <2>1, SoundFacts DEF LastFile
  <2> QED BY <1>1, <1>2, <2>1, <2>2, RecvPend, WorkerOrphanFrame DEF OrphanInv
<1>3. CASE WriteBatch
  <2>1. /\ wpc = "write" /\ fs' = WriteFile(fs, LastFile, NextData, "none")
        /\ UNCHANGED <<files, pc, open, queue, nonFlush>>
        BY <1>3 DEF WriteBatch, mainVars, chanVars
  <2>2. NextData \in Seq(Record) /\ "none" \in Tails
        BY <1>1, <2>1, BatchFacts DEF Tails
  <2>3. /\ Ordered(fs') /\ fs'.names = fs.names /\ fs'.images = fs.images
        /\ \A k \in Ids : Used(fs, k) => Used(fs', k)
        BY <2>1, <2>2, WriteOrders
  <2>4. /\ WorkerSound /\ LastFile' = LastFile
        /\ \A i : Pend(i)' <=> Pend(i)
        BY <2>1, SoundFacts DEF LastFile, Pend, Todo
  <2> QED BY <1>1, <2>1, <2>3, <2>4, WorkerOrphanFrame DEF NumberFacts
<1>4. CASE WriteBatchErr
  <2>1. wpc = "write" /\ result' = "err"
        BY <1>4 DEF WriteBatchErr
  <2>2. PICK k \in 0..(Len(NextData) - 1), tail \in {"none", "short"} :
            fs' = WriteFile(fs, LastFile, SubSeq(NextData, 1, k), tail)
        BY <1>4 DEF WriteBatchErr
  <2>3. SubSeq(NextData, 1, k) \in Seq(Record) /\ tail \in Tails
        BY <1>1, <2>1, BatchFacts, SubSeqType DEF Tails
  <2>4. Ordered(fs')
        BY <2>1, <2>2, <2>3, WriteOrders
  <2> QED BY <2>1, <2>4 DEF OrphanInv, WorkerSound
<1>5. CASE SyncOldFile \/ SyncLastFile
  <2>1. /\ wpc = "sync" /\ UNCHANGED <<pc, open, queue, nonFlush>>
        BY <1>5 DEF SyncOldFile, SyncLastFile, mainVars, chanVars
  <2>2. WorkerSound /\ LastFile \in Ids /\ rx
        BY <2>1, SoundFacts
  <2>3. files \in Seq(Ids) /\ Len(files) \in Nat \ {0}
        BY <1>1, <2>2, LastFileType DEF TInv, TypeOK, WorkerType
  <2>4. PICK i \in Ids : fs' = SyncFile(fs, i)
    <3>1. Head(files) \in Ids
          BY <2>3
    <3> QED BY <1>5, <2>2, <3>1 DEF SyncOldFile, SyncLastFile
  <2>5. LastFile' = LastFile
    <3>1. CASE SyncOldFile
      <4>1. files' = Tail(files) /\ Len(files) > 1
            BY <3>1 DEF SyncOldFile
      <4>2. /\ Len(Tail(files)) = Len(files) - 1
            /\ Tail(files)[Len(files) - 1] = files[Len(files)]
            BY <2>3, <4>1
      <4> QED BY <4>1, <4>2 DEF LastFile, Last
    <3>2. CASE SyncLastFile
          BY <3>2 DEF SyncLastFile, LastFile
    <3> QED BY <1>5, <3>1, <3>2
  <2>6. /\ fs'.names \subseteq fs.names
        /\ fs'.images \subseteq fs.images \union {fs'.names}
        /\ \A dir \in fs'.images : \A k \in dir : Used(fs', k) <=> Used(fs, k)
        /\ Ordered(fs')
        BY <1>1, <2>4, ShrinkFacts, OrderedShrink DEF OrphanInv
  <2>7. \A k : Pend(k)' <=> Pend(k)
        BY <2>1 DEF Pend, Todo
  <2> QED BY <2>1, <2>2, <2>5, <2>6, <2>7, WorkerOrphanFrame
<1>6. CASE \/ SyncErr \/ CallbackPanic \/ RecvClosed \/ RemoveErr
           \/ WorkerExit \/ (Callbacks /\ result /= "ok")
  <2>1. fs' = fs /\ ~WorkerSound'
        BY <1>6 DEF SyncErr, CallbackPanic, RecvClosed, RemoveErr, WorkerExit,
                    Callbacks, WorkerSound
  <2> QED BY <2>1 DEF OrphanInv
<1>7. CASE Callbacks /\ result = "ok"
  <2>1. /\ wpc = "callbacks"
        /\ UNCHANGED <<fs, files, pc, open, queue, nonFlush, rx>>
        BY <1>7 DEF Callbacks, mainVars, chanVars
  <2>2. WorkerSound
        BY <1>1, <1>7, <2>1 DEF TInv, Control, WorkerSound
  <2>3. LastFile' = LastFile /\ \A i : Pend(i)' <=> Pend(i)
        BY <2>1 DEF LastFile, Pend, Todo
  <2> QED BY <2>1, <2>2, <2>3, WorkerOrphanFrame DEF OrphanInv
<1>8. CASE AppendFile
      BY <1>8, AppendFileOrders
<1>9. CASE RemoveChunk
  <2>1. /\ wpc = "nonflush" /\ fs' = RemoveFile(fs, Min(nonFlush.ids))
        /\ UNCHANGED <<files, pc, open>>
        BY <1>9 DEF RemoveChunk, mainVars
  <2>2. Min(nonFlush.ids) \in Ids
        BY <1>9, RemoveFacts
  <2>3. /\ fs'.names \subseteq fs.names
        /\ fs'.images \subseteq fs.images \union {fs'.names}
        /\ \A dir \in fs'.images : \A k \in dir : Used(fs', k) <=> Used(fs, k)
        /\ Ordered(fs')
        BY <1>1, <2>1, <2>2, ShrinkFacts, OrderedShrink DEF OrphanInv
  <2>4. WorkerSound /\ LastFile' = LastFile
        BY <2>1, SoundFacts DEF LastFile
  <2> QED BY <1>1, <1>9, <2>1, <2>3, <2>4, RemovePend, WorkerOrphanFrame
<1>10. CASE RemoveSync
  <2>1. /\ wpc = "rmsync" /\ fs' = SyncDir(fs)
        /\ UNCHANGED <<files, pc, open, queue, nonFlush>>
        BY <1>10 DEF RemoveSync, mainVars, chanVars
  <2>2. WorkerSound /\ LastFile \in Ids
        BY <2>1, SoundFacts
  <2>3. /\ fs'.names \subseteq fs.names
        /\ fs'.images \subseteq fs.images \union {fs'.names}
        /\ \A dir \in fs'.images : \A k \in dir : Used(fs', k) <=> Used(fs, k)
        /\ Ordered(fs')
        BY <1>1, <2>1, <2>2, ShrinkFacts, OrderedShrink DEF OrphanInv
  <2>4. LastFile' = LastFile /\ \A i : Pend(i)' <=> Pend(i)
        BY <2>1 DEF LastFile, Pend, Todo
  <2> QED BY <2>1, <2>2, <2>3, <2>4, WorkerOrphanFrame
<1> QED BY <1>2, <1>3, <1>4, <1>5, <1>6, <1>7, <1>8, <1>9, <1>10 DEF WorkerNext
-----------------------------------------------------------------------------
(* The calls of the owner.                                                 *)
LEMMA SendPend ==
    ASSUME TInv, NEW req \in WorkerRequest, SendOk(req), UNCHANGED workVars
    PROVE  \A i : Pend(i)' <=> Pend(i) \/ (IsAppend(req) /\ req.id = i)
<1>1. /\ Todo'[Len(Todo) + 1] = req
      /\ \A k \in 1..Len(Todo) : Todo'[k] = Todo[k]
      /\ 1..Len(Todo') = (1..Len(Todo)) \union {Len(Todo) + 1}
      BY TodoAppend
<1> QED BY <1>1 DEF Pend

(* A call that creates no file.                                            *)
LEMMA OwnerOrphanFrame ==
    ASSUME WInv, OrphanInv, UNCHANGED <<fs, workVars>>, rx' = rx,
           pc' /= "rot_append" \/ pc = "rot_append",
           WorkerSound => \A i : Coming(i) => Coming(i)',
           WorkerSound /\ pc /= "rot_append" => \A i : Pend(i)' => Pend(i)
    PROVE  OrphanInv'
<1>1. SUFFICES ASSUME WorkerSound' PROVE FillInv' /\ SparseInv'
      BY DEF OrphanInv
<1>2. WorkerSound
      BY <1>1, SoundUnchanged
<1>3. fs.names \in fs.images /\ FillInv /\ SparseInv
      BY <1>2, Numbers DEF WInv, NumberFacts, OrphanInv
<1>4. LastFile' = LastFile
      BY DEF workVars, LastFile
<1>5. pc' = "rot_append" \/ (\E i \in Ids : Pend(i)') =>
          \/ pc = "rot_append" \/ (\E i \in Ids : Pend(i))
          \/ fs'.images = {fs'.names}
      BY <1>2
<1> QED BY <1>2, <1>3, <1>4, <1>5, SparseFrame

(* create_file: the new chunk comes after every one that has records.      *)
LEMMA RotateCreateOrders ==
    ASSUME WInv, OrphanInv, RotateCreate PROVE OrphanInv'
<1>1. /\ pc = "rot_create" /\ pc' \in {"idle", "rot_sync"}
      /\ UNCHANGED <<workVars, chanVars, open>>
      BY DEF RotateCreate
<1>2. /\ LastFile' = LastFile /\ rx' = rx /\ OpenEnd' = OpenEnd
      /\ \A i : Pend(i)' <=> Pend(i)
      BY <1>1 DEF workVars, chanVars, LastFile, Pend, Todo, OpenEnd
<1>3. TInv /\ UpInv /\ NumberFacts
      BY Numbers DEF WInv
<1>4. \A i : Coming(i) => Coming(i)'
      BY <1>1, <1>2 DEF Coming
<1>5. CASE fs' = fs
      BY <1>1, <1>2, <1>4, <1>5, OwnerOrphanFrame
<1>6. CASE /\ OpenEnd \in Ids /\ fs' = CreateFile(fs, OpenEnd)
           /\ pc' = "rot_sync"
  <2>1. \A dir \in fs.images : \A j \in dir : Used(fs, j) => j < OpenEnd
    <3>1. open.n > 0 /\ \A dir \in fs.images : \A j \in dir :
                            Used(fs, j) => j <= open.id
          BY <1>1, <1>3 DEF UpInv, UpPCs
    <3> QED BY <1>3, <3>1 DEF NumberFacts
  <2>2. /\ Ordered(fs')
        /\ \A k \in Ids : k /= OpenEnd => (Used(fs', k) <=> Used(fs, k))
        BY <1>3, <1>6, <2>1, OrderedCreate DEF OrphanInv, NumberFacts
  <2>3. /\ fs'.names = fs.names \union {OpenEnd}
        /\ fs'.images = fs.images \union {fs'.names}
    <3>1. DiskType(fs, Record)
          BY <1>3 DEF NumberFacts
    <3>2. /\ fs'.names = fs.names \union {OpenEnd}
          /\ fs'.images = fs.images \union {fs.names \union {OpenEnd}}
          BY <1>6, <3>1, CreateFileFacts
    <3> QED BY <3>2
  <2>4. SUFFICES ASSUME WorkerSound' PROVE FillInv' /\ SparseInv'
        BY <2>2 DEF OrphanInv
  <2>5. WorkerSound
        BY <1>1, <1>2, <2>4, SoundUnchanged
  <2>6. /\ FillInv /\ SparseInv /\ LastFile \in Nat /\ LastFile <= open.id
        /\ LastFile < OpenEnd
    <3>1. /\ FillInv /\ SparseInv /\ LastFile \in Nat /\ LastFile <= open.id
          BY <1>3, <2>5
          DEF OrphanInv, NumberFacts, WorkerSound, WInv, PipeInv, MonoInv
    <3>2. open.n > 0
          BY <1>1, <1>3 DEF UpInv, UpPCs
    <3> QED BY <1>3, <3>1, <3>2 DEF NumberFacts
  <2>7. ASSUME NEW dir \in fs'.images, NEW i \in dir, i < LastFile
        PROVE  Used(fs', i)
    <3>1. i /= OpenEnd
          BY <1>3, <2>6, <2>7 DEF NumberFacts
    <3>2. \E full \in fs.images : i \in full
          BY <1>3, <2>3, <3>1 DEF NumberFacts
    <3>3. i \in Ids
          BY <1>3, <3>2 DEF NumberFacts
    <3> QED BY <2>2, <2>6, <2>7, <3>1, <3>2, <3>3 DEF FillInv
  <2>8. \A i : i = OpenEnd => Coming(i)'
        BY <1>2, <1>6 DEF Coming
  <2>9. \A i \in fs'.names : i > LastFile => Coming(i)'
        BY <1>4, <2>3, <2>6, <2>8 DEF SparseInv
  <2>10. ASSUME \E i \in Ids : Pend(i)', NEW dir \in fs'.images,
                NEW i \in dir, i > LastFile
         PROVE  Coming(i)'
    <3>1. CASE dir = fs'.names
          BY <2>9, <2>10, <3>1
    <3>2. CASE dir \in fs.images
          BY <1>2, <1>4, <2>6, <2>10, <3>2 DEF SparseInv
    <3> QED BY <2>3, <3>1, <3>2
  <2> QED BY <1>2, <1>6, <2>7, <2>9, <2>10 DEF FillInv, SparseInv
<1> QED BY <1>5, <1>6 DEF RotateCreate

(* create_file: once its name is synced, it is in every directory.         *)
LEMMA RotateSyncOrders ==
    ASSUME WInv, OrphanInv, RotateSync, "syncdir" \notin Faults
    PROVE  OrphanInv'
<1>1. /\ pc = "rot_sync" /\ pc' = "rot_append" /\ fs' = SyncDir(fs)
      /\ UNCHANGED <<workVars, chanVars, open>>
      BY DEF RotateSync, Fault
<1>2. /\ LastFile' = LastFile /\ rx' = rx /\ OpenEnd' = OpenEnd
      /\ \A i : Pend(i)' <=> Pend(i)
      BY <1>1 DEF workVars, chanVars, LastFile, Pend, Todo, OpenEnd
<1>3. /\ DiskType(fs, Record) /\ fs.names \in fs.images /\ 0 \in Ids
      BY Numbers, DiskAssumption DEF WInv, NumberFacts, Ids
<1>4. /\ fs'.names \subseteq fs.names
      /\ fs'.images \subseteq fs.images \union {fs'.names}
      /\ \A dir \in fs'.images : \A k \in dir : Used(fs', k) <=> Used(fs, k)
      /\ Ordered(fs')
      BY <1>1, <1>3, ShrinkFacts, OrderedShrink DEF OrphanInv
<1>5. fs'.images = {fs'.names}
      BY <1>1, <1>3, SyncDirFacts
<1>6. \A i : Coming(i) => Coming(i)'
      BY <1>1, <1>2 DEF Coming
<1>7. SUFFICES ASSUME WorkerSound' PROVE FillInv' /\ SparseInv'
      BY <1>4 DEF OrphanInv
<1>8. FillInv /\ SparseInv
      BY <1>1, <1>2, <1>7, SoundUnchanged DEF OrphanInv
<1> QED BY <1>2, <1>3, <1>4, <1>5, <1>6, <1>8, SparseFrame

LEMMA OwnerOrders ==
    ASSUME "encode" \notin Faults, WInv, OrphanInv, OwnerNext,
           "syncdir" \notin Faults
    PROVE  OrphanInv'
<1>1. TInv
      BY DEF WInv
<1>2. CASE AppendAction
  <2>1. /\ pc = "idle" /\ pc' = "idle" /\ UNCHANGED <<fs, workVars, chanVars>>
        BY <1>2 DEF AppendAction
  <2>2. rx' = rx /\ \A i : Pend(i)' <=> Pend(i)
        BY <2>1 DEF workVars, chanVars, Pend, Todo
  <2> QED BY <2>1, <2>2, OwnerOrphanFrame DEF Coming
<1>3. ASSUME UNCHANGED <<fs, workVars>>,
             pc \in {"idle", "rot_cp", "shutdown"},
             pc' \in {"idle", "rot_create", "closing"},
             \/ SendErr
             \/ \E req \in WorkerRequest : SendOk(req) /\ ~IsAppend(req)
      PROVE  OrphanInv'
  <2>1. rx' = rx /\ \A i : Pend(i)' <=> Pend(i)
    <3>1. CASE SendErr
          BY <1>3, <3>1 DEF SendErr, chanVars, workVars, Pend, Todo
    <3>2. ASSUME NEW req \in WorkerRequest, SendOk(req), ~IsAppend(req)
          PROVE  rx' = rx /\ \A i : Pend(i)' <=> Pend(i)
          BY <1>1, <1>3, <3>2, SendPend DEF SendOk
    <3> QED BY <1>3, <3>1, <3>2
  <2> QED BY <1>3, <2>1, OwnerOrphanFrame DEF Coming
<1>4. CASE \/ \E sync \in BOOLEAN : SendPending(sync)
           \/ RotateFlush \/ RotateCheckpoint \/ ShutdownSend
  <2>1. /\ UNCHANGED <<fs, workVars>> /\ pc \in {"idle", "rot_cp", "shutdown"}
        /\ pc' \in {"idle", "rot_create", "closing"}
        /\ SendErr \/ \E s, b \in BOOLEAN : SendOk(PendingReq(s, b))
        BY <1>4 DEF SendPending, RotateFlush, RotateCheckpoint, ShutdownSend
  <2>2. \A s, b \in BOOLEAN : /\ PendingReq(s, b) \in WorkerRequest
                              /\ ~IsAppend(PendingReq(s, b))
        BY <1>1, OpenFacts DEF IsAppend
  <2> QED BY <1>3, <2>1, <2>2
<1>5. ASSUME NEW c \in closed, RemoveChunks(c) PROVE OrphanInv'
  <2> DEFINE ids == {d.id : d \in Drained(c)}
             req == RemoveReq(open.id, OpenEnd - Len(open.pending), ids)
  <2>1. /\ UNCHANGED <<fs, workVars>> /\ pc = "idle" /\ pc' = "idle"
        /\ SendErr \/ SendOk(req)
        BY <1>5 DEF RemoveChunks
  <2>2. ids \in SUBSET Ids /\ OpenEnd - Len(open.pending) \in Nat
        BY <1>1, Numbers DEF NumberFacts, Drained
  <2> HIDE DEF ids
  <2>3. req \in WorkerRequest
        BY <1>1, <2>2, OpenFacts, RemoveReqType
  <2>4. ~IsAppend(req)
        BY DEF IsAppend, RemoveReq
  <2> HIDE DEF req
  <2> QED BY <1>3, <2>1, <2>3, <2>4
<1>6. CASE RotateAppend
  <2>1. CASE SendErr
    <3>1. fs' = fs /\ ~WorkerSound'
          BY <1>6, <2>1 DEF RotateAppend, SendErr, chanVars, WorkerSound
    <3> QED BY <3>1 DEF OrphanInv
  <2>2. CASE SendOk(AppendFileReq(OpenEnd)) /\ pc' = "rot_cp"
    <3> DEFINE req == AppendFileReq(OpenEnd)
    <3>1. /\ pc = "rot_append" /\ UNCHANGED <<fs, workVars>> /\ rx' = rx
          BY <1>6, <2>2 DEF RotateAppend, SendOk
    <3>2. OpenEnd \in Ids
          BY <1>1, <3>1 DEF TInv, Locals
    <3>3. req \in WorkerRequest /\ IsAppend(req) /\ req.id = OpenEnd
          BY <3>2, AppendFileReqType DEF AppendFileReq, IsAppend
    <3> HIDE DEF req
    <3>4. \A i : Pend(i)' <=> Pend(i) \/ i = OpenEnd
          BY <1>1, <2>2, <3>1, <3>3, SendPend DEF req
    <3>5. \A i : Coming(i) => Coming(i)'
          BY <3>4 DEF Coming
    <3> QED BY <2>2, <3>1, <3>5, OwnerOrphanFrame
  <2> QED BY <1>6, <2>1, <2>2 DEF RotateAppend
<1>7. CASE Join
  <2>1. fs' = fs /\ ~WorkerSound'
        BY <1>7 DEF Join, Vanish, WorkerSound
  <2> QED BY <2>1 DEF OrphanInv
<1>8. CASE Shutdown
  <2>1. /\ pc = "idle" /\ pc' = "shutdown"
        /\ UNCHANGED <<fs, workVars, chanVars>>
        BY <1>8 DEF Shutdown
  <2>2. rx' = rx /\ \A i : Pend(i)' <=> Pend(i)
        BY <2>1 DEF workVars, chanVars, Pend, Todo
  <2> QED BY <2>1, <2>2, OwnerOrphanFrame DEF Coming
<1> QED BY <1>2, <1>4, <1>5, <1>6, <1>7, <1>8, RotateCreateOrders,
           RotateSyncOrders, EncodesAlways DEF OwnerNext
-----------------------------------------------------------------------------
(* Opening, and crashes.                                                   *)
LEMMA OpenIsUnsound == ASSUME TInv', pc' \in OpenPCs PROVE ~WorkerSound'
BY DEF TInv, Control, WorkerSound, OpenPCs

(* The WAL starts with the last chunk that has records.                    *)
LEMMA StartOrders ==
    ASSUME NEW chunk, StartUp(chunk), Ordered(fs'),
           \A i \in fs'.names : i <= chunk.id,
           \A dir \in fs'.images : \A i \in dir :
               i < chunk.id => Used(fs', i),
           \A i \in fs'.names : i \in Nat, chunk.id \in Nat
    PROVE  OrphanInv'
<1>1. /\ queue' = <<>> /\ nonFlush' = NoReq /\ files' = <<chunk.id>>
      /\ pc' = "idle"
      BY DEF StartUp
<1>2. LastFile' = chunk.id /\ Todo' = <<>>
      BY <1>1 DEF LastFile, Last, Todo
<1>3. \A i : ~Pend(i)'
      BY <1>2 DEF Pend
<1>4. FillInv'
      BY <1>2 DEF FillInv
<1>5. \A i \in fs'.names : ~(i > chunk.id)
      OBVIOUS
<1>6. SparseInv'
      BY <1>1, <1>2, <1>3, <1>5 DEF SparseInv
<1> QED BY <1>4, <1>6 DEF OrphanInv

LEMMA ReopenOrders ==
    ASSUME WInv, OrphanInv, ReopenLastClosed PROVE OrphanInv'
<1>1. PICK last \in closed :
          /\ \A c \in closed : c.id <= last.id
          /\ fs' = fs
          /\ StartUp([id |-> last.id, n |-> last.end - last.id,
                      pending |-> <<>>])
      BY DEF ReopenLastClosed
<1>2. /\ TInv /\ DiskInv(fs) /\ ScanInv /\ pc = "scan" /\ rec.todo = {}
      /\ NumberFacts
      BY Numbers DEF WInv, OpeningInv, ReopenLastClosed, Scanned
<1>3. /\ \A c \in closed : c.id \in fs.names /\ Used(fs, c.id)
      /\ \A i \in fs.names : \E c \in closed : c.id = i
      BY <1>2 DEF ScanInv, Scanning, Creating
<1> DEFINE chunk == [id |-> last.id, n |-> last.end - last.id,
                     pending |-> <<>>]
<1>4. chunk.id = last.id /\ StartUp(chunk)
      BY <1>1
<1> HIDE DEF chunk
<1>5. \A dir \in fs.images : last.id \in dir
      BY <1>2, <1>3 DEF DiskInv, NameSynced
<1>6. \A dir \in fs.images : \A i \in dir : i < last.id => Used(fs, i)
      BY <1>3, <1>5 DEF OrphanInv, Ordered
<1>7. /\ \A i \in fs.names : i \in Nat /\ i <= last.id
      /\ last.id \in Nat
  <2>1. \A i \in fs.names : i \in Nat /\ \E c \in closed : c.id = i
        BY <1>2, <1>3 DEF NumberFacts
  <2>2. last.id \in Nat
        BY <1>2 DEF NumberFacts
  <2> QED BY <1>1, <2>1, <2>2
<1> QED BY <1>1, <1>4, <1>6, <1>7, StartOrders DEF OrphanInv

(* A write to the chunk that open creates.                                 *)
LEMMA NewWriteOrders ==
    ASSUME WInv, OrphanInv, pc = "newwrite", NEW recs \in Seq(Record),
           NEW tail \in Tails
    PROVE  LET e == WriteFile(fs, NewChunkId, recs, tail) IN
           /\ Ordered(e) /\ e.names = fs.names /\ e.images = fs.images
           /\ \A dir \in e.images : \A i \in dir :
                 i < NewChunkId => Used(e, i)
<1> DEFINE x == NewChunkId
           e == WriteFile(fs, x, recs, tail)
<1>1. /\ TInv /\ ScanInv /\ CreateInv /\ NumberFacts /\ x \in Ids
      BY Numbers DEF WInv, OpeningInv, TInv, Locals
<1>2. /\ fs.images = {fs.names} /\ rec.todo = {}
      BY <1>1 DEF CreateInv, Creating
<1>3. /\ \A c \in closed : Used(fs, c.id)
      /\ \A i \in fs.names : i = x \/ \E c \in closed : c.id = i
      BY <1>1, <1>2 DEF ScanInv, Scanning
<1> HIDE DEF x
<1>4. \A dir \in fs.images : \A i \in dir : i < x => Used(fs, i)
      BY <1>1, <1>2, <1>3 DEF NumberFacts
<1>5. /\ Ordered(e) /\ e.names = fs.names /\ e.images = fs.images
      /\ \A k \in Ids : Used(fs, k) => Used(e, k)
      BY <1>1, <1>4, OrderedWrite DEF OrphanInv, NumberFacts
<1> HIDE DEF e
<1>6. \A dir \in e.images : \A i \in dir : i < x => Used(e, i)
      BY <1>1, <1>4, <1>5 DEF NumberFacts
<1> QED BY <1>5, <1>6 DEF e, x

LEMMA OpenOrders == ASSUME WInv, OrphanInv, OpenNext PROVE OrphanInv'
<1>1. /\ TInv /\ TInv' /\ DiskType(fs, Record) /\ Ordered(fs)
      BY OpenKeeps, RecFacts DEF WInv, OrphanInv
<1>2. ASSUME pc' \in OpenPCs, Ordered(fs') PROVE OrphanInv'
      BY <1>1, <1>2, OpenIsUnsound DEF OrphanInv
<1>3. CASE LoadChunkIds \/ ReplayRecord \/ ReplayPanic \/ ReplayChunk
  <2>1. fs' = fs /\ pc' \in OpenPCs
        BY <1>3
        DEF LoadChunkIds, ReplayRecord, ReplayPanic, ReplayChunk, OpenPCs
  <2> QED BY <1>1, <1>2, <2>1
<1>4. CASE TrimTail
  <2>1. /\ pc' \in OpenPCs
        /\ \/ fs' = fs
           \/ rec.todo /= {} /\ fs' = RemoveFile(fs, Max(rec.todo))
        BY <1>4 DEF TrimTail, OpenPCs
  <2>2. rec.todo /= {} => Max(rec.todo) \in Ids
        BY <1>1, LastChunk
  <2> QED BY <1>1, <1>2, <2>1, <2>2, OrderedShrink
<1>5. CASE TrimSync \/ CreateSync
  <2>1. pc' \in OpenPCs /\ fs' = SyncDir(fs)
        BY <1>5 DEF TrimSync, CreateSync, OpenPCs
  <2>2. 0 \in Ids
        BY DiskAssumption DEF Ids
  <2> QED BY <1>1, <1>2, <2>1, <2>2, OrderedShrink
<1>6. CASE ScanChunk \/ TruncateSync
  <2>1. /\ rec.todo /= {} /\ pc' \in OpenPCs
        /\ fs' \in {fs, SetLen(fs, Min(rec.todo)),
                    SyncFile(fs, Min(rec.todo))}
        BY <1>1, <1>6 DEF ScanChunk, TruncateSync, OpenPCs, TInv, Locals
  <2>2. Min(rec.todo) \in Ids
        BY <1>1, <2>1, NextChunk
  <2> QED BY <1>1, <1>2, <2>1, <2>2, OrderedShrink
<1>7. CASE CreateChunk
  <2>1. /\ Scanned /\ NewChunkId \in Ids /\ pc' \in OpenPCs
        /\ fs' = CreateFile(fs, NewChunkId)
        BY <1>7 DEF CreateChunk, OpenPCs
  <2>2. \A dir \in fs.images : \A j \in dir : Used(fs, j) => j < NewChunkId
        BY <2>1, NewChunkFacts
  <2> QED BY <1>1, <1>2, <2>1, <2>2, OrderedCreate
<1>8. CASE CreateWrite
  <2> DEFINE x == NewChunkId
             recs == <<Checkpoint(rec.sm)>>
             chunk == [id |-> x, n |-> 1, pending |-> <<>>]
  <2>1. /\ pc = "newwrite" /\ fs' = WriteFile(fs, x, recs, "none")
        /\ StartUp(chunk)
        BY <1>8 DEF CreateWrite
  <2>2. /\ recs \in Seq(Record) /\ "none" \in Tails
    <3>1. Checkpoint(rec.sm) \in Record
          BY <1>1, RecFacts, RecordTypes
    <3> QED BY <3>1 DEF Tails
  <2>3. /\ Ordered(fs') /\ fs'.names = fs.names /\ fs'.images = fs.images
        /\ \A dir \in fs'.images : \A i \in dir : i < x => Used(fs', i)
        BY <2>1, <2>2, NewWriteOrders
  <2>4. x \in fs.names /\ \A i \in fs.names : i <= x
        BY <2>1, NewWriteRule
  <2>5. x \in Nat /\ \A i \in fs.names : i \in Nat
        BY <1>1, <2>4, Numbers DEF NumberFacts
  <2>6. chunk.id = x
        OBVIOUS
  <2> HIDE DEF x, chunk
  <2> QED BY <2>1, <2>3, <2>4, <2>5, <2>6, StartOrders
<1> QED BY <1>3, <1>4, <1>5, <1>6, <1>7, <1>8, ReopenOrders
        DEF OpenNext, OpenStep

LEMMA InFlightOrders ==
    ASSUME WInv, OrphanInv, NEW d \in InFlight PROVE Ordered(d)
<1>1. CASE d = fs
      BY <1>1 DEF OrphanInv
<1>2. ASSUME wpc = "write", NEW k \in 0..(Len(NextData) - 1),
             d = WriteFile(fs, LastFile, SubSeq(NextData, 1, k), "short")
      PROVE  Ordered(d)
  <2>1. SubSeq(NextData, 1, k) \in Seq(Record) /\ "short" \in Tails
        BY <1>2, BatchFacts, SubSeqType DEF Tails, WInv
  <2> QED BY <1>2, <2>1, WriteOrders
<1>3. ASSUME pc = "newwrite", d = WriteFile(fs, NewChunkId, <<>>, "short")
      PROVE  Ordered(d)
  <2>1. <<>> \in Seq(Record) /\ "short" \in Tails
        BY DEF Tails
  <2> QED BY <1>3, <2>1, NewWriteOrders
<1> QED BY <1>1, <1>2, <1>3 DEF InFlight

LEMMA CrashOrders ==
    ASSUME WInv, OrphanInv, ProcessCrash \/ PowerLoss PROVE OrphanInv'
<1>1. ~WorkerSound'
      BY DEF ProcessCrash, PowerLoss, Vanish, WorkerSound
<1>2. CASE ProcessCrash
      BY <1>1, <1>2, InFlightOrders DEF ProcessCrash, OrphanInv
<1>3. CASE PowerLoss
  <2>1. PICK d \in InFlight : fs' \in PowerLossImages(d)
        BY <1>3 DEF PowerLoss
  <2>2. DiskType(d, Record) /\ DiskInv(d) /\ Ordered(d)
        BY InFlightType, InFlightKeeps, InFlightOrders DEF WInv
  <2> QED BY <1>1, <2>1, <2>2, OrderedPower DEF OrphanInv
<1> QED BY <1>2, <1>3

LEMMA StutterOrders ==
    ASSUME OrphanInv, UNCHANGED vars PROVE OrphanInv'
<1>1. UNCHANGED <<fs, pc, open, wpc, files, nonFlush, result, queue, rx>>
      BY DEF vars, mainVars, workVars, chanVars
<1>2. LastFile' = LastFile /\ \A i : Coming(i)' <=> Coming(i)
      BY <1>1 DEF LastFile, Coming, Pend, Todo, OpenEnd
<1>3. \A i : Pend(i)' <=> Pend(i)
      BY <1>1 DEF Pend, Todo
<1> QED BY <1>1, <1>2, <1>3
        DEF OrphanInv, WorkerSound, FillInv, SparseInv

LEMMA InitOrders == ASSUME Init PROVE OrphanInv
BY DEF Init, EmptyDisk, OrphanInv, Ordered, WorkerSound

(* If sync_dir never fails, no file without records comes before one that  *)
(* has records, in any directory a power loss may leave.                   *)
THEOREM OrphanInvariant ==
    ASSUME "encode" \notin Faults, "syncdir" \notin Faults
    PROVE  Spec => []OrphanInv
<1>1. WInv /\ OrphanInv /\ [Next]_vars => OrphanInv'
      BY WorkerOrders, OwnerOrders, OpenOrders, CrashOrders, StutterOrders
      DEF Next
<1> QED BY <1>1, InitOrders, WalInvariant, PTL DEF Spec

(* While chunks are read, the next one has records.                        *)
LEMMA NextIsUsed ==
    ASSUME WInv, OrphanInv, pc \in {"scan", "truncsync", "replay"},
           rec.todo /= {}
    PROVE  Used(fs, Min(rec.todo))
<1>1. /\ TInv /\ ScanInv /\ NumberFacts
      BY Numbers DEF WInv, OpeningInv
<1>2. /\ rec.todo \subseteq fs.names
      /\ \E t \in rec.todo : Used(fs, t) /\ \A u \in rec.todo : u <= t
      BY <1>1 DEF ScanInv, Scanning
<1>3. /\ Min(rec.todo) \in rec.todo /\ \A i \in rec.todo : Min(rec.todo) <= i
      BY <1>1, NextChunk
<1>4. PICK t \in rec.todo : Used(fs, t)
      BY <1>2
<1>5. /\ Min(rec.todo) \in fs.names /\ t \in fs.names /\ fs.names \in fs.images
      /\ Min(rec.todo) = t \/ Min(rec.todo) < t
      BY <1>1, <1>2, <1>3 DEF NumberFacts
<1> QED BY <1>4, <1>5 DEF OrphanInv, Ordered

(* Recovery never asks last_segment of a chunk without records, if         *)
(* sync_dir never fails and checkpoints always encode; if sync_dir fails,  *)
(* a chunk without records may stay before one that has some.              *)
THEOREM LastSegmentAlwaysDefined ==
    ASSUME "encode" \notin Faults, "syncdir" \notin Faults
    PROVE  Spec => []LastSegmentDefined
<1>1. ASSUME WInv, OrphanInv PROVE LastSegmentDefined
  <2>1. pc = "replay" => rec.todo /= {}
        BY <1>1 DEF WInv, TInv, Locals
  <2>2. pc = "replay" => HasLastSegment(Min(rec.todo))
        BY <1>1, <2>1, NextIsUsed DEF HasLastSegment, Used
  <2> QED BY <2>2 DEF LastSegmentDefined
<1> QED BY <1>1, WalInvariant, OrphanInvariant, PTL

-----------------------------------------------------------------------------
(* If truncation is allowed and no record is overwritten in part, a        *)
(* damaged file can always be repaired.                                    *)
NoMixed(d) == \A i \in Ids : d.file[i].tail /= "mixed"
RepairInv ==
    /\ NoMixed(fs)
    /\ pc \in OpenPCs \ {"down", "failed"} => rec.truncate
    /\ OpenSucceeds

LEMMA RunningTails ==
    ASSUME NEW d, DiskType(d, Record), NoMixed(d), NEW i, NEW recs,
           NEW tail \in {"none", "short"}
    PROVE  /\ NoMixed(CreateFile(d, i)) /\ NoMixed(RemoveFile(d, i))
           /\ NoMixed(SyncDir(d)) /\ NoMixed(WriteFile(d, i, recs, tail))
           /\ NoMixed(SyncFile(d, i)) /\ NoMixed(SetLen(d, i))
<1>1. /\ d.file \in [Ids -> File(Record)]
      /\ d \in [names : SUBSET Ids, images : SUBSET SUBSET Ids,
                file : [Ids -> File(Record)]]
      BY DEF DiskType, Disk
<1>2. NoMixed(CreateFile(d, i))
      BY <1>1 DEF NoMixed, CreateFile, NoFile, File
<1>3. NoMixed(RemoveFile(d, i))
      BY <1>1 DEF NoMixed, RemoveFile
<1>4. NoMixed(SyncDir(d))
      BY <1>1 DEF NoMixed, SyncDir, NoFile
<1>5. NoMixed(WriteFile(d, i, recs, tail))
      BY <1>1 DEF NoMixed, WriteFile, File
<1>6. NoMixed(SyncFile(d, i))
      BY <1>1 DEF NoMixed, SyncFile, File
<1>7. NoMixed(SetLen(d, i))
      BY <1>1 DEF NoMixed, SetLen, File
<1> QED BY <1>2, <1>3, <1>4, <1>5, <1>6, <1>7

LEMMA PowerTails ==
    ASSUME NEW d, NoMixed(d), "mixed" \notin TornTails,
           NEW e \in PowerLossImages(d), \A dir \in d.images : dir \subseteq Ids
    PROVE  NoMixed(e)
<1>1. PICK dir \in d.images : \E loss \in Losses(d, dir) :
          e = AfterLoss(d, dir, loss)
      BY DEF PowerLossImages
<1>2. PICK loss \in Losses(d, dir) : e = AfterLoss(d, dir, loss)
      BY <1>1
<1>3. ASSUME NEW f, NEW g \in FileImages(f) PROVE g.tail /= "mixed"
  <2>1. \E k, t : g = Cut(f, k, t) /\ t /= "mixed"
        BY <1>3 DEF FileImages
  <2> QED BY <2>1 DEF Cut
<1>4. \A i \in Torn(d, dir) : loss[i] \in FileImages(d.file[i])
      BY <1>2 DEF Losses
<1>5. ASSUME NEW i \in Ids PROVE e.file[i].tail /= "mixed"
  <2>1. e.file[i] = IF i \in Torn(d, dir) THEN loss[i]
                    ELSE IF i \in dir THEN d.file[i] ELSE NoFile
        BY <1>2 DEF AfterLoss
  <2>2. CASE i \in Torn(d, dir)
        BY <1>3, <1>4, <2>1, <2>2
  <2>3. CASE i \notin Torn(d, dir)
        BY <2>1, <2>3 DEF NoMixed, NoFile
  <2> QED BY <2>2, <2>3
<1> QED BY <1>5 DEF NoMixed

LEMMA InFlightTails ==
    ASSUME DiskType(fs, Record), NoMixed(fs), NEW d \in InFlight
    PROVE  NoMixed(d)
<1>1. \/ d = fs
      \/ \E i, recs : d = WriteFile(fs, i, recs, "short")
      BY DEF InFlight
<1> QED BY <1>1, RunningTails

LEMMA NextTails ==
    ASSUME WInv, NoMixed(fs), "mixed" \notin TornTails, [Next]_vars
    PROVE  NoMixed(fs')
<1>1. DiskType(fs, Record)
      BY RecFacts DEF WInv
<1>2. CASE UNCHANGED fs
      BY <1>2 DEF NoMixed
<1>3. CASE OwnerNext
  <2>1. fs' = fs \/ \E i : fs' \in {CreateFile(fs, i), SyncDir(fs)}
        BY <1>3
        DEF OwnerNext, AppendAction, SendPending, RotateFlush, RotateCreate,
            RotateSync, RotateAppend, RotateEncodeErr, RotateCheckpoint,
            RemoveChunks, Shutdown, ShutdownSend, Join
  <2> QED BY <1>1, <1>2, <2>1, RunningTails
<1>4. CASE WorkerNext
  <2>1. CASE WriteBatch
        BY <1>1, <2>1, RunningTails DEF WriteBatch
  <2>2. CASE WriteBatchErr
        BY <1>1, <2>2, RunningTails DEF WriteBatchErr
  <2>3. CASE ~WriteBatch /\ ~WriteBatchErr
    <3>1. \/ fs' = fs
          \/ \E i : fs' \in {RemoveFile(fs, i), SyncDir(fs), SyncFile(fs, i)}
          BY <1>4, <2>3
          DEF WorkerNext, Recv, RecvClosed, SyncOldFile, SyncLastFile, SyncErr,
              Callbacks, CallbackPanic, AppendFile, RemoveChunk, RemoveSync,
              RemoveErr, WorkerExit
    <3> QED BY <1>1, <1>2, <3>1, RunningTails
  <2> QED BY <2>1, <2>2, <2>3
<1>5. CASE OpenNext
  <2>1. CASE CreateWrite
        BY <1>1, <2>1, RunningTails DEF CreateWrite
  <2>2. CASE ~CreateWrite
    <3>1. \/ fs' = fs
          \/ \E i : fs' \in {CreateFile(fs, i), RemoveFile(fs, i), SyncDir(fs),
                             SyncFile(fs, i), SetLen(fs, i)}
          BY <1>5, <2>2
          DEF OpenNext, OpenStep, LoadChunkIds, TrimTail, TrimSync, ScanChunk,
              TruncateSync, ReplayRecord, ReplayPanic, ReplayChunk,
              ReopenLastClosed, CreateChunk, CreateSync
    <3> QED BY <1>1, <1>2, <3>1, RunningTails
  <2> QED BY <2>1, <2>2
<1>6. CASE ProcessCrash
      BY <1>1, <1>6, InFlightTails DEF ProcessCrash
<1>7. CASE PowerLoss
  <2>1. PICK d \in InFlight : fs' \in PowerLossImages(d)
        BY <1>7 DEF PowerLoss
  <2>2. NoMixed(d)
        BY <1>1, InFlightTails
  <2>3. \A dir \in d.images : dir \subseteq Ids
    <3>1. d.images = fs.images
      <4>1. \/ d = fs
            \/ \E i, recs : d = WriteFile(fs, i, recs, "short")
            BY DEF InFlight
      <4>2. ASSUME NEW i, NEW recs
            PROVE  WriteFile(fs, i, recs, "short").images = fs.images
            BY <1>1 DEF WriteFile, DiskType, Disk
      <4> QED BY <4>1, <4>2
    <3> QED BY <1>1, <3>1, DiskFacts
  <2> QED BY <2>1, <2>2, <2>3, PowerTails
<1>8. CASE UNCHANGED vars
      BY <1>2, <1>8 DEF vars
<1> QED BY <1>3, <1>4, <1>5, <1>6, <1>7, <1>8 DEF Next

LEMMA NextTruncates ==
    ASSUME TInv, RepairInv, FALSE \notin Truncates, [Next]_vars
    PROVE  pc' \in OpenPCs \ {"down", "failed"} => rec'.truncate
<1>1. CASE UNCHANGED vars
      BY <1>1 DEF vars, mainVars, RepairInv
<1>2. CASE OwnerNext
  <2>1. pc' \in UpPCs \union {"down"}
        BY <1>2
        DEF OwnerNext, AppendAction, SendPending, RotateFlush, RotateCreate,
            RotateSync, RotateAppend, RotateEncodeErr, RotateCheckpoint,
            RemoveChunks, Shutdown, ShutdownSend, Join, Vanish, UpPCs
  <2> QED BY <2>1 DEF UpPCs, OpenPCs
<1>3. CASE WorkerNext
  <2>1. UNCHANGED <<pc, rec>>
        BY <1>3
        DEF WorkerNext, Recv, RecvClosed, WriteBatch, WriteBatchErr,
            SyncOldFile, SyncLastFile, SyncErr, Callbacks, CallbackPanic,
            AppendFile, RemoveChunk, RemoveSync, RemoveErr, WorkerExit,
            mainVars
  <2> QED BY <2>1 DEF RepairInv
<1>4. CASE ProcessCrash \/ PowerLoss
      BY <1>4 DEF ProcessCrash, PowerLoss, Vanish
<1>5. CASE LoadChunkIds
  <2>1. \E t \in Truncates : rec' = [NoRec EXCEPT !.todo = fs.names,
                                                  !.truncate = t]
        BY <1>5 DEF LoadChunkIds
  <2>2. \A t \in Truncates : t = TRUE
        BY WalAssumption
  <2> QED BY <2>1, <2>2 DEF NoRec
<1>6. CASE OpenStep
  <2>1. pc' = "idle" \/ rec'.truncate = rec.truncate
    <3>1. CASE TrimTail
          BY <1>6, <3>1 DEF TrimTail, TInv, TypeOK, OwnerType
    <3>2. CASE ScanChunk
          BY <1>6, <3>2 DEF ScanChunk, TInv, TypeOK, OwnerType
    <3>3. CASE ReplayRecord
          BY <1>6, <3>3 DEF ReplayRecord, TInv, TypeOK, OwnerType
    <3>4. CASE ReplayChunk
          BY <1>6, <3>4 DEF ReplayChunk, TInv, TypeOK, OwnerType
    <3>5. CASE ReopenLastClosed \/ CreateWrite
          BY <3>5 DEF ReopenLastClosed, CreateWrite, StartUp
    <3>6. CASE \/ TrimSync \/ TruncateSync \/ ReplayPanic \/ CreateChunk
               \/ CreateSync
          BY <3>6 DEF TrimSync, TruncateSync, ReplayPanic, CreateChunk,
                      CreateSync
    <3> QED BY <1>6, <3>1, <3>2, <3>3, <3>4, <3>5, <3>6 DEF OpenStep
  <2>2. pc \in OpenPCs \ {"down", "failed"}
        BY <1>6
        DEF OpenStep, TrimTail, TrimSync, ScanChunk, TruncateSync,
            ReplayRecord, ReplayPanic, ReplayChunk, ReopenLastClosed,
            CreateChunk, CreateSync, CreateWrite, Scanned, OpenPCs
  <2> QED BY <2>1, <2>2 DEF RepairInv, OpenPCs
<1> QED BY <1>1, <1>2, <1>3, <1>4, <1>5, <1>6 DEF Next, OpenNext

LEMMA NothingRefused ==
    ASSUME WInv, OrphanInv, RepairInv, [Next]_vars
    PROVE  OpenSucceeds'
<1>1. CASE UNCHANGED vars
      BY <1>1 DEF vars, mainVars, RepairInv, OpenSucceeds
<1>2. SUFFICES ASSUME Next, pc' = "failed" PROVE FALSE
      BY <1>1 DEF OpenSucceeds
<1>3. /\ TInv /\ DiskType(fs, Record)
      /\ \A i \in Ids : fs.file[i].tail \in {"none", "short", "zero"}
  <2>1. TInv /\ DiskType(fs, Record)
        BY RecFacts DEF WInv
  <2>2. \A i \in Ids : fs.file[i] \in File(Record)
        BY <2>1, DiskFacts
  <2> QED BY <2>1, <2>2 DEF File, RepairInv, NoMixed, Tails
<1>4. CASE TrimTail
  <2>1. /\ pc = "trim" /\ rec.todo /= {}
        /\ UnreadableInitialRecord(Max(rec.todo))
        BY <1>2, <1>4 DEF TrimTail
  <2>2. rec.todo = fs.names
        BY <2>1 DEF WInv, OpeningInv, TrimInv
  <2>3. Max(rec.todo) \in Ids
        BY <1>3, <2>1, <2>2, LastChunk
  <2> QED BY <1>3, <2>1, <2>3
          DEF UnreadableInitialRecord, Damaged, UnexpectedEof, TrailingZeros
<1>5. CASE ScanChunk
  <2> DEFINE x == Min(rec.todo)
  <2>1. /\ pc = "scan" /\ rec.todo /= {}
        /\ Gap(x) \/ (Damaged(x) /\ ~CanTruncate(x))
        BY <1>2, <1>5 DEF ScanChunk
  <2>2. /\ x \in Ids /\ ~Gap(x)
        /\ Damaged(x) => x = Max(fs.names)
        BY <2>1, NextRead, NextIsUsed
  <2>3. rec.truncate
        BY <2>1 DEF RepairInv, OpenPCs
  <2> HIDE DEF x
  <2> QED BY <1>3, <2>1, <2>2, <2>3
          DEF CanTruncate, Damaged, UnexpectedEof, TrailingZeros
<1>6. CASE ReplayPanic
  <2>1. /\ pc = "replay" /\ ~Used(fs, Min(rec.todo)) /\ rec.todo /= {}
        BY <1>3, <1>6 DEF ReplayPanic, HasLastSegment, Used, TInv, Locals
  <2> QED BY <2>1, NextIsUsed
<1> QED BY <1>2, <1>3, <1>4, <1>5, <1>6, FailedStep

(* open never fails on a directory that a ChunkedWal left behind, whatever *)
(* crashes and failed writes came before, if incomplete records may be     *)
(* truncated, no power loss overwrites a record in part, and sync_dir      *)
(* never fails.  Each of these is needed: OpenRefusesOnlyDamage names what *)
(* happens without it.  So is a codec that encodes every checkpoint: a     *)
(* chunk missing from the map stays when its successor is purged.          *)
THEOREM OpenAlwaysSucceeds ==
    ASSUME "encode" \notin Faults, "syncdir" \notin Faults,
           FALSE \notin Truncates, "mixed" \notin TornTails
    PROVE  Spec => []OpenSucceeds
<1>1. Init => RepairInv
      BY DEF Init, EmptyDisk, NoFile, RepairInv, NoMixed, OpenSucceeds
<1>2. WInv /\ OrphanInv /\ RepairInv /\ [Next]_vars => RepairInv'
  <2>1. WInv => TInv
        BY DEF WInv
  <2>2. ASSUME WInv, OrphanInv, RepairInv, [Next]_vars
        PROVE  RepairInv'
    <3>1. NoMixed(fs')
          BY <2>2, NextTails DEF RepairInv
    <3>2. pc' \in OpenPCs \ {"down", "failed"} => rec'.truncate
          BY <2>1, <2>2, NextTruncates
    <3>3. OpenSucceeds'
          BY <2>2, NothingRefused
    <3> QED BY <3>1, <3>2, <3>3 DEF RepairInv, NoMixed
  <2> QED BY <2>2
<1>3. RepairInv => OpenSucceeds
      BY DEF RepairInv
<1> QED BY <1>1, <1>2, <1>3, WalInvariant, OrphanInvariant, PTL DEF Spec

-----------------------------------------------------------------------------
(* Persisted reports and removals.                                         *)

(* In every directory a power loss may leave, no file is reported beyond   *)
(* its synced part, and a chunk that was ever reported is there, or a      *)
(* later one with synced records: no offset is used twice.                 *)
Covered(d, rep) ==
    \A dir \in d.images : \A i \in dir : rep[i] <= d.file[i].synced
Anchored(d, rep) ==
    \A dir \in d.images : \A i \in Ids : rep[i] > 0 =>
        \E j \in dir : i <= j /\ d.file[j].synced > 0

(* Between request m and request k the worker stays in its chunk.          *)
Stays(m, k) == \A n \in (m + 1)..(k - 1) : ~IsAppend(Todo[n])

(* When the worker gets to request k, the chunk it is in has synced        *)
(* records: it has some now, or the batch or a request on the way syncs.   *)
FlushedHere ==
    \/ wpc \in {"write", "sync"} /\ NeedSync
    \/ fs.file[LastFile].synced > 0
FlushedBefore(k) ==
    \/ FlushedHere /\ Stays(0, k)
    \/ \E m \in 1..(k - 1) : SyncWrite(Todo[m]) /\ Stays(m, k)
PurgeInv ==
    /\ \A k \in 1..Len(Todo) : Todo[k].kind = "remove" => FlushedBefore(k)
    /\ openSync => FlushedBefore(Len(Todo) + 1)
    /\ wpc = "rmsync" => fs.file[LastFile].synced > 0

(* A chunk is reported to its end before the worker moves on.              *)
HeadReported ==
    \/ wpc \in {"write", "sync"} /\ Last(batch).sync
    \/ /\ wpc \in {"callbacks", "recv", "nonflush"}
       /\ reported[LastFile] = Len(fs.file[LastFile].data)
MoveInv ==
    /\ Todo /= <<>> /\ IsAppend(Todo[1]) => HeadReported
    /\ pc \in {"rot_create", "rot_sync", "rot_append"} /\ Todo = <<>> =>
          HeadReported

(* What is about to be reported is what the file holds.                    *)
SyncEnd == wpc = "sync" => Last(batch).upto = EndOf(fs, LastFile)

(* The worker's files come one after the other, up to the open chunk.      *)
FilesInv ==
    /\ \A k \in 1..Len(files) : files[k] <= open.id
    /\ \A k, m \in 1..Len(files) : k < m => files[k] < files[m]

ReportInv ==
    /\ Covered(fs, reported) /\ Anchored(fs, reported)
    /\ FilesInv /\ SupersededFileReported
    /\ WorkerSound => PurgeInv /\ MoveInv /\ SyncEnd

-----------------------------------------------------------------------------
(* Reports and the operations of the disk.                                 *)

(* Operations after which no file of any directory has fewer synced        *)
(* records, and no directory is new.                                       *)
LEMMA ReportKept ==
    ASSUME NEW d, NEW e, NEW rep \in [Ids -> Nat],
           DiskType(d, Record), DiskType(e, Record),
           Covered(d, rep), Anchored(d, rep), e.images \subseteq d.images,
           \A dir \in e.images : \A i \in dir :
               d.file[i].synced <= e.file[i].synced
    PROVE  Covered(e, rep) /\ Anchored(e, rep)
<1>1. \A dir \in e.images : \A i \in dir :
          /\ i \in Ids /\ rep[i] \in Nat
          /\ d.file[i].synced \in Nat /\ e.file[i].synced \in Nat
  <2>1. \A i \in Ids : d.file[i] \in File(Record) /\ e.file[i] \in File(Record)
        BY DiskFacts
  <2>2. \A dir \in e.images : \A i \in dir : i \in Ids
        BY DiskFacts
  <2> QED BY <2>1, <2>2 DEF File
<1>2. Covered(e, rep)
      BY <1>1 DEF Covered
<1>3. ASSUME NEW dir \in e.images, NEW i \in Ids, rep[i] > 0
      PROVE  \E j \in dir : i <= j /\ e.file[j].synced > 0
  <2>1. PICK j \in dir : i <= j /\ d.file[j].synced > 0
        BY <1>3 DEF Anchored
  <2>2. e.file[j].synced > 0
        BY <1>1, <2>1
  <2> QED BY <2>1, <2>2
<1> QED BY <1>2, <1>3 DEF Anchored

LEMMA ReportSync ==
    ASSUME NEW d, NEW rep \in [Ids -> Nat], DiskType(d, Record),
           Covered(d, rep), Anchored(d, rep)
    PROVE  /\ Covered(SyncDir(d), rep) /\ Anchored(SyncDir(d), rep)
           /\ \A i \in Ids : /\ Covered(SyncFile(d, i), rep)
                             /\ Anchored(SyncFile(d, i), rep)
                             /\ Covered(SetLen(d, i), rep)
                             /\ Anchored(SetLen(d, i), rep)
<1>1. /\ d.names \in d.images
      /\ \A dir \in d.images : dir \subseteq Ids
      /\ \A i \in Ids : /\ d.file[i].synced \in Nat
                        /\ Len(d.file[i].data) \in Nat
                        /\ d.file[i].synced <= Len(d.file[i].data)
  <2>1. \A i \in Ids : d.file[i] \in File(Record)
        BY DiskFacts
  <2>2. \A i \in Ids : d.file[i].synced \in Nat /\ Len(d.file[i].data) \in Nat
        BY <2>1 DEF File
  <2> QED BY <2>2, DiskFacts DEF DiskType
<1>2. Covered(SyncDir(d), rep) /\ Anchored(SyncDir(d), rep)
  <2> DEFINE e == SyncDir(d)
  <2>1. /\ DiskType(e, Record) /\ e.images = {d.names}
        /\ \A k \in d.names : e.file[k] = d.file[k]
        BY SyncDirFacts
  <2> HIDE DEF e
  <2>2. /\ e.images \subseteq d.images
        /\ \A dir \in e.images : \A i \in dir :
               d.file[i].synced <= e.file[i].synced
        BY <1>1, <2>1
  <2> QED BY <2>1, <2>2, ReportKept DEF e
<1>3. ASSUME NEW i \in Ids
      PROVE  Covered(SyncFile(d, i), rep) /\ Anchored(SyncFile(d, i), rep)
  <2> DEFINE e == SyncFile(d, i)
  <2>1. /\ DiskType(e, Record) /\ e.images = d.images
        /\ e.file[i].synced = Len(d.file[i].data)
        /\ \A k \in Ids \ {i} : e.file[k] = d.file[k]
        BY SyncFileFacts
  <2> HIDE DEF e
  <2>2. \A k \in Ids : d.file[k].synced <= e.file[k].synced
        BY <1>1, <2>1
  <2>3. \A dir \in e.images : \A k \in dir :
            d.file[k].synced <= e.file[k].synced
        BY <1>1, <2>1, <2>2
  <2> QED BY <2>1, <2>3, ReportKept DEF e
<1>4. ASSUME NEW i \in Ids
      PROVE  Covered(SetLen(d, i), rep) /\ Anchored(SetLen(d, i), rep)
  <2> DEFINE e == SetLen(d, i)
  <2>1. /\ DiskType(e, Record) /\ e.images = d.images
        /\ e.file[i].synced = d.file[i].synced
        /\ \A k \in Ids \ {i} : e.file[k] = d.file[k]
        BY SetLenFacts
  <2> HIDE DEF e
  <2>2. \A k \in Ids : d.file[k].synced <= e.file[k].synced
        BY <1>1, <2>1
  <2>3. \A dir \in e.images : \A k \in dir :
            d.file[k].synced <= e.file[k].synced
        BY <1>1, <2>1, <2>2
  <2> QED BY <2>1, <2>3, ReportKept DEF e
<1> QED BY <1>2, <1>3, <1>4

LEMMA ReportWrite ==
    ASSUME NEW d, NEW rep \in [Ids -> Nat], DiskType(d, Record),
           Covered(d, rep), Anchored(d, rep), NEW i \in Ids,
           NEW recs \in Seq(Record), NEW tail \in Tails
    PROVE  /\ Covered(WriteFile(d, i, recs, tail), rep)
           /\ Anchored(WriteFile(d, i, recs, tail), rep)
<1> DEFINE e == WriteFile(d, i, recs, tail)
<1>1. /\ DiskType(e, Record) /\ e.images = d.images
      /\ e.file[i].synced = d.file[i].synced
      /\ \A k \in Ids \ {i} : e.file[k] = d.file[k]
      BY WriteFileFacts
<1> HIDE DEF e
<1>2. \A k \in Ids : d.file[k].synced \in Nat
  <2>1. \A k \in Ids : d.file[k] \in File(Record)
        BY DiskFacts
  <2> QED BY <2>1 DEF File
<1>3. \A dir \in e.images : \A k \in dir : k \in Ids
      BY <1>1, DiskFacts
<1>4. \A k \in Ids : d.file[k].synced <= e.file[k].synced
      BY <1>1, <1>2
<1> QED BY <1>1, <1>3, <1>4, ReportKept DEF e

LEMMA ReportPower ==
    ASSUME NEW d, NEW rep \in [Ids -> Nat], DiskType(d, Record),
           Covered(d, rep), Anchored(d, rep), NEW e \in PowerLossImages(d)
    PROVE  Covered(e, rep) /\ Anchored(e, rep)
<1>1. /\ DiskType(e, Record) /\ e.names \in d.images /\ e.images = {e.names}
      /\ \A i \in e.names :
           /\ Len(e.file[i].data) \in d.file[i].synced..Len(d.file[i].data)
           /\ e.file[i].synced = Len(e.file[i].data)
      BY PowerLossFacts
<1>2. \A i \in Ids : d.file[i].synced \in Nat /\ Len(d.file[i].data) \in Nat
  <2>1. \A i \in Ids : d.file[i] \in File(Record)
        BY DiskFacts
  <2> QED BY <2>1 DEF File
<1>3. \A i \in e.names : i \in Ids
      BY <1>1, DiskFacts
<1>4. \A i \in e.names : d.file[i].synced <= e.file[i].synced
      BY <1>1, <1>2, <1>3
<1> QED BY <1>1, <1>4, ReportKept

(* A new chunk comes after all that has records.                           *)
LEMMA ReportCreate ==
    ASSUME NEW d, NEW rep \in [Ids -> Nat], DiskType(d, Record),
           Covered(d, rep), Anchored(d, rep), NEW x \in Ids,
           \A dir \in d.images : \A j \in dir : Used(d, j) => j < x
    PROVE  /\ Covered(CreateFile(d, x), rep)
           /\ Anchored(CreateFile(d, x), rep)
<1> DEFINE e == CreateFile(d, x)
<1>1. /\ DiskType(e, Record) /\ e.names = d.names \union {x}
      /\ e.images = d.images \union {d.names \union {x}}
      /\ e.file[x] = NoFile
      /\ \A k \in Ids \ {x} : e.file[k] = d.file[k]
      BY CreateFileFacts
<1>2. /\ d.names \in d.images /\ x \in Nat /\ Ids \subseteq Nat
      /\ \A dir \in d.images : dir \subseteq Ids
      /\ \A k \in Ids : d.file[k].synced \in Nat
      /\ \A k \in Ids : d.file[k].synced > 0 => Used(d, k)
  <2>1. \A k \in Ids : d.file[k] \in File(Record)
        BY DiskFacts
  <2>2. \A k \in Ids : d.file[k].synced > 0 => Used(d, k)
    <3>1. ASSUME NEW k \in Ids, d.file[k].data = <<>>
          PROVE  ~(d.file[k].synced > 0)
      <4>1. Len(d.file[k].data) = 0 /\ d.file[k].synced \in Nat
            BY <2>1, <3>1 DEF File
      <4> QED BY <4>1 DEF DiskType
    <3> QED BY <3>1 DEF Used
  <2>3. \A k \in Ids : d.file[k].synced \in Nat
        BY <2>1 DEF File
  <2> QED BY <2>2, <2>3, DiskFacts
<1> HIDE DEF e
<1>3. rep[x] = 0
  <2>1. SUFFICES ASSUME rep[x] > 0 PROVE FALSE
        OBVIOUS
  <2>2. PICK j \in d.names : x <= j /\ d.file[j].synced > 0
        BY <1>2, <2>1 DEF Anchored
  <2>3. j \in Ids /\ j \in Nat /\ Used(d, j)
        BY <1>2, <2>2
  <2> QED BY <1>2, <2>2, <2>3
<1>4. \A dir \in e.images : \A i \in dir : i = x \/ \E o \in d.images : i \in o
      BY <1>1, <1>2
<1>5. Covered(e, rep)
  <2>1. ASSUME NEW dir \in e.images, NEW i \in dir
        PROVE  rep[i] <= e.file[i].synced
    <3>1. CASE i = x
          BY <1>1, <1>3, <3>1 DEF NoFile
    <3>2. CASE i /= x
      <4>1. PICK o \in d.images : i \in o
            BY <1>4, <3>2
      <4>2. i \in Ids /\ e.file[i] = d.file[i]
            BY <1>1, <1>2, <3>2, <4>1
      <4> QED BY <4>1, <4>2 DEF Covered
    <3> QED BY <3>1, <3>2
  <2> QED BY <2>1 DEF Covered
<1>6. ASSUME NEW dir \in e.images, NEW i \in Ids, rep[i] > 0
      PROVE  \E j \in dir : i <= j /\ e.file[j].synced > 0
  <2>1. PICK o \in d.images : o \subseteq dir
        BY <1>1, <1>2
  <2>2. PICK j \in o : i <= j /\ d.file[j].synced > 0
        BY <1>6 DEF Anchored
  <2>3. j \in Ids /\ j \in Nat /\ j < x
        BY <1>2, <2>2
  <2>4. e.file[j] = d.file[j]
        BY <1>1, <1>2, <2>3
  <2> QED BY <2>1, <2>2, <2>4
<1> QED BY <1>5, <1>6 DEF Anchored, e

(* A chunk is removed that has no synced records, or before one that has.  *)
LEMMA ReportRemove ==
    ASSUME NEW d, NEW rep \in [Ids -> Nat], DiskType(d, Record),
           Covered(d, rep), Anchored(d, rep), NEW x \in Ids,
           \/ ~(d.file[x].synced > 0)
           \/ \E k \in d.names : x < k /\ d.file[k].synced > 0
    PROVE  /\ Covered(RemoveFile(d, x), rep)
           /\ Anchored(RemoveFile(d, x), rep)
<1> DEFINE e == RemoveFile(d, x)
<1>1. /\ e.names = d.names \ {x} /\ e.file = d.file
      /\ e.images = d.images \union {d.names \ {x}}
      BY RemoveFileFacts
<1>2. /\ d.names \in d.images /\ d.names \subseteq Ids /\ Ids \subseteq Nat
      BY DiskFacts
<1> HIDE DEF e
<1>3. Covered(e, rep)
      BY <1>1, <1>2 DEF Covered
<1>4. ASSUME NEW i \in Ids, rep[i] > 0
      PROVE  \E j \in d.names \ {x} : i <= j /\ d.file[j].synced > 0
  <2>1. PICK j \in d.names : i <= j /\ d.file[j].synced > 0
        BY <1>2, <1>4 DEF Anchored
  <2>2. CASE j /= x
        BY <2>1, <2>2
  <2>3. CASE j = x
    <3>1. PICK k \in d.names : x < k /\ d.file[k].synced > 0
          BY <2>1, <2>3
    <3>2. i \in Nat /\ k \in Nat /\ x \in Nat
          BY <1>2
    <3>3. k /= x /\ i <= k
          BY <2>1, <2>3, <3>1, <3>2
    <3> QED BY <3>1, <3>3
  <2> QED BY <2>2, <2>3
<1>5. Anchored(e, rep)
      BY <1>1, <1>4 DEF Anchored
<1> QED BY <1>3, <1>5 DEF e

(* A chunk is reported up to what it has synced.                           *)
LEMMA ReportMore ==
    ASSUME NEW d, NEW rep \in [Ids -> Nat], NEW new, DiskType(d, Record),
           Covered(d, rep), Anchored(d, rep), NEW x \in Ids, NEW n \in Nat,
           new = [rep EXCEPT ![x] = MaxOf(rep[x], n)],
           n <= d.file[x].synced, d.file[x].synced > 0,
           \A dir \in d.images : x \in dir
    PROVE  Covered(d, new) /\ Anchored(d, new)
<1>1. /\ new[x] = MaxOf(rep[x], n) /\ rep[x] \in Nat
      /\ \A i \in Ids \ {x} : new[i] = rep[i]
      BY DEF MaxOf
<1>2. \A dir \in d.images : dir \subseteq Ids
      BY DiskFacts
<1>3. ASSUME NEW dir \in d.images, NEW i \in dir
      PROVE  new[i] <= d.file[i].synced
  <2>1. CASE i = x
    <3>1. rep[x] <= d.file[x].synced
          BY <2>1 DEF Covered
    <3> QED BY <1>1, <2>1, <3>1 DEF MaxOf
  <2>2. CASE i /= x
        BY <1>1, <1>2, <2>2 DEF Covered
  <2> QED BY <2>1, <2>2
<1>4. ASSUME NEW dir \in d.images, NEW i \in Ids, new[i] > 0
      PROVE  \E j \in dir : i <= j /\ d.file[j].synced > 0
  <2>1. CASE i = x
    <3>1. x <= x
          BY DiskAssumption DEF Ids
    <3> QED BY <2>1, <3>1
  <2>2. CASE i /= x
        BY <1>1, <1>4, <2>2 DEF Anchored
  <2> QED BY <2>1, <2>2
<1> QED BY <1>3, <1>4 DEF Covered, Anchored

-----------------------------------------------------------------------------
(* Steps that take requests, or none (n = 0).                              *)
LEMMA FlushShift ==
    ASSUME Len(Todo) \in Nat, NEW n \in 0..Len(Todo),
           Len(Todo') = Len(Todo) - n,
           \A k \in 1..Len(Todo') : /\ Todo'[k].kind = Todo[k + n].kind
                                    /\ Todo'[k].sync = Todo[k + n].sync,
           FlushedBefore(n + 1) => FlushedHere',
           NEW k \in 1..(Len(Todo') + 1), FlushedBefore(k + n)
    PROVE  FlushedBefore(k)'
<1>1. /\ n \in Nat /\ k \in Nat /\ k >= 1 /\ k <= Len(Todo) - n + 1
      /\ Len(Todo') \in Nat
      OBVIOUS
<1>2. ASSUME NEW m \in Nat, m <= n, Stays(m, k + n)
      PROVE  Stays(m, n + 1) /\ Stays(0, k)'
  <2>1. \A j \in (m + 1)..((n + 1) - 1) : j \in (m + 1)..((k + n) - 1)
        BY <1>1, <1>2
  <2>2. Stays(m, n + 1)
        BY <1>2, <2>1 DEF Stays
  <2>3. ASSUME NEW j \in (0 + 1)..(k - 1) PROVE ~IsAppend(Todo'[j])
    <3>1. j \in 1..Len(Todo') /\ j + n \in (m + 1)..((k + n) - 1)
          BY <1>1, <1>2
    <3>2. ~IsAppend(Todo[j + n])
          BY <1>2, <3>1 DEF Stays
    <3> QED BY <3>1, <3>2 DEF IsAppend
  <2>4. Stays(0, k)'
        BY <2>3 DEF Stays
  <2> QED BY <2>2, <2>4
<1>3. CASE FlushedHere /\ Stays(0, k + n)
  <2>1. Stays(0, n + 1) /\ Stays(0, k)'
        BY <1>1, <1>2, <1>3
  <2>2. FlushedHere'
        BY <1>3, <2>1 DEF FlushedBefore
  <2> QED BY <2>1, <2>2 DEF FlushedBefore
<1>4. ASSUME NEW m \in 1..((k + n) - 1), SyncWrite(Todo[m]), Stays(m, k + n)
      PROVE  FlushedBefore(k)'
  <2>1. CASE m <= n
    <3>1. m \in Nat /\ m \in 1..((n + 1) - 1)
          BY <1>1, <2>1
    <3>2. Stays(m, n + 1) /\ Stays(0, k)'
          BY <1>2, <1>4, <2>1, <3>1
    <3>3. FlushedHere'
          BY <1>4, <3>1, <3>2 DEF FlushedBefore
    <3> QED BY <3>2, <3>3 DEF FlushedBefore
  <2>2. CASE m > n
    <3>1. /\ m - n \in 1..(k - 1) /\ m - n \in 1..Len(Todo')
          /\ (m - n) + n = m
          BY <1>1, <2>2
    <3>2. SyncWrite(Todo'[m - n])
          BY <1>4, <3>1 DEF SyncWrite
    <3>3. ASSUME NEW j \in ((m - n) + 1)..(k - 1) PROVE ~IsAppend(Todo'[j])
      <4>1. j \in 1..Len(Todo') /\ j + n \in (m + 1)..((k + n) - 1)
            BY <1>1, <2>2
      <4>2. ~IsAppend(Todo[j + n])
            BY <1>4, <4>1 DEF Stays
      <4> QED BY <4>1, <4>2 DEF IsAppend
    <3>4. Stays(m - n, k)'
          BY <3>3 DEF Stays
    <3> QED BY <3>1, <3>2, <3>4 DEF FlushedBefore
  <2> QED BY <1>1, <2>1, <2>2
<1> QED BY <1>3, <1>4 DEF FlushedBefore

RotPCs == {"rot_create", "rot_sync", "rot_append"}

LEMMA ReportShift ==
    ASSUME TInv, PipeInv, PurgeInv, MoveInv, openSync' = openSync,
           pc' \in RotPCs => pc \in RotPCs,
           NEW n \in 0..Len(Todo), Len(Todo') = Len(Todo) - n,
           \A k \in 1..Len(Todo') : /\ Todo'[k].kind = Todo[k + n].kind
                                    /\ Todo'[k].sync = Todo[k + n].sync,
           Todo' = <<>> <=> Len(Todo') = 0,
           FlushedBefore(n + 1) => FlushedHere',
           n = 0 => (HeadReported => HeadReported'),
           n > 0 /\ SyncWrite(Todo[n]) => HeadReported',
           wpc' = "rmsync" => fs'.file[LastFile'].synced > 0
    PROVE  PurgeInv' /\ MoveInv'
<1>1. /\ Len(Todo) \in Nat /\ n \in Nat /\ n <= Len(Todo) /\ Len(Todo') \in Nat
      /\ Todo /= <<>> <=> Len(Todo) > 0
      BY TodoFacts
<1>2. \A k \in 1..(Len(Todo') + 1) : FlushedBefore(k + n) => FlushedBefore(k)'
      BY <1>1, FlushShift
<1>3. PurgeInv'
  <2>1. ASSUME NEW k \in 1..Len(Todo'), Todo'[k].kind = "remove"
        PROVE  FlushedBefore(k)'
    <3>1. k + n \in 1..Len(Todo) /\ Todo[k + n].kind = "remove"
          /\ k \in 1..(Len(Todo') + 1)
          BY <1>1, <2>1
    <3>2. FlushedBefore(k + n)
          BY <3>1 DEF PurgeInv
    <3> QED BY <1>2, <3>1, <3>2
  <2>2. PICK m \in Nat : m = Len(Todo') + 1
        BY <1>1
  <2>3. openSync' => FlushedBefore(m)'
    <3>1. m \in 1..(Len(Todo') + 1) /\ m + n = Len(Todo) + 1
          BY <1>1, <2>2
    <3>2. openSync => FlushedBefore(m + n)
          BY <3>1 DEF PurgeInv
    <3> QED BY <1>2, <3>1, <3>2
  <2>4. (FlushedBefore(Len(Todo) + 1))' <=> FlushedBefore(m)'
        BY <2>2 DEF FlushedBefore, Stays
  <2> QED BY <2>1, <2>3, <2>4 DEF PurgeInv
<1>4. CASE n = 0
  <2>1. Todo' /= <<>> => Todo /= <<>> /\ Todo'[1].kind = Todo[1].kind
    <3>1. ASSUME Todo' /= <<>>
          PROVE  1 \in 1..Len(Todo') /\ 1 + n = 1 /\ Todo /= <<>>
          BY <1>1, <1>4, <3>1
    <3> QED BY <3>1
  <2>2. Todo' = <<>> => Todo = <<>>
        BY <1>1, <1>4
  <2> QED BY <1>3, <1>4, <2>1, <2>2 DEF MoveInv, RotPCs, IsAppend
<1>5. CASE n > 0
  <2>1. n \in 1..Len(Todo) /\ Todo /= <<>>
        BY <1>1, <1>5
  <2>2. ASSUME Todo' /= <<>>, IsAppend(Todo'[1]) PROVE HeadReported'
    <3>1. 1 \in 1..Len(Todo') /\ n + 1 \in 2..Len(Todo) /\ 1 + n = n + 1
          /\ (n + 1) - 1 = n
          BY <1>1, <1>5, <2>2
    <3>2. IsAppend(Todo[n + 1])
          BY <2>2, <3>1 DEF IsAppend
    <3>3. SyncWrite(Todo[n])
          BY <3>1, <3>2 DEF PipeInv, SyncInv
    <3> QED BY <1>5, <3>3
  <2>3. ASSUME pc' \in RotPCs, Todo' = <<>> PROVE HeadReported'
    <3>1. n = Len(Todo) /\ pc \in RotPCs
          BY <1>1, <2>3
    <3>2. SyncWrite(Todo[n])
          BY <2>1, <3>1 DEF PipeInv, SyncInv, RotPCs
    <3> QED BY <1>5, <3>2
  <2> QED BY <1>3, <2>2, <2>3 DEF MoveInv, RotPCs
<1> QED BY <1>1, <1>4, <1>5

(* A request is sent.                                                      *)
LEMMA ReportSend ==
    ASSUME TInv, PurgeInv, MoveInv, NEW req \in WorkerRequest, SendOk(req),
           UNCHANGED <<workVars, fs, reported>>,
           req.kind = "remove" => openSync,
           openSync' => SyncWrite(req) \/ (openSync /\ ~IsAppend(req)),
           IsAppend(req) => pc \in RotPCs
    PROVE  PurgeInv' /\ MoveInv'
<1>0. PICK n \in Nat : n = Len(Todo)
      BY TodoFacts
<1>1. /\ Len(Todo') = n + 1 /\ Todo'[n + 1] = req
      /\ \A k \in 1..n : Todo'[k] = Todo[k]
      BY <1>0, TodoAppend
<1>2. /\ n \in Nat /\ (Todo /= <<>> <=> n > 0)
      BY <1>0, TodoFacts
<1>3. /\ LastFile' = LastFile /\ wpc' = wpc /\ batch' = batch
      /\ FlushedHere' = FlushedHere /\ HeadReported' = HeadReported
      BY DEF workVars, LastFile, FlushedHere, NeedSync, HeadReported
<1>4. \A m \in Nat, k \in 0..(n + 1) : Stays(m, k) => Stays(m, k)'
  <2>1. ASSUME NEW m \in Nat, NEW k \in 0..(n + 1), Stays(m, k),
               NEW j \in (m + 1)..(k - 1)
        PROVE  ~IsAppend(Todo'[j])
    <3>1. j \in 1..n
          BY <1>2
    <3> QED BY <1>1, <2>1, <3>1 DEF Stays
  <2> QED BY <2>1 DEF Stays
<1>5. ASSUME NEW k \in 1..(n + 1), FlushedBefore(k) PROVE FlushedBefore(k)'
  <2>1. CASE FlushedHere /\ Stays(0, k)
    <3>1. k \in 0..(n + 1) /\ 0 \in Nat
          BY <1>2
    <3>2. Stays(0, k)'
          BY <1>4, <2>1, <3>1
    <3> QED BY <1>3, <2>1, <3>2 DEF FlushedBefore
  <2>2. ASSUME NEW m \in 1..(k - 1), SyncWrite(Todo[m]), Stays(m, k)
        PROVE  FlushedBefore(k)'
    <3>1. m \in 1..n /\ m \in Nat /\ k \in 0..(n + 1)
          BY <1>2
    <3>2. Stays(m, k)' /\ SyncWrite(Todo'[m])
          BY <1>1, <1>4, <2>2, <3>1
    <3> QED BY <3>2 DEF FlushedBefore
  <2> QED BY <1>5, <2>1, <2>2 DEF FlushedBefore
<1>6. ASSUME FlushedBefore(n + 1), ~IsAppend(req)
      PROVE  FlushedBefore(n + 2)'
  <2>1. \A m \in Nat : Stays(m, n + 1) => Stays(m, n + 2)'
    <3>1. ASSUME NEW m \in Nat, Stays(m, n + 1),
                 NEW j \in (m + 1)..((n + 2) - 1)
          PROVE  ~IsAppend(Todo'[j])
      <4>1. CASE j = n + 1
            BY <1>1, <1>6, <4>1
      <4>2. CASE j /= n + 1
        <5>1. j \in 1..n /\ j \in (m + 1)..((n + 1) - 1)
              BY <1>2, <4>2
        <5> QED BY <1>1, <3>1, <5>1 DEF Stays
      <4> QED BY <4>1, <4>2
    <3> QED BY <3>1 DEF Stays
  <2>2. CASE FlushedHere /\ Stays(0, n + 1)
        BY <1>3, <2>1, <2>2 DEF FlushedBefore
  <2>3. ASSUME NEW m \in 1..((n + 1) - 1), SyncWrite(Todo[m]),
               Stays(m, n + 1)
        PROVE  FlushedBefore(n + 2)'
    <3>1. m \in 1..n /\ m \in Nat /\ m \in 1..((n + 2) - 1)
          BY <1>2
    <3>2. Stays(m, n + 2)' /\ SyncWrite(Todo'[m])
          BY <1>1, <2>1, <2>3, <3>1
    <3> QED BY <3>1, <3>2 DEF FlushedBefore
  <2> QED BY <1>6, <2>2, <2>3 DEF FlushedBefore
<1>7. ASSUME SyncWrite(req) PROVE FlushedBefore(n + 2)'
  <2>1. n + 1 \in 1..((n + 2) - 1) /\ ((n + 1) + 1)..((n + 2) - 1) = {}
        BY <1>2
  <2>2. Stays(n + 1, n + 2)'
        BY <2>1 DEF Stays
  <2>3. SyncWrite(Todo'[n + 1])
        BY <1>1, <1>7
  <2> QED BY <2>1, <2>2, <2>3 DEF FlushedBefore
<1>8. PurgeInv'
  <2>1. ASSUME NEW k \in 1..Len(Todo'), Todo'[k].kind = "remove"
        PROVE  FlushedBefore(k)'
    <3>1. CASE k \in 1..n
      <4>1. k \in 1..(n + 1) /\ Todo[k].kind = "remove"
            BY <1>1, <1>2, <2>1, <3>1
      <4>2. FlushedBefore(k)
            BY <1>0, <3>1, <4>1 DEF PurgeInv
      <4> QED BY <1>5, <4>1, <4>2
    <3>2. CASE k \notin 1..n
      <4>1. k = n + 1 /\ n + 1 \in 1..(n + 1)
            BY <1>1, <1>2, <3>2
      <4>2. FlushedBefore(n + 1)
            BY <1>0, <1>1, <2>1, <4>1 DEF PurgeInv
      <4> QED BY <1>5, <4>1, <4>2
    <3> QED BY <3>1, <3>2
  <2>2. PICK m \in Nat : m = n + 2 /\ m = Len(Todo') + 1
        BY <1>1, <1>2
  <2>3. openSync' => FlushedBefore(m)'
    <3>1. openSync => FlushedBefore(n + 1)
          BY <1>0 DEF PurgeInv
    <3>2. openSync' => FlushedBefore(n + 2)'
          BY <1>6, <1>7, <3>1
    <3> QED BY <2>2, <3>2
  <2>4. (FlushedBefore(Len(Todo) + 1))' <=> FlushedBefore(m)'
        BY <2>2 DEF FlushedBefore, Stays
  <2>5. wpc' = "rmsync" => fs'.file[LastFile'].synced > 0
        BY <1>3 DEF PurgeInv
  <2> QED BY <2>1, <2>3, <2>4, <2>5 DEF PurgeInv
<1>9. MoveInv'
  <2>1. Todo' /= <<>>
        BY <1>1, <1>2
  <2>2. ASSUME IsAppend(Todo'[1]) PROVE HeadReported
    <3>1. CASE n = 0
          BY <1>1, <1>2, <2>2, <3>1 DEF MoveInv, RotPCs
    <3>2. CASE n > 0
      <4>1. 1 \in 1..n /\ Todo /= <<>>
            BY <1>2, <3>2
      <4> QED BY <1>1, <2>2, <4>1 DEF MoveInv
    <3> QED BY <1>2, <3>1, <3>2
  <2> QED BY <1>3, <2>1, <2>2 DEF MoveInv
<1> QED BY <1>8, <1>9

-----------------------------------------------------------------------------
(* The worker's files.                                                     *)
LEMMA FilesFacts ==
    ASSUME TInv
    PROVE  /\ files \in Seq(Ids) /\ Len(files) \in Nat
           /\ \A k \in 1..Len(files) : files[k] \in Ids /\ files[k] \in Nat
           /\ reported \in [Ids -> Nat] /\ open.id \in Nat
           /\ rx => Len(files) > 0 /\ LastFile = files[Len(files)]
                    /\ LastFile \in Ids /\ LastFile \in Nat
<1>1. /\ files \in Seq(Ids) /\ reported \in [Ids -> Nat]
      BY DEF TInv, TypeOK, WorkerType, HistoryType
<1>2. /\ open.id \in Nat /\ Ids \subseteq Nat
      /\ rx => LastFile \in Ids /\ LastFile \in Nat
      BY Numbers DEF NumberFacts
<1>3. rx => Len(files) > 0 /\ LastFile = files[Len(files)]
      BY LastFileType
<1>4. Len(files) \in Nat /\ \A k \in 1..Len(files) : files[k] \in Ids
      BY <1>1
<1>5. \A k \in 1..Len(files) : files[k] \in Nat
      BY <1>2, <1>4
<1> QED BY <1>1, <1>2, <1>3, <1>4, <1>5

LEMMA FilesKept ==
    ASSUME TInv, FilesInv, SupersededFileReported, UNCHANGED files,
           open.id <= open'.id, open'.id \in Nat,
           \A i \in Ids : i \in fs'.names /\ i /= LastFile /\ i <= open.id =>
               /\ i \in fs.names /\ reported'[i] = reported[i]
               /\ fs'.file[i].data = fs.file[i].data
    PROVE  FilesInv' /\ SupersededFileReported'
<1>1. /\ Len(files) \in Nat /\ open.id \in Nat
      /\ \A k \in 1..Len(files) : files[k] \in Ids /\ files[k] \in Nat
      BY FilesFacts
<1>2. FilesInv'
  <2>1. \A k \in 1..Len(files) : files[k] <= open'.id
        BY <1>1 DEF FilesInv
  <2> QED BY <2>1 DEF FilesInv
<1>3. ASSUME NEW k \in 1..(Len(files) - 1), files[k] \in fs'.names
      PROVE  reported'[files[k]] = Len(fs'.file[files[k]].data)
  <2>1. /\ k \in 1..Len(files) /\ Len(files) \in 1..Len(files)
        /\ k < Len(files)
        BY <1>1
  <2>2. /\ files[k] < LastFile /\ files[k] <= open.id
        /\ LastFile \in Nat /\ files[k] \in Nat /\ files[k] \in Ids
        BY <1>1, <2>1 DEF FilesInv, LastFile, Last
  <2>3. files[k] /= LastFile
        BY <2>2
  <2> QED BY <1>3, <2>2, <2>3 DEF SupersededFileReported
<1> QED BY <1>2, <1>3 DEF SupersededFileReported

LEMMA FilesTail ==
    ASSUME TInv, FilesInv, SupersededFileReported, Len(files) > 1,
           files' = Tail(files), UNCHANGED <<open, reported>>,
           fs'.names = fs.names,
           \A i \in Ids : fs'.file[i].data = fs.file[i].data
    PROVE  FilesInv' /\ SupersededFileReported' /\ LastFile' = LastFile
<1>1. /\ Len(files) \in Nat /\ files \in Seq(Ids)
      /\ \A k \in 1..Len(files) : files[k] \in Ids /\ files[k] \in Nat
      BY FilesFacts
<1>2. /\ Len(files') = Len(files) - 1
      /\ \A k \in 1..Len(files') : files'[k] = files[k + 1]
      BY <1>1
<1>3. \A k \in 1..Len(files') : k + 1 \in 1..Len(files)
      BY <1>1, <1>2
<1>4. FilesInv'
  <2>1. \A k \in 1..Len(files') : files'[k] <= open'.id
        BY <1>2, <1>3 DEF FilesInv
  <2>2. ASSUME NEW k \in 1..Len(files'), NEW m \in 1..Len(files'), k < m
        PROVE  files'[k] < files'[m]
    <3>1. k + 1 < m + 1
          BY <1>1, <1>2, <2>2
    <3> QED BY <1>2, <1>3, <3>1 DEF FilesInv
  <2> QED BY <2>1, <2>2 DEF FilesInv
<1>5. ASSUME NEW k \in 1..(Len(files') - 1), files'[k] \in fs'.names
      PROVE  reported'[files'[k]] = Len(fs'.file[files'[k]].data)
  <2>1. /\ k \in 1..Len(files') /\ k + 1 \in 1..(Len(files) - 1)
        /\ k + 1 \in 1..Len(files)
        BY <1>1, <1>2
  <2>2. files'[k] = files[k + 1] /\ files[k + 1] \in Ids
        BY <1>1, <1>2, <2>1
  <2> QED BY <1>5, <2>1, <2>2 DEF SupersededFileReported
<1>6. LastFile' = LastFile
  <2>1. Len(files') \in 1..Len(files') /\ (Len(files) - 1) + 1 = Len(files)
        BY <1>1, <1>2
  <2>2. files'[Len(files')] = files[Len(files)]
        BY <1>2, <2>1
  <2> QED BY <2>2 DEF LastFile, Last
<1> QED BY <1>4, <1>5, <1>6 DEF SupersededFileReported

LEMMA FilesGone ==
    ASSUME files' = <<>>
    PROVE  FilesInv' /\ SupersededFileReported'
<1>1. 1..Len(files') = {} /\ 1..(Len(files') - 1) = {}
      OBVIOUS
<1> QED BY <1>1 DEF FilesInv, SupersededFileReported

-----------------------------------------------------------------------------
(* The worker's steps.                                                     *)
LEMMA ReportFacts ==
    ASSUME WInv, ReportInv
    PROVE  /\ TInv /\ DiskType(fs, Record) /\ reported \in [Ids -> Nat]
           /\ Covered(fs, reported) /\ Anchored(fs, reported)
           /\ FilesInv /\ SupersededFileReported
           /\ Len(Todo) \in Nat /\ 0 \in 0..Len(Todo)
<1>1. TInv
      BY DEF WInv
<1> QED BY <1>1, Numbers, TodoFacts, FilesFacts DEF ReportInv, NumberFacts

LEMMA EmptyTodoNext == ASSUME TInv' PROVE Todo' = <<>> <=> Len(Todo') = 0
BY TodoFactsNext

(* Nothing is taken.                                                       *)
LEMMA ReportStill ==
    ASSUME TInv, TInv', PipeInv, PurgeInv, MoveInv, Todo' = Todo,
           openSync' = openSync, pc' \in RotPCs => pc \in RotPCs,
           FlushedHere => FlushedHere', HeadReported => HeadReported',
           wpc' /= "rmsync" \/ fs'.file[LastFile'].synced > 0
    PROVE  PurgeInv' /\ MoveInv'
<1>1. Len(Todo) \in Nat /\ 0 \in 0..Len(Todo) /\ Len(Todo') = Len(Todo) - 0
      BY TodoFacts
<1>2. \A k \in 1..Len(Todo') : k + 0 = k
      BY <1>1
<1>3. Todo' = <<>> <=> Len(Todo') = 0
      BY EmptyTodoNext
<1>4. FlushedBefore(0 + 1) => FlushedHere'
  <2>1. 1..((0 + 1) - 1) = {}
        OBVIOUS
  <2> QED BY <2>1 DEF FlushedBefore
<1>5. ~(0 > 0)
      OBVIOUS
<1> QED BY <1>1, <1>2, <1>3, <1>4, <1>5, ReportShift

LEMMA EndReports ==
    ASSUME WInv, ReportInv,
           \/ SyncErr \/ CallbackPanic \/ RecvClosed \/ RemoveErr
           \/ WorkerExit \/ (Callbacks /\ result /= "ok")
    PROVE  ReportInv'
<1>1. fs' = fs /\ UNCHANGED <<open, reported>>
      BY DEF SyncErr, CallbackPanic, RecvClosed, RemoveErr, WorkerExit,
             Callbacks, mainVars, histVars
<1>2. ~WorkerSound'
      BY DEF SyncErr, CallbackPanic, RecvClosed, RemoveErr, WorkerExit,
             Callbacks, WorkerSound
<1>3. \/ UNCHANGED files \/ files' = <<>>
      \/ files' = Tail(files) /\ Len(files) > 1
      BY DEF SyncErr, CallbackPanic, RecvClosed, RemoveErr, WorkerExit,
             Callbacks
<1>4. TInv /\ FilesInv /\ SupersededFileReported
      BY ReportFacts
<1>5. FilesInv' /\ SupersededFileReported'
  <2>1. CASE UNCHANGED files
        BY <1>1, <1>4, <2>1, FilesKept, FilesFacts
  <2>2. CASE files' = <<>>
        BY <2>2, FilesGone
  <2>3. CASE files' = Tail(files) /\ Len(files) > 1
        BY <1>1, <1>4, <2>3, FilesTail
  <2> QED BY <1>3, <2>1, <2>2, <2>3
<1> QED BY <1>1, <1>2, <1>5 DEF ReportInv

LEMMA WriteLeaves ==
    ASSUME DiskType(fs, Record), NEW i \in Ids, NEW recs \in Seq(Record),
           NEW tail \in Tails, fs' = WriteFile(fs, i, recs, tail)
    PROVE  /\ fs'.names = fs.names
           /\ fs'.file[i].synced = fs.file[i].synced
           /\ \A k \in Ids \ {i} : fs'.file[k] = fs.file[k]
<1> DEFINE e == WriteFile(fs, i, recs, tail)
<1>1. /\ e.names = fs.names
      /\ e.file[i].synced = fs.file[i].synced
      /\ \A k \in Ids \ {i} : e.file[k] = fs.file[k]
      BY WriteFileFacts
<1>2. fs' = e
      OBVIOUS
<1> HIDE DEF e
<1> QED BY <1>1, <1>2

LEMMA WriteBatchReports ==
    ASSUME WInv, WInv', ReportInv, WriteBatch PROVE ReportInv'
<1> DEFINE r == batch[wrote + 1]
<1>1. /\ wpc = "write" /\ fs' = WriteFile(fs, LastFile, NextData, "none")
      /\ UNCHANGED <<pc, open, openSync, files, batch, nonFlush, queue, rx,
                     result, reported>>
      /\ \/ wpc' = "write"
         \/ /\ wrote + 1 = Len(batch)
            /\ wpc' = IF NeedSync THEN "sync" ELSE "callbacks"
      BY DEF WriteBatch, mainVars, chanVars, histVars
<1>2. /\ PipeInv /\ TInv /\ TInv' /\ WorkerSound /\ LastFile \in Ids
      /\ LastFile \in Nat /\ DiskType(fs, Record) /\ rx
      BY <1>1, SoundFacts, Numbers DEF WInv, NumberFacts
<1>3. /\ wrote + 1 \in 1..Len(batch) /\ NextData \in Seq(Record)
      /\ r \in WorkerRequest /\ NextData = r.data /\ r.kind = "write"
      BY <1>1, <1>2, BatchFacts DEF NextData, TInv, Requests
<1>4. "none" \in Tails
      BY DEF Tails
<1>5. /\ fs'.names = fs.names
      /\ fs'.file[LastFile].synced = fs.file[LastFile].synced
      /\ \A i \in Ids \ {LastFile} : fs'.file[i] = fs.file[i]
      BY <1>1, <1>2, <1>3, <1>4, WriteLeaves
<1>6. Covered(fs', reported') /\ Anchored(fs', reported')
      BY <1>1, <1>2, <1>3, <1>4, ReportWrite, ReportFacts
<1>7. FilesInv' /\ SupersededFileReported'
      BY <1>1, <1>2, <1>5, FilesKept, FilesFacts, ReportFacts
<1>8. /\ LastFile' = LastFile /\ Todo' = Todo /\ Last(batch)' = Last(batch)
      /\ NeedSync' = NeedSync /\ Last(batch) = batch[Len(batch)]
      BY <1>1 DEF LastFile, Todo, Last, NeedSync
<1>9. PurgeInv' /\ MoveInv'
  <2>1. PurgeInv /\ MoveInv
        BY <1>2 DEF ReportInv
  <2>2. FlushedHere => FlushedHere'
        BY <1>1, <1>5, <1>8 DEF FlushedHere
  <2>3. HeadReported => HeadReported'
    <3>1. Last(batch).sync => NeedSync
      <4>1. Len(batch) \in 1..Len(batch)
            BY <1>3
      <4> QED BY <1>8, <4>1 DEF NeedSync
    <3> QED BY <1>1, <1>8, <3>1 DEF HeadReported
  <2>4. wpc' /= "rmsync"
        BY <1>1
  <2> QED BY <1>1, <1>2, <1>8, <2>1, <2>2, <2>3, <2>4, ReportStill
<1>10. SyncEnd'
  <2>1. SUFFICES ASSUME wpc' = "sync"
                 PROVE  Last(batch).upto = EndOf(fs', LastFile)
        BY <1>8 DEF SyncEnd
  <2>2. r = Last(batch)
        BY <1>1, <1>8, <2>1
  <2>3. EndOf(fs', LastFile) = EndOf(fs, LastFile) + Len(r.data)
        BY <1>1, <1>3, <1>4, WriteKeeps
  <2>4. PlaceOf(r) = Place(LastFile, EndOf(fs, LastFile) + Len(r.data))
        BY <1>1, <1>2, <1>3
        DEF PipeInv, BatchChain, Follows, FilePlace, Place, PlaceOf
  <2>5. r.upto = EndOf(fs, LastFile) + Len(r.data)
        BY <2>4 DEF PlaceOf, Place
  <2> QED BY <2>2, <2>3, <2>5
<1> QED BY <1>6, <1>7, <1>9, <1>10 DEF ReportInv

LEMMA WriteBatchErrReports ==
    ASSUME WInv, ReportInv, WriteBatchErr PROVE ReportInv'
<1>1. /\ wpc = "write" /\ result' = "err"
      /\ UNCHANGED <<open, files, reported>>
      BY DEF WriteBatchErr, mainVars, histVars
<1>2. /\ TInv /\ LastFile \in Ids /\ DiskType(fs, Record)
      BY <1>1, SoundFacts, Numbers DEF WInv, NumberFacts
<1>3. PICK k \in 0..(Len(NextData) - 1), tail \in {"none", "short"} :
          fs' = WriteFile(fs, LastFile, SubSeq(NextData, 1, k), tail)
      BY DEF WriteBatchErr
<1>4. SubSeq(NextData, 1, k) \in Seq(Record) /\ tail \in Tails
      BY <1>1, <1>2, BatchFacts, SubSeqType DEF Tails
<1>5. /\ fs'.names = fs.names
      /\ \A i \in Ids \ {LastFile} : fs'.file[i] = fs.file[i]
      BY <1>2, <1>3, <1>4, WriteLeaves
<1>6. Covered(fs', reported') /\ Anchored(fs', reported')
      BY <1>1, <1>2, <1>3, <1>4, ReportWrite, ReportFacts
<1>7. FilesInv' /\ SupersededFileReported'
      BY <1>1, <1>2, <1>5, FilesKept, FilesFacts, ReportFacts
<1>8. ~WorkerSound'
      BY <1>1 DEF WorkerSound
<1> QED BY <1>6, <1>7, <1>8 DEF ReportInv

LEMMA SyncLeaves ==
    ASSUME DiskType(fs, Record), NEW i \in Ids, fs' = SyncFile(fs, i)
    PROVE  /\ fs'.names = fs.names /\ fs'.images = fs.images
           /\ fs'.file[i].synced = Len(fs.file[i].data)
           /\ \A k \in Ids : fs'.file[k].data = fs.file[k].data
           /\ \A k \in Ids \ {i} : fs'.file[k] = fs.file[k]
<1> DEFINE e == SyncFile(fs, i)
<1>1. /\ e.names = fs.names /\ e.images = fs.images
      /\ e.file[i].data = fs.file[i].data
      /\ e.file[i].synced = Len(fs.file[i].data)
      /\ \A k \in Ids \ {i} : e.file[k] = fs.file[k]
      BY SyncFileFacts
<1>2. fs' = e
      OBVIOUS
<1> HIDE DEF e
<1> QED BY <1>1, <1>2

LEMMA SyncOldFileReports ==
    ASSUME WInv, WInv', ReportInv, SyncOldFile PROVE ReportInv'
<1>1. /\ wpc = "sync" /\ wpc' = wpc /\ Len(files) > 1
      /\ fs' = SyncFile(fs, Head(files)) /\ files' = Tail(files)
      /\ UNCHANGED <<pc, open, openSync, batch, nonFlush, queue, reported>>
      BY DEF SyncOldFile, mainVars, chanVars, histVars
<1>2. /\ PipeInv /\ TInv /\ TInv' /\ WorkerSound /\ LastFile \in Ids
      /\ DiskType(fs, Record)
      BY <1>1, SoundFacts, Numbers DEF WInv, NumberFacts
<1>3. Head(files) \in Ids
      BY <1>1, <1>2, FilesFacts
<1>4. /\ fs'.names = fs.names
      /\ \A k \in Ids : fs'.file[k].data = fs.file[k].data
      BY <1>1, <1>2, <1>3, SyncLeaves
<1>5. Covered(fs', reported') /\ Anchored(fs', reported')
      BY <1>1, <1>2, <1>3, ReportSync, ReportFacts
<1>6. FilesInv' /\ SupersededFileReported' /\ LastFile' = LastFile
      BY <1>1, <1>4, FilesTail, ReportFacts
<1>7. /\ Todo' = Todo /\ Last(batch)' = Last(batch) /\ NeedSync' = NeedSync
      BY <1>1 DEF Todo, Last, NeedSync
<1>8. fs.file[LastFile].synced > 0 => fs'.file[LastFile].synced > 0
  <2>1. CASE LastFile = Head(files)
    <3>1. fs'.file[LastFile].synced = Len(fs.file[LastFile].data)
          BY <1>1, <1>2, <1>3, <2>1, SyncLeaves
    <3>2. /\ fs.file[LastFile] \in File(Record)
          /\ fs.file[LastFile].synced <= Len(fs.file[LastFile].data)
          BY <1>2, DiskFacts DEF DiskType
    <3>3. /\ fs.file[LastFile].synced \in Nat
          /\ Len(fs.file[LastFile].data) \in Nat
          BY <3>2 DEF File
    <3> QED BY <3>1, <3>2, <3>3
  <2>2. CASE LastFile /= Head(files)
        BY <1>1, <1>2, <1>3, <2>2, SyncLeaves
  <2> QED BY <2>1, <2>2
<1>9. PurgeInv' /\ MoveInv'
  <2>1. PurgeInv /\ MoveInv
        BY <1>2 DEF ReportInv
  <2>2. FlushedHere => FlushedHere'
        BY <1>1, <1>6, <1>7, <1>8 DEF FlushedHere
  <2>3. HeadReported => HeadReported'
        BY <1>1, <1>7 DEF HeadReported
  <2> QED BY <1>1, <1>2, <1>7, <2>1, <2>2, <2>3, ReportStill
<1>10. SyncEnd'
      BY <1>1, <1>2, <1>4, <1>6, <1>7 DEF ReportInv, SyncEnd, EndOf
<1> QED BY <1>5, <1>6, <1>9, <1>10 DEF ReportInv

LEMMA SyncLastFileReports ==
    ASSUME WInv, WInv', ReportInv, SyncLastFile PROVE ReportInv'
<1> DEFINE K == LastFile
           n == Last(batch).upto - K
<1>1. /\ wpc = "sync" /\ wpc' = "callbacks" /\ Len(files) = 1
      /\ fs' = SyncFile(fs, K)
      /\ reported' = [reported EXCEPT ![K] = MaxOf(reported[K], n)]
      /\ UNCHANGED <<pc, open, openSync, files, batch, nonFlush, queue>>
      BY DEF SyncLastFile, mainVars, chanVars
<1>2. /\ PipeInv /\ TInv /\ TInv' /\ WorkerSound /\ K \in Ids /\ K \in Nat
      /\ DiskType(fs, Record) /\ K \in fs.names
      BY <1>1, SoundFacts, Numbers DEF WInv, NumberFacts
<1>3. /\ fs'.names = fs.names /\ fs'.images = fs.images
      /\ fs'.file[K].synced = Len(fs.file[K].data)
      /\ \A k \in Ids : fs'.file[k].data = fs.file[k].data
      BY <1>1, <1>2, SyncLeaves
<1>4. Len(fs.file[K].data) \in Nat
  <2>1. fs.file[K] \in File(Record)
        BY <1>2, DiskFacts
  <2> QED BY <2>1 DEF File
<1>5. n = Len(fs.file[K].data) /\ n > 0 /\ n \in Nat
  <2>1. Last(batch).upto = K + Len(fs.file[K].data)
        BY <1>1, <1>2 DEF ReportInv, SyncEnd, EndOf
  <2>2. n = Len(fs.file[K].data)
        BY <1>2, <1>4, <2>1
  <2>3. Len(batch) \in 1..Len(batch) /\ Last(batch) = batch[Len(batch)]
        BY <1>1, <1>2 DEF TInv, TypeOK, WorkerType, Control, Last
  <2>4. /\ Last(batch).id = K /\ Last(batch).kind = "write"
        /\ Grows(Last(batch))
        BY <1>2, <2>3 DEF PipeInv, BatchInv, TInv, Requests
  <2>5. K < Last(batch).upto
        BY <2>4 DEF Grows, IsAppend
  <2> QED BY <1>2, <1>4, <2>1, <2>2, <2>5
<1> HIDE DEF n
<1>6. Covered(fs', reported) /\ Anchored(fs', reported)
      BY <1>1, <1>2, ReportSync, ReportFacts
<1>7. DiskType(fs', Record) /\ reported \in [Ids -> Nat]
      BY <1>2, NumbersNext, ReportFacts DEF NumberFacts
<1>8. Covered(fs', reported') /\ Anchored(fs', reported')
  <2>1. \A dir \in fs'.images : K \in dir
        BY <1>2, <1>3 DEF PipeInv, FileInv
  <2>2. n <= fs'.file[K].synced /\ fs'.file[K].synced > 0
        BY <1>3, <1>4, <1>5
  <2> QED BY <1>1, <1>2, <1>5, <1>6, <1>7, <2>1, <2>2, ReportMore
<1>9. LastFile' = K /\ Todo' = Todo
      BY <1>1 DEF LastFile, Todo
<1>10. reported'[K] = Len(fs'.file[K].data) /\ fs'.file[K].synced > 0
  <2>1. reported[K] <= fs'.file[K].synced /\ reported[K] \in Nat
        BY <1>2, <1>3, <1>6, <1>7, DiskFacts DEF Covered
  <2>2. reported'[K] = MaxOf(reported[K], n)
        BY <1>1, <1>2, <1>7
  <2> QED BY <1>3, <1>4, <1>5, <1>2, <2>1, <2>2 DEF MaxOf
<1>11. FilesInv' /\ SupersededFileReported'
  <2>1. 1..(Len(files') - 1) = {}
    <3>1. Len(files') - 1 = 0 /\ 1..0 = {}
          BY <1>1
    <3> QED BY <3>1
  <2>2. SupersededFileReported'
        BY <2>1 DEF SupersededFileReported
  <2>3. FilesInv'
        BY <1>1, ReportFacts DEF FilesInv
  <2> QED BY <2>2, <2>3
<1>12. PurgeInv' /\ MoveInv'
  <2>1. PurgeInv /\ MoveInv
        BY <1>2 DEF ReportInv
  <2>2. FlushedHere' /\ HeadReported'
        BY <1>1, <1>9, <1>10 DEF FlushedHere, HeadReported
  <2>3. wpc' /= "rmsync"
        BY <1>1
  <2> QED BY <1>1, <1>2, <1>9, <2>1, <2>2, <2>3, ReportStill
<1>13. SyncEnd'
      BY <1>1 DEF SyncEnd
<1> QED BY <1>8, <1>11, <1>12, <1>13 DEF ReportInv

(* The worker goes on without touching a file.                             *)
LEMMA CallbacksReports ==
    ASSUME WInv, WInv', ReportInv,
           (Callbacks /\ result = "ok") \/ (Recv /\ TakeNonFlush)
    PROVE  ReportInv'
<1>1. /\ wpc \in {"callbacks", "recv"} /\ wpc' \in {"recv", "nonflush"}
      /\ fs' = fs /\ UNCHANGED <<pc, open, openSync, files, rx, reported>>
      BY DEF Callbacks, Recv, TakeNonFlush, mainVars, chanVars, histVars
<1>2. WorkerSound
  <2>1. CASE Callbacks /\ result = "ok"
        BY <1>1, <2>1 DEF Callbacks, WInv, TInv, Control, WorkerSound
  <2>2. CASE Recv /\ TakeNonFlush
        BY <2>2, SoundFacts DEF Recv
  <2> QED BY <2>1, <2>2
<1>3. PipeInv /\ TInv /\ TInv' /\ PurgeInv /\ MoveInv
      BY <1>2 DEF WInv, ReportInv
<1>4. Todo' = Todo
  <2>1. CASE Callbacks
        BY <2>1 DEF Callbacks, chanVars, Todo
  <2>2. CASE Recv /\ TakeNonFlush
    <3>1. /\ nonFlush' = Head(queue) /\ queue' = Tail(queue)
          /\ wpc = "recv" /\ queue /= <<>>
          BY <2>2 DEF Recv, TakeNonFlush
    <3>2. /\ nonFlush = NoReq /\ queue \in Seq(WorkerRequest)
          /\ queue[1].kind /= "none" /\ Head(queue) = queue[1]
          BY <1>3, <3>1 DEF TInv, TypeOK, WorkerType, Requests
    <3>3. nonFlush' /= NoReq
          BY <3>1, <3>2, NoReqType
    <3>4. <<Head(queue)>> \o Tail(queue) = queue
          BY <3>1, <3>2
    <3> QED BY <3>1, <3>2, <3>3, <3>4 DEF Todo
  <2> QED BY <2>1, <2>2
<1>5. LastFile' = LastFile
      BY <1>1 DEF LastFile
<1>6. FlushedHere => FlushedHere'
      BY <1>1, <1>5 DEF FlushedHere
<1>7. HeadReported => HeadReported'
      BY <1>1, <1>5 DEF HeadReported
<1>8. PurgeInv' /\ MoveInv' /\ SyncEnd'
  <2>1. wpc' /= "rmsync" /\ SyncEnd'
        BY <1>1 DEF SyncEnd
  <2> QED BY <1>1, <1>3, <1>4, <1>6, <1>7, <2>1, ReportStill
<1>9. FilesInv' /\ SupersededFileReported'
      BY <1>1, <1>3, FilesKept, FilesFacts, ReportFacts
<1> QED BY <1>1, <1>8, <1>9, ReportFacts DEF ReportInv

LEMMA RemoveSyncReports ==
    ASSUME WInv, WInv', ReportInv, RemoveSync PROVE ReportInv'
<1>1. /\ wpc = "rmsync" /\ wpc' = "recv" /\ fs' = SyncDir(fs)
      /\ UNCHANGED <<pc, open, openSync, files, nonFlush, queue, reported>>
      BY DEF RemoveSync, mainVars, chanVars, histVars
<1>2. /\ PipeInv /\ TInv /\ TInv' /\ WorkerSound /\ DiskType(fs, Record)
      /\ LastFile \in fs.names /\ PurgeInv /\ MoveInv
      BY <1>1, SoundFacts, Numbers DEF WInv, NumberFacts, ReportInv
<1>3. /\ fs'.names = fs.names
      /\ \A k \in fs.names : fs'.file[k] = fs.file[k]
      BY <1>1, <1>2, SyncDirFacts
<1>4. Covered(fs', reported') /\ Anchored(fs', reported')
      BY <1>1, ReportSync, ReportFacts
<1>5. FilesInv' /\ SupersededFileReported'
      BY <1>1, <1>2, <1>3, FilesKept, FilesFacts, ReportFacts
<1>6. LastFile' = LastFile /\ Todo' = Todo
      BY <1>1 DEF LastFile, Todo
<1>7. PurgeInv' /\ MoveInv' /\ SyncEnd'
  <2>1. FlushedHere => FlushedHere'
        BY <1>1, <1>2, <1>3, <1>6 DEF FlushedHere
  <2>2. ~HeadReported
        BY <1>1 DEF HeadReported
  <2>3. wpc' /= "rmsync" /\ SyncEnd'
        BY <1>1 DEF SyncEnd
  <2> QED BY <1>1, <1>2, <1>6, <2>1, <2>2, <2>3, ReportStill
<1> QED BY <1>4, <1>5, <1>7 DEF ReportInv

LEMMA TakeBatchReports ==
    ASSUME WInv, WInv', ReportInv, Recv, NEW n \in 1..Len(queue),
           NEW ends \in BOOLEAN, TakeBatch(n, ends)
    PROVE  ReportInv'
<1>1. /\ wpc = "recv" /\ wpc' = "write" /\ fs' = fs /\ queue /= <<>>
      /\ UNCHANGED <<pc, open, openSync, files, reported>>
      BY DEF Recv, TakeBatch, mainVars, histVars
<1>2. PipeInv /\ TInv /\ TInv' /\ PurgeInv /\ MoveInv
      BY <1>1, SoundFacts DEF WInv, ReportInv
<1>3. /\ Len(batch') = n /\ \A k \in 1..n : batch'[k] = Todo[k]
      /\ \A k \in 1..n : Todo[k].kind = "write"
      /\ n \in 1..Len(Todo) /\ Len(Todo) \in Nat
      /\ Len(Todo') = Len(Todo) - n
      /\ \A k \in 1..Len(Todo') : Todo'[k] = Todo[k + n]
      BY <1>1, <1>2, TakeBatchShift
<1>4. LastFile' = LastFile /\ Todo' = <<>> <=> Len(Todo') = 0
  <2>1. LastFile' = LastFile
        BY <1>1 DEF LastFile
  <2> QED BY <1>2, <2>1, EmptyTodoNext
<1>5. FlushedBefore(n + 1) => FlushedHere'
  <2>1. CASE FlushedHere
    <3>1. LastFile' = LastFile
          BY <1>1 DEF LastFile
    <3> QED BY <1>1, <2>1, <3>1 DEF FlushedHere
  <2>2. ASSUME NEW m \in 1..((n + 1) - 1), SyncWrite(Todo[m])
        PROVE  FlushedHere'
    <3>1. m \in 1..n
          BY <1>3
    <3>2. NeedSync'
          BY <1>3, <2>2, <3>1 DEF NeedSync, SyncWrite
    <3> QED BY <1>1, <3>2 DEF FlushedHere
  <2> QED BY <2>1, <2>2 DEF FlushedBefore
<1>6. SyncWrite(Todo[n]) => HeadReported'
  <2>1. n \in 1..n
        BY <1>3
  <2>2. Last(batch)' = Todo[n]
        BY <1>3, <2>1 DEF Last
  <2> QED BY <1>1, <2>2 DEF HeadReported, SyncWrite
<1>7. PurgeInv' /\ MoveInv'
  <2>1. n \in 0..Len(Todo) /\ n /= 0
        BY <1>3
  <2>2. Todo' = <<>> <=> Len(Todo') = 0
        BY <1>2, EmptyTodoNext
  <2>3. wpc' /= "rmsync"
        BY <1>1
  <2> QED BY <1>1, <1>2, <1>3, <1>5, <1>6, <2>1, <2>2, <2>3, ReportShift
<1>8. SyncEnd'
      BY <1>1 DEF SyncEnd
<1>9. FilesInv' /\ SupersededFileReported'
      BY <1>1, <1>2, FilesKept, FilesFacts, ReportFacts
<1> QED BY <1>1, <1>7, <1>8, <1>9, ReportFacts DEF ReportInv

LEMMA AppendFileReports ==
    ASSUME WInv, WInv', ReportInv, AppendFile PROVE ReportInv'
<1> DEFINE J == nonFlush.id
<1>1. /\ wpc = "nonflush" /\ nonFlush.kind = "append" /\ wpc' = "recv"
      /\ fs' = fs /\ files' = Append(files, J) /\ nonFlush' = NoReq
      /\ UNCHANGED <<pc, open, openSync, queue, rx, reported>>
      BY DEF AppendFile, mainVars, chanVars, histVars
<1>2. PipeInv /\ TInv /\ TInv' /\ PurgeInv /\ MoveInv /\ rx
      BY <1>1, SoundFacts DEF WInv, ReportInv
<1>3. /\ Todo[1] = nonFlush /\ Len(Todo) = Len(queue) + 1
      /\ Len(Todo') = Len(Todo) - 1 /\ Len(Todo) \in Nat
      /\ \A k \in 1..Len(Todo') : Todo'[k] = Todo[k + 1]
      /\ 1 \in 1..Len(Todo) /\ Todo /= <<>>
  <2>1. nonFlush /= NoReq /\ Todo' = queue
        BY <1>1, NoReqType DEF Todo
  <2>2. queue \in Seq(WorkerRequest)
        BY <1>2 DEF TInv, TypeOK, WorkerType
  <2> QED BY <1>2, <2>1, <2>2, TodoFacts
<1>4. IsAppend(Todo[1]) /\ ~SyncWrite(Todo[1])
      BY <1>1, <1>3 DEF IsAppend, SyncWrite
<1>5. /\ LastFile < J /\ J <= open.id /\ J \in Nat /\ J \in Ids
      /\ LastFile \in Nat
  <2>1. LastFile < J /\ J <= open.id
        BY <1>2, <1>3, <1>4 DEF PipeInv, MonoInv, After
  <2>2. J \in Nat /\ J \in Ids
        BY <1>2, RequestFacts DEF TInv, TypeOK, WorkerType
  <2> QED BY <1>2, <2>1, <2>2, FilesFacts
<1>6. reported[LastFile] = Len(fs.file[LastFile].data)
      BY <1>1, <1>2, <1>3, <1>4 DEF MoveInv, HeadReported
<1>7. /\ Len(files) \in Nat /\ Len(files) > 0
      /\ LastFile = files[Len(files)] /\ files \in Seq(Ids)
      /\ \A k \in 1..Len(files) : files[k] \in Nat
      BY <1>2, FilesFacts
<1>8. /\ Len(files') = Len(files) + 1 /\ files'[Len(files) + 1] = J
      /\ \A k \in 1..Len(files) : files'[k] = files[k]
      BY <1>1, <1>5, <1>7
<1>9. \A k \in 1..Len(files) : files[k] <= LastFile
  <2>1. ASSUME NEW k \in 1..Len(files), k /= Len(files)
        PROVE  files[k] <= LastFile
    <3>1. Len(files) \in 1..Len(files) /\ k < Len(files)
          BY <1>7, <2>1
    <3>2. files[k] < files[Len(files)]
          BY <3>1, ReportFacts DEF FilesInv
    <3> QED BY <1>7, <3>2
  <2> QED BY <1>5, <1>7, <2>1
<1>10. FilesInv'
  <2>1. ASSUME NEW k \in 1..Len(files') PROVE files'[k] <= open.id
    <3>1. CASE k \in 1..Len(files)
          BY <1>8, <3>1, ReportFacts DEF FilesInv
    <3>2. CASE k \notin 1..Len(files)
      <4>1. k = Len(files) + 1
            BY <1>7, <1>8, <3>2
      <4> QED BY <1>5, <1>8, <4>1
    <3> QED BY <3>1, <3>2
  <2>2. ASSUME NEW k \in 1..Len(files'), NEW m \in 1..Len(files'), k < m
        PROVE  files'[k] < files'[m]
    <3>1. k \in 1..Len(files)
          BY <1>7, <1>8, <2>2
    <3>2. CASE m \in 1..Len(files)
          BY <1>8, <2>2, <3>1, <3>2, ReportFacts DEF FilesInv
    <3>3. CASE m \notin 1..Len(files)
      <4>1. m = Len(files) + 1
            BY <1>7, <1>8, <3>3
      <4>2. files[k] <= LastFile /\ files[k] \in Nat
            BY <1>7, <1>9, <3>1
      <4> QED BY <1>5, <1>8, <3>1, <4>1, <4>2
    <3> QED BY <3>2, <3>3
  <2> QED BY <1>1, <2>1, <2>2 DEF FilesInv
<1>11. ASSUME NEW k \in 1..(Len(files') - 1), files'[k] \in fs'.names
       PROVE  reported'[files'[k]] = Len(fs'.file[files'[k]].data)
  <2>1. k \in 1..Len(files) /\ files'[k] = files[k]
        BY <1>7, <1>8
  <2>2. CASE k = Len(files)
        BY <1>1, <1>6, <1>7, <2>1, <2>2
  <2>3. CASE k /= Len(files)
    <3>1. k \in 1..(Len(files) - 1)
          BY <1>7, <2>1, <2>3
    <3> QED BY <1>1, <1>11, <2>1, <3>1, ReportFacts
            DEF SupersededFileReported
  <2> QED BY <2>2, <2>3
<1>12. PurgeInv' /\ MoveInv'
  <2>1. ~FlushedBefore(1 + 1)
    <3>1. 1 \in (0 + 1)..((1 + 1) - 1)
          OBVIOUS
    <3>2. ~Stays(0, 1 + 1)
          BY <1>4, <3>1 DEF Stays
    <3>3. \A m \in 1..((1 + 1) - 1) : m = 1
          OBVIOUS
    <3> QED BY <1>4, <3>2, <3>3 DEF FlushedBefore
  <2>2. 1 \in 0..Len(Todo) /\ ~(1 = 0)
        BY <1>3
  <2>3. Todo' = <<>> <=> Len(Todo') = 0
        BY <1>2, EmptyTodoNext
  <2>4. wpc' /= "rmsync"
        BY <1>1
  <2> QED BY <1>1, <1>2, <1>3, <1>4, <2>1, <2>2, <2>3, <2>4, ReportShift
<1>13. SyncEnd'
      BY <1>1 DEF SyncEnd
<1> QED BY <1>1, <1>10, <1>11, <1>12, <1>13, ReportFacts
        DEF ReportInv, SupersededFileReported

LEMMA RemoveReports ==
    ASSUME WInv, WInv', ReportInv, RemoveChunk PROVE ReportInv'
<1> DEFINE x == Min(nonFlush.ids)
<1>1. /\ wpc = "nonflush" /\ nonFlush.kind = "remove"
      /\ fs' = RemoveFile(fs, x)
      /\ UNCHANGED <<pc, open, openSync, files, queue, rx, reported>>
      /\ \/ /\ nonFlush.ids = {x} /\ nonFlush' = NoReq /\ wpc' = "rmsync"
         \/ /\ nonFlush.ids /= {x} /\ wpc' = "nonflush"
            /\ nonFlush' = [nonFlush EXCEPT !.ids = nonFlush.ids \ {x}]
      BY DEF RemoveChunk, mainVars, chanVars, histVars
<1>2. /\ PipeInv /\ TInv /\ rx /\ Todo[1] = nonFlush
      /\ Len(Todo) = Len(queue) + 1 /\ Len(Todo) \in Nat
      /\ 1 \in 1..Len(Todo) /\ x \in Ids /\ x < LastFile
      /\ fs'.names = fs.names \ {x} /\ fs'.file = fs.file
      BY RemoveFacts
<1>3. PurgeInv /\ MoveInv /\ TInv' /\ LastFile \in fs.names
      BY <1>1, SoundFacts DEF WInv, ReportInv
<1> HIDE DEF x
<1>4. fs.file[LastFile].synced > 0 /\ LastFile' = LastFile
  <2>1. FlushedBefore(1)
        BY <1>1, <1>2, <1>3 DEF PurgeInv
  <2>2. 1..(1 - 1) = {}
        OBVIOUS
  <2> QED BY <1>1, <2>1, <2>2 DEF FlushedBefore, FlushedHere, LastFile
<1>5. Covered(fs', reported') /\ Anchored(fs', reported')
      BY <1>1, <1>2, <1>3, <1>4, ReportRemove, ReportFacts
<1>6. FilesInv' /\ SupersededFileReported'
      BY <1>1, <1>2, FilesKept, FilesFacts, ReportFacts
<1>7. FlushedHere'
      BY <1>2, <1>4 DEF FlushedHere
<1>8. SyncEnd' /\ fs'.file[LastFile'].synced > 0
      BY <1>1, <1>2, <1>4 DEF SyncEnd
<1>9. Todo' = <<>> <=> Len(Todo') = 0
      BY <1>3, EmptyTodoNext
<1>10. nonFlush /= NoReq /\ queue \in Seq(WorkerRequest)
       /\ ~SyncWrite(Todo[1]) /\ nonFlush \in WorkerRequest
      BY <1>1, <1>2, NoReqType DEF TInv, TypeOK, WorkerType, SyncWrite
<1>11. CASE nonFlush.ids = {x} /\ nonFlush' = NoReq
  <2>1. Todo' = queue
        BY <1>1, <1>11 DEF Todo
  <2>2. /\ Len(Todo') = Len(Todo) - 1 /\ 1 \in 0..Len(Todo) /\ ~(1 = 0)
        /\ \A k \in 1..Len(Todo') : Todo'[k] = Todo[k + 1]
        BY <1>2, <1>10, <2>1, TodoFacts
  <2>3. PurgeInv' /\ MoveInv'
        BY <1>1, <1>2, <1>3, <1>7, <1>8, <1>9, <1>10, <2>2, ReportShift
  <2> QED BY <1>5, <1>6, <1>8, <2>3 DEF ReportInv
<1>12. CASE /\ nonFlush.ids /= {x} /\ wpc' = "nonflush"
            /\ nonFlush' = [nonFlush EXCEPT !.ids = nonFlush.ids \ {x}]
  <2>1. /\ nonFlush'.kind = nonFlush.kind /\ nonFlush'.sync = nonFlush.sync
        /\ nonFlush' \in WorkerRequest
        BY <1>3, <1>10, <1>12 DEF WorkerRequest, TInv, TypeOK, WorkerType
  <2>2. nonFlush' /= NoReq
        BY <1>1, <2>1, NoReqType
  <2>3. Todo' = <<nonFlush'>> \o queue
        BY <1>1, <2>2 DEF Todo
  <2>4. /\ Len(Todo') = Len(Todo) - 0 /\ 0 \in 0..Len(Todo)
        /\ Todo'[1] = nonFlush'
        /\ \A k \in 1..Len(queue) : Todo'[k + 1] = queue[k]
        BY <1>2, <1>10, <2>1, <2>3
  <2>5. \A k \in 1..Len(queue) : Todo[k + 1] = queue[k]
        BY <1>2, <1>10, TodoFacts
  <2>6. ASSUME NEW k \in 1..Len(Todo')
        PROVE  /\ Todo'[k].kind = Todo[k + 0].kind
               /\ Todo'[k].sync = Todo[k + 0].sync
    <3>1. k + 0 = k
          BY <1>2, <2>4
    <3>2. CASE k = 1
          BY <1>2, <2>1, <2>4, <3>1, <3>2
    <3>3. CASE k /= 1
      <4>1. k - 1 \in 1..Len(queue) /\ (k - 1) + 1 = k
            BY <1>2, <1>10, <2>4, <3>3
      <4> QED BY <2>4, <2>5, <3>1, <4>1
    <3> QED BY <3>2, <3>3
  <2>7. HeadReported => HeadReported'
        BY <1>1, <1>2, <1>4, <1>12 DEF HeadReported
  <2>8. ~(0 > 0)
        OBVIOUS
  <2>9. PurgeInv' /\ MoveInv'
        BY <1>1, <1>2, <1>3, <1>7, <1>8, <1>9, <2>4, <2>6, <2>7, <2>8,
           ReportShift
  <2> QED BY <1>5, <1>6, <1>8, <2>9 DEF ReportInv
<1> QED BY <1>1, <1>11, <1>12

LEMMA WorkerReports ==
    ASSUME WInv, ReportInv, WorkerNext PROVE ReportInv'
<1>1. WInv'
      BY WorkerKeeps
<1>2. ASSUME Recv PROVE ReportInv'
  <2>1. CASE TakeNonFlush
        BY <1>1, <1>2, <2>1, CallbacksReports
  <2>2. ASSUME NEW n \in 1..Len(queue), NEW ends \in BOOLEAN,
               TakeBatch(n, ends)
        PROVE  ReportInv'
        BY <1>1, <1>2, <2>2, TakeBatchReports
  <2> QED BY <1>2, <2>1, <2>2 DEF Recv
<1>3. ASSUME Callbacks PROVE ReportInv'
      BY <1>1, <1>3, CallbacksReports, EndReports
<1> QED BY <1>1, <1>2, <1>3, WriteBatchReports, WriteBatchErrReports,
           SyncOldFileReports, SyncLastFileReports, EndReports,
           AppendFileReports, RemoveReports, RemoveSyncReports
        DEF WorkerNext

-----------------------------------------------------------------------------
(* The owner's steps.  One that sends nothing may create a later file or   *)
(* sync the directory.                                                     *)
LEMMA QuietReports ==
    ASSUME WInv, WInv', ReportInv,
           UNCHANGED <<workVars, chanVars, openSync, reported>>,
           open'.id = open.id, pc' \in RotPCs => pc \in RotPCs,
           Covered(fs', reported), Anchored(fs', reported),
           \A i \in Ids : i \in fs'.names /\ i <= open.id =>
               i \in fs.names /\ fs'.file[i] = fs.file[i]
    PROVE  ReportInv'
<1>1. TInv /\ TInv'
      BY DEF WInv
<1>2. FilesInv' /\ SupersededFileReported'
  <2>1. UNCHANGED files
        BY DEF workVars
  <2>2. open.id \in Nat
        BY <1>1, FilesFacts
  <2> QED BY <1>1, <2>1, <2>2, FilesKept, ReportFacts
<1>3. ASSUME WorkerSound' PROVE PurgeInv' /\ MoveInv' /\ SyncEnd'
  <2>1. WorkerSound /\ PipeInv /\ PipeInv' /\ rx
        BY <1>3, SoundUnchanged DEF WInv, WorkerSound, chanVars
  <2>2. PurgeInv /\ MoveInv /\ SyncEnd
        BY <2>1 DEF ReportInv
  <2>3. /\ LastFile' = LastFile /\ Todo' = Todo /\ wpc' = wpc
        /\ batch' = batch /\ NeedSync' = NeedSync /\ reported' = reported
        BY DEF workVars, chanVars, LastFile, Todo, NeedSync
  <2>4. fs'.file[LastFile] = fs.file[LastFile]
    <3>1. LastFile \in Ids /\ LastFile <= open.id
          BY <1>1, <2>1, FilesFacts DEF PipeInv, MonoInv
    <3>2. fs'.names \in fs'.images
          BY <1>1, NumbersNext DEF NumberFacts
    <3>3. LastFile \in fs'.names
          BY <2>1, <2>3, <3>2 DEF PipeInv, FileInv
    <3> QED BY <3>1, <3>3
  <2>5. FlushedHere => FlushedHere'
        BY <2>3, <2>4 DEF FlushedHere
  <2>6. HeadReported => HeadReported'
        BY <2>3, <2>4 DEF HeadReported
  <2>7. wpc' /= "rmsync" \/ fs'.file[LastFile'].synced > 0
        BY <2>2, <2>3, <2>4 DEF PurgeInv
  <2>8. SyncEnd'
        BY <2>2, <2>3, <2>4 DEF SyncEnd, EndOf
  <2> QED BY <1>1, <2>1, <2>2, <2>3, <2>5, <2>6, <2>7, <2>8, ReportStill
<1> QED BY <1>2, <1>3 DEF ReportInv

LEMMA SendReports ==
    ASSUME WInv, WInv', ReportInv, UNCHANGED <<workVars, fs, reported>>,
           open.id <= open'.id, open'.id \in Nat,
           \/ SendErr
           \/ \E req \in WorkerRequest :
                 /\ SendOk(req) /\ (req.kind = "remove" => openSync)
                 /\ openSync' => SyncWrite(req) \/ (openSync /\ ~IsAppend(req))
                 /\ IsAppend(req) => pc \in RotPCs
    PROVE  ReportInv'
<1>1. TInv
      BY DEF WInv
<1>2. FilesInv' /\ SupersededFileReported'
  <2>1. UNCHANGED files
        BY DEF workVars
  <2> QED BY <1>1, <2>1, FilesKept, ReportFacts
<1>3. Covered(fs', reported') /\ Anchored(fs', reported')
      BY ReportFacts
<1>4. ASSUME WorkerSound' PROVE PurgeInv' /\ MoveInv' /\ SyncEnd'
  <2>1. ~SendErr
        BY <1>4 DEF SendErr, chanVars, WorkerSound
  <2>2. PICK req \in WorkerRequest :
            /\ SendOk(req) /\ (req.kind = "remove" => openSync)
            /\ openSync' => SyncWrite(req) \/ (openSync /\ ~IsAppend(req))
            /\ IsAppend(req) => pc \in RotPCs
        BY <2>1
  <2>3. WorkerSound
        BY <1>4, <2>2, SoundUnchanged DEF SendOk
  <2>4. PurgeInv /\ MoveInv /\ SyncEnd
        BY <2>3 DEF ReportInv
  <2>5. SyncEnd'
        BY <2>4 DEF SyncEnd, workVars, LastFile
  <2> QED BY <1>1, <2>2, <2>4, <2>5, ReportSend
<1> QED BY <1>2, <1>3, <1>4 DEF ReportInv

LEMMA PendingReports ==
    ASSUME WInv, WInv', ReportInv,
           \/ \E sync \in BOOLEAN : SendPending(sync)
           \/ RotateFlush \/ RotateCheckpoint \/ ShutdownSend
    PROVE  ReportInv'
<1>1. UNCHANGED <<workVars, fs, reported>> /\ TakePending
      BY DEF SendPending, RotateFlush, RotateCheckpoint, ShutdownSend, histVars
<1>2. TInv
      BY DEF WInv
<1>3. open'.id = open.id /\ open.id \in Nat
      BY <1>1, <1>2, TakePendingType, OpenFacts
<1>4. \/ SendErr
      \/ \E s, b \in BOOLEAN : /\ SendOk(PendingReq(s, b))
                               /\ openSync' => s \/ openSync
  <2> DEFINE G(s, b) == /\ SendOk(PendingReq(s, b))
                        /\ openSync' => s \/ openSync
  <2>1. \A sync \in BOOLEAN :
            SendPending(sync) => SendErr \/ G(sync, TRUE)
        BY ZenonT(60) DEF SendPending
  <2>2. RotateFlush => SendErr \/ G(TRUE, FALSE)
        BY DEF RotateFlush
  <2>3. RotateCheckpoint => SendErr \/ G(FALSE, FALSE)
    <3>1. ASSUME RotateCheckpoint
          PROVE  /\ openSync' = openSync
                 /\ SendErr \/ SendOk(PendingReq(FALSE, FALSE))
          BY <3>1 DEF RotateCheckpoint
    <3> QED BY <3>1, ZenonT(60)
  <2>4. ShutdownSend => SendErr \/ G(TRUE, FALSE)
        BY DEF ShutdownSend
  <2>5. TRUE \in BOOLEAN /\ FALSE \in BOOLEAN
        OBVIOUS
  <2> HIDE DEF G
  <2>6. SendErr \/ \E s, b \in BOOLEAN : G(s, b)
        BY <2>1, <2>2, <2>3, <2>4, <2>5, ZenonT(60)
  <2> QED BY <2>6 DEF G
<1>5. ASSUME NEW s \in BOOLEAN, NEW b \in BOOLEAN,
             SendOk(PendingReq(s, b)), openSync' => s \/ openSync
      PROVE  ReportInv'
  <2>1. PICK req : req = PendingReq(s, b)
        OBVIOUS
  <2>2. req \in WorkerRequest /\ req.kind = "write" /\ req.sync = s
        BY <1>2, <2>1, OpenFacts DEF PendingReq, WriteReq
  <2>3. /\ SendOk(req) /\ (req.kind = "remove" => openSync)
        /\ openSync' => SyncWrite(req) \/ (openSync /\ ~IsAppend(req))
        /\ IsAppend(req) => pc \in RotPCs
        BY <1>5, <2>1, <2>2 DEF SyncWrite, IsAppend
  <2> QED BY <1>1, <1>3, <2>2, <2>3, SendReports
<1>6. CASE SendErr
      BY <1>1, <1>3, <1>6, SendReports
<1> QED BY <1>4, <1>5, <1>6

LEMMA RotateAppendReports ==
    ASSUME WInv, WInv', ReportInv, RotateAppend PROVE ReportInv'
<1>1. /\ pc = "rot_append" /\ UNCHANGED <<workVars, fs, reported>>
      BY DEF RotateAppend, histVars
<1>2. /\ TInv /\ OpenEnd \in Ids /\ open.id \in Nat
      /\ open.id <= OpenEnd /\ OpenEnd \in Nat
  <2>1. TInv /\ OpenEnd \in Ids
        BY <1>1 DEF WInv, TInv, Locals
  <2> QED BY <2>1, Numbers DEF NumberFacts
<1>3. CASE SendErr /\ UNCHANGED open
      BY <1>1, <1>2, <1>3, SendReports
<1>4. CASE /\ SendOk(AppendFileReq(OpenEnd)) /\ openSync' = FALSE
           /\ open'.id = OpenEnd
  <2>1. PICK req : req = AppendFileReq(OpenEnd)
        OBVIOUS
  <2>2. req \in WorkerRequest /\ req.kind = "append"
        BY <1>2, <2>1, AppendFileReqType DEF AppendFileReq
  <2>3. /\ SendOk(req) /\ (req.kind = "remove" => openSync)
        /\ openSync' => SyncWrite(req) \/ (openSync /\ ~IsAppend(req))
        /\ IsAppend(req) => pc \in RotPCs
        BY <1>1, <1>4, <2>1, <2>2 DEF RotPCs
  <2> QED BY <1>1, <1>2, <1>4, <2>2, <2>3, SendReports
<1>5. \/ SendErr /\ UNCHANGED open
      \/ /\ SendOk(AppendFileReq(OpenEnd)) /\ openSync' = FALSE
         /\ open' = [id |-> OpenEnd, n |-> 1, pending |-> <<Checkpoint(sm)>>]
      BY DEF RotateAppend
<1>6. ASSUME open' = [id |-> OpenEnd, n |-> 1, pending |-> <<Checkpoint(sm)>>]
      PROVE  open'.id = OpenEnd
      BY <1>6
<1> QED BY <1>3, <1>4, <1>5, <1>6

LEMMA RemoveChunksReports ==
    ASSUME SyncBeforeRemove = TRUE, WInv, WInv', ReportInv,
           NEW c \in closed, RemoveChunks(c)
    PROVE  ReportInv'
<1> DEFINE ids == {d.id : d \in Drained(c)}
<1>1. /\ UNCHANGED <<workVars, fs, reported, open, openSync>> /\ openSync
      /\ SendErr \/ SendOk(RemoveReq(open.id, OpenEnd - Len(open.pending), ids))
      BY DEF RemoveChunks, histVars
<1>2. /\ TInv /\ open.id \in Nat /\ open.id \in Ids
      /\ OpenEnd - Len(open.pending) \in Nat /\ ids \in SUBSET Ids
  <2>1. TInv
        BY DEF WInv
  <2>2. \A d \in closed : d.id \in Ids
        BY <2>1, Numbers DEF NumberFacts
  <2>3. ids \in SUBSET Ids
        BY <2>2 DEF Drained
  <2>4. OpenEnd - Len(open.pending) \in Nat
        BY <2>1, Numbers DEF NumberFacts
  <2> QED BY <2>1, <2>3, <2>4, OpenFacts
<1> HIDE DEF ids
<1>3. CASE SendErr
      BY <1>1, <1>2, <1>3, SendReports
<1>4. CASE SendOk(RemoveReq(open.id, OpenEnd - Len(open.pending), ids))
  <2>1. PICK req : req = RemoveReq(open.id, OpenEnd - Len(open.pending), ids)
        OBVIOUS
  <2>2. req \in WorkerRequest /\ req.kind = "remove"
        BY <1>2, <2>1, RemoveReqType DEF RemoveReq
  <2>3. /\ SendOk(req) /\ (req.kind = "remove" => openSync)
        /\ openSync' => SyncWrite(req) \/ (openSync /\ ~IsAppend(req))
        /\ IsAppend(req) => pc \in RotPCs
        BY <1>1, <1>4, <2>1, <2>2 DEF IsAppend
  <2> QED BY <1>1, <1>2, <2>2, <2>3, SendReports
<1> QED BY <1>1, <1>3, <1>4

LEMMA QuietOwnerReports ==
    ASSUME WInv, WInv', ReportInv,
           AppendAction \/ RotateCreate \/ RotateSync \/ Shutdown
    PROVE  ReportInv'
<1>1. /\ UNCHANGED <<workVars, chanVars, openSync, reported>>
      /\ pc' \in RotPCs => pc \in RotPCs
      BY DEF AppendAction, RotateCreate, RotateSync, Shutdown, histVars, RotPCs
<1>2. /\ TInv /\ DiskType(fs, Record) /\ open.id \in Nat
      /\ reported \in [Ids -> Nat]
      /\ Covered(fs, reported) /\ Anchored(fs, reported)
      BY ReportFacts, FilesFacts
<1>3. CASE AppendAction
  <2>1. open \in [id : Ids, n : Nat, pending : Seq(Record)]
        BY <1>2, OpenFacts
  <2>2. open'.id = open.id
        BY <1>3, <2>1 DEF AppendAction
  <2>3. fs' = fs
        BY <1>3 DEF AppendAction
  <2> QED BY <1>1, <1>2, <2>2, <2>3, QuietReports
<1>4. CASE RotateCreate
  <2>1. UNCHANGED open /\ pc = "rot_create"
        BY <1>4 DEF RotateCreate
  <2>2. CASE fs' = fs
        BY <1>1, <1>2, <2>1, <2>2, QuietReports
  <2>3. CASE OpenEnd \in Ids /\ fs' = CreateFile(fs, OpenEnd)
    <3> DEFINE x == OpenEnd
    <3>1. /\ open.id < x /\ x \in Nat
          /\ \A dir \in fs.images : \A j \in dir : Used(fs, j) => j < x
      <4>1. pc \in UpPCs
            BY <2>1 DEF UpPCs
      <4>2. /\ open.n > 0
            /\ \A dir \in fs.images : \A j \in dir : Used(fs, j) => j <= open.id
            BY <4>1 DEF WInv, UpInv
      <4>3. /\ open.n \in Nat /\ x = open.id + open.n
            /\ \A dir \in fs.images : \A j \in dir : j \in Nat
            BY <1>2, Numbers DEF NumberFacts
      <4>4. open.id < x /\ x \in Nat
            BY <1>2, <4>2, <4>3
      <4> HIDE DEF x
      <4> QED BY <1>2, <4>2, <4>3, <4>4
    <3> HIDE DEF x
    <3>2. x \in Ids /\ fs' = CreateFile(fs, x)
          BY <2>3 DEF x
    <3>3. Covered(fs', reported) /\ Anchored(fs', reported)
          BY <1>2, <3>1, <3>2, ReportCreate
    <3>4. /\ fs'.names = fs.names \union {x}
          /\ \A k \in Ids \ {x} : fs'.file[k] = fs.file[k]
          BY <1>2, <3>2, CreateFileFacts
    <3>5. \A i \in Ids : i \in fs'.names /\ i <= open.id =>
              i \in fs.names /\ fs'.file[i] = fs.file[i]
          BY <1>2, <3>1, <3>4
    <3> QED BY <1>1, <2>1, <3>3, <3>5, QuietReports
  <2> QED BY <1>4, <2>2, <2>3 DEF RotateCreate
<1>5. CASE RotateSync
  <2>1. UNCHANGED open
        BY <1>5 DEF RotateSync
  <2>2. CASE fs' = fs
        BY <1>1, <1>2, <2>1, <2>2, QuietReports
  <2>3. CASE fs' = SyncDir(fs)
    <3>1. Covered(fs', reported) /\ Anchored(fs', reported)
          BY <1>2, <2>3, ReportSync
    <3>2. /\ fs'.names = fs.names
          /\ \A k \in fs.names : fs'.file[k] = fs.file[k]
          BY <1>2, <2>3, SyncDirFacts
    <3> QED BY <1>1, <2>1, <3>1, <3>2, QuietReports
  <2> QED BY <1>5, <2>2, <2>3 DEF RotateSync
<1>6. CASE Shutdown
  <2>1. UNCHANGED <<open, fs>>
        BY <1>6 DEF Shutdown
  <2> QED BY <1>1, <1>2, <2>1, QuietReports
<1> QED BY <1>3, <1>4, <1>5, <1>6

(* A WAL that is gone.                                                     *)
LEMMA DownReports ==
    ASSUME files' = <<>>, ~WorkerSound', reported' = reported,
           Covered(fs', reported), Anchored(fs', reported)
    PROVE  ReportInv'
BY FilesGone DEF ReportInv

LEMMA OwnerReports ==
    ASSUME "encode" \notin Faults, SyncBeforeRemove = TRUE, WInv,
           ReportInv, OwnerNext
    PROVE  ReportInv'
<1>1. WInv'
      BY OwnerKeeps
<1>2. ASSUME Join PROVE ReportInv'
  <2>1. /\ files' = <<>> /\ ~WorkerSound' /\ reported' = reported /\ fs' = fs
        BY <1>2 DEF Join, Vanish, WorkerSound
  <2> QED BY <2>1, DownReports, ReportFacts
<1>3. ASSUME NEW c \in closed, RemoveChunks(c) PROVE ReportInv'
      BY <1>1, <1>3, RemoveChunksReports
<1> QED BY <1>1, <1>2, <1>3, PendingReports, RotateAppendReports,
           QuietOwnerReports, EncodesAlways DEF OwnerNext

-----------------------------------------------------------------------------
(* Opening.  The worker does not exist yet: only the directory matters.    *)
LEMMA OpeningReports ==
    ASSUME WInv, WInv', ReportInv, pc \in OpenPCs, UNCHANGED OpenUnchanged,
           Covered(fs', reported), Anchored(fs', reported)
    PROVE  ReportInv'
<1>1. wpc = "none" /\ ~rx /\ files = <<>>
      BY DEF WInv, TInv, Control
<1>2. files' = <<>> /\ ~WorkerSound' /\ reported' = reported
      BY <1>1 DEF OpenUnchanged, workVars, chanVars, histVars, WorkerSound
<1> QED BY <1>2, DownReports

LEMMA TrimTailReports ==
    ASSUME WInv, WInv', ReportInv, TrimTail PROVE ReportInv'
<1> DEFINE last == Max(rec.todo)
<1>1. pc = "trim" /\ pc \in OpenPCs /\ UNCHANGED OpenUnchanged
      BY DEF TrimTail, OpenPCs
<1>2. /\ DiskType(fs, Record) /\ reported \in [Ids -> Nat] /\ TInv
      /\ Covered(fs, reported) /\ Anchored(fs, reported)
      BY ReportFacts
<1>3. rec.todo /= {} => last \in Ids
      BY <1>2, LastChunk
<1> HIDE DEF last
<1>4. CASE fs' = fs
      BY <1>1, <1>2, <1>4, OpeningReports
<1>5. CASE /\ rec.todo /= {} /\ ~HasCompleteInitialRecord(last)
           /\ fs' = RemoveFile(fs, last)
  <2>1. fs.file[last].data = <<>> /\ last \in Ids
        BY <1>3, <1>5 DEF HasCompleteInitialRecord
  <2>2. ~(fs.file[last].synced > 0)
    <3>1. /\ fs.file[last] \in File(Record)
          /\ fs.file[last].synced <= Len(fs.file[last].data)
          BY <1>2, <2>1, DiskFacts DEF DiskType
    <3>2. fs.file[last].synced \in Nat /\ Len(fs.file[last].data) = 0
          BY <2>1, <3>1 DEF File
    <3> QED BY <3>1, <3>2
  <2>3. Covered(fs', reported) /\ Anchored(fs', reported)
        BY <1>2, <1>5, <2>1, <2>2, ReportRemove
  <2> QED BY <1>1, <2>3, OpeningReports
<1> QED BY <1>4, <1>5 DEF TrimTail, last

LEMMA OpenStepReports ==
    ASSUME WInv, WInv', ReportInv,
           \/ LoadChunkIds \/ TrimSync \/ ScanChunk \/ TruncateSync
           \/ ReplayRecord \/ ReplayPanic \/ ReplayChunk
           \/ CreateChunk \/ CreateSync
    PROVE  ReportInv'
<1>1. pc \in OpenPCs /\ UNCHANGED OpenUnchanged
      BY DEF LoadChunkIds, TrimSync, ScanChunk, TruncateSync, ReplayRecord,
             ReplayPanic, ReplayChunk, CreateChunk, CreateSync, Scanned,
             OpenPCs
<1>2. /\ DiskType(fs, Record) /\ reported \in [Ids -> Nat] /\ TInv
      /\ Covered(fs, reported) /\ Anchored(fs, reported)
      BY ReportFacts
<1>3. ASSUME ScanChunk PROVE fs' = fs \/ \E i \in Ids : fs' = SetLen(fs, i)
  <2>1. Min(rec.todo) \in Ids
        BY <1>2, <1>3, NextChunk DEF ScanChunk
  <2> QED BY <1>3, <2>1 DEF ScanChunk
<1>4. ASSUME TruncateSync PROVE \E i \in Ids : fs' = SyncFile(fs, i)
  <2>1. Min(rec.todo) \in Ids
        BY <1>2, <1>4, NextChunk DEF TruncateSync, TInv, Locals
  <2> QED BY <1>4, <2>1 DEF TruncateSync
<1>5. ASSUME CreateChunk
      PROVE  Covered(fs', reported) /\ Anchored(fs', reported)
  <2>1. /\ Scanned /\ NewChunkId \in Ids /\ fs' = CreateFile(fs, NewChunkId)
        BY <1>5 DEF CreateChunk
  <2>2. \A dir \in fs.images : \A j \in dir : Used(fs, j) => j < NewChunkId
        BY <2>1, NewChunkFacts
  <2> QED BY <1>2, <2>1, <2>2, ReportCreate
<1>6. \/ fs' = fs \/ fs' = SyncDir(fs) \/ CreateChunk
      \/ \E i \in Ids : fs' = SetLen(fs, i) \/ fs' = SyncFile(fs, i)
      BY <1>3, <1>4
      DEF LoadChunkIds, TrimSync, ReplayRecord, ReplayPanic, ReplayChunk,
          CreateSync
<1>7. Covered(fs', reported) /\ Anchored(fs', reported)
      BY <1>2, <1>5, <1>6, ReportSync
<1> QED BY <1>1, <1>7, OpeningReports

(* The worker starts with one file and nothing to do.                      *)
LEMMA StartReports ==
    ASSUME TInv', NEW chunk, StartUp(chunk),
           Covered(fs', reported), Anchored(fs', reported)
    PROVE  ReportInv'
<1>1. /\ open' = chunk /\ queue' = <<>> /\ wpc' = "recv" /\ openSync' = FALSE
      /\ files' = <<chunk.id>> /\ nonFlush' = NoReq /\ pc' = "idle"
      /\ reported' = reported
      BY DEF StartUp
<1>2. Todo' = <<>> /\ Len(Todo') = 0 /\ 1..Len(Todo') = {}
  <2>1. Todo' = <<>>
        BY <1>1 DEF Todo
  <2>2. Len(<<>>) = 0 /\ 1..0 = {}
        OBVIOUS
  <2> QED BY <2>1, <2>2
<1>3. PurgeInv' /\ MoveInv' /\ SyncEnd'
      BY <1>1, <1>2 DEF PurgeInv, MoveInv, SyncEnd
<1>4. chunk.id \in Nat /\ Len(files') = 1 /\ files'[1] = chunk.id
      BY <1>1, NumbersNext DEF NumberFacts
<1>5. \A k \in 1..Len(files') : k = 1
      BY <1>4
<1>6. FilesInv'
  <2>1. \A k \in 1..Len(files') : files'[k] <= open'.id
        BY <1>1, <1>4, <1>5
  <2>2. \A k, m \in 1..Len(files') : ~(k < m)
        BY <1>4
  <2> QED BY <2>1, <2>2 DEF FilesInv
<1>7. SupersededFileReported'
  <2>1. 1..(Len(files') - 1) = {}
    <3>1. Len(files') - 1 = 0 /\ 1..0 = {}
          BY <1>4
    <3> QED BY <3>1
  <2> QED BY <2>1 DEF SupersededFileReported
<1> QED BY <1>1, <1>3, <1>6, <1>7 DEF ReportInv

LEMMA OpenReports ==
    ASSUME WInv, ReportInv, OpenNext PROVE ReportInv'
<1>1. WInv' /\ TInv'
      BY OpenKeeps DEF WInv
<1>2. /\ DiskType(fs, Record) /\ reported \in [Ids -> Nat] /\ TInv
      /\ Covered(fs, reported) /\ Anchored(fs, reported)
      BY ReportFacts
<1>3. ASSUME ReopenLastClosed PROVE ReportInv'
  <2>1. fs' = fs /\ \E last \in closed :
            StartUp([id |-> last.id, n |-> last.end - last.id,
                     pending |-> <<>>])
        BY <1>3 DEF ReopenLastClosed
  <2> QED BY <1>1, <1>2, <2>1, StartReports
<1>4. ASSUME CreateWrite PROVE ReportInv'
  <2>1. /\ fs' = WriteFile(fs, NewChunkId, <<Checkpoint(rec.sm)>>, "none")
        /\ StartUp([id |-> NewChunkId, n |-> 1, pending |-> <<>>])
        /\ pc = "newwrite"
        BY <1>4 DEF CreateWrite
  <2>2. /\ NewChunkId \in Ids /\ "none" \in Tails
        /\ rec.sm \in Seq(1..MaxActions)
        BY <1>2, <2>1
        DEF TInv, Locals, TypeOK, OwnerType, Tails
  <2>3. Checkpoint(rec.sm) \in Record
        BY <2>2, RecordTypes
  <2>4. <<Checkpoint(rec.sm)>> \in Seq(Record)
        BY <2>3
  <2>5. Covered(fs', reported) /\ Anchored(fs', reported)
        BY <1>2, <2>1, <2>2, <2>4, ReportWrite
  <2> QED BY <1>1, <2>1, <2>5, StartReports
<1> QED BY <1>1, <1>3, <1>4, TrimTailReports, OpenStepReports
        DEF OpenNext, OpenStep

-----------------------------------------------------------------------------
(* Crashes.                                                                *)
LEMMA InFlightReports ==
    ASSUME WInv, ReportInv, NEW d \in InFlight
    PROVE  Covered(d, reported) /\ Anchored(d, reported)
<1>1. /\ DiskType(fs, Record) /\ reported \in [Ids -> Nat] /\ TInv
      /\ Covered(fs, reported) /\ Anchored(fs, reported)
      BY ReportFacts
<1>2. "short" \in Tails /\ <<>> \in Seq(Record)
      BY DEF Tails
<1>3. CASE d = fs
      BY <1>1, <1>3
<1>4. ASSUME wpc = "write", NEW k \in 0..(Len(NextData) - 1),
             d = WriteFile(fs, LastFile, SubSeq(NextData, 1, k), "short")
      PROVE  Covered(d, reported) /\ Anchored(d, reported)
  <2>1. SubSeq(NextData, 1, k) \in Seq(Record) /\ LastFile \in Ids
        BY <1>1, <1>4, BatchFacts, SubSeqType
  <2> QED BY <1>1, <1>2, <1>4, <2>1, ReportWrite
<1>5. ASSUME pc = "newwrite", d = WriteFile(fs, NewChunkId, <<>>, "short")
      PROVE  Covered(d, reported) /\ Anchored(d, reported)
  <2>1. NewChunkId \in Ids
        BY <1>1, <1>5 DEF TInv, Locals
  <2> QED BY <1>1, <1>2, <1>5, <2>1, ReportWrite
<1> QED BY <1>3, <1>4, <1>5 DEF InFlight

LEMMA CrashReports ==
    ASSUME WInv, ReportInv, ProcessCrash \/ PowerLoss PROVE ReportInv'
<1>1. files' = <<>> /\ ~WorkerSound' /\ reported' = reported
      BY DEF ProcessCrash, PowerLoss, Vanish, WorkerSound, histVars
<1>2. Covered(fs', reported) /\ Anchored(fs', reported)
  <2>1. CASE ProcessCrash
        BY <2>1, InFlightReports DEF ProcessCrash
  <2>2. CASE PowerLoss
    <3>1. PICK d \in InFlight : fs' \in PowerLossImages(d)
          BY <2>2 DEF PowerLoss
    <3>2. /\ DiskType(d, Record) /\ reported \in [Ids -> Nat]
          /\ Covered(d, reported) /\ Anchored(d, reported)
          BY InFlightType, InFlightReports, ReportFacts DEF WInv
    <3> QED BY <3>1, <3>2, ReportPower
  <2> QED BY <2>1, <2>2
<1> QED BY <1>1, <1>2, DownReports

-----------------------------------------------------------------------------
LEMMA InitReports == ASSUME Init PROVE ReportInv
<1>1. /\ fs.images = {{}} /\ files = <<>> /\ ~WorkerSound
      /\ \A i \in Ids : reported[i] = 0
      BY DEF Init, EmptyDisk, WorkerSound
<1>2. 1..Len(files) = {} /\ 1..(Len(files) - 1) = {}
      BY <1>1
<1> QED BY <1>1, <1>2
        DEF ReportInv, Covered, Anchored, FilesInv, SupersededFileReported

LEMMA StutterReports ==
    ASSUME WInv, ReportInv, UNCHANGED vars PROVE ReportInv'
<1>1. /\ UNCHANGED <<workVars, chanVars, openSync, reported>>
      /\ UNCHANGED <<fs, open, pc>>
      BY DEF vars, mainVars, histVars
<1>2. WInv'
      BY StutterKeeps
<1> QED BY <1>1, <1>2, QuietReports, ReportFacts

LEMMA NextReports ==
    ASSUME "encode" \notin Faults, SyncBeforeRemove = TRUE, WInv,
           ReportInv, [Next]_vars
    PROVE  ReportInv'
BY WorkerReports, OwnerReports, OpenReports, CrashReports, StutterReports
DEF Next

(* The invariant of reports and removals.                                  *)
THEOREM ReportInvariant ==
    ASSUME "encode" \notin Faults, SyncBeforeRemove = TRUE
    PROVE  Spec => []ReportInv
BY InitReports, NextReports, WalInvariant, PTL DEF Spec

(* sync_data_files never tells the ChunkPersisted callback of more than is *)
(* on stable storage, whatever is queued, rotated or removed meanwhile.    *)
(* No later power loss makes it untrue: a chunk that was reported and is   *)
(* gone is never written again at the same offset.                         *)
THEOREM ReportsAreDurable ==
    ASSUME "encode" \notin Faults, SyncBeforeRemove = TRUE
    PROVE  Spec => []ReportedIsDurable
<1>1. ASSUME WInv, ReportInv PROVE ReportedIsDurable
  <2>1. fs.names \in fs.images
        BY <1>1, Numbers DEF WInv, NumberFacts
  <2> QED BY <1>1, <2>1 DEF ReportInv, Covered, ReportedIsDurable
<1> QED BY <1>1, WalInvariant, ReportInvariant, PTL

(* Each chunk is reported to its end before the worker goes on to the next *)
(* one, although sync_data_files reports its last file only: AppendFile is *)
(* always preceded by a sync write with nothing in between.                *)
THEOREM SupersededAreReported ==
    ASSUME "encode" \notin Faults, SyncBeforeRemove = TRUE
    PROVE  Spec => []SupersededFileReported
<1>1. ReportInv => SupersededFileReported
      BY DEF ReportInv
<1> QED BY <1>1, ReportInvariant, PTL

(* RemoveChunks syncs the directory only when the oldest chunk left has    *)
(* its checkpoint on stable storage: a power loss then finds a chunk to    *)
(* start from.  A caller that does not sync the open chunk first, or a     *)
(* file left behind by a failed sync_dir, would break it.                  *)
THEOREM PurgesAfterFlush ==
    ASSUME "encode" \notin Faults, SyncBeforeRemove = TRUE,
           "syncdir" \notin Faults
    PROVE  Spec => []PurgeAfterFlush
<1>1. ASSUME WInv, OrphanInv, ReportInv PROVE PurgeAfterFlush
  <2>1. SUFFICES ASSUME wpc = "rmsync"
                 PROVE  /\ fs.names /= {}
                        /\ fs.file[Min(fs.names)].synced > 0
        BY DEF PurgeAfterFlush
  <2>2. /\ WorkerSound /\ PipeInv /\ LastFile \in fs.names /\ NumberFacts
        BY <1>1, <2>1, SoundFacts, Numbers DEF WInv
  <2>3. fs.file[LastFile].synced > 0
        BY <1>1, <2>1, <2>2 DEF ReportInv, PurgeInv
  <2>4. PICK m : m = Min(fs.names)
        OBVIOUS
  <2>5. m \in fs.names /\ m <= LastFile /\ m \in Nat /\ LastFile \in Nat
        /\ m \in Ids
    <3>1. fs.names \in SUBSET Nat /\ fs.names /= {}
          BY <2>2 DEF NumberFacts
    <3>2. m \in fs.names /\ \A i \in fs.names : m <= i
          BY <2>4, <3>1, MinFacts
    <3> QED BY <2>2, <3>2 DEF NumberFacts
  <2>6. fs.file[m].synced > 0
    <3>1. CASE m = LastFile
          BY <2>3, <3>1
    <3>2. CASE m < LastFile
      <4>1. Used(fs, m) /\ Whole(fs, m)
            BY <1>1, <2>2, <2>5, <3>2
            DEF OrphanInv, FillInv, PipeInv, FileInv, Below, NumberFacts
      <4>2. fs.file[m] \in File(Record)
            BY <2>2, <2>5, DiskFacts DEF NumberFacts
      <4>3. fs.file[m].data \in Seq(Record) /\ fs.file[m].data /= <<>>
            BY <4>1, <4>2 DEF File, Used
      <4>4. Len(fs.file[m].data) > 0
            BY <4>3
      <4> QED BY <4>1, <4>4 DEF Whole
    <3> QED BY <2>5, <3>1, <3>2
  <2> QED BY <2>2, <2>4, <2>6
<1> QED BY <1>1, WalInvariant, OrphanInvariant, ReportInvariant, PTL

=============================================================================
