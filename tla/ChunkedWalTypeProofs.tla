------------------------ MODULE ChunkedWalTypeProofs ------------------------
(***************************************************************************)
(* What the rest of the proofs about ChunkedWal stands on, for all values  *)
(* of the constants.  First what the operations of WalDisk do to a         *)
(* directory, and the rule that recovery rests on as an invariant of the   *)
(* disk alone: which writes, removals and power losses keep it.  Then the  *)
(* types, which rest on where owner and worker are: which of their         *)
(* variables mean something, and which requests the channel carries.       *)
(***************************************************************************)
EXTENDS ChunkedWal, TLAPS, WellFoundedInduction

(* A disk whose files hold records of a set R.                             *)
File(R) == [data : Seq(R), synced : Nat, tail : Tails]
Disk(R) == [names : SUBSET Ids, images : SUBSET SUBSET Ids,
            file : [Ids -> File(R)]]
DiskType(d, R) ==
    /\ d \in Disk(R)
    /\ d.names \in d.images
    /\ \A i \in Ids : d.file[i].synced <= Len(d.file[i].data)

Used(d, i) == d.file[i].data /= <<>>
Whole(d, i) ==
    d.file[i].synced = Len(d.file[i].data) /\ d.file[i].tail = "none"

(* In the directory dir, everything before chunk j is whole, synced and    *)
(* ends in a chunk of dir.                                                 *)
Below(d, dir, j) ==
    \A i \in dir : i < j => /\ Whole(d, i)
                            /\ EndOf(d, i) \in dir /\ EndOf(d, i) <= j

(* The rule for every directory a power loss may leave; no such directory  *)
(* has records beyond the present one, and none lacks a chunk that has     *)
(* records.                                                                *)
ImageRule(d) ==
    \A dir \in d.images : \A j \in dir : Used(d, j) => Below(d, dir, j)
ImageTop(d) ==
    \A dir \in d.images : \A j \in dir : Used(d, j) =>
        \E k \in d.names : j <= k /\ Used(d, k)
NameSynced(d) ==
    \A j \in d.names : Used(d, j) => \A dir \in d.images : j \in dir
DiskInv(d) == ImageRule(d) /\ ImageTop(d) /\ NameSynced(d)

-----------------------------------------------------------------------------
(* Facts about a disk.                                                     *)
LEMMA DiskFacts ==
    ASSUME NEW R, NEW d, DiskType(d, R)
    PROVE  /\ d.names \subseteq Ids /\ Ids \subseteq Nat
           /\ d.names \in d.images
           /\ \A dir \in d.images : dir \subseteq Ids
           /\ \A i \in Ids :
                /\ d.file[i] \in File(R)
                /\ d.file[i].data \in Seq(R)
                /\ Len(d.file[i].data) \in Nat
                /\ d.file[i].synced \in 0..Len(d.file[i].data)
                /\ EndOf(d, i) = i + Len(d.file[i].data)
                /\ EndOf(d, i) \in Nat /\ i <= EndOf(d, i)
                /\ Used(d, i) => i < EndOf(d, i)
                /\ ~Used(d, i) => EndOf(d, i) = i
<1>1. /\ d.names \subseteq Ids /\ Ids \subseteq Nat
      /\ d.names \in d.images
      /\ \A dir \in d.images : dir \subseteq Ids
      BY DiskAssumption DEF DiskType, Disk, Ids
<1>2. ASSUME NEW i \in Ids
      PROVE  /\ d.file[i] \in File(R)
             /\ d.file[i].data \in Seq(R)
             /\ Len(d.file[i].data) \in Nat
             /\ d.file[i].synced \in 0..Len(d.file[i].data)
             /\ EndOf(d, i) = i + Len(d.file[i].data)
             /\ EndOf(d, i) \in Nat /\ i <= EndOf(d, i)
             /\ Used(d, i) => i < EndOf(d, i)
             /\ ~Used(d, i) => EndOf(d, i) = i
  <2>1. d.file[i] \in File(R)
        BY DEF DiskType, Disk
  <2>2. d.file[i].data \in Seq(R) /\ d.file[i].synced \in Nat
        BY <2>1 DEF File
  <2>3. Len(d.file[i].data) \in Nat
        BY <2>2
  <2>4. d.file[i].synced \in 0..Len(d.file[i].data)
        BY <2>2, <2>3 DEF DiskType
  <2>5. Used(d, i) <=> Len(d.file[i].data) > 0
        BY <2>2 DEF Used
  <2>6. i \in Nat /\ EndOf(d, i) = i + Len(d.file[i].data)
        BY <1>1 DEF EndOf
  <2>7. /\ EndOf(d, i) \in Nat /\ i <= EndOf(d, i)
        /\ Used(d, i) => i < EndOf(d, i)
        /\ ~Used(d, i) => EndOf(d, i) = i
        BY <2>3, <2>5, <2>6
  <2> QED BY <2>1, <2>2, <2>3, <2>4, <2>6, <2>7
<1> QED BY <1>1, <1>2

LEMMA CreateFileFacts ==
    ASSUME NEW R, NEW d, DiskType(d, R), NEW i \in Ids
    PROVE  LET e == CreateFile(d, i) IN
           /\ DiskType(e, R)
           /\ e.names = d.names \union {i}
           /\ e.images = d.images \union {d.names \union {i}}
           /\ e.file[i] = NoFile
           /\ \A k \in Ids \ {i} : e.file[k] = d.file[k]
<1> DEFINE e == CreateFile(d, i)
<1>1. NoFile \in File(R) /\ NoFile.synced = 0 /\ NoFile.data = <<>>
      BY DEF NoFile, File, Tails
<1>2. /\ e.names = d.names \union {i}
      /\ e.images = d.images \union {d.names \union {i}}
      /\ e.file = [d.file EXCEPT ![i] = NoFile]
      BY DEF CreateFile, DiskType, Disk
<1>3. e \in [names : SUBSET Ids, images : SUBSET SUBSET Ids,
             file : [Ids -> File(R)]]
      BY <1>1 DEF CreateFile, DiskType, Disk
<1>4. e.file[i] = NoFile /\ \A k \in Ids \ {i} : e.file[k] = d.file[k]
      BY <1>2 DEF DiskType, Disk
<1>5. \A k \in Ids : e.file[k].synced <= Len(e.file[k].data)
      BY <1>1, <1>4 DEF DiskType
<1> HIDE DEF e
<1>6. DiskType(e, R)
      BY <1>2, <1>3, <1>5 DEF DiskType, Disk
<1> QED BY <1>2, <1>4, <1>6 DEF e

LEMMA RemoveFileFacts ==
    ASSUME NEW R, NEW d, DiskType(d, R), NEW i
    PROVE  LET e == RemoveFile(d, i) IN
           /\ DiskType(e, R)
           /\ e.names = d.names \ {i}
           /\ e.images = d.images \union {d.names \ {i}}
           /\ e.file = d.file
BY DEF RemoveFile, DiskType, Disk

LEMMA SyncDirFacts ==
    ASSUME NEW R, NEW d, DiskType(d, R)
    PROVE  LET e == SyncDir(d) IN
           /\ DiskType(e, R)
           /\ e.names = d.names /\ e.images = {d.names}
           /\ \A k \in d.names : e.file[k] = d.file[k]
           /\ \A k \in Ids \ d.names : e.file[k] = NoFile
<1> DEFINE e == SyncDir(d)
<1>1. NoFile \in File(R) /\ NoFile.synced = 0 /\ NoFile.data = <<>>
      BY DEF NoFile, File, Tails
<1>2. /\ e.names = d.names /\ e.images = {d.names}
      /\ e.file = [i \in Ids |-> IF i \in d.names THEN d.file[i] ELSE NoFile]
      BY DEF SyncDir, DiskType, Disk
<1>3. e \in [names : SUBSET Ids, images : SUBSET SUBSET Ids,
             file : [Ids -> File(R)]]
      BY <1>1 DEF SyncDir, DiskType, Disk
<1>4. d.names \subseteq Ids
      BY DEF DiskType, Disk
<1>5. /\ \A k \in d.names : e.file[k] = d.file[k]
      /\ \A k \in Ids \ d.names : e.file[k] = NoFile
      BY <1>2, <1>4
<1>6. \A k \in Ids : e.file[k].synced <= Len(e.file[k].data)
      BY <1>1, <1>5 DEF DiskType
<1> HIDE DEF e
<1>7. DiskType(e, R)
      BY <1>2, <1>3, <1>6 DEF DiskType, Disk
<1> QED BY <1>2, <1>5, <1>7 DEF e

LEMMA WriteFileFacts ==
    ASSUME NEW R, NEW d, DiskType(d, R), NEW i \in Ids,
           NEW recs \in Seq(R), NEW tail \in Tails
    PROVE  LET e == WriteFile(d, i, recs, tail) IN
           /\ DiskType(e, R)
           /\ e.names = d.names /\ e.images = d.images
           /\ e.file[i].data = d.file[i].data \o recs
           /\ e.file[i].synced = d.file[i].synced
           /\ e.file[i].tail = tail
           /\ \A k \in Ids \ {i} : e.file[k] = d.file[k]
<1> DEFINE e == WriteFile(d, i, recs, tail)
           f == [d.file[i] EXCEPT !.data = @ \o recs, !.tail = tail]
<1>1. /\ d.file[i] \in File(R) /\ d.file[i].data \in Seq(R)
      /\ d.file[i].synced \in 0..Len(d.file[i].data)
      BY DiskFacts
<1>2. /\ f \in File(R) /\ f.data = d.file[i].data \o recs
      /\ f.synced = d.file[i].synced /\ f.tail = tail
  <2>1. d.file[i].data \o recs \in Seq(R)
        BY <1>1
  <2> QED BY <1>1, <2>1 DEF File
<1>3. e = [d EXCEPT !.file = [d.file EXCEPT ![i] = f]]
      BY DEF WriteFile, DiskType, Disk
<1>4. f.synced <= Len(f.data)
  <2>1. Len(d.file[i].data \o recs) = Len(d.file[i].data) + Len(recs)
        BY <1>1
  <2> QED BY <1>1, <1>2, <2>1
<1> HIDE DEF e, f
<1>5. /\ e.names = d.names /\ e.images = d.images
      /\ e.file[i] = f /\ \A k \in Ids \ {i} : e.file[k] = d.file[k]
      /\ e \in Disk(R)
      BY <1>2, <1>3 DEF DiskType, Disk
<1>6. DiskType(e, R)
      BY <1>4, <1>5 DEF DiskType
<1> QED BY <1>2, <1>5, <1>6 DEF e

LEMMA SyncFileFacts ==
    ASSUME NEW R, NEW d, DiskType(d, R), NEW i \in Ids
    PROVE  LET e == SyncFile(d, i) IN
           /\ DiskType(e, R)
           /\ e.names = d.names /\ e.images = d.images
           /\ e.file[i].data = d.file[i].data
           /\ e.file[i].synced = Len(d.file[i].data)
           /\ e.file[i].tail = d.file[i].tail
           /\ \A k \in Ids \ {i} : e.file[k] = d.file[k]
<1> DEFINE e == SyncFile(d, i)
           f == [d.file[i] EXCEPT !.synced = Len(d.file[i].data)]
<1>1. d.file[i] \in File(R) /\ Len(d.file[i].data) \in Nat
      BY DiskFacts
<1>2. /\ f \in File(R) /\ f.data = d.file[i].data
      /\ f.synced = Len(d.file[i].data) /\ f.tail = d.file[i].tail
      BY <1>1 DEF File
<1>3. e = [d EXCEPT !.file = [d.file EXCEPT ![i] = f]]
      BY DEF SyncFile, DiskType, Disk
<1> HIDE DEF e, f
<1>4. /\ e.names = d.names /\ e.images = d.images
      /\ e.file[i] = f /\ \A k \in Ids \ {i} : e.file[k] = d.file[k]
      /\ e \in Disk(R)
      BY <1>2, <1>3 DEF DiskType, Disk
<1>5. DiskType(e, R)
      BY <1>1, <1>2, <1>4 DEF DiskType
<1> QED BY <1>2, <1>4, <1>5 DEF e

LEMMA SetLenFacts ==
    ASSUME NEW R, NEW d, DiskType(d, R), NEW i \in Ids
    PROVE  LET e == SetLen(d, i) IN
           /\ DiskType(e, R)
           /\ e.names = d.names /\ e.images = d.images
           /\ e.file[i].data = d.file[i].data
           /\ e.file[i].synced = d.file[i].synced
           /\ e.file[i].tail = "none"
           /\ \A k \in Ids \ {i} : e.file[k] = d.file[k]
<1> DEFINE e == SetLen(d, i)
           f == [d.file[i] EXCEPT !.tail = "none"]
<1>1. d.file[i] \in File(R) /\ Len(d.file[i].data) \in Nat
      BY DiskFacts
<1>2. /\ f \in File(R) /\ f.data = d.file[i].data
      /\ f.synced = d.file[i].synced /\ f.tail = "none"
      BY <1>1 DEF File, Tails
<1>3. e = [d EXCEPT !.file = [d.file EXCEPT ![i] = f]]
      BY DEF SetLen, DiskType, Disk
<1> HIDE DEF e, f
<1>4. /\ e.names = d.names /\ e.images = d.images
      /\ e.file[i] = f /\ \A k \in Ids \ {i} : e.file[k] = d.file[k]
      /\ e \in Disk(R)
      BY <1>2, <1>3 DEF DiskType, Disk
<1>5. DiskType(e, R)
      BY <1>1, <1>2, <1>4 DEF DiskType
<1> QED BY <1>2, <1>4, <1>5 DEF e

(* What is left of one file: all that was synced and perhaps more of it,   *)
(* and a whole file as it was.                                             *)
LEMMA FileImageFacts ==
    ASSUME NEW R, NEW f \in File(R), f.synced <= Len(f.data),
           NEW g \in FileImages(f)
    PROVE  /\ g \in File(R)
           /\ Len(g.data) \in f.synced..Len(f.data)
           /\ g.data = SubSeq(f.data, 1, Len(g.data))
           /\ g.synced = Len(g.data)
           /\ f.synced = Len(f.data) /\ f.tail = "none" => g = f
<1>1. f.data \in Seq(R) /\ f.synced \in Nat /\ f.tail \in Tails
      /\ Len(f.data) \in Nat
      BY DEF File
<1>2. "none" \in Tails /\ TornTails \subseteq Tails
      BY DiskAssumption DEF Tails
<1>3. \E k \in f.synced..Len(f.data), t \in TornTails \union {"none"} :
          /\ g = Cut(f, k, t)
          /\ k = Len(f.data) /\ f.tail = "none" => t = "none"
  <2> DEFINE Later(k) == {Cut(f, k, t) : t \in TornTails \union {"none"}}
             Rests == IF f.tail = "none" THEN {"none"}
                      ELSE TornTails \union {"none"}
             Ks == f.synced..(Len(f.data) - 1)
  <2>1. FileImages(f) = (UNION {Later(k) : k \in Ks})
                        \union {Cut(f, Len(f.data), t) : t \in Rests}
        BY DEF FileImages
  <2>2. CASE g \in UNION {Later(k) : k \in Ks}
    <3> HIDE DEF Later, Ks
    <3>1. PICK k \in Ks : g \in Later(k)
          BY <2>2
    <3> QED BY <1>1, <3>1 DEF Later, Ks
  <2>3. CASE g \in {Cut(f, Len(f.data), t) : t \in Rests}
    <3>1. PICK t \in Rests : g = Cut(f, Len(f.data), t)
          BY <2>3
    <3>2. Len(f.data) \in f.synced..Len(f.data)
          BY <1>1
    <3>3. t \in TornTails \union {"none"} /\ (f.tail = "none" => t = "none")
          BY <3>1
    <3> QED BY <3>1, <3>2, <3>3
  <2> QED BY <2>1, <2>2, <2>3
<1>4. PICK k \in f.synced..Len(f.data), t \in TornTails \union {"none"} :
          /\ g = Cut(f, k, t)
          /\ k = Len(f.data) /\ f.tail = "none" => t = "none"
      BY <1>3
<1>5. SubSeq(f.data, 1, k) \in Seq(R) /\ Len(SubSeq(f.data, 1, k)) = k
      BY <1>1
<1>6. g.data = SubSeq(f.data, 1, k) /\ g.synced = k /\ g.tail = t
      BY <1>4 DEF Cut
<1>7. g \in File(R)
      BY <1>1, <1>2, <1>4, <1>5 DEF Cut, File
<1>8. ASSUME f.synced = Len(f.data), f.tail = "none" PROVE g = f
  <2>1. k = Len(f.data) /\ t = "none"
        BY <1>1, <1>4, <1>8
  <2>2. SubSeq(f.data, 1, k) = f.data
        BY <1>1, <2>1
  <2>3. f = [data |-> f.data, synced |-> f.synced, tail |-> f.tail]
        BY DEF File
  <2> QED BY <1>4, <1>8, <2>1, <2>2, <2>3 DEF Cut
<1> QED BY <1>1, <1>5, <1>6, <1>7, <1>8

LEMMA PowerLossFacts ==
    ASSUME NEW R, NEW d, DiskType(d, R), NEW e \in PowerLossImages(d)
    PROVE  /\ DiskType(e, R)
           /\ e.names \in d.images /\ e.images = {e.names}
           /\ \A i \in e.names :
                /\ Len(e.file[i].data)
                       \in d.file[i].synced..Len(d.file[i].data)
                /\ e.file[i].data =
                       SubSeq(d.file[i].data, 1, Len(e.file[i].data))
                /\ e.file[i].synced = Len(e.file[i].data)
                /\ Whole(d, i) => e.file[i] = d.file[i]
           /\ \A i \in Ids \ e.names : e.file[i] = NoFile
<1>1. PICK dir \in d.images : \E loss \in Losses(d, dir) :
          e = AfterLoss(d, dir, loss)
      BY DEF PowerLossImages
<1>2. dir \subseteq Ids
      BY DiskFacts
<1>3. /\ e.names = dir /\ e.images = {dir}
      /\ \A i \in dir : e.file[i] \in FileImages(d.file[i])
      /\ \A i \in Ids \ dir : e.file[i] = NoFile
      /\ e = [names |-> e.names, images |-> e.images, file |-> e.file]
      /\ e.file = [i \in Ids |-> e.file[i]]
  <2>1. PICK loss \in Losses(d, dir) : e = AfterLoss(d, dir, loss)
        BY <1>1
  <2>2. /\ \A i \in Torn(d, dir) : loss[i] \in FileImages(d.file[i])
        /\ Torn(d, dir) \subseteq dir
        /\ \A i \in dir : i \notin Torn(d, dir) =>
               d.file[i] \in FileImages(d.file[i])
        BY DEF Losses, Torn
  <2>3. /\ e.names = dir /\ e.images = {dir}
        /\ e.file = [i \in Ids |-> IF i \in Torn(d, dir) THEN loss[i]
                                   ELSE IF i \in dir THEN d.file[i]
                                   ELSE NoFile]
        /\ e = [names |-> e.names, images |-> e.images, file |-> e.file]
        BY <2>1 DEF AfterLoss
  <2>4. \A i \in dir : e.file[i] \in FileImages(d.file[i])
        BY <1>2, <2>2, <2>3
  <2>5. \A i \in Ids \ dir : e.file[i] = NoFile
        BY <2>2, <2>3
  <2> QED BY <2>3, <2>4, <2>5
<1>4. NoFile \in File(R) /\ NoFile.synced = 0 /\ NoFile.data = <<>>
      BY DEF NoFile, File, Tails
<1>5. ASSUME NEW i \in dir
      PROVE  /\ e.file[i] \in File(R)
             /\ Len(e.file[i].data) \in d.file[i].synced..Len(d.file[i].data)
             /\ e.file[i].data =
                    SubSeq(d.file[i].data, 1, Len(e.file[i].data))
             /\ e.file[i].synced = Len(e.file[i].data)
             /\ Whole(d, i) => e.file[i] = d.file[i]
  <2>1. d.file[i] \in File(R) /\ d.file[i].synced <= Len(d.file[i].data)
        BY <1>2 DEF DiskType, Disk
  <2>2. e.file[i] \in FileImages(d.file[i])
        BY <1>3
  <2> QED BY SMTT(60), <2>1, <2>2, FileImageFacts DEF Whole
<1>6. \A i \in Ids : /\ e.file[i] \in File(R)
                     /\ e.file[i].synced <= Len(e.file[i].data)
  <2>1. ASSUME NEW i \in dir
        PROVE  e.file[i].synced <= Len(e.file[i].data)
    <3>1. e.file[i].synced \in Nat
          BY <1>5 DEF File
    <3> QED BY <1>5, <3>1
  <2>2. ASSUME NEW i \in Ids \ dir
        PROVE  /\ e.file[i] \in File(R)
               /\ e.file[i].synced <= Len(e.file[i].data)
        BY <1>3, <1>4
  <2> QED BY <1>5, <2>1, <2>2
<1>7. e.file \in [Ids -> File(R)]
      BY <1>3, <1>6
<1>8. e \in Disk(R)
      BY <1>2, <1>3, <1>7 DEF Disk
<1>9. DiskType(e, R)
      BY <1>3, <1>6, <1>8 DEF DiskType
<1> QED BY <1>3, <1>5, <1>9

-----------------------------------------------------------------------------
(* The operations keep the rule.                                           *)

(* Chunks below j that did not get worse.                                  *)
LEMMA BelowKept ==
    ASSUME NEW d, NEW e, NEW dir, NEW j, Below(d, dir, j),
           \A i \in dir : i < j => /\ Whole(d, i) => Whole(e, i)
                                   /\ EndOf(e, i) = EndOf(d, i)
    PROVE  Below(e, dir, j)
BY DEF Below

(* A file keeps its end, whether it is used, and whether it is whole.      *)
LEMMA SameFile ==
    ASSUME NEW d, NEW e, NEW i, e.file[i] = d.file[i]
    PROVE  /\ EndOf(e, i) = EndOf(d, i) /\ (Used(e, i) <=> Used(d, i))
           /\ Whole(e, i) <=> Whole(d, i)
BY DEF EndOf, Used, Whole

(* create_new of a chunk that no directory has records of.                 *)
LEMMA CreateKeepsRule ==
    ASSUME NEW R, NEW d, DiskType(d, R), DiskInv(d), NEW i \in Ids,
           \A dir \in d.images : i \in dir => ~Used(d, i)
    PROVE  DiskInv(CreateFile(d, i))
<1> DEFINE e == CreateFile(d, i)
<1>1. /\ e.names = d.names \union {i}
      /\ e.images = d.images \union {d.names \union {i}}
      /\ e.file[i] = NoFile /\ \A k \in Ids \ {i} : e.file[k] = d.file[k]
      BY CreateFileFacts
<1>2. /\ d.names \subseteq Ids /\ \A dir \in d.images : dir \subseteq Ids
      /\ Ids \subseteq Nat /\ d.names \in d.images
      BY DiskFacts
<1> HIDE DEF e
<1>3. Whole(e, i) /\ ~Used(e, i) /\ EndOf(e, i) = i
      BY <1>1, <1>2 DEF Whole, Used, EndOf, NoFile
<1>4. \A dir \in d.images : \A k \in dir :
          /\ EndOf(e, k) = EndOf(d, k)
          /\ Used(e, k) <=> Used(d, k)
          /\ Whole(d, k) => Whole(e, k)
  <2>1. ASSUME NEW k \in Ids \ {i}
        PROVE  /\ EndOf(e, k) = EndOf(d, k) /\ (Used(e, k) <=> Used(d, k))
               /\ Whole(d, k) => Whole(e, k)
        BY <1>1, <2>1, SameFile
  <2>2. ASSUME NEW dir \in d.images, i \in dir
        PROVE  ~Used(d, i) /\ EndOf(d, i) = i
        BY <2>2, DiskFacts
  <2> QED BY <1>2, <1>3, <2>1, <2>2
<1>5. ImageRule(e)
  <2>1. ASSUME NEW dir \in d.images, NEW j \in dir, Used(e, j)
        PROVE  Below(e, dir, j)
    <3>1. Below(d, dir, j)
          BY <1>4, <2>1 DEF DiskInv, ImageRule
    <3> QED BY <1>4, <3>1, BelowKept
  <2>2. ASSUME NEW j \in d.names \union {i}, Used(e, j)
        PROVE  Below(e, d.names \union {i}, j)
    <3>1. j \in d.names
          BY <1>3, <2>2
    <3>2. Below(e, d.names, j)
          BY <1>2, <2>1, <2>2, <3>1
    <3>3. i \in Nat /\ j \in Nat
          BY <1>2, <3>1
    <3>4. i < j => i <= j
          BY <3>3
    <3> QED BY <1>3, <3>2, <3>4 DEF Below
  <2>3. ASSUME NEW dir \in e.images, NEW j \in dir, Used(e, j)
        PROVE  Below(e, dir, j)
    <3>1. dir \in d.images \/ dir = d.names \union {i}
          BY <1>1
    <3>2. CASE dir \in d.images
          BY <2>1, <2>3, <3>2
    <3>3. CASE dir = d.names \union {i}
      <4>1. j \in d.names \union {i}
            BY <2>3, <3>3
      <4>2. Below(e, d.names \union {i}, j)
            BY <2>2, <2>3, <4>1
      <4> QED BY <3>3, <4>2
    <3> QED BY <3>1, <3>2, <3>3
  <2> QED BY <2>3 DEF ImageRule
<1>6. ImageTop(e)
  <2>1. ASSUME NEW dir \in d.images, NEW j \in dir, Used(e, j)
        PROVE  \E k \in e.names : j <= k /\ Used(e, k)
    <3>1. Used(d, j)
          BY <1>4, <2>1
    <3>2. PICK k \in d.names : j <= k /\ Used(d, k)
          BY <3>1 DEF DiskInv, ImageTop
    <3> QED BY <1>1, <1>2, <1>4, <3>2
  <2>2. ASSUME NEW j \in d.names \union {i}, Used(e, j)
        PROVE  \E k \in e.names : j <= k /\ Used(e, k)
    <3>1. j \in Nat
          BY <1>2
    <3> QED BY <1>1, <2>2, <3>1
  <2> QED BY <1>1, <2>1, <2>2 DEF ImageTop
<1>7. NameSynced(e)
      BY <1>1, <1>2, <1>3, <1>4 DEF DiskInv, NameSynced
<1> QED BY <1>5, <1>6, <1>7 DEF DiskInv, e

(* The removal of a chunk that no chunk before it relies on and that is    *)
(* not the last one with records.                                          *)
LEMMA RemoveKeepsRule ==
    ASSUME NEW R, NEW d, DiskType(d, R), DiskInv(d), NEW i \in Ids,
           \A k, j \in d.names :
               k /= i /\ EndOf(d, k) = i /\ k < j /\ Used(d, j) => j = i,
           Used(d, i) => \E k \in d.names : i < k /\ Used(d, k)
    PROVE  DiskInv(RemoveFile(d, i))
<1> DEFINE e == RemoveFile(d, i)
<1>1. /\ e.names = d.names \ {i} /\ e.images = d.images \union {d.names \ {i}}
      /\ e.file = d.file
      BY RemoveFileFacts
<1>2. /\ d.names \subseteq Ids /\ \A dir \in d.images : dir \subseteq Ids
      /\ Ids \subseteq Nat /\ d.names \in d.images
      BY DiskFacts
<1> HIDE DEF e
<1>3. \A k : /\ EndOf(e, k) = EndOf(d, k) /\ (Used(e, k) <=> Used(d, k))
             /\ Whole(e, k) <=> Whole(d, k)
      BY <1>1, SameFile
<1>4. ImageRule(e)
  <2>1. ASSUME NEW dir \in d.images, NEW j \in dir, Used(e, j)
        PROVE  Below(e, dir, j)
        BY <1>3, <2>1, BelowKept DEF DiskInv, ImageRule
  <2>2. ASSUME NEW j \in d.names \ {i}, Used(e, j)
        PROVE  Below(e, d.names \ {i}, j)
    <3>1. Below(e, d.names, j)
          BY <1>2, <2>1, <2>2
    <3>2. \A k \in d.names \ {i} : k < j => EndOf(e, k) /= i
          BY <1>3, <2>2
    <3> QED BY <3>1, <3>2 DEF Below
  <2> QED BY <1>1, <2>1, <2>2 DEF ImageRule
<1>5. ImageTop(e)
  <2>1. \A j \in d.names : Used(d, j) =>
            \E k \in e.names : j <= k /\ Used(e, k)
    <3>1. ASSUME NEW j \in d.names \ {i}, Used(d, j)
          PROVE  \E k \in e.names : j <= k /\ Used(e, k)
      <4>1. j <= j
            BY <1>2
      <4> QED BY <1>1, <1>3, <3>1, <4>1
    <3>2. ASSUME Used(d, i)
          PROVE  \E k \in e.names : i <= k /\ Used(e, k)
      <4>1. PICK k \in d.names : i < k /\ Used(d, k)
            BY <3>2
      <4>2. k \in Nat /\ i \in Nat
            BY <1>2
      <4>3. k /= i /\ i <= k
            BY <4>1, <4>2
      <4> QED BY <1>1, <1>3, <4>1, <4>3
    <3> QED BY <3>1, <3>2
  <2>2. ASSUME NEW dir \in e.images, NEW j \in dir, Used(e, j)
        PROVE  \E k \in d.names : j <= k /\ Used(d, k)
    <3>1. CASE dir \in d.images
          BY <1>3, <2>2, <3>1 DEF DiskInv, ImageTop
    <3>2. CASE dir = d.names \ {i}
          BY <1>2, <1>3, <2>2, <3>2
    <3> QED BY <1>1, <3>1, <3>2
  <2>3. ASSUME NEW dir \in e.images, NEW j \in dir, Used(e, j)
        PROVE  \E k \in e.names : j <= k /\ Used(e, k)
    <3>1. PICK k \in d.names : j <= k /\ Used(d, k)
          BY <2>2, <2>3
    <3>2. PICK m \in e.names : k <= m /\ Used(e, m)
          BY <2>1, <3>1
    <3>3. j \in Nat /\ k \in Nat /\ m \in Nat
          BY <1>1, <1>2, <2>3
    <3> QED BY <3>1, <3>2, <3>3
  <2> QED BY <2>3 DEF ImageTop
<1>6. NameSynced(e)
      BY <1>1, <1>3 DEF DiskInv, NameSynced
<1> QED BY <1>4, <1>5, <1>6 DEF DiskInv, e

(* sync_dir.                                                               *)
LEMMA SyncDirKeepsRule ==
    ASSUME NEW R, NEW d, DiskType(d, R), DiskInv(d)
    PROVE  DiskInv(SyncDir(d))
<1> DEFINE e == SyncDir(d)
<1>1. /\ e.names = d.names /\ e.images = {d.names}
      /\ \A k \in d.names : e.file[k] = d.file[k]
      BY SyncDirFacts
<1>2. d.names \subseteq Ids /\ Ids \subseteq Nat /\ d.names \in d.images
      BY DiskFacts
<1> HIDE DEF e
<1>3. \A k \in d.names :
          /\ EndOf(e, k) = EndOf(d, k) /\ (Used(e, k) <=> Used(d, k))
          /\ Whole(e, k) <=> Whole(d, k)
      BY <1>1, SameFile
<1>4. ASSUME NEW j \in d.names, Used(e, j)
      PROVE  Below(e, d.names, j)
  <2>1. Below(d, d.names, j)
        BY <1>2, <1>3, <1>4 DEF DiskInv, ImageRule
  <2> QED BY <1>3, <2>1, BelowKept
<1>5. ImageTop(e)
  <2>1. \A j \in e.names : j \in Nat
        BY <1>1, <1>2
  <2>2. \A j \in e.names : j <= j
        BY <2>1
  <2> QED BY <1>1, <2>2 DEF ImageTop
<1> QED BY <1>1, <1>4, <1>5 DEF DiskInv, ImageRule, NameSynced, e

(* A write to a chunk whose name is synced, after whole chunks and before  *)
(* empty ones.                                                             *)
LEMMA WriteKeepsRule ==
    ASSUME NEW R, NEW d, DiskType(d, R), DiskInv(d), NEW i \in d.names,
           NEW recs \in Seq(R), NEW tail \in Tails,
           \A dir \in d.images : /\ i \in dir /\ Below(d, dir, i)
                                 /\ \A j \in dir : i < j => ~Used(d, j)
    PROVE  DiskInv(WriteFile(d, i, recs, tail))
<1> DEFINE e == WriteFile(d, i, recs, tail)
<1>1. /\ d.names \subseteq Ids /\ \A dir \in d.images : dir \subseteq Ids
      /\ Ids \subseteq Nat /\ d.names \in d.images
      BY DiskFacts
<1>2. /\ e.names = d.names /\ e.images = d.images
      /\ e.file[i].data = d.file[i].data \o recs
      /\ \A k \in Ids \ {i} : e.file[k] = d.file[k]
  <2>1. i \in Ids
        BY <1>1
  <2> QED BY <2>1, WriteFileFacts
<1> HIDE DEF e
<1>3. \A k \in Ids \ {i} :
          /\ EndOf(e, k) = EndOf(d, k) /\ (Used(e, k) <=> Used(d, k))
          /\ Whole(e, k) <=> Whole(d, k)
      BY <1>2, SameFile
<1>4. Used(d, i) => Used(e, i)
  <2>1. d.file[i].data \in Seq(R)
        BY <1>1, DiskFacts
  <2> QED BY <1>2, <2>1 DEF Used
<1>5. ASSUME NEW dir \in e.images, NEW j \in dir, Used(e, j)
      PROVE  /\ Below(e, dir, j)
             /\ \E k \in e.names : j <= k /\ Used(e, k)
  <2>1. i \in dir /\ Below(d, dir, i) /\ dir \subseteq Ids /\ dir \in d.images
        BY <1>1, <1>2
  <2>2. j <= i
        BY <1>1, <1>2, <1>3, <1>5, <2>1
  <2>3. Below(d, dir, j)
        BY <1>3, <1>5, <2>1, <2>2 DEF DiskInv, ImageRule
  <2>4. \A k \in dir : k < j => k \in Ids \ {i}
        BY <1>1, <2>1, <2>2
  <2>5. Below(e, dir, j)
        BY <1>3, <2>3, <2>4, BelowKept
  <2>6. CASE Used(e, i)
        BY <1>2, <2>2, <2>5, <2>6
  <2>7. CASE ~Used(e, i)
    <3>1. j /= i /\ Used(d, j)
          BY <1>3, <1>5, <2>1, <2>7
    <3>2. PICK k \in d.names : j <= k /\ Used(d, k)
          BY <2>1, <3>1 DEF DiskInv, ImageTop
    <3>3. k /= i
          BY <1>4, <2>7, <3>2
    <3> QED BY <1>1, <1>2, <1>3, <2>5, <3>2, <3>3
  <2> QED BY <2>6, <2>7
<1>6. NameSynced(e)
      BY <1>1, <1>2, <1>3 DEF DiskInv, NameSynced
<1> QED BY <1>5, <1>6 DEF DiskInv, ImageRule, ImageTop, e

(* A sync, or a truncation to the whole records.                           *)
LEMMA RepairKeepsRule ==
    ASSUME NEW R, NEW d, DiskType(d, R), DiskInv(d), NEW i \in Ids,
           NEW e \in {SyncFile(d, i), SetLen(d, i)}
    PROVE  DiskInv(e)
<1>1. d.names \subseteq Ids /\ \A dir \in d.images : dir \subseteq Ids
      BY DiskFacts
<1>2. /\ e.names = d.names /\ e.images = d.images
      /\ e.file[i].data = d.file[i].data
      /\ Whole(d, i) => Whole(e, i)
      /\ \A k \in Ids \ {i} : e.file[k] = d.file[k]
  <2>1. CASE e = SyncFile(d, i)
        BY <2>1, SyncFileFacts DEF Whole
  <2>2. CASE e = SetLen(d, i)
        BY <2>2, SetLenFacts DEF Whole
  <2> QED BY <2>1, <2>2
<1>3. \A k \in Ids : /\ EndOf(e, k) = EndOf(d, k)
                     /\ Used(e, k) <=> Used(d, k)
                     /\ Whole(d, k) => Whole(e, k)
  <2>1. ASSUME NEW k \in Ids \ {i}
        PROVE  /\ EndOf(e, k) = EndOf(d, k) /\ (Used(e, k) <=> Used(d, k))
               /\ Whole(d, k) => Whole(e, k)
        BY <1>2, <2>1, SameFile
  <2>2. EndOf(e, i) = EndOf(d, i) /\ (Used(e, i) <=> Used(d, i))
        BY <1>2 DEF EndOf, Used
  <2> QED BY <1>2, <2>1, <2>2
<1>4. ASSUME NEW dir \in e.images, NEW j \in dir, Used(e, j)
      PROVE  /\ Below(e, dir, j)
             /\ \E k \in e.names : j <= k /\ Used(e, k)
  <2>1. dir \in d.images /\ dir \subseteq Ids /\ Used(d, j)
        BY <1>1, <1>2, <1>3, <1>4
  <2>2. Below(d, dir, j)
        BY <2>1 DEF DiskInv, ImageRule
  <2>3. Below(e, dir, j)
        BY <1>3, <2>1, <2>2, BelowKept
  <2>4. PICK k \in d.names : j <= k /\ Used(d, k)
        BY <2>1 DEF DiskInv, ImageTop
  <2> QED BY <1>1, <1>2, <1>3, <2>3, <2>4
<1>5. NameSynced(e)
      BY <1>1, <1>2, <1>3 DEF DiskInv, NameSynced
<1> QED BY <1>4, <1>5 DEF DiskInv, ImageRule, ImageTop

(* A power loss.                                                           *)
LEMMA PowerLossKeepsRule ==
    ASSUME NEW R, NEW d, DiskType(d, R), DiskInv(d),
           NEW e \in PowerLossImages(d)
    PROVE  DiskInv(e)
<1>1. /\ DiskType(e, R) /\ e.names \in d.images /\ e.images = {e.names}
      /\ \A i \in e.names :
           /\ Len(e.file[i].data) \in d.file[i].synced..Len(d.file[i].data)
           /\ e.file[i].data = SubSeq(d.file[i].data, 1, Len(e.file[i].data))
           /\ Whole(d, i) => e.file[i] = d.file[i]
      BY PowerLossFacts
<1>2. e.names \subseteq Ids /\ Ids \subseteq Nat
      BY <1>1, DiskFacts
<1>3. \A i \in e.names : Used(e, i) => Used(d, i)
  <2>1. ASSUME NEW i \in e.names, ~Used(d, i)
        PROVE  ~Used(e, i)
    <3>1. Len(d.file[i].data) = 0 /\ d.file[i].synced \in Nat
      <4>1. i \in Ids
            BY <1>2
      <4>2. d.file[i].synced \in 0..Len(d.file[i].data)
            BY <4>1, DiskFacts
      <4>3. d.file[i].data = <<>>
            BY <2>1 DEF Used
      <4> QED BY <4>2, <4>3
    <3>2. Len(e.file[i].data) = 0
          BY <1>1, <3>1
    <3>3. e.file[i].data \in Seq(R)
          BY <1>1, <1>2, DiskFacts
    <3> QED BY <3>2, <3>3 DEF Used
  <2> QED BY <2>1
<1>4. ASSUME NEW j \in e.names, Used(e, j)
      PROVE  Below(e, e.names, j)
  <2>1. Below(d, e.names, j)
        BY <1>1, <1>3, <1>4 DEF DiskInv, ImageRule
  <2>2. \A i \in e.names : i < j => e.file[i] = d.file[i]
        BY <1>1, <2>1 DEF Below
  <2> QED BY <2>1, <2>2, BelowKept, SameFile
<1>5. ImageTop(e)
  <2>1. ASSUME NEW j \in e.names PROVE j <= j
    <3>1. j \in Nat
          BY <1>2
    <3> QED BY <3>1
  <2> QED BY <1>1, <2>1 DEF ImageTop
<1> QED BY <1>1, <1>4, <1>5 DEF DiskInv, ImageRule, NameSynced

-----------------------------------------------------------------------------
(* Types.                                                                  *)


(* The worker has its files, its batch and its request when it needs them, *)
(* and nothing when it is gone.                                            *)
Control ==
    /\ rx <=> wpc \notin {"none", "done", "dead"}
    /\ rx => pc \in UpPCs /\ files /= <<>>
    /\ ~rx => /\ queue = <<>> /\ files = <<>> /\ batch = <<>>
              /\ nonFlush = NoReq /\ result = "ok"
    /\ wpc = "none" <=> pc \in OpenPCs
    /\ wpc = "write" => wrote < Len(batch)
    /\ wpc /= "write" => wrote = 0
    /\ wpc = "sync" => batch /= <<>>
    /\ result = "err" => wpc \in {"callbacks", "stop"}

(* What the requests in hand may be.                                       *)
Requests ==
    /\ wpc \in {"recv", "rmsync", "quit"} => nonFlush = NoReq
    /\ wpc = "nonflush" => nonFlush /= NoReq
    /\ nonFlush /= NoReq => nonFlush.kind \in {"append", "remove"}
    /\ nonFlush.kind = "remove" => nonFlush.ids /= {}
    /\ \A k \in 1..Len(queue) :
          /\ queue[k].kind /= "none"
          /\ queue[k].kind = "remove" => queue[k].ids /= {}
    /\ \A k \in 1..Len(batch) : batch[k].kind = "write"

(* The pending buffer is part of the open chunk, and a closed chunk ends   *)
(* after its start.  The chunk that the owner is about to read, create or  *)
(* close.                                                                  *)
Locals ==
    /\ Len(open.pending) <= open.n
    /\ \A c \in closed : c.id <= c.end
    /\ pc \in {"rot_sync", "rot_append"} => OpenEnd \in Ids
    /\ pc = "rot_cp" => rec.prev \in Ids /\ rec.prev <= open.id
    /\ pc \in {"truncsync", "replay"} => rec.todo /= {}
    /\ pc \in {"newsync", "newwrite"} => NewChunkId \in Ids

(* The locals of open_locked and of try_close_full_chunk.                  *)
OpenLocals ==
    [todo : SUBSET Ids, prev : Nat \union {-1}, truncate : BOOLEAN,
     truncated : BOOLEAN, n : Nat, sm : Seq(1..MaxActions)]

TInv == TypeOK /\ Control /\ Requests /\ Locals

-----------------------------------------------------------------------------
(* Smallest and largest elements.                                          *)
LEMMA MinFacts ==
    ASSUME NEW S \in SUBSET Nat, S /= {}
    PROVE  Min(S) \in S /\ \A x \in S : Min(S) <= x
<1> DEFINE L == OpToRel(<, Nat)
<1>1. IsWellFoundedOn(L, Nat)
      BY NatLessThanWellFounded
<1>2. PICK x \in S : \A y \in S : ~(<<y, x>> \in L)
  <2> HIDE DEF L
  <2> QED BY <1>1, WFMin
<1>3. ASSUME NEW y \in S PROVE x <= y
  <2>1. x \in Nat /\ y \in Nat
        OBVIOUS
  <2>2. y < x => <<y, x>> \in L
        BY <2>1 DEF OpToRel
  <2> HIDE DEF L
  <2> QED BY <1>2, <2>1, <2>2
<1>4. \E y \in S : \A z \in S : y <= z
      BY <1>3
<1> QED BY <1>4 DEF Min

LEMMA MaxFacts ==
    ASSUME NEW n \in Nat, NEW S \in SUBSET (0..n), S /= {}
    PROVE  Max(S) \in S /\ \A x \in S : x <= Max(S)
<1> DEFINE T == {n - x : x \in S}
<1>1. T \subseteq Nat /\ T /= {}
  <2>1. \A x \in S : n - x \in Nat
        OBVIOUS
  <2>2. PICK x : x \in S
        OBVIOUS
  <2>3. n - x \in T
        BY <2>2
  <2> QED BY <2>1, <2>3
<1>2. Min(T) \in T /\ \A y \in T : Min(T) <= y
  <2> HIDE DEF T
  <2> QED BY <1>1, MinFacts
<1>3. PICK m \in S : n - m = Min(T)
      BY <1>2
<1>4. \A x \in S : m >= x
  <2>1. ASSUME NEW x \in S PROVE m >= x
    <3>1. n - x \in T
          OBVIOUS
    <3>2. n - m <= n - x
          BY <1>2, <1>3, <3>1
    <3>3. m \in Nat /\ x \in Nat
          OBVIOUS
    <3> QED BY <3>2, <3>3
  <2> QED BY <2>1
<1>5. Max(S) \in S /\ \A x \in S : Max(S) >= x
      BY <1>4 DEF Max
<1>6. \A x \in S : x \in Nat
      OBVIOUS
<1> QED BY <1>5, <1>6

(* Induction over the naturals, for the members of a set.                  *)
LEMMA NatSetInduction ==
    ASSUME NEW S, 0 \in S, \A n \in Nat : n \in S => n + 1 \in S
    PROVE  Nat \subseteq S
<1> DEFINE T == Nat \ S
<1>1. SUFFICES ASSUME T /= {} PROVE FALSE
      OBVIOUS
<1>2. Min(T) \in T /\ \A y \in T : Min(T) <= y
  <2>1. T \subseteq Nat
        OBVIOUS
  <2> HIDE DEF T
  <2> QED BY <1>1, <2>1, MinFacts
<1>3. PICK x \in T : \A y \in T : x <= y
      BY <1>2
<1>4. x \in Nat /\ x /= 0
      OBVIOUS
<1>5. x - 1 \in Nat /\ x - 1 \in T
      BY <1>4
<1> QED BY <1>3, <1>4, <1>5

(* Finitely many naturals have a bound.                                    *)
LEMMA Bounded ==
    ASSUME NEW n \in Nat, NEW f \in [1..n -> Nat]
    PROVE  \E b \in Nat : \A i \in 1..n : f[i] <= b
<1> DEFINE P(m) == \A g \in [1..m -> Nat] :
                      \E b \in Nat : \A i \in 1..m : g[i] <= b
           S == {m \in Nat : P(m)}
<1>1. 0 \in S
      OBVIOUS
<1>2. ASSUME NEW m \in Nat, m \in S PROVE m + 1 \in S
  <2>1. ASSUME NEW g \in [1..(m + 1) -> Nat]
        PROVE  \E b \in Nat : \A i \in 1..(m + 1) : g[i] <= b
    <3>1. [i \in 1..m |-> g[i]] \in [1..m -> Nat]
          OBVIOUS
    <3>2. PICK b \in Nat : \A i \in 1..m : [j \in 1..m |-> g[j]][i] <= b
          BY <1>2, <3>1
    <3>3. g[m + 1] \in Nat /\ \A i \in 1..(m + 1) : i \in 1..m \/ i = m + 1
          OBVIOUS
    <3>4. \A i \in 1..m : g[i] <= b /\ g[i] \in Nat
          BY <3>2
    <3>5. b + g[m + 1] \in Nat
          BY <3>3
    <3>6. \A i \in 1..(m + 1) : g[i] <= b + g[m + 1]
          BY <3>3, <3>4
    <3> QED BY <3>5, <3>6
  <2>2. P(m + 1)
        BY <2>1
  <2> HIDE DEF P
  <2> QED BY <2>2
<1>3. Nat \subseteq S
  <2> HIDE DEF S
  <2> QED BY <1>1, <1>2, NatSetInduction
<1>4. n \in S
      BY <1>3
<1> QED BY <1>4

-----------------------------------------------------------------------------
(* The requests have their type.                                           *)
LEMMA NoReqType == NoReq \in WorkerRequest /\ NoReq.kind = "none"
BY DiskAssumption DEF NoReq, WorkerRequest, Ids

LEMMA WriteReqType ==
    ASSUME NEW id \in Ids, NEW upto \in Nat, NEW data \in Seq(Record),
           NEW sync \in BOOLEAN, NEW cb \in BOOLEAN, NEW len \in Nat
    PROVE  WriteReq(id, upto, data, sync, cb, len) \in WorkerRequest
BY DEF WriteReq, WorkerRequest

LEMMA AppendFileReqType ==
    ASSUME NEW i \in Ids
    PROVE  AppendFileReq(i) \in WorkerRequest
<1>1. i \in Nat /\ <<>> \in Seq(Record)
      BY DiskAssumption DEF Ids
<1> QED BY <1>1 DEF AppendFileReq, WorkerRequest

LEMMA RemoveReqType ==
    ASSUME NEW id \in Ids, NEW upto \in Nat, NEW ids \in SUBSET Ids
    PROVE  RemoveReq(id, upto, ids) \in WorkerRequest
<1>1. <<>> \in Seq(Record)
      OBVIOUS
<1> QED BY <1>1 DEF RemoveReq, WorkerRequest

(* The locals have theirs.                                                 *)
LEMMA NoRecType == NoRec \in OpenLocals
BY DEF NoRec, OpenLocals

(* The records have theirs.                                                *)
LEMMA RecordTypes ==
    /\ \A a \in 1..MaxActions : Action(a) \in Record
    /\ \A s \in Seq(1..MaxActions) : Checkpoint(s) \in Record
    /\ \A s \in Seq(1..MaxActions), r \in Record :
          Apply(s, r) \in Seq(1..MaxActions)
<1>1. \A a \in 1..MaxActions : <<a>> \in Seq(1..MaxActions)
      OBVIOUS
<1>2. \A a \in 1..MaxActions : Action(a) \in Record
      BY <1>1 DEF Action, Record
<1>3. \A s \in Seq(1..MaxActions) : Checkpoint(s) \in Record
      BY DEF Checkpoint, Record
<1>4. \A s \in Seq(1..MaxActions), r \in Record :
          Apply(s, r) \in Seq(1..MaxActions)
  <2>1. ASSUME NEW s \in Seq(1..MaxActions), NEW r \in Record
        PROVE  Apply(s, r) \in Seq(1..MaxActions)
    <3>1. r.values \in Seq(1..MaxActions)
          BY DEF Record
    <3>2. s \o r.values \in Seq(1..MaxActions)
          BY <3>1
    <3> QED BY <3>1, <3>2 DEF Apply
  <2> QED BY <2>1
<1> QED BY <1>2, <1>3, <1>4

(* The directory, as a disk of records.                                    *)
LEMMA FsDisk == FsType <=> DiskType(fs, Record)
BY DEF FsType, DiskType, Disk, File

LEMMA FsDiskNext == FsType' <=> DiskType(fs', Record)
BY DEF FsType, DiskType, Disk, File

(* Prefixes and rests of a sequence.                                       *)
LEMMA SubSeqType ==
    ASSUME NEW S, NEW s \in Seq(S), NEW m \in Nat, NEW n \in Nat,
           1 <= m, n <= Len(s)
    PROVE  /\ SubSeq(s, m, n) \in Seq(S)
           /\ Len(SubSeq(s, m, n)) = IF m <= n THEN n - m + 1 ELSE 0
           /\ \A k \in 1..Len(SubSeq(s, m, n)) :
                  SubSeq(s, m, n)[k] = s[m + k - 1]
OBVIOUS

(* The worker's last file.                                                 *)
LEMMA LastFileType ==
    ASSUME TInv, rx
    PROVE  LastFile \in Ids /\ Len(files) \in Nat \ {0} /\ LastFile = files[Len(files)]
BY DEF TInv, TypeOK, WorkerType, Control, LastFile, Last

(* A choice of write data for the last file.                               *)
LEMMA BatchFacts ==
    ASSUME TInv, wpc = "write"
    PROVE  /\ wrote + 1 \in 1..Len(batch) /\ batch[wrote + 1] \in WorkerRequest
           /\ NextData \in Seq(Record) /\ LastFile \in Ids
<1>1. wrote \in Nat /\ wrote < Len(batch) /\ batch \in Seq(WorkerRequest)
      BY DEF TInv, TypeOK, WorkerType, Control
<1>2. wrote + 1 \in 1..Len(batch) /\ batch[wrote + 1] \in WorkerRequest
      BY <1>1
<1>3. NextData \in Seq(Record)
      BY <1>2 DEF NextData, WorkerRequest
<1>4. rx
      BY DEF TInv, Control
<1> QED BY <1>2, <1>3, <1>4, LastFileType

(* What the callbacks vouch for.                                           *)
LEMMA VouchedType ==
    ASSUME TInv, NEW S \in SUBSET (1..Len(batch))
    PROVE  Vouched(S) \in Nat
<1> DEFINE n == Len(batch)
           f == [i \in 1..n |-> batch[i].len]
           V == {0} \union {batch[i].len : i \in S}
<1>1. n \in Nat /\ \A i \in 1..n : batch[i].len \in Nat
  <2>1. batch \in Seq(WorkerRequest)
        BY DEF TInv, TypeOK, WorkerType
  <2>2. \A i \in 1..n : batch[i] \in WorkerRequest
        BY <2>1
  <2> QED BY <2>1, <2>2 DEF WorkerRequest
<1>2. f \in [1..n -> Nat] /\ \A i \in 1..n : f[i] = batch[i].len
      BY <1>1
<1>3. PICK b \in Nat : \A i \in 1..n : f[i] <= b
  <2> HIDE DEF f, n
  <2> QED BY <1>1, <1>2, Bounded
<1>4. V \in SUBSET (0..b) /\ V /= {}
      BY <1>1, <1>2, <1>3
<1>5. Max(V) \in V
  <2> HIDE DEF V
  <2> QED BY <1>4, MaxFacts
<1>6. Max(V) \in Nat
  <2>1. \A x \in V : x \in Nat
        BY <1>4
  <2> HIDE DEF V
  <2> QED BY <1>5, <2>1
<1> QED BY <1>6 DEF Vouched

LEMMA MaxOfType ==
    ASSUME NEW a \in Nat, NEW b \in Nat
    PROVE  MaxOf(a, b) \in Nat /\ MaxOf(a, b) >= a /\ MaxOf(a, b) >= b
BY DEF MaxOf

-----------------------------------------------------------------------------
(* The worker's steps.                                                     *)
LEMMA RecvTypes == ASSUME TInv, Recv PROVE TInv'
<1>1. /\ FsType' /\ OwnerType' /\ HistoryType' /\ Locals'
      BY SMTT(60)
      DEF TInv, TypeOK, FsType, OwnerType, HistoryType, Locals, Recv,
             mainVars, histVars, boundVars, OpenEnd, NewChunkId
<1>2. /\ queue \in Seq(WorkerRequest) /\ Len(queue) <= MaxQueue
      /\ Len(queue) \in Nat \ {0} /\ MaxQueue \in Nat /\ MaxBatch \in Nat
      /\ wpc = "recv" /\ nonFlush = NoReq /\ wrote = 0 /\ rx /\ result = "ok"
      BY WalAssumption DEF TInv, TypeOK, WorkerType, Control, Requests, Recv
<1>3. UNCHANGED <<pc, files, wrote, result, rx>>
      BY DEF Recv, mainVars
<1>4. CASE TakeNonFlush
  <2>1. /\ Head(queue) \in WorkerRequest /\ Head(queue) = queue[1]
        /\ Tail(queue) \in Seq(WorkerRequest)
        /\ Len(Tail(queue)) = Len(queue) - 1
        /\ \A k \in 1..Len(Tail(queue)) : Tail(queue)[k] = queue[k + 1]
        BY <1>2
  <2>2. batch' = <<>> /\ nonFlush' = queue[1] /\ queue' = Tail(queue)
        /\ wpc' = "nonflush" /\ queue[1].kind /= "write"
        BY <1>4, <2>1 DEF TakeNonFlush
  <2>3. WorkerType'
        BY <1>2, <1>3, <2>1, <2>2 DEF TInv, TypeOK, WorkerType, WorkerPCs
  <2>4. Control'
        BY <1>2, <1>3, <2>2 DEF TInv, Control, OpenPCs, UpPCs
  <2>5. /\ queue[1].kind /= "none"
        /\ queue[1].kind = "remove" => queue[1].ids /= {}
        /\ queue[1].kind \in {"none", "write", "append", "remove"}
        BY <1>2, <2>1 DEF TInv, Requests, WorkerRequest
  <2>6. \A k \in 1..Len(queue') :
            /\ queue'[k].kind /= "none"
            /\ queue'[k].kind = "remove" => queue'[k].ids /= {}
        BY <1>2, <2>1, <2>2 DEF TInv, Requests
  <2>7. Requests'
        BY <2>2, <2>5, <2>6, NoReqType DEF Requests
  <2> QED BY <1>1, <2>3, <2>4, <2>7 DEF TInv, TypeOK
<1>5. ASSUME NEW n \in 1..Len(queue), NEW ends \in BOOLEAN,
             TakeBatch(n, ends)
      PROVE  TInv'
  <2> DEFINE m == IF ends THEN n + 2 ELSE n + 1
  <2>1. /\ n \in Nat /\ n <= Len(queue) /\ 1 <= n /\ n <= MaxBatch
        /\ m \in Nat /\ 1 <= m
        /\ ends => n + 1 \in 1..Len(queue)
        BY <1>2, <1>5 DEF TakeBatch
  <2>2. /\ batch' \in Seq(WorkerRequest) /\ Len(batch') = n
        /\ \A k \in 1..n : batch'[k] = queue[k]
    <3>1. batch' = SubSeq(queue, 1, n)
          BY <1>5 DEF TakeBatch
    <3> QED BY <1>2, <2>1, <3>1, SubSeqType
  <2>3. /\ queue' \in Seq(WorkerRequest)
        /\ Len(queue') <= Len(queue)
        /\ \A k \in 1..Len(queue') : /\ queue'[k] = queue[m + k - 1]
                                     /\ m + k - 1 \in 1..Len(queue)
    <3>1. queue' = SubSeq(queue, m, Len(queue))
          BY <1>5 DEF TakeBatch
    <3> HIDE DEF m
    <3>2. /\ queue' \in Seq(WorkerRequest)
          /\ Len(queue') = IF m <= Len(queue) THEN Len(queue) - m + 1 ELSE 0
          /\ \A k \in 1..Len(queue') : queue'[k] = queue[m + k - 1]
          BY <1>2, <2>1, <3>1, SubSeqType
    <3> QED BY <1>2, <2>1, <3>2
  <2>4. /\ wpc' = "write"
        /\ nonFlush' = IF ends THEN queue[n + 1] ELSE NoReq
        /\ ends => queue[n + 1] \in WorkerRequest
        /\ ends => queue[n + 1].kind /= "write"
        BY <1>2, <1>5, <2>1 DEF TakeBatch
  <2>5. WorkerType'
        BY <1>2, <1>3, <2>1, <2>2, <2>3, <2>4, NoReqType
        DEF TInv, TypeOK, WorkerType, WorkerPCs
  <2>6. Control'
        BY <1>2, <1>3, <2>1, <2>2, <2>4 DEF TInv, Control, OpenPCs, UpPCs
  <2>7. \A k \in 1..Len(queue) :
            /\ queue[k].kind /= "none"
            /\ queue[k].kind = "remove" => queue[k].ids /= {}
            /\ queue[k].kind \in {"none", "write", "append", "remove"}
    <3>1. \A k \in 1..Len(queue) : queue[k] \in WorkerRequest
          BY <1>2
    <3>2. \A r \in WorkerRequest :
              r.kind \in {"none", "write", "append", "remove"}
          BY DEF WorkerRequest
    <3> QED BY <3>1, <3>2 DEF TInv, Requests
  <2>8. \A k \in 1..Len(queue') :
            /\ queue'[k].kind /= "none"
            /\ queue'[k].kind = "remove" => queue'[k].ids /= {}
        BY <2>3, <2>7
  <2>9. \A k \in 1..Len(batch') : batch'[k].kind = "write"
        BY <1>5, <2>2 DEF TakeBatch
  <2>10. Requests'
        BY <2>1, <2>4, <2>7, <2>8, <2>9, NoReqType DEF Requests
  <2> QED BY <1>1, <2>5, <2>6, <2>10 DEF TInv, TypeOK
<1> QED BY <1>4, <1>5 DEF Recv

LEMMA WriteTypes ==
    ASSUME TInv, WriteBatch \/ WriteBatchErr PROVE TInv'
<1>1. wpc = "write"
      BY DEF WriteBatch, WriteBatchErr
<1>2. /\ NextData \in Seq(Record) /\ LastFile \in Ids
      /\ DiskType(fs, Record) /\ Len(batch) \in Nat /\ wrote \in Nat
      /\ wrote < Len(batch)
      BY <1>1, BatchFacts, FsDisk DEF TInv, TypeOK, WorkerType, Control
<1>3. \A k \in 0..(Len(NextData) - 1) :
          SubSeq(NextData, 1, k) \in Seq(Record)
      BY <1>2, SubSeqType
<1>4. DiskType(fs', Record)
  <2>1. CASE WriteBatch
        BY <1>2, <2>1, WriteFileFacts DEF WriteBatch, Tails
  <2>2. CASE WriteBatchErr
    <3>1. PICK k \in 0..(Len(NextData) - 1), tail \in {"none", "short"} :
              fs' = WriteFile(fs, LastFile, SubSeq(NextData, 1, k), tail)
          BY <2>2 DEF WriteBatchErr
    <3>2. tail \in Tails
          BY DEF Tails
    <3> QED BY <1>2, <1>3, <3>1, <3>2, WriteFileFacts
  <2> QED BY <2>1, <2>2
<1>5. /\ OwnerType' /\ Locals'
      BY DEF TInv, TypeOK, OwnerType, Locals, WriteBatch, WriteBatchErr,
             mainVars, histVars, boundVars, OpenEnd, NewChunkId
<1>6. HistoryType'
      BY WalAssumption
      DEF TInv, TypeOK, HistoryType, WriteBatch, WriteBatchErr, Fault,
          histVars, boundVars
<1>7. /\ UNCHANGED <<pc, files, batch, nonFlush, queue, rx>>
      /\ wrote' \in Nat /\ result' \in {result, "err"}
      /\ wpc' = "write" => wrote' < Len(batch) /\ result' = result
      /\ wpc' /= "write" => wrote' = 0
      /\ wpc' \in {"write", "sync", "callbacks"}
      /\ result' = "err" => wpc' = "callbacks" \/ result = "err"
      BY <1>1, <1>2 DEF WriteBatch, WriteBatchErr, mainVars, chanVars
<1>8. WorkerType'
      BY <1>7 DEF TInv, TypeOK, WorkerType, WorkerPCs
<1>9. Control'
      BY <1>1, <1>2, <1>7 DEF TInv, Control, OpenPCs, UpPCs
<1>10. Requests'
      BY <1>1, <1>7 DEF TInv, Requests
<1> QED BY <1>4, <1>5, <1>6, <1>8, <1>9, <1>10, FsDiskNext DEF TInv, TypeOK

LEMMA SyncTypes ==
    ASSUME TInv, SyncOldFile \/ SyncLastFile \/ SyncErr PROVE TInv'
<1>1. wpc = "sync" /\ rx
      BY DEF SyncOldFile, SyncLastFile, SyncErr, TInv, Control
<1>2. /\ files \in Seq(Ids) /\ Len(files) \in Nat \ {0} /\ LastFile \in Ids
      /\ DiskType(fs, Record) /\ batch \in Seq(WorkerRequest)
      /\ batch /= <<>>
      BY <1>1, LastFileType, FsDisk DEF TInv, TypeOK, WorkerType, Control
<1>3. Head(files) \in Ids
      BY <1>2
<1>4. DiskType(fs', Record)
  <2>1. CASE SyncOldFile
        BY <1>2, <1>3, <2>1, SyncFileFacts DEF SyncOldFile
  <2>2. CASE SyncLastFile
        BY <1>2, <2>2, SyncFileFacts DEF SyncLastFile
  <2>3. CASE SyncErr
        BY <1>2, <2>3 DEF SyncErr
  <2> QED BY <2>1, <2>2, <2>3
<1>5. /\ OwnerType' /\ Locals'
      BY DEF TInv, TypeOK, OwnerType, Locals, SyncOldFile, SyncLastFile,
             SyncErr, mainVars, OpenEnd, NewChunkId
<1>6. HistoryType'
  <2>1. CASE SyncLastFile
    <3>1. Last(batch) \in WorkerRequest
          BY <1>2 DEF Last
    <3>2. Last(batch).upto \in Nat /\ LastFile \in Nat
          BY <1>2, <3>1, DiskAssumption DEF WorkerRequest, Ids
    <3>3. reported \in [Ids -> Nat]
          BY DEF TInv, TypeOK, HistoryType
    <3>4. MaxOf(reported[LastFile], Last(batch).upto - LastFile) \in Nat
          BY <1>2, <3>2, <3>3 DEF MaxOf
    <3>5. reported' \in [Ids -> Nat]
          BY <1>2, <2>1, <3>3, <3>4 DEF SyncLastFile
    <3> QED BY <2>1, <3>5
        DEF SyncLastFile, TInv, TypeOK, HistoryType, boundVars
  <2>2. CASE SyncOldFile
        BY <2>2 DEF SyncOldFile, TInv, TypeOK, HistoryType, histVars, boundVars
  <2>3. CASE SyncErr
        BY <2>3, WalAssumption
        DEF SyncErr, TInv, TypeOK, HistoryType, histVars, Fault
  <2> QED BY <2>1, <2>2, <2>3
<1>7. /\ UNCHANGED <<pc, batch, wrote, nonFlush, queue, rx>>
      /\ files' = files \/ (files' = Tail(files) /\ Len(files) > 1)
      /\ wpc' \in {"sync", "callbacks"}
      /\ result' \in {result, "err"}
      /\ result' = "err" => wpc' = "callbacks" \/ result = "err"
  <2>1. CASE SyncOldFile
        BY <1>1, <2>1 DEF SyncOldFile, mainVars, chanVars
  <2>2. CASE SyncLastFile
        BY <1>1, <1>2, <2>2 DEF SyncLastFile, mainVars, chanVars
  <2>3. CASE SyncErr
        BY <1>1, <1>2, <2>3 DEF SyncErr, mainVars, chanVars
  <2> QED BY <2>1, <2>2, <2>3
<1>8. files' \in Seq(Ids) /\ files' /= <<>>
      BY <1>2, <1>7
<1>9. WorkerType'
      BY <1>7, <1>8 DEF TInv, TypeOK, WorkerType, WorkerPCs
<1>10. Control'
      BY <1>1, <1>2, <1>7, <1>8 DEF TInv, Control, OpenPCs, UpPCs
<1>11. Requests'
      BY <1>1, <1>7 DEF TInv, Requests
<1> QED BY <1>4, <1>5, <1>6, <1>9, <1>10, <1>11, FsDiskNext DEF TInv, TypeOK

LEMMA CallbacksTypes ==
    ASSUME TInv, Callbacks \/ CallbackPanic PROVE TInv'
<1>1. wpc = "callbacks" /\ rx
      BY DEF Callbacks, CallbackPanic, TInv, Control
<1>2. FsType' /\ OwnerType' /\ Locals'
      BY DEF TInv, TypeOK, FsType, OwnerType, Locals, Callbacks,
             CallbackPanic, mainVars, OpenEnd, NewChunkId
<1>3. acked \in Nat /\ written \in Nat
      BY DEF TInv, TypeOK, HistoryType
<1>4. \A P \in SUBSET (1..Len(batch)) :
          /\ MaxOf(acked, Vouched(P)) \in Nat
          /\ MaxOf(written, Vouched(P)) \in Nat
      BY <1>3, VouchedType, MaxOfType
<1>5. acked' \in Nat /\ written' \in Nat
  <2>1. CASE Callbacks /\ result = "ok"
    <3>1. /\ {i \in Called : batch[i].sync} \in SUBSET (1..Len(batch))
          /\ Called \in SUBSET (1..Len(batch))
          BY DEF Called
    <3>2. /\ acked' = MaxOf(acked, Vouched({i \in Called : batch[i].sync}))
          /\ written' = MaxOf(written, Vouched(Called))
          BY <2>1 DEF Callbacks
    <3> QED BY <1>4, <3>1, <3>2
  <2>2. CASE Callbacks /\ result /= "ok"
        BY <1>3, <2>2 DEF Callbacks
  <2>3. CASE CallbackPanic
    <3>1. PICK k \in 0..Len(batch) :
            /\ acked' = MaxOf(acked, Vouched({i \in Called : i <= k
                                                        /\ batch[i].sync}))
            /\ written' = MaxOf(written, Vouched({i \in Called : i <= k}))
          BY <2>3 DEF CallbackPanic
    <3>2. /\ {i \in Called : i <= k /\ batch[i].sync}
                 \in SUBSET (1..Len(batch))
          /\ {i \in Called : i <= k} \in SUBSET (1..Len(batch))
          BY DEF Called
    <3> QED BY <1>4, <3>1, <3>2
  <2> QED BY <2>1, <2>2, <2>3
<1>6. HistoryType'
  <2>1. CASE Callbacks
        BY <1>5, <2>1 DEF Callbacks, TInv, TypeOK, HistoryType, boundVars
  <2>2. CASE CallbackPanic
        BY <1>5, <2>2, WalAssumption
        DEF CallbackPanic, TInv, TypeOK, HistoryType, Fault
  <2> QED BY <2>1, <2>2
<1>7. /\ UNCHANGED <<pc, files, wrote, nonFlush, result, queue, rx>>
      /\ batch' = <<>> /\ wpc' \in {"recv", "nonflush", "stop"}
      /\ wpc' = "recv" => nonFlush = NoReq
      /\ wpc' = "nonflush" => nonFlush /= NoReq
      /\ result = "err" => wpc' = "stop"
      BY DEF Callbacks, CallbackPanic, mainVars, chanVars
<1>8. WorkerType'
      BY <1>7, WalAssumption DEF TInv, TypeOK, WorkerType, WorkerPCs
<1>9. Control'
      BY <1>1, <1>7 DEF TInv, Control, OpenPCs, UpPCs
<1>10. Requests'
      BY <1>1, <1>7 DEF TInv, Requests
<1> QED BY <1>2, <1>6, <1>8, <1>9, <1>10 DEF TInv, TypeOK

LEMMA AppendFileTypes == ASSUME TInv, AppendFile PROVE TInv'
<1>1. FsType' /\ OwnerType' /\ Locals' /\ HistoryType'
      BY SMTT(60) DEF TInv, TypeOK, FsType, OwnerType, HistoryType, Locals,
             AppendFile, mainVars, histVars, boundVars, OpenEnd, NewChunkId
<1>2. /\ nonFlush.id \in Ids /\ files \in Seq(Ids)
      BY DEF TInv, TypeOK, WorkerType, WorkerRequest
<1>3. files' \in Seq(Ids) /\ files' /= <<>>
      BY <1>2 DEF AppendFile
<1>4. /\ wpc = "nonflush" /\ wpc' = "recv" /\ nonFlush' = NoReq
      /\ UNCHANGED <<pc, batch, wrote, result, queue, rx>>
      BY DEF AppendFile, mainVars, chanVars
<1>5. WorkerType'
      BY <1>3, <1>4, NoReqType DEF TInv, TypeOK, WorkerType, WorkerPCs
<1>6. Control'
      BY <1>3, <1>4 DEF TInv, Control, OpenPCs, UpPCs
<1>7. Requests'
      BY <1>4, NoReqType DEF TInv, Requests
<1> QED BY <1>1, <1>5, <1>6, <1>7 DEF TInv, TypeOK

LEMMA RemoveTypes ==
    ASSUME TInv, RemoveChunk \/ RemoveSync \/ RemoveErr PROVE TInv'
<1>1. OwnerType' /\ Locals'
      BY DEF TInv, TypeOK, OwnerType, Locals, RemoveChunk, RemoveSync,
             RemoveErr, mainVars, OpenEnd, NewChunkId
<1>2. HistoryType'
      BY WalAssumption
      DEF TInv, TypeOK, HistoryType, RemoveChunk, RemoveSync, RemoveErr,
          Fault, histVars, boundVars
<1>3. DiskType(fs, Record)
      BY FsDisk DEF TInv, TypeOK
<1>4. DiskType(fs', Record)
  <2>1. CASE RemoveChunk
        BY <1>3, <2>1, RemoveFileFacts DEF RemoveChunk
  <2>2. CASE RemoveSync
        BY <1>3, <2>2, SyncDirFacts DEF RemoveSync
  <2>3. CASE RemoveErr
        BY <1>3, <2>3 DEF RemoveErr
  <2> QED BY <2>1, <2>2, <2>3
<1>5. /\ wpc \in {"nonflush", "rmsync"}
      /\ UNCHANGED <<pc, files, batch, wrote, result, queue, rx>>
      BY DEF RemoveChunk, RemoveSync, RemoveErr, mainVars, chanVars
<1>6. /\ wpc' \in {"nonflush", "rmsync", "recv", "stop"}
      /\ wpc' \in {"rmsync", "recv"} => nonFlush' = NoReq
      /\ wpc' = "nonflush" => nonFlush' /= NoReq
      /\ nonFlush' /= NoReq => nonFlush'.kind \in {"append", "remove"}
      /\ nonFlush'.kind = "remove" => nonFlush'.ids /= {}
      /\ nonFlush' \in WorkerRequest
  <2>1. CASE RemoveChunk
    <3> DEFINE i == Min(nonFlush.ids)
    <3>1. /\ nonFlush \in WorkerRequest /\ nonFlush.kind = "remove"
          /\ nonFlush.ids /= {} /\ nonFlush.ids \in SUBSET Ids
          BY <2>1
          DEF RemoveChunk, TInv, TypeOK, WorkerType, WorkerRequest, Requests
    <3>2. i \in nonFlush.ids
      <4>1. nonFlush.ids \in SUBSET Nat
            BY <3>1, DiskAssumption DEF Ids
      <4> QED BY <3>1, <4>1, MinFacts
    <3> HIDE DEF i
    <3>3. CASE nonFlush.ids = {i}
          BY <2>1, <3>3, NoReqType DEF RemoveChunk, i
    <3>4. CASE nonFlush.ids /= {i}
      <4>1. /\ nonFlush' = [nonFlush EXCEPT !.ids = nonFlush.ids \ {i}]
            /\ wpc' = "nonflush"
            BY <2>1, <3>4 DEF RemoveChunk, i
      <4>2. /\ nonFlush' \in WorkerRequest /\ nonFlush'.kind = "remove"
            /\ nonFlush'.ids = nonFlush.ids \ {i}
            BY <3>1, <4>1 DEF WorkerRequest
      <4>3. nonFlush'.ids /= {}
            BY <3>2, <3>4, <4>2
      <4> QED BY <4>1, <4>2, <4>3, NoReqType
    <3> QED BY <3>3, <3>4
  <2>2. CASE RemoveSync
        BY <2>2, NoReqType DEF RemoveSync, TInv, Requests
  <2>3. CASE RemoveErr
        BY <2>3, NoReqType
        DEF RemoveErr, TInv, Requests, TypeOK, WorkerType
  <2> QED BY <2>1, <2>2, <2>3
<1>7. WorkerType'
      BY <1>5, <1>6 DEF TInv, TypeOK, WorkerType, WorkerPCs
<1>8. Control'
      BY <1>5, <1>6 DEF TInv, Control, OpenPCs, UpPCs
<1>9. Requests'
      BY <1>5, <1>6 DEF TInv, Requests
<1> QED BY <1>1, <1>2, <1>4, <1>7, <1>8, <1>9, FsDiskNext DEF TInv, TypeOK

LEMMA ExitTypes ==
    ASSUME TInv, RecvClosed \/ WorkerExit PROVE TInv'
<1>1. FsType' /\ OwnerType' /\ Locals' /\ HistoryType'
      BY DEF TInv, TypeOK, FsType, OwnerType, HistoryType, Locals,
             RecvClosed, WorkerExit, mainVars, histVars, boundVars, OpenEnd,
             NewChunkId
<1>2. CASE RecvClosed
  <2>1. /\ wpc = "recv" /\ wpc' = "quit"
        /\ UNCHANGED <<pc, files, batch, wrote, nonFlush, result, queue, rx>>
        BY <1>2 DEF RecvClosed, mainVars, chanVars
  <2>2. WorkerType'
        BY <2>1 DEF TInv, TypeOK, WorkerType, WorkerPCs
  <2>3. Control'
        BY <2>1 DEF TInv, Control, OpenPCs, UpPCs
  <2>4. Requests'
        BY <2>1 DEF TInv, Requests
  <2> QED BY <1>1, <2>2, <2>3, <2>4 DEF TInv, TypeOK
<1>3. CASE WorkerExit
  <2>1. /\ wpc \in {"stop", "quit"} /\ wpc' \in {"dead", "done"}
        /\ rx' = FALSE /\ queue' = <<>> /\ files' = <<>> /\ batch' = <<>>
        /\ wrote' = 0 /\ nonFlush' = NoReq /\ result' = "ok" /\ pc' = pc
        BY <1>3 DEF WorkerExit, mainVars
  <2>2. WorkerType'
    <3>1. /\ <<>> \in Seq(WorkerRequest) /\ <<>> \in Seq(Ids)
          /\ Len(<<>>) <= MaxQueue /\ Len(<<>>) <= MaxBatch
          BY WalAssumption
    <3> QED BY <2>1, <3>1, NoReqType DEF WorkerType, WorkerPCs
  <2>3. Control'
        BY <2>1 DEF TInv, Control, OpenPCs, UpPCs
  <2>4. Requests'
        BY <2>1, NoReqType DEF TInv, Requests
  <2> QED BY <1>1, <2>2, <2>3, <2>4 DEF TInv, TypeOK
<1> QED BY <1>2, <1>3

LEMMA WorkerTypes == ASSUME TInv, WorkerNext PROVE TInv'
BY RecvTypes, WriteTypes, SyncTypes, CallbacksTypes, AppendFileTypes,
   RemoveTypes, ExitTypes DEF WorkerNext

-----------------------------------------------------------------------------
(* The owner's calls.  A send leaves the worker alone.                     *)
LEMMA SendTypes ==
    ASSUME TInv, NEW req \in WorkerRequest, req.kind /= "none",
           req.kind = "remove" => req.ids /= {},
           SendOk(req) \/ SendErr, UNCHANGED workVars,
           pc \in UpPCs, pc' \in UpPCs
    PROVE  WorkerType' /\ Control' /\ Requests'
<1>1. UNCHANGED <<rx, wpc, files, batch, wrote, nonFlush, result>>
      BY DEF SendOk, SendErr, chanVars, workVars
<1>2. queue \in Seq(WorkerRequest) /\ Len(queue) <= MaxQueue
      /\ MaxQueue \in Nat
      BY WalAssumption DEF TInv, TypeOK, WorkerType
<1>3. /\ queue' \in Seq(WorkerRequest) /\ Len(queue') <= MaxQueue
      /\ \A k \in 1..Len(queue') :
            queue'[k] = req \/ (k \in 1..Len(queue) /\ queue'[k] = queue[k])
      /\ ~rx => queue' = queue
      BY <1>2 DEF SendOk, SendErr, chanVars
<1>4. WorkerType'
      BY <1>1, <1>3 DEF TInv, TypeOK, WorkerType
<1>5. Control'
      BY <1>1, <1>3 DEF TInv, Control, OpenPCs, UpPCs
<1>6. Requests'
      BY <1>1, <1>3 DEF TInv, Requests
<1> QED BY <1>4, <1>5, <1>6

(* A step of the owner that sends nothing.                                 *)
LEMMA QuietTypes ==
    ASSUME TInv, UNCHANGED workVars, UNCHANGED chanVars,
           pc \in UpPCs <=> pc' \in UpPCs, pc' \in OpenPCs \union UpPCs
    PROVE  WorkerType' /\ Control' /\ Requests'
<1>1. UNCHANGED <<rx, queue, wpc, files, batch, wrote, nonFlush, result>>
      BY DEF chanVars, workVars
<1>2. pc \in OpenPCs \union UpPCs
      BY DEF TInv, TypeOK, OwnerType
<1>3. WorkerType'
      BY <1>1 DEF TInv, TypeOK, WorkerType
<1>4. Control'
      BY <1>1, <1>2 DEF TInv, Control, OpenPCs, UpPCs
<1>5. Requests'
      BY <1>1 DEF TInv, Requests
<1> QED BY <1>3, <1>4, <1>5

(* The open chunk.                                                         *)
LEMMA OpenFacts ==
    ASSUME TInv
    PROVE  /\ open \in [id : Ids, n : Nat, pending : Seq(Record)]
           /\ open.id \in Ids /\ open.id \in Nat /\ open.n \in Nat
           /\ open.pending \in Seq(Record) /\ OpenEnd \in Nat
           /\ sm \in Seq(1..MaxActions) /\ Len(sm) \in Nat
           /\ \A s, c \in BOOLEAN :
                 /\ PendingReq(s, c) \in WorkerRequest
                 /\ PendingReq(s, c).kind = "write"
<1>1. /\ open \in [id : Ids, n : Nat, pending : Seq(Record)]
      /\ sm \in Seq(1..MaxActions)
      BY DEF TInv, TypeOK, OwnerType
<1>2. open.id \in Ids /\ open.n \in Nat /\ open.pending \in Seq(Record)
      BY <1>1
<1>3. open.id \in Nat /\ OpenEnd \in Nat
      BY <1>2, DiskAssumption DEF Ids, OpenEnd
<1>4. Len(sm) \in Nat
      BY <1>1
<1>5. ASSUME NEW s \in BOOLEAN, NEW c \in BOOLEAN
      PROVE  /\ PendingReq(s, c) \in WorkerRequest
             /\ PendingReq(s, c).kind = "write"
  <2>1. PendingReq(s, c) \in WorkerRequest
        BY <1>2, <1>3, <1>4, WriteReqType DEF PendingReq
  <2> QED BY <2>1 DEF PendingReq, WriteReq
<1> QED BY <1>1, <1>2, <1>3, <1>4, <1>5

LEMMA TakePendingType ==
    ASSUME TInv, TakePending
    PROVE  /\ open' \in [id : Ids, n : Nat, pending : Seq(Record)]
           /\ open'.id = open.id /\ open'.n = open.n /\ open'.pending = <<>>
           /\ OpenEnd' = OpenEnd /\ Len(open'.pending) <= open'.n
<1>1. open \in [id : Ids, n : Nat, pending : Seq(Record)]
      BY OpenFacts
<1>2. /\ open' \in [id : Ids, n : Nat, pending : Seq(Record)]
      /\ open'.id = open.id /\ open'.n = open.n /\ open'.pending = <<>>
  <2>1. <<>> \in Seq(Record)
        OBVIOUS
  <2>2. open' = [open EXCEPT !.pending = <<>>]
        BY DEF TakePending
  <2> QED BY <1>1, <2>1, <2>2
<1>3. Len(open'.pending) = 0 /\ open.n \in Nat
      BY <1>2, OpenFacts
<1> QED BY <1>2, <1>3 DEF OpenEnd

LEMMA AppendActionTypes == ASSUME TInv, AppendAction PROVE TInv'
<1>1. /\ nextAction \in 1..MaxActions /\ pc = "idle" /\ pc' = "idle"
      /\ MaxActions \in Nat
      BY WalAssumption DEF TInv, TypeOK, HistoryType, AppendAction
<1>2. /\ open' \in [id : Ids, n : Nat, pending : Seq(Record)]
      /\ sm' \in Seq(1..MaxActions)
  <2>1. Append(open.pending, Action(nextAction)) \in Seq(Record)
        BY <1>1, OpenFacts, RecordTypes
  <2>2. open' = [open EXCEPT !.n = open.n + 1,
                             !.pending = Append(open.pending, Action(nextAction))]
        BY DEF AppendAction
  <2> DEFINE longer == [open EXCEPT !.n = open.n + 1]
  <2>3. longer \in [id : Ids, n : Nat, pending : Seq(Record)]
        BY OpenFacts
  <2>4. open' = [longer EXCEPT !.pending =
                                Append(open.pending, Action(nextAction))]
        BY <2>2
  <2>5. open' \in [id : Ids, n : Nat, pending : Seq(Record)]
    <3> HIDE DEF longer
    <3> QED BY <2>1, <2>3, <2>4
  <2> QED BY <1>1, <2>5, OpenFacts DEF AppendAction
<1>3. Len(open'.pending) <= open'.n
  <2>1. open'.n = open.n + 1
        /\ open'.pending = Append(open.pending, Action(nextAction))
        BY OpenFacts DEF AppendAction
  <2>2. Len(open'.pending) = Len(open.pending) + 1
        BY <2>1, OpenFacts
  <2>3. Len(open.pending) <= open.n
        BY DEF TInv, Locals
  <2> QED BY <2>1, <2>2, <2>3, OpenFacts
<1>4. FsType' /\ HistoryType'
      BY <1>1
      DEF TInv, TypeOK, FsType, HistoryType, AppendAction, histVars
<1>5. OwnerType'
      BY <1>1, <1>2 DEF TInv, TypeOK, OwnerType, AppendAction
<1>6. Locals'
      BY <1>1, <1>3 DEF Locals, TInv, AppendAction
<1>7. WorkerType' /\ Control' /\ Requests'
      BY <1>1, QuietTypes DEF AppendAction, UpPCs
<1> QED BY <1>4, <1>5, <1>6, <1>7 DEF TInv, TypeOK

(* The calls that send the pending buffer.                                 *)
LEMMA SendPendingTypes ==
    ASSUME TInv,
           \/ \E sync \in BOOLEAN : SendPending(sync)
           \/ RotateFlush \/ RotateCheckpoint \/ ShutdownSend
    PROVE  TInv'
<1>1. /\ pc \in {"idle", "rot_cp", "shutdown"}
      /\ pc' \in {"idle", "rot_create", "closing"}
      /\ pc /= "rot_cp" => rec' = rec /\ closed' = closed
      /\ UNCHANGED <<fs, sm, workVars, histVars, boundVars>>
      /\ openSync' \in BOOLEAN
  <2>1. openSync \in BOOLEAN
        BY DEF TInv, TypeOK, OwnerType
  <2> QED BY <2>1 DEF SendPending, RotateFlush, RotateCheckpoint, ShutdownSend
<1>2. /\ TakePending
      /\ \E s, c \in BOOLEAN : SendOk(PendingReq(s, c)) \/ SendErr
      BY DEF SendPending, RotateFlush, RotateCheckpoint, ShutdownSend
<1>3. FsType' /\ HistoryType'
      BY <1>1
      DEF TInv, TypeOK, FsType, HistoryType, histVars, boundVars
<1>4. /\ closed' \subseteq [id : Ids, end : Nat] /\ rec' \in {rec, NoRec}
      /\ \A c \in closed' : c.id <= c.end
  <2>1. CASE RotateCheckpoint
    <3>1. /\ closed' = closed
             \/ closed' = closed \union {[id |-> rec.prev, end |-> open.id]}
          /\ rec' = NoRec /\ rec.prev \in Ids /\ rec.prev <= open.id
          /\ \A c \in closed : c.id <= c.end
          BY <2>1 DEF RotateCheckpoint, TInv, Locals
    <3> QED BY <3>1, OpenFacts DEF TInv, TypeOK, OwnerType
  <2>2. CASE ~RotateCheckpoint
        BY <2>2
        DEF SendPending, RotateFlush, ShutdownSend, TInv, TypeOK, OwnerType,
            Locals
  <2> QED BY <2>1, <2>2
<1>5. OwnerType'
      BY <1>1, <1>2, <1>4, NoRecType, TakePendingType
      DEF TInv, TypeOK, OwnerType, UpPCs, OpenLocals
<1>6. Locals'
      BY <1>1, <1>2, <1>4, TakePendingType DEF Locals
<1>7. WorkerType' /\ Control' /\ Requests'
      BY <1>1, <1>2, OpenFacts, SendTypes DEF UpPCs
<1> QED BY <1>3, <1>5, <1>6, <1>7 DEF TInv, TypeOK

LEMMA RotateFileTypes ==
    ASSUME TInv, RotateCreate \/ RotateSync PROVE TInv'
<1>1. /\ pc \in {"rot_create", "rot_sync"}
      /\ pc' \in {"idle", "rot_sync", "rot_append"}
      /\ UNCHANGED <<sm, open, closed, openSync, rec, workVars, chanVars,
                     histVars, nextAction, crashes>>
      BY DEF RotateCreate, RotateSync
<1>2. DiskType(fs, Record)
      BY FsDisk DEF TInv, TypeOK
<1>3. DiskType(fs', Record)
      BY <1>2, CreateFileFacts, SyncDirFacts DEF RotateCreate, RotateSync
<1>4. HistoryType'
      BY <1>1, WalAssumption
      DEF TInv, TypeOK, HistoryType, histVars, RotateCreate, RotateSync, Fault
<1>5. OwnerType'
      BY <1>1 DEF TInv, TypeOK, OwnerType, UpPCs
<1>6. Locals'
  <2>1. OpenEnd' = OpenEnd
        BY <1>1 DEF OpenEnd
  <2>2. pc' \in {"rot_sync", "rot_append"} => OpenEnd \in Ids
        BY DEF TInv, Locals, RotateCreate, RotateSync
  <2> QED BY <1>1, <2>1, <2>2 DEF Locals, TInv
<1>7. WorkerType' /\ Control' /\ Requests'
      BY <1>1, QuietTypes DEF UpPCs
<1> QED BY <1>3, <1>4, <1>5, <1>6, <1>7, FsDiskNext DEF TInv, TypeOK

LEMMA RotateAppendTypes == ASSUME TInv, RotateAppend PROVE TInv'
<1>1. /\ pc = "rot_append" /\ pc' \in {"idle", "rot_cp"}
      /\ OpenEnd \in Ids
      /\ UNCHANGED <<fs, sm, closed, workVars, histVars, boundVars>>
      BY DEF RotateAppend, TInv, Locals
<1>2. FsType' /\ HistoryType'
      BY <1>1 DEF TInv, TypeOK, FsType, HistoryType, histVars, boundVars
<1>3. WorkerType' /\ Control' /\ Requests'
  <2>1. /\ AppendFileReq(OpenEnd) \in WorkerRequest
        /\ AppendFileReq(OpenEnd).kind = "append"
        BY <1>1, AppendFileReqType DEF AppendFileReq
  <2>2. SendOk(AppendFileReq(OpenEnd)) \/ SendErr
        BY DEF RotateAppend
  <2> QED BY <1>1, <2>1, <2>2, SendTypes DEF UpPCs
<1>4. CASE pc' = "idle"
  <2>1. UNCHANGED <<open, openSync, rec>>
        BY <1>4 DEF RotateAppend
  <2>2. OwnerType' /\ Locals'
        BY <1>1, <1>4, <2>1 DEF TInv, TypeOK, OwnerType, Locals, UpPCs
  <2> QED BY <1>2, <1>3, <2>2 DEF TInv, TypeOK
<1>5. CASE pc' = "rot_cp"
  <2>1. /\ open' = [id |-> OpenEnd, n |-> 1, pending |-> <<Checkpoint(sm)>>]
        /\ openSync' = FALSE /\ rec' = [NoRec EXCEPT !.prev = open.id]
        BY <1>5 DEF RotateAppend
  <2>2. open' \in [id : Ids, n : Nat, pending : Seq(Record)]
    <3>1. <<Checkpoint(sm)>> \in Seq(Record)
          BY OpenFacts, RecordTypes
    <3> QED BY <1>1, <2>1, <3>1
  <2>3. /\ rec' \in OpenLocals
        /\ rec'.prev = open.id
    <3>1. \A r \in OpenLocals : \A i \in Nat :
              /\ [r EXCEPT !.prev = i] \in OpenLocals
              /\ [r EXCEPT !.prev = i].prev = i
          BY DEF OpenLocals
    <3> QED BY <2>1, <3>1, NoRecType, OpenFacts
  <2>4. OwnerType'
        BY <1>1, <1>5, <2>1, <2>2, <2>3
        DEF TInv, TypeOK, OwnerType, UpPCs, OpenLocals
  <2>5. Locals'
    <3>1. /\ Len(open'.pending) = 1 /\ open'.n = 1
          /\ open'.id = OpenEnd /\ open.id <= OpenEnd
          BY <2>1, OpenFacts DEF OpenEnd
    <3> QED BY <1>1, <1>5, <2>3, <3>1, OpenFacts DEF Locals, TInv
  <2> QED BY <1>2, <1>3, <2>4, <2>5 DEF TInv, TypeOK
<1> QED BY <1>1, <1>4, <1>5

LEMMA RotateEncodeErrTypes == ASSUME TInv, RotateEncodeErr PROVE TInv'
<1>1. /\ pc = "rot_append" /\ pc' = "idle" /\ OpenEnd \in Ids
      /\ open' = [id |-> OpenEnd, n |-> 0, pending |-> <<>>]
      /\ openSync' = FALSE
      /\ UNCHANGED <<fs, sm, closed, rec, workVars, histVars, nextAction,
                     crashes>>
      BY DEF RotateEncodeErr, TInv, Locals
<1>2. FsType' /\ HistoryType'
      BY <1>1, WalAssumption
      DEF TInv, TypeOK, FsType, HistoryType, histVars, RotateEncodeErr, Fault
<1>3. WorkerType' /\ Control' /\ Requests'
  <2>1. /\ AppendFileReq(OpenEnd) \in WorkerRequest
        /\ AppendFileReq(OpenEnd).kind = "append"
        BY <1>1, AppendFileReqType DEF AppendFileReq
  <2>2. SendOk(AppendFileReq(OpenEnd))
        BY DEF RotateEncodeErr
  <2> QED BY <1>1, <2>1, <2>2, SendTypes DEF UpPCs
<1>4. OwnerType'
  <2>1. <<>> \in Seq(Record)
        OBVIOUS
  <2>2. open' \in [id : Ids, n : Nat, pending : Seq(Record)]
        BY <1>1, <2>1
  <2> QED BY <1>1, <2>2 DEF TInv, TypeOK, OwnerType, UpPCs
<1>5. Locals'
  <2>1. Len(open'.pending) <= open'.n
        BY <1>1
  <2> QED BY <1>1, <2>1 DEF TInv, Locals
<1> QED BY <1>2, <1>3, <1>4, <1>5 DEF TInv, TypeOK

(* shutdown is called.                                                     *)
LEMMA ShutdownTypes == ASSUME TInv, Shutdown PROVE TInv'
<1>1. /\ pc = "idle" /\ pc' = "shutdown"
      /\ UNCHANGED <<fs, sm, open, closed, openSync, rec, workVars, chanVars,
                     histVars, boundVars>>
      BY DEF Shutdown
<1>2. FsType' /\ HistoryType' /\ OwnerType' /\ Locals'
      BY <1>1
      DEF TInv, TypeOK, FsType, HistoryType, OwnerType, Locals, histVars,
          boundVars, UpPCs, OpenEnd
<1>3. WorkerType' /\ Control' /\ Requests'
      BY <1>1, QuietTypes DEF UpPCs
<1> QED BY <1>2, <1>3 DEF TInv, TypeOK

LEMMA RemoveChunksTypes ==
    ASSUME TInv, NEW c \in closed, RemoveChunks(c) PROVE TInv'
<1> DEFINE ids == {d.id : d \in Drained(c)}
<1>1. /\ pc = "idle" /\ closed' = closed \ Drained(c)
      /\ UNCHANGED <<fs, pc, sm, open, openSync, rec, workVars, histVars,
                     boundVars>>
      BY DEF RemoveChunks
<1>2. closed \subseteq [id : Ids, end : Nat]
      BY DEF TInv, TypeOK, OwnerType
<1>3. ids \in SUBSET Ids /\ ids /= {}
  <2>1. \A d \in closed : d.id \in Ids
        BY <1>2
  <2>2. c \in Drained(c)
    <3>1. c.id \in Nat
          BY <2>1, DiskAssumption DEF Ids
    <3> QED BY <3>1 DEF Drained
  <2> QED BY <2>1, <2>2 DEF Drained
<1> HIDE DEF ids
<1>4. OpenEnd - Len(open.pending) \in Nat
  <2>1. Len(open.pending) <= open.n /\ Len(open.pending) \in Nat
        BY OpenFacts DEF TInv, Locals
  <2> QED BY <2>1, OpenFacts DEF OpenEnd
<1> DEFINE req == RemoveReq(open.id, OpenEnd - Len(open.pending), ids)
<1>5. /\ req \in WorkerRequest /\ req.kind = "remove" /\ req.ids = ids
  <2>1. req \in WorkerRequest
        BY <1>3, <1>4, OpenFacts, RemoveReqType
  <2> QED BY <2>1 DEF RemoveReq
<1>6. SendOk(req) \/ SendErr
      BY DEF RemoveChunks, ids
<1> HIDE DEF req
<1>7. WorkerType' /\ Control' /\ Requests'
      BY <1>1, <1>3, <1>5, <1>6, SendTypes DEF UpPCs
<1>8. FsType' /\ HistoryType'
      BY <1>1 DEF TInv, TypeOK, FsType, HistoryType, histVars, boundVars
<1>9. OwnerType' /\ Locals'
      BY <1>1 DEF TInv, TypeOK, OwnerType, Locals, OpenEnd, NewChunkId
<1> QED BY <1>7, <1>8, <1>9 DEF TInv, TypeOK

(* The state after a crash or a shutdown.                                  *)
LEMMA VanishTypes ==
    ASSUME TInv, Vanish
    PROVE  /\ closed' \subseteq [id : Ids, end : Nat] /\ pc' = "down"
           /\ open' \in [id : Ids, n : Nat, pending : Seq(Record)]
           /\ openSync' \in BOOLEAN
           /\ rec' \in OpenLocals
           /\ WorkerType' /\ Control' /\ Requests' /\ Locals'
<1>1. /\ pc' = "down" /\ open' = NoChunk /\ closed' = {} /\ openSync' = FALSE
      /\ rec' = NoRec
      BY DEF Vanish
<1>2. open' \in [id : Ids, n : Nat, pending : Seq(Record)]
      /\ Len(open'.pending) <= open'.n
      BY <1>1, DiskAssumption DEF NoChunk, Ids
<1>3. rec' \in OpenLocals
      BY <1>1, NoRecType
<1>4. Locals'
      BY <1>1, <1>2 DEF Locals
<1>5. /\ queue' = <<>> /\ rx' = FALSE /\ wpc' = "none" /\ files' = <<>>
      /\ batch' = <<>> /\ wrote' = 0 /\ nonFlush' = NoReq /\ result' = "ok"
      BY DEF Vanish
<1>6. WorkerType'
  <2>1. /\ <<>> \in Seq(WorkerRequest) /\ <<>> \in Seq(Ids)
        /\ Len(<<>>) <= MaxQueue /\ Len(<<>>) <= MaxBatch
        BY WalAssumption
  <2> QED BY <1>5, <2>1, NoReqType DEF WorkerType, WorkerPCs
<1>7. Control'
      BY <1>1, <1>5 DEF Control, OpenPCs, UpPCs
<1>8. Requests'
      BY <1>5, NoReqType DEF Requests
<1> QED BY <1>1, <1>2, <1>3, <1>4, <1>6, <1>7, <1>8

LEMMA JoinTypes == ASSUME TInv, Join PROVE TInv'
<1>1. Vanish /\ UNCHANGED <<fs, sm, reported, boundVars>>
      BY DEF Join
<1>2. acked' \in Nat /\ written' \in Nat
      BY OpenFacts DEF Join, TInv, TypeOK, HistoryType
<1>3. FsType' /\ HistoryType'
      BY <1>1, <1>2 DEF TInv, TypeOK, FsType, HistoryType, boundVars
<1>4. OwnerType'
      BY <1>1, VanishTypes DEF TInv, TypeOK, OwnerType, OpenPCs, OpenLocals
<1> QED BY <1>1, <1>3, <1>4, VanishTypes DEF TInv, TypeOK

LEMMA OwnerTypes == ASSUME TInv, OwnerNext PROVE TInv'
BY AppendActionTypes, SendPendingTypes, RotateFileTypes, RotateAppendTypes,
   RotateEncodeErrTypes, RemoveChunksTypes, ShutdownTypes, JoinTypes
   DEF OwnerNext

-----------------------------------------------------------------------------
(* Opening.  The owner works alone, on a directory and its locals.         *)
LEMMA OpeningTypes ==
    ASSUME TInv, pc \in OpenPCs, pc' \in OpenPCs, UNCHANGED OpenUnchanged,
           DiskType(fs', Record), rec' \in OpenLocals,
           closed' \subseteq [id : Ids, end : Nat], Locals'
    PROVE  TInv'
<1>1. FsType'
      BY FsDiskNext
<1>2. HistoryType'
      BY DEF TInv, TypeOK, HistoryType, OpenUnchanged, histVars, boundVars
<1>3. OwnerType'
      BY DEF TInv, TypeOK, OwnerType, OpenUnchanged, OpenLocals
<1>4. WorkerType' /\ Control' /\ Requests'
      BY QuietTypes DEF OpenUnchanged, OpenPCs, UpPCs
<1> QED BY <1>1, <1>2, <1>3, <1>4 DEF TInv, TypeOK

(* The locals of open_locked.                                              *)
LEMMA RecFacts ==
    ASSUME TInv
    PROVE  /\ rec \in OpenLocals /\ rec.todo \in SUBSET Ids
           /\ rec.todo \in SUBSET Nat
           /\ rec.prev \in Nat \union {-1} /\ rec.n \in Nat
           /\ rec.sm \in Seq(1..MaxActions)
           /\ DiskType(fs, Record) /\ fs.names \in SUBSET Ids
           /\ closed \subseteq [id : Ids, end : Nat]
           /\ Len(open.pending) <= open.n
           /\ \A c \in closed : c.id <= c.end
<1>1. rec \in OpenLocals /\ closed \subseteq [id : Ids, end : Nat]
      BY DEF TInv, TypeOK, OwnerType, OpenLocals
<1>2. /\ rec.todo \in SUBSET Ids /\ rec.prev \in Nat \union {-1}
      /\ rec.n \in Nat /\ rec.sm \in Seq(1..MaxActions)
      BY <1>1 DEF OpenLocals
<1>3. rec.todo \in SUBSET Nat
      BY <1>2, DiskAssumption DEF Ids
<1>4. /\ DiskType(fs, Record) /\ Len(open.pending) <= open.n
      /\ \A c \in closed : c.id <= c.end
      BY FsDisk DEF TInv, TypeOK, Locals
<1>5. fs.names \in SUBSET Ids
      BY <1>4, DiskFacts
<1> QED BY <1>1, <1>2, <1>3, <1>4, <1>5

(* The chunk that is read next.                                            *)
LEMMA NextChunk ==
    ASSUME TInv, rec.todo /= {}
    PROVE  /\ Min(rec.todo) \in rec.todo /\ Min(rec.todo) \in Ids
           /\ \A i \in rec.todo : Min(rec.todo) <= i
BY RecFacts, MinFacts

LEMMA LastChunk ==
    ASSUME TInv, rec.todo /= {}
    PROVE  /\ Max(rec.todo) \in rec.todo /\ Max(rec.todo) \in Ids
           /\ \A i \in rec.todo : i <= Max(rec.todo)
<1>1. MaxId \in Nat /\ rec.todo \in SUBSET (0..MaxId)
      BY RecFacts, DiskAssumption DEF Ids
<1> QED BY <1>1, MaxFacts DEF Ids

LEMMA LoadTypes == ASSUME TInv, LoadChunkIds PROVE TInv'
<1>1. /\ pc \in OpenPCs /\ pc' = "trim" /\ fs' = fs /\ closed' = {}
      /\ UNCHANGED OpenUnchanged
      BY DEF LoadChunkIds, OpenPCs
<1>2. PICK t \in Truncates :
          rec' = [NoRec EXCEPT !.todo = fs.names, !.truncate = t]
      BY DEF LoadChunkIds
<1>3. rec' \in OpenLocals
  <2>1. t \in BOOLEAN
        BY WalAssumption
  <2> DEFINE one == [NoRec EXCEPT !.todo = fs.names]
  <2>2. one \in OpenLocals
        BY RecFacts, NoRecType DEF OpenLocals
  <2>3. rec' = [one EXCEPT !.truncate = t]
        BY <1>2
  <2> HIDE DEF one
  <2> QED BY <2>1, <2>2, <2>3 DEF OpenLocals
<1>4. Locals'
      BY <1>1, RecFacts DEF Locals, OpenUnchanged
<1>5. pc' \in OpenPCs
      BY <1>1 DEF OpenPCs
<1> QED BY <1>1, <1>3, <1>4, <1>5, RecFacts, OpeningTypes

LEMMA TrimTypes == ASSUME TInv, TrimTail \/ TrimSync PROVE TInv'
<1>1. /\ pc \in OpenPCs /\ pc' \in {"scan", "failed", "trimsync", "trim"}
      /\ closed' = closed /\ UNCHANGED OpenUnchanged
      BY DEF TrimTail, TrimSync, OpenPCs
<1>2. DiskType(fs', Record)
  <2>1. fs' \in {fs, SyncDir(fs)} \/ \E i : fs' = RemoveFile(fs, i)
        BY DEF TrimTail, TrimSync
  <2> QED BY <2>1, RecFacts, RemoveFileFacts, SyncDirFacts
<1>3. rec' \in OpenLocals
  <2>1. rec' = rec \/ \E i : rec' = [rec EXCEPT !.todo = rec.todo \ {i}]
        BY DEF TrimTail, TrimSync
  <2> QED BY <2>1, RecFacts DEF OpenLocals
<1>4. Locals'
      BY <1>1, RecFacts DEF Locals, OpenUnchanged
<1>5. pc' \in OpenPCs
      BY <1>1 DEF OpenPCs
<1> QED BY <1>1, <1>2, <1>3, <1>4, <1>5, RecFacts, OpeningTypes

LEMMA ScanTypes == ASSUME TInv, ScanChunk \/ TruncateSync PROVE TInv'
<1>1. /\ pc \in {"scan", "truncsync"}
      /\ pc' \in {"failed", "truncsync", "replay"}
      /\ rec.todo /= {} /\ closed' = closed /\ UNCHANGED OpenUnchanged
      BY DEF ScanChunk, TruncateSync, TInv, Locals
<1>2. DiskType(fs', Record)
  <2>1. \/ fs' = fs
        \/ fs' = SetLen(fs, Min(rec.todo))
        \/ fs' = SyncFile(fs, Min(rec.todo))
    <3>1. CASE ScanChunk
          BY <3>1 DEF ScanChunk
    <3>2. CASE TruncateSync
          BY <3>2 DEF TruncateSync
    <3> QED BY <3>1, <3>2
  <2>2. Min(rec.todo) \in Ids
        BY <1>1, NextChunk
  <2> QED BY <2>1, <2>2, RecFacts, SetLenFacts, SyncFileFacts
<1>3. rec' \in OpenLocals /\ rec'.todo = rec.todo
  <2>1. rec' = rec \/ rec' = [rec EXCEPT !.truncated = TRUE]
        BY DEF ScanChunk, TruncateSync
  <2> QED BY <2>1, RecFacts DEF OpenLocals
<1>4. Locals'
      BY <1>1, <1>3, RecFacts DEF Locals, OpenUnchanged
<1>5. pc \in OpenPCs /\ pc' \in OpenPCs
      BY <1>1 DEF OpenPCs
<1> QED BY <1>1, <1>2, <1>3, <1>4, <1>5, RecFacts, OpeningTypes

LEMMA ReplayTypes ==
    ASSUME TInv, ReplayRecord \/ ReplayPanic \/ ReplayChunk PROVE TInv'
<1> DEFINE i == Min(rec.todo)
           data == fs.file[i].data
<1>1. /\ pc = "replay" /\ pc' \in {"replay", "failed", "scan"} /\ fs' = fs
      /\ rec.todo /= {} /\ UNCHANGED OpenUnchanged
      BY DEF ReplayRecord, ReplayPanic, ReplayChunk, TInv, Locals
<1>2. /\ i \in Ids /\ data \in Seq(Record) /\ EndOf(fs, i) \in Nat
  <2>1. i \in Ids
        BY <1>1, NextChunk
  <2> QED BY <2>1, RecFacts, DiskFacts
<1> HIDE DEF i
<1>3. CASE ReplayRecord
  <2>1. /\ pc' = "replay" /\ closed' = closed /\ rec.n < Len(data)
        /\ rec' = [rec EXCEPT !.n = rec.n + 1,
                              !.sm = Apply(rec.sm, data[rec.n + 1])]
        BY <1>3 DEF ReplayRecord, i
  <2>2. Apply(rec.sm, data[rec.n + 1]) \in Seq(1..MaxActions)
    <3>1. data[rec.n + 1] \in Record
          BY <1>2, <2>1, RecFacts
    <3> QED BY <3>1, RecFacts, RecordTypes
  <2> DEFINE next == [rec EXCEPT !.n = rec.n + 1]
  <2>3. next \in OpenLocals /\ next.todo = rec.todo
        BY RecFacts DEF OpenLocals
  <2>4. rec' = [next EXCEPT !.sm = Apply(rec.sm, data[rec.n + 1])]
        BY <2>1
  <2>5. rec' \in OpenLocals /\ rec'.todo = rec.todo
    <3> HIDE DEF next, data
    <3> QED BY <2>2, <2>3, <2>4 DEF OpenLocals
  <2>6. Locals'
        BY <1>1, <2>1, <2>5, RecFacts DEF Locals, OpenUnchanged
  <2>7. pc \in OpenPCs /\ pc' \in OpenPCs
        BY <1>1 DEF OpenPCs
  <2> QED BY <1>1, <2>1, <2>5, <2>6, <2>7, RecFacts, OpeningTypes
<1>4. CASE ReplayPanic
  <2>1. pc' = "failed" /\ rec' = rec /\ closed' = closed
        BY <1>4 DEF ReplayPanic
  <2>2. Locals'
        BY <1>1, <2>1, RecFacts DEF Locals, OpenUnchanged
  <2>3. pc \in OpenPCs /\ pc' \in OpenPCs
        BY <1>1 DEF OpenPCs
  <2> QED BY <1>1, <2>1, <2>2, <2>3, RecFacts, OpeningTypes
<1>5. CASE ReplayChunk
  <2>1. /\ pc' = "scan"
        /\ rec' = [rec EXCEPT !.todo = rec.todo \ {i},
                              !.prev = EndOf(fs, i), !.n = 0]
        /\ closed' = closed \union {[id |-> i, end |-> EndOf(fs, i)]}
        BY <1>5 DEF ReplayChunk, i
  <2>2. rec' \in OpenLocals
    <3> DEFINE one == [rec EXCEPT !.todo = rec.todo \ {i}]
               two == [one EXCEPT !.prev = EndOf(fs, i)]
    <3>1. one \in OpenLocals
          BY RecFacts DEF OpenLocals
    <3>2. two \in OpenLocals
      <4> HIDE DEF one
      <4> QED BY <1>2, <3>1 DEF OpenLocals
    <3>3. rec' = [two EXCEPT !.n = 0]
          BY <2>1
    <3> HIDE DEF two
    <3> QED BY <3>2, <3>3 DEF OpenLocals
  <2>3. /\ closed' \subseteq [id : Ids, end : Nat]
        /\ \A c \in closed' : c.id <= c.end
    <3>1. i <= EndOf(fs, i)
          BY <1>2, RecFacts, DiskFacts
    <3> QED BY <1>2, <2>1, <3>1, RecFacts
  <2>4. Locals'
        BY <1>1, <2>1, <2>3, RecFacts DEF Locals, OpenUnchanged
  <2>5. pc \in OpenPCs /\ pc' \in OpenPCs
        BY <1>1 DEF OpenPCs
  <2> QED BY <1>1, <2>2, <2>3, <2>4, <2>5, RecFacts, OpeningTypes
<1> QED BY <1>3, <1>4, <1>5

LEMMA CreateTypes == ASSUME TInv, CreateChunk \/ CreateSync PROVE TInv'
<1>1. /\ pc \in {"scan", "newsync"} /\ pc' \in {"newsync", "newwrite"}
      /\ rec' = rec /\ closed' = closed /\ UNCHANGED OpenUnchanged
      /\ NewChunkId \in Ids /\ NewChunkId' = NewChunkId
      BY DEF CreateChunk, CreateSync, Scanned, TInv, Locals, NewChunkId
<1>2. DiskType(fs', Record)
      BY <1>1, RecFacts, CreateFileFacts, SyncDirFacts
      DEF CreateChunk, CreateSync
<1>3. Locals'
      BY <1>1, RecFacts DEF Locals, OpenUnchanged
<1>4. pc \in OpenPCs /\ pc' \in OpenPCs
      BY <1>1 DEF OpenPCs
<1> QED BY <1>1, <1>2, <1>3, <1>4, RecFacts, OpeningTypes

(* The WAL is up.                                                          *)
LEMMA StartUpTypes ==
    ASSUME TInv, NEW chunk, StartUp(chunk),
           chunk \in [id : Ids, n : Nat, pending : {<<>>}],
           DiskType(fs', Record), closed' \subseteq closed
    PROVE  TInv'
<1>1. /\ open' = chunk /\ openSync' = FALSE /\ sm' = rec.sm /\ rx' = TRUE
      /\ queue' = <<>> /\ wpc' = "recv" /\ files' = <<chunk.id>>
      /\ batch' = <<>> /\ wrote' = 0 /\ nonFlush' = NoReq /\ result' = "ok"
      /\ pc' = "idle" /\ rec' = NoRec /\ written' = Len(rec.sm)
      /\ UNCHANGED <<acked, reported, boundVars>>
      BY DEF StartUp
<1>2. Len(rec.sm) \in Nat /\ chunk.id \in Ids /\ chunk.n \in Nat
      /\ chunk.pending = <<>>
      BY RecFacts
<1>3. FsType' /\ HistoryType'
      BY <1>1, <1>2, FsDiskNext DEF TInv, TypeOK, HistoryType, boundVars
<1>4. open' \in [id : Ids, n : Nat, pending : Seq(Record)]
  <2>1. <<>> \in Seq(Record)
        OBVIOUS
  <2> QED BY <1>1, <2>1
<1>5. OwnerType'
      BY <1>1, <1>4, NoRecType, RecFacts DEF OwnerType, OpenLocals, UpPCs
<1>6. WorkerType'
  <2>1. /\ <<>> \in Seq(WorkerRequest) /\ <<chunk.id>> \in Seq(Ids)
        /\ Len(<<>>) <= MaxQueue /\ Len(<<>>) <= MaxBatch
        BY <1>2, WalAssumption
  <2> QED BY <1>1, <2>1, NoReqType DEF WorkerType, WorkerPCs
<1>7. Control'
      BY <1>1 DEF Control, OpenPCs, UpPCs
<1>8. Requests'
      BY <1>1, NoReqType DEF Requests
<1>9. Locals'
  <2>1. Len(open'.pending) = 0
        BY <1>1, <1>2
  <2> QED BY <1>1, <1>2, <2>1, RecFacts DEF Locals
<1> QED BY <1>3, <1>5, <1>6, <1>7, <1>8, <1>9 DEF TInv, TypeOK

LEMMA UpTypes == ASSUME TInv, ReopenLastClosed \/ CreateWrite PROVE TInv'
<1>1. CASE ReopenLastClosed
  <2>1. PICK last \in closed :
            /\ closed' = closed \ {last} /\ fs' = fs
            /\ StartUp([id |-> last.id, n |-> last.end - last.id,
                        pending |-> <<>>])
        BY <1>1 DEF ReopenLastClosed
  <2>2. last.id \in Ids /\ last.end - last.id \in Nat
    <3>1. last.id \in Ids /\ last.end \in Nat /\ last.id <= last.end
          BY RecFacts
    <3> QED BY <3>1, DiskAssumption DEF Ids
  <2>3. [id |-> last.id, n |-> last.end - last.id, pending |-> <<>>]
            \in [id : Ids, n : Nat, pending : {<<>>}]
        BY <2>2
  <2> QED BY <2>1, <2>3, RecFacts, StartUpTypes
<1>2. CASE CreateWrite
  <2>1. NewChunkId \in Ids
        BY <1>2 DEF CreateWrite, TInv, Locals
  <2>2. <<Checkpoint(rec.sm)>> \in Seq(Record)
        BY RecFacts, RecordTypes
  <2>3. DiskType(fs', Record)
    <3>1. /\ fs' = WriteFile(fs, NewChunkId, <<Checkpoint(rec.sm)>>, "none")
          /\ "none" \in Tails
          BY <1>2 DEF CreateWrite, Tails
    <3> QED BY <2>1, <2>2, <3>1, RecFacts, WriteFileFacts
  <2>4. [id |-> NewChunkId, n |-> 1, pending |-> <<>>]
            \in [id : Ids, n : Nat, pending : {<<>>}]
        BY <2>1
  <2>5. /\ StartUp([id |-> NewChunkId, n |-> 1, pending |-> <<>>])
        /\ closed' = closed
        BY <1>2 DEF CreateWrite
  <2> QED BY <2>3, <2>4, <2>5, StartUpTypes
<1> QED BY <1>1, <1>2

LEMMA OpenTypes == ASSUME TInv, OpenNext PROVE TInv'
BY LoadTypes, TrimTypes, ScanTypes, ReplayTypes, CreateTypes, UpTypes
DEF OpenNext, OpenStep

-----------------------------------------------------------------------------
(* A crash.                                                                *)
LEMMA InFlightType ==
    ASSUME TInv, NEW d \in InFlight
    PROVE  DiskType(d, Record)
<1>1. CASE d = fs
      BY <1>1, RecFacts
<1>2. ASSUME wpc = "write", NEW k \in 0..(Len(NextData) - 1),
             d = WriteFile(fs, LastFile, SubSeq(NextData, 1, k), "short")
      PROVE  DiskType(d, Record)
  <2>1. SubSeq(NextData, 1, k) \in Seq(Record) /\ "short" \in Tails
        BY <1>2, BatchFacts, SubSeqType DEF Tails
  <2> QED BY <1>2, <2>1, RecFacts, BatchFacts, WriteFileFacts
<1>3. ASSUME pc = "newwrite", d = WriteFile(fs, NewChunkId, <<>>, "short")
      PROVE  DiskType(d, Record)
  <2>1. <<>> \in Seq(Record) /\ "short" \in Tails /\ NewChunkId \in Ids
        BY <1>3 DEF Tails, TInv, Locals
  <2> QED BY <1>3, <2>1, RecFacts, WriteFileFacts
<1> QED BY <1>1, <1>2, <1>3 DEF InFlight

LEMMA CrashTypes == ASSUME TInv, ProcessCrash \/ PowerLoss PROVE TInv'
<1>1. Vanish /\ UNCHANGED <<sm, acked, reported, nextAction, faults>>
      /\ crashes < MaxCrashes /\ crashes' = crashes + 1
      /\ written' \in {written, acked}
      BY DEF ProcessCrash, PowerLoss, histVars
<1>2. DiskType(fs', Record)
  <2>1. CASE ProcessCrash
        BY <2>1, InFlightType DEF ProcessCrash
  <2>2. CASE PowerLoss
        BY <2>2, InFlightType, PowerLossFacts DEF PowerLoss
  <2> QED BY <2>1, <2>2
<1>3. HistoryType'
      BY <1>1, WalAssumption DEF TInv, TypeOK, HistoryType
<1>4. OwnerType'
      BY <1>1, VanishTypes DEF TInv, TypeOK, OwnerType, OpenPCs, OpenLocals
<1> QED BY <1>1, <1>2, <1>3, <1>4, VanishTypes, FsDiskNext DEF TInv, TypeOK

-----------------------------------------------------------------------------
LEMMA InitTypes == ASSUME Init PROVE TInv
<1>1. FsType
  <2>1. NoFile \in File(Record) /\ NoFile.synced <= Len(NoFile.data)
        BY DEF NoFile, File, Tails
  <2>2. DiskType(EmptyDisk, Record)
        BY <2>1 DEF EmptyDisk, DiskType, Disk
  <2> QED BY <2>2, FsDisk DEF Init
<1>2. OwnerType /\ Locals
  <2>1. /\ NoChunk \in [id : Ids, n : Nat, pending : Seq(Record)]
        /\ Len(NoChunk.pending) <= NoChunk.n
        BY DiskAssumption DEF NoChunk, Ids
  <2>2. Locals
        BY <2>1 DEF Init, Locals
  <2>3. <<>> \in Seq(1..MaxActions) /\ "down" \in OpenPCs
        BY DEF OpenPCs
  <2>4. OwnerType
        BY <2>1, <2>3, NoRecType DEF Init, OwnerType, OpenLocals
  <2> QED BY <2>2, <2>4
<1>3. WorkerType /\ Control /\ Requests
  <2>1. /\ <<>> \in Seq(WorkerRequest) /\ <<>> \in Seq(Ids)
        /\ Len(<<>>) <= MaxQueue /\ Len(<<>>) <= MaxBatch
        BY WalAssumption
  <2>2. WorkerType
        BY <2>1, NoReqType DEF Init, WorkerType, WorkerPCs
  <2>3. Control /\ Requests
        BY <2>1, NoReqType DEF Init, Control, Requests, OpenPCs, UpPCs
  <2> QED BY <2>2, <2>3
<1>4. HistoryType
      BY WalAssumption DEF Init, HistoryType
<1> QED BY <1>1, <1>2, <1>3, <1>4 DEF TInv, TypeOK

LEMMA NextTypes == ASSUME TInv, [Next]_vars PROVE TInv'
<1>1. CASE UNCHANGED vars
  <2>1. UNCHANGED <<fs, pc, sm, open, closed, openSync, rec, wpc, files, batch,
                    wrote, nonFlush, result, queue, rx, acked, written,
                    reported, nextAction, crashes, faults>>
        BY <1>1 DEF vars, mainVars, workVars, chanVars, histVars, boundVars
  <2>2. FsType' /\ OwnerType' /\ Locals'
        BY <2>1
        DEF TInv, TypeOK, FsType, OwnerType, Locals, OpenEnd, NewChunkId
  <2>3. WorkerType' /\ HistoryType' /\ Control' /\ Requests'
        BY <2>1
        DEF TInv, TypeOK, WorkerType, HistoryType, Control, Requests
  <2> QED BY <2>2, <2>3 DEF TInv, TypeOK
<1>2. CASE Next
      BY <1>2, WorkerTypes, OwnerTypes, OpenTypes, CrashTypes DEF Next
<1> QED BY <1>1, <1>2

(* The types, with where owner and worker are, hold throughout.            *)
THEOREM WalTypesInv == Spec => []TInv
BY InitTypes, NextTypes, PTL DEF Spec

(* Every variable of the owner, the worker and the directory keeps its     *)
(* type: in particular the channel and the batch never exceed their        *)
(* bounds (flush_batch_max_items, the channel's capacity), and no request  *)
(* that ends a batch is a write.                                           *)
THEOREM WalTypes == Spec => []TypeOK
<1>1. TInv => TypeOK
      BY DEF TInv
<1> QED BY <1>1, WalTypesInv, PTL
=============================================================================
