------------------------ MODULE WalRefinementProofs ------------------------
(***************************************************************************)
(* ChunkedWal implements DurableLog, for all values of the constants and a *)
(* caller that syncs the open chunk before it removes closed ones.         *)
(*                                                                         *)
(* The argument: each chunk has a base, the number of actions its first    *)
(* record, the checkpoint, stands for.  Whatever file, request or buffer a *)
(* record is in, its place and the base of its chunk then say which part   *)
(* of the log it holds, and how far the log is known reduces to how many   *)
(* records a file has.                                                     *)
(***************************************************************************)
EXTENDS WalRecoveryProofs

(* Record q of a chunk with base c, in the log s.                          *)
RecordAt(s, c, q) ==
    IF q = 1 THEN Checkpoint(SubSeq(s, 1, c)) ELSE Action(s[c + q - 1])

(* How far the records of chunk i reach into the log.                      *)
Top(d, b, i) == b[i] + Len(d.file[i].data) - 1

(* Every file holds its part of the log, later chunks later parts; a       *)
(* prefix of a actions survives a power loss, one of w is in the files.    *)
Holds(d, b, s) ==
    \A dir \in d.images : \A i \in dir : Used(d, i) =>
        /\ Top(d, b, i) <= Len(s)
        /\ \A q \in 1..Len(d.file[i].data) :
               d.file[i].data[q] = RecordAt(s, b[i], q)
Rising(d, b) ==
    \A dir \in d.images : \A i, j \in dir :
        i < j /\ Used(d, i) /\ Used(d, j) => Top(d, b, i) <= b[j]
Survives(d, b, a) ==
    a > 0 => \A dir \in d.images : \E j \in dir :
                 d.file[j].synced > 0 /\ b[j] + d.file[j].synced - 1 >= a
Found(d, b, w) ==
    w > 0 => \E j \in d.names : Used(d, j) /\ Top(d, b, j) >= w
DiskLog(d, b, s, a, w) ==
    Holds(d, b, s) /\ Rising(d, b) /\ Survives(d, b, a) /\ Found(d, b, w)

Bases == [Ids -> Nat]

-----------------------------------------------------------------------------
(* Sequences of actions.                                                   *)
LEMMA SeqSame ==
    ASSUME NEW S, NEW s \in Seq(S), NEW t \in Seq(S), Len(s) = Len(t),
           \A k \in 1..Len(s) : s[k] = t[k]
    PROVE  s = t
OBVIOUS

LEMMA PrefixSame ==
    ASSUME NEW S, NEW s \in Seq(S), NEW t \in Seq(S), NEW c \in Nat,
           c <= Len(s), c <= Len(t), \A k \in 1..c : s[k] = t[k]
    PROVE  SubSeq(s, 1, c) = SubSeq(t, 1, c)
<1> DEFINE u == SubSeq(s, 1, c)
           v == SubSeq(t, 1, c)
<1>1. /\ u \in Seq(S) /\ Len(u) = c /\ \A k \in 1..c : u[k] = s[k]
  <2>1. /\ u \in Seq(S) /\ Len(u) = (IF 1 <= c THEN c - 1 + 1 ELSE 0)
        /\ \A k \in 1..Len(u) : u[k] = s[1 + k - 1]
        BY SubSeqType
  <2> QED BY <2>1
<1>2. /\ v \in Seq(S) /\ Len(v) = c /\ \A k \in 1..c : v[k] = t[k]
  <2>1. /\ v \in Seq(S) /\ Len(v) = (IF 1 <= c THEN c - 1 + 1 ELSE 0)
        /\ \A k \in 1..Len(v) : v[k] = t[1 + k - 1]
        BY SubSeqType
  <2> QED BY <2>1
<1> HIDE DEF u, v
<1>3. u = v
      BY <1>1, <1>2, SeqSame
<1> QED BY <1>3 DEF u, v

LEMMA PrefixFacts ==
    ASSUME NEW S, NEW s \in Seq(S), NEW c \in Nat, c <= Len(s)
    PROVE  /\ SubSeq(s, 1, c) \in Seq(S) /\ Len(SubSeq(s, 1, c)) = c
           /\ \A k \in 1..c : SubSeq(s, 1, c)[k] = s[k]
           /\ c = 0 => SubSeq(s, 1, c) = <<>>
           /\ c = Len(s) => SubSeq(s, 1, c) = s
           /\ c < Len(s) =>
                 SubSeq(s, 1, c) \o <<s[c + 1]>> = SubSeq(s, 1, c + 1)
<1> DEFINE u == SubSeq(s, 1, c)
<1>1. /\ u \in Seq(S) /\ Len(u) = c /\ \A k \in 1..c : u[k] = s[k]
  <2>1. /\ u \in Seq(S) /\ Len(u) = (IF 1 <= c THEN c - 1 + 1 ELSE 0)
        /\ \A k \in 1..Len(u) : u[k] = s[1 + k - 1]
        BY SubSeqType
  <2> QED BY <2>1
<1> HIDE DEF u
<1>2. c = 0 => u = <<>>
      BY <1>1
<1>3. c = Len(s) => u = s
      BY <1>1, SeqSame
<1>4. ASSUME c < Len(s) PROVE u \o <<s[c + 1]>> = SubSeq(s, 1, c + 1)
  <2> DEFINE v == SubSeq(s, 1, c + 1)
             w == u \o <<s[c + 1]>>
  <2>1. /\ v \in Seq(S) /\ Len(v) = c + 1 /\ \A k \in 1..(c + 1) : v[k] = s[k]
    <3>1. /\ v \in Seq(S)
          /\ Len(v) = (IF 1 <= c + 1 THEN (c + 1) - 1 + 1 ELSE 0)
          /\ \A k \in 1..Len(v) : v[k] = s[1 + k - 1]
          BY <1>4, SubSeqType
    <3> QED BY <3>1
  <2>2. s[c + 1] \in S
        BY <1>4
  <2>3. /\ w \in Seq(S) /\ Len(w) = c + 1
        /\ \A k \in 1..c : w[k] = u[k]
        BY <1>1, <2>2
  <2>4. w[c + 1] = s[c + 1]
        BY <1>1, <2>2
  <2> HIDE DEF v, w
  <2>5. \A k \in 1..(c + 1) : w[k] = v[k]
        BY <1>1, <2>1, <2>3, <2>4
  <2>6. w = v
        BY <2>1, <2>3, <2>5, SeqSame
  <2> QED BY <2>6 DEF v, w
<1> QED BY <1>1, <1>2, <1>3, <1>4 DEF u

(* A record depends on the log up to its place only.                       *)
LEMMA RecordKept ==
    ASSUME NEW S, NEW s \in Seq(S), NEW t \in Seq(S), NEW c \in Nat,
           NEW q \in Nat \ {0}, c + q - 1 <= Len(s), c + q - 1 <= Len(t),
           \A k \in 1..(c + q - 1) : s[k] = t[k]
    PROVE  RecordAt(t, c, q) = RecordAt(s, c, q)
<1>1. CASE q = 1
  <2>1. SubSeq(t, 1, c) = SubSeq(s, 1, c)
    <3>1. c <= Len(s) /\ c <= Len(t) /\ \A k \in 1..c : s[k] = t[k]
          BY <1>1
    <3> QED BY <3>1, PrefixSame
  <2> QED BY <1>1, <2>1 DEF RecordAt
<1>2. CASE q /= 1
  <2>1. c + q - 1 \in 1..(c + q - 1)
        BY <1>2
  <2> QED BY <1>2, <2>1 DEF RecordAt
<1> QED BY <1>1, <1>2

(* The checkpoint of the whole log is the first record of a chunk.         *)
LEMMA CheckpointRecord ==
    ASSUME NEW S, NEW s \in Seq(S)
    PROVE  RecordAt(s, Len(s), 1) = Checkpoint(s)
<1>1. SubSeq(s, 1, Len(s)) = s
  <2>1. Len(s) \in Nat
        OBVIOUS
  <2> QED BY <2>1, PrefixFacts
<1> QED BY <1>1 DEF RecordAt

-----------------------------------------------------------------------------
(* The log and the operations of the disk.                                 *)
LEMMA LogNumbers ==
    ASSUME NEW d, DiskType(d, Record), NEW b \in Bases
    PROVE  /\ d.names \in d.images /\ d.names \subseteq Ids
           /\ \A dir \in d.images : dir \subseteq Ids
           /\ \A i \in Ids :
                 /\ i \in Nat /\ b[i] \in Nat /\ d.file[i].data \in Seq(Record)
                 /\ Len(d.file[i].data) \in Nat /\ d.file[i].synced \in Nat
                 /\ d.file[i].synced <= Len(d.file[i].data)
                 /\ Top(d, b, i) \in Int /\ b[i] - 1 <= Top(d, b, i)
                 /\ Used(d, i) <=> Len(d.file[i].data) > 0
                 /\ d.file[i].synced > 0 => Used(d, i)
                 /\ Used(d, i) => Top(d, b, i) >= b[i]
                 /\ b[i] + d.file[i].synced - 1 <= Top(d, b, i)
<1>1. /\ d.names \in d.images /\ d.names \subseteq Ids /\ Ids \subseteq Nat
      /\ \A dir \in d.images : dir \subseteq Ids
      /\ \A i \in Ids : /\ d.file[i].data \in Seq(Record)
                        /\ Len(d.file[i].data) \in Nat
                        /\ d.file[i].synced \in 0..Len(d.file[i].data)
      BY DiskFacts
<1>2. ASSUME NEW i \in Ids
      PROVE  /\ i \in Nat /\ b[i] \in Nat /\ d.file[i].data \in Seq(Record)
             /\ Len(d.file[i].data) \in Nat /\ d.file[i].synced \in Nat
             /\ d.file[i].synced <= Len(d.file[i].data)
             /\ Used(d, i) <=> Len(d.file[i].data) > 0
  <2>1. i \in Nat /\ b[i] \in Nat
        BY <1>1 DEF Bases
  <2>2. Used(d, i) <=> Len(d.file[i].data) > 0
        BY <1>1 DEF Used
  <2> QED BY <1>1, <2>1, <2>2
<1>3. ASSUME NEW i \in Ids
      PROVE  /\ Top(d, b, i) \in Int /\ b[i] - 1 <= Top(d, b, i)
             /\ d.file[i].synced > 0 => Used(d, i)
             /\ Used(d, i) => Top(d, b, i) >= b[i]
             /\ b[i] + d.file[i].synced - 1 <= Top(d, b, i)
  <2>1. Used(d, i) <=> Len(d.file[i].data) > 0
        BY <1>2
  <2>2. /\ Top(d, b, i) \in Int /\ b[i] - 1 <= Top(d, b, i)
        /\ d.file[i].synced > 0 => Len(d.file[i].data) > 0
        /\ Len(d.file[i].data) > 0 => Top(d, b, i) >= b[i]
        /\ b[i] + d.file[i].synced - 1 <= Top(d, b, i)
    <3>1. /\ b[i] \in Nat /\ Len(d.file[i].data) \in Nat
          /\ d.file[i].synced \in Nat
          /\ d.file[i].synced <= Len(d.file[i].data)
          BY <1>2
    <3>2. ASSUME NEW x \in Nat, NEW l \in Nat, NEW m \in Nat, m <= l
          PROVE  /\ x + l - 1 \in Int /\ x - 1 <= x + l - 1
                 /\ m > 0 => l > 0
                 /\ l > 0 => x + l - 1 >= x
                 /\ x + m - 1 <= x + l - 1
          BY <3>2
    <3> QED BY <3>1, <3>2 DEF Top
  <2> QED BY <2>1, <2>2
<1> QED BY <1>1, <1>2, <1>3

(* The directories of e are directories of d, but for files without        *)
(* records, and the files are as long and no less synced.                  *)
LEMMA LogFrame ==
    ASSUME NEW d, NEW e, DiskType(d, Record), DiskType(e, Record),
           NEW b \in Bases, NEW s, NEW a \in Nat, NEW w \in Nat,
           DiskLog(d, b, s, a, w),
           \A dir \in e.images : \E old \in d.images :
               /\ \A i \in dir : Used(e, i) =>
                     i \in old /\ e.file[i].data = d.file[i].data
               /\ \A i \in old : d.file[i].synced > 0 =>
                     i \in dir /\ e.file[i].synced >= d.file[i].synced,
           \A i \in d.names : Used(d, i) =>
               i \in e.names /\ e.file[i].data = d.file[i].data
    PROVE  DiskLog(e, b, s, a, w)
<1>1. ASSUME NEW dir \in e.images, NEW i \in dir, Used(e, i)
      PROVE  /\ Top(e, b, i) <= Len(s)
             /\ \A q \in 1..Len(e.file[i].data) :
                    e.file[i].data[q] = RecordAt(s, b[i], q)
  <2>1. PICK old \in d.images :
            i \in old /\ e.file[i].data = d.file[i].data
        BY <1>1
  <2>2. Used(d, i) /\ Top(e, b, i) = Top(d, b, i)
        BY <1>1, <2>1 DEF Used, Top
  <2> QED BY <2>1, <2>2 DEF DiskLog, Holds
<1>2. ASSUME NEW dir \in e.images, NEW i \in dir, NEW j \in dir,
             i < j, Used(e, i), Used(e, j)
      PROVE  Top(e, b, i) <= b[j]
  <2>1. PICK old \in d.images :
            /\ i \in old /\ e.file[i].data = d.file[i].data
            /\ j \in old /\ e.file[j].data = d.file[j].data
        BY <1>2
  <2>2. Used(d, i) /\ Top(e, b, i) = Top(d, b, i) /\ Used(d, j)
        BY <1>2, <2>1 DEF Used, Top
  <2> QED BY <1>2, <2>1, <2>2 DEF DiskLog, Rising
<1>3. Survives(e, b, a)
  <2>1. SUFFICES ASSUME a > 0, NEW dir \in e.images
                 PROVE  \E j \in dir : /\ e.file[j].synced > 0
                                       /\ b[j] + e.file[j].synced - 1 >= a
        BY DEF Survives
  <2>2. PICK old \in d.images : \A i \in old : d.file[i].synced > 0 =>
            i \in dir /\ e.file[i].synced >= d.file[i].synced
        OBVIOUS
  <2>3. PICK j \in old : /\ d.file[j].synced > 0
                         /\ b[j] + d.file[j].synced - 1 >= a
        BY <2>1 DEF DiskLog, Survives
  <2>4. j \in dir /\ e.file[j].synced >= d.file[j].synced
        BY <2>2, <2>3
  <2>5. /\ j \in Ids /\ b[j] \in Nat /\ d.file[j].synced \in Nat
        /\ e.file[j].synced \in Nat
        BY <2>3, LogNumbers
  <2> QED BY <2>3, <2>4, <2>5
<1>4. Found(e, b, w)
  <2>1. SUFFICES ASSUME w > 0
                 PROVE  \E j \in e.names : Used(e, j) /\ Top(e, b, j) >= w
        BY DEF Found
  <2>2. PICK j \in d.names : Used(d, j) /\ Top(d, b, j) >= w
        BY <2>1 DEF DiskLog, Found
  <2>3. j \in e.names /\ Used(e, j) /\ Top(e, b, j) = Top(d, b, j)
        BY <2>2 DEF Used, Top
  <2> QED BY <2>2, <2>3
<1>5. Holds(e, b, s)
      BY <1>1 DEF Holds
<1>6. Rising(e, b)
      BY <1>2 DEF Rising
<1> QED BY <1>3, <1>4, <1>5, <1>6 DEF DiskLog

LEMMA QuietLog ==
    ASSUME NEW d, DiskType(d, Record), NEW b \in Bases, NEW s,
           NEW a \in Nat, NEW w \in Nat, DiskLog(d, b, s, a, w),
           NEW x \in Ids
    PROVE  /\ DiskLog(SyncDir(d), b, s, a, w)
           /\ DiskLog(SyncFile(d, x), b, s, a, w)
           /\ DiskLog(SetLen(d, x), b, s, a, w)
           /\ (\A dir \in d.images : x \in dir => ~Used(d, x)) =>
                 /\ x \notin d.names => DiskLog(CreateFile(d, x), b, s, a, w)
                 /\ x \in d.names => DiskLog(RemoveFile(d, x), b, s, a, w)
<1>1. /\ d.names \in d.images /\ d.names \subseteq Ids
      /\ \A dir \in d.images : dir \subseteq Ids
      /\ \A i \in Ids : /\ d.file[i].synced \in Nat
                        /\ d.file[i].synced <= Len(d.file[i].data)
                        /\ Len(d.file[i].data) \in Nat
                        /\ d.file[i].synced > 0 => Used(d, i)
      BY LogNumbers
<1>2. DiskLog(SyncDir(d), b, s, a, w)
  <2> DEFINE e == SyncDir(d)
  <2>1. /\ DiskType(e, Record) /\ e.names = d.names /\ e.images = {d.names}
        /\ \A k \in d.names : e.file[k] = d.file[k]
        BY SyncDirFacts
  <2> HIDE DEF e
  <2>2. \A i \in d.names : e.file[i].synced >= d.file[i].synced
        BY <1>1, <2>1
  <2>3. \A dir \in e.images :
            /\ dir \in d.images
            /\ \A i \in dir : Used(e, i) =>
                   i \in dir /\ e.file[i].data = d.file[i].data
            /\ \A i \in dir : d.file[i].synced > 0 =>
                   i \in dir /\ e.file[i].synced >= d.file[i].synced
        BY <1>1, <2>1, <2>2
  <2>4. \A i \in d.names : Used(d, i) =>
            i \in e.names /\ e.file[i].data = d.file[i].data
        BY <2>1
  <2>5. DiskLog(e, b, s, a, w)
        BY <2>1, <2>3, <2>4, LogFrame
  <2> QED BY <2>5 DEF e
<1>3. ASSUME NEW e \in {SyncFile(d, x), SetLen(d, x)}
      PROVE  DiskLog(e, b, s, a, w)
  <2>1. /\ DiskType(e, Record) /\ e.names = d.names /\ e.images = d.images
        /\ \A k \in Ids : e.file[k].data = d.file[k].data
        /\ \A k \in Ids : \/ e.file[k].synced = d.file[k].synced
                          \/ e.file[k].synced = Len(d.file[k].data)
    <3>1. CASE e = SyncFile(d, x)
      <4>1. /\ DiskType(e, Record) /\ e.names = d.names /\ e.images = d.images
            /\ e.file[x].data = d.file[x].data
            /\ e.file[x].synced = Len(d.file[x].data)
            /\ \A k \in Ids \ {x} : e.file[k] = d.file[k]
            BY <3>1, SyncFileFacts
      <4> QED BY <4>1
    <3>2. CASE e = SetLen(d, x)
      <4>1. /\ DiskType(e, Record) /\ e.names = d.names /\ e.images = d.images
            /\ e.file[x].data = d.file[x].data
            /\ e.file[x].synced = d.file[x].synced
            /\ \A k \in Ids \ {x} : e.file[k] = d.file[k]
            BY <3>2, SetLenFacts
      <4> QED BY <4>1
    <3> QED BY <3>1, <3>2
  <2>2. \A i \in Ids : e.file[i].synced >= d.file[i].synced
        BY <1>1, <2>1
  <2>3. \A dir \in e.images :
            /\ dir \in d.images
            /\ \A i \in dir : Used(e, i) =>
                   i \in dir /\ e.file[i].data = d.file[i].data
            /\ \A i \in dir : d.file[i].synced > 0 =>
                   i \in dir /\ e.file[i].synced >= d.file[i].synced
        BY <1>1, <2>1, <2>2
  <2>4. \A i \in d.names : Used(d, i) =>
            i \in e.names /\ e.file[i].data = d.file[i].data
        BY <1>1, <2>1
  <2> QED BY <2>1, <2>3, <2>4, LogFrame
<1>4. ASSUME \A dir \in d.images : x \in dir => ~Used(d, x), x \notin d.names
      PROVE  DiskLog(CreateFile(d, x), b, s, a, w)
  <2> DEFINE e == CreateFile(d, x)
  <2>1. /\ DiskType(e, Record) /\ e.names = d.names \union {x}
        /\ e.images = d.images \union {d.names \union {x}}
        /\ e.file[x] = NoFile
        /\ \A k \in Ids \ {x} : e.file[k] = d.file[k]
        BY CreateFileFacts
  <2> HIDE DEF e
  <2>2. ~Used(e, x)
        BY <2>1 DEF Used, NoFile
  <2>3. \A i \in Ids : i /= x => e.file[i].synced >= d.file[i].synced
        BY <1>1, <2>1
  <2>4. ASSUME NEW dir \in e.images
        PROVE  \E old \in d.images :
                 /\ \A i \in dir : Used(e, i) =>
                       i \in old /\ e.file[i].data = d.file[i].data
                 /\ \A i \in old : d.file[i].synced > 0 =>
                       i \in dir /\ e.file[i].synced >= d.file[i].synced
    <3>1. ASSUME NEW old \in d.images, dir = old \/ dir = old \union {x}
          PROVE  /\ \A i \in dir : Used(e, i) =>
                       i \in old /\ e.file[i].data = d.file[i].data
                 /\ \A i \in old : d.file[i].synced > 0 =>
                       i \in dir /\ e.file[i].synced >= d.file[i].synced
      <4>1. \A i \in dir : Used(e, i) => i \in old /\ i \in Ids /\ i /= x
            BY <1>1, <2>2, <3>1
      <4>2. \A i \in old : d.file[i].synced > 0 => i \in Ids /\ i /= x
        <5>1. \A i \in old : i \in Ids
              BY <1>1
        <5>2. x \in old => ~(d.file[x].synced > 0)
              BY <1>1, <1>4
        <5> QED BY <5>1, <5>2
      <4>3. \A i \in old : i \in dir
            BY <3>1
      <4> QED BY <2>1, <2>3, <4>1, <4>2, <4>3
    <3> QED BY <1>1, <2>1, <3>1
  <2>5. \A i \in d.names : Used(d, i) =>
            i \in e.names /\ e.file[i].data = d.file[i].data
        BY <1>1, <1>4, <2>1
  <2>6. DiskLog(e, b, s, a, w)
        BY <2>1, <2>4, <2>5, LogFrame
  <2> QED BY <2>6 DEF e
<1>5. ASSUME \A dir \in d.images : x \in dir => ~Used(d, x), x \in d.names
      PROVE  DiskLog(RemoveFile(d, x), b, s, a, w)
  <2> DEFINE e == RemoveFile(d, x)
  <2>1. /\ DiskType(e, Record) /\ e.names = d.names \ {x}
        /\ e.images = d.images \union {d.names \ {x}} /\ e.file = d.file
        BY RemoveFileFacts
  <2> HIDE DEF e
  <2>2. ~Used(d, x)
        BY <1>1, <1>5
  <2>3. \A i \in Ids : e.file[i].synced >= d.file[i].synced
        BY <1>1, <2>1
  <2>4. ASSUME NEW dir \in e.images
        PROVE  \E old \in d.images :
                 /\ \A i \in dir : Used(e, i) =>
                       i \in old /\ e.file[i].data = d.file[i].data
                 /\ \A i \in old : d.file[i].synced > 0 =>
                       i \in dir /\ e.file[i].synced >= d.file[i].synced
    <3>1. ASSUME NEW old \in d.images, dir = old \/ dir = old \ {x}
          PROVE  /\ \A i \in dir : Used(e, i) =>
                       i \in old /\ e.file[i].data = d.file[i].data
                 /\ \A i \in old : d.file[i].synced > 0 =>
                       i \in dir /\ e.file[i].synced >= d.file[i].synced
          BY <1>1, <2>1, <2>2, <2>3, <3>1
    <3> QED BY <1>1, <2>1, <3>1
  <2>5. \A i \in d.names : Used(d, i) =>
            i \in e.names /\ e.file[i].data = d.file[i].data
        BY <2>1, <2>2
  <2>6. DiskLog(e, b, s, a, w)
        BY <2>1, <2>4, <2>5, LogFrame
  <2> QED BY <2>6 DEF e
<1> QED BY <1>2, <1>3, <1>4, <1>5

(* A chunk is removed while a later one has synced records.                *)
LEMMA RemoveLog ==
    ASSUME NEW d, DiskType(d, Record), NEW b \in Bases, NEW s,
           NEW a \in Nat, NEW w \in Nat, DiskLog(d, b, s, a, w),
           NEW x \in Ids, NEW k \in d.names, x < k, d.file[k].synced > 0
    PROVE  DiskLog(RemoveFile(d, x), b, s, a, w)
<1> DEFINE e == RemoveFile(d, x)
<1>1. /\ DiskType(e, Record) /\ e.names = d.names \ {x}
      /\ e.images = d.images \union {d.names \ {x}} /\ e.file = d.file
      BY RemoveFileFacts
<1> HIDE DEF e
<1>2. /\ d.names \in d.images /\ k \in Ids /\ x \in Nat /\ k \in Nat /\ k /= x
      /\ Used(d, k) /\ d.names \subseteq Ids
      BY LogNumbers
<1>3. \A i : Top(e, b, i) = Top(d, b, i) /\ (Used(e, i) <=> Used(d, i))
      BY <1>1 DEF Top, Used
<1>4. Holds(e, b, s)
      BY <1>1, <1>2, <1>3 DEF DiskLog, Holds
<1>5. Rising(e, b)
      BY <1>1, <1>2, <1>3 DEF DiskLog, Rising
<1>6. ASSUME NEW n \in Nat, x \in d.names, Used(d, x), Top(d, b, x) >= n
      PROVE  b[k] >= n
  <2>1. Top(d, b, x) <= b[k]
        BY <1>2, <1>6 DEF DiskLog, Rising
  <2>2. Top(d, b, x) \in Int /\ b[k] \in Nat
        BY <1>2, LogNumbers
  <2> QED BY <1>6, <2>1, <2>2
<1>7. Survives(e, b, a)
  <2>1. SUFFICES ASSUME a > 0, NEW dir \in e.images
                 PROVE  \E j \in dir : /\ d.file[j].synced > 0
                                       /\ b[j] + d.file[j].synced - 1 >= a
        BY <1>1 DEF Survives
  <2>2. CASE dir \in d.images
        BY <2>1, <2>2 DEF DiskLog, Survives
  <2>3. CASE dir = d.names \ {x}
    <3>1. PICK j \in d.names : /\ d.file[j].synced > 0
                               /\ b[j] + d.file[j].synced - 1 >= a
          BY <1>2, <2>1 DEF DiskLog, Survives
    <3>2. CASE j /= x
          BY <2>3, <3>1, <3>2
    <3>3. CASE j = x
      <4>1. /\ Used(d, x) /\ Top(d, b, x) \in Int
            /\ b[x] \in Nat /\ d.file[x].synced \in Nat
            /\ b[x] + d.file[x].synced - 1 <= Top(d, b, x)
            BY <3>1, <3>3, LogNumbers
      <4>2. Top(d, b, x) >= a
            BY <3>1, <3>3, <4>1
      <4>3. b[k] >= a
            BY <1>6, <3>1, <3>3, <4>1, <4>2
      <4>4. b[k] \in Nat /\ d.file[k].synced \in Nat
            BY <1>2, LogNumbers
      <4>5. k \in dir /\ b[k] + d.file[k].synced - 1 >= a
            BY <1>2, <2>3, <4>3, <4>4
      <4> QED BY <4>5
    <3> QED BY <3>2, <3>3
  <2> QED BY <1>1, <2>2, <2>3
<1>8. Found(e, b, w)
  <2>1. SUFFICES ASSUME w > 0
                 PROVE  \E j \in e.names : Used(d, j) /\ Top(d, b, j) >= w
        BY <1>3 DEF Found
  <2>2. PICK j \in d.names : Used(d, j) /\ Top(d, b, j) >= w
        BY <2>1 DEF DiskLog, Found
  <2>3. CASE j /= x
        BY <1>1, <2>2, <2>3
  <2>4. CASE j = x
    <3>1. b[k] >= w
          BY <1>6, <2>2, <2>4
    <3>2. Top(d, b, k) \in Int /\ Top(d, b, k) >= b[k] /\ b[k] \in Nat
          BY <1>2, LogNumbers
    <3>3. Top(d, b, k) >= w
          BY <3>1, <3>2
    <3> QED BY <1>1, <1>2, <3>3
  <2> QED BY <2>3, <2>4
<1>9. DiskLog(e, b, s, a, w)
      BY <1>4, <1>5, <1>7, <1>8 DEF DiskLog
<1> QED BY <1>9 DEF e

(* Records are appended to the last file that has records, at their place  *)
(* in the log.                                                             *)
LEMMA WriteLog ==
    ASSUME NEW d, DiskType(d, Record), NEW b \in Bases, NEW s,
           NEW a \in Nat, NEW w \in Nat, DiskLog(d, b, s, a, w),
           NEW x \in Ids, NEW recs \in Seq(Record), NEW tail \in Tails,
           Len(s) \in Nat,
           \A dir \in d.images : \A i \in dir : Used(d, i) =>
               i <= x /\ (i < x => Top(d, b, i) <= b[x]),
           recs /= <<>> => Top(d, b, x) + Len(recs) <= Len(s),
           \A p \in 1..Len(recs) :
               recs[p] = RecordAt(s, b[x], Len(d.file[x].data) + p)
    PROVE  DiskLog(WriteFile(d, x, recs, tail), b, s, a, w)
<1> DEFINE e == WriteFile(d, x, recs, tail)
           l == Len(d.file[x].data)
<1>1. /\ DiskType(e, Record) /\ e.names = d.names /\ e.images = d.images
      /\ e.file[x].data = d.file[x].data \o recs
      /\ e.file[x].synced = d.file[x].synced
      /\ \A k \in Ids \ {x} : e.file[k] = d.file[k]
      BY WriteFileFacts
<1>2. /\ d.names \in d.images /\ d.names \subseteq Ids
      /\ \A dir \in d.images : dir \subseteq Ids
      /\ \A i \in Ids : /\ i \in Nat /\ b[i] \in Nat
                        /\ Top(d, b, i) \in Int
      /\ d.file[x].data \in Seq(Record)
      BY LogNumbers
<1> HIDE DEF e
<1>3. /\ l \in Nat /\ Len(recs) \in Nat
      /\ Len(e.file[x].data) = l + Len(recs)
      /\ \A q \in 1..l : e.file[x].data[q] = d.file[x].data[q]
      /\ \A p \in 1..Len(recs) : e.file[x].data[l + p] = recs[p]
      BY SMTT(60), <1>1, <1>2
<1>4. \A i \in Ids : i /= x => /\ Top(e, b, i) = Top(d, b, i)
                               /\ Used(e, i) <=> Used(d, i)
      BY <1>1 DEF Top, Used
<1>5. /\ Top(d, b, x) = b[x] + l - 1
      /\ Top(e, b, x) = b[x] + (l + Len(recs)) - 1
      BY <1>3 DEF Top
<1>6. \A i \in Ids : e.file[i].synced = d.file[i].synced
      BY <1>1
<1>7. recs = <<>> => /\ Top(e, b, x) = Top(d, b, x)
                     /\ Used(e, x) <=> Used(d, x)
                     /\ l + Len(recs) = l
  <2>1. ASSUME recs = <<>>
        PROVE  Len(recs) = 0 /\ e.file[x].data = d.file[x].data
        BY <1>1, <1>2, <2>1
  <2> QED BY <1>3, <2>1 DEF Top, Used
<1>8. Holds(e, b, s)
  <2>1. SUFFICES ASSUME NEW dir \in d.images, NEW i \in dir, Used(e, i)
                 PROVE  /\ Top(e, b, i) <= Len(s)
                        /\ \A q \in 1..Len(e.file[i].data) :
                               e.file[i].data[q] = RecordAt(s, b[i], q)
        BY <1>1 DEF Holds
  <2>2. CASE i /= x
        BY ZenonT(60), <1>1, <1>2, <1>4, <2>1, <2>2 DEF DiskLog, Holds
  <2>3. CASE i = x
    <3>1. ASSUME NEW q \in 1..l
          PROVE  d.file[x].data[q] = RecordAt(s, b[x], q)
      <4>1. Used(d, x)
            BY <1>2, <1>3, <3>1 DEF Used
      <4> QED BY <2>3, <4>1, <3>1 DEF DiskLog, Holds
    <3>2. ASSUME NEW q \in 1..(l + Len(recs))
          PROVE  e.file[x].data[q] = RecordAt(s, b[x], q)
      <4>1. CASE q \in 1..l
            BY <1>3, <3>1, <4>1
      <4>2. CASE q \notin 1..l
        <5>1. PICK p \in 1..Len(recs) : q = l + p
          <6>1. q - l \in 1..Len(recs) /\ q = l + (q - l)
                BY <1>3, <4>2
          <6> QED BY <6>1
        <5> QED BY <1>3, <5>1
      <4> QED BY <4>1, <4>2
    <3>3. Top(e, b, x) <= Len(s)
      <4>1. CASE recs = <<>>
            BY <1>7, <2>1, <2>3, <4>1 DEF DiskLog, Holds
      <4>2. CASE recs /= <<>>
        <5>1. ASSUME NEW y \in Nat, NEW m \in Nat, NEW r \in Nat,
                     NEW n \in Nat, (y + m - 1) + r <= n
              PROVE  y + (m + r) - 1 <= n
              BY <5>1
        <5>2. (b[x] + l - 1) + Len(recs) <= Len(s)
              BY <1>5, <4>2
        <5>3. b[x] + (l + Len(recs)) - 1 <= Len(s)
              BY <1>2, <1>3, <5>1, <5>2
        <5> QED BY <1>5, <5>3
      <4> QED BY <4>1, <4>2
    <3> QED BY <1>3, <2>3, <3>2, <3>3
  <2> QED BY <2>2, <2>3
<1>9. Rising(e, b)
  <2>1. SUFFICES ASSUME NEW dir \in d.images, NEW i \in dir, NEW j \in dir,
                        i < j, Used(e, i), Used(e, j)
                 PROVE  Top(e, b, i) <= b[j]
        BY <1>1 DEF Rising
  <2>2. i \in Ids /\ j \in Ids /\ x \in Nat /\ i \in Nat /\ j \in Nat
        BY <1>2
  <2>3. CASE i = x
    <3>1. Used(d, j)
          BY <1>4, <2>1, <2>2, <2>3
    <3> QED BY <2>1, <2>2, <2>3, <3>1
  <2>4. CASE i /= x
    <3>1. Used(d, i) /\ Top(e, b, i) = Top(d, b, i)
          BY <1>4, <2>1, <2>2, <2>4
    <3>2. CASE j = x
          BY <2>1, <3>1, <3>2
    <3>3. CASE j /= x
          BY <1>4, <2>1, <2>2, <3>1, <3>3 DEF DiskLog, Rising
    <3> QED BY <3>2, <3>3
  <2> QED BY <2>3, <2>4
<1>10. Survives(e, b, a)
  <2>1. \A dir \in d.images : \A j \in dir :
            e.file[j].synced = d.file[j].synced
        BY <1>2, <1>6
  <2> QED BY ZenonT(60), <1>1, <2>1 DEF DiskLog, Survives
<1>11. Found(e, b, w)
  <2>1. SUFFICES ASSUME w > 0
                 PROVE  \E j \in d.names : Used(e, j) /\ Top(e, b, j) >= w
        BY <1>1 DEF Found
  <2>2. PICK j \in d.names : Used(d, j) /\ Top(d, b, j) >= w
        BY <2>1 DEF DiskLog, Found
  <2>3. CASE j /= x
        BY <1>2, <1>4, <2>2, <2>3
  <2>4. CASE j = x
    <3>1. Top(e, b, x) >= w
      <4>1. ASSUME NEW y \in Nat, NEW m \in Nat, NEW r \in Nat,
                   y + m - 1 >= w
            PROVE  y + (m + r) - 1 >= w
            BY <4>1
      <4>2. b[x] + l - 1 >= w
            BY <1>5, <2>2, <2>4
      <4>3. b[x] + (l + Len(recs)) - 1 >= w
            BY <1>2, <1>3, <4>1, <4>2
      <4> QED BY <1>5, <4>3
    <3>2. Used(e, x)
      <4>1. l > 0
            BY <1>2, <2>2, <2>4 DEF Used
      <4>2. Len(e.file[x].data) > 0
            BY <1>3, <4>1
      <4> QED BY <4>2 DEF Used
    <3> QED BY <2>4, <3>1, <3>2
  <2> QED BY <2>3, <2>4
<1>12. DiskLog(e, b, s, a, w)
      BY <1>8, <1>9, <1>10, <1>11 DEF DiskLog
<1> QED BY <1>12 DEF e

(* After a power loss as much of the log is in the files as survives one.  *)
LEMMA PowerLog ==
    ASSUME NEW d, DiskType(d, Record), NEW b \in Bases, NEW s,
           Len(s) \in Nat,
           NEW a \in Nat, NEW w \in Nat, DiskLog(d, b, s, a, w),
           NEW e \in PowerLossImages(d)
    PROVE  DiskLog(e, b, s, a, a)
<1>1. /\ DiskType(e, Record)
      /\ e.names \in d.images /\ e.images = {e.names}
      /\ \A i \in e.names :
            /\ Len(e.file[i].data) \in d.file[i].synced..Len(d.file[i].data)
            /\ e.file[i].data = SubSeq(d.file[i].data, 1, Len(e.file[i].data))
            /\ e.file[i].synced = Len(e.file[i].data)
      BY PowerLossFacts
<1>2. /\ e.names \subseteq Ids
      /\ \A i \in Ids : /\ b[i] \in Nat /\ d.file[i].data \in Seq(Record)
                        /\ Len(d.file[i].data) \in Nat
                        /\ d.file[i].synced \in Nat
                        /\ Top(d, b, i) \in Int
      BY <1>1, LogNumbers
<1>3. ASSUME NEW i \in e.names
      PROVE  /\ Len(e.file[i].data) \in Nat
             /\ Len(e.file[i].data) <= Len(d.file[i].data)
             /\ d.file[i].synced <= Len(e.file[i].data)
             /\ Used(e, i) => Used(d, i)
             /\ Top(e, b, i) \in Int /\ Top(e, b, i) <= Top(d, b, i)
             /\ \A q \in 1..Len(e.file[i].data) :
                    e.file[i].data[q] = d.file[i].data[q]
  <2>1. /\ Len(e.file[i].data) \in Nat
        /\ Len(e.file[i].data) <= Len(d.file[i].data)
        /\ d.file[i].synced <= Len(e.file[i].data) /\ i \in Ids
        BY <1>1, <1>2
  <2>2. ASSUME NEW x \in Nat, NEW l \in Nat, NEW m \in Nat, m <= l
        PROVE  x + m - 1 \in Int /\ x + m - 1 <= x + l - 1
        BY <2>2
  <2>3. Top(e, b, i) \in Int /\ Top(e, b, i) <= Top(d, b, i)
        BY <1>2, <2>1, <2>2 DEF Top
  <2>4. \A q \in 1..Len(e.file[i].data) :
            e.file[i].data[q] = d.file[i].data[q]
        BY <1>1, <1>2, <2>1, PrefixFacts
  <2>5. Used(e, i) => Used(d, i)
    <3>1. ASSUME d.file[i].data = <<>> PROVE e.file[i].data = <<>>
          BY <1>1, <3>1, PrefixFacts
    <3> QED BY <3>1 DEF Used
  <2> QED BY <2>1, <2>3, <2>4, <2>5
<1>4. Holds(e, b, s)
  <2>1. SUFFICES ASSUME NEW i \in e.names, Used(e, i)
                 PROVE  /\ Top(e, b, i) <= Len(s)
                        /\ \A q \in 1..Len(e.file[i].data) :
                               e.file[i].data[q] = RecordAt(s, b[i], q)
        BY <1>1 DEF Holds
  <2>2. /\ Top(d, b, i) <= Len(s)
        /\ \A q \in 1..Len(d.file[i].data) :
               d.file[i].data[q] = RecordAt(s, b[i], q)
        BY <1>1, <1>3, <2>1 DEF DiskLog, Holds
  <2>3. Top(e, b, i) <= Len(s)
        BY <1>2, <1>3, <2>2
  <2>4. \A q \in 1..Len(e.file[i].data) : q \in 1..Len(d.file[i].data)
    <3>1. /\ Len(e.file[i].data) \in Nat /\ Len(d.file[i].data) \in Nat
          /\ Len(e.file[i].data) <= Len(d.file[i].data)
          BY <1>2, <1>3
    <3> QED BY <3>1
  <2> QED BY <1>3, <2>2, <2>3, <2>4
<1>5. Rising(e, b)
  <2>1. SUFFICES ASSUME NEW i \in e.names, NEW j \in e.names,
                        i < j, Used(e, i), Used(e, j)
                 PROVE  Top(e, b, i) <= b[j]
        BY <1>1 DEF Rising
  <2>2. Top(d, b, i) <= b[j]
        BY <1>1, <1>3, <2>1 DEF DiskLog, Rising
  <2> QED BY <1>2, <1>3, <2>2
<1>6. ASSUME a > 0
      PROVE  \E j \in e.names : /\ e.file[j].synced > 0 /\ Used(e, j)
                                /\ b[j] + e.file[j].synced - 1 >= a
                                /\ Top(e, b, j) >= a
  <2>1. PICK j \in e.names : /\ d.file[j].synced > 0
                             /\ b[j] + d.file[j].synced - 1 >= a
        BY <1>1, <1>6 DEF DiskLog, Survives
  <2>2. /\ e.file[j].synced = Len(e.file[j].data)
        /\ d.file[j].synced <= Len(e.file[j].data)
        /\ Len(e.file[j].data) \in Nat
        BY <1>1, <1>3
  <2>3. b[j] \in Nat /\ d.file[j].synced \in Nat
        BY <1>2
  <2>4. Len(e.file[j].data) > 0 /\ b[j] + Len(e.file[j].data) - 1 >= a
    <3>1. ASSUME NEW x \in Nat, NEW l \in Nat, NEW m \in Nat, m <= l,
                 m > 0, x + m - 1 >= a
          PROVE  l > 0 /\ x + l - 1 >= a
          BY <3>1
    <3>2. PICK l \in Nat : l = Len(e.file[j].data)
          BY <2>2
    <3>3. PICK m \in Nat : m = d.file[j].synced
          BY <2>3
    <3>4. m <= l /\ m > 0 /\ b[j] + m - 1 >= a /\ b[j] \in Nat
          BY <2>1, <2>2, <2>3, <3>2, <3>3
    <3>5. l > 0 /\ b[j] + l - 1 >= a
          BY <3>1, <3>4
    <3> QED BY <3>2, <3>5
  <2>5. Used(e, j)
        BY <2>4 DEF Used
  <2>6. Top(e, b, j) >= a
        BY <2>4 DEF Top
  <2>7. e.file[j].synced > 0 /\ b[j] + e.file[j].synced - 1 >= a
        BY <2>2, <2>4
  <2> QED BY <2>5, <2>6, <2>7
<1>7. Survives(e, b, a) /\ Found(e, b, a)
      BY <1>1, <1>6 DEF Survives, Found
<1> QED BY <1>4, <1>5, <1>7 DEF DiskLog

(* Another base for chunks without records.                                *)
LEMMA BaseLog ==
    ASSUME NEW d, DiskType(d, Record), NEW b \in Bases, NEW c \in Bases,
           NEW s, NEW a \in Nat, NEW w \in Nat, DiskLog(d, b, s, a, w),
           \A dir \in d.images : \A i \in dir : Used(d, i) => c[i] = b[i]
    PROVE  DiskLog(d, c, s, a, w)
<1>1. /\ d.names \in d.images
      /\ \A dir \in d.images : \A i \in dir :
             d.file[i].synced > 0 => Used(d, i)
      BY LogNumbers
<1>2. \A dir \in d.images : \A i \in dir :
          Used(d, i) => Top(d, c, i) = Top(d, b, i)
      BY DEF Top
<1>3. Holds(d, c, s)
      BY <1>2 DEF DiskLog, Holds
<1>4. Rising(d, c)
      BY <1>2 DEF DiskLog, Rising
<1>5. Survives(d, c, a)
      BY <1>1 DEF DiskLog, Survives
<1>6. Found(d, c, w)
      BY <1>1, <1>2 DEF DiskLog, Found
<1> QED BY <1>3, <1>4, <1>5, <1>6 DEF DiskLog

(* Another log, the same as far as the files reach.                        *)
LEMMA OtherLog ==
    ASSUME NEW d, DiskType(d, Record), NEW b \in Bases, NEW S,
           NEW s \in Seq(S), NEW t \in Seq(S), NEW a \in Nat, NEW w \in Nat,
           DiskLog(d, b, s, a, w),
           \A dir \in d.images : \A i \in dir :
               Used(d, i) => Top(d, b, i) <= Len(t),
           \A k \in 1..Len(t) : k <= Len(s) => t[k] = s[k]
    PROVE  DiskLog(d, b, t, a, w)
<1>1. ASSUME NEW dir \in d.images, NEW i \in dir, Used(d, i),
             NEW q \in 1..Len(d.file[i].data)
      PROVE  d.file[i].data[q] = RecordAt(t, b[i], q)
  <2>1. /\ d.file[i].data[q] = RecordAt(s, b[i], q)
        /\ Top(d, b, i) <= Len(s) /\ Top(d, b, i) <= Len(t)
        BY <1>1 DEF DiskLog, Holds
  <2>2. b[i] \in Nat /\ Len(d.file[i].data) \in Nat
        BY <1>1, LogNumbers
  <2>3. b[i] + q - 1 <= Top(d, b, i) /\ Top(d, b, i) \in Int /\ q \in Nat \ {0}
    <3>1. ASSUME NEW x \in Nat, NEW l \in Nat, NEW p \in 1..l
          PROVE  x + p - 1 <= x + l - 1 /\ x + l - 1 \in Int /\ p \in Nat \ {0}
          BY <3>1
    <3> QED BY <2>2, <3>1 DEF Top
  <2>4. b[i] + q - 1 <= Len(s) /\ b[i] + q - 1 <= Len(t)
    <3>1. ASSUME NEW x \in Int, NEW y \in Int, NEW z \in Int, x <= y, y <= z
          PROVE  x <= z
          BY <3>1
    <3>2. b[i] + q - 1 \in Int /\ Len(s) \in Int /\ Len(t) \in Int
          BY <2>2, <2>3
    <3> QED BY <2>1, <2>3, <3>1, <3>2
  <2>5. \A k \in 1..(b[i] + q - 1) : s[k] = t[k]
    <3>1. \A k \in 1..(b[i] + q - 1) : k \in 1..Len(t) /\ k <= Len(s)
          BY <2>2, <2>3, <2>4
    <3> QED BY <3>1
  <2>6. RecordAt(t, b[i], q) = RecordAt(s, b[i], q)
    <3>1. PICK c \in Nat : c = b[i]
          BY <2>2
    <3>2. /\ c + q - 1 <= Len(s) /\ c + q - 1 <= Len(t) /\ q \in Nat \ {0}
          /\ \A k \in 1..(c + q - 1) : s[k] = t[k]
          BY <2>3, <2>4, <2>5, <3>1
    <3>3. RecordAt(t, c, q) = RecordAt(s, c, q)
          BY <3>2, RecordKept
    <3> QED BY <3>1, <3>3
  <2> QED BY <2>1, <2>6
<1>2. Holds(d, b, t)
      BY <1>1 DEF Holds
<1> QED BY <1>2 DEF DiskLog

-----------------------------------------------------------------------------
(* The log and the state.                                                  *)

(* The writes on their way to the files.                                   *)
InHand == {batch[k] : k \in 1..Len(batch)}
          \union {queue[k] : k \in 1..Len(queue)}
Writes == {r \in InHand : r.kind = "write"}

(* A write brings its chunk to its upto_offset, and vouches for the log up *)
(* to there.                                                               *)
Told(b, s, r) ==
    /\ r.len = b[r.id] + r.upto - r.id - 1 /\ r.len <= Len(s)
    /\ r.id + Len(r.data) <= r.upto
    /\ \A p \in 1..Len(r.data) :
           r.data[p] =
               RecordAt(s, b[r.id], r.upto - r.id - Len(r.data) + p)

(* The open chunk reaches to the end of the log; the pending buffer is the *)
(* last part of it.                                                        *)
OpenHolds(b) ==
    /\ Len(sm) = b[open.id] + open.n - 1
    /\ \A p \in 1..Len(open.pending) :
           open.pending[p] =
               RecordAt(sm, b[open.id], open.n - Len(open.pending) + p)

(* What is for a later chunk is for a later part of the log.               *)
InOrder(b) ==
    /\ \A r \in Writes : /\ r.id <= open.id
                         /\ r.id < open.id => r.len <= b[open.id]
    /\ \A r, t \in Writes : r.id < t.id => r.len <= b[t.id]
    /\ \A dir \in fs.images : \A i \in dir : Used(fs, i) =>
          /\ i < open.id => Top(fs, b, i) <= b[open.id]
          /\ \A r \in Writes : i < r.id => Top(fs, b, i) <= b[r.id]

(* What the batch has brought to the file so far.                          *)
BatchDone ==
    /\ wpc = "write" =>
          \A k \in 1..wrote : batch[k].upto <= EndOf(fs, LastFile)
    /\ wpc \in {"sync", "callbacks"} =>
          \A k \in 1..Len(batch) : batch[k].upto <= EndOf(fs, LastFile)
    /\ wpc = "callbacks" /\ NeedSync =>
          fs.file[LastFile].synced = Len(fs.file[LastFile].data)

Sent(b) ==
    /\ \A r \in Writes : Told(b, sm, r)
    /\ OpenHolds(b) /\ InOrder(b) /\ BatchDone

(* What open_locked has replayed: the log up to the record it is at.       *)
Opening == Scanning \union {"trim", "trimsync"}
Replayed(b) ==
    pc \in Opening =>
        /\ rec.n > 0 =>
              /\ pc = "replay" /\ rec.n <= Len(fs.file[Min(rec.todo)].data)
              /\ rec.sm = SubSeq(sm, 1, b[Min(rec.todo)] + rec.n - 1)
        /\ rec.n = 0 /\ closed = {} => rec.sm = <<>>
        /\ rec.n = 0 => \A c \in closed : (\A o \in closed : o.id <= c.id) =>
              rec.sm = SubSeq(sm, 1, Top(fs, b, c.id))

(* A worker that left because the channel closed has persisted everything. *)
Settled(b) ==
    wpc \in {"quit", "done"} =>
        /\ pc = "closing"
        /\ Survives(fs, b, Len(sm)) /\ Found(fs, b, Len(sm))

LogOk(b) ==
    /\ DiskLog(fs, b, sm, acked, written)
    /\ acked <= written /\ written <= Len(sm)
    /\ Replayed(b) /\ (WorkerSound => Sent(b)) /\ Settled(b)

LogInv == \E b \in Bases : LogOk(b)

-----------------------------------------------------------------------------
LEMMA LogFacts ==
    ASSUME TInv, NEW b \in Bases, LogOk(b)
    PROVE  /\ DiskType(fs, Record) /\ sm \in Seq(1..MaxActions)
           /\ Len(sm) \in Nat /\ acked \in Nat /\ written \in Nat
           /\ DiskLog(fs, b, sm, acked, written)
           /\ acked <= written /\ written <= Len(sm)
<1>1. /\ DiskType(fs, Record) /\ sm \in Seq(1..MaxActions)
      /\ acked \in Nat /\ written \in Nat
      BY FsDisk DEF TInv, TypeOK, OwnerType, HistoryType
<1>2. Len(sm) \in Nat
      BY <1>1
<1> QED BY <1>1, <1>2 DEF LogOk

LEMMA WriteTypesInHand ==
    ASSUME TInv
    PROVE  \A r \in Writes :
             /\ r \in WorkerRequest /\ r.id \in Ids /\ r.id \in Nat
             /\ r.upto \in Nat /\ r.data \in Seq(Record)
             /\ Len(r.data) \in Nat /\ r.len \in Nat
<1>1. batch \in Seq(WorkerRequest) /\ queue \in Seq(WorkerRequest)
      BY DEF TInv, TypeOK, WorkerType
<1>2. \A r \in Writes : r \in WorkerRequest
      BY <1>1 DEF Writes, InHand
<1>3. \A r \in WorkerRequest : r.len \in Nat
      BY DEF WorkerRequest
<1> QED BY <1>2, <1>3, RequestFacts

(* The WAL is up or gone: there is nothing being replayed.                 *)
LEMMA RunLog ==
    ASSUME NEW b \in Bases, pc' \notin Opening,
           DiskLog(fs', b, sm', acked', written'),
           acked' <= written', written' <= Len(sm'),
           WorkerSound' => Sent(b)', Settled(b)'
    PROVE  LogOk(b)'
BY DEF LogOk, Replayed

(* A step of the worker that changes neither the vouched nor the log.      *)
LEMMA WorkerLog ==
    ASSUME TInv, NEW b \in Bases, LogOk(b), pc \in UpPCs,
           UNCHANGED <<mainVars, acked, written>>,
           DiskLog(fs', b, sm, acked, written),
           WorkerSound' => Sent(b)', wpc' \notin {"quit", "done"}
    PROVE  LogOk(b)'
<1>1. pc' \notin Opening
      BY DEF mainVars, UpPCs, Opening, Scanning
<1>2. DiskLog(fs', b, sm', acked', written')
      /\ acked' <= written' /\ written' <= Len(sm')
      BY LogFacts DEF mainVars
<1>3. Settled(b)'
      BY DEF Settled
<1> QED BY <1>1, <1>2, <1>3, RunLog

LEMMA SentFrame ==
    ASSUME NEW b \in Bases, Sent(b), UNCHANGED <<sm, open>>,
           Writes' \subseteq Writes, BatchDone',
           \A dir \in fs'.images : \A i \in dir : Used(fs', i) =>
               \E old \in fs.images :
                   i \in old /\ fs'.file[i].data = fs.file[i].data
    PROVE  Sent(b)'
<1>1. \A r \in Writes' : Told(b, sm', r)
      BY DEF Sent
<1>2. OpenHolds(b)'
      BY DEF Sent, OpenHolds
<1>3. /\ \A r \in Writes' : /\ r.id <= open'.id
                            /\ r.id < open'.id => r.len <= b[open'.id]
      /\ \A r, t \in Writes' : r.id < t.id => r.len <= b[t.id]
      BY DEF Sent, InOrder
<1>4. ASSUME NEW dir \in fs'.images, NEW i \in dir, Used(fs', i)
      PROVE  /\ i < open'.id => Top(fs', b, i) <= b[open'.id]
             /\ \A r \in Writes' : i < r.id => Top(fs', b, i) <= b[r.id]
  <2>1. PICK old \in fs.images :
            i \in old /\ fs'.file[i].data = fs.file[i].data
        BY <1>4
  <2>2. Used(fs, i) /\ Top(fs', b, i) = Top(fs, b, i)
        BY <1>4, <2>1 DEF Used, Top
  <2> QED BY <2>1, <2>2 DEF Sent, InOrder
<1>5. InOrder(b)'
      BY <1>3, <1>4 DEF InOrder
<1> QED BY <1>1, <1>2, <1>5 DEF Sent

(* The worker moves from the queue to a batch, or on to the next chunk.    *)
LEMMA RecvLog ==
    ASSUME WInv, WInv', NEW b \in Bases, LogOk(b), Recv PROVE LogOk(b)'
<1>1. /\ TInv /\ WorkerSound /\ pc \in UpPCs /\ wpc = "recv"
      /\ wrote = 0 /\ queue \in Seq(WorkerRequest) /\ Len(queue) \in Nat
      /\ fs' = fs /\ wrote' = wrote
  <2>1. wpc = "recv" /\ fs' = fs /\ wrote' = wrote /\ TInv
        BY DEF Recv, WInv
  <2>2. WorkerSound /\ pc \in UpPCs
        BY <2>1, SoundFacts
  <2>3. wrote = 0 /\ queue \in Seq(WorkerRequest)
        BY <2>1 DEF TInv, Control, TypeOK, WorkerType
  <2> QED BY <2>1, <2>2, <2>3
<1>2. Writes' \subseteq Writes
  <2>1. CASE TakeNonFlush
    <3>1. batch' = <<>> /\ queue' = Tail(queue) /\ queue /= <<>>
          BY <2>1 DEF TakeNonFlush, Recv
    <3>2. /\ 1..Len(batch') = {}
          /\ \A k \in 1..Len(queue') : /\ k + 1 \in 1..Len(queue)
                                       /\ queue'[k] = queue[k + 1]
          BY <1>1, <3>1
    <3> QED BY <3>2 DEF Writes, InHand
  <2>2. ASSUME NEW n \in 1..Len(queue), NEW ends \in BOOLEAN,
               TakeBatch(n, ends)
        PROVE  Writes' \subseteq Writes
    <3>1. PICK m \in 1..(Len(queue) + 1) :
              /\ queue' = SubSeq(queue, m, Len(queue))
              /\ batch' = SubSeq(queue, 1, n)
      <4>1. /\ batch' = SubSeq(queue, 1, n) /\ (ends => n < Len(queue))
            /\ queue' = SubSeq(queue, (IF ends THEN n + 2 ELSE n + 1),
                              Len(queue))
            BY <2>2 DEF TakeBatch
      <4>2. CASE ends
        <5>1. n + 2 \in 1..(Len(queue) + 1)
              BY <1>1, <4>1, <4>2
        <5> QED BY <4>1, <4>2, <5>1
      <4>3. CASE ~ends
        <5>1. n + 1 \in 1..(Len(queue) + 1)
              BY <1>1
        <5> QED BY <4>1, <4>3, <5>1
      <4> QED BY <4>2, <4>3
    <3>2. \A k \in 1..Len(batch') : k \in 1..Len(queue) /\ batch'[k] = queue[k]
      <4>1. n \in Nat /\ n <= Len(queue)
            BY <1>1
      <4>2. Len(batch') = n /\ \A k \in 1..n : batch'[k] = queue[k]
            BY <1>1, <3>1, <4>1, PrefixFacts
      <4> QED BY <1>1, <4>2
    <3>3. \A k \in 1..Len(queue') : /\ m + k - 1 \in 1..Len(queue)
                                    /\ queue'[k] = queue[m + k - 1]
      <4>1. /\ Len(queue') = IF m <= Len(queue) THEN Len(queue) - m + 1 ELSE 0
            /\ \A k \in 1..Len(queue') : queue'[k] = queue[m + k - 1]
            BY <1>1, <3>1, SubSeqType
      <4> QED BY <1>1, <4>1
    <3> QED BY <3>2, <3>3 DEF Writes, InHand
  <2> QED BY <2>1, <2>2 DEF Recv
<1>3. BatchDone' /\ wpc' \in {"write", "nonflush"}
  <2>1. wpc' \in {"write", "nonflush"}
        BY DEF Recv, TakeNonFlush, TakeBatch
  <2>2. 1..wrote' = {}
        BY <1>1
  <2> QED BY <2>1, <2>2 DEF BatchDone
<1>4. UNCHANGED <<mainVars, acked, written>>
      BY DEF Recv, histVars
<1>5. Sent(b)'
  <2>1. UNCHANGED <<sm, open>>
        BY <1>4 DEF mainVars
  <2>2. Sent(b)
        BY <1>1 DEF LogOk
  <2>3. \A dir \in fs'.images : \A i \in dir : Used(fs', i) =>
            \E old \in fs.images :
                i \in old /\ fs'.file[i].data = fs.file[i].data
        BY <1>1
  <2> QED BY <1>2, <1>3, <2>1, <2>2, <2>3, SentFrame
<1> QED BY <1>1, <1>3, <1>4, <1>5, LogFacts, WorkerLog

(* Steps after which the worker is broken, or gone, with the files as they *)
(* were.                                                                   *)
LEMMA BrokenLog ==
    ASSUME WInv, NEW b \in Bases, LogOk(b), SyncErr \/ RemoveErr
    PROVE  LogOk(b)'
<1>1. /\ TInv /\ wpc \in {"sync", "nonflush", "rmsync"} /\ fs' = fs
      /\ UNCHANGED <<mainVars, acked, written>>
      /\ wpc' \notin {"quit", "done"} /\ ~WorkerSound'
      BY DEF SyncErr, RemoveErr, WInv, WorkerSound, histVars
<1>2. pc \in UpPCs
      BY <1>1, SoundFacts
<1> QED BY <1>1, <1>2, LogFacts, WorkerLog

LEMMA WorkerExitLog ==
    ASSUME WInv, NEW b \in Bases, LogOk(b), WorkerExit PROVE LogOk(b)'
<1>1. /\ TInv /\ wpc \in {"stop", "quit"} /\ fs' = fs
      /\ UNCHANGED <<mainVars, acked, written>>
      /\ wpc' = (IF wpc = "stop" THEN "dead" ELSE "done") /\ ~WorkerSound'
      BY DEF WorkerExit, WInv, WorkerSound, histVars
<1>2. pc' \notin Opening
      BY <1>1 DEF TInv, Control, UpPCs, Opening, Scanning, mainVars
<1>3. DiskLog(fs', b, sm', acked', written')
      /\ acked' <= written' /\ written' <= Len(sm')
      BY <1>1, LogFacts DEF mainVars
<1>4. Settled(b)'
  <2>1. wpc' = "done" => wpc = "quit"
        BY <1>1
  <2> QED BY <1>1, <2>1 DEF Settled, LogOk, mainVars
<1> QED BY <1>1, <1>2, <1>3, <1>4, RunLog

(* The write the worker is at: its records go on where the file ends.      *)
LEMMA NextWrite ==
    ASSUME WInv, NEW b \in Bases, LogOk(b), wpc = "write"
    PROVE  LET r == batch[wrote + 1]
               l == Len(fs.file[LastFile].data) IN
           /\ r \in Writes /\ r.id = LastFile /\ r.data = NextData
           /\ LastFile \in Ids /\ LastFile \in Nat /\ l \in Nat
           /\ b[LastFile] \in Nat
           /\ NextData \in Seq(Record) /\ Len(NextData) \in Nat
           /\ r.upto = EndOf(fs, LastFile) + Len(NextData)
           /\ EndOf(fs, LastFile) = LastFile + l
           /\ r.len = Top(fs, b, LastFile) + Len(NextData)
           /\ r.len \in Nat /\ r.len <= Len(sm)
           /\ \A p \in 1..Len(NextData) :
                 NextData[p] = RecordAt(sm, b[LastFile], l + p)
           /\ \A dir \in fs.images : \A i \in dir : Used(fs, i) =>
                 /\ i <= LastFile
                 /\ i < LastFile => Top(fs, b, i) <= b[LastFile]
<1> DEFINE r == batch[wrote + 1]
           l == Len(fs.file[LastFile].data)
           n == Len(NextData)
<1>1. /\ TInv /\ WorkerSound /\ PipeInv /\ LastFile \in Ids /\ Sent(b)
      BY SoundFacts DEF WInv, LogOk
<1>2. /\ wrote + 1 \in 1..Len(batch) /\ r \in WorkerRequest
      /\ NextData \in Seq(Record) /\ r.kind = "write" /\ r.data = NextData
  <2>1. wrote + 1 \in 1..Len(batch) /\ r \in WorkerRequest
        /\ NextData \in Seq(Record)
        BY <1>1, BatchFacts
  <2>2. r.kind = "write"
        BY <1>1, <2>1 DEF TInv, Requests
  <2> QED BY <2>1, <2>2 DEF NextData
<1>3. r \in Writes /\ r.id = LastFile
      BY <1>1, <1>2 DEF Writes, InHand, PipeInv, BatchInv
<1>4. /\ LastFile \in Nat /\ l \in Nat /\ b[LastFile] \in Nat /\ n \in Nat
      /\ r.upto \in Nat /\ r.len \in Nat
      /\ \A dir \in fs.images : \A i \in dir : i \in Nat
      /\ DiskType(fs, Record)
  <2>1. DiskType(fs, Record)
        BY <1>1, LogFacts
  <2>2. LastFile \in Nat /\ l \in Nat /\ b[LastFile] \in Nat
        /\ \A dir \in fs.images : \A i \in dir : i \in Nat
        BY <1>1, <2>1, LogNumbers
  <2>3. r.upto \in Nat /\ r.len \in Nat
        BY <1>1, <1>3, WriteTypesInHand
  <2>4. n \in Nat
        BY <1>2
  <2> QED BY <2>1, <2>2, <2>3, <2>4
<1>5. EndOf(fs, LastFile) = LastFile + l
      BY DEF EndOf
<1>6. r.upto = EndOf(fs, LastFile) + n
  <2>1. Follows(r, FilePlace)
        BY <1>1 DEF PipeInv, BatchChain
  <2>2. PlaceOf(r) = Place(LastFile, EndOf(fs, LastFile) + n)
        BY <1>2, <2>1 DEF Follows, FilePlace, Place
  <2> QED BY <2>2 DEF PlaceOf, Place
<1>7. /\ r.len = b[LastFile] + r.upto - LastFile - 1 /\ r.len <= Len(sm)
      /\ \A p \in 1..n : NextData[p] =
             RecordAt(sm, b[LastFile], r.upto - LastFile - n + p)
      BY <1>1, <1>2, <1>3 DEF Sent, Told
<1> HIDE DEF r, l, n
<1>8. r.upto - LastFile - n = l /\ r.len = (b[LastFile] + l - 1) + n
      BY SMTT(60), <1>4, <1>5, <1>6, <1>7
<1>9. r.len = Top(fs, b, LastFile) + n
      BY <1>8 DEF Top, l
<1>10. \A p \in 1..n : NextData[p] = RecordAt(sm, b[LastFile], l + p)
      BY <1>7, <1>8
<1>11. ASSUME NEW dir \in fs.images, NEW i \in dir, Used(fs, i)
      PROVE  i <= LastFile /\ (i < LastFile => Top(fs, b, i) <= b[LastFile])
  <2>1. i <= LastFile
        BY <1>1, <1>4, <1>11 DEF PipeInv, FileInv
  <2>2. i < LastFile => Top(fs, b, i) <= b[LastFile]
        BY <1>1, <1>3, <1>11 DEF Sent, InOrder
  <2> QED BY <2>1, <2>2
<1> QED BY <1>1, <1>2, <1>3, <1>4, <1>5, <1>6, <1>7, <1>9, <1>10, <1>11
        DEF r, l, n

(* All of it, or the first k of its records, goes to the file.             *)
LEMMA PartWritten ==
    ASSUME WInv, NEW b \in Bases, LogOk(b), wpc = "write",
           NEW recs \in Seq(Record), NEW tail \in Tails,
           Len(recs) <= Len(NextData),
           \A p \in 1..Len(recs) : recs[p] = NextData[p]
    PROVE  DiskLog(WriteFile(fs, LastFile, recs, tail), b, sm, acked, written)
<1> DEFINE l == Len(fs.file[LastFile].data)
<1>1. PICK r \in Writes :
           /\ LastFile \in Ids /\ b[LastFile] \in Nat /\ Len(NextData) \in Nat
           /\ r.len = Top(fs, b, LastFile) + Len(NextData)
           /\ r.len \in Nat /\ r.len <= Len(sm)
           /\ \A p \in 1..Len(NextData) :
                 NextData[p] = RecordAt(sm, b[LastFile], l + p)
           /\ \A dir \in fs.images : \A i \in dir : Used(fs, i) =>
                 /\ i <= LastFile
                 /\ i < LastFile => Top(fs, b, i) <= b[LastFile]
      BY NextWrite
<1>2. /\ TInv /\ DiskType(fs, Record) /\ Len(sm) \in Nat
      /\ acked \in Nat /\ written \in Nat
      /\ DiskLog(fs, b, sm, acked, written)
      BY LogFacts DEF WInv
<1>3. Top(fs, b, LastFile) \in Int /\ Len(recs) \in Nat
      BY <1>1, <1>2, LogNumbers
<1>4. Top(fs, b, LastFile) + Len(recs) <= Len(sm)
  <2>1. ASSUME NEW t \in Int, NEW m \in Nat, NEW n \in Nat, NEW y \in Nat,
               m <= n, t + n <= y
        PROVE  t + m <= y
        BY <2>1
  <2>2. Top(fs, b, LastFile) + Len(NextData) <= Len(sm)
        BY <1>1
  <2> QED BY <1>1, <1>2, <1>3, <2>1, <2>2
<1>5. \A p \in 1..Len(recs) : recs[p] = RecordAt(sm, b[LastFile], l + p)
  <2>1. \A p \in 1..Len(recs) : p \in 1..Len(NextData)
        BY <1>1, <1>3
  <2> QED BY <1>1, <2>1
<1> HIDE DEF l
<1> QED BY <1>1, <1>2, <1>4, <1>5, WriteLog DEF l

LEMMA WriteBatchErrLog ==
    ASSUME WInv, NEW b \in Bases, LogOk(b), WriteBatchErr PROVE LogOk(b)'
<1>1. PICK k \in 0..(Len(NextData) - 1), tail \in {"none", "short"} :
          fs' = WriteFile(fs, LastFile, SubSeq(NextData, 1, k), tail)
      BY DEF WriteBatchErr
<1>2. /\ wpc = "write" /\ UNCHANGED <<mainVars, acked, written>>
      /\ wpc' = "callbacks" /\ ~WorkerSound' /\ TInv
      BY DEF WriteBatchErr, WorkerSound, histVars, WInv
<1>3. pc \in UpPCs
      BY <1>2, SoundFacts
<1>4. NextData \in Seq(Record) /\ Len(NextData) \in Nat
      BY <1>2, BatchFacts
<1>5. /\ SubSeq(NextData, 1, k) \in Seq(Record)
      /\ Len(SubSeq(NextData, 1, k)) <= Len(NextData)
      /\ \A p \in 1..Len(SubSeq(NextData, 1, k)) :
             SubSeq(NextData, 1, k)[p] = NextData[p]
  <2>1. k \in Nat /\ k <= Len(NextData)
        BY <1>4
  <2> QED BY <1>4, <2>1, PrefixFacts
<1>6. tail \in Tails
      BY DEF Tails
<1>7. DiskLog(fs', b, sm, acked, written)
      BY <1>1, <1>2, <1>5, <1>6, PartWritten
<1> QED BY <1>2, <1>3, <1>7, WorkerLog

LEMMA WriteBatchLog ==
    ASSUME WInv, NEW b \in Bases, LogOk(b), WriteBatch PROVE LogOk(b)'
<1> DEFINE r == batch[wrote + 1]
<1>1. /\ wpc = "write" /\ UNCHANGED <<mainVars, acked, written>>
      /\ UNCHANGED <<files, batch, queue>> /\ LastFile' = LastFile
      /\ fs' = WriteFile(fs, LastFile, NextData, "none") /\ TInv
      /\ \/ wrote + 1 < Len(batch) /\ wrote' = wrote + 1 /\ wpc' = wpc
         \/ /\ wrote + 1 = Len(batch) /\ wrote' = 0
            /\ wpc' = IF NeedSync THEN "sync" ELSE "callbacks"
      BY DEF WriteBatch, WInv, histVars, chanVars, LastFile
<1>2. pc \in UpPCs /\ WorkerSound /\ Sent(b)
      BY <1>1, SoundFacts DEF LogOk
<1>3. /\ r \in Writes /\ r.id = LastFile /\ LastFile \in Ids
      /\ NextData \in Seq(Record) /\ Len(NextData) \in Nat
      /\ Len(fs.file[LastFile].data) \in Nat /\ b[LastFile] \in Nat
      /\ LastFile \in Nat
      /\ r.upto = EndOf(fs, LastFile) + Len(NextData)
      /\ EndOf(fs, LastFile) = LastFile + Len(fs.file[LastFile].data)
      /\ r.len = Top(fs, b, LastFile) + Len(NextData)
      BY <1>1, NextWrite
<1> HIDE DEF r
<1>4. "none" \in Tails /\ DiskType(fs, Record)
      BY <1>1, LogFacts DEF Tails
<1>5. DiskLog(fs', b, sm, acked, written)
  <2>1. Len(NextData) <= Len(NextData)
        BY <1>3
  <2> QED BY <1>1, <1>3, <1>4, <2>1, PartWritten
<1>6. /\ fs'.images = fs.images
      /\ fs'.file[LastFile].data = fs.file[LastFile].data \o NextData
      /\ \A k \in Ids \ {LastFile} : fs'.file[k] = fs.file[k]
  <2>1. fs' = WriteFile(fs, LastFile, NextData, "none")
        /\ LastFile \in Ids /\ NextData \in Seq(Record)
        BY <1>1, <1>3
  <2> QED BY SMTT(60), <1>4, <2>1, WriteFileFacts
<1>7. Len(fs'.file[LastFile].data) =
             Len(fs.file[LastFile].data) + Len(NextData)
  <2>1. fs.file[LastFile].data \in Seq(Record)
        BY <1>3, <1>4, DiskFacts
  <2> QED BY <1>3, <1>6, <2>1
<1>8. EndOf(fs', LastFile) = r.upto /\ Top(fs', b, LastFile) = r.len
      /\ EndOf(fs, LastFile) <= r.upto /\ r.upto \in Nat
      /\ EndOf(fs, LastFile) \in Nat
  <2>1. ASSUME NEW f \in Nat, NEW l \in Nat, NEW n \in Nat, NEW x \in Nat
        PROVE  /\ f + (l + n) = (f + l) + n
               /\ x + (l + n) - 1 = (x + l - 1) + n
               /\ f + l <= (f + l) + n /\ (f + l) + n \in Nat /\ f + l \in Nat
        OBVIOUS
  <2>2. /\ EndOf(fs', LastFile) = LastFile + Len(fs'.file[LastFile].data)
        /\ Top(fs', b, LastFile) =
              b[LastFile] + Len(fs'.file[LastFile].data) - 1
        /\ Top(fs, b, LastFile) =
              b[LastFile] + Len(fs.file[LastFile].data) - 1
        BY DEF EndOf, Top
  <2>3. PICK l \in Nat : l = Len(fs.file[LastFile].data)
        BY <1>3
  <2>4. PICK n \in Nat : n = Len(NextData)
        BY <1>3
  <2>5. /\ EndOf(fs', LastFile) = LastFile + (l + n)
        /\ Top(fs', b, LastFile) = b[LastFile] + (l + n) - 1
        /\ r.len = (b[LastFile] + l - 1) + n
        /\ EndOf(fs, LastFile) = LastFile + l /\ r.upto = (LastFile + l) + n
    <3>1. Len(fs'.file[LastFile].data) = l + n
          BY <1>7, <2>3, <2>4
    <3>2. /\ EndOf(fs', LastFile) = LastFile + (l + n)
          /\ Top(fs', b, LastFile) = b[LastFile] + (l + n) - 1
          BY <2>2, <3>1
    <3>3. Top(fs, b, LastFile) = b[LastFile] + l - 1
          BY <2>2, <2>3
    <3>4. r.len = (b[LastFile] + l - 1) + n
          BY <1>3, <2>4, <3>3
    <3>5. EndOf(fs, LastFile) = LastFile + l
          BY <1>3, <2>3
    <3>6. r.upto = (LastFile + l) + n
          BY <1>3, <2>4, <3>5
    <3> QED BY <3>2, <3>4, <3>5, <3>6
  <2>6. LastFile \in Nat /\ b[LastFile] \in Nat
        BY <1>3
  <2> QED BY <2>1, <2>5, <2>6
<1>9. Writes' = Writes
      BY <1>1 DEF Writes, InHand
<1>10. BatchDone'
  <2>1. /\ wrote \in Nat /\ Len(batch) \in Nat
        /\ \A k \in 1..Len(batch) : batch[k].upto \in Nat
    <3>1. wrote \in Nat /\ batch \in Seq(WorkerRequest)
          BY <1>1 DEF TInv, TypeOK, WorkerType
    <3>2. \A k \in 1..Len(batch) : batch[k] \in WorkerRequest
          BY <3>1
    <3> QED BY <3>1, <3>2, RequestFacts
  <2>2. wrote + 1 <= Len(batch)
        BY <1>1, <2>1
  <2>3. ASSUME NEW k \in 1..(wrote + 1)
        PROVE  batch'[k].upto <= EndOf(fs', LastFile')
    <3>1. k \in 1..Len(batch) /\ (k = wrote + 1 \/ k \in 1..wrote)
          BY <2>1, <2>2
    <3>2. CASE k = wrote + 1
          BY <1>1, <1>8, <3>2 DEF r
    <3>3. CASE k \in 1..wrote
      <4>1. batch[k].upto <= EndOf(fs, LastFile)
            BY <1>1, <1>2, <3>3 DEF Sent, BatchDone
      <4>2. batch[k].upto <= r.upto
            BY <1>8, <2>1, <3>1, <4>1
      <4> QED BY <1>1, <1>8, <4>2
    <3> QED BY <3>1, <3>2, <3>3
  <2>4. CASE wrote + 1 < Len(batch) /\ wrote' = wrote + 1 /\ wpc' = wpc
        BY <1>1, <2>3, <2>4 DEF BatchDone
  <2>5. CASE wrote + 1 = Len(batch) /\ wpc' \in {"sync", "callbacks"}
             /\ (wpc' = "callbacks" => ~NeedSync)
    <3>1. NeedSync' <=> NeedSync
          BY <1>1 DEF NeedSync
    <3>2. \A k \in 1..Len(batch') : batch'[k].upto <= EndOf(fs', LastFile')
          BY <1>1, <2>3, <2>5
    <3> QED BY <2>5, <3>1, <3>2 DEF BatchDone
  <2> QED BY <1>1, <2>4, <2>5
<1>11. InOrder(b)'
  <2>1. open' = open
        BY <1>1 DEF mainVars
  <2>2. ASSUME NEW dir \in fs'.images, NEW i \in dir, Used(fs', i)
        PROVE  /\ i < open'.id => Top(fs', b, i) <= b[open'.id]
               /\ \A t \in Writes' : i < t.id => Top(fs', b, i) <= b[t.id]
    <3>1. CASE i = LastFile
          BY <1>2, <1>3, <1>8, <1>9, <2>1, <3>1 DEF Sent, InOrder
    <3>2. CASE i /= LastFile
      <4>1. i \in Ids
            BY <1>4, <1>6, LogNumbers
      <4>2. Used(fs, i) /\ Top(fs', b, i) = Top(fs, b, i)
            BY <1>6, <2>2, <3>2, <4>1 DEF Used, Top
      <4> QED BY <1>2, <1>6, <1>9, <2>1, <4>2 DEF Sent, InOrder
    <3> QED BY <3>1, <3>2
  <2> QED BY <1>2, <1>9, <2>1, <2>2 DEF Sent, InOrder
<1>12. Sent(b)'
      BY <1>1, <1>2, <1>9, <1>10, <1>11 DEF Sent, OpenHolds, mainVars
<1>13. wpc' \notin {"quit", "done"}
      BY <1>1
<1> QED BY <1>1, <1>2, <1>5, <1>12, <1>13, WorkerLog

(* Steps of the worker that leave the records of the files alone.          *)
LEMMA SyncFileLog ==
    ASSUME WInv, NEW b \in Bases, LogOk(b), SyncOldFile \/ SyncLastFile
    PROVE  LogOk(b)'
<1>1. /\ wpc = "sync" /\ UNCHANGED <<mainVars, acked, written, batch, queue>>
      /\ TInv
      BY DEF SyncOldFile, SyncLastFile, WInv, chanVars, histVars
<1>2. pc \in UpPCs /\ WorkerSound /\ Sent(b) /\ LastFile \in Ids
      /\ DiskType(fs, Record)
      BY <1>1, SoundFacts, LogFacts DEF LogOk
<1>3. PICK x \in Ids :
          /\ fs' = SyncFile(fs, x) /\ LastFile' = LastFile
          /\ wpc' = "sync" \/ (wpc' = "callbacks" /\ x = LastFile)
  <2>1. CASE SyncOldFile
    <3>1. files \in Seq(Ids) /\ Len(files) > 1 /\ files' = Tail(files)
          /\ fs' = SyncFile(fs, Head(files)) /\ wpc' = "sync"
          BY <1>1, <2>1 DEF SyncOldFile, TInv, TypeOK, WorkerType
    <3>2. Head(files) \in Ids /\ files'[Len(files')] = files[Len(files)]
          BY <3>1
    <3> QED BY <3>1, <3>2 DEF LastFile, Last
  <2>2. CASE SyncLastFile
    <3>1. fs' = SyncFile(fs, LastFile) /\ wpc' = "callbacks"
          /\ LastFile' = LastFile
          BY <2>2 DEF SyncLastFile, LastFile
    <3> QED BY <1>2, <3>1
  <2> QED BY <2>1, <2>2
<1>4. /\ fs'.images = fs.images
      /\ \A k \in Ids : fs'.file[k].data = fs.file[k].data
      /\ fs'.file[x].synced = Len(fs.file[x].data)
  <2>1. /\ fs'.images = fs.images
        /\ fs'.file[x].data = fs.file[x].data
        /\ fs'.file[x].synced = Len(fs.file[x].data)
        /\ \A k \in Ids \ {x} : fs'.file[k] = fs.file[k]
        BY <1>2, <1>3, SyncFileFacts
  <2> QED BY <2>1
<1>5. DiskLog(fs', b, sm, acked, written)
      BY <1>1, <1>2, <1>3, LogFacts, QuietLog
<1>6. BatchDone'
  <2>1. EndOf(fs', LastFile') = EndOf(fs, LastFile)
        BY <1>2, <1>3, <1>4 DEF EndOf
  <2>2. \A k \in 1..Len(batch') : batch'[k].upto <= EndOf(fs', LastFile')
        BY <1>1, <1>2, <2>1 DEF Sent, BatchDone
  <2>3. wpc' = "callbacks" =>
            fs'.file[LastFile'].synced = Len(fs'.file[LastFile'].data)
        BY <1>3, <1>4
  <2> QED BY <1>3, <2>2, <2>3 DEF BatchDone
<1>7. Writes' = Writes
      BY <1>1 DEF Writes, InHand
<1>8. \A dir \in fs'.images : \A i \in dir : Used(fs', i) =>
          \E old \in fs.images :
              i \in old /\ fs'.file[i].data = fs.file[i].data
  <2>1. \A dir \in fs.images : dir \subseteq Ids
        BY <1>2, LogNumbers
  <2> QED BY <1>4, <2>1
<1>9. Sent(b)'
      BY <1>1, <1>2, <1>6, <1>7, <1>8, SentFrame DEF mainVars
<1>10. wpc' \notin {"quit", "done"}
      BY <1>3
<1> QED BY <1>1, <1>2, <1>5, <1>9, <1>10, WorkerLog

LEMMA AppendFileLog ==
    ASSUME WInv, NEW b \in Bases, LogOk(b), AppendFile PROVE LogOk(b)'
<1>1. /\ wpc = "nonflush" /\ UNCHANGED <<mainVars, acked, written>>
      /\ UNCHANGED <<batch, queue, fs>> /\ TInv /\ wpc' = "recv"
      BY DEF AppendFile, WInv, chanVars, histVars
<1>2. pc \in UpPCs /\ WorkerSound /\ Sent(b)
      BY <1>1, SoundFacts DEF LogOk
<1>3. Writes' = Writes /\ BatchDone'
      BY <1>1 DEF Writes, InHand, BatchDone
<1>4. Sent(b)'
      BY <1>1, <1>2, <1>3, SentFrame DEF mainVars
<1>5. wpc' \notin {"quit", "done"} /\ DiskLog(fs', b, sm, acked, written)
      BY <1>1, LogFacts
<1> QED BY <1>1, <1>2, <1>4, <1>5, WorkerLog

(* Chunks are removed from the front.  What they held, the chunk the       *)
(* worker is in holds too, on stable storage.                              *)
LEMMA RemoveChunkLog ==
    ASSUME WInv, ReportInv, NEW b \in Bases, LogOk(b),
           RemoveChunk \/ RemoveSync
    PROVE  LogOk(b)'
<1>1. /\ wpc \in {"nonflush", "rmsync"}
      /\ UNCHANGED <<mainVars, acked, written>>
      /\ UNCHANGED <<batch, queue>> /\ TInv
      /\ wpc' \in {"nonflush", "rmsync", "recv"}
      BY DEF RemoveChunk, RemoveSync, WInv, chanVars, histVars
<1>2. /\ pc \in UpPCs /\ WorkerSound /\ Sent(b) /\ PipeInv
      /\ LastFile \in fs.names /\ DiskType(fs, Record)
      BY <1>1, SoundFacts, LogFacts DEF LogOk
<1>3. Writes' = Writes /\ BatchDone'
      BY <1>1 DEF Writes, InHand, BatchDone
<1>4. /\ DiskLog(fs', b, sm, acked, written)
      /\ \A dir \in fs'.images : \E old \in fs.images : \A i \in dir :
             i \in old /\ fs'.file[i].data = fs.file[i].data
  <2>1. CASE RemoveSync
    <3>1. fs' = SyncDir(fs) /\ fs.names \in fs.images
          BY <1>2, <2>1, LogNumbers DEF RemoveSync
    <3>2. /\ fs'.images = {fs.names}
          /\ \A k \in fs.names : fs'.file[k] = fs.file[k]
          BY <1>2, <3>1, SyncDirFacts
    <3>3. DiskLog(SyncDir(fs), b, sm, acked, written)
      <4>1. LastFile \in Ids
            BY <1>2, LogNumbers
      <4> QED BY <1>1, <1>2, <4>1, LogFacts, QuietLog
    <3> QED BY <3>1, <3>2, <3>3
  <2>2. CASE RemoveChunk
    <3> DEFINE x == Min(nonFlush.ids)
    <3>1. /\ x \in Ids /\ x < LastFile /\ Todo[1] = nonFlush
          /\ fs'.images = fs.images \union {fs.names \ {x}}
          /\ fs'.file = fs.file /\ 1 \in 1..Len(Todo) /\ Len(Todo) \in Nat
          BY <2>2, RemoveFacts
    <3>2. fs' = RemoveFile(fs, x) /\ wpc = "nonflush"
          /\ nonFlush.kind = "remove"
          BY <2>2 DEF RemoveChunk
    <3> HIDE DEF x
    <3>3. fs.file[LastFile].synced > 0
      <4>1. FlushedBefore(1)
            BY <1>2, <3>1, <3>2 DEF ReportInv, PurgeInv
      <4>2. 1..(1 - 1) = {}
            OBVIOUS
      <4>3. FlushedHere
            BY <4>1, <4>2 DEF FlushedBefore
      <4> QED BY <3>2, <4>3 DEF FlushedHere
    <3>4. DiskLog(fs', b, sm, acked, written)
          BY <1>1, <1>2, <3>1, <3>2, <3>3, LogFacts, RemoveLog
    <3>5. fs.names \in fs.images
          BY <1>2, LogNumbers
    <3> QED BY <3>1, <3>4, <3>5
  <2> QED BY <2>1, <2>2
<1>5. Sent(b)'
  <2>1. \A dir \in fs'.images : \A i \in dir : Used(fs', i) =>
            \E old \in fs.images :
                i \in old /\ fs'.file[i].data = fs.file[i].data
        BY <1>4
  <2> QED BY <1>1, <1>2, <1>3, <2>1, SentFrame DEF mainVars
<1>6. wpc' \notin {"quit", "done"}
      BY <1>1
<1> QED BY <1>1, <1>2, <1>4, <1>5, <1>6, WorkerLog

-----------------------------------------------------------------------------
(* Callbacks: what they vouch for is in the file, or on stable storage.    *)
LEMMA VouchedFacts ==
    ASSUME TInv, NEW S \in SUBSET (1..Len(batch))
    PROVE  /\ Vouched(S) \in Nat
           /\ Vouched(S) = 0 \/ \E k \in S : Vouched(S) = batch[k].len
           /\ \A k \in S : batch[k].len \in Nat /\ batch[k].len <= Vouched(S)
<1> DEFINE L == {0} \union {batch[i].len : i \in S}
<1>1. Len(batch) \in Nat /\ \A k \in 1..Len(batch) : batch[k].len \in Nat
  <2>1. batch \in Seq(WorkerRequest)
        BY DEF TInv, TypeOK, WorkerType
  <2>2. \A k \in 1..Len(batch) : batch[k] \in WorkerRequest
        BY <2>1
  <2> QED BY <2>1, <2>2 DEF WorkerRequest
<1>2. PICK n \in Nat : \A k \in 1..Len(batch) : batch[k].len <= n
  <2> DEFINE f == [k \in 1..Len(batch) |-> batch[k].len]
  <2>1. f \in [1..Len(batch) -> Nat]
        BY <1>1
  <2>2. PICK n \in Nat : \A k \in 1..Len(batch) : f[k] <= n
    <3> HIDE DEF f
    <3> QED BY <1>1, <2>1, Bounded
  <2> QED BY <2>2
<1>3. L \in SUBSET (0..n) /\ L /= {}
      BY <1>1, <1>2
<1>4. Max(L) \in L /\ \A y \in L : y <= Max(L)
  <2> HIDE DEF L
  <2> QED BY <1>3, MaxFacts
<1>5. Vouched(S) = Max(L)
      BY DEF Vouched
<1>6. Vouched(S) \in L /\ \A y \in L : y <= Vouched(S)
  <2> HIDE DEF L
  <2> QED BY <1>4, <1>5
<1> HIDE DEF Vouched
<1>7. Vouched(S) = 0 \/ \E k \in S : Vouched(S) = batch[k].len
      BY <1>6
<1>8. \A k \in S : batch[k].len \in L
      OBVIOUS
<1>9. \A k \in S : batch[k].len \in Nat /\ batch[k].len <= Vouched(S)
  <2> HIDE DEF L
  <2> QED BY <1>1, <1>6, <1>8
<1>10. Vouched(S) \in Nat
  <2>1. \A k \in S : batch[k].len \in Nat
        BY <1>1
  <2> QED BY <1>7, <2>1
<1> QED BY <1>7, <1>9, <1>10

(* A write of a batch that went well.                                      *)
LEMMA VouchedWrite ==
    ASSUME WInv, NEW b \in Bases, LogOk(b), wpc = "callbacks", result = "ok",
           NEW k \in 1..Len(batch)
    PROVE  /\ batch[k].len \in Nat /\ batch[k].len <= Len(sm)
           /\ Used(fs, LastFile) /\ LastFile \in fs.names
           /\ \A dir \in fs.images : LastFile \in dir
           /\ Top(fs, b, LastFile) >= batch[k].len
           /\ batch[k].sync =>
                 /\ fs.file[LastFile].synced > 0
                 /\ b[LastFile] + fs.file[LastFile].synced - 1 >= batch[k].len
<1> DEFINE r == batch[k]
           l == Len(fs.file[LastFile].data)
<1>1. TInv /\ WorkerSound /\ PipeInv /\ Sent(b)
  <2>1. TInv /\ WorkerSound
        BY DEF WInv, WorkerSound, TInv, Control
  <2> QED BY <2>1 DEF WInv, LogOk
<1>2. r \in Writes /\ r.id = LastFile /\ LastFile < r.upto
      BY <1>1 DEF TInv, Requests, Writes, InHand, PipeInv, BatchInv, Grows,
                  IsAppend
<1>3. /\ r.upto \in Nat /\ r.len \in Nat /\ LastFile \in Ids
      BY <1>1, <1>2, WriteTypesInHand
<1>4. /\ \A dir \in fs.images : LastFile \in dir
      /\ LastFile \in fs.names /\ LastFile \in Nat /\ l \in Nat
      /\ b[LastFile] \in Nat /\ DiskType(fs, Record)
      /\ fs.file[LastFile].data \in Seq(Record)
  <2>1. DiskType(fs, Record)
        BY <1>1, LogFacts
  <2>2. /\ fs.names \in fs.images /\ LastFile \in Nat /\ l \in Nat
        /\ b[LastFile] \in Nat /\ fs.file[LastFile].data \in Seq(Record)
        BY <1>3, <2>1, LogNumbers
  <2> QED BY <1>1, <2>1, <2>2 DEF PipeInv, FileInv
<1>5. r.upto <= LastFile + l
      BY <1>1 DEF Sent, BatchDone, EndOf
<1>6. r.len = b[LastFile] + r.upto - LastFile - 1 /\ r.len <= Len(sm)
      BY <1>1, <1>2 DEF Sent, Told
<1>7. batch[k].sync => fs.file[LastFile].synced = l
      BY <1>1 DEF Sent, BatchDone, NeedSync
<1>8. Top(fs, b, LastFile) = b[LastFile] + l - 1
      BY DEF Top
<1> HIDE DEF r, l
<1>9. l > 0 /\ b[LastFile] + l - 1 >= r.len
      BY SMTT(60), <1>2, <1>3, <1>4, <1>5, <1>6
<1>10. Used(fs, LastFile)
      BY <1>4, <1>9 DEF Used, l
<1>11. batch[k].sync =>
          /\ fs.file[LastFile].synced > 0
          /\ b[LastFile] + fs.file[LastFile].synced - 1 >= r.len
      BY <1>7, <1>9
<1>12. Top(fs, b, LastFile) >= r.len
      BY <1>8, <1>9
<1> QED BY <1>3, <1>4, <1>6, <1>10, <1>11, <1>12 DEF r

(* The callbacks of the writes in T are called, and those in S asked for a *)
(* sync.                                                                   *)
LEMMA CalledLog ==
    ASSUME WInv, NEW b \in Bases, LogOk(b), wpc = "callbacks", result = "ok",
           NEW T \in SUBSET (1..Len(batch)), NEW S \in SUBSET T,
           \A k \in S : batch[k].sync,
           acked' = MaxOf(acked, Vouched(S)),
           written' = MaxOf(written, Vouched(T))
    PROVE  /\ DiskLog(fs, b, sm, acked', written')
           /\ acked' <= written' /\ written' <= Len(sm)
           /\ acked' \in Nat /\ written' \in Nat
           /\ acked <= acked' /\ written <= written'
<1>1. /\ TInv /\ Len(sm) \in Nat /\ acked \in Nat /\ written \in Nat
      /\ DiskLog(fs, b, sm, acked, written)
      /\ acked <= written /\ written <= Len(sm)
      BY LogFacts DEF WInv
<1>2. S \in SUBSET (1..Len(batch))
      OBVIOUS
<1>3. /\ Vouched(S) \in Nat /\ Vouched(T) \in Nat
      /\ Vouched(S) = 0 \/ \E k \in S : Vouched(S) = batch[k].len
      /\ Vouched(T) = 0 \/ \E k \in T : Vouched(T) = batch[k].len
      /\ \A k \in T : batch[k].len \in Nat /\ batch[k].len <= Vouched(T)
      BY <1>1, <1>2, VouchedFacts
<1> HIDE DEF Vouched
<1>4. Vouched(S) <= Vouched(T)
  <2>1. CASE Vouched(S) = 0
        BY <1>3, <2>1
  <2>2. ASSUME NEW k \in S, Vouched(S) = batch[k].len
        PROVE  Vouched(S) <= Vouched(T)
        BY <1>3, <2>2
  <2> QED BY <1>3, <2>1, <2>2
<1>5. Vouched(T) <= Len(sm)
  <2>1. CASE Vouched(T) = 0
        BY <1>1, <2>1
  <2>2. ASSUME NEW k \in T, Vouched(T) = batch[k].len
        PROVE  Vouched(T) <= Len(sm)
        BY <2>2, VouchedWrite
  <2> QED BY <1>3, <2>1, <2>2
<1>6. /\ acked' \in Nat /\ written' \in Nat
      /\ acked <= acked' /\ written <= written'
      /\ acked' <= written' /\ written' <= Len(sm)
      /\ acked' = acked \/ acked' = Vouched(S)
      /\ written' = written \/ written' = Vouched(T)
      BY <1>1, <1>3, <1>4, <1>5 DEF MaxOf
<1>7. Survives(fs, b, acked')
  <2>1. CASE acked' = acked
        BY <1>1, <2>1 DEF DiskLog
  <2>2. CASE acked' = Vouched(S) /\ Vouched(S) = 0
        BY <2>2 DEF Survives
  <2>3. ASSUME acked' = Vouched(S), NEW k \in S, Vouched(S) = batch[k].len
        PROVE  Survives(fs, b, acked')
    <3>1. /\ \A dir \in fs.images : LastFile \in dir
          /\ fs.file[LastFile].synced > 0
          /\ b[LastFile] + fs.file[LastFile].synced - 1 >= acked'
          BY <2>3, VouchedWrite
    <3> QED BY <3>1 DEF Survives
  <2> QED BY <1>3, <1>6, <2>1, <2>2, <2>3
<1>8. Found(fs, b, written')
  <2>1. CASE written' = written
        BY <1>1, <2>1 DEF DiskLog
  <2>2. CASE written' = Vouched(T) /\ Vouched(T) = 0
        BY <2>2 DEF Found
  <2>3. ASSUME written' = Vouched(T), NEW k \in T, Vouched(T) = batch[k].len
        PROVE  Found(fs, b, written')
    <3>1. /\ LastFile \in fs.names /\ Used(fs, LastFile)
          /\ Top(fs, b, LastFile) >= written'
          BY <2>3, VouchedWrite
    <3> QED BY <3>1 DEF Found
  <2> QED BY <1>3, <1>6, <2>1, <2>2, <2>3
<1> QED BY <1>1, <1>6, <1>7, <1>8 DEF DiskLog

(* Callbacks and CallbackPanic, as far as they vouch.                      *)
LEMMA CallbackSets ==
    ASSUME TInv, CallbackPanic \/ (Callbacks /\ result = "ok")
    PROVE  \E T \in SUBSET (1..Len(batch)) : \E S \in SUBSET T :
             /\ \A k \in S : batch[k].sync
             /\ acked' = MaxOf(acked, Vouched(S))
             /\ written' = MaxOf(written, Vouched(T))
<1>1. CASE Callbacks /\ result = "ok"
  <2> DEFINE T == Called
             S == {i \in Called : batch[i].sync}
  <2>1. /\ acked' = MaxOf(acked, Vouched(S))
        /\ written' = MaxOf(written, Vouched(T))
        BY <1>1 DEF Callbacks
  <2>2. T \in SUBSET (1..Len(batch)) /\ S \in SUBSET T
        /\ \A k \in S : batch[k].sync
        BY DEF Called
  <2> HIDE DEF T, S
  <2> QED BY <2>1, <2>2
<1>2. CASE CallbackPanic
  <2>1. PICK n \in 0..Len(batch) :
          /\ acked' = MaxOf(acked, Vouched({i \in Called : i <= n
                                                           /\ batch[i].sync}))
          /\ written' = MaxOf(written, Vouched({i \in Called : i <= n}))
        BY <1>2 DEF CallbackPanic
  <2> DEFINE T == {i \in Called : i <= n}
             S == {i \in Called : i <= n /\ batch[i].sync}
  <2>2. /\ acked' = MaxOf(acked, Vouched(S))
        /\ written' = MaxOf(written, Vouched(T))
        BY <2>1
  <2>3. T \in SUBSET (1..Len(batch)) /\ S \in SUBSET T
        /\ \A k \in S : batch[k].sync
        BY DEF Called
  <2> HIDE DEF T, S
  <2> QED BY <2>2, <2>3
<1> QED BY <1>1, <1>2

LEMMA CallbacksLog ==
    ASSUME WInv, NEW b \in Bases, LogOk(b), Callbacks \/ CallbackPanic
    PROVE  LogOk(b)'
<1>1. /\ wpc = "callbacks" /\ UNCHANGED <<mainVars, fs, queue>> /\ TInv
      /\ batch' = <<>> /\ wpc' \in {"recv", "nonflush", "stop"}
      BY DEF Callbacks, CallbackPanic, WInv, chanVars
<1>2. pc' \notin Opening
      BY <1>1 DEF TInv, Control, OpenPCs, Opening, Scanning, mainVars
<1>3. Settled(b)'
      BY <1>1 DEF Settled
<1>4. CASE CallbackPanic \/ (Callbacks /\ result = "ok")
  <2>1. wpc = "callbacks" /\ result = "ok"
        BY <1>4 DEF CallbackPanic, Callbacks
  <2>2. PICK T \in SUBSET (1..Len(batch)) : \E S \in SUBSET T :
            /\ \A k \in S : batch[k].sync
            /\ acked' = MaxOf(acked, Vouched(S))
            /\ written' = MaxOf(written, Vouched(T))
        BY <1>1, <1>4, CallbackSets
  <2>3. DiskLog(fs', b, sm', acked', written')
        /\ acked' <= written' /\ written' <= Len(sm')
        BY <1>1, <2>1, <2>2, CalledLog DEF mainVars
  <2>4. Sent(b)'
    <3>1. Sent(b)
          BY <1>1, <2>1 DEF LogOk, WorkerSound, TInv, Control
    <3>2. Writes' \subseteq Writes
          BY <1>1 DEF Writes, InHand
    <3>3. BatchDone'
          BY <1>1 DEF BatchDone
    <3>4. UNCHANGED <<sm, open>>
          BY <1>1 DEF mainVars
    <3> QED BY <1>1, <3>1, <3>2, <3>3, <3>4, SentFrame
  <2> QED BY <1>2, <1>3, <2>3, <2>4, RunLog
<1>5. CASE Callbacks /\ result /= "ok"
  <2>1. ~WorkerSound' /\ acked' = acked /\ written' = written
        BY <1>5 DEF Callbacks, WorkerSound
  <2>2. DiskLog(fs', b, sm', acked', written')
        /\ acked' <= written' /\ written' <= Len(sm')
        BY <1>1, <2>1, LogFacts DEF mainVars
  <2> QED BY <1>2, <1>3, <2>1, <2>2, RunLog
<1> QED BY <1>4, <1>5

(* shutdown sent the rest of the log with a sync before it closed the      *)
(* channel, so a worker that finds the queue empty has synced all of it.   *)
LEMMA RecvClosedLog ==
    ASSUME WInv, NEW b \in Bases, LogOk(b), RecvClosed PROVE LogOk(b)'
<1>1. /\ wpc = "recv" /\ queue = <<>> /\ pc = "closing" /\ wpc' = "quit"
      /\ UNCHANGED <<mainVars, fs, acked, written>> /\ TInv /\ UpInv
      BY DEF RecvClosed, WInv, histVars
<1>2. /\ WorkerSound /\ PipeInv /\ Sent(b) /\ LastFile \in fs.names
      /\ LastFile \in Ids /\ DiskType(fs, Record)
      BY <1>1, SoundFacts, LogFacts DEF LogOk
<1>3. Todo = <<>> /\ Len(Todo) = 0
  <2>1. nonFlush = NoReq
        BY <1>1 DEF TInv, Requests
  <2> QED BY <1>1, <2>1 DEF Todo
<1>4. Whole(fs, LastFile)
      BY <1>1, <1>2, <1>3 DEF PipeInv, SyncInv, HeadSynced
<1>5. open.pending = <<>> /\ open.n > 0 /\ open.id \in Nat /\ open.n \in Nat
      BY <1>1, OpenFacts DEF UpInv, UpPCs
<1>6. LastFile = open.id /\ EndOf(fs, LastFile) = open.id + open.n
  <2>1. PlaceBefore(1) = FilePlace
        BY <1>1 DEF PlaceBefore, BatchPlace
  <2>2. FilePlace = Place(open.id, OpenEnd - Len(open.pending))
        BY <1>2, <1>3, <2>1 DEF PipeInv, TodoChain
  <2>3. LastFile = open.id /\ EndOf(fs, LastFile) = OpenEnd - 0
        BY <1>5, <2>2 DEF FilePlace, Place
  <2> QED BY <1>5, <2>3 DEF OpenEnd
<1>7. Len(fs.file[LastFile].data) = open.n
  <2>1. Len(fs.file[LastFile].data) \in Nat
        BY <1>2, LogNumbers
  <2>2. open.id + Len(fs.file[LastFile].data) = open.id + open.n
        BY <1>6 DEF EndOf
  <2> QED BY <1>5, <2>1, <2>2
<1>8. Len(sm) = b[LastFile] + open.n - 1 /\ b[LastFile] \in Nat
  <2>1. b[LastFile] \in Nat
        BY <1>2, LogNumbers
  <2> QED BY <1>2, <1>6, <2>1 DEF Sent, OpenHolds
<1>9. /\ fs.file[LastFile].synced = open.n /\ Used(fs, LastFile)
      /\ Top(fs, b, LastFile) = Len(sm)
  <2>1. fs.file[LastFile].synced = open.n
        BY <1>4, <1>7 DEF Whole
  <2>2. Used(fs, LastFile)
        BY <1>2, <1>5, <1>7, LogNumbers
  <2> QED BY <1>7, <1>8, <2>1, <2>2 DEF Top
<1>10. Survives(fs, b, Len(sm))
  <2>1. \A dir \in fs.images : LastFile \in dir
        BY <1>2 DEF PipeInv, FileInv
  <2>2. b[LastFile] + fs.file[LastFile].synced - 1 >= Len(sm)
        /\ fs.file[LastFile].synced > 0
        BY <1>5, <1>8, <1>9
  <2> QED BY <2>1, <2>2 DEF Survives
<1>11. Found(fs, b, Len(sm))
  <2>1. Top(fs, b, LastFile) >= Len(sm)
        BY <1>5, <1>8, <1>9
  <2> QED BY <1>2, <1>9, <2>1 DEF Found
<1>12. Settled(b)'
      BY <1>1, <1>10, <1>11 DEF Settled, mainVars
<1>13. pc' \notin Opening /\ ~WorkerSound'
      BY <1>1 DEF Opening, Scanning, WorkerSound, mainVars
<1>14. DiskLog(fs', b, sm', acked', written')
      /\ acked' <= written' /\ written' <= Len(sm')
      BY <1>1, LogFacts DEF mainVars
<1> QED BY <1>12, <1>13, <1>14, RunLog

LEMMA WorkerKeepsLog ==
    ASSUME WInv, WInv', ReportInv, NEW b \in Bases, LogOk(b), WorkerNext
    PROVE  LogOk(b)'
BY RecvLog, RecvClosedLog, WriteBatchLog, WriteBatchErrLog, SyncFileLog,
   BrokenLog, CallbacksLog, AppendFileLog, RemoveChunkLog, WorkerExitLog
DEF WorkerNext

-----------------------------------------------------------------------------
(* The owner.                                                              *)
LEMMA OwnerLog ==
    ASSUME TInv, NEW b \in Bases, LogOk(b), NEW c \in Bases,
           pc \in UpPCs \ {"closing"}, pc' \in UpPCs,
           UNCHANGED <<wpc, acked, written>>,
           DiskLog(fs', c, sm', acked, written), Len(sm') \in Nat,
           Len(sm) <= Len(sm'), WorkerSound' => Sent(c)'
    PROVE  LogOk(c)'
<1>1. pc' \notin Opening
      BY DEF UpPCs, Opening, Scanning
<1>2. wpc' \notin {"quit", "done"}
      BY DEF LogOk, Settled
<1>3. acked' <= written' /\ written' <= Len(sm')
      BY LogFacts
<1>4. Settled(c)'
      BY <1>2 DEF Settled
<1> QED BY <1>1, <1>3, <1>4, RunLog

(* Places of a write lie in the log.                                       *)
LEMMA ToldKept ==
    ASSUME NEW b \in Bases, NEW r \in WorkerRequest, NEW S,
           NEW s \in Seq(S), NEW t \in Seq(S), Told(b, s, r),
           Len(s) <= Len(t), \A k \in 1..Len(s) : s[k] = t[k]
    PROVE  Told(b, t, r)
<1>1. /\ r.id \in Ids /\ r.id \in Nat /\ r.upto \in Nat
      /\ Len(r.data) \in Nat /\ r.len \in Nat
      BY RequestFacts DEF WorkerRequest
<1>2. b[r.id] \in Nat /\ Len(s) \in Nat /\ Len(t) \in Nat
      BY <1>1 DEF Bases
<1>3. ASSUME NEW p \in 1..Len(r.data)
      PROVE  r.data[p] =
                 RecordAt(t, b[r.id], r.upto - r.id - Len(r.data) + p)
  <2>1. PICK q \in Int : q = r.upto - r.id - Len(r.data) + p
        BY <1>1
  <2>2. PICK c \in Nat : c = b[r.id]
        BY <1>2
  <2>3. r.data[p] = RecordAt(s, c, q)
        BY <2>1, <2>2 DEF Told
  <2>4. /\ r.len = c + r.upto - r.id - 1 /\ r.len <= Len(s)
        /\ r.id + Len(r.data) <= r.upto
        BY <2>2 DEF Told
  <2>5. q \in Nat \ {0} /\ c + q - 1 <= r.len
    <3>1. ASSUME NEW i \in Nat, NEW u \in Nat, NEW d \in Nat, NEW n \in Nat,
                 p \in 1..d, q = u - i - d + p, n = c + u - i - 1, i + d <= u
          PROVE  q \in Nat \ {0} /\ c + q - 1 <= n
          BY <3>1
    <3> QED BY <1>1, <2>1, <2>4, <3>1
  <2>6. c + q - 1 <= Len(s) /\ c + q - 1 <= Len(t)
        BY <1>1, <1>2, <2>4, <2>5
  <2>7. \A k \in 1..(c + q - 1) : s[k] = t[k]
    <3>1. \A k \in 1..(c + q - 1) : k \in 1..Len(s)
          BY <1>2, <2>5, <2>6
    <3> QED BY <3>1
  <2>8. RecordAt(t, c, q) = RecordAt(s, c, q)
        BY <2>5, <2>6, <2>7, RecordKept
  <2> QED BY <2>1, <2>2, <2>3, <2>8
<1>4. r.len <= Len(t)
  <2>1. r.len <= Len(s)
        BY DEF Told
  <2> QED BY <1>1, <1>2, <2>1
<1> QED BY <1>3, <1>4 DEF Told

LEMMA AppendActionLog ==
    ASSUME WInv, NEW b \in Bases, LogOk(b), AppendAction PROVE LogOk(b)'
<1>1. /\ pc = "idle" /\ nextAction \in 1..MaxActions
      /\ open' = [open EXCEPT !.n = @ + 1,
                              !.pending = Append(@, Action(nextAction))]
      /\ sm' = Append(sm, nextAction)
      /\ UNCHANGED <<fs, pc, workVars, chanVars, acked, written>>
      /\ TInv /\ UpInv
  <2>1. nextAction \in 1..(MaxActions + 1) /\ nextAction <= MaxActions
        BY DEF AppendAction, WInv, TInv, TypeOK, HistoryType
  <2>2. nextAction \in 1..MaxActions
        BY <2>1, WalAssumption
  <2> QED BY <2>2 DEF AppendAction, WInv, histVars
<1>2. /\ sm \in Seq(1..MaxActions) /\ sm' \in Seq(1..MaxActions)
      /\ Len(sm) \in Nat /\ Len(sm') = Len(sm) + 1
      /\ \A k \in 1..Len(sm) : sm[k] = sm'[k]
      /\ sm'[Len(sm) + 1] = nextAction
  <2>1. sm \in Seq(1..MaxActions)
        BY <1>1, LogFacts
  <2> QED BY <1>1, <2>1
<1>3. /\ open.id \in Ids /\ open.n \in Nat /\ open.pending \in Seq(Record)
      /\ Len(open.pending) <= open.n /\ open.n > 0 /\ b[open.id] \in Nat
      /\ open'.id = open.id /\ open'.n = open.n + 1
      /\ open'.pending = Append(open.pending, Action(nextAction))
  <2>1. /\ open \in [id : Ids, n : Nat, pending : Seq(Record)]
        /\ Len(open.pending) <= open.n /\ open.n > 0
        BY <1>1, OpenFacts DEF TInv, Locals, UpInv, UpPCs
  <2>2. b[open.id] \in Nat
        BY <2>1 DEF Bases
  <2> QED BY <1>1, <2>1, <2>2
<1>4. DiskLog(fs, b, sm', acked, written)
  <2>1. /\ DiskType(fs, Record) /\ acked \in Nat /\ written \in Nat
        /\ DiskLog(fs, b, sm, acked, written)
        BY <1>1, LogFacts
  <2>2. \A dir \in fs.images : \A i \in dir :
            Used(fs, i) => Top(fs, b, i) <= Len(sm')
    <3>1. ASSUME NEW dir \in fs.images, NEW i \in dir, Used(fs, i)
          PROVE  Top(fs, b, i) <= Len(sm')
      <4>1. Top(fs, b, i) \in Int
            BY <2>1, LogNumbers
      <4>2. Top(fs, b, i) <= Len(sm)
            BY <2>1, <3>1 DEF DiskLog, Holds
      <4> QED BY <1>2, <4>1, <4>2
    <3> QED BY <3>1
  <2>3. \A k \in 1..Len(sm') : k <= Len(sm) => sm'[k] = sm[k]
        BY <1>2
  <2> QED BY <1>2, <2>1, <2>2, <2>3, OtherLog
<1>5. ASSUME WorkerSound PROVE Sent(b)'
  <2>1. Sent(b)
        BY <1>5 DEF LogOk
  <2>2. Writes' = Writes
        BY <1>1 DEF Writes, InHand, workVars, chanVars
  <2>3. ASSUME NEW r \in Writes PROVE Told(b, sm', r)
    <3>1. r \in WorkerRequest /\ Told(b, sm, r)
          BY <1>1, <2>1, <2>3, WriteTypesInHand DEF Sent
    <3>2. Len(sm) <= Len(sm')
          BY <1>2
    <3> QED BY <1>2, <3>1, <3>2, ToldKept
  <2>4. OpenHolds(b)'
    <3>1. Len(sm') = b[open'.id] + open'.n - 1
          BY <1>2, <1>3, <2>1 DEF Sent, OpenHolds
    <3>2. /\ Len(open.pending) \in Nat
          /\ Len(open'.pending) = Len(open.pending) + 1
          /\ \A p \in 1..Len(open.pending) : open'.pending[p] = open.pending[p]
          /\ open'.pending[Len(open.pending) + 1] = Action(nextAction)
      <4>1. Action(nextAction) \in Record
            BY <1>1, RecordTypes
      <4> QED BY <1>3, <4>1
    <3>3. PICK c \in Nat : c = b[open.id]
          BY <1>3
    <3>4. PICK m \in Nat : m = Len(open.pending)
          BY <3>2
    <3>5. Len(sm) = c + open.n - 1
          BY <2>1, <3>3 DEF Sent, OpenHolds
    <3>6. ASSUME NEW p \in 1..(m + 1)
          PROVE  open'.pending[p] = RecordAt(sm', c, (open.n - m) + p)
      <4>1. CASE p = m + 1
        <5>1. (open.n - m) + p = open.n + 1 /\ open.n + 1 /= 1
              /\ c + (open.n + 1) - 1 = Len(sm) + 1
              BY <1>3, <3>5, <4>1
        <5>2. RecordAt(sm', c, open.n + 1) = Action(sm'[Len(sm) + 1])
              BY <5>1 DEF RecordAt
        <5> QED BY <1>2, <3>2, <3>4, <4>1, <5>1, <5>2
      <4>2. CASE p \in 1..m
        <5>1. PICK q \in Int : q = (open.n - m) + p
              BY <1>3
        <5>2. /\ q \in Nat \ {0} /\ c + q - 1 <= Len(sm)
              /\ c + q - 1 <= Len(sm')
          <6>1. ASSUME NEW n \in Nat, NEW l \in Nat, m <= n, p \in 1..m,
                       q = (n - m) + p, l = c + n - 1
                PROVE  /\ q \in Nat \ {0} /\ c + q - 1 <= l
                       /\ c + q - 1 <= l + 1
                BY <6>1
          <6> QED BY <1>2, <1>3, <3>4, <3>5, <4>2, <5>1, <6>1
        <5>3. \A k \in 1..(c + q - 1) : sm[k] = sm'[k]
          <6>1. \A k \in 1..(c + q - 1) : k \in 1..Len(sm)
                BY <1>2, <5>2
          <6> QED BY <1>2, <6>1
        <5>4. RecordAt(sm', c, q) = RecordAt(sm, c, q)
              BY <1>2, <5>2, <5>3, RecordKept
        <5>5. open.pending[p] = RecordAt(sm, c, q)
              BY <2>1, <3>3, <3>4, <4>2, <5>1 DEF Sent, OpenHolds
        <5> QED BY <3>2, <3>4, <4>2, <5>1, <5>4, <5>5
      <4> QED BY <4>1, <4>2
    <3>7. open'.n - Len(open'.pending) = open.n - m
          BY <1>3, <3>2, <3>4
    <3>8. \A p \in 1..Len(open'.pending) : open'.pending[p] =
              RecordAt(sm', b[open'.id], open'.n - Len(open'.pending) + p)
          BY <1>3, <3>2, <3>3, <3>4, <3>6, <3>7
    <3> QED BY <3>1, <3>8 DEF OpenHolds
  <2>5. InOrder(b)'
        BY <1>1, <1>3, <2>1, <2>2 DEF Sent, InOrder
  <2>6. BatchDone'
        BY <1>1, <2>1
        DEF Sent, BatchDone, NeedSync, LastFile, workVars
  <2> QED BY <2>2, <2>3, <2>4, <2>5, <2>6 DEF Sent
<1>6. WorkerSound' => WorkerSound
      BY <1>1 DEF WorkerSound, workVars, chanVars
<1>7. Len(sm') \in Nat /\ Len(sm) <= Len(sm')
      BY <1>2
<1>8. wpc' = wpc /\ pc \in UpPCs \ {"closing"} /\ pc' \in UpPCs
      BY <1>1 DEF workVars, UpPCs
<1> QED BY <1>1, <1>4, <1>5, <1>6, <1>7, <1>8, OwnerLog

(* A write takes over what was pending.                                    *)
LEMMA PendingSent ==
    ASSUME TInv, NEW b \in Bases, Sent(b), TakePending,
           NEW s \in BOOLEAN, NEW cb \in BOOLEAN, SendOk(PendingReq(s, cb)),
           UNCHANGED workVars, fs' = fs, sm' = sm
    PROVE  Sent(b)'
<1> DEFINE req == PendingReq(s, cb)
<1>1. /\ req \in WorkerRequest /\ req.kind = "write" /\ req.id = open.id
      /\ req.upto = OpenEnd /\ req.data = open.pending /\ req.len = Len(sm)
      /\ open.id \in Ids /\ open.id \in Nat /\ open.n \in Nat
      /\ Len(open.pending) \in Nat /\ OpenEnd = open.id + open.n
      /\ Len(open.pending) <= open.n /\ b[open.id] \in Nat
      /\ open'.id = open.id /\ open'.n = open.n /\ open'.pending = <<>>
      /\ Len(sm) \in Nat
  <2>1. /\ open \in [id : Ids, n : Nat, pending : Seq(Record)]
        /\ Len(open.pending) <= open.n /\ open.id \in Nat /\ Len(sm) \in Nat
        /\ req \in WorkerRequest /\ req.kind = "write"
        BY OpenFacts DEF TInv, Locals
  <2>2. b[open.id] \in Nat
        BY <2>1 DEF Bases
  <2>3. open' = [open EXCEPT !.pending = <<>>]
        BY DEF TakePending
  <2> QED BY <2>1, <2>2, <2>3 DEF PendingReq, WriteReq, OpenEnd
<1>2. queue' = Append(queue, req) /\ UNCHANGED <<batch, wpc, files, wrote>>
      BY DEF SendOk, workVars
<1> HIDE DEF req
<1>3. Writes' = Writes \union {req}
  <2>1. queue \in Seq(WorkerRequest) /\ Len(queue) \in Nat
        BY DEF TInv, TypeOK, WorkerType
  <2>2. /\ Len(queue') = Len(queue) + 1
        /\ \A k \in 1..Len(queue) : queue'[k] = queue[k]
        /\ queue'[Len(queue) + 1] = req
        BY <1>1, <1>2, <2>1
  <2>3. {queue'[k] : k \in 1..Len(queue')} =
            {queue[k] : k \in 1..Len(queue)} \union {req}
    <3>1. 1..Len(queue') = 1..Len(queue) \union {Len(queue) + 1}
          BY <2>1, <2>2
    <3> QED BY <2>2, <3>1
  <2>4. InHand' = InHand \union {req}
        BY <1>2, <2>3 DEF InHand
  <2> QED BY <1>1, <2>4 DEF Writes
<1>4. Told(b, sm', req)
  <2>1. Len(sm) = b[open.id] + open.n - 1
        BY DEF Sent, OpenHolds
  <2>2. PICK m \in Nat : m = Len(open.pending)
        BY <1>1
  <2>3. PICK x \in Nat : x = b[open.id]
        BY <1>1
  <2>4. /\ Len(sm) = x + (open.id + open.n) - open.id - 1
        /\ open.id + m <= open.id + open.n
        /\ \A p \in 1..m :
              (open.id + open.n) - open.id - m + p = open.n - m + p
        BY SMTT(60), <1>1, <2>1, <2>2, <2>3
  <2>5. \A p \in 1..m :
            open.pending[p] = RecordAt(sm, b[open.id], open.n - m + p)
        BY <2>2 DEF Sent, OpenHolds
  <2>6. \A p \in 1..m : open.pending[p] =
            RecordAt(sm, b[open.id], (open.id + open.n) - open.id - m + p)
        BY <2>4, <2>5
  <2>7. Len(sm) <= Len(sm)
        BY <1>1
  <2> QED BY <1>1, <2>2, <2>3, <2>4, <2>6, <2>7 DEF Told
<1>5. OpenHolds(b)'
  <2>1. Len(open'.pending) = 0
        BY <1>1
  <2>2. \A p \in 1..Len(open'.pending) : FALSE
        BY <2>1
  <2> QED BY <1>1, <2>2 DEF Sent, OpenHolds
<1>6. InOrder(b)'
  <2>1. InOrder(b) /\ \A r \in Writes : r.id \in Nat
        BY WriteTypesInHand DEF Sent
  <2>2. \A r \in Writes' : /\ r.id <= open'.id
                           /\ r.id < open'.id => r.len <= b[open'.id]
        BY <1>1, <1>3, <2>1 DEF InOrder
  <2>3. ASSUME NEW r \in Writes', NEW t \in Writes', r.id < t.id
        PROVE  r.len <= b[t.id]
    <3>1. r.id <= open.id /\ t.id <= open.id /\ r.id \in Nat /\ t.id \in Nat
          BY <1>1, <1>3, <2>1, <2>2
    <3>2. r.id < open.id
          BY <1>1, <2>3, <3>1
    <3>3. r \in Writes
      <4>1. r /= req
            BY <1>1, <3>1, <3>2
      <4> QED BY <1>3, <4>1
    <3> QED BY <1>1, <1>3, <2>1, <2>3, <3>2, <3>3 DEF InOrder
  <2>4. \A dir \in fs'.images : \A i \in dir : Used(fs', i) =>
            /\ i < open'.id => Top(fs', b, i) <= b[open'.id]
            /\ \A r \in Writes' : i < r.id => Top(fs', b, i) <= b[r.id]
        BY <1>1, <1>3, <2>1 DEF InOrder
  <2> QED BY <2>2, <2>3, <2>4 DEF InOrder
<1>7. BatchDone'
      BY <1>2 DEF Sent, BatchDone, NeedSync, LastFile
<1>8. \A r \in Writes' : Told(b, sm', r)
      BY <1>3, <1>4 DEF Sent
<1> QED BY <1>5, <1>6, <1>7, <1>8 DEF Sent

LEMMA PendingLog ==
    ASSUME TInv, NEW b \in Bases, LogOk(b), TakePending,
           pc \in UpPCs \ {"closing"}, pc' \in UpPCs,
           NEW s \in BOOLEAN, NEW cb \in BOOLEAN,
           SendOk(PendingReq(s, cb)) \/ SendErr,
           UNCHANGED <<fs, sm, workVars, acked, written>>
    PROVE  LogOk(b)'
<1>1. /\ DiskLog(fs', b, sm', acked, written) /\ Len(sm') \in Nat
      /\ Len(sm) <= Len(sm')
      BY LogFacts
<1>2. ASSUME WorkerSound' PROVE Sent(b)'
  <2>1. rx' = rx /\ WorkerSound
        BY <1>2, SoundUnchanged DEF SendOk, SendErr, chanVars
  <2>2. SendOk(PendingReq(s, cb)) /\ Sent(b)
        BY <2>1 DEF SendErr, WorkerSound, LogOk
  <2> QED BY <2>2, PendingSent
<1>3. wpc' = wpc
      BY DEF workVars
<1> QED BY <1>1, <1>2, <1>3, OwnerLog

LEMMA OtherSend ==
    ASSUME TInv, NEW req \in WorkerRequest, req.kind /= "write",
           SendOk(req), batch' = batch
    PROVE  Writes' = Writes
<1>1. queue \in Seq(WorkerRequest) /\ Len(queue) \in Nat
      /\ queue' = Append(queue, req)
      BY DEF TInv, TypeOK, WorkerType, SendOk
<1>2. /\ Len(queue') = Len(queue) + 1
      /\ \A k \in 1..Len(queue) : queue'[k] = queue[k]
      /\ queue'[Len(queue) + 1] = req
      BY <1>1
<1>3. {queue'[k] : k \in 1..Len(queue')} =
          {queue[k] : k \in 1..Len(queue)} \union {req}
  <2>1. 1..Len(queue') = 1..Len(queue) \union {Len(queue) + 1}
        BY <1>1, <1>2
  <2> QED BY <1>2, <2>1
<1>4. InHand' = InHand \union {req}
      BY <1>3 DEF InHand
<1> QED BY <1>4 DEF Writes

LEMMA RemoveChunksLog ==
    ASSUME WInv, NEW b \in Bases, LogOk(b), NEW c \in closed, RemoveChunks(c)
    PROVE  LogOk(b)'
<1> DEFINE req == RemoveReq(open.id, OpenEnd - Len(open.pending),
                            {d.id : d \in Drained(c)})
<1>1. /\ TInv /\ pc = "idle" /\ (SendOk(req) \/ SendErr)
      /\ UNCHANGED <<fs, pc, sm, open, workVars, acked, written>>
      BY DEF RemoveChunks, WInv, histVars
<1>2. req \in WorkerRequest /\ req.kind = "remove"
  <2>1. /\ open.id \in Ids /\ OpenEnd - Len(open.pending) \in Nat
        /\ {d.id : d \in Drained(c)} \in SUBSET Ids
    <3>1. /\ open.id \in Ids /\ open.id \in Nat /\ open.n \in Nat
          /\ Len(open.pending) \in Nat
          /\ Len(open.pending) <= open.n /\ OpenEnd = open.id + open.n
          BY <1>1, OpenFacts DEF TInv, Locals, OpenEnd
    <3>2. OpenEnd - Len(open.pending) \in Nat
          BY <3>1
    <3>3. closed \subseteq [id : Ids, end : Nat]
          BY <1>1, RecFacts
    <3>4. \A d \in Drained(c) : d.id \in Ids
          BY <3>3 DEF Drained
    <3> QED BY <3>1, <3>2, <3>4
  <2>2. req.kind = "remove"
        BY DEF RemoveReq
  <2> QED BY <2>1, <2>2, RemoveReqType
<1> HIDE DEF req
<1>3. /\ DiskLog(fs', b, sm', acked, written) /\ Len(sm') \in Nat
      /\ Len(sm) <= Len(sm')
      BY <1>1, LogFacts
<1>4. ASSUME WorkerSound' PROVE Sent(b)'
  <2>1. rx' = rx /\ WorkerSound
        BY <1>1, <1>4, SoundUnchanged DEF SendOk, SendErr, chanVars
  <2>2. SendOk(req) /\ Sent(b)
        BY <1>1, <2>1 DEF SendErr, WorkerSound, LogOk
  <2>3. Writes' = Writes
        BY <1>1, <1>2, <2>2, OtherSend DEF workVars
  <2>4. BatchDone'
        BY <1>1, <2>2 DEF Sent, BatchDone, NeedSync, LastFile, workVars
  <2> QED BY <1>1, <2>2, <2>3, <2>4, SentFrame
<1>5. wpc' = wpc /\ pc \in UpPCs \ {"closing"} /\ pc' \in UpPCs
      BY <1>1 DEF workVars, UpPCs
<1> QED BY <1>1, <1>3, <1>4, <1>5, OwnerLog

LEMMA RotateDiskLog ==
    ASSUME WInv, NEW b \in Bases, LogOk(b),
           \/ RotateCreate \/ RotateSync
    PROVE  LogOk(b)'
<1>1. /\ TInv /\ UpInv /\ pc \in {"rot_create", "rot_sync"}
      /\ pc' \in {"rot_sync", "rot_append", "idle"}
      /\ UNCHANGED <<sm, open, workVars, chanVars, acked, written>>
      BY DEF RotateCreate, RotateSync, WInv, histVars
<1>2. /\ \/ fs' = fs
         \/ OpenEnd \in Ids \ fs.names /\ fs' = CreateFile(fs, OpenEnd)
         \/ fs' = SyncDir(fs)
      BY DEF RotateCreate, RotateSync
<1>3. /\ open.id \in Nat /\ open.n \in Nat /\ open.n > 0
      /\ OpenEnd = open.id + open.n /\ open.id < OpenEnd /\ OpenEnd \in Nat
  <2>1. /\ open.id \in Nat /\ open.n \in Nat /\ open.n > 0
        /\ OpenEnd = open.id + open.n
        BY <1>1, OpenFacts DEF UpInv, UpPCs, OpenEnd
  <2> QED BY <2>1
<1>4. \A dir \in fs.images : \A i \in dir : Used(fs, i) =>
          i <= open.id /\ i /= OpenEnd
  <2>1. ASSUME NEW dir \in fs.images, NEW i \in dir, Used(fs, i)
        PROVE  i <= open.id /\ i /= OpenEnd
    <3>1. i <= open.id
          BY <1>1, <2>1 DEF UpInv, UpPCs
    <3>2. i \in Nat
          BY <1>1, LogFacts, LogNumbers
    <3> QED BY <1>3, <3>1, <3>2
  <2> QED BY <2>1
<1>5. DiskType(fs, Record) /\ acked \in Nat /\ written \in Nat
      /\ DiskLog(fs, b, sm, acked, written)
      BY <1>1, LogFacts
<1>6. DiskLog(fs', b, sm, acked, written)
  <2>1. CASE fs' = fs
        BY <1>5, <2>1
  <2>2. CASE OpenEnd \in Ids \ fs.names /\ fs' = CreateFile(fs, OpenEnd)
        BY <1>4, <1>5, <2>2, QuietLog
  <2>3. CASE fs' = SyncDir(fs)
    <3>1. 0 \in Ids
          BY DiskAssumption DEF Ids
    <3> QED BY <1>5, <2>3, <3>1, QuietLog
  <2> QED BY <1>2, <2>1, <2>2, <2>3
<1>7. ASSUME WorkerSound PROVE Sent(b)'
  <2>1. /\ Sent(b) /\ PipeInv /\ Writes' = Writes /\ LastFile' = LastFile
        BY <1>1, <1>7
        DEF LogOk, WInv, Writes, InHand, LastFile, workVars, chanVars
  <2>2. LastFile \in fs.names /\ LastFile <= open.id
        BY <1>5, <2>1, LogNumbers DEF PipeInv, FileInv, MonoInv
  <2>3. LastFile \in Ids /\ LastFile \in Nat /\ LastFile /= OpenEnd
    <3>1. LastFile \in Ids /\ LastFile \in Nat
          BY <1>5, <2>2, LogNumbers
    <3> QED BY <1>3, <2>2, <3>1
  <2>4. /\ fs'.file[LastFile] = fs.file[LastFile]
        /\ \A dir \in fs'.images : \A i \in dir : Used(fs', i) =>
              \E old \in fs.images :
                  i \in old /\ fs'.file[i].data = fs.file[i].data
    <3>1. CASE fs' = fs
          BY <3>1
    <3>2. CASE OpenEnd \in Ids \ fs.names /\ fs' = CreateFile(fs, OpenEnd)
      <4>1. /\ DiskType(fs', Record)
            /\ fs'.images = fs.images \union {fs.names \union {OpenEnd}}
            /\ fs'.file[OpenEnd] = NoFile
            /\ \A k \in Ids \ {OpenEnd} : fs'.file[k] = fs.file[k]
            BY <1>5, <3>2, CreateFileFacts
      <4>2. ~Used(fs', OpenEnd)
            BY <4>1 DEF Used, NoFile
      <4>3. \A dir \in fs'.images : \A i \in dir : i \in Ids
            BY <4>1, <1>5, LogNumbers
      <4> QED BY <1>5, <2>3, <4>1, <4>2, <4>3, LogNumbers
    <3>3. CASE fs' = SyncDir(fs)
      <4>1. /\ fs'.images = {fs.names}
            /\ \A k \in fs.names : fs'.file[k] = fs.file[k]
            BY <1>5, <3>3, SyncDirFacts
      <4> QED BY <1>5, <2>2, <4>1, LogNumbers
    <3> QED BY <1>2, <3>1, <3>2, <3>3
  <2>5. BatchDone'
    <3>1. EndOf(fs', LastFile) = EndOf(fs, LastFile)
          BY <2>4 DEF EndOf
    <3> QED BY <1>1, <2>1, <2>4, <3>1
        DEF Sent, BatchDone, NeedSync, workVars
  <2> QED BY <1>1, <2>1, <2>4, <2>5, SentFrame
<1>8. WorkerSound' => WorkerSound
      BY <1>1, SoundUnchanged DEF chanVars
<1>9. /\ wpc' = wpc /\ pc \in UpPCs \ {"closing"} /\ pc' \in UpPCs
      /\ Len(sm') \in Nat /\ Len(sm) <= Len(sm')
      BY <1>1, LogFacts DEF workVars, UpPCs
<1> QED BY <1>1, <1>6, <1>7, <1>8, <1>9, OwnerLog

(* A new chunk: its base is the length of the log.                         *)
LEMMA RotateAppendLog ==
    ASSUME WInv, NEW b \in Bases, LogOk(b), RotateAppend
    PROVE  \E c \in Bases : LogOk(c)'
<1>1. /\ TInv /\ UpInv /\ pc = "rot_append"
      /\ UNCHANGED <<fs, sm, workVars, acked, written>>
      BY DEF RotateAppend, WInv, histVars
<1>2. /\ DiskType(fs, Record) /\ sm \in Seq(1..MaxActions) /\ Len(sm) \in Nat
      /\ acked \in Nat /\ written \in Nat
      /\ DiskLog(fs, b, sm, acked, written) /\ Len(sm) <= Len(sm')
      BY <1>1, LogFacts
<1>3. wpc' = wpc /\ pc \in UpPCs \ {"closing"}
      BY <1>1 DEF workVars, UpPCs
<1>4. CASE SendErr
  <2>1. ~WorkerSound' /\ pc' \in UpPCs
    <3>1. ~rx /\ rx' = rx
          BY <1>4 DEF SendErr, chanVars
    <3> QED BY <1>4, <3>1 DEF RotateAppend, WorkerSound, SendOk, UpPCs
  <2>2. LogOk(b)'
        BY <1>1, <1>2, <1>3, <2>1, OwnerLog
  <2> QED BY <2>2
<1>5. CASE ~SendErr
  <2> DEFINE x == OpenEnd
  <2>1. /\ SendOk(AppendFileReq(x)) /\ pc' = "rot_cp" /\ open'.id = x
        /\ open'.n = 1 /\ open'.pending = <<Checkpoint(sm)>>
        BY <1>5 DEF RotateAppend
  <2>2. /\ open.id \in Nat /\ x \in Ids /\ x \in Nat /\ open.id < x
    <3>1. /\ open.id \in Nat /\ open.n \in Nat /\ open.n > 0
          /\ x = open.id + open.n /\ x \in Ids /\ x \in Nat
          BY <1>1, OpenFacts DEF UpInv, UpPCs, OpenEnd, TInv, Locals
    <3> QED BY <3>1
  <2>3. PICK c \in Bases : /\ c[x] = Len(sm)
                          /\ \A i \in Ids : i /= x => c[i] = b[i]
    <3> DEFINE e == [b EXCEPT ![x] = Len(sm)]
    <3>1. /\ e \in Bases /\ e[x] = Len(sm)
          /\ \A i \in Ids : i /= x => e[i] = b[i]
          BY <1>2, <2>2 DEF Bases
    <3> QED BY <3>1
  <2>4. \A dir \in fs.images : \A i \in dir : Used(fs, i) =>
            i \in Ids /\ i /= x /\ c[i] = b[i] /\ Top(fs, c, i) = Top(fs, b, i)
    <3>1. ASSUME NEW dir \in fs.images, NEW i \in dir, Used(fs, i)
          PROVE  i \in Ids /\ i /= x
      <4>1. i <= open.id
            BY <1>1, <3>1 DEF UpInv, UpPCs
      <4>2. i \in Nat /\ i \in Ids
            BY <1>2, LogNumbers
      <4> QED BY <2>2, <4>1, <4>2
    <3> QED BY <2>3, <3>1 DEF Top
  <2>5. DiskLog(fs, c, sm, acked, written)
        BY <1>2, <2>3, <2>4, BaseLog
  <2>6. ASSUME WorkerSound PROVE Sent(c)'
    <3>1. Sent(b)
          BY <2>6 DEF LogOk
    <3>2. Writes' = Writes
      <4>1. AppendFileReq(x) \in WorkerRequest
            BY <2>2, AppendFileReqType
      <4>2. AppendFileReq(x).kind /= "write"
            BY DEF AppendFileReq
      <4> QED BY <1>1, <2>1, <4>1, <4>2, OtherSend DEF workVars
    <3>3. \A r \in Writes :
              /\ r.id \in Ids /\ r.id \in Nat /\ r.id < x
              /\ c[r.id] = b[r.id] /\ r.len <= c[x]
      <4>1. ASSUME NEW r \in Writes
            PROVE  r.id \in Ids /\ r.id \in Nat /\ r.id < x /\ r.id /= x
        <5>1. r.id <= open.id
              BY <3>1 DEF Sent, InOrder
        <5>2. r.id \in Ids /\ r.id \in Nat
              BY <1>1, WriteTypesInHand
        <5> QED BY <2>2, <5>1, <5>2
      <4>2. \A r \in Writes : r.len <= Len(sm)
            BY <3>1 DEF Sent, Told
      <4> QED BY <2>3, <4>1, <4>2
    <3>4. \A r \in Writes : Told(c, sm, r)
          BY <3>1, <3>3 DEF Sent, Told
    <3>5. OpenHolds(c)'
      <4>1. Checkpoint(sm) = RecordAt(sm, Len(sm), 1)
            BY <1>2, CheckpointRecord
      <4>2. /\ Len(open'.pending) = 1 /\ open'.pending[1] = Checkpoint(sm)
            BY <2>1
      <4>3. /\ Len(sm) = Len(sm) + 1 - 1
            /\ \A p \in 1..1 : p = 1 /\ 1 - 1 + p = 1
            BY <1>2
      <4>4. \A p \in 1..Len(open'.pending) : open'.pending[p] =
                RecordAt(sm, c[open'.id], open'.n - Len(open'.pending) + p)
            BY <2>1, <2>3, <4>1, <4>2, <4>3
      <4> QED BY <1>1, <2>1, <2>3, <4>3, <4>4 DEF OpenHolds
    <3>6. InOrder(c)'
      <4>1. \A r \in Writes' : /\ r.id <= open'.id
                               /\ r.id < open'.id => r.len <= c[open'.id]
            BY <2>1, <2>2, <3>2, <3>3
      <4>2. \A r, t \in Writes' : r.id < t.id => r.len <= c[t.id]
            BY <3>1, <3>2, <3>3 DEF Sent, InOrder
      <4>3. \A dir \in fs.images : \A i \in dir : Used(fs, i) =>
                Top(fs, c, i) <= c[x]
            BY <2>3, <2>5 DEF DiskLog, Holds
      <4>4. \A dir \in fs'.images : \A i \in dir : Used(fs', i) =>
                /\ i < open'.id => Top(fs', c, i) <= c[open'.id]
                /\ \A r \in Writes' : i < r.id => Top(fs', c, i) <= c[r.id]
            BY <1>1, <2>1, <2>4, <3>1, <3>2, <3>3, <4>3 DEF Sent, InOrder
      <4> QED BY <4>1, <4>2, <4>4 DEF InOrder
    <3>7. BatchDone'
          BY <1>1, <3>1 DEF Sent, BatchDone, NeedSync, LastFile, workVars
    <3> QED BY <1>1, <3>2, <3>4, <3>5, <3>6, <3>7 DEF Sent
  <2>7. WorkerSound' => WorkerSound
        BY <1>1, <2>1, SoundUnchanged DEF SendOk
  <2>8. LogOk(c)'
        BY <1>1, <1>2, <1>3, <2>1, <2>3, <2>5, <2>6, <2>7, OwnerLog
        DEF UpPCs
  <2> QED BY <2>3, <2>8
<1> QED BY <1>4, <1>5

(* The process is gone.                                                    *)
LEMMA VanishLog ==
    ASSUME NEW b \in Bases, Vanish, DiskLog(fs', b, sm', acked', written'),
           acked' <= written', written' <= Len(sm')
    PROVE  LogOk(b)'
<1>1. pc' = "down" /\ wpc' = "none" /\ rx' = FALSE
      BY DEF Vanish
<1>2. pc' \notin Opening /\ ~WorkerSound' /\ Settled(b)'
      BY <1>1 DEF Opening, Scanning, WorkerSound, Settled
<1> QED BY <1>2, RunLog

LEMMA JoinLog ==
    ASSUME WInv, NEW b \in Bases, LogOk(b), Join PROVE LogOk(b)'
<1>1. /\ TInv /\ wpc \in {"done", "dead"} /\ Vanish /\ UNCHANGED <<fs, sm>>
      BY DEF Join, WInv
<1>2. /\ Len(sm) \in Nat /\ DiskLog(fs, b, sm, acked, written)
      /\ acked <= written /\ written <= Len(sm)
      BY <1>1, LogFacts
<1>3. CASE wpc = "done"
  <2>1. acked' = Len(sm) /\ written' = Len(sm)
        BY <1>3 DEF Join
  <2>2. Survives(fs, b, Len(sm)) /\ Found(fs, b, Len(sm))
        BY <1>3 DEF LogOk, Settled
  <2>3. DiskLog(fs', b, sm', acked', written')
        BY <1>1, <1>2, <2>1, <2>2 DEF DiskLog
  <2>4. acked' <= written' /\ written' <= Len(sm')
        BY <1>1, <1>2, <2>1
  <2> QED BY <1>1, <2>3, <2>4, VanishLog
<1>4. CASE wpc /= "done"
  <2>1. acked' = acked /\ written' = written
        BY <1>4 DEF Join
  <2> QED BY <1>1, <1>2, <2>1, VanishLog
<1> QED BY <1>3, <1>4

LEMMA OwnerKeepsLog ==
    ASSUME "encode" \notin Faults, WInv, NEW b \in Bases, LogOk(b),
           OwnerNext
    PROVE  \E c \in Bases : LogOk(c)'
<1>1. TInv
      BY DEF WInv
<1>2. ASSUME NEW s \in BOOLEAN, SendPending(s) PROVE LogOk(b)'
  <2>1. /\ TakePending /\ pc = "idle" /\ pc' = pc
        /\ SendOk(PendingReq(s, TRUE)) \/ SendErr
        /\ UNCHANGED <<fs, sm, workVars, acked, written>>
        BY <1>2 DEF SendPending, histVars
  <2>2. pc \in UpPCs \ {"closing"} /\ pc' \in UpPCs /\ TRUE \in BOOLEAN
        BY <2>1 DEF UpPCs
  <2> QED BY <1>1, <2>1, <2>2, PendingLog
<1>3. ASSUME RotateFlush \/ ShutdownSend PROVE LogOk(b)'
  <2>1. /\ TakePending /\ pc \in {"idle", "shutdown"}
        /\ pc' \in {"idle", "rot_create", "closing"}
        /\ SendOk(PendingReq(TRUE, FALSE)) \/ SendErr
        /\ UNCHANGED <<fs, sm, workVars, acked, written>>
        BY <1>3 DEF RotateFlush, ShutdownSend, histVars
  <2>2. pc \in UpPCs \ {"closing"} /\ pc' \in UpPCs
        /\ TRUE \in BOOLEAN /\ FALSE \in BOOLEAN
        BY <2>1 DEF UpPCs
  <2> QED BY <1>1, <2>1, <2>2, PendingLog
<1>4. ASSUME RotateCheckpoint PROVE LogOk(b)'
  <2>1. /\ TakePending /\ pc = "rot_cp" /\ pc' = "idle"
        /\ SendOk(PendingReq(FALSE, FALSE)) \/ SendErr
        /\ UNCHANGED <<fs, sm, workVars, acked, written>>
        BY <1>4 DEF RotateCheckpoint, histVars
  <2>2. pc \in UpPCs \ {"closing"} /\ pc' \in UpPCs /\ FALSE \in BOOLEAN
        BY <2>1 DEF UpPCs
  <2> QED BY <1>1, <2>1, <2>2, PendingLog
<1>5. ASSUME Shutdown PROVE LogOk(b)'
  <2>1. /\ pc = "idle" /\ pc' = "shutdown"
        /\ UNCHANGED <<fs, sm, open, workVars, chanVars, acked, written>>
        BY <1>5 DEF Shutdown, histVars
  <2>2. /\ DiskLog(fs', b, sm', acked, written) /\ Len(sm') \in Nat
        /\ Len(sm) <= Len(sm')
        BY <1>1, <2>1, LogFacts
  <2>3. /\ Writes' = Writes /\ LastFile' = LastFile
        /\ WorkerSound' <=> WorkerSound
        BY <2>1
        DEF Writes, InHand, LastFile, WorkerSound, workVars, chanVars
  <2>4. Sent(b)' <=> Sent(b)
        BY <2>1, <2>3
        DEF Sent, OpenHolds, InOrder, BatchDone, NeedSync, workVars, chanVars
  <2>5. WorkerSound' => Sent(b)'
        BY <2>3, <2>4 DEF LogOk
  <2>6. /\ wpc' = wpc /\ pc \in UpPCs \ {"closing"} /\ pc' \in UpPCs
        BY <2>1 DEF workVars, UpPCs
  <2> QED BY <1>1, <2>1, <2>2, <2>5, <2>6, OwnerLog
<1> QED BY <1>2, <1>3, <1>4, <1>5, AppendActionLog, RotateDiskLog,
           RotateAppendLog, RemoveChunksLog, JoinLog, EncodesAlways
    DEF OwnerNext

-----------------------------------------------------------------------------
(* Opening.                                                                *)
LEMMA OpeningLog ==
    ASSUME WInv, TInv', NEW b \in Bases, LogOk(b), pc' \in OpenPCs,
           UNCHANGED OpenUnchanged,
           DiskLog(fs', b, sm, acked, written), Replayed(b)'
    PROVE  LogOk(b)'
<1>1. UNCHANGED <<sm, acked, written>>
      BY DEF OpenUnchanged, histVars
<1>2. ~WorkerSound'
      BY OpenIsUnsound
<1>3. Settled(b)'
  <2>1. wpc' = "none"
        BY DEF TInv, Control
  <2> QED BY <2>1 DEF Settled
<1>4. acked' <= written' /\ written' <= Len(sm')
      BY <1>1 DEF LogOk
<1> QED BY <1>1, <1>2, <1>3, <1>4 DEF LogOk

(* Between two chunks nothing is applied.                                  *)
LEMMA ReplayedFrame ==
    ASSUME TInv, NEW b \in Bases, LogOk(b), pc \in Opening \ {"replay"},
           rec'.n = rec.n, rec'.sm = rec.sm, closed' = closed, sm' = sm,
           \A c \in closed : fs'.file[c.id].data = fs.file[c.id].data
    PROVE  Replayed(b)'
<1>1. rec.n = 0 /\ Replayed(b)
  <2>1. rec.n \in Nat
        BY RecFacts
  <2>2. ~(rec.n > 0)
        BY DEF LogOk, Replayed
  <2> QED BY <2>1, <2>2 DEF LogOk
<1>2. ~(rec'.n > 0)
      BY <1>1
<1>3. \A c \in closed : Top(fs', b, c.id) = Top(fs, b, c.id)
      BY DEF Top
<1> QED BY <1>1, <1>2, <1>3 DEF Replayed

LEMMA TrimTailLog ==
    ASSUME WInv, WInv', NEW b \in Bases, LogOk(b), TrimTail
    PROVE  LogOk(b)'
<1> DEFINE last == Max(rec.todo)
<1>1. /\ TInv /\ TInv' /\ pc = "trim" /\ UNCHANGED OpenUnchanged
      /\ closed' = closed /\ pc' \in {"scan", "failed", "trimsync"}
      /\ rec'.n = rec.n /\ rec'.sm = rec.sm /\ sm' = sm
  <2>1. rec \in OpenLocals
        BY RecFacts DEF WInv
  <2>2. /\ rec' = rec \/ rec' = [rec EXCEPT !.todo = rec.todo \ {last}]
        BY DEF TrimTail
  <2>3. rec'.n = rec.n /\ rec'.sm = rec.sm
        BY <2>1, <2>2 DEF OpenLocals
  <2> QED BY <2>3 DEF TrimTail, WInv, OpenUnchanged
<1>2. /\ DiskType(fs, Record) /\ acked \in Nat /\ written \in Nat
      /\ DiskLog(fs, b, sm, acked, written)
      BY <1>1, LogFacts
<1>3. closed = {} /\ rec.todo = fs.names
      BY <1>1 DEF WInv, OpeningInv, TrimInv
<1>4. Replayed(b)'
      BY <1>1, <1>3, ReplayedFrame DEF Opening
<1>5. DiskLog(fs', b, sm, acked, written)
  <2>1. CASE fs' = fs
        BY <1>2, <2>1
  <2>2. CASE /\ rec.todo /= {} /\ ~HasCompleteInitialRecord(last)
             /\ fs' = RemoveFile(fs, last)
    <3>1. last \in fs.names /\ last \in Ids /\ ~Used(fs, last)
          BY <1>1, <1>3, <2>2, LastChunk DEF HasCompleteInitialRecord, Used
    <3> QED BY <1>2, <2>2, <3>1, QuietLog
  <2> QED BY <2>1, <2>2 DEF TrimTail
<1>6. pc' \in OpenPCs
      BY <1>1 DEF OpenPCs
<1> QED BY <1>1, <1>4, <1>5, <1>6, OpeningLog

LEMMA ScanLog ==
    ASSUME WInv, WInv', NEW b \in Bases, LogOk(b),
           \/ TrimSync \/ ScanChunk \/ TruncateSync \/ CreateSync
    PROVE  LogOk(b)'
<1>1. /\ TInv /\ TInv' /\ pc \in Opening \ {"replay"}
      /\ UNCHANGED OpenUnchanged /\ closed' = closed /\ pc' \in OpenPCs
      /\ rec'.n = rec.n /\ rec'.sm = rec.sm /\ sm' = sm
  <2>1. rec \in OpenLocals
        BY RecFacts DEF WInv
  <2>2. /\ rec' = rec \/ rec' = [rec EXCEPT !.truncated = TRUE]
        BY DEF TrimSync, ScanChunk, TruncateSync, CreateSync
  <2>3. rec'.n = rec.n /\ rec'.sm = rec.sm
        BY <2>1, <2>2 DEF OpenLocals
  <2>4. pc \in Opening \ {"replay"} /\ pc' \in OpenPCs
        BY DEF TrimSync, ScanChunk, TruncateSync, CreateSync, Opening,
               Scanning, OpenPCs
  <2> QED BY <2>3, <2>4
      DEF TrimSync, ScanChunk, TruncateSync, CreateSync, WInv, OpenUnchanged
<1>2. /\ DiskType(fs, Record) /\ acked \in Nat /\ written \in Nat
      /\ DiskLog(fs, b, sm, acked, written)
      BY <1>1, LogFacts
<1>3. \/ fs' = fs \/ fs' = SyncDir(fs)
      \/ \E i \in Ids : fs' = SetLen(fs, i) \/ fs' = SyncFile(fs, i)
  <2>1. ScanChunk \/ TruncateSync => Min(rec.todo) \in Ids
        BY <1>1, NextChunk DEF ScanChunk, TruncateSync, TInv, Locals
  <2> QED BY <2>1 DEF TrimSync, ScanChunk, TruncateSync, CreateSync
<1>4. \A c \in closed : c.id \in fs.names /\ c.id \in Ids
  <2>1. \A c \in closed : c.id \in fs.names
        BY <1>1 DEF Opening, WInv, OpeningInv, TrimInv, ScanInv
  <2> QED BY <1>2, <2>1, LogNumbers
<1>5. \A c \in closed : fs'.file[c.id].data = fs.file[c.id].data
  <2>1. CASE fs' = fs
        BY <2>1
  <2>2. CASE fs' = SyncDir(fs)
    <3>1. \A k \in fs.names : fs'.file[k] = fs.file[k]
          BY <1>2, <2>2, SyncDirFacts
    <3> QED BY <1>4, <3>1
  <2>3. ASSUME NEW i \in Ids, fs' = SetLen(fs, i) \/ fs' = SyncFile(fs, i)
        PROVE  \A k \in Ids : fs'.file[k].data = fs.file[k].data
    <3>1. CASE fs' = SetLen(fs, i)
      <4>1. /\ fs'.file[i].data = fs.file[i].data
            /\ \A k \in Ids \ {i} : fs'.file[k] = fs.file[k]
            BY <1>2, <3>1, SetLenFacts
      <4> QED BY <4>1
    <3>2. CASE fs' = SyncFile(fs, i)
      <4>1. /\ fs'.file[i].data = fs.file[i].data
            /\ \A k \in Ids \ {i} : fs'.file[k] = fs.file[k]
            BY <1>2, <3>2, SyncFileFacts
      <4> QED BY <4>1
    <3> QED BY <2>3, <3>1, <3>2
  <2> QED BY <1>3, <1>4, <2>1, <2>2, <2>3
<1>6. DiskLog(fs', b, sm, acked, written)
  <2>1. 0 \in Ids
        BY DiskAssumption DEF Ids
  <2> QED BY <1>2, <1>3, <2>1, QuietLog
<1>7. Replayed(b)'
      BY <1>1, <1>5, ReplayedFrame
<1> QED BY <1>1, <1>6, <1>7, OpeningLog

LEMMA CreateChunkLog ==
    ASSUME WInv, WInv', NEW b \in Bases, LogOk(b), CreateChunk
    PROVE  LogOk(b)'
<1>1. /\ TInv /\ TInv' /\ pc = "scan" /\ pc' = "newsync" /\ Scanned
      /\ UNCHANGED <<rec, closed>> /\ UNCHANGED OpenUnchanged
      /\ NewChunkId \in Ids /\ fs' = CreateFile(fs, NewChunkId)
      /\ sm' = sm
      BY DEF CreateChunk, Scanned, WInv, OpenUnchanged
<1>2. /\ DiskType(fs, Record) /\ acked \in Nat /\ written \in Nat
      /\ DiskLog(fs, b, sm, acked, written)
      BY <1>1, LogFacts
<1>3. /\ \A dir \in fs.images : NewChunkId \in dir => ~Used(fs, NewChunkId)
      /\ NewChunkId \notin fs.names
      /\ \A c \in closed : c.id \in Ids /\ c.id /= NewChunkId
  <2>1. /\ \A dir \in fs.images : \A j \in dir :
              Used(fs, j) => j < NewChunkId
        /\ \A i \in fs.names : i < NewChunkId
        /\ \A c \in closed : c.id < NewChunkId
        /\ NewChunkId \in Nat
        BY <1>1, NewChunkFacts
  <2>2. \A c \in closed : c.id \in Ids /\ c.id \in Nat
    <3>1. closed \subseteq [id : Ids, end : Nat]
          BY <1>1, RecFacts
    <3> QED BY <1>2, <3>1, LogNumbers
  <2>3. ~(NewChunkId < NewChunkId)
        BY <2>1
  <2>4. \A c \in closed : c.id /= NewChunkId
        BY <2>1, <2>3
  <2> QED BY <2>1, <2>2, <2>3, <2>4
<1>4. DiskLog(fs', b, sm, acked, written)
      BY <1>1, <1>2, <1>3, QuietLog
<1>5. \A c \in closed : fs'.file[c.id].data = fs.file[c.id].data
  <2>1. \A k \in Ids \ {NewChunkId} : fs'.file[k] = fs.file[k]
        BY <1>1, <1>2, CreateFileFacts
  <2> QED BY <1>3, <2>1
<1>6. pc \in Opening \ {"replay"} /\ pc' \in OpenPCs
      BY <1>1 DEF Opening, Scanning, OpenPCs
<1>7. Replayed(b)'
      BY <1>1, <1>5, <1>6, ReplayedFrame
<1> QED BY <1>1, <1>4, <1>6, <1>7, OpeningLog

(* open is called, or gives up.                                            *)
LEMMA OpenEdgeLog ==
    ASSUME WInv, WInv', NEW b \in Bases, LogOk(b), LoadChunkIds \/ ReplayPanic
    PROVE  LogOk(b)'
<1>1. /\ TInv /\ TInv' /\ fs' = fs /\ UNCHANGED OpenUnchanged
      /\ pc' \in OpenPCs
      BY DEF LoadChunkIds, ReplayPanic, WInv, OpenPCs
<1>2. DiskLog(fs', b, sm, acked, written)
      BY <1>1, LogFacts
<1>3. Replayed(b)'
  <2>1. CASE LoadChunkIds
    <3>1. rec'.n = 0 /\ rec'.sm = <<>> /\ closed' = {}
          BY <2>1 DEF LoadChunkIds, NoRec
    <3> QED BY <3>1 DEF Replayed
  <2>2. CASE ReplayPanic
        BY <2>2 DEF ReplayPanic, Replayed, Opening, Scanning
  <2> QED BY <2>1, <2>2
<1> QED BY <1>1, <1>2, <1>3, OpeningLog

(* The chunk that is being replayed.                                       *)
LEMMA ReplayFacts ==
    ASSUME WInv, NEW b \in Bases, LogOk(b), pc = "replay"
    PROVE  LET i == Min(rec.todo)
               l == Len(fs.file[i].data) IN
           /\ i \in rec.todo /\ i \in fs.names /\ i \in Ids /\ i \in Nat
           /\ l \in Nat /\ b[i] \in Nat /\ rec.n \in Nat /\ rec.n <= l
           /\ \A c \in closed : c.id < i
           /\ l > 0 => b[i] + l - 1 <= Len(sm)
           /\ \A q \in 1..l : fs.file[i].data[q] = RecordAt(sm, b[i], q)
           /\ rec.n > 0 => rec.sm = SubSeq(sm, 1, b[i] + rec.n - 1)
<1> DEFINE i == Min(rec.todo)
           l == Len(fs.file[i].data)
<1>1. TInv /\ rec.todo /= {} /\ ScanInv
      BY DEF WInv, TInv, Locals, OpeningInv
<1>2. /\ i \in rec.todo /\ i \in fs.names /\ \A c \in closed : c.id < i
  <2>1. i \in rec.todo
        BY <1>1, NextChunk
  <2> QED BY <1>1, <2>1 DEF ScanInv, Scanning
<1>3. /\ DiskType(fs, Record) /\ DiskLog(fs, b, sm, acked, written)
      BY <1>1, LogFacts
<1>4. /\ i \in Ids /\ i \in Nat /\ l \in Nat /\ b[i] \in Nat
      /\ fs.names \in fs.images /\ Used(fs, i) <=> l > 0
      BY <1>2, <1>3, LogNumbers
<1>5. rec.n \in Nat /\ (rec.n > 0 => /\ rec.n <= l
                           /\ rec.sm = SubSeq(sm, 1, b[i] + rec.n - 1))
      BY <1>1, RecFacts DEF LogOk, Replayed, Opening, Scanning
<1>6. l > 0 => /\ b[i] + l - 1 <= Len(sm)
               /\ \A q \in 1..l : fs.file[i].data[q] = RecordAt(sm, b[i], q)
      BY <1>2, <1>3, <1>4 DEF DiskLog, Holds, Top
<1> HIDE DEF i
<1>7. rec.n <= l /\ (l = 0 => 1..l = {})
      BY <1>4, <1>5
<1>8. \A q \in 1..l : fs.file[i].data[q] = RecordAt(sm, b[i], q)
      BY <1>4, <1>6, <1>7
<1> QED BY <1>2, <1>4, <1>5, <1>6, <1>7, <1>8 DEF i

LEMMA ReplayRecordLog ==
    ASSUME WInv, WInv', NEW b \in Bases, LogOk(b), ReplayRecord
    PROVE  LogOk(b)'
<1> DEFINE i == Min(rec.todo)
           l == Len(fs.file[i].data)
<1>1. /\ TInv /\ TInv' /\ pc = "replay" /\ pc' = pc /\ rec.n < l
      /\ UNCHANGED <<fs, closed>> /\ UNCHANGED OpenUnchanged /\ sm' = sm
      /\ rec'.n = rec.n + 1 /\ rec'.todo = rec.todo
      /\ rec'.sm = Apply(rec.sm, fs.file[i].data[rec.n + 1])
  <2>1. rec \in OpenLocals
        BY RecFacts DEF WInv
  <2> QED BY <2>1 DEF ReplayRecord, OpenLocals, WInv, OpenUnchanged
<1>2. /\ l \in Nat /\ b[i] \in Nat /\ rec.n \in Nat
      /\ l > 0 => b[i] + l - 1 <= Len(sm)
      /\ \A q \in 1..l : fs.file[i].data[q] = RecordAt(sm, b[i], q)
      /\ rec.n > 0 => rec.sm = SubSeq(sm, 1, b[i] + rec.n - 1)
      BY <1>1, ReplayFacts
<1>3. /\ sm \in Seq(1..MaxActions) /\ Len(sm) \in Nat
      /\ DiskLog(fs, b, sm, acked, written)
      BY <1>1, LogFacts
<1> HIDE DEF i
<1>4. PICK n \in Nat : n = rec.n
      BY <1>2
<1>5. PICK x \in Nat : x = b[i]
      BY <1>2
<1>6. x + n <= Len(sm)
  <2>1. ASSUME NEW m \in Nat, NEW k \in Nat, n < m, m > 0 => x + m - 1 <= k
        PROVE  x + n <= k
        BY <2>1
  <2> QED BY <1>1, <1>2, <1>3, <1>4, <1>5, <2>1
<1>7. rec'.sm = Apply(rec.sm, RecordAt(sm, x, n + 1))
  <2>1. n + 1 \in 1..l
        BY <1>1, <1>2, <1>4
  <2> QED BY <1>1, <1>2, <1>4, <1>5, <2>1
<1>8. rec'.sm = SubSeq(sm, 1, x + n)
  <2>1. CASE n = 0
    <3>1. n + 1 = 1 /\ x + n = x
          BY <2>1
    <3> QED BY <1>7, <3>1 DEF RecordAt, Apply, Checkpoint
  <2>2. CASE n /= 0
    <3>1. /\ n > 0 /\ n + 1 /= 1 /\ x + (n + 1) - 1 = x + n
          /\ x + n - 1 \in Nat /\ x + n - 1 < Len(sm)
          /\ (x + n - 1) + 1 = x + n /\ x + n - 1 <= Len(sm)
          BY <1>3, <1>6, <2>2
    <3>2. RecordAt(sm, x, n + 1) = Action(sm[x + n])
          BY <3>1 DEF RecordAt
    <3>3. rec'.sm = rec.sm \o <<sm[x + n]>>
      <4>1. /\ Action(sm[x + n]).checkpoint = FALSE
            /\ Action(sm[x + n]).values = <<sm[x + n]>>
            BY DEF Action
      <4> QED BY ONLY <1>7, <3>2, <4>1 DEF Apply
    <3>4. rec.sm = SubSeq(sm, 1, x + n - 1)
          BY <1>2, <1>4, <1>5, <3>1
    <3>5. SubSeq(sm, 1, x + n - 1) \o <<sm[(x + n - 1) + 1]>> =
              SubSeq(sm, 1, (x + n - 1) + 1)
      <4>1. PICK y \in Nat : y = x + n - 1
            BY <3>1
      <4>2. y < Len(sm) /\ y <= Len(sm)
            BY <3>1, <4>1
      <4>3. SubSeq(sm, 1, y) \o <<sm[y + 1]>> = SubSeq(sm, 1, y + 1)
            BY <1>3, <4>2, PrefixFacts
      <4> QED BY <4>1, <4>3
    <3> QED BY <3>1, <3>3, <3>4, <3>5
  <2> QED BY <2>1, <2>2
<1>9. Replayed(b)'
  <2>1. /\ rec'.n = n + 1 /\ rec'.n > 0 /\ rec'.n /= 0 /\ n + 1 <= l
        /\ x + (n + 1) - 1 = x + n
    <3>1. rec'.n = n + 1 /\ n < l /\ l \in Nat
          BY <1>1, <1>2, <1>4
    <3>2. ASSUME NEW m \in Nat, n < m PROVE n + 1 <= m
          BY <3>2
    <3>3. n + 1 > 0 /\ n + 1 /= 0 /\ x + (n + 1) - 1 = x + n
          OBVIOUS
    <3> QED BY <3>1, <3>2, <3>3
  <2>2. Min(rec.todo)' = i
        BY <1>1 DEF i
  <2>3. rec'.sm = SubSeq(sm', 1, b[i] + rec'.n - 1)
        BY <1>1, <1>5, <1>8, <2>1
  <2> QED BY <1>1, <2>1, <2>2, <2>3 DEF Replayed
<1>10. pc' \in OpenPCs /\ DiskLog(fs', b, sm, acked, written)
      BY <1>1, <1>3 DEF OpenPCs
<1> QED BY <1>1, <1>9, <1>10, OpeningLog

LEMMA ReplayChunkLog ==
    ASSUME WInv, WInv', NEW b \in Bases, LogOk(b), ReplayChunk
    PROVE  LogOk(b)'
<1> DEFINE i == Min(rec.todo)
           l == Len(fs.file[i].data)
<1>1. /\ TInv /\ TInv' /\ pc = "replay" /\ pc' = "scan" /\ fs' = fs
      /\ UNCHANGED OpenUnchanged /\ sm' = sm /\ rec.n = l
      /\ rec'.n = 0 /\ rec'.sm = rec.sm /\ fs.file[i].data /= <<>>
      /\ closed' = closed \union {[id |-> i, end |-> EndOf(fs, i)]}
  <2>1. rec \in OpenLocals
        BY RecFacts DEF WInv
  <2> QED BY <2>1
      DEF ReplayChunk, HasLastSegment, OpenLocals, WInv, OpenUnchanged
<1>2. /\ i \in Ids /\ i \in Nat /\ l \in Nat
      /\ \A c \in closed : c.id < i
      /\ rec.n > 0 => rec.sm = SubSeq(sm, 1, b[i] + rec.n - 1)
      BY <1>1, ReplayFacts
<1>3. /\ DiskType(fs, Record) /\ DiskLog(fs, b, sm, acked, written)
      BY <1>1, LogFacts
<1>4. l > 0
      BY <1>1, <1>2, <1>3, LogNumbers DEF Used
<1>5. rec'.sm = SubSeq(sm', 1, Top(fs', b, i))
      BY <1>1, <1>2, <1>4 DEF Top
<1> HIDE DEF i
<1>6. ASSUME NEW c \in closed', \A o \in closed' : o.id <= c.id
      PROVE  c.id = i
  <2>1. \A o \in closed : o.id \in Nat
    <3>1. closed \subseteq [id : Ids, end : Nat]
          BY <1>1, RecFacts
    <3> QED BY <1>3, <3>1, LogNumbers
  <2>2. i <= c.id
    <3> DEFINE o == [id |-> i, end |-> EndOf(fs, i)]
    <3>1. o \in closed' /\ o.id = i
          BY <1>1
    <3> QED BY <1>6, <3>1
  <2>3. CASE c \in closed
    <3>1. c.id < i /\ c.id \in Nat
          BY <1>2, <2>1, <2>3
    <3> QED BY <1>2, <2>2, <3>1
  <2>4. CASE c = [id |-> i, end |-> EndOf(fs, i)]
        BY <2>4
  <2> QED BY <1>1, <2>3, <2>4
<1>7. closed' /= {} /\ ~(rec'.n > 0)
  <2>1. closed' /= {}
        BY <1>1
  <2>2. rec'.n = 0
        BY <1>1
  <2> QED BY <2>1, <2>2
<1>8. Replayed(b)'
      BY <1>5, <1>6, <1>7 DEF Replayed
<1>9. pc' \in OpenPCs
      BY <1>1 DEF OpenPCs
<1> QED BY <1>1, <1>3, <1>8, <1>9, OpeningLog

(* All chunks have been replayed: the files hold nothing beyond what is    *)
(* recovered, which is a prefix of the log with all that was vouched for.  *)
LEMMA Recovered ==
    ASSUME WInv, NEW b \in Bases, LogOk(b), pc \in {"scan", "newwrite"},
           rec.todo = {}
    PROVE  /\ rec.sm \in Seq(1..MaxActions) /\ Len(rec.sm) \in Nat
           /\ written <= Len(rec.sm) /\ Len(rec.sm) <= Len(sm)
           /\ rec.sm = SubSeq(sm, 1, Len(rec.sm))
           /\ DiskLog(fs, b, rec.sm, acked, written)
           /\ \A dir \in fs.images : \A i \in dir :
                 Used(fs, i) => Top(fs, b, i) <= Len(rec.sm)
           /\ \A c \in closed : (\A o \in closed : o.id <= c.id) =>
                 Len(rec.sm) = Top(fs, b, c.id)
<1>1. /\ TInv /\ DiskInv(fs) /\ ScanInv /\ CreateInv /\ Replayed(b)
      /\ rec.sm \in Seq(1..MaxActions) /\ rec.n \in Nat
      BY RecFacts DEF WInv, OpeningInv, LogOk
<1>2. /\ DiskType(fs, Record) /\ sm \in Seq(1..MaxActions)
      /\ Len(sm) \in Nat /\ acked \in Nat /\ written \in Nat
      /\ DiskLog(fs, b, sm, acked, written)
      BY <1>1, LogFacts
<1>3. rec.n = 0 /\ (closed = {} => rec.sm = <<>>)
      /\ \A c \in closed : (\A o \in closed : o.id <= c.id) =>
              rec.sm = SubSeq(sm, 1, Top(fs, b, c.id))
  <2>1. ~(rec.n > 0)
        BY <1>1 DEF Replayed, Opening, Scanning
  <2>2. rec.n = 0
        BY <1>1, <2>1
  <2> QED BY <1>1, <2>2 DEF Replayed, Opening, Scanning
<1>4. \A k \in fs.names : Used(fs, k) => \E c \in closed : c.id = k
  <2>1. pc \in Creating => ~Used(fs, NewChunkId)
    <3>1. pc \in Creating => fs.file[NewChunkId] = NoFile
          BY <1>1 DEF CreateInv
    <3> QED BY <3>1 DEF Used, NoFile
  <2> QED BY <1>1, <2>1 DEF ScanInv, Scanning
<1>5. Len(rec.sm) \in Nat
      BY <1>1
<1>6. CASE closed = {}
  <2>1. \A dir \in fs.images : \A i \in dir : ~Used(fs, i)
        BY <1>1, <1>4, <1>6 DEF DiskInv, ImageTop
  <2>2. written = 0
    <3>1. ~(written > 0)
          BY <1>2, <2>1, LogNumbers DEF DiskLog, Found
    <3> QED BY <1>2, <3>1
  <2>3. rec.sm = <<>> /\ Len(rec.sm) = 0
        BY <1>3, <1>6
  <2>4. written <= Len(rec.sm) /\ Len(rec.sm) <= Len(sm)
        BY <1>2, <2>2, <2>3
  <2>5. rec.sm = SubSeq(sm, 1, Len(rec.sm))
    <3>1. SubSeq(sm, 1, 0) = <<>>
      <4>1. 0 \in Nat /\ 0 <= Len(sm)
            BY <1>2
      <4> QED BY <1>2, <4>1, PrefixFacts
    <3> QED BY <2>3, <3>1
  <2>6. \A k \in 1..Len(rec.sm) : k <= Len(sm) => rec.sm[k] = sm[k]
        BY <2>3
  <2>7. DiskLog(fs, b, rec.sm, acked, written)
        BY <1>1, <1>2, <2>1, <2>6, OtherLog
  <2> QED BY <1>1, <1>5, <1>6, <2>1, <2>4, <2>5, <2>7
<1>7. CASE closed /= {}
  <2>1. PICK c \in closed : \A d \in closed : d.id <= c.id
        BY <1>1, <1>7 DEF ScanInv, Scanning
  <2>2. c.id \in fs.names /\ Used(fs, c.id)
        BY <1>1 DEF ScanInv, Scanning
  <2>3. /\ c.id \in Ids /\ c.id \in Nat /\ b[c.id] \in Nat
        /\ fs.names \in fs.images
        /\ Top(fs, b, c.id) \in Int /\ Top(fs, b, c.id) >= b[c.id]
        BY <1>2, <2>2, LogNumbers
  <2>4. PICK t \in Nat : t = Top(fs, b, c.id)
        BY <2>3
  <2>5. t <= Len(sm)
        BY <1>2, <2>2, <2>3, <2>4 DEF DiskLog, Holds
  <2>6. /\ rec.sm = SubSeq(sm, 1, t) /\ Len(rec.sm) = t
        /\ \A k \in 1..t : rec.sm[k] = sm[k]
    <3>1. rec.sm = SubSeq(sm, 1, t)
          BY <1>3, <2>1, <2>4
    <3> QED BY <1>2, <2>5, <3>1, PrefixFacts
  <2>7. ASSUME NEW dir \in fs.images, NEW i \in dir, Used(fs, i)
        PROVE  Top(fs, b, i) <= t
    <3>1. PICK k \in fs.names : i <= k /\ Used(fs, k)
          BY <1>1, <2>7 DEF DiskInv, ImageTop
    <3>2. k <= c.id
          BY <1>4, <2>1, <3>1
    <3>3. i \in Nat /\ k \in Nat /\ Top(fs, b, i) \in Int
          BY <1>2, LogNumbers
    <3>4. c.id \in dir
          BY <1>1, <2>2 DEF DiskInv, NameSynced
    <3>5. i = c.id \/ i < c.id
          BY <2>3, <3>1, <3>2, <3>3
    <3>6. i < c.id => Top(fs, b, i) <= b[c.id]
          BY <1>2, <2>2, <2>7, <3>4 DEF DiskLog, Rising
    <3>7. ASSUME NEW y \in Int, NEW z \in Nat, y <= z, t >= z PROVE y <= t
          BY <3>7
    <3>8. t <= t
          OBVIOUS
    <3> QED BY <2>3, <2>4, <3>3, <3>5, <3>6, <3>7, <3>8
  <2>8. written <= t
    <3>1. CASE written > 0
      <4>1. PICK j \in fs.names : Used(fs, j) /\ Top(fs, b, j) >= written
            BY <1>2, <3>1 DEF DiskLog, Found
      <4>2. Top(fs, b, j) <= t /\ Top(fs, b, j) \in Int
            BY <1>2, <2>3, <2>7, <4>1, LogNumbers
      <4> QED BY <1>2, <4>1, <4>2
    <3>2. CASE ~(written > 0)
          BY <1>2, <3>2
    <3> QED BY <3>1, <3>2
  <2>9. \A k \in 1..Len(rec.sm) : k <= Len(sm) => rec.sm[k] = sm[k]
        BY <2>6
  <2>10. DiskLog(fs, b, rec.sm, acked, written)
        BY <1>1, <1>2, <2>6, <2>7, <2>9, OtherLog
  <2>11. ASSUME NEW d \in closed, \A o \in closed : o.id <= d.id
         PROVE  t = Top(fs, b, d.id)
    <3>1. d.id <= c.id /\ c.id <= d.id
          BY <2>1, <2>11
    <3>2. d.id \in Nat
      <4>1. closed \subseteq [id : Ids, end : Nat]
            BY <1>1, RecFacts
      <4> QED BY <1>2, <4>1, LogNumbers
    <3>3. d.id = c.id
          BY <2>3, <3>1, <3>2
    <3> QED BY <2>4, <3>3
  <2> QED BY <1>1, <1>5, <2>5, <2>6, <2>7, <2>8, <2>10, <2>11
<1> QED BY <1>6, <1>7

(* The WAL starts with what was recovered.                                 *)
LEMMA StartLog ==
    ASSUME NEW c \in Bases, NEW chunk, StartUp(chunk),
           chunk.pending = <<>>, Used(fs', chunk.id), Len(rec.sm) \in Nat,
           \A dir \in fs'.images : chunk.id \in dir,
           Len(rec.sm) = c[chunk.id] + chunk.n - 1,
           DiskLog(fs', c, rec.sm, acked, Len(rec.sm)), acked <= Len(rec.sm)
    PROVE  LogOk(c)'
<1>1. /\ open' = chunk /\ sm' = rec.sm /\ queue' = <<>> /\ batch' = <<>>
      /\ wpc' = "recv" /\ pc' = "idle" /\ written' = Len(rec.sm)
      /\ acked' = acked
      BY DEF StartUp
<1>2. Writes' = {}
  <2>1. InHand' = {}
        BY <1>1 DEF InHand
  <2> QED BY <2>1 DEF Writes
<1>3. OpenHolds(c)'
  <2>1. Len(open'.pending) = 0
        BY <1>1
  <2>2. \A p \in 1..Len(open'.pending) : FALSE
        BY <2>1
  <2> QED BY <1>1, <2>2 DEF OpenHolds
<1>4. InOrder(c)'
  <2>1. \A dir \in fs'.images : \A i \in dir : Used(fs', i) =>
            (i < open'.id => Top(fs', c, i) <= c[open'.id])
        BY <1>1 DEF DiskLog, Rising
  <2> QED BY <1>2, <2>1 DEF InOrder
<1>5. BatchDone'
      BY <1>1 DEF BatchDone
<1>6. Sent(c)'
      BY <1>2, <1>3, <1>4, <1>5 DEF Sent
<1>7. pc' \notin Opening /\ Settled(c)'
      BY <1>1 DEF Opening, Scanning, Settled
<1>8. /\ DiskLog(fs', c, sm', acked', written')
      /\ acked' <= written' /\ written' <= Len(sm')
      BY <1>1
<1> QED BY <1>6, <1>7, <1>8, RunLog

LEMMA ReopenLog ==
    ASSUME WInv, WInv', NEW b \in Bases, LogOk(b), ReopenLastClosed
    PROVE  LogOk(b)'
<1>1. PICK last \in closed :
          /\ \A c \in closed : c.id <= last.id
          /\ StartUp([id |-> last.id, n |-> last.end - last.id,
                      pending |-> <<>>])
      BY DEF ReopenLastClosed
<1>2. /\ pc = "scan" /\ rec.todo = {} /\ fs' = fs /\ TInv /\ DiskInv(fs)
      /\ ScanInv
      BY DEF ReopenLastClosed, Scanned, WInv, OpeningInv
<1> DEFINE chunk == [id |-> last.id, n |-> last.end - last.id,
                     pending |-> <<>>]
<1>3. /\ last.id \in fs.names /\ Used(fs, last.id)
      /\ last.end = EndOf(fs, last.id)
      BY <1>2 DEF ScanInv, Scanning
<1>4. /\ DiskType(fs, Record) /\ acked \in Nat /\ written \in Nat
      /\ acked <= written
      BY <1>2, LogFacts
<1>5. /\ Len(rec.sm) \in Nat /\ written <= Len(rec.sm)
      /\ DiskLog(fs, b, rec.sm, acked, written)
      /\ Len(rec.sm) = Top(fs, b, last.id)
      BY <1>1, <1>2, Recovered
<1>6. Len(rec.sm) = b[last.id] + (last.end - last.id) - 1
  <2>1. /\ last.id \in Nat /\ b[last.id] \in Nat
        /\ Len(fs.file[last.id].data) \in Nat
        BY <1>3, <1>4, LogNumbers
  <2>2. ASSUME NEW i \in Nat, NEW x \in Nat, NEW l \in Nat
        PROVE  x + l - 1 = x + ((i + l) - i) - 1
        BY <2>2
  <2>3. PICK l \in Nat : l = Len(fs.file[last.id].data)
        BY <2>1
  <2>4. Len(rec.sm) = b[last.id] + l - 1 /\ last.end = last.id + l
        BY <1>3, <1>5, <2>3 DEF Top, EndOf
  <2> QED BY <2>1, <2>2, <2>4
<1>7. DiskLog(fs', b, rec.sm, acked, Len(rec.sm))
  <2>1. Len(rec.sm) >= Len(rec.sm)
        BY <1>5
  <2>2. Found(fs, b, Len(rec.sm))
        BY <1>3, <1>5, <2>1 DEF Found
  <2> QED BY <1>2, <1>5, <2>2 DEF DiskLog
<1>8. \A dir \in fs'.images : last.id \in dir
      BY <1>2, <1>3 DEF DiskInv, NameSynced
<1>9. acked <= Len(rec.sm)
      BY <1>4, <1>5
<1>10. /\ chunk.id = last.id /\ chunk.n = last.end - last.id
       /\ chunk.pending = <<>> /\ StartUp(chunk)
      BY <1>1
<1> HIDE DEF chunk
<1> QED BY <1>2, <1>3, <1>5, <1>6, <1>7, <1>8, <1>9, <1>10, StartLog

LEMMA CreateWriteLog ==
    ASSUME WInv, WInv', NEW b \in Bases, LogOk(b), CreateWrite
    PROVE  \E c \in Bases : LogOk(c)'
<1> DEFINE x == NewChunkId
           cp == <<Checkpoint(rec.sm)>>
           chunk == [id |-> x, n |-> 1, pending |-> <<>>]
<1>1. /\ pc = "newwrite" /\ fs' = WriteFile(fs, x, cp, "none")
      /\ StartUp(chunk) /\ TInv /\ CreateInv /\ DiskInv(fs')
      BY DEF CreateWrite, WInv, OpeningInv
<1>2. rec.todo = {} /\ fs.file[x] = NoFile /\ x \in fs.names /\ x \in Ids
      BY <1>1 DEF CreateInv, Creating, TInv, Locals
<1>3. /\ DiskType(fs, Record) /\ acked \in Nat /\ written \in Nat
      /\ acked <= written
      BY <1>1, LogFacts
<1>4. /\ rec.sm \in Seq(1..MaxActions) /\ Len(rec.sm) \in Nat
      /\ written <= Len(rec.sm)
      /\ DiskLog(fs, b, rec.sm, acked, written)
      /\ \A dir \in fs.images : \A i \in dir :
            Used(fs, i) => Top(fs, b, i) <= Len(rec.sm)
      BY <1>1, <1>2, Recovered
<1>5. /\ cp \in Seq(Record) /\ Len(cp) = 1 /\ cp[1] = Checkpoint(rec.sm)
      /\ cp /= <<>> /\ "none" \in Tails
  <2>1. Checkpoint(rec.sm) \in Record
        BY <1>4, RecordTypes
  <2> QED BY <2>1 DEF Tails
<1>6. \A dir \in fs.images : \A i \in dir : Used(fs, i) =>
          i \in Ids /\ i <= x /\ i /= x
  <2>1. \A dir \in fs.images : \A i \in dir : i \in Ids
        BY <1>3, LogNumbers
  <2>2. ~Used(fs, x)
        BY <1>2 DEF Used, NoFile
  <2>3. fs.images = {fs.names} /\ \A i \in fs.names : i <= x
        BY <1>1, NewWriteRule
  <2> QED BY <2>1, <2>2, <2>3
<1>7. PICK c \in Bases : /\ c[x] = Len(rec.sm)
                         /\ \A i \in Ids : i /= x => c[i] = b[i]
  <2> DEFINE e == [b EXCEPT ![x] = Len(rec.sm)]
  <2>1. /\ e \in Bases /\ e[x] = Len(rec.sm)
        /\ \A i \in Ids : i /= x => e[i] = b[i]
        BY <1>2, <1>4 DEF Bases
  <2> QED BY <2>1
<1> HIDE DEF x, cp
<1>8. DiskLog(fs, c, rec.sm, acked, written)
      BY <1>3, <1>4, <1>6, <1>7, BaseLog
<1>9. Len(fs.file[x].data) = 0
      BY <1>2 DEF NoFile
<1>10. DiskLog(fs', c, rec.sm, acked, written)
  <2>1. \A dir \in fs.images : \A i \in dir : Used(fs, i) =>
            i <= x /\ (i < x => Top(fs, c, i) <= c[x])
        BY <1>4, <1>6, <1>7 DEF Top
  <2>2. Top(fs, c, x) + Len(cp) <= Len(rec.sm)
    <3>1. Top(fs, c, x) = Len(rec.sm) + 0 - 1
          BY <1>7, <1>9 DEF Top
    <3> QED BY <1>4, <1>5, <3>1
  <2>3. \A p \in 1..Len(cp) :
            cp[p] = RecordAt(rec.sm, c[x], Len(fs.file[x].data) + p)
    <3>1. RecordAt(rec.sm, Len(rec.sm), 1) = Checkpoint(rec.sm)
          BY <1>4, CheckpointRecord
    <3>2. \A p \in 1..1 : p = 1 /\ 0 + p = 1
          OBVIOUS
    <3> QED BY <1>5, <1>7, <1>9, <3>1, <3>2
  <2> QED BY <1>1, <1>2, <1>3, <1>4, <1>5, <1>8, <2>1, <2>2, <2>3, WriteLog
<1>11. /\ fs'.names = fs.names /\ Len(fs'.file[x].data) = 1
       /\ Used(fs', x)
  <2>1. /\ fs'.names = fs.names /\ fs'.file[x].data = fs.file[x].data \o cp
    <3>1. ASSUME NEW recs \in Seq(Record), NEW tail \in Tails
          PROVE  LET e == WriteFile(fs, x, recs, tail) IN
                 e.names = fs.names /\ e.file[x].data = fs.file[x].data \o recs
          BY <1>1, NewWriteKeeps DEF x
    <3> QED BY <1>1, <1>5, <3>1
  <2>2. fs'.file[x].data = <<>> \o cp
        BY <1>2, <2>1 DEF NoFile
  <2>3. fs'.file[x].data = cp
        BY <1>5, <2>2
  <2> QED BY <1>5, <2>1, <2>3 DEF Used
<1>12. Top(fs', c, x) = Len(rec.sm)
      /\ Len(rec.sm) = c[x] + 1 - 1
  <2>1. Len(rec.sm) + 1 - 1 = Len(rec.sm)
        BY <1>4
  <2> QED BY <1>7, <1>11, <2>1 DEF Top
<1>13. DiskLog(fs', c, rec.sm, acked, Len(rec.sm))
  <2>1. Len(rec.sm) >= Len(rec.sm)
        BY <1>4
  <2>2. Found(fs', c, Len(rec.sm))
        BY <1>2, <1>11, <1>12, <2>1 DEF Found
  <2> QED BY <1>10, <2>2 DEF DiskLog
<1>14. \A dir \in fs'.images : x \in dir
      BY <1>1, <1>2, <1>11 DEF DiskInv, NameSynced
<1>15. acked <= Len(rec.sm)
      BY <1>3, <1>4
<1>16. chunk.id = x /\ chunk.n = 1 /\ chunk.pending = <<>>
      OBVIOUS
<1> HIDE DEF chunk
<1>17. LogOk(c)'
      BY <1>1, <1>4, <1>11, <1>12, <1>13, <1>14, <1>15, <1>16, StartLog
<1> QED BY <1>17

LEMMA OpenKeepsLog ==
    ASSUME WInv, WInv', NEW b \in Bases, LogOk(b), OpenNext
    PROVE  \E c \in Bases : LogOk(c)'
BY TrimTailLog, ScanLog, CreateChunkLog, OpenEdgeLog, ReplayRecordLog,
   ReplayChunkLog, ReopenLog, CreateWriteLog
DEF OpenNext, OpenStep

-----------------------------------------------------------------------------
(* Crashes.                                                                *)
LEMMA InFlightLog ==
    ASSUME WInv, NEW b \in Bases, LogOk(b), NEW d \in InFlight
    PROVE  DiskLog(d, b, sm, acked, written) /\ DiskType(d, Record)
<1>1. /\ TInv /\ DiskType(fs, Record) /\ acked \in Nat /\ written \in Nat
      /\ DiskLog(fs, b, sm, acked, written)
      BY LogFacts DEF WInv
<1>2. DiskType(d, Record)
      BY <1>1, InFlightType
<1>3. CASE d = fs
      BY <1>1, <1>3
<1>4. ASSUME wpc = "write", NEW k \in 0..(Len(NextData) - 1),
             d = WriteFile(fs, LastFile, SubSeq(NextData, 1, k), "short")
      PROVE  DiskLog(d, b, sm, acked, written)
  <2>1. NextData \in Seq(Record) /\ Len(NextData) \in Nat
        BY <1>4, NextWrite
  <2>2. k \in Nat /\ k <= Len(NextData) /\ "short" \in Tails
        BY <1>4, <2>1 DEF Tails
  <2>3. /\ SubSeq(NextData, 1, k) \in Seq(Record)
        /\ Len(SubSeq(NextData, 1, k)) = k
        /\ \A p \in 1..k : SubSeq(NextData, 1, k)[p] = NextData[p]
        BY <2>1, <2>2, PrefixFacts
  <2> QED BY <1>4, <2>2, <2>3, PartWritten
<1>5. ASSUME pc = "newwrite", d = WriteFile(fs, NewChunkId, <<>>, "short")
      PROVE  DiskLog(d, b, sm, acked, written)
  <2>1. /\ NewChunkId \in Ids /\ fs.file[NewChunkId] = NoFile
        BY <1>1, <1>5 DEF WInv, OpeningInv, CreateInv, Creating, TInv, Locals
  <2>2. /\ d.names = fs.names /\ d.images = fs.images
        /\ d.file[NewChunkId].data = fs.file[NewChunkId].data \o <<>>
        /\ \A k \in Ids \ {NewChunkId} : d.file[k] = fs.file[k]
    <3>1. ASSUME NEW recs \in Seq(Record), NEW tail \in Tails
          PROVE  LET e == WriteFile(fs, NewChunkId, recs, tail) IN
                 /\ e.names = fs.names /\ e.images = fs.images
                 /\ e.file[NewChunkId].data = fs.file[NewChunkId].data \o recs
                 /\ \A k \in Ids \ {NewChunkId} : e.file[k] = fs.file[k]
          BY <1>5, NewWriteKeeps
    <3>2. <<>> \in Seq(Record) /\ "short" \in Tails
          BY DEF Tails
    <3> QED BY <1>5, <3>1, <3>2
  <2>3. d.file[NewChunkId].data = fs.file[NewChunkId].data
        BY <2>1, <2>2 DEF NoFile
  <2>4. \A k \in Ids : /\ d.file[k].data = fs.file[k].data
                       /\ d.file[k].synced >= fs.file[k].synced
    <3>1. \A k \in Ids : fs.file[k].synced \in Nat /\ d.file[k].synced \in Nat
      <4>1. [i \in Ids |-> 0] \in Bases
            BY DEF Bases
      <4> QED BY <1>1, <1>2, <4>1, LogNumbers
    <3>2. fs.file[NewChunkId].synced = 0
          BY <2>1 DEF NoFile
    <3> QED BY <2>2, <2>3, <3>1, <3>2
  <2>5. \A dir \in d.images :
            /\ dir \in fs.images
            /\ \A i \in dir : i \in dir /\ d.file[i].data = fs.file[i].data
            /\ \A i \in dir : d.file[i].synced >= fs.file[i].synced
        BY <1>1, <2>2, <2>4, LogNumbers
  <2>6. \A i \in fs.names : i \in d.names /\ d.file[i].data = fs.file[i].data
        BY <1>1, <2>2, <2>4, LogNumbers
  <2> QED BY <1>1, <1>2, <2>5, <2>6, LogFrame
<1> QED BY <1>2, <1>3, <1>4, <1>5 DEF InFlight

LEMMA CrashLog ==
    ASSUME WInv, NEW b \in Bases, LogOk(b), ProcessCrash \/ PowerLoss
    PROVE  LogOk(b)'
<1>1. /\ TInv /\ Vanish /\ sm' = sm /\ acked' = acked
      BY DEF WInv, ProcessCrash, PowerLoss, histVars
<1>2. /\ Len(sm) \in Nat /\ acked \in Nat /\ written \in Nat
      /\ acked <= written /\ written <= Len(sm)
      BY <1>1, LogFacts
<1>3. CASE ProcessCrash
  <2>1. fs' \in InFlight /\ written' = written
        BY <1>3 DEF ProcessCrash, histVars
  <2>2. DiskLog(fs', b, sm, acked, written)
        BY <2>1, InFlightLog
  <2> QED BY <1>1, <1>2, <2>1, <2>2, VanishLog
<1>4. CASE PowerLoss
  <2>1. PICK d \in InFlight : fs' \in PowerLossImages(d)
        BY <1>4 DEF PowerLoss
  <2>2. written' = acked
        BY <1>4 DEF PowerLoss
  <2>3. DiskLog(d, b, sm, acked, written) /\ DiskType(d, Record)
        BY InFlightLog
  <2>4. DiskLog(fs', b, sm, acked, acked)
        BY <1>2, <2>1, <2>3, PowerLog
  <2>5. acked <= acked /\ acked <= Len(sm)
        BY <1>2
  <2> QED BY <1>1, <2>2, <2>4, <2>5, VanishLog
<1> QED BY <1>3, <1>4

-----------------------------------------------------------------------------
(* The log is there, whatever happens.                                     *)
LEMMA InitLog == ASSUME Init PROVE LogInv
<1>1. /\ fs.names = {} /\ fs.images = {{}} /\ pc = "down" /\ sm = <<>>
      /\ rx = FALSE /\ wpc = "none" /\ acked = 0 /\ written = 0
      BY DEF Init, EmptyDisk
<1>2. PICK b \in Bases : TRUE
  <2>1. [i \in Ids |-> 0] \in Bases
        BY DEF Bases
  <2> QED BY <2>1
<1>3. DiskLog(fs, b, sm, acked, written)
      BY <1>1 DEF DiskLog, Holds, Rising, Survives, Found
<1>4. acked <= written /\ written <= Len(sm)
      BY <1>1
<1>5. Replayed(b) /\ ~WorkerSound /\ Settled(b)
      BY <1>1 DEF Replayed, Opening, Scanning, WorkerSound, Settled
<1>6. LogOk(b)
      BY <1>3, <1>4, <1>5 DEF LogOk
<1> QED BY <1>6 DEF LogInv

LEMMA StutterLog ==
    ASSUME NEW b \in Bases, LogOk(b), UNCHANGED vars PROVE LogOk(b)'
<1>1. UNCHANGED <<fs, pc, sm, open, closed, rec, queue, rx, wpc, files, batch,
                  wrote, result, acked, written>>
      BY DEF vars, mainVars, workVars, chanVars, histVars
<1>2. Writes' = Writes /\ LastFile' = LastFile
      BY <1>1 DEF Writes, InHand, LastFile
<1>3. (WorkerSound' <=> WorkerSound) /\ (Replayed(b)' <=> Replayed(b))
      /\ (Settled(b)' <=> Settled(b))
      BY <1>1 DEF WorkerSound, Replayed, Settled
<1>4. Sent(b)' <=> Sent(b)
      BY <1>1, <1>2
      DEF Sent, OpenHolds, InOrder, BatchDone, NeedSync
<1> QED BY <1>1, <1>3, <1>4 DEF LogOk

LEMMA NextLog ==
    ASSUME "encode" \notin Faults, WInv, WInv', ReportInv, LogInv,
           [Next]_vars
    PROVE  LogInv'
<1>1. PICK b \in Bases : LogOk(b)
      BY DEF LogInv
<1>2. \E c \in Bases : LogOk(c)'
      BY <1>1, WorkerKeepsLog, OwnerKeepsLog, OpenKeepsLog, CrashLog,
         StutterLog
      DEF Next
<1> QED BY <1>2 DEF LogInv

(* Every file, buffer and queued request holds the part of the log that    *)
(* its chunk and its place in it stand for, and what was vouched for is    *)
(* among what the files hold.                                              *)
THEOREM LogInvariant ==
    ASSUME "encode" \notin Faults, SyncBeforeRemove = TRUE
    PROVE  Spec => []LogInv
BY InitLog, NextLog, WalInvariant, ReportInvariant, PTL DEF Spec

-----------------------------------------------------------------------------
(* Steps of the durable log.                                               *)
LEMMA InitImplements == ASSUME Init PROVE DL!Init
BY DEF Init, DL!Init, UpPCs

LEMMA QuietImplements ==
    ASSUME UNCHANGED <<sm, acked, written>>, pc' \in UpPCs <=> pc \in UpPCs
    PROVE  UNCHANGED DL!vars
BY DEF DL!vars

LEMMA StopImplements ==
    ASSUME UNCHANGED <<sm, acked, written>>, pc' \notin UpPCs
    PROVE  DL!Next
BY DEF DL!Next, DL!Stop

LEMMA AppendImplements ==
    ASSUME TInv, AppendAction PROVE DL!Next
<1>1. /\ pc = "idle" /\ pc' = pc /\ sm' = Append(sm, nextAction)
      /\ UNCHANGED <<acked, written>>
      BY DEF AppendAction, histVars
<1>2. nextAction \in 1..MaxActions
  <2>1. nextAction \in 1..(MaxActions + 1) /\ nextAction <= MaxActions
        BY DEF AppendAction, TInv, TypeOK, HistoryType
  <2> QED BY <2>1, WalAssumption
<1>3. DL!Append1(nextAction)
      BY <1>1 DEF DL!Append1, UpPCs
<1> QED BY <1>2, <1>3 DEF DL!Next

LEMMA AcknowledgeImplements ==
    ASSUME Len(sm) \in Nat, acked' \in Nat, written' \in Nat,
           acked <= acked', written <= written', acked' <= written',
           written' <= Len(sm), UNCHANGED mainVars, pc \in UpPCs
    PROVE  DL!Next
<1>1. acked' \in 0..Len(sm) /\ written' \in 0..Len(sm)
      OBVIOUS
<1>2. DL!Acknowledge(acked', written')
      BY DEF DL!Acknowledge, mainVars
<1> QED BY <1>1, <1>2 DEF DL!Next

LEMMA RecoverImplements ==
    ASSUME WInv, NEW b \in Bases, LogOk(b), ReopenLastClosed \/ CreateWrite
    PROVE  DL!Next
<1>1. /\ pc \in {"scan", "newwrite"} /\ rec.todo = {} /\ TInv
      /\ sm' = rec.sm /\ written' = Len(rec.sm) /\ acked' = acked
      /\ pc' = "idle"
  <2>1. CASE ReopenLastClosed
        BY <2>1 DEF ReopenLastClosed, Scanned, StartUp, WInv
  <2>2. CASE CreateWrite
        BY <2>2 DEF CreateWrite, StartUp, WInv, OpeningInv, CreateInv, Creating
  <2> QED BY <2>1, <2>2
<1>2. /\ Len(rec.sm) \in Nat /\ written <= Len(rec.sm)
      /\ Len(rec.sm) <= Len(sm) /\ rec.sm = SubSeq(sm, 1, Len(rec.sm))
      BY <1>1, Recovered
<1>3. Len(sm) \in Nat /\ written \in Nat
      BY <1>1, LogFacts
<1>4. Len(rec.sm) \in written..Len(sm)
      BY <1>2, <1>3
<1>5. pc \notin UpPCs /\ pc' \in UpPCs
      BY <1>1 DEF UpPCs
<1>6. DL!Recover
      BY <1>1, <1>2, <1>4, <1>5 DEF DL!Recover
<1> QED BY <1>6 DEF DL!Next

(* The worker acknowledges, or does nothing the caller can see.            *)
LEMMA WorkerImplements ==
    ASSUME WInv, NEW b \in Bases, LogOk(b), WorkerNext
    PROVE  [DL!Next]_(DL!vars)
<1>1. UNCHANGED mainVars /\ TInv
      BY DEF WorkerNext, Recv, RecvClosed, WriteBatch, WriteBatchErr,
             SyncOldFile, SyncLastFile, SyncErr, Callbacks, CallbackPanic,
             AppendFile, RemoveChunk, RemoveSync, RemoveErr, WorkerExit, WInv
<1>2. CASE CallbackPanic \/ (Callbacks /\ result = "ok")
  <2>1. wpc = "callbacks" /\ result = "ok"
        BY <1>2 DEF CallbackPanic, Callbacks
  <2>2. PICK T \in SUBSET (1..Len(batch)) : \E S \in SUBSET T :
            /\ \A k \in S : batch[k].sync
            /\ acked' = MaxOf(acked, Vouched(S))
            /\ written' = MaxOf(written, Vouched(T))
        BY <1>1, <1>2, CallbackSets
  <2>3. /\ acked' <= written' /\ written' <= Len(sm)
        /\ acked' \in Nat /\ written' \in Nat
        /\ acked <= acked' /\ written <= written'
        BY <2>1, <2>2, CalledLog
  <2>4. Len(sm) \in Nat /\ pc \in UpPCs
        BY <1>1, <2>1, LogFacts DEF TInv, Control
  <2> QED BY <1>1, <2>3, <2>4, AcknowledgeImplements
<1>3. CASE ~(CallbackPanic \/ (Callbacks /\ result = "ok"))
  <2>1. UNCHANGED <<acked, written>>
        BY <1>3
        DEF WorkerNext, Recv, RecvClosed, WriteBatch, WriteBatchErr,
            SyncOldFile, SyncLastFile, SyncErr, Callbacks, AppendFile,
            RemoveChunk, RemoveSync, RemoveErr, WorkerExit, histVars
  <2>2. UNCHANGED <<sm, pc>>
        BY <1>1 DEF mainVars
  <2> QED BY <2>1, <2>2, QuietImplements
<1> QED BY <1>2, <1>3

LEMMA OwnerImplements ==
    ASSUME WInv, OwnerNext PROVE [DL!Next]_(DL!vars)
<1>1. TInv
      BY DEF WInv
<1>2. ASSUME \/ \E s \in BOOLEAN : SendPending(s)
             \/ RotateFlush \/ RotateCreate \/ RotateSync \/ RotateAppend
             \/ RotateEncodeErr \/ RotateCheckpoint
             \/ \E c \in closed : RemoveChunks(c)
             \/ Shutdown \/ ShutdownSend
      PROVE  UNCHANGED DL!vars
  <2>1. UNCHANGED <<sm, acked, written>>
        BY <1>2
        DEF SendPending, RotateFlush, RotateCreate, RotateSync, RotateAppend,
            RotateEncodeErr, RotateCheckpoint, RemoveChunks, Shutdown,
            ShutdownSend, histVars
  <2>2. pc \in UpPCs /\ pc' \in UpPCs
        BY <1>2
        DEF SendPending, RotateFlush, RotateCreate, RotateSync, RotateAppend,
            RotateEncodeErr, RotateCheckpoint, RemoveChunks, Shutdown,
            ShutdownSend, UpPCs
  <2> QED BY <2>1, <2>2, QuietImplements
<1>3. ASSUME Join PROVE DL!Next
  <2>1. pc \in UpPCs /\ pc' \notin UpPCs /\ sm' = sm
        BY <1>3 DEF Join, Vanish, UpPCs
  <2>2. CASE wpc = "done"
    <3>1. DL!CleanShutdown
          BY <1>3, <2>1, <2>2 DEF Join, DL!CleanShutdown
    <3> QED BY <3>1 DEF DL!Next
  <2>3. CASE wpc /= "done"
    <3>1. UNCHANGED <<acked, written>>
          BY <1>3, <2>3 DEF Join
    <3> QED BY <2>1, <3>1, StopImplements
  <2> QED BY <2>2, <2>3
<1> QED BY <1>1, <1>2, <1>3, AppendImplements DEF OwnerNext

LEMMA OpenImplements ==
    ASSUME WInv, NEW b \in Bases, LogOk(b), OpenNext
    PROVE  [DL!Next]_(DL!vars)
<1>1. ASSUME \/ LoadChunkIds \/ TrimTail \/ TrimSync \/ ScanChunk
             \/ TruncateSync \/ ReplayRecord \/ ReplayPanic \/ ReplayChunk
             \/ CreateChunk \/ CreateSync
      PROVE  UNCHANGED DL!vars
  <2>1. UNCHANGED OpenUnchanged
        BY <1>1
        DEF LoadChunkIds, TrimTail, TrimSync, ScanChunk, TruncateSync,
            ReplayRecord, ReplayPanic, ReplayChunk, CreateChunk, CreateSync
  <2>2. UNCHANGED <<sm, acked, written>>
        BY <2>1 DEF OpenUnchanged, histVars
  <2>3. pc \notin UpPCs /\ pc' \notin UpPCs
        BY <1>1
        DEF LoadChunkIds, TrimTail, TrimSync, ScanChunk, TruncateSync,
            ReplayRecord, ReplayPanic, ReplayChunk, CreateChunk, CreateSync,
            Scanned, UpPCs
  <2> QED BY <2>2, <2>3, QuietImplements
<1> QED BY <1>1, RecoverImplements DEF OpenNext, OpenStep

LEMMA CrashImplements ==
    ASSUME ProcessCrash \/ PowerLoss PROVE DL!Next
<1>1. pc' \notin UpPCs /\ sm' = sm /\ acked' = acked
      BY DEF ProcessCrash, PowerLoss, Vanish, UpPCs, histVars
<1>2. CASE ProcessCrash
      BY <1>1, <1>2, StopImplements DEF ProcessCrash, histVars
<1>3. CASE PowerLoss
  <2>1. DL!PowerLoss
        BY <1>1, <1>3 DEF PowerLoss, DL!PowerLoss
  <2> QED BY <2>1 DEF DL!Next
<1> QED BY <1>2, <1>3

LEMMA NextImplements ==
    ASSUME WInv, LogInv, [Next]_vars PROVE [DL!Next]_(DL!vars)
<1>1. PICK b \in Bases : LogOk(b)
      BY DEF LogInv
<1>2. UNCHANGED vars => UNCHANGED DL!vars
      BY QuietImplements DEF vars, mainVars, histVars
<1> QED BY <1>1, <1>2, WorkerImplements, OwnerImplements, OpenImplements,
           CrashImplements
    DEF Next

(* ChunkedWal keeps what DurableLog promises: what open_locked replays is  *)
(* a prefix of what was appended, with all that an Ok of a callback or of  *)
(* shutdown vouched for, whatever fails and whenever the process dies or   *)
(* power is lost.  It is left to the caller to sync before it removes, and *)
(* to the codec to encode every checkpoint.                                *)
THEOREM WalImplementsDurableLog ==
    ASSUME "encode" \notin Faults, SyncBeforeRemove = TRUE
    PROVE  Spec => ImplementsDurableLog
<1>1. Spec => Init /\ [][Next]_vars
      BY DEF Spec
<1>2. Init => DL!Init
      BY InitImplements
<1>3. WInv /\ LogInv /\ [Next]_vars => [DL!Next]_(DL!vars)
      BY NextImplements
<1>4. Spec => []WInv /\ []LogInv
      BY WalInvariant, LogInvariant
<1>5. Spec => DL!Init /\ [][DL!Next]_(DL!vars)
      BY <1>1, <1>2, <1>3, <1>4, PTL
<1> QED BY <1>5 DEF ImplementsDurableLog, DL!Spec

=============================================================================
