------------------------------- MODULE WalDisk -------------------------------
(***************************************************************************)
(* The WAL directory and its chunk files, as the operating system keeps    *)
(* them (external code, modelled from how the WAL uses it).                *)
(*                                                                         *)
(* A disk is a record: names is the directory as a running program sees    *)
(* it; images is the set of directories a power loss may leave, which      *)
(* sync_dir narrows to the present one (directory changes reach the        *)
(* journal in order, so each image is a former directory); file maps a     *)
(* chunk id to its contents.                                               *)
(*                                                                         *)
(* A file is a sequence of whole records, of which the first `synced` are  *)
(* on stable storage, and a tail: "short" is the front part of a record,   *)
(* "zero" is a length that reached the disk without its data (ext4         *)
(* data=writeback), "mixed" is part of a record followed by zeros.  A      *)
(* record has size 1, so a chunk's id plus its number of records is its    *)
(* global end offset.                                                      *)
(***************************************************************************)
EXTENDS Integers, Sequences, FiniteSets

CONSTANTS
    MaxId,      \* bound: the last global offset at which a chunk may start
    TornTails   \* what a power loss may leave after the whole records

Ids == 0..MaxId
Tails == {"none", "short", "zero", "mixed"}

ASSUME DiskAssumption ==
    MaxId \in Nat /\ TornTails \subseteq Tails \ {"none"}

NoFile == [data |-> <<>>, synced |-> 0, tail |-> "none"]

EmptyDisk == [names  |-> {},
              images |-> {{}},
              file   |-> [i \in Ids |-> NoFile]]

(* End of the whole records of a chunk, as a global offset.                *)
EndOf(d, i) == i + Len(d.file[i].data)

(* A directory entry is added or removed; both may be lost until sync_dir. *)
CreateFile(d, i) ==
    [d EXCEPT !.names = @ \union {i},
              !.images = @ \union {d.names \union {i}},
              !.file[i] = NoFile]

RemoveFile(d, i) ==
    [d EXCEPT !.names = @ \ {i},
              !.images = @ \union {d.names \ {i}}]

(* Config::sync_dir.  The contents of removed files are gone for good.     *)
SyncDir(d) ==
    [d EXCEPT !.images = {d.names},
              !.file = [i \in Ids |-> IF i \in d.names THEN @[i] ELSE NoFile]]

(* An append to the file, in the page cache; a failed or interrupted one   *)
(* may end inside a record.                                                *)
WriteFile(d, i, recs, tail) ==
    [d EXCEPT !.file[i].data = @ \o recs, !.file[i].tail = tail]

(* sync_data and sync_all.                                                 *)
SyncFile(d, i) == [d EXCEPT !.file[i].synced = Len(d.file[i].data)]

(* set_len to the end of the whole records.  A power loss that undoes it   *)
(* leaves what a power loss before it may leave.                           *)
SetLen(d, i) == [d EXCEPT !.file[i].tail = "none"]

-----------------------------------------------------------------------------
(* What a power loss may leave of one file: every synced record and any    *)
(* number of the later ones, then perhaps a damaged rest.                  *)
Cut(f, k, t) == [data |-> SubSeq(f.data, 1, k), synced |-> k, tail |-> t]
FileImages(f) ==
    (UNION {{Cut(f, k, t) : t \in TornTails \union {"none"}} :
               k \in f.synced..(Len(f.data) - 1)})
    \union {Cut(f, Len(f.data), t) :
               t \in IF f.tail = "none" THEN {"none"}
                     ELSE TornTails \union {"none"}}

(* The files of a directory that a power loss may change, and the ways it  *)
(* may change them.                                                        *)
Torn(d, dir) == {i \in dir : FileImages(d.file[i]) /= {d.file[i]}}
Losses(d, dir) ==
    {loss \in [Torn(d, dir) -> UNION {FileImages(d.file[i]) : i \in Torn(d, dir)}] :
        \A i \in Torn(d, dir) : loss[i] \in FileImages(d.file[i])}
AfterLoss(d, dir, loss) ==
    [names |-> dir, images |-> {dir},
     file |-> [i \in Ids |-> IF i \in Torn(d, dir) THEN loss[i]
                             ELSE IF i \in dir THEN d.file[i] ELSE NoFile]]

(* Every disk a power loss may leave.                                      *)
PowerLossImages(d) ==
    UNION {{AfterLoss(d, dir, loss) : loss \in Losses(d, dir)} :
              dir \in d.images}
=============================================================================
