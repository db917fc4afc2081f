----------------------------- MODULE RecordScan -----------------------------
(***************************************************************************)
(* Reading one chunk file byte by byte: WALRecord::decode, RecordIterator, *)
(* has_complete_initial_record, open_with_truncate, handle_record_error    *)
(* and verify_trailing_zeros, on the images a crash may leave of a file:   *)
(* a front part of what was written, then zeros up to some length.         *)
(*                                                                         *)
(* The WAL frames and checksums the checkpoint.  An action is encoded by   *)
(* the application: here, like the actions of the repository's tests, a    *)
(* type id, a length and that many bytes, with a checksum or without one.  *)
(* A u32 is two bytes, the higher first.  The checksum is an ideal one: it *)
(* tells any two byte strings apart and is never zero.                     *)
(***************************************************************************)
EXTENDS Integers, SequencesExt, FiniteSetsExt

CONSTANTS
    Payloads,       \* what an action or a checkpoint may hold
    ActionTypes,    \* type ids the application may use
    MaxWritten,     \* bound: records written to the chunk
    Block           \* READ_CHUNK_SIZE of verify_trailing_zeros

(* CHECKPOINT_RECORD_TYPE; encode rejects an action with this type id.     *)
CheckpointType == 5
Base == 8

ASSUME ScanAssumption ==
    /\ Payloads \subseteq Seq(0..(Base - 1))
    /\ ActionTypes \subseteq 0..(CheckpointType - 1)
    /\ MaxWritten \in Nat \ {0} /\ Block \in Nat \ {0}

VARIABLES
    written,    \* the records written to the chunk
    codec,      \* the application's codec: type id, and whether it checksums
    image,      \* the file as the crash left it
    file,       \* the file now
    config,     \* truncate_incomplete_record, and is it the last chunk
    pc,         \* where recovery is
    offsets,    \* record_offsets of open_with_truncate
    records,    \* records read so far
    zoff,       \* start_offset of verify_trailing_zeros
    scans       \* how often the chunk was opened

input == <<written, codec, image>>
vars == <<input, file, config, pc, offsets, records, zoff, scans>>

-----------------------------------------------------------------------------
U32(n) == <<n \div Base, n % Base>>
Value(s) == s[1] * Base + s[2]
Checksum(s) == LET h == FoldLeft(LAMBDA a, b : a * Base + b, 1, s)
               IN  <<h, h>>

(* Mutant: the checkpoint has no checksum of its own.                      *)
CheckedByCodec(c, type) == c.sum

Checked(c, type) == type = CheckpointType \/ c.sum

(* WALRecord::encode: type id, payload and, for a checkpoint, a checksum   *)
(* of both.                                                                *)
Encode(c, r) ==
    LET body == U32(r.type) \o U32(Len(r.payload)) \o r.payload
    IN  IF Checked(c, r.type) THEN body \o Checksum(body) ELSE body
EncodeAll(c, rs) ==
    FlattenSeq([i \in 1..Len(rs) |-> Encode(c, rs[i])])

(* WALRecord::decode of bytes s: the record and its size, or the kind of   *)
(* the error.                                                              *)
Failure(kind) == [res |-> kind, size |-> 0]
Decode(c, s) ==
    LET type == Value(SubSeq(s, 1, 2))
        n == Value(SubSeq(s, 3, 4))
        body == SubSeq(s, 1, 4 + n)
        size == Len(body) + IF Checked(c, type) THEN 2 ELSE 0
    IN  CASE Len(s) < 2 -> Failure("eof")
          [] Len(s) >= 2 /\ type \notin {c.type, CheckpointType} ->
                Failure("invalid")
          [] OTHER ->
                IF Len(s) < 4 \/ Len(s) < 4 + n \/ Len(s) < size
                THEN Failure("eof")
                ELSE IF /\ Checked(c, type)
                        /\ SubSeq(s, 4 + n + 1, size) /= Checksum(body)
                THEN Failure("invalid")
                ELSE [res |-> "ok", size |-> size,
                      rec |-> [type |-> type, payload |-> SubSeq(s, 5, 4 + n)]]

Rest(s, o) == SubSeq(s, o + 1, Len(s))
AllZero(s) == \A i \in 1..Len(s) : s[i] = 0
Zeros(n) == [i \in 1..n |-> 0]

(* Chunk::read_record of the segment from a to b.                          *)
ReadRecord(a, b) == Decode(codec, SubSeq(file, a + 1, b))

-----------------------------------------------------------------------------
(* A chunk begins with a checkpoint; actions follow.                       *)
History(c, p, q) ==
    <<[type |-> CheckpointType, payload |-> p]>> \o
      [i \in DOMAIN q |-> [type |-> c.type, payload |-> q[i]]]
Histories(c) ==
    UNION {{History(c, p, q) : p \in Payloads, q \in [1..n -> Payloads]} :
           n \in 0..(MaxWritten - 1)}

(* The images a crash may leave of a file with bytes s.                    *)
Images(s) ==
    UNION {{SubSeq(s, 1, k) \o Zeros(n - k) : k \in 0..n} : n \in 0..Len(s)}

Init ==
    /\ codec \in [type : ActionTypes, sum : BOOLEAN]
    /\ written \in Histories(codec)
    /\ image \in Images(EncodeAll(codec, written))
    /\ file = image
    /\ config \in [truncate : BOOLEAN, last : {TRUE}]
    /\ pc = "first" /\ offsets = <<0>> /\ records = <<>> /\ zoff = 0
    /\ scans = 1

(* has_complete_initial_record: the file of the last chunk is kept if its  *)
(* first record decodes, removed if it is empty or short, and looked at    *)
(* for zeros otherwise.                                                    *)
FirstRecord ==
    /\ pc = "first"
    /\ pc' = CASE Decode(codec, file).res = "ok" -> "next"
                [] Decode(codec, file).res = "eof" -> "removed"
                [] OTHER -> "first_zeros"
    /\ zoff' = 0
    /\ UNCHANGED <<input, file, config, offsets, records, scans>>

-----------------------------------------------------------------------------
(* The loop of open_with_truncate.                                         *)
End == Last(offsets)
Item == Decode(codec, Rest(file, End))
CanTruncate == config.truncate /\ config.last

(* RecordIterator::next returns None.                                      *)
EndOfFile ==
    /\ pc = "next" /\ End = Len(file)
    /\ pc' = "done"
    /\ UNCHANGED <<input, file, config, offsets, records, zoff, scans>>

(* RecordIterator::next returns a record and its segment.                  *)
NextRecord ==
    /\ pc = "next" /\ End /= Len(file) /\ Item.res = "ok"
    /\ offsets' = Append(offsets, End + Item.size)
    /\ records' = Append(records, Item.rec)
    /\ UNCHANGED <<input, file, config, pc, zoff, scans>>

(* handle_record_error of UnexpectedEof, and of any other error.           *)
IncompleteRecord ==
    /\ pc = "next" /\ End /= Len(file) /\ Item.res = "eof"
    /\ pc' = IF CanTruncate THEN "truncate" ELSE "refused"
    /\ UNCHANGED <<input, file, config, offsets, records, zoff, scans>>

InvalidRecord ==
    /\ pc = "next" /\ End /= Len(file) /\ Item.res = "invalid"
    /\ pc' = "zeros" /\ zoff' = End
    /\ UNCHANGED <<input, file, config, offsets, records, scans>>

(* What follows from the answer of verify_trailing_zeros.                  *)
Verdict(allZero) ==
    pc' = CASE pc = "first_zeros" /\ allZero -> "removed"
            [] pc = "zeros" /\ allZero /\ CanTruncate -> "truncate"
            [] OTHER -> "refused"

BlockAt(o) == SubSeq(file, o + 1, Min({o + Block, Len(file)}))

(* Mutant: start_offset is not advanced.                                   *)
ZeroBlockAgain ==
    /\ pc \in {"first_zeros", "zeros"}
    /\ BlockAt(zoff) /= <<>> /\ AllZero(BlockAt(zoff))
    /\ UNCHANGED vars

(* verify_trailing_zeros: one more block of zeros ...                      *)
ZeroBlock ==
    /\ pc \in {"first_zeros", "zeros"}
    /\ BlockAt(zoff) /= <<>> /\ AllZero(BlockAt(zoff))
    /\ zoff' = zoff + Len(BlockAt(zoff))
    /\ UNCHANGED <<input, file, config, pc, offsets, records, scans>>

(* ... the end of the file, or a byte that is not zero.                    *)
ZerosEnd ==
    /\ pc \in {"first_zeros", "zeros"}
    /\ BlockAt(zoff) = <<>> \/ ~AllZero(BlockAt(zoff))
    /\ Verdict(BlockAt(zoff) = <<>>)
    /\ UNCHANGED <<input, file, config, offsets, records, zoff, scans>>

(* Mutant: one byte of the torn record is kept.                            *)
TruncateOneByteLate ==
    /\ pc = "truncate"
    /\ file' = SubSeq(file, 1, End + 1)
    /\ pc' = "done"
    /\ UNCHANGED <<input, config, offsets, records, zoff, scans>>

(* set_len to the end of the last whole record.                            *)
Truncate ==
    /\ pc = "truncate"
    /\ file' = SubSeq(file, 1, End)
    /\ pc' = "done"
    /\ UNCHANGED <<input, config, offsets, records, zoff, scans>>

(* The chunk is read again at the next open.  A chunk that was truncated   *)
(* got a successor (reopen_last_closed), so it is not the last any more.   *)
Reopen ==
    /\ pc = "done" /\ scans = 1
    /\ config' = [config EXCEPT !.last = (file = image)]
    /\ pc' = IF config'.last THEN "first" ELSE "next"
    /\ offsets' = <<0>> /\ records' = <<>> /\ scans' = 2
    /\ UNCHANGED <<input, file, zoff>>

ReadStep ==
    \/ FirstRecord \/ EndOfFile \/ NextRecord \/ IncompleteRecord
    \/ InvalidRecord \/ ZeroBlock \/ ZerosEnd \/ Truncate

(* The chunk was read twice, or open removed or refused it.                *)
Ended ==
    /\ pc \in {"removed", "refused"} \/ (pc = "done" /\ scans = 2)
    /\ UNCHANGED vars

Next == ReadStep \/ Reopen \/ Ended

(* Reading is sequential code that runs to its end.                        *)
Spec == Init /\ [][Next]_vars /\ WF_vars(ReadStep)

-----------------------------------------------------------------------------
(* How many of the written records the image holds whole, and what it      *)
(* holds after them, by the names WalDisk gives to what a power loss       *)
(* leaves.                                                                 *)
Whole ==
    Max({n \in 0..Len(written) :
           IsPrefix(EncodeAll(codec, SubSeq(written, 1, n)), image)})
Remainder == Rest(image, Len(EncodeAll(codec, SubSeq(written, 1, Whole))))
TornTail ==
    CASE Remainder = <<>> -> "none"
      [] Whole < Len(written)
           /\ IsPrefix(Remainder, Encode(codec, written[Whole + 1])) -> "short"
      [] AllZero(Remainder) -> "zero"
      [] OTHER -> "mixed"

(* The codec tells the damage from a record: it has a checksum, or nothing *)
(* follows the intact bytes, or the zeros begin where a type id is read    *)
(* and zero is none of the application's, or they hit the checkpoint.      *)
Recognisable ==
    \/ codec.sum \/ TornTail \in {"none", "short"}
    \/ codec.type /= 0 /\ (TornTail = "zero" \/ Whole = 0)

(* A chunk that is opened gives back exactly the records that were written *)
(* whole: none is invented out of the zeros after them, none is lost, each *)
(* offset is the sum of the sizes before it, and read_record finds each    *)
(* record at its segment.                                                  *)
ScanExact ==
    pc = "done" /\ Recognisable =>
        /\ records = SubSeq(written, 1, Whole)
        /\ file = EncodeAll(codec, records)
        /\ Len(offsets) = Whole + 1
        /\ \A i \in 1..Whole :
              /\ offsets[i + 1] = offsets[i] + Len(Encode(codec, written[i]))
              /\ ReadRecord(offsets[i], offsets[i + 1]).rec = written[i]

(* Recovery gives up a file only if nothing in it was written whole, and   *)
(* refuses one only if truncation is off or zeros replaced a part of a     *)
(* record: the tails "short" and "zero" of WalDisk are always cut off, and *)
(* a chunk that was cut once is never refused later.                       *)
TornTailAccepted ==
    Recognisable =>
        /\ pc = "removed" => Whole = 0
        /\ pc = "refused" =>
              TornTail = "mixed" \/ (TornTail /= "none" /\ ~config.truncate)
        /\ pc = "refused" => scans = 1

(* Reading a chunk ends, whatever its bytes: no step of the record loop or *)
(* of the zero check stays at its offset.                                  *)
ScanEnds ==
    pc \in {"first", "next", "first_zeros", "zeros", "truncate"} ~>
        pc \in {"done", "removed", "refused"}
=============================================================================
