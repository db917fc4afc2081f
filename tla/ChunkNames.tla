----------------------------- MODULE ChunkNames -----------------------------
(***************************************************************************)
(* The names of chunk files: Config::chunk_file_name and                   *)
(* Config::parse_chunk_file_name, for numbers of Width digits (20 in the   *)
(* code) in groups of Group digits (3 in the code).                        *)
(*                                                                         *)
(* A name is what stands before, in and after the number: "r-", the digits *)
(* with an underscore between groups, and ".wal".  A character of the      *)
(* number is a digit, Underscore or Other.                                 *)
(***************************************************************************)
EXTENDS Integers, SequencesExt

CONSTANTS
    Base,       \* 10 in the code
    Width,      \* digits of the largest u64
    Group,      \* digits between two underscores
    MaxNum      \* u64::MAX

ASSUME NamesAssumption ==
    /\ Base \in Nat \ {0, 1} /\ Width \in Nat \ {0} /\ Group \in Nat \ {0}
    /\ MaxNum \in 0..(Base ^ Width - 1)

Underscore == -1
Other == -2
Invalid == -1

(* format_grouped: the digits padded with zeros, and an underscore before  *)
(* each digit that has a multiple of Group digits from it to the end.      *)
Digit(n, i) == (n \div Base ^ (Width - i)) % Base
FormatGrouped(n) ==
    FlattenSeq([i \in 1..Width |->
        IF i > 1 /\ (Width - (i - 1)) % Group = 0
        THEN <<Underscore, Digit(n, i)>> ELSE <<Digit(n, i)>>])

ChunkFileName(n) == [prefix |-> "r-", body |-> FormatGrouped(n),
                     suffix |-> ".wal"]

(* 26 in the code.                                                         *)
BodyLen == Width + (Width - 1) \div Group

(* parse_chunk_file_name: prefix, suffix and length are required, then     *)
(* whatever is no digit is skipped.                                        *)
ParseChunkFileName(name) ==
    LET digits == SelectSeq(name.body, LAMBDA c : c >= 0)
        value == FoldLeft(LAMBDA a, d : a * Base + d, 0, digits)
    IN  IF /\ name.suffix = ".wal" /\ name.prefix = "r-"
           /\ Len(name.body) = BodyLen
           /\ digits /= <<>> /\ value \in 0..MaxNum
        THEN value ELSE Invalid

(* A name written for a chunk reads back as its id (the tests of           *)
(* config.rs go there and back).  A fact about powers, which the provers   *)
(* know no rule of; TLC evaluates it for the numbers of a run.             *)
ASSUME NamesRoundTrip ==
    \A n \in 0..MaxNum : ParseChunkFileName(ChunkFileName(n)) = n

(* A name the WAL did not write, but reads as one of its own.              *)
Misspelt(name) ==
    /\ ParseChunkFileName(name) /= Invalid
    /\ name /= ChunkFileName(ParseChunkFileName(name))
=============================================================================
