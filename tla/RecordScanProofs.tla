-------------------------- MODULE RecordScanProofs --------------------------
(***************************************************************************)
(* What is read of a chunk file, for every payload, codec, number of       *)
(* records and block size, and every image a crash may leave: exactly the  *)
(* records written whole, as far as the codec tells damage from a record.  *)
(*                                                                         *)
(* First what the folds compute: a checksum ends in a byte that is not     *)
(* zero, and the encodings of the records follow each other.  Then what    *)
(* decode makes of a record that is whole, cut off, or followed by zeros:  *)
(* wherever the zeros begin, a checksum that is read from them is wrong.   *)
(* The invariant ScanInv says how far the loop of open_with_truncate has   *)
(* come, and what the zero check has seen.                                 *)
(***************************************************************************)
EXTENDS RecordScan, TLAPS, SequenceTheorems, WellFoundedInduction

Bytes == Seq(Nat)
Codec == [type : ActionTypes, sum : BOOLEAN]
Records(c) == [type : {c.type, CheckpointType}, payload : Seq(0..(Base - 1))]

(* Bytes t are in s after o bytes.                                         *)
At(s, o, t) == o + Len(t) <= Len(s) /\ \A i \in 1..Len(t) : s[o + i] = t[i]

-----------------------------------------------------------------------------
(* Induction.                                                              *)
LEMMA LessIsRelated ==
    \A x, y \in Nat : x < y => <<x, y>> \in OpToRel(<, Nat)
BY Zenon DEF OpToRel

(* Induction over the naturals, for the members of a set.                  *)
LEMMA NatSetInduction ==
    ASSUME NEW S, 0 \in S, \A n \in Nat : n \in S => n + 1 \in S
    PROVE  Nat \subseteq S
<1> DEFINE T == Nat \ S
<1> SUFFICES ASSUME T /= {} PROVE FALSE
    OBVIOUS
<1>1. PICK m \in T : \A k \in T : <<k, m>> \notin OpToRel(<, Nat)
  <2>1. T \subseteq Nat
        OBVIOUS
  <2> HIDE DEF T
  <2> QED BY <2>1, NatLessThanWellFounded, WFMin, Zenon
<1>2. \A k \in T : ~(k < m)
      BY <1>1, LessIsRelated
<1>3. m \in Nat /\ m /= 0
      OBVIOUS
<1>4. m - 1 \in Nat /\ m - 1 < m /\ (m - 1) + 1 = m
      BY <1>3
<1>5. m - 1 \in S
      BY <1>2, <1>4
<1> QED BY <1>4, <1>5

(* A bounded set of naturals has a maximum.                                *)
LEMMA MaxFacts ==
    ASSUME NEW n \in Nat, NEW T, T \subseteq 0..n, T /= {}
    PROVE  Max(T) \in T /\ \A y \in T : Max(T) >= y
<1> DEFINE S == {k \in Nat : \A U \in SUBSET (0..k) : U /= {} =>
                     \E x \in U : \A y \in U : x >= y}
<1>1. 0 \in S
  <2> SUFFICES ASSUME NEW U \in SUBSET (0..0), U /= {}
               PROVE  \E x \in U : \A y \in U : x >= y
      OBVIOUS
  <2>1. 0..0 = {0}
        OBVIOUS
  <2>2. U = {0}
        BY <2>1
  <2> QED BY <2>2
<1>2. ASSUME NEW k \in Nat, k \in S PROVE k + 1 \in S
  <2> SUFFICES ASSUME NEW U \in SUBSET (0..(k + 1)), U /= {}
               PROVE  \E x \in U : \A y \in U : x >= y
      OBVIOUS
  <2>1. CASE k + 1 \in U
    <3>1. \A y \in U : k + 1 >= y
          OBVIOUS
    <3> QED BY <2>1, <3>1
  <2>2. CASE k + 1 \notin U
    <3>1. U \in SUBSET (0..k)
          BY <2>2
    <3> QED BY <1>2, <3>1
  <2> QED BY <2>1, <2>2
<1>3. n \in S
  <2> HIDE DEF S
  <2> QED BY <1>1, <1>2, NatSetInduction
<1>4. \E x \in T : \A y \in T : x >= y
      BY <1>3
<1> QED BY <1>4 DEF Max

-----------------------------------------------------------------------------
(* The checksum.  FoldLeft is a recursive function on sets of positions;   *)
(* that there is one, and that it has no zeros, takes an induction each.   *)
Hashes(g, s) ==
    g = [t \in SUBSET DOMAIN s |->
            IF t = {} THEN 1 ELSE g[t \ {Max(t)}] * Base + s[Max(t)]]

LEMMA ChecksumIsAHash ==
    ASSUME NEW s
    PROVE  Checksum(s) = <<(CHOOSE g : Hashes(g, s))[DOMAIN s],
                           (CHOOSE g : Hashes(g, s))[DOMAIN s]>>
BY Zenon DEF Checksum, FoldLeft, MapThenFoldSet, Hashes

(* The same function on the positions up to n.                             *)
HashesTo(g, s, n) ==
    g = [t \in SUBSET (1..n) |->
            IF t = {} THEN 1 ELSE g[t \ {Max(t)}] * Base + s[Max(t)]]

LEMMA HashExists ==
    ASSUME NEW s \in Bytes
    PROVE  \E g : Hashes(g, s)
<1> DEFINE S == {n \in Nat : n <= Len(s) => \E g : HashesTo(g, s, n)}
<1>1. 0 \in S
  <2> DEFINE g == [t \in SUBSET (1..0) |-> 1]
  <2>1. \A t \in SUBSET (1..0) : t = {}
        OBVIOUS
  <2>2. HashesTo(g, s, 0)
        BY <2>1 DEF HashesTo
  <2> QED BY <2>2
<1>2. ASSUME NEW n \in Nat, n \in S PROVE n + 1 \in S
  <2> SUFFICES ASSUME n + 1 <= Len(s) PROVE \E h : HashesTo(h, s, n + 1)
      OBVIOUS
  <2>1. PICK g : HashesTo(g, s, n)
    <3>1. Len(s) \in Nat
          BY DEF Bytes
    <3> QED BY <1>2, <3>1
  <2> DEFINE F(t) == IF t = {} THEN 1
                     ELSE g[t \ {Max(t)}] * Base + s[Max(t)]
             h == [t \in SUBSET (1..(n + 1)) |->
                     IF t \in SUBSET (1..n) THEN g[t] ELSE F(t)]
  <2>2. ASSUME NEW t \in SUBSET (1..(n + 1)), t /= {}
        PROVE  t \ {Max(t)} \in SUBSET (1..n)
    <3>1. t \subseteq 0..(n + 1) /\ n + 1 \in Nat
          OBVIOUS
    <3>2. Max(t) \in t /\ \A y \in t : Max(t) >= y
          BY <2>2, <3>1, MaxFacts
    <3> DEFINE m == Max(t)
    <3>3. m \in t /\ \A y \in t : m >= y
          BY <3>2
    <3> HIDE DEF m
    <3>4. \A y \in t \ {m} : y \in 1..n
          BY <3>3
    <3> QED BY <3>4 DEF m
  <2>3. \A t \in SUBSET (1..n) : g[t] = F(t)
    <3>1. g = [t \in SUBSET (1..n) |-> F(t)]
          BY <2>1, Zenon DEF HashesTo
    <3> HIDE DEF F
    <3> QED BY <3>1, Zenon
  <2>4. ASSUME NEW t \in SUBSET (1..(n + 1)) PROVE h[t] = F(t)
    <3> HIDE DEF F
    <3> QED BY <2>3, <2>4
  <2>5. ASSUME NEW t \in SUBSET (1..(n + 1)), t /= {}
        PROVE  h[t \ {Max(t)}] = g[t \ {Max(t)}]
    <3>1. t \ {Max(t)} \in SUBSET (1..n)
          BY <2>2, <2>5
    <3>2. t \ {Max(t)} \in SUBSET (1..(n + 1))
          OBVIOUS
    <3> HIDE DEF F
    <3> QED BY <3>1, <3>2, Zenon
  <2>6. h = [t \in SUBSET (1..(n + 1)) |->
                IF t = {} THEN 1 ELSE h[t \ {Max(t)}] * Base + s[Max(t)]]
    <3>1. \A t \in SUBSET (1..(n + 1)) :
              h[t] = IF t = {} THEN 1
                     ELSE h[t \ {Max(t)}] * Base + s[Max(t)]
      <4> HIDE DEF h
      <4> QED BY <2>4, <2>5, Zenon
    <3>2. h = [t \in SUBSET (1..(n + 1)) |-> h[t]]
      <4> HIDE DEF F
      <4> QED OBVIOUS
    <3> HIDE DEF h
    <3> QED BY <3>1, <3>2, Zenon
  <2> HIDE DEF h
  <2>7. HashesTo(h, s, n + 1)
        BY <2>6, Zenon DEF HashesTo
  <2> QED BY <2>7
<1>3. Len(s) \in S
  <2>1. Nat \subseteq S
    <3> HIDE DEF S
    <3> QED BY <1>1, <1>2, NatSetInduction
  <2>2. Len(s) \in Nat
        BY DEF Bytes
  <2> QED BY <2>1, <2>2
<1>4. DOMAIN s = 1..Len(s) /\ Len(s) <= Len(s)
      BY DEF Bytes
<1> QED BY <1>3, <1>4 DEF HashesTo, Hashes

LEMMA ChecksumFacts ==
    ASSUME NEW s \in Bytes
    PROVE  \E h \in Nat \ {0} : Checksum(s) = <<h, h>>
<1> DEFINE g == CHOOSE f : Hashes(f, s)
           S == {n \in Nat : n <= Len(s) => g[1..n] \in Nat \ {0}}
<1>1. Hashes(g, s)
      BY HashExists, Zenon
<1> HIDE DEF g
<1>2. /\ Len(s) \in Nat /\ DOMAIN s = 1..Len(s)
      /\ \A i \in 1..Len(s) : s[i] \in Nat
      BY DEF Bytes
<1>3. \A t \in SUBSET (1..Len(s)) :
          g[t] = IF t = {} THEN 1 ELSE g[t \ {Max(t)}] * Base + s[Max(t)]
      BY <1>1, <1>2, Zenon DEF Hashes
<1>4. 0 \in S
  <2>1. 1..0 = {}
        OBVIOUS
  <2>2. g[{}] = 1
        BY <1>3
  <2>3. g[1..0] = 1
        BY <2>1, <2>2
  <2> QED BY <2>3
<1>5. ASSUME NEW n \in Nat, n \in S PROVE n + 1 \in S
  <2> SUFFICES ASSUME n + 1 <= Len(s) PROVE g[1..(n + 1)] \in Nat \ {0}
      OBVIOUS
  <2> DEFINE t == 1..(n + 1)
  <2>1. /\ t \in SUBSET (1..Len(s)) /\ t /= {} /\ t \subseteq 0..(n + 1)
        /\ n + 1 \in Nat
    <3>1. n + 1 \in t
          OBVIOUS
    <3>2. t \subseteq 1..Len(s)
          BY <1>2
    <3>3. t \subseteq 0..(n + 1) /\ n + 1 \in Nat
          OBVIOUS
    <3> HIDE DEF t
    <3> QED BY <3>1, <3>2, <3>3
  <2>2. Max(t) = n + 1
    <3>1. Max(t) \in t /\ \A y \in t : Max(t) >= y
      <4> HIDE DEF t
      <4> QED BY <2>1, MaxFacts
    <3> QED BY <3>1
  <2>3. t \ {Max(t)} = 1..n
        BY <2>2
  <2>4. g[t] = g[1..n] * Base + s[n + 1]
    <3> HIDE DEF t
    <3> QED BY <1>3, <2>1, <2>2, <2>3
  <2>5. g[1..n] \in Nat \ {0} /\ s[n + 1] \in Nat
        BY <1>2, <1>5
  <2> QED BY <2>4, <2>5 DEF Base
<1>6. Len(s) \in S
  <2>1. Nat \subseteq S
    <3> HIDE DEF S
    <3> QED BY <1>4, <1>5, NatSetInduction
  <2> QED BY <1>2, <2>1
<1>7. g[DOMAIN s] \in Nat \ {0}
      BY <1>2, <1>6
<1> QED BY <1>7, ChecksumIsAHash DEF g

-----------------------------------------------------------------------------
(* The encodings of the records follow each other.                         *)
Flattens(g, s) ==
    g = [i \in 1..Len(s) |-> IF i = 1 THEN s[i] ELSE g[i - 1] \o s[i]]
FlattensTo(g, s, n) ==
    g = [i \in 1..n |-> IF i = 1 THEN s[i] ELSE g[i - 1] \o s[i]]

LEMMA FlattenIsAFlattening ==
    ASSUME NEW s, Len(s) /= 0
    PROVE  FlattenSeq(s) = (CHOOSE g : Flattens(g, s))[Len(s)]
BY Zenon DEF FlattenSeq, Flattens

LEMMA FlatteningExists ==
    ASSUME NEW s \in Seq(Bytes)
    PROVE  \E g : Flattens(g, s)
<1> DEFINE S == {n \in Nat : \E g : FlattensTo(g, s, n)}
<1>1. 0 \in S
  <2> DEFINE g == [i \in 1..0 |-> <<>>]
  <2>1. g = [i \in 1..0 |-> IF i = 1 THEN s[i] ELSE g[i - 1] \o s[i]]
    <3>1. \A i \in 1..0 : FALSE
          OBVIOUS
    <3> QED BY <3>1, Zenon
  <2> QED BY <2>1 DEF FlattensTo
<1>2. ASSUME NEW n \in Nat, n \in S PROVE n + 1 \in S
  <2> SUFFICES \E h : FlattensTo(h, s, n + 1)
      OBVIOUS
  <2>1. PICK g : FlattensTo(g, s, n)
        BY <1>2
  <2> DEFINE F(i) == IF i = 1 THEN s[i] ELSE g[i - 1] \o s[i]
             h == [i \in 1..(n + 1) |-> IF i \in 1..n THEN g[i] ELSE F(i)]
  <2>2. \A i \in 1..n : g[i] = F(i)
    <3>1. g = [i \in 1..n |-> F(i)]
          BY <2>1, Zenon DEF FlattensTo
    <3> HIDE DEF F
    <3> QED BY <3>1, Zenon
  <2>3. ASSUME NEW i \in 1..(n + 1) PROVE h[i] = F(i)
    <3> HIDE DEF F
    <3> QED BY <2>2
  <2>4. ASSUME NEW i \in 1..(n + 1), i /= 1 PROVE h[i - 1] = g[i - 1]
    <3>1. i - 1 \in 1..n /\ i - 1 \in 1..(n + 1)
          BY <2>4
    <3> HIDE DEF F
    <3> QED BY <3>1, Zenon
  <2>5. \A i \in 1..(n + 1) :
            h[i] = IF i = 1 THEN s[i] ELSE h[i - 1] \o s[i]
    <3> SUFFICES ASSUME NEW i \in 1..(n + 1)
                 PROVE  h[i] = IF i = 1 THEN s[i] ELSE h[i - 1] \o s[i]
        OBVIOUS
    <3>1. h[i] = F(i)
          BY <2>3
    <3>2. i /= 1 => h[i - 1] = g[i - 1]
          BY <2>4
    <3> HIDE DEF h
    <3>3. CASE i = 1
          BY <3>1, <3>3, Zenon
    <3>4. CASE i /= 1
      <4>1. h[i] = g[i - 1] \o s[i]
            BY <3>1, <3>4, Zenon
      <4> QED BY <3>2, <3>4, <4>1, Zenon
    <3> QED BY <3>3, <3>4, Zenon
  <2>6. h = [i \in 1..(n + 1) |-> h[i]]
    <3> HIDE DEF F
    <3> QED OBVIOUS
  <2> HIDE DEF h
  <2>7. FlattensTo(h, s, n + 1)
        BY <2>5, <2>6, Zenon DEF FlattensTo
  <2> QED BY <2>7
<1>3. Nat \subseteq S
  <2> HIDE DEF S
  <2> QED BY <1>1, <1>2, NatSetInduction
<1>4. Len(s) \in S
  <2>1. Len(s) \in Nat
        OBVIOUS
  <2> HIDE DEF S
  <2> QED BY <1>3, <2>1
<1> QED BY <1>4 DEF FlattensTo, Flattens

LEMMA FlatteningsAgree ==
    ASSUME NEW s, NEW t, NEW g, NEW h, Flattens(g, s), Flattens(h, t),
           Len(s) \in Nat, Len(t) \in Nat, Len(s) <= Len(t),
           \A i \in 1..Len(s) : s[i] = t[i]
    PROVE  \A i \in 1..Len(s) : g[i] = h[i]
<1> DEFINE S == {n \in Nat : n \in 1..Len(s) => g[n] = h[n]}
<1>1. \A i \in 1..Len(s) : g[i] = IF i = 1 THEN s[i] ELSE g[i - 1] \o s[i]
      BY Zenon DEF Flattens
<1>2. \A i \in 1..Len(t) : h[i] = IF i = 1 THEN t[i] ELSE h[i - 1] \o t[i]
      BY Zenon DEF Flattens
<1>3. 0 \in S
      OBVIOUS
<1>4. ASSUME NEW n \in Nat, n \in S PROVE n + 1 \in S
  <2> SUFFICES ASSUME n + 1 \in 1..Len(s) PROVE g[n + 1] = h[n + 1]
      OBVIOUS
  <2>1. n + 1 \in 1..Len(t) /\ (n + 1) - 1 = n
        OBVIOUS
  <2>2. CASE n = 0
    <3>1. n + 1 = 1
          BY <2>2
    <3>2. g[n + 1] = s[n + 1] /\ h[n + 1] = t[n + 1]
          BY <1>1, <1>2, <2>1, <3>1, Zenon
    <3> QED BY <3>2
  <2>3. CASE n /= 0
    <3>1. n + 1 /= 1 /\ n \in 1..Len(s)
          BY <2>3
    <3>2. /\ g[n + 1] = g[n] \o s[n + 1] /\ h[n + 1] = h[n] \o t[n + 1]
          BY <1>1, <1>2, <2>1, <3>1, Zenon
    <3>3. g[n] = h[n]
          BY <1>4, <3>1
    <3>4. s[n + 1] = t[n + 1]
          OBVIOUS
    <3> QED BY <3>2, <3>3, <3>4, Zenon
  <2> QED BY <2>2, <2>3
<1>5. Nat \subseteq S
  <2> HIDE DEF S
  <2> QED BY <1>3, <1>4, NatSetInduction
<1> QED BY <1>5

LEMMA FlattenAppend ==
    ASSUME NEW s \in Seq(Bytes), NEW t \in Seq(Bytes),
           Len(t) = Len(s) + 1, \A i \in 1..Len(s) : s[i] = t[i],
           FlattenSeq(s) \in Bytes
    PROVE  FlattenSeq(t) = FlattenSeq(s) \o t[Len(t)]
<1> DEFINE g == CHOOSE f : Flattens(f, s)
           h == CHOOSE f : Flattens(f, t)
<1>1. Flattens(g, s) /\ Flattens(h, t)
      BY FlatteningExists, Zenon
<1> HIDE DEF g, h
<1>2. Len(s) \in Nat /\ Len(t) \in Nat /\ Len(t) /= 0
      OBVIOUS
<1>3. FlattenSeq(t) = h[Len(t)]
      BY <1>2, FlattenIsAFlattening, Zenon DEF h
<1>4. \A i \in 1..Len(t) : h[i] = IF i = 1 THEN t[i] ELSE h[i - 1] \o t[i]
      BY <1>1, Zenon DEF Flattens
<1>5. Len(t) \in 1..Len(t) /\ Len(t) - 1 = Len(s)
      OBVIOUS
<1>6. CASE Len(s) = 0
  <2>1. Len(t) = 1
        BY <1>6
  <2>2. h[Len(t)] = t[Len(t)]
        BY <1>4, <1>5, <2>1, Zenon
  <2>3. FlattenSeq(s) = s
        BY <1>6, Zenon DEF FlattenSeq
  <2>4. s = <<>> /\ t[Len(t)] \in Seq(Nat)
    <3>1. s = <<>>
          BY <1>6
    <3>2. t[Len(t)] \in Bytes
          BY <1>5
    <3> QED BY <3>1, <3>2, Zenon DEF Bytes
  <2>5. \A b \in Seq(Nat) : <<>> \o b = b
        OBVIOUS
  <2> QED BY <1>3, <2>2, <2>3, <2>4, <2>5
<1>7. CASE Len(s) /= 0
  <2>1. Len(t) /= 1
        BY <1>2, <1>7
  <2>2. h[Len(t)] = h[Len(s)] \o t[Len(t)]
        BY <1>4, <1>5, <2>1, Zenon
  <2>3. FlattenSeq(s) = g[Len(s)]
        BY <1>7, FlattenIsAFlattening, Zenon DEF g
  <2>4. g[Len(s)] = h[Len(s)]
    <3>1. \A i \in 1..Len(s) : g[i] = h[i]
          BY <1>1, <1>2, FlatteningsAgree
    <3> QED BY <1>2, <1>7, <3>1
  <2> QED BY <1>3, <2>2, <2>3, <2>4, Zenon
<1> QED BY <1>6, <1>7

-----------------------------------------------------------------------------
(* What encode writes, byte by byte.                                       *)
Body(r) == U32(r.type) \o U32(Len(r.payload)) \o r.payload
Trailer(c, type) == IF Checked(c, type) THEN 2 ELSE 0
Size(c, r) == 4 + Len(r.payload) + Trailer(c, r.type)

LEMMA CodecFacts ==
    ASSUME NEW c \in Codec, NEW r \in Records(c)
    PROVE  /\ c.type \in 0..4 /\ c.sum \in BOOLEAN
           /\ r.type \in 0..5 /\ r.type \in {c.type, CheckpointType}
           /\ r.payload \in Seq(0..7) /\ Len(r.payload) \in Nat
           /\ Trailer(c, r.type) \in {0, 2}
<1>1. c.type \in ActionTypes /\ c.sum \in BOOLEAN
      BY DEF Codec
<1>2. c.type \in 0..4
  <2>1. ActionTypes \subseteq 0..(5 - 1)
        BY ScanAssumption DEF ScanAssumption, CheckpointType
  <2>2. 5 - 1 = 4
        OBVIOUS
  <2> QED BY <1>1, <2>1, <2>2, Zenon
<1>3. /\ r.type \in {c.type, CheckpointType}
      /\ r.payload \in Seq(0..7)
      BY DEF Records, Base
<1>4. Len(r.payload) \in Nat
      BY <1>3
<1>5. r.type \in 0..5
      BY <1>2, <1>3 DEF CheckpointType
<1>6. Trailer(c, r.type) \in {0, 2}
      BY DEF Trailer
<1> QED BY <1>1, <1>2, <1>3, <1>4, <1>5, <1>6

(* Two facts about numbers and sequences the rest is put together from.    *)
LEMMA U32Facts ==
    ASSUME NEW n \in Nat
    PROVE  /\ U32(n) \in Seq(Nat) /\ Len(U32(n)) = 2
           /\ U32(n)[1] * 8 + U32(n)[2] = n
           /\ n \in 0..7 => U32(n)[1] = 0 /\ U32(n)[2] = n
<1> DEFINE a == n \div 8
           b == n % 8
<1>1. a \in Nat /\ b \in Nat
      OBVIOUS
<1>2. a * 8 + b = n
      OBVIOUS
<1>3. n \in 0..7 => a = 0 /\ b = n
      OBVIOUS
<1>4. U32(n) = <<a, b>>
      BY DEF U32, Base
<1> HIDE DEF a, b
<1>5. <<a, b>> \in Seq(Nat) /\ Len(<<a, b>>) = 2
      BY <1>1
<1>6. <<a, b>>[1] = a /\ <<a, b>>[2] = b
      OBVIOUS
<1> QED BY <1>2, <1>3, <1>4, <1>5, <1>6

LEMMA ConcatFacts ==
    ASSUME NEW a \in Seq(Nat), NEW b \in Seq(Nat)
    PROVE  /\ a \o b \in Seq(Nat) /\ Len(a \o b) = Len(a) + Len(b)
           /\ Len(a) \in Nat /\ Len(b) \in Nat
           /\ \A i \in 1..Len(a) : (a \o b)[i] = a[i]
           /\ \A i \in 1..Len(b) : (a \o b)[Len(a) + i] = b[i]
OBVIOUS

LEMMA BodyFacts ==
    ASSUME NEW c \in Codec, NEW r \in Records(c)
    PROVE  /\ Body(r) \in Bytes /\ Len(Body(r)) = 4 + Len(r.payload)
           /\ Body(r)[1] = 0 /\ Body(r)[2] = r.type
           /\ Body(r)[3] * 8 + Body(r)[4] = Len(r.payload)
           /\ \A i \in 1..Len(r.payload) : Body(r)[4 + i] = r.payload[i]
<1> DEFINE p == r.payload
           a == U32(r.type)
           b == U32(Len(p))
<1>1. r.type \in 0..5 /\ p \in Seq(0..7) /\ Len(p) \in Nat
      BY CodecFacts
<1>2. /\ a \in Seq(Nat) /\ Len(a) = 2 /\ a[1] = 0 /\ a[2] = r.type
  <2>1. r.type \in Nat /\ r.type \in 0..7
        BY <1>1
  <2> QED BY <2>1, U32Facts
<1>3. b \in Seq(Nat) /\ Len(b) = 2 /\ b[1] * 8 + b[2] = Len(p)
      BY <1>1, U32Facts
<1>4. p \in Seq(Nat)
      BY <1>1
<1>5. Body(r) = (a \o b) \o p
      BY DEF Body
<1> HIDE DEF a, b, p
<1> DEFINE ab == a \o b
<1>6. /\ ab \in Seq(Nat) /\ Len(ab) = 4
      /\ \A i \in 1..2 : ab[i] = a[i]
      /\ \A i \in 1..2 : ab[2 + i] = b[i]
  <2>1. /\ ab \in Seq(Nat) /\ Len(ab) = Len(a) + Len(b)
        /\ \A i \in 1..Len(a) : ab[i] = a[i]
        /\ \A i \in 1..Len(b) : ab[Len(a) + i] = b[i]
        BY <1>2, <1>3, ConcatFacts, Zenon
  <2> HIDE DEF ab
  <2> QED BY <1>2, <1>3, <2>1
<1> HIDE DEF ab
<1>7. /\ ab[1] = 0 /\ ab[2] = r.type /\ ab[3] * 8 + ab[4] = Len(p)
  <2>1. 1 \in 1..2 /\ 2 \in 1..2 /\ 2 + 1 = 3 /\ 2 + 2 = 4
        OBVIOUS
  <2>2. ab[1] = a[1] /\ ab[2] = a[2]
        BY <1>6, <2>1
  <2>3. ab[2 + 1] = b[1] /\ ab[2 + 2] = b[2]
        BY <1>6, <2>1, Zenon
  <2>4. ab[3] = b[1] /\ ab[4] = b[2]
        BY <2>1, <2>3
  <2> QED BY <1>2, <1>3, <2>2, <2>4
<1>8. /\ ab \o p \in Seq(Nat) /\ Len(ab \o p) = 4 + Len(p)
      /\ \A i \in 1..4 : (ab \o p)[i] = ab[i]
      /\ \A i \in 1..Len(p) : (ab \o p)[4 + i] = p[i]
  <2> DEFINE w == ab \o p
  <2>1. /\ w \in Seq(Nat) /\ Len(w) = Len(ab) + Len(p)
        /\ \A i \in 1..Len(ab) : w[i] = ab[i]
        /\ \A i \in 1..Len(p) : w[Len(ab) + i] = p[i]
        BY <1>4, <1>6, ConcatFacts, Zenon
  <2> HIDE DEF w
  <2>2. /\ w \in Seq(Nat) /\ Len(w) = 4 + Len(p)
        /\ \A i \in 1..4 : w[i] = ab[i]
        /\ \A i \in 1..Len(p) : w[4 + i] = p[i]
        BY <1>6, <2>1
  <2> QED BY <2>2 DEF w
<1> DEFINE w == ab \o p
<1>9. Body(r) = w
      BY <1>5 DEF ab
<1> HIDE DEF w
<1>10. w[1] = 0 /\ w[2] = r.type /\ w[3] * 8 + w[4] = Len(p)
  <2>1. \A i \in 1..4 : w[i] = ab[i]
        BY <1>8 DEF w
  <2>2. w[1] = ab[1] /\ w[2] = ab[2] /\ w[3] = ab[3] /\ w[4] = ab[4]
        BY <2>1
  <2> QED BY <1>7, <2>2
<1> QED BY <1>8, <1>9, <1>10 DEF Bytes, p, w

LEMMA EncodeFacts ==
    ASSUME NEW c \in Codec, NEW r \in Records(c)
    PROVE  /\ Encode(c, r) \in Bytes /\ Len(Encode(c, r)) = Size(c, r)
           /\ \A i \in 1..(4 + Len(r.payload)) : Encode(c, r)[i] = Body(r)[i]
           /\ Checked(c, r.type) =>
                \E h \in Nat \ {0} :
                    /\ Checksum(Body(r)) = <<h, h>>
                    /\ Encode(c, r)[4 + Len(r.payload) + 1] = h
                    /\ Encode(c, r)[4 + Len(r.payload) + 2] = h
<1> DEFINE n == Len(r.payload)
           b == Body(r)
<1>1. n \in Nat /\ b \in Bytes /\ Len(b) = 4 + n
      BY CodecFacts, BodyFacts
<1>2. PICK h \in Nat \ {0} : Checksum(b) = <<h, h>>
      BY <1>1, ChecksumFacts
<1>3. Encode(c, r) = IF Checked(c, r.type) THEN b \o Checksum(b) ELSE b
      BY DEF Encode, Body
<1> HIDE DEF n, b
<1>4. CASE Checked(c, r.type)
  <2>1. Encode(c, r) = b \o <<h, h>>
        BY <1>2, <1>3, <1>4
  <2>2. /\ b \o <<h, h>> \in Seq(Nat) /\ Len(b \o <<h, h>>) = 4 + n + 2
        /\ \A i \in 1..(4 + n) : (b \o <<h, h>>)[i] = b[i]
        /\ (b \o <<h, h>>)[4 + n + 1] = h /\ (b \o <<h, h>>)[4 + n + 2] = h
        BY <1>1 DEF Bytes
  <2>3. Size(c, r) = 4 + n + 2
        BY <1>4 DEF Size, Trailer, n
  <2> QED BY <1>2, <2>1, <2>2, <2>3 DEF Bytes, n, b
<1>5. CASE ~Checked(c, r.type)
  <2>1. Encode(c, r) = b
        BY <1>3, <1>5
  <2>2. Size(c, r) = 4 + n
        BY <1>1, <1>5 DEF Size, Trailer, n
  <2> QED BY <1>1, <1>5, <2>1, <2>2 DEF n, b
<1> QED BY <1>4, <1>5

-----------------------------------------------------------------------------
(* What decode makes of bytes s, by the two numbers at their front.        *)
TypeAt(s) == s[1] * 8 + s[2]
LengthAt(s) == s[3] * 8 + s[4]
SizeAt(c, s) == 4 + LengthAt(s) + Trailer(c, TypeAt(s))

LEMMA HeadFacts ==
    ASSUME NEW s \in Bytes
    PROVE  /\ Len(s) >= 2 => /\ Value(SubSeq(s, 1, 2)) = TypeAt(s)
                             /\ TypeAt(s) \in Nat
           /\ Len(s) >= 4 => /\ Value(SubSeq(s, 3, 4)) = LengthAt(s)
                             /\ LengthAt(s) \in Nat
<1>1. s \in Seq(Nat) /\ Len(s) \in Nat /\ \A i \in 1..Len(s) : s[i] \in Nat
      BY DEF Bytes
<1>2. ASSUME Len(s) >= 2
      PROVE  Value(SubSeq(s, 1, 2)) = TypeAt(s) /\ TypeAt(s) \in Nat
  <2>1. SubSeq(s, 1, 2)[1] = s[1] /\ SubSeq(s, 1, 2)[2] = s[2]
        BY <1>1, <1>2
  <2>2. s[1] \in Nat /\ s[2] \in Nat
        BY <1>1, <1>2
  <2> QED BY <2>1, <2>2 DEF Value, TypeAt, Base
<1>3. ASSUME Len(s) >= 4
      PROVE  Value(SubSeq(s, 3, 4)) = LengthAt(s) /\ LengthAt(s) \in Nat
  <2>1. SubSeq(s, 3, 4)[1] = s[3] /\ SubSeq(s, 3, 4)[2] = s[4]
        BY <1>1, <1>3
  <2>2. s[3] \in Nat /\ s[4] \in Nat
        BY <1>1, <1>3
  <2> QED BY <2>1, <2>2 DEF Value, LengthAt, Base
<1> QED BY <1>2, <1>3

LEMMA DecodeCases ==
    ASSUME NEW c \in Codec, NEW s \in Bytes
    PROVE  /\ Len(s) < 2 => Decode(c, s).res = "eof"
           /\ Len(s) >= 2 /\ TypeAt(s) \notin {c.type, CheckpointType} =>
                Decode(c, s).res = "invalid"
           /\ Len(s) >= 2 /\ TypeAt(s) \in {c.type, CheckpointType} =>
                /\ Len(s) < 4 => Decode(c, s).res = "eof"
                /\ Len(s) >= 4 /\ Len(s) < SizeAt(c, s) =>
                      Decode(c, s).res = "eof"
                /\ Len(s) >= 4 /\ Len(s) >= SizeAt(c, s) =>
                      Decode(c, s) =
                        IF /\ Checked(c, TypeAt(s))
                           /\ SubSeq(s, 4 + LengthAt(s) + 1, SizeAt(c, s)) /=
                                 Checksum(SubSeq(s, 1, 4 + LengthAt(s)))
                        THEN Failure("invalid")
                        ELSE [res |-> "ok", size |-> SizeAt(c, s),
                              rec |-> [type |-> TypeAt(s), payload |->
                                          SubSeq(s, 5, 4 + LengthAt(s))]]
<1> DEFINE type == Value(SubSeq(s, 1, 2))
           n == Value(SubSeq(s, 3, 4))
           body == SubSeq(s, 1, 4 + n)
           size == Len(body) + IF Checked(c, type) THEN 2 ELSE 0
           d == Decode(c, s)
           whole == IF /\ Checked(c, type)
                       /\ SubSeq(s, 4 + n + 1, size) /= Checksum(body)
                    THEN Failure("invalid")
                    ELSE [res |-> "ok", size |-> size,
                          rec |-> [type |-> type,
                                   payload |-> SubSeq(s, 5, 4 + n)]]
           known == type \in {c.type, CheckpointType}
<1>1. d = CASE Len(s) < 2 -> Failure("eof")
            [] Len(s) >= 2 /\ type \notin {c.type, CheckpointType} ->
                  Failure("invalid")
            [] OTHER -> IF Len(s) < 4 \/ Len(s) < 4 + n \/ Len(s) < size
                        THEN Failure("eof") ELSE whole
      BY Zenon DEF Decode
<1>2. Failure("eof").res = "eof" /\ Failure("invalid").res = "invalid"
      BY DEF Failure
<1>3. Len(s) \in Nat /\ s \in Seq(Nat)
      BY DEF Bytes
<1>4. Len(s) >= 2 => type = TypeAt(s)
      BY HeadFacts
<1>5. Len(s) >= 4 => n = LengthAt(s) /\ n \in Nat
      BY HeadFacts
<1>6. n \in Nat => Len(body) = 4 + n
  <2>1. ASSUME NEW k \in Nat PROVE Len(SubSeq(s, 1, 4 + k)) = 4 + k
        BY <1>3
  <2> HIDE DEF n
  <2> QED BY <2>1
<1>7. Len(s) >= 4 => size = SizeAt(c, s)
  <2> SUFFICES ASSUME Len(s) >= 4 PROVE size = SizeAt(c, s)
      OBVIOUS
  <2>1. type = TypeAt(s) /\ n = LengthAt(s) /\ Len(body) = 4 + n
        BY <1>3, <1>4, <1>5, <1>6
  <2> HIDE DEF type, n, body
  <2> QED BY <2>1 DEF SizeAt, Trailer
<1> HIDE DEF d, type, size, n, body, whole
<1>8. Len(s) < 2 => d.res = "eof"
      BY <1>1, <1>2, <1>3
<1>9. Len(s) >= 2 /\ ~known => d.res = "invalid"
      BY <1>1, <1>2, <1>3
<1>10. ASSUME Len(s) >= 2, known
       PROVE  d = IF Len(s) < 4 \/ Len(s) < 4 + n \/ Len(s) < size
                  THEN Failure("eof") ELSE whole
  <2>1. ~(Len(s) < 2)
        BY <1>3, <1>10
  <2> HIDE DEF known
  <2>2. ~(Len(s) >= 2 /\ type \notin {c.type, CheckpointType})
        BY <1>10 DEF known
  <2> QED BY <1>1, <2>1, <2>2, Zenon
<1>11. ASSUME Len(s) >= 4, known
       PROVE  /\ Len(s) < size => d.res = "eof"
              /\ Len(s) >= size => d = whole
  <2>1. d = IF Len(s) < 4 \/ Len(s) < 4 + n \/ Len(s) < size
            THEN Failure("eof") ELSE whole
        BY <1>3, <1>10, <1>11
  <2>2. size \in Nat /\ size >= 4 + n /\ n \in Nat
    <3>1. n \in Nat /\ Len(body) = 4 + n
          BY <1>5, <1>6, <1>11
    <3> QED BY <3>1 DEF size
  <2>3. Len(s) < size => d = Failure("eof")
        BY <2>1, Zenon
  <2>4. Len(s) >= size => d = whole
        BY <1>3, <1>11, <2>1, <2>2
  <2> QED BY <1>2, <2>3, <2>4
<1>12. ASSUME Len(s) >= 4, known, Len(s) >= SizeAt(c, s)
       PROVE  d = IF /\ Checked(c, TypeAt(s))
                     /\ SubSeq(s, 4 + LengthAt(s) + 1, SizeAt(c, s)) /=
                           Checksum(SubSeq(s, 1, 4 + LengthAt(s)))
                  THEN Failure("invalid")
                  ELSE [res |-> "ok", size |-> SizeAt(c, s),
                        rec |-> [type |-> TypeAt(s),
                                 payload |-> SubSeq(s, 5, 4 + LengthAt(s))]]
  <2>1. type = TypeAt(s) /\ n = LengthAt(s) /\ size = SizeAt(c, s)
        BY <1>3, <1>4, <1>5, <1>7, <1>12
  <2>2. d = whole
        BY <1>11, <1>12, <2>1
  <2> QED BY <2>1, <2>2, Zenon DEF whole, body
<1>13. ASSUME Len(s) >= 2, Len(s) < 4, known PROVE d.res = "eof"
  <2>1. d = Failure("eof")
        BY <1>10, <1>13, Zenon
  <2> QED BY <1>2, <2>1
<1>14. Len(s) >= 2 => (known <=> TypeAt(s) \in {c.type, CheckpointType})
      BY <1>4, Zenon
<1> HIDE DEF known
<1>15. Len(s) < 2 => Decode(c, s).res = "eof"
       BY <1>8 DEF d
<1>16. Len(s) >= 2 /\ TypeAt(s) \notin {c.type, CheckpointType} =>
          Decode(c, s).res = "invalid"
       BY <1>9, <1>14, Zenon DEF d
<1> SUFFICES ASSUME Len(s) >= 2, known
    PROVE  /\ Len(s) < 4 => Decode(c, s).res = "eof"
           /\ Len(s) >= 4 /\ Len(s) < SizeAt(c, s) => Decode(c, s).res = "eof"
           /\ Len(s) >= 4 /\ Len(s) >= SizeAt(c, s) =>
                 Decode(c, s) =
                   IF /\ Checked(c, TypeAt(s))
                      /\ SubSeq(s, 4 + LengthAt(s) + 1, SizeAt(c, s)) /=
                            Checksum(SubSeq(s, 1, 4 + LengthAt(s)))
                   THEN Failure("invalid")
                   ELSE [res |-> "ok", size |-> SizeAt(c, s),
                         rec |-> [type |-> TypeAt(s),
                                  payload |-> SubSeq(s, 5, 4 + LengthAt(s))]]
    BY <1>14, <1>15, <1>16, Zenon
<1>17. Len(s) < 4 => Decode(c, s).res = "eof"
       BY <1>13, Zenon DEF d
<1>18. Len(s) >= 4 /\ Len(s) < SizeAt(c, s) => Decode(c, s).res = "eof"
       BY <1>7, <1>11, Zenon DEF d
<1> QED BY <1>12, <1>17, <1>18, Zenon DEF d

LEMMA DecodeKinds ==
    ASSUME NEW c \in Codec, NEW s \in Bytes
    PROVE  Decode(c, s).res \in {"ok", "eof", "invalid"}
<1> DEFINE known == TypeAt(s) \in {c.type, CheckpointType}
           z == SizeAt(c, s)
           bad == /\ Checked(c, TypeAt(s))
                  /\ SubSeq(s, 4 + LengthAt(s) + 1, SizeAt(c, s)) /=
                        Checksum(SubSeq(s, 1, 4 + LengthAt(s)))
           ok == [res |-> "ok", size |-> SizeAt(c, s),
                  rec |-> [type |-> TypeAt(s),
                           payload |-> SubSeq(s, 5, 4 + LengthAt(s))]]
           d == Decode(c, s)
<1>1. /\ Len(s) < 2 => d.res = "eof"
      /\ Len(s) >= 2 /\ ~known => d.res = "invalid"
      /\ Len(s) >= 2 /\ known /\ Len(s) < 4 => d.res = "eof"
      /\ Len(s) >= 2 /\ known /\ Len(s) >= 4 /\ Len(s) < z => d.res = "eof"
      /\ Len(s) >= 2 /\ known /\ Len(s) >= 4 /\ Len(s) >= z =>
            d = IF bad THEN Failure("invalid") ELSE ok
      BY DecodeCases, Zenon
<1>2. ok.res = "ok" /\ Failure("invalid").res = "invalid"
      BY DEF Failure
<1>3. Len(s) \in Nat /\ (Len(s) >= 4 => z \in Nat)
  <2>1. Len(s) >= 4 => LengthAt(s) \in Nat
        BY HeadFacts
  <2> QED BY <2>1 DEF SizeAt, Trailer, Bytes
<1> HIDE DEF known, z, bad, ok, d
<1>4. \/ d.res = "eof" \/ d.res = "invalid"
      \/ d = IF bad THEN Failure("invalid") ELSE ok
      BY <1>1, <1>3
<1>5. d.res \in {"ok", "eof", "invalid"}
      BY <1>2, <1>4
<1> QED BY <1>5 DEF d

-----------------------------------------------------------------------------
(* A record that is whole is read back; a part of one is not.              *)
LEMMA SubSeqFacts ==
    ASSUME NEW s \in Bytes, NEW a \in Nat, NEW b \in Nat, a <= b, b <= Len(s)
    PROVE  /\ SubSeq(s, a + 1, b) \in Bytes
           /\ Len(SubSeq(s, a + 1, b)) = b - a
           /\ \A i \in 1..(b - a) : SubSeq(s, a + 1, b)[i] = s[a + i]
<1>1. s \in Seq(Nat) /\ Len(s) \in Nat
      BY DEF Bytes
<1>2. b - a \in Nat
      OBVIOUS
<1> QED BY <1>1, <1>2 DEF Bytes

LEMMA EqualBytes ==
    ASSUME NEW s \in Seq(Nat), NEW t \in Seq(Nat), Len(s) = Len(t),
           \A i \in 1..Len(s) : s[i] = t[i]
    PROVE  s = t
OBVIOUS

LEMMA DecodeWhole ==
    ASSUME NEW c \in Codec, NEW r \in Records(c), NEW s \in Bytes,
           Size(c, r) <= Len(s),
           \A i \in 1..Size(c, r) : s[i] = Encode(c, r)[i]
    PROVE  Decode(c, s) = [res |-> "ok", size |-> Size(c, r), rec |-> r]
<1> DEFINE n == Len(r.payload)
           e == Encode(c, r)
           b == Body(r)
           z == Size(c, r)
<1>1. /\ n \in Nat /\ r.type \in {c.type, CheckpointType}
      /\ r.type \in 0..5 /\ r.payload \in Seq(0..7)
      /\ Trailer(c, r.type) \in {0, 2}
      BY CodecFacts
<1>2. z = 4 + n + Trailer(c, r.type) /\ z \in Nat /\ 4 + n <= z
      BY <1>1 DEF Size
<1>3. /\ b \in Seq(Nat) /\ Len(b) = 4 + n
      /\ b[1] = 0 /\ b[2] = r.type /\ b[3] * 8 + b[4] = n
      /\ \A i \in 1..n : b[4 + i] = r.payload[i]
      BY BodyFacts DEF Bytes
<1>4. \A i \in 1..(4 + n) : e[i] = b[i]
      BY EncodeFacts
<1>5. s \in Seq(Nat) /\ Len(s) \in Nat /\ z <= Len(s)
      BY DEF Bytes
<1> HIDE DEF n, e, b, z
<1>6. \A i \in 1..(4 + n) : s[i] = b[i]
      BY <1>1, <1>2, <1>4 DEF z, e
<1>7. TypeAt(s) = r.type /\ LengthAt(s) = n
  <2>1. s[1] = b[1] /\ s[2] = b[2] /\ s[3] = b[3] /\ s[4] = b[4]
        BY <1>1, <1>6
  <2>2. s[1] = 0 /\ s[2] = r.type /\ s[3] * 8 + s[4] = n
        BY <1>3, <2>1
  <2>3. 0 * 8 + r.type = r.type
        BY <1>1
  <2> QED BY <2>2, <2>3 DEF TypeAt, LengthAt
<1>8. SizeAt(c, s) = z
      BY <1>2, <1>7 DEF SizeAt
<1>9. SubSeq(s, 1, 4 + n) = b
  <2> DEFINE t == SubSeq(s, 1, 4 + n)
  <2>1. t \in Seq(Nat) /\ Len(t) = 4 + n /\ \A i \in 1..(4 + n) : t[i] = s[i]
        BY <1>1, <1>2, <1>5
  <2> HIDE DEF t
  <2>2. \A i \in 1..Len(t) : t[i] = b[i]
        BY <1>6, <2>1
  <2>3. t = b
        BY <1>3, <2>1, <2>2, EqualBytes
  <2> QED BY <2>3 DEF t
<1>10. SubSeq(s, 5, 4 + n) = r.payload
  <2> DEFINE t == SubSeq(s, 4 + 1, 4 + n)
  <2>1. /\ t \in Seq(Nat) /\ Len(t) = n /\ \A i \in 1..n : t[i] = s[4 + i]
    <3>1. 4 \in Nat /\ 4 + n \in Nat /\ 4 <= 4 + n /\ 4 + n <= Len(s)
          BY <1>1, <1>2, <1>5
    <3>2. (4 + n) - 4 = n
          BY <1>1
    <3>3. /\ t \in Bytes /\ Len(t) = (4 + n) - 4
          /\ \A i \in 1..((4 + n) - 4) : t[i] = s[4 + i]
          BY <3>1, SubSeqFacts, Zenon
    <3> HIDE DEF t
    <3> QED BY <3>2, <3>3 DEF Bytes
  <2> HIDE DEF t
  <2>2. \A i \in 1..n : 4 + i \in 1..(4 + n)
        BY <1>1
  <2>3. \A i \in 1..Len(t) : t[i] = r.payload[i]
        BY <1>3, <1>6, <2>1, <2>2
  <2>4. r.payload \in Seq(Nat) /\ Len(r.payload) = n
        BY <1>1 DEF n
  <2>5. t = r.payload
        BY <2>1, <2>3, <2>4, EqualBytes
  <2>6. 4 + 1 = 5
        OBVIOUS
  <2> QED BY <2>5, <2>6 DEF t
<1>11. r = [type |-> r.type, payload |-> r.payload]
       BY DEF Records
<1>12. Checked(c, r.type) => SubSeq(s, 4 + n + 1, z) = Checksum(b)
  <2> SUFFICES ASSUME Checked(c, r.type)
               PROVE  SubSeq(s, 4 + n + 1, z) = Checksum(b)
      OBVIOUS
  <2>1. PICK h \in Nat \ {0} : /\ Checksum(b) = <<h, h>>
                               /\ e[4 + n + 1] = h /\ e[4 + n + 2] = h
        BY EncodeFacts, Zenon DEF e, b, n
  <2>2. z = 4 + n + 2
        BY <1>2 DEF Trailer
  <2>3. s[4 + n + 1] = h /\ s[4 + n + 2] = h
    <3>1. 4 + n + 1 \in 1..z /\ 4 + n + 2 \in 1..z
          BY <1>1, <2>2
    <3>2. s[4 + n + 1] = e[4 + n + 1] /\ s[4 + n + 2] = e[4 + n + 2]
          BY <3>1 DEF z, e
    <3> QED BY <2>1, <3>2
  <2> DEFINE m == 4 + n
             t == SubSeq(s, m + 1, z)
  <2>4. t \in Seq(Nat) /\ Len(t) = 2 /\ \A i \in 1..2 : t[i] = s[m + i]
    <3>1. m \in Nat /\ z \in Nat /\ m <= z /\ z <= Len(s) /\ z - m = 2
          BY <1>1, <1>2, <1>5, <2>2
    <3> HIDE DEF m
    <3> QED BY <3>1, SubSeqFacts DEF Bytes
  <2> HIDE DEF t
  <2>5. t[1] = h /\ t[2] = h
    <3>1. t[1] = s[m + 1] /\ t[2] = s[m + 2]
          BY <2>4
    <3> QED BY <2>3, <3>1
  <2>6. \A i \in 1..Len(t) : t[i] = <<h, h>>[i]
        BY <2>4, <2>5
  <2>7. t = <<h, h>>
    <3>1. <<h, h>> \in Seq(Nat) /\ Len(<<h, h>>) = 2
          OBVIOUS
    <3> QED BY <2>4, <2>6, <3>1, EqualBytes
  <2> QED BY <2>1, <2>7 DEF t
<1>13. Len(s) >= 4 /\ Len(s) >= 2 /\ Len(s) >= SizeAt(c, s)
       BY <1>1, <1>2, <1>5, <1>8
<1>14. TypeAt(s) \in {c.type, CheckpointType}
       BY <1>1, <1>7
<1>15. Decode(c, s) =
          IF /\ Checked(c, TypeAt(s))
             /\ SubSeq(s, 4 + LengthAt(s) + 1, SizeAt(c, s)) /=
                   Checksum(SubSeq(s, 1, 4 + LengthAt(s)))
          THEN Failure("invalid")
          ELSE [res |-> "ok", size |-> SizeAt(c, s),
                rec |-> [type |-> TypeAt(s),
                         payload |-> SubSeq(s, 5, 4 + LengthAt(s))]]
       BY <1>13, <1>14, DecodeCases, Zenon
<1>16. Decode(c, s) =
          IF Checked(c, r.type) /\ SubSeq(s, 4 + n + 1, z) /= Checksum(b)
          THEN Failure("invalid")
          ELSE [res |-> "ok", size |-> z,
                rec |-> [type |-> r.type, payload |-> r.payload]]
       BY <1>7, <1>8, <1>9, <1>10, <1>15, Zenon
<1> QED BY <1>11, <1>12, <1>16, Zenon DEF z

LEMMA DecodeShort ==
    ASSUME NEW c \in Codec, NEW r \in Records(c), NEW s \in Bytes,
           Len(s) < Size(c, r),
           \A i \in 1..Len(s) : s[i] = Encode(c, r)[i]
    PROVE  Decode(c, s).res = "eof"
<1> DEFINE n == Len(r.payload)
           e == Encode(c, r)
           b == Body(r)
<1>1. /\ n \in Nat /\ r.type \in {c.type, CheckpointType} /\ r.type \in 0..5
      BY CodecFacts
<1>2. b[1] = 0 /\ b[2] = r.type /\ b[3] * 8 + b[4] = n
      BY BodyFacts
<1>3. \A i \in 1..(4 + n) : e[i] = b[i]
      BY EncodeFacts
<1>4. Len(s) \in Nat
      BY DEF Bytes
<1>5. Size(c, r) = 4 + n + Trailer(c, r.type)
      BY DEF Size
<1>6. \A i \in 1..Len(s) : s[i] = e[i]
      OBVIOUS
<1> HIDE DEF n, e, b
<1>7. CASE Len(s) < 2
      BY <1>7, DecodeCases, Zenon
<1>8. CASE Len(s) >= 2
  <2>1. TypeAt(s) = r.type
    <3>1. s[1] = e[1] /\ s[2] = e[2]
          BY <1>4, <1>6, <1>8
    <3>2. e[1] = b[1] /\ e[2] = b[2]
          BY <1>1, <1>3
    <3>3. 0 * 8 + r.type = r.type
          BY <1>1
    <3> QED BY <1>2, <3>1, <3>2, <3>3 DEF TypeAt
  <2>2. CASE Len(s) < 4
        BY <1>1, <1>8, <2>1, <2>2, DecodeCases, Zenon
  <2>3. CASE Len(s) >= 4
    <3>1. LengthAt(s) = n
      <4>1. s[3] = e[3] /\ s[4] = e[4]
            BY <1>4, <1>6, <2>3
      <4>2. e[3] = b[3] /\ e[4] = b[4]
            BY <1>1, <1>3
      <4> QED BY <1>2, <4>1, <4>2 DEF LengthAt
    <3>2. Len(s) < SizeAt(c, s)
          BY <1>5, <2>1, <3>1 DEF SizeAt
    <3> QED BY <1>1, <1>8, <2>1, <2>3, <3>2, DecodeCases, Zenon
  <2> QED BY <1>4, <2>2, <2>3
<1> QED BY <1>4, <1>7, <1>8

(* Wherever zeros begin before the end of a record: the bytes decode reads *)
(* as a checksum would have to lie before them.                            *)
LEMMA DecodeTorn ==
    ASSUME NEW c \in Codec, NEW r \in Records(c), NEW s \in Bytes,
           NEW k \in Nat, k < Size(c, r),
           \A i \in 1..Len(s) : s[i] = IF i <= k THEN Encode(c, r)[i] ELSE 0,
           c.sum \/ (c.type /= 0 /\ r.type = CheckpointType)
    PROVE  Decode(c, s).res /= "ok"
<1> SUFFICES ASSUME Decode(c, s).res = "ok" PROVE FALSE
    OBVIOUS
<1> DEFINE e == Encode(c, r)
           b == Body(r)
           n == LengthAt(s)
<1>1. /\ Len(r.payload) \in Nat /\ r.type \in {c.type, CheckpointType}
      /\ r.type \in 0..5 /\ c.type \in 0..4
      BY CodecFacts
<1>2. b[1] = 0 /\ b[2] = r.type /\ b[3] * 8 + b[4] = Len(r.payload)
      BY BodyFacts
<1>3. e[1] = b[1] /\ e[2] = b[2] /\ e[3] = b[3] /\ e[4] = b[4]
  <2>1. \A i \in 1..(4 + Len(r.payload)) : e[i] = b[i]
        BY EncodeFacts
  <2> HIDE DEF e, b
  <2> QED BY <1>1, <2>1
<1>4. Len(s) \in Nat /\ s \in Seq(Nat)
      BY DEF Bytes
<1>5. \A i \in 1..Len(s) : (i <= k => s[i] = e[i]) /\ (i > k => s[i] = 0)
  <2>1. \A i \in 1..Len(s) : s[i] = IF i <= k THEN e[i] ELSE 0
        OBVIOUS
  <2> HIDE DEF e
  <2> QED BY <1>4, <2>1
<1> HIDE DEF e, b, n
<1>6. /\ Len(s) >= 2 /\ TypeAt(s) \in {c.type, CheckpointType}
      /\ Len(s) >= 4 /\ Len(s) >= SizeAt(c, s)
  <2> DEFINE known == TypeAt(s) \in {c.type, CheckpointType}
             z == SizeAt(c, s)
             res == Decode(c, s).res
  <2>1. /\ Len(s) < 2 => res = "eof"
        /\ Len(s) >= 2 /\ ~known => res = "invalid"
        /\ Len(s) >= 2 /\ known /\ Len(s) < 4 => res = "eof"
        /\ Len(s) >= 4 /\ Len(s) >= 2 /\ known /\ Len(s) < z => res = "eof"
        BY DecodeCases, Zenon
  <2>2. res /= "eof" /\ res /= "invalid"
        OBVIOUS
  <2> HIDE DEF known, res, z
  <2>3. Len(s) >= 4 => z \in Nat
    <3>1. Len(s) >= 4 => n \in Nat
          BY HeadFacts DEF n
    <3> QED BY <3>1 DEF z, SizeAt, Trailer, n
  <2>4. Len(s) >= 2 /\ known /\ Len(s) >= 4 /\ Len(s) >= z
        BY <1>4, <2>1, <2>2, <2>3
  <2> QED BY <2>4 DEF known, z
<1>7. n \in Nat
      BY <1>6, HeadFacts DEF n
<1>8. TypeAt(s) = r.type \/ TypeAt(s) = 0
  <2>1. s[1] = 0 /\ (s[2] = r.type \/ s[2] = 0)
    <3>1. 1 \in 1..Len(s) /\ 2 \in 1..Len(s)
          BY <1>4, <1>6
    <3>2. (s[1] = e[1] \/ s[1] = 0) /\ (s[2] = e[2] \/ s[2] = 0)
          BY <1>5, <3>1
    <3> QED BY <1>2, <1>3, <3>2
  <2>2. 0 * 8 + 0 = 0 /\ 0 * 8 + r.type = r.type
        BY <1>1
  <2> QED BY <2>1, <2>2 DEF TypeAt
<1>9. Checked(c, TypeAt(s))
  <2>1. CASE c.sum
        BY <2>1 DEF Checked
  <2>2. CASE ~c.sum
    <3>1. c.type /= 0 /\ r.type = CheckpointType
          BY <2>2
    <3>2. TypeAt(s) = CheckpointType
          BY <1>6, <1>8, <3>1 DEF CheckpointType
    <3> QED BY <3>2 DEF Checked
  <2> QED BY <2>1, <2>2
<1>10. SizeAt(c, s) = 4 + n + 2
       BY <1>7, <1>9 DEF SizeAt, Trailer, n
<1> DEFINE m == 4 + n
           t == SubSeq(s, m + 1, SizeAt(c, s))
<1>11. t = Checksum(SubSeq(s, 1, m))
  <2>1. Decode(c, s) =
          IF Checked(c, TypeAt(s)) /\ t /= Checksum(SubSeq(s, 1, m))
          THEN Failure("invalid")
          ELSE [res |-> "ok", size |-> SizeAt(c, s),
                rec |-> [type |-> TypeAt(s), payload |-> SubSeq(s, 5, m)]]
        BY <1>6, DecodeCases, Zenon DEF n
  <2> HIDE DEF m, t
  <2>2. CASE t /= Checksum(SubSeq(s, 1, m))
    <3>1. Decode(c, s) = Failure("invalid")
          BY <1>9, <2>1, <2>2, Zenon
    <3> QED BY <3>1 DEF Failure
  <2> QED BY <2>2
<1>12. m \in Nat /\ 0 <= m /\ m <= Len(s) /\ m <= m + 2 /\ m + 2 <= Len(s)
       BY <1>4, <1>6, <1>7, <1>10
<1>13. PICK h \in Nat \ {0} : Checksum(SubSeq(s, 1, m)) = <<h, h>>
  <2> HIDE DEF m
  <2>1. SubSeq(s, 1, m) \in Seq(Nat)
        BY <1>4, <1>12
  <2> QED BY <2>1, ChecksumFacts DEF Bytes
<1>14. t[2] = s[m + 2]
  <2>1. SizeAt(c, s) = m + 2 /\ (m + 2) - m = 2 /\ m + 2 \in Nat
        BY <1>10, <1>12
  <2> HIDE DEF m
  <2>2. \A i \in 1..((m + 2) - m) : SubSeq(s, m + 1, m + 2)[i] = s[m + i]
        BY <1>12, <2>1, SubSeqFacts
  <2>3. 2 \in 1..((m + 2) - m)
        BY <2>1
  <2>4. SubSeq(s, m + 1, m + 2)[2] = s[m + 2]
        BY <2>2, <2>3
  <2> QED BY <2>1, <2>4
<1>15. s[m + 2] = h
  <2>1. t = <<h, h>>
        BY <1>11, <1>13
  <2>2. t[2] = h
    <3> HIDE DEF t
    <3> QED BY <2>1
  <2> QED BY <1>14, <2>2
<1>16. m + 2 <= k
  <2>1. m + 2 \in 1..Len(s)
        BY <1>12
  <2> HIDE DEF m, t
  <2> QED BY <1>5, <1>12, <1>15, <2>1
<1>17. 4 <= k /\ 4 <= Len(s)
       BY <1>6, <1>7, <1>16
<1>18. s[1] = e[1] /\ s[2] = e[2] /\ s[3] = e[3] /\ s[4] = e[4]
       BY <1>4, <1>5, <1>17
<1>19. TypeAt(s) = r.type /\ LengthAt(s) = Len(r.payload)
  <2>1. s[1] = 0 /\ s[2] = r.type /\ s[3] * 8 + s[4] = Len(r.payload)
        BY <1>2, <1>3, <1>18
  <2>2. 0 * 8 + r.type = r.type
        BY <1>1
  <2> QED BY <2>1, <2>2 DEF TypeAt, LengthAt
<1>20. SizeAt(c, s) = Size(c, r)
       BY <1>19 DEF SizeAt, Size
<1>21. m + 2 = Size(c, r)
       BY <1>10, <1>20
<1> HIDE DEF m
<1> QED BY <1>12, <1>16, <1>21

LEMMA DecodeZeros ==
    ASSUME NEW c \in Codec, NEW s \in Bytes, c.type /= 0, AllZero(s)
    PROVE  Decode(c, s).res /= "ok"
<1>1. Len(s) \in Nat
      BY DEF Bytes
<1>2. CASE Len(s) < 2
  <2>1. Decode(c, s).res = "eof"
        BY <1>2, DecodeCases, Zenon
  <2> QED BY <2>1
<1>3. CASE Len(s) >= 2
  <2>1. s[1] = 0 /\ s[2] = 0
        BY <1>1, <1>3 DEF AllZero
  <2>2. TypeAt(s) = 0
        BY <2>1 DEF TypeAt
  <2>3. TypeAt(s) \notin {c.type, CheckpointType}
        BY <2>2 DEF CheckpointType
  <2>4. Decode(c, s).res = "invalid"
        BY <1>3, <2>3, DecodeCases, Zenon
  <2> QED BY <2>4
<1> QED BY <1>1, <1>2, <1>3

-----------------------------------------------------------------------------
(* The bytes of the first n records.                                       *)
FirstN(c, rs, n) == EncodeAll(c, SubSeq(rs, 1, n))
Encodings(c, rs, n) == [i \in 1..n |-> Encode(c, rs[i])]

LEMMA FrontIsFlattened ==
    ASSUME NEW c \in Codec, NEW rs \in Seq(Records(c)), NEW n \in 0..Len(rs)
    PROVE  /\ FirstN(c, rs, n) = FlattenSeq(Encodings(c, rs, n))
           /\ Encodings(c, rs, n) \in Seq(Bytes)
           /\ Len(Encodings(c, rs, n)) = n
           /\ n = 0 => FirstN(c, rs, n) = <<>>
<1> DEFINE t == SubSeq(rs, 1, n)
           q == [i \in 1..Len(t) |-> Encode(c, t[i])]
<1>1. n \in Nat /\ Len(rs) \in Nat /\ n <= Len(rs)
      OBVIOUS
<1>2. Len(t) = n /\ \A i \in 1..n : t[i] = rs[i]
      BY <1>1
<1>3. FirstN(c, rs, n) = FlattenSeq(q)
      BY Zenon DEF FirstN, EncodeAll
<1>4. q = Encodings(c, rs, n)
  <2> HIDE DEF t
  <2>1. q = [i \in 1..n |-> Encode(c, t[i])]
        BY <1>2
  <2>2. [i \in 1..n |-> Encode(c, t[i])] = [i \in 1..n |-> Encode(c, rs[i])]
        BY <1>2, Zenon
  <2> QED BY <2>1, <2>2 DEF Encodings
<1>5. \A i \in 1..n : Encode(c, rs[i]) \in Bytes
  <2>1. \A i \in 1..n : rs[i] \in Records(c)
        BY <1>1
  <2> QED BY <2>1, EncodeFacts, Zenon
<1> DEFINE w == Encodings(c, rs, n)
<1>6. w \in Seq(Bytes) /\ Len(w) = n
  <2>1. w \in [1..n -> Bytes]
        BY <1>5, Zenon DEF Encodings
  <2> HIDE DEF w
  <2> QED BY <1>1, <2>1
<1>7. n = 0 => FlattenSeq(w) = <<>>
  <2> HIDE DEF w
  <2>1. n = 0 => w = <<>>
        BY <1>6
  <2>2. Len(w) = 0 => FlattenSeq(w) = w
        BY Zenon DEF FlattenSeq
  <2> QED BY <1>6, <2>1, <2>2
<1> HIDE DEF q, w
<1>8. FirstN(c, rs, n) = FlattenSeq(w)
      BY <1>3, <1>4 DEF w
<1> QED BY <1>6, <1>7, <1>8 DEF w

LEMMA FrontStep ==
    ASSUME NEW c \in Codec, NEW rs \in Seq(Records(c)), NEW n \in Nat,
           n + 1 <= Len(rs), FirstN(c, rs, n) \in Bytes
    PROVE  FirstN(c, rs, n + 1) = FirstN(c, rs, n) \o Encode(c, rs[n + 1])
<1> DEFINE s == Encodings(c, rs, n)
           t == Encodings(c, rs, n + 1)
<1>1. n \in 0..Len(rs) /\ n + 1 \in 0..Len(rs) /\ n + 1 \in 1..(n + 1)
      OBVIOUS
<1>2. /\ s \in Seq(Bytes) /\ Len(s) = n /\ FirstN(c, rs, n) = FlattenSeq(s)
      BY <1>1, FrontIsFlattened
<1>3. /\ t \in Seq(Bytes) /\ Len(t) = n + 1
      /\ FirstN(c, rs, n + 1) = FlattenSeq(t)
      BY <1>1, FrontIsFlattened
<1>4. \A i \in 1..n : s[i] = Encode(c, rs[i])
      BY Zenon DEF Encodings
<1>5. \A i \in 1..(n + 1) : t[i] = Encode(c, rs[i])
      BY Zenon DEF Encodings
<1> HIDE DEF s, t
<1>6. \A i \in 1..Len(s) : s[i] = t[i]
  <2>1. \A i \in 1..n : i \in 1..(n + 1)
        OBVIOUS
  <2> QED BY <1>2, <1>4, <1>5, <2>1, Zenon
<1>7. FlattenSeq(t) = FlattenSeq(s) \o t[Len(t)]
  <2>1. Len(t) = Len(s) + 1 /\ FlattenSeq(s) \in Bytes
        BY <1>2, <1>3
  <2> QED BY <1>2, <1>3, <1>6, <2>1, FlattenAppend
<1>8. t[Len(t)] = Encode(c, rs[n + 1])
      BY <1>1, <1>3, <1>5
<1> QED BY <1>2, <1>3, <1>7, <1>8, Zenon

LEMMA FrontIsBytes ==
    ASSUME NEW c \in Codec, NEW rs \in Seq(Records(c))
    PROVE  \A n \in 0..Len(rs) : FirstN(c, rs, n) \in Bytes
<1> DEFINE S == {n \in Nat : n <= Len(rs) => FirstN(c, rs, n) \in Bytes}
<1>1. 0 \in S
  <2>1. 0 \in 0..Len(rs)
        OBVIOUS
  <2>2. FirstN(c, rs, 0) = <<>>
        BY <2>1, FrontIsFlattened
  <2>3. FirstN(c, rs, 0) \in Bytes
    <3>1. <<>> \in Seq(Nat)
          OBVIOUS
    <3> QED BY <2>2, <3>1, Zenon DEF Bytes
  <2> QED BY <2>3
<1>2. ASSUME NEW n \in Nat, n \in S PROVE n + 1 \in S
  <2> SUFFICES ASSUME n + 1 <= Len(rs) PROVE FirstN(c, rs, n + 1) \in Bytes
      OBVIOUS
  <2> DEFINE e == Encode(c, rs[n + 1])
  <2>1. FirstN(c, rs, n) \in Bytes
        BY <1>2
  <2>2. e \in Bytes
    <3>1. rs[n + 1] \in Records(c)
          OBVIOUS
    <3> QED BY <3>1, EncodeFacts, Zenon
  <2>3. FirstN(c, rs, n + 1) = FirstN(c, rs, n) \o e
        BY <2>1, FrontStep
  <2> HIDE DEF e
  <2>4. FirstN(c, rs, n) \o e \in Bytes
        BY <2>1, <2>2, ConcatFacts, Zenon DEF Bytes
  <2> QED BY <2>3, <2>4
<1>3. Nat \subseteq S
  <2> HIDE DEF S
  <2> QED BY <1>1, <1>2, NatSetInduction
<1> QED BY <1>3

LEMMA FrontGrows ==
    ASSUME NEW c \in Codec, NEW rs \in Seq(Records(c)), NEW n \in Nat,
           n + 1 <= Len(rs)
    PROVE  LET z == Size(c, rs[n + 1])
               l == Len(FirstN(c, rs, n))
           IN  /\ l \in Nat /\ z \in Nat /\ z >= 4
               /\ rs[n + 1] \in Records(c)
               /\ Len(FirstN(c, rs, n + 1)) = l + z
               /\ \A i \in 1..l : FirstN(c, rs, n + 1)[i] = FirstN(c, rs, n)[i]
               /\ \A i \in 1..z :
                     FirstN(c, rs, n + 1)[l + i] = Encode(c, rs[n + 1])[i]
<1> DEFINE z == Size(c, rs[n + 1])
           e == Encode(c, rs[n + 1])
           a == FirstN(c, rs, n)
           b == FirstN(c, rs, n + 1)
<1>1. n \in 0..Len(rs) /\ rs[n + 1] \in Records(c)
      OBVIOUS
<1>2. a \in Bytes
      BY <1>1, FrontIsBytes
<1>3. b = a \o e
      BY <1>2, FrontStep
<1>4. e \in Bytes /\ Len(e) = z
      BY <1>1, EncodeFacts, Zenon
<1>5. z \in Nat /\ z >= 4
  <2> DEFINE p == Len(rs[n + 1].payload)
             y == Trailer(c, rs[n + 1].type)
  <2>1. p \in Nat /\ y \in {0, 2}
        BY <1>1, CodecFacts
  <2>2. z = 4 + p + y
        BY DEF Size
  <2> HIDE DEF z, p, y
  <2> QED BY <2>1, <2>2
<1> HIDE DEF a, b, e, z
<1>6. /\ Len(b) = Len(a) + Len(e) /\ Len(a) \in Nat
      /\ \A i \in 1..Len(a) : b[i] = a[i]
      /\ \A i \in 1..Len(e) : b[Len(a) + i] = e[i]
      BY <1>2, <1>3, <1>4, ConcatFacts, Zenon DEF Bytes
<1>7. /\ Len(a) \in Nat /\ z \in Nat /\ z >= 4 /\ rs[n + 1] \in Records(c)
      /\ Len(b) = Len(a) + z
      /\ \A i \in 1..Len(a) : b[i] = a[i]
      /\ \A i \in 1..z : b[Len(a) + i] = e[i]
      BY <1>1, <1>4, <1>5, <1>6
<1> QED BY <1>7, Zenon DEF a, b, e, z

LEMMA FrontsArePrefixes ==
    ASSUME NEW c \in Codec, NEW rs \in Seq(Records(c)),
           NEW n \in 0..Len(rs), NEW m \in n..Len(rs)
    PROVE  /\ Len(FirstN(c, rs, n)) <= Len(FirstN(c, rs, m))
           /\ \A i \in 1..Len(FirstN(c, rs, n)) :
                  FirstN(c, rs, m)[i] = FirstN(c, rs, n)[i]
<1> DEFINE F(k) == FirstN(c, rs, k)
           S == {k \in Nat : n + k <= Len(rs) =>
                    /\ Len(F(n)) <= Len(F(n + k))
                    /\ \A i \in 1..Len(F(n)) : F(n + k)[i] = F(n)[i]}
<1>1. \A k \in 0..Len(rs) : Len(F(k)) \in Nat
  <2>1. \A k \in 0..Len(rs) : F(k) \in Bytes
        BY FrontIsBytes
  <2>2. \A b \in Bytes : Len(b) \in Nat
        BY DEF Bytes
  <2> QED BY <2>1, <2>2, Zenon
<1>2. ASSUME NEW k \in Nat, k + 1 <= Len(rs)
      PROVE  /\ Len(F(k)) <= Len(F(k + 1))
             /\ \A i \in 1..Len(F(k)) : F(k + 1)[i] = F(k)[i]
  <2> DEFINE l == Len(F(k))
             z == Size(c, rs[k + 1])
  <2>1. /\ l \in Nat /\ z \in Nat /\ Len(F(k + 1)) = l + z
        /\ \A i \in 1..l : F(k + 1)[i] = F(k)[i]
        BY <1>2, FrontGrows, Zenon
  <2> HIDE DEF F, z
  <2> QED BY <2>1
<1> HIDE DEF F
<1>3. 0 \in S
  <2>1. n + 0 = n /\ n \in 0..Len(rs)
        OBVIOUS
  <2>2. Len(F(n)) <= Len(F(n))
        BY <1>1, <2>1
  <2> QED BY <2>1, <2>2
<1>4. ASSUME NEW k \in Nat, k \in S PROVE k + 1 \in S
  <2> SUFFICES ASSUME n + (k + 1) <= Len(rs)
               PROVE  /\ Len(F(n)) <= Len(F(n + (k + 1)))
                      /\ \A i \in 1..Len(F(n)) : F(n + (k + 1))[i] = F(n)[i]
      OBVIOUS
  <2> DEFINE j == n + k
  <2>1. /\ j \in Nat /\ j + 1 <= Len(rs) /\ n + (k + 1) = j + 1
        /\ j \in 0..Len(rs) /\ j + 1 \in 0..Len(rs) /\ j <= Len(rs)
        OBVIOUS
  <2>2. /\ Len(F(n)) <= Len(F(j))
        /\ \A i \in 1..Len(F(n)) : F(j)[i] = F(n)[i]
        BY <1>4, <2>1
  <2> HIDE DEF j
  <2>3. /\ Len(F(j)) <= Len(F(j + 1))
        /\ \A i \in 1..Len(F(j)) : F(j + 1)[i] = F(j)[i]
        BY <1>2, <2>1
  <2>4. Len(F(n)) \in Nat /\ Len(F(j)) \in Nat /\ Len(F(j + 1)) \in Nat
        BY <1>1, <2>1
  <2>5. /\ Len(F(n)) <= Len(F(j + 1))
        /\ \A i \in 1..Len(F(n)) : F(j + 1)[i] = F(n)[i]
        BY <2>2, <2>3, <2>4
  <2> QED BY <2>1, <2>5
<1>5. m - n \in S
  <2>1. Nat \subseteq S
    <3> HIDE DEF S
    <3> QED BY <1>3, <1>4, NatSetInduction
  <2>2. m - n \in Nat
        OBVIOUS
  <2> HIDE DEF S
  <2> QED BY <2>1, <2>2
<1>6. n + (m - n) = m /\ m <= Len(rs)
      OBVIOUS
<1> QED BY <1>5, <1>6 DEF F

-----------------------------------------------------------------------------
(* The images a crash leaves, and what they hold whole.                    *)
FirstBytes(n) == FirstN(codec, written, n)
EndOf(n) == Len(FirstBytes(n))

InputOK ==
    /\ codec \in Codec
    /\ written \in Seq(Records(codec)) /\ Len(written) >= 1
    /\ written[1].type = CheckpointType
    /\ image \in Images(EncodeAll(codec, written))

LEMMA InputFacts ==
    ASSUME InputOK
    PROVE  /\ Len(written) \in Nat /\ Len(written) >= 1
           /\ \A n \in 0..Len(written) :
                 FirstBytes(n) \in Seq(Nat) /\ EndOf(n) \in Nat
           /\ FirstBytes(0) = <<>> /\ EndOf(0) = 0
           /\ FirstBytes(Len(written)) = EncodeAll(codec, written)
<1>1. codec \in Codec /\ written \in Seq(Records(codec)) /\ Len(written) >= 1
      BY DEF InputOK
<1>2. Len(written) \in Nat
      BY <1>1
<1>3. \A n \in 0..Len(written) : FirstBytes(n) \in Seq(Nat)
      BY <1>1, FrontIsBytes DEF FirstBytes, Bytes
<1>4. \A n \in 0..Len(written) : EndOf(n) \in Nat
      BY <1>3 DEF EndOf
<1>5. FirstBytes(0) = <<>>
  <2>1. 0 \in 0..Len(written)
        BY <1>2
  <2> QED BY <1>1, <2>1, FrontIsFlattened DEF FirstBytes
<1>6. EndOf(0) = 0
      BY <1>5 DEF EndOf
<1>7. SubSeq(written, 1, Len(written)) = written
      BY <1>1
<1>8. FirstBytes(Len(written)) = EncodeAll(codec, written)
      BY <1>7, Zenon DEF FirstBytes, FirstN
<1> QED BY <1>1, <1>2, <1>3, <1>4, <1>5, <1>6, <1>8

LEMMA ImageFacts ==
    ASSUME InputOK
    PROVE  LET b == FirstBytes(Len(written))
           IN  /\ image \in Seq(Nat) /\ Len(image) \in Nat
               /\ Len(image) <= EndOf(Len(written))
               /\ \E k \in 0..Len(image) : \A i \in 1..Len(image) :
                     image[i] = IF i <= k THEN b[i] ELSE 0
<1> DEFINE b == FirstBytes(Len(written))
<1>1. b \in Seq(Nat) /\ Len(b) \in Nat /\ Len(b) = EndOf(Len(written))
  <2>1. Len(written) \in 0..Len(written)
        BY InputFacts
  <2> QED BY <2>1, InputFacts DEF EndOf
<1>2. image \in Images(b)
      BY InputFacts DEF InputOK
<1> HIDE DEF b
<1> PICK n \in 0..Len(b) :
       \E k \in 0..n : image = SubSeq(b, 1, k) \o Zeros(n - k)
    BY <1>2 DEF Images
<1>3. PICK k \in 0..n : image = SubSeq(b, 1, k) \o Zeros(n - k)
      OBVIOUS
<1>4. /\ n \in Nat /\ k \in Nat /\ k <= n /\ n <= Len(b) /\ n - k \in Nat
      /\ k + (n - k) = n
      BY <1>1
<1> DEFINE s == SubSeq(b, 1, k)
           z == Zeros(n - k)
<1>5. s \in Seq(Nat) /\ Len(s) = k /\ \A i \in 1..k : s[i] = b[i]
      BY <1>1, <1>4
<1>6. z \in Seq(Nat) /\ Len(z) = n - k /\ \A i \in 1..(n - k) : z[i] = 0
      BY <1>4 DEF Zeros
<1> HIDE DEF s, z
<1>7. /\ s \o z \in Seq(Nat) /\ Len(s \o z) = Len(s) + Len(z)
      /\ \A i \in 1..Len(s) : (s \o z)[i] = s[i]
      /\ \A i \in 1..Len(z) : (s \o z)[Len(s) + i] = z[i]
      BY <1>5, <1>6, ConcatFacts, Zenon
<1>8. image = s \o z
      BY <1>3 DEF s, z
<1>9. /\ image \in Seq(Nat) /\ Len(image) = n
      /\ \A i \in 1..k : image[i] = b[i]
      /\ \A i \in 1..(n - k) : image[k + i] = 0
  <2>1. /\ image \in Seq(Nat) /\ Len(image) = Len(s) + Len(z)
        /\ \A i \in 1..Len(s) : image[i] = s[i]
        /\ \A i \in 1..Len(z) : image[Len(s) + i] = z[i]
        BY <1>7, <1>8, Zenon
  <2> QED BY <1>4, <1>5, <1>6, <2>1
<1>10. \A i \in 1..n : image[i] = IF i <= k THEN b[i] ELSE 0
  <2> SUFFICES ASSUME NEW i \in 1..n
               PROVE  image[i] = IF i <= k THEN b[i] ELSE 0
      OBVIOUS
  <2>1. CASE i <= k
    <3>1. image[i] = b[i]
          BY <1>4, <1>9, <2>1
    <3> QED BY <2>1, <3>1, Zenon
  <2>2. CASE ~(i <= k)
    <3> DEFINE j == i - k
    <3>1. j \in 1..(n - k) /\ k + j = i
          BY <1>4, <2>2
    <3> HIDE DEF j
    <3>2. image[i] = 0
          BY <1>9, <3>1
    <3> QED BY <2>2, <3>2, Zenon
  <2> QED BY <2>1, <2>2, Zenon
<1>11. k \in 0..Len(image)
       BY <1>9
<1>12. \E j \in 0..Len(image) : \A i \in 1..Len(image) :
            image[i] = IF i <= j THEN b[i] ELSE 0
       BY <1>9, <1>10, <1>11
<1> QED BY <1>1, <1>4, <1>9, <1>12 DEF b

(* Bytes s begin with the first n records.                                 *)
Begins(s, n) ==
    EndOf(n) <= Len(s) /\ \A i \in 1..EndOf(n) : s[i] = FirstBytes(n)[i]

LEMMA PrefixIsBegins ==
    ASSUME InputOK, NEW n \in 0..Len(written), NEW s \in Seq(Nat)
    PROVE  IsPrefix(FirstBytes(n), s) <=> Begins(s, n)
<1> DEFINE a == FirstBytes(n)
<1>1. a \in Seq(Nat) /\ Len(a) \in Nat /\ EndOf(n) = Len(a)
      BY InputFacts DEF EndOf
<1> HIDE DEF a
<1>2. ASSUME Len(a) <= Len(s)
      PROVE  SubSeq(a, 1, Len(a)) = SubSeq(s, 1, Len(a)) <=>
                \A i \in 1..Len(a) : s[i] = a[i]
  <2> DEFINE t == SubSeq(s, 1, Len(a))
  <2>1. SubSeq(a, 1, Len(a)) = a
        BY <1>1
  <2>2. t \in Seq(Nat) /\ Len(t) = Len(a) /\ \A i \in 1..Len(a) : t[i] = s[i]
        BY <1>1, <1>2
  <2> HIDE DEF t
  <2>3. (\A i \in 1..Len(a) : t[i] = a[i]) => t = a
        BY <1>1, <2>2, EqualBytes
  <2>4. a = t <=> \A i \in 1..Len(a) : s[i] = a[i]
        BY <2>2, <2>3
  <2> QED BY <2>1, <2>4 DEF t
<1> QED BY <1>1, <1>2 DEF IsPrefix, Begins, a

LEMMA WholeFacts ==
    ASSUME InputOK
    PROVE  /\ Whole \in 0..Len(written) /\ Begins(image, Whole)
           /\ Whole < Len(written) => ~Begins(image, Whole + 1)
<1> DEFINE T == {n \in 0..Len(written) : IsPrefix(FirstBytes(n), image)}
<1>1. Len(written) \in Nat /\ image \in Seq(Nat)
      BY InputFacts, ImageFacts
<1>2. Whole = Max(T)
      BY Zenon DEF Whole, FirstBytes, FirstN
<1>3. 0 \in T
  <2>1. Begins(image, 0)
        BY <1>1, InputFacts DEF Begins
  <2>2. 0 \in 0..Len(written)
        BY <1>1
  <2> QED BY <1>1, <2>1, <2>2, PrefixIsBegins
<1>4. Max(T) \in T /\ \A y \in T : Max(T) >= y
  <2>1. T \subseteq 0..Len(written) /\ T /= {}
        BY <1>3
  <2> HIDE DEF T
  <2> QED BY <1>1, <2>1, MaxFacts
<1>5. Whole \in T /\ \A y \in T : Whole >= y
      BY <1>2, <1>4
<1>6. Whole \in 0..Len(written)
      BY <1>5
<1>7. Begins(image, Whole)
      BY <1>1, <1>5, <1>6, PrefixIsBegins
<1>8. ASSUME Whole < Len(written), Begins(image, Whole + 1) PROVE FALSE
  <2>1. Whole + 1 \in 0..Len(written)
        BY <1>1, <1>6, <1>8
  <2>2. Whole + 1 \in T
        BY <1>1, <1>8, <2>1, PrefixIsBegins
  <2>3. Whole >= Whole + 1
        BY <1>5, <2>2
  <2> QED BY <1>6, <2>3
<1> QED BY <1>6, <1>7, <1>8

LEMMA BeginsNext ==
    ASSUME InputOK, NEW n \in Nat, n + 1 <= Len(written), NEW s \in Seq(Nat),
           Begins(s, n),
           EndOf(n) + Size(codec, written[n + 1]) <= Len(s),
           \A i \in 1..Size(codec, written[n + 1]) :
              s[EndOf(n) + i] = Encode(codec, written[n + 1])[i]
    PROVE  Begins(s, n + 1)
<1> DEFINE e == EndOf(n)
           f == FirstBytes(n + 1)
           z == Size(codec, written[n + 1])
           x == Encode(codec, written[n + 1])
<1>1. /\ e \in Nat /\ z \in Nat /\ EndOf(n + 1) = e + z
      /\ \A i \in 1..e : f[i] = FirstBytes(n)[i]
      /\ \A i \in 1..z : f[e + i] = x[i]
  <2>1. codec \in Codec /\ written \in Seq(Records(codec))
        BY DEF InputOK
  <2> QED BY <2>1, FrontGrows, Zenon DEF FirstBytes, EndOf
<1>2. \A i \in 1..e : s[i] = FirstBytes(n)[i]
      BY DEF Begins
<1>3. e + z <= Len(s) /\ \A i \in 1..z : s[e + i] = x[i]
      OBVIOUS
<1> HIDE DEF e, f, z, x
<1>4. ASSUME NEW i \in 1..(e + z) PROVE s[i] = f[i]
  <2>1. CASE i <= e
    <3>1. i \in 1..e
          BY <1>1, <2>1
    <3>2. f[i] = FirstBytes(n)[i] /\ s[i] = FirstBytes(n)[i]
          BY <1>1, <1>2, <3>1, Zenon
    <3> QED BY <3>2
  <2>2. CASE i > e
    <3> DEFINE j == i - e
    <3>1. j \in 1..z /\ e + j = i
          BY <1>1, <2>2
    <3> HIDE DEF j
    <3>2. s[e + j] = f[e + j]
          BY <1>1, <1>3, <3>1
    <3> QED BY <3>1, <3>2
  <2> QED BY <1>1, <2>1, <2>2
<1> QED BY <1>1, <1>3, <1>4 DEF Begins, f

(* What follows the whole records is a part of the next one, then zeros.   *)
LEMMA TailFacts ==
    ASSUME InputOK
    PROVE  /\ Remainder \in Bytes
           /\ Len(Remainder) = Len(image) - EndOf(Whole)
           /\ Whole = Len(written) => Remainder = <<>>
           /\ Whole < Len(written) =>
                \E k \in Nat :
                    /\ k < Size(codec, written[Whole + 1])
                    /\ \A i \in 1..Len(Remainder) :
                          Remainder[i] =
                             IF i <= k
                             THEN Encode(codec, written[Whole + 1])[i]
                             ELSE 0
<1> DEFINE N == Len(written)
           W == Whole
           b == FirstBytes(N)
           e == EndOf(W)
           R == Remainder
<1>1. N \in Nat /\ W \in 0..N /\ Begins(image, W)
      BY InputFacts, WholeFacts
<1>2. image \in Seq(Nat) /\ Len(image) \in Nat /\ Len(image) <= EndOf(N)
      BY ImageFacts
<1>3. PICK k \in 0..Len(image) : \A i \in 1..Len(image) :
          image[i] = IF i <= k THEN b[i] ELSE 0
      BY ImageFacts
<1>4. e \in Nat /\ e <= Len(image)
      BY <1>1, InputFacts DEF Begins
<1>5. R = SubSeq(image, e + 1, Len(image))
      BY Zenon DEF Remainder, Rest, EndOf, FirstBytes, FirstN
<1> HIDE DEF R, e, W, N, b
<1>6. /\ R \in Seq(Nat) /\ Len(R) = Len(image) - e
      /\ \A i \in 1..Len(R) : R[i] = image[e + i]
  <2>1. /\ R \in Bytes /\ Len(R) = Len(image) - e
        /\ \A i \in 1..(Len(image) - e) : R[i] = image[e + i]
    <3>1. Len(image) <= Len(image) /\ image \in Bytes
          BY <1>2 DEF Bytes
    <3> QED BY <1>2, <1>4, <1>5, <3>1, SubSeqFacts
  <2> QED BY <2>1 DEF Bytes
<1>7. W = N => R = <<>>
  <2> SUFFICES ASSUME W = N PROVE R = <<>>
      OBVIOUS
  <2>1. Len(image) <= e
        BY <1>2 DEF e
  <2>2. Len(R) = 0
        BY <1>2, <1>4, <1>6, <2>1
  <2> QED BY <1>6, <2>2
<1>8. ASSUME W < N
      PROVE  \E j \in Nat :
                /\ j < Size(codec, written[W + 1])
                /\ \A i \in 1..Len(R) :
                      R[i] = IF i <= j THEN Encode(codec, written[W + 1])[i]
                             ELSE 0
  <2> DEFINE z == Size(codec, written[W + 1])
             x == Encode(codec, written[W + 1])
             f == FirstBytes(W + 1)
             j == IF k <= e THEN 0 ELSE k - e
  <2>1. W \in Nat /\ W + 1 <= N /\ W + 1 \in 0..N /\ N \in (W + 1)..N
        BY <1>1, <1>8
  <2>2. /\ z \in Nat /\ z >= 4 /\ EndOf(W + 1) = e + z
        /\ \A i \in 1..e : f[i] = FirstBytes(W)[i]
        /\ \A i \in 1..z : f[e + i] = x[i]
    <3>1. /\ codec \in Codec /\ written \in Seq(Records(codec))
          /\ W + 1 <= Len(written)
          BY <2>1 DEF InputOK, N
    <3> QED BY <2>1, <3>1, FrontGrows, Zenon DEF FirstBytes, EndOf, e
  <2>3. \A i \in 1..(e + z) : b[i] = f[i]
    <3>1. /\ codec \in Codec /\ written \in Seq(Records(codec))
          /\ W + 1 \in 0..Len(written) /\ N \in (W + 1)..Len(written)
          BY <2>1 DEF InputOK, N
    <3>2. \A i \in 1..Len(FirstN(codec, written, W + 1)) :
             FirstN(codec, written, N)[i] = FirstN(codec, written, W + 1)[i]
          BY <3>1, FrontsArePrefixes
    <3>3. \A i \in 1..EndOf(W + 1) : b[i] = f[i]
          BY <3>2, Zenon DEF FirstBytes, EndOf, b
    <3> HIDE DEF f, z
    <3> QED BY <2>2, <3>3
  <2> HIDE DEF z, x, f
  <2>4. j \in Nat /\ e + j <= Len(image) /\ (k > e => e + j = k)
        BY <1>2, <1>4
  <2>5. j < z
    <3> SUFFICES ASSUME j >= z PROVE FALSE
        BY <2>2, <2>4
    <3>1. k > e /\ e + z <= k /\ e + z <= Len(image)
          BY <1>2, <1>4, <2>2, <2>4
    <3>2. \A i \in 1..(e + z) : image[i] = b[i]
      <4> SUFFICES ASSUME NEW i \in 1..(e + z) PROVE image[i] = b[i]
          OBVIOUS
      <4> DEFINE l == Len(image)
      <4>1. i \in 1..l /\ i <= k
        <5>1. e + z <= l /\ e + z <= k /\ k \in Nat /\ l \in Nat
              BY <1>2, <3>1
        <5> HIDE DEF j, l
        <5> QED BY <1>4, <2>2, <5>1
      <4> QED BY <1>3, <4>1, Zenon
    <3>3. Begins(image, W + 1)
          BY <2>2, <2>3, <3>1, <3>2 DEF Begins, f
    <3> QED BY <1>8, <3>3, WholeFacts DEF W, N
  <2>6. ASSUME NEW i \in 1..Len(R)
        PROVE  R[i] = IF i <= j THEN x[i] ELSE 0
    <3>1. /\ R[i] = image[e + i] /\ e + i \in 1..Len(image) /\ i \in Nat
          BY <1>2, <1>4, <1>6
    <3>2. image[e + i] = IF e + i <= k THEN b[e + i] ELSE 0
          BY <1>3, <3>1
    <3>3. e + i <= k <=> i <= j
          BY <1>4, <2>4, <3>1
    <3>4. CASE i <= j
      <4>1. i \in 1..z /\ e + i \in 1..(e + z)
            BY <1>4, <2>2, <2>4, <2>5, <3>1, <3>4
      <4>2. b[e + i] = x[i]
            BY <2>2, <2>3, <4>1
      <4> HIDE DEF j
      <4> QED BY <3>1, <3>2, <3>3, <3>4, <4>2, Zenon
    <3>5. CASE ~(i <= j)
      <4> HIDE DEF j
      <4> QED BY <3>1, <3>2, <3>3, <3>5, Zenon
    <3> QED BY <3>4, <3>5, Zenon
  <2> HIDE DEF j
  <2> QED BY <2>4, <2>5, <2>6, Zenon DEF z, x
<1> QED BY <1>6, <1>7, <1>8, Zenon DEF R, W, N, e, Bytes

(* If the codec tells, what follows the whole records is no record.        *)
LEMMA RemainderFacts ==
    ASSUME InputOK, Recognisable
    PROVE  /\ Decode(codec, Remainder).res /= "ok"
           /\ Remainder /= <<>> =>
                /\ TornTail /= "none"
                /\ Decode(codec, Remainder).res = "invalid" =>
                      /\ TornTail /= "short"
                      /\ TornTail /= "mixed" => AllZero(Remainder)
<1> DEFINE R == Remainder
           N == Len(written)
           W == Whole
           r == written[W + 1]
           x == Encode(codec, r)
<1>1. /\ codec \in Codec /\ R \in Bytes /\ Len(R) \in Nat /\ N \in Nat
      /\ W \in 0..N /\ R \in Seq(Nat)
      BY TailFacts, InputFacts, WholeFacts DEF InputOK, Bytes
<1>2. CASE R = <<>>
  <2>1. Len(R) < 2
        BY <1>2
  <2>2. Decode(codec, R).res = "eof"
        BY <1>1, <2>1, DecodeCases, Zenon
  <2> QED BY <1>2, <2>2
<1>3. CASE R /= <<>>
  <2>1. W < N /\ r \in Records(codec)
    <3>1. W < N
          BY <1>1, <1>3, TailFacts
    <3>2. written \in Seq(Records(codec))
          BY DEF InputOK
    <3> QED BY <1>1, <3>1, <3>2
  <2>2. x \in Seq(Nat) /\ Len(x) = Size(codec, r) /\ Len(x) \in Nat
        BY <1>1, <2>1, EncodeFacts DEF Bytes
  <2>3. PICK k \in Nat :
           /\ k < Size(codec, r)
           /\ \A i \in 1..Len(R) : R[i] = IF i <= k THEN x[i] ELSE 0
        BY <2>1, TailFacts
  <2> HIDE DEF x, W, N, r, R
  <2>4. TornTail = CASE R = <<>> -> "none"
                     [] W < N /\ IsPrefix(R, x) -> "short"
                     [] AllZero(R) -> "zero"
                     [] OTHER -> "mixed"
        BY Zenon DEF TornTail, R, W, N, x, r
  <2>5. TornTail /= "none"
        BY <1>3, <2>4
  <2>6. TornTail = "short" => IsPrefix(R, x)
        BY <1>3, <2>4
  <2>7. TornTail = "zero" => AllZero(R)
        BY <1>3, <2>4
  <2>8. TornTail \in {"short", "zero", "mixed"}
        BY <1>3, <2>4
  <2>9. IsPrefix(R, x) => Decode(codec, R).res = "eof"
    <3> SUFFICES ASSUME IsPrefix(R, x) PROVE Decode(codec, R).res = "eof"
        OBVIOUS
    <3>1. Len(R) <= Len(x) /\ SubSeq(R, 1, Len(R)) = SubSeq(x, 1, Len(R))
          BY DEF IsPrefix
    <3>2. \A i \in 1..Len(R) : R[i] = x[i]
      <4>1. SubSeq(R, 1, Len(R)) = R
            BY <1>1
      <4>2. \A i \in 1..Len(R) : SubSeq(x, 1, Len(R))[i] = x[i]
            BY <1>1, <2>2, <3>1
      <4> QED BY <3>1, <4>1, <4>2
    <3>3. Len(R) /= Len(x)
      <4> SUFFICES ASSUME Len(R) = Len(x) PROVE FALSE
          OBVIOUS
      <4> DEFINE e == EndOf(W)
      <4>1. /\ Begins(image, W) /\ e \in Nat /\ Len(R) = Len(image) - e
            /\ R = SubSeq(image, e + 1, Len(image))
            /\ image \in Seq(Nat) /\ Len(image) \in Nat
        <5>1. Begins(image, W) /\ e \in Nat
              BY <1>1, WholeFacts, InputFacts DEF W, N
        <5>2. Len(R) = Len(image) - e
              BY TailFacts DEF R, W
        <5>3. R = SubSeq(image, e + 1, Len(image))
              BY Zenon DEF Remainder, Rest, EndOf, FirstBytes, FirstN, R, W
        <5> QED BY <5>1, <5>2, <5>3, ImageFacts
      <4>2. e <= Len(image)
            BY <4>1 DEF Begins
      <4>3. \A i \in 1..Len(x) : image[e + i] = x[i]
        <5>1. \A i \in 1..(Len(image) - e) : R[i] = image[e + i]
          <6> HIDE DEF e
          <6> QED BY <4>1, <4>2, SubSeqFacts DEF Bytes
        <5> HIDE DEF e
        <5> QED BY <3>2, <4>1, <5>1
      <4>4. Begins(image, W + 1)
        <5>1. e + Size(codec, r) <= Len(image)
              BY <2>2, <4>1, <4>2
        <5>2. W \in Nat /\ W + 1 <= Len(written)
              BY <1>1, <2>1 DEF N
        <5> QED BY <2>2, <4>1, <4>3, <5>1, <5>2, BeginsNext DEF r, x
      <4> QED BY <2>1, <4>4, WholeFacts DEF W, N
    <3>4. Len(R) < Size(codec, r)
          BY <1>1, <2>2, <3>1, <3>3
    <3> QED BY <1>1, <2>1, <3>2, <3>4, DecodeShort DEF x
  <2>10. Decode(codec, R).res /= "ok"
    <3> DEFINE tells == \/ codec.sum
                        \/ codec.type /= 0 /\ r.type = CheckpointType
    <3>1. CASE tells
          BY <1>1, <2>1, <2>3, <3>1, DecodeTorn DEF x
    <3>2. CASE TornTail = "short"
      <4>1. Decode(codec, R).res = "eof"
            BY <2>6, <2>9, <3>2
      <4> QED BY <4>1
    <3>3. CASE codec.type /= 0 /\ TornTail = "zero"
          BY <1>1, <2>7, <3>3, DecodeZeros
    <3>4. W = 0 => r.type = CheckpointType
      <4>1. 0 + 1 = 1
            OBVIOUS
      <4> QED BY <4>1 DEF InputOK, r
    <3>5. \/ codec.sum \/ TornTail = "short"
          \/ codec.type /= 0 /\ (TornTail = "zero" \/ W = 0)
          BY <2>5, Zenon DEF Recognisable, W
    <3> QED BY <3>1, <3>2, <3>3, <3>4, <3>5
  <2>11. Decode(codec, R).res = "invalid" => TornTail /= "short"
         BY <2>6, <2>9
  <2> QED BY <1>3, <2>5, <2>7, <2>8, <2>10, <2>11 DEF R
<1> QED BY <1>2, <1>3

(* Each of the whole records is read back at its place.                    *)
LEMMA SegmentReads ==
    ASSUME InputOK, NEW f \in Seq(Nat), Begins(f, Whole), NEW i \in Nat,
           i + 1 <= Whole
    PROVE  /\ written[i + 1] \in Records(codec)
           /\ EndOf(i) \in Nat /\ Size(codec, written[i + 1]) \in Nat \ {0}
           /\ EndOf(i + 1) = EndOf(i) + Size(codec, written[i + 1])
           /\ EndOf(i + 1) <= EndOf(Whole) /\ EndOf(i) < Len(f)
           /\ \A b \in Nat : EndOf(i + 1) <= b /\ b <= Len(f) =>
                 Decode(codec, SubSeq(f, EndOf(i) + 1, b)) =
                    [res |-> "ok", size |-> Size(codec, written[i + 1]),
                     rec |-> written[i + 1]]
<1> DEFINE e == EndOf(i)
           r == written[i + 1]
           z == Size(codec, r)
           x == Encode(codec, r)
           g == FirstBytes(i + 1)
           h == FirstBytes(Whole)
<1>1. /\ codec \in Codec /\ written \in Seq(Records(codec))
      /\ Len(written) \in Nat /\ Whole \in 0..Len(written)
      BY InputFacts, WholeFacts DEF InputOK
<1>2. i + 1 <= Len(written) /\ i + 1 \in 0..Len(written)
      BY <1>1
<1>3. /\ e \in Nat /\ z \in Nat /\ z >= 4 /\ r \in Records(codec)
      /\ EndOf(i + 1) = e + z
      /\ \A j \in 1..z : g[e + j] = x[j]
      BY <1>1, <1>2, FrontGrows, Zenon DEF FirstBytes, EndOf
<1>4. EndOf(i + 1) <= EndOf(Whole) /\ \A j \in 1..EndOf(i + 1) : h[j] = g[j]
  <2>1. Whole \in (i + 1)..Len(written)
        BY <1>1
  <2> QED BY <1>1, <1>2, <2>1, FrontsArePrefixes DEF FirstBytes, EndOf
<1>5. EndOf(Whole) <= Len(f) /\ \A j \in 1..EndOf(Whole) : f[j] = h[j]
      BY DEF Begins
<1>6. EndOf(Whole) \in Nat /\ Len(f) \in Nat
      BY <1>1, InputFacts
<1> HIDE DEF e, r, z, x, g, h
<1>7. \A j \in 1..z : f[e + j] = x[j]
  <2> SUFFICES ASSUME NEW j \in 1..z PROVE f[e + j] = x[j]
      OBVIOUS
  <2>1. e + j \in 1..EndOf(i + 1) /\ e + j \in 1..EndOf(Whole)
        BY <1>3, <1>4, <1>6
  <2> QED BY <1>3, <1>4, <1>5, <2>1
<1>8. e + z <= Len(f)
      BY <1>3, <1>4, <1>5, <1>6
<1>9. ASSUME NEW b \in Nat, e + z <= b, b <= Len(f)
      PROVE  Decode(codec, SubSeq(f, e + 1, b)) =
                [res |-> "ok", size |-> z, rec |-> r]
  <2> DEFINE s == SubSeq(f, e + 1, b)
  <2>1. s \in Bytes /\ Len(s) = b - e /\ \A j \in 1..(b - e) : s[j] = f[e + j]
    <3>1. e <= b /\ f \in Bytes
          BY <1>3, <1>9 DEF Bytes
    <3> QED BY <1>3, <1>9, <3>1, SubSeqFacts
  <2> HIDE DEF s
  <2>2. z <= Len(s) /\ \A j \in 1..z : s[j] = x[j]
    <3>1. z <= b - e /\ \A j \in 1..z : j \in 1..(b - e)
          BY <1>3, <1>9
    <3>2. \A j \in 1..z : s[j] = x[j]
          BY <1>7, <2>1, <3>1, Zenon
    <3> QED BY <2>1, <3>1, <3>2
  <2>3. Decode(codec, s) = [res |-> "ok", size |-> z, rec |-> r]
        BY <1>1, <1>3, <2>1, <2>2, DecodeWhole DEF z, x
  <2> QED BY <2>3 DEF s
<1>10. z \in Nat \ {0} /\ e < Len(f)
       BY <1>3, <1>6, <1>8
<1>11. \A b \in Nat : EndOf(i + 1) <= b /\ b <= Len(f) =>
          Decode(codec, SubSeq(f, e + 1, b)) =
             [res |-> "ok", size |-> z, rec |-> r]
       BY <1>3, <1>9
<1> QED BY <1>3, <1>4, <1>10, <1>11 DEF e, r, z

(* The bytes of the whole records, alone.                                  *)
LEMMA WholeBytes ==
    ASSUME InputOK
    PROVE  LET w == FirstBytes(Whole)
           IN  /\ w \in Seq(Nat) /\ Len(w) = EndOf(Whole) /\ Begins(w, Whole)
               /\ EndOf(Whole) \in Nat /\ EndOf(Whole) <= Len(image)
               /\ SubSeq(image, 1, EndOf(Whole)) = w
               /\ Len(image) = EndOf(Whole) => image = w
<1> DEFINE w == FirstBytes(Whole)
<1>1. w \in Seq(Nat) /\ EndOf(Whole) \in Nat /\ EndOf(Whole) = Len(w)
      BY InputFacts, WholeFacts DEF EndOf
<1> DEFINE e == EndOf(Whole)
<1>2. /\ image \in Seq(Nat) /\ Len(image) \in Nat
      /\ e <= Len(image) /\ \A i \in 1..e : image[i] = w[i]
      BY ImageFacts, WholeFacts DEF Begins
<1>3. Begins(w, Whole)
      BY <1>1 DEF Begins
<1> HIDE DEF w, e
<1> DEFINE s == SubSeq(image, 1, e)
<1>4. s \in Seq(Nat) /\ Len(s) = e /\ \A i \in 1..e : s[i] = image[i]
      BY <1>1, <1>2 DEF e
<1> HIDE DEF s
<1>5. s = w
      BY <1>1, <1>2, <1>4, EqualBytes DEF e
<1>6. Len(image) = e => image = w
      BY <1>1, <1>2, EqualBytes DEF e
<1> QED BY <1>1, <1>2, <1>3, <1>5, <1>6 DEF w, e, s

-----------------------------------------------------------------------------
(* How far reading has come, if the codec tells damage from a record.      *)
Kept ==
    /\ file = IF scans = 1 /\ pc /= "done" THEN image ELSE FirstBytes(Whole)
    /\ scans = 1 => config.last

Progress ==
    /\ offsets \in Seq(Nat) /\ Len(offsets) \in 1..(Whole + 1)
    /\ \A j \in 1..Len(offsets) : offsets[j] = EndOf(j - 1)
    /\ records = SubSeq(written, 1, Len(offsets) - 1)

(* What the answers so far allow: reading goes on past the first record    *)
(* only if that is whole, and stops at the last one that is.               *)
Where ==
    /\ scans = 2 \/ pc \in {"next", "zeros", "truncate", "done"} => Whole >= 1
    /\ pc \in {"first_zeros", "zeros", "truncate"} => scans = 1
    /\ pc \in {"zeros", "truncate", "done"} => Len(offsets) = Whole + 1
    /\ pc \in {"first_zeros", "removed"} => Whole = 0
    /\ pc \in {"first_zeros", "zeros"} =>
          /\ Decode(codec, Remainder).res = "invalid"
          /\ zoff >= EndOf(Whole)
    /\ pc = "refused" =>
          /\ scans = 1
          /\ TornTail = "mixed" \/ (TornTail /= "none" /\ ~config.truncate)

ScanInv ==
    /\ InputOK /\ scans \in {1, 2} /\ config.truncate \in BOOLEAN
    /\ Recognisable => Kept /\ Progress /\ zoff \in Nat /\ Where

LEMMA HistoryFacts ==
    ASSUME NEW c \in Codec, NEW h \in Histories(c)
    PROVE  h \in Seq(Records(c)) /\ Len(h) >= 1 /\ h[1].type = CheckpointType
<1> PICK n \in 0..(MaxWritten - 1) :
       h \in {History(c, p, q) : p \in Payloads, q \in [1..n -> Payloads]}
    BY DEF Histories
<1>2. PICK p \in Payloads, q \in [1..n -> Payloads] : h = History(c, p, q)
      OBVIOUS
<1>3. Payloads \subseteq Seq(0..(Base - 1)) /\ n \in Nat
      BY ScanAssumption
<1> DEFINE R == Records(c)
           a == [type |-> CheckpointType, payload |-> p]
           t == [i \in DOMAIN q |-> [type |-> c.type, payload |-> q[i]]]
<1>4. a \in R
      BY <1>3 DEF Records
<1>5. \A i \in 1..n : [type |-> c.type, payload |-> q[i]] \in R
  <2>1. \A i \in 1..n : q[i] \in Seq(0..(Base - 1))
        BY <1>3
  <2> QED BY <2>1 DEF Records
<1>6. a.type = CheckpointType
      OBVIOUS
<1>7. t \in Seq(R) /\ Len(t) = n
  <2>1. t \in [1..n -> R]
    <3>1. DOMAIN q = 1..n
          OBVIOUS
    <3>2. t = [i \in 1..n |-> [type |-> c.type, payload |-> q[i]]]
          BY <3>1
    <3> QED BY <1>5, <3>2, Zenon
  <2> HIDE DEF R, t
  <2> QED BY <1>3, <2>1
<1> HIDE DEF R, a, t
<1>8. <<a>> \o t \in Seq(R) /\ Len(<<a>> \o t) >= 1 /\ (<<a>> \o t)[1] = a
      BY <1>3, <1>4, <1>7
<1> QED BY <1>2, <1>6, <1>8 DEF History, R, a, t

-----------------------------------------------------------------------------
LEMMA ScanInit == Init => ScanInv
<1> SUFFICES ASSUME Init PROVE ScanInv
    OBVIOUS
<1>1. InputOK
  <2>1. codec \in Codec
        BY DEF Init, Codec
  <2>2. written \in Histories(codec)
        BY DEF Init
  <2>3. image \in Images(EncodeAll(codec, written))
        BY DEF Init
  <2> QED BY <2>1, <2>2, <2>3, HistoryFacts DEF InputOK
<1>2. scans = 1 /\ pc = "first" /\ file = image /\ zoff = 0
      BY DEF Init
<1>3. config.truncate \in BOOLEAN /\ config.last
      BY DEF Init
<1>4. offsets = <<0>> /\ records = <<>>
      BY DEF Init
<1>5. Kept
      BY <1>2, <1>3 DEF Kept
<1>6. Progress
  <2>1. Whole \in Nat /\ EndOf(0) = 0 /\ written \in Seq(Records(codec))
        BY <1>1, WholeFacts, InputFacts DEF InputOK
  <2>2. offsets \in Seq(Nat) /\ Len(offsets) = 1 /\ offsets[1] = 0
        BY <1>4
  <2>3. SubSeq(written, 1, 0) = <<>>
        BY <2>1
  <2> QED BY <1>4, <2>1, <2>2, <2>3 DEF Progress
<1>7. Where
      BY <1>2 DEF Where
<1> QED BY <1>1, <1>2, <1>3, <1>5, <1>6, <1>7 DEF ScanInv

(* Reading changes nothing of what was written and left by the crash.      *)
LEMMA SameInput ==
    ASSUME UNCHANGED input
    PROVE  /\ InputOK' <=> InputOK
           /\ Whole' = Whole /\ Remainder' = Remainder
           /\ TornTail' = TornTail /\ (Recognisable' <=> Recognisable)
           /\ \A n : FirstBytes(n)' = FirstBytes(n) /\ EndOf(n)' = EndOf(n)
<1>1. written' = written /\ codec' = codec /\ image' = image
      BY DEF input
<1>2. Whole' = Whole
      BY <1>1, Zenon DEF Whole
<1>3. Remainder' = Remainder
      BY <1>1, <1>2, Zenon DEF Remainder
<1>4. TornTail' = TornTail
      BY <1>1, <1>2, <1>3, Zenon DEF TornTail
<1>5. Recognisable' <=> Recognisable
      BY <1>1, <1>2, <1>4, Zenon DEF Recognisable
<1>6. \A n : FirstBytes(n)' = FirstBytes(n)
      BY <1>1, Zenon DEF FirstBytes
<1>7. \A n : EndOf(n)' = EndOf(n)
      BY <1>6, Zenon DEF EndOf
<1>8. InputOK' <=> InputOK
      BY <1>1, Zenon DEF InputOK
<1> QED BY <1>2, <1>3, <1>4, <1>5, <1>6, <1>7, <1>8

(* The file always begins with the whole records.                          *)
LEMMA FileFacts ==
    ASSUME InputOK, Recognisable, Kept, Progress
    PROVE  /\ file \in Seq(Nat) /\ Len(file) \in Nat /\ Begins(file, Whole)
           /\ file = image \/ file = FirstBytes(Whole)
           /\ Len(offsets) - 1 \in 0..Whole
           /\ End = EndOf(Len(offsets) - 1) /\ End \in Nat
<1>1. /\ FirstBytes(Whole) \in Seq(Nat) /\ Begins(FirstBytes(Whole), Whole)
      /\ image \in Seq(Nat) /\ Begins(image, Whole)
      /\ Whole \in 0..Len(written) /\ Len(written) \in Nat
      BY WholeBytes, ImageFacts, WholeFacts, InputFacts
<1>2. file = image \/ file = FirstBytes(Whole)
      BY Zenon DEF Kept
<1>3. /\ offsets \in Seq(Nat) /\ Len(offsets) \in 1..(Whole + 1)
      /\ \A j \in 1..Len(offsets) : offsets[j] = EndOf(j - 1)
      BY DEF Progress
<1>4. Len(offsets) - 1 \in 0..Whole /\ Len(offsets) - 1 \in 0..Len(written)
      BY <1>1, <1>3
<1>5. End = offsets[Len(offsets)]
      BY Zenon DEF End, Last
<1>6. End = EndOf(Len(offsets) - 1)
  <2>1. Len(offsets) \in 1..Len(offsets)
        BY <1>1, <1>3
  <2> QED BY <1>3, <1>5, <2>1, Zenon
<1>7. End \in Nat
      BY <1>4, <1>6, InputFacts
<1> QED BY <1>1, <1>2, <1>4, <1>6, <1>7

(* Before the last whole record, the next item is a record; after it, the  *)
(* file ends, or what follows is not one.                                  *)
LEMMA ItemFacts ==
    ASSUME InputOK, Recognisable, Kept, Progress
    PROVE  LET i == Len(offsets) - 1
           IN  /\ i < Whole =>
                    /\ End < Len(file)
                    /\ Item = [res |-> "ok",
                               size |-> Size(codec, written[i + 1]),
                               rec |-> written[i + 1]]
                    /\ EndOf(i + 1) = End + Size(codec, written[i + 1])
                    /\ EndOf(i + 1) \in Nat
               /\ i = Whole /\ End /= Len(file) =>
                    /\ file = image /\ scans = 1 /\ config.last
                    /\ Item = Decode(codec, Remainder)
                    /\ Item.res /= "ok" /\ Remainder /= <<>>
<1> DEFINE i == Len(offsets) - 1
<1>1. /\ file \in Seq(Nat) /\ Len(file) \in Nat /\ Begins(file, Whole)
      /\ i \in 0..Whole /\ End = EndOf(i) /\ End \in Nat
      BY FileFacts
<1>2. Whole \in Nat
      BY WholeFacts
<1> HIDE DEF i
<1>3. Item = Decode(codec, SubSeq(file, End + 1, Len(file)))
      BY Zenon DEF Item, Rest
<1>4. ASSUME i < Whole
      PROVE  /\ End < Len(file)
             /\ Item = [res |-> "ok", size |-> Size(codec, written[i + 1]),
                        rec |-> written[i + 1]]
             /\ EndOf(i + 1) = End + Size(codec, written[i + 1])
             /\ EndOf(i + 1) \in Nat
  <2>1. i \in Nat /\ i + 1 <= Whole
        BY <1>1, <1>2, <1>4
  <2>2. /\ EndOf(i + 1) = EndOf(i) + Size(codec, written[i + 1])
        /\ Size(codec, written[i + 1]) \in Nat
        /\ EndOf(i + 1) <= EndOf(Whole) /\ EndOf(i) < Len(file)
        /\ \A b \in Nat : EndOf(i + 1) <= b /\ b <= Len(file) =>
              Decode(codec, SubSeq(file, EndOf(i) + 1, b)) =
                 [res |-> "ok", size |-> Size(codec, written[i + 1]),
                  rec |-> written[i + 1]]
        BY <1>1, <2>1, SegmentReads
  <2>3. EndOf(Whole) <= Len(file) /\ EndOf(Whole) \in Nat
        BY <1>1, WholeBytes DEF Begins
  <2>4. EndOf(i + 1) \in Nat /\ EndOf(i + 1) <= Len(file)
        BY <1>1, <2>2, <2>3
  <2>5. Len(file) <= Len(file)
        BY <1>1
  <2>6. Decode(codec, SubSeq(file, EndOf(i) + 1, Len(file))) =
           [res |-> "ok", size |-> Size(codec, written[i + 1]),
            rec |-> written[i + 1]]
        BY <1>1, <2>2, <2>4, <2>5, Zenon
  <2> QED BY <1>1, <1>3, <2>2, <2>4, <2>6
<1>5. ASSUME i = Whole, End /= Len(file)
      PROVE  /\ file = image /\ scans = 1 /\ config.last
             /\ Item = Decode(codec, Remainder)
             /\ Item.res /= "ok" /\ Remainder /= <<>>
  <2>1. file /= FirstBytes(Whole)
        BY <1>1, <1>5, WholeBytes
  <2>2. file = image /\ scans = 1
        BY <2>1, Zenon DEF Kept
  <2>3. config.last
        BY <2>2 DEF Kept
  <2>4. Remainder = SubSeq(image, EndOf(Whole) + 1, Len(image))
        BY Zenon DEF Remainder, Rest, EndOf, FirstBytes, FirstN
  <2>5. Item = Decode(codec, Remainder)
        BY <1>1, <1>3, <1>5, <2>2, <2>4
  <2>6. Remainder /= <<>>
    <3>1. Len(Remainder) = Len(image) - EndOf(Whole)
          BY TailFacts
    <3>2. Len(Remainder) /= 0
          BY <1>1, <1>5, <2>2, <3>1
    <3> QED BY <3>2
  <2>7. Item.res /= "ok"
        BY <2>5, RemainderFacts
  <2> QED BY <2>2, <2>3, <2>5, <2>6, <2>7
<1> QED BY <1>4, <1>5 DEF i

-----------------------------------------------------------------------------
(* The invariant after a step, in terms of what was written before it.     *)
LEMMA StepForms ==
    ASSUME UNCHANGED input
    PROVE  /\ Kept' <=>
                /\ file' = IF scans' = 1 /\ pc' /= "done" THEN image
                           ELSE FirstBytes(Whole)
                /\ scans' = 1 => config'.last
           /\ Progress' <=>
                /\ offsets' \in Seq(Nat) /\ Len(offsets') \in 1..(Whole + 1)
                /\ \A j \in 1..Len(offsets') : offsets'[j] = EndOf(j - 1)
                /\ records' = SubSeq(written, 1, Len(offsets') - 1)
           /\ Where' <=>
                /\ scans' = 2 \/ pc' \in {"next", "zeros", "truncate", "done"}
                      => Whole >= 1
                /\ pc' \in {"first_zeros", "zeros", "truncate"} => scans' = 1
                /\ pc' \in {"zeros", "truncate", "done"} =>
                      Len(offsets') = Whole + 1
                /\ pc' \in {"first_zeros", "removed"} => Whole = 0
                /\ pc' \in {"first_zeros", "zeros"} =>
                      /\ Decode(codec, Remainder).res = "invalid"
                      /\ zoff' >= EndOf(Whole)
                /\ pc' = "refused" =>
                      /\ scans' = 1
                      /\ \/ TornTail = "mixed"
                         \/ TornTail /= "none" /\ ~config'.truncate
<1>1. /\ written' = written /\ codec' = codec /\ image' = image
      /\ Whole' = Whole /\ Remainder' = Remainder /\ TornTail' = TornTail
      BY SameInput DEF input
<1>2. Kept' <=>
        /\ file' = IF scans' = 1 /\ pc' /= "done" THEN image
                   ELSE FirstBytes(Whole)
        /\ scans' = 1 => config'.last
      BY <1>1, Zenon DEF Kept, FirstBytes
<1>3. Progress' <=>
        /\ offsets' \in Seq(Nat) /\ Len(offsets') \in 1..(Whole + 1)
        /\ \A j \in 1..Len(offsets') : offsets'[j] = EndOf(j - 1)
        /\ records' = SubSeq(written, 1, Len(offsets') - 1)
      BY <1>1, Zenon DEF Progress, EndOf, FirstBytes
<1>4. Where' <=>
        /\ scans' = 2 \/ pc' \in {"next", "zeros", "truncate", "done"}
              => Whole >= 1
        /\ pc' \in {"first_zeros", "zeros", "truncate"} => scans' = 1
        /\ pc' \in {"zeros", "truncate", "done"} =>
              Len(offsets') = Whole + 1
        /\ pc' \in {"first_zeros", "removed"} => Whole = 0
        /\ pc' \in {"first_zeros", "zeros"} =>
              /\ Decode(codec, Remainder).res = "invalid"
              /\ zoff' >= EndOf(Whole)
        /\ pc' = "refused" =>
              /\ scans' = 1
              /\ \/ TornTail = "mixed"
                 \/ TornTail /= "none" /\ ~config'.truncate
      BY <1>1, Zenon DEF Where, EndOf, FirstBytes
<1> QED BY <1>2, <1>3, <1>4

LEMMA ScanStep ==
    ASSUME ScanInv, UNCHANGED input, config'.truncate = config.truncate,
           scans' \in {1, 2},
           Recognisable /\ Kept /\ Progress /\ zoff \in Nat /\ Where =>
              Kept' /\ Progress' /\ zoff' \in Nat /\ Where'
    PROVE  ScanInv'
BY SameInput, Zenon DEF ScanInv

LEMMA FirstRecordStep ==
    ASSUME ScanInv, FirstRecord
    PROVE  ScanInv'
<1>1. /\ UNCHANGED input /\ config' = config /\ scans' = scans /\ file' = file
      /\ offsets' = offsets /\ records' = records /\ zoff' = 0
      /\ pc = "first"
      BY DEF FirstRecord
<1>2. pc' = CASE Decode(codec, file).res = "ok" -> "next"
              [] Decode(codec, file).res = "eof" -> "removed"
              [] OTHER -> "first_zeros"
      BY DEF FirstRecord
<1>3. InputOK /\ scans \in {1, 2}
      BY DEF ScanInv
<1>4. ASSUME Recognisable, Kept, Progress, Where
      PROVE  Kept' /\ Progress' /\ zoff' \in Nat /\ Where'
  <2>1. /\ file \in Seq(Nat) /\ Len(file) \in Nat /\ Begins(file, Whole)
        BY <1>3, <1>4, FileFacts
  <2>2. SubSeq(file, 1, Len(file)) = file /\ 0 + 1 = 1
        BY <2>1
  <2>3. Whole \in Nat /\ EndOf(0) = 0
        BY <1>3, WholeFacts, InputFacts
  <2>4. pc' \in {"next", "removed", "first_zeros"}
        BY <1>2
  <2>5. Kept'
    <3>1. pc' /= "done"
          BY <2>4
    <3> QED BY <1>1, <1>4, <3>1, StepForms DEF Kept
  <2>6. Progress'
        BY <1>1, <1>4, StepForms DEF Progress
  <2>7. CASE Whole >= 1
    <3>1. Decode(codec, file).res = "ok"
      <4>1. 0 \in Nat /\ 0 + 1 <= Whole
            BY <2>3, <2>7
      <4>2. /\ EndOf(0 + 1) = EndOf(0) + Size(codec, written[0 + 1])
            /\ Size(codec, written[0 + 1]) \in Nat
            /\ EndOf(0 + 1) <= EndOf(Whole)
            /\ \A b \in Nat : EndOf(0 + 1) <= b /\ b <= Len(file) =>
                  Decode(codec, SubSeq(file, EndOf(0) + 1, b)) =
                     [res |-> "ok", size |-> Size(codec, written[0 + 1]),
                      rec |-> written[0 + 1]]
            BY <1>3, <2>1, <4>1, SegmentReads
      <4>3. EndOf(Whole) <= Len(file) /\ EndOf(Whole) \in Nat
            BY <1>3, <2>1, WholeBytes DEF Begins
      <4>4. EndOf(0 + 1) <= Len(file) /\ Len(file) <= Len(file)
        <5>1. EndOf(0 + 1) \in Nat
              BY <2>3, <4>2
        <5> QED BY <2>1, <4>2, <4>3, <5>1
      <4>5. Decode(codec, SubSeq(file, EndOf(0) + 1, Len(file))) =
               [res |-> "ok", size |-> Size(codec, written[0 + 1]),
                rec |-> written[0 + 1]]
            BY <2>1, <4>2, <4>4, Zenon
      <4>6. SubSeq(file, EndOf(0) + 1, Len(file)) = file
            BY <2>2, <2>3
      <4> DEFINE z == Size(codec, written[0 + 1])
                 r == written[0 + 1]
      <4>7. Decode(codec, file) = [res |-> "ok", size |-> z, rec |-> r]
            BY <4>5, <4>6, Zenon
      <4> HIDE DEF z, r
      <4> QED BY <4>7
    <3>2. pc' = "next"
          BY <1>2, <3>1
    <3> QED BY <1>1, <2>5, <2>6, <2>7, <3>2, StepForms
  <2>8. CASE Whole = 0
    <3>1. scans = 1 /\ file = image
          BY <1>1, <1>3, <1>4, <2>8 DEF Where, Kept
    <3>2. Remainder = file
      <4>1. Remainder = SubSeq(image, EndOf(Whole) + 1, Len(image))
            BY Zenon DEF Remainder, Rest, EndOf, FirstBytes, FirstN
      <4> QED BY <2>2, <2>3, <2>8, <3>1, <4>1
    <3>3. Decode(codec, Remainder).res /= "ok"
          BY <1>3, <1>4, RemainderFacts
    <3>4. CASE Decode(codec, Remainder).res = "eof"
      <4>1. pc' = "removed"
            BY <1>2, <3>2, <3>4
      <4> QED BY <1>1, <2>5, <2>6, <2>8, <3>1, <4>1, StepForms
    <3>5. CASE Decode(codec, Remainder).res = "invalid"
      <4>1. pc' = "first_zeros"
            BY <1>2, <3>2, <3>5
      <4>2. zoff' >= EndOf(Whole)
            BY <1>1, <2>3, <2>8
      <4> QED BY <1>1, <2>5, <2>6, <2>8, <3>1, <3>5, <4>1, <4>2, StepForms
    <3>6. Decode(codec, Remainder).res \in {"ok", "eof", "invalid"}
          BY <1>3, TailFacts, DecodeKinds DEF InputOK
    <3> QED BY <3>3, <3>4, <3>5, <3>6
  <2> QED BY <2>3, <2>7, <2>8
<1> QED BY <1>1, <1>3, <1>4, ScanStep

LEMMA EndOfFileStep ==
    ASSUME ScanInv, EndOfFile
    PROVE  ScanInv'
<1>1. /\ UNCHANGED input /\ config' = config /\ scans' = scans /\ file' = file
      /\ offsets' = offsets /\ records' = records /\ zoff' = zoff
      /\ pc = "next" /\ pc' = "done" /\ End = Len(file)
      BY DEF EndOfFile
<1>2. InputOK /\ scans \in {1, 2}
      BY DEF ScanInv
<1>3. ASSUME Recognisable, Kept, Progress, zoff \in Nat, Where
      PROVE  Kept' /\ Progress' /\ zoff' \in Nat /\ Where'
  <2>1. /\ Len(offsets) - 1 \in 0..Whole /\ End = EndOf(Len(offsets) - 1)
        /\ Len(file) \in Nat
        BY <1>2, <1>3, FileFacts
  <2>2. Whole \in Nat
        BY <1>2, WholeFacts
  <2>3. ~(Len(offsets) - 1 < Whole)
    <3>1. Len(offsets) - 1 < Whole => End < Len(file)
          BY <1>2, <1>3, ItemFacts
    <3> QED BY <1>1, <2>1, <3>1
  <2>4. Len(offsets) - 1 = Whole
        BY <2>1, <2>2, <2>3
  <2>5. Len(offsets) = Whole + 1
    <3>1. Len(offsets) \in Nat
          BY <1>3 DEF Progress
    <3> QED BY <2>2, <2>4, <3>1
  <2>6. file = FirstBytes(Whole)
    <3>1. file = image \/ file = FirstBytes(Whole)
          BY <1>2, <1>3, FileFacts
    <3>2. Len(file) = EndOf(Whole)
          BY <1>1, <2>1, <2>4
    <3> QED BY <1>2, <3>1, <3>2, WholeBytes
  <2>7. Kept'
    <3>1. scans = 1 => config.last
          BY <1>3 DEF Kept
    <3>2. file' = IF scans' = 1 /\ pc' /= "done" THEN image
                  ELSE FirstBytes(Whole)
          BY <1>1, <2>6
    <3> QED BY <1>1, <3>1, <3>2, StepForms
  <2>8. Progress'
        BY <1>1, <1>3, StepForms DEF Progress
  <2>9. Whole >= 1
        BY <1>1, <1>3 DEF Where
  <2>10. Where'
         BY <1>1, <2>5, <2>9, StepForms
  <2> QED BY <1>1, <1>3, <2>7, <2>8, <2>10
<1> QED BY <1>1, <1>2, <1>3, ScanStep

LEMMA NextRecordStep ==
    ASSUME ScanInv, NextRecord
    PROVE  ScanInv'
<1>1. /\ UNCHANGED input /\ config' = config /\ scans' = scans /\ file' = file
      /\ zoff' = zoff /\ pc = "next" /\ pc' = pc
      /\ End /= Len(file) /\ Item.res = "ok"
      BY DEF NextRecord
<1>2. /\ offsets' = Append(offsets, End + Item.size)
      /\ records' = Append(records, Item.rec)
      BY DEF NextRecord
<1>3. InputOK /\ scans \in {1, 2}
      BY DEF ScanInv
<1>4. ASSUME Recognisable, Kept, Progress, zoff \in Nat, Where
      PROVE  Kept' /\ Progress' /\ zoff' \in Nat /\ Where'
  <2> DEFINE i == Len(offsets) - 1
  <2>1. i \in 0..Whole
        BY <1>3, <1>4, FileFacts
  <2>2. Whole \in Nat /\ Whole <= Len(written) /\ Len(written) \in Nat
        BY <1>3, WholeFacts, InputFacts
  <2>3. i /= Whole
    <3>1. i = Whole /\ End /= Len(file) => Item.res /= "ok"
          BY <1>3, <1>4, ItemFacts
    <3> QED BY <1>1, <3>1
  <2>4. i < Whole
        BY <2>1, <2>2, <2>3
  <2>5. /\ Item.size = Size(codec, written[i + 1])
        /\ Item.rec = written[i + 1]
        /\ EndOf(i + 1) = End + Size(codec, written[i + 1])
        /\ EndOf(i + 1) \in Nat
    <3> DEFINE z == Size(codec, written[i + 1])
               r == written[i + 1]
    <3>1. /\ Item = [res |-> "ok", size |-> z, rec |-> r]
          /\ EndOf(i + 1) = End + z /\ EndOf(i + 1) \in Nat
          BY <1>3, <1>4, <2>4, ItemFacts, Zenon
    <3> HIDE DEF z, r
    <3>2. Item.size = z /\ Item.rec = r
          BY <3>1
    <3> QED BY <3>1, <3>2 DEF z, r
  <2>6. /\ offsets \in Seq(Nat) /\ Len(offsets) \in 1..(Whole + 1)
        /\ \A j \in 1..Len(offsets) : offsets[j] = EndOf(j - 1)
        /\ records = SubSeq(written, 1, i)
        BY <1>4 DEF Progress
  <2>7. offsets' = Append(offsets, EndOf(i + 1))
        BY <1>2, <2>5
  <2>8. Len(offsets) = i + 1 /\ i \in Nat /\ i + 1 <= Len(written)
        BY <2>1, <2>2, <2>4, <2>6
  <2>9. records' = SubSeq(written, 1, i + 1)
    <3>1. records' = Append(SubSeq(written, 1, i), written[i + 1])
          BY <1>2, <2>5, <2>6
    <3>2. written \in Seq(Records(codec))
          BY <1>3 DEF InputOK
    <3> HIDE DEF i
    <3>3. Append(SubSeq(written, 1, i), written[i + 1]) =
             SubSeq(written, 1, i + 1)
          BY <2>2, <2>8, <3>2
    <3> QED BY <3>1, <3>3
  <2> HIDE DEF i
  <2>10. /\ offsets' \in Seq(Nat) /\ Len(offsets') = i + 2
         /\ \A j \in 1..Len(offsets) : offsets'[j] = offsets[j]
         /\ offsets'[i + 2] = EndOf(i + 1)
         BY <2>5, <2>6, <2>7, <2>8
  <2>11. \A j \in 1..Len(offsets') : offsets'[j] = EndOf(j - 1)
    <3> SUFFICES ASSUME NEW j \in 1..Len(offsets')
                 PROVE  offsets'[j] = EndOf(j - 1)
        OBVIOUS
    <3>1. CASE j = i + 2
      <4>1. j - 1 = i + 1
            BY <2>8, <3>1
      <4> QED BY <2>10, <3>1, <4>1
    <3>2. CASE j /= i + 2
      <4>1. j \in 1..Len(offsets)
            BY <2>8, <2>10, <3>2
      <4> QED BY <2>6, <2>10, <4>1
    <3> QED BY <3>1, <3>2
  <2>12. Len(offsets') \in 1..(Whole + 1) /\ Len(offsets') - 1 = i + 1
         BY <2>2, <2>4, <2>8, <2>10
  <2>13. Progress'
         BY <1>1, <2>9, <2>10, <2>11, <2>12, StepForms
  <2>14. Kept'
         BY <1>1, <1>4, StepForms DEF Kept
  <2>15. Where'
    <3>1. Whole >= 1
          BY <1>1, <1>4 DEF Where
    <3> QED BY <1>1, <3>1, StepForms
  <2> QED BY <1>1, <1>4, <2>13, <2>14, <2>15
<1> QED BY <1>1, <1>3, <1>4, ScanStep

(* An error is met only after the last whole record, in the file as the    *)
(* crash left it.                                                          *)
LEMMA ErrorFacts ==
    ASSUME InputOK, Recognisable, Kept, Progress, End /= Len(file),
           Item.res /= "ok"
    PROVE  /\ Len(offsets) = Whole + 1 /\ End = EndOf(Whole)
           /\ scans = 1 /\ config.last /\ file = image
           /\ Item = Decode(codec, Remainder)
           /\ Remainder /= <<>> /\ TornTail /= "none"
<1> DEFINE i == Len(offsets) - 1
<1>1. i \in 0..Whole /\ End = EndOf(i)
      BY FileFacts
<1>2. Whole \in Nat /\ Len(offsets) \in Nat
      BY WholeFacts DEF Progress
<1>3. ~(i < Whole)
  <2> SUFFICES ASSUME i < Whole PROVE FALSE
      OBVIOUS
  <2> DEFINE z == Size(codec, written[i + 1])
             r == written[i + 1]
  <2>1. Item = [res |-> "ok", size |-> z, rec |-> r]
        BY ItemFacts, Zenon
  <2> HIDE DEF z, r
  <2> QED BY <2>1
<1>4. i = Whole
      BY <1>1, <1>2, <1>3
<1>5. /\ scans = 1 /\ config.last /\ file = image
      /\ Item = Decode(codec, Remainder) /\ Remainder /= <<>>
      BY <1>4, ItemFacts
<1>6. TornTail /= "none"
      BY <1>5, RemainderFacts
<1>7. Len(offsets) = Whole + 1
      BY <1>2, <1>4
<1> QED BY <1>1, <1>4, <1>5, <1>6, <1>7

LEMMA IncompleteRecordStep ==
    ASSUME ScanInv, IncompleteRecord
    PROVE  ScanInv'
<1>1. /\ UNCHANGED input /\ config' = config /\ scans' = scans /\ file' = file
      /\ offsets' = offsets /\ records' = records /\ zoff' = zoff
      /\ pc = "next" /\ End /= Len(file) /\ Item.res = "eof"
      BY DEF IncompleteRecord
<1>2. pc' = IF CanTruncate THEN "truncate" ELSE "refused"
      BY DEF IncompleteRecord
<1>3. InputOK /\ scans \in {1, 2}
      BY DEF ScanInv
<1>4. ASSUME Recognisable, Kept, Progress, zoff \in Nat, Where
      PROVE  Kept' /\ Progress' /\ zoff' \in Nat /\ Where'
  <2>1. Item.res /= "ok"
        BY <1>1
  <2>2. /\ Len(offsets) = Whole + 1 /\ scans = 1 /\ config.last
        /\ TornTail /= "none" /\ file = image
        BY <1>1, <1>3, <1>4, <2>1, ErrorFacts
  <2>3. pc' \in {"truncate", "refused"}
        BY <1>2
  <2>4. Kept'
        BY <1>1, <2>2, <2>3, StepForms
  <2>5. Progress'
        BY <1>1, <1>4, StepForms DEF Progress
  <2>6. Whole >= 1
        BY <1>1, <1>4 DEF Where
  <2>7. pc' = "refused" => ~config'.truncate
        BY <1>1, <1>2, <2>2 DEF CanTruncate
  <2>8. Where'
        BY <1>1, <2>2, <2>3, <2>6, <2>7, StepForms
  <2> QED BY <1>1, <1>4, <2>4, <2>5, <2>8
<1> QED BY <1>1, <1>3, <1>4, ScanStep

LEMMA InvalidRecordStep ==
    ASSUME ScanInv, InvalidRecord
    PROVE  ScanInv'
<1>1. /\ UNCHANGED input /\ config' = config /\ scans' = scans /\ file' = file
      /\ offsets' = offsets /\ records' = records /\ zoff' = End
      /\ pc = "next" /\ End /= Len(file) /\ Item.res = "invalid"
      /\ pc' = "zeros"
      BY DEF InvalidRecord
<1>2. InputOK /\ scans \in {1, 2}
      BY DEF ScanInv
<1>3. ASSUME Recognisable, Kept, Progress, zoff \in Nat, Where
      PROVE  Kept' /\ Progress' /\ zoff' \in Nat /\ Where'
  <2>1. Item.res /= "ok"
        BY <1>1
  <2>2. /\ Len(offsets) = Whole + 1 /\ scans = 1 /\ config.last
        /\ file = image /\ End = EndOf(Whole)
        /\ Item = Decode(codec, Remainder)
        BY <1>1, <1>2, <1>3, <2>1, ErrorFacts
  <2>3. Kept'
        BY <1>1, <2>2, StepForms
  <2>4. Progress'
        BY <1>1, <1>3, StepForms DEF Progress
  <2>5. Whole >= 1
        BY <1>1, <1>3 DEF Where
  <2>6. End \in Nat
        BY <1>2, <1>3, FileFacts
  <2>7. zoff' >= EndOf(Whole)
        BY <1>1, <2>2, <2>6
  <2>8. Decode(codec, Remainder).res = "invalid"
        BY <1>1, <2>2
  <2>9. Where'
        BY <1>1, <2>2, <2>5, <2>7, <2>8, StepForms
  <2> QED BY <1>1, <2>3, <2>4, <2>6, <2>9
<1> QED BY <1>1, <1>2, <1>3, ScanStep

(* A block the zero check looks at is a part of the file.                  *)
LEMMA BlockFacts ==
    ASSUME file \in Seq(Nat), zoff \in Nat
    PROVE  /\ Len(BlockAt(zoff)) \in Nat
           /\ \A j \in 1..Len(BlockAt(zoff)) :
                 /\ zoff + j \in 1..Len(file)
                 /\ BlockAt(zoff)[j] = file[zoff + j]
<1> DEFINE a == zoff + Block
           l == Len(file)
           m == Min({a, l})
<1>1. a \in Nat /\ l \in Nat
      BY ScanAssumption
<1> HIDE DEF a, l
<1>2. m \in Nat /\ m <= l
  <2>1. \E x \in {a, l} : \A y \in {a, l} : x <= y
        BY <1>1
  <2>2. m \in {a, l} /\ \A y \in {a, l} : m <= y
        BY <2>1 DEF Min
  <2> HIDE DEF m
  <2> QED BY <1>1, <2>2
<1>3. BlockAt(zoff) = SubSeq(file, zoff + 1, m)
      BY DEF BlockAt, a, l
<1> HIDE DEF m
<1> DEFINE b == SubSeq(file, zoff + 1, m)
<1>4. CASE zoff <= m
  <2>1. /\ Len(b) = m - zoff
        /\ \A j \in 1..(m - zoff) : b[j] = file[zoff + j]
        BY <1>1, <1>2, <1>4, SubSeqFacts DEF Bytes, l
  <2> HIDE DEF b
  <2>2. Len(b) \in Nat
        BY <1>2, <1>4, <2>1
  <2>3. \A j \in 1..Len(b) : zoff + j \in 1..l /\ b[j] = file[zoff + j]
        BY <1>1, <1>2, <1>4, <2>1
  <2> QED BY <1>3, <2>2, <2>3 DEF b, l
<1>5. CASE zoff > m
  <2>1. Len(b) = 0
        BY <1>2, <1>5
  <2> HIDE DEF b
  <2>2. Len(BlockAt(zoff)) = 0
        BY <1>3, <2>1 DEF b
  <2>3. \A j \in 1..0 : FALSE
        OBVIOUS
  <2> QED BY <2>2, <2>3
<1> QED BY <1>2, <1>4, <1>5

LEMMA ZeroBlockStep ==
    ASSUME ScanInv, ZeroBlock
    PROVE  ScanInv'
<1>1. /\ UNCHANGED input /\ config' = config /\ scans' = scans /\ file' = file
      /\ offsets' = offsets /\ records' = records /\ pc' = pc
      /\ zoff' = zoff + Len(BlockAt(zoff))
      /\ pc \in {"first_zeros", "zeros"}
      BY DEF ZeroBlock
<1>2. InputOK /\ scans \in {1, 2}
      BY DEF ScanInv
<1>3. ASSUME Recognisable, Kept, Progress, zoff \in Nat, Where
      PROVE  Kept' /\ Progress' /\ zoff' \in Nat /\ Where'
  <2>1. file \in Seq(Nat)
        BY <1>2, <1>3, FileFacts
  <2>2. Len(BlockAt(zoff)) \in Nat
        BY <1>3, <2>1, BlockFacts
  <2>3. EndOf(Whole) \in Nat
        BY <1>2, WholeBytes
  <2>4. zoff' \in Nat /\ zoff' >= zoff
        BY <1>1, <1>3, <2>2
  <2>5. Kept'
        BY <1>1, <1>3, StepForms DEF Kept
  <2>6. Progress'
        BY <1>1, <1>3, StepForms DEF Progress
  <2>7. zoff' >= EndOf(Whole)
    <3>1. zoff >= EndOf(Whole)
          BY <1>1, <1>3 DEF Where
    <3> QED BY <1>3, <2>3, <2>4, <3>1
  <2>8. Where'
        BY <1>1, <1>3, <2>7, StepForms DEF Where
  <2> QED BY <2>4, <2>5, <2>6, <2>8
<1> QED BY <1>1, <1>2, <1>3, ScanStep

LEMMA ZerosEndStep ==
    ASSUME ScanInv, ZerosEnd
    PROVE  ScanInv'
<1>1. /\ UNCHANGED input /\ config' = config /\ scans' = scans /\ file' = file
      /\ offsets' = offsets /\ records' = records /\ zoff' = zoff
      /\ pc \in {"first_zeros", "zeros"}
      BY DEF ZerosEnd
<1>2. BlockAt(zoff) = <<>> \/ ~AllZero(BlockAt(zoff))
      BY DEF ZerosEnd
<1> DEFINE ended == BlockAt(zoff) = <<>>
<1>3. pc' = CASE pc = "first_zeros" /\ ended -> "removed"
              [] pc = "zeros" /\ ended /\ CanTruncate -> "truncate"
              [] OTHER -> "refused"
      BY DEF ZerosEnd, Verdict
<1>4. InputOK /\ scans \in {1, 2}
      BY DEF ScanInv
<1>5. ASSUME Recognisable, Kept, Progress, zoff \in Nat, Where
      PROVE  Kept' /\ Progress' /\ zoff' \in Nat /\ Where'
  <2>1. /\ scans = 1 /\ Decode(codec, Remainder).res = "invalid"
        /\ zoff >= EndOf(Whole)
        /\ pc = "first_zeros" => Whole = 0
        /\ pc = "zeros" => Whole >= 1 /\ Len(offsets) = Whole + 1
        BY <1>1, <1>5 DEF Where
  <2>2. file = image /\ config.last
        BY <1>1, <1>5, <2>1 DEF Kept
  <2>3. Remainder /= <<>>
    <3> SUFFICES ASSUME Remainder = <<>> PROVE FALSE
        OBVIOUS
    <3>1. Remainder \in Bytes /\ codec \in Codec /\ Len(Remainder) < 2
          BY <1>4, TailFacts DEF InputOK
    <3>2. Decode(codec, Remainder).res = "eof"
          BY <3>1, DecodeCases, Zenon
    <3> QED BY <2>1, <3>2
  <2>4. /\ TornTail /= "none"
        /\ TornTail /= "mixed" => AllZero(Remainder)
        BY <1>4, <1>5, <2>1, <2>3, RemainderFacts
  <2>5. ~ended => TornTail = "mixed"
    <3> SUFFICES ASSUME ~ended, AllZero(Remainder) PROVE FALSE
        BY <2>4
    <3>1. ~AllZero(BlockAt(zoff))
          BY <1>2
    <3>2. PICK j \in 1..Len(BlockAt(zoff)) : BlockAt(zoff)[j] /= 0
          BY <3>1 DEF AllZero
    <3>3. image \in Seq(Nat) /\ Len(image) \in Nat
          BY <1>4, ImageFacts
    <3>4. /\ Len(BlockAt(zoff)) \in Nat
          /\ zoff + j \in 1..Len(image) /\ image[zoff + j] /= 0
          BY <1>5, <2>2, <3>2, <3>3, BlockFacts
    <3> DEFINE e == EndOf(Whole)
               d == (zoff - e) + j
    <3>5. e \in Nat /\ e <= Len(image) /\ e <= zoff
          BY <1>4, <2>1, WholeBytes
    <3>6. Remainder = SubSeq(image, e + 1, Len(image))
          BY Zenon DEF Remainder, Rest, EndOf, FirstBytes, FirstN
    <3> HIDE DEF e
    <3>7. /\ Len(Remainder) = Len(image) - e
          /\ \A i \in 1..(Len(image) - e) : Remainder[i] = image[e + i]
      <4>1. Len(image) <= Len(image)
            BY <3>3
      <4> QED BY <3>3, <3>5, <3>6, <4>1, SubSeqFacts DEF Bytes
    <3>8. d \in 1..(Len(image) - e) /\ e + d = zoff + j
          BY <1>5, <3>3, <3>4, <3>5
    <3> HIDE DEF d
    <3>9. Remainder[d] /= 0
          BY <3>4, <3>7, <3>8
    <3> QED BY <3>7, <3>8, <3>9 DEF AllZero
  <2> HIDE DEF ended
  <2>6. pc' \in {"removed", "truncate", "refused"}
        BY <1>3
  <2>7. pc' = "removed" => Whole = 0
        BY <1>3, <2>1
  <2>8. pc' = "truncate" => Whole >= 1 /\ Len(offsets) = Whole + 1
        BY <1>3, <2>1
  <2>9. pc' = "refused" => ~ended \/ ~config.truncate
        BY <1>1, <1>3, <2>2 DEF CanTruncate
  <2>10. Kept'
         BY <1>1, <2>1, <2>2, <2>6, StepForms
  <2>11. Progress'
         BY <1>1, <1>5, StepForms DEF Progress
  <2>12. Where'
         BY <1>1, <2>1, <2>4, <2>5, <2>6, <2>7, <2>8, <2>9, StepForms
  <2> QED BY <1>1, <1>5, <2>10, <2>11, <2>12
<1> QED BY <1>1, <1>4, <1>5, ScanStep

LEMMA TruncateStep ==
    ASSUME ScanInv, Truncate
    PROVE  ScanInv'
<1>1. /\ UNCHANGED input /\ config' = config /\ scans' = scans
      /\ offsets' = offsets /\ records' = records /\ zoff' = zoff
      /\ pc = "truncate" /\ pc' = "done" /\ file' = SubSeq(file, 1, End)
      BY DEF Truncate
<1>2. InputOK /\ scans \in {1, 2}
      BY DEF ScanInv
<1>3. ASSUME Recognisable, Kept, Progress, zoff \in Nat, Where
      PROVE  Kept' /\ Progress' /\ zoff' \in Nat /\ Where'
  <2>1. scans = 1 /\ Len(offsets) = Whole + 1 /\ Whole >= 1
        BY <1>1, <1>3 DEF Where
  <2>2. file = image /\ config.last
        BY <1>1, <1>3, <2>1 DEF Kept
  <2>3. End = EndOf(Whole)
    <3>1. End = EndOf(Len(offsets) - 1)
          BY <1>2, <1>3, FileFacts
    <3>2. Whole \in Nat
          BY <1>2, WholeFacts
    <3>3. Len(offsets) - 1 = Whole
          BY <2>1, <3>2
    <3> QED BY <3>1, <3>3
  <2>4. file' = FirstBytes(Whole)
        BY <1>1, <1>2, <2>2, <2>3, WholeBytes
  <2>5. Kept'
        BY <1>1, <2>2, <2>4, StepForms
  <2>6. Progress'
        BY <1>1, <1>3, StepForms DEF Progress
  <2>7. Where'
        BY <1>1, <2>1, StepForms
  <2> QED BY <1>1, <1>3, <2>5, <2>6, <2>7
<1> QED BY <1>1, <1>2, <1>3, ScanStep

LEMMA ReopenStep ==
    ASSUME ScanInv, Reopen
    PROVE  ScanInv'
<1>1. /\ UNCHANGED input /\ file' = file /\ zoff' = zoff /\ scans' = 2
      /\ pc = "done" /\ offsets' = <<0>> /\ records' = <<>>
      /\ pc' \in {"first", "next"}
      BY DEF Reopen
<1>2. config' = [config EXCEPT !.last = (file = image)]
      BY DEF Reopen
<1>3. InputOK /\ scans \in {1, 2}
      BY DEF ScanInv
<1>4. config'.truncate = config.truncate
      BY <1>2
<1>5. ASSUME Recognisable, Kept, Progress, zoff \in Nat, Where
      PROVE  Kept' /\ Progress' /\ zoff' \in Nat /\ Where'
  <2>1. file = FirstBytes(Whole)
        BY <1>1, <1>5 DEF Kept
  <2>2. Whole >= 1 /\ Whole \in Nat
        BY <1>1, <1>3, <1>5, WholeFacts DEF Where
  <2>3. Kept'
        BY <1>1, <2>1, StepForms
  <2>4. Progress'
    <3>1. EndOf(0) = 0 /\ written \in Seq(Records(codec))
          BY <1>3, InputFacts DEF InputOK
    <3>2. offsets' \in Seq(Nat) /\ Len(offsets') = 1 /\ offsets'[1] = 0
          BY <1>1
    <3>3. SubSeq(written, 1, 0) = <<>>
          BY <3>1
    <3>4. /\ Len(offsets') \in 1..(Whole + 1) /\ Len(offsets') - 1 = 0
          /\ \A j \in 1..Len(offsets') : offsets'[j] = EndOf(j - 1)
          BY <2>2, <3>1, <3>2
    <3> QED BY <1>1, <3>2, <3>3, <3>4, StepForms
  <2>5. Where'
        BY <1>1, <2>2, StepForms
  <2> QED BY <1>1, <1>5, <2>3, <2>4, <2>5
<1> QED BY <1>1, <1>3, <1>4, <1>5, ScanStep

LEMMA ScanStutter ==
    ASSUME ScanInv, UNCHANGED vars
    PROVE  ScanInv'
<1>1. /\ UNCHANGED input /\ config' = config /\ scans' = scans /\ file' = file
      /\ offsets' = offsets /\ records' = records /\ zoff' = zoff /\ pc' = pc
      BY DEF vars
<1>2. scans \in {1, 2}
      BY DEF ScanInv
<1>3. ASSUME Recognisable, Kept, Progress, zoff \in Nat, Where
      PROVE  Kept' /\ Progress' /\ zoff' \in Nat /\ Where'
  <2>1. Kept'
        BY <1>1, <1>3, StepForms DEF Kept
  <2>2. Progress'
        BY <1>1, <1>3, StepForms DEF Progress
  <2>3. Where'
        BY <1>1, <1>3, StepForms DEF Where
  <2> QED BY <1>1, <1>3, <2>1, <2>2, <2>3
<1> QED BY <1>1, <1>2, <1>3, ScanStep

LEMMA ScanInvariant == Spec => []ScanInv
<1>1. Init => ScanInv
      BY ScanInit
<1>2. ScanInv /\ [Next]_vars => ScanInv'
  <2> SUFFICES ASSUME ScanInv, [Next]_vars PROVE ScanInv'
      OBVIOUS
  <2>1. CASE FirstRecord
        BY <2>1, FirstRecordStep
  <2>2. CASE EndOfFile
        BY <2>2, EndOfFileStep
  <2>3. CASE NextRecord
        BY <2>3, NextRecordStep
  <2>4. CASE IncompleteRecord
        BY <2>4, IncompleteRecordStep
  <2>5. CASE InvalidRecord
        BY <2>5, InvalidRecordStep
  <2>6. CASE ZeroBlock
        BY <2>6, ZeroBlockStep
  <2>7. CASE ZerosEnd
        BY <2>7, ZerosEndStep
  <2>8. CASE Truncate
        BY <2>8, TruncateStep
  <2>9. CASE Reopen
        BY <2>9, ReopenStep
  <2>10. CASE Ended
    <3>1. UNCHANGED vars
          BY <2>10 DEF Ended
    <3> QED BY <3>1, ScanStutter
  <2>11. CASE UNCHANGED vars
         BY <2>11, ScanStutter
  <2> QED BY <2>1, <2>2, <2>3, <2>4, <2>5, <2>6, <2>7, <2>8, <2>9, <2>10,
             <2>11, Zenon DEF Next, ReadStep
<1> QED BY <1>1, <1>2, PTL DEF Spec

-----------------------------------------------------------------------------
(* A chunk that is opened gives back exactly the records that were written *)
(* whole, at the offsets that are the sums of their sizes: open_with_      *)
(* truncate and RecordIterator::next, on every image a crash may leave.    *)
THEOREM ScansExactly == Spec => []ScanExact
<1>1. ScanInv => ScanExact
  <2> SUFFICES ASSUME ScanInv, pc = "done", Recognisable
               PROVE  /\ records = SubSeq(written, 1, Whole)
                      /\ file = EncodeAll(codec, records)
                      /\ Len(offsets) = Whole + 1
                      /\ \A i \in 1..Whole :
                            /\ offsets[i + 1] =
                                  offsets[i] + Len(Encode(codec, written[i]))
                            /\ ReadRecord(offsets[i], offsets[i + 1]).rec =
                                  written[i]
      BY Zenon DEF ScanExact
  <2>1. InputOK /\ Kept /\ Progress /\ Where
        BY DEF ScanInv
  <2>2. Whole \in Nat /\ Len(offsets) = Whole + 1 /\ Len(offsets) - 1 = Whole
        BY <2>1, WholeFacts DEF Where
  <2>3. records = SubSeq(written, 1, Whole)
        BY <2>1, <2>2 DEF Progress
  <2>4. file = FirstBytes(Whole)
        BY <2>1 DEF Kept
  <2>5. file = EncodeAll(codec, records)
        BY <2>3, <2>4, Zenon DEF FirstBytes, FirstN
  <2>6. file \in Seq(Nat) /\ Len(file) = EndOf(Whole) /\ Begins(file, Whole)
        BY <2>1, <2>4, WholeBytes
  <2>7. ASSUME NEW i \in 1..Whole
        PROVE  /\ offsets[i + 1] = offsets[i] + Len(Encode(codec, written[i]))
               /\ ReadRecord(offsets[i], offsets[i + 1]).rec = written[i]
    <3> DEFINE j == i - 1
               z == Size(codec, written[i])
               r == written[i]
    <3>1. j \in Nat /\ j + 1 = i /\ j + 1 <= Whole
          BY <2>2
    <3>2. offsets[i] = EndOf(j) /\ offsets[i + 1] = EndOf(i)
      <4>1. i \in 1..Len(offsets) /\ i + 1 \in 1..Len(offsets) /\ i + 1 - 1 = i
            BY <2>2
      <4>2. \A k \in 1..Len(offsets) : offsets[k] = EndOf(k - 1)
            BY <2>1 DEF Progress
      <4> QED BY <4>1, <4>2
    <3> HIDE DEF j, z, r
    <3>3. /\ written[j + 1] \in Records(codec)
          /\ EndOf(j) \in Nat /\ Size(codec, written[j + 1]) \in Nat \ {0}
          /\ EndOf(j + 1) = EndOf(j) + Size(codec, written[j + 1])
          /\ EndOf(j + 1) <= EndOf(Whole)
          /\ \A b \in Nat : EndOf(j + 1) <= b /\ b <= Len(file) =>
                Decode(codec, SubSeq(file, EndOf(j) + 1, b)) =
                   [res |-> "ok", size |-> Size(codec, written[j + 1]),
                    rec |-> written[j + 1]]
          BY <2>1, <2>6, <3>1, SegmentReads
    <3>4. /\ r \in Records(codec) /\ EndOf(j) \in Nat /\ z \in Nat
          /\ EndOf(i) = EndOf(j) + z /\ EndOf(i) <= EndOf(Whole)
          /\ \A b \in Nat : EndOf(i) <= b /\ b <= Len(file) =>
                Decode(codec, SubSeq(file, EndOf(j) + 1, b)) =
                   [res |-> "ok", size |-> z, rec |-> r]
          BY <3>1, <3>3 DEF z, r
    <3>5. EndOf(i) \in Nat /\ EndOf(i) <= EndOf(i) /\ EndOf(i) <= Len(file)
          BY <2>6, <3>4
    <3>6. Decode(codec, SubSeq(file, EndOf(j) + 1, EndOf(i))) =
             [res |-> "ok", size |-> z, rec |-> r]
          BY <3>4, <3>5, Zenon
    <3>7. ReadRecord(offsets[i], offsets[i + 1]) =
             [res |-> "ok", size |-> z, rec |-> r]
          BY <3>2, <3>6, Zenon DEF ReadRecord
    <3>8. Len(Encode(codec, written[i])) = z
          BY <2>1, <3>4, EncodeFacts DEF InputOK, z, r
    <3> QED BY <3>2, <3>4, <3>7, <3>8 DEF r
  <2> QED BY <2>2, <2>3, <2>5, <2>7
<1> QED BY <1>1, ScanInvariant, PTL

(* Recovery gives up a file only if nothing in it was written whole, and   *)
(* refuses one only if truncation is off or zeros replaced a part of a     *)
(* record, and never after it was truncated: has_complete_initial_record,  *)
(* handle_record_error and verify_trailing_zeros.                          *)
THEOREM TornTailsAreCut == Spec => []TornTailAccepted
<1>1. ScanInv => TornTailAccepted
  <2> SUFFICES ASSUME ScanInv, Recognisable
               PROVE  /\ pc = "removed" => Whole = 0
                      /\ pc = "refused" =>
                            \/ TornTail = "mixed"
                            \/ TornTail /= "none" /\ ~config.truncate
                      /\ pc = "refused" => scans = 1
      BY Zenon DEF TornTailAccepted
  <2>1. Where
        BY DEF ScanInv
  <2> QED BY <2>1 DEF Where
<1> QED BY <1>1, ScanInvariant, PTL

=============================================================================
