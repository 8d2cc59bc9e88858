---------------------------- MODULE Mbox_proofs ----------------------------
(***************************************************************************)
(* Theorems about Mbox for any folders, contents, sizes and number of      *)
(* changes.  A separator has its rank among those of the content: what a   *)
(* scan counts is the rank of the line it is at, and the offsets that are  *)
(* saved are the places of the separators by rank.                         *)
(***************************************************************************)
EXTENDS Mbox, FiniteSetTheorems, SequenceTheorems, WellFoundedInduction, TLAPS

-----------------------------------------------------------------------------
(* The rank of a line among those of a set.                                *)

LEMMA Least ==
    ASSUME NEW T \in SUBSET Nat, T # {}
    PROVE  \E i \in T : \A j \in T : i <= j
  <1> DEFINE R == {ss \in Nat \X Nat : ss[1] < ss[2]}
  <1>1. IsWellFoundedOn(R, Nat)
    BY NatLessThanWellFounded DEF OpToRel
  <1>2. PICK i \in T : \A j \in T : ~ (<<j, i>> \in R)
    BY <1>1, WFMin
  <1>3. \A j \in T : ~ (j < i)
    BY <1>2
  <1>4. QED
    BY <1>3

(* Counting to a line: never more than there are, more to a later line, as *)
(* many to a line that only others that are not counted separate.          *)
LEMMA Ranks ==
    ASSUME NEW N \in Nat, NEW S, \A q \in S : q \in 1 .. N
    PROVE  /\ IsFiniteSet(S) /\ Cardinality(S) \in Nat
           /\ \A p \in Nat : UpTo(S, p) \in 0 .. Cardinality(S)
           /\ \A p, r \in Nat : p <= r => UpTo(S, p) <= UpTo(S, r)
           /\ \A p, r \in Nat :
                 p <= r /\ (\A q \in S : q <= p \/ r < q) => UpTo(S, p) = UpTo(S, r)
           /\ \A p \in Nat, r \in S :
                 p < r /\ (\A q \in S : q <= p \/ r <= q) => UpTo(S, r) = UpTo(S, p) + 1
           /\ \A p \in Nat, r \in S : p < r => UpTo(S, p) < UpTo(S, r)
           /\ UpTo(S, 0) = 0 /\ UpTo(S, N) = Cardinality(S)
  <1> DEFINE To(p) == {q \in S : q <= p}
  <1>0. \A q \in S : q \in Nat /\ 1 <= q /\ q <= N
    OBVIOUS
  <1>1. IsFiniteSet(S) /\ Cardinality(S) \in Nat
    <2>1. IsFiniteSet(1 .. N)
      BY FS_Interval
    <2>2. S \in SUBSET (1 .. N)
      OBVIOUS
    <2>3. IsFiniteSet(S)
      BY <2>1, <2>2, FS_Subset
    <2>4. QED
      BY <2>3, FS_CardinalityType
  <1>2. \A p : IsFiniteSet(To(p)) /\ Cardinality(To(p)) \in Nat /\ UpTo(S, p) = Cardinality(To(p))
               /\ Cardinality(To(p)) <= Cardinality(S)
    <2> TAKE p
    <2>1. To(p) \in SUBSET S
      BY <1>0
    <2>2. QED
      BY <1>1, <2>1, FS_Subset, FS_CardinalityType DEF UpTo
  <1> HIDE DEF To
  <1>3. \A p \in Nat : UpTo(S, p) \in 0 .. Cardinality(S)
    BY <1>1, <1>2
  <1>4. \A p, r \in Nat : p <= r => UpTo(S, p) <= UpTo(S, r)
    <2> TAKE p, r \in Nat
    <2> HAVE p <= r
    <2>1. To(p) \in SUBSET To(r)
      BY <1>0 DEF To
    <2>2. QED
      BY <1>2, <2>1, FS_Subset
  <1>5. \A p, r \in Nat :
            p <= r /\ (\A q \in S : q <= p \/ r < q) => UpTo(S, p) = UpTo(S, r)
    <2> TAKE p, r \in Nat
    <2> HAVE p <= r /\ (\A q \in S : q <= p \/ r < q)
    <2>1. To(p) = To(r)
      BY <1>0 DEF To
    <2>2. QED
      BY <1>2, <2>1
  <1>6. \A p \in Nat, r \in S :
            p < r /\ (\A q \in S : q <= p \/ r <= q) => UpTo(S, r) = UpTo(S, p) + 1
    <2> TAKE p \in Nat, r \in S
    <2> HAVE p < r /\ (\A q \in S : q <= p \/ r <= q)
    <2>1. To(r) = To(p) \cup {r} /\ r \notin To(p)
      BY <1>0 DEF To
    <2>2. QED
      BY <1>2, <2>1, FS_AddElement
  <1>7. \A p \in Nat, r \in S : p < r => UpTo(S, p) < UpTo(S, r)
    <2> TAKE p \in Nat, r \in S
    <2> HAVE p < r
    <2>1. To(p) \in SUBSET To(r) /\ To(p) # To(r)
      BY <1>0 DEF To
    <2>2. Cardinality(To(p)) <= Cardinality(To(r)) /\ Cardinality(To(p)) # Cardinality(To(r))
      BY <1>2, <2>1, FS_Subset
    <2>3. QED
      BY <1>2, <2>2
  <1>8. UpTo(S, 0) = 0 /\ UpTo(S, N) = Cardinality(S)
    <2>1. To(0) = {} /\ To(N) = S
      BY <1>0 DEF To
    <2>2. QED
      BY <1>2, <2>1, FS_EmptySet
  <1>9. QED
    BY <1>1, <1>3, <1>4, <1>5, <1>6, <1>7, <1>8

LEMMA SameRank ==
    ASSUME NEW N \in Nat, NEW S, \A q \in S : q \in 1 .. N,
           NEW p \in Nat, NEW r \in Nat, p <= r, \A q \in S : q <= p \/ r < q
    PROVE  UpTo(S, p) = UpTo(S, r)
  BY Ranks

LEMMA NextRank ==
    ASSUME NEW N \in Nat, NEW S, \A q \in S : q \in 1 .. N,
           NEW p \in Nat, NEW r \in S, p < r, \A q \in S : q <= p \/ r <= q
    PROVE  UpTo(S, r) = UpTo(S, p) + 1
  BY Ranks

LEMMA FirstRank ==
    ASSUME NEW N \in Nat, NEW S, \A q \in S : q \in 1 .. N, 1 \in S
    PROVE  UpTo(S, 0) = 0 /\ UpTo(S, 1) = 1
  <1>1. UpTo(S, 0) = 0
    BY Ranks
  <1>2. \A q \in S : q <= 0 \/ 1 <= q
    OBVIOUS
  <1>3. UpTo(S, 1) = UpTo(S, 0) + 1
    BY <1>2, NextRank
  <1>4. QED
    BY <1>1, <1>3

LEMMA LowerRank ==
    ASSUME NEW N \in Nat, NEW S, \A q \in S : q \in 1 .. N,
           NEW p \in Nat, NEW r \in S, p < r
    PROVE  UpTo(S, p) < UpTo(S, r)
  BY Ranks

LEMMA RankTyped ==
    ASSUME NEW N \in Nat, NEW S, \A q \in S : q \in 1 .. N
    PROVE  Cardinality(S) \in Nat /\ \A p \in Nat : UpTo(S, p) \in Nat
  BY Ranks

LEMMA LastRank ==
    ASSUME NEW N \in Nat, NEW S, \A q \in S : q \in 1 .. N
    PROVE  UpTo(S, N) = Cardinality(S)
  BY Ranks

(* The ranks of the lines from the line s on.                              *)
LEMMA RanksFrom ==
    ASSUME NEW N \in Nat, NEW S, \A q \in S : q \in 1 .. N, NEW s \in Nat \ {0},
           NEW p \in Nat, s <= p + 1
    PROVE  UpTo(S, p) = UpTo(S, s - 1) + UpTo({q \in S : q >= s}, p)
  <1> DEFINE low == {q \in S : q <= s - 1}
             high == {q \in {q \in S : q >= s} : q <= p}
  <1>1. IsFiniteSet(S)
    BY Ranks
  <1>2. IsFiniteSet(low) /\ IsFiniteSet(high)
    BY <1>1, FS_Subset
  <1>3. {q \in S : q <= p} = low \cup high /\ low \cap high = {}
    OBVIOUS
  <1>4. Cardinality(low) \in Nat /\ Cardinality(high) \in Nat
    BY <1>2, FS_CardinalityType
  <1>5. Cardinality(low \cup high) = Cardinality(low) + Cardinality(high) - Cardinality(low \cap high)
    BY <1>2, FS_Union
  <1>6. Cardinality(low \cap high) = 0
    BY <1>3, FS_EmptySet
  <1> HIDE DEF low, high
  <1>7. Cardinality(low \cup high) = Cardinality(low) + Cardinality(high)
    BY <1>4, <1>5, <1>6
  <1>8. QED
    BY <1>3, <1>7 DEF UpTo, low, high

(* A rank is that of one line.                                             *)
LEMMA RankIsOf ==
    ASSUME NEW N \in Nat, NEW S, \A q \in S : q \in 1 .. N
    PROVE  /\ \A p \in S : UpTo(S, p) \in 1 .. Cardinality(S)
           /\ \A p, q \in S : UpTo(S, p) = UpTo(S, q) => p = q
           /\ \A m \in 1 .. Cardinality(S) : \E p \in S : UpTo(S, p) = m
  <1>1. Cardinality(S) \in Nat /\ \A p \in Nat : UpTo(S, p) \in 0 .. Cardinality(S)
    BY Ranks
  <1>2. \A p \in Nat, r \in S : p < r => UpTo(S, p) < UpTo(S, r)
    BY Ranks
  <1>3. UpTo(S, 0) = 0 /\ UpTo(S, N) = Cardinality(S)
    BY Ranks
  <1>4. \A p \in S : UpTo(S, p) \in 1 .. Cardinality(S)
    <2> TAKE p \in S
    <2>1. 0 \in Nat /\ p \in Nat /\ 0 < p
      OBVIOUS
    <2>2. UpTo(S, 0) < UpTo(S, p) /\ UpTo(S, p) \in 0 .. Cardinality(S)
      BY <1>1, <1>2, <2>1
    <2>3. QED
      BY <1>1, <1>3, <2>2
  <1>5. \A p, q \in S : UpTo(S, p) = UpTo(S, q) => p = q
    <2> TAKE p, q \in S
    <2>1. UpTo(S, p) \in Nat /\ UpTo(S, q) \in Nat /\ p \in Nat /\ q \in Nat
      BY <1>1
    <2>2. (p < q => UpTo(S, p) < UpTo(S, q)) /\ (q < p => UpTo(S, q) < UpTo(S, p))
      BY <1>2, <2>1
    <2>3. QED
      BY <2>1, <2>2
  <1>6. \A m \in 1 .. Cardinality(S) : \E p \in S : UpTo(S, p) = m
    <2> TAKE m \in 1 .. Cardinality(S)
    <2> DEFINE T == {p \in Nat : UpTo(S, p) >= m}
    <2>1. N \in T
      BY <1>1, <1>3
    <2>2. PICK p \in T : \A j \in T : p <= j
      BY <2>1, Least
    <2>3. p \in Nat /\ p # 0
      BY <1>1, <1>3
    <2>4. p - 1 \in Nat /\ p - 1 \notin T
      BY <2>2, <2>3
    <2>5. UpTo(S, p - 1) < m /\ UpTo(S, p) >= m
      BY <1>1, <2>4
    <2>6. p \in S
      <3>1. SUFFICES ASSUME p \notin S PROVE FALSE
        OBVIOUS
      <3>2. \A q \in S : q <= p - 1 \/ p < q
        BY <2>3, <3>1
      <3>3. UpTo(S, p - 1) = UpTo(S, p)
        BY <2>3, <2>4, <3>2, Ranks
      <3>4. QED
        BY <1>1, <2>3, <2>4, <2>5, <3>3
    <2>7. UpTo(S, p) = UpTo(S, p - 1) + 1
      <3>1. \A q \in S : q <= p - 1 \/ p <= q
        BY <2>3
      <3>2. p - 1 < p
        BY <2>3
      <3>3. \A o \in Nat, r \in S :
                o < r /\ (\A q \in S : q <= o \/ r <= q) => UpTo(S, r) = UpTo(S, o) + 1
        BY Ranks
      <3> HIDE DEF T
      <3>4. QED
        BY <2>4, <2>6, <3>1, <3>2, <3>3
    <2>8. UpTo(S, p) = m
      BY <1>1, <2>3, <2>4, <2>5, <2>7
    <2>9. QED
      BY <2>6, <2>8
  <1>7. QED
    BY <1>4, <1>5, <1>6

(* The lines in their order: each at its rank.                             *)
LEMMA Ordered ==
    ASSUME NEW N \in Nat, NEW S, \A q \in S : q \in 1 .. N
    PROVE  /\ InOrder(S) \in Seq(S) /\ Len(InOrder(S)) = Cardinality(S)
           /\ DOMAIN InOrder(S) = 1 .. Cardinality(S)
           /\ \A i \in 1 .. Cardinality(S) :
                 InOrder(S)[i] \in S /\ UpTo(S, InOrder(S)[i]) = i
           /\ \A p \in S : InOrder(S)[UpTo(S, p)] = p
  <1>1. Cardinality(S) \in Nat
    BY Ranks
  <1>2. \A i \in 1 .. Cardinality(S) : InOrder(S)[i] \in S /\ UpTo(S, InOrder(S)[i]) = i
    BY RankIsOf DEF InOrder
  <1>3. InOrder(S) \in [1 .. Cardinality(S) -> S]
    BY <1>2 DEF InOrder
  <1>4. InOrder(S) \in Seq(S) /\ Len(InOrder(S)) = Cardinality(S)
    BY <1>1, <1>3
  <1>5. \A p \in S : InOrder(S)[UpTo(S, p)] = p
    BY <1>2, RankIsOf
  <1>6. QED
    BY <1>2, <1>3, <1>4, <1>5

(* The lines of two sets, one before the other.                            *)
LEMMA Joined ==
    ASSUME NEW N \in Nat, NEW S, \A q \in S : q \in 1 .. N, NEW s \in Nat \ {0}
    PROVE  InOrder({q \in S : q < s}) \o InOrder({q \in S : q >= s}) = InOrder(S)
  <1> DEFINE low == {q \in S : q < s}
             high == {q \in S : q >= s}
             a == Cardinality(low)
             d == Cardinality(high)
  <1>0. (\A q \in S : q \in Nat) /\ s \in Nat /\ s - 1 \in Nat /\ \A q \in S : q < s <=> q <= s - 1
    OBVIOUS
  <1>1. (\A q \in low : q \in 1 .. N) /\ (\A q \in high : q \in 1 .. N)
    OBVIOUS
  <1>2. a \in Nat /\ d \in Nat /\ Cardinality(S) \in Nat
    BY <1>1, Ranks
  <1>3. \A p \in low : UpTo(S, p) = UpTo(low, p)
    <2> TAKE p \in low
    <2>1. {q \in S : q <= p} = {q \in low : q <= p}
      BY <1>0
    <2>2. QED
      BY <2>1 DEF UpTo
  <1>4. UpTo(S, s - 1) = a
    <2>1. {q \in S : q <= s - 1} = low
      BY <1>0
    <2>2. QED
      BY <2>1 DEF UpTo
  <1>5. \A p \in high : UpTo(S, p) = a + UpTo(high, p)
    BY <1>4, RanksFrom
  <1>6. Cardinality(S) = a + d
    <2>1. IsFiniteSet(low) /\ IsFiniteSet(high)
      BY <1>1, Ranks
    <2>2. low \cup high = S /\ low \cap high = {}
      BY <1>0
    <2>3. Cardinality(low \cup high) = Cardinality(low) + Cardinality(high) - Cardinality(low \cap high)
      BY <2>1, FS_Union
    <2>4. Cardinality(low \cap high) = 0
      BY <2>2, FS_EmptySet
    <2>5. Cardinality(S) = Cardinality(low) + Cardinality(high) - 0
      BY <2>2, <2>3, <2>4
    <2> HIDE DEF low, high
    <2>6. QED
      BY <1>2, <2>5
  <1> HIDE DEF a, d
  <1>7. /\ InOrder(low) \in Seq(Nat) /\ Len(InOrder(low)) = a
        /\ InOrder(high) \in Seq(Nat) /\ Len(InOrder(high)) = d
        /\ InOrder(S) \in Seq(Nat) /\ Len(InOrder(S)) = a + d
    BY <1>1, <1>6, Ordered DEF a, d
  <1>8. /\ InOrder(low) \o InOrder(high) \in Seq(Nat)
        /\ Len(InOrder(low) \o InOrder(high)) = a + d
        /\ \A i \in 1 .. a + d : (InOrder(low) \o InOrder(high))[i] =
              IF i <= a THEN InOrder(low)[i] ELSE InOrder(high)[i - a]
    BY <1>7, ConcatProperties
  <1>9. \A i \in 1 .. a + d : (InOrder(low) \o InOrder(high))[i] = InOrder(S)[i]
    <2> TAKE i \in 1 .. a + d
    <2>1. CASE i <= a
      <3> DEFINE p == InOrder(low)[i]
      <3>1. p \in low /\ UpTo(low, p) = i
        BY <1>1, <1>2, <2>1, Ordered DEF a
      <3>2. p \in S /\ UpTo(S, p) = i
        BY <1>3, <3>1
      <3>3. InOrder(S)[i] = p
        BY <3>2, Ordered
      <3>4. QED
        BY <1>8, <2>1, <3>3
    <2>2. CASE ~ (i <= a)
      <3> DEFINE p == InOrder(high)[i - a]
      <3>0. i - a \in 1 .. d
        BY <1>2, <2>2
      <3>1. p \in high /\ UpTo(high, p) = i - a
        BY <1>1, <3>0, Ordered DEF d
      <3>2. p \in S /\ UpTo(S, p) = i
        BY <1>2, <1>5, <3>1
      <3>3. InOrder(S)[i] = p
        BY <3>2, Ordered
      <3>4. QED
        BY <1>8, <2>2, <3>3
    <2>3. QED
      BY <2>1, <2>2
  <1>10. QED
    BY <1>2, <1>7, <1>8, <1>9, SeqEqual

(* The lines between two, in their order.                                  *)
LEMMA OrderedInterval ==
    ASSUME NEW x \in Nat \ {0}, NEW y \in Nat, x <= y + 1
    PROVE  /\ DOMAIN InOrder(x .. y) = 1 .. y - x + 1
           /\ \A i \in 1 .. y - x + 1 : InOrder(x .. y)[i] = x + i - 1
  <1> DEFINE S == x .. y
  <1>1. \A q \in S : q \in 1 .. y
    OBVIOUS
  <1>2. Cardinality(S) = y - x + 1
    <2>1. Cardinality(x .. y) = IF x > y THEN 0 ELSE y - x + 1
      BY FS_Interval
    <2>2. QED
      BY <2>1
  <1>3. \A i \in 1 .. y - x + 1 : x + i - 1 \in S /\ UpTo(S, x + i - 1) = i
    <2> TAKE i \in 1 .. y - x + 1
    <2>1. {q \in S : q <= x + i - 1} = x .. (x + i - 1)
      OBVIOUS
    <2>2. x + i - 1 \in Nat /\ x + i - 1 <= y /\ x <= x + i - 1 /\ x + i - 1 - x + 1 = i
      OBVIOUS
    <2>3. Cardinality(x .. (x + i - 1)) = IF x > x + i - 1 THEN 0 ELSE x + i - 1 - x + 1
      BY <2>2, FS_Interval
    <2>4. UpTo(S, x + i - 1) = Cardinality(x .. (x + i - 1))
      BY <2>1 DEF UpTo
    <2>5. UpTo(S, x + i - 1) = i
      BY <2>2, <2>3, <2>4
    <2>6. QED
      BY <2>2, <2>5
  <1>4. QED
    BY <1>1, <1>2, <1>3, Ordered

-----------------------------------------------------------------------------
(* Messages.                                                               *)

(* Where the message that begins at the line p ends: the next one's line,  *)
(* or the one after the folder.                                            *)
NextBegin(b, c, p) ==
    LET after == {q \in Begins(b, c) : q > p}
    IN  IF after = {} THEN Len(c) + 1 ELSE Min(after)

LEMMA FolderLines ==
    ASSUME NEW b, NEW c \in Seq(Line)
    PROVE  /\ Len(c) \in Nat /\ DOMAIN c = 1 .. Len(c)
           /\ \A q \in Begins(b, c) : q \in 1 .. Len(c)
           /\ \A q \in Begins(b, c) : c[q] = From
           /\ WellFormed(b, c) => 1 \in Begins(b, c)
  <1>1. Len(c) \in Nat /\ DOMAIN c = 1 .. Len(c)
    BY LenProperties
  <1>2. \A q \in Begins(b, c) : q \in 1 .. Len(c) /\ c[q] = From
    BY <1>1 DEF Begins
  <1>3. c # <<>> => 1 \in DOMAIN c
    BY <1>1, EmptySeq
  <1>4. WellFormed(b, c) => 1 \in Begins(b, c)
    BY <1>3 DEF WellFormed
  <1>5. QED
    BY <1>1, <1>2, <1>4

LEMMA MessageEnds ==
    ASSUME NEW b, NEW c \in Seq(Line), NEW p \in Begins(b, c)
    PROVE  /\ p \in 1 .. Len(c)
           /\ NextBegin(b, c, p) \in (p + 1) .. (Len(c) + 1)
           /\ NextBegin(b, c, p) <= Len(c) => NextBegin(b, c, p) \in Begins(b, c)
           /\ \A q \in Begins(b, c) : q <= p \/ NextBegin(b, c, p) <= q
           /\ Message(b, c, p) = SubSeq(c, p + 1, NextBegin(b, c, p) - 1)
           /\ UpTo(Begins(b, c), p) \in 1 .. Cardinality(Begins(b, c))
           /\ \A q \in Begins(b, c) :
                 UpTo(Begins(b, c), q) = UpTo(Begins(b, c), p) + 1 <=> q = NextBegin(b, c, p)
           /\ \A q \in Nat :
                 q < NextBegin(b, c, p) =>
                     (UpTo(Begins(b, c), q) = UpTo(Begins(b, c), p) <=> p <= q)
           /\ NextBegin(b, c, p) > Len(c) =>
                 UpTo(Begins(b, c), p) = Cardinality(Begins(b, c))
  <1> DEFINE B == Begins(b, c)
             after == {q \in B : q > p}
             e == NextBegin(b, c, p)
  <1>0. p \in B /\ p \in 1 .. Len(c) /\ p \in Nat
    BY FolderLines
  <1>1. Len(c) \in Nat /\ \A q \in B : q \in 1 .. Len(c)
    BY FolderLines
  <1>2. /\ e \in (p + 1) .. (Len(c) + 1)
        /\ e <= Len(c) => e \in B
        /\ \A q \in B : q <= p \/ e <= q
        /\ Message(b, c, p) = SubSeq(c, p + 1, e - 1)
    <2>1. CASE after = {}
      <3>1. e = Len(c) + 1
        BY <2>1 DEF NextBegin
      <3>2. Message(b, c, p) = SubSeq(c, p + 1, Len(c))
        BY <2>1 DEF Message
      <3>3. \A q \in B : q <= p
        BY <1>0, <1>1, <2>1
      <3> HIDE DEF after, e, B
      <3>4. Len(c) + 1 - 1 = Len(c)
        BY <1>0, <1>1
      <3>5. QED
        BY <1>0, <1>1, <3>1, <3>2, <3>3, <3>4
    <2>2. CASE after # {}
      <3>1. \A q \in after : q \in Nat
        BY <1>0, <1>1
      <3>2. \E i \in after : \A j \in after : i <= j
        BY <2>2, <3>1, Least, after \in SUBSET Nat
      <3>3. Min(after) \in after /\ \A j \in after : Min(after) <= j
        BY <3>2 DEF Min
      <3>4. e = Min(after)
        BY <2>2 DEF NextBegin
      <3>5. Message(b, c, p) = SubSeq(c, p + 1, Min(after) - 1)
        BY <2>2 DEF Message
      <3>6. e \in B /\ e > p /\ \A q \in B : q > p => e <= q
        BY <3>3, <3>4
      <3> HIDE DEF after, e, B
      <3>7. QED
        BY <1>0, <1>1, <3>4, <3>5, <3>6
    <2>3. QED
      BY <2>1, <2>2
  <1> HIDE DEF after, e, B
  <1>3. \A q \in Nat : UpTo(B, q) \in 0 .. Cardinality(B)
    BY <1>1, Ranks
  <1>4. Cardinality(B) \in Nat /\ UpTo(B, p) \in 1 .. Cardinality(B)
    BY <1>0, <1>1, Ranks, RankIsOf
  <1>5. \A q \in Nat, r \in B : q < r => UpTo(B, q) < UpTo(B, r)
    BY <1>1, Ranks
  <1>6. \A q, r \in Nat : q <= r => UpTo(B, q) <= UpTo(B, r)
    BY <1>1, Ranks
  <1>7. e \in B => UpTo(B, e) = UpTo(B, p) + 1
    <2>1. p < e
      BY <1>0, <1>1, <1>2
    <2>2. QED
      BY <1>0, <1>1, <1>2, <2>1, NextRank
  <1>8. \A q \in B : UpTo(B, q) = UpTo(B, p) + 1 <=> q = e
    <2> TAKE q \in B
    <2>1. ASSUME UpTo(B, q) = UpTo(B, p) + 1 PROVE q = e
      <3>1. q > p
        <4>1. q <= p => UpTo(B, q) <= UpTo(B, p)
          BY <1>0, <1>1, <1>6
        <4>2. QED
          BY <1>0, <1>1, <1>4, <2>1, <4>1
      <3>2. e <= q /\ e \in B
        BY <1>0, <1>1, <1>2, <3>1
      <3>3. e < q => UpTo(B, e) < UpTo(B, q)
        BY <1>0, <1>1, <1>5, <3>2
      <3>4. UpTo(B, e) = UpTo(B, q)
        BY <1>7, <2>1, <3>2
      <3>5. ~ (e < q)
        BY <1>0, <1>1, <1>3, <3>2, <3>3, <3>4
      <3>6. QED
        BY <1>0, <1>1, <3>2, <3>5
    <2>2. QED
      BY <1>7, <2>1
  <1>9. \A q \in Nat : q < e => (UpTo(B, q) = UpTo(B, p) <=> p <= q)
    <2> TAKE q \in Nat
    <2> HAVE q < e
    <2>1. p <= q => UpTo(B, p) = UpTo(B, q)
      <3>1. \A o \in B : o <= p \/ q < o
        BY <1>0, <1>1, <1>2
      <3>2. QED
        BY <1>0, <1>1, <3>1, SameRank
    <2>2. q < p => UpTo(B, q) < UpTo(B, p)
      BY <1>0, <1>1, <1>5
    <2>3. UpTo(B, q) \in Nat /\ UpTo(B, p) \in Nat
      BY <1>0, <1>1, <1>3
    <2>4. QED
      BY <1>0, <1>1, <2>1, <2>2, <2>3
  <1>10. e > Len(c) => UpTo(B, p) = Cardinality(B)
    <2>1. UpTo(B, Len(c)) = Cardinality(B)
      BY <1>1, LastRank
    <2>2. e > Len(c) => UpTo(B, Len(c)) = UpTo(B, p)
      BY <1>0, <1>1, <1>2, <1>9
    <2>3. QED
      BY <2>1, <2>2
  <1>11. QED
    BY <1>0, <1>1, <1>2, <1>4, <1>8, <1>9, <1>10 DEF e, B

-----------------------------------------------------------------------------
(* A call of next_document().                                              *)

LEMMA WantedIs ==
    /\ \A t, num \in Nat : t > 0 => Wanted(t, num) = t + 1 - num
    /\ Wanted(0, 0) = 2
    /\ \A num \in Nat \ {0} : Wanted(0, num) = 1
  <1>1. \A t, num \in Nat : t > 0 => Wanted(t, num) = t + 1 - num
    BY DEF Wanted
  <1>2. Wanted(0, 0) = 2
    <2>1. Wanted(0, 0) = Max({1, 2})
      BY DEF Wanted
    <2>2. \A m : m \in {1, 2} /\ (\A y \in {1, 2} : m >= y) <=> m = 2
      OBVIOUS
    <2>3. Max({1, 2}) = CHOOSE m : m \in {1, 2} /\ \A y \in {1, 2} : m >= y
      BY DEF Max
    <2>4. QED
      BY <2>1, <2>2, <2>3
  <1>3. \A num \in Nat \ {0} : Wanted(0, num) = 1
    <2> TAKE num \in Nat \ {0}
    <2>1. Wanted(0, num) = Max({1, 2 - num})
      BY DEF Wanted
    <2>2. \A m : m \in {1, 2 - num} /\ (\A y \in {1, 2 - num} : m >= y) <=> m = 1
      OBVIOUS
    <2>3. Max({1, 2 - num}) = CHOOSE m : m \in {1, 2 - num} /\ \A y \in {1, 2 - num} : m >= y
      BY DEF Max
    <2>4. QED
      BY <2>1, <2>2, <2>3
  <1>4. QED
    BY <1>1, <1>2, <1>3

Offsets == Seq(Nat \ {0})

(* The fields of what a call returns, from what the loop goes through: the *)
(* separators, the one it stops at if it finds it, those before it and the *)
(* lines of the message.                                                   *)
LastOf(all, num, t) == {p \in all : UpTo(all, p) = Wanted(t, num)}
StopOf(c, last) == IF last = {} THEN Len(c) + 1 ELSE CHOOSE p \in last : TRUE
SepsOf(all, stop) == {p \in all : p <= stop}
MineOf(s, stop, seps, num, t) ==
    {p \in s .. (stop - 1) : p \notin seps /\ (t = 0 \/ num + UpTo(seps, p) = t)}

LEMMA CallFields ==
    ASSUME NEW b, NEW c, NEW s, NEW num, NEW t,
           NEW all, all = Separators(b, c, s)
    PROVE  LET r == Call(b, c, s, num, t)
               last == LastOf(all, num, t)
               stop == StopOf(c, last)
               seps == SepsOf(all, stop)
               mine == MineOf(s, stop, seps, num, t)
           IN  /\ r.text = [i \in DOMAIN InOrder(mine) |-> c[InOrder(mine)[i]]]
               /\ r.eof <=> last = {}
               /\ r.num = num + Cardinality(seps) + (IF last = {} THEN 1 ELSE 0)
               /\ r.pos = stop + 1 /\ r.offs = InOrder(seps)
  <1> DEFINE last == LastOf(all, num, t)
             stop == StopOf(c, last)
             seps == SepsOf(all, stop)
             mine == MineOf(s, stop, seps, num, t)
  <1> DEFINE r == Call(b, c, s, num, t)
             text == [i \in DOMAIN InOrder(mine) |-> c[InOrder(mine)[i]]]
             n == num + Cardinality(seps) + (IF last = {} THEN 1 ELSE 0)
             end == stop + 1
             offs == InOrder(seps)
             eof == last = {}
  <1>1. r = [text |-> text, eof |-> eof, num |-> n, pos |-> end, offs |-> offs]
    BY DEF Call, LastOf, StopOf, SepsOf, MineOf
  <1> HIDE DEF r, text, n, end, offs, eof
  <1>2. r.text = text /\ r.num = n /\ r.pos = end /\ r.offs = offs /\ r.eof = eof
    BY <1>1
  <1>3. eof <=> last = {}
    BY DEF eof
  <1>4. QED
    BY <1>2, <1>3 DEF r, text, n, end, offs

(* What a call returns, whatever the folder holds.                         *)
LEMMA CallTyped ==
    ASSUME NEW b, NEW c \in Seq(Line), NEW s \in Nat \ {0}, NEW num \in Nat, NEW t \in Nat
    PROVE  LET r == Call(b, c, s, num, t)
           IN  /\ r.text \in Seq(Line)
               /\ r.num \in Nat \ {0} /\ r.pos \in Nat \ {0} /\ r.offs \in Offsets
               /\ ~ r.eof => r.pos <= Len(c) + 1
  <1> DEFINE all == Separators(b, c, s)
             last == LastOf(all, num, t)
             stop == StopOf(c, last)
             seps == SepsOf(all, stop)
             mine == MineOf(s, stop, seps, num, t)
             text == [i \in DOMAIN InOrder(mine) |-> c[InOrder(mine)[i]]]
  <1>1. LET r == Call(b, c, s, num, t)
        IN  /\ r.text = text
            /\ r.eof <=> last = {}
            /\ r.num = num + Cardinality(seps) + (IF last = {} THEN 1 ELSE 0)
            /\ r.pos = stop + 1 /\ r.offs = InOrder(seps)
    BY CallFields
  <1>2. Len(c) \in Nat /\ DOMAIN c = 1 .. Len(c) /\ \A i \in 1 .. Len(c) : c[i] \in Line
    BY LenProperties, ElementOfSeq
  <1>3. \A p \in all : p \in 1 .. Len(c)
    BY <1>2 DEF Separators
  <1> HIDE DEF all
  <1>4. stop \in 1 .. Len(c) + 1 /\ (last # {} => stop <= Len(c))
    <2>1. last # {} => stop \in last
      BY DEF StopOf
    <2>2. last # {} => stop \in 1 .. Len(c)
      BY <1>3, <2>1 DEF LastOf
    <2>3. last = {} => stop = Len(c) + 1
      BY DEF StopOf
    <2> HIDE DEF stop, last
    <2>4. QED
      BY <1>2, <2>2, <2>3
  <1> HIDE DEF stop, last
  <1>5. \A p \in seps : p \in 1 .. Len(c)
    BY <1>3 DEF SepsOf
  <1>6. \A p \in mine : p \in 1 .. Len(c)
    BY <1>2, <1>4 DEF MineOf
  <1> HIDE DEF seps, mine
  <1>7. InOrder(seps) \in Seq(seps) /\ Cardinality(seps) \in Nat
    BY <1>2, <1>5, Ordered, Ranks
  <1>8. InOrder(seps) \in Offsets
    <2>1. \A p \in seps : p \in Nat \ {0}
      BY <1>5
    <2>2. QED
      BY <1>7, <2>1, SeqMonotonic DEF Offsets
  <1>9. text \in Seq(Line)
    <2>1. Cardinality(mine) \in Nat /\ DOMAIN InOrder(mine) = 1 .. Cardinality(mine)
          /\ \A i \in 1 .. Cardinality(mine) : InOrder(mine)[i] \in mine
      BY <1>2, <1>6, Ordered, Ranks
    <2>2. \A i \in 1 .. Cardinality(mine) : c[InOrder(mine)[i]] \in Line
      BY <1>2, <1>6, <2>1
    <2>3. QED
      BY <2>1, <2>2
  <1> HIDE DEF text
  <1>10. stop + 1 \in Nat \ {0} /\ (last # {} => stop + 1 <= Len(c) + 1)
         /\ num + Cardinality(seps) + (IF last = {} THEN 1 ELSE 0) \in Nat \ {0}
    <2>1. last # {} => Cardinality(seps) # 0
      <3>1. last # {} => stop \in last /\ stop \in Nat
        BY <1>4 DEF StopOf, stop
      <3>2. last # {} => stop \in seps
        BY <3>1 DEF LastOf, SepsOf, last, seps
      <3>3. IsFiniteSet(seps)
        BY <1>2, <1>5, Ranks
      <3>4. QED
        BY <3>2, <3>3, FS_EmptySet
    <2>2. QED
      BY <1>2, <1>4, <1>7, <2>1
  <1>11. QED
    BY <1>1, <1>8, <1>9, <1>10

(* In a well formed folder the lines a call takes for separators are those *)
(* that begin a message.                                                   *)
LEMMA SeparatorsBegin ==
    ASSUME NEW b, NEW c \in Seq(Line), WellFormed(b, c), NEW s \in Nat \ {0}
    PROVE  Separators(b, c, s) = {q \in Begins(b, c) : q >= s}
  <1>1. Len(c) \in Nat /\ DOMAIN c = 1 .. Len(c)
    BY FolderLines
  <1>2. \A q \in 1 .. Len(c) : c[q] = From => q \in Begins(b, c)
    BY <1>1 DEF WellFormed
  <1>3. \A q \in Begins(b, c) :
            q \in 1 .. Len(c) /\ c[q] = From /\ (q = 1 \/ c[q - 1] = Empty \/ b \in quirks)
    BY <1>1 DEF Begins
  <1>4. \A q \in Separators(b, c, s) : q \in 1 .. Len(c) /\ q >= s /\ c[q] = From
    BY <1>1 DEF Separators
  <1>5. \A q \in Begins(b, c) : q >= s => q \in Separators(b, c, s)
    <2> TAKE q \in Begins(b, c)
    <2> HAVE q >= s
    <2>1. q \in s .. Len(c) /\ c[q] = From
      BY <1>1, <1>3
    <2>2. q = 1 => q = s
      BY <2>1
    <2>3. QED
      BY <1>3, <2>1, <2>2 DEF Separators
  <1>6. QED
    BY <1>2, <1>4, <1>5

(* The lines from s to e that begin a message.                             *)
Through(b, c, s, e) == {q \in Begins(b, c) : q >= s /\ q <= e}

(* A call that looks for the message that begins at p, behind the line s,  *)
(* returns it and stops at the line of the next one.                       *)
LEMMA CallMessage ==
    ASSUME NEW b, NEW c \in Seq(Line), WellFormed(b, c),
           NEW s \in Nat \ {0}, NEW num \in Nat, NEW t \in Nat,
           NEW p \in Begins(b, c), s <= p + 1,
           Wanted(t, num) = UpTo(Begins(b, c), p) + 1 - UpTo(Begins(b, c), s - 1),
           t = 0 => s = p \/ s = p + 1,
           t # 0 => t - num = UpTo(Begins(b, c), p) - UpTo(Begins(b, c), s - 1)
    PROVE  LET r == Call(b, c, s, num, t)
               e == NextBegin(b, c, p)
           IN  /\ r.text = Message(b, c, p)
               /\ r.eof <=> e > Len(c)
               /\ r.num = num + UpTo(Begins(b, c), p) + 1 - UpTo(Begins(b, c), s - 1)
               /\ r.pos = e + 1
               /\ r.offs = InOrder(Through(b, c, s, e))
  <1> DEFINE B == Begins(b, c)
             H == {q \in B : q >= s}
             e == NextBegin(b, c, p)
             m == UpTo(B, p)
             k == UpTo(B, s - 1)
             last == LastOf(H, num, t)
             stop == StopOf(c, last)
             seps == SepsOf(H, stop)
             mine == MineOf(s, stop, seps, num, t)
  <1>1. H = Separators(b, c, s)
    BY SeparatorsBegin
  <1>2. /\ Len(c) \in Nat /\ DOMAIN c = 1 .. Len(c)
        /\ \A q \in B : q \in 1 .. Len(c)
    BY FolderLines
  <1>3. /\ p \in 1 .. Len(c) /\ p \in Nat
        /\ e \in (p + 1) .. (Len(c) + 1)
        /\ e <= Len(c) => e \in B
        /\ \A q \in B : q <= p \/ e <= q
        /\ Message(b, c, p) = SubSeq(c, p + 1, e - 1)
        /\ \A q \in B : UpTo(B, q) = m + 1 <=> q = e
        /\ \A q \in Nat : q < e => (UpTo(B, q) = m <=> p <= q)
    BY <1>2, MessageEnds
  <1> HIDE DEF B
  <1>4. \A q \in Nat : UpTo(B, q) \in Nat
    BY <1>2, RankTyped
  <1>5. \A q \in Nat : s <= q + 1 => UpTo(B, q) = k + UpTo(H, q)
    BY <1>2, RanksFrom
  <1>6. \A q \in H : q \in 1 .. Len(c) /\ q \in B /\ q >= s
    BY <1>2
  <1>7. \A q \in Nat : UpTo(H, q) \in Nat
    <2> HIDE DEF H
    <2>1. \A q \in H : q \in 1 .. Len(c)
      BY <1>6
    <2>2. QED
      BY <1>2, <2>1, RankTyped
  <1>8. m \in Nat /\ k \in Nat
    BY <1>3, <1>4
  <1>9. Wanted(t, num) = m + 1 - k
    BY DEF B
  <1>10. (t = 0 => s = p \/ s = p + 1) /\ (t # 0 => t - num = m - k)
    BY DEF B
  <1>11. e \in B => e \in H
    BY <1>3
  <1>12. p \in B
    BY DEF B
  <1> HIDE DEF H, e, m, k
  <1>13. LET r == Call(b, c, s, num, t)
         IN  /\ r.text = [i \in DOMAIN InOrder(mine) |-> c[InOrder(mine)[i]]]
             /\ r.eof <=> last = {}
             /\ r.num = num + Cardinality(seps) + (IF last = {} THEN 1 ELSE 0)
             /\ r.pos = stop + 1 /\ r.offs = InOrder(seps)
    BY <1>1, CallFields
  <1>14. \A q \in H : q \in last <=> q = e
    <2> TAKE q \in H
    <2>1. q \in Nat /\ s <= q + 1
      BY <1>2, <1>6
    <2>2. UpTo(B, q) = k + UpTo(H, q) /\ UpTo(H, q) \in Nat
      BY <1>5, <1>7, <2>1
    <2>3. UpTo(H, q) = m + 1 - k <=> UpTo(B, q) = m + 1
      BY <1>8, <2>2
    <2>4. QED
      BY <1>3, <1>6, <1>9, <2>3 DEF LastOf
  <1>15. last \subseteq H /\ (last = {} <=> e > Len(c)) /\ stop = e
    <2>0. last \subseteq H
      BY DEF LastOf
    <2> HIDE DEF last
    <2>1. \A q \in last : q = e
      BY <1>14, <2>0
    <2>2. e <= Len(c) => e \in last
      BY <1>3, <1>11, <1>14
    <2>3. e \in last => e <= Len(c)
      BY <1>2, <1>6, <2>0
    <2>4. last # {} => e \in last
      BY <2>1
    <2>5. last = {} <=> e > Len(c)
      BY <1>2, <1>3, <2>2, <2>3, <2>4
    <2>6. last = {} => stop = e
      BY <1>2, <1>3, <2>5 DEF StopOf
    <2>7. last # {} => stop = e
      BY <2>1 DEF StopOf
    <2>8. QED
      BY <2>0, <2>5, <2>6, <2>7
  <1> HIDE DEF last, stop
  <1>16. /\ seps = {q \in H : q <= e}
         /\ mine = {q \in s .. (e - 1) : q \notin seps /\ (t = 0 \/ num + UpTo(seps, q) = t)}
    BY <1>15 DEF SepsOf, MineOf
  <1> HIDE DEF seps, mine
  <1>17. \A q \in s .. (e - 1) : q \in seps <=> q \in B
    <2>1. \A q \in H : q \in B
      BY <1>6
    <2>2. \A q \in B : q >= s => q \in H
      BY DEF H
    <2>3. QED
      BY <1>2, <1>3, <1>16, <2>1, <2>2
  <1>18. mine = (p + 1) .. (e - 1)
    <2>1. CASE t = 0
      <3>1. s = p \/ s = p + 1
        BY <1>10, <2>1
      <3>2. \A q \in s .. (e - 1) : q \in B <=> q = p
        BY <1>2, <1>3, <1>12, <3>1
      <3>3. mine = {q \in s .. (e - 1) : q # p}
        BY <1>16, <1>17, <2>1, <3>2
      <3>4. QED
        BY <1>3, <3>1, <3>3
    <2>2. CASE t # 0
      <3>1. \A q \in s .. (e - 1) : num + UpTo(seps, q) = t <=> p <= q
        <4> TAKE q \in s .. (e - 1)
        <4>1. q \in Nat /\ s <= q + 1 /\ q < e
          BY <1>3
        <4>2. {o \in seps : o <= q} = {o \in H : o <= q}
          BY <1>2, <1>3, <1>6, <1>16, <4>1
        <4>3. UpTo(seps, q) = UpTo(H, q)
          BY <4>2 DEF UpTo
        <4>4. UpTo(B, q) = k + UpTo(H, q) /\ UpTo(H, q) \in Nat
          BY <1>5, <1>7, <4>1
        <4>5. t - num = m - k
          BY <1>10, <2>2
        <4>6. num + UpTo(seps, q) = t <=> UpTo(B, q) = m
          BY <1>8, <4>3, <4>4, <4>5
        <4>7. QED
          BY <1>3, <4>1, <4>6
      <3>2. \A q \in s .. (e - 1) : p <= q => (q \in B <=> q = p)
        BY <1>2, <1>3, <1>12
      <3>3. mine = {q \in s .. (e - 1) : q # p /\ p <= q}
        BY <1>16, <1>17, <2>2, <3>1, <3>2
      <3>4. QED
        BY <1>3, <3>3
    <2>3. QED
      BY <2>1, <2>2
  <1>19. [i \in DOMAIN InOrder(mine) |-> c[InOrder(mine)[i]]] = Message(b, c, p)
    <2> DEFINE text == [i \in DOMAIN InOrder(mine) |-> c[InOrder(mine)[i]]]
               l == e - 1 - (p + 1) + 1
    <2>1. /\ DOMAIN InOrder(mine) = 1 .. l
          /\ \A i \in 1 .. l : InOrder(mine)[i] = p + 1 + i - 1
      <3>1. p + 1 \in Nat \ {0} /\ e - 1 \in Nat /\ p + 1 <= e - 1 + 1
        BY <1>2, <1>3
      <3>2. QED
        BY <1>18, <3>1, OrderedInterval
    <2>2. text = [i \in 1 .. l |-> c[p + 1 + i - 1]]
      BY <2>1
    <2>3. SubSeq(c, p + 1, e - 1) = [i \in 1 .. l |-> c[p + 1 + i - 1]]
      BY <1>2, <1>3
    <2>4. QED
      BY <1>3, <2>2, <2>3
  <1>20. Cardinality(seps) + (IF last = {} THEN 1 ELSE 0) = m + 1 - k
    <2>1. Cardinality(seps) = UpTo(H, e)
      BY <1>16 DEF UpTo
    <2>2. e \in Nat /\ s <= e + 1
      BY <1>3
    <2>3. UpTo(B, e) = k + UpTo(H, e) /\ UpTo(H, e) \in Nat
      BY <1>5, <1>7, <2>2
    <2>4. last # {} => UpTo(B, e) = m + 1
      BY <1>2, <1>3, <1>15
    <2>5. last = {} => UpTo(B, e) = m
      <3>1. last = {} => \A q \in B : q <= p \/ e < q
        BY <1>2, <1>3, <1>15
      <3>2. p <= e
        BY <1>3
      <3>3. QED
        BY <1>2, <1>3, <2>2, <3>1, <3>2, SameRank DEF m
    <2>6. QED
      BY <1>8, <2>1, <2>3, <2>4, <2>5
  <1>21. num + Cardinality(seps) + (IF last = {} THEN 1 ELSE 0) = num + m + 1 - k
    <2>1. Cardinality(seps) \in Nat
      BY <1>2, <1>6, <1>16, Ranks
    <2>2. QED
      BY <1>8, <1>20, <2>1
  <1>22. seps = Through(b, c, s, e)
    BY <1>16 DEF B, H, Through
  <1>23. QED
    BY <1>13, <1>15, <1>19, <1>21, <1>22 DEF B, e, m, k

(* A call that looks for a message behind the last one comes to the end of *)
(* the folder with nothing.                                                *)
LEMMA CallBeyond ==
    ASSUME NEW b, NEW c \in Seq(Line), WellFormed(b, c),
           NEW t \in Nat, t > Cardinality(Begins(b, c))
    PROVE  LET r == Call(b, c, 1, 0, t)
           IN  r.text = <<>> /\ r.eof /\ r.offs = InOrder(Begins(b, c))
  <1> DEFINE B == Begins(b, c)
             last == LastOf(B, 0, t)
             stop == StopOf(c, last)
             seps == SepsOf(B, stop)
             mine == MineOf(1, stop, seps, 0, t)
  <1>1. Len(c) \in Nat /\ \A q \in B : q \in 1 .. Len(c)
    BY FolderLines
  <1>2. B = Separators(b, c, 1)
    <2>1. B = {q \in B : q >= 1}
      BY <1>1
    <2>2. Separators(b, c, 1) = {q \in B : q >= 1}
      BY SeparatorsBegin
    <2>3. QED
      BY <2>1, <2>2
  <1>3. LET r == Call(b, c, 1, 0, t)
        IN  /\ r.text = [i \in DOMAIN InOrder(mine) |-> c[InOrder(mine)[i]]]
            /\ r.eof <=> last = {}
            /\ r.offs = InOrder(seps)
    BY <1>2, CallFields
  <1>4. t > Cardinality(B) /\ Cardinality(B) \in Nat /\ t > 0
    BY <1>1, Ranks
  <1>5. Wanted(t, 0) = t + 1
    BY <1>4, WantedIs
  <1> HIDE DEF B
  <1>6. \A q \in Nat : UpTo(B, q) \in 0 .. Cardinality(B)
    BY <1>1, Ranks
  <1>7. last = {} /\ stop = Len(c) + 1
    <2>1. \A q \in B : UpTo(B, q) \in 0 .. Cardinality(B)
      BY <1>1, <1>6
    <2>2. last = {}
      BY <1>4, <1>5, <2>1 DEF LastOf
    <2>3. QED
      BY <2>2 DEF StopOf
  <1> HIDE DEF last, stop
  <1>8. seps = B
    BY <1>1, <1>7 DEF SepsOf
  <1>9. mine = {}
    <2>1. \A q \in 1 .. (stop - 1) : UpTo(B, q) # t
      BY <1>1, <1>4, <1>6, <1>7
    <2>2. \A q \in 1 .. (stop - 1) : 0 + UpTo(B, q) = UpTo(B, q)
      BY <1>1, <1>6, <1>7
    <2>3. \A q \in mine : q \in 1 .. (stop - 1) /\ 0 + UpTo(B, q) = t
      BY <1>4, <1>8 DEF MineOf
    <2>4. QED
      BY <2>1, <2>2, <2>3
  <1> HIDE DEF seps, mine
  <1>10. [i \in DOMAIN InOrder(mine) |-> c[InOrder(mine)[i]]] = <<>>
    <2>1. DOMAIN InOrder(mine) = 1 .. 0
      BY <1>9, FS_EmptySet DEF InOrder
    <2>2. QED
      BY <2>1
  <1>11. QED
    BY <1>3, <1>7, <1>8, <1>10 DEF B

(* A preview's scan from the first line: a message or nothing, the one of  *)
(* the number it looks for if there is one, and when it comes to the end   *)
(* the offsets of all.                                                     *)
LEMMA Scan ==
    ASSUME NEW b, NEW c \in Seq(Line), WellFormed(b, c), NEW n \in Nat
    PROVE  LET r == Call(b, c, 1, 0, n)
           IN  /\ r.text = <<>> \/ \E p \in Begins(b, c) : r.text = Message(b, c, p)
               /\ r.eof => r.offs = InOrder(Begins(b, c))
               /\ \A p \in Begins(b, c) : UpTo(Begins(b, c), p) = n => r.text = Message(b, c, p)
  <1> DEFINE B == Begins(b, c)
             r == Call(b, c, 1, 0, n)
  <1>1. Len(c) \in Nat /\ 1 \in B /\ \A q \in B : q \in 1 .. Len(c)
    BY FolderLines
  <1> HIDE DEF B
  <1>2. Cardinality(B) \in Nat
    BY <1>1, RankTyped
  <1>3. UpTo(B, 0) = 0 /\ UpTo(B, 1) = 1
    BY <1>1, FirstRank
  <1>4. \A p \in B : UpTo(B, p) \in 1 .. Cardinality(B)
    BY <1>1, RankIsOf
  <1>5. ASSUME NEW p \in B, IF n = 0 THEN p = 1 ELSE UpTo(B, p) = n
        PROVE  r.text = Message(b, c, p) /\ (r.eof => r.offs = InOrder(B))
    <2>1. UpTo(B, 1 - 1) = 0 /\ UpTo(B, p) \in Nat \ {0} /\ p \in Nat /\ 1 <= p
      BY <1>1, <1>3, <1>4
    <2>2. Wanted(n, 0) = UpTo(B, p) + 1 - UpTo(B, 1 - 1)
      <3>1. CASE n = 0
        BY <1>3, <1>5, <2>1, <3>1, WantedIs
      <3>2. CASE n # 0
        <4>1. Wanted(n, 0) = n + 1 - 0
          BY <3>2, WantedIs
        <4>2. QED
          BY <1>5, <2>1, <3>2, <4>1
      <3>3. QED
        BY <3>1, <3>2
    <2>3. (n = 0 => 1 = p \/ 1 = p + 1) /\ (n # 0 => n - 0 = UpTo(B, p) - UpTo(B, 1 - 1))
      BY <1>5, <2>1
    <2> HIDE DEF r
    <2>4. /\ r.text = Message(b, c, p)
          /\ r.eof <=> NextBegin(b, c, p) > Len(c)
          /\ r.offs = InOrder(Through(b, c, 1, NextBegin(b, c, p)))
      BY <2>1, <2>2, <2>3, CallMessage DEF B, r
    <2>5. ASSUME r.eof PROVE Through(b, c, 1, NextBegin(b, c, p)) = B
      <3>1. NextBegin(b, c, p) > Len(c) /\ NextBegin(b, c, p) \in Nat
        BY <1>1, <2>4, <2>5, MessageEnds DEF B
      <3>2. \A q \in B : q >= 1 /\ q <= NextBegin(b, c, p)
        BY <1>1, <3>1
      <3>3. QED
        BY <3>2 DEF B, Through
    <2>6. QED
      BY <2>4, <2>5 DEF r
  <1>6. CASE n = 0
    BY <1>1, <1>4, <1>5, <1>6 DEF B
  <1>7. CASE n \in 1 .. Cardinality(B)
    <2>1. PICK p \in B : UpTo(B, p) = n
      BY <1>1, <1>7, RankIsOf
    <2>2. QED
      BY <1>1, <1>5, <1>7, <2>1, RankIsOf DEF B
  <1>8. CASE n > Cardinality(B)
    <2>1. r.text = <<>> /\ r.eof /\ r.offs = InOrder(B)
      BY <1>8, CallBeyond DEF B
    <2>2. \A p \in B : UpTo(B, p) # n
      BY <1>2, <1>4, <1>8
    <2>3. QED
      BY <2>1, <2>2 DEF B
  <1>9. QED
    BY <1>2, <1>6, <1>7, <1>8

(* A preview that begins at the line of a message shows that message.      *)
LEMMA FromOffset ==
    ASSUME NEW b, NEW c \in Seq(Line), WellFormed(b, c), NEW n \in Nat \ {0},
           NEW o \in Begins(b, c)
    PROVE  Call(b, c, o, n - 1, n).text = Message(b, c, o)
  <1> DEFINE B == Begins(b, c)
  <1>1. Len(c) \in Nat /\ o \in B /\ \A q \in B : q \in 1 .. Len(c)
    BY FolderLines
  <1> HIDE DEF B
  <1>2. o \in Nat \ {0} /\ o - 1 \in Nat /\ o - 1 < o /\ o <= o + 1
    BY <1>1
  <1>3. UpTo(B, o) = UpTo(B, o - 1) + 1
    <2>1. \A q \in B : q <= o - 1 \/ o <= q
      BY <1>1, <1>2
    <2>2. QED
      BY <1>1, <1>2, <2>1, NextRank
  <1>4. UpTo(B, o - 1) \in Nat
    BY <1>1, <1>2, RankTyped
  <1>5. Wanted(n, n - 1) = 2
    <2>1. n \in Nat /\ n - 1 \in Nat /\ n > 0
      OBVIOUS
    <2>2. Wanted(n, n - 1) = n + 1 - (n - 1)
      BY <2>1, WantedIs
    <2>3. QED
      BY <2>2
  <1>6. Wanted(n, n - 1) = UpTo(B, o) + 1 - UpTo(B, o - 1)
    BY <1>3, <1>4, <1>5
  <1>7. n # 0 /\ n - (n - 1) = UpTo(B, o) - UpTo(B, o - 1)
    BY <1>3, <1>4
  <1>8. n - 1 \in Nat /\ n \in Nat
    OBVIOUS
  <1>9. QED
    BY <1>2, <1>6, <1>7, <1>8, CallMessage DEF B

(* The messages that begin before the line s are in the index.             *)
Listed(b, c, s, d) ==
    LET all == Begins(b, c)
        mine == {p \in all : p < s}
    IN  /\ DOMAIN d = 1 .. Cardinality(mine)
        /\ \A p \in mine : d[UpTo(all, p)] = Message(b, c, p)

(* One more message is in the index.                                       *)
LEMMA AddMessage ==
    ASSUME NEW b, NEW c \in Seq(Line), NEW p \in Begins(b, c), NEW d, Listed(b, c, p, d)
    PROVE  Listed(b, c, NextBegin(b, c, p), Add(d, UpTo(Begins(b, c), p), Message(b, c, p)))
  <1> DEFINE B == Begins(b, c)
             e == NextBegin(b, c, p)
             m == UpTo(B, p)
             d2 == Add(d, m, Message(b, c, p))
             before == Cardinality({q \in B : q < p})
  <1>1. /\ Len(c) \in Nat /\ p \in 1 .. Len(c) /\ p \in Nat /\ p \in B
        /\ \A q \in B : q \in 1 .. Len(c)
        /\ e \in (p + 1) .. (Len(c) + 1)
        /\ \A q \in B : q <= p \/ e <= q
    BY FolderLines, MessageEnds
  <1>2. /\ DOMAIN d = 1 .. before
        /\ \A q \in B : q < p => d[UpTo(B, q)] = Message(b, c, q)
    BY DEF Listed
  <1> HIDE DEF B, e
  <1>3. {q \in B : q < e} = {q \in B : q <= p}
    <2>1. \A q \in B : q < e <=> q <= p
      BY <1>1
    <2>2. QED
      BY <2>1
  <1>4. Cardinality({q \in B : q < e}) = m
    BY <1>3 DEF UpTo
  <1>5. before = m - 1 /\ m \in Nat \ {0}
    <2>0. \A q \in B : q < p <=> q <= p - 1
      BY <1>1
    <2>1. {q \in B : q < p} = {q \in B : q <= p - 1}
      BY <2>0
    <2>2. before = UpTo(B, p - 1)
      BY <2>1 DEF UpTo
    <2>3. p - 1 \in Nat /\ p - 1 < p /\ \A q \in B : q <= p - 1 \/ p <= q
      BY <1>1
    <2>4. UpTo(B, p) = UpTo(B, p - 1) + 1
      BY <1>1, <2>3, NextRank
    <2>5. UpTo(B, p - 1) \in Nat
      BY <1>1, <2>3, RankTyped
    <2>6. QED
      BY <2>2, <2>4, <2>5
  <1> HIDE DEF before
  <1>6. DOMAIN d2 = 1 .. m
    <2>1. DOMAIN d2 = DOMAIN d \cup {m}
      BY DEF Add
    <2> HIDE DEF d2, m
    <2>2. QED
      BY <1>2, <1>5, <2>1
  <1>7. \A q \in B : q < e => d2[UpTo(B, q)] = Message(b, c, q)
    <2> TAKE q \in B
    <2> HAVE q < e
    <2>1. q = p => d2[UpTo(B, q)] = Message(b, c, q)
      BY DEF Add
    <2>2. ASSUME q # p PROVE d2[UpTo(B, q)] = Message(b, c, q)
      <3>1. q < p
        BY <1>1, <2>2
      <3>2. d[UpTo(B, q)] = Message(b, c, q)
        BY <1>2, <3>1
      <3>3. UpTo(B, q) # m
        BY <1>1, <2>2, RankIsOf
      <3>4. UpTo(B, q) \in 1 .. m - 1
        <4>1. UpTo(B, q) \in 1 .. Cardinality(B)
          BY <1>1, RankIsOf
        <4>2. UpTo(B, q) < m
          <5>1. q \in Nat /\ p \in B
            BY <1>1
          <5>2. QED
            BY <1>1, <3>1, <5>1, LowerRank
        <4> HIDE DEF m
        <4>3. QED
          BY <1>5, <4>1, <4>2
      <3>5. UpTo(B, q) \in DOMAIN d
        BY <1>2, <1>5, <3>4
      <3>6. QED
        BY <3>2, <3>3, <3>5 DEF Add
    <2>3. QED
      BY <2>1, <2>2
  <1>8. /\ DOMAIN d2 = 1 .. Cardinality({q \in B : q < e})
        /\ \A q \in {q \in B : q < e} : d2[UpTo(B, q)] = Message(b, c, q)
    BY <1>4, <1>6, <1>7
  <1>9. QED
    BY <1>8 DEF Listed, B, e

-----------------------------------------------------------------------------
(* The inductive invariant.                                                *)

Lines == Seq(Line)

Typed ==
    /\ folder \in [Box -> Contents] /\ quirks \subseteq Tbird /\ changes \in 0 .. MaxChanges
    /\ saved \in [Box -> [offs : Offsets, of : Box \cup {NoBox}]]
    /\ docs = [b \in Box |-> docs[b]]
    /\ \A b \in Box : DOMAIN docs[b] \subseteq Nat /\ \A n \in DOMAIN docs[b] : docs[b][n] \in Lines
    /\ known \in [Box -> {"stale", "cut", "whole"}]
    /\ \/ pass = Idle
       \/ /\ pass \in [box : Box, text : Contents, pos : Nat \ {0}, num : Nat, offs : Offsets]
          /\ pass.pos <= Len(pass.text) + 1
    /\ udi \in [Process -> Box \cup {NoBox}]
    /\ \/ view = NoView
       \/ view \in [box : Box, num : Nat, text : Contents, offs : Offsets, save : BOOLEAN]
    /\ \/ shown = NoPreview
       \/ shown \in [box : Box, num : Nat, text : Lines \cup {Nothing}, want : Lines \cup {Nothing},
                     known : {"stale", "cut", "whole"}, in : Contents, misled : BOOLEAN]
    /\ astray \subseteq Box

(* A pass over the folder b, that holds c, stands at the start or behind   *)
(* the separator of the message p, and those before it are in the index.   *)
Behind(b, c, p) ==
    LET all == Begins(b, c)
    IN  /\ p \in all /\ Listed(b, c, p, docs[b])
        /\ \/ pass.pos = 1 /\ pass.num = 0 /\ pass.offs = <<>> /\ p = 1
           \/ pass.pos = p + 1 /\ pass.num = UpTo(all, p)
              /\ pass.offs = InOrder(Through(b, c, 1, p))

PassOK ==
    pass # Idle =>
        /\ known[pass.box] = "stale"
        /\ \A b \in Box, c \in Contents :
              b = pass.box /\ c = pass.text /\ WellFormed(b, c) => \E p \in Nat : Behind(b, c, p)
        /\ pass.box \notin Inner => udi["indexer"] = pass.box

(* What a preview has to save are the offsets of what it opened, or none   *)
(* when it was led past the end.                                           *)
ViewOK ==
    view # NoView =>
        /\ view.box \notin Inner => udi["gui"] = view.box
        /\ view.save /\ WellFormed(view.box, view.text) =>
               view.offs \in {<<>>, InOrder(Begins(view.box, view.text))}

(* A folder that was read to its end has all its messages in the index     *)
(* and, if it is large enough and not a member of a file, its offsets or   *)
(* none in the cache, unless it was written for something else since.      *)
Complete(b, c) ==
    /\ Listed(b, c, Len(c) + 1, docs[b])
    /\ b \notin Inner \cup astray /\ Len(c) >= MinSize =>
           saved[b].offs \in {<<>>, InOrder(Begins(b, c))}

IndexOK ==
    /\ \A b \in Box : \A n \in DOMAIN docs[b] : Len(docs[b][n]) <= MaxSize
    /\ \A b \in Box, c \in Contents :
          c = folder[b] /\ known[b] = "whole" /\ WellFormed(b, c) => Complete(b, c)

ShownOK ==
    \A b \in Box, c \in Contents :
        shown # NoPreview /\ b = shown.box /\ c = shown.in /\ WellFormed(b, c) =>
            /\ shown.text \in Messages(b, c) \cup {Nothing}
            /\ shown.known = "whole" /\ ~shown.misled /\ Len(c) >= MinSize =>
                   shown.text = shown.want

FolderInv == Typed /\ PassOK /\ ViewOK /\ IndexOK /\ ShownOK

LEMMA ContentLines ==
    ASSUME NEW c \in Contents
    PROVE  c \in Seq(Line) /\ Len(c) \in Nat
  BY MboxAssumption, LenProperties DEF Line

LEMMA InitFolder == Init => FolderInv
  <1> SUFFICES ASSUME Init PROVE FolderInv
    OBVIOUS
  <1> USE DEF Init
  <1>1. Typed
    <2>1. NoFile \in [offs : Offsets, of : Box \cup {NoBox}]
      <3>1. <<>> \in Seq(Nat \ {0})
        BY EmptySeq
      <3>2. QED
        BY <3>1 DEF NoFile, Offsets
    <2>2. changes \in 0 .. MaxChanges
      BY MboxAssumption
    <2>3. quirks \subseteq Tbird
      OBVIOUS
    <2>4. \A b \in Box : docs[b] = <<>> /\ DOMAIN docs[b] = {}
      OBVIOUS
    <2>5. folder \in [Box -> Contents] /\ known \in [Box -> {"stale", "cut", "whole"}]
          /\ udi \in [Process -> Box \cup {NoBox}]
          /\ saved \in [Box -> [offs : Offsets, of : Box \cup {NoBox}]]
      BY <2>1
    <2>6. docs = [b \in Box |-> docs[b]]
      OBVIOUS
    <2>7. QED
      BY <2>2, <2>3, <2>4, <2>5, <2>6 DEF Typed
  <1>2. PassOK /\ ViewOK
    BY DEF PassOK, ViewOK
  <1>3. IndexOK
    BY DEF IndexOK
  <1>4. ShownOK
    BY DEF ShownOK
  <1>5. QED
    BY <1>1, <1>2, <1>3, <1>4 DEF FolderInv

(* What the folders hold, and where its messages begin, are the same after *)
(* every step: the quirks do not change.                                   *)
LEMMA SameMessages ==
    ASSUME quirks' = quirks
    PROVE  \A b, c : /\ Begins(b, c)' = Begins(b, c)
                     /\ WellFormed(b, c)' <=> WellFormed(b, c)
                     /\ Messages(b, c)' = Messages(b, c)
                     /\ \A p : Message(b, c, p)' = Message(b, c, p)
  <1>1. \A b, c : Begins(b, c)' = Begins(b, c)
    BY DEF Begins
  <1>2. \A b, c, p : Message(b, c, p)' = Message(b, c, p)
    BY <1>1 DEF Message
  <1>3. \A b, c : Messages(b, c)' = Messages(b, c)
    BY <1>1, <1>2 DEF Messages
  <1>4. \A b, c : WellFormed(b, c)' <=> WellFormed(b, c)
    BY <1>1, <1>2 DEF WellFormed
  <1>5. QED
    BY <1>1, <1>2, <1>3, <1>4

LEMMA SameProgress ==
    ASSUME quirks' = quirks, NEW b, docs'[b] = docs[b]
    PROVE  /\ pass' = pass => \A c, p : Behind(b, c, p)' <=> Behind(b, c, p)
           /\ saved'[b].offs = saved[b].offs /\ astray' = astray =>
                  \A c : Complete(b, c)' <=> Complete(b, c)
  <1>1. \A c : Begins(b, c)' = Begins(b, c) /\ \A p : Message(b, c, p)' = Message(b, c, p)
    BY SameMessages
  <1>2. \A c, s : Listed(b, c, s, docs[b])' <=> Listed(b, c, s, docs[b])
    BY <1>1 DEF Listed
  <1>3. \A c, s, e : Through(b, c, s, e)' = Through(b, c, s, e)
    BY <1>1 DEF Through
  <1>4. pass' = pass => \A c, p : Behind(b, c, p)' <=> Behind(b, c, p)
    BY <1>1, <1>2, <1>3 DEF Behind
  <1>5. saved'[b].offs = saved[b].offs /\ astray' = astray =>
            \A c : Complete(b, c)' <=> Complete(b, c)
    BY <1>1, <1>2 DEF Complete
  <1>6. QED
    BY <1>4, <1>5

(* A call of the indexer in a well formed folder.                          *)
LEMMA PassCall ==
    ASSUME NEW b \in Box, NEW c \in Seq(Line), WellFormed(b, c), NEW p \in Nat, Behind(b, c, p)
    PROVE  LET r == Call(b, c, pass.pos, pass.num, 0)
               e == NextBegin(b, c, p)
           IN  /\ r.text = Message(b, c, p)
               /\ r.eof <=> e > Len(c)
               /\ r.num = UpTo(Begins(b, c), p) + 1
               /\ r.pos = e + 1
               /\ pass.offs \o r.offs = InOrder(Through(b, c, 1, e))
  <1> DEFINE B == Begins(b, c)
             e == NextBegin(b, c, p)
             m == UpTo(B, p)
             r == Call(b, c, pass.pos, pass.num, 0)
  <1>1. /\ Len(c) \in Nat /\ 1 \in B /\ p \in B
        /\ \A q \in B : q \in 1 .. Len(c)
        /\ p \in Nat /\ e \in Nat /\ p < e
    BY FolderLines, MessageEnds DEF Behind
  <1>2. \/ pass.pos = 1 /\ pass.num = 0 /\ pass.offs = <<>> /\ p = 1
        \/ pass.pos = p + 1 /\ pass.num = m /\ pass.offs = InOrder(Through(b, c, 1, p))
    BY DEF Behind
  <1>3. m \in Nat \ {0}
    <2> HIDE DEF B, e
    <2>1. m \in 1 .. Cardinality(B)
      BY <1>1, RankIsOf
    <2>2. Cardinality(B) \in Nat
      BY <1>1, RankTyped
    <2>3. QED
      BY <2>1, <2>2
  <1>4. \A s \in Nat, k \in Nat : Through(b, c, s, k) \subseteq B
    BY DEF Through
  <1>5. CASE pass.pos = 1 /\ pass.num = 0 /\ pass.offs = <<>> /\ p = 1
    <2>1. UpTo(B, 0) = 0 /\ UpTo(B, 1) = 1
      <3> HIDE DEF B, e
      <3>1. QED
        BY <1>1, FirstRank
    <2>2. m = 1
      BY <1>5, <2>1
    <2>3. UpTo(B, 1 - 1) = 0
      BY <2>1
    <2>4. Wanted(0, 0) = m + 1 - UpTo(B, 1 - 1)
      BY <2>2, <2>3, WantedIs
    <2> HIDE DEF r, m
    <2>5. /\ r.text = Message(b, c, p)
          /\ r.eof <=> e > Len(c)
          /\ r.num = 0 + m + 1 - UpTo(B, 1 - 1)
          /\ r.pos = e + 1
          /\ r.offs = InOrder(Through(b, c, 1, e))
      BY <1>1, <1>5, <2>4, CallMessage DEF r, m
    <2>6. pass.offs \o r.offs = InOrder(Through(b, c, 1, e))
      <3>1. \A q \in Through(b, c, 1, e) : q \in 1 .. Len(c)
        BY <1>1 DEF Through
      <3>2. r.offs \in Seq(Through(b, c, 1, e))
        BY <1>1, <2>5, <3>1, Ordered
      <3>3. <<>> \o r.offs = r.offs
        BY <3>2, ConcatEmptySeq
      <3>4. QED
        BY <1>5, <2>5, <3>3
    <2>7. r.num = m + 1
      BY <1>3, <2>3, <2>5
    <2>8. QED
      BY <2>5, <2>6, <2>7 DEF r, m
  <1>6. CASE pass.pos = p + 1 /\ pass.num = m /\ pass.offs = InOrder(Through(b, c, 1, p))
    <2>1. p + 1 - 1 = p /\ p + 1 \in Nat \ {0} /\ p + 1 <= p + 1
      BY <1>1
    <2>2. Wanted(0, m) = m + 1 - UpTo(B, p + 1 - 1)
      BY <1>3, <2>1, WantedIs
    <2> HIDE DEF r
    <2>3. /\ r.text = Message(b, c, p)
          /\ r.eof <=> e > Len(c)
          /\ r.num = m + m + 1 - UpTo(B, p + 1 - 1)
          /\ r.pos = e + 1
          /\ r.offs = InOrder(Through(b, c, p + 1, e))
      BY <1>1, <1>3, <1>6, <2>1, <2>2, CallMessage DEF r
    <2>4. pass.offs \o r.offs = InOrder(Through(b, c, 1, e))
      <3> DEFINE S == Through(b, c, 1, e)
      <3>1. \A q \in S : q \in 1 .. Len(c)
        BY <1>1 DEF Through
      <3>2. {q \in S : q < p + 1} = Through(b, c, 1, p)
        <4>1. \A q \in B : q <= e /\ q < p + 1 <=> q <= p
          BY <1>1
        <4>2. QED
          BY <4>1 DEF Through
      <3>3. {q \in S : q >= p + 1} = Through(b, c, p + 1, e)
        <4>1. \A q \in B : q >= 1
          BY <1>1
        <4>2. QED
          BY <4>1 DEF Through
      <3> HIDE DEF S
      <3>4. InOrder({q \in S : q < p + 1}) \o InOrder({q \in S : q >= p + 1}) = InOrder(S)
        BY <1>1, <2>1, <3>1, Joined
      <3>5. QED
        BY <1>6, <2>3, <3>2, <3>3, <3>4 DEF S
    <2>5. r.num = m + 1
      BY <1>3, <2>1, <2>3
    <2>6. QED
      BY <2>3, <2>4, <2>5 DEF r
  <1>7. QED
    BY <1>2, <1>5, <1>6

LEMMA SameView ==
    ASSUME ViewOK, quirks' = quirks, view' = view, udi'["gui"] = udi["gui"]
    PROVE  ViewOK'
  BY SameMessages DEF ViewOK

LEMMA SameShown ==
    ASSUME ShownOK, quirks' = quirks, shown' = shown
    PROVE  ShownOK'
  BY SameMessages DEF ShownOK

(* A folder whose content, state and messages a step leaves alone is still *)
(* complete.                                                               *)
LEMMA SameIndex ==
    ASSUME IndexOK, quirks' = quirks, NEW b \in Box, docs'[b] = docs[b],
           known'[b] = "whole" => known[b] = "whole" /\ folder'[b] = folder[b],
           b \notin Inner \cup astray' => b \notin astray /\ saved'[b].offs = saved[b].offs
    PROVE  /\ \A n \in DOMAIN docs'[b] : Len(docs'[b][n]) <= MaxSize
           /\ \A c \in Contents :
                 c = folder'[b] /\ known'[b] = "whole" /\ WellFormed(b, c)' => Complete(b, c)'
  <1>1. \A n \in DOMAIN docs'[b] : Len(docs'[b][n]) <= MaxSize
    BY DEF IndexOK
  <1>2. ASSUME NEW c \in Contents, c = folder'[b], known'[b] = "whole", WellFormed(b, c)'
        PROVE  Complete(b, c)'
    <2>1. WellFormed(b, c)
      BY <1>2, SameMessages
    <2>2. Complete(b, c)
      BY <1>2, <2>1 DEF IndexOK
    <2>3. Listed(b, c, Len(c) + 1, docs[b])' <=> Listed(b, c, Len(c) + 1, docs[b])
      BY SameMessages DEF Listed
    <2>4. QED
      BY <2>2, <2>3, SameMessages DEF Complete
  <1>3. QED
    BY <1>1, <1>2

LEMMA ChangeStep ==
    ASSUME FolderInv, NEW b \in Box, Change(b)
    PROVE  FolderInv'
  <1> USE DEF FolderInv
  <1>1. PICK c \in Contents : folder' = [folder EXCEPT ![b] = c]
    BY DEF Change
  <1>2. /\ known' = [known EXCEPT ![b] = "stale"] /\ changes < MaxChanges /\ changes' = changes + 1
        /\ quirks' = quirks /\ saved' = saved /\ docs' = docs /\ pass' = pass
        /\ udi' = udi /\ shown' = shown /\ view' = view /\ astray' = astray
    BY DEF Change
  <1>3. folder' \in [Box -> Contents] /\ known' \in [Box -> {"stale", "cut", "whole"}]
        /\ changes' \in 0 .. MaxChanges
    BY <1>1, <1>2, MboxAssumption DEF Typed
  <1>4. Typed'
    BY <1>2, <1>3 DEF Typed
  <1>5. PassOK'
    <2>1. ASSUME pass # Idle PROVE pass.box \in Box /\ known'[pass.box] = "stale"
      BY <1>2, <2>1 DEF Typed, PassOK
    <2>2. \A x \in Box, l \in Contents :
              x = pass.box /\ l = pass.text /\ WellFormed(x, l)' /\ pass # Idle =>
                  \E p \in Nat : Behind(x, l, p)'
      BY <1>2, SameMessages, SameProgress DEF PassOK
    <2>3. QED
      BY <1>2, <2>1, <2>2 DEF PassOK
  <1>6. IndexOK'
    <2>1. \A x \in Box : known'[x] = "whole" => known[x] = "whole" /\ folder'[x] = folder[x]
      BY <1>1, <1>2 DEF Typed
    <2>2. QED
      BY <1>2, <2>1, SameIndex DEF IndexOK
  <1>7. ShownOK' /\ ViewOK'
    BY <1>2, SameShown, SameView
  <1>8. QED
    BY <1>4, <1>5, <1>6, <1>7

LEMMA SetDocumentFileStep ==
    ASSUME FolderInv, NEW b \in Box, SetDocumentFile(b)
    PROVE  FolderInv'
  <1> USE DEF FolderInv
  <1>0. PICK c \in Contents : c = folder[b]
    BY DEF Typed
  <1> DEFINE opened == [box |-> b, text |-> c, pos |-> 1, num |-> 0, offs |-> <<>>]
  <1>1. /\ pass = Idle /\ known[b] = "stale"
        /\ pass' = opened
        /\ udi' = [udi EXCEPT !["indexer"] = UdiFor("indexer", b)]
        /\ docs' = [docs EXCEPT ![b] = <<>>]
        /\ folder' = folder /\ quirks' = quirks /\ changes' = changes /\ saved' = saved
        /\ known' = known /\ shown' = shown /\ view' = view /\ astray' = astray
    BY <1>0 DEF SetDocumentFile, Idle
  <1>2. c \in Contents /\ c \in Seq(Line) /\ Len(c) \in Nat
    BY ContentLines
  <1>3. pass' # Idle
    BY <1>1, MboxAssumption DEF Idle
  <1>4. UdiFor("indexer", b) \in Box \cup {NoBox} /\ (b \notin Inner => UdiFor("indexer", b) = b)
    BY DEF UdiFor, Typed, Process
  <1>5. udi' \in [Process -> Box \cup {NoBox}] /\ udi'["indexer"] = UdiFor("indexer", b)
        /\ udi'["gui"] = udi["gui"]
    BY <1>1, <1>4 DEF Typed, Process
  <1>6. docs'[b] = <<>> /\ DOMAIN docs'[b] = {} /\ \A x \in Box : x # b => docs'[x] = docs[x]
    <2>1. docs = [x \in Box |-> docs[x]]
      BY DEF Typed
    <2>2. docs'[b] = <<>> /\ \A x \in Box : x # b => docs'[x] = docs[x]
      BY <1>1, <2>1
    <2>3. QED
      BY <2>2
  <1>7. Typed'
    <2>1. docs' = [x \in Box |-> docs'[x]]
      BY <1>1 DEF Typed
    <2>2. opened \in [box : Box, text : Contents, pos : Nat \ {0}, num : Nat, offs : Offsets]
      <3>1. <<>> \in Offsets
        BY EmptySeq DEF Offsets
      <3>2. QED
        BY <1>2, <3>1
    <2>3. pass'.pos <= Len(pass'.text) + 1
      BY <1>1, <1>2
    <2>4. \A x \in Box : DOMAIN docs'[x] \subseteq Nat /\ \A n \in DOMAIN docs'[x] : docs'[x][n] \in Lines
      BY <1>6 DEF Typed
    <2>5. QED
      BY <1>1, <1>5, <2>1, <2>2, <2>3, <2>4 DEF Typed
  <1>8. PassOK'
    <2>1. ASSUME WellFormed(b, c)' PROVE Behind(b, c, 1)'
      <3>1. WellFormed(b, c)
        BY <1>1, <2>1, SameMessages
      <3>2. 1 \in Begins(b, c) /\ \A q \in Begins(b, c) : q \in 1 .. Len(c)
        BY <1>2, <3>1, FolderLines
      <3>3. {q \in Begins(b, c) : q < 1} = {}
        BY <1>2, <3>2
      <3>4. Listed(b, c, 1, docs[b])'
        <4>1. DOMAIN docs'[b] = 1 .. Cardinality({})
          BY <1>6, FS_EmptySet
        <4>2. {q \in Begins(b, c)' : q < 1} = {}
          BY <1>1, <3>3, SameMessages
        <4>3. QED
          BY <4>1, <4>2 DEF Listed
      <3>5. 1 \in Begins(b, c)'
        BY <1>1, <3>2, SameMessages
      <3>6. pass'.pos = 1 /\ pass'.num = 0 /\ pass'.offs = <<>>
        BY <1>1
      <3>7. QED
        BY <3>4, <3>5, <3>6 DEF Behind
    <2>2. QED
      BY <1>1, <1>2, <1>4, <1>5, <2>1 DEF PassOK
  <1>9. IndexOK'
    <2>1. ASSUME NEW x \in Box, x # b
          PROVE  /\ \A n \in DOMAIN docs'[x] : Len(docs'[x][n]) <= MaxSize
                 /\ \A l \in Contents :
                       l = folder'[x] /\ known'[x] = "whole" /\ WellFormed(x, l)' => Complete(x, l)'
      BY <1>1, <1>6, <2>1, SameIndex
    <2>2. QED
      BY <1>1, <1>6, <2>1 DEF IndexOK
  <1>10. ShownOK' /\ ViewOK'
    BY <1>1, <1>5, SameShown, SameView
  <1>11. QED
    BY <1>7, <1>8, <1>9, <1>10

LEMMA ClearPoolStep ==
    ASSUME FolderInv, ClearPool
    PROVE  FolderInv'
  <1> USE DEF FolderInv
  <1>1. /\ pass = Idle /\ udi' = [udi EXCEPT !["indexer"] = NoBox]
        /\ folder' = folder /\ quirks' = quirks /\ changes' = changes /\ saved' = saved
        /\ docs' = docs /\ known' = known /\ pass' = pass /\ shown' = shown
        /\ view' = view /\ astray' = astray /\ udi'["gui"] = udi["gui"]
    BY DEF ClearPool, Typed, Process
  <1>2. Typed'
    BY <1>1 DEF Typed
  <1>3. PassOK'
    BY <1>1 DEF PassOK
  <1>4. IndexOK'
    BY <1>1, SameIndex DEF IndexOK
  <1>5. ShownOK' /\ ViewOK'
    BY <1>1, SameShown, SameView
  <1>6. QED
    BY <1>2, <1>3, <1>4, <1>5

(* Whatever is written to the cache are offsets of a folder.               *)
LEMMA SavedTyped ==
    ASSUME saved \in [Box -> [offs : Offsets, of : Box \cup {NoBox}]],
           NEW u \in Box \cup {NoBox}, NEW b \in Box, NEW c, Len(c) \in Nat, NEW offs \in Offsets,
           PutOffsets(u, b, c, offs)
    PROVE  /\ saved' \in [Box -> [offs : Offsets, of : Box \cup {NoBox}]]
           /\ \A x \in Box : x # u => saved'[x] = saved[x]
           /\ u # NoBox /\ Len(c) >= MinSize => saved'[u].offs = offs
           /\ u = NoBox \/ Len(c) < MinSize => saved' = saved
  <1>1. CASE u = NoBox \/ Len(c) < MinSize
    <2>1. saved' = saved
      BY <1>1 DEF PutOffsets
    <2>2. u # NoBox /\ Len(c) >= MinSize => FALSE
      BY <1>1, MboxAssumption
    <2>3. QED
      BY <2>1, <2>2
  <1>2. CASE ~ (u = NoBox \/ Len(c) < MinSize)
    <2>1. saved' = [saved EXCEPT ![u] = [offs |-> offs, of |-> b]] /\ u \in Box
      BY <1>2 DEF PutOffsets
    <2>2. [offs |-> offs, of |-> b] \in [offs : Offsets, of : Box \cup {NoBox}]
      OBVIOUS
    <2>3. QED
      BY <1>2, <2>1, <2>2
  <1>3. QED
    BY <1>1, <1>2

(* Only the cache of the folder written to goes astray or comes right.     *)
LEMMA AstrayTyped ==
    ASSUME astray \subseteq Box, NEW u \in Box \cup {NoBox}, NEW c, Len(c) \in Nat,
           NEW Right, Right \in SUBSET Box,
           astray' = IF u = NoBox \/ Len(c) < MinSize THEN astray
                     ELSE IF u \notin Right THEN astray \cup {u} ELSE astray \ {u}
    PROVE  /\ astray' \subseteq Box
           /\ \A x \in Box : x # u => (x \in astray' <=> x \in astray)
           /\ u # NoBox /\ Len(c) >= MinSize => (u \in astray' <=> u \notin Right)
           /\ u = NoBox \/ Len(c) < MinSize => astray' = astray
  <1>1. CASE u = NoBox \/ Len(c) < MinSize
    <2>1. astray' = astray
      BY <1>1
    <2>2. u # NoBox /\ Len(c) >= MinSize => FALSE
      BY <1>1, MboxAssumption
    <2>3. QED
      BY <2>1, <2>2
  <1>2. CASE ~ (u = NoBox \/ Len(c) < MinSize)
    <2>1. u \in Box /\ astray' = IF u \notin Right THEN astray \cup {u} ELSE astray \ {u}
      BY <1>2
    <2>2. QED
      BY <1>2, <2>1
  <1>3. QED
    BY <1>1, <1>2

LEMMA KilledStep ==
    ASSUME FolderInv, Killed
    PROVE  FolderInv'
  <1> USE DEF FolderInv
  <1>1. /\ pass # Idle /\ pass' = Idle /\ udi' = [udi EXCEPT !["indexer"] = NoBox]
        /\ folder' = folder /\ quirks' = quirks /\ changes' = changes
        /\ docs' = docs /\ known' = known /\ shown' = shown /\ view' = view
        /\ udi'["gui"] = udi["gui"]
    BY DEF Killed, Typed, Process
  <1>2. pass.box \in Box /\ pass.offs \in Offsets /\ known[pass.box] = "stale"
        /\ udi["indexer"] \in Box \cup {NoBox} /\ astray \subseteq Box
    BY <1>1 DEF Typed, PassOK, Process
  <1>3. /\ saved' \in [Box -> [offs : Offsets, of : Box \cup {NoBox}]]
        /\ astray' \subseteq Box
        /\ \A x \in Box : x # pass.box =>
              x \in astray' \/ (x \notin astray /\ saved'[x] = saved[x])
    <2>1. CASE UNCHANGED <<saved, astray>>
      BY <2>1 DEF Typed
    <2>2. ASSUME NEW n \in 0 .. Len(pass.offs), udi["indexer"] # NoBox, Len(pass.text) >= MinSize,
                 Strays(udi["indexer"], pass.text, udi["indexer"] # pass.box),
                 saved' = [saved EXCEPT ![udi["indexer"]] =
                              [offs |-> SubSeq(pass.offs, 1, n), of |-> pass.box]]
          PROVE  /\ saved' \in [Box -> [offs : Offsets, of : Box \cup {NoBox}]]
                 /\ astray' \subseteq Box
                 /\ \A x \in Box : x # pass.box =>
                       x \in astray' \/ (x \notin astray /\ saved'[x] = saved[x])
      <3>1. SubSeq(pass.offs, 1, n) \in Offsets
        <4>1. Len(pass.offs) \in Nat /\ \A i \in 1 .. Len(pass.offs) : pass.offs[i] \in Nat \ {0}
          BY <1>2, LenProperties, ElementOfSeq DEF Offsets
        <4>2. \A i \in 1 .. n : pass.offs[i] \in Nat \ {0}
          BY <4>1
        <4>3. QED
          BY <4>1, <4>2, SubSeqProperties DEF Offsets
      <3>2. [offs |-> SubSeq(pass.offs, 1, n), of |-> pass.box]
                \in [offs : Offsets, of : Box \cup {NoBox}]
        BY <1>2, <3>1
      <3>3. Len(pass.text) \in Nat
        BY <1>1, ContentLines DEF Typed
      <3>4. astray' = IF udi["indexer"] # pass.box THEN astray \cup {udi["indexer"]}
                      ELSE astray \ {udi["indexer"]}
        BY <2>2, <3>3, MboxAssumption DEF Strays
      <3>5. \A x \in Box : x # udi["indexer"] => saved'[x] = saved[x]
        BY <2>2 DEF Typed
      <3>6. saved' \in [Box -> [offs : Offsets, of : Box \cup {NoBox}]]
        BY <2>2, <3>2 DEF Typed
      <3>7. astray' \subseteq Box
        <4>1. udi["indexer"] \in Box
          BY <1>2, <2>2
        <4>2. QED
          BY <1>2, <3>4, <4>1
      <3>8. ASSUME NEW x \in Box, x # pass.box
            PROVE  x \in astray' \/ (x \notin astray /\ saved'[x] = saved[x])
        <4>1. CASE x = udi["indexer"]
          BY <3>4, <3>8, <4>1
        <4>2. CASE x # udi["indexer"]
          <5>1. saved'[x] = saved[x]
            BY <3>5, <4>2
          <5>2. x \in astray => x \in astray'
            BY <3>4, <4>2
          <5>3. QED
            BY <5>1, <5>2
        <4>3. QED
          BY <4>1, <4>2
      <3>9. QED
        BY <3>6, <3>7, <3>8
    <2>3. QED
      BY <2>1, <2>2 DEF Killed
  <1>4. Typed'
    BY <1>1, <1>3 DEF Typed
  <1>5. PassOK'
    BY <1>1 DEF PassOK
  <1>6. IndexOK'
    <2>1. ASSUME NEW x \in Box
          PROVE  /\ \A n \in DOMAIN docs'[x] : Len(docs'[x][n]) <= MaxSize
                 /\ \A c \in Contents :
                       c = folder'[x] /\ known'[x] = "whole" /\ WellFormed(x, c)' => Complete(x, c)'
      <3>1. CASE x = pass.box
        BY <1>1, <1>2, <3>1 DEF IndexOK
      <3>2. CASE x # pass.box
        BY <1>1, <1>2, <1>3, <3>2, SameIndex
      <3>3. QED
        BY <3>1, <3>2
    <2>2. QED
      BY <2>1 DEF IndexOK
  <1>7. ShownOK' /\ ViewOK'
    BY <1>1, SameShown, SameView
  <1>8. QED
    BY <1>4, <1>5, <1>6, <1>7

LEMMA NextDocumentStep ==
    ASSUME FolderInv, NextDocument
    PROVE  FolderInv'
  <1> USE DEF FolderInv
  <1>0. pass # Idle
    BY DEF NextDocument
  <1>1. PICK b \in Box, c \in Contents : b = pass.box /\ c = pass.text
    BY <1>0 DEF Typed
  <1>2. /\ pass \in [box : Box, text : Contents, pos : Nat \ {0}, num : Nat, offs : Offsets]
        /\ known[b] = "stale" /\ (b \notin Inner => udi["indexer"] = b)
        /\ c \in Seq(Line) /\ Len(c) \in Nat
    BY <1>0, <1>1, ContentLines DEF Typed, PassOK
  <1> DEFINE r == Call(b, c, pass.pos, pass.num, 0)
             offs == pass.offs \o r.offs
             u == udi["indexer"]
             d2 == Add(docs[b], r.num - 1, r.text)
  <1>3. /\ r.text \in Seq(Line) /\ r.num \in Nat \ {0} /\ r.pos \in Nat \ {0} /\ r.offs \in Offsets
        /\ ~ r.eof => r.pos <= Len(c) + 1
    BY <1>2, CallTyped
  <1>4. ASSUME WellFormed(b, c)
        PROVE  \E p \in Begins(b, c) :
                  /\ Listed(b, c, p, docs[b])
                  /\ r.text = Message(b, c, p)
                  /\ r.eof <=> NextBegin(b, c, p) > Len(c)
                  /\ r.num = UpTo(Begins(b, c), p) + 1
                  /\ r.pos = NextBegin(b, c, p) + 1
                  /\ offs = InOrder(Through(b, c, 1, NextBegin(b, c, p)))
    <2>1. PICK p \in Nat : Behind(b, c, p)
      BY <1>0, <1>1, <1>4 DEF PassOK
    <2>2. p \in Begins(b, c) /\ Listed(b, c, p, docs[b])
      BY <2>1 DEF Behind
    <2>3. QED
      BY <1>2, <1>4, <2>1, <2>2, PassCall
  <1>5. /\ IF Fails(r) THEN docs' = docs ELSE docs' = [docs EXCEPT ![b] = d2]
        /\ IF r.eof /\ Len(r.text) <= MaxSize THEN PutOffsets(u, b, c, offs) /\ Strays(u, c, u # b)
           ELSE saved' = saved /\ astray' = astray
        /\ \/ /\ pass' = Idle
              /\ \/ known' = known
                 \/ /\ c = folder[b]
                    /\ \/ known' = [known EXCEPT ![b] = "cut"]
                       \/ /\ known' = [known EXCEPT ![b] = "whole"]
                          /\ r.eof /\ (Fails(r) => r.text = <<>>)
           \/ /\ ~ Fails(r) /\ ~ r.eof /\ known' = known
              /\ pass' = [pass EXCEPT !.pos = r.pos, !.num = r.num, !.offs = offs]
        /\ folder' = folder /\ quirks' = quirks /\ changes' = changes /\ udi' = udi /\ shown' = shown
        /\ view' = view
    <2>1. /\ IF Fails(r) THEN docs' = docs ELSE docs' = [docs EXCEPT ![b] = d2]
          /\ IF r.eof /\ Len(r.text) <= MaxSize THEN PutOffsets(u, b, c, offs) /\ Strays(u, c, u # b)
             ELSE saved' = saved /\ astray' = astray
          /\ IF Fails(r) THEN Ended(IF r.eof /\ r.text = <<>> THEN "whole" ELSE "cut")
             ELSE IF r.eof THEN Ended("whole")
             ELSE /\ pass' = [pass EXCEPT !.pos = r.pos, !.num = r.num, !.offs = offs]
                  /\ known' = known
          /\ UNCHANGED <<folder, quirks, changes, udi, view, shown>>
      BY <1>1 DEF NextDocument
    <2> HIDE DEF r, offs, u, d2
    <2>2. \A how : Ended(how) =>
              /\ pass' = Idle
              /\ known' = known \/ (c = folder[b] /\ known' = [known EXCEPT ![b] = how])
      BY <1>1 DEF Ended
    <2>3. QED
      BY <2>1, <2>2
  <1> HIDE DEF r, offs, u, d2
  <1>6. offs \in Offsets
    BY <1>2, <1>3, ConcatProperties DEF Offsets, offs
  <1>7. /\ saved' \in [Box -> [offs : Offsets, of : Box \cup {NoBox}]]
        /\ astray' \subseteq Box
        /\ \A x \in Box : x # b => x \in astray' \/ (x \notin astray /\ saved'[x] = saved[x])
        /\ r.eof /\ Len(r.text) <= MaxSize /\ u # NoBox /\ Len(c) >= MinSize => saved'[u].offs = offs
    <2>1. u \in Box \cup {NoBox} /\ saved \in [Box -> [offs : Offsets, of : Box \cup {NoBox}]]
          /\ astray \subseteq Box
      BY DEF Typed, u, Process
    <2>2. CASE r.eof /\ Len(r.text) <= MaxSize
      <3>1. /\ saved' \in [Box -> [offs : Offsets, of : Box \cup {NoBox}]]
            /\ \A x \in Box : x # u => saved'[x] = saved[x]
            /\ u # NoBox /\ Len(c) >= MinSize => saved'[u].offs = offs
            /\ u = NoBox \/ Len(c) < MinSize => saved' = saved
        <4>1. PutOffsets(u, b, c, offs)
          BY <1>5, <2>2
        <4>2. QED
          BY <1>2, <1>6, <2>1, <4>1, SavedTyped
      <3>2. /\ astray' \subseteq Box
            /\ \A x \in Box : x # u => (x \in astray' <=> x \in astray)
            /\ u # NoBox /\ Len(c) >= MinSize => (u \in astray' <=> u \notin {b})
            /\ u = NoBox \/ Len(c) < MinSize => astray' = astray
        <4>1. astray' = IF u = NoBox \/ Len(c) < MinSize THEN astray
                        ELSE IF u \notin {b} THEN astray \cup {u} ELSE astray \ {u}
          BY <1>5, <2>2 DEF Strays
        <4>2. {b} \in SUBSET Box
          OBVIOUS
        <4>3. QED
          BY <1>2, <2>1, <4>1, <4>2, AstrayTyped
      <3>3. Len(c) < MinSize \/ Len(c) >= MinSize
        BY <1>2, MboxAssumption
      <3>4. ASSUME NEW x \in Box, x # b
            PROVE  x \in astray' \/ (x \notin astray /\ saved'[x] = saved[x])
        <4>1. CASE x # u \/ u = NoBox \/ Len(c) < MinSize
          <5>1. saved'[x] = saved[x] /\ (x \in astray' <=> x \in astray)
            BY <3>1, <3>2, <4>1
          <5>2. QED
            BY <5>1
        <4>2. CASE x = u /\ u # NoBox /\ Len(c) >= MinSize
          <5>1. u \in astray'
            BY <3>2, <3>4, <4>2
          <5>2. QED
            BY <4>2, <5>1
        <4>3. QED
          BY <3>3, <4>1, <4>2
      <3>5. QED
        BY <3>1, <3>2, <3>4
    <2>3. CASE ~ (r.eof /\ Len(r.text) <= MaxSize)
      BY <1>5, <2>1, <2>3
    <2>4. QED
      BY <2>2, <2>3
  <1>8. /\ docs' = [x \in Box |-> docs'[x]]
        /\ docs'[b] = IF Fails(r) THEN docs[b] ELSE d2
        /\ \A x \in Box : x # b => docs'[x] = docs[x]
    <2>1. docs = [x \in Box |-> docs[x]]
      BY DEF Typed
    <2>2. QED
      BY <1>5, <2>1
  <1>9. /\ DOMAIN d2 = DOMAIN docs[b] \cup {r.num - 1}
        /\ \A n \in DOMAIN d2 : d2[n] = IF n = r.num - 1 THEN r.text ELSE docs[b][n]
    BY DEF d2, Add
  <1>10. Typed'
    <2>1. known' \in [Box -> {"stale", "cut", "whole"}]
      BY <1>5 DEF Typed
    <2>2. \/ pass' = Idle
          \/ /\ pass' \in [box : Box, text : Contents, pos : Nat \ {0}, num : Nat, offs : Offsets]
             /\ pass'.pos <= Len(pass'.text) + 1
      BY <1>1, <1>2, <1>3, <1>5, <1>6
    <2>3. DOMAIN d2 \subseteq Nat /\ \A n \in DOMAIN d2 : d2[n] \in Lines
      <3>1. DOMAIN docs[b] \subseteq Nat /\ \A n \in DOMAIN docs[b] : docs[b][n] \in Lines
        BY DEF Typed
      <3>2. r.num - 1 \in Nat /\ r.text \in Lines
        BY <1>3 DEF Lines
      <3>3. QED
        BY <1>9, <3>1, <3>2
    <2>4. \A x \in Box : DOMAIN docs'[x] \subseteq Nat /\ \A n \in DOMAIN docs'[x] : docs'[x][n] \in Lines
      BY <1>8, <2>3 DEF Typed
    <2>5. QED
      BY <1>5, <1>7, <1>8, <2>1, <2>2, <2>4 DEF Typed
  <1>11. ASSUME WellFormed(b, c), ~ Fails(r)
         PROVE  \E p \in Begins(b, c), e \in Nat :
                   /\ e = NextBegin(b, c, p)
                   /\ Listed(b, c, e, docs[b])'
                   /\ r.eof <=> e > Len(c)
                   /\ r.num = UpTo(Begins(b, c), p) + 1
                   /\ r.pos = e + 1
                   /\ offs = InOrder(Through(b, c, 1, e))
    <2>1. PICK p \in Begins(b, c) :
             /\ Listed(b, c, p, docs[b])
             /\ r.text = Message(b, c, p)
             /\ r.eof <=> NextBegin(b, c, p) > Len(c)
             /\ r.num = UpTo(Begins(b, c), p) + 1
             /\ r.pos = NextBegin(b, c, p) + 1
             /\ offs = InOrder(Through(b, c, 1, NextBegin(b, c, p)))
      BY <1>4, <1>11
    <2>2. UpTo(Begins(b, c), p) \in Nat
      BY <1>2, MessageEnds, FolderLines, RankTyped
    <2>3. d2 = Add(docs[b], UpTo(Begins(b, c), p), Message(b, c, p))
      BY <2>1, <2>2 DEF d2
    <2>4. PICK e \in Nat : e = NextBegin(b, c, p)
      BY <1>2, MessageEnds
    <2>5. Listed(b, c, e, d2)
      BY <1>2, <2>1, <2>3, <2>4, AddMessage
    <2>6. docs'[b] = d2
      BY <1>8, <1>11
    <2>7. Listed(b, c, e, docs[b])'
      <3>1. PICK d : d = d2
        OBVIOUS
      <3>2. Listed(b, c, e, d)
        BY <2>5, <3>1
      <3>3. Listed(b, c, e, d)'
        <4>1. Begins(b, c)' = Begins(b, c)
          BY <1>5, SameMessages
        <4>2. \A q \in Begins(b, c) : Message(b, c, q)' = Message(b, c, q)
          BY <1>5, SameMessages
        <4>3. QED
          BY <3>2, <4>1, <4>2 DEF Listed
      <3>4. QED
        BY <2>6, <3>1, <3>3 DEF Listed
    <2>8. QED
      BY <2>1, <2>4, <2>7
  <1>12. PassOK'
    <2>1. ASSUME pass' # Idle
          PROVE  /\ known'[pass'.box] = "stale" /\ pass'.box = b
                 /\ WellFormed(b, c)' => \E p \in Nat : Behind(b, c, p)'
                 /\ pass'.text = c /\ (b \notin Inner => udi'["indexer"] = b)
      <3>1. /\ ~ Fails(r) /\ ~ r.eof /\ known' = known
            /\ pass' = [pass EXCEPT !.pos = r.pos, !.num = r.num, !.offs = offs]
        BY <1>5, <2>1
      <3>2. /\ pass'.box = b /\ pass'.text = c /\ pass'.pos = r.pos /\ pass'.num = r.num
            /\ pass'.offs = offs
        BY <1>1, <1>2, <3>1
      <3>3. ASSUME WellFormed(b, c)' PROVE \E p \in Nat : Behind(b, c, p)'
        <4>1. WellFormed(b, c)
          BY <1>5, <3>3, SameMessages
        <4>2. PICK p \in Begins(b, c), e \in Nat :
                 /\ e = NextBegin(b, c, p)
                 /\ Listed(b, c, e, docs[b])'
                 /\ r.eof <=> e > Len(c)
                 /\ r.num = UpTo(Begins(b, c), p) + 1
                 /\ r.pos = e + 1
                 /\ offs = InOrder(Through(b, c, 1, e))
          BY <1>11, <3>1, <4>1
        <4>3. e \in Begins(b, c) /\ UpTo(Begins(b, c), e) = UpTo(Begins(b, c), p) + 1
          BY <1>2, <3>1, <4>2, MessageEnds
        <4>4. Through(b, c, 1, e)' = Through(b, c, 1, e) /\ Begins(b, c)' = Begins(b, c)
          BY <1>5, SameMessages DEF Through
        <4>5. pass'.pos = e + 1 /\ pass'.num = UpTo(Begins(b, c), e)
              /\ pass'.offs = InOrder(Through(b, c, 1, e))
          BY <3>2, <4>2, <4>3
        <4>6. Behind(b, c, e)'
          BY <4>2, <4>3, <4>4, <4>5 DEF Behind
        <4>7. QED
          BY <4>6
      <3>4. QED
        BY <1>2, <1>5, <3>1, <3>2, <3>3
    <2>2. QED
      BY <2>1 DEF PassOK
  <1>13. IndexOK'
    <2>1. ASSUME NEW x \in Box, x # b
          PROVE  /\ \A n \in DOMAIN docs'[x] : Len(docs'[x][n]) <= MaxSize
                 /\ \A l \in Contents :
                       l = folder'[x] /\ known'[x] = "whole" /\ WellFormed(x, l)' => Complete(x, l)'
      <3>1. known'[x] = known[x]
        BY <1>5, <2>1 DEF Typed
      <3>2. x \in astray' \/ (x \notin astray /\ saved'[x] = saved[x])
        BY <1>7, <2>1
      <3>3. QED
        BY <1>5, <1>8, <2>1, <3>1, <3>2, SameIndex
    <2>2. \A n \in DOMAIN docs'[b] : Len(docs'[b][n]) <= MaxSize
      <3>1. \A n \in DOMAIN docs[b] : Len(docs[b][n]) <= MaxSize
        BY DEF IndexOK
      <3>2. ~ Fails(r) => Len(r.text) <= MaxSize
        BY <1>3, LenProperties, MboxAssumption DEF Fails
      <3>3. QED
        BY <1>8, <1>9, <3>1, <3>2
    <2>3. ASSUME NEW l \in Contents, l = folder'[b], known'[b] = "whole", WellFormed(b, l)'
          PROVE  Complete(b, l)'
      <3>1. known'[b] # known[b]
        BY <1>2, <2>3
      <3>2. /\ c = folder[b] /\ r.eof /\ (Fails(r) => r.text = <<>>)
        BY <1>5, <2>3, <3>1 DEF Typed
      <3>3. l = c /\ WellFormed(b, c)
        BY <1>5, <2>3, <3>2, SameMessages
      <3>4. r.text # <<>>
        <4>1. PICK p \in Begins(b, c) : r.text = Message(b, c, p)
          BY <1>4, <3>3
        <4>2. p \in DOMAIN c /\ c[p] = From
          BY DEF Begins
        <4>3. QED
          BY <3>3, <4>1, <4>2 DEF WellFormed
      <3>5. ~ Fails(r)
        BY <3>2, <3>4
      <3>6. PICK p \in Begins(b, c), e \in Nat :
               /\ e = NextBegin(b, c, p)
               /\ Listed(b, c, e, docs[b])'
               /\ r.eof <=> e > Len(c)
               /\ offs = InOrder(Through(b, c, 1, e))
        BY <1>11, <3>3, <3>5
      <3>7. e = Len(c) + 1
        <4>1. NextBegin(b, c, p) <= Len(c) + 1
          BY <1>2, MessageEnds
        <4>2. QED
          BY <1>2, <3>2, <3>6, <4>1
      <3>8. Listed(b, c, Len(c) + 1, docs[b])'
        BY <3>6, <3>7 DEF Listed
      <3>9. Through(b, c, 1, Len(c) + 1) = Begins(b, c)
        <4>1. \A q \in Begins(b, c) : q >= 1 /\ q <= Len(c) + 1
          BY <1>2, FolderLines
        <4>2. QED
          BY <4>1 DEF Through
      <3>10. b \notin Inner /\ Len(c) >= MinSize => saved'[b].offs = InOrder(Begins(b, c))
        <4>1. Len(r.text) <= MaxSize
          BY <1>3, <3>5, LenProperties, MboxAssumption DEF Fails
        <4>2. b # NoBox
          BY MboxAssumption
        <4>3. QED
          BY <1>2, <1>7, <3>2, <3>6, <3>7, <3>9, <4>1, <4>2 DEF u
      <3>11. QED
        BY <1>5, <3>3, <3>8, <3>10, SameMessages DEF Complete
    <2>4. QED
      BY <2>1, <2>2, <2>3 DEF IndexOK
  <1>14. ShownOK' /\ ViewOK'
    BY <1>5, SameShown, SameView
  <1>15. QED
    BY <1>10, <1>12, <1>13, <1>14

LEMMA PreviewOpensStep ==
    ASSUME FolderInv, NEW b \in Box, NEW n \in DOMAIN docs[b], PreviewOpens(b, n)
    PROVE  FolderInv'
  <1> USE DEF FolderInv
  <1>1. PICK c \in Contents : c = folder[b]
    BY DEF Typed
  <1>2. /\ view' = [box |-> b, num |-> n, text |-> c, offs |-> <<>>, save |-> FALSE]
        /\ udi' = [udi EXCEPT !["gui"] = UdiFor("gui", b)] /\ shown' = NoPreview
        /\ folder' = folder /\ quirks' = quirks /\ changes' = changes /\ saved' = saved
        /\ docs' = docs /\ known' = known /\ pass' = pass /\ astray' = astray
    BY <1>1 DEF PreviewOpens, NoView
  <1>3. UdiFor("gui", b) \in Box \cup {NoBox} /\ (b \notin Inner => UdiFor("gui", b) = b)
    BY DEF UdiFor, Typed, Process
  <1>4. /\ udi' \in [Process -> Box \cup {NoBox}] /\ udi'["gui"] = UdiFor("gui", b)
        /\ udi'["indexer"] = udi["indexer"]
    BY <1>2, <1>3 DEF Typed, Process
  <1>5. Typed'
    <2>1. n \in Nat
      BY DEF Typed
    <2>2. <<>> \in Offsets
      BY EmptySeq DEF Offsets
    <2>3. view' \in [box : Box, num : Nat, text : Contents, offs : Offsets, save : BOOLEAN]
      BY <1>2, <2>1, <2>2
    <2>4. QED
      BY <1>2, <1>4, <2>3 DEF Typed
  <1>6. PassOK'
    <2>1. \A x \in Box, l \in Contents :
              x = pass.box /\ l = pass.text /\ WellFormed(x, l)' /\ pass # Idle =>
                  \E p \in Nat : Behind(x, l, p)'
      BY <1>2, SameMessages, SameProgress DEF PassOK
    <2>2. QED
      BY <1>2, <1>4, <2>1 DEF PassOK
  <1>7. ViewOK'
    BY <1>2, <1>3, <1>4 DEF ViewOK
  <1>8. IndexOK'
    BY <1>2, SameIndex DEF IndexOK
  <1>9. ShownOK'
    BY <1>2 DEF ShownOK
  <1>10. QED
    BY <1>5, <1>6, <1>7, <1>8, <1>9

(* A preview that reads changes nothing but what it shows and will save.   *)
LEMMA PreviewFrame ==
    ASSUME FolderInv,
           folder' = folder, quirks' = quirks, changes' = changes, saved' = saved, docs' = docs,
           known' = known, pass' = pass, udi' = udi, astray' = astray
    PROVE  PassOK' /\ IndexOK'
  <1> USE DEF FolderInv
  <1>1. PassOK'
    <2>1. \A x \in Box, l \in Contents :
              x = pass.box /\ l = pass.text /\ WellFormed(x, l)' /\ pass # Idle =>
                  \E p \in Nat : Behind(x, l, p)'
      BY SameMessages, SameProgress DEF PassOK
    <2>2. QED
      BY <2>1 DEF PassOK
  <1>2. IndexOK'
    BY SameIndex DEF IndexOK
  <1>3. QED
    BY <1>1, <1>2

LEMMA PreviewReadsStep ==
    ASSUME FolderInv, PreviewReads
    PROVE  FolderInv'
  <1> USE DEF FolderInv
  <1>0. view # NoView
    BY DEF PreviewReads
  <1>a. PICK b \in Box, c \in Contents, n \in Nat : b = view.box /\ c = view.text /\ n = view.num
    BY <1>0 DEF Typed
  <1> DEFINE u == udi["gui"]
             o == saved[u].offs[n]
             hit == n > 0 /\ Cached(u, n)
             use == hit /\ FromAt(c, o)
             past == ~ use /\ hit /\ o > Len(c)
             r == IF use THEN Call(b, c, o, n - 1, n)
                  ELSE IF hit /\ o > Len(c) THEN BadStream
                  ELSE Call(b, c, 1, 0, n)
             seen == IF Fails(r) THEN Nothing ELSE r.text
             there == n \in DOMAIN docs[b]
             want == IF there THEN docs[b][n] ELSE Nothing
             state == IF there /\ folder[b] = c THEN known[b] ELSE "stale"
             misled == hit /\ (b \in Inner \/ u \in astray)
  <1>1. /\ c \in Seq(Line) /\ Len(c) \in Nat /\ DOMAIN c = 1 .. Len(c)
        /\ there => docs[b][n] \in Lines
    BY ContentLines, LenProperties DEF Typed
  <1>2. u \in Box \cup {NoBox} /\ (b \notin Inner => u = b)
    BY <1>0, <1>a DEF Typed, Process, ViewOK
  <1>3. hit => n \in Nat \ {0} /\ u \in Box /\ n \in DOMAIN saved[u].offs /\ o \in Nat \ {0}
    <2>1. ASSUME u \in Box, n \in DOMAIN saved[u].offs PROVE o \in Nat \ {0}
      <3>1. saved[u].offs \in Seq(Nat \ {0})
        BY <2>1 DEF Typed, Offsets
      <3>2. QED
        BY <2>1, <3>1, ElementOfSeq, LenProperties
    <2>2. QED
      BY <1>1, <1>2, <2>1 DEF Cached
  <1>4. /\ view' = IF r.eof /\ ~ use /\ Len(r.text) <= MaxSize
                   THEN [view EXCEPT !.save = TRUE, !.offs = r.offs] ELSE NoView
        /\ shown' = [box |-> b, num |-> n, text |-> seen, want |-> want, known |-> state,
                     in |-> c, misled |-> misled]
        /\ folder' = folder /\ quirks' = quirks /\ changes' = changes /\ saved' = saved
        /\ docs' = docs /\ known' = known /\ pass' = pass /\ udi' = udi /\ astray' = astray
    BY <1>a DEF PreviewReads
  <1>5. /\ use => r = Call(b, c, o, n - 1, n)
        /\ past => r = BadStream
        /\ ~ use /\ ~ past => r = Call(b, c, 1, 0, n)
    OBVIOUS
  <1>6. /\ past => ~ use /\ hit /\ o > Len(c)
        /\ use => hit /\ o <= Len(c) /\ c[o] = From
        /\ hit /\ ~ misled => b \notin Inner /\ u \notin astray
        /\ misled \in BOOLEAN
    BY DEF FromAt, Cached
  <1>7. /\ seen = IF Fails(r) THEN Nothing ELSE r.text
        /\ state = "whole" => there /\ folder[b] = c /\ known[b] = "whole"
        /\ state \in {"stale", "cut", "whole"} /\ want \in Lines \cup {Nothing}
        /\ there => want = docs[b][n]
    BY <1>1 DEF Typed
  <1> HIDE DEF u, o, hit, use, past, r, seen, want, state, misled
  <1>8. r.text \in Seq(Line) /\ r.offs \in Offsets
    <2>1. CASE use
      <3>1. o \in Nat \ {0} /\ n - 1 \in Nat
        BY <1>3, <1>6, <2>1
      <3>2. QED
        BY <1>1, <1>5, <2>1, <3>1, CallTyped
    <2>2. CASE past
      <3>1. r.text = <<>> /\ r.offs = <<>>
        BY <1>5, <2>2 DEF BadStream
      <3>2. <<>> \in Seq(Line) /\ <<>> \in Seq(Nat \ {0})
        BY EmptySeq
      <3>3. QED
        BY <3>1, <3>2 DEF Offsets
    <2>3. CASE ~ use /\ ~ past
      BY <1>1, <1>5, <2>3, CallTyped
    <2>4. QED
      BY <2>1, <2>2, <2>3
  <1>9. seen \in Lines \cup {Nothing}
    BY <1>7, <1>8 DEF Lines
  <1>10. \/ view' = NoView
         \/ /\ view' \in [box : Box, num : Nat, text : Contents, offs : Offsets, save : BOOLEAN]
            /\ view'.box = b /\ view'.text = c /\ view'.offs = r.offs /\ r.eof /\ ~ use
    BY <1>0, <1>a, <1>4, <1>8 DEF Typed
  <1>11. Typed'
    <2>1. shown' \in [box : Box, num : Nat, text : Lines \cup {Nothing}, want : Lines \cup {Nothing},
                      known : {"stale", "cut", "whole"}, in : Contents, misled : BOOLEAN]
      BY <1>4, <1>6, <1>7, <1>9
    <2>2. QED
      BY <1>4, <1>10, <2>1 DEF Typed
  <1>12. PassOK' /\ IndexOK'
    BY <1>4, PreviewFrame
  <1>13. ASSUME WellFormed(b, c), ~ use, ~ past
         PROVE  /\ r.text = <<>> \/ \E p \in Begins(b, c) : r.text = Message(b, c, p)
                /\ r.eof => r.offs = InOrder(Begins(b, c))
                /\ \A p \in Begins(b, c) :
                      UpTo(Begins(b, c), p) = n => r.text = Message(b, c, p)
    BY <1>1, <1>5, <1>13, Scan
  <1>14. ASSUME WellFormed(b, c), use
         PROVE  o \in Begins(b, c) /\ r.text = Message(b, c, o)
    <2>1. o \in Begins(b, c)
      BY <1>1, <1>3, <1>6, <1>14 DEF WellFormed
    <2>2. QED
      BY <1>1, <1>3, <1>5, <1>6, <1>14, <2>1, FromOffset
  <1>15. ASSUME WellFormed(b, c), state = "whole", ~ misled, Len(c) >= MinSize
         PROVE  /\ ~ past
                /\ use => n \in 1 .. Cardinality(Begins(b, c)) /\ o = InOrder(Begins(b, c))[n]
    <2>1. ASSUME hit
          PROVE  /\ n \in 1 .. Cardinality(Begins(b, c)) /\ o = InOrder(Begins(b, c))[n]
                 /\ o <= Len(c)
      <3>1. b \notin Inner /\ u = b /\ b \notin astray
        BY <1>2, <1>6, <1>15, <2>1
      <3>2. saved[b].offs \in {<<>>, InOrder(Begins(b, c))}
        BY <1>7, <1>15, <3>1 DEF IndexOK, Complete
      <3>3. n \in DOMAIN InOrder(Begins(b, c)) /\ o = InOrder(Begins(b, c))[n]
        BY <1>3, <2>1, <3>1, <3>2 DEF o
      <3>4. \A q \in Begins(b, c) : q \in 1 .. Len(c)
        BY <1>1, FolderLines
      <3>5. n \in 1 .. Cardinality(Begins(b, c)) /\ InOrder(Begins(b, c))[n] \in Begins(b, c)
        BY <1>1, <3>3, <3>4, Ordered
      <3>6. QED
        BY <3>3, <3>4, <3>5
    <2>2. ~ past
      BY <1>1, <1>3, <1>6, <2>1
    <2>3. QED
      BY <1>6, <2>1, <2>2
  <1>16. ViewOK'
    <2>1. CASE view' = NoView
      BY <2>1 DEF ViewOK
    <2>2. CASE view' # NoView
      <3>1. view'.box = b /\ view'.text = c /\ view'.offs = r.offs /\ r.eof /\ ~ use
        BY <1>10, <2>2
      <3>2. b \notin Inner => udi'["gui"] = b
        BY <1>2, <1>4 DEF u
      <3>3. ASSUME WellFormed(b, c)' PROVE r.offs \in {<<>>, InOrder(Begins(b, c)')}
        <4>1. WellFormed(b, c) /\ Begins(b, c)' = Begins(b, c)
          BY <1>4, <3>3, SameMessages
        <4>2. past => r.offs = <<>>
          BY <1>5 DEF BadStream
        <4>3. QED
          BY <1>13, <3>1, <4>1, <4>2
      <3>4. QED
        BY <3>1, <3>2, <3>3 DEF ViewOK
    <2>3. QED
      BY <2>1, <2>2
  <1>17. ASSUME WellFormed(b, c)
         PROVE  /\ seen \in Messages(b, c) \cup {Nothing}
                /\ state = "whole" /\ ~ misled /\ Len(c) >= MinSize => seen = want
    <2>1. r.text = <<>> \/ \E p \in Begins(b, c) : r.text = Message(b, c, p)
      BY <1>5, <1>13, <1>14, <1>17 DEF BadStream
    <2>2. seen \in Messages(b, c) \cup {Nothing}
      BY <1>7, <2>1 DEF Fails, Messages
    <2>3. ASSUME state = "whole", ~ misled, Len(c) >= MinSize
          PROVE  seen = want
      <3>0. there /\ folder[b] = c /\ known[b] = "whole" /\ want = docs[b][n]
        BY <1>7, <2>3
      <3>1. \A q \in Begins(b, c) : q \in 1 .. Len(c)
        BY <1>1, FolderLines
      <3>2. /\ DOMAIN docs[b] = 1 .. Cardinality(Begins(b, c))
            /\ \A p \in Begins(b, c) : docs[b][UpTo(Begins(b, c), p)] = Message(b, c, p)
        <4>1. Listed(b, c, Len(c) + 1, docs[b])
          BY <1>17, <3>0 DEF IndexOK, Complete
        <4>2. {p \in Begins(b, c) : p < Len(c) + 1} = Begins(b, c)
          <5>1. \A p \in Begins(b, c) : p < Len(c) + 1
            BY <1>1, <3>1
          <5>2. QED
            BY <5>1
        <4>3. QED
          BY <4>1, <4>2 DEF Listed
      <3>3. PICK p \in Begins(b, c) : UpTo(Begins(b, c), p) = n
        BY <1>1, <3>0, <3>1, <3>2, RankIsOf
      <3>4. docs[b][n] = Message(b, c, p)
        BY <3>2, <3>3
      <3>5. r.text = Message(b, c, p)
        <4>1. CASE use
          <5>1. o = InOrder(Begins(b, c))[UpTo(Begins(b, c), p)]
            BY <1>15, <1>17, <2>3, <3>3, <4>1
          <5>2. o = p
            BY <1>1, <3>1, <5>1, Ordered
          <5>3. QED
            BY <1>14, <1>17, <4>1, <5>2
        <4>2. CASE ~ use
          <5>1. ~ past
            BY <1>15, <1>17, <2>3
          <5>2. QED
            BY <1>13, <1>17, <3>3, <4>2, <5>1
        <4>3. QED
          BY <4>1, <4>2
      <3>6. r.text # <<>>
        <4>1. p \in DOMAIN c /\ c[p] = From
          BY <3>3 DEF Begins
        <4>2. QED
          BY <1>17, <3>5, <4>1 DEF WellFormed
      <3>7. ~ Fails(r)
        <4>1. Len(docs[b][n]) <= MaxSize /\ Len(docs[b][n]) \in Nat
          BY <1>1, <3>0, LenProperties DEF IndexOK, Lines
        <4>2. QED
          BY <3>4, <3>5, <3>6, <4>1, MboxAssumption DEF Fails
      <3>8. QED
        BY <1>7, <3>0, <3>4, <3>5, <3>7
    <2>4. QED
      BY <2>2, <2>3
  <1>18. ShownOK'
    <2>1. shown'.box = b /\ shown'.in = c /\ shown'.text = seen /\ shown'.known = state
          /\ shown'.want = want /\ shown'.misled = misled
      BY <1>4
    <2>2. QED
      BY <1>4, <1>17, <2>1, SameMessages DEF ShownOK
  <1>19. QED
    BY <1>11, <1>12, <1>16, <1>18

(* A preview that saves writes the offsets that the folder has, or the     *)
(* cache is astray.                                                        *)
LEMMA PreviewSavesStep ==
    ASSUME FolderInv, PreviewSaves
    PROVE  FolderInv'
  <1> USE DEF FolderInv
  <1>0. view # NoView
    BY DEF PreviewSaves, NoView
  <1>1. PICK b \in Box, c \in Contents, offs \in Offsets :
            b = view.box /\ c = view.text /\ offs = view.offs
    BY <1>0 DEF Typed
  <1> DEFINE u == udi["gui"]
             Right == IF c = folder[b] THEN {b} ELSE {}
  <1>2. /\ PutOffsets(u, b, c, offs) /\ view.save /\ view' = NoView
        /\ astray' = IF u = NoBox \/ Len(c) < MinSize THEN astray
                     ELSE IF u # b \/ c # folder[b] THEN astray \cup {u} ELSE astray \ {u}
        /\ folder' = folder /\ quirks' = quirks /\ changes' = changes /\ docs' = docs
        /\ known' = known /\ pass' = pass /\ udi' = udi /\ shown' = shown
    BY <1>1 DEF PreviewSaves, Strays
  <1>3. u \in Box \cup {NoBox} /\ Len(c) \in Nat /\ Right \in SUBSET Box
        /\ (u \notin Right <=> u # b \/ c # folder[b])
        /\ saved \in [Box -> [offs : Offsets, of : Box \cup {NoBox}]] /\ astray \subseteq Box
    BY <1>1, ContentLines DEF Typed, Process
  <1>4. /\ b \notin Inner => u = b
        /\ WellFormed(b, c) => offs \in {<<>>, InOrder(Begins(b, c))}
    BY <1>0, <1>1, <1>2 DEF ViewOK
  <1> HIDE DEF u, Right
  <1>5. /\ saved' \in [Box -> [offs : Offsets, of : Box \cup {NoBox}]]
        /\ astray' \subseteq Box
        /\ \A x \in Box : x # u => saved'[x] = saved[x] /\ (x \in astray' <=> x \in astray)
        /\ u # NoBox /\ Len(c) >= MinSize =>
               saved'[u].offs = offs /\ (u \in astray' <=> u # b \/ c # folder[b])
        /\ u = NoBox \/ Len(c) < MinSize => saved' = saved /\ astray' = astray
    <2>1. /\ saved' \in [Box -> [offs : Offsets, of : Box \cup {NoBox}]]
          /\ \A x \in Box : x # u => saved'[x] = saved[x]
          /\ u # NoBox /\ Len(c) >= MinSize => saved'[u].offs = offs
          /\ u = NoBox \/ Len(c) < MinSize => saved' = saved
      BY <1>2, <1>3, SavedTyped
    <2>2. /\ astray' \subseteq Box
          /\ \A x \in Box : x # u => (x \in astray' <=> x \in astray)
          /\ u # NoBox /\ Len(c) >= MinSize => (u \in astray' <=> u \notin Right)
          /\ u = NoBox \/ Len(c) < MinSize => astray' = astray
      <3>1. astray' = IF u = NoBox \/ Len(c) < MinSize THEN astray
                      ELSE IF u \notin Right THEN astray \cup {u} ELSE astray \ {u}
        BY <1>2, <1>3
      <3>2. QED
        BY <1>3, <3>1, AstrayTyped
    <2>3. QED
      BY <1>3, <2>1, <2>2
  <1>6. Typed'
    BY <1>2, <1>5 DEF Typed
  <1>7. PassOK'
    <2>1. \A x \in Box, l \in Contents :
              x = pass.box /\ l = pass.text /\ WellFormed(x, l)' /\ pass # Idle =>
                  \E p \in Nat : Behind(x, l, p)'
      BY <1>2, SameMessages, SameProgress DEF PassOK
    <2>2. QED
      BY <1>2, <2>1 DEF PassOK
  <1>8. ViewOK' /\ ShownOK'
    BY <1>2, SameShown DEF ViewOK
  <1>9. IndexOK'
    <2>1. ASSUME NEW x \in Box
          PROVE  /\ \A m \in DOMAIN docs'[x] : Len(docs'[x][m]) <= MaxSize
                 /\ \A l \in Contents :
                       l = folder'[x] /\ known'[x] = "whole" /\ WellFormed(x, l)' => Complete(x, l)'
      <3>1. CASE x # u \/ u = NoBox \/ Len(c) < MinSize
        <4>1. saved'[x] = saved[x] /\ (x \in astray' <=> x \in astray)
          BY <1>5, <3>1
        <4>2. QED
          BY <1>2, <4>1, SameIndex
      <3>2. CASE x = u /\ u # NoBox /\ Len(c) >= MinSize
        <4>1. saved'[x].offs = offs /\ (x \in astray' <=> u # b \/ c # folder[b])
          BY <1>5, <3>2
        <4>2. CASE u # b \/ c # folder[b]
          <5>1. x \in astray'
            BY <4>1, <4>2
          <5>2. QED
            BY <1>2, <5>1, SameIndex
        <4>3. CASE ~ (u # b \/ c # folder[b])
          <5>1. x = b /\ c = folder[b]
            BY <1>3, <3>2, <4>3
          <5>2. \A m \in DOMAIN docs'[x] : Len(docs'[x][m]) <= MaxSize
            BY <1>2 DEF IndexOK
          <5>3. ASSUME NEW l \in Contents, l = folder'[x], known'[x] = "whole", WellFormed(x, l)'
                PROVE  Complete(x, l)'
            <6>1. l = c /\ WellFormed(b, c) /\ known[b] = "whole"
              BY <1>2, <5>1, <5>3, SameMessages
            <6>2. Listed(b, c, Len(c) + 1, docs[b])
              BY <5>1, <6>1 DEF IndexOK, Complete
            <6>3. Listed(b, c, Len(c) + 1, docs[b])'
              BY <1>2, <6>2, SameMessages DEF Listed
            <6>4. saved'[b].offs \in {<<>>, InOrder(Begins(b, c)')}
              BY <1>2, <1>4, <4>1, <5>1, <6>1, SameMessages
            <6>5. QED
              BY <5>1, <6>1, <6>3, <6>4 DEF Complete
          <5>4. QED
            BY <5>2, <5>3
        <4>4. QED
          BY <4>2, <4>3
      <3>3. \/ x # u \/ u = NoBox \/ Len(c) < MinSize
            \/ x = u /\ u # NoBox /\ Len(c) >= MinSize
        BY <1>3, MboxAssumption
      <3>4. QED
        BY <3>1, <3>2, <3>3
    <2>2. QED
      BY <2>1 DEF IndexOK
  <1>10. QED
    BY <1>6, <1>7, <1>8, <1>9

LEMMA FolderStep == FolderInv /\ [Next]_vars => FolderInv'
  <1> SUFFICES ASSUME FolderInv, [Next]_vars PROVE FolderInv'
    OBVIOUS
  <1>1. CASE UNCHANGED vars
    <2>1. /\ folder' = folder /\ quirks' = quirks /\ changes' = changes /\ saved' = saved
          /\ docs' = docs /\ known' = known /\ pass' = pass /\ udi' = udi /\ shown' = shown
          /\ view' = view /\ astray' = astray
      BY <1>1 DEF vars
    <2>2. Typed'
      BY <2>1 DEF FolderInv, Typed
    <2>3. PassOK'
      BY <2>1, SameMessages, SameProgress DEF FolderInv, PassOK
    <2>4. IndexOK'
      BY <2>1, SameIndex DEF FolderInv, IndexOK
    <2>5. ShownOK' /\ ViewOK'
      BY <2>1, SameShown, SameView DEF FolderInv
    <2>6. QED
      BY <2>2, <2>3, <2>4, <2>5 DEF FolderInv
  <1>2. ASSUME NEW b \in Box, Change(b) PROVE FolderInv'
    BY <1>2, ChangeStep
  <1>3. ASSUME NEW b \in Box, SetDocumentFile(b) PROVE FolderInv'
    BY <1>3, SetDocumentFileStep
  <1>4. ASSUME NEW b \in Box, NEW n \in DOMAIN docs[b], PreviewOpens(b, n) PROVE FolderInv'
    BY <1>4, PreviewOpensStep
  <1>5. CASE NextDocument
    BY <1>5, NextDocumentStep
  <1>6. CASE Killed
    BY <1>6, KilledStep
  <1>7. CASE ClearPool
    BY <1>7, ClearPoolStep
  <1>8. CASE PreviewReads
    BY <1>8, PreviewReadsStep
  <1>9. CASE PreviewSaves
    BY <1>9, PreviewSavesStep
  <1>10. QED
    BY <1>1, <1>2, <1>3, <1>4, <1>5, <1>6, <1>7, <1>8, <1>9 DEF Next

-----------------------------------------------------------------------------
(* The properties.                                                         *)

LEMMA WholeFromInv == FolderInv => WholePassListsAll
  <1> SUFFICES ASSUME FolderInv, NEW b \in Box, known[b] = "whole", WellFormed(b, folder[b])
               PROVE  /\ DOMAIN docs[b] = 1 .. Cardinality(Begins(b, folder[b]))
                      /\ \A p \in Begins(b, folder[b]) :
                            docs[b][UpTo(Begins(b, folder[b]), p)] = Message(b, folder[b], p)
    BY DEF WholePassListsAll
  <1>1. PICK c \in Contents : c = folder[b]
    BY DEF FolderInv, Typed
  <1>2. Listed(b, c, Len(c) + 1, docs[b])
    BY <1>1 DEF FolderInv, IndexOK, Complete
  <1>3. {p \in Begins(b, c) : p < Len(c) + 1} = Begins(b, c)
    <2>1. \A p \in Begins(b, c) : p < Len(c) + 1
      BY ContentLines, FolderLines
    <2>2. QED
      BY <2>1
  <1>4. QED
    BY <1>1, <1>2, <1>3 DEF Listed

LEMMA ShownFromInv ==
    ASSUME FolderInv
    PROVE  /\ WellFormed(shown.box, shown.in) =>
                  shown.text \in Messages(shown.box, shown.in) \cup {Nothing}
           /\ PreviewIsRight
  <1>1. CASE shown = NoPreview
    BY <1>1 DEF NoPreview, PreviewIsRight
  <1>2. CASE shown # NoPreview
    <2>1. PICK b \in Box, c \in Contents : b = shown.box /\ c = shown.in
      BY <1>2 DEF FolderInv, Typed
    <2>2. QED
      BY <1>2, <2>1 DEF FolderInv, ShownOK, PreviewIsRight
  <1>3. QED
    BY <1>1, <1>2

LEMMA TypesFromInv == FolderInv => TypeOK
  <1> SUFFICES ASSUME FolderInv PROVE TypeOK
    OBVIOUS
  <1> USE DEF FolderInv
  <1>1. DOMAIN saved = Box /\ \A b \in Box : /\ saved[b].of \in Box \cup {NoBox}
                                             /\ saved[b].offs \in Offsets
    BY DEF Typed
  <1>2. \A b \in Box : \A i \in DOMAIN saved[b].offs : saved[b].offs[i] \in Nat \ {0}
    BY <1>1, ElementOfSeq, LenProperties DEF Offsets
  <1>3. DOMAIN docs = Box
    <2>1. docs = [b \in Box |-> docs[b]]
      BY DEF Typed
    <2>2. QED
      BY <2>1
  <1>4. \A b \in Box : \A n \in DOMAIN docs[b] : n \in Nat /\ docs[b][n] \in Seq(Line)
    BY DEF Typed, Lines
  <1>5. pass.box \in Box \cup {NoBox} /\ pass.pos \in 1 .. Len(pass.text) + 2
    <2>1. CASE pass = Idle
      BY <2>1, EmptySeq DEF Idle
    <2>2. CASE pass # Idle
      <3>1. pass.box \in Box /\ pass.text \in Contents /\ pass.pos \in Nat \ {0}
            /\ pass.pos <= Len(pass.text) + 1
        BY <2>2 DEF Typed
      <3>2. QED
        BY <3>1, ContentLines
    <2>3. QED
      BY <2>1, <2>2
  <1>6. shown.box \in Box \cup {NoBox} /\ shown.text \in Seq(Line) \cup {Nothing}
    BY DEF Typed, Lines, NoPreview
  <1>7. view.box \in Box \cup {NoBox} /\ view.num \in Nat /\ view.save \in BOOLEAN
        /\ astray \subseteq Box
    <2>1. CASE view = NoView
      BY <2>1 DEF Typed, NoView
    <2>2. CASE view # NoView
      BY <2>2 DEF Typed
    <2>3. QED
      BY <2>1, <2>2
  <1>8. QED
    BY <1>1, <1>2, <1>3, <1>4, <1>5, <1>6, <1>7 DEF Typed, TypeOK

THEOREM FolderSafe == Spec => []FolderInv
  <1>1. QED
    BY InitFolder, FolderStep, PTL DEF Spec

(* A pass that came to the end of a well formed folder put each message in *)
(* the index under its rank and no other, whatever previews, changes,      *)
(* interruptions and passes over other folders came between its calls:     *)
(* each call starts behind the separator of its message and stops at the   *)
(* one of the next (mh_mbox.cpp, next_document).                           *)
THEOREM WholePass == Spec => []WholePassListsAll
  <1>1. QED
    BY FolderSafe, WholeFromInv, PTL

(* A preview of a well formed folder shows one whole message of it or      *)
(* nothing, however old the offsets in the cache and whoever wrote them    *)
(* (mh_mbox.cpp, tryUseCache: a From_ line has to be where it looks).      *)
THEOREM WholeMessages == Spec => []OnlyWholeMessages
  <1>1. FolderInv => OnlyWholeMessages
    BY ShownFromInv, TypesFromInv DEF OnlyWholeMessages
  <1>2. QED
    BY <1>1, FolderSafe, PTL

(* The preview of a message of a folder that was indexed to its end shows  *)
(* what was indexed, by the cache or a scan, unless it finds offsets that  *)
(* a handler of another folder wrote, or a preview that had opened an      *)
(* older content and was late: the member of a file is served by a handler *)
(* with the udi of whatever came before, and no lock is shared by the two  *)
(* processes (mh_mbox.cpp, get_offset, put_offsets).                       *)
THEOREM PreviewRight == Spec => []PreviewIsRight
  <1>1. FolderInv => PreviewIsRight
    BY ShownFromInv
  <1>2. QED
    BY <1>1, FolderSafe, PTL
=============================================================================
