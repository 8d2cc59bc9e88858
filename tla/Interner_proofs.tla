--------------------------- MODULE Interner_proofs ---------------------------
(***************************************************************************)
(* Theorems about Interner for any files, handlers, limits and number of   *)
(* changes: the temporary files are those of the stack (Typed), a preview  *)
(* goes the way that indexing took to a document (Retraced), and indexing  *)
(* extracts exactly what the file holds.  For the last, what a file holds  *)
(* is split at every step into what is in the index and what each handler  *)
(* on the stack still has to give (Extracted): a step moves one document   *)
(* from the second to the first, or shares what a handler had to give out  *)
(* between it and the one stacked on it, and nothing else changes.         *)
(***************************************************************************)
EXTENDS Interner, FiniteSetTheorems, SequenceTheorems, WellFoundedInduction, TLAPS

-----------------------------------------------------------------------------
(* Counting the handlers of a set up to one of them.                       *)

LEMMA Least ==
    ASSUME NEW T \in SUBSET Nat, T # {}
    PROVE  \E i \in T : \A j \in T : i <= j
  <1> DEFINE R == {ss \in Nat \X Nat : ss[1] < ss[2]}
  <1>1. IsWellFoundedOn(R, Nat)
    BY NatLessThanWellFounded DEF OpToRel
  <1>2. PICK i \in T : \A j \in T : ~ (<<j, i>> \in R)
    BY <1>1, WFMin
  <1>3. \A j \in T : ~ (j < i)
    BY <1>2
  <1>4. QED
    BY <1>3

LEMMA Ranks ==
    ASSUME NEW N \in Nat, NEW S, \A q \in S : q \in 1 .. N
    PROVE  /\ IsFiniteSet(S) /\ Cardinality(S) \in Nat
           /\ \A p \in Nat : UpTo(S, p) \in 0 .. Cardinality(S)
           /\ \A p, r \in Nat : p <= r => UpTo(S, p) <= UpTo(S, r)
           /\ \A p, r \in Nat :
                 p <= r /\ (\A q \in S : q <= p \/ r < q) => UpTo(S, p) = UpTo(S, r)
           /\ \A p \in Nat, r \in S :
                 p < r /\ (\A q \in S : q <= p \/ r <= q) => UpTo(S, r) = UpTo(S, p) + 1
           /\ \A p \in Nat, r \in S : p < r => UpTo(S, p) < UpTo(S, r)
           /\ UpTo(S, 0) = 0 /\ UpTo(S, N) = Cardinality(S)
  <1> DEFINE To(p) == {q \in S : q <= p}
  <1>0. \A q \in S : q \in Nat /\ 1 <= q /\ q <= N
    OBVIOUS
  <1>1. IsFiniteSet(S) /\ Cardinality(S) \in Nat
    <2>1. IsFiniteSet(1 .. N)
      BY FS_Interval
    <2>2. S \in SUBSET (1 .. N)
      OBVIOUS
    <2>3. IsFiniteSet(S)
      BY <2>1, <2>2, FS_Subset
    <2>4. QED
      BY <2>3, FS_CardinalityType
  <1>2. \A p : IsFiniteSet(To(p)) /\ Cardinality(To(p)) \in Nat /\ UpTo(S, p) = Cardinality(To(p))
               /\ Cardinality(To(p)) <= Cardinality(S)
    <2> TAKE p
    <2>1. To(p) \in SUBSET S
      BY <1>0
    <2>2. QED
      BY <1>1, <2>1, FS_Subset, FS_CardinalityType DEF UpTo
  <1> HIDE DEF To
  <1>3. \A p \in Nat : UpTo(S, p) \in 0 .. Cardinality(S)
    BY <1>1, <1>2
  <1>4. \A p, r \in Nat : p <= r => UpTo(S, p) <= UpTo(S, r)
    <2> TAKE p, r \in Nat
    <2> HAVE p <= r
    <2>1. To(p) \in SUBSET To(r)
      BY <1>0 DEF To
    <2>2. QED
      BY <1>2, <2>1, FS_Subset
  <1>5. \A p, r \in Nat :
            p <= r /\ (\A q \in S : q <= p \/ r < q) => UpTo(S, p) = UpTo(S, r)
    <2> TAKE p, r \in Nat
    <2> HAVE p <= r /\ (\A q \in S : q <= p \/ r < q)
    <2>1. To(p) = To(r)
      BY <1>0 DEF To
    <2>2. QED
      BY <1>2, <2>1
  <1>6. \A p \in Nat, r \in S :
            p < r /\ (\A q \in S : q <= p \/ r <= q) => UpTo(S, r) = UpTo(S, p) + 1
    <2> TAKE p \in Nat, r \in S
    <2> HAVE p < r /\ (\A q \in S : q <= p \/ r <= q)
    <2>1. To(r) = To(p) \cup {r} /\ r \notin To(p)
      BY <1>0 DEF To
    <2>2. QED
      BY <1>2, <2>1, FS_AddElement
  <1>7. \A p \in Nat, r \in S : p < r => UpTo(S, p) < UpTo(S, r)
    <2> TAKE p \in Nat, r \in S
    <2> HAVE p < r
    <2>1. To(p) \in SUBSET To(r) /\ To(p) # To(r)
      BY <1>0 DEF To
    <2>2. Cardinality(To(p)) <= Cardinality(To(r)) /\ Cardinality(To(p)) # Cardinality(To(r))
      BY <1>2, <2>1, FS_Subset
    <2>3. QED
      BY <1>2, <2>2
  <1>8. UpTo(S, 0) = 0 /\ UpTo(S, N) = Cardinality(S)
    <2>1. To(0) = {} /\ To(N) = S
      BY <1>0 DEF To
    <2>2. QED
      BY <1>2, <2>1, FS_EmptySet
  <1>9. QED
    BY <1>1, <1>3, <1>4, <1>5, <1>6, <1>7, <1>8

(* A rank is that of one of them.                                          *)
LEMMA RankIsOf ==
    ASSUME NEW N \in Nat, NEW S, \A q \in S : q \in 1 .. N
    PROVE  /\ \A p \in S : UpTo(S, p) \in 1 .. Cardinality(S)
           /\ \A p, q \in S : UpTo(S, p) = UpTo(S, q) => p = q
           /\ \A m \in 1 .. Cardinality(S) : \E p \in S : UpTo(S, p) = m
  <1>1. Cardinality(S) \in Nat /\ \A p \in Nat : UpTo(S, p) \in 0 .. Cardinality(S)
    BY Ranks
  <1>2. \A p \in Nat, r \in S : p < r => UpTo(S, p) < UpTo(S, r)
    BY Ranks
  <1>3. UpTo(S, 0) = 0 /\ UpTo(S, N) = Cardinality(S)
    BY Ranks
  <1>4. \A p \in S : UpTo(S, p) \in 1 .. Cardinality(S)
    <2> TAKE p \in S
    <2>1. 0 \in Nat /\ p \in Nat /\ 0 < p
      OBVIOUS
    <2>2. UpTo(S, 0) < UpTo(S, p) /\ UpTo(S, p) \in 0 .. Cardinality(S)
      BY <1>1, <1>2, <2>1
    <2>3. QED
      BY <1>1, <1>3, <2>2
  <1>5. \A p, q \in S : UpTo(S, p) = UpTo(S, q) => p = q
    <2> TAKE p, q \in S
    <2>1. UpTo(S, p) \in Nat /\ UpTo(S, q) \in Nat /\ p \in Nat /\ q \in Nat
      BY <1>1
    <2>2. (p < q => UpTo(S, p) < UpTo(S, q)) /\ (q < p => UpTo(S, q) < UpTo(S, p))
      BY <1>2, <2>1
    <2>3. QED
      BY <2>1, <2>2
  <1>6. \A m \in 1 .. Cardinality(S) : \E p \in S : UpTo(S, p) = m
    <2> TAKE m \in 1 .. Cardinality(S)
    <2> DEFINE T == {p \in Nat : UpTo(S, p) >= m}
    <2>1. N \in T
      BY <1>1, <1>3
    <2>2. PICK p \in T : \A j \in T : p <= j
      BY <2>1, Least
    <2>3. p \in Nat /\ p # 0
      BY <1>1, <1>3
    <2>4. p - 1 \in Nat /\ p - 1 \notin T
      BY <2>2, <2>3
    <2>5. UpTo(S, p - 1) < m /\ UpTo(S, p) >= m
      BY <1>1, <2>4
    <2>6. p \in S
      <3>1. SUFFICES ASSUME p \notin S PROVE FALSE
        OBVIOUS
      <3>2. \A q \in S : q <= p - 1 \/ p < q
        BY <2>3, <3>1
      <3>3. UpTo(S, p - 1) = UpTo(S, p)
        BY <2>3, <2>4, <3>2, Ranks
      <3>4. QED
        BY <1>1, <2>3, <2>4, <2>5, <3>3
    <2>7. UpTo(S, p) = UpTo(S, p - 1) + 1
      <3>1. \A q \in S : q <= p - 1 \/ p <= q
        BY <2>3
      <3>2. p - 1 < p
        BY <2>3
      <3>3. \A o \in Nat, r \in S :
                o < r /\ (\A q \in S : q <= o \/ r <= q) => UpTo(S, r) = UpTo(S, o) + 1
        BY Ranks
      <3> HIDE DEF T
      <3>4. QED
        BY <2>4, <2>6, <3>1, <3>2, <3>3
    <2>8. UpTo(S, p) = m
      BY <1>1, <2>3, <2>4, <2>5, <2>7
    <2>9. QED
      BY <2>6, <2>8
  <1>7. QED
    BY <1>4, <1>5, <1>6

(* Those up to n have the ranks that they have among all.                  *)
LEMMA RankBelow ==
    ASSUME NEW N \in Nat, NEW S, \A q \in S : q \in 1 .. N, NEW n \in Nat
    PROVE  /\ IsFiniteSet(S) /\ Cardinality(S) \in Nat
           /\ Cardinality({q \in S : q <= n}) = UpTo(S, n)
           /\ \A p \in S : p <= n => UpTo({q \in S : q <= n}, p) = UpTo(S, p)
           /\ \A p \in S : UpTo(S, p) \in 1 .. Cardinality(S)
           /\ \A p \in S : p <= n => UpTo(S, p) \in 1 .. UpTo(S, n)
  <1>1. IsFiniteSet(S) /\ Cardinality(S) \in Nat
    BY Ranks
  <1>2. Cardinality({q \in S : q <= n}) = UpTo(S, n)
    BY DEF UpTo
  <1>3. \A p \in S : p <= n => UpTo({q \in S : q <= n}, p) = UpTo(S, p)
    <2> TAKE p \in S
    <2> HAVE p <= n
    <2>1. {q \in {q \in S : q <= n} : q <= p} = {q \in S : q <= p}
      OBVIOUS
    <2>2. QED
      BY <2>1 DEF UpTo
  <1>4. \A p \in S : UpTo(S, p) \in 1 .. Cardinality(S)
    BY RankIsOf
  <1>5. \A p \in S : p <= n => UpTo(S, p) \in 1 .. UpTo(S, n)
    <2> TAKE p \in S
    <2> HAVE p <= n
    <2>1. UpTo(S, p) <= UpTo(S, n) /\ UpTo(S, n) \in 0 .. Cardinality(S)
      BY Ranks
    <2>2. QED
      BY <1>1, <1>4, <2>1
  <1>6. QED
    BY <1>1, <1>2, <1>3, <1>4, <1>5

LEMMA Lowest ==
    ASSUME NEW S, \A q \in S : q \in Nat, S # {}
    PROVE  Min(S) \in S /\ \A q \in S : Min(S) <= q
  <1>1. \E x \in S : \A y \in S : x <= y
    BY Least
  <1>2. QED
    BY <1>1 DEF Min

LEMMA Highest ==
    ASSUME NEW N \in Nat, NEW S, \A q \in S : q \in 0 .. N, S # {}
    PROVE  Max(S) \in S /\ \A q \in S : q <= Max(S)
  <1> DEFINE T == {n \in Nat : \A q \in S : q <= n}
  <1>1. N \in T
    OBVIOUS
  <1>2. PICK n \in T : \A k \in T : n <= k
    BY <1>1, Least
  <1>3. n \in Nat /\ \A q \in S : q <= n
    OBVIOUS
  <1>4. n \in S
    <2>1. SUFFICES ASSUME n \notin S PROVE FALSE
      OBVIOUS
    <2>2. \A q \in S : q <= n - 1
      BY <1>3, <2>1
    <2>3. n # 0
      BY <2>2
    <2>4. n - 1 \in T
      BY <1>3, <2>2, <2>3
    <2>5. QED
      BY <1>2, <1>3, <2>4
  <1>5. \E x \in S : \A y \in S : x >= y
    BY <1>3, <1>4
  <1>6. QED
    BY <1>5 DEF Max

-----------------------------------------------------------------------------
(* Types and temporary files.                                              *)

Handler == [node : Node, at : Nat \ {0}, have : BOOLEAN, want : Nat, el : Nat]
Member == [el : Nat, to : Node, ok : BOOLEAN]
Flagged == {j \in DOMAIN tmpflgs : tmpflgs[j]}

(* The temporary files are those of the handlers of s that needed one.     *)
FilesOf(s) ==
    /\ tmpflgs \in [1 .. MaxHandlers -> BOOLEAN]
    /\ temps \in Seq(Node)
    /\ Len(temps) = Cardinality(Flagged)
    /\ \A j \in Flagged : j <= Len(s) /\ temps[UpTo(Flagged, j)] = s[j].node

Typed ==
    /\ file \in Roots /\ missing \subseteq Node /\ changes \in 0 .. MaxChanges
    /\ docs \in Seq(Found)
    /\ mode \in {"idle", "index", "preview"} /\ (mode = "idle" <=> stack = <<>>)
    /\ stack \in Seq(Handler) /\ Len(stack) <= MaxHandlers
    /\ vipath \in Seq(Nat \ {0})
    /\ loop \in 0 .. MaxLoops + 1 /\ (mode = "idle" => loop = 0)
    /\ asked \in Found \cup {Nothing}
    /\ answer \in [to : Found \cup {Nothing}, got : Found \cup {Nothing}, fresh : BOOLEAN]
    /\ FilesOf(stack)

LEMMA FlaggedHandlers ==
    ASSUME tmpflgs \in [1 .. MaxHandlers -> BOOLEAN]
    PROVE  \A q \in Flagged : q \in 1 .. MaxHandlers
  BY DEF Flagged

LEMMA FilesDropped ==
    ASSUME tmpflgs \in [1 .. MaxHandlers -> BOOLEAN], Dropped
    PROVE  FilesOf(stack)' /\ stack' = <<>>
  <1>1. tmpflgs' \in [1 .. MaxHandlers -> BOOLEAN] /\ Flagged' = {}
    BY DEF Dropped, Flagged
  <1>2. temps' = <<>> /\ stack' = <<>>
    BY DEF Dropped
  <1>3. temps' \in Seq(Node) /\ Len(temps') = 0
    BY <1>2, EmptySeq
  <1>4. Cardinality({}) = 0
    BY FS_EmptySet
  <1>5. QED
    BY <1>1, <1>2, <1>3, <1>4 DEF FilesOf

LEMMA FilesSame ==
    ASSUME NEW s, FilesOf(s), NEW t, Len(s) \in Nat, Len(t) \in Nat, Len(s) <= Len(t),
           \A i \in 1 .. Len(s) : t[i].node = s[i].node
    PROVE  FilesOf(t)
  <1>1. \A j \in Flagged : j \in 1 .. Len(s)
    <2>1. \A j \in Flagged : j \in 1 .. MaxHandlers
      BY FlaggedHandlers DEF FilesOf
    <2>2. QED
      BY <2>1, InternerAssumption DEF FilesOf
  <1>2. \A j \in Flagged : j <= Len(t) /\ temps[UpTo(Flagged, j)] = t[j].node
    BY <1>1 DEF FilesOf
  <1>3. QED
    BY <1>2 DEF FilesOf

(* popHandler(), n times: the files that go are the last ones.             *)
LEMMA FilesPopped ==
    ASSUME NEW s \in Seq(Handler), Len(s) <= MaxHandlers, FilesOf(s),
           NEW n \in 0 .. Len(s), Popped(s, n)
    PROVE  /\ FilesOf(stack)'
           /\ stack' \in Seq(Handler) /\ Len(stack') = Len(s) - n
           /\ \A i \in 1 .. Len(s) - n : stack'[i] = s[i]
  <1> DEFINE left == Len(s) - n
             gone == {i \in (left + 1) .. Len(s) : tmpflgs[i]}
             low == {q \in Flagged : q <= left}
  <1>1. Len(s) \in Nat /\ left \in 0 .. Len(s) /\ left \in Nat /\ MaxHandlers \in Nat
    BY LenProperties, InternerAssumption
  <1>2. \A j \in Flagged : j \in 1 .. MaxHandlers /\ j \in 1 .. Len(s)
    BY <1>1, FlaggedHandlers DEF FilesOf
  <1>3. tmpflgs \in [1 .. MaxHandlers -> BOOLEAN] /\ temps \in Seq(Node) /\ Len(temps) = Cardinality(Flagged)
    BY DEF FilesOf
  <1>4. stack' = SubSeq(s, 1, left) /\ temps' = SubSeq(temps, 1, Len(temps) - Cardinality(gone))
        /\ tmpflgs' = [i \in DOMAIN tmpflgs |-> tmpflgs[i] /\ i \notin gone]
    BY DEF Popped
  <1> HIDE DEF left
  <1>5. /\ IsFiniteSet(Flagged) /\ Cardinality(Flagged) \in Nat
        /\ Cardinality(low) = UpTo(Flagged, left)
        /\ \A p \in Flagged : p <= left => UpTo(low, p) = UpTo(Flagged, p)
        /\ \A p \in Flagged : UpTo(Flagged, p) \in 1 .. Cardinality(Flagged)
        /\ \A p \in Flagged : p <= left => UpTo(Flagged, p) \in 1 .. UpTo(Flagged, left)
    BY <1>1, <1>2, RankBelow
  <1>6. UpTo(Flagged, left) \in 0 .. Cardinality(Flagged)
    BY <1>1, <1>2, Ranks
  <1>7. gone = Flagged \ low
    <2>1. \A i \in gone : i \in Flagged /\ i \notin low
      BY <1>1, <1>3 DEF Flagged
    <2>2. \A i \in Flagged \ low : i \in gone
      BY <1>1, <1>2 DEF Flagged
    <2>3. QED
      BY <2>1, <2>2
  <1>8. Flagged' = low
    <2>1. Flagged' = {j \in 1 .. MaxHandlers : tmpflgs[j] /\ j \notin gone}
      BY <1>3, <1>4 DEF Flagged
    <2>2. low = {j \in 1 .. MaxHandlers : tmpflgs[j] /\ j \notin gone}
      BY <1>1, <1>2, <1>3, <1>7 DEF Flagged
    <2>3. QED
      BY <2>1, <2>2
  <1>9. Len(temps) - Cardinality(gone) = Cardinality(low)
    <2>2. IsFiniteSet(low) /\ Cardinality(low) \in Nat
      BY <1>5, <1>6, FS_Subset
    <2>3. Cardinality(Flagged \ low) = Cardinality(Flagged) - Cardinality(Flagged \cap low)
      BY <1>5, FS_Difference
    <2>4. Flagged \cap low = low
      OBVIOUS
    <2>5. Cardinality(gone) = Cardinality(Flagged) - Cardinality(low)
      BY <1>7, <2>3, <2>4
    <2> HIDE DEF low, gone
    <2>6. QED
      BY <1>3, <1>5, <2>2, <2>5
  <1> HIDE DEF gone, low
  <1>10. /\ stack' \in Seq(Handler) /\ Len(stack') = left
         /\ \A i \in 1 .. left : stack'[i] = s[i]
    <2>1. \A i \in 1 .. left : s[i] \in Handler
      BY <1>1, ElementOfSeq
    <2>2. /\ SubSeq(s, 1, left) \in Seq(Handler)
          /\ Len(SubSeq(s, 1, left)) = IF 1 <= left THEN left - 1 + 1 ELSE 0
          /\ \A i \in 1 .. left - 1 + 1 : SubSeq(s, 1, left)[i] = s[1 + i - 1]
      BY <1>1, <2>1, SubSeqProperties
    <2>3. QED
      BY <1>1, <1>4, <2>2
  <1>11. /\ temps' \in Seq(Node) /\ Len(temps') = Cardinality(low)
         /\ \A i \in 1 .. Cardinality(low) : temps'[i] = temps[i]
    <2> DEFINE k == Cardinality(low)
    <2>1. k \in 0 .. Len(temps) /\ Len(temps) \in Nat
      BY <1>3, <1>5, <1>6
    <2> HIDE DEF k
    <2>2. \A i \in 1 .. k : temps[i] \in Node
      BY <1>3, <2>1, ElementOfSeq
    <2>3. /\ SubSeq(temps, 1, k) \in Seq(Node)
          /\ Len(SubSeq(temps, 1, k)) = IF 1 <= k THEN k - 1 + 1 ELSE 0
          /\ \A i \in 1 .. k - 1 + 1 : SubSeq(temps, 1, k)[i] = temps[1 + i - 1]
      BY <2>1, <2>2, SubSeqProperties
    <2>4. temps' = SubSeq(temps, 1, k)
      BY <1>4, <1>9 DEF k
    <2>5. temps' \in Seq(Node) /\ Len(temps') = k /\ \A i \in 1 .. k : temps'[i] = temps[i]
      BY <2>1, <2>3, <2>4
    <2>6. QED
      BY <2>5 DEF k
  <1>12. \A j \in low : j <= left /\ temps'[UpTo(low, j)] = stack'[j].node
    <2> TAKE j \in low
    <2>1. j \in Flagged /\ j \in 1 .. left
      BY <1>1, <1>2 DEF low
    <2>2. UpTo(low, j) = UpTo(Flagged, j) /\ UpTo(Flagged, j) \in 1 .. Cardinality(low)
      BY <1>5, <2>1
    <2>3. temps'[UpTo(low, j)] = temps[UpTo(Flagged, j)] /\ stack'[j] = s[j]
      BY <1>10, <1>11, <2>1, <2>2
    <2>4. QED
      BY <2>1, <2>3 DEF FilesOf
  <1>13. tmpflgs' \in [1 .. MaxHandlers -> BOOLEAN]
    BY <1>3, <1>4
  <1>14. FilesOf(stack)'
    BY <1>8, <1>10, <1>11, <1>12, <1>13 DEF FilesOf
  <1>15. QED
    BY <1>10, <1>14 DEF left

(* A new handler at the top, with a file if it needs one.                  *)
LEMMA FilesStacked ==
    ASSUME NEW s \in Seq(Handler), Len(s) < MaxHandlers, FilesOf(s), NEW f \in Handler,
           stack' = Append(s, f),
           tmpflgs' = [tmpflgs EXCEPT ![Len(s) + 1] = NeedsFile(f.node)],
           NeedsFile(f.node) => temps' = Append(temps, f.node),
           ~ NeedsFile(f.node) => temps' = temps
    PROVE  FilesOf(stack)' /\ stack' \in Seq(Handler) /\ Len(stack') = Len(s) + 1
  <1> DEFINE top == Len(s) + 1
  <1>1. Len(s) \in Nat /\ top \in 1 .. MaxHandlers /\ MaxHandlers \in Nat
    BY LenProperties, InternerAssumption
  <1>2. /\ stack' \in Seq(Handler) /\ Len(stack') = top
        /\ \A i \in 1 .. Len(s) : stack'[i] = s[i]
        /\ stack'[top] = f
    BY AppendProperties
  <1>3. tmpflgs \in [1 .. MaxHandlers -> BOOLEAN] /\ temps \in Seq(Node) /\ Len(temps) = Cardinality(Flagged)
    BY DEF FilesOf
  <1>4. \A j \in Flagged : j \in 1 .. MaxHandlers /\ j \in 1 .. Len(s)
    BY <1>1, FlaggedHandlers DEF FilesOf
  <1>5. f.node \in Node /\ NeedsFile(f.node) \in BOOLEAN
    BY DEF Handler, NeedsFile
  <1>6. tmpflgs' \in [1 .. MaxHandlers -> BOOLEAN]
    BY <1>1, <1>3, <1>5
  <1>7. \A j \in Flagged : UpTo(Flagged, j) \in 1 .. Cardinality(Flagged) /\ temps[UpTo(Flagged, j)] = stack'[j].node
    <2>1. \A j \in Flagged : UpTo(Flagged, j) \in 1 .. Cardinality(Flagged)
      BY <1>1, <1>4, RankBelow
    <2>2. QED
      BY <1>2, <1>4, <2>1 DEF FilesOf
  <1>8. IsFiniteSet(Flagged) /\ Cardinality(Flagged) \in Nat
    BY <1>1, <1>4, Ranks
  <1>9. CASE NeedsFile(f.node)
    <2>1. Flagged' = Flagged \cup {top} /\ top \notin Flagged
      <3>1. top \notin Flagged
        BY <1>1, <1>4
      <3>2. Flagged' = {j \in 1 .. MaxHandlers : j = top \/ tmpflgs[j]}
        BY <1>1, <1>3, <1>9 DEF Flagged
      <3>3. Flagged = {j \in 1 .. MaxHandlers : tmpflgs[j]}
        BY <1>3 DEF Flagged
      <3>4. QED
        BY <1>1, <3>1, <3>2, <3>3
    <2>2. Cardinality(Flagged') = Cardinality(Flagged) + 1
      BY <1>8, <2>1, FS_AddElement
    <2>3. \A j \in Flagged : UpTo(Flagged', j) = UpTo(Flagged, j)
      <3> TAKE j \in Flagged
      <3>1. {q \in Flagged' : q <= j} = {q \in Flagged : q <= j}
        BY <1>1, <1>4, <2>1
      <3>2. QED
        BY <3>1 DEF UpTo
    <2>4. UpTo(Flagged', top) = Cardinality(Flagged) + 1
      <3>1. {q \in Flagged' : q <= top} = Flagged'
        BY <1>1, <1>4, <2>1
      <3>2. QED
        BY <2>2, <3>1 DEF UpTo
    <2>5. /\ temps' \in Seq(Node) /\ Len(temps') = Len(temps) + 1
          /\ \A i \in 1 .. Len(temps) : temps'[i] = temps[i]
          /\ temps'[Len(temps) + 1] = f.node
      <3>1. temps' = Append(temps, f.node)
        BY <1>9
      <3>2. QED
        BY <1>3, <1>5, <3>1, AppendProperties
    <2>6. \A j \in Flagged' : j <= top /\ temps'[UpTo(Flagged', j)] = stack'[j].node
      <3> TAKE j \in Flagged'
      <3>1. CASE j = top
        BY <1>1, <1>2, <1>3, <2>4, <2>5, <3>1
      <3>2. CASE j \in Flagged
        BY <1>1, <1>3, <1>4, <1>7, <2>3, <2>5, <3>2
      <3>3. QED
        BY <2>1, <3>1, <3>2
    <2>7. QED
      BY <1>2, <1>3, <1>6, <2>2, <2>5, <2>6 DEF FilesOf
  <1>10. CASE ~ NeedsFile(f.node)
    <2>1. Flagged' = Flagged
      <3>1. Flagged' = {j \in 1 .. MaxHandlers : j # top /\ tmpflgs[j]}
        BY <1>1, <1>3, <1>10 DEF Flagged
      <3>2. Flagged = {j \in 1 .. MaxHandlers : tmpflgs[j]}
        BY <1>3 DEF Flagged
      <3>3. top \notin Flagged
        BY <1>1, <1>4
      <3>4. QED
        BY <3>1, <3>2, <3>3
    <2>2. temps' = temps
      BY <1>10
    <2>3. \A j \in Flagged : j <= top
      BY <1>1, <1>4
    <2>4. QED
      BY <1>2, <1>3, <1>6, <1>7, <2>1, <2>2, <2>3 DEF FilesOf
  <1>11. QED
    BY <1>2, <1>9, <1>10

LEMMA NodeTyped ==
    ASSUME NEW n \in Node
    PROVE  /\ Len(Kids[n]) \in Nat /\ DOMAIN Kids[n] = 1 .. Len(Kids[n])
           /\ \A i \in 1 .. Len(Kids[n]) : Kids[n][i] \in Member
  <1>1. Kids[n] \in Seq(Member)
    BY InternerAssumption DEF Member
  <1>2. QED
    BY <1>1, LenProperties, ElementOfSeq

LEMMA FrameTyped ==
    ASSUME NEW n \in Node
    PROVE  /\ Frame(n) \in Handler /\ Frame(n).node = n /\ Frame(n).have = (n \in Good)
           /\ Frame(n).at = 1 /\ Frame(n).want = 0 /\ Frame(n).el = 0
  BY DEF Frame, Handler

(* The documents of a node under an element.                               *)
Having(n, el) == {i \in DOMAIN Kids[n] : Kids[n][i].el = el}

LEMMA SkippedTyped ==
    ASSUME NEW h \in Handler, NEW el \in Nat \ {0}
    PROVE  /\ Skipped(h, el) \in Handler /\ Skipped(h, el).node = h.node
           /\ Skipped(h, el).have = h.have /\ Skipped(h, el).want = el
           /\ Kind[h.node] # "mail" => Skipped(h, el).at = h.at
           /\ Kind[h.node] = "mail" =>
                 Skipped(h, el).at = Min(Having(h.node, el) \cup {Len(Kids[h.node]) + 1})
  <1> DEFINE n == h.node
             S == Having(n, el) \cup {Len(Kids[n]) + 1}
             at == IF Kind[n] = "mail" THEN Min(S) ELSE h.at
  <1>1. n \in Node /\ h.at \in Nat \ {0}
    BY DEF Handler
  <1>2. \A q \in S : q \in Nat \ {0}
    BY <1>1, NodeTyped DEF Having
  <1>3. Min(S) \in S
    BY <1>2, Lowest
  <1>4. at \in Nat \ {0}
    BY <1>1, <1>2, <1>3
  <1>5. Skipped(h, el) = [h EXCEPT !.want = el, !.at = at]
    BY DEF Skipped, Having
  <1> HIDE DEF at
  <1>6. /\ Skipped(h, el) \in Handler /\ Skipped(h, el).node = h.node
        /\ Skipped(h, el).have = h.have /\ Skipped(h, el).want = el
        /\ Skipped(h, el).at = at
    BY <1>4, <1>5 DEF Handler
  <1>7. QED
    BY <1>6 DEF at

LEMMA PlaceTyped ==
    ASSUME NEW h \in Handler, NEW i \in Place(h)
    PROVE  i \in DOMAIN Kids[h.node] /\ i \in Nat \ {0} /\ Kids[h.node][i] \in Member
  <1>1. h.node \in Node
    BY DEF Handler
  <1>2. i \in DOMAIN Kids[h.node]
    BY DEF Place
  <1>3. QED
    BY <1>1, <1>2, NodeTyped

LEMMA HaveTyped ==
    ASSUME NEW h \in Handler, NEW i \in Nat, NEW more \in HaveAfter(h, i)
    PROVE  more \in BOOLEAN
  <1>1. h.node \in Node
    BY DEF Handler
  <1>2. Len(Kids[h.node]) \in Nat
    BY <1>1, NodeTyped
  <1> DEFINE b == i < Len(Kids[h.node])
  <1>3. b \in BOOLEAN
    BY <1>2
  <1>4. CASE Converter(Kind[h.node])
    <2>1. HaveAfter(h, i) = {FALSE}
      BY <1>4 DEF HaveAfter, Converter
    <2>2. QED
      BY <2>1
  <1>5. CASE Kind[h.node] = "archive"
    <2>1. HaveAfter(h, i) = IF h.want # 0 THEN {TRUE} ELSE {TRUE, b}
      BY <1>5 DEF HaveAfter, Converter
    <2> HIDE DEF b
    <2>2. more = TRUE \/ more = b
      BY <2>1
    <2>3. QED
      BY <1>3, <2>2
  <1>6. CASE ~ Converter(Kind[h.node]) /\ Kind[h.node] # "archive"
    <2>1. HaveAfter(h, i) = {b}
      BY <1>6 DEF HaveAfter
    <2> HIDE DEF b
    <2>2. QED
      BY <1>3, <2>1
  <1>7. QED
    BY <1>4, <1>5, <1>6

LEMMA IpathTyped ==
    ASSUME NEW s \in Seq(Handler)
    PROVE  Ipath(s) \in Seq(Nat \ {0})
  <1> DEFINE given == {i \in DOMAIN s : s[i].el # 0}
             nth(k) == CHOOSE i \in given : UpTo(given, i) = k
  <1>1. Len(s) \in Nat /\ DOMAIN s = 1 .. Len(s) /\ \A i \in 1 .. Len(s) : s[i].el \in Nat
    <2>1. Len(s) \in Nat /\ DOMAIN s = 1 .. Len(s)
      BY LenProperties
    <2>2. \A i \in 1 .. Len(s) : s[i] \in Handler
      BY ElementOfSeq
    <2>3. QED
      BY <2>1, <2>2 DEF Handler
  <1>2. \A q \in given : q \in 1 .. Len(s) /\ s[q].el \in Nat \ {0}
    BY <1>1
  <1>3. Cardinality(given) \in Nat
    BY <1>1, <1>2, Ranks
  <1>4. \A k \in 1 .. Cardinality(given) : \E i \in given : UpTo(given, i) = k
    BY <1>1, <1>2, RankIsOf
  <1>5. Ipath(s) = [k \in 1 .. Cardinality(given) |-> s[nth(k)].el]
    BY DEF Ipath
  <1> HIDE DEF given
  <1>6. \A k \in 1 .. Cardinality(given) : nth(k) \in given
    BY <1>4
  <1> HIDE DEF nth
  <1>7. \A k \in 1 .. Cardinality(given) : s[nth(k)].el \in Nat \ {0}
    BY <1>2, <1>6
  <1>8. QED
    BY <1>3, <1>5, <1>7

(* What the path is when the handlers that gave an element come first.     *)
LEMMA IpathIs ==
    ASSUME NEW s \in Seq(Handler), NEW m \in 0 .. Len(s),
           \A i \in 1 .. Len(s) : s[i].el # 0 <=> i <= m
    PROVE  Len(Ipath(s)) = m /\ \A i \in 1 .. m : Ipath(s)[i] = s[i].el
  <1> DEFINE given == {i \in DOMAIN s : s[i].el # 0}
             nth(k) == CHOOSE i \in given : UpTo(given, i) = k
  <1>1. Len(s) \in Nat /\ DOMAIN s = 1 .. Len(s) /\ m \in Nat
    BY LenProperties
  <1>2. given = 1 .. m
    BY <1>1
  <1>3. Ipath(s) = [k \in 1 .. Cardinality(given) |-> s[nth(k)].el]
    BY DEF Ipath
  <1> HIDE DEF given
  <1>4. \A p \in 0 .. m : UpTo(given, p) = p
    <2> TAKE p \in 0 .. m
    <2>1. {q \in given : q <= p} = 1 .. p
      BY <1>1, <1>2
    <2>2. Cardinality(1 .. p) = IF 1 > p THEN 0 ELSE p - 1 + 1
      BY <1>1, FS_Interval
    <2>3. Cardinality(1 .. p) = p
      BY <1>1, <2>2
    <2>4. QED
      BY <2>1, <2>3 DEF UpTo
  <1>5. Cardinality(given) = m
    <2>1. Cardinality(1 .. m) = IF 1 > m THEN 0 ELSE m - 1 + 1
      BY <1>1, FS_Interval
    <2>2. QED
      BY <1>1, <1>2, <2>1
  <1>6. \A k \in 1 .. m : nth(k) = k
    <2> TAKE k \in 1 .. m
    <2>1. \A i \in given : UpTo(given, i) = k <=> i = k
      BY <1>1, <1>2, <1>4
    <2>2. k \in given
      BY <1>2
    <2>3. QED
      BY <2>1, <2>2
  <1> HIDE DEF nth
  <1>7. QED
    BY <1>1, <1>3, <1>5, <1>6

-----------------------------------------------------------------------------
(* The types are kept.                                                     *)

(* The stack once its top has the document at i.                           *)
Advanced(i, more) ==
    [stack EXCEPT ![Len(stack)].el = Kids[Top.node][i].el,
                  ![Len(stack)].at = i + 1,
                  ![Len(stack)].have = more]

LEMMA TopTyped ==
    ASSUME Typed, mode # "idle"
    PROVE  /\ Len(stack) \in 1 .. MaxHandlers /\ DOMAIN stack = 1 .. Len(stack)
           /\ \A i \in 1 .. Len(stack) : stack[i] \in Handler
           /\ Top = stack[Len(stack)] /\ Top \in Handler
           /\ MaxHandlers \in Nat \ {0}
  <1>1. stack \in Seq(Handler) /\ Len(stack) <= MaxHandlers /\ stack # <<>> /\ MaxHandlers \in Nat \ {0}
    BY InternerAssumption DEF Typed
  <1>2. Len(stack) \in Nat \ {0} /\ DOMAIN stack = 1 .. Len(stack)
    BY <1>1, EmptySeq, LenProperties
  <1>3. \A i \in 1 .. Len(stack) : stack[i] \in Handler
    BY <1>1, ElementOfSeq
  <1>4. Top = stack[Len(stack)]
    BY DEF Top, Last
  <1>5. QED
    BY <1>1, <1>2, <1>3, <1>4

LEMMA AdvancedIs ==
    ASSUME Typed, mode # "idle", NEW i \in Place(Top), NEW more \in BOOLEAN
    PROVE  LET s == Advanced(i, more)
               L == Len(stack)
           IN  /\ s \in Seq(Handler) /\ Len(s) = L
               /\ \A j \in 1 .. L : s[j].node = stack[j].node /\ s[j].want = stack[j].want
               /\ \A j \in 1 .. L : j # L => s[j] = stack[j]
               /\ s[L].el = Kids[stack[L].node][i].el /\ s[L].at = i + 1 /\ s[L].have = more
               /\ FilesOf(s)
  <1> DEFINE s == Advanced(i, more)
             L == Len(stack)
             el == Kids[Top.node][i].el
             top == [stack[L] EXCEPT !.el = el, !.at = i + 1, !.have = more]
  <1>1. /\ L \in 1 .. MaxHandlers /\ DOMAIN stack = 1 .. L
        /\ \A j \in 1 .. L : stack[j] \in Handler
        /\ Top = stack[L] /\ Top \in Handler /\ MaxHandlers \in Nat \ {0}
    BY TopTyped
  <1>2. i \in Nat \ {0} /\ el \in Nat
    BY <1>1, PlaceTyped DEF Member
  <1>3. stack \in [1 .. L -> Handler]
    BY LenProperties DEF Typed
  <1>4. /\ top \in Handler /\ top.node = stack[L].node /\ top.want = stack[L].want
        /\ top.el = el /\ top.at = i + 1 /\ top.have = more
    <2> HIDE DEF el
    <2>1. stack[L] \in Handler /\ i + 1 \in Nat \ {0}
      BY <1>1, <1>2
    <2>2. QED
      BY <1>2, <2>1 DEF Handler
  <1>5. s = [stack EXCEPT ![L] = top]
    <2> HIDE DEF el
    <2>1. s = [stack EXCEPT ![L].el = el, ![L].at = i + 1, ![L].have = more]
      BY DEF Advanced, el
    <2>2. stack[L] \in Handler
      BY <1>1
    <2>3. QED
      BY <1>1, <1>3, <2>1, <2>2 DEF Handler
  <1> HIDE DEF top
  <1>6. /\ s \in [1 .. L -> Handler]
        /\ s[L] = top /\ \A j \in 1 .. L : j # L => s[j] = stack[j]
    <2> HIDE DEF L, s
    <2>1. QED
      BY <1>1, <1>3, <1>4, <1>5
  <1> HIDE DEF s
  <1>7. s \in Seq(Handler) /\ Len(s) = L
    <2>1. L \in Nat
      BY <1>1
    <2> HIDE DEF L
    <2>2. QED
      BY <1>6, <2>1
  <1>8. \A j \in 1 .. L : s[j].node = stack[j].node /\ s[j].want = stack[j].want
    BY <1>4, <1>6
  <1>9. FilesOf(s)
    <2>1. FilesOf(stack)
      BY DEF Typed
    <2>2. Len(stack) \in Nat /\ Len(s) \in Nat /\ Len(stack) <= Len(s)
      BY <1>1, <1>7
    <2>3. QED
      BY <1>8, <2>1, <2>2, FilesSame
  <1>10. QED
    BY <1>1, <1>4, <1>6, <1>7, <1>8, <1>9 DEF s

LEMMA FailsTyped ==
    ASSUME Typed, NEW how, Fails(how), UNCHANGED source
    PROVE  Typed'
  <1> DEFINE fresh == made.file = file /\ made.missing = missing
  <1>1. FilesOf(stack)' /\ stack' = <<>>
    BY FilesDropped DEF Typed, FilesOf, Fails
  <1>2. mode' = "idle" /\ loop' = 0 /\ UNCHANGED <<docs, vipath, asked>>
    BY DEF Fails, Ends
  <1>3. fresh \in BOOLEAN
    OBVIOUS
  <1>4. answer' = answer \/ answer' = [to |-> asked, got |-> Nothing, fresh |-> fresh]
    BY DEF Fails, Ends
  <1> HIDE DEF fresh
  <1>5. answer' \in [to : Found \cup {Nothing}, got : Found \cup {Nothing}, fresh : BOOLEAN]
    BY <1>3, <1>4 DEF Typed
  <1>6. stack' \in Seq(Handler) /\ Len(stack') <= MaxHandlers
    BY <1>1, EmptySeq, InternerAssumption
  <1>7. file' = file /\ missing' = missing /\ changes' = changes
    BY DEF source
  <1>8. loop' \in 0 .. MaxLoops + 1
    BY <1>2, InternerAssumption
  <1>9. QED
    BY <1>1, <1>2, <1>5, <1>6, <1>7, <1>8 DEF Typed

(* A turn of the loop that does not end it.                                *)
LEMMA OnTyped ==
    ASSUME Typed, UNCHANGED source, UNCHANGED <<docs, vipath, asked, answer, mode>>, mode # "idle",
           loop <= MaxLoops, loop' = loop + 1,
           FilesOf(stack)', stack' \in Seq(Handler), Len(stack') \in 1 .. MaxHandlers
    PROVE  Typed'
  <1>1. stack' # <<>>
    BY EmptySeq
  <1>2. file' = file /\ missing' = missing /\ changes' = changes
    BY DEF source
  <1>3. loop' \in 0 .. MaxLoops + 1
    BY InternerAssumption DEF Typed
  <1>4. Len(stack') <= MaxHandlers
    BY InternerAssumption
  <1>5. QED
    BY <1>1, <1>2, <1>3, <1>4 DEF Typed

(* How many handlers are left when a document is returned: up to the last  *)
(* one that has more.                                                      *)
More(s) == Max({0} \cup {i \in DOMAIN s : s[i].have})

LEMMA MoreIs ==
    ASSUME NEW s \in Seq(Handler)
    PROVE  /\ More(s) \in 0 .. Len(s)
           /\ \A i \in 1 .. Len(s) : s[i].have => i <= More(s)
           /\ More(s) # 0 => s[More(s)].have
  <1> DEFINE S == {0} \cup {i \in DOMAIN s : s[i].have}
  <1>1. Len(s) \in Nat /\ DOMAIN s = 1 .. Len(s)
    BY LenProperties
  <1>2. \A q \in S : q \in 0 .. Len(s)
    BY <1>1
  <1>3. Max(S) \in S /\ \A q \in S : q <= Max(S)
    BY <1>1, <1>2, Highest
  <1>4. QED
    BY <1>1, <1>2, <1>3 DEF More

LEMMA ReturnsTyped ==
    ASSUME Typed, mode # "idle", UNCHANGED source,
           NEW s \in Seq(Handler), Len(s) \in 1 .. MaxHandlers, FilesOf(s),
           NEW n \in Node, Returns(s, n)
    PROVE  Typed'
  <1> DEFINE fresh == made.file = file /\ made.missing = missing
             d == [ipath |-> Ipath(s), node |-> n]
  <1>1. d \in Found
    BY IpathTyped DEF Found
  <1>2. fresh \in BOOLEAN
    OBVIOUS
  <1>3. loop' = 0 /\ UNCHANGED <<vipath, asked>>
    BY DEF Returns
  <1>4. file' = file /\ missing' = missing /\ changes' = changes
    BY DEF source
  <1>5. loop' \in 0 .. MaxLoops + 1
    BY <1>3, InternerAssumption
  <1>6. CASE mode = "index"
    <2>1. /\ docs' = Append(docs, d) /\ answer' = answer
          /\ Popped(s, Len(s) - More(s))
          /\ mode' = IF More(s) = 0 THEN "idle" ELSE "index"
      BY <1>6 DEF Returns, More
    <2>2. More(s) \in 0 .. Len(s) /\ Len(s) - More(s) \in 0 .. Len(s) /\ MaxHandlers \in Nat
          /\ Len(s) <= MaxHandlers
      BY MoreIs, InternerAssumption
    <2>3. FilesOf(stack)' /\ stack' \in Seq(Handler) /\ Len(stack') = Len(s) - (Len(s) - More(s))
      BY <2>1, <2>2, FilesPopped
    <2>4. Len(stack') = More(s)
      BY <2>2, <2>3
    <2>5. mode' \in {"idle", "index"} /\ (mode' = "idle" <=> stack' = <<>>)
      BY <2>1, <2>3, <2>4, EmptySeq
    <2>6. docs' \in Seq(Found)
      BY <1>1, <2>1, AppendProperties DEF Typed
    <2>7. Len(stack') <= MaxHandlers
      BY <2>2, <2>4
    <2>8. QED
      BY <1>3, <1>4, <1>5, <2>1, <2>3, <2>5, <2>6, <2>7 DEF Typed
  <1>7. CASE mode # "index"
    <2>1. /\ answer' = [to |-> asked, got |-> d, fresh |-> fresh]
          /\ mode' = "idle" /\ Dropped /\ docs' = docs
      BY <1>7 DEF Returns
    <2>2. FilesOf(stack)' /\ stack' = <<>>
      BY <2>1, FilesDropped DEF Typed, FilesOf
    <2>3. stack' \in Seq(Handler) /\ Len(stack') <= MaxHandlers
      BY <2>2, EmptySeq, InternerAssumption
    <2> HIDE DEF fresh, d
    <2>4. answer' \in [to : Found \cup {Nothing}, got : Found \cup {Nothing}, fresh : BOOLEAN]
      BY <1>1, <1>2, <2>1 DEF Typed
    <2>5. QED
      BY <1>3, <1>4, <1>5, <2>1, <2>2, <2>3, <2>4 DEF Typed
  <1>8. QED
    BY <1>6, <1>7

LEMMA PopOrFailTyped ==
    ASSUME Typed, mode # "idle", loop <= MaxLoops, UNCHANGED source, PopOrFail
    PROVE  Typed'
  <1>1. CASE Fails("done")
    BY <1>1, FailsTyped
  <1>2. CASE /\ Len(stack) # 1 /\ Popped(stack, 1)
             /\ loop' = loop + 1
             /\ UNCHANGED <<docs, made, mode, vipath, asked, answer>>
    <2>1. Len(stack) \in 1 .. MaxHandlers /\ MaxHandlers \in Nat
      BY TopTyped
    <2>2. FilesOf(stack) /\ stack \in Seq(Handler) /\ Len(stack) <= MaxHandlers
      BY DEF Typed
    <2>3. FilesOf(stack)' /\ stack' \in Seq(Handler) /\ Len(stack') = Len(stack) - 1
      BY <1>2, <2>1, <2>2, FilesPopped
    <2>4. Len(stack') \in 1 .. MaxHandlers
      BY <1>2, <2>1, <2>3
    <2>5. QED
      BY <1>2, <2>3, <2>4, OnTyped
  <1>3. QED
    BY <1>1, <1>2 DEF PopOrFail

(* The handler that is stacked for n at that depth.                        *)
NewHandler(n, deeper) ==
    IF mode = "preview" /\ deeper <= Len(vipath) THEN Skipped(Frame(n), vipath[deeper]) ELSE Frame(n)

LEMMA NewHandlerTyped ==
    ASSUME Typed, NEW n \in Node, NEW deeper \in Nat \ {0}
    PROVE  NewHandler(n, deeper) \in Handler /\ NewHandler(n, deeper).node = n
  <1>1. Frame(n) \in Handler /\ Frame(n).node = n
    BY FrameTyped
  <1>2. deeper <= Len(vipath) => vipath[deeper] \in Nat \ {0}
    <2>1. vipath \in Seq(Nat \ {0})
      BY DEF Typed
    <2>2. Len(vipath) \in Nat
      BY <2>1, LenProperties
    <2>3. QED
      BY <2>1, <2>2, ElementOfSeq
  <1>3. QED
    BY <1>1, <1>2, SkippedTyped DEF NewHandler

LEMMA AddHandlerTyped ==
    ASSUME Typed, mode # "idle", loop <= MaxLoops, UNCHANGED source,
           NEW s \in Seq(Handler), Len(s) \in 1 .. MaxHandlers, FilesOf(s),
           NEW n \in Node, AddHandler(s, n)
    PROVE  Typed'
  <1>0. MaxHandlers \in Nat
    BY InternerAssumption
  <1>1. CASE Returns(s, n)
    BY <1>1, ReturnsTyped
  <1>2. CASE GoOn(s)
    BY <1>2, OnTyped DEF GoOn, FilesOf, Flagged
  <1>3. CASE Len(s) < MaxHandlers /\ Returns(Append(s, Frame(n)), n)
    <2> DEFINE t == Append(s, Frame(n))
    <2>1. /\ t \in Seq(Handler) /\ Len(t) = Len(s) + 1
          /\ \A i \in 1 .. Len(s) : t[i] = s[i]
      BY FrameTyped, AppendProperties
    <2>2. Returns(t, n)
      BY <1>3
    <2> HIDE DEF t
    <2>3. /\ Len(t) \in 1 .. MaxHandlers /\ Len(t) \in Nat /\ Len(s) \in Nat /\ Len(s) <= Len(t)
          /\ \A i \in 1 .. Len(s) : t[i].node = s[i].node
      BY <1>0, <1>3, <2>1
    <2>4. FilesOf(t)
      BY <2>3, FilesSame
    <2>5. QED
      BY <2>1, <2>2, <2>3, <2>4, ReturnsTyped
  <1>4. CASE Len(s) < MaxHandlers /\ Stacked(s, n)
    <2>1. CASE Fails("done")
      BY <2>1, FailsTyped
    <2>2. CASE /\ stack' = Append(s, NewHandler(n, Len(s) + 1))
               /\ tmpflgs' = [tmpflgs EXCEPT ![Len(s) + 1] = NeedsFile(n)]
               /\ temps' = IF NeedsFile(n) THEN Append(temps, n) ELSE temps
               /\ loop' = loop + 1
               /\ UNCHANGED <<docs, made, mode, vipath, asked, answer>>
      <3> DEFINE f == NewHandler(n, Len(s) + 1)
      <3>1. f \in Handler /\ f.node = n
        BY <1>0, NewHandlerTyped
      <3>2. /\ stack' = Append(s, f)
            /\ tmpflgs' = [tmpflgs EXCEPT ![Len(s) + 1] = NeedsFile(f.node)]
            /\ NeedsFile(f.node) => temps' = Append(temps, f.node)
            /\ ~ NeedsFile(f.node) => temps' = temps
        BY <2>2, <3>1
      <3> HIDE DEF f
      <3>3. FilesOf(stack)' /\ stack' \in Seq(Handler) /\ Len(stack') = Len(s) + 1
        BY <1>4, <3>1, <3>2, FilesStacked
      <3>4. Len(stack') \in 1 .. MaxHandlers
        BY <1>0, <1>4, <3>3
      <3>5. QED
        BY <2>2, <3>3, <3>4, OnTyped
    <2>3. QED
      BY <1>4, <2>1, <2>2 DEF Stacked, NewHandler
  <1>5. QED
    BY <1>0, <1>1, <1>2, <1>3, <1>4 DEF AddHandler

LEMMA NextDocumentIs ==
    ASSUME Typed, NextDocument
    PROVE  \E i \in Place(Top) : \E more \in BOOLEAN :
              /\ Turn /\ Top.have /\ more \in HaveAfter(Top, i)
              /\ Kids[Top.node][i].ok
              /\ AddHandler(Advanced(i, more), Kids[Top.node][i].to)
  <1>1. Top \in Handler
    BY TopTyped DEF NextDocument, Turn
  <1>2. PICK i \in Place(Top) : \E more \in HaveAfter(Top, i) :
           Kids[Top.node][i].ok /\ AddHandler(Advanced(i, more), Kids[Top.node][i].to)
    BY DEF NextDocument, Advanced
  <1>3. PICK more \in HaveAfter(Top, i) :
           Kids[Top.node][i].ok /\ AddHandler(Advanced(i, more), Kids[Top.node][i].to)
    BY <1>2
  <1>4. i \in Nat
    BY <1>1, PlaceTyped
  <1>5. more \in BOOLEAN
    BY <1>1, <1>4, HaveTyped
  <1>6. Turn /\ Top.have
    BY DEF NextDocument
  <1>7. QED
    BY <1>3, <1>5, <1>6

LEMMA NextDocumentTyped ==
    ASSUME Typed, NextDocument
    PROVE  Typed'
  <1>1. PICK i \in Place(Top), more \in BOOLEAN :
              /\ Turn /\ Top.have /\ more \in HaveAfter(Top, i)
              /\ Kids[Top.node][i].ok
              /\ AddHandler(Advanced(i, more), Kids[Top.node][i].to)
    BY NextDocumentIs
  <1> DEFINE s == Advanced(i, more)
  <1>2. mode # "idle" /\ loop <= MaxLoops /\ UNCHANGED source
    BY <1>1 DEF Turn
  <1>3. Top \in Handler /\ Len(stack) \in 1 .. MaxHandlers
    BY <1>2, TopTyped
  <1>4. Kids[Top.node][i].to \in Node
    BY <1>3, PlaceTyped DEF Member
  <1>5. s \in Seq(Handler) /\ Len(s) = Len(stack) /\ FilesOf(s)
    BY <1>2, AdvancedIs
  <1> HIDE DEF s
  <1>6. QED
    BY <1>1, <1>2, <1>3, <1>4, <1>5, AddHandlerTyped DEF s

LEMMA ChangeTyped ==
    ASSUME Typed, Change
    PROVE  Typed'
  <1>1. file' \in Roots /\ missing' \subseteq Node
    BY DEF Change, Typed
  <1>2. changes' \in 0 .. MaxChanges
    BY InternerAssumption DEF Change, Typed
  <1>3. QED
    BY <1>1, <1>2 DEF Change, Typed, FilesOf, Flagged

(* The first handler is given the file itself.                             *)
LEMMA FirstTyped ==
    ASSUME Typed, NEW h \in Handler, stack' = <<h>>, UNCHANGED <<tmpflgs, temps>>, mode = "idle"
    PROVE  FilesOf(stack)' /\ stack' \in Seq(Handler) /\ Len(stack') = 1 /\ stack' # <<>>
  <1>1. stack' \in Seq(Handler) /\ Len(stack') = 1 /\ stack' # <<>>
    OBVIOUS
  <1>2. stack = <<>>
    BY DEF Typed
  <1>3. FilesOf(stack) /\ Len(stack) = 0
    BY <1>2 DEF Typed
  <1>4. FilesOf(stack')
    BY <1>1, <1>3, FilesSame
  <1>5. QED
    BY <1>1, <1>4 DEF FilesOf, Flagged

LEMMA StartIndexTyped ==
    ASSUME Typed, StartIndex
    PROVE  Typed'
  <1>1. file \in Node
    BY InternerAssumption DEF Typed
  <1>2. stack' = <<Frame(file)>> /\ mode = "idle" /\ mode' = "index" /\ docs' = <<>>
        /\ UNCHANGED <<source, tmpflgs, temps, vipath, loop, asked, answer>>
    BY DEF StartIndex
  <1>3. FilesOf(stack)' /\ stack' \in Seq(Handler) /\ Len(stack') = 1 /\ stack' # <<>>
    BY <1>1, <1>2, FrameTyped, FirstTyped
  <1>4. docs' \in Seq(Found)
    BY <1>2
  <1>5. Len(stack') <= MaxHandlers
    BY <1>3, InternerAssumption
  <1>6. QED
    BY <1>2, <1>3, <1>4, <1>5 DEF Typed, source

LEMMA StartPreviewTyped ==
    ASSUME Typed, NEW d \in Range(docs), StartPreview(d)
    PROVE  Typed' /\ d \in Found
  <1> DEFINE fresh == made.file = file /\ made.missing = missing
             h == IF d.ipath = <<>> THEN Frame(file) ELSE Skipped(Frame(file), d.ipath[1])
  <1>1. file \in Node
    BY InternerAssumption DEF Typed
  <1>2. d \in Found
    <2>1. docs \in Seq(Found)
      BY DEF Typed
    <2>2. DOMAIN docs = 1 .. Len(docs)
      BY <2>1, LenProperties
    <2>3. QED
      BY <2>1, <2>2, ElementOfSeq DEF Range
  <1>3. d.ipath \in Seq(Nat \ {0})
    BY <1>2 DEF Found
  <1>4. h \in Handler
    <2>1. d.ipath # <<>> => d.ipath[1] \in Nat \ {0}
      <3>1. d.ipath # <<>> => Len(d.ipath) \in Nat \ {0}
        BY <1>3, EmptySeq
      <3>2. d.ipath # <<>> => 1 \in 1 .. Len(d.ipath)
        BY <3>1
      <3>3. QED
        BY <1>3, <3>2, ElementOfSeq
    <2>2. QED
      BY <1>1, <2>1, FrameTyped, SkippedTyped
  <1>5. mode = "idle" /\ vipath' = d.ipath /\ asked' = d
        /\ UNCHANGED <<source, docs, made, tmpflgs, temps, loop>>
    BY DEF StartPreview
  <1>6. fresh \in BOOLEAN
    OBVIOUS
  <1>7. CASE answer' = [to |-> d, got |-> Nothing, fresh |-> fresh] /\ UNCHANGED <<mode, stack>>
    <2> HIDE DEF fresh
    <2>1. answer' \in [to : Found \cup {Nothing}, got : Found \cup {Nothing}, fresh : BOOLEAN]
      BY <1>2, <1>6, <1>7
    <2>2. FilesOf(stack)'
      BY <1>5, <1>7 DEF Typed, FilesOf, Flagged
    <2>3. QED
      BY <1>2, <1>3, <1>5, <1>7, <2>1, <2>2 DEF Typed, source
  <1>8. CASE mode' = "preview" /\ stack' = <<h>> /\ answer' = answer
    <2> HIDE DEF h
    <2>1. FilesOf(stack)' /\ stack' \in Seq(Handler) /\ Len(stack') = 1 /\ stack' # <<>>
      BY <1>4, <1>5, <1>8, FirstTyped
    <2>2. Len(stack') <= MaxHandlers
      BY <2>1, InternerAssumption
    <2>3. QED
      BY <1>2, <1>3, <1>5, <1>8, <2>1, <2>2 DEF Typed, source
  <1>9. QED
    BY <1>2, <1>7, <1>8 DEF StartPreview

LEMMA TypedStep ==
    ASSUME Typed, [Next]_vars
    PROVE  Typed'
  <1>1. CASE Change
    BY <1>1, ChangeTyped
  <1>2. CASE StartIndex
    BY <1>2, StartIndexTyped
  <1>3. CASE \E d \in Range(docs) : StartPreview(d)
    BY <1>3, StartPreviewTyped
  <1>4. CASE NoDocument
    BY <1>4, PopOrFailTyped DEF NoDocument, Turn
  <1>5. CASE NextDocument
    BY <1>5, NextDocumentTyped
  <1>6. CASE Looping
    BY <1>6, FailsTyped DEF Looping
  <1>7. CASE UNCHANGED vars
    BY <1>7 DEF vars, Typed, FilesOf, Flagged
  <1>8. QED
    BY <1>1, <1>2, <1>3, <1>4, <1>5, <1>6, <1>7 DEF Next, Step

LEMMA InitTyped ==
    ASSUME Init
    PROVE  Typed
  <1>1. file \in Roots /\ missing \subseteq Node /\ changes \in 0 .. MaxChanges /\ loop \in 0 .. MaxLoops + 1
    BY InternerAssumption DEF Init
  <1>2. docs \in Seq(Found) /\ stack \in Seq(Handler) /\ vipath \in Seq(Nat \ {0}) /\ temps \in Seq(Node)
        /\ Len(stack) = 0 /\ Len(temps) = 0
    BY DEF Init
  <1>3. tmpflgs \in [1 .. MaxHandlers -> BOOLEAN] /\ Flagged = {}
    BY DEF Init, Flagged
  <1>4. FilesOf(stack)
    BY <1>2, <1>3, FS_EmptySet DEF FilesOf
  <1>5. QED
    BY <1>1, <1>2, <1>4, InternerAssumption DEF Init, Typed, NoAnswer

LEMMA TypesHold == Spec => []Typed
  <1>1. Init => Typed
    BY InitTyped
  <1>2. Typed /\ [Next]_vars => Typed'
    BY TypedStep
  <1>3. QED
    BY <1>1, <1>2, PTL DEF Spec

LEMMA TypedFiles ==
    ASSUME Typed
    PROVE  TempFilesMatch
  <1>1. Range(docs) \subseteq Found
    <2>1. docs \in Seq(Found)
      BY DEF Typed
    <2>2. QED
      BY <2>1, LenProperties, ElementOfSeq DEF Range
  <1>2. Len(stack) \in 0 .. MaxHandlers
        /\ \A i \in DOMAIN stack :
              stack[i] \in [node : Node, at : Nat \ {0}, have : BOOLEAN, want : Nat, el : Nat]
    <2>1. stack \in Seq(Handler) /\ Len(stack) <= MaxHandlers
      BY DEF Typed
    <2>2. Len(stack) \in Nat /\ DOMAIN stack = 1 .. Len(stack)
      BY <2>1, LenProperties
    <2>3. \A i \in 1 .. Len(stack) : stack[i] \in Handler
      BY <2>1, ElementOfSeq
    <2>4. QED
      BY <2>1, <2>2, <2>3, InternerAssumption DEF Handler
  <1>3. TypeOK
    BY <1>1, <1>2 DEF Typed, TypeOK
  <1>4. QED
    BY <1>3 DEF Typed, FilesOf, Flagged, TempFilesMatch

(* The types; and each temporary file is that of a handler on the stack    *)
(* that needed one, in the order of the stack, whatever is popped, fails   *)
(* or is given up: popHandler() deletes the file of the handler that goes, *)
(* and only it.                                                            *)
THEOREM TempFiles == Spec => []TempFilesMatch
  <1>1. Typed => TempFilesMatch
    BY TypedFiles
  <1>2. QED
    BY <1>1, TypesHold, PTL

-----------------------------------------------------------------------------
(* The way back to a document.                                             *)

(* The members of a file have elements of their own, as the numbers of the *)
(* messages of a folder and of the attachments of a mail are and the names *)
(* in an archive can be; without one is the first only, the text of a mail *)
(* or a page.                                                              *)
Addressed ==
    \A n \in Node :
        /\ \A i, j \in DOMAIN Kids[n] : Kids[n][i].el = Kids[n][j].el => i = j
        /\ \A i \in DOMAIN Kids[n] : Kids[n][i].el = 0 =>
              i = 1 /\ (Kind[Kids[n][i].to] = "text" \/ Converter(Kind[Kids[n][i].to]))

(* A route through a file: handlers, one inside the other, and the place   *)
(* in each of the document that is the next one's.                         *)
Stage == [node : Node, at : Nat \ {0}]
Kid(x) == Kids[x.node][x.at]

(* The handlers of r are there, what they passed did not fail, and each is *)
(* for the document of the one below.                                      *)
Sound(x) ==
    /\ x.node \in Good /\ Kind[x.node] # "text"
    /\ x.at \in DOMAIN Kids[x.node]
    /\ \A k \in 1 .. x.at : Kids[x.node][k].ok

Descends(r, f, gone) ==
    /\ r[1].node = f
    /\ \A i \in 1 .. Len(r) : Sound(r[i])
    /\ \A i \in 2 .. Len(r) : r[i].node = Kid(r[i - 1]).to /\ r[i].node \notin gone

Final(r, n, gone) ==
    /\ n = Kid(r[Len(r)]).to
    /\ Kind[n] = "text" \/ (n \notin Good /\ n \notin gone /\ Len(r) < MaxHandlers)

Spells(r, p) ==
    /\ Len(p) <= Len(r)
    /\ \A i \in 1 .. Len(r) : Kid(r[i]).el = IF i <= Len(p) THEN p[i] ELSE 0

LeadsTo(r, d, f, gone) ==
    /\ r \in Seq(Stage) /\ Len(r) \in 1 .. MaxHandlers
    /\ Descends(r, f, gone) /\ Final(r, d.node, gone) /\ Spells(r, d.ipath)

Reaches(d, f, gone) == \E r \in Seq(Stage) : LeadsTo(r, d, f, gone)

(* There is a way to each document of the index in the file it came from.  *)
AllReached ==
    \A i \in DOMAIN docs :
        IF mode = "index" THEN Reaches(docs[i], file, missing)
        ELSE Reaches(docs[i], made.file, made.missing)

(* Indexing: the stack is such a way, up to its top.                       *)
Passed(h) ==
    /\ h.want = 0 /\ h.node \in Good /\ Kind[h.node] # "text"
    /\ \A k \in 1 .. h.at - 1 : k \in DOMAIN Kids[h.node] /\ Kids[h.node][k].ok

Gave(h) == h.at > 1 /\ h.el = Kids[h.node][h.at - 1].el

Climbs(s) ==
    /\ s[1].node = file
    /\ \A i \in 1 .. Len(s) : Passed(s[i])
    /\ \A i \in 2 .. Len(s) :
          /\ Gave(s[i - 1]) /\ s[i].node = Kids[s[i - 1].node][s[i - 1].at - 1].to
          /\ s[i].node \notin missing

(* A preview follows the way r.                                            *)
Follows(r) ==
    /\ asked \in Found /\ vipath = asked.ipath
    /\ loop = Len(stack) - 1 /\ Len(stack) <= Len(r)
    /\ \A i \in 1 .. Len(stack) : stack[i].node = r[i].node
    /\ \A i \in 1 .. Len(stack) - 1 : stack[i].el = Kid(r[i]).el
    /\ Top.have /\ Place(Top) = {r[Len(stack)].at}

Unchanged == made.file = file /\ made.missing = missing

OnTheWay ==
    mode = "preview" /\ Unchanged =>
        \E r \in Seq(Stage) : LeadsTo(r, asked, file, missing) /\ Follows(r)

Retraced ==
    /\ Typed
    /\ AllReached
    /\ mode = "index" => Climbs(stack)
    /\ OnTheWay
    /\ PreviewIsExact

(* The stage of a handler that gave its document.                          *)
StageOf(h) == [node |-> h.node, at |-> h.at - 1]

LEMMA StageTyped ==
    ASSUME NEW h \in Handler, Passed(h), Gave(h)
    PROVE  /\ StageOf(h) \in Stage /\ StageOf(h).node = h.node /\ StageOf(h).at = h.at - 1
           /\ Sound(StageOf(h)) /\ Kid(StageOf(h)).el = h.el
           /\ Kid(StageOf(h)) = Kids[h.node][h.at - 1] /\ Kid(StageOf(h)) \in Member
  <1>1. h.node \in Node /\ h.at - 1 \in Nat \ {0}
    BY DEF Gave, Handler
  <1>2. h.at - 1 \in DOMAIN Kids[h.node]
    <2>1. h.at - 1 \in 1 .. h.at - 1
      BY <1>1 DEF Handler
    <2>2. QED
      BY <2>1 DEF Passed
  <1>3. Kids[h.node][h.at - 1] \in Member
    BY <1>1, <1>2, NodeTyped
  <1> DEFINE x == StageOf(h)
  <1>4. x \in Stage /\ x.node = h.node /\ x.at = h.at - 1
    BY <1>1 DEF StageOf, Stage
  <1> HIDE DEF x
  <1>5. QED
    BY <1>2, <1>3, <1>4 DEF Passed, Gave, Sound, Kid, x

(* A document without an element is the text of its handler's, or a page   *)
(* the text of which is the next and last document.                        *)
LEMMA NamelessLast ==
    ASSUME Addressed, NEW x \in Stage, Sound(x), Kid(x).el = 0, NEW y \in Stage, Sound(y), y.node = Kid(x).to
    PROVE  x.at = 1 /\ Kid(y).el = 0 /\ Kind[Kid(y).to] = "text"
  <1>1. x.node \in Node /\ y.node \in Node
    BY DEF Stage
  <1>2. x.at = 1 /\ Converter(Kind[y.node])
    BY <1>1 DEF Addressed, Sound, Kid
  <1>3. Len(Kids[y.node]) = 1 /\ Kids[y.node][1].el = 0 /\ Kind[Kids[y.node][1].to] = "text"
    BY <1>1, <1>2, InternerAssumption
  <1>4. y.at \in 1 .. Len(Kids[y.node])
    BY <1>1, NodeTyped DEF Sound
  <1>5. y.at = 1
    BY <1>3, <1>4
  <1>6. QED
    BY <1>2, <1>3, <1>5 DEF Kid

(* So the handlers that gave an element come first.                        *)
LEMMA NamedFirst ==
    ASSUME Addressed, NEW r \in Seq(Stage), Len(r) # 0, NEW f, NEW gone, Descends(r, f, gone)
    PROVE  \E m \in 0 .. Len(r) : \A i \in 1 .. Len(r) : Kid(r[i]).el # 0 <=> i <= m
  <1> DEFINE L == Len(r)
  <1>1. L \in Nat \ {0} /\ \A i \in 1 .. L : r[i] \in Stage /\ Sound(r[i])
    BY LenProperties, ElementOfSeq DEF Descends
  <1>2. \A i \in 1 .. L - 1 : r[i + 1].node = Kid(r[i]).to
    <2> TAKE i \in 1 .. L - 1
    <2>1. i + 1 \in 2 .. L /\ (i + 1) - 1 = i
      BY <1>1
    <2>2. QED
      BY <2>1 DEF Descends
  <1> HIDE DEF L
  <1>3. \A i \in 1 .. L - 1 : Kid(r[i]).el = 0 => Kid(r[i + 1]).el = 0 /\ Kind[Kid(r[i + 1]).to] = "text"
    <2> TAKE i \in 1 .. L - 1
    <2>1. i \in 1 .. L /\ i + 1 \in 1 .. L
      BY <1>1
    <2>2. QED
      BY <1>1, <1>2, <2>1, NamelessLast
  <1>4. \A i \in 1 .. L - 2 : Kid(r[i]).el # 0
    <2> TAKE i \in 1 .. L - 2
    <2>1. i \in 1 .. L - 1 /\ i + 1 \in 1 .. L - 1 /\ i + 2 \in 1 .. L /\ (i + 1) + 1 = i + 2
      BY <1>1
    <2>2. r[i + 2].node = Kid(r[i + 1]).to /\ Kind[r[i + 2].node] # "text"
      BY <1>1, <1>2, <2>1 DEF Sound
    <2>3. QED
      BY <1>3, <2>1, <2>2
  <1>5. CASE Kid(r[L]).el # 0
    <2>1. \A i \in 1 .. L - 1 : Kid(r[i]).el # 0
      <3> TAKE i \in 1 .. L - 1
      <3>1. i + 1 = L \/ i \in 1 .. L - 2
        BY <1>1
      <3>2. QED
        BY <1>3, <1>4, <1>5, <3>1
    <2>2. \A i \in 1 .. L : i = L \/ i \in 1 .. L - 1
      BY <1>1
    <2>3. \A i \in 1 .. L : Kid(r[i]).el # 0 <=> i <= L
      BY <1>1, <1>5, <2>1, <2>2
    <2>4. QED
      BY <1>1, <2>3 DEF L
  <1>6. CASE Kid(r[L]).el = 0 /\ (L = 1 \/ Kid(r[L - 1]).el # 0)
    <2>1. \A i \in 1 .. L : i = L \/ i = L - 1 \/ i \in 1 .. L - 2
      BY <1>1
    <2>2. \A i \in 1 .. L : Kid(r[i]).el # 0 <=> i <= L - 1
      BY <1>1, <1>4, <1>6, <2>1
    <2>3. L - 1 \in 0 .. L
      BY <1>1
    <2>4. QED
      BY <2>2, <2>3 DEF L
  <1>7. CASE Kid(r[L]).el = 0 /\ L # 1 /\ Kid(r[L - 1]).el = 0
    <2>1. \A i \in 1 .. L : i = L \/ i = L - 1 \/ i \in 1 .. L - 2
      BY <1>1
    <2>2. \A i \in 1 .. L : Kid(r[i]).el # 0 <=> i <= L - 2
      BY <1>1, <1>4, <1>7, <2>1
    <2>3. L - 2 \in 0 .. L
      BY <1>1, <1>7
    <2>4. QED
      BY <2>2, <2>3 DEF L
  <1>8. QED
    BY <1>5, <1>6, <1>7

(* A handler that has extracted nothing has no part in the path.           *)
Extends(s, t) ==
    /\ Len(s) <= Len(t)
    /\ \A i \in 1 .. Len(s) : t[i] = s[i]
    /\ \A i \in Len(s) + 1 .. Len(t) : t[i].el = 0

(* The document that indexing found has the stack for its way.             *)
LEMMA FoundReached ==
    ASSUME Addressed, NEW s \in Seq(Handler), Len(s) \in 1 .. MaxHandlers, Climbs(s), Gave(s[Len(s)]),
           NEW t \in Seq(Handler), Extends(s, t),
           NEW n \in Node, n = Kids[s[Len(s)].node][s[Len(s)].at - 1].to,
           Kind[n] = "text" \/ (n \notin Good /\ n \notin missing /\ Len(s) < MaxHandlers)
    PROVE  Reaches([ipath |-> Ipath(t), node |-> n], file, missing)
  <1> DEFINE L == Len(s)
             r == [i \in 1 .. L |-> StageOf(s[i])]
             d == [ipath |-> Ipath(t), node |-> n]
  <1>1. L \in Nat \ {0} /\ \A i \in 1 .. L : s[i] \in Handler
    BY LenProperties, ElementOfSeq
  <1>2. \A i \in 1 .. L : Passed(s[i]) /\ Gave(s[i])
    <2> TAKE i \in 1 .. L
    <2>1. CASE i = L
      BY <2>1 DEF Climbs
    <2>2. CASE i # L
      <3>1. i + 1 \in 2 .. Len(s) /\ (i + 1) - 1 = i
        BY <1>1, <2>2
      <3>2. QED
        BY <3>1 DEF Climbs
    <2>3. QED
      BY <2>1, <2>2
  <1>3. \A i \in 1 .. L : /\ r[i] \in Stage /\ r[i].node = s[i].node
                          /\ Sound(r[i]) /\ Kid(r[i]).el = s[i].el
                          /\ Kid(r[i]) = Kids[s[i].node][s[i].at - 1]
    BY <1>1, <1>2, StageTyped
  <1>4. r \in Seq(Stage) /\ Len(r) = L
    <2>1. r \in [1 .. L -> Stage]
      BY <1>3
    <2> HIDE DEF r
    <2>2. QED
      BY <1>1, <2>1
  <1> HIDE DEF r, d
  <1>5. Descends(r, file, missing)
    <2>1. r[1].node = file
      BY <1>1, <1>3 DEF Climbs
    <2>2. \A i \in 2 .. L : r[i].node = Kid(r[i - 1]).to /\ r[i].node \notin missing
      <3> TAKE i \in 2 .. L
      <3>1. i \in 1 .. L /\ i - 1 \in 1 .. L
        BY <1>1
      <3>2. QED
        BY <1>3, <3>1 DEF Climbs
    <2>3. QED
      BY <1>3, <1>4, <2>1, <2>2 DEF Descends
  <1>6. PICK m \in 0 .. L : \A i \in 1 .. L : Kid(r[i]).el # 0 <=> i <= m
    BY <1>1, <1>4, <1>5, NamedFirst
  <1>7. Len(t) \in Nat /\ L <= Len(t) /\ m \in 0 .. Len(t) /\ m <= L /\ m \in Nat
    BY <1>1, <1>6, LenProperties DEF Extends
  <1>8. \A i \in 1 .. Len(t) : t[i].el # 0 <=> i <= m
    <2> TAKE i \in 1 .. Len(t)
    <2>1. CASE i <= L
      <3>1. i \in 1 .. L
        BY <1>1, <2>1
      <3>2. t[i] = s[i]
        BY <3>1 DEF Extends
      <3>3. QED
        BY <1>3, <1>6, <3>1, <3>2
    <2>2. CASE ~ (i <= L)
      <3>1. i \in Len(s) + 1 .. Len(t) /\ ~ (i <= m)
        BY <1>1, <1>7, <2>2
      <3>2. QED
        BY <3>1 DEF Extends
    <2>3. QED
      BY <2>1, <2>2
  <1>9. Len(Ipath(t)) = m /\ \A i \in 1 .. m : Ipath(t)[i] = t[i].el
    BY <1>7, <1>8, IpathIs
  <1>10. d.ipath = Ipath(t) /\ d.node = n
    BY DEF d
  <1>11. Spells(r, d.ipath)
    <2>1. \A i \in 1 .. L : Kid(r[i]).el = IF i <= m THEN Ipath(t)[i] ELSE 0
      <3> TAKE i \in 1 .. L
      <3>1. CASE i <= m
        <4>1. i \in 1 .. m /\ t[i] = s[i]
          BY <1>7, <3>1 DEF Extends
        <4>2. QED
          BY <1>3, <1>9, <3>1, <4>1
      <3>2. CASE ~ (i <= m)
        BY <1>6, <3>2
      <3>3. QED
        BY <3>1, <3>2
    <2>2. QED
      BY <1>4, <1>7, <1>9, <1>10, <2>1 DEF Spells
  <1>12. Final(r, d.node, missing)
    <2>1. L \in 1 .. L
      BY <1>1
    <2>2. QED
      BY <1>3, <1>4, <1>10, <2>1 DEF Final
  <1>13. LeadsTo(r, d, file, missing)
    BY <1>4, <1>5, <1>11, <1>12 DEF LeadsTo
  <1>14. QED
    BY <1>4, <1>13 DEF Reaches, d

-----------------------------------------------------------------------------
(* Indexing.                                                               *)

LEMMA AdvancedClimbs ==
    ASSUME Typed, mode = "index", Climbs(stack), NEW i \in Place(Top), NEW more \in BOOLEAN,
           Kids[Top.node][i].ok
    PROVE  LET s == Advanced(i, more)
           IN  /\ Climbs(s) /\ Gave(s[Len(s)])
               /\ Kids[Top.node][i].to = Kids[s[Len(s)].node][s[Len(s)].at - 1].to
  <1> DEFINE s == Advanced(i, more)
             L == Len(stack)
             h == stack[L]
  <1>1. /\ L \in 1 .. MaxHandlers /\ DOMAIN stack = 1 .. L
        /\ \A j \in 1 .. L : stack[j] \in Handler
        /\ Top = h /\ Top \in Handler /\ MaxHandlers \in Nat \ {0}
    BY TopTyped
  <1>2. /\ s \in Seq(Handler) /\ Len(s) = L
        /\ \A j \in 1 .. L : s[j].node = stack[j].node /\ s[j].want = stack[j].want
        /\ \A j \in 1 .. L : j # L => s[j] = stack[j]
        /\ s[L].el = Kids[h.node][i].el /\ s[L].at = i + 1 /\ s[L].have = more
    BY AdvancedIs
  <1> HIDE DEF s
  <1>3. i \in DOMAIN Kids[h.node] /\ i \in Nat \ {0}
    BY <1>1, PlaceTyped
  <1>4. Passed(h)
    BY <1>1 DEF Climbs
  <1>5. i = h.at
    <2>1. Place(h) = {h.at} \cap DOMAIN Kids[h.node]
      BY <1>4 DEF Place, Passed
    <2>2. QED
      BY <1>1, <2>1
  <1>6. s[L].at = i + 1 /\ s[L].at - 1 = i /\ s[L].node = h.node /\ s[L].want = h.want
    <2>1. L \in 1 .. L
      BY <1>1
    <2>2. s[L].node = h.node /\ s[L].want = h.want /\ s[L].at = i + 1
      BY <1>2, <2>1
    <2>3. QED
      BY <1>3, <2>2
  <1>7. Passed(s[L])
    <2>1. \A k \in 1 .. i : k \in DOMAIN Kids[h.node] /\ Kids[h.node][k].ok
      <3> TAKE k \in 1 .. i
      <3>1. CASE k = i
        BY <1>1, <1>3, <3>1
      <3>2. CASE k # i
        <4>1. k \in 1 .. h.at - 1
          BY <1>3, <1>5, <3>2
        <4>2. QED
          BY <1>4, <4>1 DEF Passed
      <3>3. QED
        BY <3>1, <3>2
    <2>2. QED
      BY <1>4, <1>6, <2>1 DEF Passed
  <1>8. Gave(s[L])
    <2>1. s[L].el = Kids[s[L].node][s[L].at - 1].el /\ s[L].at > 1
      BY <1>2, <1>3, <1>6
    <2>2. QED
      BY <2>1 DEF Gave
  <1>9. s[1].node = file
    <2>1. 1 \in 1 .. L
      BY <1>1
    <2>2. s[1].node = stack[1].node
      BY <1>2, <2>1
    <2>3. QED
      BY <2>2 DEF Climbs
  <1>10. \A j \in 1 .. L : Passed(s[j])
    BY <1>2, <1>7 DEF Climbs
  <1>11. \A j \in 2 .. L :
            /\ Gave(s[j - 1]) /\ s[j].node = Kids[s[j - 1].node][s[j - 1].at - 1].to
            /\ s[j].node \notin missing
    <2> TAKE j \in 2 .. L
    <2>1. j \in 1 .. L /\ j - 1 \in 1 .. L /\ j - 1 # L
      BY <1>1
    <2>2. s[j - 1] = stack[j - 1] /\ s[j].node = stack[j].node
      BY <1>2, <2>1
    <2>3. QED
      BY <2>2 DEF Climbs
  <1>12. Climbs(s)
    BY <1>2, <1>9, <1>10, <1>11 DEF Climbs
  <1>13. QED
    BY <1>1, <1>2, <1>6, <1>8, <1>12 DEF s

LEMMA PrefixClimbs ==
    ASSUME NEW s \in Seq(Handler), Climbs(s), NEW t, Len(t) \in 1 .. Len(s),
           \A i \in 1 .. Len(t) : t[i] = s[i]
    PROVE  Climbs(t)
  <1>1. Len(s) \in Nat /\ \A i \in 1 .. Len(t) : i \in 1 .. Len(s)
    BY LenProperties
  <1>2. t[1] = s[1]
    BY <1>1
  <1>3. \A i \in 2 .. Len(t) : i \in 2 .. Len(s) /\ t[i] = s[i] /\ t[i - 1] = s[i - 1]
    BY <1>1
  <1>4. QED
    BY <1>1, <1>2, <1>3 DEF Climbs

LEMMA StackedClimbs ==
    ASSUME NEW s \in Seq(Handler), Len(s) # 0, Climbs(s), Gave(s[Len(s)]),
           NEW n \in Node, n = Kids[s[Len(s)].node][s[Len(s)].at - 1].to,
           n \in Good, n \notin missing, Kind[n] # "text"
    PROVE  Climbs(Append(s, Frame(n)))
  <1> DEFINE t == Append(s, Frame(n))
  <1>1. /\ Len(s) \in Nat \ {0} /\ Len(t) = Len(s) + 1
        /\ \A i \in 1 .. Len(s) : t[i] = s[i]
        /\ t[Len(s) + 1] = Frame(n)
    BY FrameTyped, AppendProperties, LenProperties
  <1> HIDE DEF t
  <1>2. Passed(Frame(n)) /\ Frame(n).node = n
    <2>1. Frame(n).node = n /\ Frame(n).want = 0 /\ Frame(n).at - 1 = 0
      BY FrameTyped
    <2>2. 1 .. 0 = {}
      OBVIOUS
    <2>3. QED
      BY <2>1, <2>2 DEF Passed
  <1>3. t[1] = s[1]
    BY <1>1
  <1>4. \A i \in 1 .. Len(t) : Passed(t[i])
    <2> TAKE i \in 1 .. Len(t)
    <2>1. i = Len(s) + 1 \/ i \in 1 .. Len(s)
      BY <1>1
    <2>2. QED
      BY <1>1, <1>2, <2>1 DEF Climbs
  <1>5. \A i \in 2 .. Len(t) :
            /\ Gave(t[i - 1]) /\ t[i].node = Kids[t[i - 1].node][t[i - 1].at - 1].to
            /\ t[i].node \notin missing
    <2> TAKE i \in 2 .. Len(t)
    <2>1. CASE i = Len(s) + 1
      <3>1. i - 1 = Len(s) /\ Len(s) \in 1 .. Len(s)
        BY <1>1, <2>1
      <3>2. t[i - 1] = s[Len(s)] /\ t[i].node = n
        BY <1>1, <1>2, <2>1, <3>1
      <3>3. QED
        BY <3>2
    <2>2. CASE i # Len(s) + 1
      <3>1. i \in 2 .. Len(s) /\ i \in 1 .. Len(s) /\ i - 1 \in 1 .. Len(s)
        BY <1>1, <2>2
      <3>2. t[i] = s[i] /\ t[i - 1] = s[i - 1]
        BY <1>1, <3>1
      <3>3. QED
        BY <3>1, <3>2 DEF Climbs
    <2>3. QED
      BY <2>1, <2>2
  <1>6. QED
    BY <1>3, <1>4, <1>5 DEF Climbs, t

(* What indexing has to keep.                                              *)
Indexing == AllReached /\ (mode = "index" => Climbs(stack))

LEMMA IndexFails ==
    ASSUME mode = "index", AllReached, NEW how, Fails(how), UNCHANGED source
    PROVE  Indexing' /\ mode' = "idle" /\ answer' = answer
  <1>1. /\ mode' = "idle" /\ docs' = docs /\ answer' = answer
        /\ made' = [file |-> file, missing |-> missing, how |-> how]
    BY DEF Fails, Ends
  <1>2. made'.file = file /\ made'.missing = missing
    BY <1>1
  <1>3. \A i \in DOMAIN docs : Reaches(docs[i], file, missing)
    BY DEF AllReached
  <1>4. AllReached'
    BY <1>1, <1>2, <1>3 DEF AllReached
  <1>5. QED
    BY <1>1, <1>4 DEF Indexing

LEMMA IndexReturns ==
    ASSUME Addressed, Typed, mode = "index", AllReached, UNCHANGED source,
           NEW s \in Seq(Handler), Len(s) \in 1 .. MaxHandlers, Climbs(s), Gave(s[Len(s)]),
           NEW t \in Seq(Handler), Extends(s, t), Len(t) <= MaxHandlers, FilesOf(t),
           \A i \in Len(s) + 1 .. Len(t) : ~ t[i].have,
           NEW n \in Node, n = Kids[s[Len(s)].node][s[Len(s)].at - 1].to,
           Kind[n] = "text" \/ (n \notin Good /\ n \notin missing /\ Len(s) < MaxHandlers),
           Returns(t, n)
    PROVE  Indexing' /\ answer' = answer /\ mode' # "preview"
  <1> DEFINE d == [ipath |-> Ipath(t), node |-> n]
  <1>1. /\ docs' = Append(docs, d) /\ answer' = answer
        /\ Popped(t, Len(t) - More(t))
        /\ mode' = IF More(t) = 0 THEN "idle" ELSE "index"
        /\ made' = IF More(t) # 0 THEN made
                   ELSE [file |-> file, missing |-> missing, how |-> "done"]
    BY DEF Returns, More
  <1>2. Reaches(d, file, missing)
    BY FoundReached
  <1>3. d \in Found
    BY IpathTyped DEF Found
  <1> HIDE DEF d
  <1>4. \A i \in DOMAIN docs' : Reaches(docs'[i], file, missing)
    <2>1. docs \in Seq(Found)
      BY DEF Typed
    <2>2. /\ Len(docs') = Len(docs) + 1 /\ docs' \in Seq(Found)
          /\ \A i \in 1 .. Len(docs) : docs'[i] = docs[i]
          /\ docs'[Len(docs) + 1] = d
      BY <1>1, <1>3, <2>1, AppendProperties
    <2>3. DOMAIN docs = 1 .. Len(docs) /\ DOMAIN docs' = 1 .. Len(docs) + 1 /\ Len(docs) \in Nat
      BY <2>1, <2>2, LenProperties
    <2>4. \A i \in 1 .. Len(docs) : Reaches(docs[i], file, missing)
      BY <2>3 DEF AllReached
    <2>5. \A i \in 1 .. Len(docs) + 1 : i \in 1 .. Len(docs) \/ i = Len(docs) + 1
      BY <2>3
    <2>6. QED
      BY <1>2, <2>2, <2>3, <2>4, <2>5
  <1>5. file' = file /\ missing' = missing
    BY DEF source
  <1>6. More(t) \in 0 .. Len(s) /\ More(t) \in 0 .. Len(t) /\ Len(t) \in Nat /\ Len(s) \in Nat
    <2>1. More(t) \in 0 .. Len(t) /\ (More(t) # 0 => t[More(t)].have)
      BY MoreIs
    <2>2. Len(t) \in Nat /\ Len(s) \in Nat /\ Len(s) <= Len(t)
      BY LenProperties DEF Extends
    <2>3. QED
      BY <2>1, <2>2
  <1>7. AllReached'
    <2>1. mode' = "index" => AllReached'
      BY <1>4, <1>5 DEF AllReached
    <2>2. mode' # "index" => made'.file = file /\ made'.missing = missing
      BY <1>1
    <2>3. mode' # "index" => AllReached'
      BY <1>4, <2>2 DEF AllReached
    <2>4. QED
      BY <2>1, <2>3
  <1>8. ASSUME mode' = "index" PROVE Climbs(stack)'
    <2>1. More(t) # 0
      BY <1>1, <1>8
    <2>2. Len(t) - More(t) \in 0 .. Len(t) /\ Len(t) - (Len(t) - More(t)) = More(t)
      BY <1>6
    <2>3. Len(stack') = More(t) /\ \A i \in 1 .. More(t) : stack'[i] = t[i]
      BY <1>1, <2>2, FilesPopped
    <2>4. \A i \in 1 .. More(t) : i \in 1 .. Len(s) /\ stack'[i] = s[i]
      BY <1>6, <2>3 DEF Extends
    <2>5. Climbs(stack')
      BY <1>6, <2>1, <2>3, <2>4, PrefixClimbs
    <2>6. QED
      BY <1>5, <2>5 DEF Climbs
  <1>9. QED
    BY <1>1, <1>7, <1>8 DEF Indexing

LEMMA IndexAdds ==
    ASSUME Addressed, Typed, mode = "index", AllReached, UNCHANGED source,
           NEW s \in Seq(Handler), Len(s) \in 1 .. MaxHandlers, Climbs(s), Gave(s[Len(s)]), FilesOf(s),
           NEW n \in Node, n = Kids[s[Len(s)].node][s[Len(s)].at - 1].to,
           AddHandler(s, n)
    PROVE  Indexing' /\ answer' = answer /\ mode' # "preview"
  <1>0. MaxHandlers \in Nat /\ Len(s) \in Nat /\ Len(s) <= MaxHandlers /\ Len(s) # 0
    BY LenProperties, InternerAssumption
  <1>1. CASE Kind[n] = "text"
    <2>1. Returns(s, n)
      BY <1>1 DEF AddHandler
    <2>2. Extends(s, s) /\ \A i \in Len(s) + 1 .. Len(s) : ~ s[i].have
      BY <1>0 DEF Extends
    <2>3. QED
      BY <1>0, <1>1, <2>1, <2>2, IndexReturns
  <1>2. CASE GoOn(s)
    <2>1. stack' = s /\ docs' = docs /\ made' = made /\ mode' = mode /\ answer' = answer
      BY <1>2 DEF GoOn
    <2>2. file' = file /\ missing' = missing
      BY DEF source
    <2>3. AllReached'
      BY <2>1, <2>2 DEF AllReached
    <2>4. Climbs(stack)'
      BY <2>1, <2>2 DEF Climbs
    <2>5. QED
      BY <2>1, <2>3, <2>4 DEF Indexing
  <1>3. CASE Len(s) < MaxHandlers /\ n \notin missing /\ n \notin Good /\ Returns(Append(s, Frame(n)), n)
    <2> DEFINE t == Append(s, Frame(n))
    <2>1. /\ t \in Seq(Handler) /\ Len(t) = Len(s) + 1
          /\ \A i \in 1 .. Len(s) : t[i] = s[i]
          /\ t[Len(s) + 1] = Frame(n)
      BY FrameTyped, AppendProperties
    <2>2. Returns(t, n)
      BY <1>3
    <2> HIDE DEF t
    <2>3. Frame(n).el = 0 /\ ~ Frame(n).have
      BY <1>3, FrameTyped
    <2>4. \A i \in Len(s) + 1 .. Len(t) : t[i].el = 0 /\ ~ t[i].have
      BY <1>0, <2>1, <2>3
    <2>5. Extends(s, t)
      BY <1>0, <2>1, <2>4 DEF Extends
    <2>6. Len(t) \in Nat /\ Len(t) <= MaxHandlers /\ Len(s) <= Len(t)
          /\ \A i \in 1 .. Len(s) : t[i].node = s[i].node
      <3>1. \A i \in 1 .. Len(s) : t[i].node = s[i].node
        BY <2>1
      <3>2. Len(t) = Len(s) + 1
        BY <2>1
      <3>3. Len(s) < MaxHandlers
        BY <1>3
      <3>4. Len(t) \in Nat /\ Len(t) <= MaxHandlers /\ Len(s) <= Len(t)
        BY <1>0, <3>2, <3>3
      <3>5. QED
        BY <3>1, <3>4
    <2>7. FilesOf(t)
      BY <1>0, <2>6, FilesSame
    <2>8. QED
      BY <1>3, <2>1, <2>2, <2>4, <2>5, <2>6, <2>7, IndexReturns
  <1>4. CASE Len(s) < MaxHandlers /\ n \notin missing /\ n \in Good /\ Kind[n] # "text" /\ Stacked(s, n)
    <2>1. /\ stack' = Append(s, Frame(n))
          /\ docs' = docs /\ made' = made /\ mode' = mode /\ answer' = answer
      BY <1>4 DEF Stacked
    <2>2. file' = file /\ missing' = missing
      BY DEF source
    <2>3. Climbs(Append(s, Frame(n)))
      BY <1>0, <1>4, StackedClimbs
    <2>4. Climbs(stack)'
      BY <2>1, <2>2, <2>3 DEF Climbs
    <2>5. AllReached'
      BY <2>1, <2>2 DEF AllReached
    <2>6. QED
      BY <2>1, <2>4, <2>5 DEF Indexing
  <1>5. HasHandler(n) => n \notin missing
    BY DEF HasHandler
  <1>6. QED
    BY <1>0, <1>1, <1>2, <1>3, <1>4, <1>5 DEF AddHandler

LEMMA IndexStep ==
    ASSUME Addressed, Typed, mode = "index", Indexing, Step
    PROVE  Indexing' /\ answer' = answer /\ mode' # "preview"
  <1>0. AllReached /\ Climbs(stack)
    BY DEF Indexing
  <1>1. CASE Looping
    BY <1>0, <1>1, IndexFails DEF Looping
  <1>2. CASE NoDocument
    <2>1. UNCHANGED source /\ PopOrFail
      BY <1>2 DEF NoDocument, Turn
    <2>2. CASE Fails("done")
      BY <1>0, <2>1, <2>2, IndexFails
    <2>3. CASE /\ Len(stack) # 1 /\ Popped(stack, 1)
               /\ UNCHANGED <<docs, made, mode, answer>>
      <3>1. Len(stack) \in 1 .. MaxHandlers /\ MaxHandlers \in Nat
        BY TopTyped
      <3>2. FilesOf(stack) /\ stack \in Seq(Handler) /\ Len(stack) <= MaxHandlers
        BY DEF Typed
      <3>3. Len(stack') = Len(stack) - 1 /\ \A i \in 1 .. Len(stack) - 1 : stack'[i] = stack[i]
        BY <2>3, <3>1, <3>2, FilesPopped
      <3>4. Len(stack') \in 1 .. Len(stack)
        BY <2>3, <3>1, <3>3
      <3>5. Climbs(stack')
        BY <1>0, <3>2, <3>3, <3>4, PrefixClimbs
      <3>6. file' = file /\ missing' = missing
        BY <2>1 DEF source
      <3>7. Climbs(stack)'
        BY <3>5, <3>6 DEF Climbs
      <3>8. AllReached'
        BY <1>0, <2>3, <3>6 DEF AllReached
      <3>9. QED
        BY <2>3, <3>7, <3>8 DEF Indexing
    <2>4. QED
      BY <2>1, <2>2, <2>3 DEF PopOrFail
  <1>3. CASE NextDocument
    <2>1. PICK i \in Place(Top), more \in BOOLEAN :
              /\ Turn /\ Top.have /\ more \in HaveAfter(Top, i)
              /\ Kids[Top.node][i].ok
              /\ AddHandler(Advanced(i, more), Kids[Top.node][i].to)
      BY <1>3, NextDocumentIs
    <2> DEFINE s == Advanced(i, more)
               n == Kids[Top.node][i].to
    <2>2. UNCHANGED source /\ AddHandler(s, n)
      BY <2>1 DEF Turn
    <2>3. Top \in Handler /\ Len(stack) \in 1 .. MaxHandlers
      BY TopTyped
    <2>4. n \in Node
      BY <2>3, PlaceTyped DEF Member
    <2>5. s \in Seq(Handler) /\ Len(s) = Len(stack) /\ FilesOf(s)
      BY AdvancedIs
    <2>6. Climbs(s) /\ Gave(s[Len(s)]) /\ n = Kids[s[Len(s)].node][s[Len(s)].at - 1].to
      BY <1>0, <2>1, AdvancedClimbs
    <2> HIDE DEF s, n
    <2>7. QED
      BY <1>0, <2>2, <2>3, <2>4, <2>5, <2>6, IndexAdds
  <1>4. QED
    BY <1>1, <1>2, <1>3 DEF Step

-----------------------------------------------------------------------------
(* A preview.                                                              *)

(* The handler of a stage goes to its document, by an element or as it is  *)
(* new, however it skips.                                                  *)
LEMMA StageFound ==
    ASSUME Addressed, NEW x \in Stage, Sound(x), NEW h \in Handler,
           \/ Kid(x).el = 0 /\ h = Frame(x.node)
           \/ Kid(x).el # 0 /\ h = Skipped(Frame(x.node), Kid(x).el)
    PROVE  /\ Kid(x).el # 0 => CanSkip(Frame(x.node))
           /\ h.node = x.node /\ h.have /\ Place(h) = {x.at}
  <1> DEFINE n == x.node
             el == Kids[x.node][x.at].el
  <1>1. n \in Node /\ x.at \in 1 .. Len(Kids[n]) /\ DOMAIN Kids[n] = 1 .. Len(Kids[n]) /\ Len(Kids[n]) \in Nat
    BY NodeTyped DEF Stage, Sound
  <1>2. Kid(x).el = el /\ el \in Nat
    BY <1>1, NodeTyped DEF Kid, Member
  <1>3. /\ Frame(n) \in Handler /\ Frame(n).node = n /\ Frame(n).have
        /\ Frame(n).at = 1 /\ Frame(n).want = 0
    BY <1>1, FrameTyped DEF Sound
  <1>4. \A i \in 1 .. Len(Kids[n]) : Kids[n][i].el = el => i = x.at
    BY <1>1 DEF Addressed
  <1>5. CASE el = 0
    <2>1. x.at = 1
      BY <1>1, <1>2, <1>5 DEF Addressed
    <2>2. h = Frame(n)
      BY <1>2, <1>5
    <2>3. Place(h) = {1} \cap DOMAIN Kids[n]
      BY <1>3, <2>2 DEF Place
    <2>4. QED
      BY <1>1, <1>2, <1>3, <1>5, <2>1, <2>2, <2>3
  <1>6. CASE el # 0
    <2>1. h = Skipped(Frame(n), el) /\ el \in Nat \ {0}
      BY <1>2, <1>6
    <2> DEFINE there == {i \in DOMAIN Kids[n] : Kids[n][i].el = el}
    <2>2. there = {x.at}
      BY <1>1, <1>4
    <2>3. ~ Converter(Kind[n])
      <3>1. SUFFICES ASSUME Converter(Kind[n]) PROVE FALSE
        OBVIOUS
      <3>2. Len(Kids[n]) = 1 /\ Kids[n][1].el = 0
        BY <1>1, <3>1, InternerAssumption
      <3>3. x.at = 1
        BY <1>1, <3>2
      <3>4. QED
        BY <1>6, <3>2, <3>3
    <2> HIDE DEF el, there
    <2>4. /\ h.node = n /\ h.have /\ h.want = el
          /\ Kind[n] = "mail" => h.at = Min(there \cup {Len(Kids[n]) + 1})
      <3> DEFINE g == Frame(n)
      <3>1. g \in Handler /\ g.node = n /\ g.have /\ h = Skipped(g, el)
        BY <1>3, <2>1
      <3> HIDE DEF g
      <3>2. /\ Skipped(g, el).node = g.node /\ Skipped(g, el).have = g.have
            /\ Skipped(g, el).want = el
            /\ Kind[g.node] = "mail" =>
                  Skipped(g, el).at = Min(Having(g.node, el) \cup {Len(Kids[g.node]) + 1})
        <4>1. g \in Handler /\ el \in Nat \ {0}
          BY <2>1, <3>1
        <4>2. QED
          BY <4>1, SkippedTyped
      <3>3. Having(n, el) = there
        BY DEF there, Having
      <3>4. QED
        BY <3>1, <3>2, <3>3
    <2>5. CASE Kind[n] = "mail"
      <3> DEFINE S == there \cup {Len(Kids[n]) + 1}
      <3>1. S = {x.at, Len(Kids[n]) + 1} /\ \A q \in S : q \in Nat
        BY <1>1, <2>2
      <3>2. Min(S) \in S /\ \A q \in S : Min(S) <= q
        BY <3>1, Lowest
      <3>3. h.at = Min(S)
        BY <2>4, <2>5
      <3> HIDE DEF S
      <3>4. h.at = x.at
        BY <1>1, <3>1, <3>2, <3>3
      <3>5. Place(h) = {h.at} \cap DOMAIN Kids[n]
        BY <2>4, <2>5 DEF Place
      <3>6. Kids[n] # <<>> /\ Kids[n][1].ok
        <4>1. 1 \in 1 .. x.at /\ Len(Kids[n]) # 0
          BY <1>1
        <4>2. QED
          BY <4>1 DEF Sound
      <3>7. CanSkip(Frame(n))
        BY <1>3, <2>5, <3>6 DEF CanSkip
      <3>8. QED
        BY <1>1, <2>4, <3>4, <3>5, <3>7
    <2>6. CASE Kind[n] # "mail"
      <3>1. Kind[n] # "exec" /\ Kind[n] # "convert"
        BY <2>3 DEF Converter
      <3>2. Place(h) = {i \in DOMAIN Kids[h.node] : Kids[h.node][i].el = h.want}
        BY <1>6, <2>4, <2>6, <3>1 DEF Place
      <3>3. Place(h) = there
        BY <2>4, <3>2 DEF there
      <3>4. CanSkip(Frame(n))
        BY <1>3, <2>6, <3>1 DEF CanSkip
      <3>5. QED
        BY <2>2, <2>4, <3>3, <3>4
    <2>7. QED
      BY <2>5, <2>6
  <1>7. QED
    BY <1>5, <1>6

(* What the stages of a route are.                                         *)
LEMMA RouteStages ==
    ASSUME NEW d \in Found, NEW f, NEW gone, NEW r, LeadsTo(r, d, f, gone)
    PROVE  /\ Len(r) \in 1 .. MaxHandlers /\ Len(r) \in Nat
           /\ d.ipath \in Seq(Nat \ {0}) /\ Len(d.ipath) \in Nat /\ Len(d.ipath) <= Len(r)
           /\ \A i \in 1 .. Len(r) : r[i] \in Stage /\ Sound(r[i]) /\ Kid(r[i]).ok
           /\ \A i \in 1 .. Len(r) : i <= Len(d.ipath) => Kid(r[i]).el = d.ipath[i] /\ d.ipath[i] \in Nat \ {0}
           /\ \A i \in 1 .. Len(r) : i > Len(d.ipath) => Kid(r[i]).el = 0
           /\ \A i \in 1 .. Len(r) - 1 : Kid(r[i]).to = r[i + 1].node /\ r[i + 1].node \notin gone
  <1>1. Len(r) \in 1 .. MaxHandlers /\ r \in Seq(Stage) /\ Descends(r, f, gone) /\ Spells(r, d.ipath)
    BY DEF LeadsTo
  <1>2. Len(r) \in Nat /\ \A i \in 1 .. Len(r) : r[i] \in Stage
    BY <1>1, LenProperties, ElementOfSeq
  <1>3. d.ipath \in Seq(Nat \ {0}) /\ Len(d.ipath) \in Nat
    BY LenProperties DEF Found
  <1>4. Len(d.ipath) <= Len(r)
        /\ \A i \in 1 .. Len(r) : Kid(r[i]).el = IF i <= Len(d.ipath) THEN d.ipath[i] ELSE 0
    BY <1>1 DEF Spells
  <1>5. \A i \in 1 .. Len(r) : i <= Len(d.ipath) => d.ipath[i] \in Nat \ {0}
    <2> TAKE i \in 1 .. Len(r)
    <2> HAVE i <= Len(d.ipath)
    <2>1. i \in 1 .. Len(d.ipath)
      BY <1>2, <1>3
    <2>2. QED
      BY <1>3, <2>1, ElementOfSeq
  <1>6. \A i \in 1 .. Len(r) : i > Len(d.ipath) => Kid(r[i]).el = 0
    <2> TAKE i \in 1 .. Len(r)
    <2> HAVE i > Len(d.ipath)
    <2>1. ~ (i <= Len(d.ipath))
      BY <1>2, <1>3
    <2>2. QED
      BY <1>4, <2>1
  <1>7. \A i \in 1 .. Len(r) : Sound(r[i]) /\ Kid(r[i]).ok
    <2> TAKE i \in 1 .. Len(r)
    <2>1. Sound(r[i])
      BY <1>1 DEF Descends
    <2>2. r[i].at \in 1 .. r[i].at
      BY <1>2 DEF Stage
    <2>3. QED
      BY <2>1, <2>2 DEF Sound, Kid
  <1>8. \A i \in 1 .. Len(r) - 1 : Kid(r[i]).to = r[i + 1].node /\ r[i + 1].node \notin gone
    <2> TAKE i \in 1 .. Len(r) - 1
    <2>1. i + 1 \in 2 .. Len(r) /\ (i + 1) - 1 = i
      BY <1>2
    <2>2. QED
      BY <1>1, <2>1 DEF Descends
  <1>9. QED
    BY <1>1, <1>2, <1>3, <1>4, <1>5, <1>6, <1>7, <1>8

(* A handler for a stage, made as internfile() makes it, goes to it.       *)
HandlerFor(r, d, i) ==
    IF i <= Len(d.ipath) THEN Skipped(Frame(r[i].node), d.ipath[i]) ELSE Frame(r[i].node)

LEMMA HandlerFinds ==
    ASSUME Addressed, NEW d \in Found, NEW f, NEW gone, NEW r, LeadsTo(r, d, f, gone),
           NEW i \in 1 .. Len(r)
    PROVE  LET h == HandlerFor(r, d, i)
           IN  /\ i <= Len(d.ipath) => CanSkip(Frame(r[i].node))
               /\ h \in Handler /\ h.node = r[i].node /\ h.have /\ Place(h) = {r[i].at}
  <1> DEFINE h == HandlerFor(r, d, i)
             x == r[i]
  <1>1. x \in Stage /\ Sound(x) /\ i \in Nat /\ Len(d.ipath) \in Nat
    BY RouteStages
  <1>2. /\ i <= Len(d.ipath) => Kid(x).el = d.ipath[i] /\ d.ipath[i] \in Nat \ {0}
        /\ i > Len(d.ipath) => Kid(x).el = 0
    BY RouteStages
  <1>3. x.node \in Node
    BY <1>1 DEF Stage
  <1>4. h \in Handler
    BY <1>2, <1>3, FrameTyped, SkippedTyped DEF HandlerFor
  <1>5. \/ Kid(x).el = 0 /\ h = Frame(x.node)
        \/ Kid(x).el # 0 /\ h = Skipped(Frame(x.node), Kid(x).el)
    BY <1>1, <1>2 DEF HandlerFor
  <1> HIDE DEF h, x
  <1>6. /\ Kid(x).el # 0 => CanSkip(Frame(x.node))
        /\ h.node = x.node /\ h.have /\ Place(h) = {x.at}
    BY <1>1, <1>4, <1>5, StageFound
  <1>7. QED
    BY <1>2, <1>4, <1>6 DEF h, x

(* The elements that the handlers of a route gave are the path.            *)
LEMMA SpelledBack ==
    ASSUME NEW d \in Found, NEW f, NEW gone, NEW r, LeadsTo(r, d, f, gone),
           NEW s \in Seq(Handler), Len(r) <= Len(s),
           \A i \in 1 .. Len(r) : s[i].el = Kid(r[i]).el,
           \A i \in Len(r) + 1 .. Len(s) : s[i].el = 0
    PROVE  [ipath |-> Ipath(s), node |-> d.node] = d
  <1> DEFINE m == Len(d.ipath)
  <1>1. /\ Len(r) \in Nat /\ Len(s) \in Nat
        /\ d.ipath \in Seq(Nat \ {0}) /\ m \in Nat /\ m <= Len(r)
    BY RouteStages, LenProperties
  <1>2. \A i \in 1 .. Len(r) : /\ i <= m => Kid(r[i]).el = d.ipath[i] /\ d.ipath[i] \in Nat \ {0}
                               /\ i > m => Kid(r[i]).el = 0
    BY RouteStages
  <1> HIDE DEF m
  <1>3. \A i \in 1 .. Len(s) : s[i].el # 0 <=> i <= m
    <2> TAKE i \in 1 .. Len(s)
    <2>1. CASE i <= m
      <3>1. i \in 1 .. Len(r)
        BY <1>1, <2>1
      <3>2. QED
        BY <1>2, <2>1, <3>1
    <2>2. CASE ~ (i <= m) /\ i <= Len(r)
      <3>1. i \in 1 .. Len(r) /\ i > m
        BY <1>1, <2>2
      <3>2. QED
        BY <1>2, <2>2, <3>1
    <2>3. CASE ~ (i <= m) /\ ~ (i <= Len(r))
      <3>1. i \in Len(r) + 1 .. Len(s)
        BY <1>1, <2>3
      <3>2. QED
        BY <2>3, <3>1
    <2>4. QED
      BY <2>1, <2>2, <2>3
  <1>4. m \in 0 .. Len(s)
    BY <1>1
  <1>5. Len(Ipath(s)) = m /\ \A i \in 1 .. m : Ipath(s)[i] = s[i].el
    BY <1>3, <1>4, IpathIs
  <1>6. \A i \in 1 .. m : Ipath(s)[i] = d.ipath[i]
    <2> TAKE i \in 1 .. m
    <2>1. i \in 1 .. Len(r) /\ i <= m
      BY <1>1
    <2>2. QED
      BY <1>2, <1>5, <2>1
  <1>7. Ipath(s) \in Seq(Nat \ {0}) /\ Len(Ipath(s)) = Len(d.ipath)
    BY <1>5, IpathTyped DEF m
  <1>8. Ipath(s) = d.ipath
    BY <1>1, <1>5, <1>6, <1>7, SeqEqual
  <1>9. QED
    BY <1>8 DEF Found

(* A preview changes nothing of the index, and says of its answer whether  *)
(* the file and the handlers are those that it was made with.              *)
LEMMA PreviewAlone ==
    ASSUME Typed, mode = "preview", Step
    PROVE  /\ UNCHANGED <<docs, made, file, missing, asked>>
           /\ mode' \in {"idle", "preview"}
           /\ answer' = answer \/ answer'.fresh = Unchanged
  <1>1. Fails("done") \/ Fails("looping") =>
           /\ UNCHANGED <<docs, made, asked>> /\ mode' = "idle"
           /\ answer' = answer \/ answer'.fresh = Unchanged
    BY DEF Fails, Ends, Unchanged
  <1>2. ASSUME NEW s, NEW n, Returns(s, n)
        PROVE  /\ UNCHANGED <<docs, made, asked>> /\ mode' = "idle"
               /\ answer' = answer \/ answer'.fresh = Unchanged
    BY <1>2 DEF Returns, Unchanged
  <1>3. Looping \/ NoDocument =>
           /\ UNCHANGED <<docs, made, asked>> /\ mode' = "idle"
           /\ answer' = answer \/ answer'.fresh = Unchanged
    BY <1>1 DEF Looping, NoDocument, PopOrFail
  <1>4. ASSUME NEW s, NEW n, AddHandler(s, n)
        PROVE  /\ UNCHANGED <<docs, made, asked>> /\ mode' \in {"idle", "preview"}
               /\ answer' = answer \/ answer'.fresh = Unchanged
    <2>1. CASE \E t : Returns(t, n)
      BY <1>2, <2>1
    <2>2. CASE GoOn(s)
      BY <2>2 DEF GoOn
    <2>3. CASE Stacked(s, n)
      BY <1>1, <2>3 DEF Stacked
    <2>4. QED
      BY <1>4, <2>1, <2>2, <2>3 DEF AddHandler
  <1>5. NextDocument =>
           /\ UNCHANGED <<docs, made, asked>> /\ mode' \in {"idle", "preview"}
           /\ answer' = answer \/ answer'.fresh = Unchanged
    BY <1>4, NextDocumentIs
  <1>6. file' = file /\ missing' = missing
    BY DEF Step, Looping, NoDocument, NextDocument, Turn, source
  <1>7. QED
    BY <1>3, <1>5, <1>6 DEF Step

LEMMA PreviewStep ==
    ASSUME Addressed, MaxHandlers <= MaxLoops + 1,
           Typed, mode = "preview", Unchanged, Step,
           NEW r, LeadsTo(r, asked, file, missing), Follows(r)
    PROVE  \/ mode' = "preview" /\ answer' = answer /\ Follows(r)'
           \/ mode' = "idle" /\ answer'.got = answer'.to
  <1> DEFINE L == Len(stack)
             x == r[L]
  <1>1. /\ L \in 1 .. MaxHandlers /\ DOMAIN stack = 1 .. L
        /\ \A j \in 1 .. L : stack[j] \in Handler
        /\ Top = stack[L] /\ Top \in Handler /\ MaxHandlers \in Nat \ {0}
    BY TopTyped
  <1>2. /\ asked \in Found /\ vipath = asked.ipath
        /\ loop = L - 1 /\ L <= Len(r)
        /\ \A i \in 1 .. L : stack[i].node = r[i].node
        /\ \A i \in 1 .. L - 1 : stack[i].el = Kid(r[i]).el
        /\ Top.have /\ Place(Top) = {x.at}
    BY DEF Follows
  <1>3. Len(r) \in Nat /\ Len(r) <= MaxHandlers
    BY <1>1, <1>2, RouteStages
  <1> HIDE DEF L
  <1>4. x \in Stage /\ Sound(x) /\ Kid(x).ok /\ Top.node = x.node
    <2>1. L \in 1 .. Len(r) /\ L \in 1 .. L
      BY <1>1, <1>2, <1>3
    <2>2. QED
      BY <1>1, <1>2, <2>1, RouteStages
  <1>5. ~ Looping
    BY <1>1, <1>2, <1>3, InternerAssumption DEF Looping
  <1>6. ~ NoDocument
    BY <1>2, <1>4 DEF NoDocument, Kid
  <1>7. NextDocument
    BY <1>5, <1>6 DEF Step
  <1>8. PICK i \in Place(Top), more \in BOOLEAN :
              /\ Turn /\ Top.have /\ more \in HaveAfter(Top, i)
              /\ Kids[Top.node][i].ok
              /\ AddHandler(Advanced(i, more), Kids[Top.node][i].to)
    BY <1>7, NextDocumentIs
  <1> DEFINE s == Advanced(i, more)
             n == Kid(x).to
  <1>9. i = x.at /\ Kids[Top.node][i] = Kid(x) /\ AddHandler(s, n)
    BY <1>2, <1>4, <1>8 DEF Kid
  <1>10. n \in Node
    BY <1>1, <1>9, PlaceTyped DEF Member
  <1>11. /\ s \in Seq(Handler) /\ Len(s) = L
         /\ \A j \in 1 .. L : s[j].node = r[j].node
         /\ \A j \in 1 .. L : s[j].el = Kid(r[j]).el
    <2>1. /\ s \in Seq(Handler) /\ Len(s) = L
          /\ \A j \in 1 .. L : s[j].node = stack[j].node
          /\ \A j \in 1 .. L : j # L => s[j] = stack[j]
          /\ s[L].el = Kids[stack[L].node][i].el
      BY AdvancedIs DEF L
    <2>2. s[L].el = Kid(r[L]).el
      BY <1>1, <1>9, <2>1
    <2>3. \A j \in 1 .. L : s[j].el = Kid(r[j]).el
      <3> TAKE j \in 1 .. L
      <3>1. j = L \/ (j \in 1 .. L - 1 /\ s[j] = stack[j])
        BY <1>1, <2>1
      <3>2. QED
        BY <1>2, <2>2, <3>1
    <2>4. QED
      BY <1>2, <2>1, <2>3
  <1> HIDE DEF s, x
  <1>12. CASE L = Len(r)
    <2>1. n = asked.node /\ (Kind[n] = "text" \/ (n \notin Good /\ n \notin missing /\ L < MaxHandlers))
      BY <1>12 DEF LeadsTo, Final, x
    <2>2. ASSUME NEW t \in Seq(Handler), L <= Len(t), \A j \in 1 .. L : t[j].el = Kid(r[j]).el,
                 \A j \in L + 1 .. Len(t) : t[j].el = 0, Returns(t, n)
          PROVE  mode' = "idle" /\ answer'.got = answer'.to
      <3>1. [ipath |-> Ipath(t), node |-> asked.node] = asked
        BY <1>2, <1>12, <2>2, SpelledBack
      <3>2. /\ mode' = "idle"
            /\ answer' = [to |-> asked, got |-> [ipath |-> Ipath(t), node |-> n],
                          fresh |-> made.file = file /\ made.missing = missing]
        BY <2>2 DEF Returns
      <3>3. QED
        BY <2>1, <3>1, <3>2
    <2>3. CASE Kind[n] = "text"
      <3>1. Returns(s, n)
        BY <1>9, <2>3 DEF AddHandler
      <3>2. L <= Len(s) /\ \A j \in L + 1 .. Len(s) : s[j].el = 0
        BY <1>1, <1>11
      <3>3. QED
        BY <1>11, <2>2, <3>1, <3>2
    <2>4. CASE Kind[n] # "text"
      <3> DEFINE t == Append(s, Frame(n))
      <3>1. Len(s) < MaxHandlers /\ HasHandler(n) /\ n \notin Good
        BY <1>11, <2>1, <2>4 DEF HasHandler
      <3>2. Returns(t, n)
        BY <1>1, <1>9, <1>11, <2>4, <3>1 DEF AddHandler
      <3>3. /\ t \in Seq(Handler) /\ Len(t) = L + 1
            /\ \A j \in 1 .. L : t[j] = s[j]
            /\ t[L + 1] = Frame(n)
        BY <1>10, <1>11, FrameTyped, AppendProperties
      <3> HIDE DEF t
      <3>4. Frame(n).el = 0
        BY <1>10, FrameTyped
      <3>5. L <= Len(t) /\ \A j \in L + 1 .. Len(t) : t[j].el = 0
        BY <1>1, <3>3, <3>4
      <3>6. \A j \in 1 .. L : t[j].el = Kid(r[j]).el
        BY <1>11, <3>3
      <3>7. QED
        BY <2>2, <3>2, <3>3, <3>5, <3>6
    <2>5. QED
      BY <2>3, <2>4
  <1>13. CASE L # Len(r)
    <2> DEFINE y == r[L + 1]
               h == HandlerFor(r, asked, L + 1)
    <2>1. L \in 1 .. Len(r) - 1 /\ L + 1 \in 1 .. Len(r) /\ L < MaxHandlers
      BY <1>1, <1>2, <1>3, <1>13
    <2>2. n = y.node /\ n \notin missing /\ Sound(y)
      BY <1>2, <2>1, RouteStages DEF x
    <2>3. n \in Good /\ Kind[n] # "text" /\ HasHandler(n)
      BY <2>2 DEF Sound, HasHandler
    <2>4. Stacked(s, n)
      BY <1>1, <1>9, <1>11, <2>1, <2>3 DEF AddHandler
    <2>5. /\ L + 1 <= Len(asked.ipath) => CanSkip(Frame(n))
          /\ h \in Handler /\ h.node = n /\ h.have /\ Place(h) = {y.at}
      BY <1>2, <2>1, <2>2, HandlerFinds
    <2>6. h = IF L + 1 <= Len(vipath) THEN Skipped(Frame(n), vipath[L + 1]) ELSE Frame(n)
      BY <1>2, <2>2 DEF HandlerFor
    <2> HIDE DEF h
    <2>7. /\ stack' = Append(s, h) /\ loop' = loop + 1
          /\ UNCHANGED <<mode, vipath, asked, answer>>
      BY <1>2, <1>11, <2>4, <2>5, <2>6 DEF Stacked
    <2>8. /\ stack' \in Seq(Handler) /\ Len(stack') = L + 1
          /\ \A j \in 1 .. L : stack'[j] = s[j]
          /\ stack'[L + 1] = h
      BY <1>11, <2>5, <2>7, AppendProperties
    <2>9. Top' = h
      BY <2>8 DEF Top, Last
    <2>10. \A j \in 1 .. L + 1 : stack'[j].node = r[j].node
      <3> TAKE j \in 1 .. L + 1
      <3>1. j = L + 1 \/ j \in 1 .. L
        BY <1>1
      <3>2. QED
        BY <1>11, <2>2, <2>5, <2>8, <3>1
    <2>11. \A j \in 1 .. L : stack'[j].el = Kid(r[j]).el
      BY <1>11, <2>8
    <2>12. loop' = Len(stack') - 1 /\ Len(stack') <= Len(r) /\ Len(stack') - 1 = L
      BY <1>1, <1>2, <2>1, <2>7, <2>8
    <2>13. Top'.have /\ Place(Top') = {r[Len(stack')].at}
      BY <2>5, <2>8, <2>9
    <2>14. Follows(r)'
      BY <1>2, <2>7, <2>8, <2>10, <2>11, <2>12, <2>13 DEF Follows, Place
    <2>15. QED
      BY <2>7, <2>14
  <1>14. QED
    BY <1>12, <1>13

LEMMA PreviewStarts ==
    ASSUME Addressed, Retraced, NEW d \in Range(docs), StartPreview(d)
    PROVE  Retraced'
  <1>1. /\ mode = "idle" /\ vipath' = d.ipath /\ asked' = d
        /\ UNCHANGED <<docs, made, tmpflgs, temps, loop>> /\ file' = file /\ missing' = missing
    BY DEF StartPreview, source
  <1>2. Typed /\ Typed' /\ d \in Found
    BY StartPreviewTyped DEF Retraced
  <1>3. CASE ~ Unchanged
    <2>1. ~ Unchanged'
      BY <1>1, <1>3 DEF Unchanged
    <2>2. mode' # "index" /\ (answer' = answer \/ answer'.fresh = FALSE)
      <3>1. mode' = mode \/ mode' = "preview"
        BY DEF StartPreview
      <3>2. answer' = answer \/ answer' = [to |-> d, got |-> Nothing, fresh |-> Unchanged]
        BY DEF StartPreview, Unchanged
      <3>3. QED
        BY <1>1, <1>3, <3>1, <3>2
    <2>3. AllReached'
      BY <1>1, <2>2 DEF AllReached, Retraced
    <2>4. OnTheWay'
      BY <2>1 DEF OnTheWay
    <2>5. PreviewIsExact'
      BY <2>2 DEF PreviewIsExact, Retraced
    <2>6. QED
      BY <1>2, <2>2, <2>3, <2>4, <2>5 DEF Retraced
  <1>4. CASE Unchanged
    <2>1. Reaches(d, file, missing)
      <3>1. PICK i \in DOMAIN docs : d = docs[i]
        BY DEF Range
      <3>2. Reaches(docs[i], made.file, made.missing)
        BY <1>1, <3>1 DEF AllReached, Retraced
      <3>3. QED
        BY <1>4, <3>1, <3>2 DEF Unchanged
    <2>2. PICK r \in Seq(Stage) : LeadsTo(r, d, file, missing)
      BY <2>1 DEF Reaches
    <2> DEFINE h == HandlerFor(r, d, 1)
    <2>3. 1 \in 1 .. Len(r) /\ Len(r) \in Nat \ {0} /\ r[1].node = file
      <3>1. Len(r) \in 1 .. MaxHandlers /\ r[1].node = file
        BY <2>2 DEF LeadsTo, Descends
      <3>2. QED
        BY <3>1, InternerAssumption
    <2>4. /\ 1 <= Len(d.ipath) => CanSkip(Frame(file))
          /\ h \in Handler /\ h.node = file /\ h.have /\ Place(h) = {r[1].at}
      BY <1>2, <2>2, <2>3, HandlerFinds
    <2>5. d.ipath \in Seq(Nat \ {0}) /\ (d.ipath = <<>> <=> ~ (1 <= Len(d.ipath)))
      <3>1. d.ipath \in Seq(Nat \ {0})
        BY <1>2 DEF Found
      <3>2. d.ipath # <<>> => Len(d.ipath) \in Nat \ {0}
        BY <3>1, EmptySeq
      <3>3. d.ipath = <<>> => Len(d.ipath) = 0
        BY EmptySeq
      <3>4. QED
        BY <3>1, <3>2, <3>3
    <2>6. h = IF d.ipath = <<>> THEN Frame(file) ELSE Skipped(Frame(file), d.ipath[1])
      BY <2>3, <2>5 DEF HandlerFor
    <2> HIDE DEF h
    <2>7. mode' = "preview" /\ stack' = <<h>> /\ answer' = answer
      BY <2>4, <2>5, <2>6 DEF StartPreview
    <2>8. Len(stack') = 1 /\ stack'[1] = h /\ Top' = h
      BY <2>7 DEF Top, Last
    <2>9. loop' = 0
      BY <1>1, <1>2 DEF Typed
    <2>10. Top'.have /\ Place(Top') = {r[Len(stack')].at}
      BY <2>4, <2>8
    <2>11. \A i \in 1 .. Len(stack') : stack'[i].node = r[i].node
      BY <2>3, <2>4, <2>8
    <2>12. \A i \in 1 .. Len(stack') - 1 : stack'[i].el = Kid(r[i]).el
      BY <2>8
    <2>13. Follows(r)'
      BY <1>1, <1>2, <2>3, <2>8, <2>9, <2>10, <2>11, <2>12 DEF Follows, Place
    <2>14. OnTheWay'
      BY <1>1, <2>2, <2>13 DEF OnTheWay
    <2>15. AllReached'
      BY <1>1, <2>7 DEF AllReached, Retraced
    <2>16. PreviewIsExact'
      BY <2>7 DEF PreviewIsExact, Retraced
    <2>17. QED
      BY <1>2, <2>7, <2>14, <2>15, <2>16 DEF Retraced
  <1>5. QED
    BY <1>3, <1>4

LEMMA RetracedInit ==
    ASSUME Init
    PROVE  Retraced
  <1>1. docs = <<>> /\ mode = "idle" /\ answer = NoAnswer
    BY DEF Init
  <1>2. AllReached
    BY <1>1 DEF AllReached
  <1>3. OnTheWay /\ PreviewIsExact
    BY <1>1 DEF OnTheWay, PreviewIsExact, NoAnswer
  <1>4. QED
    BY <1>1, <1>2, <1>3, InitTyped DEF Retraced

LEMMA RetracedStep ==
    ASSUME Addressed, MaxHandlers <= MaxLoops + 1, Retraced, [Next]_vars
    PROVE  Retraced'
  <1>0. Typed /\ Typed'
    BY TypedStep DEF Retraced
  <1>1. CASE Change
    <2>1. mode = "idle" /\ UNCHANGED <<docs, made, mode, answer>>
      BY <1>1 DEF Change
    <2>2. AllReached'
      BY <2>1 DEF AllReached, Retraced
    <2>3. OnTheWay' /\ PreviewIsExact'
      BY <2>1 DEF OnTheWay, PreviewIsExact, Retraced
    <2>4. QED
      BY <1>0, <2>1, <2>2, <2>3 DEF Retraced
  <1>2. CASE StartIndex
    <2>1. /\ mode' = "index" /\ docs' = <<>> /\ stack' = <<Frame(file)>>
          /\ answer' = answer /\ file' = file /\ missing' = missing
      BY <1>2 DEF StartIndex, source
    <2>2. file \in Node /\ file \in Good /\ Kind[file] # "text"
      BY <1>0, InternerAssumption DEF Typed
    <2>3. Frame(file).node = file /\ Frame(file).want = 0 /\ Frame(file).at - 1 = 0 /\ 1 .. 0 = {}
      BY <2>2, FrameTyped
    <2>4. Passed(Frame(file))
      BY <2>2, <2>3 DEF Passed
    <2>5. Climbs(stack)'
      BY <2>1, <2>3, <2>4 DEF Climbs
    <2>6. AllReached'
      BY <2>1 DEF AllReached
    <2>7. OnTheWay' /\ PreviewIsExact'
      BY <2>1 DEF OnTheWay, PreviewIsExact, Retraced
    <2>8. QED
      BY <1>0, <2>5, <2>6, <2>7 DEF Retraced
  <1>3. CASE \E d \in Range(docs) : StartPreview(d)
    BY <1>3, PreviewStarts
  <1>4. CASE Step /\ mode = "index"
    <2>1. Indexing' /\ answer' = answer /\ mode' # "preview"
      BY <1>0, <1>4, IndexStep DEF Indexing, Retraced
    <2>2. OnTheWay' /\ PreviewIsExact'
      BY <2>1 DEF OnTheWay, PreviewIsExact, Retraced
    <2>3. QED
      BY <1>0, <2>1, <2>2 DEF Retraced, Indexing
  <1>5. CASE Step /\ mode = "preview"
    <2>1. /\ UNCHANGED <<docs, made, file, missing, asked>>
          /\ mode' \in {"idle", "preview"}
          /\ answer' = answer \/ answer'.fresh = Unchanged
      BY <1>0, <1>5, PreviewAlone
    <2>2. AllReached'
      BY <1>5, <2>1 DEF AllReached, Retraced
    <2>3. CASE ~ Unchanged
      <3>1. OnTheWay'
        BY <2>1, <2>3 DEF OnTheWay, Unchanged
      <3>2. PreviewIsExact'
        BY <2>1, <2>3 DEF PreviewIsExact, Retraced
      <3>3. QED
        BY <1>0, <2>1, <2>2, <3>1, <3>2 DEF Retraced
    <2>4. CASE Unchanged
      <3>1. PICK r \in Seq(Stage) : LeadsTo(r, asked, file, missing) /\ Follows(r)
        BY <1>5, <2>4 DEF OnTheWay, Retraced
      <3>2. \/ mode' = "preview" /\ answer' = answer /\ Follows(r)'
            \/ mode' = "idle" /\ answer'.got = answer'.to
        BY <1>0, <1>5, <2>4, <3>1, PreviewStep
      <3>3. LeadsTo(r, asked, file, missing)'
        BY <2>1, <3>1
      <3>4. OnTheWay' /\ PreviewIsExact'
        BY <3>2, <3>3 DEF OnTheWay, PreviewIsExact, Retraced
      <3>5. QED
        BY <1>0, <2>1, <2>2, <3>4 DEF Retraced
    <2>5. QED
      BY <2>3, <2>4
  <1>6. CASE UNCHANGED vars
    <2>1. /\ UNCHANGED <<file, missing, changes, docs, made, mode, stack, vipath, loop, asked, answer>>
      BY <1>6 DEF vars
    <2>2. AllReached' /\ (mode' = "index" => Climbs(stack)') /\ PreviewIsExact'
      BY <2>1 DEF AllReached, Climbs, PreviewIsExact, Retraced
    <2>3. OnTheWay'
      BY <2>1 DEF OnTheWay, Unchanged, Follows, Top, Place, Retraced
    <2>4. QED
      BY <1>0, <2>2, <2>3 DEF Retraced
  <1>7. Step => mode = "index" \/ mode = "preview"
    BY <1>0 DEF Step, Looping, NoDocument, NextDocument, Turn, Typed
  <1>8. QED
    BY <1>1, <1>2, <1>3, <1>4, <1>5, <1>6, <1>7 DEF Next

(* The path that a document was indexed under leads a preview back to it,  *)
(* through handlers that skip in three ways, if the members of each file   *)
(* have elements of their own and the loop may turn as often as the stack  *)
(* is high, which with 1000 and 20 it may.                                 *)
THEOREM PreviewLeadsBack ==
    ASSUME Addressed, MaxHandlers <= MaxLoops + 1
    PROVE  Spec => []PreviewIsExact
  <1>1. Init => Retraced
    BY RetracedInit
  <1>2. Retraced /\ [Next]_vars => Retraced'
    BY RetracedStep
  <1>3. Retraced => PreviewIsExact
    BY DEF Retraced
  <1>4. QED
    BY <1>1, <1>2, <1>3, PTL DEF Spec

-----------------------------------------------------------------------------
(* What a file holds.                                                      *)

Elem(el) == IF el = 0 THEN <<>> ELSE <<el>>
Prefixed(p, X) == {[x EXCEPT !.ipath = p \o @] : x \in X}

(* The documents under one that is found by a handler with room for d, g   *)
(* those of each file with less room.                                      *)
Under(g, d, n, gone) ==
    IF Kind[n] = "text" THEN {[ipath |-> <<>>, node |-> n]}
    ELSE IF d = 1 \/ n \in gone \cup Unwanted THEN {}
    ELSE IF n \notin Good THEN {[ipath |-> <<>>, node |-> n]}
    ELSE g[d - 1][n]

(* The members up to the first failure, as Inside(FALSE) says it.          *)
Passable(n) == {j \in DOMAIN Kids[n] : Kids[n][j].ok /\ (FALSE \/ \A k \in 1 .. j : Kids[n][k].ok)}
Piece(g, d, n, i, gone) == Prefixed(Elem(Kids[n][i].el), Under(g, d, Kids[n][i].to, gone))
Layer(g, d, gone) ==
    [n \in Node |-> IF d = 0 THEN {} ELSE UNION {Piece(g, d, n, i, gone) : i \in Passable(n)}]

Held(gone) == LET inside[d \in 0 .. MaxHandlers] == Layer(inside, d, gone) IN inside

LEMMA InsideIsHeld == Inside(FALSE) = Held(missing)[MaxHandlers][file]
  BY DEF Inside, Held, Layer, Piece, Passable, Under, Prefixed, Elem

LEMMA UnderOf ==
    ASSUME NEW g, NEW h, NEW d, NEW n, NEW gone, d # 1 => g[d - 1] = h[d - 1]
    PROVE  Under(g, d, n, gone) = Under(h, d, n, gone)
  BY DEF Under

LEMMA LayerOf ==
    ASSUME NEW g, NEW h, NEW d \in Nat, NEW gone, d > 1 => g[d - 1] = h[d - 1]
    PROVE  Layer(g, d, gone) = Layer(h, d, gone)
  <1>1. CASE d = 0
    BY <1>1 DEF Layer
  <1>2. CASE d # 0
    <2>1. \A n, i : Piece(g, d, n, i, gone) = Piece(h, d, n, i, gone)
      BY <1>2, UnderOf DEF Piece
    <2>2. QED
      BY <1>2, <2>1 DEF Layer
  <1>3. QED
    BY <1>1, <1>2

(* The function that Inside calls itself by exists, layer by layer.        *)
LEMMA HeldIs ==
    ASSUME NEW gone
    PROVE  Held(gone) = [d \in 0 .. MaxHandlers |-> Layer(Held(gone), d, gone)]
  <1> DEFINE Is(k) == \E g : g = [d \in 0 .. k |-> Layer(g, d, gone)]
             T == {k \in Nat : ~ Is(k)}
  <1>0. MaxHandlers \in Nat
    BY InternerAssumption
  <1>1. \A k \in Nat : Is(k)
    <2> SUFFICES ASSUME T # {} PROVE FALSE
      OBVIOUS
    <2>1. PICK k \in T : \A j \in T : k <= j
      BY Least
    <2>2. k \in Nat /\ ~ Is(k)
      BY <2>1
    <2>3. CASE k = 0
      <3> DEFINE g == [d \in 0 .. 0 |-> Layer(<<>>, d, gone)]
      <3>1. \A d \in 0 .. 0 : Layer(g, d, gone) = Layer(<<>>, d, gone)
        <4> TAKE d \in 0 .. 0
        <4> DEFINE e == <<>>
        <4> HIDE DEF g, e
        <4>1. d \in Nat /\ (d > 1 => g[d - 1] = e[d - 1])
          OBVIOUS
        <4>2. Layer(g, d, gone) = Layer(e, d, gone)
          BY <4>1, LayerOf
        <4>3. QED
          BY <4>2 DEF e
      <3>2. g = [d \in 0 .. 0 |-> Layer(g, d, gone)]
        <4> DEFINE a(d) == Layer(<<>>, d, gone)
                   b(d) == Layer(g, d, gone)
        <4>1. \A d \in 0 .. 0 : a(d) = b(d)
          BY <3>1
        <4> HIDE DEF a, b
        <4>2. [d \in 0 .. 0 |-> a(d)] = [d \in 0 .. 0 |-> b(d)]
          BY <4>1
        <4>3. QED
          BY <4>2 DEF a, b
      <3> HIDE DEF g
      <3>3. Is(0)
        BY <3>2
      <3>4. QED
        BY <2>2, <2>3, <3>3
    <2>4. CASE k # 0
      <3>1. k - 1 \in Nat /\ k - 1 \notin T
        BY <2>1, <2>2, <2>4
      <3>2. Is(k - 1)
        BY <3>1
      <3>3. PICK g : g = [d \in 0 .. k - 1 |-> Layer(g, d, gone)]
        BY <3>2
      <3> DEFINE h == [d \in 0 .. k |-> Layer(g, d, gone)]
      <3>4. \A d \in 0 .. k - 1 : h[d] = g[d]
        <4> TAKE d \in 0 .. k - 1
        <4>1. d \in 0 .. k
          BY <2>2
        <4>2. g[d] = Layer(g, d, gone)
          BY <3>3
        <4>3. QED
          BY <4>1, <4>2
      <3> HIDE DEF h
      <3>5. \A d \in 0 .. k : Layer(h, d, gone) = Layer(g, d, gone)
        <4> TAKE d \in 0 .. k
        <4>1. d \in Nat /\ (d > 1 => d - 1 \in 0 .. k - 1)
          BY <2>2
        <4>2. QED
          BY <3>4, <4>1, LayerOf
      <3>6. h = [d \in 0 .. k |-> Layer(h, d, gone)]
        <4> DEFINE a(d) == Layer(g, d, gone)
                   b(d) == Layer(h, d, gone)
        <4>1. \A d \in 0 .. k : a(d) = b(d)
          BY <3>5
        <4> HIDE DEF a, b
        <4>2. [d \in 0 .. k |-> a(d)] = [d \in 0 .. k |-> b(d)]
          BY <4>1
        <4>3. QED
          BY <4>2 DEF a, b, h
      <3>7. Is(k)
        BY <3>6
      <3>8. QED
        BY <2>2, <3>7
    <2>5. QED
      BY <2>3, <2>4
  <1>2. Is(MaxHandlers)
    BY <1>0, <1>1
  <1>3. Held(gone) = CHOOSE g : g = [d \in 0 .. MaxHandlers |-> Layer(g, d, gone)]
    BY DEF Held
  <1>4. QED
    BY <1>2, <1>3

(* The documents of n with room for d, those after its first p - 1 members *)
(* and the ones of its member i.                                           *)
All(gone, d, n) == Held(gone)[d][n]
One(gone, d, n, i) == Piece(Held(gone), d, n, i, gone)
From(gone, d, n, p) == UNION {One(gone, d, n, i) : i \in {j \in Passable(n) : p <= j}}

LEMMA AllFrom ==
    ASSUME NEW gone, NEW n \in Node
    PROVE  /\ All(gone, 0, n) = {}
           /\ \A d \in 1 .. MaxHandlers : All(gone, d, n) = From(gone, d, n, 1)
  <1>0. MaxHandlers \in Nat
    BY InternerAssumption
  <1>1. \A d \in 0 .. MaxHandlers : Held(gone)[d] = Layer(Held(gone), d, gone)
    BY HeldIs
  <1>2. All(gone, 0, n) = {}
    <2>1. Held(gone)[0] = Layer(Held(gone), 0, gone)
      BY <1>0, <1>1
    <2>2. Layer(Held(gone), 0, gone) = [m \in Node |-> {}]
      BY DEF Layer
    <2>3. QED
      BY <2>1, <2>2 DEF All
  <1>3. ASSUME NEW d \in 1 .. MaxHandlers PROVE All(gone, d, n) = From(gone, d, n, 1)
    <2>1. d \in 0 .. MaxHandlers /\ d # 0
      BY <1>0
    <2>2. All(gone, d, n) = UNION {One(gone, d, n, i) : i \in Passable(n)}
      BY <1>1, <2>1 DEF All, Layer, One
    <2>3. {j \in Passable(n) : 1 <= j} = Passable(n)
      BY NodeTyped DEF Passable
    <2>4. QED
      BY <2>2, <2>3 DEF From
  <1>4. QED
    BY <1>2, <1>3

Path == Seq(Nat \ {0})

LEMMA ElemTyped ==
    ASSUME NEW el \in Nat
    PROVE  Elem(el) \in Path /\ (el = 0 => Elem(el) = <<>>)
           /\ (el # 0 => Len(Elem(el)) = 1 /\ Elem(el)[1] = el)
  <1>1. CASE el = 0
    BY <1>1, EmptySeq DEF Elem, Path
  <1>2. CASE el # 0
    <2>1. el \in Nat \ {0}
      BY <1>2
    <2>2. <<el>> \in Path /\ Len(<<el>>) = 1 /\ <<el>>[1] = el
      BY <2>1 DEF Path
    <2>3. QED
      BY <1>2, <2>2 DEF Elem
  <1>3. QED
    BY <1>1, <1>2

LEMMA PrefixedIs ==
    ASSUME NEW p \in Path, NEW X \in SUBSET Found
    PROVE  /\ Prefixed(p, X) \in SUBSET Found
           /\ \A y \in Prefixed(p, X) : \E x \in X : y.ipath = p \o x.ipath /\ y.node = x.node
           /\ \A x \in X : [ipath |-> p \o x.ipath, node |-> x.node] \in Prefixed(p, X)
           /\ Prefixed(p, X) = {[ipath |-> p \o x.ipath, node |-> x.node] : x \in X}
  <1>1. \A x \in X : x = [ipath |-> x.ipath, node |-> x.node] /\ x.ipath \in Path /\ x.node \in Node
    BY DEF Found, Path
  <1>2. \A x \in X : [x EXCEPT !.ipath = p \o @] = [ipath |-> p \o x.ipath, node |-> x.node]
    <2> TAKE x \in X
    <2> DEFINE new == p \o x.ipath
    <2>1. x = [ipath |-> x.ipath, node |-> x.node]
      BY <1>1
    <2> HIDE DEF new
    <2>2. [x EXCEPT !.ipath = new] = [ipath |-> new, node |-> x.node]
      BY <2>1
    <2>3. QED
      BY <2>2 DEF new
  <1>3. Prefixed(p, X) = {[ipath |-> p \o x.ipath, node |-> x.node] : x \in X}
    <2> DEFINE a(x) == [x EXCEPT !.ipath = p \o @]
               b(x) == [ipath |-> p \o x.ipath, node |-> x.node]
    <2>1. \A x \in X : a(x) = b(x)
      BY <1>2
    <2>2. Prefixed(p, X) = {a(x) : x \in X}
      BY DEF Prefixed
    <2> HIDE DEF a, b
    <2>3. {a(x) : x \in X} = {b(x) : x \in X}
      BY <2>1
    <2>4. QED
      BY <2>2, <2>3 DEF b
  <1>4. \A x \in X : p \o x.ipath \in Seq(Nat \ {0})
    BY <1>1, ConcatProperties DEF Path
  <1>5. \A x \in X : [ipath |-> p \o x.ipath, node |-> x.node] \in Found
    BY <1>1, <1>4 DEF Found
  <1>6. Prefixed(p, X) \in SUBSET Found
    BY <1>3, <1>5
  <1>7. \A y \in Prefixed(p, X) : \E x \in X : y.ipath = p \o x.ipath /\ y.node = x.node
    BY <1>3
  <1>8. QED
    BY <1>3, <1>6, <1>7

LEMMA PrefixedTwice ==
    ASSUME NEW p \in Path, NEW q \in Path, NEW X \in SUBSET Found
    PROVE  p \o q \in Path /\ Prefixed(p, Prefixed(q, X)) = Prefixed(p \o q, X)
  <1>1. p \o q \in Path
    BY ConcatProperties DEF Path
  <1>2. /\ Prefixed(q, X) \in SUBSET Found
        /\ Prefixed(q, X) = {[ipath |-> q \o x.ipath, node |-> x.node] : x \in X}
    BY PrefixedIs
  <1>3. Prefixed(p \o q, X) = {[ipath |-> (p \o q) \o x.ipath, node |-> x.node] : x \in X}
    BY <1>1, PrefixedIs
  <1>4. Prefixed(p, Prefixed(q, X)) = {[ipath |-> p \o y.ipath, node |-> y.node] : y \in Prefixed(q, X)}
    BY <1>2, PrefixedIs
  <1>5. \A x \in X : (p \o q) \o x.ipath = p \o (q \o x.ipath)
    <2> TAKE x \in X
    <2>1. x.ipath \in Path
      BY DEF Found, Path
    <2> DEFINE S == Nat \ {0}
               r == x.ipath
    <2>2. p \in Seq(S) /\ q \in Seq(S) /\ r \in Seq(S)
      BY <2>1 DEF Path
    <2> HIDE DEF S, r
    <2>3. (p \o q) \o r = p \o (q \o r)
      BY <2>2, ConcatAssociative
    <2>4. QED
      BY <2>3 DEF r
  <1>6. {[ipath |-> p \o y.ipath, node |-> y.node] : y \in Prefixed(q, X)}
        = {[ipath |-> p \o (q \o x.ipath), node |-> x.node] : x \in X}
    <2> DEFINE a(x) == q \o x.ipath
               b(r) == p \o r
               Y == Prefixed(q, X)
    <2>1. Y = {[ipath |-> a(x), node |-> x.node] : x \in X}
      BY <1>2
    <2> DEFINE e(x) == [ipath |-> a(x), node |-> x.node]
               f(y) == [ipath |-> b(y.ipath), node |-> y.node]
               g(x) == [ipath |-> b(a(x)), node |-> x.node]
    <2> HIDE DEF a, b, Y
    <2>2. \A x : f(e(x)) = g(x)
      OBVIOUS
    <2>3. Y = {e(x) : x \in X}
      BY <2>1
    <2> HIDE DEF e, f, g
    <2>4. {f(y) : y \in Y} = {g(x) : x \in X}
      BY <2>2, <2>3
    <2>5. QED
      BY <2>4 DEF a, b, f, g, Y
  <1>7. {[ipath |-> p \o (q \o x.ipath), node |-> x.node] : x \in X}
        = {[ipath |-> (p \o q) \o x.ipath, node |-> x.node] : x \in X}
    <2> DEFINE a(x) == p \o (q \o x.ipath)
               b(x) == (p \o q) \o x.ipath
    <2>1. \A x \in X : a(x) = b(x)
      BY <1>5
    <2> HIDE DEF a, b
    <2>2. {[ipath |-> a(x), node |-> x.node] : x \in X} = {[ipath |-> b(x), node |-> x.node] : x \in X}
      BY <2>1
    <2>3. QED
      BY <2>2 DEF a, b
  <1>8. QED
    BY <1>1, <1>3, <1>4, <1>6, <1>7

LEMMA PrefixedEmpty ==
    ASSUME NEW p \in Path, NEW n \in Node
    PROVE  /\ Prefixed(p, {}) = {}
           /\ Prefixed(p, {[ipath |-> <<>>, node |-> n]}) = {[ipath |-> p, node |-> n]}
           /\ {[ipath |-> <<>>, node |-> n]} \in SUBSET Found
  <1> DEFINE d == [ipath |-> <<>>, node |-> n]
  <1>1. d \in Found
    BY EmptySeq DEF Found
  <1>2. {d} \in SUBSET Found
    BY <1>1
  <1>3. Prefixed(p, {d}) = {[ipath |-> p \o x.ipath, node |-> x.node] : x \in {d}}
    BY <1>2, PrefixedIs
  <1>4. p \o d.ipath = p
    BY ConcatEmptySeq DEF Path
  <1>5. Prefixed(p, {d}) = {[ipath |-> p, node |-> n]}
    BY <1>3, <1>4
  <1>6. Prefixed(p, {}) = {}
    BY DEF Prefixed
  <1>7. QED
    BY <1>2, <1>5, <1>6

LEMMA PrefixedNone ==
    ASSUME NEW X \in SUBSET Found
    PROVE  Prefixed(<<>>, X) = X
  <1>1. <<>> \in Path
    BY EmptySeq DEF Path
  <1>2. Prefixed(<<>>, X) = {[ipath |-> <<>> \o x.ipath, node |-> x.node] : x \in X}
    BY <1>1, PrefixedIs
  <1>3. \A x \in X : [ipath |-> <<>> \o x.ipath, node |-> x.node] = x
    <2> TAKE x \in X
    <2>1. x.ipath \in Path /\ x = [ipath |-> x.ipath, node |-> x.node]
      BY DEF Found, Path
    <2>2. <<>> \o x.ipath = x.ipath
      BY <2>1, ConcatEmptySeq DEF Path
    <2>3. QED
      BY <2>1, <2>2
  <1>4. QED
    BY <1>2, <1>3

LEMMA SameRest ==
    ASSUME NEW p \in Path, NEW a \in Path, NEW b \in Path, p \o a = p \o b
    PROVE  a = b
  <1> DEFINE S == Nat \ {0}
  <1>1. p \in Seq(S) /\ a \in Seq(S) /\ b \in Seq(S)
    BY DEF Path
  <1> HIDE DEF S
  <1>2. Len(p) \in Nat /\ Len(a) \in Nat /\ Len(b) \in Nat
    BY <1>1, LenProperties
  <1>3. /\ Len(p \o a) = Len(p) + Len(a)
        /\ \A i \in 1 .. Len(p) + Len(a) : (p \o a)[i] = IF i <= Len(p) THEN p[i] ELSE a[i - Len(p)]
    BY <1>1, ConcatProperties
  <1>4. /\ Len(p \o b) = Len(p) + Len(b)
        /\ \A i \in 1 .. Len(p) + Len(b) : (p \o b)[i] = IF i <= Len(p) THEN p[i] ELSE b[i - Len(p)]
    BY <1>1, ConcatProperties
  <1>5. Len(a) = Len(b)
    BY <1>2, <1>3, <1>4
  <1>6. \A i \in 1 .. Len(a) : a[i] = b[i]
    <2> TAKE i \in 1 .. Len(a)
    <2> DEFINE j == i + Len(p)
    <2>1. j \in 1 .. Len(p) + Len(a) /\ j \in 1 .. Len(p) + Len(b) /\ ~ (j <= Len(p)) /\ j - Len(p) = i
      BY <1>2, <1>5
    <2> HIDE DEF j
    <2>2. (p \o a)[j] = a[i] /\ (p \o b)[j] = b[i]
      BY <1>3, <1>4, <2>1
    <2>3. QED
      BY <2>2
  <1>7. QED
    BY <1>1, <1>5, <1>6, SeqEqual

(* No path is that of a document of both.                                  *)
Apart(X, Y) == \A x \in X, y \in Y : x.ipath # y.ipath

LEMMA PrefixedApart ==
    ASSUME NEW p \in Path, NEW X \in SUBSET Found, NEW Y \in SUBSET Found, Apart(X, Y)
    PROVE  Apart(Prefixed(p, X), Prefixed(p, Y))
  <1>1. SUFFICES ASSUME NEW x \in Prefixed(p, X), NEW y \in Prefixed(p, Y), x.ipath = y.ipath PROVE FALSE
    BY DEF Apart
  <1>2. PICK a \in X : x.ipath = p \o a.ipath
    BY PrefixedIs
  <1>3. PICK b \in Y : y.ipath = p \o b.ipath
    BY PrefixedIs
  <1>4. a.ipath \in Path /\ b.ipath \in Path
    BY DEF Found, Path
  <1>5. a.ipath = b.ipath
    BY <1>1, <1>2, <1>3, <1>4, SameRest
  <1>6. QED
    BY <1>5 DEF Apart

LEMMA OneTyped ==
    ASSUME NEW gone, NEW d \in 1 .. MaxHandlers, \A m \in Node : All(gone, d - 1, m) \in SUBSET Found,
           NEW n \in Node, NEW i \in DOMAIN Kids[n]
    PROVE  /\ Under(Held(gone), d, Kids[n][i].to, gone) \in SUBSET Found
           /\ One(gone, d, n, i) = Prefixed(Elem(Kids[n][i].el), Under(Held(gone), d, Kids[n][i].to, gone))
           /\ One(gone, d, n, i) \in SUBSET Found
           /\ Kids[n][i].to \in Node /\ Elem(Kids[n][i].el) \in Path
  <1> DEFINE m == Kids[n][i].to
             U == Under(Held(gone), d, m, gone)
  <1>1. m \in Node /\ Kids[n][i].el \in Nat
    BY NodeTyped DEF Member
  <1>2. Elem(Kids[n][i].el) \in Path
    BY <1>1, ElemTyped
  <1> HIDE DEF m
  <1>3. U \in SUBSET Found
    <2>1. {[ipath |-> <<>>, node |-> m]} \in SUBSET Found /\ {} \in SUBSET Found
      <3>1. <<>> \in Path
        BY EmptySeq DEF Path
      <3>2. QED
        BY <1>1, <3>1, PrefixedEmpty
    <2>2. Held(gone)[d - 1][m] \in SUBSET Found
      BY <1>1 DEF All
    <2>3. QED
      BY <2>1, <2>2 DEF Under
  <1> HIDE DEF U
  <1>4. One(gone, d, n, i) = Prefixed(Elem(Kids[n][i].el), U)
    BY DEF One, Piece, U, m
  <1>5. One(gone, d, n, i) \in SUBSET Found
    BY <1>2, <1>3, <1>4, PrefixedIs
  <1>6. QED
    BY <1>1, <1>2, <1>3, <1>4, <1>5 DEF U, m

LEMMA AllTyped ==
    ASSUME NEW gone
    PROVE  \A d \in 0 .. MaxHandlers : \A n \in Node : All(gone, d, n) \in SUBSET Found
  <1>0. MaxHandlers \in Nat
    BY InternerAssumption
  <1> DEFINE Is(d) == \A n \in Node : All(gone, d, n) \in SUBSET Found
             T == {d \in Nat : d <= MaxHandlers /\ ~ Is(d)}
  <1> SUFFICES ASSUME T # {} PROVE FALSE
    BY <1>0
  <1>1. PICK d \in T : \A j \in T : d <= j
    BY Least
  <1>2. d \in Nat /\ d <= MaxHandlers /\ ~ Is(d)
    BY <1>1
  <1>3. d # 0
    BY <1>2, AllFrom
  <1>4. d - 1 \in Nat /\ d - 1 <= MaxHandlers /\ d - 1 \notin T /\ d \in 1 .. MaxHandlers
    BY <1>0, <1>1, <1>2, <1>3
  <1>5. Is(d - 1)
    BY <1>4
  <1>6. \A n \in Node : All(gone, d, n) = From(gone, d, n, 1)
    BY <1>4, AllFrom
  <1>7. \A n \in Node : \A i \in Passable(n) : One(gone, d, n, i) \in SUBSET Found
    <2> TAKE n \in Node
    <2> TAKE i \in Passable(n)
    <2>1. i \in DOMAIN Kids[n]
      BY DEF Passable
    <2>2. QED
      BY <1>4, <1>5, <2>1, OneTyped
  <1>8. Is(d)
    BY <1>6, <1>7 DEF From
  <1>9. QED
    BY <1>2, <1>8

(* What follows and what is the one of the next member and what follows it *)
LEMMA FromIs ==
    ASSUME NEW gone, NEW d \in 1 .. MaxHandlers, NEW n \in Node, NEW p \in Nat \ {0}
    PROVE  /\ From(gone, d, n, p) \in SUBSET Found
           /\ \A x \in From(gone, d, n, p) : \E i \in DOMAIN Kids[n] : p <= i /\ x \in One(gone, d, n, i)
           /\ p > Len(Kids[n]) => From(gone, d, n, p) = {}
           /\ p \in DOMAIN Kids[n] /\ ~ Kids[n][p].ok => From(gone, d, n, p) = {}
           /\ p \in Passable(n) => From(gone, d, n, p) = One(gone, d, n, p) \cup From(gone, d, n, p + 1)
  <1>0. Len(Kids[n]) \in Nat /\ DOMAIN Kids[n] = 1 .. Len(Kids[n])
    BY NodeTyped
  <1>1. \A m \in Node : All(gone, d - 1, m) \in SUBSET Found
    <2>1. d - 1 \in 0 .. MaxHandlers
      BY InternerAssumption
    <2>2. QED
      BY <2>1, AllTyped
  <1>2. \A i \in Passable(n) : i \in DOMAIN Kids[n] /\ i \in Nat /\ One(gone, d, n, i) \in SUBSET Found
    <2> TAKE i \in Passable(n)
    <2>1. i \in DOMAIN Kids[n]
      BY DEF Passable
    <2>2. One(gone, d, n, i) \in SUBSET Found
      BY <1>1, <2>1, OneTyped
    <2>3. i \in Nat
      BY <1>0, <2>1
    <2>4. QED
      BY <2>1, <2>2, <2>3
  <1> DEFINE one(i) == One(gone, d, n, i)
             J(q) == {j \in Passable(n) : q <= j}
  <1>3. \A q : From(gone, d, n, q) = UNION {one(i) : i \in J(q)}
    BY DEF From
  <1> HIDE DEF one
  <1>4. \A x \in From(gone, d, n, p) : \E i \in J(p) : x \in one(i)
    BY <1>3
  <1>5. From(gone, d, n, p) \in SUBSET Found
    BY <1>2, <1>4 DEF one
  <1>6. \A x \in From(gone, d, n, p) : \E i \in DOMAIN Kids[n] : p <= i /\ x \in One(gone, d, n, i)
    BY <1>2, <1>4 DEF one
  <1>7. ASSUME p > Len(Kids[n]) PROVE From(gone, d, n, p) = {}
    BY <1>0, <1>6, <1>7
  <1>8. ASSUME p \in DOMAIN Kids[n], ~ Kids[n][p].ok PROVE From(gone, d, n, p) = {}
    <2>1. \A j \in J(p) : p \in 1 .. j /\ \A k \in 1 .. j : Kids[n][k].ok
      BY <1>2 DEF Passable
    <2>2. J(p) = {}
      BY <1>8, <2>1
    <2>3. QED
      BY <1>4, <2>2
  <1>9. ASSUME p \in Passable(n) PROVE From(gone, d, n, p) = One(gone, d, n, p) \cup From(gone, d, n, p + 1)
    <2>1. \A j \in Passable(n) : p <= j <=> (j = p \/ p + 1 <= j)
      BY <1>2
    <2>2. J(p) = {p} \cup J(p + 1)
      <3>1. \A j \in J(p) : j = p \/ j \in J(p + 1)
        BY <2>1
      <3>2. \A j \in J(p + 1) : j \in J(p)
        BY <2>1
      <3>3. p \in J(p)
        BY <1>9, <2>1
      <3> HIDE DEF J
      <3>4. QED
        BY <3>1, <3>2, <3>3
    <2> HIDE DEF J
    <2>3. From(gone, d, n, p) = one(p) \cup UNION {one(i) : i \in J(p + 1)}
      BY <1>3, <2>2
    <2>4. QED
      BY <1>3, <2>3 DEF one
  <1>10. QED
    BY <1>5, <1>6, <1>7, <1>8, <1>9

(* The members have paths of their own.                                    *)
LEMMA OneStarts ==
    ASSUME Addressed, NEW gone, NEW d \in 1 .. MaxHandlers, NEW n \in Node, NEW i \in DOMAIN Kids[n]
    PROVE  \A x \in One(gone, d, n, i) :
              IF Kids[n][i].el = 0 THEN x.ipath = <<>> ELSE Len(x.ipath) # 0 /\ x.ipath[1] = Kids[n][i].el
  <1> DEFINE m == Kids[n][i].to
             el == Kids[n][i].el
             U == Under(Held(gone), d, m, gone)
  <1>0. d \in Nat /\ d - 1 \in 0 .. MaxHandlers /\ MaxHandlers \in Nat
    BY InternerAssumption
  <1>1. \A k \in Node : All(gone, d - 1, k) \in SUBSET Found
    BY <1>0, AllTyped
  <1>2. /\ U \in SUBSET Found /\ One(gone, d, n, i) = Prefixed(Elem(el), U)
        /\ m \in Node /\ Elem(el) \in Path
    BY <1>1, OneTyped
  <1>3. el \in Nat
    BY NodeTyped DEF Member
  <1>4. ASSUME el # 0, NEW x \in One(gone, d, n, i) PROVE Len(x.ipath) # 0 /\ x.ipath[1] = el
    <2> HIDE DEF U, el, m
    <2>1. PICK y \in U : x.ipath = Elem(el) \o y.ipath
      BY <1>2, PrefixedIs
    <2>2. y.ipath \in Seq(Nat \ {0}) /\ Elem(el) \in Seq(Nat \ {0})
      BY <1>2 DEF Found, Path
    <2>3. Len(Elem(el)) = 1 /\ Elem(el)[1] = el
      BY <1>3, <1>4, ElemTyped
    <2>4. /\ Len(x.ipath) = Len(Elem(el)) + Len(y.ipath) /\ Len(y.ipath) \in Nat
          /\ \A k \in 1 .. Len(Elem(el)) + Len(y.ipath) :
                (Elem(el) \o y.ipath)[k] = IF k <= Len(Elem(el)) THEN Elem(el)[k] ELSE y.ipath[k - Len(Elem(el))]
      BY <2>1, <2>2, ConcatProperties, LenProperties
    <2>5. 1 \in 1 .. Len(Elem(el)) + Len(y.ipath) /\ 1 <= Len(Elem(el)) /\ Len(x.ipath) # 0
      BY <2>3, <2>4
    <2>6. (Elem(el) \o y.ipath)[1] = Elem(el)[1]
      BY <2>4, <2>5
    <2>7. QED
      BY <2>1, <2>3, <2>5, <2>6
  <1>5. ASSUME el = 0 PROVE \A y \in U : y.ipath = <<>>
    <2>1. Kind[m] = "text" \/ Converter(Kind[m])
      BY <1>5 DEF Addressed
    <2>2. ASSUME Converter(Kind[m]), d # 1 PROVE \A y \in All(gone, d - 1, m) : y.ipath = <<>>
      <3> TAKE y \in All(gone, d - 1, m)
      <3>1. Len(Kids[m]) = 1 /\ Kids[m][1].el = 0 /\ Kind[Kids[m][1].to] = "text" /\ DOMAIN Kids[m] = 1 .. 1
        BY <1>2, <2>2, InternerAssumption, NodeTyped
      <3>2. d - 1 \in 1 .. MaxHandlers /\ 1 \in Nat \ {0} /\ (d - 1) - 1 \in 0 .. MaxHandlers
        BY <1>0, <2>2
      <3>3. y \in From(gone, d - 1, m, 1)
        BY <1>2, <3>2, AllFrom
      <3>4. \E j \in DOMAIN Kids[m] : y \in One(gone, d - 1, m, j)
        BY <1>2, <3>2, <3>3, FromIs
      <3>5. y \in One(gone, d - 1, m, 1)
        BY <3>1, <3>4
      <3>6. \A k \in Node : All(gone, (d - 1) - 1, k) \in SUBSET Found
        BY <3>2, AllTyped
      <3> DEFINE V == Under(Held(gone), d - 1, Kids[m][1].to, gone)
      <3>7. 1 \in DOMAIN Kids[m]
        BY <3>1
      <3>8. V \in SUBSET Found /\ One(gone, d - 1, m, 1) = Prefixed(Elem(0), V)
        BY <1>2, <3>1, <3>2, <3>6, <3>7, OneTyped
      <3>9. V = {[ipath |-> <<>>, node |-> Kids[m][1].to]}
        BY <3>1 DEF Under
      <3>10. One(gone, d - 1, m, 1) = V
        BY <3>8, PrefixedNone DEF Elem
      <3>11. QED
        BY <3>5, <3>9, <3>10
    <2>3. U = {} \/ U = {[ipath |-> <<>>, node |-> m]}
          \/ (Kind[m] # "text" /\ d # 1 /\ U = All(gone, d - 1, m))
      BY DEF Under, All
    <2> HIDE DEF U, m
    <2>4. QED
      BY <2>1, <2>2, <2>3
  <1>6. ASSUME el = 0, NEW x \in One(gone, d, n, i) PROVE x.ipath = <<>>
    <2> HIDE DEF U, m
    <2>1. One(gone, d, n, i) = U
      BY <1>2, <1>6, PrefixedNone DEF Elem
    <2>2. QED
      BY <1>5, <1>6, <2>1
  <1>7. QED
    BY <1>4, <1>6

LEMMA OneApart ==
    ASSUME Addressed, NEW gone, NEW d \in 1 .. MaxHandlers, NEW n \in Node, NEW i \in DOMAIN Kids[n]
    PROVE  Apart(One(gone, d, n, i), From(gone, d, n, i + 1))
  <1>0. i \in Nat \ {0} /\ i + 1 \in Nat \ {0} /\ DOMAIN Kids[n] = 1 .. Len(Kids[n]) /\ Len(Kids[n]) \in Nat
    BY NodeTyped
  <1>1. SUFFICES ASSUME NEW x \in One(gone, d, n, i), NEW y \in From(gone, d, n, i + 1), x.ipath = y.ipath PROVE FALSE
    BY DEF Apart
  <1>2. PICK j \in DOMAIN Kids[n] : i + 1 <= j /\ y \in One(gone, d, n, j)
    BY <1>0, FromIs
  <1>3. Kids[n][i].el # Kids[n][j].el
    <2>1. i # j
      BY <1>0, <1>2
    <2>2. QED
      BY <2>1 DEF Addressed
  <1>4. IF Kids[n][i].el = 0 THEN x.ipath = <<>> ELSE Len(x.ipath) # 0 /\ x.ipath[1] = Kids[n][i].el
    BY OneStarts
  <1>5. IF Kids[n][j].el = 0 THEN y.ipath = <<>> ELSE Len(y.ipath) # 0 /\ y.ipath[1] = Kids[n][j].el
    BY <1>2, OneStarts
  <1>6. Len(<<>>) = 0
    BY EmptySeq
  <1>7. QED
    BY <1>1, <1>3, <1>4, <1>5, <1>6

-----------------------------------------------------------------------------
(* What is still to come.                                                  *)

Given(s) == {i \in DOMAIN s : s[i].el # 0}
Prefix(s, j) == Ipath(SubSeq(s, 1, j))

LEMMA IpathRanks ==
    ASSUME NEW s \in Seq(Handler)
    PROVE  /\ Ipath(s) \in Path /\ Len(Ipath(s)) = Cardinality(Given(s)) /\ Cardinality(Given(s)) \in Nat
           /\ \A i \in Given(s) : i \in 1 .. Len(s)
           /\ \A i \in Given(s) :
                 UpTo(Given(s), i) \in 1 .. Cardinality(Given(s)) /\ Ipath(s)[UpTo(Given(s), i)] = s[i].el
           /\ \A k \in 1 .. Cardinality(Given(s)) : \E i \in Given(s) : UpTo(Given(s), i) = k
  <1> DEFINE G == Given(s)
             nth(k) == CHOOSE i \in G : UpTo(G, i) = k
  <1>1. Len(s) \in Nat /\ \A q \in G : q \in 1 .. Len(s)
    BY LenProperties DEF Given
  <1>2. Ipath(s) = [k \in 1 .. Cardinality(G) |-> s[nth(k)].el]
    BY DEF Ipath, Given
  <1> HIDE DEF G
  <1>3. /\ \A p \in G : UpTo(G, p) \in 1 .. Cardinality(G)
        /\ \A p, q \in G : UpTo(G, p) = UpTo(G, q) => p = q
        /\ \A k \in 1 .. Cardinality(G) : \E p \in G : UpTo(G, p) = k
    BY <1>1, RankIsOf
  <1>4. Cardinality(G) \in Nat
    BY <1>1, Ranks
  <1>5. \A i \in G : nth(UpTo(G, i)) = i
    BY <1>3
  <1> HIDE DEF nth
  <1>6. \A i \in G : Ipath(s)[UpTo(G, i)] = s[i].el
    BY <1>2, <1>3, <1>5
  <1>7. Ipath(s) \in Path
    BY IpathTyped DEF Path
  <1>8. Len(Ipath(s)) = Cardinality(G)
    BY <1>2, <1>4
  <1>9. QED
    BY <1>1, <1>3, <1>4, <1>6, <1>7, <1>8 DEF G

(* A handler adds its element to the path.                                 *)
LEMMA IpathAppend ==
    ASSUME NEW s \in Seq(Handler), NEW h \in Handler
    PROVE  Ipath(Append(s, h)) = Ipath(s) \o Elem(h.el) /\ Append(s, h) \in Seq(Handler)
  <1> DEFINE t == Append(s, h)
             L == Len(s)
             G == Given(s)
             H == Given(t)
             c == Cardinality(G)
             e == Elem(h.el)
  <1>1. /\ t \in Seq(Handler) /\ Len(t) = L + 1 /\ L \in Nat
        /\ \A i \in 1 .. L : t[i] = s[i]
        /\ t[L + 1] = h
    BY AppendProperties, LenProperties
  <1>2. h.el \in Nat
    BY DEF Handler
  <1>3. DOMAIN s = 1 .. L /\ DOMAIN t = 1 .. L + 1
    BY <1>1, LenProperties
  <1>4. /\ e \in Path /\ Len(e) = IF h.el = 0 THEN 0 ELSE 1
        /\ h.el # 0 => e[1] = h.el
    <2>1. Len(<<>>) = 0
      BY EmptySeq
    <2>2. QED
      BY <1>2, <2>1, ElemTyped
  <1>5. /\ Ipath(s) \in Path /\ Len(Ipath(s)) = c /\ c \in Nat
        /\ \A i \in G : i \in 1 .. L
        /\ \A i \in G : UpTo(G, i) \in 1 .. c /\ Ipath(s)[UpTo(G, i)] = s[i].el
        /\ \A k \in 1 .. c : \E i \in G : UpTo(G, i) = k
    BY IpathRanks
  <1>6. /\ Ipath(t) \in Path /\ Len(Ipath(t)) = Cardinality(H)
        /\ \A i \in H : Ipath(t)[UpTo(H, i)] = t[i].el
    BY <1>1, IpathRanks
  <1>7. H = IF h.el = 0 THEN G ELSE G \cup {L + 1}
    <2>1. \A i \in 1 .. L + 1 : i \in 1 .. L \/ i = L + 1
      BY <1>1
    <2>2. \A i \in 1 .. L : i \in H <=> i \in G
      BY <1>1, <1>3 DEF Given
    <2>3. L + 1 \in H <=> h.el # 0
      BY <1>1, <1>3 DEF Given
    <2>4. (\A i \in H : i \in 1 .. L + 1) /\ (\A i \in G : i \in 1 .. L) /\ L + 1 \notin 1 .. L
      BY <1>1, <1>3 DEF Given
    <2> HIDE DEF G, H, L, t
    <2>5. \A i \in H : i \in G \/ (i = L + 1 /\ h.el # 0)
      BY <2>1, <2>2, <2>3, <2>4
    <2>6. \A i \in G : i \in H
      BY <2>2, <2>4
    <2>7. CASE h.el = 0
      <3>1. H = G
        BY <2>5, <2>6, <2>7
      <3>2. QED
        BY <2>7, <3>1
    <2>8. CASE h.el # 0
      <3>1. H = G \cup {L + 1}
        BY <2>3, <2>5, <2>6, <2>8
      <3>2. QED
        BY <2>8, <3>1
    <2>9. QED
      BY <2>7, <2>8
  <1>8. IsFiniteSet(G)
    BY <1>1, <1>5, Ranks
  <1> DEFINE w == Ipath(s) \o e
  <1>9. /\ w \in Path /\ Len(w) = c + Len(e)
        /\ \A k \in 1 .. c + Len(e) : w[k] = IF k <= c THEN Ipath(s)[k] ELSE e[k - c]
    BY <1>4, <1>5, ConcatProperties DEF Path
  <1> HIDE DEF t, L, G, H, c, e, w
  <1>10. \A i \in G : UpTo(H, i) = UpTo(G, i)
    <2> TAKE i \in G
    <2>1. {q \in H : q <= i} = {q \in G : q <= i}
      BY <1>1, <1>5, <1>7
    <2>2. QED
      BY <2>1 DEF UpTo
  <1>11. \A k \in 1 .. c : Ipath(t)[k] = w[k]
    <2> TAKE k \in 1 .. c
    <2>1. PICK i \in G : UpTo(G, i) = k
      BY <1>5
    <2>2. i \in H /\ i \in 1 .. L /\ UpTo(H, i) = k
      BY <1>5, <1>7, <1>10, <2>1
    <2>3. Ipath(t)[k] = s[i].el /\ Ipath(s)[k] = s[i].el
      BY <1>1, <1>5, <1>6, <2>1, <2>2
    <2>4. k \in 1 .. c + Len(e) /\ k <= c
      BY <1>4, <1>5
    <2>5. w[k] = Ipath(s)[k]
      BY <1>9, <2>4
    <2>6. QED
      BY <2>3, <2>5
  <1>12. Cardinality(H) = c + Len(e)
    <2>1. L + 1 \notin G
      BY <1>1, <1>5
    <2>2. Cardinality(G \cup {L + 1}) = Cardinality(G) + 1
      BY <1>8, <2>1, FS_AddElement
    <2>3. QED
      BY <1>4, <1>5, <1>7, <2>2 DEF c
  <1>13. ASSUME h.el # 0 PROVE Ipath(t)[c + 1] = w[c + 1]
    <2>1. L + 1 \in H
      BY <1>7, <1>13
    <2>2. {q \in H : q <= L + 1} = H
      BY <1>1, <1>5, <1>7
    <2>3. UpTo(H, L + 1) = c + 1
      BY <1>4, <1>12, <1>13, <2>2 DEF UpTo
    <2>4. Ipath(t)[c + 1] = h.el
      BY <1>1, <1>6, <2>1, <2>3
    <2>5. c + 1 \in 1 .. c + Len(e) /\ ~ (c + 1 <= c) /\ (c + 1) - c = 1
      BY <1>4, <1>5, <1>13
    <2>6. w[c + 1] = e[1]
      BY <1>9, <2>5
    <2>7. QED
      BY <1>4, <1>13, <2>4, <2>6
  <1>14. \A k \in 1 .. c + Len(e) : Ipath(t)[k] = w[k]
    <2>1. \A k \in 1 .. c + Len(e) : k \in 1 .. c \/ (k = c + 1 /\ h.el # 0)
      BY <1>4, <1>5
    <2>2. QED
      BY <1>11, <1>13, <2>1
  <1>15. Ipath(t) = w
    <2> DEFINE P == Ipath(t)
               S == Nat \ {0}
    <2>1. P \in Seq(S) /\ w \in Seq(S) /\ Len(P) = Len(w) /\ Len(P) = c + Len(e)
      BY <1>6, <1>9, <1>12 DEF Path
    <2>2. \A k \in 1 .. Len(P) : P[k] = w[k]
      BY <1>14, <2>1
    <2> HIDE DEF P, S
    <2>3. P = w
      BY <2>1, <2>2, SeqEqual
    <2>4. QED
      BY <2>3 DEF P
  <1>16. QED
    BY <1>1, <1>15 DEF w, e, t

LEMMA SubSeqTyped ==
    ASSUME NEW s \in Seq(Handler), NEW j \in 0 .. Len(s)
    PROVE  /\ SubSeq(s, 1, j) \in Seq(Handler) /\ Len(SubSeq(s, 1, j)) = j
           /\ \A i \in 1 .. j : SubSeq(s, 1, j)[i] = s[i]
  <1>1. Len(s) \in Nat /\ j \in Int /\ 1 \in Int
    BY LenProperties
  <1>2. \A i \in 1 .. j : s[i] \in Handler
    <2> TAKE i \in 1 .. j
    <2>1. i \in 1 .. Len(s)
      BY <1>1
    <2>2. QED
      BY <2>1, ElementOfSeq
  <1>3. /\ SubSeq(s, 1, j) \in Seq(Handler)
        /\ Len(SubSeq(s, 1, j)) = IF 1 <= j THEN j - 1 + 1 ELSE 0
        /\ \A i \in 1 .. j - 1 + 1 : SubSeq(s, 1, j)[i] = s[1 + i - 1]
    BY <1>1, <1>2, SubSeqProperties
  <1>4. Len(SubSeq(s, 1, j)) = j
    BY <1>1, <1>3
  <1>5. \A i \in 1 .. j : i \in 1 .. j - 1 + 1 /\ 1 + i - 1 = i
    BY <1>1
  <1>6. QED
    BY <1>3, <1>4, <1>5

LEMMA PrefixOf ==
    ASSUME NEW s \in Seq(Handler), NEW t \in Seq(Handler), NEW j \in 0 .. Len(s), j <= Len(t),
           \A i \in 1 .. j : s[i] = t[i]
    PROVE  Prefix(s, j) = Prefix(t, j) /\ Prefix(s, j) \in Path
  <1>1. j \in 0 .. Len(t)
    BY LenProperties
  <1> DEFINE a == SubSeq(s, 1, j)
             b == SubSeq(t, 1, j)
  <1>2. a \in Seq(Handler) /\ Len(a) = j /\ \A i \in 1 .. j : a[i] = s[i]
    BY SubSeqTyped
  <1>3. b \in Seq(Handler) /\ Len(b) = j /\ \A i \in 1 .. j : b[i] = t[i]
    BY <1>1, SubSeqTyped
  <1> HIDE DEF a, b
  <1>4. Len(a) = Len(b) /\ \A i \in 1 .. Len(a) : a[i] = b[i]
    BY <1>2, <1>3
  <1>5. a = b
    BY <1>2, <1>3, <1>4, SeqEqual
  <1>6. Ipath(a) \in Path
    BY <1>2, IpathRanks
  <1>7. QED
    BY <1>5, <1>6 DEF Prefix, a, b

LEMMA PrefixIs ==
    ASSUME NEW s \in Seq(Handler)
    PROVE  /\ Prefix(s, 0) = <<>> /\ Prefix(s, Len(s)) = Ipath(s)
           /\ \A j \in 1 .. Len(s) : Prefix(s, j) = Prefix(s, j - 1) \o Elem(s[j].el)
  <1>1. Len(s) \in Nat /\ 0 \in 0 .. Len(s) /\ Len(s) \in 0 .. Len(s)
    BY LenProperties
  <1>2. Prefix(s, 0) = <<>>
    <2> DEFINE a == SubSeq(s, 1, 0)
    <2>1. a \in Seq(Handler) /\ Len(a) = 0
      BY <1>1, SubSeqTyped
    <2> HIDE DEF a
    <2>2. Given(a) = {}
      BY <2>1, LenProperties DEF Given
    <2>3. Ipath(a) \in Path /\ Len(Ipath(a)) = 0
      BY <2>1, <2>2, IpathRanks, FS_EmptySet
    <2>4. QED
      BY <2>3, EmptySeq DEF Prefix, Path, a
  <1>3. Prefix(s, Len(s)) = Ipath(s)
    <2> DEFINE a == SubSeq(s, 1, Len(s))
    <2>1. a \in Seq(Handler) /\ Len(a) = Len(s) /\ \A i \in 1 .. Len(s) : a[i] = s[i]
      BY <1>1, SubSeqTyped
    <2> HIDE DEF a
    <2>2. a = s
      BY <2>1, SeqEqual
    <2>3. QED
      BY <2>2 DEF Prefix, a
  <1>4. ASSUME NEW j \in 1 .. Len(s) PROVE Prefix(s, j) = Prefix(s, j - 1) \o Elem(s[j].el)
    <2> DEFINE a == SubSeq(s, 1, j)
               b == SubSeq(s, 1, j - 1)
               h == s[j]
    <2>1. j \in 0 .. Len(s) /\ j - 1 \in 0 .. Len(s) /\ j \in Nat /\ j - 1 \in Nat
      BY <1>1
    <2>2. a \in Seq(Handler) /\ Len(a) = j /\ \A i \in 1 .. j : a[i] = s[i]
      BY <2>1, SubSeqTyped
    <2>3. b \in Seq(Handler) /\ Len(b) = j - 1 /\ \A i \in 1 .. j - 1 : b[i] = s[i]
      BY <2>1, SubSeqTyped
    <2>4. h \in Handler
      BY ElementOfSeq
    <2> HIDE DEF a, b
    <2>5. /\ Append(b, h) \in Seq(Handler) /\ Len(Append(b, h)) = Len(b) + 1
          /\ \A i \in 1 .. Len(b) : Append(b, h)[i] = b[i]
          /\ Append(b, h)[Len(b) + 1] = h
      BY <2>3, <2>4, AppendProperties
    <2>6. \A i \in 1 .. j : a[i] = Append(b, h)[i]
      <3> TAKE i \in 1 .. j
      <3>1. i \in 1 .. j - 1 \/ i = Len(b) + 1
        BY <2>1, <2>3
      <3>2. QED
        BY <2>2, <2>3, <2>5, <3>1
    <2>7. Len(a) = Len(Append(b, h))
      BY <2>1, <2>2, <2>3, <2>5
    <2>8. a = Append(b, h)
      BY <2>2, <2>5, <2>6, <2>7, SeqEqual
    <2>9. Ipath(Append(b, h)) = Ipath(b) \o Elem(h.el)
      BY <2>3, <2>4, IpathAppend
    <2>10. QED
      BY <2>8, <2>9 DEF Prefix, a, b
  <1>5. QED
    BY <1>2, <1>3, <1>4

(* What the handler at j of the stack s has still to give, by its path.    *)
Rest(s, j, gone) == Prefixed(Prefix(s, j - 1), From(gone, MaxHandlers + 1 - j, s[j].node, s[j].at))

(* The documents of the file f are those in D, those of X and those that   *)
(* the handlers of s have still to give, each of them once.                *)
Splits(D, s, X, f, gone) ==
    /\ All(gone, MaxHandlers, f) = Range(D) \cup X \cup UNION {Rest(s, j, gone) : j \in 1 .. Len(s)}
    /\ \A i, j \in DOMAIN D : D[i].ipath = D[j].ipath => i = j
    /\ Apart(Range(D), X)
    /\ \A j \in 1 .. Len(s) : Apart(Range(D), Rest(s, j, gone)) /\ Apart(X, Rest(s, j, gone))
    /\ \A j, k \in 1 .. Len(s) : j # k => Apart(Rest(s, j, gone), Rest(s, k, gone))

(* What a handler of s has passed did not fail, and it says that it has    *)
(* more unless it was at its last document.                                *)
Walks(s) ==
    \A j \in 1 .. Len(s) : Passed(s[j]) /\ (s[j].have \/ s[j].at > Len(Kids[s[j].node]))

Indexed(D, f, gone) == Splits(D, <<>>, {}, f, gone)

Extracted ==
    /\ Typed
    /\ mode = "index" => made = NeverMade /\ Walks(stack) /\ Splits(docs, stack, {}, file, missing)
    /\ made.how = "done" => Indexed(docs, made.file, made.missing)

LEMMA RestTyped ==
    ASSUME NEW gone, NEW s \in Seq(Handler), Len(s) <= MaxHandlers, NEW j \in 1 .. Len(s)
    PROVE  /\ s[j] \in Handler /\ s[j].node \in Node /\ s[j].at \in Nat \ {0}
           /\ MaxHandlers + 1 - j \in 1 .. MaxHandlers
           /\ Prefix(s, j - 1) \in Path
           /\ From(gone, MaxHandlers + 1 - j, s[j].node, s[j].at) \in SUBSET Found
           /\ Rest(s, j, gone) \in SUBSET Found
  <1>1. Len(s) \in Nat /\ MaxHandlers \in Nat
    BY LenProperties, InternerAssumption
  <1>2. s[j] \in Handler
    BY ElementOfSeq
  <1>3. s[j].node \in Node /\ s[j].at \in Nat \ {0}
    BY <1>2 DEF Handler
  <1>4. MaxHandlers + 1 - j \in 1 .. MaxHandlers
    BY <1>1
  <1>5. j - 1 \in 0 .. Len(s) /\ j - 1 <= Len(s)
    BY <1>1
  <1>6. Prefix(s, j - 1) \in Path
    BY <1>5, PrefixOf
  <1>7. From(gone, MaxHandlers + 1 - j, s[j].node, s[j].at) \in SUBSET Found
    BY <1>3, <1>4, FromIs
  <1>8. Rest(s, j, gone) \in SUBSET Found
    BY <1>6, <1>7, PrefixedIs DEF Rest
  <1>9. QED
    BY <1>2, <1>3, <1>4, <1>6, <1>7, <1>8

LEMMA RestOf ==
    ASSUME NEW gone, NEW s \in Seq(Handler), NEW t \in Seq(Handler), NEW j \in 1 .. Len(s), j <= Len(t),
           \A i \in 1 .. j : s[i] = t[i]
    PROVE  Rest(s, j, gone) = Rest(t, j, gone)
  <1>1. j - 1 \in 0 .. Len(s) /\ j - 1 <= Len(t) /\ j \in 1 .. j /\ \A i \in 1 .. j - 1 : i \in 1 .. j
    BY LenProperties
  <1>2. Prefix(s, j - 1) = Prefix(t, j - 1)
    BY <1>1, PrefixOf
  <1>3. s[j] = t[j]
    BY <1>1
  <1>4. QED
    BY <1>2, <1>3 DEF Rest

(* A handler at its end has nothing to give.                               *)
LEMMA RestNone ==
    ASSUME NEW gone, NEW s \in Seq(Handler), Len(s) <= MaxHandlers, NEW j \in 1 .. Len(s),
           \/ s[j].at > Len(Kids[s[j].node])
           \/ s[j].at \in DOMAIN Kids[s[j].node] /\ ~ Kids[s[j].node][s[j].at].ok
    PROVE  Rest(s, j, gone) = {}
  <1>1. s[j].node \in Node /\ s[j].at \in Nat \ {0} /\ MaxHandlers + 1 - j \in 1 .. MaxHandlers
    BY RestTyped
  <1>2. From(gone, MaxHandlers + 1 - j, s[j].node, s[j].at) = {}
    BY <1>1, FromIs
  <1>3. QED
    BY <1>2 DEF Rest, Prefixed

(* The top of s goes on to its next document: t.                           *)
Advances(s, t) ==
    /\ Len(s) \in 1 .. MaxHandlers /\ Len(t) = Len(s)
    /\ \A j \in 1 .. Len(s) : j # Len(s) => t[j] = s[j]
    /\ t[Len(s)].node = s[Len(s)].node /\ t[Len(s)].at = s[Len(s)].at + 1
    /\ s[Len(s)].at \in Passable(s[Len(s)].node)
    /\ t[Len(s)].el = Kids[s[Len(s)].node][s[Len(s)].at].el

Inner(s, gone) ==
    Under(Held(gone), MaxHandlers + 1 - Len(s), Kids[s[Len(s)].node][s[Len(s)].at].to, gone)

LEMMA RestAdvanced ==
    ASSUME Addressed, NEW gone, NEW s \in Seq(Handler), NEW t \in Seq(Handler), Advances(s, t)
    PROVE  /\ \A j \in 1 .. Len(s) : j # Len(s) => Rest(t, j, gone) = Rest(s, j, gone)
           /\ Rest(s, Len(s), gone) = Prefixed(Ipath(t), Inner(s, gone)) \cup Rest(t, Len(s), gone)
           /\ Apart(Prefixed(Ipath(t), Inner(s, gone)), Rest(t, Len(s), gone))
           /\ Inner(s, gone) \in SUBSET Found
  <1> DEFINE L == Len(s)
             m == s[L].node
             p == s[L].at
             d == MaxHandlers + 1 - L
             n == Kids[m][p].to
             U == Under(Held(gone), d, n, gone)
             X == Prefixed(Ipath(t), Inner(s, gone))
             el == Kids[m][p].el
             P == Prefix(s, L - 1)
             O == One(gone, d, m, p)
             F == From(gone, d, m, p)
             G == From(gone, d, m, p + 1)
  <1>0. /\ L \in 1 .. MaxHandlers /\ Len(t) = L
        /\ \A j \in 1 .. L : j # L => t[j] = s[j]
        /\ t[L].node = m /\ t[L].at = p + 1
        /\ p \in Passable(m) /\ t[L].el = el
    BY DEF Advances
  <1>1. L \in Nat \ {0} /\ L \in 1 .. L /\ L <= MaxHandlers /\ MaxHandlers \in Nat
    BY <1>0, InternerAssumption
  <1>2. m \in Node /\ p \in Nat \ {0} /\ d \in 1 .. MaxHandlers /\ P \in Path
    BY <1>1, RestTyped
  <1>3. ASSUME NEW j \in 1 .. L, j # L PROVE Rest(t, j, gone) = Rest(s, j, gone)
    <2>1. j <= Len(t) /\ j \in 1 .. Len(s) /\ \A i \in 1 .. j : s[i] = t[i]
      <3>1. \A i \in 1 .. j : i \in 1 .. L /\ i # L
        BY <1>1, <1>3
      <3>2. QED
        BY <1>0, <1>1, <3>1
    <2>2. QED
      BY <2>1, RestOf
  <1>4. Prefix(t, L - 1) = P
    <2>1. L - 1 \in 0 .. Len(s) /\ L - 1 <= Len(t)
      BY <1>0, <1>1
    <2>2. \A i \in 1 .. L - 1 : i \in 1 .. L /\ i # L
      BY <1>1
    <2>3. \A i \in 1 .. L - 1 : s[i] = t[i]
      BY <1>0, <2>2
    <2>4. QED
      BY <2>1, <2>3, PrefixOf
  <1>5. Ipath(t) = P \o Elem(el)
    <2>1. L \in 1 .. Len(t)
      BY <1>0, <1>1
    <2>2. Prefix(t, L) = Prefix(t, L - 1) \o Elem(t[L].el) /\ Prefix(t, L) = Ipath(t)
      BY <1>0, <2>1, PrefixIs
    <2>3. QED
      BY <1>0, <1>4, <2>2
  <1>6. p \in DOMAIN Kids[m] /\ p \in Passable(m)
    BY <1>0 DEF Passable
  <1>7. /\ U \in SUBSET Found /\ O = Prefixed(Elem(el), U) /\ O \in SUBSET Found
        /\ n \in Node /\ Elem(el) \in Path
    <2>1. d - 1 \in 0 .. MaxHandlers
      BY <1>1, <1>2
    <2>2. \A k \in Node : All(gone, d - 1, k) \in SUBSET Found
      BY <2>1, AllTyped
    <2>3. QED
      BY <1>2, <1>6, <2>2, OneTyped
  <1>8. F = O \cup G /\ G \in SUBSET Found
    <2>1. p + 1 \in Nat \ {0}
      BY <1>2
    <2>2. QED
      BY <1>2, <1>6, <2>1, FromIs
  <1>9. Apart(O, G)
    BY <1>2, <1>6, OneApart
  <1>10. Rest(s, L, gone) = Prefixed(P, F) /\ Rest(t, L, gone) = Prefixed(P, G)
    BY <1>0, <1>4 DEF Rest
  <1>14. U = Inner(s, gone)
    BY DEF Inner
  <1> HIDE DEF P, F, G, O, U, el, d, m, n, p
  <1>11. X = Prefixed(P, O) /\ X \in SUBSET Found
    <2>1. Prefixed(P, O) = Prefixed(P \o Elem(el), U)
      BY <1>2, <1>7, PrefixedTwice
    <2>2. Prefixed(P, O) \in SUBSET Found
      BY <1>2, <1>7, PrefixedIs
    <2>3. X = Prefixed(Ipath(t), U)
      BY <1>14
    <2>4. QED
      BY <1>5, <2>1, <2>2, <2>3
  <1>12. Prefixed(P, F) = Prefixed(P, O) \cup Prefixed(P, G)
    BY <1>8 DEF Prefixed
  <1>13. Apart(Prefixed(P, O), Prefixed(P, G))
    BY <1>2, <1>7, <1>8, <1>9, PrefixedApart
  <1>15. QED
    BY <1>3, <1>7, <1>10, <1>11, <1>12, <1>13, <1>14

(* What becomes of the parts.                                              *)
LEMMA SplitAdvance ==
    ASSUME NEW D, NEW s, NEW t, NEW X, NEW f, NEW gone, Splits(D, s, {}, f, gone),
           Len(s) \in Nat \ {0}, Len(t) = Len(s),
           \A j \in 1 .. Len(s) : j # Len(s) => Rest(t, j, gone) = Rest(s, j, gone),
           Rest(s, Len(s), gone) = X \cup Rest(t, Len(s), gone),
           Apart(X, Rest(t, Len(s), gone))
    PROVE  Splits(D, t, X, f, gone)
  <1> DEFINE L == Len(s)
             old(j) == Rest(s, j, gone)
             new(j) == Rest(t, j, gone)
             A == All(gone, MaxHandlers, f)
  <1>1. L \in 1 .. L
    OBVIOUS
  <1>2. /\ A = Range(D) \cup {} \cup UNION {old(j) : j \in 1 .. L}
        /\ \A i, j \in DOMAIN D : D[i].ipath = D[j].ipath => i = j
        /\ \A j \in 1 .. L : Apart(Range(D), old(j))
        /\ \A j, k \in 1 .. L : j # k => Apart(old(j), old(k))
    BY DEF Splits
  <1>3. /\ \A j \in 1 .. L : j # L => new(j) = old(j)
        /\ old(L) = X \cup new(L) /\ Apart(X, new(L))
    OBVIOUS
  <1> HIDE DEF L, old, new, A
  <1>4. UNION {old(j) : j \in 1 .. L} = X \cup UNION {new(j) : j \in 1 .. L}
    <2>1. \A j \in 1 .. L : \A x \in old(j) : x \in X \/ \E k \in 1 .. L : x \in new(k)
      BY <1>1, <1>3
    <2>2. \A j \in 1 .. L : \A x \in new(j) : \E k \in 1 .. L : x \in old(k)
      BY <1>1, <1>3
    <2>3. \A x \in X : \E k \in 1 .. L : x \in old(k)
      BY <1>1, <1>3
    <2>4. QED
      BY <2>1, <2>2, <2>3
  <1>5. A = Range(D) \cup X \cup UNION {new(j) : j \in 1 .. L}
    BY <1>2, <1>4
  <1>6. Apart(Range(D), X) /\ \A j \in 1 .. L : Apart(Range(D), new(j))
    BY <1>1, <1>2, <1>3 DEF Apart
  <1>7. \A j \in 1 .. L : Apart(X, new(j))
    <2> TAKE j \in 1 .. L
    <2>1. CASE j = L
      BY <1>3, <2>1
    <2>2. CASE j # L
      <3>1. Apart(old(L), old(j)) /\ new(j) = old(j)
        BY <1>1, <1>2, <1>3, <2>2
      <3>2. QED
        BY <1>3, <3>1 DEF Apart
    <2>3. QED
      BY <2>1, <2>2
  <1>8. \A j, k \in 1 .. L : j # k => Apart(new(j), new(k))
    <2> TAKE j, k \in 1 .. L
    <2> HAVE j # k
    <2>1. Apart(old(j), old(k))
      BY <1>2
    <2>2. (\A x \in new(j) : x \in old(j)) /\ (\A x \in new(k) : x \in old(k))
      BY <1>1, <1>3
    <2>3. QED
      BY <2>1, <2>2 DEF Apart
  <1>9. QED
    BY <1>2, <1>5, <1>6, <1>7, <1>8 DEF Splits, A, L, new

LEMMA SplitEmit ==
    ASSUME NEW D \in Seq(Found), NEW d \in Found, NEW s, NEW f, NEW gone, Splits(D, s, {d}, f, gone)
    PROVE  Splits(Append(D, d), s, {}, f, gone)
  <1> DEFINE E == Append(D, d)
             N == Len(D)
             rest(j) == Rest(s, j, gone)
             L == Len(s)
             A == All(gone, MaxHandlers, f)
  <1>1. /\ E \in Seq(Found) /\ Len(E) = N + 1 /\ N \in Nat
        /\ \A i \in 1 .. N : E[i] = D[i]
        /\ E[N + 1] = d
    BY AppendProperties, LenProperties
  <1>2. DOMAIN E = 1 .. N + 1 /\ DOMAIN D = 1 .. N
    BY <1>1, LenProperties
  <1>3. /\ A = Range(D) \cup {d} \cup UNION {rest(j) : j \in 1 .. L}
        /\ \A i, j \in DOMAIN D : D[i].ipath = D[j].ipath => i = j
        /\ Apart(Range(D), {d})
        /\ \A j \in 1 .. L : Apart(Range(D), rest(j)) /\ Apart({d}, rest(j))
        /\ \A j, k \in 1 .. L : j # k => Apart(rest(j), rest(k))
    BY DEF Splits
  <1> HIDE DEF E, N, rest, L, A
  <1>4. \A i \in 1 .. N + 1 : i \in 1 .. N \/ i = N + 1
    BY <1>1
  <1>5. Range(E) = Range(D) \cup {d}
    <2>1. \A i \in 1 .. N : i \in 1 .. N + 1
      BY <1>1
    <2>2. N + 1 \in 1 .. N + 1
      BY <1>1
    <2>3. \A x \in Range(E) : x \in Range(D) \/ x = d
      BY <1>1, <1>2, <1>4 DEF Range
    <2>4. \A x \in Range(D) : x \in Range(E)
      BY <1>1, <1>2, <2>1 DEF Range
    <2>5. d \in Range(E)
      BY <1>1, <1>2, <2>2 DEF Range
    <2>6. QED
      BY <2>3, <2>4, <2>5
  <1>6. \A i \in 1 .. N : D[i].ipath # d.ipath
    BY <1>2, <1>3 DEF Apart, Range
  <1>7. \A i, j \in DOMAIN E : E[i].ipath = E[j].ipath => i = j
    <2> TAKE i, j \in DOMAIN E
    <2>1. (i \in 1 .. N \/ i = N + 1) /\ (j \in 1 .. N \/ j = N + 1)
      BY <1>2, <1>4
    <2>2. i \in 1 .. N /\ j \in 1 .. N => (E[i].ipath = E[j].ipath => i = j)
      BY <1>1, <1>2, <1>3
    <2>3. QED
      BY <1>1, <1>6, <2>1, <2>2
  <1>8. \A j \in 1 .. L : Apart(Range(E), rest(j))
    BY <1>3, <1>5 DEF Apart
  <1>9. Apart(Range(E), {}) /\ \A j \in 1 .. L : Apart({}, rest(j))
    BY DEF Apart
  <1>10. A = Range(E) \cup {} \cup UNION {rest(j) : j \in 1 .. L}
    BY <1>3, <1>5
  <1>11. QED
    BY <1>3, <1>7, <1>8, <1>9, <1>10 DEF Splits, A, L, rest, E

(* Handlers with nothing to give go.                                       *)
LEMMA SplitCut ==
    ASSUME NEW D, NEW s, NEW t, NEW f, NEW gone, Splits(D, s, {}, f, gone),
           Len(s) \in Nat, Len(t) \in Nat, Len(t) <= Len(s),
           \A j \in 1 .. Len(t) : Rest(t, j, gone) = Rest(s, j, gone),
           \A j \in Len(t) + 1 .. Len(s) : Rest(s, j, gone) = {}
    PROVE  Splits(D, t, {}, f, gone)
  <1> DEFINE L == Len(s)
             M == Len(t)
             old(j) == Rest(s, j, gone)
             new(j) == Rest(t, j, gone)
             A == All(gone, MaxHandlers, f)
  <1>1. /\ A = Range(D) \cup {} \cup UNION {old(j) : j \in 1 .. L}
        /\ \A i, j \in DOMAIN D : D[i].ipath = D[j].ipath => i = j
        /\ \A j \in 1 .. L : Apart(Range(D), old(j))
        /\ \A j, k \in 1 .. L : j # k => Apart(old(j), old(k))
    BY DEF Splits
  <1>2. /\ \A j \in 1 .. M : new(j) = old(j) /\ j \in 1 .. L
        /\ \A j \in 1 .. L : j \in 1 .. M \/ old(j) = {}
    OBVIOUS
  <1> HIDE DEF L, M, old, new, A
  <1>3. UNION {old(j) : j \in 1 .. L} = UNION {new(j) : j \in 1 .. M}
    <2>1. \A j \in 1 .. L : \A x \in old(j) : \E k \in 1 .. M : x \in new(k)
      BY <1>2
    <2>2. \A j \in 1 .. M : \A x \in new(j) : \E k \in 1 .. L : x \in old(k)
      BY <1>2
    <2>3. QED
      BY <2>1, <2>2
  <1>4. A = Range(D) \cup {} \cup UNION {new(j) : j \in 1 .. M}
    BY <1>1, <1>3
  <1>5. \A j \in 1 .. M : Apart(Range(D), new(j))
    BY <1>1, <1>2
  <1>6. \A j, k \in 1 .. M : j # k => Apart(new(j), new(k))
    BY <1>1, <1>2
  <1>7. Apart(Range(D), {}) /\ \A j \in 1 .. M : Apart({}, new(j))
    BY DEF Apart
  <1>8. QED
    BY <1>1, <1>4, <1>5, <1>6, <1>7 DEF Splits, A, M, new

(* A handler is stacked for what is in between.                            *)
LEMMA SplitStack ==
    ASSUME NEW D, NEW s, NEW t, NEW X, NEW f, NEW gone, Splits(D, s, X, f, gone),
           Len(s) \in Nat, Len(t) = Len(s) + 1,
           \A j \in 1 .. Len(s) : Rest(t, j, gone) = Rest(s, j, gone),
           Rest(t, Len(s) + 1, gone) = X
    PROVE  Splits(D, t, {}, f, gone)
  <1> DEFINE L == Len(s)
             M == Len(t)
             old(j) == Rest(s, j, gone)
             new(j) == Rest(t, j, gone)
             A == All(gone, MaxHandlers, f)
  <1>1. /\ A = Range(D) \cup X \cup UNION {old(j) : j \in 1 .. L}
        /\ \A i, j \in DOMAIN D : D[i].ipath = D[j].ipath => i = j
        /\ Apart(Range(D), X)
        /\ \A j \in 1 .. L : Apart(Range(D), old(j)) /\ Apart(X, old(j))
        /\ \A j, k \in 1 .. L : j # k => Apart(old(j), old(k))
    BY DEF Splits
  <1>2. /\ \A j \in 1 .. M : j \in 1 .. L \/ j = L + 1
        /\ \A j \in 1 .. L : new(j) = old(j) /\ j \in 1 .. M
        /\ new(L + 1) = X /\ L + 1 \in 1 .. M
    OBVIOUS
  <1> HIDE DEF L, M, old, new, A
  <1>3. X \cup UNION {old(j) : j \in 1 .. L} = UNION {new(j) : j \in 1 .. M}
    <2>1. \A j \in 1 .. L : \A x \in old(j) : \E k \in 1 .. M : x \in new(k)
      BY <1>2
    <2>2. \A x \in X : \E k \in 1 .. M : x \in new(k)
      BY <1>2
    <2>3. \A j \in 1 .. M : \A x \in new(j) : x \in X \/ \E k \in 1 .. L : x \in old(k)
      BY <1>2
    <2>4. QED
      BY <2>1, <2>2, <2>3
  <1>4. A = Range(D) \cup {} \cup UNION {new(j) : j \in 1 .. M}
    BY <1>1, <1>3
  <1>5. \A j \in 1 .. M : Apart(Range(D), new(j))
    BY <1>1, <1>2
  <1>6. \A j, k \in 1 .. M : j # k => Apart(new(j), new(k))
    <2> TAKE j, k \in 1 .. M
    <2> HAVE j # k
    <2>1. CASE j \in 1 .. L /\ k \in 1 .. L
      BY <1>1, <1>2, <2>1
    <2>2. CASE j = L + 1 /\ k \in 1 .. L
      BY <1>1, <1>2, <2>2
    <2>3. CASE j \in 1 .. L /\ k = L + 1
      <3>1. Apart(X, old(j)) /\ new(j) = old(j) /\ new(k) = X
        BY <1>1, <1>2, <2>3
      <3>2. QED
        BY <3>1 DEF Apart
    <2>4. QED
      BY <1>2, <2>1, <2>2, <2>3
  <1>7. Apart(Range(D), {}) /\ \A j \in 1 .. M : Apart({}, new(j))
    BY DEF Apart
  <1>8. QED
    BY <1>1, <1>4, <1>5, <1>6, <1>7 DEF Splits, A, M, new

-----------------------------------------------------------------------------
(* The index, step by step.                                                *)

LEMMA HaveEnds ==
    ASSUME NEW h \in Handler, NEW i \in Place(h), NEW more \in HaveAfter(h, i), h.want = 0
    PROVE  more \/ i + 1 > Len(Kids[h.node])
  <1> DEFINE n == h.node
             b == i < Len(Kids[n])
  <1>1. n \in Node /\ Len(Kids[n]) \in Nat /\ i \in Nat
    <2>1. n \in Node
      BY DEF Handler
    <2>2. QED
      BY <2>1, PlaceTyped, NodeTyped
  <1>2. b \/ i + 1 > Len(Kids[n])
    BY <1>1
  <1>3. CASE Converter(Kind[n])
    <2>1. Len(Kids[n]) = 1
      BY <1>1, <1>3, InternerAssumption
    <2>2. i # 0
      BY PlaceTyped
    <2>3. QED
      BY <1>1, <2>1, <2>2
  <1>4. CASE Kind[n] = "archive"
    <2>1. HaveAfter(h, i) = {TRUE, b}
      BY <1>4 DEF HaveAfter, Converter
    <2> HIDE DEF b
    <2>2. more = TRUE \/ more = b
      BY <2>1
    <2>3. QED
      BY <1>2, <2>2
  <1>5. CASE ~ Converter(Kind[n]) /\ Kind[n] # "archive"
    <2>1. HaveAfter(h, i) = {b}
      BY <1>5 DEF HaveAfter
    <2> HIDE DEF b
    <2>2. more = b
      BY <2>1
    <2>3. QED
      BY <1>2, <2>2
  <1>6. QED
    BY <1>3, <1>4, <1>5

LEMMA WalksCut ==
    ASSUME NEW s \in Seq(Handler), Walks(s), NEW t, Len(t) \in 0 .. Len(s), \A i \in 1 .. Len(t) : t[i] = s[i]
    PROVE  Walks(t)
  <1>1. Len(s) \in Nat /\ \A i \in 1 .. Len(t) : i \in 1 .. Len(s)
    BY LenProperties
  <1>2. QED
    BY <1>1 DEF Walks

(* Popping handlers that have nothing to give.                             *)
LEMMA CutDown ==
    ASSUME NEW D, NEW f, NEW gone, NEW s \in Seq(Handler), Len(s) <= MaxHandlers,
           Walks(s), Splits(D, s, {}, f, gone),
           NEW t \in Seq(Handler), Len(t) <= Len(s), \A i \in 1 .. Len(t) : t[i] = s[i],
           \A j \in Len(t) + 1 .. Len(s) : Rest(s, j, gone) = {}
    PROVE  Walks(t) /\ Splits(D, t, {}, f, gone)
  <1>1. Len(s) \in Nat /\ Len(t) \in Nat /\ Len(t) \in 0 .. Len(s)
    BY LenProperties
  <1>2. \A j \in 1 .. Len(t) : Rest(t, j, gone) = Rest(s, j, gone)
    <2> TAKE j \in 1 .. Len(t)
    <2>1. j <= Len(s) /\ \A i \in 1 .. j : t[i] = s[i]
      BY <1>1
    <2>2. QED
      BY <2>1, RestOf
  <1>3. Splits(D, t, {}, f, gone)
    BY <1>1, <1>2, SplitCut
  <1>4. QED
    BY <1>1, <1>3, WalksCut

(* The stack once the top has its document: what this one holds is X.      *)
LEMMA AdvancedSplits ==
    ASSUME Addressed, Typed, mode = "index", Walks(stack), Splits(docs, stack, {}, file, missing),
           NEW i \in Place(Top), NEW more \in BOOLEAN, more \in HaveAfter(Top, i), Kids[Top.node][i].ok
    PROVE  LET s == Advanced(i, more)
               n == Kids[Top.node][i].to
               U == Under(Held(missing), MaxHandlers + 1 - Len(s), n, missing)
           IN  Walks(s) /\ Splits(docs, s, Prefixed(Ipath(s), U), file, missing) /\ U \in SUBSET Found
  <1> DEFINE s == Advanced(i, more)
             L == Len(stack)
             h == stack[L]
             n == Kids[h.node][i].to
  <1>1. /\ L \in 1 .. MaxHandlers /\ DOMAIN stack = 1 .. L
        /\ \A j \in 1 .. L : stack[j] \in Handler
        /\ Top = h /\ Top \in Handler /\ MaxHandlers \in Nat \ {0}
    BY TopTyped
  <1>2. /\ s \in Seq(Handler) /\ Len(s) = L
        /\ \A j \in 1 .. L : s[j].node = stack[j].node /\ s[j].want = stack[j].want
        /\ \A j \in 1 .. L : j # L => s[j] = stack[j]
        /\ s[L].el = Kids[h.node][i].el /\ s[L].at = i + 1 /\ s[L].have = more
    BY AdvancedIs
  <1>3. i \in DOMAIN Kids[h.node] /\ i \in Nat \ {0}
    BY <1>1, PlaceTyped
  <1>4. L \in 1 .. L /\ L \in Nat \ {0} /\ L <= MaxHandlers
    BY <1>1
  <1>5. Passed(h)
    BY <1>4 DEF Walks
  <1>6. i = h.at
    <2>1. Place(h) = {h.at} \cap DOMAIN Kids[h.node]
      BY <1>5 DEF Place, Passed
    <2>2. QED
      BY <1>1, <2>1
  <1>7. s[L].node = h.node /\ s[L].want = h.want
    BY <1>2, <1>4
  <1>8. \A k \in 1 .. i : k \in DOMAIN Kids[h.node] /\ Kids[h.node][k].ok
    <2> TAKE k \in 1 .. i
    <2>1. CASE k = i
      BY <1>1, <1>3, <2>1
    <2>2. CASE k # i
      <3>1. k \in 1 .. h.at - 1
        BY <1>3, <1>6, <2>2
      <3>2. QED
        BY <1>5, <3>1 DEF Passed
    <2>3. QED
      BY <2>1, <2>2
  <1>9. i \in Passable(h.node)
    BY <1>1, <1>3, <1>8 DEF Passable
  <1> HIDE DEF s
  <1>10. Walks(s)
    <2>1. s[L].at - 1 = i /\ s[L].at = i + 1
      BY <1>2, <1>3
    <2>2. Passed(s[L])
      BY <1>5, <1>7, <1>8, <2>1 DEF Passed
    <2>3. s[L].have \/ s[L].at > Len(Kids[s[L].node])
      <3>1. h.want = 0
        BY <1>5 DEF Passed
      <3>2. more \/ i + 1 > Len(Kids[h.node])
        BY <1>1, <3>1, HaveEnds
      <3>3. QED
        BY <1>2, <1>7, <3>2
    <2>4. \A j \in 1 .. L : j # L => Passed(s[j]) /\ (s[j].have \/ s[j].at > Len(Kids[s[j].node]))
      BY <1>2 DEF Walks
    <2>5. QED
      BY <1>2, <2>2, <2>3, <2>4 DEF Walks
  <1> DEFINE U == Under(Held(missing), MaxHandlers + 1 - L, n, missing)
             X == Prefixed(Ipath(s), U)
  <1>11. stack \in Seq(Handler)
    BY DEF Typed
  <1>12. /\ \A j \in 1 .. L : j # L => Rest(s, j, missing) = Rest(stack, j, missing)
         /\ Rest(stack, L, missing) = X \cup Rest(s, L, missing)
         /\ Apart(X, Rest(s, L, missing))
         /\ U \in SUBSET Found
    <2>1. Advances(stack, s)
      BY <1>1, <1>2, <1>6, <1>7, <1>9 DEF Advances
    <2>2. U = Inner(stack, missing)
      BY <1>6 DEF Inner
    <2> HIDE DEF U, n, h
    <2>3. QED
      BY <1>2, <1>11, <2>1, <2>2, RestAdvanced
  <1> HIDE DEF X
  <1>13. Splits(docs, s, X, file, missing)
    BY <1>2, <1>4, <1>12, SplitAdvance
  <1>14. Top.node = h.node
    BY <1>1
  <1>15. QED
    BY <1>2, <1>10, <1>12, <1>13, <1>14 DEF X, s

(* A document is returned: it was what the one in between holds.           *)
LEMMA ReturnsExtracted ==
    ASSUME Typed, mode = "index", made = NeverMade, UNCHANGED source,
           NEW s \in Seq(Handler), Len(s) \in 1 .. MaxHandlers, Walks(s),
           NEW n \in Node, Splits(docs, s, {[ipath |-> Ipath(s), node |-> n]}, file, missing),
           NEW t \in Seq(Handler), Extends(s, t), Len(t) <= MaxHandlers, FilesOf(t), Ipath(t) = Ipath(s),
           \A i \in Len(s) + 1 .. Len(t) : ~ t[i].have,
           Returns(t, n)
    PROVE  /\ mode' = "index" => made' = NeverMade /\ Walks(stack') /\ Splits(docs', stack', {}, file, missing)
           /\ made'.how = "done" => Indexed(docs', file, missing) /\ made'.file = file /\ made'.missing = missing
  <1> DEFINE d == [ipath |-> Ipath(s), node |-> n]
             m == More(t)
  <1>1. /\ docs' = Append(docs, d)
        /\ Popped(t, Len(t) - m)
        /\ mode' = IF m = 0 THEN "idle" ELSE "index"
        /\ made' = IF m # 0 THEN made
                   ELSE [file |-> file, missing |-> missing, how |-> "done"]
    BY DEF Returns, More
  <1>2. d \in Found
    BY IpathTyped DEF Found
  <1>3. Splits(docs', s, {}, file, missing)
    <2>1. docs \in Seq(Found)
      BY DEF Typed
    <2> HIDE DEF d
    <2>2. Splits(docs, s, {d}, file, missing)
      BY DEF d
    <2>3. QED
      BY <1>1, <1>2, <2>1, <2>2, SplitEmit
  <1> HIDE DEF d
  <1>4. /\ Len(t) \in Nat /\ Len(s) \in Nat /\ Len(s) <= Len(t) /\ Len(s) <= MaxHandlers
        /\ \A i \in 1 .. Len(s) : t[i] = s[i]
    BY LenProperties, InternerAssumption DEF Extends
  <1>5. /\ m \in 0 .. Len(t)
        /\ \A i \in 1 .. Len(t) : t[i].have => i <= m
        /\ m # 0 => t[m].have
    BY MoreIs
  <1>6. m \in 0 .. Len(s)
    BY <1>4, <1>5
  <1> HIDE DEF m
  <1>7. Len(t) - m \in 0 .. Len(t) /\ Len(t) - (Len(t) - m) = m
    BY <1>4, <1>5
  <1>8. stack' \in Seq(Handler) /\ Len(stack') = m /\ \A i \in 1 .. m : stack'[i] = t[i]
    BY <1>1, <1>7, FilesPopped
  <1>9. Len(stack') <= Len(s) /\ \A i \in 1 .. Len(stack') : stack'[i] = s[i]
    BY <1>4, <1>6, <1>8
  <1>10. \A j \in m + 1 .. Len(s) : Rest(s, j, missing) = {}
    <2> TAKE j \in m + 1 .. Len(s)
    <2>1. j \in 1 .. Len(s) /\ j \in 1 .. Len(t) /\ ~ (j <= m)
      BY <1>4, <1>6
    <2>2. ~ s[j].have
      BY <1>4, <1>5, <2>1
    <2>3. s[j].at > Len(Kids[s[j].node])
      BY <2>1, <2>2 DEF Walks
    <2>4. QED
      BY <1>4, <2>1, <2>3, RestNone
  <1>11. Walks(stack') /\ Splits(docs', stack', {}, file, missing)
    BY <1>3, <1>4, <1>8, <1>9, <1>10, CutDown
  <1>12. CASE m = 0
    <2>1. stack' = <<>>
      BY <1>8, <1>12, EmptySeq
    <2>2. Indexed(docs', file, missing)
      BY <1>11, <2>1 DEF Indexed
    <2>3. mode' = "idle" /\ made' = [file |-> file, missing |-> missing, how |-> "done"]
      BY <1>1, <1>12
    <2>4. QED
      BY <2>2, <2>3
  <1>13. CASE m # 0
    <2>1. mode' = "index" /\ made' = NeverMade /\ made'.how = "never"
      BY <1>1, <1>13 DEF NeverMade
    <2>2. QED
      BY <1>11, <2>1
  <1>14. QED
    BY <1>12, <1>13

LEMMA AddsExtracted ==
    ASSUME Typed, mode = "index", made = NeverMade, UNCHANGED source,
           NEW s \in Seq(Handler), Len(s) \in 1 .. MaxHandlers, Walks(s), FilesOf(s),
           NEW n \in Node, NEW U, U = Under(Held(missing), MaxHandlers + 1 - Len(s), n, missing),
           U \in SUBSET Found,
           Splits(docs, s, Prefixed(Ipath(s), U), file, missing),
           AddHandler(s, n)
    PROVE  /\ mode' = "index" => made' = NeverMade /\ Walks(stack') /\ Splits(docs', stack', {}, file, missing)
           /\ made'.how = "done" => Indexed(docs', file, missing) /\ made'.file = file /\ made'.missing = missing
  <1> DEFINE L == Len(s)
             X == Prefixed(Ipath(s), U)
             d == [ipath |-> Ipath(s), node |-> n]
             t == Append(s, Frame(n))
  <1>0. MaxHandlers \in Nat /\ L \in Nat /\ L <= MaxHandlers /\ L # 0
    BY LenProperties, InternerAssumption
  <1>1. Ipath(s) \in Path
    BY IpathTyped DEF Path
  <1>2. U = {[ipath |-> <<>>, node |-> n]} => X = {d}
    BY <1>1, PrefixedEmpty
  <1>3. U = {} => X = {}
    BY <1>1, PrefixedEmpty
  <1>4. MaxHandlers + 1 - L = 1 <=> L >= MaxHandlers
    BY <1>0
  <1>5. /\ t \in Seq(Handler) /\ Len(t) = L + 1
        /\ \A i \in 1 .. L : t[i] = s[i]
        /\ t[L + 1] = Frame(n)
    BY FrameTyped, AppendProperties
  <1>6. Frame(n).have = (n \in Good) /\ Frame(n).el = 0 /\ Frame(n).at = 1 /\ Frame(n).want = 0
        /\ Frame(n).node = n /\ Frame(n) \in Handler
    BY FrameTyped
  <1>7. Ipath(t) = Ipath(s)
    <2>1. Ipath(t) = Ipath(s) \o Elem(0)
      BY <1>6, IpathAppend
    <2>2. QED
      BY <1>1, <2>1, ConcatEmptySeq DEF Elem, Path
  <1> HIDE DEF t
  <1>8. CASE Kind[n] = "text"
    <2>1. Returns(s, n)
      BY <1>8 DEF AddHandler
    <2>2. X = {d}
      BY <1>2, <1>8 DEF Under
    <2>3. Extends(s, s) /\ \A i \in L + 1 .. L : ~ s[i].have
      BY <1>0 DEF Extends
    <2>4. QED
      BY <1>0, <2>1, <2>2, <2>3, ReturnsExtracted
  <1>9. CASE Kind[n] # "text" /\ (L >= MaxHandlers \/ ~ HasHandler(n))
    <2>1. GoOn(s)
      BY <1>9 DEF AddHandler
    <2>2. stack' = s /\ docs' = docs /\ made' = made /\ mode' = mode
      BY <2>1 DEF GoOn
    <2>3. U = {}
      <3>1. HasHandler(n) <=> n \notin missing \cup Unwanted
        BY DEF HasHandler
      <3>2. MaxHandlers + 1 - L = 1 \/ n \in missing \cup Unwanted
        BY <1>4, <1>9, <3>1
      <3>3. QED
        BY <1>9, <3>2 DEF Under
    <2>4. Splits(docs', stack', {}, file, missing)
      BY <1>3, <2>2, <2>3
    <2>5. made'.how = "never"
      BY <2>2 DEF NeverMade
    <2>6. QED
      BY <2>2, <2>4, <2>5
  <1>10. ASSUME Kind[n] # "text", ~ (L >= MaxHandlers), HasHandler(n), n \notin Good, Returns(t, n)
         PROVE  /\ mode' = "index" => made' = NeverMade /\ Walks(stack') /\ Splits(docs', stack', {}, file, missing)
                /\ made'.how = "done" => Indexed(docs', file, missing) /\ made'.file = file /\ made'.missing = missing
    <2>1. n \notin missing \cup Unwanted
      BY <1>10 DEF HasHandler
    <2>2. MaxHandlers + 1 - L # 1
      BY <1>4, <1>10
    <2>3. U = {[ipath |-> <<>>, node |-> n]}
      BY <1>10, <2>1, <2>2 DEF Under
    <2>4. X = {d}
      BY <1>2, <2>3
    <2>5. ~ t[L + 1].have /\ t[L + 1].el = 0
      BY <1>5, <1>6, <1>10
    <2>6. \A i \in L + 1 .. Len(t) : i = L + 1
      BY <1>0, <1>5
    <2>7. Extends(s, t) /\ \A i \in L + 1 .. Len(t) : ~ t[i].have
      BY <1>0, <1>5, <2>5, <2>6 DEF Extends
    <2>8. Len(t) \in Nat /\ Len(t) <= MaxHandlers /\ L <= Len(t)
      BY <1>0, <1>5, <1>10
    <2>9. FilesOf(t)
      <3>1. \A i \in 1 .. L : t[i].node = s[i].node
        BY <1>5
      <3>2. QED
        BY <1>0, <2>8, <3>1, FilesSame
    <2>10. QED
      BY <1>5, <1>7, <1>10, <2>4, <2>7, <2>8, <2>9, ReturnsExtracted
  <1>11. ASSUME Kind[n] # "text", ~ (L >= MaxHandlers), HasHandler(n), n \in Good, Stacked(s, n)
         PROVE  /\ mode' = "index" => made' = NeverMade /\ Walks(stack') /\ Splits(docs', stack', {}, file, missing)
                /\ made'.how = "done" => Indexed(docs', file, missing) /\ made'.file = file /\ made'.missing = missing
    <2>1. stack' = t /\ docs' = docs /\ made' = made /\ mode' = mode
      BY <1>11 DEF Stacked, t
    <2>2. n \notin missing \cup Unwanted
      BY <1>11 DEF HasHandler
    <2>3. MaxHandlers + 1 - L # 1 /\ (MaxHandlers + 1 - L) - 1 = MaxHandlers - L /\ MaxHandlers - L \in 1 .. MaxHandlers
          /\ MaxHandlers + 1 - (L + 1) = MaxHandlers - L
      BY <1>0, <1>4, <1>11
    <2>4. U = All(missing, MaxHandlers - L, n)
      BY <1>11, <2>2, <2>3 DEF Under, All
    <2>5. U = From(missing, MaxHandlers - L, n, 1)
      BY <2>3, <2>4, AllFrom
    <2>6. L \in 0 .. L /\ L <= Len(t) /\ (L + 1) - 1 = L
      BY <1>0, <1>5
    <2>7. Prefix(t, L) = Ipath(s)
      <3>1. Prefix(s, L) = Prefix(t, L)
        BY <1>5, <2>6, PrefixOf
      <3>2. QED
        BY <3>1, PrefixIs
    <2>8. Rest(t, L + 1, missing) = X
      <3>1. t[L + 1].node = n /\ t[L + 1].at = 1
        BY <1>5, <1>6
      <3>2. QED
        BY <2>3, <2>5, <2>6, <2>7, <3>1 DEF Rest
    <2>9. \A j \in 1 .. L : Rest(t, j, missing) = Rest(s, j, missing)
      <3> TAKE j \in 1 .. L
      <3>1. j <= Len(t) /\ \A i \in 1 .. j : s[i] = t[i]
        BY <1>0, <1>5
      <3>2. QED
        BY <1>5, <3>1, RestOf
    <2>10. Splits(docs, t, {}, file, missing)
      <3> HIDE DEF X
      <3>1. Splits(docs, s, X, file, missing)
        BY DEF X
      <3>2. QED
        BY <1>0, <1>5, <2>8, <2>9, <3>1, SplitStack
    <2>11. Walks(t)
      <3>1. Passed(Frame(n)) /\ Frame(n).have
        <4>1. Frame(n).at - 1 = 0 /\ 1 .. 0 = {}
          BY <1>6
        <4>2. QED
          BY <1>6, <1>11, <4>1 DEF Passed
      <3>2. \A j \in 1 .. Len(t) : j \in 1 .. L \/ j = L + 1
        BY <1>0, <1>5
      <3>3. QED
        BY <1>5, <3>1, <3>2 DEF Walks
    <2>12. made'.how = "never"
      BY <2>1 DEF NeverMade
    <2>13. QED
      BY <2>1, <2>10, <2>11, <2>12
  <1>12. QED
    BY <1>8, <1>9, <1>10, <1>11 DEF AddHandler, t

LEMMA FailsExtracted ==
    ASSUME Extracted, mode # "idle", NEW how, Fails(how), UNCHANGED source,
           mode = "index" /\ how = "done" => Indexed(docs, file, missing)
    PROVE  Extracted'
  <1>1. Typed'
    BY FailsTyped DEF Extracted
  <1>2. mode' = "idle" /\ docs' = docs
    BY DEF Fails, Ends
  <1>3. CASE mode = "index"
    <2>1. made' = [file |-> file, missing |-> missing, how |-> how]
      BY <1>3 DEF Fails, Ends
    <2>2. made'.how = "done" => Indexed(docs', made'.file, made'.missing)
      BY <1>2, <1>3, <2>1
    <2>3. QED
      BY <1>1, <1>2, <2>2 DEF Extracted
  <1>4. CASE mode # "index"
    <2>1. made' = made
      BY <1>4 DEF Fails, Ends
    <2>2. QED
      BY <1>1, <1>2, <2>1 DEF Extracted
  <1>5. QED
    BY <1>3, <1>4

LEMMA NoDocumentExtracted ==
    ASSUME Extracted, mode = "index", NoDocument
    PROVE  Extracted'
  <1> DEFINE L == Len(stack)
             h == stack[L]
             t == SubSeq(stack, 1, L - 1)
  <1>1. /\ Typed /\ Typed' /\ made = NeverMade /\ Walks(stack) /\ Splits(docs, stack, {}, file, missing)
    <2>1. Typed
      BY DEF Extracted
    <2>2. Typed'
      BY <2>1, PopOrFailTyped DEF NoDocument, Turn
    <2>3. QED
      BY <2>1, <2>2 DEF Extracted
  <1>2. /\ L \in 1 .. MaxHandlers /\ Top = h /\ h \in Handler /\ MaxHandlers \in Nat \ {0}
        /\ stack \in Seq(Handler)
    BY <1>1, TopTyped DEF Typed
  <1>3. UNCHANGED source /\ PopOrFail /\ (~ h.have \/ \A i \in Place(h) : ~ Kids[h.node][i].ok)
    BY <1>2 DEF NoDocument, Turn
  <1>4. L \in 1 .. L /\ L \in Nat \ {0} /\ L <= MaxHandlers /\ L - 1 \in 0 .. L
    BY <1>2
  <1>5. Passed(h) /\ (h.have \/ h.at > Len(Kids[h.node]))
    BY <1>1, <1>4 DEF Walks
  <1>6. h.at > Len(Kids[h.node]) \/ (h.at \in DOMAIN Kids[h.node] /\ ~ Kids[h.node][h.at].ok)
    <2>1. Place(h) = {h.at} \cap DOMAIN Kids[h.node]
      BY <1>5 DEF Place, Passed
    <2>2. h.node \in Node /\ h.at \in Nat \ {0}
      BY <1>2 DEF Handler
    <2>3. DOMAIN Kids[h.node] = 1 .. Len(Kids[h.node]) /\ Len(Kids[h.node]) \in Nat
      BY <2>2, NodeTyped
    <2>4. QED
      BY <1>3, <1>5, <2>1, <2>2, <2>3
  <1>7. Rest(stack, L, missing) = {}
    BY <1>2, <1>4, <1>6, RestNone
  <1>8. /\ t \in Seq(Handler) /\ Len(t) = L - 1
        /\ \A i \in 1 .. L - 1 : t[i] = stack[i]
    BY <1>2, <1>4, SubSeqTyped
  <1> HIDE DEF t
  <1>9. Walks(t) /\ Splits(docs, t, {}, file, missing)
    <2>1. Len(t) <= Len(stack) /\ \A i \in 1 .. Len(t) : t[i] = stack[i]
      BY <1>4, <1>8
    <2>2. \A j \in Len(t) + 1 .. Len(stack) : j = L
      BY <1>4, <1>8
    <2>3. \A j \in Len(t) + 1 .. Len(stack) : Rest(stack, j, missing) = {}
      BY <1>7, <2>2
    <2>4. QED
      BY <1>1, <1>2, <1>4, <1>8, <2>1, <2>3, CutDown
  <1>10. CASE L = 1
    <2>1. Fails("done")
      BY <1>3, <1>10 DEF PopOrFail
    <2>2. t = <<>>
      BY <1>8, <1>10, EmptySeq
    <2>3. Indexed(docs, file, missing)
      BY <1>9, <2>2 DEF Indexed
    <2>4. QED
      BY <1>3, <2>1, <2>3, FailsExtracted
  <1>11. CASE L # 1
    <2>1. Popped(stack, 1) /\ docs' = docs /\ made' = made /\ mode' = mode
      BY <1>3, <1>11 DEF PopOrFail
    <2>2. stack' = t
      BY <2>1 DEF Popped, t
    <2>3. file' = file /\ missing' = missing
      BY <1>3 DEF source
    <2>4. made'.how = "never"
      BY <1>1, <2>1 DEF NeverMade
    <2>5. Walks(stack') /\ Splits(docs', stack', {}, file', missing')
      BY <1>9, <2>1, <2>2, <2>3
    <2>6. QED
      BY <1>1, <2>1, <2>4, <2>5 DEF Extracted
  <1>12. QED
    BY <1>10, <1>11

LEMMA NextDocumentExtracted ==
    ASSUME Addressed, Extracted, mode = "index", NextDocument
    PROVE  Extracted'
  <1>1. Typed /\ Typed' /\ made = NeverMade /\ Walks(stack) /\ Splits(docs, stack, {}, file, missing)
    BY NextDocumentTyped DEF Extracted
  <1>2. PICK i \in Place(Top), more \in BOOLEAN :
              /\ Turn /\ Top.have /\ more \in HaveAfter(Top, i)
              /\ Kids[Top.node][i].ok
              /\ AddHandler(Advanced(i, more), Kids[Top.node][i].to)
    BY <1>1, NextDocumentIs
  <1> DEFINE s == Advanced(i, more)
             n == Kids[Top.node][i].to
             U == Under(Held(missing), MaxHandlers + 1 - Len(s), n, missing)
  <1>3. UNCHANGED source /\ AddHandler(s, n) /\ file' = file /\ missing' = missing
    BY <1>2 DEF Turn, source
  <1>4. Top \in Handler /\ Len(stack) \in 1 .. MaxHandlers
    BY <1>1, TopTyped
  <1>5. n \in Node
    BY <1>4, PlaceTyped DEF Member
  <1>6. s \in Seq(Handler) /\ Len(s) = Len(stack) /\ FilesOf(s)
    BY <1>1, AdvancedIs
  <1>7. Walks(s) /\ Splits(docs, s, Prefixed(Ipath(s), U), file, missing) /\ U \in SUBSET Found
    BY <1>1, <1>2, AdvancedSplits
  <1> HIDE DEF s, n
  <1>8. /\ mode' = "index" => made' = NeverMade /\ Walks(stack') /\ Splits(docs', stack', {}, file, missing)
        /\ made'.how = "done" => Indexed(docs', file, missing) /\ made'.file = file /\ made'.missing = missing
    BY <1>1, <1>3, <1>4, <1>5, <1>6, <1>7, AddsExtracted
  <1>9. mode' = "index" => Splits(docs', stack', {}, file', missing')
    BY <1>3, <1>8
  <1>10. made'.how = "done" => Indexed(docs', made'.file, made'.missing)
    BY <1>8
  <1>11. QED
    BY <1>1, <1>8, <1>9, <1>10 DEF Extracted

LEMMA StartExtracted ==
    ASSUME Extracted, StartIndex
    PROVE  Extracted'
  <1> DEFINE h == Frame(file)
             t == <<h>>
  <1>1. Typed /\ Typed'
    BY StartIndexTyped DEF Extracted
  <1>2. /\ mode' = "index" /\ docs' = <<>> /\ stack' = t /\ made' = NeverMade
        /\ file' = file /\ missing' = missing
    BY DEF StartIndex, source
  <1>3. file \in Node /\ file \in Good /\ Kind[file] # "text" /\ MaxHandlers \in Nat \ {0}
    BY <1>1, InternerAssumption DEF Typed
  <1>4. h \in Handler /\ h.node = file /\ h.have /\ h.want = 0 /\ h.at = 1 /\ h.at - 1 = 0 /\ 1 .. 0 = {}
    <2>1. h \in Handler /\ h.node = file /\ h.want = 0 /\ h.at = 1
      BY <1>3, FrameTyped
    <2>2. h.have
      BY <1>3 DEF Frame
    <2>3. QED
      BY <2>1, <2>2
  <1>5. t \in Seq(Handler) /\ Len(t) = 1 /\ t[1] = h
    BY <1>4
  <1> HIDE DEF h, t
  <1>6. Walks(t)
    BY <1>3, <1>4, <1>5 DEF Walks, Passed
  <1>7. Prefix(t, 0) = <<>>
    BY <1>5, PrefixIs
  <1> DEFINE A == All(missing, MaxHandlers, file)
  <1>8. MaxHandlers + 1 - 1 = MaxHandlers /\ MaxHandlers \in 1 .. MaxHandlers /\ MaxHandlers \in 0 .. MaxHandlers
    BY <1>3
  <1>9. A = From(missing, MaxHandlers, file, 1)
    BY <1>3, <1>8, AllFrom
  <1>10. A \in SUBSET Found
    BY <1>3, <1>8, AllTyped
  <1>11. Rest(t, 1, missing) = A
    <2>1. Rest(t, 1, missing) = Prefixed(Prefix(t, 1 - 1), From(missing, MaxHandlers + 1 - 1, t[1].node, t[1].at))
      BY DEF Rest
    <2>2. 1 - 1 = 0
      OBVIOUS
    <2>3. Rest(t, 1, missing) = Prefixed(<<>>, A)
      BY <1>4, <1>5, <1>7, <1>8, <1>9, <2>1, <2>2
    <2>4. QED
      BY <1>10, <2>3, PrefixedNone
  <1>12. Range(<<>>) = {} /\ DOMAIN <<>> = {}
    <2>1. DOMAIN <<>> = {}
      OBVIOUS
    <2>2. QED
      BY <2>1 DEF Range
  <1>13. Splits(<<>>, t, {}, file, missing)
    <2>1. \A j \in 1 .. Len(t) : j = 1
      BY <1>5
    <2>2. A = Range(<<>>) \cup {} \cup UNION {Rest(t, j, missing) : j \in 1 .. Len(t)}
      BY <1>5, <1>11, <1>12, <2>1
    <2>3. Apart(Range(<<>>), {}) /\ \A j \in 1 .. Len(t) :
             Apart(Range(<<>>), Rest(t, j, missing)) /\ Apart({}, Rest(t, j, missing))
      BY <1>12 DEF Apart
    <2>4. QED
      BY <1>12, <2>1, <2>2, <2>3 DEF Splits
  <1>14. made'.how # "done"
    BY <1>2 DEF NeverMade
  <1>15. Splits(docs', stack', {}, file', missing') /\ Walks(stack')
    BY <1>2, <1>6, <1>13
  <1>16. QED
    BY <1>1, <1>2, <1>14, <1>15 DEF Extracted

LEMMA ExtractedInit ==
    ASSUME Init
    PROVE  Extracted
  <1>1. mode = "idle" /\ made.how # "done"
    BY DEF Init, NeverMade
  <1>2. QED
    BY <1>1, InitTyped DEF Extracted

LEMMA ExtractedStep ==
    ASSUME Addressed, Extracted, [Next]_vars
    PROVE  Extracted'
  <1>0. Typed /\ Typed'
    BY TypedStep DEF Extracted
  <1>1. ASSUME UNCHANGED <<docs, made>>, mode' # "index" PROVE Extracted'
    BY <1>0, <1>1 DEF Extracted
  <1>2. CASE Change
    BY <1>1, <1>2 DEF Change
  <1>3. CASE StartIndex
    BY <1>3, StartExtracted
  <1>4. CASE \E d \in Range(docs) : StartPreview(d)
    BY <1>1, <1>4 DEF StartPreview
  <1>5. CASE Step /\ mode = "preview"
    BY <1>0, <1>1, <1>5, PreviewAlone
  <1>6. CASE Looping
    <2>1. mode # "idle" /\ Fails("looping") /\ UNCHANGED source
      BY <1>6 DEF Looping
    <2>2. QED
      BY <2>1, FailsExtracted
  <1>7. CASE NoDocument /\ mode = "index"
    BY <1>7, NoDocumentExtracted
  <1>8. CASE NextDocument /\ mode = "index"
    BY <1>8, NextDocumentExtracted
  <1>9. CASE UNCHANGED vars
    <2>1. UNCHANGED <<docs, made, mode, stack, file, missing>>
      BY <1>9 DEF vars
    <2>2. QED
      BY <1>0, <2>1 DEF Extracted
  <1>10. Step => mode = "index" \/ mode = "preview"
    BY <1>0 DEF Step, Looping, NoDocument, NextDocument, Turn, Typed
  <1>11. QED
    BY <1>2, <1>3, <1>4, <1>5, <1>6, <1>7, <1>8, <1>9, <1>10 DEF Next, Step

(* Once a file has been indexed to its end, and neither it nor a handler   *)
(* has changed since, the index holds exactly the documents that the       *)
(* recursive description of the file lists, up to the first failure of     *)
(* each handler, and each under a path of its own: whatever the handlers   *)
(* say of having more, what is popped with the document returned has       *)
(* nothing left to give.                                                   *)
THEOREM IndexingExtractsAll ==
    ASSUME Addressed
    PROVE  Spec => []IndexIsExact
  <1>1. Init => Extracted
    BY ExtractedInit
  <1>2. Extracted /\ [Next]_vars => Extracted'
    BY ExtractedStep
  <1>3. Extracted => IndexIsExact
    <2> SUFFICES ASSUME Extracted, Fresh
                 PROVE  /\ Range(docs) = Inside(FALSE)
                        /\ \A i, j \in DOMAIN docs : docs[i].ipath = docs[j].ipath => i = j
      BY DEF IndexIsExact
    <2>1. Splits(docs, <<>>, {}, file, missing)
      BY DEF Extracted, Fresh, Indexed
    <2>2. 1 .. Len(<<>>) = {}
      OBVIOUS
    <2>3. All(missing, MaxHandlers, file) = Range(docs)
          /\ \A i, j \in DOMAIN docs : docs[i].ipath = docs[j].ipath => i = j
      BY <2>1, <2>2 DEF Splits
    <2>4. Inside(FALSE) = All(missing, MaxHandlers, file)
      BY InsideIsHeld DEF All
    <2>5. QED
      BY <2>3, <2>4
  <1>4. QED
    BY <1>1, <1>2, <1>3, PTL DEF Spec

=============================================================================
