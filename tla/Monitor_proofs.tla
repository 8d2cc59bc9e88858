--------------------------- MODULE Monitor_proofs ---------------------------
(***************************************************************************)
(* Theorems about Monitor for any files, directories, intervals and number *)
(* of changes.                                                             *)
(***************************************************************************)
EXTENDS Monitor, FiniteSetTheorems, SequenceTheorems, WellFoundedInduction, TLAPS

-----------------------------------------------------------------------------
(* delayInsert() keeps the list of keys in the order of their times.       *)

LEMMA Least ==
    ASSUME NEW T \in SUBSET Nat, T # {}
    PROVE  \E i \in T : \A j \in T : i <= j
  <1> DEFINE R == {ss \in Nat \X Nat : ss[1] < ss[2]}
  <1>1. IsWellFoundedOn(R, Nat)
    BY NatLessThanWellFounded DEF OpToRel
  <1>2. PICK i \in T : \A j \in T : ~ (<<j, i>> \in R)
    BY <1>1, WFMin
  <1>3. \A j \in T : ~ (j < i)
    BY <1>2
  <1>4. QED
    BY <1>3

(* The list has the keys K, each once, in the order of the times of dq.    *)
InOrder(list, dq, K) ==
    /\ list \in Seq(K)
    /\ \A x \in K : \E i \in 1 .. Len(list) : list[i] = x
    /\ \A i, j \in 1 .. Len(list) :
           i < j => list[i] # list[j] /\ dq[list[i]].left <= dq[list[j]].left

InsertedAt(list, f, at) ==
    SubSeq(list, 1, at - 1) \o <<f>> \o SubSeq(list, at, Len(list))

Insertion(new, list, f, at) ==
    /\ Len(new) = Len(list) + 1
    /\ \A i \in 1 .. Len(list) + 1 :
           new[i] = IF i < at THEN list[i] ELSE IF i = at THEN f ELSE list[i - 1]

(* A new key goes after those that are due before it or with it.           *)
LEMMA InsertAt ==
    ASSUME NEW K, NEW f, NEW list \in Seq(K), NEW at, at \in 1 .. Len(list) + 1
    PROVE  /\ InsertedAt(list, f, at) \in Seq(K \cup {f})
           /\ Insertion(InsertedAt(list, f, at), list, f, at)
  <1> DEFINE S == K \cup {f}
             front == SubSeq(list, 1, at - 1)
             back == SubSeq(list, at, Len(list))
  <1>1. Len(list) \in Nat /\ \A i \in 1 .. Len(list) : list[i] \in S
    BY LenProperties, ElementOfSeq
  <1>2. /\ front \in Seq(S) /\ Len(front) = at - 1
        /\ \A i \in 1 .. at - 1 : front[i] = list[i]
    <2>1. \A i \in 1 .. at - 1 : list[i] \in S
      BY <1>1
    <2>2. /\ SubSeq(list, 1, at - 1) \in Seq(S)
          /\ Len(SubSeq(list, 1, at - 1)) = IF 1 <= at - 1 THEN at - 1 - 1 + 1 ELSE 0
          /\ \A i \in 1 .. at - 1 - 1 + 1 : SubSeq(list, 1, at - 1)[i] = list[1 + i - 1]
      BY <1>1, <2>1, SubSeqProperties
    <2>3. QED
      BY <1>1, <2>2
  <1>3. /\ back \in Seq(S) /\ Len(back) = Len(list) - at + 1
        /\ \A i \in 1 .. Len(list) - at + 1 : back[i] = list[at + i - 1]
    <2>1. \A i \in at .. Len(list) : list[i] \in S
      BY <1>1
    <2>2. /\ SubSeq(list, at, Len(list)) \in Seq(S)
          /\ Len(SubSeq(list, at, Len(list))) = IF at <= Len(list) THEN Len(list) - at + 1 ELSE 0
          /\ \A i \in 1 .. Len(list) - at + 1 : SubSeq(list, at, Len(list))[i] = list[at + i - 1]
      BY <1>1, <2>1, SubSeqProperties
    <2>3. QED
      BY <1>1, <2>2
  <1>4. <<f>> \in Seq(S) /\ Len(<<f>>) = 1 /\ <<f>>[1] = f
    OBVIOUS
  <1> HIDE DEF front, back
  <1>5. /\ front \o <<f>> \in Seq(S) /\ Len(front \o <<f>>) = at
        /\ \A i \in 1 .. at : (front \o <<f>>)[i] = IF i < at THEN list[i] ELSE f
    <2>1. /\ front \o <<f>> \in Seq(S) /\ Len(front \o <<f>>) = at - 1 + 1
          /\ \A i \in 1 .. at - 1 + 1 :
                 (front \o <<f>>)[i] = IF i <= at - 1 THEN front[i] ELSE <<f>>[i - (at - 1)]
      BY <1>2, <1>4, ConcatProperties
    <2>2. QED
      BY <1>1, <1>2, <1>4, <2>1
  <1>6. /\ front \o <<f>> \o back \in Seq(S) /\ Len(front \o <<f>> \o back) = Len(list) + 1
        /\ \A i \in 1 .. Len(list) + 1 :
               (front \o <<f>> \o back)[i] =
                   IF i < at THEN list[i] ELSE IF i = at THEN f ELSE list[i - 1]
    <2> DEFINE fr == front \o <<f>>
    <2>1. fr \in Seq(S) /\ Len(fr) = at
      BY <1>5
    <2> HIDE DEF fr
    <2>2. /\ fr \o back \in Seq(S) /\ Len(fr \o back) = at + Len(back)
          /\ \A i \in 1 .. at + Len(back) : (fr \o back)[i] = IF i <= at THEN fr[i] ELSE back[i - at]
      BY <1>3, <2>1, ConcatProperties
    <2>3. Len(fr \o back) = Len(list) + 1
      BY <1>1, <1>3, <2>2
    <2>4. ASSUME NEW i \in 1 .. Len(list) + 1
          PROVE  (fr \o back)[i] = IF i < at THEN list[i] ELSE IF i = at THEN f ELSE list[i - 1]
      <3>1. CASE i <= at
        BY <1>1, <1>3, <1>5, <2>2, <3>1 DEF fr
      <3>2. CASE i > at
        <4>1. i - at \in 1 .. Len(list) - at + 1 /\ at + (i - at) - 1 = i - 1
          BY <1>1, <3>2
        <4>2. back[i - at] = list[i - 1]
          BY <1>3, <4>1
        <4>3. QED
          BY <1>1, <1>3, <2>2, <3>2, <4>2
      <3>3. i <= at \/ i > at
        BY <1>1
      <3>4. QED
        BY <3>1, <3>2, <3>3
    <2>5. QED
      BY <2>2, <2>3, <2>4 DEF fr
  <1>7. QED
    BY <1>6 DEF front, back, InsertedAt, Insertion

LEMMA InsertKeepsOrder ==
    ASSUME NEW K, NEW f, f \notin K, NEW dq, \A x \in K \cup {f} : dq[x].left \in Nat,
           NEW list, InOrder(list, dq, K)
    PROVE  InOrder(DelayInsert(list, dq, f), dq, K \cup {f})
  <1>1. list \in Seq(K) /\ Len(list) \in Nat /\ \A i \in 1 .. Len(list) : list[i] \in K
    BY LenProperties, ElementOfSeq DEF InOrder
  <1> SUFFICES ASSUME NEW list2, list2 = DelayInsert(list, dq, f)
               PROVE  InOrder(list2, dq, K \cup {f})
    OBVIOUS
  <1>2. PICK at \in 1 .. Len(list) + 1 :
            /\ \A i \in 1 .. Len(list) : i < at => dq[list[i]].left <= dq[f].left
            /\ \A i \in 1 .. Len(list) : i >= at => dq[f].left <= dq[list[i]].left
            /\ list2 = InsertedAt(list, f, at)
    <2> DEFINE later == {i \in 1 .. Len(list) : dq[list[i]].left > dq[f].left}
               at == IF later = {} THEN Len(list) + 1
                     ELSE CHOOSE i \in later : \A j \in later : i <= j
    <2>0. list2 = InsertedAt(list, f, at)
      BY DEF DelayInsert, InsertedAt
    <2> SUFFICES /\ at \in 1 .. Len(list) + 1
                 /\ \A i \in 1 .. Len(list) : i < at => dq[list[i]].left <= dq[f].left
                 /\ \A i \in 1 .. Len(list) : i >= at => dq[f].left <= dq[list[i]].left
      BY <2>0
    <2>1. CASE later = {}
      BY <1>1, <2>1
    <2>2. CASE later # {}
      <3>1. later \in SUBSET Nat
        OBVIOUS
      <3>2. \E i \in later : \A j \in later : i <= j
        BY <2>2, <3>1, Least
      <3>3. at \in later /\ \A j \in later : at <= j
        BY <2>2, <3>2
      <3> HIDE DEF at
      <3>4. /\ at \in 1 .. Len(list) /\ dq[list[at]].left > dq[f].left
            /\ \A j \in 1 .. Len(list) : dq[list[j]].left > dq[f].left => at <= j
        BY <3>3
      <3>5. \A i \in 1 .. Len(list) : i < at => dq[list[i]].left <= dq[f].left
        BY <1>1, <3>4
      <3>6. ASSUME NEW i \in 1 .. Len(list), i >= at
            PROVE  dq[f].left <= dq[list[i]].left
        <4>1. dq[list[at]].left <= dq[list[i]].left
          BY <1>1, <3>4, <3>6 DEF InOrder
        <4>2. QED
          BY <1>1, <3>4, <4>1
      <3>7. QED
        BY <1>1, <3>4, <3>5, <3>6
    <2>3. QED
      BY <2>1, <2>2
  <1>4. /\ list2 \in Seq(K \cup {f}) /\ Len(list2) = Len(list) + 1
        /\ \A i \in 1 .. Len(list) + 1 :
               list2[i] = IF i < at THEN list[i] ELSE IF i = at THEN f ELSE list[i - 1]
    <2>1. list \in Seq(K) /\ at \in 1 .. Len(list) + 1
      BY <1>1, <1>2
    <2>2. list2 \in Seq(K \cup {f}) /\ Insertion(list2, list, f, at)
      BY <1>2, <2>1, InsertAt
    <2>3. QED
      BY <2>2 DEF Insertion
  <1>5. ASSUME NEW x \in K \cup {f}
        PROVE  \E i \in 1 .. Len(list2) : list2[i] = x
    <2>1. CASE x = f
      BY <1>2, <1>4, <2>1
    <2>2. CASE x \in K
      <3>1. PICK i \in 1 .. Len(list) : list[i] = x
        BY <2>2 DEF InOrder
      <3>2. CASE i < at
        BY <1>1, <1>2, <1>4, <3>1, <3>2
      <3>3. CASE i >= at
        <4>1. i + 1 \in 1 .. Len(list) + 1 /\ ~(i + 1 < at) /\ i + 1 # at /\ (i + 1) - 1 = i
          BY <1>1, <1>2, <3>3
        <4>2. list2[i + 1] = list[i]
          BY <1>4, <4>1
        <4>3. QED
          BY <1>4, <3>1, <4>1, <4>2
      <3>4. QED
        BY <1>2, <3>2, <3>3
    <2>3. QED
      BY <2>1, <2>2
  <1>6. ASSUME NEW i \in 1 .. Len(list2), NEW j \in 1 .. Len(list2), i < j
        PROVE  list2[i] # list2[j] /\ dq[list2[i]].left <= dq[list2[j]].left
    <2>1. i \in 1 .. Len(list) + 1 /\ j \in 1 .. Len(list) + 1
      BY <1>4
    <2>2. \A m, n \in 1 .. Len(list) :
              m < n => list[m] # list[n] /\ dq[list[m]].left <= dq[list[n]].left
      BY DEF InOrder
    <2>3. CASE j < at
      <3>1. i \in 1 .. Len(list) /\ j \in 1 .. Len(list) /\ list2[i] = list[i] /\ list2[j] = list[j]
        BY <1>1, <1>2, <1>4, <1>6, <2>1, <2>3
      <3>2. QED
        BY <1>6, <2>2, <3>1
    <2>4. CASE j = at
      <3>1. i \in 1 .. Len(list) /\ i < at /\ list2[i] = list[i] /\ list2[j] = f
        BY <1>1, <1>2, <1>4, <1>6, <2>1, <2>4
      <3>2. QED
        BY <1>1, <1>2, <3>1
    <2>5. CASE j > at
      <3>1. j - 1 \in 1 .. Len(list) /\ j - 1 >= at /\ list2[j] = list[j - 1]
        BY <1>1, <1>2, <1>4, <2>1, <2>5
      <3>2. CASE i < at
        <4>1. i \in 1 .. Len(list) /\ i < j - 1 /\ list2[i] = list[i]
          BY <1>1, <1>2, <1>4, <1>6, <2>1, <2>5, <3>2
        <4>2. QED
          BY <2>2, <3>1, <4>1
      <3>3. CASE i = at
        <4>1. list2[i] = f
          BY <1>2, <1>4, <2>1, <3>3
        <4>2. QED
          BY <1>1, <1>2, <3>1, <4>1
      <3>4. CASE i > at
        <4>1. i - 1 \in 1 .. Len(list) /\ i - 1 < j - 1 /\ list2[i] = list[i - 1]
          BY <1>1, <1>2, <1>4, <1>6, <2>1, <3>4
        <4>2. QED
          BY <2>2, <3>1, <4>1
      <3>5. QED
        BY <1>2, <2>1, <3>2, <3>3, <3>4
    <2>6. QED
      BY <1>2, <2>1, <2>3, <2>4, <2>5
  <1>7. QED
    BY <1>4, <1>5, <1>6 DEF InOrder

(* The rest of a list in order is in order.                                *)
LEMMA TailInOrder ==
    ASSUME NEW K, NEW dq, NEW list, InOrder(list, dq, K), list # << >>
    PROVE  /\ Head(list) \in K /\ InOrder(Tail(list), dq, K \ {Head(list)})
  <1> DEFINE f == Head(list)
             rest == Tail(list)
  <1>1. /\ list \in Seq(K) /\ Len(list) \in Nat /\ Len(list) # 0
        /\ \A i \in 1 .. Len(list) : list[i] \in K
    BY LenProperties, ElementOfSeq, EmptySeq DEF InOrder
  <1>2. /\ rest \in Seq(K) /\ Len(rest) = Len(list) - 1 /\ f = list[1] /\ f \in K
        /\ \A i \in 1 .. Len(rest) : rest[i] = list[i + 1]
    BY <1>1, HeadTailProperties
  <1> HIDE DEF f, rest
  <1>3. \A i, j \in 1 .. Len(list) :
            i < j => list[i] # list[j] /\ dq[list[i]].left <= dq[list[j]].left
    BY DEF InOrder
  <1>4. \A i \in 1 .. Len(rest) : i + 1 \in 1 .. Len(list) /\ 1 < i + 1
    BY <1>1, <1>2
  <1>5. \A i \in 1 .. Len(rest) : rest[i] \in K \ {f}
    BY <1>1, <1>2, <1>3, <1>4
  <1>6. rest \in Seq(K \ {f})
    <2>1. rest \in [1 .. Len(rest) -> K \ {f}] /\ Len(rest) \in Nat
      BY <1>1, <1>2, <1>5, LenProperties
    <2>2. QED
      BY <2>1
  <1>7. ASSUME NEW x \in K \ {f}
        PROVE  \E i \in 1 .. Len(rest) : rest[i] = x
    <2>1. PICK i \in 1 .. Len(list) : list[i] = x
      BY DEF InOrder
    <2>2. i - 1 \in 1 .. Len(rest) /\ (i - 1) + 1 = i
      BY <1>1, <1>2, <2>1
    <2>3. QED
      BY <1>2, <2>1, <2>2
  <1>8. ASSUME NEW i \in 1 .. Len(rest), NEW j \in 1 .. Len(rest), i < j
        PROVE  rest[i] # rest[j] /\ dq[rest[i]].left <= dq[rest[j]].left
    <2>1. i + 1 < j + 1
      BY <1>8
    <2>2. QED
      BY <1>2, <1>3, <1>4, <2>1
  <1>9. QED
    BY <1>2, <1>6, <1>7, <1>8 DEF InOrder, f, rest

(* An order stays one when the times change in the same sense.             *)
LEMMA SameOrder ==
    ASSUME NEW K, NEW dq, NEW dr, NEW list, InOrder(list, dq, K),
           \A x, y \in K : dq[x].left <= dq[y].left => dr[x].left <= dr[y].left
    PROVE  InOrder(list, dr, K)
  <1>1. \A i \in 1 .. Len(list) : list[i] \in K
    BY ElementOfSeq DEF InOrder
  <1>2. QED
    BY <1>1 DEF InOrder

-----------------------------------------------------------------------------
(* The shared queue.                                                       *)

QueueOK ==
    /\ DOMAIN iqueue \subseteq Paths \ Delayed
    /\ \A p \in DOMAIN iqueue :
           iqueue[p] \in Kinds /\ (iqueue[p] \in {"modify", "delete"} => p \in Files)
    /\ DOMAIN dqueue \subseteq Delayed /\ dqueue \in [DOMAIN dqueue -> DelayedEvents]
    /\ InOrder(delays, dqueue, DOMAIN dqueue)
    /\ overridden \subseteq Files

LEMMA WithoutFields ==
    ASSUME NEW m, NEW S
    PROVE  /\ DOMAIN Without(m, S) = DOMAIN m \ S
           /\ \A x \in DOMAIN m \ S : Without(m, S)[x] = m[x]
           /\ \A T : m \in [DOMAIN m -> T] => Without(m, S) \in [DOMAIN Without(m, S) -> T]
BY DEF Without

LEMMA PushOK ==
    ASSUME QueueOK, NEW p \in Paths, NEW kind \in Kinds,
           kind \in {"modify", "delete"} => p \in Files, PushEvent(p, kind)
    PROVE  QueueOK' /\ UNCHANGED pc
  <1>1. UNCHANGED pc
    BY DEF PushEvent
  <1>2. CASE PushNewDelayed(p, kind)
    <2> DEFINE e == [kind |-> kind, left |-> 0, need |-> TRUE, itv |-> Interval]
    <2>1. e \in DelayedEvents /\ e.left = 0
      BY TimesAssumption DEF DelayedEvents
    <2>2. /\ p \in Delayed /\ p \notin DOMAIN dqueue /\ dqueue' = With(dqueue, p, e)
          /\ delays' = DelayInsert(delays, dqueue', p) /\ UNCHANGED <<iqueue, overridden>>
      BY <1>2 DEF PushNewDelayed
    <2> HIDE DEF e
    <2>3. /\ DOMAIN dqueue' = DOMAIN dqueue \cup {p} /\ dqueue'[p] = e
          /\ \A x \in DOMAIN dqueue : dqueue'[x] = dqueue[x]
          /\ dqueue' \in [DOMAIN dqueue' -> DelayedEvents]
      BY <2>1, <2>2 DEF QueueOK, With
    <2>4. \A x \in DOMAIN dqueue \cup {p} : dqueue'[x].left \in Nat
      <3>1. \A x \in DOMAIN dqueue \cup {p} : dqueue'[x] \in DelayedEvents
        BY <2>3
      <3>2. QED
        BY <3>1, TimesAssumption DEF DelayedEvents
    <2>5. InOrder(delays, dqueue', DOMAIN dqueue)
      BY <2>3, SameOrder DEF QueueOK
    <2>6. InOrder(delays', dqueue', DOMAIN dqueue \cup {p})
      BY <2>2, <2>4, <2>5, InsertKeepsOrder
    <2>7. QED
      BY <1>1, <2>2, <2>3, <2>6 DEF QueueOK
  <1>3. CASE PushAgain(p, kind)
    <2> DEFINE e == [kind |-> kind, left |-> dqueue[p].left, need |-> TRUE, itv |-> 0]
    <2>1. /\ p \in DOMAIN dqueue /\ dqueue' = With(dqueue, p, e)
          /\ UNCHANGED <<iqueue, delays, overridden>>
      BY <1>3 DEF PushAgain
    <2>2. e \in DelayedEvents /\ e.left = dqueue[p].left
      BY <2>1, TimesAssumption DEF DelayedEvents, QueueOK
    <2> HIDE DEF e
    <2>3. /\ DOMAIN dqueue' = DOMAIN dqueue /\ dqueue'[p] = e
          /\ \A x \in DOMAIN dqueue : x # p => dqueue'[x] = dqueue[x]
          /\ dqueue' \in [DOMAIN dqueue' -> DelayedEvents]
      BY <2>1, <2>2 DEF QueueOK, With
    <2>4. \A x \in DOMAIN dqueue : dqueue'[x].left = dqueue[x].left
      BY <2>2, <2>3
    <2>5. InOrder(delays, dqueue', DOMAIN dqueue)
      BY <2>4, SameOrder DEF QueueOK
    <2>6. QED
      BY <1>1, <2>1, <2>3, <2>5 DEF QueueOK
  <1>4. CASE PushImmediate(p, kind)
    <2>1. /\ p \notin Delayed /\ iqueue' = With(iqueue, p, kind) /\ UNCHANGED <<dqueue, delays>>
      BY <1>4 DEF PushImmediate
    <2>2. overridden' \subseteq Files
      BY <1>4 DEF PushImmediate, QueueOK, In
    <2>3. /\ DOMAIN iqueue' = DOMAIN iqueue \cup {p} /\ iqueue'[p] = kind
          /\ \A x \in DOMAIN iqueue : x # p => iqueue'[x] = iqueue[x]
      BY <2>1 DEF With
    <2>4. QED
      BY <1>1, <2>1, <2>2, <2>3 DEF QueueOK
  <1>5. QED
    BY <1>2, <1>3, <1>4 DEF PushEvent

(* What pop() and the clock do to the delayed events.                      *)
LEMMA PopOK ==
    ASSUME QueueOK, PopExpired \/ DropExpired
    PROVE  QueueOK' /\ Head(delays) \in Files /\ dqueue[Head(delays)] \in DelayedEvents
  <1> DEFINE f == Head(delays)
             K == DOMAIN dqueue
  <1>1. delays # << >> /\ UNCHANGED <<iqueue, overridden>>
    BY DEF PopExpired, DropExpired, Expired
  <1>2. /\ f \in K /\ InOrder(Tail(delays), dqueue, K \ {f})
        /\ K \subseteq Delayed /\ dqueue \in [K -> DelayedEvents] /\ f \in Files
    BY <1>1, TailInOrder, PathsAssumption DEF QueueOK
  <1>3. CASE DropExpired
    <2>1. dqueue' = Without(dqueue, {f}) /\ delays' = Tail(delays)
      BY <1>3 DEF DropExpired
    <2>2. /\ DOMAIN dqueue' = K \ {f} /\ \A x \in K \ {f} : dqueue'[x] = dqueue[x]
          /\ dqueue' \in [DOMAIN dqueue' -> DelayedEvents]
      BY <1>2, <2>1, WithoutFields
    <2>3. InOrder(delays', dqueue', K \ {f})
      BY <1>2, <2>1, <2>2, SameOrder
    <2>4. QED
      BY <1>1, <1>2, <2>2, <2>3 DEF QueueOK
  <1>4. CASE PopExpired
    <2>1. /\ dqueue' = [dqueue EXCEPT ![f].left = dqueue[f].itv, ![f].need = FALSE]
          /\ delays' = DelayInsert(Tail(delays), dqueue', f)
      BY <1>4 DEF PopExpired
    <2>2. DOMAIN dqueue' = K /\ \A x \in K \ {f} : dqueue'[x] = dqueue[x]
      BY <1>2, <2>1
    <2>3. dqueue' \in [K -> DelayedEvents]
      <3>1. dqueue[f] \in DelayedEvents
        BY <1>2
      <3>2. dqueue'[f] = [dqueue[f] EXCEPT !.left = dqueue[f].itv, !.need = FALSE]
        BY <1>2, <2>1
      <3>3. dqueue'[f] \in DelayedEvents
        <4> DEFINE e == dqueue[f]
        <4>1. /\ e \in [kind : Kinds, left : 0 .. Interval, need : BOOLEAN, itv : {0, Interval}]
              /\ e.itv \in 0 .. Interval
          BY <3>1, TimesAssumption DEF DelayedEvents
        <4> HIDE DEF e
        <4>2. [e EXCEPT !.left = e.itv, !.need = FALSE] \in DelayedEvents
          BY <4>1 DEF DelayedEvents
        <4>3. QED
          BY <3>2, <4>2 DEF e
      <3>4. QED
        BY <1>2, <2>1, <2>2, <3>3
    <2>4. \A x \in (K \ {f}) \cup {f} : dqueue'[x].left \in Nat
      <3>1. \A x \in K : dqueue'[x] \in DelayedEvents
        BY <2>3
      <3>2. QED
        BY <1>2, <3>1, TimesAssumption DEF DelayedEvents
    <2>5. InOrder(Tail(delays), dqueue', K \ {f})
      BY <1>2, <2>2, SameOrder
    <2>6. InOrder(delays', dqueue', (K \ {f}) \cup {f})
      BY <2>1, <2>4, <2>5, InsertKeepsOrder
    <2>7. (K \ {f}) \cup {f} = K
      BY <1>2
    <2>8. QED
      BY <1>1, <1>2, <2>2, <2>3, <2>6, <2>7 DEF QueueOK
  <1>5. QED
    BY <1>2, <1>3, <1>4

LEMMA TickOK == QueueOK /\ Tick => QueueOK'
  <1> SUFFICES ASSUME QueueOK, Tick PROVE QueueOK'
    OBVIOUS
  <1> DEFINE K == DOMAIN dqueue
             less(n) == IF n > 0 THEN n - 1 ELSE 0
  <1>1. /\ dqueue' = [f \in K |-> [dqueue[f] EXCEPT !.left = less(@)]]
        /\ UNCHANGED <<iqueue, delays, overridden>>
    BY DEF Tick
  <1>2. /\ DOMAIN dqueue' = K
        /\ \A x \in K : /\ dqueue'[x] \in DelayedEvents /\ dqueue[x].left \in Nat
                        /\ dqueue'[x].left = less(dqueue[x].left)
    <2>1. ASSUME NEW x \in K
          PROVE  /\ dqueue'[x] \in DelayedEvents /\ dqueue[x].left \in Nat
                 /\ dqueue'[x].left = less(dqueue[x].left)
      <3>1. dqueue[x] \in DelayedEvents
        BY DEF QueueOK
      <3>2. dqueue'[x] = [dqueue[x] EXCEPT !.left = less(@)]
        BY <1>1
      <3>3. QED
        BY <3>1, <3>2, TimesAssumption DEF DelayedEvents
    <2>2. QED
      BY <1>1, <2>1
  <1>3. dqueue' \in [K -> DelayedEvents]
    BY <1>1, <1>2
  <1>4. InOrder(delays, dqueue', K)
    <2>1. \A x, y \in K : dqueue[x].left <= dqueue[y].left => dqueue'[x].left <= dqueue'[y].left
      BY <1>2
    <2>2. QED
      BY <2>1, SameOrder DEF QueueOK
  <1>5. QED
    BY <1>1, <1>2, <1>3, <1>4 DEF QueueOK

-----------------------------------------------------------------------------
(* Types.  The descriptors given out are bounded by the changes: each of   *)
(* them is the watch of a directory or was lost with one.                  *)

Told ==
    {e \in KernelEvents :
        IF e.kind \in {"modify", "delete"} THEN e.path \in Files ELSE e.path \in Dirs}
Watched == {d \in Places : watch[d] # 0}

TreeOK ==
    /\ disk \in [Files -> Versions] /\ there \subseteq Dirs /\ changes \in 0 .. MaxChanges
    /\ kernel \in Seq(Told)
WatchOK ==
    /\ nextwd \in Nat /\ nextwd <= changes + Cardinality(Watched)
    /\ watch \in [Places -> 0 .. nextwd]
    /\ idtopath \in Maps(1 .. nextwd, Places)
RecvOK == recv \in ReceiverStates /\ (recv.at \in {"drain", "watch", "list"} => recv.dir \in Places)
WorkOK ==
    /\ pc \in {"wait", "pop", "index"}
    /\ modified \subseteq Files /\ deleted \subseteq Files
    /\ statted \in [Files -> Versions] /\ index \in [Files -> Versions]
    /\ missed \subseteq Files

MTyped == TreeOK /\ WatchOK /\ RecvOK /\ QueueOK /\ WorkOK

LEMMA MapsAre == \A S, T, m : m \in Maps(S, T) <=> DOMAIN m \subseteq S /\ m \in [DOMAIN m -> T]
BY DEF Maps

LEMMA WatchBound ==
    ASSUME TreeOK, WatchOK
    PROVE  /\ IsFiniteSet(Places) /\ IsFiniteSet(Watched) /\ Watched \subseteq Places
           /\ Cardinality(Watched) \in Nat /\ Cardinality(Places) \in Nat
           /\ nextwd <= MaxChanges + Cardinality(Places)
           /\ \A d \in Places : watch[d] # 0 => watch[d] \in Descriptors
  <1>1. IsFiniteSet(Places) /\ Watched \subseteq Places
    BY PathsAssumption, FS_AddElement DEF Places, Watched
  <1>2. /\ IsFiniteSet(Watched) /\ Cardinality(Watched) <= Cardinality(Places)
        /\ Cardinality(Watched) \in Nat /\ Cardinality(Places) \in Nat
    BY <1>1, FS_Subset, FS_CardinalityType
  <1>3. nextwd <= MaxChanges + Cardinality(Places)
    BY <1>2, TimesAssumption DEF TreeOK, WatchOK
  <1>4. ASSUME NEW d \in Places, watch[d] # 0
        PROVE  watch[d] \in Descriptors
    <2>1. watch[d] \in 0 .. nextwd /\ nextwd \in Nat
      BY DEF WatchOK
    <2>2. watch[d] \in 1 .. MaxChanges + Cardinality(Places)
      BY <1>2, <1>3, <1>4, <2>1, TimesAssumption
    <2>3. QED
      BY <2>2 DEF Descriptors
  <1>5. QED
    BY <1>1, <1>2, <1>3, <1>4

LEMMA SentOK ==
    ASSUME TreeOK, WatchOK, NEW d \in Places, NEW path \in Paths,
           NEW kind \in {"modify", "delete", "mkdir", "rmdir", "movedfrom", "ignored"},
           IF kind \in {"modify", "delete"} THEN path \in Files ELSE path \in Dirs
    PROVE  Sent(d, path, kind) \in Seq(Told)
  <1>1. CASE watch[d] = 0
    BY <1>1, EmptySeq DEF Sent
  <1>2. CASE watch[d] # 0
    <2> DEFINE e == [wd |-> watch[d], path |-> path, kind |-> kind]
    <2>1. e \in Told
      BY <1>2, WatchBound DEF Told, KernelEvents
    <2> HIDE DEF e
    <2>2. <<e>> \in Seq(Told)
      BY <2>1
    <2>3. QED
      BY <1>2, <2>2 DEF Sent, e
  <1>3. QED
    BY <1>1, <1>2

(* The user's steps take at most one watch away.                           *)
LEMMA WatchLost ==
    ASSUME TreeOK, WatchOK, changes' = changes + 1, UNCHANGED <<nextwd, idtopath>>,
           \/ UNCHANGED watch
           \/ \E d \in Dirs : watch' = [watch EXCEPT ![d] = 0]
    PROVE  WatchOK'
  <1>1. changes \in Nat /\ nextwd \in Nat /\ nextwd <= changes + Cardinality(Watched)
    BY TimesAssumption DEF TreeOK, WatchOK
  <1>2. IsFiniteSet(Watched) /\ Cardinality(Watched) \in Nat
    BY WatchBound
  <1>3. CASE UNCHANGED watch
    <2>1. Watched' = Watched
      BY <1>3 DEF Watched
    <2>2. QED
      BY <1>1, <1>2, <1>3, <2>1 DEF WatchOK
  <1>4. CASE \E d \in Dirs : watch' = [watch EXCEPT ![d] = 0]
    <2>1. PICK d \in Dirs : watch' = [watch EXCEPT ![d] = 0]
      BY <1>4
    <2>2. watch' \in [Places -> 0 .. nextwd]
      BY <1>1, <2>1 DEF WatchOK, Places
    <2>3. Watched' = Watched \ {d}
      BY <2>1 DEF Watched, WatchOK, Places
    <2>4. Cardinality(Watched \ {d}) =
              IF d \in Watched THEN Cardinality(Watched) - 1 ELSE Cardinality(Watched)
      BY <1>2, FS_RemoveElement
    <2>5. nextwd <= changes + 1 + Cardinality(Watched')
      BY <1>1, <1>2, <2>3, <2>4
    <2>6. QED
      BY <1>1, <2>2, <2>5 DEF WatchOK
  <1>5. QED
    BY <1>3, <1>4

LEMMA UserTyped == MTyped /\ User => MTyped'
  <1> SUFFICES ASSUME MTyped, User PROVE MTyped'
    OBVIOUS
  <1>1. /\ changes < MaxChanges /\ changes' = changes + 1
        /\ UNCHANGED <<nextwd, idtopath, recv, queue, pc, work>>
    BY DEF User, Write, Remove, MakeDir, MoveOut, RmDir, Changed
  <1>2. /\ changes' \in 0 .. MaxChanges /\ changes + 2 \in Versions /\ 0 \in Versions
        /\ disk \in [Files -> Versions] /\ kernel \in Seq(Told) /\ Top \in Places
        /\ Dirs \subseteq Places /\ Paths = Files \cup Dirs /\ TreeOK /\ WatchOK
        /\ \A f \in Files : Home[f] \in Places
    BY <1>1, TimesAssumption, PathsAssumption DEF MTyped, TreeOK, Versions, Places, Paths
  <1>3. QueueOK' /\ RecvOK'
    BY <1>1 DEF MTyped, QueueOK, RecvOK, queue
  <1>4. CASE \E f \in Files : Write(f) \/ Remove(f)
    <2>1. PICK f \in Files : Write(f) \/ Remove(f)
      BY <1>4
    <2>2. PICK kind \in {"modify", "delete"} : kernel' = kernel \o Sent(Home[f], f, kind)
      BY <2>1 DEF Write, Remove
    <2>3. Sent(Home[f], f, kind) \in Seq(Told)
      BY <1>2, SentOK
    <2>4. kernel' \in Seq(Told)
      BY <1>2, <2>2, <2>3, ConcatProperties
    <2>5. /\ disk' \in [Files -> Versions] /\ there' \subseteq Dirs /\ missed' \subseteq Files
          /\ UNCHANGED watch
      BY <1>2, <2>1 DEF Write, Remove, MTyped, WorkOK, TreeOK
    <2>6. QED
      BY <1>1, <1>2, <1>3, <2>4, <2>5, WatchLost DEF MTyped, TreeOK, WorkOK, work
  <1>5. CASE \E d \in Dirs : (\E with \in SUBSET In(d) : MakeDir(d, with)) \/ MoveOut(d)
    <2>1. PICK d \in Dirs : (\E with \in SUBSET In(d) : MakeDir(d, with)) \/ MoveOut(d)
      BY <1>5
    <2>2. PICK kind \in {"mkdir", "movedfrom"} : kernel' = kernel \o Sent(Top, d, kind)
      BY <2>1 DEF MakeDir, MoveOut
    <2>3. Sent(Top, d, kind) \in Seq(Told)
      <3>1. kind \notin {"modify", "delete"} /\ d \in Paths
        BY <1>2
      <3>2. QED
        BY <1>2, <3>1, SentOK
    <2>4. kernel' \in Seq(Told)
      BY <1>2, <2>2, <2>3, ConcatProperties
    <2>5. /\ disk' \in [Files -> Versions] /\ there' \subseteq Dirs /\ missed' \subseteq Files
          /\ UNCHANGED watch \/ watch' = [watch EXCEPT ![d] = 0]
      BY <1>2, <2>1 DEF MakeDir, MoveOut, MTyped, WorkOK, TreeOK, In
    <2>6. QED
      BY <1>1, <1>2, <1>3, <2>4, <2>5, WatchLost DEF MTyped, TreeOK, WorkOK, work
  <1>6. CASE \E d \in Dirs : RmDir(d)
    <2>1. PICK d \in Dirs : RmDir(d)
      BY <1>6
    <2>2. kernel' = kernel \o Sent(Top, d, "rmdir") \o Sent(d, d, "ignored")
      BY <2>1 DEF RmDir
    <2>3. Sent(Top, d, "rmdir") \in Seq(Told) /\ Sent(d, d, "ignored") \in Seq(Told)
      BY <1>2, SentOK
    <2>4. kernel \o Sent(Top, d, "rmdir") \in Seq(Told)
      BY <1>2, <2>3, ConcatProperties
    <2>5. kernel' \in Seq(Told)
      BY <2>2, <2>3, <2>4, ConcatProperties
    <2>6. /\ UNCHANGED <<disk, missed>> /\ there' \subseteq Dirs
          /\ watch' = [watch EXCEPT ![d] = 0]
      BY <2>1 DEF RmDir, MTyped, TreeOK
    <2>7. QED
      BY <1>1, <1>2, <1>3, <2>5, <2>6, WatchLost DEF MTyped, TreeOK, WorkOK, work
  <1>7. QED
    BY <1>4, <1>5, <1>6 DEF User

(* The receiver's map.                                                     *)
LEMMA WithoutOK ==
    ASSUME WatchOK, NEW S, idtopath' = Without(idtopath, S), UNCHANGED <<nextwd, watch, changes>>
    PROVE  WatchOK'
  <1>1. idtopath' \in Maps(1 .. nextwd, Places)
    BY MapsAre, WithoutFields DEF WatchOK
  <1>2. Watched' = Watched
    BY DEF Watched
  <1>3. QED
    BY <1>1, <1>2 DEF WatchOK

LEMMA SameWatchOK ==
    ASSUME WatchOK, UNCHANGED <<idtopath, nextwd, watch, changes>>
    PROVE  WatchOK'
  <1>1. Watched' = Watched
    BY DEF Watched
  <1>2. QED
    BY <1>1 DEF WatchOK

LEMMA ConsumedOK ==
    ASSUME MTyped, Consumed
    PROVE  TreeOK' /\ Head(kernel) \in Told /\ Head(kernel) \in KernelEvents
  <1>1. Head(kernel) \in Told /\ Tail(kernel) \in Seq(Told)
    BY HeadTailProperties DEF MTyped, TreeOK, Consumed
  <1>2. QED
    BY <1>1 DEF MTyped, TreeOK, Consumed, Told

LEMMA TakeTyped ==
    ASSUME MTyped, Consumed, TakeUnknown \/ TakeFile \/ TakeGone \/ TakeIgnored
    PROVE  TreeOK' /\ WatchOK' /\ QueueOK' /\ WorkOK'
  <1> DEFINE e == Head(kernel)
  <1>1. /\ TreeOK' /\ e \in Told /\ e.path \in Paths \cup {Top}
        /\ UNCHANGED <<watch, nextwd, changes, modified, deleted, statted, index>>
        /\ WatchOK /\ QueueOK /\ WorkOK
    BY ConsumedOK DEF Consumed, KernelEvents, work, MTyped
  <1>2. CASE TakeUnknown
    <2>1. QueueOK' /\ WorkOK'
      BY <1>1, <1>2 DEF TakeUnknown, QueueOK, WorkOK, queue
    <2>2. QED
      BY <1>1, <1>2, <2>1, SameWatchOK DEF TakeUnknown
  <1>3. CASE TakeFile
    <2>1. /\ e.kind \in {"modify", "delete"} /\ PushEvent(e.path, e.kind)
          /\ UNCHANGED <<idtopath, missed>>
      BY <1>3 DEF TakeFile
    <2>2. e.path \in Files /\ e.path \in Paths /\ e.kind \in Kinds
      BY <1>1, <2>1 DEF Told, Kinds, Paths
    <2>3. QueueOK' /\ UNCHANGED pc
      BY <1>1, <2>1, <2>2, PushOK
    <2>4. WorkOK'
      BY <1>1, <2>1, <2>3 DEF WorkOK
    <2>5. QED
      BY <1>1, <2>1, <2>3, <2>4, SameWatchOK
  <1>4. CASE TakeGone
    <2>1. /\ e.kind \in {"rmdir", "movedfrom"} /\ PushEvent(e.path, "rmdir") /\ UNCHANGED missed
          /\ UNCHANGED idtopath \/ \E S : idtopath' = Without(idtopath, S)
      BY <1>4 DEF TakeGone
    <2>2. e.path \in Paths /\ "rmdir" \in Kinds
      BY <1>1, <2>1 DEF Told, Kinds, Paths
    <2>3. QueueOK' /\ UNCHANGED pc
      BY <1>1, <2>1, <2>2, PushOK
    <2>4. WorkOK'
      BY <1>1, <2>1, <2>3 DEF WorkOK
    <2>5. QED
      BY <1>1, <2>1, <2>3, <2>4, SameWatchOK, WithoutOK
  <1>5. CASE TakeIgnored
    <2>1. /\ UNCHANGED <<queue, pc, missed>>
          /\ \E S : idtopath' = Without(idtopath, S)
      BY <1>5 DEF TakeIgnored
    <2>2. QueueOK' /\ WorkOK'
      BY <1>1, <2>1 DEF QueueOK, WorkOK, queue
    <2>3. QED
      BY <1>1, <2>1, <2>2, WithoutOK
  <1>6. QED
    BY <1>2, <1>3, <1>4, <1>5

LEMMA AddWatchTyped == MTyped /\ AddWatch => MTyped'
  <1> SUFFICES ASSUME MTyped, AddWatch PROVE MTyped'
    OBVIOUS
  <1>1. /\ recv.at = "watch" /\ recv' = [recv EXCEPT !.at = "list"] /\ recv.dir \in Places
        /\ UNCHANGED <<disk, there, changes, kernel, queue, pc, work, missed>>
        /\ TreeOK /\ WatchOK /\ nextwd \in Nat
    BY DEF AddWatch, MTyped, RecvOK, WatchOK
  <1>2. TreeOK' /\ QueueOK' /\ WorkOK'
    BY <1>1 DEF MTyped, TreeOK, QueueOK, WorkOK, queue, work
  <1>3. RecvOK'
    <2>1. recv \in [at : {"idle", "visit", "drain", "watch", "list"},
                    todo : SUBSET (Paths \cup {Top}), dir : Places \cup {None},
                    for : Dirs \cup {None}]
      BY DEF MTyped, RecvOK, ReceiverStates
    <2>2. QED
      BY <1>1, <2>1 DEF RecvOK, ReceiverStates
  <1> DEFINE d == recv.dir
             wd == IF watch[d] # 0 THEN watch[d] ELSE nextwd + 1
  <1>4. CASE d \notin there \cup {Top}
    BY <1>1, <1>2, <1>3, <1>4, SameWatchOK DEF AddWatch, MTyped
  <1>5. CASE d \in there \cup {Top}
    <2>1. /\ watch' = [watch EXCEPT ![d] = wd]
          /\ nextwd' = IF wd > nextwd THEN wd ELSE nextwd
          /\ idtopath' = With(idtopath, wd, d)
      BY <1>5 DEF AddWatch
    <2>2. watch \in [Places -> 0 .. nextwd] /\ nextwd <= changes + Cardinality(Watched)
      BY DEF MTyped, WatchOK
    <2>3. /\ wd \in 1 .. nextwd' /\ nextwd' \in Nat /\ nextwd <= nextwd'
          /\ watch[d] # 0 => nextwd' = nextwd
          /\ watch[d] = 0 => nextwd' = nextwd + 1
      BY <1>1, <2>1, <2>2
    <2> HIDE DEF wd
    <2>4. watch' \in [Places -> 0 .. nextwd']
      BY <1>1, <2>1, <2>2, <2>3
    <2>5. idtopath' \in Maps(1 .. nextwd', Places)
      <3>1. DOMAIN idtopath \subseteq 1 .. nextwd /\ idtopath \in [DOMAIN idtopath -> Places]
        BY <1>1, MapsAre DEF WatchOK
      <3>2. DOMAIN idtopath' = DOMAIN idtopath \cup {wd} /\ idtopath' \in [DOMAIN idtopath' -> Places]
        BY <1>1, <2>1, <3>1 DEF With
      <3>3. DOMAIN idtopath' \subseteq 1 .. nextwd'
        BY <1>1, <2>3, <3>1, <3>2
      <3>4. QED
        BY <3>2, <3>3, MapsAre
    <2>6. nextwd' <= changes' + Cardinality(Watched')
      <3>1. IsFiniteSet(Watched) /\ Cardinality(Watched) \in Nat /\ changes \in Nat
        BY <1>1, WatchBound, TimesAssumption DEF TreeOK
      <3>2. Watched' = Watched \cup {d}
        BY <1>1, <2>1, <2>2, <2>3 DEF Watched
      <3>3. d \in Watched <=> watch[d] # 0
        BY <1>1 DEF Watched
      <3>4. Cardinality(Watched \cup {d}) =
                IF d \in Watched THEN Cardinality(Watched) ELSE Cardinality(Watched) + 1
        BY <3>1, FS_AddElement
      <3>5. QED
        BY <1>1, <2>2, <2>3, <3>1, <3>2, <3>3, <3>4
    <2>7. QED
      BY <1>2, <1>3, <2>3, <2>4, <2>5, <2>6 DEF MTyped, WatchOK
  <1>6. QED
    BY <1>4, <1>5

LEMMA ReceiverTyped == MTyped /\ Receiver => MTyped'
  <1> SUFFICES ASSUME MTyped, Receiver PROVE MTyped'
    OBVIOUS
  <1> USE DEF MTyped
  <1>1. /\ recv \in [at : {"idle", "visit", "drain", "watch", "list"},
                     todo : SUBSET (Paths \cup {Top}), dir : Places \cup {None},
                     for : Dirs \cup {None}]
        /\ recv.at \in {"drain", "watch", "list"} => recv.dir \in Places
    BY DEF RecvOK, ReceiverStates
  <1>2. CASE DrainEvent \/ RecvEvent
    <2>1. Consumed /\ Head(kernel) \in Told /\ Head(kernel) \in KernelEvents /\ TreeOK'
      BY <1>2, ConsumedOK DEF DrainEvent, RecvEvent
    <2>2. CASE UNCHANGED recv /\ (TakeUnknown \/ TakeFile \/ TakeGone \/ TakeIgnored)
      <3>1. RecvOK'
        BY <2>2 DEF RecvOK
      <3>2. QED
        BY <2>1, <2>2, <3>1, TakeTyped
    <2>3. CASE /\ NewDirNext /\ PushEvent(Head(kernel).path, "mkdir")
               /\ missed' = missed \cup {f \in In(Head(kernel).path) : disk[f] # 0}
               /\ UNCHANGED <<recv, idtopath>>
      <3>1. Head(kernel).path \in Paths /\ "mkdir" \in Kinds
        BY <2>1, <2>3 DEF NewDirNext, Told, Kinds, Paths
      <3>2. QueueOK' /\ UNCHANGED pc
        BY <2>3, <3>1, PushOK
      <3>3. WatchOK'
        BY <2>1, <2>3, SameWatchOK DEF Consumed
      <3>4. RecvOK' /\ WorkOK'
        BY <2>1, <2>3, <3>2 DEF Consumed, work, RecvOK, WorkOK, In
      <3>5. QED
        BY <2>1, <3>2, <3>3, <3>4
    <2>4. CASE /\ NewDirNext
               /\ recv' = [at |-> "visit", todo |-> {Head(kernel).path}, dir |-> None,
                           for |-> Head(kernel).path]
               /\ UNCHANGED <<idtopath, queue, pc, missed>>
      <3>1. Head(kernel).path \in Dirs
        BY <2>1, <2>4 DEF NewDirNext, Told
      <3>2. RecvOK'
        BY <2>4, <3>1 DEF RecvOK, ReceiverStates, Paths
      <3>3. WatchOK'
        BY <2>1, <2>4, SameWatchOK DEF Consumed
      <3>4. QueueOK' /\ WorkOK'
        BY <2>1, <2>4 DEF Consumed, work, queue, QueueOK, WorkOK
      <3>5. QED
        BY <2>1, <3>2, <3>3, <3>4
    <2>5. QED
      BY <1>2, <2>2, <2>3, <2>4 DEF DrainEvent, RecvEvent
  <1>3. CASE AddWatch
    BY <1>3, AddWatchTyped
  <1>4. CASE DrainEnds \/ ListDir \/ \E d \in Places : VisitDir(d)
    <2>1. /\ UNCHANGED <<tree, idtopath, queue, pc, work>>
          /\ missed' \subseteq missed
      BY <1>4 DEF DrainEnds, ListDir, VisitDir
    <2>2. TreeOK' /\ QueueOK' /\ WorkOK' /\ WatchOK'
      BY <2>1, SameWatchOK DEF tree, queue, work, TreeOK, QueueOK, WorkOK
    <2>3. RecvOK'
      <3>1. CASE DrainEnds
        BY <1>1, <3>1 DEF DrainEnds, RecvOK, ReceiverStates
      <3>2. CASE ListDir
        <4>1. PICK S \in SUBSET (Paths \cup {Top}) :
                  recv' = [recv EXCEPT !.at = "visit", !.dir = None, !.todo = recv.todo \cup S]
          <5>1. there \subseteq Paths /\ In(recv.dir) \subseteq Paths
            BY DEF TreeOK, Paths, In
          <5>2. QED
            BY <1>1, <3>2, <5>1 DEF ListDir
        <4>2. QED
          BY <1>1, <4>1 DEF RecvOK, ReceiverStates
      <3>3. CASE \E d \in Places : VisitDir(d)
        <4>1. PICK d \in Places : VisitDir(d)
          BY <3>3
        <4>2. \/ recv' = [recv EXCEPT !.at = "drain", !.todo = @ \ {d}, !.dir = d]
              \/ recv' = [recv EXCEPT !.todo = @ \ {d}] /\ recv.at = "visit"
          BY <4>1 DEF VisitDir
        <4>3. QED
          BY <1>1, <4>2 DEF RecvOK, ReceiverStates
      <3>4. QED
        BY <1>4, <3>1, <3>2, <3>3
    <2>4. QED
      BY <2>2, <2>3
  <1>5. CASE WalkEnds \/ \E f \in Files : VisitFile(f)
    <2>1. UNCHANGED <<tree, idtopath, work, missed>>
      BY <1>5 DEF WalkEnds, VisitFile
    <2>2. \/ UNCHANGED <<queue, pc>>
          \/ \E p \in Paths, kind \in Kinds :
                 (kind \in {"modify", "delete"} => p \in Files) /\ PushEvent(p, kind)
      <3>1. CASE WalkEnds
        <4>1. recv.for # None => recv.for \in Paths
          BY <1>1 DEF Paths
        <4>2. QED
          BY <3>1, <4>1 DEF WalkEnds, Kinds
      <3>2. CASE \E f \in Files : VisitFile(f)
        BY <3>2 DEF VisitFile, Kinds, Paths
      <3>3. QED
        BY <1>5, <3>1, <3>2
    <2>3. QueueOK' /\ UNCHANGED pc
      BY <2>2, PushOK DEF queue, QueueOK
    <2>4. TreeOK' /\ WorkOK' /\ WatchOK'
      BY <2>1, <2>3, SameWatchOK DEF tree, work, TreeOK, WorkOK
    <2>5. RecvOK'
      <3>1. CASE WalkEnds
        BY <3>1 DEF WalkEnds, RecvOK, ReceiverStates
      <3>2. CASE \E f \in Files : VisitFile(f)
        <4>1. PICK f \in Files : recv' = [recv EXCEPT !.todo = @ \ {f}] /\ recv.at = "visit"
          BY <3>2 DEF VisitFile
        <4>2. QED
          BY <1>1, <4>1 DEF RecvOK, ReceiverStates
      <3>3. QED
        BY <1>5, <3>1, <3>2
    <2>6. QED
      BY <2>3, <2>4, <2>5
  <1>6. QED
    BY <1>2, <1>3, <1>4, <1>5 DEF Receiver

LEMMA MainTyped == MTyped /\ (Main \/ Tick) => MTyped'
  <1> SUFFICES ASSUME MTyped, Main \/ Tick PROVE MTyped'
    OBVIOUS
  <1> USE DEF MTyped
  <1>1. UNCHANGED <<tree, idtopath, recv>> /\ missed' \subseteq Files
    BY DEF Main, Tick, Wake, PopExpired, DropExpired, PopImmediate, Skip, Purge, EndWork, StatOne,
           WriteOne, WorkOK
  <1>2. TreeOK' /\ WatchOK' /\ RecvOK'
    BY <1>1, SameWatchOK DEF tree, TreeOK, RecvOK
  <1>3. ASSUME NEW p, NEW kind, Sorted(p, kind), kind \in {"modify", "delete"} => p \in Files,
               pc' = pc
        PROVE  WorkOK'
    BY <1>1, <1>3 DEF Sorted, WorkOK, In
  <1>4. CASE PopExpired \/ DropExpired
    <2>1. QueueOK' /\ Head(delays) \in Files
      BY <1>4, PopOK
    <2>2. WorkOK'
      BY <1>1, <1>3, <1>4, <2>1 DEF PopExpired, DropExpired, WorkOK, work
    <2>3. QED
      BY <1>2, <2>1, <2>2
  <1>5. CASE \E p \in Paths : PopImmediate(p)
    <2>1. PICK p \in Paths : PopImmediate(p)
      BY <1>5
    <2>2. /\ p \in DOMAIN iqueue /\ Sorted(p, iqueue[p]) /\ iqueue' = Without(iqueue, {p})
          /\ UNCHANGED <<dqueue, delays, overridden, pc>>
      BY <2>1 DEF PopImmediate
    <2>3. /\ DOMAIN iqueue' = DOMAIN iqueue \ {p}
          /\ \A x \in DOMAIN iqueue \ {p} : iqueue'[x] = iqueue[x]
      BY <2>2 DEF Without
    <2>4. QueueOK'
      BY <2>2, <2>3 DEF QueueOK
    <2>5. WorkOK'
      BY <1>3, <2>2 DEF QueueOK
    <2>6. QED
      BY <1>2, <2>4, <2>5
  <1>6. CASE Wake \/ Skip \/ EndWork
    <2>1. UNCHANGED <<queue, work>> /\ pc' \in {"wait", "pop", "index"}
      BY <1>6 DEF Wake, Skip, EndWork
    <2>2. QED
      BY <1>1, <1>2, <2>1 DEF queue, work, QueueOK, WorkOK
  <1>7. CASE Purge \/ \E f \in Files : StatOne(f) \/ WriteOne(f)
    <2>1. 0 \in Versions
      BY TimesAssumption DEF Versions
    <2>2. QueueOK'
      BY <1>7 DEF Purge, StatOne, WriteOne, QueueOK, queue
    <2>3. WorkOK'
      BY <1>1, <1>7, <2>1 DEF Purge, StatOne, WriteOne, WorkOK, TreeOK
    <2>4. QED
      BY <1>2, <2>2, <2>3
  <1>8. CASE Tick
    <2>1. QueueOK'
      BY <1>8, TickOK
    <2>2. WorkOK'
      BY <1>1, <1>8 DEF Tick, work, WorkOK
    <2>3. QED
      BY <1>2, <2>1, <2>2
  <1>9. QED
    BY <1>4, <1>5, <1>6, <1>7, <1>8 DEF Main

LEMMA InitTyped == Init => MTyped
  <1> SUFFICES ASSUME Init PROVE MTyped
    OBVIOUS
  <1> USE DEF Init
  <1>1. << >> \in Seq(Told) /\ << >> \in Seq({}) /\ DOMAIN << >> = {} /\ Len(<< >>) = 0
    BY EmptySeq
  <1>2. \A T : << >> \in [{} -> T]
    <2>1. TAKE T
    <2>2. << >> \in Seq(T) /\ Len(<< >>) = 0
      BY EmptySeq
    <2>3. << >> \in [1 .. 0 -> T]
      BY <2>2, LenProperties
    <2>4. QED
      BY <2>3
  <1>3. {0, 1} \subseteq Versions
    BY TimesAssumption DEF Versions
  <1>4. TreeOK /\ WorkOK
    BY <1>1, <1>3, TimesAssumption DEF TreeOK, WorkOK
  <1>5. WatchOK
    <2>1. Watched = {}
      BY DEF Watched
    <2>2. Cardinality(Watched) = 0
      BY <2>1, FS_EmptySet
    <2>3. idtopath \in Maps(1 .. nextwd, Places)
      BY <1>1, <1>2, MapsAre
    <2>4. QED
      BY <2>2, <2>3 DEF WatchOK
  <1>6. RecvOK
    BY DEF RecvOK, ReceiverStates
  <1>7. QueueOK
    <2>1. InOrder(delays, dqueue, DOMAIN dqueue)
      BY <1>1 DEF InOrder
    <2>2. QED
      BY <1>1, <1>2, <2>1 DEF QueueOK
  <1>8. QED
    BY <1>4, <1>5, <1>6, <1>7 DEF MTyped

LEMMA NextTyped == MTyped /\ [Next]_vars => MTyped'
  <1> SUFFICES ASSUME MTyped, [Next]_vars PROVE MTyped'
    OBVIOUS
  <1>1. CASE UNCHANGED vars
    BY <1>1, SameWatchOK
       DEF vars, tree, queue, work, MTyped, TreeOK, RecvOK, QueueOK, WorkOK
  <1>2. QED
    BY <1>1, UserTyped, ReceiverTyped, MainTyped DEF Next

(* TypeOK: whatever the user does, the descriptors, the queues, the lists  *)
(* and the walk have their types and stay inside their bounds.             *)
THEOREM MonitorTyped == Spec => []TypeOK
  <1>1. MTyped => TypeOK
    <2> SUFFICES ASSUME MTyped PROVE TypeOK
      OBVIOUS
    <2>1. kernel \in Seq(KernelEvents)
      BY SeqMonotonic DEF MTyped, TreeOK, Told
    <2>2. nextwd \in {0} \cup Descriptors
      <3>1. /\ nextwd \in Nat /\ nextwd <= MaxChanges + Cardinality(Places)
            /\ Cardinality(Places) \in Nat /\ MaxChanges \in Nat
        BY WatchBound, TimesAssumption DEF MTyped, WatchOK
      <3>2. QED
        BY <3>1 DEF Descriptors
    <2>3. delays \in Seq(Delayed) /\ \A f \in DOMAIN dqueue : dqueue[f] \in DelayedEvents
      BY SeqMonotonic DEF MTyped, QueueOK, InOrder
    <2>4. QED
      BY <2>1, <2>2, <2>3 DEF MTyped, TreeOK, WatchOK, RecvOK, QueueOK, WorkOK, TypeOK
  <1>2. QED
    BY <1>1, InitTyped, NextTyped, PTL DEF Spec

(* DelaysMatchQueue: however the receiver pushes, the main thread pops and *)
(* the clock goes on, the sorted list of iterators has every delayed event *)
(* once, none that was erased, and the next one due first.                 *)
THEOREM DelaysSorted == Spec => []DelaysMatchQueue
  <1>1. MTyped => DelaysMatchQueue
    <2> SUFFICES ASSUME MTyped PROVE DelaysMatchQueue
      OBVIOUS
    <2>1. InOrder(delays, dqueue, DOMAIN dqueue)
      BY DEF MTyped, QueueOK
    <2>2. \A i \in 1 .. Len(delays) : delays[i] \in DOMAIN dqueue
      BY <2>1, ElementOfSeq DEF InOrder
    <2>3. QED
      BY <2>1, <2>2 DEF InOrder, DelaysMatchQueue
  <1>2. QED
    BY <1>1, InitTyped, NextTyped, PTL DEF Spec

-----------------------------------------------------------------------------
(* What is on its way.  The kernel's queue is read in its order: what      *)
(* counts is what comes after an event in it.                              *)

Holds(k, S) == \E i \in 1 .. Len(k) : k[i] \in S
Followed(k, S, T) ==
    \A i \in 1 .. Len(k) : k[i] \in S => \E j \in i + 1 .. Len(k) : k[j] \in T

Writes(f) == {e \in Told : e.kind = "modify" /\ e.path = f}
Removals(f) == {e \in Told : e.kind = "delete" /\ e.path = f}
Walks(d) == {e \in Told : e.kind = "mkdir" /\ e.path = d}
Losses(d) == {e \in Told : e.kind \in {"rmdir", "movedfrom"} /\ e.path = d}
Adds(f) == Writes(f) \cup Walks(Home[f])
Deletes(f) == Removals(f) \cup Losses(Home[f])

Grown(k, e, k2) ==
    /\ k2 \in Seq(Told) /\ Len(k2) = Len(k) + 1 /\ k2[Len(k) + 1] = e
    /\ \A i \in 1 .. Len(k) : k2[i] = k[i]

LEMMA GrownEvents ==
    ASSUME NEW k \in Seq(Told), NEW e, NEW k2, Grown(k, e, k2), NEW S, NEW T
    PROVE  /\ Holds(k, S) => Holds(k2, S)
           /\ e \in S => Holds(k2, S)
           /\ Followed(k, S, T) /\ e \notin S => Followed(k2, S, T)
           /\ e \in T /\ e \notin S => Followed(k2, S, T)
  <1>1. Len(k) \in Nat
    BY LenProperties
  <1>2. Holds(k, S) => Holds(k2, S)
    BY <1>1 DEF Grown, Holds
  <1>3. e \in S => Holds(k2, S)
    BY <1>1 DEF Grown, Holds
  <1>4. ASSUME e \notin S, NEW i \in 1 .. Len(k2), k2[i] \in S
        PROVE  i \in 1 .. Len(k) /\ k[i] \in S /\ Len(k2) \in i + 1 .. Len(k2)
    BY <1>1, <1>4 DEF Grown
  <1>5. Followed(k, S, T) /\ e \notin S => Followed(k2, S, T)
    <2> SUFFICES ASSUME Followed(k, S, T), e \notin S, NEW i \in 1 .. Len(k2), k2[i] \in S
                 PROVE  \E j \in i + 1 .. Len(k2) : k2[j] \in T
      BY DEF Followed
    <2>1. PICK j \in i + 1 .. Len(k) : k[j] \in T
      BY <1>4 DEF Followed
    <2>2. j \in i + 1 .. Len(k2) /\ k2[j] = k[j]
      BY <1>1, <1>4, <2>1 DEF Grown
    <2>3. QED
      BY <2>1, <2>2
  <1>6. e \in T /\ e \notin S => Followed(k2, S, T)
    <2> SUFFICES ASSUME e \in T, e \notin S, NEW i \in 1 .. Len(k2), k2[i] \in S
                 PROVE  \E j \in i + 1 .. Len(k2) : k2[j] \in T
      BY DEF Followed
    <2>1. Len(k2) \in i + 1 .. Len(k2) /\ k2[Len(k2)] = e
      BY <1>4 DEF Grown
    <2>2. QED
      BY <2>1
  <1>7. QED
    BY <1>2, <1>3, <1>5, <1>6

LEMMA TailEvents ==
    ASSUME NEW k \in Seq(Told), k # << >>, NEW S, NEW T
    PROVE  /\ Head(k) \in Told /\ Tail(k) \in Seq(Told)
           /\ Holds(k, S) => Head(k) \in S \/ Holds(Tail(k), S)
           /\ Followed(k, S, T) => Followed(Tail(k), S, T)
           /\ Followed(k, S, T) /\ Head(k) \in S => Holds(Tail(k), T)
  <1> DEFINE rest == Tail(k)
  <1>1. /\ Len(k) \in Nat \ {0} /\ Head(k) = k[1] /\ Head(k) \in Told
        /\ rest \in Seq(Told) /\ Len(rest) = Len(k) - 1
        /\ \A i \in 1 .. Len(rest) : rest[i] = k[i + 1]
    BY LenProperties, EmptySeq, HeadTailProperties
  <1> HIDE DEF rest
  <1>2. \A i \in 2 .. Len(k) : i - 1 \in 1 .. Len(rest) /\ rest[i - 1] = k[i]
    BY <1>1
  <1>3. Holds(k, S) => Head(k) \in S \/ Holds(rest, S)
    <2> SUFFICES ASSUME NEW i \in 1 .. Len(k), k[i] \in S, Head(k) \notin S
                 PROVE  Holds(rest, S)
      BY DEF Holds
    <2>1. i \in 2 .. Len(k)
      BY <1>1
    <2>2. QED
      BY <1>2, <2>1 DEF Holds
  <1>4. Followed(k, S, T) => Followed(rest, S, T)
    <2> SUFFICES ASSUME Followed(k, S, T), NEW i \in 1 .. Len(rest), rest[i] \in S
                 PROVE  \E j \in i + 1 .. Len(rest) : rest[j] \in T
      BY DEF Followed
    <2>1. i + 1 \in 1 .. Len(k) /\ k[i + 1] \in S
      BY <1>1
    <2>2. PICK j \in (i + 1) + 1 .. Len(k) : k[j] \in T
      BY <2>1 DEF Followed
    <2>3. j - 1 \in i + 1 .. Len(rest) /\ rest[j - 1] \in T
      BY <1>1, <1>2, <2>2
    <2>4. QED
      BY <2>3
  <1>5. Followed(k, S, T) /\ Head(k) \in S => Holds(rest, T)
    <2> SUFFICES ASSUME Followed(k, S, T), Head(k) \in S PROVE Holds(rest, T)
      OBVIOUS
    <2>1. PICK j \in 1 + 1 .. Len(k) : k[j] \in T
      BY <1>1 DEF Followed
    <2>2. j - 1 \in 1 .. Len(rest) /\ rest[j - 1] \in T
      BY <1>2, <2>1
    <2>3. QED
      BY <2>2 DEF Holds
  <1>6. QED
    BY <1>1, <1>3, <1>4, <1>5 DEF rest

LEMMA NoEvents ==
    ASSUME NEW S, NEW T
    PROVE  ~Holds(<< >>, S) /\ Followed(<< >>, S, T)
  <1>1. Len(<< >>) = 0
    BY EmptySeq
  <1>2. QED
    BY <1>1 DEF Holds, Followed

(* The kernel tells a watch, or nobody.                                    *)
LEMMA Tells ==
    ASSUME TreeOK, WatchOK, NEW d \in Places, NEW path \in Paths,
           NEW kind \in {"modify", "delete", "mkdir", "rmdir", "movedfrom", "ignored"},
           IF kind \in {"modify", "delete"} THEN path \in Files ELSE path \in Dirs,
           NEW k \in Seq(Told)
    PROVE  /\ watch[d] = 0 => k \o Sent(d, path, kind) = k
           /\ watch[d] # 0 =>
                  \E e \in Told : /\ e.wd = watch[d] /\ e.path = path /\ e.kind = kind
                                  /\ Grown(k, e, k \o Sent(d, path, kind))
  <1>1. CASE watch[d] = 0
    <2>1. Sent(d, path, kind) = << >>
      BY <1>1 DEF Sent
    <2>2. k \o << >> = k
      BY ConcatEmptySeq
    <2>3. QED
      BY <1>1, <2>1, <2>2
  <1>2. CASE watch[d] # 0
    <2> DEFINE e == [wd |-> watch[d], path |-> path, kind |-> kind]
    <2>1. e \in Told /\ e.wd = watch[d] /\ e.path = path /\ e.kind = kind
      BY <1>2, WatchBound DEF Told, KernelEvents
    <2>2. Sent(d, path, kind) = <<e>>
      BY <1>2 DEF Sent
    <2> HIDE DEF e
    <2>3. <<e>> \in Seq(Told) /\ Len(<<e>>) = 1 /\ <<e>>[1] = e /\ Len(k) \in Nat
      BY <2>1, LenProperties
    <2>4. /\ k \o <<e>> \in Seq(Told) /\ Len(k \o <<e>>) = Len(k) + Len(<<e>>)
          /\ \A i \in 1 .. Len(k) + Len(<<e>>) :
                 (k \o <<e>>)[i] = IF i <= Len(k) THEN k[i] ELSE <<e>>[i - Len(k)]
      BY <2>3, ConcatProperties
    <2>5. Grown(k, e, k \o <<e>>)
      <3>1. Len(k) + 1 \in 1 .. Len(k) + 1 /\ ~(Len(k) + 1 <= Len(k)) /\ Len(k) + 1 - Len(k) = 1
        BY <2>3
      <3>2. \A i \in 1 .. Len(k) : i \in 1 .. Len(k) + 1 /\ i <= Len(k)
        BY <2>3
      <3>3. QED
        BY <2>3, <2>4, <3>1, <3>2 DEF Grown
    <2>6. QED
      BY <1>2, <2>1, <2>2, <2>5
  <1>3. QED
    BY <1>1, <1>2

-----------------------------------------------------------------------------
(* The invariant of the monitor.                                           *)

(* The events of the directories come from the watch of the top directory, *)
(* which is the first to be placed and is never lost.                      *)
FromTop(k, wd) ==
    \A i \in 1 .. Len(k) :
        /\ k[i].kind \in {"mkdir", "rmdir", "movedfrom"} => k[i].wd = wd
        /\ k[i].kind = "ignored" => k[i].wd # wd
KernelOK == FromTop(kernel, watch[Top])
TopOK ==
    /\ watch[Top] # 0 => watch[Top] \in DOMAIN idtopath /\ idtopath[watch[Top]] = Top
    /\ watch[Top] = 0 => /\ kernel = << >> /\ \A d \in Dirs : watch[d] = 0
                         /\ \/ recv.at = "visit" /\ recv.todo = {Top}
                            \/ recv.at \in {"drain", "watch"} /\ recv.dir = Top
    /\ \A d \in Dirs : watch[d] # 0 => watch[d] # watch[Top]
WalkOK ==
    /\ recv.at \in {"idle", "visit"} => recv.dir = None
    /\ recv.at = "idle" => recv.todo = {}
PhaseOK ==
    /\ pc = "index" => deleted = {}
    /\ pc # "index" => \A f \in Files : statted[f] = 0

(* What was deleted and is there again is followed by an event that says   *)
(* so, and the reverse; a watch is lost with an event for its directory.   *)
Ordered(f) ==
    /\ disk[f] # 0 => Home[f] \in there \cup {Top}
    /\ Home[f] \in there \cup {Top} /\ watch[Home[f]] = 0 =>
           Followed(kernel, Deletes(f), Walks(Home[f]))
    /\ watch[Home[f]] = 0 => Followed(kernel, Writes(f), Losses(Home[f]))
    /\ disk[f] # 0 => Followed(kernel, Deletes(f), Adds(f))
    /\ disk[f] = 0 => Followed(kernel, Writes(f), Deletes(f))

(* The receiver is still to push the file, or has missed it.               *)
Walked(f) == f \in recv.todo \/ Home[f] \in recv.todo \/ recv.dir = Home[f]
Coming(f) == f \in missed \/ Holds(kernel, Adds(f)) \/ Walked(f)
Queued(f) == Waiting(f, "modify") \/ f \in modified

(* A file that is there: whatever still removes it from the index, and     *)
(* whatever is wrong in it, is followed by its present version.            *)
Present(f) ==
    /\ Waiting(f, "delete") => Coming(f)
    /\ Waiting(Home[f], "rmdir") =>
           Coming(f) \/ Waiting(f, "modify") \/ (f \in modified /\ pc = "pop")
    /\ f \in deleted => Coming(f) \/ Queued(f)
    /\ statted[f] # 0 /\ statted[f] # disk[f] => Coming(f) \/ Queued(f)
    /\ index[f] # disk[f] =>
           Coming(f) \/ Queued(f) \/ statted[f] = disk[f] \/ f \in overridden

(* A file that is gone: its deletion is on its way.                        *)
Going(f) ==
    \/ f \in missed \/ f \in overridden \/ Holds(kernel, Deletes(f))
    \/ Waiting(f, "delete") \/ Waiting(Home[f], "rmdir") \/ f \in deleted
Absent(f) == index[f] # 0 \/ statted[f] # 0 => Going(f)

Tracked(f) == (disk[f] # 0 => Present(f)) /\ (disk[f] = 0 => Absent(f))

Settled ==
    /\ MTyped /\ KernelOK /\ TopOK /\ WalkOK /\ PhaseOK
    /\ \A f \in Files : Ordered(f) /\ Tracked(f)

(* The names are kept apart.                                               *)
LEMMA Names ==
    /\ Top \in Places /\ Dirs \subseteq Places /\ Places = Dirs \cup {Top} /\ Paths = Files \cup Dirs
    /\ Top \notin Dirs /\ Top \notin Paths /\ None \notin Places /\ None \notin Paths
    /\ \A f \in Files : /\ f \in Paths /\ f \notin Dirs /\ f \notin Places
                         /\ Home[f] \in Places /\ Home[f] \notin Files
    /\ \A d \in Dirs : d \in Paths /\ d # Top /\ d \notin Files
    /\ Delayed \subseteq Files
BY PathsAssumption DEF Places, Paths

-----------------------------------------------------------------------------
(* The user.                                                               *)

(* A step that adds to the kernel's queue and leaves the rest to be done.  *)
LEMMA UserTracks ==
    ASSUME Settled, NEW f \in Files, UNCHANGED <<recv, queue, pc, work>>,
           \A S : Holds(kernel, S) => Holds(kernel', S), f \in missed => f \in missed',
           \/ disk'[f] = disk[f]
           \/ disk'[f] # 0 /\ (f \in missed' \/ Holds(kernel', Adds(f)))
           \/ disk'[f] = 0 /\ (f \in missed' \/ Holds(kernel', Deletes(f)))
    PROVE  Tracked(f)'
  <1>1. /\ UNCHANGED <<iqueue, dqueue, overridden, modified, deleted, statted, index, pc, recv>>
        /\ Waiting(f, "delete")' = Waiting(f, "delete")
        /\ Waiting(f, "modify")' = Waiting(f, "modify")
        /\ Waiting(Home[f], "rmdir")' = Waiting(Home[f], "rmdir")
        /\ Walked(f)' = Walked(f) /\ Tracked(f)
    BY DEF queue, work, Waiting, Walked, Settled
  <1>2. Holds(kernel, Adds(f)) => Holds(kernel', Adds(f))
    OBVIOUS
  <1>3. Holds(kernel, Deletes(f)) => Holds(kernel', Deletes(f))
    OBVIOUS
  <1>4. CASE disk'[f] = disk[f]
    BY <1>1, <1>2, <1>3, <1>4 DEF Tracked, Present, Absent, Coming, Queued, Going
  <1>5. CASE disk'[f] # 0 /\ (f \in missed' \/ Holds(kernel', Adds(f)))
    BY <1>5 DEF Tracked, Present, Coming
  <1>6. CASE disk'[f] = 0 /\ (f \in missed' \/ Holds(kernel', Deletes(f)))
    BY <1>6 DEF Tracked, Absent, Going
  <1>7. QED
    BY <1>4, <1>5, <1>6

LEMMA Wider ==
    ASSUME NEW k, NEW S, NEW T, NEW U, T \subseteq U, Followed(k, S, T)
    PROVE  Followed(k, S, U)
BY DEF Followed

LEMMA GrownFromTop ==
    ASSUME NEW k \in Seq(Told), NEW wd, FromTop(k, wd), NEW e, NEW k2, Grown(k, e, k2),
           e.kind \in {"mkdir", "rmdir", "movedfrom"} => e.wd = wd,
           e.kind = "ignored" => e.wd # wd
    PROVE  FromTop(k2, wd)
  <1>1. Len(k) \in Nat
    BY LenProperties
  <1>2. ASSUME NEW i \in 1 .. Len(k2)
        PROVE  k2[i] = e \/ (i \in 1 .. Len(k) /\ k2[i] = k[i])
    BY <1>1 DEF Grown
  <1>3. QED
    BY <1>2 DEF FromTop

(* Writing and removing.                                                   *)
LEMMA FileSettles ==
    ASSUME Settled, NEW f \in Files, Write(f) \/ Remove(f)
    PROVE  Settled'
  <1> DEFINE d == Home[f]
  <1>1. /\ MTyped /\ MTyped' /\ TreeOK /\ WatchOK /\ kernel \in Seq(Told)
        /\ f \in Paths /\ d \in Places /\ d \in Dirs \cup {Top}
    BY UserTyped, Names DEF Settled, MTyped, TreeOK, User
  <1>2. /\ UNCHANGED <<nextwd, idtopath, recv, queue, pc, work, there, watch>>
        /\ missed' = IF watch[d] = 0 THEN missed \cup {f} ELSE missed
        /\ \A g \in Files : g # f => disk'[g] = disk[g]
    BY <1>1 DEF Write, Remove, Changed, TreeOK
  <1>3. WalkOK' /\ PhaseOK'
    BY <1>2 DEF Settled, WalkOK, PhaseOK, work
  <1>4. watch[Top] = 0 => watch[d] = 0
    BY <1>1 DEF Settled, TopOK
  <1>5. PICK kind \in {"modify", "delete"} :
            /\ kernel' = kernel \o Sent(d, f, kind)
            /\ kind = "modify" => disk'[f] # 0 /\ d \in there \cup {Top}
            /\ kind = "delete" => disk'[f] = 0
    <2>1. CASE Write(f)
      <3>1. disk'[f] = changes + 2 /\ changes + 2 # 0
        BY <1>1, <2>1, TimesAssumption DEF Write, TreeOK
      <3>2. QED
        BY <2>1, <3>1 DEF Write
    <2>2. CASE Remove(f)
      BY <1>1, <2>2 DEF Remove, TreeOK
    <2>3. QED
      BY <2>1, <2>2
  <1>6. CASE watch[d] = 0
    <2>1. kernel' = kernel /\ f \in missed' /\ missed \subseteq missed'
      BY <1>1, <1>2, <1>5, <1>6, Tells
    <2>2. KernelOK' /\ TopOK'
      BY <1>2, <2>1 DEF Settled, KernelOK, TopOK
    <2>3. ASSUME NEW g \in Files
          PROVE  Ordered(g)' /\ Tracked(g)'
      <3>1. Ordered(g)
        BY DEF Settled
      <3>2. Ordered(g)'
        <4>1. CASE g # f
          BY <1>2, <2>1, <3>1, <4>1 DEF Ordered
        <4>2. CASE g = f /\ kind = "modify"
          <5>1. Followed(kernel, Deletes(f), Adds(f))
            BY <1>5, <1>6, <3>1, <4>2, Wider DEF Ordered, Adds
          <5>2. QED
            BY <1>2, <1>5, <2>1, <3>1, <4>2, <5>1 DEF Ordered
        <4>3. CASE g = f /\ kind = "delete"
          <5>1. Followed(kernel, Writes(f), Deletes(f))
            BY <1>6, <3>1, <4>3, Wider DEF Ordered, Deletes
          <5>2. QED
            BY <1>2, <1>5, <2>1, <3>1, <4>3, <5>1 DEF Ordered
        <4>4. QED
          BY <4>1, <4>2, <4>3
      <3>3. Tracked(g)'
        BY <1>2, <2>1, UserTracks
      <3>4. QED
        BY <3>2, <3>3
    <2>4. QED
      BY <1>1, <1>3, <2>2, <2>3 DEF Settled
  <1>7. CASE watch[d] # 0
    <2>0. \E e \in Told : /\ e.wd = watch[d] /\ e.path = f /\ e.kind = kind
                           /\ Grown(kernel, e, kernel \o Sent(d, f, kind))
      <3>1. kind \in {"modify", "delete", "mkdir", "rmdir", "movedfrom", "ignored"}
        OBVIOUS
      <3> HIDE DEF d
      <3>2. QED
        BY <1>1, <1>7, <3>1, Tells
    <2>1. PICK e \in Told : e.wd = watch[d] /\ e.path = f /\ e.kind = kind /\ Grown(kernel, e, kernel')
      BY <1>5, <2>0
    <2>2. \A S, T : /\ Holds(kernel, S) => Holds(kernel', S)
                    /\ e \in S => Holds(kernel', S)
                    /\ Followed(kernel, S, T) /\ e \notin S => Followed(kernel', S, T)
                    /\ e \in T /\ e \notin S => Followed(kernel', S, T)
      BY <1>1, <2>1, GrownEvents
    <2>3. KernelOK'
      BY <1>1, <1>2, <2>1, GrownFromTop DEF Settled, KernelOK
    <2>4. TopOK'
      BY <1>2, <1>4, <1>7 DEF Settled, TopOK
    <2>5. ASSUME NEW g \in Files
          PROVE  Ordered(g)' /\ Tracked(g)'
      <3>1. Ordered(g)
        BY DEF Settled
      <3>2. CASE g # f
        <4>1. e \notin Writes(g) /\ e \notin Deletes(g)
          BY <2>1, <3>2 DEF Writes, Deletes, Removals, Losses
        <4>2. Ordered(g)'
          BY <1>2, <2>2, <3>1, <3>2, <4>1 DEF Ordered
        <4>3. Tracked(g)'
          BY <1>2, <2>2, <3>2, UserTracks
        <4>4. QED
          BY <4>2, <4>3
      <3>3. CASE g = f /\ kind = "modify"
        <4>1. e \in Adds(g) /\ e \notin Deletes(g)
          BY <2>1, <3>3 DEF Adds, Writes, Deletes, Removals, Losses
        <4>2. Ordered(g)'
          BY <1>2, <1>5, <1>7, <2>2, <3>1, <3>3, <4>1 DEF Ordered
        <4>3. Tracked(g)'
          BY <1>2, <1>5, <2>2, <3>3, <4>1, UserTracks
        <4>4. QED
          BY <4>2, <4>3
      <3>4. CASE g = f /\ kind = "delete"
        <4>1. e \in Deletes(g) /\ e \notin Writes(g)
          BY <2>1, <3>4 DEF Writes, Deletes, Removals
        <4>2. Ordered(g)'
          BY <1>2, <1>5, <1>7, <2>2, <3>1, <3>4, <4>1 DEF Ordered
        <4>3. Tracked(g)'
          BY <1>2, <1>5, <2>2, <3>4, <4>1, UserTracks
        <4>4. QED
          BY <4>2, <4>3
      <3>5. QED
        BY <3>2, <3>3, <3>4
    <2>6. QED
      BY <1>1, <1>3, <2>3, <2>4, <2>5 DEF Settled
  <1>8. QED
    BY <1>6, <1>7

(* A directory comes or goes.                                              *)
LEMMA MakeDirSettles ==
    ASSUME Settled, NEW d \in Dirs, NEW with \in SUBSET In(d), MakeDir(d, with)
    PROVE  Settled'
  <1>1. /\ MTyped /\ MTyped' /\ TreeOK /\ WatchOK /\ kernel \in Seq(Told)
        /\ d \in Paths /\ d \in Places /\ Top \in Places /\ with \subseteq Files
        /\ \A g \in with : Home[g] = d
    BY UserTyped, Names DEF Settled, MTyped, TreeOK, User, In
  <1>2. /\ UNCHANGED <<nextwd, idtopath, recv, queue, pc, work, watch>>
        /\ there' = there \cup {d} /\ missed' = missed \cup with
        /\ kernel' = kernel \o Sent(Top, d, "mkdir")
    BY DEF MakeDir, Changed
  <1>3. \A g \in Files : IF g \in with THEN disk'[g] # 0 ELSE disk'[g] = disk[g]
    <2>1. changes + 2 # 0
      BY <1>1, TimesAssumption DEF TreeOK
    <2>2. QED
      BY <2>1 DEF MakeDir
  <1>4. WalkOK' /\ PhaseOK'
    BY <1>2 DEF Settled, WalkOK, PhaseOK, work
  <1>5. ASSUME \A S : Holds(kernel, S) => Holds(kernel', S), NEW g \in Files
        PROVE  Tracked(g)'
    BY <1>2, <1>3, <1>5, UserTracks
  <1>6. CASE watch[Top] = 0
    <2>1. kernel = << >> /\ kernel' = kernel
      <3>1. kernel = << >>
        BY <1>6 DEF Settled, TopOK
      <3>2. kernel \o Sent(Top, d, "mkdir") = kernel
        BY <1>1, <1>6, Tells
      <3>3. QED
        BY <1>2, <3>1, <3>2
    <2>2. KernelOK' /\ TopOK'
      BY <1>2, <2>1 DEF Settled, KernelOK, TopOK
    <2>3. ASSUME NEW g \in Files PROVE Ordered(g)'
      <3>1. Ordered(g)
        BY DEF Settled
      <3>2. \A S, T : Followed(kernel', S, T)
        BY <2>1, NoEvents
      <3>3. disk'[g] # 0 => Home[g] \in there' \cup {Top}
        BY <1>1, <1>2, <1>3, <3>1 DEF Ordered
      <3>4. QED
        BY <3>2, <3>3 DEF Ordered
    <2>4. QED
      BY <1>1, <1>4, <1>5, <2>1, <2>2, <2>3 DEF Settled
  <1>7. CASE watch[Top] # 0
    <2>0. \E e \in Told : /\ e.wd = watch[Top] /\ e.path = d /\ e.kind = "mkdir"
                           /\ Grown(kernel, e, kernel \o Sent(Top, d, "mkdir"))
      BY <1>1, <1>7, Tells
    <2>1. PICK e \in Told : e.wd = watch[Top] /\ e.path = d /\ e.kind = "mkdir" /\ Grown(kernel, e, kernel')
      BY <1>2, <2>0
    <2>2. \A S, T : /\ Holds(kernel, S) => Holds(kernel', S)
                    /\ e \in S => Holds(kernel', S)
                    /\ Followed(kernel, S, T) /\ e \notin S => Followed(kernel', S, T)
                    /\ e \in T /\ e \notin S => Followed(kernel', S, T)
      BY <1>1, <2>1, GrownEvents
    <2>3. KernelOK'
      BY <1>1, <1>2, <2>1, GrownFromTop DEF Settled, KernelOK
    <2>4. TopOK'
      BY <1>2, <1>7 DEF Settled, TopOK
    <2>5. ASSUME NEW g \in Files PROVE Ordered(g)'
      <3>1. Ordered(g) /\ e \notin Writes(g) /\ e \notin Deletes(g)
        BY <2>1 DEF Settled, Writes, Deletes, Removals, Losses
      <3>2. Home[g] = d => e \in Walks(Home[g]) /\ e \in Adds(g)
        BY <2>1 DEF Walks, Adds
      <3>3. CASE Home[g] = d
        BY <1>1, <1>2, <1>3, <2>2, <3>1, <3>2, <3>3 DEF Ordered
      <3>4. CASE Home[g] # d
        BY <1>1, <1>2, <1>3, <2>2, <3>1, <3>4 DEF Ordered
      <3>5. QED
        BY <3>3, <3>4
    <2>6. QED
      BY <1>1, <1>4, <1>5, <2>2, <2>3, <2>4, <2>5 DEF Settled
  <1>8. QED
    BY <1>6, <1>7

(* What the queue of the kernel gets when a directory goes: an event of    *)
(* the top directory, and one of its own watch when it was removed.        *)
LEMMA GoneSettles ==
    ASSUME Settled, NEW d \in Dirs, MoveOut(d) \/ RmDir(d)
    PROVE  Settled'
  <1>1. /\ MTyped /\ MTyped' /\ TreeOK /\ WatchOK /\ kernel \in Seq(Told)
        /\ d \in Paths /\ d \in Places /\ Top \in Places /\ d # Top
        /\ watch \in [Places -> 0 .. nextwd]
    BY UserTyped, Names DEF Settled, MTyped, TreeOK, User, WatchOK
  <1>2. /\ UNCHANGED <<nextwd, idtopath, recv, queue, pc, work>>
        /\ there' = there \ {d} /\ missed \subseteq missed'
        /\ \A x \in Places : watch'[x] = IF x = d THEN 0 ELSE watch[x]
    BY <1>1 DEF MoveOut, RmDir, Changed
  <1>3. ASSUME NEW g \in Files
        PROVE  /\ disk'[g] = IF Home[g] = d THEN 0 ELSE disk[g]
               /\ disk'[g] # disk[g] /\ watch[Top] = 0 => g \in missed'
    <2>1. CASE MoveOut(d)
      BY <2>1 DEF MoveOut, In
    <2>2. CASE RmDir(d)
      BY <2>2 DEF RmDir, In
    <2>3. QED
      BY <2>1, <2>2
  <1>4. WalkOK' /\ PhaseOK'
    BY <1>2 DEF Settled, WalkOK, PhaseOK, work
  <1>5. CASE watch[Top] = 0
    <2>1. kernel = << >> /\ watch[d] = 0
      BY <1>5 DEF Settled, TopOK
    <2>2. kernel' = kernel
      <3>1. CASE MoveOut(d)
        BY <1>1, <1>5, <3>1, Tells DEF MoveOut
      <3>2. CASE RmDir(d)
        <4>1. kernel \o Sent(Top, d, "rmdir") = kernel
          BY <1>1, <1>5, Tells
        <4>2. kernel \o Sent(d, d, "ignored") = kernel
          <5>1. TreeOK /\ WatchOK /\ d \in Places /\ d \in Paths /\ watch[d] = 0 /\ kernel \in Seq(Told)
            BY <1>1, <2>1
          <5>2. QED
            BY <5>1, Tells
        <4>3. QED
          BY <3>2, <4>1, <4>2 DEF RmDir
      <3>3. QED
        BY <3>1, <3>2
    <2>3. KernelOK' /\ TopOK'
      BY <1>1, <1>2, <1>5, <2>1, <2>2, Names DEF Settled, KernelOK, TopOK
    <2>4. ASSUME NEW g \in Files PROVE Ordered(g)' /\ Tracked(g)'
      <3>1. Ordered(g) /\ \A S, T : Followed(kernel', S, T)
        BY <2>1, <2>2, NoEvents DEF Settled
      <3>2. Ordered(g)'
        BY <1>1, <1>2, <1>3, <3>1 DEF Ordered
      <3>3. Tracked(g)'
        BY <1>2, <1>3, <1>5, <2>2, UserTracks
      <3>4. QED
        BY <3>2, <3>3
    <2>5. QED
      BY <1>1, <1>4, <2>3, <2>4 DEF Settled
  <1>6. CASE watch[Top] # 0
    <2>1. PICK e \in Told, k \in Seq(Told) :
              /\ e.wd = watch[Top] /\ e.path = d /\ e.kind \in {"rmdir", "movedfrom"}
              /\ Grown(kernel, e, k)
              /\ \/ kernel' = k
                 \/ \E e2 \in Told : /\ e2.kind = "ignored" /\ e2.wd # watch[Top]
                                     /\ Grown(k, e2, kernel')
      <3>1. CASE MoveOut(d)
        <4>1. \E e \in Told : /\ e.wd = watch[Top] /\ e.path = d /\ e.kind = "movedfrom"
                              /\ Grown(kernel, e, kernel \o Sent(Top, d, "movedfrom"))
          BY <1>1, <1>6, Tells
        <4>2. kernel' = kernel \o Sent(Top, d, "movedfrom")
          BY <3>1 DEF MoveOut
        <4>3. QED
          BY <4>1, <4>2 DEF Grown
      <3>2. CASE RmDir(d)
        <4> DEFINE k == kernel \o Sent(Top, d, "rmdir")
        <4>1. PICK e \in Told : e.wd = watch[Top] /\ e.path = d /\ e.kind = "rmdir" /\ Grown(kernel, e, k)
          BY <1>1, <1>6, Tells
        <4>2. kernel' = k \o Sent(d, d, "ignored") /\ k \in Seq(Told)
          BY <3>2, <4>1 DEF RmDir, Grown
        <4> HIDE DEF k
        <4>3. CASE watch[d] = 0
          <5>1. kernel' = k
            BY <1>1, <4>2, <4>3, Tells
          <5>2. QED
            BY <4>1, <4>2, <5>1
        <4>4. CASE watch[d] # 0
          <5>1. PICK e2 \in Told : /\ e2.wd = watch[d] /\ e2.kind = "ignored"
                                   /\ Grown(k, e2, k \o Sent(d, d, "ignored"))
            BY <1>1, <4>2, <4>4, Tells
          <5>2. e2.wd # watch[Top]
            BY <4>4, <5>1 DEF Settled, TopOK
          <5>3. QED
            BY <4>1, <4>2, <5>1, <5>2
        <4>5. QED
          BY <4>3, <4>4
      <3>3. QED
        BY <3>1, <3>2
    <2>2. /\ FromTop(k, watch[Top])
          /\ \A S, T : /\ Holds(kernel, S) => Holds(k, S)
                       /\ e \in S => Holds(k, S)
                       /\ Followed(kernel, S, T) /\ e \notin S => Followed(k, S, T)
                       /\ e \in T /\ e \notin S => Followed(k, S, T)
      <3>1. FromTop(k, watch[Top])
        BY <1>1, <2>1, GrownFromTop DEF Settled, KernelOK
      <3>2. QED
        BY <1>1, <2>1, <3>1, GrownEvents
    <2>3. /\ FromTop(kernel', watch[Top])
          /\ \A S : Holds(k, S) => Holds(kernel', S)
          /\ \A g \in Files : \A T :
                 /\ Followed(k, Deletes(g), T) => Followed(kernel', Deletes(g), T)
                 /\ Followed(k, Writes(g), T) => Followed(kernel', Writes(g), T)
      <3>1. CASE kernel' = k
        BY <2>2, <3>1
      <3>2. CASE \E e2 \in Told : e2.kind = "ignored" /\ e2.wd # watch[Top] /\ Grown(k, e2, kernel')
        <4>1. PICK e2 \in Told : e2.kind = "ignored" /\ e2.wd # watch[Top] /\ Grown(k, e2, kernel')
          BY <3>2
        <4>2. \A g \in Files : e2 \notin Deletes(g) /\ e2 \notin Writes(g)
          BY <4>1 DEF Deletes, Removals, Losses, Writes
        <4>3. FromTop(kernel', watch[Top])
          BY <2>2, <4>1, GrownFromTop
        <4>4. \A S, T : /\ Holds(k, S) => Holds(kernel', S)
                        /\ Followed(k, S, T) /\ e2 \notin S => Followed(kernel', S, T)
          BY <4>1, GrownEvents
        <4>5. QED
          BY <4>2, <4>3, <4>4
      <3>3. QED
        BY <2>1, <3>1, <3>2
    <2>4. KernelOK' /\ TopOK'
      BY <1>1, <1>2, <1>6, <2>3, Names DEF Settled, KernelOK, TopOK
    <2>5. ASSUME NEW g \in Files PROVE Ordered(g)' /\ Tracked(g)'
      <3>1. Ordered(g) /\ e \notin Writes(g) /\ Home[g] \in Places
        BY <2>1, Names DEF Settled, Writes
      <3>2. CASE Home[g] = d
        <4>1. e \in Losses(Home[g]) /\ e \in Deletes(g)
          BY <2>1, <3>2 DEF Deletes, Losses
        <4>2. disk'[g] = 0 /\ Home[g] \notin there' \cup {Top}
          BY <1>1, <1>2, <1>3, <3>2
        <4>3. /\ Followed(kernel', Writes(g), Losses(Home[g]))
              /\ Followed(kernel', Writes(g), Deletes(g))
          BY <2>2, <2>3, <3>1, <4>1
        <4>4. Ordered(g)'
          BY <4>2, <4>3 DEF Ordered
        <4>5. Tracked(g)'
          BY <1>2, <2>2, <2>3, <4>1, <4>2, UserTracks
        <4>6. QED
          BY <4>4, <4>5
      <3>3. CASE Home[g] # d
        <4>1. e \notin Deletes(g)
          BY <2>1, <3>3, Names DEF Deletes, Removals, Losses
        <4>2. disk'[g] = disk[g] /\ watch'[Home[g]] = watch[Home[g]]
          BY <1>1, <1>2, <1>3, <3>1, <3>3
        <4>3. Home[g] \in there' \cup {Top} <=> Home[g] \in there \cup {Top}
          BY <1>2, <3>3
        <4>4. Ordered(g)'
          BY <2>2, <2>3, <3>1, <4>1, <4>2, <4>3 DEF Ordered
        <4>5. Tracked(g)'
          BY <1>2, <2>2, <2>3, <4>2, UserTracks
        <4>6. QED
          BY <4>4, <4>5
      <3>4. QED
        BY <3>2, <3>3
    <2>6. QED
      BY <1>1, <1>4, <2>4, <2>5 DEF Settled
  <1>7. QED
    BY <1>5, <1>6

LEMMA UserSettles == Settled /\ User => Settled'
BY FileSettles, MakeDirSettles, GoneSettles DEF User
-----------------------------------------------------------------------------
(* The receiver.                                                           *)

LEMMA WaitingOnce ==
    ASSUME QueueOK, NEW p \in Paths, NEW k, NEW l, Waiting(p, k), Waiting(p, l)
    PROVE  k = l
BY DEF Waiting, QueueOK

(* A push replaces what waits for its path and nothing else.               *)
LEMMA PushWaits ==
    ASSUME QueueOK, NEW p \in Paths, NEW kind, PushEvent(p, kind)
    PROVE  /\ \A x, k : x # p => (Waiting(x, k)' <=> Waiting(x, k))
           /\ \A k : Waiting(p, k)' <=> k = kind
           /\ UNCHANGED pc /\ overridden \subseteq overridden'
           /\ \A f \in Files : /\ Home[f] = p /\ p \notin Delayed
                               /\ Waiting(p, "rmdir") /\ kind # "rmdir"
                               /\ index[f] + statted[f] # 0
                               => f \in overridden'
  <1>1. UNCHANGED pc
    BY DEF PushEvent
  <1>2. CASE PushNewDelayed(p, kind)
    <2>1. /\ p \in Delayed /\ UNCHANGED <<iqueue, overridden>> /\ p \notin DOMAIN iqueue
          /\ DOMAIN dqueue' = DOMAIN dqueue \cup {p}
          /\ dqueue'[p].kind = kind /\ dqueue'[p].need
          /\ \A x \in DOMAIN dqueue : x # p => dqueue'[x] = dqueue[x]
      BY <1>2 DEF PushNewDelayed, With, QueueOK
    <2>2. QED
      BY <1>1, <2>1 DEF Waiting
  <1>3. CASE PushAgain(p, kind)
    <2>1. /\ p \in Delayed /\ UNCHANGED <<iqueue, overridden>> /\ p \notin DOMAIN iqueue
          /\ DOMAIN dqueue' = DOMAIN dqueue \cup {p}
          /\ dqueue'[p].kind = kind /\ dqueue'[p].need
          /\ \A x \in DOMAIN dqueue : x # p => dqueue'[x] = dqueue[x]
      BY <1>3 DEF PushAgain, With, QueueOK
    <2>2. QED
      BY <1>1, <2>1 DEF Waiting
  <1>4. CASE PushImmediate(p, kind)
    <2>1. /\ p \notin Delayed /\ UNCHANGED dqueue /\ p \notin DOMAIN dqueue
          /\ DOMAIN iqueue' = DOMAIN iqueue \cup {p} /\ iqueue'[p] = kind
          /\ \A x \in DOMAIN iqueue : x # p => iqueue'[x] = iqueue[x]
      BY <1>4 DEF PushImmediate, With, QueueOK
    <2>2. /\ \A x, k : x # p => (Waiting(x, k)' <=> Waiting(x, k))
          /\ \A k : Waiting(p, k)' <=> k = kind
      BY <2>1 DEF Waiting
    <2>3. overridden \subseteq overridden'
      BY <1>4 DEF PushImmediate
    <2>4. Waiting(p, "rmdir") => p \in DOMAIN iqueue /\ iqueue[p] = "rmdir"
      BY <2>1 DEF Waiting
    <2>5. ASSUME NEW f \in Files, Home[f] = p, Waiting(p, "rmdir"), kind # "rmdir",
                 index[f] + statted[f] # 0
          PROVE  f \in overridden'
      BY <1>4, <2>4, <2>5 DEF PushImmediate, In
    <2>6. QED
      BY <1>1, <2>2, <2>3, <2>5
  <1>5. QED
    BY <1>2, <1>3, <1>4 DEF PushEvent

LEMMA RecvTracks ==
    ASSUME Settled, NEW f \in Files,
           UNCHANGED <<disk, statted, index, modified, deleted, pc>>,
           overridden \subseteq overridden',
           disk[f] # 0 =>
               \/ Coming(f)'
               \/ Waiting(f, "modify")' /\ ~ Waiting(f, "delete")'
               \/ /\ ~ Coming(f) /\ (Waiting(f, "modify") => Waiting(f, "modify")')
                  /\ Waiting(f, "delete")' => Waiting(f, "delete")
                  /\ Waiting(Home[f], "rmdir")' => Waiting(Home[f], "rmdir"),
           disk[f] = 0 /\ (index[f] # 0 \/ statted[f] # 0) /\ Going(f) => Going(f)'
    PROVE  Tracked(f)'
  <1>1. CASE disk[f] = 0
    BY <1>1 DEF Settled, Tracked, Absent
  <1>2. CASE disk[f] # 0
    <2>1. Present(f)
      BY <1>2 DEF Settled, Tracked
    <2>2. Present(f)'
      <3>1. CASE Coming(f)'
        BY <3>1 DEF Present
      <3>2. CASE Waiting(f, "modify")' /\ ~ Waiting(f, "delete")'
        BY <3>2 DEF Present, Queued
      <3>3. CASE /\ ~ Coming(f) /\ (Waiting(f, "modify") => Waiting(f, "modify")')
                 /\ Waiting(f, "delete")' => Waiting(f, "delete")
                 /\ Waiting(Home[f], "rmdir")' => Waiting(Home[f], "rmdir")
        <4>1. /\ ~ Waiting(f, "delete")'
              /\ Waiting(Home[f], "rmdir")' =>
                     Waiting(f, "modify")' \/ (f \in modified' /\ pc' = "pop")
              /\ f \in deleted' => Queued(f)'
              /\ statted'[f] # 0 /\ statted'[f] # disk'[f] => Queued(f)'
              /\ index'[f] # disk'[f] => Queued(f)' \/ statted'[f] = disk'[f] \/ f \in overridden'
          BY <2>1, <3>3 DEF Present, Queued
        <4>2. QED
          BY <4>1 DEF Present
      <3>4. QED
        BY <1>2, <3>1, <3>2, <3>3
    <2>3. QED
      BY <1>2, <2>2 DEF Tracked
  <1>3. QED
    BY <1>1, <1>2

LEMMA RecvOrders ==
    ASSUME Settled, UNCHANGED <<disk, there>>, \A d \in Places : watch'[d] = 0 => watch[d] = 0,
           kernel' = kernel \/ (kernel # << >> /\ kernel' = Tail(kernel))
    PROVE  \A f \in Files : Ordered(f)'
  <1> SUFFICES ASSUME NEW f \in Files PROVE Ordered(f)'
    OBVIOUS
  <1>1. Ordered(f) /\ Home[f] \in Places /\ kernel \in Seq(Told)
    BY Names DEF Settled, MTyped, TreeOK
  <1>2. \A S, T : Followed(kernel, S, T) => Followed(kernel', S, T)
    <2>1. kernel # << >> =>
              \A S, T : Followed(kernel, S, T) => Followed(Tail(kernel), S, T)
      BY <1>1, TailEvents
    <2>2. QED
      BY <2>1
  <1>3. QED
    BY <1>1, <1>2 DEF Ordered

(* What is known of the first event of the kernel's queue.                 *)
LEMMA FirstEvent ==
    ASSUME Settled, Consumed
    PROVE  /\ Head(kernel) \in Told /\ watch[Top] # 0
           /\ watch[Top] \in DOMAIN idtopath /\ idtopath[watch[Top]] = Top
           /\ Head(kernel).kind \in {"mkdir", "rmdir", "movedfrom"} => Head(kernel).wd = watch[Top]
           /\ Head(kernel).kind = "ignored" => Head(kernel).wd # watch[Top]
           /\ \A S : Holds(kernel, S) => Head(kernel) \in S \/ Holds(kernel', S)
           /\ KernelOK' /\ \A f \in Files : Ordered(f)'
           /\ \A f \in Files : /\ disk[f] # 0 /\ Head(kernel) \in Deletes(f) => Holds(kernel', Adds(f))
                               /\ disk[f] = 0 /\ Head(kernel) \in Writes(f) => Holds(kernel', Deletes(f))
  <1>1. /\ kernel # << >> /\ kernel' = Tail(kernel) /\ kernel \in Seq(Told)
        /\ UNCHANGED <<disk, there, watch>>
    BY DEF Consumed, Settled, MTyped, TreeOK
  <1>2. watch[Top] # 0 /\ watch[Top] \in DOMAIN idtopath /\ idtopath[watch[Top]] = Top
    BY <1>1 DEF Settled, TopOK
  <1>3. /\ Len(kernel) \in Nat \ {0} /\ Head(kernel) = kernel[1] /\ Head(kernel) \in Told
        /\ Len(Tail(kernel)) = Len(kernel) - 1
        /\ \A i \in 1 .. Len(Tail(kernel)) : Tail(kernel)[i] = kernel[i + 1]
    BY <1>1, LenProperties, EmptySeq, HeadTailProperties
  <1>4. FromTop(kernel, watch[Top])
    BY DEF Settled, KernelOK
  <1>5. /\ Head(kernel).kind \in {"mkdir", "rmdir", "movedfrom"} => Head(kernel).wd = watch[Top]
        /\ Head(kernel).kind = "ignored" => Head(kernel).wd # watch[Top]
    <2>1. 1 \in 1 .. Len(kernel)
      BY <1>3
    <2>2. QED
      BY <1>3, <1>4, <2>1 DEF FromTop
  <1>6. KernelOK'
    <2>1. \A i \in 1 .. Len(Tail(kernel)) : i + 1 \in 1 .. Len(kernel)
      BY <1>3
    <2>2. FromTop(Tail(kernel), watch[Top])
      BY <1>3, <1>4, <2>1 DEF FromTop
    <2>3. QED
      BY <1>1, <2>2 DEF KernelOK
  <1>7. \A f \in Files : Ordered(f)'
    BY <1>1, RecvOrders
  <1>8. \A S, T : /\ Holds(kernel, S) => Head(kernel) \in S \/ Holds(kernel', S)
                  /\ Followed(kernel, S, T) /\ Head(kernel) \in S => Holds(kernel', T)
    BY <1>1, TailEvents
  <1>9. \A f \in Files : /\ disk[f] # 0 => Followed(kernel, Deletes(f), Adds(f))
                         /\ disk[f] = 0 => Followed(kernel, Writes(f), Deletes(f))
    BY DEF Settled, Ordered
  <1>10. QED
    BY <1>2, <1>3, <1>5, <1>6, <1>7, <1>8, <1>9

(* The events of a file and of a directory that is gone: what replaces     *)
(* them, or is replaced by them, is followed by what is right.             *)
LEMMA TakeSettles ==
    ASSUME Settled, MTyped', Consumed, UNCHANGED recv,
           TakeUnknown \/ TakeFile \/ TakeGone \/ TakeIgnored
    PROVE  Settled'
  <1> DEFINE e == Head(kernel)
  <1>1. /\ e \in Told /\ watch[Top] # 0
        /\ watch[Top] \in DOMAIN idtopath /\ idtopath[watch[Top]] = Top
        /\ e.kind \in {"mkdir", "rmdir", "movedfrom"} => e.wd = watch[Top]
        /\ e.kind = "ignored" => e.wd # watch[Top]
        /\ \A S : Holds(kernel, S) => e \in S \/ Holds(kernel', S)
        /\ KernelOK' /\ \A f \in Files : Ordered(f)'
        /\ \A f \in Files : /\ disk[f] # 0 /\ e \in Deletes(f) => Holds(kernel', Adds(f))
                            /\ disk[f] = 0 /\ e \in Writes(f) => Holds(kernel', Deletes(f))
    BY FirstEvent
  <1> HIDE DEF e
  <1>2. /\ UNCHANGED <<disk, there, watch, recv, modified, deleted, statted, index>>
        /\ QueueOK /\ \A f \in Files : f \in Paths /\ Home[f] \notin Files /\ f \notin Dirs
        /\ e.kind \in {"modify", "delete"} => e.path \in Files
        /\ e.kind \notin {"modify", "delete"} => e.path \in Dirs
    BY <1>1, Names DEF Consumed, work, Settled, MTyped, Told
  <1>3. ASSUME NEW f \in Files, missed \subseteq missed'
        PROVE  /\ Walked(f)' = Walked(f)
               /\ Coming(f) => Coming(f)' \/ e \in Adds(f)
    BY <1>1, <1>2, <1>3 DEF Coming, Walked
  <1>4. ASSUME UNCHANGED pc, idtopath' = idtopath \/
                   (\E S : idtopath' = Without(idtopath, S) /\ watch[Top] \notin S)
        PROVE  TopOK' /\ WalkOK' /\ PhaseOK'
    <2>1. watch[Top] \in DOMAIN idtopath' /\ idtopath'[watch[Top]] = Top
      BY <1>1, <1>4 DEF Without
    <2>2. QED
      BY <1>1, <1>2, <1>4, <2>1 DEF Settled, TopOK, WalkOK, PhaseOK
  <1>5. \A f \in Files : /\ e \in Adds(f) <=> \/ e.kind = "modify" /\ e.path = f
                                              \/ e.kind = "mkdir" /\ e.path = Home[f]
                         /\ e \in Deletes(f) <=> \/ e.kind = "delete" /\ e.path = f
                                                 \/ e.kind \in {"rmdir", "movedfrom"} /\ e.path = Home[f]
                         /\ e \in Writes(f) <=> e.kind = "modify" /\ e.path = f
    BY <1>1 DEF Adds, Writes, Walks, Deletes, Removals, Losses
  <1>6. CASE TakeUnknown
    <2>1. /\ e.wd \notin DOMAIN idtopath /\ missed' = missed \cup ({e.path} \cap Files)
          /\ UNCHANGED <<idtopath, queue, pc>>
      BY <1>6 DEF TakeUnknown, e
    <2>2. e.kind \notin {"mkdir", "rmdir", "movedfrom"}
      BY <1>1, <2>1
    <2>3. UNCHANGED <<iqueue, dqueue, overridden, pc, idtopath>> /\ missed \subseteq missed'
      BY <2>1 DEF queue
    <2>4. ASSUME NEW f \in Files PROVE Tracked(f)'
      <3>1. \A x, k : Waiting(x, k)' = Waiting(x, k)
        BY <2>3 DEF Waiting
      <3>2. CASE e.path = f
        <4>1. f \in missed'
          BY <2>1, <3>2
        <4>2. Coming(f)' /\ Going(f)'
          BY <4>1 DEF Coming, Going
        <4>3. QED
          BY <1>2, <2>3, <4>2, RecvTracks
      <3>3. CASE e.path # f
        <4>1. e \notin Adds(f) /\ e \notin Deletes(f)
          BY <1>5, <2>2, <3>3
        <4>2. Coming(f) => Coming(f)'
          BY <1>3, <2>3, <4>1
        <4>3. Going(f) => Going(f)'
          BY <1>1, <1>2, <2>3, <3>1, <4>1 DEF Going
        <4>4. QED
          BY <1>2, <2>3, <3>1, <4>2, <4>3, RecvTracks
      <3>4. QED
        BY <3>2, <3>3
    <2>5. QED
      BY <1>1, <1>4, <2>3, <2>4 DEF Settled
  <1>7. CASE TakeFile
    <2>0. e.path \in Files /\ e.kind \in {"modify", "delete"}
      BY <1>2, <1>7 DEF TakeFile, e
    <2>1. PICK p \in Files, kind \in {"modify", "delete"} :
              /\ p = e.path /\ kind = e.kind /\ PushEvent(p, kind)
              /\ UNCHANGED <<idtopath, missed>> /\ p \in Paths
      BY <1>2, <1>7, <2>0 DEF TakeFile, e
    <2>2. /\ \A x, k : x # p => (Waiting(x, k)' <=> Waiting(x, k))
          /\ \A k : Waiting(p, k)' <=> k = kind
          /\ UNCHANGED pc /\ overridden \subseteq overridden'
      BY <1>2, <2>1, PushWaits
    <2>3. ASSUME NEW f \in Files PROVE Tracked(f)'
      <3>1. Waiting(Home[f], "rmdir")' <=> Waiting(Home[f], "rmdir")
        BY <1>2, <2>1, <2>2
      <3>2. CASE p # f
        <4>1. e \notin Adds(f) /\ e \notin Deletes(f)
          BY <1>5, <2>1, <3>2
        <4>2. Coming(f) => Coming(f)'
          BY <1>3, <2>1, <4>1
        <4>3. Going(f) => Going(f)'
          BY <1>1, <1>2, <2>1, <2>2, <3>1, <3>2, <4>1 DEF Going
        <4>4. QED
          BY <1>2, <2>2, <3>1, <3>2, <4>2, <4>3, RecvTracks
      <3>3. CASE p = f /\ kind = "modify"
        <4>1. Waiting(f, "modify")' /\ ~ Waiting(f, "delete")'
          BY <2>2, <3>3
        <4>2. disk[f] = 0 => Going(f)'
          BY <1>1, <1>5, <2>1, <3>3 DEF Going
        <4>3. QED
          BY <1>2, <2>2, <4>1, <4>2, RecvTracks
      <3>4. CASE p = f /\ kind = "delete"
        <4>1. Waiting(f, "delete")'
          BY <2>2, <3>4
        <4>2. disk[f] # 0 => Coming(f)'
          BY <1>1, <1>5, <2>1, <3>4 DEF Coming
        <4>3. Going(f)'
          BY <4>1 DEF Going
        <4>4. QED
          BY <1>2, <2>2, <4>2, <4>3, RecvTracks
      <3>5. QED
        BY <2>1, <3>2, <3>3, <3>4
    <2>4. QED
      BY <1>1, <1>4, <2>1, <2>2, <2>3 DEF Settled
  <1>8. CASE TakeGone
    <2>0. e.path \in Dirs /\ e.kind \in {"rmdir", "movedfrom"}
      BY <1>2, <1>8 DEF TakeGone, e
    <2>1. PICK p \in Dirs :
              /\ p = e.path /\ e.kind \in {"rmdir", "movedfrom"} /\ p \in Paths
              /\ PushEvent(p, "rmdir") /\ UNCHANGED missed
              /\ idtopath' = idtopath \/ idtopath' = Without(idtopath, Erased(p))
      BY <1>2, <1>8, <2>0, Names DEF TakeGone, e
    <2>2. /\ \A x, k : x # p => (Waiting(x, k)' <=> Waiting(x, k))
          /\ \A k : Waiting(p, k)' <=> k = "rmdir"
          /\ UNCHANGED pc /\ overridden \subseteq overridden'
      BY <1>2, <2>1, PushWaits
    <2>3. watch[Top] \notin Erased(p)
      BY <1>1, Names DEF Erased
    <2>4. ASSUME NEW f \in Files PROVE Tracked(f)'
      <3>1. /\ Waiting(f, "modify")' <=> Waiting(f, "modify")
            /\ Waiting(f, "delete")' <=> Waiting(f, "delete")
        BY <1>2, <2>1, <2>2
      <3>2. CASE p # Home[f]
        <4>1. e \notin Adds(f) /\ e \notin Deletes(f)
          BY <1>5, <2>1, <3>2
        <4>2. Coming(f) => Coming(f)'
          BY <1>3, <2>1, <4>1
        <4>3. Going(f) => Going(f)'
          BY <1>1, <1>2, <2>1, <2>2, <3>1, <3>2, <4>1 DEF Going
        <4>4. QED
          BY <1>2, <2>2, <3>1, <3>2, <4>2, <4>3, RecvTracks
      <3>3. CASE p = Home[f]
        <4>1. Going(f)'
          BY <2>2, <3>3 DEF Going
        <4>2. disk[f] # 0 => Coming(f)'
          BY <1>1, <1>5, <2>1, <3>3 DEF Coming
        <4>3. QED
          BY <1>2, <2>2, <4>1, <4>2, RecvTracks
      <3>4. QED
        BY <3>2, <3>3
    <2>5. QED
      BY <1>1, <1>4, <2>1, <2>2, <2>3, <2>4 DEF Settled
  <1>9. CASE TakeIgnored
    <2>1. /\ e.kind = "ignored" /\ idtopath' = Without(idtopath, {e.wd} \cup Erased(e.path))
          /\ UNCHANGED <<queue, pc, missed>>
      BY <1>9 DEF TakeIgnored, e
    <2>2. watch[Top] \notin {e.wd} \cup Erased(e.path)
      BY <1>1, <2>1, Names DEF Erased
    <2>3. UNCHANGED <<iqueue, dqueue, overridden, pc, missed>>
      BY <2>1 DEF queue
    <2>4. ASSUME NEW f \in Files PROVE Tracked(f)'
      <3>1. \A x, k : Waiting(x, k)' = Waiting(x, k)
        BY <2>3 DEF Waiting
      <3>2. e \notin Adds(f) /\ e \notin Deletes(f)
        BY <1>5, <2>1
      <3>3. Coming(f) => Coming(f)'
        BY <1>3, <2>3, <3>2
      <3>4. Going(f) => Going(f)'
        BY <1>1, <1>2, <2>3, <3>1, <3>2 DEF Going
      <3>5. QED
        BY <1>2, <2>3, <3>1, <3>3, <3>4, RecvTracks
    <2>5. QED
      BY <1>1, <1>4, <2>1, <2>2, <2>3, <2>4 DEF Settled
  <1>10. QED
    BY <1>6, <1>7, <1>8, <1>9

(* The event of a new directory replaces that of the old one: the files    *)
(* that were to be removed with it are noted.                              *)
LEMMA MkdirWaits ==
    ASSUME Settled, NEW d \in Dirs, PushEvent(d, "mkdir"), NEW f \in Files,
           UNCHANGED <<deleted>>, missed \subseteq missed',
           Holds(kernel, Deletes(f)) => Holds(kernel', Deletes(f))
    PROVE  /\ Waiting(f, "modify")' <=> Waiting(f, "modify")
           /\ Waiting(f, "delete")' <=> Waiting(f, "delete")
           /\ Waiting(Home[f], "rmdir")' => Waiting(Home[f], "rmdir")
           /\ UNCHANGED pc /\ overridden \subseteq overridden'
           /\ (index[f] # 0 \/ statted[f] # 0) /\ Going(f) => Going(f)'
  <1>1. QueueOK /\ d \in Paths /\ d # f /\ d \notin Delayed
    BY Names DEF Settled, MTyped
  <1>2. /\ \A x, k : x # d => (Waiting(x, k)' <=> Waiting(x, k))
        /\ \A k : Waiting(d, k)' <=> k = "mkdir"
        /\ UNCHANGED pc /\ overridden \subseteq overridden'
        /\ Home[f] = d /\ Waiting(d, "rmdir") /\ index[f] + statted[f] # 0 => f \in overridden'
    BY <1>1, PushWaits
  <1>3. Waiting(Home[f], "rmdir")' => Waiting(Home[f], "rmdir")
    BY <1>2
  <1>4. index[f] \in Nat /\ statted[f] \in Nat
    BY TimesAssumption DEF Settled, MTyped, WorkOK, Versions
  <1>5. ASSUME index[f] # 0 \/ statted[f] # 0, Going(f)
        PROVE  Going(f)'
    <2>1. CASE Waiting(Home[f], "rmdir") /\ Home[f] = d
      BY <1>2, <1>4, <1>5, <2>1 DEF Going
    <2>2. CASE ~ (Waiting(Home[f], "rmdir") /\ Home[f] = d)
      <3>1. Waiting(Home[f], "rmdir") => Waiting(Home[f], "rmdir")'
        BY <1>2, <2>2
      <3>2. QED
        BY <1>1, <1>2, <1>5, <3>1 DEF Going
    <2>3. QED
      BY <2>1, <2>2
  <1>6. QED
    BY <1>1, <1>2, <1>3, <1>5

LEMMA NewDirSettles ==
    ASSUME Settled, MTyped', Consumed, NewDirNext,
           \/ /\ recv.at = "drain" /\ PushEvent(Head(kernel).path, "mkdir") /\ UNCHANGED recv
              /\ missed' = missed \cup {f \in In(Head(kernel).path) : disk[f] # 0}
           \/ /\ recv.at = "idle"
              /\ recv' = [at |-> "visit", todo |-> {Head(kernel).path}, dir |-> None,
                          for |-> Head(kernel).path]
              /\ UNCHANGED <<queue, pc, missed>>,
           UNCHANGED idtopath
    PROVE  Settled'
  <1> DEFINE e == Head(kernel)
  <1>1. /\ e \in Told /\ watch[Top] # 0
        /\ watch[Top] \in DOMAIN idtopath /\ idtopath[watch[Top]] = Top
        /\ \A S : Holds(kernel, S) => e \in S \/ Holds(kernel', S)
        /\ KernelOK' /\ \A f \in Files : Ordered(f)'
    BY FirstEvent
  <1>2. e.kind = "mkdir" /\ e.path \in Dirs
    BY <1>1 DEF NewDirNext, Told
  <1>3. PICK d \in Dirs : d = e.path
    BY <1>2
  <1>4. /\ UNCHANGED <<disk, there, watch, modified, deleted, statted, index>>
        /\ \A f \in Files : f \in Paths /\ Home[f] \in Places /\ None \notin Places
    BY Names DEF Consumed, work
  <1>5. \A f \in Files : /\ e \notin Deletes(f)
                         /\ e \in Adds(f) => d = Home[f]
    BY <1>2, <1>3 DEF Adds, Writes, Walks, Deletes, Removals, Losses
  <1>6. \A f \in Files : Holds(kernel, Deletes(f)) => Holds(kernel', Deletes(f))
    BY <1>1, <1>5
  <1>7. CASE /\ recv.at = "drain" /\ PushEvent(e.path, "mkdir") /\ UNCHANGED recv
             /\ missed' = missed \cup {f \in In(e.path) : disk[f] # 0}
    <2>1. /\ PushEvent(d, "mkdir") /\ UNCHANGED recv
          /\ missed' = missed \cup {f \in In(d) : disk[f] # 0} /\ missed \subseteq missed'
      BY <1>3, <1>7
    <2>2. ASSUME NEW f \in Files PROVE Tracked(f)' /\ UNCHANGED pc
      <3>1. /\ Waiting(f, "modify")' <=> Waiting(f, "modify")
            /\ Waiting(f, "delete")' <=> Waiting(f, "delete")
            /\ Waiting(Home[f], "rmdir")' => Waiting(Home[f], "rmdir")
            /\ UNCHANGED pc /\ overridden \subseteq overridden'
            /\ (index[f] # 0 \/ statted[f] # 0) /\ Going(f) => Going(f)'
        BY <1>4, <1>6, <2>1, MkdirWaits
      <3>2. disk[f] # 0 /\ Coming(f) => Coming(f)'
        <4>1. CASE e \in Adds(f)
          BY <1>5, <2>1, <4>1 DEF Coming, In
        <4>2. CASE e \notin Adds(f)
          BY <1>1, <2>1, <4>2 DEF Coming, Walked
        <4>3. QED
          BY <4>1, <4>2
      <3>3. QED
        BY <1>4, <3>1, <3>2, RecvTracks
    <2>3. UNCHANGED pc
      BY <2>1 DEF PushEvent
    <2>4. TopOK' /\ WalkOK' /\ PhaseOK'
      BY <1>1, <1>4, <2>1, <2>3 DEF Settled, TopOK, WalkOK, PhaseOK
    <2>5. QED
      BY <1>1, <2>2, <2>4 DEF Settled
  <1>8. CASE /\ recv.at = "idle"
             /\ recv' = [at |-> "visit", todo |-> {e.path}, dir |-> None, for |-> e.path]
             /\ UNCHANGED <<queue, pc, missed>>
    <2>1. /\ recv.todo = {} /\ recv.dir = None
          /\ recv'.at = "visit" /\ recv'.todo = {d} /\ recv'.dir = None
          /\ UNCHANGED <<iqueue, dqueue, overridden, pc, missed>>
      BY <1>3, <1>8 DEF Settled, WalkOK, queue
    <2>2. ASSUME NEW f \in Files PROVE Tracked(f)'
      <3>1. \A x, k : Waiting(x, k)' = Waiting(x, k)
        BY <2>1 DEF Waiting
      <3>2. Coming(f) => Coming(f)'
        <4>1. ~ Walked(f)
          BY <1>4, <2>1 DEF Walked
        <4>2. CASE e \in Adds(f)
          BY <1>5, <2>1, <4>2 DEF Coming, Walked
        <4>3. CASE e \notin Adds(f)
          BY <1>1, <2>1, <4>1, <4>3 DEF Coming
        <4>4. QED
          BY <4>2, <4>3
      <3>3. Going(f) => Going(f)'
        BY <1>4, <1>6, <2>1, <3>1 DEF Going
      <3>4. QED
        BY <1>4, <2>1, <3>1, <3>2, <3>3, RecvTracks
    <2>3. TopOK' /\ WalkOK' /\ PhaseOK'
      BY <1>1, <1>4, <2>1 DEF Settled, TopOK, WalkOK, PhaseOK
    <2>4. QED
      BY <1>1, <2>2, <2>3 DEF Settled
  <1>9. QED
    BY <1>7, <1>8

(* The walk: what it still has to visit is followed to the push.           *)
LEMMA VisitSettles ==
    ASSUME Settled, MTyped', NEW f \in Files, VisitFile(f)
    PROVE  Settled'
  <1>1. /\ recv.at = "visit" /\ f \in recv.todo
        /\ disk[f] # 0 => PushEvent(f, "modify")
        /\ disk[f] = 0 => UNCHANGED <<queue, pc>>
        /\ recv' = [recv EXCEPT !.todo = @ \ {f}]
        /\ UNCHANGED <<disk, there, kernel, watch, idtopath, missed, modified, deleted, statted, index>>
    BY DEF VisitFile, tree, work
  <1>2. /\ recv'.at = "visit" /\ recv'.todo = recv.todo \ {f} /\ recv'.dir = recv.dir
        /\ recv.dir = None
    BY <1>1 DEF Settled, WalkOK, MTyped, RecvOK, ReceiverStates
  <1>3. QueueOK /\ f \in Paths /\ f # Top /\ \A g \in Files : Home[g] # f
    BY Names DEF Settled, MTyped
  <1>4. watch[Top] # 0
    BY <1>1, <1>3 DEF Settled, TopOK
  <1>5. /\ UNCHANGED pc /\ overridden \subseteq overridden'
        /\ \A x, k : x # f => (Waiting(x, k)' <=> Waiting(x, k))
        /\ disk[f] # 0 => Waiting(f, "modify")' /\ ~ Waiting(f, "delete")'
        /\ disk[f] = 0 => \A k : Waiting(f, k)' <=> Waiting(f, k)
    <2>1. CASE disk[f] # 0
      BY <1>1, <1>3, <2>1, PushWaits
    <2>2. CASE disk[f] = 0
      <3>1. UNCHANGED <<iqueue, dqueue, overridden, pc>>
        BY <1>1, <2>2 DEF queue
      <3>2. \A x, k : Waiting(x, k)' = Waiting(x, k)
        BY <3>1 DEF Waiting
      <3>3. QED
        BY <2>2, <3>1, <3>2
    <2>3. QED
      BY <2>1, <2>2
  <1>6. KernelOK' /\ TopOK' /\ WalkOK' /\ PhaseOK'
    BY <1>1, <1>2, <1>4, <1>5 DEF Settled, KernelOK, TopOK, WalkOK, PhaseOK
  <1>7. \A g \in Files : Ordered(g)'
    BY <1>1, RecvOrders
  <1>8. ASSUME NEW g \in Files PROVE Tracked(g)'
    <2>1. Waiting(Home[g], "rmdir")' <=> Waiting(Home[g], "rmdir")
      BY <1>3, <1>5
    <2>2. CASE g = f /\ disk[f] # 0
      BY <1>1, <1>5, <2>2, RecvTracks
    <2>3. CASE g = f /\ disk[f] = 0
      <3>1. Going(f) => Going(f)'
        BY <1>1, <1>5, <2>1, <2>3 DEF Going
      <3>2. QED
        BY <1>1, <1>5, <2>3, <3>1, RecvTracks
    <2>4. CASE g # f
      <3>1. Coming(g) => Coming(g)'
        BY <1>1, <1>2, <1>3, <2>4 DEF Coming, Walked
      <3>2. Going(g) => Going(g)'
        BY <1>1, <1>5, <2>1, <2>4 DEF Going
      <3>3. QED
        BY <1>1, <1>5, <2>1, <2>4, <3>1, <3>2, RecvTracks
    <2>5. QED
      BY <2>2, <2>3, <2>4
  <1>9. QED
    BY <1>6, <1>7, <1>8 DEF Settled

LEMMA WalkSettles ==
    ASSUME Settled, MTyped', DrainEnds \/ ListDir \/ (\E d \in Places : VisitDir(d))
    PROVE  Settled'
  <1>1. /\ UNCHANGED <<disk, there, kernel, watch, idtopath, iqueue, dqueue, overridden, pc,
                      modified, deleted, statted, index>>
        /\ \A x, k : Waiting(x, k)' = Waiting(x, k)
    BY DEF DrainEnds, ListDir, VisitDir, tree, queue, work, Waiting
  <1>2. /\ recv \in [at : {"idle", "visit", "drain", "watch", "list"},
                     todo : SUBSET (Paths \cup {Top}), dir : Places \cup {None},
                     for : Dirs \cup {None}]
        /\ KernelOK /\ TopOK /\ WalkOK /\ PhaseOK
    BY DEF Settled, MTyped, RecvOK, ReceiverStates
  <1>3. KernelOK' /\ PhaseOK' /\ \A f \in Files : Ordered(f)'
    BY <1>1, <1>2, RecvOrders DEF KernelOK, PhaseOK
  <1>4. ASSUME NEW f \in Files, disk[f] # 0 /\ Coming(f) => Coming(f)',
               disk[f] = 0 /\ f \in missed => f \in missed'
        PROVE  Tracked(f)'
    <2>1. disk[f] = 0 /\ Going(f) => Going(f)'
      BY <1>1, <1>4 DEF Going
    <2>2. QED
      BY <1>1, <1>4, <2>1, RecvTracks
  <1>5. CASE DrainEnds
    <2>1. recv' = [recv EXCEPT !.at = "watch"] /\ recv.at = "drain" /\ UNCHANGED missed
      BY <1>5 DEF DrainEnds
    <2>2. recv'.at = "watch" /\ recv'.todo = recv.todo /\ recv'.dir = recv.dir
      BY <1>2, <2>1
    <2>3. TopOK' /\ WalkOK'
      BY <1>1, <1>2, <2>1, <2>2 DEF TopOK, WalkOK
    <2>4. \A f \in Files : Coming(f) => Coming(f)'
      BY <1>1, <2>1, <2>2 DEF Coming, Walked
    <2>5. QED
      BY <1>3, <1>4, <2>1, <2>3, <2>4 DEF Settled
  <1>6. CASE ListDir
    <2> DEFINE found == {f \in In(recv.dir) : disk[f] # 0}
    <2>1. PICK S : /\ recv' = [recv EXCEPT !.at = "visit", !.dir = None, !.todo = recv.todo \cup found \cup S]
                   /\ recv.at = "list" /\ missed' = missed \ found
      BY <1>6 DEF ListDir
    <2>2. recv'.at = "visit" /\ recv'.todo = recv.todo \cup found \cup S /\ recv'.dir = None
      BY <1>2, <2>1
    <2>3. TopOK' /\ WalkOK'
      BY <1>1, <1>2, <2>1, <2>2 DEF TopOK, WalkOK
    <2>4. ASSUME NEW f \in Files
          PROVE  /\ disk[f] # 0 /\ Coming(f) => Coming(f)'
                 /\ disk[f] = 0 /\ f \in missed => f \in missed'
      <3>1. CASE f \in found
        BY <2>2, <3>1 DEF Coming, Walked
      <3>2. CASE f \notin found
        <4>1. disk[f] = 0 \/ Home[f] # recv.dir
          BY <3>2 DEF In
        <4>2. QED
          BY <1>1, <2>1, <2>2, <3>2, <4>1 DEF Coming, Walked
      <3>3. QED
        BY <3>1, <3>2
    <2>5. QED
      BY <1>3, <1>4, <2>3, <2>4 DEF Settled
  <1>7. CASE \E d \in Places : VisitDir(d)
    <2>1. PICK d \in Places : VisitDir(d)
      BY <1>7
    <2>2. /\ recv.at = "visit" /\ recv.dir = None /\ d \in recv.todo /\ recv'.todo = recv.todo \ {d}
          /\ IF d \in there \cup {Top} THEN recv'.at = "drain" /\ recv'.dir = d
                                       ELSE recv'.at = "visit" /\ recv'.dir = None
          /\ UNCHANGED missed
      BY <1>2, <2>1 DEF VisitDir, WalkOK
    <2>3. TopOK' /\ WalkOK'
      BY <1>1, <1>2, <2>2 DEF TopOK, WalkOK
    <2>4. ASSUME NEW f \in Files, disk[f] # 0, Coming(f)
          PROVE  Coming(f)'
      <3>1. f # d /\ Home[f] # None /\ Home[f] \in there \cup {Top}
        BY <2>4, Names DEF Settled, Ordered
      <3>2. QED
        BY <1>1, <2>2, <2>4, <3>1 DEF Coming, Walked
    <2>5. QED
      BY <1>3, <1>4, <2>2, <2>3, <2>4 DEF Settled
  <1>8. QED
    BY <1>5, <1>6, <1>7

LEMMA AddWatchSettles ==
    ASSUME Settled, MTyped', AddWatch
    PROVE  Settled'
  <1>1. /\ recv.at = "watch" /\ recv' = [recv EXCEPT !.at = "list"] /\ recv.dir \in Places
        /\ UNCHANGED <<disk, there, kernel, iqueue, dqueue, overridden, pc, missed,
                       modified, deleted, statted, index>>
        /\ nextwd \in Nat /\ watch \in [Places -> 0 .. nextwd] /\ KernelOK /\ TopOK /\ WalkOK /\ PhaseOK
    BY DEF AddWatch, queue, work, Settled, MTyped, RecvOK, WatchOK
  <1>2. /\ recv'.at = "list" /\ recv'.todo = recv.todo /\ recv'.dir = recv.dir
        /\ \A x, k : Waiting(x, k)' = Waiting(x, k)
    BY <1>1 DEF Settled, MTyped, RecvOK, ReceiverStates, Waiting
  <1>3. \A f \in Files : Tracked(f)'
    BY <1>1, <1>2 DEF Settled, Tracked, Present, Absent, Coming, Queued, Going, Walked
  <1>4. WalkOK' /\ PhaseOK'
    BY <1>1, <1>2 DEF WalkOK, PhaseOK
  <1> DEFINE d == recv.dir
             wd == IF watch[d] # 0 THEN watch[d] ELSE nextwd + 1
  <1>5. CASE d \notin there \cup {Top}
    <2>1. UNCHANGED <<watch, idtopath>> /\ d # Top
      BY <1>5 DEF AddWatch
    <2>2. KernelOK' /\ TopOK'
      BY <1>1, <1>2, <2>1 DEF KernelOK, TopOK
    <2>3. \A f \in Files : Ordered(f)'
      BY <1>1, <2>1, RecvOrders
    <2>4. QED
      BY <1>3, <1>4, <2>2, <2>3 DEF Settled
  <1>6. CASE d \in there \cup {Top}
    <2>1. watch' = [watch EXCEPT ![d] = wd] /\ idtopath' = With(idtopath, wd, d)
      BY <1>6 DEF AddWatch
    <2>2. wd # 0 /\ (watch[d] # 0 => wd = watch[d]) /\ (watch[d] = 0 => wd = nextwd + 1)
      BY <1>1
    <2> HIDE DEF wd
    <2>3. /\ \A x \in Places : watch'[x] = IF x = d THEN wd ELSE watch[x]
          /\ wd \in DOMAIN idtopath' /\ idtopath'[wd] = d
          /\ \A w \in DOMAIN idtopath : w # wd => w \in DOMAIN idtopath' /\ idtopath'[w] = idtopath[w]
      BY <1>1, <2>1 DEF With
    <2>4. \A f \in Files : Ordered(f)'
      BY <1>1, <2>2, <2>3, RecvOrders
    <2>5. CASE watch[Top] = 0
      <3>1. d = Top /\ kernel = << >> /\ \A x \in Dirs : watch[x] = 0
        BY <1>1, <2>5 DEF TopOK
      <3>2. watch'[Top] = wd /\ \A x \in Dirs : watch'[x] = 0
        BY <2>3, <3>1, Names
      <3>3. KernelOK'
        BY <1>1, <3>1, EmptySeq DEF KernelOK, FromTop
      <3>4. TopOK'
        BY <2>2, <2>3, <3>1, <3>2 DEF TopOK
      <3>5. QED
        BY <1>3, <1>4, <2>4, <3>3, <3>4 DEF Settled
    <2>6. CASE watch[Top] # 0
      <3>1. watch'[Top] = watch[Top]
        BY <2>2, <2>3, <2>6, Names
      <3>2. d # Top => wd # watch[Top]
        BY <1>1, <2>2, <2>6, Names DEF TopOK
      <3>3. TopOK'
        BY <1>1, <2>2, <2>3, <2>6, <3>1, <3>2, Names DEF TopOK
      <3>4. KernelOK'
        BY <1>1, <3>1 DEF KernelOK
      <3>5. QED
        BY <1>3, <1>4, <2>4, <3>3, <3>4 DEF Settled
    <2>7. QED
      BY <2>5, <2>6
  <1>7. QED
    BY <1>5, <1>6

LEMMA WalkEndSettles ==
    ASSUME Settled, MTyped', WalkEnds
    PROVE  Settled'
  <1>1. /\ recv.at = "visit" /\ recv.todo = {} /\ recv.dir = None
        /\ recv'.at = "idle" /\ recv'.todo = {} /\ recv'.dir = None
        /\ UNCHANGED <<disk, there, kernel, watch, idtopath, modified, deleted, statted, index, missed>>
        /\ KernelOK /\ TopOK /\ PhaseOK /\ recv.for \in Dirs \cup {None}
        /\ IF recv.for = None THEN UNCHANGED <<queue, pc>> ELSE PushEvent(recv.for, "mkdir")
    BY DEF WalkEnds, tree, work, Settled, WalkOK, MTyped, RecvOK, ReceiverStates
  <1>2. UNCHANGED pc
    BY <1>1 DEF PushEvent
  <1>3. KernelOK' /\ TopOK' /\ WalkOK' /\ PhaseOK'
    BY <1>1, <1>2 DEF KernelOK, TopOK, WalkOK, PhaseOK
  <1>4. \A f \in Files : Ordered(f)'
    BY <1>1, RecvOrders
  <1>5. ASSUME NEW f \in Files PROVE Tracked(f)'
    <2>1. Coming(f) => Coming(f)'
      BY <1>1 DEF Coming, Walked
    <2>2. CASE recv.for = None
      <3>1. UNCHANGED <<iqueue, dqueue, overridden>>
        BY <1>1, <2>2 DEF queue
      <3>2. \A x, k : Waiting(x, k)' = Waiting(x, k)
        BY <3>1 DEF Waiting
      <3>3. Going(f) => Going(f)'
        BY <1>1, <3>1, <3>2 DEF Going
      <3>4. QED
        BY <1>1, <1>2, <2>1, <3>1, <3>2, <3>3, RecvTracks
    <2>3. CASE recv.for # None
      <3>1. PICK d \in Dirs : PushEvent(d, "mkdir")
        BY <1>1, <2>3
      <3>2. /\ Waiting(f, "modify")' <=> Waiting(f, "modify")
            /\ Waiting(f, "delete")' <=> Waiting(f, "delete")
            /\ Waiting(Home[f], "rmdir")' => Waiting(Home[f], "rmdir")
            /\ overridden \subseteq overridden'
            /\ (index[f] # 0 \/ statted[f] # 0) /\ Going(f) => Going(f)'
        BY <1>1, <3>1, MkdirWaits
      <3>3. QED
        BY <1>1, <1>2, <2>1, <3>2, RecvTracks
    <2>4. QED
      BY <2>2, <2>3
  <1>6. QED
    BY <1>3, <1>4, <1>5 DEF Settled

LEMMA ReceiverSettles == Settled /\ Receiver => Settled'
  <1> SUFFICES ASSUME Settled, Receiver PROVE Settled'
    OBVIOUS
  <1>1. MTyped'
    BY ReceiverTyped DEF Settled
  <1>2. CASE RecvEvent
    <2>1. CASE (TakeUnknown \/ TakeFile \/ TakeGone \/ TakeIgnored) /\ UNCHANGED recv
      BY <1>1, <1>2, <2>1, TakeSettles DEF RecvEvent
    <2>2. CASE ~ ((TakeUnknown \/ TakeFile \/ TakeGone \/ TakeIgnored) /\ UNCHANGED recv)
      BY <1>1, <1>2, <2>2, NewDirSettles DEF RecvEvent
    <2>3. QED
      BY <2>1, <2>2
  <1>3. CASE DrainEvent
    <2>1. CASE TakeUnknown \/ TakeFile \/ TakeGone \/ TakeIgnored
      BY <1>1, <1>3, <2>1, TakeSettles DEF DrainEvent
    <2>2. CASE ~ (TakeUnknown \/ TakeFile \/ TakeGone \/ TakeIgnored)
      BY <1>1, <1>3, <2>2, NewDirSettles DEF DrainEvent
    <2>3. QED
      BY <2>1, <2>2
  <1>4. CASE DrainEnds \/ ListDir \/ (\E d \in Places : VisitDir(d))
    BY <1>1, <1>4, WalkSettles
  <1>5. CASE AddWatch \/ WalkEnds \/ (\E f \in Files : VisitFile(f))
    BY <1>1, <1>5, AddWatchSettles, WalkEndSettles, VisitSettles
  <1>6. QED
    BY <1>2, <1>3, <1>4, <1>5 DEF Receiver
-----------------------------------------------------------------------------
(* The main thread and time.                                               *)

LEMMA MainFrame ==
    ASSUME Settled, UNCHANGED <<tree, idtopath, recv>>
    PROVE  /\ KernelOK' /\ TopOK' /\ WalkOK' /\ \A f \in Files : Ordered(f)'
           /\ UNCHANGED <<disk, kernel, recv>>
           /\ \A f \in Files : missed' = missed => (Coming(f)' <=> Coming(f))
  <1>1. UNCHANGED <<disk, there, kernel, watch, idtopath, recv>>
    BY DEF tree
  <1>2. KernelOK' /\ TopOK' /\ WalkOK'
    BY <1>1 DEF Settled, KernelOK, TopOK, WalkOK
  <1>3. \A f \in Files : Ordered(f)'
    BY <1>1, RecvOrders
  <1>4. \A f \in Files : missed' = missed => (Coming(f)' <=> Coming(f))
    BY <1>1 DEF Coming, Walked
  <1>5. QED
    BY <1>1, <1>2, <1>3, <1>4

(* An event leaves the queue for the lists.                                *)
LEMMA PopTracks ==
    ASSUME Settled, MTyped', UNCHANGED <<tree, idtopath, recv, pc, missed, overridden>>, pc = "pop",
           NEW p \in Paths, NEW kind, Waiting(p, kind), Sorted(p, kind),
           kind \in {"modify", "delete"} => p \in Files,
           \A x, k : x # p => (Waiting(x, k)' <=> Waiting(x, k)),
           \A k : ~ Waiting(p, k)'
    PROVE  Settled'
  <1>1. /\ KernelOK' /\ TopOK' /\ WalkOK' /\ \A f \in Files : Ordered(f)'
        /\ UNCHANGED <<disk, kernel, recv, statted, index>>
        /\ \A f \in Files : Coming(f)' <=> Coming(f)
    BY MainFrame DEF Sorted
  <1>2. \A f \in Files : statted[f] = 0
    BY DEF Settled, PhaseOK
  <1>3. PhaseOK'
    BY <1>1, <1>2 DEF PhaseOK
  <1>4. \A k : Waiting(p, k) => k = kind
    BY WaitingOnce DEF Settled, MTyped
  <1>5. /\ modified \subseteq modified' /\ deleted \subseteq deleted'
        /\ kind = "modify" => p \in modified'
        /\ kind = "delete" => deleted' = deleted \cup {p}
        /\ kind = "rmdir" => deleted' = deleted \cup {f \in In(p) : index[f] # 0}
        /\ kind \notin {"delete", "rmdir"} => deleted' = deleted
    BY DEF Sorted
  <1>6. ASSUME NEW f \in Files PROVE Tracked(f)'
    <2>1. Tracked(f) /\ f # Home[f]
      BY Names DEF Settled
    <2>2. CASE disk[f] = 0
      <3>1. ASSUME index[f] # 0, Going(f) PROVE Going(f)'
        <4>1. CASE p = f /\ kind = "delete"
          BY <1>5, <4>1 DEF Going
        <4>2. CASE p = Home[f] /\ kind = "rmdir"
          BY <1>5, <3>1, <4>2 DEF Going, In
        <4>3. CASE ~ (p = f /\ kind = "delete") /\ ~ (p = Home[f] /\ kind = "rmdir")
          <5>1. /\ Waiting(f, "delete") => Waiting(f, "delete")'
                /\ Waiting(Home[f], "rmdir") => Waiting(Home[f], "rmdir")'
            BY <1>4, <4>3
          <5>2. QED
            BY <1>1, <1>5, <3>1, <5>1 DEF Going
        <4>4. QED
          BY <4>1, <4>2, <4>3
      <3>2. QED
        BY <1>1, <1>2, <2>1, <2>2, <3>1 DEF Tracked, Absent
    <2>3. CASE disk[f] # 0
      <3>1. Present(f)
        BY <2>1, <2>3 DEF Tracked
      <3>2. /\ Waiting(f, "modify") => Waiting(f, "modify")' \/ f \in modified'
            /\ Waiting(f, "delete")' => Waiting(f, "delete")
            /\ Waiting(Home[f], "rmdir")' => Waiting(Home[f], "rmdir")
        BY <1>4, <1>5
      <3>3. f \in deleted' =>
                f \in deleted \/ Waiting(f, "delete") \/ Waiting(Home[f], "rmdir")
        BY <1>5 DEF In
      <3>4. Queued(f) => Queued(f)'
        BY <1>5, <3>2 DEF Queued
      <3>5. f \in deleted' => Coming(f)' \/ Queued(f)'
        BY <1>1, <3>1, <3>3, <3>4 DEF Present, Queued
      <3>6. Waiting(Home[f], "rmdir")' =>
                Coming(f)' \/ Waiting(f, "modify")' \/ (f \in modified' /\ pc' = "pop")
        BY <1>1, <1>5, <3>1, <3>2 DEF Present
      <3>7. Waiting(f, "delete")' => Coming(f)'
        BY <1>1, <3>1, <3>2 DEF Present
      <3>8. index'[f] # disk'[f] =>
                Coming(f)' \/ Queued(f)' \/ statted'[f] = disk'[f] \/ f \in overridden'
        BY <1>1, <3>1, <3>4 DEF Present
      <3>9. Present(f)'
        BY <1>1, <1>2, <3>5, <3>6, <3>7, <3>8 DEF Present
      <3>10. QED
        BY <1>1, <2>3, <3>9 DEF Tracked
    <2>4. QED
      BY <2>2, <2>3
  <1>7. QED
    BY <1>1, <1>3, <1>6 DEF Settled

(* Steps that leave all that waits and the lists as they are.              *)
LEMMA IdleTracks ==
    ASSUME Settled, MTyped', UNCHANGED <<tree, idtopath, recv, missed, overridden>>,
           UNCHANGED <<modified, deleted, statted, index>>, PhaseOK',
           \A x, k : Waiting(x, k)' <=> Waiting(x, k),
           pc = "pop" => pc' = "pop" \/ \A f \in Files : ~ Waiting(Home[f], "rmdir")
    PROVE  Settled'
  <1>1. /\ KernelOK' /\ TopOK' /\ WalkOK' /\ \A f \in Files : Ordered(f)'
        /\ UNCHANGED <<disk, kernel, recv>>
        /\ \A f \in Files : Coming(f)' <=> Coming(f)
    BY MainFrame
  <1>2. ASSUME NEW f \in Files PROVE Tracked(f)'
    <2>1. Tracked(f) /\ (Queued(f)' <=> Queued(f)) /\ (Going(f)' <=> Going(f))
      BY <1>1 DEF Settled, Queued, Going
    <2>2. CASE disk[f] = 0
      BY <1>1, <2>1, <2>2 DEF Tracked, Absent
    <2>3. CASE disk[f] # 0
      BY <1>1, <2>1, <2>3 DEF Tracked, Present
    <2>4. QED
      BY <2>2, <2>3
  <1>3. QED
    BY <1>1, <1>2 DEF Settled

LEMMA PopSettles ==
    ASSUME Settled, MTyped', PopExpired \/ DropExpired \/ (\E p \in Paths : PopImmediate(p))
    PROVE  Settled'
  <1>1. QueueOK /\ DOMAIN dqueue \subseteq Delayed /\ DOMAIN iqueue \cap Delayed = {}
    BY DEF Settled, MTyped, QueueOK
  <1>2. CASE PopExpired
    <2>1. PICK f \in Files : f = Head(delays) /\ f \in DOMAIN dqueue
      BY <1>1, <1>2, TailInOrder, Names DEF PopExpired, Expired, QueueOK
    <2>2. /\ pc = "pop" /\ dqueue[f].need /\ Sorted(f, dqueue[f].kind)
          /\ UNCHANGED <<tree, idtopath, recv, iqueue, overridden, pc, missed>>
          /\ dqueue' = [dqueue EXCEPT ![f].left = dqueue[f].itv, ![f].need = FALSE]
      BY <1>2, <2>1 DEF PopExpired
    <2>3. DOMAIN dqueue' = DOMAIN dqueue /\ \A x \in DOMAIN dqueue : x # f => dqueue'[x] = dqueue[x]
      BY <2>2
    <2>4. dqueue'[f].need = FALSE
      <3>1. dqueue[f] \in [kind : Kinds, left : 0 .. Interval, need : BOOLEAN, itv : {0, Interval}]
        BY <1>1, <2>1 DEF QueueOK, DelayedEvents
      <3>2. dqueue'[f] = [dqueue[f] EXCEPT !.left = dqueue[f].itv, !.need = FALSE]
        BY <2>1, <2>2
      <3>3. QED
        BY <3>1, <3>2
    <2>5. f \in Paths /\ f \notin DOMAIN iqueue
      BY <1>1, <2>1, Names
    <2>6. PICK kind : kind = dqueue[f].kind
      OBVIOUS
    <2>7. Waiting(f, kind) /\ \A k : ~ Waiting(f, k)'
      BY <2>1, <2>2, <2>4, <2>5, <2>6 DEF Waiting
    <2>8. \A x, k : x # f => (Waiting(x, k)' <=> Waiting(x, k))
      BY <2>2, <2>3 DEF Waiting
    <2>9. QED
      BY <2>2, <2>5, <2>6, <2>7, <2>8, PopTracks
  <1>3. CASE DropExpired
    <2>1. PICK f \in Files : f = Head(delays) /\ f \in DOMAIN dqueue
      BY <1>1, <1>3, TailInOrder, Names DEF DropExpired, Expired, QueueOK
    <2>2. /\ pc = "pop" /\ ~ dqueue[f].need /\ dqueue' = Without(dqueue, {f})
          /\ UNCHANGED <<tree, idtopath, recv, iqueue, overridden, pc, work, missed>>
      BY <1>3, <2>1 DEF DropExpired
    <2>3. \A x, k : Waiting(x, k)' <=> Waiting(x, k)
      BY <2>1, <2>2 DEF Waiting, Without
    <2>4. UNCHANGED <<modified, deleted, statted, index>> /\ PhaseOK'
      BY <2>2 DEF work, Settled, PhaseOK
    <2>5. QED
      BY <2>2, <2>3, <2>4, IdleTracks
  <1>4. CASE \E p \in Paths : PopImmediate(p)
    <2>1. PICK p \in Paths : PopImmediate(p)
      BY <1>4
    <2>2. /\ pc = "pop" /\ p \in DOMAIN iqueue /\ Sorted(p, iqueue[p])
          /\ iqueue' = Without(iqueue, {p}) /\ p \notin DOMAIN dqueue
          /\ UNCHANGED <<tree, idtopath, recv, dqueue, overridden, pc, missed>>
      BY <1>1, <2>1 DEF PopImmediate
    <2>3. PICK kind : kind = iqueue[p]
      OBVIOUS
    <2>4. Waiting(p, kind) /\ \A k : ~ Waiting(p, k)'
      BY <2>2, <2>3 DEF Waiting, Without
    <2>5. \A x, k : x # p => (Waiting(x, k)' <=> Waiting(x, k))
      BY <2>2 DEF Waiting, Without
    <2>6. kind \in {"modify", "delete"} => p \in Files
      BY <1>1, <2>2, <2>3 DEF QueueOK
    <2>7. QED
      BY <2>2, <2>3, <2>4, <2>5, <2>6, PopTracks
  <1>5. QED
    BY <1>2, <1>3, <1>4

LEMMA WaitSettles ==
    ASSUME Settled, MTyped', Wake \/ Skip \/ EndWork \/ Tick
    PROVE  Settled'
  <1>1. /\ UNCHANGED <<tree, idtopath, recv, iqueue, overridden, missed, modified, deleted, statted, index>>
        /\ DOMAIN dqueue' = DOMAIN dqueue
        /\ \A x \in DOMAIN dqueue : dqueue'[x].need = dqueue[x].need /\ dqueue'[x].kind = dqueue[x].kind
    <2>1. CASE Wake \/ Skip \/ EndWork
      BY <2>1 DEF Wake, Skip, EndWork, queue, work
    <2>2. CASE Tick
      <3>1. \A x \in DOMAIN dqueue :
                dqueue[x] \in [kind : Kinds, left : 0 .. Interval, need : BOOLEAN, itv : {0, Interval}]
        BY DEF Settled, MTyped, QueueOK, DelayedEvents
      <3>2. dqueue' = [x \in DOMAIN dqueue |->
                          [dqueue[x] EXCEPT !.left = IF @ > 0 THEN @ - 1 ELSE 0]]
        BY <2>2 DEF Tick
      <3>3. ASSUME NEW x \in DOMAIN dqueue
            PROVE  dqueue'[x].need = dqueue[x].need /\ dqueue'[x].kind = dqueue[x].kind
        <4>1. dqueue'[x] = [dqueue[x] EXCEPT !.left = IF @ > 0 THEN @ - 1 ELSE 0]
          BY <3>2
        <4>2. QED
          BY <3>1, <4>1
      <3>4. QED
        BY <2>2, <3>2, <3>3 DEF Tick, work
    <2>3. QED
      BY <2>1, <2>2
  <1>2. \A x, k : Waiting(x, k)' <=> Waiting(x, k)
    BY <1>1 DEF Waiting
  <1>3. PhaseOK'
    <2>1. UNCHANGED <<statted, deleted>> /\ PhaseOK
      BY <1>1 DEF Settled
    <2>2. \/ pc' # "index" /\ \A f \in Files : statted[f] = 0
          \/ pc' = pc
      <3>1. CASE Wake \/ Skip
        BY <2>1, <3>1 DEF PhaseOK, Wake, Skip, NothingLeft
      <3>2. CASE EndWork
        BY <3>2 DEF EndWork
      <3>3. CASE Tick
        BY <3>3 DEF Tick
      <3>4. QED
        BY <3>1, <3>2, <3>3
    <2>3. QED
      BY <2>1, <2>2 DEF PhaseOK
  <1>4. pc = "pop" => pc' = "pop" \/ \A f \in Files : ~ Waiting(Home[f], "rmdir")
    <2>1. CASE Skip
      <3>1. DOMAIN iqueue = {} /\ \A f \in Files : Home[f] \notin DOMAIN dqueue
        BY <2>1, Names DEF Skip, NothingLeft, Settled, MTyped, QueueOK
      <3>2. QED
        BY <3>1 DEF Waiting
    <2>2. CASE Wake \/ EndWork \/ Tick
      BY <2>2 DEF Wake, EndWork, Tick
    <2>3. QED
      BY <2>1, <2>2
  <1>5. QED
    BY <1>1, <1>2, <1>3, <1>4, IdleTracks

LEMMA PurgeSettles ==
    ASSUME Settled, MTyped', Purge
    PROVE  Settled'
  <1>1. /\ pc = "pop" /\ DOMAIN iqueue = {} /\ deleted' = {} /\ pc' = "index"
        /\ overridden' = overridden \ deleted
        /\ UNCHANGED <<tree, idtopath, recv, iqueue, dqueue, modified, statted, missed>>
        /\ \A f \in Files : index'[f] = IF f \in deleted THEN 0 ELSE index[f]
    BY DEF Purge, NothingLeft
  <1>2. /\ KernelOK' /\ TopOK' /\ WalkOK' /\ \A f \in Files : Ordered(f)'
        /\ UNCHANGED <<disk, kernel, recv>>
        /\ \A f \in Files : Coming(f)' <=> Coming(f)
    BY <1>1, MainFrame
  <1>3. \A f \in Files : statted[f] = 0
    BY <1>1 DEF Settled, PhaseOK
  <1>4. PhaseOK'
    BY <1>1 DEF PhaseOK
  <1>5. \A x, k : Waiting(x, k)' = Waiting(x, k)
    BY <1>1 DEF Waiting
  <1>6. ASSUME NEW f \in Files PROVE Tracked(f)'
    <2>1. Tracked(f) /\ (Queued(f)' <=> Queued(f)) /\ ~ Waiting(Home[f], "rmdir")'
      BY <1>1, <1>5, Names DEF Settled, Queued, Waiting, MTyped, QueueOK
    <2>2. CASE disk[f] = 0
      <3>1. CASE f \in deleted
        BY <1>1, <1>2, <1>3, <2>2, <3>1 DEF Tracked, Absent
      <3>2. CASE f \notin deleted
        BY <1>1, <1>2, <1>3, <1>5, <2>1, <2>2, <3>2 DEF Tracked, Absent, Going
      <3>3. QED
        BY <3>1, <3>2
    <2>3. CASE disk[f] # 0
      <3>1. Present(f)
        BY <2>1, <2>3 DEF Tracked
      <3>2. index'[f] # disk'[f] =>
                Coming(f)' \/ Queued(f)' \/ statted'[f] = disk'[f] \/ f \in overridden'
        <4>1. CASE f \in deleted
          BY <1>2, <2>1, <3>1, <4>1 DEF Present
        <4>2. CASE f \notin deleted
          BY <1>1, <1>2, <2>1, <3>1, <4>2 DEF Present
        <4>3. QED
          BY <4>1, <4>2
      <3>3. Waiting(f, "delete")' => Coming(f)'
        BY <1>2, <1>5, <3>1 DEF Present
      <3>4. Present(f)'
        BY <1>1, <1>3, <2>1, <3>2, <3>3 DEF Present
      <3>5. QED
        BY <1>2, <2>3, <3>4 DEF Tracked
    <2>4. QED
      BY <2>2, <2>3
  <1>7. QED
    BY <1>2, <1>4, <1>6 DEF Settled

LEMMA StatSettles ==
    ASSUME Settled, MTyped', NEW f \in Files, StatOne(f)
    PROVE  Settled'
  <1>1. /\ pc = "index" /\ f \in modified /\ modified' = modified \ {f}
        /\ UNCHANGED <<tree, idtopath, recv, iqueue, dqueue, pc, deleted, index>>
        /\ \A g \in Files : statted'[g] = IF g = f THEN disk[f] ELSE statted[g]
        /\ \A g \in Files : g # f => /\ g \in missed' <=> g \in missed
                                     /\ g \in overridden' <=> g \in overridden
        /\ disk[f] = 0 => UNCHANGED <<missed, overridden>>
        /\ disk[f] # 0 => missed' = IF DeletionWaits(f) THEN missed ELSE missed \ {f}
    BY DEF StatOne, Settled, MTyped, WorkOK
  <1>2. /\ KernelOK' /\ TopOK' /\ WalkOK' /\ \A g \in Files : Ordered(g)'
        /\ UNCHANGED <<disk, kernel, recv>> /\ deleted = {}
    BY <1>1, MainFrame DEF Settled, PhaseOK
  <1>3. PhaseOK'
    BY <1>1, <1>2 DEF PhaseOK
  <1>4. \A x, k : Waiting(x, k)' = Waiting(x, k)
    BY <1>1 DEF Waiting
  <1>5. \A g \in Files : (g \in missed' <=> g \in missed) => (Coming(g)' <=> Coming(g))
    BY <1>2 DEF Coming, Walked
  <1>6. ASSUME NEW g \in Files PROVE Tracked(g)'
    <2>1. Tracked(g)
      BY DEF Settled
    <2>2. CASE g # f
      <3>1. (Coming(g)' <=> Coming(g)) /\ (Queued(g)' <=> Queued(g)) /\ (Going(g)' <=> Going(g))
        BY <1>1, <1>2, <1>4, <1>5, <2>2 DEF Queued, Going
      <3>2. CASE disk[g] = 0
        BY <1>1, <1>2, <2>1, <2>2, <3>1, <3>2 DEF Tracked, Absent
      <3>3. CASE disk[g] # 0
        BY <1>1, <1>2, <1>4, <2>1, <2>2, <3>1, <3>3 DEF Tracked, Present
      <3>4. QED
        BY <3>2, <3>3
    <2>3. CASE g = f /\ disk[f] = 0
      <3>1. Going(f)' <=> Going(f)
        BY <1>1, <1>2, <1>4, <2>3 DEF Going
      <3>2. QED
        BY <1>1, <1>2, <2>1, <2>3, <3>1 DEF Tracked, Absent
    <2>4. CASE g = f /\ disk[f] # 0
      <3>1. Present(f) /\ statted'[f] = disk'[f]
        BY <1>1, <1>2, <2>1, <2>4 DEF Tracked
      <3>2. DeletionWaits(f) => (Coming(f)' <=> Coming(f))
        BY <1>1, <1>5, <2>4
      <3>3. Waiting(f, "delete")' => Coming(f)'
        BY <1>4, <3>1, <3>2 DEF Present, DeletionWaits
      <3>4. Waiting(Home[f], "rmdir")' => Coming(f)' \/ Waiting(f, "modify")'
        BY <1>1, <1>4, <3>1, <3>2 DEF Present, DeletionWaits
      <3>5. Present(f)'
        BY <1>1, <1>2, <3>1, <3>3, <3>4 DEF Present
      <3>6. QED
        BY <1>2, <2>4, <3>5 DEF Tracked
    <2>5. QED
      BY <2>2, <2>3, <2>4
  <1>7. QED
    BY <1>2, <1>3, <1>6 DEF Settled

LEMMA WriteOneSettles ==
    ASSUME Settled, MTyped', NEW f \in Files, WriteOne(f)
    PROVE  Settled'
  <1>1. /\ pc = "index" /\ statted[f] # 0
        /\ UNCHANGED <<tree, idtopath, recv, iqueue, dqueue, overridden, pc, modified, deleted, missed>>
        /\ \A g \in Files : statted'[g] = IF g = f THEN 0 ELSE statted[g]
        /\ \A g \in Files : g # f => index'[g] = index[g]
        /\ index'[f] = statted[f] \/ (disk[f] = 0 /\ index'[f] = index[f])
    BY DEF WriteOne, queue, Settled, MTyped, WorkOK
  <1>2. /\ KernelOK' /\ TopOK' /\ WalkOK' /\ \A g \in Files : Ordered(g)'
        /\ UNCHANGED <<disk, kernel, recv>>
        /\ \A g \in Files : Coming(g)' <=> Coming(g)
    BY <1>1, MainFrame
  <1>3. PhaseOK'
    BY <1>1 DEF Settled, PhaseOK
  <1>4. \A x, k : Waiting(x, k)' = Waiting(x, k)
    BY <1>1 DEF Waiting
  <1>5. ASSUME NEW g \in Files PROVE Tracked(g)'
    <2>1. Tracked(g) /\ (Queued(g)' <=> Queued(g)) /\ (Going(g)' <=> Going(g))
      BY <1>1, <1>2, <1>4 DEF Settled, Queued, Going
    <2>2. CASE disk[g] = 0
      BY <1>1, <1>2, <2>1, <2>2 DEF Tracked, Absent
    <2>3. CASE disk[g] # 0 /\ g # f
      BY <1>1, <1>2, <1>4, <2>1, <2>3 DEF Tracked, Present
    <2>4. CASE disk[g] # 0 /\ g = f
      <3>1. Present(f) /\ index'[f] = statted[f] /\ statted'[f] = 0
        BY <1>1, <2>1, <2>4 DEF Tracked
      <3>2. index'[f] # disk'[f] => Coming(f)' \/ Queued(f)'
        BY <1>1, <1>2, <2>1, <2>4, <3>1 DEF Present
      <3>3. Present(f)'
        BY <1>1, <1>2, <1>4, <2>1, <2>4, <3>1, <3>2 DEF Present
      <3>4. QED
        BY <1>2, <2>4, <3>3 DEF Tracked
    <2>5. QED
      BY <2>2, <2>3, <2>4
  <1>6. QED
    BY <1>2, <1>3, <1>5 DEF Settled

LEMMA MainSettles == Settled /\ (Main \/ Tick) => Settled'
  <1>1. Settled /\ (Main \/ Tick) => MTyped'
    BY MainTyped DEF Settled
  <1>2. QED
    BY <1>1, PopSettles, WaitSettles, PurgeSettles, StatSettles, WriteOneSettles DEF Main

LEMMA InitSettled == Init => Settled
  <1> SUFFICES ASSUME Init PROVE Settled
    OBVIOUS
  <1>1. MTyped
    BY InitTyped
  <1>2. /\ kernel = << >> /\ watch = [d \in Places |-> 0]
        /\ recv = [at |-> "visit", todo |-> {Top}, dir |-> None, for |-> None]
        /\ pc = "wait" /\ modified = {} /\ deleted = {}
        /\ statted = [f \in Files |-> 0] /\ index = disk
        /\ iqueue = << >> /\ dqueue = << >>
    BY DEF Init
  <1>3. KernelOK /\ TopOK /\ WalkOK /\ PhaseOK
    BY <1>2, EmptySeq, Names DEF KernelOK, FromTop, TopOK, WalkOK, PhaseOK
  <1>4. ASSUME NEW f \in Files PROVE Ordered(f) /\ Tracked(f)
    <2>1. \A S, T : Followed(kernel, S, T)
      BY <1>2, NoEvents
    <2>2. \A x, k : ~ Waiting(x, k)
      BY <1>2 DEF Waiting
    <2>3. Ordered(f)
      BY <2>1 DEF Init, Ordered
    <2>4. Tracked(f)
      BY <1>2, <2>2 DEF Tracked, Present, Absent
    <2>5. QED
      BY <2>3, <2>4
  <1>5. QED
    BY <1>1, <1>3, <1>4 DEF Settled

LEMMA NextSettled == Settled /\ [Next]_vars => Settled'
  <1>1. ASSUME Settled, UNCHANGED vars PROVE Settled'
    <2>1. MTyped'
      BY <1>1, NextTyped DEF Settled
    <2>2. /\ UNCHANGED <<tree, idtopath, recv, missed, overridden, pc>>
          /\ UNCHANGED <<modified, deleted, statted, index, iqueue, dqueue>>
      BY <1>1 DEF vars, queue, work
    <2>3. PhaseOK' /\ \A x, k : Waiting(x, k)' <=> Waiting(x, k)
      BY <1>1, <2>2 DEF Settled, PhaseOK, Waiting
    <2>4. QED
      BY <1>1, <2>1, <2>2, <2>3, IdleTracks
  <1>2. QED
    BY <1>1, UserSettles, ReceiverSettles, MainSettles DEF Next

(* QuietMeansExact: whatever the user changes while the events are read,   *)
(* the new directories walked and the lists processed, when all is quiet   *)
(* the index has the present version of every file and of no other, the    *)
(* noted files excepted: no event that is read late, replaced or out of    *)
(* its order leaves anything else behind.                                  *)
THEOREM QuietIndexIsExact == Spec => []QuietMeansExact
  <1>1. Settled => QuietMeansExact
    <2> SUFFICES ASSUME Settled, Quiet, NEW f \in Files
                 PROVE  index[f] = disk[f] \/ f \in missed \cup overridden
      BY DEF QuietMeansExact
    <2>1. /\ kernel = << >> /\ recv.at = "idle" /\ modified = {} /\ deleted = {} /\ statted[f] = 0
          /\ \A x, k : ~ Waiting(x, k)
      BY DEF Quiet, Waiting
    <2>2. recv.todo = {} /\ recv.dir = None /\ Home[f] # None
      BY <2>1, Names DEF Settled, WalkOK
    <2>3. \A S : ~ Holds(kernel, S)
      BY <2>1, NoEvents
    <2>4. Tracked(f) /\ ~ Walked(f)
      BY <2>2 DEF Settled, Walked
    <2>5. CASE disk[f] = 0
      BY <2>1, <2>3, <2>4, <2>5 DEF Tracked, Absent, Going
    <2>6. CASE disk[f] # 0
      BY <2>1, <2>3, <2>4, <2>6 DEF Tracked, Present, Coming, Queued
    <2>7. QED
      BY <2>5, <2>6
  <1>2. QED
    BY <1>1, InitSettled, NextSettled, PTL DEF Spec
=============================================================================
