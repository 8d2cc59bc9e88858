------------------------ MODULE FilterDialog_proofs ------------------------
(***************************************************************************)
(* Proofs about the dialogue with a filter.                                *)
(***************************************************************************)
EXTENDS FilterDialog, FiniteSetTheorems, SequenceTheorems, TLAPS

(* The whole answers a script may give when it is asked for a document.    *)
AnswersFor(f, n) == IF n > Count[f] THEN {Beyond} ELSE Known(f, n) \cup Odd(f, n)

(* The document the handler waits for.                                     *)
Wanted == IF ipath = 0 THEN Len(docs) + 1 ELSE ipath

(* The ends of answers in the pipe and in the child.                       *)
Ends(s) == {i \in 1 .. Len(s) : s[i] = End}
Owed == Len(requests) + Cardinality(Ends(answers)) + Cardinality(Ends(output))

-----------------------------------------------------------------------------
(* The parts of the inductive invariant.                                   *)

Results ==
    /\ docs \in Seq(Element \cup {Tag("empty")})
    /\ havedoc <=> file # NoFile
    /\ file # NoFile => ipath <= Count[file]
    /\ file = NoFile \/ first \/ ipath # 0 => docs = <<>>
    /\ pc = "reading" => ~first
    /\ pc = "idle" => answer = <<>>
    /\ child.open # NoFile => child.at # 0

(* A request or an answer is waited for by each of the uses that gave up.  *)
Pending ==
    /\ Owed <= uses
    /\ pc = "idle" /\ file # NoFile => Owed + 1 <= uses

(* The child has the file open and is at the document that comes next.     *)
InStep == child.open = file /\ (ipath = 0 => child.at = Len(docs) + 1)

Asked ==
    /\ \E r \in [file : {file, NoFile}, ipath : {ipath}] :
        /\ requests = <<r>>
        /\ IF r.file = NoFile THEN InStep ELSE docs = <<>>
    /\ output = <<>> /\ answers = <<>> /\ answer = <<>>

(* What is read, in the pipe and still to come is one whole answer, cut    *)
(* short when the child is not up any more.                                *)
OnePiece(a) ==
    /\ \A k \in 1 .. Len(answer) : answer[k] = a[k]
    /\ \A k \in 1 .. Len(answers) : answers[k] \in {a[Len(answer) + k], Part}
    /\ \A k \in 1 .. Len(output) : output[k] = a[Len(answer) + Len(answers) + k]
    /\ Len(answer) + Len(answers) + Len(output) <= Len(a)
    /\ child.state = "up" =>
        /\ Len(answer) + Len(answers) + Len(output) = Len(a)
        /\ \A k \in 1 .. Len(answers) : answers[k] # Part

BeingAnswered ==
    /\ requests = <<>>
    /\ child.open = file
    /\ ipath = 0 => child.at = Len(docs) + 2
    /\ \E a \in AnswersFor(file, Wanted) : OnePiece(a)

Orderly ==
    /\ pc = "idle" =>
        /\ requests = <<>> /\ output = <<>> /\ answers = <<>>
        /\ havedoc /\ ~first => child.state # "none" /\ InStep
    /\ pc = "reading" => child.state # "none" /\ (Asked \/ BeingAnswered)
    /\ file # NoFile => DocumentsAreOwn(file, ipath, docs)
    /\ file # NoFile /\ ipath = 0 => Len(docs) <= Count[file]

Finished ==
    done.clean =>
        /\ DocumentsAreOwn(done.file, done.ipath, done.docs)
        /\ done.how = "eof" => Len(done.docs) = IF done.ipath = 0 THEN Count[done.file] ELSE 1

Dialogue == TypeOK /\ Results /\ Pending /\ (~unread => Orderly) /\ Finished

-----------------------------------------------------------------------------
(* The ends in a sequence of elements.                                     *)

LEMMA EndsCount ==
    ASSUME NEW s \in Seq(Element)
    PROVE  IsFiniteSet(Ends(s)) /\ Cardinality(Ends(s)) \in Nat
  <1>1. Ends(s) \in SUBSET (1 .. Len(s)) /\ IsFiniteSet(1 .. Len(s))
    BY FS_Interval, LenProperties DEF Ends
  <1>2. QED
    BY <1>1, FS_Subset, FS_CardinalityType

LEMMA NoEnds == Cardinality(Ends(<<>>)) = 0
  BY FS_EmptySet DEF Ends

LEMMA EndsAppend ==
    ASSUME NEW s \in Seq(Element), NEW x \in Element
    PROVE  Cardinality(Ends(Append(s, x))) =
               Cardinality(Ends(s)) + (IF x = End THEN 1 ELSE 0)
  <1>1. /\ Len(s) \in Nat /\ Len(Append(s, x)) = Len(s) + 1
        /\ \A i \in 1 .. Len(s) : Append(s, x)[i] = s[i]
        /\ Append(s, x)[Len(s) + 1] = x
    BY AppendProperties, LenProperties
  <1>2. CASE x = End
    <2>1. Ends(Append(s, x)) = Ends(s) \cup {Len(s) + 1} /\ Len(s) + 1 \notin Ends(s)
      BY <1>1, <1>2 DEF Ends
    <2>2. QED
      BY <2>1, <1>2, EndsCount, FS_AddElement
  <1>3. CASE x # End
    <2>1. Ends(Append(s, x)) = Ends(s)
      BY <1>1, <1>3 DEF Ends
    <2>2. QED
      BY <2>1, <1>3, EndsCount
  <1>4. QED
    BY <1>2, <1>3

LEMMA EndsTail ==
    ASSUME NEW s \in Seq(Element), s # <<>>
    PROVE  Cardinality(Ends(s)) =
               Cardinality(Ends(Tail(s))) + (IF Head(s) = End THEN 1 ELSE 0)
  <1> DEFINE T == {i \in 2 .. Len(s) : s[i] = End}
             b == [i \in Ends(Tail(s)) |-> i + 1]
  <1>1. /\ Tail(s) \in Seq(Element) /\ Len(s) \in Nat \ {0} /\ Len(Tail(s)) = Len(s) - 1
        /\ \A i \in 1 .. Len(Tail(s)) : Tail(s)[i] = s[i + 1]
        /\ Head(s) = s[1]
    BY HeadTailProperties, LenProperties, EmptySeq
  <1>2. Cardinality(Ends(Tail(s))) = Cardinality(T) /\ IsFiniteSet(T)
    <2>1. b \in [Ends(Tail(s)) -> T]
      BY <1>1 DEF Ends
    <2>2. \A i, j \in Ends(Tail(s)) : b[i] = b[j] => i = j
      BY <1>1 DEF Ends
    <2>3. \A j \in T : \E i \in Ends(Tail(s)) : b[i] = j
      <3>1. SUFFICES ASSUME NEW j \in T PROVE j - 1 \in Ends(Tail(s)) /\ (j - 1) + 1 = j
        OBVIOUS
      <3>2. j - 1 \in 1 .. Len(Tail(s)) /\ s[(j - 1) + 1] = End
        BY <1>1
      <3>3. QED
        BY <3>2, <1>1 DEF Ends
    <2>4. ExistsBijection(Ends(Tail(s)), T)
      BY <2>1, <2>2, <2>3 DEF ExistsBijection, Bijection, Injection, Surjection, IsInjective
    <2>5. QED
      BY <2>4, <1>1, EndsCount, FS_Bijection
  <1>3. CASE Head(s) = End
    <2>1. Ends(s) = T \cup {1} /\ 1 \notin T
      BY <1>1, <1>3 DEF Ends
    <2>2. QED
      BY <2>1, <1>2, <1>3, FS_AddElement, FS_CardinalityType
  <1>4. CASE Head(s) # End
    <2>1. Ends(s) = T
      BY <1>1, <1>4 DEF Ends
    <2>2. QED
      BY <2>1, <1>2, <1>4, FS_CardinalityType
  <1>5. QED
    BY <1>3, <1>4

-----------------------------------------------------------------------------
(* The answers of a script.                                                *)

LEMMA DocIsElement ==
    ASSUME NEW f \in File, NEW n \in 1 .. Count[f]
    PROVE  Doc(f, n) \in Element
  <1>1. Doc(f, n) \in {Doc(f, m) : m \in 1 .. Count[f]}
    OBVIOUS
  <1>2. \E S \in {{Doc(g, m) : m \in 1 .. Count[g]} : g \in File} : Doc(f, n) \in S
    BY <1>1
  <1>3. QED
    BY <1>2 DEF Element

LEMMA TagIsElement ==
    ASSUME NEW t \in {"", "part", "field", "eofnext:", "eofnow:", "subdocerror:", "fileerror:"}
    PROVE  Tag(t) \in Element
  BY DEF Element

LEMMA Pair ==
    ASSUME NEW x \in Element, NEW y \in Element
    PROVE  <<x, y>> \in Seq(Element) /\ Len(<<x, y>>) = 2 /\ <<x, y>>[1] = x /\ <<x, y>>[2] = y
  OBVIOUS

LEMMA Triple ==
    ASSUME NEW x \in Element, NEW y \in Element, NEW z \in Element
    PROVE  /\ <<x, y, z>> \in Seq(Element) /\ Len(<<x, y, z>>) = 3
           /\ <<x, y, z>>[1] = x /\ <<x, y, z>>[2] = y /\ <<x, y, z>>[3] = z
  OBVIOUS

(* What an answer to a request for the document n of f says, element by    *)
(* element.                                                                *)
LEMMA AnswerForms ==
    ASSUME NEW f \in File, NEW n \in Nat \ {0}, NEW a \in AnswersFor(f, n)
    PROVE  /\ a \in Seq(Element)
           /\ \/ n > Count[f] /\ Len(a) = 2 /\ a[1] = Tag("eofnow:") /\ a[2] = End
              \/ n <= Count[f] /\ Len(a) = 2 /\ a[1] = Doc(f, n) /\ a[2] = End
              \/ n = Count[f] /\ Len(a) = 3 /\ a[1] = Doc(f, n) /\ a[2] = Tag("eofnext:") /\ a[3] = End
              \/ /\ n <= Count[f] /\ Len(a) = MaxElements + 2
                 /\ \A i \in 1 .. MaxElements : a[i] = Tag("field")
                 /\ a[MaxElements + 1] = Doc(f, n) /\ a[MaxElements + 2] = End
              \/ n <= Count[f] /\ Len(a) = 3 /\ a[1] = Doc(f, n) /\ a[2] = Tag("subdocerror:") /\ a[3] = End
              \/ n <= Count[f] /\ Len(a) = 3 /\ a[1] = Tag("eofnext:") /\ a[2] = Tag("fileerror:") /\ a[3] = End
  <1>1. Count[f] \in Nat \ {0} /\ MaxElements \in Nat \ {0}
    BY DialogAssumption
  <1>2. /\ Tag("eofnow:") \in Element /\ Tag("field") \in Element /\ Tag("eofnext:") \in Element
        /\ Tag("subdocerror:") \in Element /\ Tag("fileerror:") \in Element /\ End \in Element
    BY TagIsElement DEF End
  <1>3. CASE n > Count[f]
    <2>1. a = <<Tag("eofnow:"), End>>
      BY <1>3 DEF AnswersFor, Beyond
    <2>2. QED
      BY <2>1, <1>2, <1>3, Pair
  <1>4. CASE n <= Count[f]
    <2>1. Doc(f, n) \in Element /\ ~(n > Count[f])
      BY <1>1, <1>4, DocIsElement
    <2>2. a \in Known(f, n) \cup Odd(f, n)
      BY <2>1 DEF AnswersFor
    <2>3. CASE a = <<Doc(f, n), End>>
      BY <2>1, <2>3, <1>2, <1>4, Pair
    <2>4. CASE n = Count[f] /\ a = <<Doc(f, n), Tag("eofnext:"), End>>
      BY <2>1, <2>4, <1>2, Triple
    <2>5. CASE a = [i \in 1 .. MaxElements |-> Tag("field")] \o <<Doc(f, n), End>>
      <3> DEFINE many == [i \in 1 .. MaxElements |-> Tag("field")]
                 rest == <<Doc(f, n), End>>
      <3>1. many \in Seq(Element) /\ Len(many) = MaxElements
        BY <1>1, <1>2
      <3>2. rest \in Seq(Element) /\ Len(rest) = 2 /\ rest[1] = Doc(f, n) /\ rest[2] = End
        BY <2>1, <1>2, Pair
      <3>3. /\ a \in Seq(Element) /\ Len(a) = MaxElements + 2
            /\ \A i \in 1 .. MaxElements + 2 :
                  a[i] = IF i <= MaxElements THEN many[i] ELSE rest[i - MaxElements]
        <4> HIDE DEF many, rest
        <4>1. a = many \o rest
          BY <2>5 DEF many, rest
        <4>2. /\ many \o rest \in Seq(Element) /\ Len(many \o rest) = Len(many) + Len(rest)
              /\ \A i \in 1 .. Len(many) + Len(rest) :
                    (many \o rest)[i] = IF i <= Len(many) THEN many[i] ELSE rest[i - Len(many)]
          BY <3>1, <3>2, ConcatProperties
        <4>3. QED
          BY <4>1, <4>2, <3>1, <3>2, <1>1
      <3>4. \A i \in 1 .. MaxElements : a[i] = Tag("field")
        BY <3>3, <1>1
      <3>5. a[MaxElements + 1] = rest[1] /\ a[MaxElements + 2] = rest[2]
        <4> HIDE DEF many, rest
        <4>1. QED
          BY <3>3, <1>1
      <3>6. QED
        BY <3>3, <3>4, <3>5, <3>2, <1>4
    <2>6. CASE a = <<Doc(f, n), Tag("subdocerror:"), End>>
      BY <2>1, <2>6, <1>2, <1>4, Triple
    <2>7. CASE a = <<Tag("eofnext:"), Tag("fileerror:"), End>>
      BY <2>7, <1>2, <1>4, Triple
    <2>8. QED
      BY <2>2, <2>3, <2>4, <2>5, <2>6, <2>7 DEF Known, Odd
  <1>5. QED
    BY <1>1, <1>3, <1>4

(* An answer ends with its only empty element.                             *)
LEMMA AnswerEnds ==
    ASSUME NEW f \in File, NEW n \in Nat \ {0}, NEW a \in AnswersFor(f, n)
    PROVE  /\ a \in Seq(Element) /\ Len(a) \in Nat \ {0}
           /\ \A k \in 1 .. Len(a) : a[k] # Part /\ (a[k] = End <=> k = Len(a))
           /\ Cardinality(Ends(a)) = 1
  <1>1. /\ a \in Seq(Element) /\ Len(a) \in Nat \ {0}
        /\ \A k \in 1 .. Len(a) : a[k] # Part /\ (a[k] = End <=> k = Len(a))
    <2>1. /\ End # Part /\ Doc(f, n) \notin {Part, End}
          /\ \A t \in {"eofnow:", "eofnext:", "field", "subdocerror:", "fileerror:"} :
                  Tag(t) \notin {Part, End}
      BY DEF Doc, Tag, Part, End
    <2>2. MaxElements \in Nat \ {0}
      BY DialogAssumption
    <2>3. a \in Seq(Element)
      BY AnswerForms
    <2>4. CASE /\ Len(a) = MaxElements + 2
               /\ \A i \in 1 .. MaxElements : a[i] = Tag("field")
               /\ a[MaxElements + 1] = Doc(f, n) /\ a[MaxElements + 2] = End
      <3>1. \A k \in 1 .. Len(a) : k \in 1 .. MaxElements \/ k = MaxElements + 1 \/ k = MaxElements + 2
        BY <2>2, <2>4
      <3>2. QED
        BY <3>1, <2>1, <2>2, <2>3, <2>4
    <2>5. CASE Len(a) = 2 /\ a[1] \in {Tag("eofnow:"), Doc(f, n)} /\ a[2] = End
      BY <2>1, <2>3, <2>5
    <2>6. CASE /\ Len(a) = 3 /\ a[1] \in {Doc(f, n), Tag("eofnext:")}
               /\ a[2] \in {Tag("eofnext:"), Tag("subdocerror:"), Tag("fileerror:")} /\ a[3] = End
      BY <2>1, <2>3, <2>6
    <2>7. QED
      BY <2>4, <2>5, <2>6, AnswerForms
  <1>2. Ends(a) = {Len(a)}
    BY <1>1 DEF Ends
  <1>3. QED
    BY <1>1, <1>2, FS_Singleton
-----------------------------------------------------------------------------
(* The steps.                                                              *)

LEMMA OwedCount ==
    ASSUME TypeOK
    PROVE  /\ Owed \in Nat /\ Len(requests) \in Nat
           /\ Cardinality(Ends(answers)) \in Nat /\ Cardinality(Ends(output)) \in Nat
  BY EndsCount DEF TypeOK, Owed

LEMMA UseStarts ==
    ASSUME Dialogue, NEW f \in File, NEW n \in 0 .. Count[f], SetDocumentFile(f, n)
    PROVE  Dialogue'
  <1> USE DEF Dialogue
  <1>1. Count[f] \in Nat /\ MaxUses \in Nat /\ f # NoFile
    BY DialogAssumption
  <1>2. pc = "idle" /\ docs = <<>>
    BY DEF SetDocumentFile, TypeOK, Results
  <1>3. TypeOK'
    BY <1>1 DEF SetDocumentFile, TypeOK, pipes
  <1>4. Results'
    BY <1>1, <1>2 DEF SetDocumentFile, Results, pipes
  <1>5. Pending'
    <2>1. Owed' = Owed
      BY DEF SetDocumentFile, pipes, Owed
    <2>2. QED
      BY <2>1, <1>2, OwedCount DEF SetDocumentFile, Pending, TypeOK
  <1>6. ~unread' => Orderly'
    BY <1>1, <1>2 DEF SetDocumentFile, Orderly, DocumentsAreOwn, pipes
  <1>7. Finished'
    BY DEF SetDocumentFile, Finished, DocumentsAreOwn
  <1>8. QED
    BY <1>3, <1>4, <1>5, <1>6, <1>7

LEMMA RequestSent ==
    ASSUME Dialogue, NextDocument
    PROVE  Dialogue'
  <1> USE DEF Dialogue
  <1>1. /\ file \in File /\ ipath \in Nat /\ Request \in [file : File \cup {NoFile}, ipath : Nat]
        /\ requests' \in Seq([file : File \cup {NoFile}, ipath : Nat])
        /\ Len(requests') = Len(requests) + 1
    BY DEF NextDocument, TypeOK, Results, Request
  <1>2. child' \in [state : {"none", "up", "dead", "stuck"}, open : File \cup {NoFile}, at : Nat]
    BY DEF NextDocument, TypeOK, Running
  <1>3. Owed' = Owed + 1 /\ Owed' <= uses
    <2>1. Owed' = Owed + 1
      BY <1>1, OwedCount DEF NextDocument, Owed
    <2>2. QED
      BY <2>1, <1>1, DialogAssumption DEF NextDocument, Pending
  <1>4. TypeOK'
    <2>1. Len(requests') <= MaxUses
      BY <1>1, <1>3, OwedCount, DialogAssumption DEF Owed, NextDocument, TypeOK
    <2>2. QED
      BY <1>1, <1>2, <2>1, DialogAssumption DEF NextDocument, TypeOK
  <1>5. Results'
    BY <1>1 DEF NextDocument, Results, Running
  <1>6. Pending'
    BY <1>3 DEF NextDocument, Pending
  <1>7. ~unread' => Orderly'
    <2>1. SUFFICES ASSUME ~unread PROVE Orderly'
      BY DEF NextDocument
    <2>2. Orderly /\ requests = <<>> /\ output = <<>> /\ answers = <<>> /\ answer = <<>>
      BY <2>1 DEF NextDocument, Orderly, Results
    <2>3. child'.state # "none"
      BY DEF NextDocument, Running, TypeOK
    <2>4. requests' = <<Request>>
      BY <2>2 DEF NextDocument
    <2>5. CASE first
      <3>1. Request.file = file /\ Request.file # NoFile /\ docs = <<>> /\ Request \in [file : {file, NoFile}, ipath : {ipath}]
        BY <2>5, <1>1, DialogAssumption DEF Request, Results
      <3>2. QED
        BY <2>2, <2>3, <2>4, <3>1 DEF NextDocument, Orderly, Asked
    <2>6. CASE ~first
      <3>1. Request.file = NoFile /\ Request \in [file : {file, NoFile}, ipath : {ipath}]
        BY <2>6 DEF Request
      <3>2. child' = child /\ InStep
        BY <2>2, <2>6 DEF NextDocument, Orderly
      <3>3. InStep'
        BY <3>2 DEF NextDocument, InStep
      <3>4. QED
        BY <2>2, <2>3, <2>4, <3>1, <3>3 DEF NextDocument, Orderly, Asked
    <2>7. QED
      BY <2>5, <2>6
  <1>8. Finished'
    BY DEF NextDocument, Finished, DocumentsAreOwn
  <1>9. QED
    BY <1>4, <1>5, <1>6, <1>7, <1>8

LEMMA Emptied ==
    ASSUME Zapped
    PROVE  /\ child' \in [state : {"none", "up", "dead", "stuck"}, open : File \cup {NoFile}, at : Nat]
           /\ output' \in Seq(Element) /\ answers' \in Seq(Element)
           /\ requests' \in Seq([file : File \cup {NoFile}, ipath : Nat]) /\ Len(requests') = 0
           /\ unread' = FALSE /\ Owed' = 0
  <1>1. Owed' = 0
    <2>1. Len(requests') = 0 /\ output' = <<>> /\ answers' = <<>>
      BY DEF Zapped
    <2>2. Cardinality(Ends(output')) = 0 /\ Cardinality(Ends(answers')) = 0
      BY <2>1, NoEnds
    <2>3. QED
      BY <2>1, <2>2 DEF Owed
  <1>2. QED
    BY <1>1, EmptySeq DEF Zapped, NoChild

LEMMA NothingRead ==
    ASSUME Returns("failed"), TypeOK
    PROVE  /\ answer' \in Seq(Element) /\ Len(answer') <= MaxElements
           /\ file' = NoFile /\ ipath' = 0 /\ havedoc' = FALSE /\ pc' = "idle"
           /\ docs' = <<>>
  BY EmptySeq, DialogAssumption DEF Returns, Popped

(* The child is killed and the handler goes back to the pool.              *)
LEMMA GivesUp ==
    ASSUME Dialogue, file # NoFile, Zapped, Returns("failed"), UNCHANGED <<uses, trouble>>,
           first' \in BOOLEAN
    PROVE  Dialogue'
  <1> USE DEF Dialogue
  <1>a. /\ answer' \in Seq(Element) /\ Len(answer') <= MaxElements
        /\ file' = NoFile /\ ipath' = 0 /\ havedoc' = FALSE /\ pc' = "idle"
        /\ docs' = <<>>
    BY NothingRead
  <1>b. /\ child' \in [state : {"none", "up", "dead", "stuck"}, open : File \cup {NoFile}, at : Nat]
        /\ output' \in Seq(Element) /\ answers' \in Seq(Element)
        /\ requests' \in Seq([file : File \cup {NoFile}, ipath : Nat]) /\ Len(requests') = 0
        /\ unread' = FALSE /\ Owed' = 0
    BY Emptied
  <1>1. TypeOK'
    <2>1. /\ file' \in File \cup {NoFile} /\ ipath' \in Nat /\ havedoc' \in BOOLEAN
          /\ pc' \in {"idle", "reading"} /\ (pc' = "reading" => file' # NoFile)
          /\ unread' \in BOOLEAN
      BY <1>a, <1>b
    <2>2. Len(requests') <= MaxUses
      BY <1>b, DialogAssumption
    <2>3. uses' \in 0 .. MaxUses /\ trouble' \in 0 .. MaxTrouble
      BY DEF TypeOK
    <2>4. QED
      BY <1>a, <1>b, <2>1, <2>2, <2>3 DEF TypeOK
  <1>2. Results'
    BY DEF Results, Zapped, Returns, Popped, NoChild, TypeOK
  <1>3. Pending'
    BY <1>a, <1>b, DialogAssumption DEF Pending, TypeOK
  <1>4. ~unread' => Orderly'
    BY DEF Orderly, Zapped, Returns, Popped
  <1>5. Finished'
    BY DEF Finished, Orderly, DocumentsAreOwn, Zapped, Returns, Popped
  <1>6. QED
    BY <1>1, <1>2, <1>3, <1>4, <1>5

LEMMA ChildIsDead ==
    ASSUME Dialogue, SendFails \/ ReadFails
    PROVE  Dialogue'
  BY GivesUp DEF Dialogue, SendFails, ReadFails, TypeOK, Results

(* What the handler takes from the pipe.                                   *)
LEMMA Takes ==
    ASSUME Dialogue, answers # <<>>, answers' = Tail(answers), UNCHANGED <<output, requests>>
    PROVE  /\ Head(answers) \in Element /\ answers' \in Seq(Element)
           /\ Len(answers') = Len(answers) - 1 /\ Len(answers) \in Nat \ {0}
           /\ \A k \in 1 .. Len(answers') : answers'[k] = answers[k + 1]
           /\ Head(answers) = answers[1]
           /\ Owed' = IF Head(answers) = End THEN Owed - 1 ELSE Owed
  <1>1. answers \in Seq(Element)
    BY DEF Dialogue, TypeOK
  <1>2. /\ Head(answers) \in Element /\ answers' \in Seq(Element)
        /\ Len(answers') = Len(answers) - 1 /\ Len(answers) \in Nat \ {0}
        /\ \A k \in 1 .. Len(answers') : answers'[k] = answers[k + 1]
        /\ Head(answers) = answers[1]
    BY <1>1, HeadTailProperties, EmptySeq
  <1>3. Owed' = IF Head(answers) = End THEN Owed - 1 ELSE Owed
    <2>1. Cardinality(Ends(answers)) =
              Cardinality(Ends(answers')) + (IF Head(answers) = End THEN 1 ELSE 0)
      BY <1>1, EndsTail
    <2>2. Cardinality(Ends(answers')) \in Nat /\ Cardinality(Ends(output)) \in Nat /\ Len(requests) \in Nat
      BY <1>2, EndsCount, OwedCount DEF Dialogue
    <2>3. Owed' = Len(requests) + Cardinality(Ends(answers')) + Cardinality(Ends(output))
      BY DEF Owed
    <2>4. QED
      BY <2>1, <2>2, <2>3 DEF Owed
  <1>4. QED
    BY <1>2, <1>3

LEMMA ElementRead ==
    ASSUME Dialogue, ReadElement
    PROVE  Dialogue'
  <1> USE DEF Dialogue
  <1>1. /\ Head(answers) \in Element /\ answers' \in Seq(Element)
        /\ Len(answers') = Len(answers) - 1 /\ Len(answers) \in Nat \ {0}
        /\ \A k \in 1 .. Len(answers') : answers'[k] = answers[k + 1]
        /\ Head(answers) = answers[1] /\ Owed' = Owed
    BY Takes DEF ReadElement
  <1>2. /\ answer \in Seq(Element) /\ Len(answer) \in Nat
        /\ answer' \in Seq(Element) /\ Len(answer') = Len(answer) + 1
        /\ \A k \in 1 .. Len(answer) : answer'[k] = answer[k]
        /\ answer'[Len(answer) + 1] = answers[1]
    BY <1>1, AppendProperties, LenProperties DEF ReadElement, TypeOK
  <1>3. TypeOK'
    BY <1>1, <1>2, DialogAssumption DEF ReadElement, TypeOK
  <1>4. Results' /\ Pending' /\ Finished'
    BY <1>1 DEF ReadElement, Results, Pending, Finished, DocumentsAreOwn
  <1>5. ~unread' => Orderly'
    <2>1. SUFFICES ASSUME ~unread PROVE Orderly'
      BY DEF ReadElement
    <2>2. BeingAnswered /\ pc = "reading"
      BY <2>1 DEF ReadElement, Orderly, Asked
    <2>3. PICK a \in AnswersFor(file, Wanted) : OnePiece(a)
      BY <2>2 DEF BeingAnswered
    <2>4. Len(output) \in Nat /\ Len(a) \in Nat
      <3>1. file \in File /\ Wanted \in Nat \ {0}
        BY <2>2, LenProperties DEF TypeOK, Results, Wanted
      <3>2. QED
        BY <3>1, AnswerEnds, LenProperties DEF TypeOK
    <2>5. \A k \in 1 .. Len(answer') : answer'[k] = a[k]
      <3>1. answers[1] = a[Len(answer) + 1]
        <4>1. answers[1] \in {a[Len(answer) + 1], Part} /\ answers[1] # Part
          BY <2>3, <1>1 DEF OnePiece, ReadElement
        <4>2. QED
          BY <4>1
      <3>2. QED
        BY <3>1, <1>2, <2>3 DEF OnePiece
    <2>6. \A k \in 1 .. Len(answers') : answers'[k] \in {a[Len(answer') + k], Part}
      <3>1. TAKE k \in 1 .. Len(answers')
      <3>2. k + 1 \in 1 .. Len(answers) /\ Len(answer) + (k + 1) = Len(answer') + k
        BY <1>1, <1>2
      <3>3. QED
        BY <3>2, <1>1, <2>3 DEF OnePiece
    <2>7. \A k \in 1 .. Len(output) : output[k] = a[Len(answer') + Len(answers') + k]
      <3>1. Len(answer') + Len(answers') = Len(answer) + Len(answers)
        BY <1>1, <1>2
      <3>2. QED
        BY <3>1, <2>3 DEF OnePiece
    <2>8. /\ Len(answer') + Len(answers') + Len(output) <= Len(a)
          /\ child.state = "up" =>
                /\ Len(answer') + Len(answers') + Len(output) = Len(a)
                /\ \A k \in 1 .. Len(answers') : answers'[k] # Part
      <3>1. Len(answer') + Len(answers') = Len(answer) + Len(answers)
        BY <1>1, <1>2
      <3>2. \A k \in 1 .. Len(answers') : k + 1 \in 1 .. Len(answers)
        BY <1>1
      <3>3. QED
        BY <3>1, <3>2, <1>1, <2>3 DEF OnePiece
    <2>9. OnePiece(a)'
      BY <2>5, <2>6, <2>7, <2>8 DEF OnePiece, ReadElement
    <2>10. BeingAnswered'
      BY <2>2, <2>3, <2>9 DEF BeingAnswered, ReadElement, Wanted
    <2>11. QED
      BY <2>1, <2>2, <2>10 DEF Orderly, ReadElement, DocumentsAreOwn
  <1>6. QED
    BY <1>3, <1>4, <1>5

LEMMA TooManyRead ==
    ASSUME Dialogue, TooMany
    PROVE  Dialogue'
  <1> USE DEF Dialogue
  <1>1. answers' \in Seq(Element) /\ Owed' = Owed
    BY Takes DEF TooMany
  <1>a. /\ answer' \in Seq(Element) /\ Len(answer') <= MaxElements
        /\ file' = NoFile /\ ipath' = 0 /\ havedoc' = FALSE /\ pc' = "idle"
        /\ docs' = <<>>
    BY NothingRead DEF TooMany
  <1>2. TypeOK'
    BY <1>1, <1>a, DialogAssumption DEF TooMany, TypeOK
  <1>3. Results' /\ Pending'
    BY <1>1 DEF TooMany, Results, Pending, Returns, Popped, TypeOK
  <1>4. Finished'
    BY DEF TooMany, Finished, Orderly, DocumentsAreOwn, Returns, Popped, TypeOK
  <1>5. QED
    BY <1>2, <1>3, <1>4 DEF TooMany

LEMMA Deleted ==
    ASSUME Dialogue, Delete
    PROVE  Dialogue'
  <1> USE DEF Dialogue
  <1>1. pc = "idle" /\ docs = <<>> /\ havedoc = FALSE
    BY DEF Delete, TypeOK, Results
  <1>2. TypeOK'
    BY Emptied, DialogAssumption DEF Delete, TypeOK
  <1>3. Results'
    BY DEF Delete, Zapped, Results, NoChild
  <1>4. Pending'
    BY Emptied DEF Delete, Pending, TypeOK
  <1>5. Orderly'
    BY <1>1 DEF Delete, Zapped, Orderly
  <1>6. Finished'
    BY DEF Delete, Finished, DocumentsAreOwn
  <1>7. QED
    BY <1>2, <1>3, <1>4, <1>5, <1>6

(* The handler has read all of an answer.                                  *)
LEMMA WholeAnswer ==
    ASSUME Dialogue, Answered, ~unread
    PROVE  /\ requests = <<>> /\ output = <<>> /\ answers' = <<>>
           /\ child.open = file /\ (ipath = 0 => child.at = Len(docs) + 2)
           /\ file \in File /\ Wanted \in Nat \ {0} /\ Count[file] \in Nat \ {0}
           /\ \/ Wanted > Count[file] /\ Said("eofnow:") /\ ~Said("fileerror:")
              \/ ~Said("eofnow:") /\ (Said("fileerror:") \/ Said("subdocerror:"))
              \/ /\ Wanted <= Count[file]
                 /\ ~Said("eofnow:") /\ ~Said("fileerror:") /\ ~Said("subdocerror:")
                 /\ HasDocument /\ Document = Doc(file, Wanted)
                 /\ Said("eofnext:") => Wanted = Count[file]
  <1> USE DEF Dialogue
  <1>1. /\ answers' \in Seq(Element) /\ Len(answers') = Len(answers) - 1
        /\ Len(answers) \in Nat \ {0} /\ answers[1] = End
    BY Takes DEF Answered
  <1>2. BeingAnswered /\ pc = "reading" /\ answers' = Tail(answers)
    BY DEF Answered, Orderly, Asked
  <1>3. file \in File /\ Wanted \in Nat \ {0} /\ Count[file] \in Nat \ {0}
    BY <1>2, LenProperties, DialogAssumption DEF TypeOK, Results, Wanted
  <1>4. PICK a \in AnswersFor(file, Wanted) : OnePiece(a)
    BY <1>2 DEF BeingAnswered
  <1>5. /\ Len(answer) \in Nat /\ Len(output) \in Nat /\ output \in Seq(Element)
        /\ answer \in Seq(Element) /\ DOMAIN answer = 1 .. Len(answer)
    BY LenProperties DEF TypeOK
  <1>6. /\ Len(a) \in Nat \ {0}
        /\ \A k \in 1 .. Len(a) : a[k] # Part /\ (a[k] = End <=> k = Len(a))
    BY <1>3, AnswerEnds
  <1>7. Len(answer) + 1 = Len(a)
    <2>1. answers[1] \in {a[Len(answer) + 1], Part} /\ End # Part
      <3>1. 1 \in 1 .. Len(answers)
        BY <1>1
      <3>2. End # Part
        BY DEF Part, End, Tag
      <3>3. QED
        BY <3>1, <3>2, <1>4 DEF OnePiece
    <2>2. Len(answer) + 1 \in 1 .. Len(a)
      BY <1>1, <1>4, <1>5, <1>6 DEF OnePiece
    <2>3. QED
      BY <2>1, <2>2, <1>1, <1>6
  <1>8. Len(answers) = 1 /\ Len(output) = 0
    BY <1>1, <1>4, <1>5, <1>7 DEF OnePiece
  <1>9. output = <<>> /\ answers' = <<>>
    BY <1>1, <1>5, <1>8, EmptySeq
  <1>10. /\ Doc(file, Wanted).name = "document"
         /\ \A t \in {"field", "eofnext:", "eofnow:", "subdocerror:", "fileerror:"} : Tag(t).name = t
    BY DEF Doc, Tag
  <1>11. \A k \in 1 .. Len(answer) : answer[k] = a[k]
    BY <1>4 DEF OnePiece
  <1>12. \/ Wanted > Count[file] /\ Said("eofnow:") /\ ~Said("fileerror:")
         \/ ~Said("eofnow:") /\ (Said("fileerror:") \/ Said("subdocerror:"))
         \/ /\ Wanted <= Count[file]
            /\ ~Said("eofnow:") /\ ~Said("fileerror:") /\ ~Said("subdocerror:")
            /\ HasDocument /\ Document = Doc(file, Wanted)
            /\ Said("eofnext:") => Wanted = Count[file]
    <2>1. CASE Wanted > Count[file] /\ Len(a) = 2 /\ a[1] = Tag("eofnow:")
      <3>1. Len(answer) = 1 /\ answer[1] = Tag("eofnow:")
        BY <2>1, <1>5, <1>7, <1>11
      <3>2. QED
        BY <2>1, <3>1, <1>5, <1>10 DEF Said
    <2>2. CASE Wanted <= Count[file] /\ Len(a) = 2 /\ a[1] = Doc(file, Wanted)
      <3>1. Len(answer) = 1 /\ answer[1] = Doc(file, Wanted)
        BY <2>2, <1>5, <1>7, <1>11
      <3>2. HasDocument /\ Document = Doc(file, Wanted)
        BY <3>1, <1>5, <1>10 DEF HasDocument, Document
      <3>3. QED
        BY <2>2, <3>1, <3>2, <1>5, <1>10 DEF Said
    <2>3. CASE Wanted = Count[file] /\ Len(a) = 3 /\ a[1] = Doc(file, Wanted) /\ a[2] = Tag("eofnext:")
      <3>1. Len(answer) = 2 /\ answer[1] = Doc(file, Wanted) /\ answer[2] = Tag("eofnext:")
        BY <2>3, <1>5, <1>7, <1>11
      <3>2. HasDocument /\ Document = Doc(file, Wanted)
        BY <3>1, <1>5, <1>10 DEF HasDocument, Document
      <3>3. QED
        BY <2>3, <3>1, <3>2, <1>3, <1>5, <1>10 DEF Said
    <2>4. CASE Len(a) = MaxElements + 2
      BY <2>4, <1>5, <1>7, DialogAssumption DEF TypeOK
    <2>5. CASE Len(a) = 3 /\ a[1] = Doc(file, Wanted) /\ a[2] = Tag("subdocerror:")
      <3>1. Len(answer) = 2 /\ answer[1] = Doc(file, Wanted) /\ answer[2] = Tag("subdocerror:")
        BY <2>5, <1>5, <1>7, <1>11
      <3>2. QED
        BY <3>1, <1>5, <1>10 DEF Said
    <2>6. CASE Len(a) = 3 /\ a[1] = Tag("eofnext:") /\ a[2] = Tag("fileerror:")
      <3>1. Len(answer) = 2 /\ answer[1] = Tag("eofnext:") /\ answer[2] = Tag("fileerror:")
        BY <2>6, <1>5, <1>7, <1>11
      <3>2. QED
        BY <3>1, <1>5, <1>10 DEF Said
    <2>7. QED
      BY <2>1, <2>2, <2>3, <2>4, <2>5, <2>6, <1>3, AnswerForms
  <1>13. QED
    BY <1>2, <1>3, <1>9, <1>12 DEF BeingAnswered

LEMMA OneMore ==
    ASSUME NEW D, NEW f, NEW n \in Nat, NEW all \in Seq(D), NEW d \in D,
           DocumentsAreOwn(f, n, all), d = Doc(f, IF n = 0 THEN Len(all) + 1 ELSE n)
    PROVE  DocumentsAreOwn(f, n, Append(all, d)) /\ Len(Append(all, d)) = Len(all) + 1
  <1>1. /\ Len(all) \in Nat /\ Len(Append(all, d)) = Len(all) + 1
        /\ DOMAIN Append(all, d) = 1 .. Len(all) + 1
        /\ Append(all, d) = [i \in 1 .. Len(all) + 1 |-> Append(all, d)[i]]
        /\ \A i \in 1 .. Len(all) : Append(all, d)[i] = all[i]
        /\ Append(all, d)[Len(all) + 1] = d
    BY AppendProperties, LenProperties
  <1>2. CASE n = 0
    <2>1. \A i \in 1 .. Len(all) : all[i] = Doc(f, i)
      BY <1>2 DEF DocumentsAreOwn
    <2>2. \A i \in 1 .. Len(all) + 1 : Append(all, d)[i] = Doc(f, i)
      BY <1>1, <1>2, <2>1
    <2>3. QED
      BY <1>1, <1>2, <2>2 DEF DocumentsAreOwn
  <1>3. CASE n # 0
    <2>1. \A i \in 1 .. Len(all) : all[i] = Doc(f, n)
      BY <1>3 DEF DocumentsAreOwn
    <2>2. \A i \in 1 .. Len(all) + 1 : Append(all, d)[i] = Doc(f, n)
      BY <1>1, <1>3, <2>1
    <2>3. QED
      BY <1>1, <1>3, <2>2 DEF DocumentsAreOwn
  <1>4. QED
    BY <1>2, <1>3

LEMMA AnswerTaken ==
    ASSUME Dialogue, Answered
    PROVE  Dialogue'
  <1> USE DEF Dialogue
  <1> DEFINE d == IF HasDocument THEN Document ELSE Tag("empty")
             refused == Said("eofnow:") \/ Said("fileerror:") \/ Said("subdocerror:")
             last == Said("eofnext:") \/ ipath # 0
             how == IF Said("fileerror:") THEN "failed"
                    ELSE IF Said("eofnow:") THEN "eof" ELSE "failed"
  <1>1. answers' \in Seq(Element) /\ Owed' = Owed - 1
    BY Takes DEF Answered
  <1>2. /\ pc = "reading" /\ file # NoFile /\ ~first
        /\ UNCHANGED <<first, child, output, requests, unread, uses, trouble>>
    BY DEF Answered, TypeOK, Results
  <1>3. d \in Element \cup {Tag("empty")} /\ Append(docs, d) \in Seq(Element \cup {Tag("empty")})
    <2>1. HasDocument => Document \in Element
      BY LenProperties, ElementOfSeq DEF HasDocument, Document, TypeOK
    <2>2. QED
      BY <2>1, AppendProperties DEF Results
  <1>4. /\ pc' = "idle" /\ answer' = <<>>
        /\ \/ refused /\ Popped(how, docs)
           \/ ~refused /\ last /\ Popped("eof", Append(docs, d))
           \/ ~refused /\ ~last /\ docs' = Append(docs, d) /\ UNCHANGED <<file, ipath, havedoc, done>>
    BY DEF Answered, Returns
  <1>5. file' \in {file, NoFile} /\ ipath' \in {ipath, 0} /\ (file' = file \/ havedoc' = FALSE)
    BY <1>4 DEF Popped
  <1>6. TypeOK'
    <2>1. answer' \in Seq(Element) /\ Len(answer') <= MaxElements
      BY <1>4, EmptySeq, DialogAssumption
    <2>2. havedoc' \in BOOLEAN
      BY <1>4 DEF Popped, TypeOK
    <2>3. QED
      BY <1>1, <1>2, <1>4, <1>5, <2>1, <2>2 DEF TypeOK
  <1>7. Results'
    <2>1. docs' \in Seq(Element \cup {Tag("empty")})
      BY <1>3, <1>4, EmptySeq DEF Popped
    <2>2. /\ havedoc' <=> file' # NoFile
          /\ file' = NoFile \/ ipath' # 0 => docs' = <<>>
      BY <1>2, <1>4 DEF Results, Popped
    <2>3. file' # NoFile => ipath' <= Count[file']
      BY <1>2, <1>4 DEF Results, Popped
    <2>4. QED
      BY <1>2, <1>4, <2>1, <2>2, <2>3 DEF Results
  <1>8. Pending'
    BY <1>1, <1>2, <1>4, OwedCount, DialogAssumption DEF Pending, TypeOK
  <1>9. ASSUME ~unread, Wanted <= Count[file], ~refused, HasDocument, Document = Doc(file, Wanted)
        PROVE  /\ DocumentsAreOwn(file, ipath, Append(docs, d))
               /\ Len(Append(docs, d)) = Len(docs) + 1
    <2>1. DocumentsAreOwn(file, ipath, docs) /\ d = Doc(file, Wanted)
      BY <1>2, <1>9 DEF Orderly
    <2>2. d = Doc(file, IF ipath = 0 THEN Len(docs) + 1 ELSE ipath)
      BY <2>1 DEF Wanted
    <2>3. ipath \in Nat /\ docs \in Seq(Element \cup {Tag("empty")})
      BY DEF TypeOK, Results
    <2>4. QED
      BY <2>1, <2>2, <2>3, <1>3, OneMore
  <1>10. Len(docs) \in Nat
    BY LenProperties DEF Results
  <1>11. ~unread' => Orderly'
    <2>1. SUFFICES ASSUME ~unread PROVE Orderly'
      BY <1>2
    <2>2. /\ requests = <<>> /\ output = <<>> /\ answers' = <<>>
          /\ child.open = file /\ (ipath = 0 => child.at = Len(docs) + 2)
          /\ child.state # "none"
      BY <2>1, <1>2, WholeAnswer DEF Orderly
    <2>3. CASE file' = NoFile /\ havedoc' = FALSE
      BY <2>2, <2>3, <1>2, <1>4 DEF Orderly
    <2>4. CASE ~refused /\ ~last /\ docs' = Append(docs, d) /\ UNCHANGED <<file, ipath, havedoc, done>>
      <3>1. Wanted <= Count[file] /\ HasDocument /\ Document = Doc(file, Wanted)
        BY <2>1, <2>4, WholeAnswer
      <3>2. DocumentsAreOwn(file, ipath, docs') /\ Len(docs') = Len(docs) + 1
        BY <2>1, <2>4, <3>1, <1>9
      <3>3. InStep' /\ Len(docs') <= Count[file]
        BY <2>2, <2>4, <3>1, <3>2, <1>2, <1>10 DEF InStep, Wanted
      <3>4. QED
        BY <2>2, <2>4, <3>2, <3>3, <1>2, <1>4 DEF Orderly
    <2>5. QED
      BY <2>3, <2>4, <1>4 DEF Popped
  <1>12. Finished'
    <2>1. CASE unread
      <3>1. CASE UNCHANGED done
        BY <3>1 DEF Finished, DocumentsAreOwn
      <3>2. ASSUME NEW h, NEW all, Popped(h, all) PROVE ~done'.clean
        <4>1. done' = [file |-> file, ipath |-> ipath, docs |-> all, how |-> h, clean |-> FALSE]
          BY <2>1, <3>2 DEF Popped
        <4>2. QED
          BY <4>1
      <3>3. QED
        BY <3>1, <3>2, <1>4 DEF Finished
    <2>2. CASE ~unread /\ ~refused /\ ~last
      BY <2>2, <1>4 DEF Finished, DocumentsAreOwn
    <2>3. CASE ~unread /\ refused
      <3>1. done' = [file |-> file, ipath |-> ipath, docs |-> docs, how |-> how, clean |-> TRUE]
        BY <2>3, <1>4 DEF Popped
      <3>2. DocumentsAreOwn(file, ipath, docs)
        BY <2>3, <1>2 DEF Orderly
      <3>3. ASSUME how = "eof" PROVE ipath = 0 /\ Len(docs) = Count[file]
        <4>1. Wanted > Count[file] /\ file \in File /\ Count[file] \in Nat
          BY <2>3, <3>3, WholeAnswer
        <4>2. ipath <= Count[file] /\ (ipath = 0 => Len(docs) <= Count[file])
          BY <2>3, <1>2 DEF Results, Orderly
        <4>3. QED
          BY <4>1, <4>2, <1>10 DEF Wanted, TypeOK
      <3>4. QED
        BY <3>1, <3>2, <3>3 DEF Finished, DocumentsAreOwn
    <2>4. CASE ~unread /\ ~refused /\ last
      <3>1. /\ Wanted <= Count[file] /\ HasDocument /\ Document = Doc(file, Wanted)
            /\ Said("eofnext:") => Wanted = Count[file]
        BY <2>4, WholeAnswer
      <3>2. /\ DocumentsAreOwn(file, ipath, Append(docs, d))
            /\ Len(Append(docs, d)) = Len(docs) + 1
        BY <2>4, <3>1, <1>9
      <3>3. done' = [file |-> file, ipath |-> ipath, docs |-> Append(docs, d), how |-> "eof", clean |-> TRUE]
        BY <2>4, <1>4 DEF Popped
      <3>4. Len(Append(docs, d)) = IF ipath = 0 THEN Count[file] ELSE 1
        <4>1. CASE ipath = 0
          BY <4>1, <3>1, <3>2, <2>4 DEF Wanted
        <4>2. CASE ipath # 0
          BY <4>2, <3>2, EmptySeq DEF Results
        <4>3. QED
          BY <4>1, <4>2
      <3>5. QED
        BY <3>2, <3>3, <3>4 DEF Finished, DocumentsAreOwn
    <2>5. QED
      BY <2>1, <2>2, <2>3, <2>4
  <1>13. QED
    BY <1>6, <1>7, <1>8, <1>11, <1>12

(* The child takes a request.                                              *)
LEMMA MessageProcessed ==
    ASSUME Dialogue, ProcessMessage
    PROVE  Dialogue'
  <1> USE DEF Dialogue
  <1> DEFINE r == Head(requests)
             c == OpenFile(r)
             n == IF r.ipath # 0 THEN r.ipath ELSE c.at
  <1>1. /\ requests # <<>> /\ requests \in Seq([file : File \cup {NoFile}, ipath : Nat])
        /\ r \in [file : File \cup {NoFile}, ipath : Nat]
        /\ requests' \in Seq([file : File \cup {NoFile}, ipath : Nat])
        /\ Len(requests') = Len(requests) - 1 /\ Len(requests) \in Nat \ {0}
    BY HeadTailProperties, EmptySeq DEF ProcessMessage, TypeOK
  <1>2. /\ c \in [state : {"none", "up", "dead", "stuck"}, open : File \cup {NoFile}, at : Nat]
        /\ c.state = child.state /\ (c.open # NoFile => c.at # 0)
    <2>1. CASE r.file = NoFile
      BY <2>1 DEF OpenFile, TypeOK, Results
    <2>2. CASE r.file # NoFile
      <3>1. c = [child EXCEPT !.open = r.file, !.at = 1]
        BY <2>2 DEF OpenFile
      <3>2. QED
        <4>1. r.file \in File \cup {NoFile}
          BY <1>1
        <4>2. c = [state |-> child.state, open |-> r.file, at |-> 1]
          BY <3>1 DEF TypeOK
        <4>3. child.state \in {"none", "up", "dead", "stuck"}
          BY DEF TypeOK
        <4>4. QED
          BY <4>1, <4>2, <4>3
    <2>3. QED
      BY <2>1, <2>2
  <1>3. child' = [c EXCEPT !.at = IF r.ipath # 0 THEN @ ELSE @ + 1]
    BY DEF ProcessMessage
  <1> HIDE DEF c
  <1>4. /\ child' \in [state : {"none", "up", "dead", "stuck"}, open : File \cup {NoFile}, at : Nat]
        /\ child'.state = child.state /\ child'.open = c.open
        /\ child'.at = IF r.ipath # 0 THEN c.at ELSE c.at + 1
    BY <1>2, <1>3
  <1>5. /\ trouble' \in 0 .. MaxTrouble
        /\ IF c.open = NoFile THEN output' = Beyond
           ELSE output' \in AnswersFor(c.open, n)
    BY DialogAssumption DEF ProcessMessage, TypeOK, AnswersFor, c
  <1>6. c.open # NoFile => c.open \in File /\ n \in Nat \ {0}
    BY <1>1, <1>2
  <1>7. output' \in Seq(Element) /\ Cardinality(Ends(output')) = 1
    <2>1. CASE c.open = NoFile
      <3>1. output' = <<Tag("eofnow:"), End>> /\ Tag("eofnow:") \in Element /\ End \in Element
        BY <2>1, <1>5, TagIsElement DEF Beyond, End
      <3>2. output' \in Seq(Element) /\ Len(output') = 2 /\ output'[1] = Tag("eofnow:") /\ output'[2] = End
        BY <3>1, Pair
      <3>3. Tag("eofnow:") # End
        BY DEF Tag, End
      <3>4. Ends(output') = {2}
        BY <3>2, <3>3 DEF Ends
      <3>5. QED
        BY <3>2, <3>4, FS_Singleton
    <2>2. CASE c.open # NoFile
      BY <2>2, <1>5, <1>6, AnswerEnds
    <2>3. QED
      BY <2>1, <2>2
  <1>8. Owed' = Owed
    <2>1. Cardinality(Ends(output)) = 0 /\ answers' = answers
      BY NoEnds DEF ProcessMessage
    <2>2. Owed' = Len(requests') + Cardinality(Ends(answers)) + Cardinality(Ends(output'))
      BY <2>1 DEF Owed
    <2>3. QED
      BY <2>1, <2>2, <1>1, <1>7, OwedCount DEF Owed
  <1>9. TypeOK'
    BY <1>1, <1>4, <1>5, <1>7, DialogAssumption DEF ProcessMessage, TypeOK
  <1>10. Results'
    BY <1>2, <1>4 DEF ProcessMessage, Results
  <1>11. Pending' /\ Finished'
    BY <1>8 DEF ProcessMessage, Pending, Finished, DocumentsAreOwn
  <1>12. ~unread' => Orderly'
    <2>1. SUFFICES ASSUME ~unread PROVE Orderly'
      BY DEF ProcessMessage
    <2>2. pc = "reading" /\ Asked /\ file \in File /\ child.state = "up"
      BY <2>1, <1>1 DEF ProcessMessage, Orderly, BeingAnswered, TypeOK
    <2>3. /\ requests = <<r>> /\ r.file \in {file, NoFile} /\ r.ipath = ipath
          /\ IF r.file = NoFile THEN InStep ELSE docs = <<>>
          /\ answers = <<>> /\ answer = <<>>
      BY <2>2 DEF Asked
    <2>4. Len(docs) \in Nat /\ ipath \in Nat
      BY LenProperties DEF Results, TypeOK
    <2>5. c.open = file /\ (ipath = 0 => c.at = Len(docs) + 1)
      <3>1. CASE r.file = NoFile
        BY <3>1, <2>3 DEF OpenFile, InStep, c
      <3>2. CASE r.file # NoFile
        <4>1. c = [child EXCEPT !.open = file, !.at = 1] /\ Len(docs) = 0
          BY <3>2, <2>3, EmptySeq DEF OpenFile, c
        <4>2. QED
          BY <4>1 DEF TypeOK
      <3>3. QED
        BY <3>1, <3>2
    <2>6. n = Wanted /\ output' \in AnswersFor(file, Wanted)
      <3>1. n = Wanted
        BY <2>3, <2>5 DEF Wanted
      <3>2. QED
        BY <3>1, <2>2, <2>5, <1>5, DialogAssumption
    <2>7. requests' = <<>> /\ answers' = <<>> /\ answer' = <<>>
      <3>1. Len(requests) = 1
        BY <2>3
      <3>2. QED
        BY <3>1, <2>3, <1>1, EmptySeq DEF ProcessMessage
    <2>8. PICK a \in AnswersFor(file, Wanted) : output' = a
      BY <2>6
    <2>9. OnePiece(a)'
      <3>1. Len(answer') = 0 /\ Len(answers') = 0 /\ Len(output') \in Nat
        BY <2>7, <1>7, EmptySeq, LenProperties
      <3>2. QED
        BY <2>8, <3>1 DEF OnePiece
    <2>10. BeingAnswered'
      <3>1. Wanted' = Wanted /\ file' = file /\ ipath' = ipath /\ docs' = docs
        BY DEF Wanted, ProcessMessage
      <3>2. (ipath = 0 => child'.at = Len(docs) + 2) /\ child'.open = file
        BY <2>3, <2>4, <2>5, <1>4
      <3>3. QED
        BY <3>1, <3>2, <2>7, <2>8, <2>9 DEF BeingAnswered
    <2>11. QED
      BY <2>1, <2>2, <2>10, <1>4 DEF Orderly, ProcessMessage, DocumentsAreOwn
  <1>13. QED
    BY <1>9, <1>10, <1>11, <1>12

LEMMA ElementWritten ==
    ASSUME Dialogue, Write
    PROVE  Dialogue'
  <1> USE DEF Dialogue
  <1>1. /\ output \in Seq(Element) /\ output # <<>> /\ Head(output) \in Element /\ Head(output) = output[1]
        /\ output' \in Seq(Element) /\ Len(output') = Len(output) - 1 /\ Len(output) \in Nat \ {0}
        /\ \A k \in 1 .. Len(output') : output'[k] = output[k + 1]
    BY HeadTailProperties, EmptySeq DEF Write, TypeOK
  <1>2. /\ answers \in Seq(Element) /\ Len(answers) \in Nat
        /\ answers' \in Seq(Element) /\ Len(answers') = Len(answers) + 1
        /\ \A k \in 1 .. Len(answers) : answers'[k] = answers[k]
        /\ answers'[Len(answers) + 1] = output[1]
    BY <1>1, AppendProperties, LenProperties DEF Write, TypeOK
  <1>3. Owed' = Owed
    <2>1. Cardinality(Ends(output)) =
              Cardinality(Ends(output')) + (IF Head(output) = End THEN 1 ELSE 0)
      BY <1>1, EndsTail DEF Write
    <2>2. Cardinality(Ends(answers')) =
              Cardinality(Ends(answers)) + (IF Head(output) = End THEN 1 ELSE 0)
      BY <1>1, <1>2, EndsAppend DEF Write
    <2>3. Cardinality(Ends(output')) \in Nat /\ Cardinality(Ends(answers)) \in Nat /\ Len(requests) \in Nat
      BY <1>1, EndsCount, OwedCount
    <2>4. Owed' = Len(requests) + Cardinality(Ends(answers')) + Cardinality(Ends(output'))
      BY DEF Write, Owed
    <2>5. QED
      BY <2>1, <2>2, <2>3, <2>4 DEF Owed
  <1>4. TypeOK'
    BY <1>1, <1>2 DEF Write, TypeOK
  <1>5. Results' /\ Pending' /\ Finished'
    BY <1>3 DEF Write, Results, Pending, Finished, DocumentsAreOwn
  <1>6. ~unread' => Orderly'
    <2>1. SUFFICES ASSUME ~unread PROVE Orderly'
      BY DEF Write
    <2>2. BeingAnswered /\ pc = "reading" /\ child.state = "up"
      BY <2>1 DEF Write, Orderly, Asked, TypeOK
    <2>3. PICK a \in AnswersFor(file, Wanted) : OnePiece(a)
      BY <2>2 DEF BeingAnswered
    <2>4. /\ Len(answer) \in Nat /\ Len(a) \in Nat
          /\ \A k \in 1 .. Len(a) : a[k] # Part
      <3>1. file \in File /\ Wanted \in Nat \ {0}
        BY <2>2, LenProperties DEF TypeOK, Results, Wanted
      <3>2. QED
        BY <3>1, AnswerEnds, LenProperties DEF TypeOK
    <2>5. output[1] = a[Len(answer) + Len(answers) + 1] /\ output[1] # Part
      <3>1. Len(answer) + Len(answers) + 1 \in 1 .. Len(a)
        BY <1>1, <1>2, <2>3, <2>4 DEF OnePiece
      <3>2. output[1] = a[Len(answer) + Len(answers) + 1]
        BY <1>1, <2>3 DEF OnePiece
      <3>3. QED
        BY <3>1, <3>2, <2>4
    <2>6. \A k \in 1 .. Len(answers') : answers'[k] \in {a[Len(answer) + k], Part} /\ answers'[k] # Part
      <3>1. TAKE k \in 1 .. Len(answers')
      <3>2. CASE k \in 1 .. Len(answers)
        BY <3>2, <1>2, <2>2, <2>3 DEF OnePiece
      <3>3. CASE k = Len(answers) + 1
        BY <3>3, <1>2, <2>4, <2>5
      <3>4. QED
        BY <3>2, <3>3, <1>2
    <2>7. \A k \in 1 .. Len(output') : output'[k] = a[Len(answer) + Len(answers') + k]
      <3>1. TAKE k \in 1 .. Len(output')
      <3>2. k + 1 \in 1 .. Len(output) /\ Len(answer) + Len(answers) + (k + 1) = Len(answer) + Len(answers') + k
        BY <1>1, <1>2, <2>4
      <3>3. QED
        BY <3>2, <1>1, <2>3 DEF OnePiece
    <2>8. Len(answer) + Len(answers') + Len(output') = Len(answer) + Len(answers) + Len(output)
      BY <1>1, <1>2, <2>4
    <2>9. OnePiece(a)'
      BY <2>2, <2>3, <2>4, <2>6, <2>7, <2>8 DEF OnePiece, Write
    <2>10. BeingAnswered'
      BY <2>2, <2>3, <2>9 DEF BeingAnswered, Write, Wanted
    <2>11. QED
      BY <2>1, <2>2, <2>10 DEF Orderly, Write, DocumentsAreOwn
  <1>7. QED
    BY <1>4, <1>5, <1>6

LEMMA ChildFails ==
    ASSUME Dialogue, Trouble
    PROVE  Dialogue'
  <1> USE DEF Dialogue
  <1>1. /\ child' \in [state : {"none", "up", "dead", "stuck"}, open : File \cup {NoFile}, at : Nat]
        /\ child'.state \notin {"none", "up"} /\ child'.open = child.open /\ child'.at = child.at
    BY DEF Trouble, TypeOK
  <1>2. trouble' \in 0 .. MaxTrouble
    BY DialogAssumption DEF Trouble, TypeOK
  <1>3. Part \in Element /\ Part # End
    BY TagIsElement DEF Part, End, Tag
  <1>4. /\ answers \in Seq(Element) /\ Len(answers) \in Nat
        /\ answers' \in Seq(Element) /\ Cardinality(Ends(answers')) = Cardinality(Ends(answers))
        /\ \/ answers' = answers
           \/ /\ output # <<>> /\ Len(answers') = Len(answers) + 1
              /\ \A k \in 1 .. Len(answers) : answers'[k] = answers[k]
              /\ answers'[Len(answers) + 1] = Part
    <2>1. answers \in Seq(Element) /\ Len(answers) \in Nat
      BY LenProperties DEF TypeOK
    <2>2. CASE answers' = answers
      BY <2>1, <2>2
    <2>3. CASE output # <<>> /\ answers' = Append(answers, Part)
      <3>1. Cardinality(Ends(answers')) = Cardinality(Ends(answers))
        BY <2>1, <2>3, <1>3, EndsAppend, EndsCount
      <3>2. QED
        BY <2>1, <2>3, <3>1, <1>3, AppendProperties
    <2>4. QED
      BY <2>2, <2>3 DEF Trouble
  <1>5. output' \in Seq(Element) /\ Len(output') = 0 /\ Owed' <= Owed /\ Owed' \in Nat
    <2>1. output' = <<>> /\ requests' = requests
      BY DEF Trouble
    <2>2. Cardinality(Ends(output')) = 0
      BY <2>1, NoEnds
    <2>3. Owed' = Len(requests) + Cardinality(Ends(answers')) + Cardinality(Ends(output'))
      BY <2>1 DEF Owed
    <2>4. QED
      BY <2>1, <2>2, <2>3, <1>4, OwedCount, EmptySeq DEF Owed
  <1>6. TypeOK'
    BY <1>1, <1>2, <1>4, <1>5 DEF Trouble, TypeOK
  <1>7. Results'
    BY <1>1 DEF Trouble, Results
  <1>8. Pending' /\ Finished'
    BY <1>5, OwedCount, DialogAssumption DEF Trouble, Pending, Finished, DocumentsAreOwn, TypeOK
  <1>9. ~unread' => Orderly'
    <2>1. SUFFICES ASSUME ~unread PROVE Orderly'
      BY DEF Trouble
    <2>2. InStep' <=> InStep
      BY <1>1 DEF InStep, Trouble
    <2>3. CASE pc = "idle"
      <3>1. answers' = <<>> /\ output' = <<>> /\ requests' = <<>>
        BY <2>1, <2>3 DEF Orderly, Trouble
      <3>2. QED
        BY <2>1, <2>2, <2>3, <3>1, <1>1 DEF Orderly, Trouble, DocumentsAreOwn
    <2>4. CASE pc = "reading" /\ Asked
      <3>1. answers' = <<>> /\ output' = <<>>
        BY <2>4 DEF Asked, Trouble
      <3>2. Asked'
        BY <2>2, <2>4, <3>1 DEF Asked, Trouble
      <3>3. QED
        BY <2>1, <2>4, <3>2, <1>1 DEF Orderly, Trouble, DocumentsAreOwn
    <2>5. CASE pc = "reading" /\ BeingAnswered
      <3>1. PICK a \in AnswersFor(file, Wanted) : OnePiece(a)
        BY <2>5 DEF BeingAnswered
      <3>2. Len(answer) \in Nat /\ Len(a) \in Nat /\ Len(output) \in Nat /\ (output # <<>> => Len(output) # 0)
        <4>1. file \in File /\ Wanted \in Nat \ {0}
          BY <2>5, LenProperties DEF TypeOK, Results, Wanted
        <4>2. QED
          BY <4>1, AnswerEnds, LenProperties, EmptySeq DEF TypeOK
      <3>3. \A k \in 1 .. Len(answers') : answers'[k] \in {a[Len(answer) + k], Part}
        <4>1. TAKE k \in 1 .. Len(answers')
        <4>2. CASE k \in 1 .. Len(answers)
          BY <4>2, <1>4, <3>1 DEF OnePiece
        <4>3. CASE k \notin 1 .. Len(answers)
          BY <4>3, <1>4
        <4>4. QED
          BY <4>2, <4>3
      <3>4. Len(answer) + Len(answers') + Len(output') <= Len(a)
        BY <1>4, <1>5, <3>1, <3>2 DEF OnePiece
      <3>5. OnePiece(a)'
        BY <1>1, <1>5, <3>1, <3>3, <3>4 DEF OnePiece, Trouble
      <3>6. BeingAnswered'
        BY <1>1, <2>5, <3>1, <3>5 DEF BeingAnswered, Trouble, Wanted
      <3>7. QED
        BY <2>1, <2>5, <3>6, <1>1 DEF Orderly, Trouble, DocumentsAreOwn
    <2>6. QED
      BY <2>1, <2>3, <2>4, <2>5 DEF Orderly, TypeOK
  <1>10. QED
    BY <1>6, <1>7, <1>8, <1>9

-----------------------------------------------------------------------------
LEMMA DialogueStarts == Init => Dialogue
  <1> SUFFICES ASSUME Init PROVE Dialogue
    OBVIOUS
  <1>1. TypeOK
    <2>1. /\ answer \in Seq(Element) /\ Len(answer) = 0
          /\ output \in Seq(Element) /\ answers \in Seq(Element)
          /\ requests \in Seq([file : File \cup {NoFile}, ipath : Nat]) /\ Len(requests) = 0
      BY EmptySeq DEF Init
    <2>2. child \in [state : {"none", "up", "dead", "stuck"}, open : File \cup {NoFile}, at : Nat]
      BY DEF Init, NoChild
    <2>3. /\ Len(answer) <= MaxElements /\ Len(requests) <= MaxUses
          /\ uses \in 0 .. MaxUses /\ trouble \in 0 .. MaxTrouble
      BY <2>1, DialogAssumption DEF Init
    <2>4. /\ file \in File \cup {NoFile} /\ ipath \in Nat
          /\ havedoc \in BOOLEAN /\ first \in BOOLEAN /\ unread \in BOOLEAN
          /\ pc \in {"idle", "reading"} /\ pc # "reading"
      BY DEF Init
    <2>5. QED
      BY <2>1, <2>2, <2>3, <2>4 DEF TypeOK
  <1>2. Results
    BY EmptySeq DEF Init, Results, NoChild
  <1>3. Pending
    BY NoEnds, EmptySeq DEF Init, Pending, Owed
  <1>4. Orderly
    BY DEF Init, Orderly
  <1>5. Finished
    BY EmptySeq DEF Init, Finished, DocumentsAreOwn
  <1>6. QED
    BY <1>1, <1>2, <1>3, <1>4, <1>5 DEF Dialogue

LEMMA DialogueGoesOn == Dialogue /\ [Next]_vars => Dialogue'
  <1> SUFFICES ASSUME Dialogue, [Next]_vars PROVE Dialogue'
    OBVIOUS
  <1>1. CASE User
    BY <1>1, UseStarts DEF User
  <1>2. CASE Handler
    BY <1>2, RequestSent, ChildIsDead, ElementRead, TooManyRead, AnswerTaken DEF Handler
  <1>3. CASE Delete
    BY <1>3, Deleted
  <1>4. CASE Script
    BY <1>4, MessageProcessed, ElementWritten DEF Script
  <1>5. CASE Trouble
    BY <1>5, ChildFails
  <1>6. CASE UNCHANGED vars
    BY <1>6 DEF vars, pipes, Dialogue, TypeOK, Results, Pending, Owed, Orderly, InStep, Asked,
                BeingAnswered, OnePiece, Wanted, Finished, DocumentsAreOwn
  <1>7. QED
    BY <1>1, <1>2, <1>3, <1>4, <1>5, <1>6 DEF Next

LEMMA DialogueKept == Spec => []Dialogue
  BY DialogueStarts, DialogueGoesOn, PTL DEF Spec

(* The pipes of a filter are empty between two documents, and two files,   *)
(* unless an answer was given up in its middle for its length.             *)
THEOREM NothingIsLeftOver == Spec => []NothingLeftOver
  <1>1. Dialogue => NothingLeftOver
    BY DEF Dialogue, NothingLeftOver, Orderly
  <1>2. QED
    BY <1>1, DialogueKept, PTL

(* The documents that the handler returns are those of its file, in order, *)
(* and all of them when it says so, whatever the child did before.         *)
THEOREM AnswersAreOwn == Spec => []AnswersMatch
  <1>1. Dialogue => AnswersMatch
    <2>1. ASSUME Dialogue, ~unread PROVE DocumentsAreOwn(file, ipath, docs)
      <3>1. CASE file # NoFile
        BY <2>1, <3>1 DEF Dialogue, Orderly
      <3>2. CASE file = NoFile
        <4>1. docs = <<>> /\ Len(docs) = 0
          BY <2>1, <3>2, EmptySeq DEF Dialogue, Results
        <4>2. QED
          BY <4>1 DEF DocumentsAreOwn
      <3>3. QED
        BY <3>1, <3>2
    <2>2. QED
      BY <2>1 DEF Dialogue, AnswersMatch, Finished
  <1>2. QED
    BY <1>1, DialogueKept, PTL
=============================================================================
