---------------------------- MODULE FilterDialog ----------------------------
(***************************************************************************)
(* The dialogue with a filter that stays alive between files: requests     *)
(* and answers through two pipes (internfile/mh_execm.cpp), the child      *)
(* process (utils/execmd.cpp) and the loop of the scripts                  *)
(* (filters/rclexecm.py).  The handler is taken from the pool for a file,  *)
(* asked for its documents one after the other, or for one of them by a    *)
(* preview, and put back with its child; the next file may be any other.   *)
(*                                                                         *)
(* A child may at any time exit or stop answering, in the middle of an     *)
(* answer too.  An answer is a sequence of elements that ends with an      *)
(* empty one.  Left out: what the elements hold, their sizes, the checksum,*)
(* and a missing program, which the handler remembers.                     *)
(***************************************************************************)
EXTENDS Naturals, Sequences, FiniteSets, SequencesExt

CONSTANTS
    File,
    Count,       \* of each file: how many documents it has
    MaxElements, \* next_document() gives up after so many (200)
    MaxUses,     \* bound: how many times the handler is used
    MaxTrouble,  \* bound: how many times something goes wrong
    NoFile

ASSUME DialogAssumption ==
    /\ NoFile \notin File
    /\ Count \in [File -> Nat \ {0}]
    /\ MaxElements \in Nat \ {0}
    /\ MaxUses \in Nat /\ MaxTrouble \in Nat

VARIABLES
    file,     \* m_fn of the handler, NoFile in the pool
    ipath,    \* m_ipath, 0 when the documents are taken in order
    havedoc,  \* m_havedoc
    first,    \* m_filefirst
    pc,       \* "idle", or "reading" in next_document()
    answer,   \* the elements read so far
    child,    \* the process: its state, the file it has open, the next document
    output,   \* what the child has still to write of its answer
    requests, \* the pipe to the child
    answers,  \* the pipe from the child
    docs,     \* the documents returned for the file
    done,     \* how the use before ended: the file, the documents, the status
    unread,   \* a ghost: an answer was left in the pipe
    uses, trouble

vars == <<file, ipath, havedoc, first, pc, answer, child, output, requests, answers,
          docs, done, unread, uses, trouble>>
pipes == <<output, requests, answers>>

-----------------------------------------------------------------------------
Doc(f, n) == [name |-> "document", file |-> f, num |-> n]
Tag(name) == [name |-> name, file |-> NoFile, num |-> 0]
Part == Tag("part")    \* the size of a document and not all of its data
End == Tag("")
Element ==
    (UNION {{Doc(f, n) : n \in 1 .. Count[f]} : f \in File}) \cup
    {Tag(t) : t \in {"", "part", "field", "eofnext:", "eofnow:", "subdocerror:", "fileerror:"}}

NoChild == [state |-> "none", open |-> NoFile, at |-> 0]
Running == [state |-> "up", open |-> NoFile, at |-> 0]
Stuck == child.state = "stuck"

Said(name) == \E i \in DOMAIN answer : answer[i].name = name
HasDocument == \E i \in DOMAIN answer : answer[i].name = "document"
Document == answer[CHOOSE i \in DOMAIN answer : answer[i].name = "document"]

-----------------------------------------------------------------------------
(* The handler.                                                            *)

(* Mutant: the child goes on with its answer.                              *)
GivenUp ==
    /\ child' = child /\ unread' = unread
    /\ UNCHANGED pipes

(* zapChild(): the pipes are closed and the process is killed.             *)
Zapped ==
    /\ child' = NoChild
    /\ output' = <<>> /\ requests' = <<>> /\ answers' = <<>>
    /\ unread' = FALSE

(* internfile() pops the handler: clear(), and back to the pool.           *)
Popped(how, all) ==
    /\ file' = NoFile /\ ipath' = 0 /\ havedoc' = FALSE
    /\ docs' = <<>>
    /\ done' = [file |-> file, ipath |-> ipath, docs |-> all, how |-> how, clean |-> ~unread]

Returns(how) ==
    /\ pc' = "idle" /\ answer' = <<>>
    /\ Popped(how, docs)

(* getMimeHandler(), set_document_file() and, for a preview,               *)
(* skip_to_document().                                                     *)
SetDocumentFile(f, n) ==
    /\ file = NoFile /\ uses < MaxUses
    /\ file' = f /\ ipath' = n
    /\ havedoc' = TRUE /\ first' = TRUE
    /\ uses' = uses + 1
    /\ UNCHANGED <<pc, answer, child, pipes, docs, done, unread, trouble>>

(* next_document(): the request.                                           *)
Request == [file |-> IF first THEN file ELSE NoFile, ipath |-> ipath]

NextDocument ==
    /\ pc = "idle" /\ havedoc
    /\ child.state # "dead"
    /\ child' = IF child.state = "none" THEN Running ELSE child
    /\ requests' = Append(requests, Request)
    /\ first' = FALSE
    /\ pc' = "reading"
    /\ UNCHANGED <<file, ipath, havedoc, answer, output, answers, docs, done, unread, uses, trouble>>

SendFails ==
    /\ pc = "idle" /\ havedoc
    /\ child.state = "dead"
    /\ first' = FALSE
    /\ Zapped
    /\ Returns("failed")
    /\ UNCHANGED <<uses, trouble>>

(* readDataElement(), and the test of the number of elements.              *)
ReadElement ==
    /\ pc = "reading" /\ answers # <<>>
    /\ Head(answers) \notin {Part, End}
    /\ answers' = Tail(answers)
    /\ answer' = Append(answer, Head(answers))
    /\ Len(answer) < MaxElements
    /\ UNCHANGED <<file, ipath, havedoc, first, pc, child, output, requests, docs, done, unread, uses, trouble>>

TooMany ==
    /\ pc = "reading" /\ answers # <<>>
    /\ Head(answers) \notin {Part, End}
    /\ Len(answer) >= MaxElements
    /\ answers' = Tail(answers)
    /\ unread' = TRUE
    /\ Returns("failed")
    /\ UNCHANGED <<first, child, output, requests, uses, trouble>>

(* Mutant: the end of the output is seen and a silent filter is waited for *)
ReadFailsAtEof ==
    /\ pc = "reading" /\ child.state = "dead"
    /\ answers \in {<<>>, <<Part>>}
    /\ Zapped
    /\ Returns("failed")
    /\ UNCHANGED <<first, uses, trouble>>

(* The end of the child's output, or none for filtermaxseconds.            *)
ReadFails ==
    /\ pc = "reading"
    /\ \/ answers = <<>>
       \/ child.state = "dead" /\ answers = <<Part>>
    /\ Zapped
    /\ Returns("failed")
    /\ UNCHANGED <<first, uses, trouble>>

(* The document of the answer, or that of a file without an element.       *)
Answered ==
    LET d == IF HasDocument THEN Document ELSE Tag("empty")
        last == Said("eofnext:") \/ ipath # 0
    IN  /\ pc = "reading" /\ answers # <<>>
        /\ Head(answers) = End
        /\ answers' = Tail(answers)
        /\ IF Said("eofnow:") \/ Said("fileerror:") \/ Said("subdocerror:")
           THEN Returns(IF Said("fileerror:") THEN "failed"
                        ELSE IF Said("eofnow:") THEN "eof" ELSE "failed")
           ELSE /\ pc' = "idle" /\ answer' = <<>>
                /\ IF last THEN Popped("eof", Append(docs, d))
                   ELSE /\ docs' = Append(docs, d)
                        /\ UNCHANGED <<file, ipath, havedoc, done>>
        /\ UNCHANGED <<first, child, output, requests, unread, uses, trouble>>

(* The handler is deleted: too many in the pool, or the end of the pass.   *)
Delete ==
    /\ file = NoFile /\ child # NoChild
    /\ Zapped
    /\ UNCHANGED <<file, ipath, havedoc, first, pc, answer, docs, done, uses, trouble>>

-----------------------------------------------------------------------------
(* The script: mainloop() and processmessage().                            *)

(* What a script may answer for the document n of the file f: at the last  *)
(* one it says so at once or when it is asked again.                       *)
Known(f, n) ==
    {<<Doc(f, n), End>>} \cup
    (IF n = Count[f] THEN {<<Doc(f, n), Tag("eofnext:"), End>>} ELSE {})

Beyond == <<Tag("eofnow:"), End>>

(* With many fields, or without the document: getnext() failed or raised.  *)
Odd(f, n) ==
    {[i \in 1 .. MaxElements |-> Tag("field")] \o <<Doc(f, n), End>>,
     <<Doc(f, n), Tag("subdocerror:"), End>>,
     <<Tag("eofnext:"), Tag("fileerror:"), End>>}

(* Mutant: a request with a file name that is open already goes on with it *)
OpenKept(r) ==
    IF r.file = NoFile \/ r.file = child.open THEN child
    ELSE [child EXCEPT !.open = r.file, !.at = 1]

OpenFile(r) == IF r.file = NoFile THEN child ELSE [child EXCEPT !.open = r.file, !.at = 1]

ProcessMessage ==
    LET r == Head(requests)
        c == OpenFile(r)
        n == IF r.ipath # 0 THEN r.ipath ELSE c.at
    IN  /\ child.state = "up" /\ output = <<>> /\ requests # <<>>
        /\ requests' = Tail(requests)
        /\ child' = [c EXCEPT !.at = IF r.ipath # 0 THEN @ ELSE @ + 1]
        /\ IF c.open = NoFile \/ n > Count[c.open]
           THEN output' = Beyond /\ trouble' = trouble
           ELSE \/ output' \in Known(c.open, n) /\ trouble' = trouble
                \/ /\ trouble < MaxTrouble
                   /\ trouble' = trouble + 1
                   /\ output' \in Odd(c.open, n)
        /\ UNCHANGED <<file, ipath, havedoc, first, pc, answer, answers, docs, done, unread, uses>>

Write ==
    /\ child.state = "up" /\ output # <<>>
    /\ answers' = Append(answers, Head(output))
    /\ output' = Tail(output)
    /\ UNCHANGED <<file, ipath, havedoc, first, pc, answer, child, requests, docs, done, unread, uses, trouble>>

(* The process exits, or hangs, maybe in the middle of a document.         *)
Trouble ==
    /\ child.state = "up" /\ trouble < MaxTrouble
    /\ trouble' = trouble + 1
    /\ \E s \in {"dead", "stuck"} : child' = [child EXCEPT !.state = s]
    /\ output' = <<>>
    /\ \/ answers' = answers
       \/ output # <<>> /\ Head(output).name = "document" /\ answers' = Append(answers, Part)
    /\ UNCHANGED <<file, ipath, havedoc, first, pc, answer, requests, docs, done, unread, uses>>

-----------------------------------------------------------------------------
Init ==
    /\ file = NoFile /\ ipath = 0 /\ havedoc = FALSE /\ first = FALSE
    /\ pc = "idle" /\ answer = <<>>
    /\ child = NoChild
    /\ output = <<>> /\ requests = <<>> /\ answers = <<>>
    /\ docs = <<>>
    /\ done = [file |-> NoFile, ipath |-> 0, docs |-> <<>>, how |-> "none", clean |-> TRUE]
    /\ unread = FALSE
    /\ uses = 0 /\ trouble = 0

Handler == NextDocument \/ SendFails \/ ReadElement \/ TooMany \/ ReadFails \/ Answered
Script == ProcessMessage \/ Write
User == \E f \in File : \E n \in 0 .. Count[f] : SetDocumentFile(f, n)

Next == User \/ Handler \/ Delete \/ Script \/ Trouble

Spec == Init /\ [][Next]_vars

(* A thread runs next_document() and the child runs, unless it hangs; time *)
(* passes, so that one that says nothing is given up.                      *)
FairSpec == Spec /\ WF_vars(Handler) /\ WF_vars(Script)

-----------------------------------------------------------------------------
(* Properties.                                                             *)

TypeOK ==
    /\ file \in File \cup {NoFile} /\ ipath \in Nat
    /\ havedoc \in BOOLEAN /\ first \in BOOLEAN
    /\ pc \in {"idle", "reading"} /\ (pc = "reading" => file # NoFile)
    /\ answer \in Seq(Element) /\ Len(answer) <= MaxElements
    /\ child \in [state : {"none", "up", "dead", "stuck"}, open : File \cup {NoFile}, at : Nat]
    /\ output \in Seq(Element) /\ answers \in Seq(Element)
    /\ requests \in Seq([file : File \cup {NoFile}, ipath : Nat]) /\ Len(requests) <= MaxUses
    /\ unread \in BOOLEAN /\ uses \in 0 .. MaxUses /\ trouble \in 0 .. MaxTrouble

(* The types, and: a handler that is in the pool, or between two           *)
(* documents, has nothing in its pipes, so that the next answer is that of *)
(* the next request.                                                       *)
NothingLeftOver ==
    /\ TypeOK
    /\ pc = "idle" /\ ~unread => requests = <<>> /\ output = <<>> /\ answers = <<>>

(* Whatever child, file or document came before, the documents returned    *)
(* for a file are its own, in order, the one asked for in a preview, and   *)
(* all of them when the end of the file was announced.                     *)
DocumentsAreOwn(f, n, all) ==
    all = IF n = 0 THEN [i \in 1 .. Len(all) |-> Doc(f, i)]
          ELSE [i \in 1 .. Len(all) |-> Doc(f, n)]
AnswersMatch ==
    /\ ~unread => DocumentsAreOwn(file, ipath, docs)
    /\ done.clean =>
        /\ DocumentsAreOwn(done.file, done.ipath, done.docs)
        /\ done.how = "eof" => Len(done.docs) = IF done.ipath = 0 THEN Count[done.file] ELSE 1

(* next_document() comes back, killed by the time limit if the filter says *)
(* nothing, unless it waits for the rest of a document.                    *)
Blocked == Stuck /\ answers # <<>> /\ Last(answers) = Part
ComesBack == []<>(pc = "idle" \/ Blocked)

(* "maximum external filter execution time in seconds" (recoll.conf): it   *)
(* always comes back.                                                      *)
TimeIsLimited == []<>(pc = "idle")

(* "a simple question/response protocol" (mh_execm.h): an answer is that   *)
(* of the question.                                                        *)
QuestionResponse ==
    done.how = "eof" => DocumentsAreOwn(done.file, done.ipath, done.docs)
=============================================================================
