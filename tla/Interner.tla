------------------------------ MODULE Interner ------------------------------
(***************************************************************************)
(* The extraction of documents from a file (internfile/internfile.cpp): a  *)
(* stack of handlers, the first for the file, each next one for the        *)
(* document that the one below has extracted, until the text is reached.   *)
(* Indexing walks the whole tree of a file: messages, attachments, members *)
(* of archives.  A preview asks for one document by its ipath, the path of *)
(* the elements the handlers gave when it was indexed.  In between the     *)
(* file may change and a handler may become available or not.              *)
(*                                                                         *)
(* A file is a node of a forest that says what each handler finds.  A step *)
(* is one turn of the loop of internfile().  Handlers are of five kinds:   *)
(* converters, built in (html, xslt) or commands (exec), which give one    *)
(* document without an element, and mails, mail folders and archives       *)
(* (execm), which differ in how they go on to a given document.  Left out: *)
(* the metadata, the uncompression, data that is already in memory, the    *)
(* target type of "open" and the paging of long texts (mh_text).           *)
(***************************************************************************)
EXTENDS Naturals, Sequences, FiniteSets, FiniteSetsExt, SequencesExt

CONSTANTS
    Node,         \* documents of all types
    Kind,         \* of each node: "text" or the kind of its handler
    Kids,         \* what its handler finds: element, document, success
    Good,         \* those their handler accepts (set_document_*)
    Unwanted,     \* those of types that the configuration does not index
    Roots,        \* the contents the file may have
    MaxHandlers,  \* MAXHANDLERS
    MaxLoops,     \* the "security counter" of internfile()
    MaxChanges,   \* bound: changes of the file and of the configuration
    Nothing

Kinds == {"text", "convert", "exec", "mail", "folder", "archive"}
Converter(k) == k \in {"convert", "exec"}

ASSUME InternerAssumption ==
    /\ Kind \in [Node -> Kinds]
    /\ DOMAIN Kids = Node
    /\ \A n \in Node : Kids[n] \in Seq([el : Nat, to : Node, ok : BOOLEAN])
    /\ \A n \in Node : Converter(Kind[n]) =>
          Len(Kids[n]) = 1 /\ Kids[n][1].el = 0 /\ Kind[Kids[n][1].to] = "text"
    /\ Good \subseteq Node /\ Unwanted \subseteq Node /\ Roots \subseteq Good
    /\ \A r \in Roots : Kind[r] # "text"
    /\ MaxHandlers \in Nat \ {0} /\ MaxLoops \in Nat /\ MaxChanges \in Nat

VARIABLES
    file,      \* the node that the file is
    missing,   \* the nodes for which there is no handler
    changes,
    docs,      \* the index: what was extracted, in order
    made,      \* what the index was made from, and how that ended
    mode,
    stack,     \* m_handlers
    tmpflgs,   \* m_tmpflgs
    temps,     \* m_tempfiles: the documents they hold
    vipath,    \* the elements of the path of the document to preview
    loop,
    asked,     \* the document that the preview is about
    answer     \* what the last preview returned

vars == <<file, missing, changes, docs, made, mode, stack, tmpflgs, temps, vipath, loop, asked, answer>>
source == <<file, missing, changes>>

Top == Last(stack)
UpTo(S, p) == Cardinality({q \in S : q <= p})
Found == [ipath : Seq(Nat \ {0}), node : Node]
NeverMade == [file |-> Nothing, missing |-> {}, how |-> "never"]
NoAnswer == [to |-> Nothing, got |-> Nothing, fresh |-> FALSE]

-----------------------------------------------------------------------------
(* Handlers: the next document, if it is asked for (want) or not.          *)

(* A new handler, at its first document.                                   *)
Frame(n) == [node |-> n, at |-> 1, have |-> n \in Good, want |-> 0, el |-> 0]

(* A mail goes to the place of the asked attachment and walks on from it;  *)
(* folders and archives look for the same element at each call.            *)
Place(h) ==
    IF h.want = 0 \/ Kind[h.node] \in {"exec", "mail"} THEN {h.at} \cap DOMAIN Kids[h.node]
    ELSE {i \in DOMAIN Kids[h.node] : Kids[h.node][i].el = h.want}

(* skip_to_document(): built in converters know no element, a mail is      *)
(* decoded first, and the others only take note.                           *)
CanSkip(h) ==
    CASE Kind[h.node] = "convert" -> FALSE
      [] Kind[h.node] = "mail" -> Kids[h.node] # <<>> /\ Kids[h.node][1].ok
      [] OTHER -> TRUE

Skipped(h, el) ==
    LET there == {i \in DOMAIN Kids[h.node] : Kids[h.node][i].el = el}
    IN  [h EXCEPT !.want = el,
                  !.at = IF Kind[h.node] = "mail"
                         THEN Min(there \cup {Len(Kids[h.node]) + 1}) ELSE @]

(* What has_documents() may be after the document i: an archive says it at *)
(* the last one or only when it is asked again.                            *)
HaveAfter(h, i) ==
    CASE Converter(Kind[h.node]) -> {FALSE}
      [] Kind[h.node] = "archive" ->
            IF h.want # 0 THEN {TRUE} ELSE {TRUE, i < Len(Kids[h.node])}
      [] OTHER -> {i < Len(Kids[h.node])}

HasHandler(n) == n \notin missing /\ (mode = "preview" \/ n \notin Unwanted)

(* External programs and folders are given a file, mails and HTML a string *)
NeedsFile(n) == Kind[n] \in {"exec", "folder", "archive"}

-----------------------------------------------------------------------------
(* The stack.                                                              *)

(* Mutant: the flag of the handler that goes stays set.                    *)
PoppedFlagged(s, n) ==
    LET left == Len(s) - n
        gone == {i \in (left + 1) .. Len(s) : tmpflgs[i]}
    IN  /\ stack' = SubSeq(s, 1, left)
        /\ temps' = SubSeq(temps, 1, Len(temps) - Cardinality(gone))
        /\ tmpflgs' = tmpflgs

(* popHandler(), n times.                                                  *)
Popped(s, n) ==
    LET left == Len(s) - n
        gone == {i \in (left + 1) .. Len(s) : tmpflgs[i]}
    IN  /\ stack' = SubSeq(s, 1, left)
        /\ temps' = SubSeq(temps, 1, Len(temps) - Cardinality(gone))
        /\ tmpflgs' = [i \in DOMAIN tmpflgs |-> tmpflgs[i] /\ i \notin gone]

Dropped ==
    /\ stack' = <<>> /\ temps' = <<>>
    /\ tmpflgs' = [i \in DOMAIN tmpflgs |-> FALSE]

(* The path of the current document: the elements of the handlers that     *)
(* gave one (collectIpathAndMT).                                           *)
Ipath(s) ==
    LET given == {i \in DOMAIN s : s[i].el # 0}
    IN  [k \in 1 .. Cardinality(given) |-> s[CHOOSE i \in given : UpTo(given, i) = k].el]

(* The end of internfile(): an error, or a document.  Without more         *)
(* documents below, or after an error, the file is done.                   *)
Ends(how) ==
    /\ mode' = "idle"
    /\ IF mode = "index"
       THEN made' = [file |-> file, missing |-> missing, how |-> how] /\ answer' = answer
       ELSE made' = made /\ answer' = [to |-> asked, got |-> Nothing,
                       fresh |-> made.file = file /\ made.missing = missing]
    /\ loop' = 0
    /\ UNCHANGED <<docs, vipath, asked>>

Fails(how) == Ends(how) /\ Dropped

Returns(s, n) ==
    LET d == [ipath |-> Ipath(s), node |-> n]
        more == Max({0} \cup {i \in DOMAIN s : s[i].have})
    IN  /\ loop' = 0
        /\ IF mode = "index"
           THEN /\ docs' = Append(docs, d)
                /\ Popped(s, Len(s) - more)
                /\ mode' = IF more = 0 THEN "idle" ELSE "index"
                /\ made' = IF more # 0 THEN made
                           ELSE [file |-> file, missing |-> missing, how |-> "done"]
                /\ answer' = answer
           ELSE /\ answer' = [to |-> asked, got |-> d,
                              fresh |-> made.file = file /\ made.missing = missing]
                /\ mode' = "idle"
                /\ Dropped
                /\ UNCHANGED <<docs, made>>
        /\ UNCHANGED <<vipath, asked>>

(* Mutant: a failure ends the file, also when indexing.                    *)
FailAlways == Fails("done")

(* The top handler has nothing more, or failed: indexing goes on with the  *)
(* one below, a preview is over.                                           *)
PopOrFail ==
    IF mode = "preview" THEN Fails("done")
    ELSE IF Len(stack) = 1 THEN Fails("done")
    ELSE /\ Popped(stack, 1)
         /\ loop' = loop + 1
         /\ UNCHANGED <<docs, made, mode, vipath, asked, answer>>

-----------------------------------------------------------------------------
Init ==
    /\ file \in Roots
    /\ missing = {} /\ changes = 0
    /\ docs = <<>> /\ made = NeverMade
    /\ mode = "idle" /\ stack = <<>>
    /\ tmpflgs = [i \in 1 .. MaxHandlers |-> FALSE] /\ temps = <<>>
    /\ vipath = <<>> /\ loop = 0
    /\ asked = Nothing /\ answer = NoAnswer

(* The user replaces the file, removes or installs a handler.              *)
Change ==
    /\ mode = "idle" /\ changes < MaxChanges
    /\ changes' = changes + 1
    /\ \/ /\ file' \in Roots \ {file}
          /\ missing' = missing
       \/ /\ \E n \in Node \ (Roots \cup Unwanted) : Kind[n] # "text" /\
                missing' = (missing \ {n}) \cup ({n} \ missing)
          /\ file' = file
    /\ UNCHANGED <<docs, made, mode, stack, tmpflgs, temps, vipath, loop, asked, answer>>

(* The file is to be indexed (again).                                      *)
StartIndex ==
    /\ mode = "idle"
    /\ made.file # file \/ made.missing # missing
    /\ mode' = "index"
    /\ docs' = <<>>
    /\ stack' = <<Frame(file)>>
    /\ made' = NeverMade
    /\ UNCHANGED <<source, tmpflgs, temps, vipath, loop, asked, answer>>

(* A preview: the constructor, and the first skip of internfile().         *)
StartPreview(d) ==
    LET h == Frame(file)
    IN  /\ mode = "idle"
        /\ vipath' = d.ipath
        /\ asked' = d
        /\ IF d.ipath # <<>> /\ ~CanSkip(h)
           THEN /\ answer' = [to |-> d, got |-> Nothing,
                              fresh |-> made.file = file /\ made.missing = missing]
                /\ UNCHANGED <<mode, stack>>
           ELSE /\ mode' = "preview"
                /\ stack' = <<IF d.ipath = <<>> THEN h ELSE Skipped(h, d.ipath[1])>>
                /\ answer' = answer
        /\ UNCHANGED <<source, docs, made, tmpflgs, temps, loop>>

Looping == mode # "idle" /\ loop > MaxLoops /\ Fails("looping") /\ UNCHANGED source

Turn == mode # "idle" /\ loop <= MaxLoops /\ UNCHANGED source

(* has_documents() is false, or next_document() fails.                     *)
NoDocument ==
    /\ Turn
    /\ ~Top.have \/ \A i \in Place(Top) : ~Kids[Top.node][i].ok
    /\ PopOrFail

(* Mutant: the last element of the path is not skipped to.                 *)
StackedShort(s, n) ==
    LET deeper == Len(s) + 1
        skip == mode = "preview" /\ deeper < Len(vipath)
    IN  IF skip /\ ~CanSkip(Frame(n)) THEN Fails("done")
        ELSE /\ stack' = Append(s, IF skip THEN Skipped(Frame(n), vipath[deeper]) ELSE Frame(n))
             /\ tmpflgs' = [tmpflgs EXCEPT ![deeper] = NeedsFile(n)]
             /\ temps' = IF NeedsFile(n) THEN Append(temps, n) ELSE temps
             /\ loop' = loop + 1
             /\ UNCHANGED <<docs, made, mode, vipath, asked, answer>>

(* A handler for the document n of the top one, s the stack once it has it *)
Stacked(s, n) ==
    LET deeper == Len(s) + 1
        skip == mode = "preview" /\ deeper <= Len(vipath)
    IN  IF skip /\ ~CanSkip(Frame(n)) THEN Fails("done")
        ELSE /\ stack' = Append(s, IF skip THEN Skipped(Frame(n), vipath[deeper]) ELSE Frame(n))
             /\ tmpflgs' = [tmpflgs EXCEPT ![deeper] = NeedsFile(n)]
             /\ temps' = IF NeedsFile(n) THEN Append(temps, n) ELSE temps
             /\ loop' = loop + 1
             /\ UNCHANGED <<docs, made, mode, vipath, asked, answer>>

(* Mutant: a document without a handler does not count.                    *)
GoOnUncounted(s) ==
    /\ stack' = s
    /\ UNCHANGED <<loop, docs, made, mode, tmpflgs, temps, vipath, asked, answer>>

GoOn(s) ==
    /\ stack' = s
    /\ loop' = loop + 1
    /\ UNCHANGED <<docs, made, mode, tmpflgs, temps, vipath, asked, answer>>

(* addHandler(), and what internfile() does of its answer.                 *)
AddHandler(s, n) ==
    IF Kind[n] = "text" THEN Returns(s, n)
    ELSE IF Len(s) >= MaxHandlers \/ ~HasHandler(n) THEN GoOn(s)
    ELSE IF n \notin Good THEN Returns(Append(s, Frame(n)), n)
    ELSE Stacked(s, n)

NextDocument ==
    /\ Turn
    /\ Top.have
    /\ \E i \in Place(Top) : \E more \in HaveAfter(Top, i) :
          LET kid == Kids[Top.node][i]
              s == [stack EXCEPT ![Len(stack)].el = kid.el,
                                 ![Len(stack)].at = i + 1,
                                 ![Len(stack)].have = more]
          IN  kid.ok /\ AddHandler(s, kid.to)

Step == NoDocument \/ NextDocument \/ Looping
Next == Change \/ StartIndex \/ (\E d \in Range(docs) : StartPreview(d)) \/ Step

Spec == Init /\ [][Next]_vars

(* internfile() runs to its end once it is called.                         *)
FairSpec == Spec /\ WF_vars(Step)

-----------------------------------------------------------------------------
(* Properties.                                                             *)

TypeOK ==
    /\ file \in Roots /\ missing \subseteq Node /\ changes \in 0 .. MaxChanges
    /\ Range(docs) \subseteq Found
    /\ mode \in {"idle", "index", "preview"} /\ (mode = "idle" <=> stack = <<>>)
    /\ Len(stack) \in 0 .. MaxHandlers
    /\ \A i \in DOMAIN stack :
          stack[i] \in [node : Node, at : Nat \ {0}, have : BOOLEAN, want : Nat, el : Nat]
    /\ loop \in 0 .. MaxLoops + 1
    /\ asked \in Found \cup {Nothing}
    /\ answer.to \in Found \cup {Nothing} /\ answer.got \in Found \cup {Nothing}

(* What a file holds: for each document its path, from the handler of n on *)
(* with room for d handlers, the documents after a failure or not.         *)
Inside(afterFailures) ==
    LET inside[d \in 0 .. MaxHandlers] == [n \in Node |->
            IF d = 0 THEN {}
            ELSE UNION {
                LET kid == Kids[n][i]
                    below == IF Kind[kid.to] = "text" THEN {[ipath |-> <<>>, node |-> kid.to]}
                             ELSE IF d = 1 \/ kid.to \in missing \cup Unwanted THEN {}
                             ELSE IF kid.to \notin Good THEN {[ipath |-> <<>>, node |-> kid.to]}
                             ELSE inside[d - 1][kid.to]
                IN  {[x EXCEPT !.ipath = (IF kid.el = 0 THEN <<>> ELSE <<kid.el>>) \o @] : x \in below}
                : i \in {j \in DOMAIN Kids[n] :
                           /\ Kids[n][j].ok
                           /\ afterFailures \/ \A k \in 1 .. j : Kids[n][k].ok}}]
    IN inside[MaxHandlers][file]

Fresh == made.file = file /\ made.missing = missing /\ made.how = "done"

(* Indexing extracts every document of the file once, each under a path of *)
(* its own, up to the first failure of each handler.                       *)
IndexIsExact ==
    Fresh =>
        /\ Range(docs) = Inside(FALSE)
        /\ \A i, j \in DOMAIN docs : docs[i].ipath = docs[j].ipath => i = j

(* The path that a document had when it was indexed leads a preview, with  *)
(* handlers that skip in different ways, back to this document.            *)
PreviewIsExact == answer.fresh => answer.got = answer.to

(* The types, with the height of the stack, and: popHandler() deletes the  *)
(* file of the handler that goes, and only it.                             *)
TempFilesMatch ==
    LET flagged == {j \in DOMAIN tmpflgs : tmpflgs[j]}
    IN  /\ TypeOK
        /\ Len(temps) = Cardinality(flagged)
        /\ \A j \in flagged : j <= Len(stack) /\ temps[UpTo(flagged, j)] = stack[j].node

(* A call of internfile() comes to an end, also when the document asked    *)
(* for has no handler any more and is found again and again.               *)
AlwaysEnds == []<>(mode = "idle")

(* "If set by caller, the specified subdoc will be returned"               *)
(* (internfile.h): never another one.                                      *)
PreviewIsAsked == answer.got # Nothing => answer.got.ipath = answer.to.ipath

(* "SubdocError: no subdoc returned by this request, but file goes on"     *)
(* (mh_execm.h).                                                           *)
FileGoesOn == Fresh => Range(docs) = Inside(TRUE)
=============================================================================
