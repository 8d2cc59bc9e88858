-------------------------------- MODULE Mbox --------------------------------
(***************************************************************************)
(* Mail folders (internfile/mh_mbox.cpp): the handler that cuts a folder   *)
(* into messages, for the indexer one after the other, for a preview the   *)
(* one of a given number, and the cache of the offsets of the messages,    *)
(* written to disk when a pass comes to the end of a folder and used by    *)
(* previews to go straight to a message.  The indexer and the graphical    *)
(* interface are two processes, each with a pooled handler; they share the *)
(* folders, the index and the cache.                                       *)
(*                                                                         *)
(* A folder is a sequence of lines: From_ lines, empty lines and texts,    *)
(* one unit of size each.  A folder is replaced and not written in place,  *)
(* so that a process reads the content it has opened to the end.  No lock  *)
(* is shared by the processes: a preview may read the offsets, and write   *)
(* its own, long after it has opened a folder.  Left out: what a From_     *)
(* line looks like, the parsing of the messages; the file of offsets is    *)
(* written in one step, but for a kill.                                    *)
(***************************************************************************)
EXTENDS Naturals, Sequences, FiniteSets, FiniteSetsExt

CONSTANTS
    Box,         \* the folders
    Inner,       \* those that are members of another file, an archive say
    From, Empty, Word,   \* the lines: separators, empty ones and texts
    Contents,    \* what a folder may hold
    Tbird,       \* those that may be of Thunderbird, which omits empty lines
    MinSize,     \* m_minfsize, the smallest folder with a cache
    MaxSize,     \* max_mbox_member_size
    MaxChanges,  \* bound: the changes of the folders
    NoBox, Nothing

ASSUME MboxAssumption ==
    /\ Inner \subseteq Box /\ NoBox \notin Box
    /\ {From, Empty} \cap Word = {} /\ From # Empty
    /\ Contents \subseteq Seq(Word \cup {From, Empty})
    /\ Tbird \subseteq Box
    /\ MinSize \in Nat /\ MaxSize \in Nat /\ MaxChanges \in Nat
    /\ Nothing \notin Seq(Word \cup {From, Empty})

VARIABLES
    folder,   \* what each folder holds
    quirks,   \* mhmboxquirks: the folders that are of Thunderbird
    changes,
    saved,    \* the file of offsets of each folder, if there is one
    docs,     \* the index: the text of each message, by number
    known,    \* how the last pass over the folder ended, for its content
    pass,     \* the handler of the indexer, in use
    udi,      \* m_udi of the handler in the pool of each process
    view,     \* the handler of the interface, in use
    shown,    \* the last preview
    astray    \* history: the caches written last for another folder or, by a
              \* preview, for a content that was not there any more

vars == <<folder, quirks, changes, saved, docs, known, pass, udi, view, shown, astray>>

Line == Word \cup {From, Empty}
Process == {"indexer", "gui"}
NoFile == [offs |-> <<>>, of |-> NoBox]    \* a ghost: whose offsets these are
Idle == [box |-> NoBox, text |-> <<>>, pos |-> 1, num |-> 0, offs |-> <<>>]
NoView == [box |-> NoBox, num |-> 0, text |-> <<>>, offs |-> <<>>, save |-> FALSE]
NoPreview == [box |-> NoBox, num |-> 0, text |-> Nothing, want |-> Nothing,
              known |-> "stale", in |-> <<>>, misled |-> FALSE]

-----------------------------------------------------------------------------
(* One call of next_document(), from the line s on.  hademptyline is true  *)
(* at s and after an empty line.                                           *)

(* Mutant: a call does not begin as after an empty line.                   *)
SeparatorsInside(b, c, s) ==
    {p \in s .. Len(c) : c[p] = From /\ p > 1 /\ (b \in quirks \/ c[p - 1] = Empty)}

(* Mutant: the quirk of Thunderbird is not known.                          *)
SeparatorsStrict(b, c, s) ==
    {p \in s .. Len(c) : c[p] = From /\ (p = s \/ c[p - 1] = Empty)}

Separators(b, c, s) ==
    {p \in s .. Len(c) : c[p] = From /\ (b \in quirks \/ p = s \/ c[p - 1] = Empty)}

UpTo(seps, p) == Cardinality({q \in seps : q <= p})

(* The number of separators after which the loop breaks: it looks for the  *)
(* end of the message t, or of the next one if t is 0; num is msgnum.      *)
Wanted(t, num) == IF t > 0 THEN t + 1 - num ELSE Max({1, 2 - num})

(* The lines of a set in their order.                                      *)
InOrder(lines) == [i \in 1 .. Cardinality(lines) |-> CHOOSE p \in lines : UpTo(lines, p) = i]

Call(b, c, s, num, t) ==
    LET all == Separators(b, c, s)
        last == {p \in all : UpTo(all, p) = Wanted(t, num)}
        stop == IF last = {} THEN Len(c) + 1 ELSE CHOOSE p \in last : TRUE
        seps == {p \in all : p <= stop}
        mine == {p \in s .. (stop - 1) :
                    p \notin seps /\ (t = 0 \/ num + UpTo(seps, p) = t)}
    IN  [text |-> [i \in DOMAIN InOrder(mine) |-> c[InOrder(mine)[i]]],
         eof |-> last = {},
         num |-> num + Cardinality(seps) + (IF last = {} THEN 1 ELSE 0),
         pos |-> stop + 1,
         offs |-> InOrder(seps)]

(* tryUseCache() could not read a line where it looked: the error bits of  *)
(* the stream stay, seekg(0) does nothing, and the loop sees an end of     *)
(* file at once.                                                           *)
BadStream == [text |-> <<>>, eof |-> TRUE, num |-> 1, pos |-> 1, offs |-> <<>>]

Fails(r) == r.text = <<>> \/ Len(r.text) > MaxSize

-----------------------------------------------------------------------------
(* The cache.                                                              *)

Cached(u, t) == u # NoBox /\ t \in DOMAIN saved[u].offs

FromAt(c, o) == o <= Len(c) /\ c[o] = From

(* Mutant: the offsets are only written when there are none.               *)
PutOffsetsOnce(u, b, c, offs) ==
    saved' = IF u = NoBox \/ Len(c) < MinSize \/ saved[u] # NoFile THEN saved
             ELSE [saved EXCEPT ![u] = [offs |-> offs, of |-> b]]

PutOffsets(u, b, c, offs) ==
    saved' = IF u = NoBox \/ Len(c) < MinSize THEN saved
             ELSE [saved EXCEPT ![u] = [offs |-> offs, of |-> b]]

Strays(u, c, wrong) ==
    astray' = IF u = NoBox \/ Len(c) < MinSize THEN astray
              ELSE IF wrong THEN astray \cup {u} ELSE astray \ {u}

(* init() sets the udi of a handler for a file; addHandler(), for a member *)
(* of a file, does not, and clear() leaves what there was.                 *)
UdiFor(p, b) == IF b \in Inner THEN udi[p] ELSE b

-----------------------------------------------------------------------------
Init ==
    /\ folder \in [Box -> Contents]
    /\ quirks \in SUBSET Tbird
    /\ changes = 0
    /\ saved = [b \in Box |-> NoFile]
    /\ docs = [b \in Box |-> <<>>]
    /\ known = [b \in Box |-> "stale"]
    /\ pass = Idle
    /\ udi = [p \in Process |-> NoBox]
    /\ view = NoView /\ shown = NoPreview /\ astray = {}

(* The user's mail program writes the folder again.                        *)
Change(b) ==
    /\ changes < MaxChanges
    /\ changes' = changes + 1
    /\ \E c \in Contents \ {folder[b]} : folder' = [folder EXCEPT ![b] = c]
    /\ known' = [known EXCEPT ![b] = "stale"]
    /\ UNCHANGED <<quirks, saved, docs, pass, udi, view, shown, astray>>

(* The indexer: a folder that is not up to date is opened.                 *)
SetDocumentFile(b) ==
    /\ pass = Idle
    /\ known[b] = "stale"
    /\ pass' = [Idle EXCEPT !.box = b, !.text = folder[b]]
    /\ udi' = [udi EXCEPT !["indexer"] = UdiFor("indexer", b)]
    /\ docs' = [docs EXCEPT ![b] = <<>>]
    /\ UNCHANGED <<folder, quirks, changes, saved, known, view, shown, astray>>

Ended(how) ==
    /\ pass' = Idle
    /\ known' = IF pass.text = folder[pass.box] THEN [known EXCEPT ![pass.box] = how] ELSE known

Add(d, n, text) == [i \in DOMAIN d \cup {n} |-> IF i = n THEN text ELSE d[i]]

(* The indexer: the next message.  internfile() pops the handler when it   *)
(* fails or has no more documents.                                         *)
NextDocument ==
    LET r == Call(pass.box, pass.text, pass.pos, pass.num, 0)
        offs == pass.offs \o r.offs
    IN  /\ pass # Idle
        /\ IF Fails(r) THEN docs' = docs
           ELSE docs' = [docs EXCEPT ![pass.box] = Add(@, r.num - 1, r.text)]
        /\ IF r.eof /\ Len(r.text) <= MaxSize
           THEN /\ PutOffsets(udi["indexer"], pass.box, pass.text, offs)
                /\ Strays(udi["indexer"], pass.text, udi["indexer"] # pass.box)
           ELSE UNCHANGED <<saved, astray>>
        /\ IF Fails(r) THEN Ended(IF r.eof /\ r.text = <<>> THEN "whole" ELSE "cut")
           ELSE IF r.eof THEN Ended("whole")
           ELSE /\ pass' = [pass EXCEPT !.pos = r.pos, !.num = r.num, !.offs = offs]
                /\ known' = known
        /\ UNCHANGED <<folder, quirks, changes, udi, view, shown>>

(* The indexer is killed, maybe while it writes the offsets, or the pass   *)
(* is stopped.                                                             *)
Killed ==
    /\ pass # Idle
    /\ \/ UNCHANGED <<saved, astray>>
       \/ /\ udi["indexer"] # NoBox /\ Len(pass.text) >= MinSize
          /\ \E n \in 0 .. Len(pass.offs) :
                saved' = [saved EXCEPT ![udi["indexer"]] =
                            [offs |-> SubSeq(pass.offs, 1, n), of |-> pass.box]]
          /\ Strays(udi["indexer"], pass.text, udi["indexer"] # pass.box)
    /\ pass' = Idle
    /\ udi' = [udi EXCEPT !["indexer"] = NoBox]
    /\ UNCHANGED <<folder, quirks, changes, docs, known, view, shown>>

(* The end of a pass over the file system: clearMimeHandlerCache().        *)
ClearPool ==
    /\ pass = Idle
    /\ udi["indexer"] # NoBox
    /\ udi' = [udi EXCEPT !["indexer"] = NoBox]
    /\ UNCHANGED <<folder, quirks, changes, saved, docs, known, pass, view, shown, astray>>

(* The interface opens a folder, for a message that the user has found.    *)
PreviewOpens(b, n) ==
    /\ view = NoView
    /\ n \in DOMAIN docs[b]
    /\ view' = [NoView EXCEPT !.box = b, !.num = n, !.text = folder[b]]
    /\ udi' = [udi EXCEPT !["gui"] = UdiFor("gui", b)]
    /\ shown' = NoPreview
    /\ UNCHANGED <<folder, quirks, changes, saved, docs, known, pass, astray>>

(* The message, from the cached offset if there is one where a From_ line  *)
(* is found, else by a scan.  The index has it when the folder still holds *)
(* what was opened.                                                        *)
PreviewReads ==
    LET b == view.box
        c == view.text
        n == view.num
        u == udi["gui"]
        o == saved[u].offs[n]
        hit == n > 0 /\ Cached(u, n)
        use == hit /\ FromAt(c, o)
        r == IF use THEN Call(b, c, o, n - 1, n)
             ELSE IF hit /\ o > Len(c) THEN BadStream
             ELSE Call(b, c, 1, 0, n)
        there == n \in DOMAIN docs[b]
    IN  /\ view # NoView /\ ~view.save
        /\ view' = IF r.eof /\ ~use /\ Len(r.text) <= MaxSize
                   THEN [view EXCEPT !.save = TRUE, !.offs = r.offs] ELSE NoView
        /\ shown' = [box |-> b, num |-> n, text |-> IF Fails(r) THEN Nothing ELSE r.text,
                     want |-> IF there THEN docs[b][n] ELSE Nothing,
                     known |-> IF there /\ folder[b] = c THEN known[b] ELSE "stale",
                     in |-> c, misled |-> hit /\ (b \in Inner \/ u \in astray)]
        /\ UNCHANGED <<folder, quirks, changes, saved, docs, known, pass, udi, astray>>

(* A scan came to the end of the folder: its offsets are saved.            *)
PreviewSaves ==
    /\ view.save
    /\ PutOffsets(udi["gui"], view.box, view.text, view.offs)
    /\ Strays(udi["gui"], view.text,
              udi["gui"] # view.box \/ view.text # folder[view.box])
    /\ view' = NoView
    /\ UNCHANGED <<folder, quirks, changes, docs, known, pass, udi, shown>>

Next ==
    \/ \E b \in Box : Change(b) \/ SetDocumentFile(b) \/ \E n \in DOMAIN docs[b] : PreviewOpens(b, n)
    \/ PreviewReads
    \/ PreviewSaves
    \/ NextDocument
    \/ Killed
    \/ ClearPool

Spec == Init /\ [][Next]_vars

-----------------------------------------------------------------------------
(* Properties.                                                             *)

TypeOK ==
    /\ folder \in [Box -> Contents] /\ quirks \subseteq Tbird
    /\ changes \in 0 .. MaxChanges
    /\ DOMAIN saved = Box
    /\ \A b \in Box : /\ saved[b].of \in Box \cup {NoBox}
                      /\ \A i \in DOMAIN saved[b].offs : saved[b].offs[i] \in Nat \ {0}
    /\ DOMAIN docs = Box
    /\ \A b \in Box : \A n \in DOMAIN docs[b] : n \in Nat /\ docs[b][n] \in Seq(Line)
    /\ known \in [Box -> {"stale", "cut", "whole"}]
    /\ pass.box \in Box \cup {NoBox} /\ pass.pos \in 1 .. Len(pass.text) + 2
    /\ udi \in [Process -> Box \cup {NoBox}]
    /\ view.box \in Box \cup {NoBox} /\ view.num \in Nat /\ view.save \in BOOLEAN
    /\ astray \subseteq Box
    /\ shown.box \in Box \cup {NoBox} /\ shown.text \in Seq(Line) \cup {Nothing}

(* What a folder holds, said without a scan: a message is between two      *)
(* From_ lines that begin the folder or follow an empty line, or any two   *)
(* in a folder of Thunderbird.                                             *)
Begins(b, c) ==
    {p \in DOMAIN c : c[p] = From /\ (p = 1 \/ c[p - 1] = Empty \/ b \in quirks)}
Message(b, c, p) ==
    LET after == {q \in Begins(b, c) : q > p}
    IN  SubSeq(c, p + 1, IF after = {} THEN Len(c) ELSE Min(after) - 1)
Messages(b, c) == {Message(b, c, p) : p \in Begins(b, c)}

(* A folder that begins with a From_ line, with no From_ line inside a     *)
(* message and none right after another one.                               *)
WellFormed(b, c) ==
    /\ c # <<>> /\ c[1] = From
    /\ \A p \in DOMAIN c : c[p] = From => p \in Begins(b, c) /\ Message(b, c, p) # <<>>

(* A pass that came to the end of a well formed folder put each message in *)
(* the index under its rank, however it was interleaved with previews, and *)
(* no other.                                                               *)
WholePassListsAll ==
    \A b \in Box : known[b] = "whole" /\ WellFormed(b, folder[b]) =>
        /\ DOMAIN docs[b] = 1 .. Cardinality(Begins(b, folder[b]))
        /\ \A p \in Begins(b, folder[b]) :
              docs[b][UpTo(Begins(b, folder[b]), p)] = Message(b, folder[b], p)

(* A preview of a message of a folder that is large enough for a cache and *)
(* was last indexed to its end shows the message of the index: the offsets *)
(* are those of the content, or a scan finds the message.  Not so when the *)
(* offsets it finds were written for another folder or, by a preview that  *)
(* was late, for an older content of this one.                             *)
PreviewIsRight ==
    shown.known = "whole" /\ ~shown.misled
            /\ WellFormed(shown.box, shown.in) /\ Len(shown.in) >= MinSize
        => shown.text = shown.want

(* The types, and: whatever the age of the offsets, a preview of a well    *)
(* formed folder shows a whole message of it or nothing, never the end of  *)
(* one or two of them together.                                            *)
OnlyWholeMessages ==
    TypeOK /\ (WellFormed(shown.box, shown.in) => shown.text \in Messages(shown.box, shown.in) \cup {Nothing})

(* "No cached result: scan" (mh_mbox.cpp, tryUseCache): a message that the *)
(* index has of the present content is found.                              *)
MessagesFound ==
    shown.known # "stale" /\ WellFormed(shown.box, shown.in) => shown.text # Nothing

(* "Mbox files smaller than cfg(mboxcacheminmbs) are not cached"           *)
(* (mh_mbox.cpp, MboxCache): no other message is shown in its place.       *)
SmallNotCached ==
    shown.known = "whole" /\ WellFormed(shown.box, shown.in) /\ Len(shown.in) < MinSize
        => shown.text \in {shown.want, Nothing}

(* "Unique document identifier ... if the filter wants to manage a         *)
(* persistent cache (e.g. mh_mbox)" (Filter.h): what is saved for a folder *)
(* is of that folder.                                                      *)
OffsetsAreOwn == \A b \in Box : saved[b].of \in {b, NoBox}
=============================================================================
