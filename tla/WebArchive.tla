----------------------------- MODULE WebArchive -----------------------------
(***************************************************************************)
(* What the web cache promises (the comments of utils/circache.h): the     *)
(* versions of pages it keeps, oldest first.  A new one goes to the end,   *)
(* replaces the older one of the same page, and may push out the oldest    *)
(* ones; a page can be erased; nothing else is ever lost, altered or       *)
(* brought back.  Once the maximum size was changed the pages lie in the   *)
(* file in another order than that of their age: only their cyclic order   *)
(* is then kept, and which one is the oldest is not known.                 *)
(***************************************************************************)
EXTENDS Naturals, Sequences, SequencesExt

CONSTANTS
    Udi, MaxVersion,
    Shared      \* the udis whose hash is also that of another one

VARIABLES
    archive,
    resized,    \* the maximum size was changed
    raced       \* a preview wrote back an old block: nothing is promised then

Page == [udi : Udi, ver : 1 .. MaxVersion]

Instances(u) == {i \in DOMAIN archive : archive[i].udi = u}
Without(gone) ==
    FoldLeftDomain(LAMBDA s, i : IF i \in gone THEN s ELSE Append(s, archive[i]), <<>>, archive)
Turned(s) == {SubSeq(s, k + 1, Len(s)) \o SubSeq(s, 1, k) : k \in 0 .. Len(s)}

(* The code may overlook entries of a page whose hash is shared.           *)
Erasures(u) == {Without(gone) : gone \in
                    IF u \in Shared THEN SUBSET Instances(u) ELSE {Instances(u)}}

Init == archive = <<>> /\ ~resized

Stored(s, u, v) ==
    {Append(SubSeq(s, k + 1, Len(s)), [udi |-> u, ver |-> v]) : k \in 0 .. Len(s)}

Store(u, v) ==
    archive' \in IF resized
                 THEN UNION {Turned(s) : s \in UNION {UNION {Stored(t, u, v) : t \in Turned(e)} : e \in Erasures(u)}}
                 ELSE UNION {Stored(s, u, v) : s \in Erasures(u)}

Erase(u) == archive' \in Erasures(u)

(* An editor that is told to erase a page may find another size in the     *)
(* configuration when it then opens the cache again.                       *)
Resize ==
    /\ resized'
    /\ \E u \in Udi : archive' \in Turned(archive) \cup UNION {Turned(e) : e \in Erasures(u)}

Change ==
    \/ \E u \in Udi, v \in 1 .. MaxVersion : Store(u, v)
    \/ \E u \in Udi : Erase(u)

Next == \/ archive' # archive /\ UNCHANGED resized /\ Change
        \/ Resize
        \/ raced'

Spec == Init /\ [][Next]_<<archive, resized>>
=============================================================================
