------------------------------ MODULE CirCache ------------------------------
(***************************************************************************)
(* The web cache file (utils/circache.cpp): entries follow each other in   *)
(* one file that grows to a maximum size and is then written again from    *)
(* its start, over the oldest entries.  A block at the start of the file   *)
(* holds the write position and the position and the padding of the newest *)
(* entry; each entry has a header with the sizes from which the next one   *)
(* is found.  A handle of the file is an open CirCache object: a copy of   *)
(* the block and a map from hashed udis to offsets.                        *)
(*                                                                         *)
(* The file is a sequence of cells.  The first block is the cell 0 and is  *)
(* kept apart, a header is one cell, the dictionary and the data of an     *)
(* entry are one or more.  Entries are unique (CC_CRUNIQUE), as in the     *)
(* only user of the class.  Left out: the compression, entries by instance *)
(* number, write errors.                                                   *)
(***************************************************************************)
EXTENDS Naturals, Sequences, FiniteSets, SequencesExt, FiniteSetsExt

CONSTANTS
    Udi, NoUdi,
    Hash,       \* the first bytes of the MD5 of an udi: these may collide
    Sizes,      \* the sizes of the dictionary and data of each page, in cells
    MaxVersion  \* bound: the versions of a page

ASSUME CacheAssumption ==
    /\ NoUdi \notin Udi /\ IsFiniteSet(Udi)
    /\ DOMAIN Hash = Udi
    /\ DOMAIN Sizes = Udi /\ MaxVersion \in Nat
    /\ \A u \in Udi : Sizes[u] # {} /\ Sizes[u] \subseteq Nat \ {0}

VARIABLES
    file,   \* the cells after the first block
    block,  \* the first block of the file
    mem     \* the handle of the indexer

cache == <<file, block, mem>>

FirstBlockSize == 1     \* also the offset of the first entry
HeaderSize == 1
Hashes == {Hash[u] : u \in Udi}

-----------------------------------------------------------------------------
(* Cells.  A cell that is not a header is the inside of an entry.  An      *)
(* erased entry is a header without a dictionary.                          *)

Cell == [hdr : BOOLEAN, udi : Udi \cup {NoUdi}, ver : 0 .. MaxVersion, len : Nat, pad : Nat]
Body == [hdr |-> FALSE, udi |-> NoUdi, ver |-> 0, len |-> 0, pad |-> 0]
Header(u, v, n, p) == [hdr |-> TRUE, udi |-> u, ver |-> v, len |-> n, pad |-> p]

EntrySize(c) == HeaderSize + c.len + c.pad
FileSize(f) == FirstBlockSize + Len(f)
Readable(f, o) == o \in DOMAIN f /\ f[o].hdr

WriteAt(f, o, cells) ==
    [i \in 1 .. Max({Len(f), o + Len(cells) - 1}) |->
        IF i \in o .. (o + Len(cells) - 1) THEN cells[i - o + 1] ELSE f[i]]

-----------------------------------------------------------------------------
(* Hopping from header to header, from o to the offset stop or to the end  *)
(* of the file.                                                            *)

Chain(f, o, stop) ==
    LET hop[x \in Nat] ==
            IF x = stop THEN [offs |-> <<>>, end |-> "stop"]
            ELSE IF x > Len(f) THEN [offs |-> <<>>, end |-> "eof"]
            ELSE IF ~f[x].hdr THEN [offs |-> <<>>, end |-> "error"]
            ELSE LET rest == hop[x + EntrySize(f[x])]
                 IN  [rest EXCEPT !.offs = <<x>> \o @]
    IN hop[o]

(* The folding scan: to the end of the file, then from the first entry to  *)
(* the start.  Only when it meets the start again is the map complete.     *)
Fold(up, down) ==
    IF up.end = "error"
    THEN [offs |-> up.offs, ok |-> FALSE, full |-> FALSE]
    ELSE [offs |-> up.offs \o down.offs, ok |-> down.end # "error", full |-> down.end = "stop"]

Scan(f, start) == Fold(Chain(f, start, 0), Chain(f, FirstBlockSize, start))

-----------------------------------------------------------------------------
(* The map of a handle: the offsets entered for each hash, in order.       *)

NoMap == [h \in Hashes |-> <<>>]

khEnter(kh, u, o) ==
    IF u = NoUdi \/ o \in ToSet(kh[Hash[u]]) THEN kh
    ELSE [kh EXCEPT ![Hash[u]] = Append(@, o)]

(* Mutant: the entries that are overwritten stay in the map.               *)
KeepsSquashed(kh, u, o) == kh

khClear(kh, u, o) ==
    IF u = NoUdi THEN kh ELSE [kh EXCEPT ![Hash[u]] = SelectSeq(@, LAMBDA x : x # o)]

khClearUdi(kh, u) == [kh EXCEPT ![Hash[u]] = <<>>]

EnterAll(f, m, scan) ==
    [m EXCEPT !.kh = FoldLeft(LAMBDA k, o : khEnter(k, f[o].udi, o), @, scan.offs),
              !.cplt = @ \/ scan.full]

Scanned(f, m) == EnterAll(f, m, Scan(f, m.oheadoffs))

-----------------------------------------------------------------------------
(* Opening.  create() is open() on a file that exists; with another        *)
(* maximum size it writes the block again.  It stops recycling when the    *)
(* size has grown: the second condition of the code compares it with the   *)
(* size of the directory, which is smaller than any maximum size.          *)

NoHandle == [maxsize |-> 0, oheadoffs |-> 0, nheadoffs |-> 0, npadsize |-> 0,
             kh |-> NoMap, cplt |-> FALSE]

Block(m) == [maxsize |-> m.maxsize, oheadoffs |-> m.oheadoffs,
             nheadoffs |-> m.nheadoffs, npadsize |-> m.npadsize]
Open(b) == [maxsize |-> b.maxsize, oheadoffs |-> b.oheadoffs, nheadoffs |-> b.nheadoffs,
            npadsize |-> b.npadsize, kh |-> NoMap, cplt |-> FALSE]

AtFileEnd(f, m) ==
    LET seen == Chain(f, FirstBlockSize, 0).offs
    IN  [m EXCEPT !.oheadoffs = FileSize(f),
                  !.nheadoffs = IF seen = <<>> THEN 0 ELSE Last(seen),
                  !.npadsize = IF seen = <<>> THEN 0 ELSE f[Last(seen)].pad]

Create(f, b, maxsize) ==
    LET m == Open(b)
    IN  [(IF maxsize > m.maxsize THEN AtFileEnd(f, m) ELSE m) EXCEPT !.maxsize = maxsize]

-----------------------------------------------------------------------------
(* get(), without an instance number: the last entry of the udi in the     *)
(* order of the map, or in that of a scan.  The version 0 is a failure.    *)

LastOf(f, offs, u) ==
    LET hits == SelectSeq(offs, LAMBDA o : f[o].udi = u)
    IN  IF hits = <<>> THEN 0 ELSE f[Last(hits)].ver

Searched(f, m, u, scan) ==
    [ver |-> IF scan.ok THEN LastOf(f, scan.offs, u) ELSE 0, mem |-> EnterAll(f, m, scan)]

GetFrom(f, m, u, known) ==
    IF \E i \in DOMAIN known : ~Readable(f, known[i]) THEN [ver |-> 0, mem |-> m]
    ELSE IF LastOf(f, known, u) # 0 THEN [ver |-> LastOf(f, known, u), mem |-> m]
    ELSE Searched(f, m, u, Scan(f, m.oheadoffs))

Get(f, m, u) == GetFrom(f, m, u, IF m.cplt THEN m.kh[Hash[u]] ELSE <<>>)

-----------------------------------------------------------------------------
(* erase(): the header of each entry of the udi becomes that of an erased  *)
(* one, its cells are blanked when the caller asks for it, and all that    *)
(* the map has for the hash is dropped.  The block is not written.         *)

Wiped(f, hits, blank) ==
    LET inside(i) == \E o \in hits : i > o /\ i < o + EntrySize(f[o])
    IN  [i \in DOMAIN f |->
            IF i \in hits THEN Header(NoUdi, 0, 0, f[i].len + f[i].pad)
            ELSE IF blank /\ inside(i) THEN Body ELSE f[i]]

EraseAt(f, m, u, blank, bad, hits) ==
    LET pad == IF m.nheadoffs \in hits
               THEN f[m.nheadoffs].len + f[m.nheadoffs].pad ELSE m.npadsize
    IN  [ok |-> bad = 0, file |-> Wiped(f, hits, blank),
         mem |-> [m EXCEPT !.npadsize = pad,
                           !.kh = IF bad = 0 THEN khClearUdi(@, u) ELSE @]]

(* The entries before the first one that cannot be read.                   *)
EraseRead(f, m, u, blank, bad) ==
    LET offs == m.kh[Hash[u]]
        read == IF bad = 0 THEN offs ELSE SubSeq(offs, 1, bad - 1)
    IN  EraseAt(f, m, u, blank, bad, {o \in ToSet(read) : f[o].udi = u})

EraseMapped(f, m, u, blank) ==
    IF ~m.cplt THEN [ok |-> FALSE, file |-> f, mem |-> m]
    ELSE EraseRead(f, m, u, blank, SelectInSeq(m.kh[Hash[u]], LAMBDA o : ~Readable(f, o)))

Erase(f, m, u, blank) ==
    EraseMapped(f, IF m.cplt THEN m ELSE Scanned(f, m), u, blank)

-----------------------------------------------------------------------------
(* put(): erase the older entries, take back the padding that precedes the *)
(* write position (and the header it belongs to when that entry is         *)
(* erased), then fit into it, let the file grow, or squash the oldest      *)
(* entries.                                                                *)

(* Mutant: the header of a live entry is taken back with its padding.      *)
RecoversHeader(f, m) ==
    IF m.oheadoffs = FirstBlockSize \/ m.npadsize = 0 THEN 0 ELSE m.npadsize + HeaderSize

Recovered(f, m) ==
    IF m.oheadoffs = FirstBlockSize \/ m.npadsize = 0 THEN 0
    ELSE IF f[m.nheadoffs].udi = NoUdi THEN m.npadsize + HeaderSize ELSE m.npadsize

(* "logic error: bad padsize" *)
BadPad(f, m) ==
    /\ m.oheadoffs # FirstBlockSize /\ m.npadsize # 0
    /\ ~Readable(f, m.nheadoffs) \/ f[m.nheadoffs].pad # m.npadsize

Unpadded(f, m) ==
    IF Recovered(f, m) # 0 /\ f[m.nheadoffs].udi # NoUdi
    THEN [f EXCEPT ![m.nheadoffs].pad = 0] ELSE f

(* The entries to overwrite for a number of cells, and the cells that      *)
(* remain of the last one.                                                 *)
Squash(f, m, wanted, chain) ==
    LET offs == chain.offs
        seen(k) == offs[k] + EntrySize(f[offs[k]]) - m.oheadoffs
        enough == {k \in 1 .. Len(offs) : seen(k) >= wanted}
    IN  IF enough # {}
        THEN [ok |-> TRUE, squashed |-> SubSeq(offs, 1, Min(enough)), left |-> seen(Min(enough)) - wanted]
        ELSE [ok |-> chain.end = "eof", squashed |-> offs, left |-> 0]

Spacer(f, m, wanted) == Squash(f, m, wanted, Chain(f, m.oheadoffs, 0))

Room(f, m, nsize) ==
    LET recov == Recovered(f, m)
    IN  IF nsize <= recov THEN [ok |-> TRUE, squashed |-> <<>>, left |-> recov - nsize]
        ELSE IF FileSize(f) < m.maxsize THEN [ok |-> TRUE, squashed |-> <<>>, left |-> 0]
        ELSE Spacer(Unpadded(f, m), m, nsize - recov)

(* Mutant: the padding of the entry is forgotten.                          *)
KeepsPadSize(m, at, nsize, left) ==
    [m EXCEPT !.nheadoffs = at,
              !.oheadoffs = IF at + nsize >= m.maxsize THEN FirstBlockSize ELSE at + nsize + left]

(* The newest entry is now at this offset, and the write position behind   *)
(* it, or at the start once the maximum size is reached.                   *)
HeadAt(m, at, nsize, left) ==
    [m EXCEPT !.nheadoffs = at, !.npadsize = left,
              !.oheadoffs = IF at + nsize >= m.maxsize THEN FirstBlockSize ELSE at + nsize + left]

Written(f, m, u, v, n, room) ==
    LET nsize == HeaderSize + n
        at == m.oheadoffs - Recovered(f, m)
        kh == FoldLeft(LAMBDA k, o : khClear(k, f[o].udi, o), m.kh, room.squashed)
    IN  [ok |-> TRUE,
         file |-> WriteAt(Unpadded(f, m), at,
                          <<Header(u, v, n, room.left)>> \o [i \in 1 .. n |-> Body]),
         mem |-> [HeadAt(m, at, nsize, room.left) EXCEPT !.kh = khEnter(kh, u, at)]]

(* Mutant: the older entries of the page are kept.                         *)
PutKeepsOlder(f, m, u, v, n) ==
    LET s == IF m.cplt THEN m ELSE Scanned(f, m)
        room == Room(f, s, HeaderSize + n)
    IN  IF BadPad(f, s) \/ ~room.ok THEN [ok |-> FALSE, file |-> f, mem |-> s]
        ELSE Written(f, s, u, v, n, room)

PutErased(e, u, v, n) ==
    LET room == Room(e.file, e.mem, HeaderSize + n)
    IN  IF ~e.ok \/ BadPad(e.file, e.mem) THEN [e EXCEPT !.ok = FALSE]
        ELSE IF ~room.ok THEN [e EXCEPT !.ok = FALSE, !.file = Unpadded(@, e.mem)]
        ELSE Written(e.file, e.mem, u, v, n, room)

Put(f, m, u, v, n) == PutErased(Erase(f, m, u, FALSE), u, v, n)

-----------------------------------------------------------------------------
(* rewind() and next(): the offset of the first entry of a walk and of the *)
(* one after o; 0 is the end.                                              *)

Rewound(f, m) ==
    LET o == IF m.oheadoffs = FileSize(f) THEN FirstBlockSize ELSE m.oheadoffs
    IN  IF o > Len(f) THEN 0 ELSE o

(* Mutant: a walk ends at the end of the file.                             *)
EndsAtEof(f, m, o) ==
    LET n == o + EntrySize(f[o])
    IN  IF n = m.oheadoffs \/ n > Len(f) THEN 0 ELSE n

NextEntry(f, m, o) ==
    LET n == o + EntrySize(f[o])
    IN  IF n = m.oheadoffs \/ (n > Len(f) /\ m.oheadoffs = FirstBlockSize) THEN 0
        ELSE IF n > Len(f) THEN FirstBlockSize ELSE n
=============================================================================
