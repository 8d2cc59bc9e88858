----------------------------- MODULE MCWebQueue -----------------------------
(* WebQueue with three pages, two of which have udis with the same hash.    *)
EXTENDS WebQueue, TLC

CONSTANTS page1, page2, page3

MCHash == [u \in Udi |-> IF u = page1 THEN 1 ELSE 2]
MCSizes ==
    [u \in Udi |-> IF u = page1 THEN {1, 2} ELSE IF u = page2 THEN {1} ELSE {2}]
=============================================================================
