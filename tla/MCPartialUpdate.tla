-------------------------- MODULE MCPartialUpdate --------------------------
(* PartialUpdate on a file f1 that has one subdocument, the same, none and *)
(* another one in its four versions, and an ordinary file f2.              *)
EXTENDS PartialUpdate, TLC

CONSTANTS f1, f2, k1, k2

MCParent == [k \in {k1, k2} |-> f1]
MCLastVersion == [f \in {f1, f2} |-> IF f = f1 THEN 4 ELSE 1]
MCParts == [f \in {f1, f2} |-> [v \in Versions |->
               IF f = f2 \/ v = 3 THEN {} ELSE IF v = 4 THEN {k2} ELSE {k1}]]
=============================================================================
