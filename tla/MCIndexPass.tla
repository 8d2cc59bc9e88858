---------------------------- MODULE MCIndexPass ----------------------------
(* IndexPass on a small tree: f1 is a container whose one subdocument is    *)
(* there in version 2 only; f2 is an ordinary file, whose path begins with  *)
(* that of f1.                                                              *)
EXTENDS IndexPass, TLC

CONSTANTS f1, f2, k1

MCParent == [k \in {k1} |-> f1]
MCParts == [f \in {f1, f2} |-> [v \in {1, 2} |-> IF f = f1 /\ v = 2 THEN {k1} ELSE {}]]
MCBeneath == [f \in {f1, f2} |-> IF f = f1 THEN {f1, f2} ELSE {f2}]

Symmetry == Permutations(InternWorkers) \cup Permutations(SplitWorkers)
=============================================================================
