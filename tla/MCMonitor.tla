---------------------------- MODULE MCMonitor ----------------------------
(* Monitor with a file f0 in the top directory, f2 in d2 if there is one,  *)
(* and the others in d1; the path of d2 begins with that of d1.            *)
EXTENDS Monitor, TLC

CONSTANTS f0, f1, f2, d1, d2

MCHome == [f \in Files |-> CASE f = f0 -> Top
                             [] f = f2 /\ d2 \in Dirs -> d2
                             [] OTHER -> d1]
MCBeneath == [d \in Dirs |-> IF d = d1 THEN Dirs ELSE {d}]
==========================================================================
