--------------------------- MODULE MCWorkQueue ---------------------------
(* WorkQueue for TLC: threads and tasks are model values, interchangeable  *)
(* except for the owner of the queue.                                      *)
EXTENDS WorkQueue, TLC

Symmetry ==
    Permutations(Workers) \cup Permutations(Clients \ {Main}) \cup Permutations(Tasks)
=============================================================================
