--------------------------- MODULE MCFilterDialog ---------------------------
(* FilterDialog with a file of one document and one of two.                 *)
EXTENDS FilterDialog

CONSTANTS f, g
MCCount == [x \in File |-> IF x = f THEN 1 ELSE 2]
=============================================================================
