----------------------------- MODULE MCInterner -----------------------------
(* Interner over a forest of files: folders with mails, archives in mails,  *)
(* converters, a member of unwanted type, one that its handler refuses and  *)
(* two that fail.                                                           *)
EXTENDS Interner, TLC

(* t.. texts, p.. pages to convert, m.. mails, f.. folders, z.. archives.   *)
K(e, n) == [el |-> e, to |-> n, ok |-> TRUE]
Bad(e, n) == [el |-> e, to |-> n, ok |-> FALSE]

MCKids == [n \in Node |->
    CASE n = "p1" -> <<K(0, "t1")>>
      [] n = "p3" -> <<K(0, "t3")>>
      [] n = "p2" -> <<Bad(0, "t1")>>
      [] n = "m1" -> <<K(0, "t2"), K(1, "p1"), K(2, "x1"), K(3, "p3")>>
      [] n = "m2" -> <<K(0, "t4"), K(1, "z1"), K(2, "b1")>>
      [] n = "z1" -> <<K(0, "t5"), K(4, "t6"), K(5, "m1")>>
      [] n = "z2" -> <<K(0, "t5"), K(4, "x1"), K(5, "x1"), K(6, "x1"), K(7, "t7")>>
      [] n = "z3" -> <<K(0, "t5"), K(4, "t6"), Bad(5, "t7"), K(6, "t8")>>
      [] n = "z4" -> <<K(4, "p2"), K(5, "z1"), K(6, "p1")>>
      [] n = "f1" -> <<K(1, "m1"), K(2, "m2")>>
      [] n = "x1" -> <<K(0, "t1")>>
      [] OTHER -> <<>>]

MCKind == [n \in Node |->
    CASE n = "p1" -> "convert"
      [] n \in {"p2", "p3", "x1"} -> "exec"
      [] n \in {"m1", "m2"} -> "mail"
      [] n \in {"z1", "z2", "z3", "z4", "b1"} -> "archive"
      [] n = "f1" -> "folder"
      [] OTHER -> "text"]
=============================================================================
