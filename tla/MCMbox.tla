------------------------------- MODULE MCMbox -------------------------------
(* Mbox with small folders: messages of one to three lines in several       *)
(* orders, one too large, one without its empty line, a second From_ line,  *)
(* and an inner folder.                                                     *)
EXTENDS Mbox, TLC

CONSTANTS F, E, x, y, z, top, inner

Three  == <<F, x, E, F, y, E, F, z>>
Other  == <<F, y, y, E, F, z, E, F, x>>
Two    == <<F, y, E, F, z, z>>
Small  == <<F, y, E, F, z>>
Large  == <<F, x, E, F, y, y, y, y, E, F, z>>
Double == <<F, x, E, F, F, y, E, F, z>>
Stray  == <<x, E, F, y, F, z>>
Tight  == <<F, x, F, y, E, F, z>>
Long   == <<F, x, y, E, F, y, y, E, F, z>>
Wide   == <<F, x, x, y, y, E, F, z, z>>

MCContents == {Three, Other, Two, Small, Large, Double, Stray, Tight}
ShrunkContents == {Wide, Small}
OtherContents == {Wide, <<F, y, E, F, z, E, F, x>>}
InnerContents == {Three, Long}
=============================================================================
