---------------------------- MODULE MCPageTables ----------------------------
(* Four levels, the last three of which may hold pages of 4, 2 and 1; room *)
(* for four tables besides the root.                                       *)
EXTENDS PageTables, TLC
CONSTANTS f1, f2, f3, f4
MCCnt == <<2, 4, 2, 2>>
MCRanges == <<4, 2, 1>>
MCFrames == {f1, f2, f3, f4}
Symmetry == Permutations(MCFrames)
==============================================================================
