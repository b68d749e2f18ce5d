---------------------------- MODULE MCDosHandles ----------------------------
(***************************************************************************)
(* Two files, three host descriptors besides the standard ones (5 is the   *)
(* one close() returns to the host), and room for the table to double once.*)
(* Memory that was not written reads as free or as descriptor 5.          *)
(***************************************************************************)
EXTENDS DosHandles, TLC

MCGarbage == {-1, 5}
MCSymmetry == Permutations(Files)
=============================================================================
