---------------------------- MODULE MCProfileStore ----------------------------
(***************************************************************************)
(* ProfileStore with two browsers, two URLs and two sessions, of one tab   *)
(* and of two.                                                             *)
(***************************************************************************)
EXTENDS ProfileStore, TLC

CONSTANTS p, q, a, b

MCSnapshots == {[tabs |-> <<a>>, active |-> 1], [tabs |-> <<a, b>>, active |-> 2]}

Interchangeable == Permutations(Processes)
=============================================================================
