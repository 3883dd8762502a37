------------------------------- MODULE MCLibrary -------------------------------
(***************************************************************************)
(* Library with two documents, two tabs and two bookmarks.                 *)
(***************************************************************************)
EXTENDS Library

CONSTANTS a, b, t1, t2

Symmetries == Permutations(Docs) \cup Permutations(Tabs)
=============================================================================
