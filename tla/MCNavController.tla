--------------------------- MODULE MCNavController ---------------------------
(***************************************************************************)
(* NavController on a page of a site, one of a host under it, and a file.  *)
(***************************************************************************)
EXTENDS NavController

CONSTANTS a, b, f, top, sub

MCHostOf == [u \in Web |-> IF u = a THEN top ELSE sub]
MCUnder == {<<sub, top>>}
=============================================================================
