---------------------------- MODULE MCBrowserApp ----------------------------
(***************************************************************************)
(* BrowserApp on small instances: two documents of the web, one of them at *)
(* most written with white space that reading it back loses, and a file    *)
(* given as a relative path.                                               *)
(***************************************************************************)
EXTENDS BrowserApp, TLC

CONSTANTS docA, docB, relative, junk, absent

SpacedReadBack == (docA :> docA) @@ (docB :> docA) @@ (relative :> absent)

NoRedirects == {<<u, u>> : u \in Urls}
Web == Urls \ {relative}
AllRedirects == NoRedirects \cup (Web \X Web)
=============================================================================
