---------------------------- MODULE MCTabManager ----------------------------
(***************************************************************************)
(* TabManager on small instances.  The sessions are those a program whose  *)
(* strip was coherent can have stored: a blank tab, a tab showing an error *)
(* over its history, and loaded tabs in the middle and at the end of a     *)
(* two-entry history.                                                      *)
(***************************************************************************)
EXTENDS TabManager, TLC

CONSTANTS docA, docB, absent

MCUrls == {docA, docB}
MCRedirects == MCUrls \X MCUrls
MCReadBack == [u \in MCUrls |-> u]

Restored(u, n, h, i) == [url |-> u, scroll |-> n, history |-> h, history_index |-> i]

MCSessions ==
  {[tabs |-> <<Restored(u, 1, <<u, v>>, 1), Restored(v, 0, <<u, v>>, 2)>>,
    active_tab_index |-> 2] : u, v \in MCUrls}
  \cup {[tabs |-> <<Restored(NoUrl, 0, <<>>, 0), Restored(u, 1, <<v, u>>, 2)>>,
         active_tab_index |-> 1] : u, v \in MCUrls}
  \cup {[tabs |-> <<Restored(NoUrl, 0, <<u>>, 1)>>, active_tab_index |-> 1] :
          u \in MCUrls}

MCSymmetry == Permutations(MCUrls)
=============================================================================
