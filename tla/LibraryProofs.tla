---------------------------- MODULE LibraryProofs ----------------------------
(***************************************************************************)
(* Proofs about Library, for every value of its constants.                 *)
(*                                                                         *)
(* OneBookmarkPerPage is inductive as it stands: starring asks the table,  *)
(* never the star, so that it does not matter how far the star is behind;  *)
(* and what it makes without an answer is among the bookmarks it excepts.  *)
(***************************************************************************)
EXTENDS Library, FiniteSetTheorems, TLAPS

-----------------------------------------------------------------------------
(* What the two writes make of the table.                                   *)

LEMMA WithoutKeepsApart ==
  ASSUME OneBookmarkPerPage, NEW i, bookmarks' \in {bookmarks, Without(i)}, UnseenOf({})
  PROVE  OneBookmarkPerPage'
BY DEF OneBookmarkPerPage, Without, UnseenOf

\* The bookmark that is made is the only one of its page, or has not seen them.
LEMMA WithKeepsApart ==
  ASSUME OneBookmarkPerPage, NEW u, bookmarks' \in {bookmarks, With(u)},
         (IdsOf(u) = {} /\ UnseenOf({})) \/ UnseenOf({NewId})
  PROVE  OneBookmarkPerPage'
<1> DEFINE new == NewId
<1>1. With(u) = [j \in DOMAIN bookmarks \cup {new} |-> IF j = new THEN u ELSE bookmarks[j]]
  BY DEF With
<1>2. CASE IdsOf(u) = {} /\ UnseenOf({})
  <2> HIDE DEF new
  <2>1. \A j \in DOMAIN bookmarks : bookmarks[j] # u
    BY <1>2 DEF IdsOf
  <2> QED
    BY <1>1, <1>2, <2>1 DEF OneBookmarkPerPage, UnseenOf
<1>3. CASE UnseenOf({new})
  <2> HIDE DEF new
  <2> QED
    BY <1>1, <1>3 DEF OneBookmarkPerPage, UnseenOf
<1> QED
  BY <1>2, <1>3

LEMMA SameTable ==
  ASSUME OneBookmarkPerPage, UNCHANGED <<bookmarks, unseen>>
  PROVE  OneBookmarkPerPage'
BY DEF OneBookmarkPerPage

-----------------------------------------------------------------------------
(* Which commands write the table.                                          *)

ChangesBookmarks == ToggleBookmark \/ \E i \in 1..MaxRow : Unbookmark(i)

LEMMA ActivateReads ==
  ASSUME NEW t, NEW open, Activate(t, open)
  PROVE  UNCHANGED <<bookmarks, unseen>>
BY DEF Activate, Synced, Unsynced

LEMMA OthersRead ==
  ASSUME Next, ~ChangesBookmarks
  PROVE  UNCHANGED <<bookmarks, unseen>>
BY ActivateReads
DEF Next, ChangesBookmarks, Navigate, Reload, SubmitFails, Home, SwitchTab, CloseTab,
    NewTab, ShowBookmarks, ShowSettings, CycleHome, Synced, Unsynced

LEMMA StepKeepsApart == OneBookmarkPerPage /\ [Next]_vars => OneBookmarkPerPage'
<1> SUFFICES ASSUME OneBookmarkPerPage, [Next]_vars PROVE OneBookmarkPerPage'
  OBVIOUS
<1>1. CASE ToggleBookmark
  <2>1. CASE Unstar(Current.url)
    BY <2>1, WithoutKeepsApart DEF Unstar, Write
  <2>2. CASE IdsOf(Current.url) = {} /\ StarSeeing(Current.url)
    BY <2>2, WithKeepsApart DEF StarSeeing, Star, Write
  <2>3. CASE StarUnseeing(Current.url)
    BY <2>3, WithKeepsApart DEF StarUnseeing, Star, Write
  <2> QED
    BY <1>1, <2>1, <2>2, <2>3 DEF ToggleBookmark
<1>2. CASE \E i \in 1..MaxRow : Unbookmark(i)
  BY <1>2, WithoutKeepsApart DEF Unbookmark, Write
<1>3. CASE UNCHANGED vars
  BY <1>3, SameTable DEF vars
<1>4. CASE Next /\ ~ChangesBookmarks
  BY <1>4, OthersRead, SameTable
<1> QED
  BY <1>1, <1>2, <1>3, <1>4 DEF ChangesBookmarks

\* However often a page is starred, from whatever tab, with whatever the star
\* shows, the table (bookmarks.rs) has at most one row for it that was made by a
\* star that could read the table.
THEOREM BookmarksApart == Spec => []OneBookmarkPerPage
<1>1. Init => OneBookmarkPerPage
  BY DEF Init, OneBookmarkPerPage
<1> QED
  BY <1>1, StepKeepsApart, PTL DEF Spec

-----------------------------------------------------------------------------
(* The star and the bar.                                                    *)

\* One step, started with a true star and bar.
ChromeKept ==
  /\ bar' = ShownBar'
  /\ \/ starred' = ShownStar'
     \/ UNCHANGED active /\ \E u \in Docs : Reload(u)
     \/ active' # active /\ ~Current.loaded'

ChromeIsTrue == bar = ShownBar /\ starred = ShownStar

LEMMA SyncedKeeps == RefreshChrome => ChromeKept
BY DEF RefreshChrome, ChromeKept

LEMMA SameList == UNCHANGED <<bookmarks, unread>> => ShownBar' = ShownBar
BY DEF ShownBar, Listed

LEMMA SameStar == UNCHANGED <<tabs, active, bookmarks, unread>> => ShownStar' = ShownStar
BY DEF ShownStar, IsStarred, IdsOf, Current

LEMMA ActivateKeeps ==
  ASSUME ChromeIsTrue, NEW open, NEW t, Activate(t, open),
         open = tabs \/ t # active
  PROVE  ChromeKept
<1>1. CASE Synced
  BY <1>1, SyncedKeeps DEF Synced
<1>2. CASE ~open[t].loaded /\ tabs' = open /\ Unsynced
  <2>1. bar' = ShownBar' /\ starred' = starred /\ UNCHANGED <<bookmarks, unread>>
    BY <1>2, SameList DEF Unsynced, ChromeIsTrue
  <2>2. active' = t
    BY DEF Activate
  <2>3. CASE t # active
    BY <1>2, <2>1, <2>2, <2>3 DEF ChromeKept, Current
  <2>4. CASE t = active /\ open = tabs
    BY <1>2, <2>1, <2>2, <2>4, SameStar DEF ChromeKept, ChromeIsTrue
  <2> QED
    BY <2>3, <2>4
<1> QED
  BY <1>1, <1>2 DEF Activate

LEMMA StepKeepsChrome ==
  ASSUME ChromeIsTrue, [Next]_vars
  PROVE  ChromeKept
<1>1. CASE \E u \in Docs : Navigate(u)
  BY <1>1, SyncedKeeps DEF Navigate, Synced
<1>2. CASE \E u \in Docs : Reload(u)
  BY <1>2, SameList DEF Reload, Unsynced, ChromeKept, ChromeIsTrue
<1>3. CASE SubmitFails \/ ShowBookmarks \/ ShowSettings \/ \E t \in Tabs : NewTab(t)
  BY <1>3, SyncedKeeps DEF SubmitFails, ShowBookmarks, ShowSettings, NewTab, Synced
<1>4. CASE Home
  BY <1>4, SyncedKeeps DEF Home, Navigate, Synced
<1>5. CASE \E t \in DOMAIN tabs : SwitchTab(t)
  BY <1>5, ActivateKeeps DEF SwitchTab
<1>6. ASSUME NEW t \in DOMAIN tabs, CloseTab(t)
      PROVE  ChromeKept
  <2> DEFINE rest == [s \in DOMAIN tabs \ {t} |-> tabs[s]]
  <2>1. CASE Synced
    BY <2>1, SyncedKeeps DEF Synced
  <2>2. ASSUME NEW s \in DOMAIN rest, Activate(s, rest), t = active
        PROVE  ChromeKept
    BY <2>2, ActivateKeeps
  <2> QED
    BY <1>6, <2>1, <2>2 DEF CloseTab
<1>7. CASE ToggleBookmark \/ (\E i \in 1..MaxRow : Unbookmark(i)) \/ CycleHome
  BY <1>7, SyncedKeeps DEF ToggleBookmark, Unbookmark, CycleHome
<1>8. CASE UNCHANGED vars
  BY <1>8, SameList, SameStar DEF vars, ChromeKept, ChromeIsTrue
<1> QED
  BY <1>1, <1>2, <1>3, <1>4, <1>5, <1>6, <1>7, <1>8 DEF Next

\* From a true star and bar, every command (dispatch of browser_app.rs) leaves
\* a true bar, and a true star but for a reload that ends elsewhere and a lazy
\* load that fails; true to what its reads returned, which may have failed.
THEOREM ChromeTrue == Spec => ChromeStaysTrue
<1>1. [Next]_vars => (bar = ShownBar /\ starred = ShownStar => ChromeKept)
  BY StepKeepsChrome DEF ChromeIsTrue
<1> QED
  BY <1>1, PTL DEF Spec, ChromeStaysTrue, ChromeKept

-----------------------------------------------------------------------------
(* The bar by itself is never behind: what it needs is less than what the   *)
(* star needs, since no tab has a part in it.                               *)

BarTrue == bar = ShownBar

LEMMA BarStep == BarTrue /\ [Next]_vars => BarTrue'
<1> SUFFICES ASSUME bar = ShownBar, [Next]_vars PROVE bar' = ShownBar'
  BY DEF BarTrue
<1>1. CASE RefreshChrome
  BY <1>1 DEF RefreshChrome
<1>2. CASE UNCHANGED <<bar, bookmarks, unread>>
  BY <1>2, SameList
<1>3. ASSUME NEW t, NEW open, Activate(t, open)
      PROVE  RefreshChrome \/ UNCHANGED <<bar, bookmarks, unread>>
  BY <1>3 DEF Activate, Synced, Unsynced
<1>4. RefreshChrome \/ UNCHANGED <<bar, bookmarks, unread>>
  BY <1>3
  DEF Next, vars, Navigate, Reload, SubmitFails, Home, SwitchTab, CloseTab, NewTab,
      ShowBookmarks, ShowSettings, ToggleBookmark, Unbookmark, CycleHome, Synced, Unsynced
<1> QED
  BY <1>1, <1>2, <1>4

\* At every moment the bookmarks bar (bookmark_bar of browser_app.rs) lists the
\* bookmarks of the table, whatever else failed, or nothing, when the read for
\* it did.
THEOREM BarListsBookmarks == Spec => []BarTrue
<1>1. Init => BarTrue
  <2> SUFFICES ASSUME Init PROVE bar = ShownBar
    BY DEF BarTrue
  <2>1. DOMAIN bookmarks = {} /\ bar = <<>> /\ unread = {}
    BY DEF Init
  <2>2. Cardinality(DOMAIN bookmarks) = 0
    BY <2>1, FS_EmptySet
  <2> QED
    BY <2>1, <2>2 DEF Listed, ShownBar
<1> QED
  BY <1>1, BarStep, PTL DEF Spec

=============================================================================
