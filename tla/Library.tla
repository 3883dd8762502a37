-------------------------------- MODULE Library --------------------------------
(***************************************************************************)
(* Bookmarks and the home page as the browser shell keeps them             *)
(* (crates/mocha_desktop/src/browser_app.rs and profile.rs over            *)
(* crates/mocha_storage/src/bookmarks.rs): the table, the list of it that  *)
(* some tabs show, the star and the bookmarks bar, the home page setting.  *)
(* Reads and writes of the profile may fail, and neither is reported: a    *)
(* read that fails is taken for an empty answer.                           *)
(*                                                                         *)
(* TabManager has the tabs in detail; here a tab is the URL it reports and *)
(* the native view that covers it.  The lists of history and downloads     *)
(* only lead to URLs and are left out with the other settings.             *)
(***************************************************************************)
EXTENDS Integers, SequencesExt

CONSTANTS
  Docs, NoUrl,
  Tabs,      \* the tabs that may be open
  MaxRow     \* bound: the largest id of a bookmark

ASSUME LibraryAssumption == NoUrl \notin Docs /\ MaxRow \in Nat

VARIABLES
  tabs,       \* the open tabs and what they show
  active,
  bookmarks,  \* rows of the table: URLs by id
  home,       \* the setting home_url; NoUrl is the new-tab page
  starred,    \* current_bookmarked
  bar,        \* bookmark_bar: URLs in order
  unseen,     \* history: the bookmarks made by a star that could not read the table
  unread      \* history: which reads of the last refresh of the chrome failed

vars == <<tabs, active, bookmarks, home, starred, bar, unseen, unread>>

\* A document, loaded or restored and not yet loaded.
Showing(u) == [view |-> "none", url |-> u, loaded |-> TRUE, history |-> TRUE]
Unloaded(u) == [Showing(u) EXCEPT !.loaded = FALSE]

\* A native view has no URL and, but for the error page, clears the history of
\* its tab.
Native(view) == [view |-> view, url |-> NoUrl, loaded |-> TRUE, history |-> FALSE]

\* Each row carries the id of its bookmark.
BookmarksView(rows) ==
  [view |-> "bookmarks", url |-> NoUrl, loaded |-> TRUE, history |-> FALSE, rows |-> rows]

Current == tabs[active]

-----------------------------------------------------------------------------
(* The profile.                                                             *)

\* A write happens or fails.
Write(rows) == bookmarks' \in {bookmarks, rows}

\* BrowserProfile::bookmarks: the rows, or none when the read fails.
ReadRows == {bookmarks, <<>>}

\* home_url: the setting, or the new-tab page when the read fails.
ReadHome == {home, NoUrl}

\* The history variable follows the table, which uses ids again.
UnseenOf(new) == unseen' = (unseen \cup new) \cap DOMAIN bookmarks'

IdsOf(u) == {i \in DOMAIN bookmarks : bookmarks[i] = u}

Without(i) == [j \in DOMAIN bookmarks \ {i} |-> bookmarks[j]]

\* SQLite gives a new row the id after the largest in use.
NewId == Max(DOMAIN bookmarks \cup {0}) + 1

With(u) == [j \in DOMAIN bookmarks \cup {NewId} |-> IF j = NewId THEN u ELSE bookmarks[j]]

\* list_bookmarks, in the order in which they were made.
Listed ==
  LET Row(k) == CHOOSE i \in DOMAIN bookmarks : Cardinality({j \in DOMAIN bookmarks : j <= i}) = k
  IN  [k \in 1..Cardinality(DOMAIN bookmarks) |-> bookmarks[Row(k)]]

-----------------------------------------------------------------------------
(* The chrome.                                                              *)

IsStarred == Current.url # NoUrl /\ IdsOf(Current.url) # {}

\* What the chrome is to show, when some of the two reads it takes fail.
ShownStar == IsStarred /\ "star" \notin unread
ShownBar == IF "bar" \in unread THEN <<>> ELSE Listed

\* refresh_chrome_state: the table is read for the star, if there is a URL to
\* look for, and read again for the bar.
RefreshChrome ==
  /\ unread' \in SUBSET {"star", "bar"}
  /\ Current'.url = NoUrl => "star" \notin unread'
  /\ starred' = ShownStar' /\ bar' = ShownBar'

\* A command that changes the active tab's contents, and no bookmark.
Shows(t, c) == tabs' = [tabs EXCEPT ![t] = c]

Synced == UNCHANGED <<bookmarks, home, unseen>> /\ RefreshChrome
Unsynced == UNCHANGED <<starred, bar, unread, bookmarks, home, unseen>>

-----------------------------------------------------------------------------
(* Commands.                                                                *)

\* A navigation, back or forward that succeeds, wherever it ends.
Navigate(u) == Shows(active, Showing(u)) /\ UNCHANGED active /\ Synced

\* Enter on a URL that cannot be loaded.
SubmitFails ==
  /\ Shows(active, [Native("error") EXCEPT !.history = Current.history])
  /\ UNCHANGED active /\ Synced

\* A reload may be redirected; behind an error page it loads the entry of the
\* history. Nobody tells the chrome.
Reload(u) ==
  /\ Current.history
  /\ Shows(active, Showing(u)) /\ UNCHANGED active /\ Unsynced

\* Activate t, which may have to be loaded first, or cannot be.
Activate(t, open) ==
  /\ active' = t
  /\ \/ open[t].loaded /\ tabs' = open /\ Synced
     \/ /\ ~open[t].loaded
        /\ \/ \E u \in Docs : tabs' = [open EXCEPT ![t] = Showing(u)] /\ Synced
           \/ tabs' = open /\ Unsynced

SwitchTab(t) == Activate(t, tabs)

Opened(t) == [s \in DOMAIN tabs \cup {t} |-> IF s = t THEN Native("new_tab") ELSE tabs[s]]

\* Mutant of NewTab: the chrome is not told.
NewTabUnsynced(t) == t \notin DOMAIN tabs /\ tabs' = Opened(t) /\ active' = t /\ Unsynced

NewTab(t) == t \notin DOMAIN tabs /\ tabs' = Opened(t) /\ active' = t /\ Synced

\* The neighbour that becomes active is left open; the last tab becomes a new one.
CloseTab(t) ==
  LET rest == [s \in DOMAIN tabs \ {t} |-> tabs[s]] IN
  IF DOMAIN rest = {} THEN Shows(t, Native("new_tab")) /\ UNCHANGED active /\ Synced
  ELSE IF t # active THEN tabs' = rest /\ UNCHANGED active /\ Synced
  ELSE \E s \in DOMAIN rest : Activate(s, rest)

ShowBookmarks ==
  /\ \E rows \in ReadRows : Shows(active, BookmarksView(rows))
  /\ UNCHANGED active /\ Synced

ShowSettings ==
  Shows(active, Native("settings")) /\ UNCHANGED active /\ Synced

\* The home button: the new-tab page, or the page that is set, which may fail.
Home ==
  \E page \in ReadHome :
    \/ page = NoUrl /\ Shows(active, Native("new_tab")) /\ UNCHANGED active /\ Synced
    \/ page # NoUrl /\ \E u \in Docs : Navigate(u)

\* The two ends of the star: the oldest bookmark of the page is removed, or one
\* is made, seeing that there is none or not seeing the table.
Unstar(u) ==
  \E i \in IdsOf(u) : (\A j \in IdsOf(u) : i <= j) /\ Write(Without(i)) /\ UnseenOf({})

Star(u) == NewId <= MaxRow /\ Write(With(u))

StarSeeing(u) == Star(u) /\ UnseenOf({})
StarUnseeing(u) == Star(u) /\ UnseenOf({NewId})

\* Mutant of ToggleBookmark: whether there is one is read off the star.
ToggleBookmarkByStar ==
  /\ Current.url # NoUrl
  /\ \/ starred /\ Unstar(Current.url)
     \/ ~starred /\ StarSeeing(Current.url)
     \/ StarUnseeing(Current.url)
  /\ UNCHANGED <<tabs, active, home>> /\ RefreshChrome

\* The star, on a page: it acts on the table, whatever it shows itself; when
\* the table cannot be read it makes a bookmark.
ToggleBookmark ==
  /\ Current.url # NoUrl
  /\ \/ IdsOf(Current.url) # {} /\ Unstar(Current.url)
     \/ IdsOf(Current.url) = {} /\ StarSeeing(Current.url)
     \/ StarUnseeing(Current.url)
  /\ UNCHANGED <<tabs, active, home>> /\ RefreshChrome

\* A click on the action of a row: its id is deleted and the view made anew.
Unbookmark(i) ==
  /\ Current.view = "bookmarks" /\ i \in DOMAIN Current.rows
  /\ Write(Without(i)) /\ UnseenOf({})
  /\ \E rows \in ReadRows' : Shows(active, BookmarksView(rows))
  /\ UNCHANGED <<active, home>> /\ RefreshChrome

\* What the home page becomes: the page that the active tab shows, or none.
NextHome(page) == IF page = NoUrl THEN Current.url ELSE NoUrl

\* A click on the row of the home page in the settings view.
CycleHome ==
  /\ Current.view = "settings"
  /\ \E page \in ReadHome : home' \in {home, NextHome(page)}
  /\ UNCHANGED <<tabs, active, bookmarks, unseen>> /\ RefreshChrome

\* The browser starts with a restored session, of which one tab is loaded.  The
\* profile may name a home page, though no command of this shell sets one.
Init ==
  /\ active \in Tabs
  /\ \E open \in SUBSET Tabs, u \in Docs :
       /\ active \in open
       /\ tabs = [t \in open |-> IF t = active THEN Showing(u) ELSE Unloaded(u)]
  /\ bookmarks = <<>> /\ home \in Docs \cup {NoUrl}
  /\ starred = FALSE /\ bar = <<>>
  /\ unseen = {} /\ unread = {}

Next ==
  \/ \E u \in Docs : Navigate(u) \/ Reload(u)
  \/ SubmitFails \/ Home
  \/ \E t \in DOMAIN tabs : SwitchTab(t) \/ CloseTab(t)
  \/ \E t \in Tabs : NewTab(t)
  \/ ShowBookmarks \/ ShowSettings
  \/ ToggleBookmark \/ \E i \in 1..MaxRow : Unbookmark(i)
  \/ CycleHome

Spec == Init /\ [][Next]_vars

-----------------------------------------------------------------------------
(* Properties.                                                              *)

\* However often a page is starred, with a star that may be behind, from tabs
\* with lists that may be older, it has at most one bookmark made by a star
\* that could read the table.  One that could not makes another beside it
\* (toggle_bookmark, where no read is no bookmark, and the table has no
\* constraint): nothing else makes a second.
OneBookmarkPerPage ==
  \A i, j \in DOMAIN bookmarks \ unseen : bookmarks[i] = bookmarks[j] => i = j

\* The bookmarks bar lists the bookmarks there are, and the star tells whether
\* the active page has one; if the read for it fails, the bar is empty and the
\* star off until the next refresh.  The star falls behind otherwise in two
\* ways only: a reload that ends at another page, and a lazy load that fails
\* while switching to its tab or closing into it.
ChromeStaysTrue ==
  [][bar = ShownBar /\ starred = ShownStar =>
       /\ bar' = ShownBar'
       /\ \/ starred' = ShownStar'
          \/ UNCHANGED active /\ \E u \in Docs : Reload(u)
          \/ active' # active /\ ~Current.loaded']_vars

-----------------------------------------------------------------------------
(* A statement of the source that does not hold.                            *)

\* A row has "A per-row action id" (tab.rs): running it removes the bookmark of
\* that row or nothing.  Ids are used again, and a list that stays in its tab
\* while bookmarks are removed and made elsewhere names others by them.
ActionOfItsRow ==
  [][\A i \in 1..MaxRow : Unbookmark(i) /\ bookmarks' # bookmarks =>
       bookmarks[i] = Current.rows[i]]_vars
=============================================================================
