----------------------------- MODULE TabManager -----------------------------
(***************************************************************************)
(* The tab strip of mocha_desktop (crates/mocha_desktop/src/tab.rs): a     *)
(* sequence of tabs, each with its own page and back/forward history, and  *)
(* the id of the active one.                                               *)
(*                                                                         *)
(* A URL stands for its normalized() form, which is what is loaded and      *)
(* stored: ReadBack is what parsing it again gives.  Loading a document is *)
(* synchronous, so an operation is one atomic step, but it may fail, may   *)
(* follow redirects and yields a document of any height: `room' is how far *)
(* the rendered page can scroll (max_scroll).  Titles, the scroll offset   *)
(* of native views and what a page draws are left out.                     *)
(***************************************************************************)
EXTENDS Integers, FiniteSets, SequencesExt

CONSTANTS
  Urls,         \* the documents the user can name
  ReadBack,     \* the URL its normalized form parses to: NoUrl for a relative
                \* file path, whose `file://rel/path' is rejected; another URL
                \* where white space at the end is trimmed; else the same
  Redirects,    \* <<u, f>>: a load of u may end at f
  NoUrl,        \* url: None
  Rooms,        \* the values max_scroll takes
  NoScroll,     \* pending_scroll: None
  Sessions,     \* the parsed sessions the program may start from
  MaxTabs,      \* bound: no tab is opened beyond this many
  MaxIds,       \* bound: ids are below this number
  MaxHistory    \* bound: no tab's history grows beyond this length

MaybeUrl == Urls \cup {NoUrl}
MaybeScroll == Rooms \cup {NoScroll}

\* What restore hands to build_restored_tab for one tab.
RestoredTab == [url : MaybeUrl, scroll : Rooms,
                history : Seq(Urls), history_index : Nat]

ASSUME ConstantsAssumption ==
  /\ NoUrl \notin Urls
  /\ ReadBack \in [Urls -> MaybeUrl]
  /\ \A u \in Urls : ReadBack[u] # NoUrl => ReadBack[ReadBack[u]] = ReadBack[u]
  /\ Redirects \subseteq Urls \X Urls
  /\ \A r \in Redirects : NoUrl \in {ReadBack[r[1]], ReadBack[r[2]]} => r[1] = r[2]
  /\ Rooms \subseteq Nat /\ 0 \in Rooms
  /\ NoScroll \notin Rooms
  /\ MaxTabs \in Nat /\ MaxIds \in Nat /\ MaxHistory \in Nat

ASSUME SessionsAssumption ==
  \A s \in Sessions : /\ s.tabs \in Seq(RestoredTab) /\ s.tabs # <<>>
                      /\ s.active_tab_index \in Nat \ {0}

VARIABLES
  tabs,         \* the strip, left to right
  active_tab,   \* the id of the active tab
  next_tab_id   \* the next id to hand out

vars == <<tabs, active_tab, next_tab_id>>

-----------------------------------------------------------------------------
(* Tabs.  A page is the document rendered in the tab, NoUrl for the         *)
(* placeholder behind a native view, which fits every window.               *)
(* history_index counts from 1; 0 is None.                                  *)

Page == [doc : MaybeUrl, room : Rooms, scroll : Rooms]

Fresh(d, r) == [doc |-> d, room |-> r, scroll |-> 0]
Placeholder == Fresh(NoUrl, 0)

BrowserTab ==
  [id : Nat, page : Page, url : MaybeUrl, history : Seq(Urls),
   history_index : Nat, needs_reload : BOOLEAN, pending_scroll : MaybeScroll,
   internal_view : {"none", "new_tab", "load_error", "list"}]

BlankTab(id, view) ==
  [id |-> id, page |-> Placeholder, url |-> NoUrl, history |-> <<>>,
   history_index |-> 0, needs_reload |-> FALSE, pending_scroll |-> NoScroll,
   internal_view |-> view]

LoadedTab(id, f, r) ==
  [BlankTab(id, "none") EXCEPT
     !.page = Fresh(f, r), !.url = f, !.history = <<f>>, !.history_index = 1]

\* Mutant of UnloadedTab: the index is compared off by one.
UnloadedTabOffByOne(id, s) ==
  [BlankTab(id, "new_tab") EXCEPT
     !.url = s.url, !.history = s.history,
     !.history_index = IF s.history_index < Len(s.history) THEN s.history_index ELSE 0,
     !.needs_reload = s.url # NoUrl,
     !.pending_scroll = s.scroll]

\* A restored tab is metadata over the placeholder: a URL without a history
\* seeds one, and an index beyond the history is dropped.
UnloadedTab(id, s) ==
  LET seeded == s.history = <<>> /\ s.url # NoUrl
      h == IF seeded THEN <<s.url>> ELSE s.history
      i == IF seeded THEN 1 ELSE s.history_index
  IN  [BlankTab(id, "new_tab") EXCEPT
         !.url = s.url, !.history = h,
         !.history_index = IF i \in DOMAIN h THEN i ELSE 0,
         !.needs_reload = s.url # NoUrl,
         !.pending_scroll = s.scroll]

\* Where a load of u given as typed (Load) or as a Url (Landings) may end; it
\* may always fail instead.  A Url is loaded through its normalized form.
Load(u) == {f \in Urls : <<u, f>> \in Redirects}
Landings(u) == Load(ReadBack[u])

\* page.navigate followed by set_current: a fresh page at the top, and any
\* native view gone.
Shown(t, f, r) ==
  [t EXCEPT !.page = Fresh(f, r), !.url = f, !.internal_view = "none"]

\* Mutant of Navigated: the forward entries are not truncated.
NavigatedKeepsForward(t, f, r) ==
  LET h == Append(t.history, f)
  IN  [Shown(t, f, r) EXCEPT !.history = h, !.history_index = Len(h),
                             !.needs_reload = FALSE]

Navigated(t, f, r) ==
  LET h == Append(SubSeq(t.history, 1, t.history_index), f)
  IN  [Shown(t, f, r) EXCEPT !.history = h, !.history_index = Len(h),
                             !.needs_reload = FALSE]

\* Mutant of MovedTo: the entry keeps the URL it had before the redirect.
MovedToStaleEntry(t, i, f, r) == [Shown(t, f, r) EXCEPT !.history_index = i]

\* go_back and go_forward: entry i becomes the current one, and records where
\* its load really ended.
MovedTo(t, i, f, r) ==
  [Shown(t, f, r) EXCEPT !.history[i] = f, !.history_index = i]

Clamp(n, r) == IF n > r THEN r ELSE n
ScrolledTo(p, n) == [p EXCEPT !.scroll = Clamp(n, p.room)]

\* The tail of reload: the tab is loaded, and a saved scroll offset reapplied.
Settled(t) ==
  [t EXCEPT !.needs_reload = FALSE,
            !.page = IF t.pending_scroll = NoScroll
                       THEN @ ELSE ScrolledTo(@, t.pending_scroll),
            !.pending_scroll = NoScroll]

\* reload with a current entry, and the outcomes of reload in general: none
\* when the load fails.
Refreshed(t, f, r) ==
  Settled([Shown(t, f, r) EXCEPT !.history[t.history_index] = f])

Reloads(t) ==
  IF t.history_index = 0 THEN {Settled(t)}
  ELSE {Refreshed(t, f, r) : f \in Landings(t.history[t.history_index]), r \in Rooms}

\* ensure_loaded: a failed load leaves the tab as it was, still unloaded.
EnsureLoaded(t) ==
  IF ~t.needs_reload THEN {t}
  ELSE IF t.history_index = 0 THEN {[t EXCEPT !.needs_reload = FALSE]}
  ELSE {t} \cup Reloads(t)

\* The placeholder page under a native view; history and flags stay.
Covered(t, view) ==
  [t EXCEPT !.page = Placeholder, !.url = NoUrl, !.internal_view = view]

\* show_native and show_new_tab_page also forget the history.
Cleared(t, view) ==
  [Covered(t, view) EXCEPT !.history = <<>>, !.history_index = 0,
                           !.needs_reload = FALSE]

-----------------------------------------------------------------------------
(* Managers: how the program builds its tab strip when it starts.           *)

Manager(ts, a, n) == [tabs |-> ts, active_tab |-> a, next_tab_id |-> n]

NewManager == Manager(<<BlankTab(0, "new_tab")>>, 0, 1)
LoadedManager(f, r) == Manager(<<LoadedTab(0, f, r)>>, 0, 1)
ErrorManager == Manager(<<BlankTab(0, "load_error")>>, 0, 1)

\* restore: every tab unloaded, then the active one loaded at once.  When that
\* load fails restore returns an error and there is no manager.
RestoredManagers(s) ==
  LET n == Len(s.tabs)
      a == Clamp(s.active_tab_index, n)
      unloaded(k) == UnloadedTab(k - 1, s.tabs[k])
  IN  {Manager([k \in 1..n |-> IF k = a THEN t ELSE unloaded(k)], a - 1, n) :
         t \in {u \in EnsureLoaded(unloaded(a)) : ~u.needs_reload}}

InitialManagers ==
  UNION {{NewManager, ErrorManager},
         {LoadedManager(r[2], room) : r \in Redirects, room \in Rooms},
         UNION {RestoredManagers(s) : s \in Sessions}}

Init ==
  \E m \in InitialManagers :
    /\ tabs = m.tabs
    /\ active_tab = m.active_tab
    /\ next_tab_id = m.next_tab_id

-----------------------------------------------------------------------------
(* Operations.                                                              *)

Active == CHOOSE i \in DOMAIN tabs : tabs[i].id = active_tab
Current == tabs[Active]

CanGoBack == Current.history_index > 1
CanGoForward == Current.history_index \in 1..(Len(Current.history) - 1)

CanOpen == Len(tabs) < MaxTabs /\ next_tab_id < MaxIds

\* new_tab and open_native_tab: a tab at the right end, activated.
OpenTab(t) ==
  /\ CanOpen
  /\ tabs' = Append(tabs, t)
  /\ active_tab' = next_tab_id
  /\ next_tab_id' = next_tab_id + 1

NewTab == OpenTab(BlankTab(next_tab_id, "new_tab"))
OpenNativeTab == OpenTab(BlankTab(next_tab_id, "list"))

\* open_in_new_tab: a failed load has already used up an id.
OpenInNewTab(u) ==
  \/ \E f \in Load(u), r \in Rooms : OpenTab(LoadedTab(next_tab_id, f, r))
  \/ CanOpen /\ next_tab_id' = next_tab_id + 1 /\ UNCHANGED <<tabs, active_tab>>

\* switch_tab: the tab becomes active before it is loaded, and stays active
\* when the load fails.
SwitchTab(i) ==
  /\ active_tab' = tabs[i].id
  /\ \E t \in EnsureLoaded(tabs[i]) : tabs' = [tabs EXCEPT ![i] = t]
  /\ UNCHANGED next_tab_id

\* close_tab, in its three cases: the last tab is replaced by a fresh one; the
\* active tab hands over to its right neighbour, else its left one, which is
\* loaded; any other tab just goes.
CloseLastTab ==
  /\ Len(tabs) = 1 /\ next_tab_id < MaxIds
  /\ tabs' = <<BlankTab(next_tab_id, "new_tab")>>
  /\ active_tab' = next_tab_id
  /\ next_tab_id' = next_tab_id + 1

\* A mutant of CloseActiveTab: the neighbour is looked up in the old strip.
CloseActiveTabOldStrip(i) ==
  /\ Len(tabs) > 1 /\ tabs[i].id = active_tab
  /\ LET rest == RemoveAt(tabs, i)
         j == Clamp(i, Len(rest))
     IN  /\ active_tab' = tabs[j].id
         /\ \E t \in EnsureLoaded(rest[j]) : tabs' = [rest EXCEPT ![j] = t]
  /\ UNCHANGED next_tab_id

CloseActiveTab(i) ==
  /\ Len(tabs) > 1 /\ tabs[i].id = active_tab
  /\ LET rest == RemoveAt(tabs, i)
         j == Clamp(i, Len(rest))
     IN  /\ active_tab' = rest[j].id
         /\ \E t \in EnsureLoaded(rest[j]) : tabs' = [rest EXCEPT ![j] = t]
  /\ UNCHANGED next_tab_id

CloseOtherTab(i) ==
  /\ tabs[i].id # active_tab
  /\ tabs' = RemoveAt(tabs, i)
  /\ UNCHANGED <<active_tab, next_tab_id>>

CloseTab(i) == (i = 1 /\ CloseLastTab) \/ CloseActiveTab(i) \/ CloseOtherTab(i)

\* move_tab: the tab at i is taken out and put back at place j.
MoveTab(i, j) ==
  /\ i # j
  /\ tabs' = InsertAt(RemoveAt(tabs, i), j, tabs[i])
  /\ UNCHANGED <<active_tab, next_tab_id>>

\* resize re-lays out every page at its new width.
Relaid(p) ==
  {ScrolledTo([p EXCEPT !.room = r], p.scroll) :
     r \in IF p.doc = NoUrl THEN {0} ELSE Rooms}

Resize ==
  /\ \E page \in [DOMAIN tabs -> Page] :
       /\ \A i \in DOMAIN tabs : page[i] \in Relaid(tabs[i].page)
       /\ tabs' = [i \in DOMAIN tabs |-> [tabs[i] EXCEPT !.page = page[i]]]
  /\ UNCHANGED <<active_tab, next_tab_id>>

\* A mutant of Replace: the operation works on the first slot of the strip.
ReplaceFirstSlot(t) ==
  /\ tabs' = [tabs EXCEPT ![1] = [t EXCEPT !.id = tabs[1].id]]
  /\ UNCHANGED <<active_tab, next_tab_id>>

\* Every other operation replaces the active tab only.
Replace(t) ==
  /\ tabs' = [tabs EXCEPT ![Active] = t]
  /\ UNCHANGED <<active_tab, next_tab_id>>

NavigateActive(u) ==
  /\ Current.history_index < MaxHistory
  /\ \E f \in Landings(u), r \in Rooms : Replace(Navigated(Current, f, r))

BackActive ==
  /\ CanGoBack
  /\ LET i == Current.history_index - 1
     IN  \E f \in Landings(Current.history[i]), r \in Rooms :
           Replace(MovedTo(Current, i, f, r))

ForwardActive ==
  /\ CanGoForward
  /\ LET i == Current.history_index + 1
     IN  \E f \in Landings(Current.history[i]), r \in Rooms :
           Replace(MovedTo(Current, i, f, r))

ReloadActive == \E t \in Reloads(Current) : Replace(t)

ShowErrorOnActive == Replace(Covered(Current, "load_error"))
HomeActive == Replace(Cleared(Current, "new_tab"))
ShowNativeOnActive == Replace(Cleared(Current, "list"))

\* Wheel input to a rendered page.
ScrollActive ==
  /\ Current.internal_view = "none"
  /\ \E n \in Rooms : Replace([Current EXCEPT !.page = ScrolledTo(@, n)])

Next ==
  \/ NewTab \/ OpenNativeTab
  \/ \E u \in Urls : OpenInNewTab(u) \/ NavigateActive(u)
  \/ \E i \in DOMAIN tabs :
       SwitchTab(i) \/ CloseTab(i) \/ \E j \in DOMAIN tabs : MoveTab(i, j)
  \/ BackActive \/ ForwardActive \/ ReloadActive
  \/ ShowErrorOnActive \/ HomeActive \/ ShowNativeOnActive
  \/ Resize \/ ScrollActive

Spec == Init /\ [][Next]_vars

-----------------------------------------------------------------------------
(* Properties.                                                              *)

\* Every field has its type, a page is never scrolled past its end, and the
\* cursor of a history lies inside it.
WellFormed(t) ==
  /\ t \in BrowserTab
  /\ t.page.scroll <= t.page.room
  /\ t.history_index \in 0..Len(t.history)

TypeOK ==
  /\ tabs \in Seq(BrowserTab)
  /\ \A i \in DOMAIN tabs : WellFormed(tabs[i])
  /\ active_tab \in Nat
  /\ next_tab_id \in Nat

\* The active id always names an open tab, and only one: active_index() never
\* panics and no other tab answers to the id (tabs-and-session.md, "Invariants
\* the manager guarantees").  It needs ids never to be handed out twice.
UniqueActiveTab ==
  /\ \E i \in DOMAIN tabs : tabs[i].id = active_tab
  /\ \A i \in DOMAIN tabs : tabs[i].id < next_tab_id
  /\ \A i, j \in DOMAIN tabs : tabs[i].id = tabs[j].id => i = j

\* What a tab says, shows and remembers agree: the URL in the address bar is
\* the current history entry, and the document on screen is the one at that
\* URL, through redirects, failed loads, native views and lazy loading.
TabAgrees(t) ==
  /\ t.url # NoUrl => t.history_index # 0 /\ t.history[t.history_index] = t.url
  /\ t.page.doc # NoUrl => t.page.doc = t.url
  /\ t.page.doc # NoUrl <=> t.internal_view = "none"

PageUrlHistoryAgree == \A i \in DOMAIN tabs : TabAgrees(tabs[i])

\* A tab waiting to be loaded has something to load, so activating it cannot
\* leave it waiting for good: ensure_loaded always finds a current entry.
TabLoadable(t) == t.needs_reload => t.history_index # 0

UnloadedTabsLoadable == \A i \in DOMAIN tabs : TabLoadable(tabs[i])

TabById(ts, id) == {ts[i] : i \in {k \in DOMAIN ts : ts[k].id = id}}

\* Tabs are independent: no operation but a resize changes a tab that is
\* active neither before nor after it, whatever moves or closes around it
\* (tabs-and-session.md: "back/forward in A do not affect B").
BackgroundTabsUntouched ==
  [][\/ \A id \in 0..(next_tab_id - 1) \ {active_tab, active_tab'} :
          TabById(tabs', id) \in {TabById(tabs, id), {}}
     \/ Resize]_vars

\* Each tab keeps its own session history, from the time its id is handed out
\* to the time it is closed: back and forward move by one entry, a navigation
\* drops the forward entries only, a reload changes the current entry at most.
IsOpen(id) == \E i \in DOMAIN tabs : tabs[i].id = id
TabOf(id) == tabs[CHOOSE i \in DOMAIN tabs : tabs[i].id = id]

TabHistory(id) ==
  INSTANCE SessionHistory WITH
    Docs <- Urls,
    entries <- IF IsOpen(id) THEN TabOf(id).history ELSE <<>>,
    cursor <- IF IsOpen(id) THEN TabOf(id).history_index ELSE 0

\* TabHistory(id)!Spec for every id there is, in a form TLC evaluates.
TabsImplementSessionHistory ==
  /\ \A id \in 0..next_tab_id : TabHistory(id)!Init
  /\ [][\A id \in 0..next_tab_id :
         UNCHANGED TabHistory(id)!history \/ TabHistory(id)!Next]_vars

=============================================================================
