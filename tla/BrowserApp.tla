----------------------------- MODULE BrowserApp -----------------------------
(***************************************************************************)
(* The desktop browser (crates/mocha_desktop/src/browser_app.rs, driven by *)
(* window.rs): the tab strip of TabManager under an address bar, keyboard  *)
(* focus that is on the bar or on the page, and a session saved in the     *)
(* profile, from which the next launch restores the strip.                 *)
(*                                                                         *)
(* The event loop is one thread, so an input event is one step.  Saving is *)
(* best effort: its errors are swallowed, so a save may leave the stored   *)
(* session as it was.  The program may be killed between any two steps.    *)
(* The other stores of the profile, the menu and drawing are left out; the *)
(* preference to restore is free at every launch.                          *)
(***************************************************************************)
EXTENDS Integers, FiniteSets, SequencesExt

CONSTANTS
  Urls, ReadBack, Redirects, NoUrl, Rooms, NoScroll, MaxTabs, MaxIds, MaxHistory,
  Typed,        \* what the user may type into the bar
  Suggested,    \* the URLs the profile offers as suggestions
  Junk,         \* typed text that resolve_query turns into no URL
  NoSession     \* nothing stored

ASSUME BarAssumption ==
  /\ NoUrl \notin Urls /\ Junk \notin Urls \cup {NoUrl}
  /\ Typed \subseteq Urls \cup {Junk} /\ Suggested \subseteq Urls
  /\ ReadBack \in [Urls -> Urls \cup {NoUrl}] /\ Redirects \subseteq Urls \X Urls

VARIABLES
  tabs, active_tab, next_tab_id,  \* the strip
  program,      \* whether a window is open, and whether the launch failed
  bar,          \* the address bar: current_url, draft_text, focused
  focus,        \* where keyboard input goes
  dragging,     \* whether the mouse holds a tab
  stored,       \* the session in the profile database
  strip_saved,  \* history: the last change of strip or active tab was saved
  dropped       \* history: some restore has dropped an entry of a history

strip == <<tabs, active_tab, next_tab_id>>
vars == <<strip, program, bar, focus, dragging, stored, strip_saved, dropped>>

Strip == INSTANCE TabManager WITH Sessions <- {}

ASSUME StripAssumption == Strip!ConstantsAssumption

Running == program = "running"

-----------------------------------------------------------------------------
(* The stored session.                                                      *)

SessionTab(t) ==
  [url |-> t.url, scroll |-> t.page.scroll, history |-> t.history,
   history_index |-> t.history_index]

Snapshot ==
  [tabs |-> [i \in DOMAIN tabs |-> SessionTab(tabs[i])],
   active_tab_index |-> Strip!Active]

\* What restore reads of a stored session: URLs that do not parse are dropped,
\* the cursor stays where it was.
Kept(h) == {i \in DOMAIN h : ReadBack[h[i]] # NoUrl}
PlaceOfKept(h, i) == Cardinality({j \in Kept(h) : j <= i})

\* Mutant of ParsedHistory: what is restored is the entries as they were written.
ParsedHistoryAsWritten(h) == SelectSeq(h, LAMBDA u : ReadBack[u] # NoUrl)

ParsedHistory(h) ==
  [k \in 1..Cardinality(Kept(h)) |->
     ReadBack[h[CHOOSE i \in Kept(h) : PlaceOfKept(h, i) = k]]]

ParsedTab(t) ==
  [t EXCEPT !.url = IF @ = NoUrl THEN NoUrl ELSE ReadBack[@],
            !.history = ParsedHistory(@)]

Parsed(s) ==
  [tabs |-> [i \in DOMAIN s.tabs |-> ParsedTab(s.tabs[i])],
   active_tab_index |-> s.active_tab_index]

Drops(s) == \E i \in DOMAIN s.tabs : Kept(s.tabs[i].history) # DOMAIN s.tabs[i].history

\* persist_session
Persist ==
  \/ stored' = Snapshot' /\ strip_saved' = TRUE
  \/ stored' = stored /\ strip_saved' = FALSE

-----------------------------------------------------------------------------
(* The address bar.  A draft is the text of a URL, typed text, or empty:    *)
(* NoUrl.                                                                   *)

Drafts == Urls \cup Typed \cup {NoUrl, Junk}

BarShowing(u) == [url |-> u, draft |-> u, focused |-> FALSE]

\* sync_address_bar
SyncAddressBar ==
  /\ bar' = BarShowing(Strip!Current.url')
  /\ focus' = "page"

\* resolve_query: the normalized form of a relative path is not a URL.
Resolves(d) == d \in Urls /\ ReadBack[d] # NoUrl

-----------------------------------------------------------------------------
(* Launching and leaving.                                                   *)

Open(m, b) ==
  /\ ~Running
  /\ program' = "running"
  /\ tabs' = m.tabs /\ active_tab' = m.active_tab /\ next_tab_id' = m.next_tab_id
  /\ bar' = b
  /\ focus' = "page"
  /\ dragging' = FALSE
  /\ UNCHANGED stored

\* launch with a target: load_or_error_page
LaunchTarget(u) ==
  /\ \/ \E f \in Strip!Load(u), r \in Rooms :
          Open(Strip!LoadedManager(f, r), BarShowing(f))
     \/ Open(Strip!ErrorManager, [BarShowing(NoUrl) EXCEPT !.draft = u])
  /\ strip_saved' = FALSE /\ UNCHANGED dropped

LaunchBlank ==
  /\ Open(Strip!NewManager, BarShowing(NoUrl))
  /\ strip_saved' = FALSE /\ UNCHANGED dropped

\* launch without one: the stored session is restored, which fails when its
\* active tab cannot be loaded.
ManagerUrl(m) == m.tabs[CHOOSE i \in DOMAIN m.tabs : m.tabs[i].id = m.active_tab].url

LaunchRestored ==
  /\ stored # NoSession
  /\ \E m \in Strip!RestoredManagers(Parsed(stored)) : Open(m, BarShowing(ManagerUrl(m)))
  /\ strip_saved' = TRUE
  /\ dropped' = (dropped \/ Drops(stored))

LaunchFails ==
  /\ ~Running /\ stored # NoSession
  /\ LET s == Parsed(stored)
         t == Strip!UnloadedTab(0, s.tabs[s.active_tab_index])
     IN  \E u \in Strip!EnsureLoaded(t) : u.needs_reload
  /\ program' = "failed"
  /\ UNCHANGED <<strip, bar, focus, dragging, stored, strip_saved, dropped>>

\* The end of run: the session is saved.  A crash is the case where it is not.
Leave ==
  /\ Running
  /\ program' = "stopped"
  /\ stored' \in {stored, Snapshot}
  /\ tabs' = <<>> /\ active_tab' = 0 /\ next_tab_id' = 0
  /\ bar' = BarShowing(NoUrl) /\ focus' = "page"
  /\ dragging' = FALSE /\ strip_saved' = FALSE
  /\ UNCHANGED dropped

-----------------------------------------------------------------------------
(* Commands (dispatch).  A load that fails has changed nothing unless an    *)
(* action says so.                                                          *)

\* A command that leaves the mouse and the program alone.
Command(A) == Running /\ A /\ UNCHANGED <<program, dragging, dropped>>

\* One that changes the strip and tells neither the bar nor the profile.
Quiet(A) == Command(A /\ UNCHANGED <<bar, focus, stored, strip_saved>>)

\* after_navigation
AfterNavigation == SyncAddressBar /\ Persist

\* Navigate, from a link, a row of a native view, a bookmark, a suggestion or
\* the configured home page.
Navigate(u) == Command(Strip!NavigateActive(u) /\ AfterNavigation)

Back == Command(Strip!BackActive /\ AfterNavigation)
Forward == Command(Strip!ForwardActive /\ AfterNavigation)
Reload == Quiet(Strip!ReloadActive)

Home ==
  Command(Strip!HomeActive /\ SyncAddressBar /\ UNCHANGED <<stored, strip_saved>>)

\* ShowHistory, ShowBookmarks, ShowDownloads, ShowSettings
OpenView ==
  Command(Strip!ShowNativeOnActive /\ SyncAddressBar /\ UNCHANGED <<stored, strip_saved>>)

\* A command on the strip.  When it came from a press of the mouse, and a tab is
\* under the pointer once it is done, the mouse holds that tab.
StripCommand(A) ==
  Running /\ A /\ dragging' \in {dragging, TRUE} /\ UNCHANGED <<program, dropped>>

NewTab == StripCommand(Strip!NewTab /\ SyncAddressBar /\ Persist)

\* switch_tab or close_tab returned the error of a lazy load: the strip has
\* changed, the rest of the command is skipped.
Skipped == UNCHANGED <<bar, focus, stored>> /\ strip_saved' = FALSE

LoadFailed == Strip!Current.needs_reload'

\* Mutants of SwitchTab and CloseTab: the session is not saved, or the bar is
\* not told.
SwitchTabUnsaved(i) ==
  StripCommand(/\ Strip!SwitchTab(i)
               /\ IF LoadFailed THEN Skipped
                  ELSE SyncAddressBar /\ UNCHANGED <<stored, strip_saved>>)

CloseTabKeepsBar(i) ==
  StripCommand(Strip!CloseTab(i) /\ Persist /\ UNCHANGED <<bar, focus>>)

SwitchTab(i) ==
  StripCommand(/\ Strip!SwitchTab(i)
               /\ IF LoadFailed THEN Skipped ELSE SyncAddressBar /\ Persist)

CloseTab(i) ==
  StripCommand(/\ Strip!CloseTab(i)
               /\ IF active_tab' # active_tab /\ LoadFailed THEN Skipped
                  ELSE SyncAddressBar /\ Persist)

ReorderTab(i, j) == Command(Strip!MoveTab(i, j) /\ Persist /\ UNCHANGED <<bar, focus>>)

Resize == Quiet(Strip!Resize)

-----------------------------------------------------------------------------
(* The mouse on the strip and the page, and the keyboard.                   *)

\* reorder_drag: which tab is held is left open.
DragTab(i, j) ==
  /\ dragging
  /\ Command(Strip!MoveTab(i, j) /\ strip_saved' = FALSE
             /\ UNCHANGED <<bar, focus, stored>>)

ReleaseTab ==
  /\ Running /\ dragging
  /\ dragging' = FALSE
  /\ UNCHANGED <<strip, program, bar, focus, dropped>>
  /\ Persist

\* The document handled a click or a key and was laid out again.
Rerendered ==
  \E p \in Strip!Relaid(Strip!Current.page) :
    Strip!Replace([Strip!Current EXCEPT !.page = p])

\* A click in the page, on nothing that navigates or on a link whose load
\* fails: the bar keeps its own focus flag and its draft.
ClickPage ==
  Command(/\ focus' = "page"
          /\ Rerendered \/ UNCHANGED strip
          /\ UNCHANGED <<bar, stored, strip_saved>>)

\* Text or backspace for the focused control of the document.
PageInput == focus = "page" /\ Quiet(Rerendered)

Scroll == focus = "page" /\ Quiet(Strip!ScrollActive)

\* Only the bar and the focus change.
BarOnly(b, f) ==
  Command(bar' = b /\ focus' = f /\ UNCHANGED <<strip, stored, strip_saved>>)

\* Ctrl+L or a click on the bar: the draft restarts unless already editing.
FocusAddressBar ==
  BarOnly(IF bar.focused THEN bar ELSE [BarShowing(bar.url) EXCEPT !.focused = TRUE],
          "bar")

\* input_char and backspace, as many as the user likes.
EditDraft ==
  /\ focus = "bar" /\ bar.focused
  /\ \E d \in Typed \cup {NoUrl} : BarOnly([bar EXCEPT !.draft = d], focus)

\* A suggestion that cannot be loaded; Navigate is the one that can.
SuggestionFails(u) ==
  /\ focus = "bar"
  /\ BarOnly([bar EXCEPT !.draft = u], focus)

Escape == focus = "bar" /\ BarOnly(BarShowing(bar.url), "page")

\* Enter, wherever the focus is: the draft does not resolve, loads, or fails.
SubmitUnresolved ==
  /\ bar.focused /\ bar.draft # NoUrl /\ ~Resolves(bar.draft)
  /\ BarOnly([bar EXCEPT !.focused = FALSE], focus)

SubmitLoads ==
  /\ bar.focused /\ Resolves(bar.draft)
  /\ Navigate(bar.draft)

SubmitFails ==
  /\ bar.focused /\ Resolves(bar.draft)
  /\ Command(/\ Strip!ShowErrorOnActive
             /\ bar' = [BarShowing(NoUrl) EXCEPT !.draft = bar.draft]
             /\ focus' = "page"
             /\ UNCHANGED <<stored, strip_saved>>)

AddressBarSubmit == SubmitUnresolved \/ SubmitLoads \/ SubmitFails

-----------------------------------------------------------------------------
Init ==
  /\ program = "stopped"
  /\ tabs = <<>> /\ active_tab = 0 /\ next_tab_id = 0
  /\ bar = BarShowing(NoUrl)
  /\ focus = "page"
  /\ dragging = FALSE
  /\ stored = NoSession
  /\ strip_saved = FALSE /\ dropped = FALSE

Start == LaunchBlank \/ LaunchRestored \/ LaunchFails \/ \E u \in Urls : LaunchTarget(u)

OnStrip ==
  \/ NewTab \/ ReleaseTab
  \/ \E i \in DOMAIN tabs : SwitchTab(i) \/ CloseTab(i)
  \/ \E i, j \in DOMAIN tabs : ReorderTab(i, j) \/ DragTab(i, j)

OnPage ==
  \/ \E u \in Urls : Navigate(u)
  \/ Back \/ Forward \/ Reload \/ Home \/ OpenView
  \/ Resize \/ Scroll \/ ClickPage \/ PageInput

OnBar ==
  \/ FocusAddressBar \/ EditDraft \/ Escape \/ AddressBarSubmit
  \/ \E u \in Suggested : SuggestionFails(u)

Next == Start \/ Leave \/ OnStrip \/ OnPage \/ OnBar

Spec == Init /\ [][Next]_vars

-----------------------------------------------------------------------------
(* Properties.                                                              *)

OnItsUrl(t) == t.url # NoUrl => t.history_index # 0 /\ t.history[t.history_index] = t.url

\* Dropping the first entry of a history (the only one that can be a relative
\* path) moves every other entry down while the cursor stays: the tab's URL is
\* then the entry before the cursor, or the last one and there is no cursor.
OnePast(t) ==
  \E i \in DOMAIN t.history :
    t.history[i] = t.url /\ t.history_index = IF i = Len(t.history) THEN 0 ELSE i + 1

\* What is stored can be restored without loss: whatever state each tab was in
\* when it was saved (loaded, unloaded, behind an error or a native view), its
\* cursor is inside its history and its URL is the entry at the cursor, so the
\* restored tab reloads the document it was saved with.  A restore that drops
\* an entry leaves tabs one past their URL, and they are stored so; nothing
\* else makes one, and none is further off.
StoredSessionCoherent ==
  stored # NoSession =>
    \A i \in DOMAIN stored.tabs :
      LET t == stored.tabs[i] IN
      /\ t.history_index \in 0..Len(t.history)
      /\ OnItsUrl(t) \/ (dropped /\ OnePast(t))

\* The strip keeps its own invariants when it comes from a restored session
\* rather than from a session assumed well formed: a tab that shows a document
\* agrees with it, and the one kind of tab that does not agree with its history
\* shows nothing and is left by a restore that dropped an entry.
StripSound ==
  Running =>
    /\ Strip!UniqueActiveTab
    /\ \A i \in DOMAIN tabs :
         \/ Strip!TabAgrees(tabs[i]) /\ Strip!TabLoadable(tabs[i])
         \/ /\ dropped /\ OnePast(tabs[i])
            /\ tabs[i].page.doc = NoUrl /\ tabs[i].internal_view # "none"

\* A stored tab as restore brings it back, before it is loaded.
AsRestored(t) == SessionTab(Strip!UnloadedTab(0, ParsedTab(t)))

\* A crash loses at most the last state of the active tab: as long as the last
\* change of the strip or of the active tab was saved, every tab in the
\* background comes back, in its place, as it would had it been saved now.
BackgroundTabsStored ==
  Running /\ strip_saved =>
    /\ Len(stored.tabs) = Len(tabs)
    /\ stored.active_tab_index = Strip!Active
    /\ \A i \in DOMAIN tabs \ {Strip!Active} :
         AsRestored(SessionTab(tabs[i])) = AsRestored(stored.tabs[i])

\* The bar falls behind the active tab in two ways only: a reload that ends at
\* another URL, and a lazy load that fails while switching to or closing into
\* its tab.
BarStaysCurrent ==
  [][Running /\ Running' /\ bar.url = Strip!Current.url =>
       \/ bar'.url = Strip!Current.url'
       \/ UNCHANGED active_tab /\ Reload
       \/ active_tab' # active_tab /\ LoadFailed]_vars

=============================================================================
