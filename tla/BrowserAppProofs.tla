-------------------------- MODULE BrowserAppProofs --------------------------
(***************************************************************************)
(* Proofs about BrowserApp, for every value of its constants.              *)
(*                                                                         *)
(* What is proved of the strip in TabManagerProofs is used through an      *)
(* instance of that module.  The invariant goes around the circle that a   *)
(* session makes: a sound strip is stored as a whole session, a whole      *)
(* session is restored to a sound strip.  Only the first entry of a        *)
(* history may be one that cannot be read back (ReadPast), so a restore    *)
(* drops at most that one, and a tab slips by one place at most.           *)
(***************************************************************************)
EXTENDS BrowserApp, FiniteSetTheorems, SequenceTheorems, TLAPS

StripTheory == INSTANCE TabManagerProofs WITH Sessions <- {}

-----------------------------------------------------------------------------
(* The inductive invariant.                                                 *)

Bars == [url : Urls \cup {NoUrl}, draft : Drafts, focused : BOOLEAN]

TypeOK ==
  /\ program \in {"stopped", "running", "failed"}
  /\ bar \in Bars
  /\ focus \in {"bar", "page"}
  /\ dragging \in BOOLEAN /\ strip_saved \in BOOLEAN

\* A stored tab, d saying whether some restore has dropped an entry, and a
\* session that can be restored.
Whole(t, d) ==
  /\ t.history_index \in 0..Len(t.history)
  /\ StripTheory!ReadPast(t.history)
  /\ \/ OnItsUrl(t)
     \/ d /\ OnePast(t) /\ \A i \in DOMAIN t.history : ReadBack[t.history[i]] # NoUrl

WholeSession(s, d) ==
  /\ s = [tabs |-> s.tabs, active_tab_index |-> s.active_tab_index]
  /\ s.tabs \in Seq(Strip!RestoredTab) /\ s.tabs # <<>>
  /\ s.active_tab_index \in 1..Len(s.tabs)
  /\ \A i \in 1..Len(s.tabs) : Whole(s.tabs[i], d)

StripOK ==
  /\ StripTheory!Inv
  /\ dropped \in BOOLEAN
  /\ StripTheory!TabLoadable(StripTheory!Current)
  /\ \A i \in 1..Len(tabs) : StripTheory!Sound(tabs[i], dropped)

\* What is stored comes back as the strip, but for the active tab.
BackgroundStored ==
  /\ Len(stored.tabs) = Len(tabs)
  /\ stored.active_tab_index = Strip!Active
  /\ \A i \in 1..Len(tabs) :
       i # Strip!Active => AsRestored(SessionTab(tabs[i])) = AsRestored(stored.tabs[i])

AppInv ==
  /\ dropped \in BOOLEAN
  /\ Running => StripOK
  /\ stored # NoSession => WholeSession(stored, dropped)
  /\ Running /\ strip_saved => BackgroundStored

-----------------------------------------------------------------------------
(* The strip of the shell is the strip that TabManagerProofs is about.      *)

LEMMA StripFacts == StripTheory!ConstantsAssumption /\ StripTheory!SessionsAssumption
BY StripAssumption
DEF Strip!ConstantsAssumption, StripTheory!ConstantsAssumption,
    StripTheory!SessionsAssumption, Strip!MaybeUrl, StripTheory!MaybeUrl

LEMMA SamePlace ==
  Strip!Active = StripTheory!Active /\ Strip!Current = StripTheory!Current
BY DEF Strip!Active, StripTheory!Active, Strip!Current, StripTheory!Current

LEMMA SameReplace ==
  ASSUME NEW t
  PROVE  Strip!Replace(t) <=> StripTheory!Replace(t)
BY SamePlace DEF Strip!Replace, StripTheory!Replace

LEMMA SamePages ==
  /\ Strip!Page = StripTheory!Page /\ Strip!Placeholder = StripTheory!Placeholder
  /\ \A d, r : Strip!Fresh(d, r) = StripTheory!Fresh(d, r)
  /\ \A p, n : Strip!ScrolledTo(p, n) = StripTheory!ScrolledTo(p, n)
  /\ \A p : Strip!Relaid(p) = StripTheory!Relaid(p)
<1>1. \A p, n : Strip!ScrolledTo(p, n) = StripTheory!ScrolledTo(p, n)
  BY DEF Strip!ScrolledTo, StripTheory!ScrolledTo, Strip!Clamp, StripTheory!Clamp
<1>2. Strip!Page = StripTheory!Page
  BY DEF Strip!Page, StripTheory!Page, Strip!MaybeUrl, StripTheory!MaybeUrl
<1>3. \A d, r : Strip!Fresh(d, r) = StripTheory!Fresh(d, r)
  BY DEF Strip!Fresh, StripTheory!Fresh
<1> QED
  BY <1>1, <1>2, <1>3 DEF Strip!Relaid, StripTheory!Relaid,
     Strip!Placeholder, StripTheory!Placeholder

LEMMA SameTabs ==
  /\ \A id, view : Strip!BlankTab(id, view) = StripTheory!BlankTab(id, view)
  /\ \A id, f, r : Strip!LoadedTab(id, f, r) = StripTheory!LoadedTab(id, f, r)
  /\ \A id, s : Strip!UnloadedTab(id, s) = StripTheory!UnloadedTab(id, s)
  /\ \A t, f, r : Strip!Shown(t, f, r) = StripTheory!Shown(t, f, r)
  /\ \A t, f, r : Strip!Navigated(t, f, r) = StripTheory!Navigated(t, f, r)
  /\ \A t, i, f, r : Strip!MovedTo(t, i, f, r) = StripTheory!MovedTo(t, i, f, r)
  /\ \A t, view : Strip!Covered(t, view) = StripTheory!Covered(t, view)
  /\ \A t, view : Strip!Cleared(t, view) = StripTheory!Cleared(t, view)
<1>1. \A id, view : Strip!BlankTab(id, view) = StripTheory!BlankTab(id, view)
  BY SamePages DEF Strip!BlankTab, StripTheory!BlankTab
<1>2. \A id, f, r : Strip!LoadedTab(id, f, r) = StripTheory!LoadedTab(id, f, r)
  BY <1>1, SamePages DEF Strip!LoadedTab, StripTheory!LoadedTab
<1>3. \A id, s : Strip!UnloadedTab(id, s) = StripTheory!UnloadedTab(id, s)
  BY <1>1 DEF Strip!UnloadedTab, StripTheory!UnloadedTab
<1>4. \A t, f, r : Strip!Shown(t, f, r) = StripTheory!Shown(t, f, r)
  BY SamePages DEF Strip!Shown, StripTheory!Shown
<1>5. \A t, f, r : Strip!Navigated(t, f, r) = StripTheory!Navigated(t, f, r)
  BY <1>4 DEF Strip!Navigated, StripTheory!Navigated
<1>6. \A t, i, f, r : Strip!MovedTo(t, i, f, r) = StripTheory!MovedTo(t, i, f, r)
  BY <1>4 DEF Strip!MovedTo, StripTheory!MovedTo
<1>7. \A t, view : Strip!Covered(t, view) = StripTheory!Covered(t, view)
  BY SamePages DEF Strip!Covered, StripTheory!Covered
<1>8. \A t, view : Strip!Cleared(t, view) = StripTheory!Cleared(t, view)
  BY <1>7 DEF Strip!Cleared, StripTheory!Cleared
<1> QED
  BY <1>1, <1>2, <1>3, <1>4, <1>5, <1>6, <1>7, <1>8

LEMMA SameLoads ==
  /\ \A u : Strip!Load(u) = StripTheory!Load(u)
  /\ \A u : Strip!Landings(u) = StripTheory!Landings(u)
  /\ \A t : Strip!Reloads(t) = StripTheory!Reloads(t)
  /\ \A t : Strip!EnsureLoaded(t) = StripTheory!EnsureLoaded(t)
<1>1. \A u : Strip!Load(u) = StripTheory!Load(u)
  BY DEF Strip!Load, StripTheory!Load
<1>2. \A u : Strip!Landings(u) = StripTheory!Landings(u)
  BY <1>1 DEF Strip!Landings, StripTheory!Landings
<1>3. \A t : Strip!Settled(t) = StripTheory!Settled(t)
  BY SamePages DEF Strip!Settled, StripTheory!Settled
<1>4. \A t, f, r : Strip!Refreshed(t, f, r) = StripTheory!Refreshed(t, f, r)
  BY <1>3, SameTabs DEF Strip!Refreshed, StripTheory!Refreshed
<1>5. \A t : Strip!Reloads(t) = StripTheory!Reloads(t)
  <2> TAKE t
  <2> DEFINE ends == Strip!Landings(t.history[t.history_index])
             ours == {Strip!Refreshed(t, f, r) : f \in ends, r \in Rooms}
             theirs == {StripTheory!Refreshed(t, f, r) : f \in ends, r \in Rooms}
  <2>1. ours = theirs
    BY <1>4
  <2>2. ends = StripTheory!Landings(t.history[t.history_index])
    BY <1>2
  <2>3. Strip!Reloads(t) = IF t.history_index = 0 THEN {Strip!Settled(t)} ELSE ours
    BY DEF Strip!Reloads
  <2>4. StripTheory!Reloads(t)
        = IF t.history_index = 0 THEN {StripTheory!Settled(t)} ELSE theirs
    BY <2>2 DEF StripTheory!Reloads
  <2> HIDE DEF ours, theirs, ends
  <2> QED
    BY <2>1, <2>3, <2>4, <1>3
<1> QED
  BY <1>1, <1>2, <1>5 DEF Strip!EnsureLoaded, StripTheory!EnsureLoaded

LEMMA SameManagers ==
  /\ Strip!NewManager = StripTheory!NewManager
  /\ Strip!ErrorManager = StripTheory!ErrorManager
  /\ \A f, r : Strip!LoadedManager(f, r) = StripTheory!LoadedManager(f, r)
  /\ \A s : Strip!RestoredManagers(s) = StripTheory!RestoredManagers(s)
<1>1. \A ts, a, n : Strip!Manager(ts, a, n) = StripTheory!Manager(ts, a, n)
  BY DEF Strip!Manager, StripTheory!Manager
<1>2. \A n, r : Strip!Clamp(n, r) = StripTheory!Clamp(n, r)
  BY DEF Strip!Clamp, StripTheory!Clamp
<1>3. Strip!NewManager = StripTheory!NewManager
  BY <1>1, SameTabs DEF Strip!NewManager, StripTheory!NewManager
<1>4. Strip!ErrorManager = StripTheory!ErrorManager
  BY <1>1, SameTabs DEF Strip!ErrorManager, StripTheory!ErrorManager
<1>5. \A f, r : Strip!LoadedManager(f, r) = StripTheory!LoadedManager(f, r)
  BY <1>1, SameTabs DEF Strip!LoadedManager, StripTheory!LoadedManager
<1>6. \A s : Strip!RestoredManagers(s) = StripTheory!RestoredManagers(s)
  <2> TAKE s
  <2> DEFINE n == Len(s.tabs)
             a == Strip!Clamp(s.active_tab_index, n)
             unloaded(k) == Strip!UnloadedTab(k - 1, s.tabs[k])
             loaded == {u \in Strip!EnsureLoaded(unloaded(a)) : ~u.needs_reload}
             with(t) == [k \in 1..n |-> IF k = a THEN t ELSE unloaded(k)]
  <2>1. Strip!RestoredManagers(s) = {Strip!Manager(with(t), a - 1, n) : t \in loaded}
    BY DEF Strip!RestoredManagers
  <2>2. StripTheory!RestoredManagers(s) =
          {StripTheory!Manager(with(t), a - 1, n) : t \in loaded}
    BY <1>2, SameTabs, SameLoads, Zenon DEF StripTheory!RestoredManagers
  <2> QED
    BY <2>1, <2>2, <1>1
<1> QED
  BY <1>3, <1>4, <1>5, <1>6

LEMMA SameSequences ==
  /\ \A s, i : Strip!RemoveAt(s, i) = StripTheory!RemoveAt(s, i)
  /\ \A s, i, e : Strip!InsertAt(s, i, e) = StripTheory!InsertAt(s, i, e)
BY DEF Strip!RemoveAt, StripTheory!RemoveAt, Strip!InsertAt, StripTheory!InsertAt

LEMMA SameCommands ==
  /\ Strip!NewTab => StripTheory!NewTab
  /\ \A i : Strip!SwitchTab(i) => StripTheory!SwitchTab(i)
  /\ \A i : Strip!CloseTab(i) => StripTheory!CloseTab(i)
  /\ \A i, j : Strip!MoveTab(i, j) => StripTheory!MoveTab(i, j)
  /\ Strip!Resize => StripTheory!Resize
<1>1. Strip!NewTab => StripTheory!NewTab
  BY SameTabs DEF Strip!NewTab, StripTheory!NewTab, Strip!OpenTab, StripTheory!OpenTab,
     Strip!CanOpen, StripTheory!CanOpen
<1>2. \A i : Strip!SwitchTab(i) => StripTheory!SwitchTab(i)
  BY SameLoads DEF Strip!SwitchTab, StripTheory!SwitchTab
<1>3. \A i : Strip!CloseTab(i) => StripTheory!CloseTab(i)
  <2> TAKE i
  <2>1. Strip!CloseLastTab => StripTheory!CloseLastTab
    BY SameTabs DEF Strip!CloseLastTab, StripTheory!CloseLastTab
  <2>2. Strip!CloseActiveTab(i) => StripTheory!CloseActiveTab(i)
    BY SameSequences, SameLoads DEF Strip!CloseActiveTab, StripTheory!CloseActiveTab,
       Strip!Clamp, StripTheory!Clamp
  <2>3. Strip!CloseOtherTab(i) => StripTheory!CloseOtherTab(i)
    BY SameSequences DEF Strip!CloseOtherTab, StripTheory!CloseOtherTab
  <2> QED
    BY <2>1, <2>2, <2>3 DEF Strip!CloseTab, StripTheory!CloseTab
<1>4. \A i, j : Strip!MoveTab(i, j) => StripTheory!MoveTab(i, j)
  BY SameSequences DEF Strip!MoveTab, StripTheory!MoveTab
<1>5. Strip!Resize => StripTheory!Resize
  BY SamePages DEF Strip!Resize, StripTheory!Resize
<1> QED
  BY <1>1, <1>2, <1>3, <1>4, <1>5

\* What the commands on the active tab replace it with.
OnActive ==
  \/ \E u \in Urls : Strip!NavigateActive(u)
  \/ Strip!BackActive \/ Strip!ForwardActive \/ Strip!ReloadActive
  \/ Strip!ShowErrorOnActive \/ Strip!HomeActive \/ Strip!ShowNativeOnActive
  \/ Strip!ScrollActive

LEMMA SameOnActive == OnActive => StripTheory!Next
<1>1. ASSUME NEW u \in Urls, Strip!NavigateActive(u)
      PROVE  StripTheory!NavigateActive(u)
  BY <1>1, SamePlace, SameReplace, SameTabs, SameLoads
     DEF Strip!NavigateActive, StripTheory!NavigateActive
<1>2. ASSUME Strip!BackActive PROVE StripTheory!BackActive
  BY <1>2, SamePlace, SameReplace, SameTabs, SameLoads
     DEF Strip!BackActive, StripTheory!BackActive, Strip!CanGoBack, StripTheory!CanGoBack
<1>3. ASSUME Strip!ForwardActive PROVE StripTheory!ForwardActive
  BY <1>3, SamePlace, SameReplace, SameTabs, SameLoads
     DEF Strip!ForwardActive, StripTheory!ForwardActive,
         Strip!CanGoForward, StripTheory!CanGoForward
<1>4. ASSUME Strip!ReloadActive PROVE StripTheory!ReloadActive
  BY <1>4, SamePlace, SameReplace, SameLoads DEF Strip!ReloadActive, StripTheory!ReloadActive
<1>5. CASE Strip!ShowErrorOnActive \/ Strip!HomeActive \/ Strip!ShowNativeOnActive
  BY <1>5, SamePlace, SameReplace, SameTabs
     DEF Strip!ShowErrorOnActive, StripTheory!ShowErrorOnActive,
         Strip!HomeActive, StripTheory!HomeActive,
         Strip!ShowNativeOnActive, StripTheory!ShowNativeOnActive, StripTheory!Next
<1>6. ASSUME Strip!ScrollActive PROVE StripTheory!ScrollActive
  BY <1>6, SamePlace, SameReplace, SamePages DEF Strip!ScrollActive, StripTheory!ScrollActive
<1> QED
  BY <1>1, <1>2, <1>3, <1>4, <1>5, <1>6 DEF OnActive, StripTheory!Next

LEMMA StripOKNext ==
  ASSUME StripTheory!Inv', dropped' \in BOOLEAN,
         StripTheory!TabLoadable(StripTheory!Current'),
         \A i \in 1..Len(tabs') : StripTheory!Sound(tabs'[i], dropped')
  PROVE  StripOK'
BY DEF StripOK

LEMMA StripStepOK ==
  ASSUME StripOK, UNCHANGED dropped, StripTheory!Next \/ UNCHANGED strip
  PROVE  StripOK'
<1>1. [StripTheory!Next]_(StripTheory!vars)
  BY DEF strip, StripTheory!vars
<1>2. StripTheory!Inv'
  BY <1>1, StripFacts, StripTheory!NextInv DEF StripOK
<1>3. /\ StripTheory!TabLoadable(StripTheory!Current')
      /\ \A i \in 1..Len(tabs') : StripTheory!Sound(tabs'[i], dropped)
  BY <1>1, StripFacts, StripTheory!StepSound DEF StripOK
<1> QED
  BY <1>2, <1>3, StripOKNext DEF StripOK

\* A page laid out again is still the page of its tab.
LEMMA RerenderedOK ==
  ASSUME StripOK, UNCHANGED dropped, Rerendered
  PROVE  StripOK'
<1> DEFINE t == StripTheory!Current
<1>1. /\ StripTheory!Active \in 1..Len(tabs) /\ t.id = active_tab
      /\ StripTheory!WellFormed(t)
  BY StripFacts, StripTheory!ActiveOK DEF StripOK
<1>2. t.page \in StripTheory!Page
  BY <1>1 DEF StripTheory!WellFormed, StripTheory!BrowserTab
<1>3. PICK p \in StripTheory!Relaid(t.page) : StripTheory!Replace([t EXCEPT !.page = p])
  BY SamePlace, SamePages, SameReplace DEF Rerendered
<1>4. p \in StripTheory!Page /\ p.scroll <= p.room
  BY <1>2, <1>3, StripFacts, StripTheory!RelaidOK
<1>5. p.doc = t.page.doc
  BY <1>2, <1>3 DEF StripTheory!Relaid, StripTheory!ScrolledTo, StripTheory!Page
<1> DEFINE u == [t EXCEPT !.page = p]
<1>6. StripTheory!WellFormed(u) /\ u.id = t.id
  BY <1>1, <1>4, StripFacts, StripTheory!PagedOK
<1>7. StripTheory!Sound(t, dropped)
  BY <1>1 DEF StripOK, StripTheory!Current
<1>8. StripTheory!Sound(u, dropped)
  BY <1>1, <1>4, <1>5, <1>7, StripFacts, StripTheory!PagedSound DEF StripOK
<1>9. StripTheory!TabLoadable(u)
  BY <1>1 DEF StripOK, StripTheory!TabLoadable, StripTheory!WellFormed,
     StripTheory!BrowserTab
<1> HIDE DEF u
<1>10. StripTheory!Replace(u)
  BY <1>3 DEF u
<1>11. StripTheory!Inv'
  BY <1>6, <1>10, StripFacts, StripTheory!ReplaceInv DEF StripOK
<1>12. /\ Len(tabs') = Len(tabs) /\ tabs'[StripTheory!Active] = u
       /\ \A i \in 1..Len(tabs) : tabs'[i] \in {tabs[i], u}
  <2>1. tabs \in Seq(StripTheory!BrowserTab)
    BY DEF StripOK, StripTheory!Inv, StripTheory!GoodStrip
  <2>2. tabs' = [tabs EXCEPT ![StripTheory!Active] = u]
    BY <1>10 DEF StripTheory!Replace
  <2> QED
    BY <1>1, <2>1, <2>2
<1>13. StripTheory!Current' = u
  BY <1>1, <1>6, <1>10, <1>11, <1>12, StripFacts, StripTheory!CurrentPlace
     DEF StripTheory!Replace
<1>14. \A i \in 1..Len(tabs') : StripTheory!Sound(tabs'[i], dropped)
  BY <1>8, <1>12 DEF StripOK
<1> QED
  BY <1>9, <1>11, <1>13, <1>14, StripOKNext DEF StripOK

-----------------------------------------------------------------------------
(* Storing the strip.                                                       *)

LEMMA ReadBackFacts ==
  /\ \A u \in Urls : ReadBack[u] \in Urls \cup {NoUrl} /\ u # NoUrl
  /\ \A u \in Urls : ReadBack[u] # NoUrl => ReadBack[ReadBack[u]] = ReadBack[u]
BY StripFacts DEF StripTheory!ConstantsAssumption, StripTheory!MaybeUrl

LEMMA SnapshotWhole ==
  StripOK => WholeSession(Snapshot, dropped) /\ Len(Snapshot.tabs) = Len(tabs)
<1> SUFFICES ASSUME StripOK
             PROVE  WholeSession(Snapshot, dropped) /\ Len(Snapshot.tabs) = Len(tabs)
  OBVIOUS
<1> DEFINE saved == [i \in DOMAIN tabs |-> SessionTab(tabs[i])]
<1>1. /\ tabs \in Seq(StripTheory!BrowserTab) /\ DOMAIN tabs = 1..Len(tabs)
      /\ Len(tabs) \in Nat
  BY DEF StripOK, StripTheory!Inv, StripTheory!GoodStrip
<1>2. Strip!Active \in 1..Len(tabs)
  BY StripFacts, SamePlace, StripTheory!ActiveOK DEF StripOK
<1>3. \A i \in 1..Len(tabs) :
        SessionTab(tabs[i]) \in Strip!RestoredTab /\ Whole(SessionTab(tabs[i]), dropped)
  <2> TAKE i \in 1..Len(tabs)
  <2> DEFINE t == tabs[i]
             s == SessionTab(t)
  <2>1. StripTheory!WellFormed(t) /\ StripTheory!Sound(t, dropped)
    BY DEF StripOK, StripTheory!Inv, StripTheory!GoodStrip
  <2>2. /\ t.url \in Strip!MaybeUrl /\ t.page.scroll \in Rooms
        /\ t.history \in Seq(Urls) /\ t.history_index \in Nat
        /\ t.history_index \in 0..Len(t.history)
    BY <2>1 DEF StripTheory!WellFormed, StripTheory!BrowserTab, StripTheory!Page,
       StripTheory!MaybeUrl, Strip!MaybeUrl
  <2>3. s.url = t.url /\ s.history = t.history /\ s.history_index = t.history_index
    BY DEF SessionTab
  <2>4. s \in Strip!RestoredTab
    BY <2>2 DEF SessionTab, Strip!RestoredTab
  <2> SUFFICES s \in Strip!RestoredTab /\ Whole(s, dropped)
    OBVIOUS
  <2> HIDE DEF t, s
  <2>5. CASE StripTheory!Agrees(t)
    BY <2>1, <2>2, <2>3, <2>4, <2>5
       DEF Whole, OnItsUrl, StripTheory!Sound, StripTheory!Agrees, StripTheory!TabAgrees
  <2>6. CASE dropped /\ StripTheory!Slipped(t)
    BY <2>1, <2>2, <2>3, <2>4, <2>6
       DEF Whole, OnePast, StripTheory!Sound, StripTheory!Slipped
  <2> QED
    BY <2>1, <2>5, <2>6 DEF StripTheory!Sound
<1>4. saved \in Seq(Strip!RestoredTab) /\ Len(saved) = Len(tabs)
  BY <1>1, <1>3, IsASeq
<1>5. \A i \in 1..Len(tabs) : Whole(saved[i], dropped)
  BY <1>1, <1>3
<1>6. Snapshot = [tabs |-> saved, active_tab_index |-> Strip!Active]
  BY DEF Snapshot
<1> HIDE DEF saved
<1>7. saved # <<>>
  BY <1>1, <1>2, <1>4
<1> QED
  BY <1>2, <1>4, <1>5, <1>6, <1>7 DEF WholeSession

\* A save stores the strip as it is.
LEMMA SnapshotStored == StripOK /\ stored = Snapshot => BackgroundStored
<1> SUFFICES ASSUME StripOK, stored = Snapshot PROVE BackgroundStored
  OBVIOUS
<1>1. Len(stored.tabs) = Len(tabs)
  BY SnapshotWhole
<1>2. DOMAIN tabs = 1..Len(tabs)
  BY DEF StripOK, StripTheory!Inv, StripTheory!GoodStrip
<1>3. \A i \in 1..Len(tabs) : stored.tabs[i] = SessionTab(tabs[i])
  BY <1>2 DEF Snapshot
<1> QED
  BY <1>1, <1>3 DEF BackgroundStored, Snapshot

LEMMA WholeLater ==
  ASSUME NEW s, NEW d \in BOOLEAN, NEW e \in BOOLEAN, d => e, WholeSession(s, d)
  PROVE  WholeSession(s, e)
BY DEF WholeSession, Whole

-----------------------------------------------------------------------------
(* Reading a stored tab.                                                    *)

\* The entries from lo on are the ones that can be read.
LEMMA ReadFrom ==
  ASSUME NEW h \in Seq(Urls), NEW lo \in {1, 2}, lo - 1 <= Len(h), Kept(h) = lo..Len(h)
  PROVE  ParsedHistory(h) = [k \in 1..(Len(h) - lo + 1) |-> ReadBack[h[k + lo - 1]]]
<1> DEFINE n == Len(h)
<1>1. n \in Nat /\ lo \in Int /\ Kept(h) = lo..n /\ lo - 1 <= n
  OBVIOUS
<1> HIDE DEF n
<1>2. Cardinality(Kept(h)) = n - lo + 1
  BY <1>1, FS_Interval
<1>3. \A i \in lo..n : PlaceOfKept(h, i) = i - lo + 1
  <2> TAKE i \in lo..n
  <2>1. {j \in Kept(h) : j <= i} = lo..i
    BY <1>1
  <2>2. Cardinality(lo..i) = i - lo + 1
    BY <1>1, FS_Interval
  <2> QED
    BY <2>1, <2>2 DEF PlaceOfKept
<1> DEFINE place(k) == CHOOSE i \in Kept(h) : PlaceOfKept(h, i) = k
<1>4. \A k \in 1..(n - lo + 1) : place(k) = k + lo - 1
  <2> TAKE k \in 1..(n - lo + 1)
  <2>1. k + lo - 1 \in Kept(h) /\ PlaceOfKept(h, k + lo - 1) = k
    BY <1>1, <1>3
  <2>2. \A i \in Kept(h) : PlaceOfKept(h, i) = k => i = k + lo - 1
    BY <1>1, <1>3
  <2> QED
    BY <2>1, <2>2
<1>5. ParsedHistory(h) = [k \in 1..Cardinality(Kept(h)) |-> ReadBack[h[place(k)]]]
  BY DEF ParsedHistory
<1> HIDE DEF place
<1>6. ParsedHistory(h) = [k \in 1..(n - lo + 1) |-> ReadBack[h[k + lo - 1]]]
  BY <1>2, <1>4, <1>5
<1> QED
  BY <1>6 DEF n

LEMMA ReadAll ==
  ASSUME NEW h \in Seq(Urls), \A k \in 1..Len(h) : ReadBack[h[k]] # NoUrl
  PROVE  /\ Kept(h) = DOMAIN h
         /\ ParsedHistory(h) \in Seq(Urls) /\ Len(ParsedHistory(h)) = Len(h)
         /\ \A k \in 1..Len(h) : ParsedHistory(h)[k] = ReadBack[h[k]]
<1>1. Kept(h) = 1..Len(h) /\ DOMAIN h = 1..Len(h) /\ Len(h) \in Nat
  BY DEF Kept
<1>2. ParsedHistory(h) = [k \in 1..(Len(h) - 1 + 1) |-> ReadBack[h[k + 1 - 1]]]
  BY <1>1, ReadFrom
<1>3. Len(h) - 1 + 1 = Len(h) /\ \A k \in 1..Len(h) : k + 1 - 1 = k
  BY <1>1
<1>4. ParsedHistory(h) = [k \in 1..Len(h) |-> ReadBack[h[k]]]
  BY <1>2, <1>3
<1>5. \A k \in 1..Len(h) : ReadBack[h[k]] \in Urls
  BY <1>1, ReadBackFacts
<1>6. ParsedHistory(h) \in Seq(Urls)
  BY <1>1, <1>4, <1>5, IsASeq
<1> QED
  BY <1>1, <1>4, <1>6

LEMMA ReadRest ==
  ASSUME NEW h \in Seq(Urls), Len(h) # 0, ReadBack[h[1]] = NoUrl, StripTheory!ReadPast(h)
  PROVE  /\ Kept(h) # DOMAIN h
         /\ ParsedHistory(h) \in Seq(Urls) /\ Len(ParsedHistory(h)) = Len(h) - 1
         /\ \A k \in 1..(Len(h) - 1) : /\ k + 1 \in 2..Len(h)
                                       /\ ParsedHistory(h)[k] = ReadBack[h[k + 1]]
<1>1. DOMAIN h = 1..Len(h) /\ Len(h) \in Nat \ {0}
  OBVIOUS
<1>2. Kept(h) = 2..Len(h)
  BY <1>1 DEF Kept, StripTheory!ReadPast
<1>3. ParsedHistory(h) = [k \in 1..(Len(h) - 2 + 1) |-> ReadBack[h[k + 2 - 1]]]
  BY <1>1, <1>2, ReadFrom
<1>4. Len(h) - 2 + 1 = Len(h) - 1 /\ \A k \in 1..(Len(h) - 1) : k + 2 - 1 = k + 1
  BY <1>1
<1>5. ParsedHistory(h) = [k \in 1..(Len(h) - 1) |-> ReadBack[h[k + 1]]]
  BY <1>3, <1>4
<1>6. \A k \in 1..(Len(h) - 1) : k + 1 \in 2..Len(h) /\ ReadBack[h[k + 1]] \in Urls
  BY <1>1, ReadBackFacts DEF StripTheory!ReadPast
<1>7. ParsedHistory(h) \in Seq(Urls)
  BY <1>1, <1>5, <1>6, IsASeq
<1>8. 1 \in DOMAIN h /\ 1 \notin Kept(h)
  BY <1>1, <1>2
<1> QED
  BY <1>1, <1>5, <1>6, <1>7, <1>8

\* What is read of a stored tab can be read again as it is, and its URL is at
\* the cursor unless an entry has been dropped.
AsRead(p, d) ==
  /\ p \in Strip!RestoredTab
  /\ p.url # NoUrl => ReadBack[p.url] = p.url
  /\ \A k \in DOMAIN p.history : ReadBack[p.history[k]] = p.history[k]
  /\ \/ p.url = NoUrl
     \/ p.history_index \in DOMAIN p.history /\ p.history[p.history_index] = p.url
     \/ /\ d
        /\ \E i \in DOMAIN p.history :
             /\ p.history[i] = p.url
             /\ (IF p.history_index \in DOMAIN p.history THEN p.history_index ELSE 0)
                = IF i = Len(p.history) THEN 0 ELSE i + 1

LEMMA ParsedFields ==
  ASSUME NEW s \in Strip!RestoredTab
  PROVE  /\ ParsedTab(s) = [url |-> IF s.url = NoUrl THEN NoUrl ELSE ReadBack[s.url],
                            scroll |-> s.scroll, history |-> ParsedHistory(s.history),
                            history_index |-> s.history_index]
         /\ s.url \in Urls \cup {NoUrl} /\ s.scroll \in Rooms
         /\ s.history \in Seq(Urls) /\ s.history_index \in Nat
<1>1. s \in [url : Strip!MaybeUrl, scroll : Rooms, history : Seq(Urls), history_index : Nat]
  BY DEF Strip!RestoredTab
<1>2. ParsedTab(s) = [s EXCEPT !.url = IF s.url = NoUrl THEN NoUrl ELSE ReadBack[s.url],
                               !.history = ParsedHistory(s.history)]
  BY DEF ParsedTab
<1> QED
  BY <1>1, <1>2 DEF Strip!MaybeUrl

LEMMA ParsedTabRead ==
  ASSUME NEW s \in Strip!RestoredTab, NEW d \in BOOLEAN, NEW e \in BOOLEAN, Whole(s, d),
         d \/ Kept(s.history) # DOMAIN s.history => e
  PROVE  AsRead(ParsedTab(s), e)
<1> DEFINE p == ParsedTab(s)
           h == s.history
           x == s.history_index
<1>1. /\ s.url \in Urls \cup {NoUrl} /\ s.scroll \in Rooms
      /\ h \in Seq(Urls) /\ DOMAIN h = 1..Len(h) /\ Len(h) \in Nat
      /\ x \in 0..Len(h) /\ StripTheory!ReadPast(h)
  BY ParsedFields DEF Whole
<1>2. /\ p.url = IF s.url = NoUrl THEN NoUrl ELSE ReadBack[s.url]
      /\ p.scroll = s.scroll /\ p.history = ParsedHistory(h) /\ p.history_index = x
      /\ p = [url |-> p.url, scroll |-> p.scroll, history |-> p.history,
              history_index |-> p.history_index]
  BY ParsedFields
<1>3. p.url \in Urls \cup {NoUrl} /\ (p.url # NoUrl => ReadBack[p.url] = p.url)
  BY <1>1, <1>2, ReadBackFacts
<1> SUFFICES AsRead(p, e)
  OBVIOUS
<1> HIDE DEF p
<1>4. CASE \A k \in 1..Len(h) : ReadBack[h[k]] # NoUrl
  <2>1. /\ p.history \in Seq(Urls) /\ Len(p.history) = Len(h)
        /\ DOMAIN p.history = 1..Len(h)
        /\ \A k \in 1..Len(h) : p.history[k] = ReadBack[h[k]]
    BY <1>1, <1>2, <1>4, ReadAll
  <2>2. p \in Strip!RestoredTab
    BY <1>1, <1>2, <1>3, <2>1 DEF Strip!RestoredTab, Strip!MaybeUrl
  <2>3. \A k \in DOMAIN p.history : ReadBack[p.history[k]] = p.history[k]
    BY <1>1, <1>4, <2>1, ReadBackFacts
  <2>4. CASE s.url = NoUrl
    BY <1>2, <1>3, <2>2, <2>3, <2>4 DEF AsRead
  <2>5. CASE s.url # NoUrl /\ OnItsUrl(s)
    <3>1. x \in DOMAIN p.history /\ p.history[x] = p.url
      BY <1>1, <1>2, <2>1, <2>5 DEF OnItsUrl
    <3> QED
      BY <1>2, <1>3, <2>2, <2>3, <3>1 DEF AsRead
  <2>6. CASE s.url # NoUrl /\ d /\ OnePast(s)
    <3>1. PICK i \in 1..Len(h) : h[i] = s.url /\ x = IF i = Len(h) THEN 0 ELSE i + 1
      BY <1>1, <2>6 DEF OnePast
    <3>2. /\ i \in DOMAIN p.history /\ p.history[i] = p.url
          /\ (IF x \in DOMAIN p.history THEN x ELSE 0)
             = IF i = Len(p.history) THEN 0 ELSE i + 1
      BY <1>1, <1>2, <2>1, <2>6, <3>1
    <3> QED
      BY <1>2, <1>3, <2>2, <2>3, <2>6, <3>2 DEF AsRead
  <2> QED
    BY <2>4, <2>5, <2>6 DEF Whole
<1>5. CASE \E k \in 1..Len(h) : ReadBack[h[k]] = NoUrl
  <2>1. Len(h) # 0 /\ ReadBack[h[1]] = NoUrl
    <3>1. PICK k \in 1..Len(h) : ReadBack[h[k]] = NoUrl
      BY <1>5
    <3>2. k = 1
      BY <1>1, <3>1 DEF StripTheory!ReadPast
    <3> QED
      BY <1>1, <3>1, <3>2
  <2>2. /\ e
        /\ p.history \in Seq(Urls) /\ Len(p.history) = Len(h) - 1
        /\ DOMAIN p.history = 1..(Len(h) - 1)
        /\ \A k \in 1..(Len(h) - 1) : k + 1 \in 2..Len(h) /\ p.history[k] = ReadBack[h[k + 1]]
    BY <1>1, <1>2, <2>1, ReadRest
  <2>3. p \in Strip!RestoredTab
    BY <1>1, <1>2, <1>3, <2>2 DEF Strip!RestoredTab, Strip!MaybeUrl
  <2>4. \A k \in DOMAIN p.history : ReadBack[p.history[k]] = p.history[k]
    <3> TAKE k \in DOMAIN p.history
    <3>1. k + 1 \in 2..Len(h) /\ p.history[k] = ReadBack[h[k + 1]]
      BY <2>2
    <3>2. h[k + 1] \in Urls /\ ReadBack[h[k + 1]] # NoUrl
      BY <1>1, <3>1 DEF StripTheory!ReadPast
    <3> QED
      BY <3>1, <3>2, ReadBackFacts
  <2>5. OnItsUrl(s)
    BY <1>1, <1>5 DEF Whole
  <2>6. CASE p.url = NoUrl
    BY <1>3, <2>3, <2>4, <2>6 DEF AsRead
  <2>7. CASE p.url # NoUrl
    <3>1. x # 0 /\ h[x] = s.url /\ ReadBack[h[x]] = p.url
      BY <1>2, <2>5, <2>7 DEF OnItsUrl
    <3>2. x # 1
      BY <2>1, <2>7, <3>1
    <3>3. x - 1 \in 1..(Len(h) - 1) /\ (x - 1) + 1 = x
      BY <1>1, <3>1, <3>2
    <3>4. p.history[x - 1] = p.url
      BY <2>2, <3>1, <3>3
    <3>5. (IF x \in DOMAIN p.history THEN x ELSE 0)
          = IF x - 1 = Len(p.history) THEN 0 ELSE (x - 1) + 1
      BY <1>1, <2>2, <3>3
    <3>6. \E i \in DOMAIN p.history :
            /\ p.history[i] = p.url
            /\ (IF x \in DOMAIN p.history THEN x ELSE 0)
               = IF i = Len(p.history) THEN 0 ELSE i + 1
      BY <2>2, <3>3, <3>4, <3>5
    <3> QED
      BY <1>2, <1>3, <2>2, <2>3, <2>4, <3>6 DEF AsRead
  <2> QED
    BY <2>6, <2>7
<1> QED
  BY <1>4, <1>5

-----------------------------------------------------------------------------
(* Restoring a session.                                                     *)

LEMMA SameRestored == Strip!RestoredTab = StripTheory!RestoredTab
BY DEF Strip!RestoredTab, StripTheory!RestoredTab, Strip!MaybeUrl, StripTheory!MaybeUrl

Cursor(p) == IF p.history_index \in DOMAIN p.history THEN p.history_index ELSE 0

LEMMA UnloadedFields ==
  ASSUME NEW id, NEW p, ~(p.history = <<>> /\ p.url # NoUrl)
  PROVE  LET u == StripTheory!UnloadedTab(id, p) IN
         /\ u.page = StripTheory!Placeholder /\ u.url = p.url /\ u.history = p.history
         /\ u.history_index = Cursor(p)
         /\ u.needs_reload = (p.url # NoUrl) /\ u.internal_view = "new_tab"
<1>1. StripTheory!UnloadedTab(id, p) =
        [StripTheory!BlankTab(id, "new_tab") EXCEPT
           !.url = p.url, !.history = p.history, !.history_index = Cursor(p),
           !.needs_reload = p.url # NoUrl, !.pending_scroll = p.scroll]
  BY DEF StripTheory!UnloadedTab, Cursor
<1> QED
  BY <1>1 DEF StripTheory!BlankTab

LEMMA AsReadFields ==
  ASSUME NEW p, NEW d, AsRead(p, d)
  PROVE  /\ p.history \in Seq(Urls) /\ DOMAIN p.history = 1..Len(p.history)
         /\ p.url \in Urls \cup {NoUrl} /\ p.history_index \in Nat
         /\ ~(p.history = <<>> /\ p.url # NoUrl)
         /\ \A k \in 1..Len(p.history) :
              ReadBack[p.history[k]] = p.history[k] /\ ReadBack[p.history[k]] # NoUrl
<1>1. /\ p.history \in Seq(Urls) /\ DOMAIN p.history = 1..Len(p.history)
      /\ p.url \in Urls \cup {NoUrl} /\ p.history_index \in Nat
  BY DEF AsRead, Strip!RestoredTab, Strip!MaybeUrl
<1>2. ~(p.history = <<>> /\ p.url # NoUrl)
  BY DEF AsRead
<1>3. \A k \in 1..Len(p.history) : p.history[k] \in Urls
  BY <1>1
<1> QED
  BY <1>1, <1>2, <1>3, ReadBackFacts DEF AsRead

\* A tab that has been read is sound before it is loaded.
LEMMA UnloadedSound ==
  ASSUME NEW id \in Nat, NEW p, NEW d \in BOOLEAN, AsRead(p, d)
  PROVE  StripTheory!Sound(StripTheory!UnloadedTab(id, p), d)
<1> DEFINE u == StripTheory!UnloadedTab(id, p)
<1>1. /\ u.page = StripTheory!Placeholder /\ u.url = p.url /\ u.history = p.history
      /\ u.history_index = Cursor(p) /\ u.internal_view = "new_tab"
  BY AsReadFields, UnloadedFields
<1>2. u.page.doc = NoUrl
  BY <1>1 DEF StripTheory!Placeholder, StripTheory!Fresh
<1>3. p \in StripTheory!RestoredTab
  BY SameRestored DEF AsRead
<1>4. p.url = NoUrl \/ (p.history_index \in DOMAIN p.history
                       /\ p.history[p.history_index] = p.url) => StripTheory!Agrees(u)
  BY <1>3, StripFacts, StripTheory!UnloadedAgrees
<1> SUFFICES StripTheory!Sound(u, d)
  OBVIOUS
<1> HIDE DEF u
<1>5. StripTheory!ReadPast(u.history)
  <2>1. \A k \in 2..Len(p.history) : k \in 1..Len(p.history)
    BY AsReadFields
  <2> QED
    BY <1>1, <2>1, AsReadFields DEF StripTheory!ReadPast
<1>6. CASE d /\ \E i \in DOMAIN p.history :
                  /\ p.history[i] = p.url
                  /\ Cursor(p) = IF i = Len(p.history) THEN 0 ELSE i + 1
  <2>1. StripTheory!Slipped(u)
    BY <1>1, <1>2, <1>6, AsReadFields DEF StripTheory!Slipped
  <2> QED
    BY <1>5, <1>6, <2>1 DEF StripTheory!Sound
<1>7. CASE StripTheory!Agrees(u)
  BY <1>5, <1>7 DEF StripTheory!Sound
<1> QED
  BY <1>4, <1>6, <1>7 DEF AsRead, Cursor

\* Restoring it again changes nothing.
LEMMA RestoredAgain ==
  ASSUME NEW id, NEW p, NEW d, AsRead(p, d)
  PROVE  AsRestored(SessionTab(StripTheory!UnloadedTab(id, p)))
         = SessionTab(Strip!UnloadedTab(0, p))
<1> DEFINE u == StripTheory!UnloadedTab(id, p)
           s == [url |-> p.url, scroll |-> 0, history |-> p.history,
                 history_index |-> Cursor(p)]
<1>1. StripTheory!Placeholder.scroll = 0
  BY DEF StripTheory!Placeholder, StripTheory!Fresh
<1>2. SessionTab(u) = s
  <2>1. /\ u.page = StripTheory!Placeholder /\ u.url = p.url /\ u.history = p.history
        /\ u.history_index = Cursor(p)
    BY AsReadFields, UnloadedFields
  <2> QED
    BY <1>1, <2>1 DEF SessionTab
<1>3. SessionTab(Strip!UnloadedTab(0, p)) = s
  <2> DEFINE v == StripTheory!UnloadedTab(0, p)
  <2>1. /\ v.page = StripTheory!Placeholder /\ v.url = p.url /\ v.history = p.history
        /\ v.history_index = Cursor(p)
    BY AsReadFields, UnloadedFields
  <2>2. SessionTab(v) = s
    BY <1>1, <2>1 DEF SessionTab
  <2> QED
    BY <2>2, SameTabs
<1>4. /\ s.url = p.url /\ s.history = p.history /\ s.history_index = Cursor(p)
      /\ s = [url |-> s.url, scroll |-> 0, history |-> s.history,
              history_index |-> s.history_index]
  OBVIOUS
<1>5. /\ s \in Strip!RestoredTab
      /\ ParsedTab(s) =
           [url |-> IF s.url = NoUrl THEN NoUrl ELSE ReadBack[s.url], scroll |-> 0,
            history |-> ParsedHistory(s.history), history_index |-> s.history_index]
  <2>1. Cursor(p) \in Nat /\ 0 \in Rooms /\ p.url \in Urls \cup {NoUrl}
        /\ p.history \in Seq(Urls)
    BY AsReadFields, StripFacts DEF Cursor, StripTheory!ConstantsAssumption
  <2>2. s \in Strip!RestoredTab
    BY <2>1 DEF Strip!RestoredTab, Strip!MaybeUrl
  <2>3. s.scroll = 0
    OBVIOUS
  <2> HIDE DEF s
  <2> QED
    BY <2>2, <2>3, ParsedFields
<1> HIDE DEF s
<1>6. ParsedHistory(p.history) = p.history
  <2> DEFINE h == ParsedHistory(p.history)
  <2>1. /\ h \in Seq(Urls) /\ Len(h) = Len(p.history)
        /\ \A k \in 1..Len(p.history) : h[k] = p.history[k]
    BY AsReadFields, ReadAll
  <2> HIDE DEF h
  <2>2. h = p.history
    BY <2>1, AsReadFields
  <2> QED
    BY <2>2 DEF h
<1>7. ParsedTab(s) = s
  <2>1. (IF s.url = NoUrl THEN NoUrl ELSE ReadBack[s.url]) = s.url
    BY <1>4 DEF AsRead
  <2> QED
    BY <1>4, <1>6, <1>5, <2>1
<1>8. SessionTab(Strip!UnloadedTab(0, s)) = s
  <2> DEFINE v == StripTheory!UnloadedTab(0, s)
  <2>1. ~(s.history = <<>> /\ s.url # NoUrl)
    BY <1>4, AsReadFields
  <2>2. /\ v.page = StripTheory!Placeholder /\ v.url = s.url /\ v.history = s.history
        /\ v.history_index = Cursor(s)
    BY <2>1, UnloadedFields
  <2>3. Cursor(s) = s.history_index
    BY <1>4, AsReadFields DEF Cursor
  <2>4. SessionTab(v) = s
    BY <1>1, <1>4, <2>2, <2>3 DEF SessionTab
  <2> QED
    BY <2>4, SameTabs
<1> QED
  BY <1>2, <1>3, <1>7, <1>8 DEF AsRestored

\* How far a tab is scrolled does not come back.
LEMMA ScrollForgotten ==
  ASSUME NEW t, NEW u, t.url = u.url, t.history = u.history,
         t.history_index = u.history_index
  PROVE  AsRestored(SessionTab(t)) = AsRestored(SessionTab(u))
<1>1. ASSUME NEW p, NEW q, p.url = q.url, p.history = q.history,
             p.history_index = q.history_index
      PROVE  SessionTab(Strip!UnloadedTab(0, p)) = SessionTab(Strip!UnloadedTab(0, q))
  <2> DEFINE seeded == q.history = <<>> /\ q.url # NoUrl
             h == IF seeded THEN <<q.url>> ELSE q.history
             i == IF seeded THEN 1 ELSE q.history_index
             x == IF i \in DOMAIN h THEN i ELSE 0
             v == Strip!UnloadedTab(0, p)
             w == Strip!UnloadedTab(0, q)
  <2>1. /\ v.page = Strip!Placeholder /\ v.url = q.url /\ v.history = h
        /\ v.history_index = x
    BY <1>1 DEF Strip!UnloadedTab, Strip!BlankTab
  <2>2. /\ w.page = Strip!Placeholder /\ w.url = q.url /\ w.history = h
        /\ w.history_index = x
    BY DEF Strip!UnloadedTab, Strip!BlankTab
  <2> HIDE DEF v, w, h, x
  <2>3. SessionTab(v) = SessionTab(w)
    BY <2>1, <2>2 DEF SessionTab
  <2> QED
    BY <2>3 DEF v, w
<1> DEFINE p == ParsedTab(SessionTab(t))
           q == ParsedTab(SessionTab(u))
<1>2. p.url = q.url /\ p.history = q.history /\ p.history_index = q.history_index
  BY DEF ParsedTab, SessionTab
<1> HIDE DEF p, q
<1>3. SessionTab(Strip!UnloadedTab(0, p)) = SessionTab(Strip!UnloadedTab(0, q))
  BY <1>1, <1>2
<1> QED
  BY <1>3 DEF AsRestored, p, q

\* The session that restore reads: every tab of it has been read.
LEMMA ParsedSession ==
  ASSUME NEW s, NEW d \in BOOLEAN, NEW e \in BOOLEAN, WholeSession(s, d), d \/ Drops(s) => e
  PROVE  /\ Parsed(s).tabs \in Seq(Strip!RestoredTab)
         /\ Len(Parsed(s).tabs) = Len(s.tabs) /\ Parsed(s).tabs # <<>>
         /\ Parsed(s).active_tab_index = s.active_tab_index
         /\ s.active_tab_index \in 1..Len(s.tabs) /\ Len(s.tabs) \in Nat
         /\ \A k \in 1..Len(s.tabs) :
              Parsed(s).tabs[k] = ParsedTab(s.tabs[k]) /\ AsRead(ParsedTab(s.tabs[k]), e)
<1>1. /\ DOMAIN s.tabs = 1..Len(s.tabs) /\ Len(s.tabs) \in Nat
      /\ s.active_tab_index \in 1..Len(s.tabs)
      /\ \A k \in 1..Len(s.tabs) : s.tabs[k] \in Strip!RestoredTab /\ Whole(s.tabs[k], d)
  BY DEF WholeSession
<1>2. \A k \in 1..Len(s.tabs) : AsRead(ParsedTab(s.tabs[k]), e)
  <2> TAKE k \in 1..Len(s.tabs)
  <2>1. d \/ Kept(s.tabs[k].history) # DOMAIN s.tabs[k].history => e
    BY <1>1 DEF Drops
  <2> QED
    BY <1>1, <2>1, ParsedTabRead
<1> DEFINE parsed == [k \in 1..Len(s.tabs) |-> ParsedTab(s.tabs[k])]
<1>3. Parsed(s).tabs = parsed /\ Parsed(s).active_tab_index = s.active_tab_index
  BY <1>1 DEF Parsed
<1>4. parsed \in Seq(Strip!RestoredTab) /\ Len(parsed) = Len(s.tabs)
  <2>1. \A k \in 1..Len(s.tabs) : ParsedTab(s.tabs[k]) \in Strip!RestoredTab
    BY <1>2 DEF AsRead
  <2> QED
    BY <1>1, <2>1, IsASeq
<1>5. \A k \in 1..Len(s.tabs) : parsed[k] = ParsedTab(s.tabs[k])
  OBVIOUS
<1> HIDE DEF parsed
<1>6. parsed # <<>>
  BY <1>1, <1>4
<1> QED
  BY <1>1, <1>2, <1>3, <1>4, <1>5, <1>6

LEMMA RestoredOK ==
  ASSUME dropped \in BOOLEAN, WholeSession(stored, dropped), UNCHANGED stored,
         dropped' = (dropped \/ Drops(stored)),
         NEW m \in Strip!RestoredManagers(Parsed(stored)),
         tabs' = m.tabs, active_tab' = m.active_tab, next_tab_id' = m.next_tab_id
  PROVE  StripOK' /\ BackgroundStored'
<1> DEFINE s == Parsed(stored)
           n == Len(stored.tabs)
           a == stored.active_tab_index
           unloaded(k) == StripTheory!UnloadedTab(k - 1, s.tabs[k])
<1>1. dropped' \in BOOLEAN
  OBVIOUS
<1>2. /\ s.tabs \in Seq(StripTheory!RestoredTab) /\ Len(s.tabs) = n /\ s.tabs # <<>>
      /\ s.active_tab_index = a /\ a \in 1..n /\ n \in Nat
      /\ \A k \in 1..n : s.tabs[k] = ParsedTab(stored.tabs[k]) /\ AsRead(s.tabs[k], dropped')
  BY <1>1, ParsedSession, SameRestored
<1>3. m \in StripTheory!RestoredManagers(s)
  BY SameManagers
<1> HIDE DEF s
<1>4. StripTheory!Inv'
  <2>1. s.active_tab_index \in Nat \ {0}
    BY <1>2
  <2>2. StripTheory!GoodStrip(m.tabs, m.active_tab, m.next_tab_id)
    BY <1>2, <1>3, <2>1, StripFacts, StripTheory!RestoredStrip
  <2> QED
    BY <2>2 DEF StripTheory!Inv
<1>5. StripTheory!Clamp(a, n) = a
  BY <1>2 DEF StripTheory!Clamp
<1>6. PICK t \in StripTheory!EnsureLoaded(unloaded(a)) :
        /\ ~t.needs_reload
        /\ m = StripTheory!Manager([k \in 1..n |-> IF k = a THEN t ELSE unloaded(k)], a - 1, n)
  BY <1>2, <1>3, <1>5 DEF StripTheory!RestoredManagers
<1>7. /\ tabs' = [k \in 1..n |-> IF k = a THEN t ELSE unloaded(k)]
      /\ active_tab' = a - 1
  BY <1>6 DEF StripTheory!Manager
<1>8. \A k \in 1..n : /\ StripTheory!WellFormed(unloaded(k)) /\ unloaded(k).id = k - 1
                      /\ StripTheory!Sound(unloaded(k), dropped')
  <2> TAKE k \in 1..n
  <2>1. k - 1 \in Nat /\ s.tabs[k] \in StripTheory!RestoredTab
    BY <1>2
  <2> QED
    BY <1>1, <1>2, <2>1, StripFacts, StripTheory!UnloadedTabOK, UnloadedSound
<1> HIDE DEF unloaded
<1>9. /\ StripTheory!WellFormed(t) /\ t.id = a - 1
      /\ StripTheory!Sound(t, dropped') /\ StripTheory!TabLoadable(t)
  <2>1. StripTheory!TabLoadable(t)
    BY <1>6 DEF StripTheory!TabLoadable
  <2>2. StripTheory!Evolves(unloaded(a), t)
    BY <1>6, StripFacts, StripTheory!EnsureLoadedEvolves
  <2>3. StripTheory!Sound(t, dropped')
    BY <1>1, <1>2, <1>8, <2>1, <2>2, StripFacts, StripTheory!EvolvesSound
  <2> QED
    BY <1>2, <1>6, <1>8, <2>1, <2>3, StripFacts, StripTheory!EnsureLoadedOK
<1>10. DOMAIN tabs' = 1..n /\ Len(tabs') = n
  <2>1. DOMAIN tabs' = 1..n
    BY <1>7
  <2>2. tabs' \in Seq(StripTheory!BrowserTab)
    BY <1>4 DEF StripTheory!Inv, StripTheory!GoodStrip
  <2> QED
    BY <1>2, <2>1, <2>2
<1>11. StripTheory!Current' = t
  <2>1. a \in 1..Len(tabs') /\ tabs'[a] = t /\ tabs'[a].id = active_tab'
    BY <1>2, <1>7, <1>9, <1>10
  <2> QED
    BY <1>4, <2>1, StripFacts, StripTheory!CurrentPlace
<1>12. StripOK'
  <2>1. \A k \in 1..Len(tabs') : StripTheory!Sound(tabs'[k], dropped')
    BY <1>7, <1>8, <1>9, <1>10
  <2>2. StripTheory!TabLoadable(StripTheory!Current')
    BY <1>9, <1>11
  <2> QED
    BY <1>1, <1>4, <2>1, <2>2, StripOKNext
<1>13. Strip!Active' = a
  <2>1. \A k \in 1..n : tabs'[k].id = active_tab' => k = a
    <3> SUFFICES ASSUME NEW k \in 1..n, k # a PROVE tabs'[k].id # active_tab'
      OBVIOUS
    <3>1. tabs'[k].id = k - 1 /\ active_tab' = a - 1
      BY <1>7, <1>8
    <3>2. k \in Int /\ a \in Int
      BY <1>2
    <3> HIDE DEF a, n
    <3> QED
      BY <3>1, <3>2
  <2>2. a \in DOMAIN tabs' /\ tabs'[a].id = active_tab'
    BY <1>2, <1>7, <1>9, <1>10
  <2> QED
    BY <1>10, <2>1, <2>2 DEF Strip!Active
<1>14. \A k \in 1..n : k # a =>
         AsRestored(SessionTab(tabs'[k])) = AsRestored(stored.tabs[k])
  <2> SUFFICES ASSUME NEW k \in 1..n, k # a
               PROVE  AsRestored(SessionTab(tabs'[k])) = AsRestored(stored.tabs[k])
    OBVIOUS
  <2>1. tabs'[k] = StripTheory!UnloadedTab(k - 1, s.tabs[k])
    BY <1>7 DEF unloaded
  <2>2. AsRestored(SessionTab(tabs'[k])) = SessionTab(Strip!UnloadedTab(0, s.tabs[k]))
    BY <1>2, <2>1, RestoredAgain
  <2>3. s.tabs[k] = ParsedTab(stored.tabs[k])
    BY <1>2
  <2> QED
    BY <2>2, <2>3 DEF AsRestored
<1> QED
  BY <1>10, <1>12, <1>13, <1>14 DEF BackgroundStored

-----------------------------------------------------------------------------
(* What stays where it is when only the active tab changes.                 *)

LEMMA PlacesOfStrip ==
  ASSUME StripOK
  PROVE  /\ DOMAIN tabs = 1..Len(tabs) /\ Len(tabs) \in Nat
         /\ Strip!Active \in 1..Len(tabs) /\ tabs[Strip!Active].id = active_tab
         /\ \A i, j \in 1..Len(tabs) : tabs[i].id = tabs[j].id => i = j
         /\ \A i \in 1..Len(tabs) : tabs[i] \in StripTheory!BrowserTab
<1>1. /\ DOMAIN tabs = 1..Len(tabs) /\ Len(tabs) \in Nat
      /\ \A i, j \in 1..Len(tabs) : tabs[i].id = tabs[j].id => i = j
      /\ \A i \in 1..Len(tabs) : tabs[i] \in StripTheory!BrowserTab
  BY DEF StripOK, StripTheory!Inv, StripTheory!GoodStrip, StripTheory!WellFormed
<1>2. Strip!Active \in 1..Len(tabs) /\ tabs[Strip!Active].id = active_tab
  BY StripFacts, SamePlace, StripTheory!ActiveOK DEF StripOK, StripTheory!Current
<1> QED
  BY <1>1, <1>2

LEMMA ActivePlace ==
  StripOK => Strip!Active \in 1..Len(tabs) /\ tabs[Strip!Active].id = active_tab
BY PlacesOfStrip

LEMMA ReplaceKeepsPlaces ==
  ASSUME StripOK, StripOK', NEW t, Strip!Replace(t)
  PROVE  /\ Len(tabs') = Len(tabs) /\ Strip!Active' = Strip!Active
         /\ Strip!Current' = t
         /\ \A i \in 1..Len(tabs) : i # Strip!Active => tabs'[i] = tabs[i]
<1> DEFINE a == Strip!Active
<1>1. tabs' = [tabs EXCEPT ![a] = t] /\ active_tab' = active_tab
  BY DEF Strip!Replace
<1>2. /\ DOMAIN tabs = 1..Len(tabs) /\ Len(tabs) \in Nat
      /\ a \in 1..Len(tabs) /\ tabs[a].id = active_tab
      /\ \A i, j \in 1..Len(tabs) : tabs[i].id = tabs[j].id => i = j
  BY PlacesOfStrip
<1>3. DOMAIN tabs' = 1..Len(tabs') /\ Len(tabs') \in Nat
  BY DEF StripOK, StripTheory!Inv, StripTheory!GoodStrip
<1> DEFINE b == Strip!Active'
<1>4. b \in DOMAIN tabs' /\ tabs'[b].id = active_tab'
  <2>1. \E i \in DOMAIN tabs' : tabs'[i].id = active_tab'
    BY <1>3 DEF StripOK, StripTheory!Inv, StripTheory!GoodStrip
  <2> QED
    BY <2>1 DEF Strip!Active
<1> HIDE DEF a, b
<1>5. DOMAIN tabs' = DOMAIN tabs /\ tabs'[a] = t
      /\ \A i \in 1..Len(tabs) : i # a => tabs'[i] = tabs[i]
  BY <1>1, <1>2
<1>6. Len(tabs') = Len(tabs)
  <2>1. Len(tabs) \in 1..Len(tabs')
    BY <1>2, <1>3, <1>5
  <2>2. Len(tabs') \in 1..Len(tabs)
    BY <1>2, <1>3, <1>5, <2>1
  <2> DEFINE n == Len(tabs)
             m == Len(tabs')
  <2>3. n \in Nat /\ m \in Nat /\ n \in 1..m /\ m \in 1..n
    BY <1>2, <1>3, <2>1, <2>2
  <2> HIDE DEF n, m
  <2>4. n = m
    BY <2>3
  <2> QED
    BY <2>4 DEF n, m
<1>7. b = a
  BY <1>1, <1>2, <1>4, <1>5
<1>8. Strip!Current' = tabs'[b]
  BY DEF Strip!Current, b
<1> QED
  BY <1>5, <1>6, <1>7, <1>8 DEF a, b

LEMMA ReplaceKeepsStored ==
  ASSUME StripOK, StripOK', BackgroundStored, UNCHANGED stored, NEW t, Strip!Replace(t)
  PROVE  BackgroundStored'
BY ReplaceKeepsPlaces DEF BackgroundStored

LEMMA OnActiveReplaces == OnActive \/ Rerendered => \E t : Strip!Replace(t)
BY DEF OnActive, Rerendered, Strip!NavigateActive, Strip!BackActive, Strip!ForwardActive,
   Strip!ReloadActive, Strip!ShowErrorOnActive, Strip!HomeActive, Strip!ShowNativeOnActive,
   Strip!ScrollActive

\* A resize changes pages only.
LEMMA ResizeKeepsPlaces ==
  ASSUME StripOK, StripOK', Strip!Resize
  PROVE  /\ Len(tabs') = Len(tabs) /\ Strip!Active' = Strip!Active
         /\ \A i \in 1..Len(tabs) :
              /\ tabs'[i].url = tabs[i].url
              /\ AsRestored(SessionTab(tabs'[i])) = AsRestored(SessionTab(tabs[i]))
<1>1. PICK page : tabs' = [i \in DOMAIN tabs |-> [tabs[i] EXCEPT !.page = page[i]]]
  BY DEF Strip!Resize
<1>2. /\ DOMAIN tabs = 1..Len(tabs) /\ Len(tabs) \in Nat
      /\ \A i \in 1..Len(tabs) : tabs[i] \in StripTheory!BrowserTab
  BY PlacesOfStrip
<1>3. DOMAIN tabs' = 1..Len(tabs') /\ Len(tabs') \in Nat
  BY DEF StripOK, StripTheory!Inv, StripTheory!GoodStrip
<1>4. Len(tabs') = Len(tabs)
  BY <1>1, <1>2, <1>3
<1>5. \A i \in 1..Len(tabs) :
        /\ tabs'[i].id = tabs[i].id /\ tabs'[i].url = tabs[i].url
        /\ tabs'[i].history = tabs[i].history
        /\ tabs'[i].history_index = tabs[i].history_index
  <2> TAKE i \in 1..Len(tabs)
  <2>1. tabs'[i] = [tabs[i] EXCEPT !.page = page[i]]
    BY <1>1, <1>2
  <2>2. tabs[i] \in StripTheory!BrowserTab
    BY <1>2
  <2> QED
    BY <2>1, <2>2 DEF StripTheory!BrowserTab
<1>6. active_tab' = active_tab
  BY DEF Strip!Resize
<1>7. Strip!Active' = Strip!Active
  <2>1. Strip!Active' = CHOOSE i \in 1..Len(tabs) : tabs'[i].id = active_tab
    BY <1>3, <1>4, <1>6 DEF Strip!Active
  <2>2. Strip!Active = CHOOSE i \in 1..Len(tabs) : tabs[i].id = active_tab
    BY <1>2 DEF Strip!Active
  <2> QED
    BY <1>5, <2>1, <2>2
<1> QED
  BY <1>4, <1>5, <1>7, ScrollForgotten

LEMMA ResizeKeepsStored ==
  ASSUME StripOK, StripOK', BackgroundStored, UNCHANGED stored, Strip!Resize
  PROVE  BackgroundStored'
BY ResizeKeepsPlaces DEF BackgroundStored

-----------------------------------------------------------------------------
(* What a command does to the strip and to what is stored.                  *)

StripMoves == StripTheory!Next \/ UNCHANGED strip \/ Rerendered

StoreMoves ==
  \/ Persist
  \/ UNCHANGED stored /\ strip_saved' = FALSE
  \/ /\ UNCHANGED <<stored, strip_saved>>
     /\ UNCHANGED strip \/ (\E t : Strip!Replace(t)) \/ Strip!Resize

Moves == Running' /\ UNCHANGED dropped /\ StripMoves /\ StoreMoves

LEMMA OnStripMoves == OnStrip => Moves
<1>1. CASE NewTab
  BY <1>1, SameCommands DEF NewTab, StripCommand, Moves, StripMoves, StoreMoves, Running,
     StripTheory!Next
<1>2. CASE ReleaseTab
  BY <1>2 DEF ReleaseTab, Moves, StripMoves, StoreMoves, Running
<1>3. ASSUME NEW i \in DOMAIN tabs, SwitchTab(i) \/ CloseTab(i)
      PROVE  Moves
  <2>1. Running' /\ UNCHANGED dropped /\ StripTheory!Next
    BY <1>3, SameCommands DEF SwitchTab, CloseTab, StripCommand, Running, StripTheory!Next
  <2>2. Persist \/ (UNCHANGED stored /\ strip_saved' = FALSE)
    BY <1>3 DEF SwitchTab, CloseTab, StripCommand, Skipped
  <2> QED
    BY <2>1, <2>2 DEF Moves, StripMoves, StoreMoves
<1>4. ASSUME NEW i \in DOMAIN tabs, NEW j \in DOMAIN tabs, ReorderTab(i, j) \/ DragTab(i, j)
      PROVE  Moves
  <2>1. Running' /\ UNCHANGED dropped /\ StripTheory!Next
    BY <1>4, SameCommands DEF ReorderTab, DragTab, Command, Running, StripTheory!Next
  <2>2. Persist \/ (UNCHANGED stored /\ strip_saved' = FALSE)
    BY <1>4 DEF ReorderTab, DragTab, Command
  <2> QED
    BY <2>1, <2>2 DEF Moves, StripMoves, StoreMoves
<1> QED
  BY <1>1, <1>2, <1>3, <1>4 DEF OnStrip

LEMMA OnPageMoves == OnPage => Moves
<1>1. CASE (\E u \in Urls : Navigate(u)) \/ Back \/ Forward
  <2>1. Running' /\ UNCHANGED dropped /\ OnActive /\ Persist
    BY <1>1 DEF Navigate, Back, Forward, Command, AfterNavigation, OnActive, Running
  <2> QED
    BY <2>1, SameOnActive DEF Moves, StripMoves, StoreMoves
<1>2. CASE Reload \/ Home \/ OpenView \/ Scroll
  <2>1. Running' /\ UNCHANGED dropped /\ OnActive /\ UNCHANGED <<stored, strip_saved>>
    BY <1>2 DEF Reload, Home, OpenView, Scroll, Quiet, Command, OnActive, Running
  <2> QED
    BY <2>1, SameOnActive, OnActiveReplaces DEF Moves, StripMoves, StoreMoves
<1>3. CASE ClickPage \/ PageInput
  <2>1. /\ Running' /\ UNCHANGED dropped
        /\ Rerendered \/ UNCHANGED strip
        /\ UNCHANGED <<stored, strip_saved>>
    BY <1>3 DEF ClickPage, PageInput, Quiet, Command, Running
  <2> QED
    BY <2>1, OnActiveReplaces DEF Moves, StripMoves, StoreMoves
<1>4. CASE Resize
  <2>1. Running' /\ UNCHANGED dropped /\ Strip!Resize /\ UNCHANGED <<stored, strip_saved>>
    BY <1>4 DEF Resize, Quiet, Command, Running
  <2> QED
    BY <2>1, SameCommands DEF Moves, StripMoves, StoreMoves, StripTheory!Next
<1> QED
  BY <1>1, <1>2, <1>3, <1>4 DEF OnPage

LEMMA OnBarMoves == OnBar => Moves
<1>1. ASSUME NEW b, NEW f, BarOnly(b, f) PROVE Moves
  BY <1>1 DEF BarOnly, Command, Moves, StripMoves, StoreMoves, Running
<1>2. ASSUME SubmitLoads PROVE Moves
  <2>1. Navigate(bar.draft) /\ bar.draft \in Urls
    BY <1>2 DEF SubmitLoads, Resolves
  <2> QED
    BY <2>1, OnPageMoves DEF OnPage
<1>3. ASSUME SubmitFails PROVE Moves
  <2>1. Running' /\ UNCHANGED dropped /\ OnActive /\ UNCHANGED <<stored, strip_saved>>
    BY <1>3 DEF SubmitFails, Command, OnActive, Running
  <2> QED
    BY <2>1, SameOnActive, OnActiveReplaces DEF Moves, StripMoves, StoreMoves
<1> QED
  BY <1>1, <1>2, <1>3 DEF OnBar, FocusAddressBar, EditDraft, Escape, AddressBarSubmit,
     SubmitUnresolved, SuggestionFails

LEMMA MovesInv ==
  ASSUME AppInv, Running, Moves
  PROVE  StripOK' /\ AppInv'
<1>1. StripOK
  BY DEF AppInv
<1>2. StripOK'
  BY <1>1, StripStepOK, RerenderedOK DEF Moves, StripMoves
<1>3. stored' # NoSession => WholeSession(stored', dropped')
  <2>1. (StripOK => WholeSession(Snapshot, dropped) /\ Len(Snapshot.tabs) = Len(tabs))'
    BY SnapshotWhole, PTL
  <2>2. WholeSession(Snapshot', dropped')
    BY <1>2, <2>1
  <2>3. (stored' = Snapshot' \/ stored' = stored) /\ dropped' = dropped
    BY DEF Moves, StoreMoves, Persist
  <2> QED
    BY <2>2, <2>3 DEF AppInv
<1>4. strip_saved' => BackgroundStored'
  <2>1. CASE stored' = Snapshot'
    <3>1. (StripOK /\ stored = Snapshot => BackgroundStored)'
      BY SnapshotStored, PTL
    <3> QED
      BY <1>2, <2>1, <3>1
  <2>2. CASE strip_saved' = FALSE
    BY <2>2
  <2>3. CASE UNCHANGED <<stored, strip_saved>> /\ UNCHANGED strip
    <3>1. BackgroundStored => BackgroundStored'
      BY <2>3 DEF strip, BackgroundStored, Strip!Active
    <3> QED
      BY <2>3, <3>1 DEF AppInv
  <2>4. CASE UNCHANGED <<stored, strip_saved>> /\ \E t : Strip!Replace(t)
    BY <1>1, <1>2, <2>4, ReplaceKeepsStored DEF AppInv
  <2>5. CASE UNCHANGED <<stored, strip_saved>> /\ Strip!Resize
    BY <1>1, <1>2, <2>5, ResizeKeepsStored DEF AppInv
  <2> QED
    BY <2>1, <2>2, <2>3, <2>4, <2>5 DEF Moves, StoreMoves, Persist
<1> QED
  BY <1>1, <1>2, <1>3, <1>4 DEF AppInv, StripOK, Running, Moves

-----------------------------------------------------------------------------
(* Launching and leaving.                                                   *)

LEMMA FreshStripOK ==
  ASSUME NEW m \in StripTheory!InitialManagers, dropped' \in BOOLEAN,
         tabs' = m.tabs, active_tab' = m.active_tab, next_tab_id' = m.next_tab_id
  PROVE  StripOK'
<1>1. PICK t : /\ m.tabs = <<t>> /\ m.active_tab = 0 /\ t.id = 0
               /\ StripTheory!Agrees(t) /\ Len(t.history) <= 1
  <2>1. CASE m = StripTheory!NewManager \/ m = StripTheory!ErrorManager
    <3>1. PICK view \in StripTheory!Views \ {"none"} :
            m = StripTheory!Manager(<<StripTheory!BlankTab(0, view)>>, 0, 1)
      BY <2>1 DEF StripTheory!NewManager, StripTheory!ErrorManager, StripTheory!Views
    <3> DEFINE t == StripTheory!BlankTab(0, view)
    <3>2. StripTheory!Agrees(t) /\ t.id = 0 /\ t.history = <<>>
      BY StripFacts, StripTheory!BlankAgrees DEF StripTheory!BlankTab
    <3> QED
      BY <3>1, <3>2 DEF StripTheory!Manager
  <2>2. CASE \E e \in Redirects, r \in Rooms : m = StripTheory!LoadedManager(e[2], r)
    <3>1. PICK f \in Urls, r \in Rooms : m = StripTheory!LoadedManager(f, r)
      BY <2>2, BarAssumption
    <3> DEFINE t == StripTheory!LoadedTab(0, f, r)
    <3>2. StripTheory!Agrees(t) /\ t.id = 0 /\ t.history = <<f>>
      BY StripFacts, StripTheory!LoadedAgrees
         DEF StripTheory!LoadedTab, StripTheory!BlankTab
    <3>3. Len(<<f>>) <= 1
      OBVIOUS
    <3>4. m.tabs = <<t>> /\ m.active_tab = 0
      BY <3>1 DEF StripTheory!LoadedManager, StripTheory!Manager
    <3> HIDE DEF t
    <3> QED
      BY <3>2, <3>3, <3>4
  <2> QED
    BY <2>1, <2>2 DEF StripTheory!InitialManagers
<1>2. StripTheory!Inv'
  <2>1. (StripTheory!Init => StripTheory!Inv)'
    BY StripFacts, StripTheory!InitInv, PTL
  <2>2. StripTheory!Init'
    BY DEF StripTheory!Init
  <2> QED
    BY <2>1, <2>2
<1>3. tabs' = <<t>> /\ Len(tabs') = 1 /\ tabs'[1] = t /\ tabs'[1].id = active_tab'
  BY <1>1
<1>4. StripTheory!Current' = t
  BY <1>2, <1>3, StripFacts, StripTheory!CurrentPlace
<1>5. StripTheory!Sound(t, dropped')
  <2>1. t.history \in Seq(Urls)
    BY <1>2, <1>3 DEF StripTheory!Inv, StripTheory!GoodStrip, StripTheory!BrowserTab
  <2>2. StripTheory!ReadPast(t.history)
    BY <1>1, <2>1 DEF StripTheory!ReadPast
  <2> QED
    BY <1>1, <2>2 DEF StripTheory!Sound
<1> QED
  BY <1>1, <1>2, <1>3, <1>4, <1>5, StripOKNext DEF StripTheory!Agrees

LEMMA LaunchInv ==
  ASSUME AppInv, Start, Running'
  PROVE  StripOK' /\ AppInv'
<1>1. UNCHANGED stored /\ dropped \in BOOLEAN /\ dropped' \in BOOLEAN
      /\ (dropped => dropped')
  BY DEF Start, LaunchBlank, LaunchRestored, LaunchFails, LaunchTarget, Open, AppInv
<1>2. stored' # NoSession => WholeSession(stored', dropped')
  BY <1>1, WholeLater DEF AppInv
<1>3. CASE LaunchBlank
  <2>1. /\ StripTheory!NewManager \in StripTheory!InitialManagers
        /\ strip_saved' = FALSE
        /\ tabs' = StripTheory!NewManager.tabs
        /\ active_tab' = StripTheory!NewManager.active_tab
        /\ next_tab_id' = StripTheory!NewManager.next_tab_id
    BY <1>3, SameManagers DEF LaunchBlank, Open, StripTheory!InitialManagers
  <2> QED
    BY <1>1, <1>2, <2>1, FreshStripOK DEF AppInv
<1>4. ASSUME NEW u \in Urls, LaunchTarget(u) PROVE StripOK' /\ AppInv'
  <2>1. PICK m \in StripTheory!InitialManagers :
          /\ tabs' = m.tabs /\ active_tab' = m.active_tab /\ next_tab_id' = m.next_tab_id
    <3>1. CASE \E f \in Strip!Load(u), r \in Rooms :
                 Open(Strip!LoadedManager(f, r), BarShowing(f))
      <4>1. PICK f \in Strip!Load(u), r \in Rooms :
                   Open(Strip!LoadedManager(f, r), BarShowing(f))
        BY <3>1
      <4>2. <<u, f>> \in Redirects /\ <<u, f>>[2] = f
        BY <4>1 DEF Strip!Load
      <4>3. StripTheory!LoadedManager(f, r) \in StripTheory!InitialManagers
        BY <4>2 DEF StripTheory!InitialManagers
      <4> QED
        BY <4>1, <4>3, SameManagers DEF Open
    <3>2. CASE Open(Strip!ErrorManager, [BarShowing(NoUrl) EXCEPT !.draft = u])
      BY <3>2, SameManagers DEF Open, StripTheory!InitialManagers
    <3> QED
      BY <1>4, <3>1, <3>2 DEF LaunchTarget
  <2>2. strip_saved' = FALSE
    BY <1>4 DEF LaunchTarget
  <2> QED
    BY <1>1, <1>2, <2>1, <2>2, FreshStripOK DEF AppInv
<1>5. CASE LaunchRestored
  <2>1. PICK m \in Strip!RestoredManagers(Parsed(stored)) :
          /\ tabs' = m.tabs /\ active_tab' = m.active_tab /\ next_tab_id' = m.next_tab_id
    BY <1>5 DEF LaunchRestored, Open
  <2>2. WholeSession(stored, dropped) /\ dropped' = (dropped \/ Drops(stored))
    BY <1>5 DEF LaunchRestored, AppInv
  <2> QED
    BY <1>1, <1>2, <2>1, <2>2, RestoredOK DEF AppInv
<1>6. ~LaunchFails
  BY DEF LaunchFails, Running
<1> QED
  BY <1>3, <1>4, <1>5, <1>6 DEF Start

LEMMA StoppedInv ==
  ASSUME AppInv, Leave \/ LaunchFails
  PROVE  AppInv'
<1>1. ~Running' /\ UNCHANGED dropped
  BY DEF Leave, LaunchFails, Running
<1>2. stored' = stored \/ (StripOK /\ stored' = Snapshot)
  BY DEF Leave, LaunchFails, AppInv
<1>3. stored' # NoSession => WholeSession(stored', dropped')
  BY <1>1, <1>2, SnapshotWhole DEF AppInv
<1> QED
  BY <1>1, <1>3 DEF AppInv

LEMMA InitAppInv == Init => TypeOK /\ AppInv
<1> SUFFICES ASSUME Init PROVE TypeOK /\ AppInv
  OBVIOUS
<1>1. BarShowing(NoUrl) \in Bars
  BY DEF BarShowing, Bars, Drafts
<1>2. TypeOK
  BY <1>1 DEF Init, TypeOK
<1>3. ~Running /\ stored = NoSession /\ dropped = FALSE
  BY DEF Init, Running
<1> QED
  BY <1>2, <1>3 DEF AppInv

\* Every command is one of OnStrip, OnPage and OnBar, and needs a window.
LEMMA CommandsRun == OnStrip \/ OnPage \/ OnBar => Running
BY DEF OnStrip, NewTab, ReleaseTab, SwitchTab, CloseTab, ReorderTab, DragTab,
   StripCommand, Command, OnPage, Navigate, Back, Forward, Reload, Home, OpenView,
   Resize, Scroll, ClickPage, PageInput, Quiet, OnBar, FocusAddressBar, EditDraft,
   Escape, AddressBarSubmit, SubmitUnresolved, SubmitLoads, SubmitFails,
   SuggestionFails, BarOnly

LEMMA NextAppInv ==
  ASSUME AppInv, [Next]_vars
  PROVE  AppInv' /\ (Running' => StripOK')
<1>1. CASE UNCHANGED vars
  BY <1>1 DEF vars, strip, AppInv, Running, StripOK, StripTheory!Inv,
     BackgroundStored, Strip!Active, StripTheory!Active, StripTheory!Current
<1>2. CASE OnStrip \/ OnPage \/ OnBar
  BY <1>2, CommandsRun, OnStripMoves, OnPageMoves, OnBarMoves, MovesInv
<1>3. CASE Start
  BY <1>3, LaunchInv, StoppedInv
     DEF Start, LaunchBlank, LaunchRestored, LaunchFails, LaunchTarget, Open, Running
<1>4. CASE Leave
  BY <1>4, StoppedInv DEF Leave, Running
<1> QED
  BY <1>1, <1>2, <1>3, <1>4 DEF Next

LEMMA AppInvHolds == Spec => []AppInv
BY InitAppInv, NextAppInv, PTL DEF Spec

\* Whatever the strip has been through when it was saved (persist_session of
\* browser_app.rs), and however often it has been restored, each stored tab has
\* its cursor in its history and the entry there is its URL, or, once a restore
\* has dropped an entry (parse_restored_session of session.rs), the cursor is one past it.
THEOREM SessionCoherent == Spec => []StoredSessionCoherent
<1>1. AppInv => StoredSessionCoherent
  <2> SUFFICES ASSUME AppInv, stored # NoSession, NEW i \in DOMAIN stored.tabs
               PROVE  /\ stored.tabs[i].history_index \in 0..Len(stored.tabs[i].history)
                      /\ OnItsUrl(stored.tabs[i]) \/ (dropped /\ OnePast(stored.tabs[i]))
    BY DEF StoredSessionCoherent
  <2>1. i \in 1..Len(stored.tabs) /\ WholeSession(stored, dropped)
    BY DEF AppInv, WholeSession
  <2> QED
    BY <2>1 DEF WholeSession, Whole
<1> QED
  BY <1>1, AppInvHolds, PTL

\* A strip that comes from a stored session is as sound as a fresh one: the
\* active id names one tab, pages, URLs and histories agree, and a tab that is
\* not loaded has something to load.  After a restore that dropped an entry
\* (parse_restored_session of session.rs) a tab that shows nothing may be one entry off.
THEOREM RestoredStripSound == Spec => []StripSound
<1>1. AppInv => StripSound
  <2> SUFFICES ASSUME StripOK
               PROVE  /\ Strip!UniqueActiveTab
                      /\ \A i \in DOMAIN tabs :
                           \/ Strip!TabAgrees(tabs[i]) /\ Strip!TabLoadable(tabs[i])
                           \/ /\ dropped /\ OnePast(tabs[i])
                              /\ tabs[i].page.doc = NoUrl /\ tabs[i].internal_view # "none"
    BY DEF AppInv, StripSound
  <2>1. Strip!UniqueActiveTab
    <3>1. StripTheory!UniqueActiveTab
      BY StripFacts, StripTheory!InvImplies DEF StripOK
    <3> QED
      BY <3>1 DEF Strip!UniqueActiveTab, StripTheory!UniqueActiveTab
  <2>2. ASSUME NEW i \in DOMAIN tabs
        PROVE  \/ Strip!TabAgrees(tabs[i]) /\ Strip!TabLoadable(tabs[i])
               \/ /\ dropped /\ OnePast(tabs[i])
                  /\ tabs[i].page.doc = NoUrl /\ tabs[i].internal_view # "none"
    <3>1. StripTheory!Sound(tabs[i], dropped)
      BY <2>2, PlacesOfStrip DEF StripOK
    <3>2. CASE StripTheory!Agrees(tabs[i])
      BY <3>2 DEF StripTheory!Agrees, Strip!TabAgrees, StripTheory!TabAgrees,
         Strip!TabLoadable, StripTheory!TabLoadable
    <3>3. CASE dropped /\ StripTheory!Slipped(tabs[i])
      BY <3>3 DEF StripTheory!Slipped, OnePast
    <3> QED
      BY <3>1, <3>2, <3>3 DEF StripTheory!Sound
  <2> QED
    BY <2>1, <2>2
<1> QED
  BY <1>1, AppInvHolds, PTL

\* A crash loses the state of the active tab at most: when the last change was
\* saved (persist_session of browser_app.rs), every tab in the background comes
\* back in its place, as it would had it been saved now.
THEOREM BackgroundSurvives == Spec => []BackgroundTabsStored
<1>1. AppInv => BackgroundTabsStored
  <2> SUFFICES ASSUME AppInv, Running, strip_saved
               PROVE  /\ Len(stored.tabs) = Len(tabs)
                      /\ stored.active_tab_index = Strip!Active
                      /\ \A i \in DOMAIN tabs \ {Strip!Active} :
                           AsRestored(SessionTab(tabs[i])) = AsRestored(stored.tabs[i])
    BY DEF BackgroundTabsStored
  <2>1. BackgroundStored /\ StripOK
    BY DEF AppInv
  <2>2. DOMAIN tabs = 1..Len(tabs)
    BY <2>1, PlacesOfStrip
  <2> QED
    BY <2>1, <2>2 DEF BackgroundStored
<1> QED
  BY <1>1, AppInvHolds, PTL

-----------------------------------------------------------------------------
(* The bar.                                                                 *)

LEMMA BarFields ==
  /\ \A u \in Urls \cup {NoUrl} : BarShowing(u) \in Bars
  /\ \A b \in Bars : b.url \in Urls \cup {NoUrl} /\ b.draft \in Drafts
  /\ \A b \in Bars, d \in Drafts :
       [b EXCEPT !.draft = d] \in Bars /\ [b EXCEPT !.draft = d].url = b.url
  /\ \A b \in Bars, v \in BOOLEAN :
       [b EXCEPT !.focused = v] \in Bars /\ [b EXCEPT !.focused = v].url = b.url
BY DEF Bars, BarShowing, Drafts

LEMMA DraftsHold == /\ Urls \subseteq Drafts /\ Typed \subseteq Drafts
                    /\ NoUrl \in Drafts /\ Suggested \subseteq Drafts
BY BarAssumption DEF Drafts

LEMMA CurrentUrl == StripOK => Strip!Current.url \in Urls \cup {NoUrl}
<1> SUFFICES ASSUME StripOK PROVE Strip!Current.url \in Urls \cup {NoUrl}
  OBVIOUS
<1>1. Strip!Current \in StripTheory!BrowserTab
  BY PlacesOfStrip DEF Strip!Current
<1> QED
  BY <1>1 DEF StripTheory!BrowserTab, StripTheory!MaybeUrl

LEMMA SyncedBar ==
  ASSUME StripOK', SyncAddressBar
  PROVE  bar' \in Bars /\ bar'.url = Strip!Current.url' /\ focus' = "page"
<1>1. (StripOK => Strip!Current.url \in Urls \cup {NoUrl})'
  BY CurrentUrl, PTL
<1> QED
  BY <1>1, BarFields DEF SyncAddressBar, BarShowing

\* The URL of the active tab after steps that leave its place, or its page, alone.
LEMMA RepagedUrl ==
  ASSUME StripOK, StripOK', NEW p, Strip!Replace([Strip!Current EXCEPT !.page = p])
  PROVE  Strip!Current.url' = Strip!Current.url
<1>1. Strip!Current \in StripTheory!BrowserTab
  BY PlacesOfStrip DEF Strip!Current
<1>2. Strip!Current' = [Strip!Current EXCEPT !.page = p]
  BY ReplaceKeepsPlaces
<1> QED
  BY <1>1, <1>2 DEF StripTheory!BrowserTab

LEMMA ResizedUrl ==
  ASSUME StripOK, StripOK', Strip!Resize
  PROVE  Strip!Current.url' = Strip!Current.url
<1> DEFINE a == Strip!Active
<1>1. a \in 1..Len(tabs)
  BY PlacesOfStrip
<1>2. Strip!Active' = a /\ tabs'[a].url = tabs[a].url
  BY <1>1, ResizeKeepsPlaces
<1>3. Strip!Current' = tabs'[a] /\ Strip!Current = tabs[a]
  BY <1>2 DEF Strip!Current
<1> QED
  BY <1>2, <1>3

LEMMA MovedUrl ==
  ASSUME StripOK, StripOK', NEW i \in DOMAIN tabs, NEW j \in DOMAIN tabs, Strip!MoveTab(i, j)
  PROVE  Strip!Current.url' = Strip!Current.url
<1>1. StripTheory!MoveTab(i, j)
  BY SameCommands
<1>2. /\ Len(tabs') = Len(tabs)
      /\ \A k \in 1..Len(tabs) : \E l \in 1..Len(tabs) : tabs'[k] = tabs[l]
  BY <1>1, StripFacts, StripTheory!MoveKeepsTabs DEF StripOK
<1> DEFINE a == Strip!Active
           b == Strip!Active'
<1>3. (StripOK => Strip!Active \in 1..Len(tabs) /\ tabs[Strip!Active].id = active_tab)'
  BY ActivePlace, PTL
<1>4. b \in 1..Len(tabs) /\ tabs'[b].id = active_tab
  BY <1>2, <1>3 DEF Strip!MoveTab
<1>5. PICK l \in 1..Len(tabs) : tabs'[b] = tabs[l]
  BY <1>2, <1>4
<1>6. l = a
  BY <1>4, <1>5, PlacesOfStrip
<1> HIDE DEF a, b
<1>7. tabs'[b] = tabs[a]
  BY <1>5, <1>6
<1> QED
  BY <1>7 DEF Strip!Current, a, b

\* Switching to the tab that is active leaves it as it is when it cannot be loaded.
LEMMA SwitchedUrl ==
  ASSUME StripOK, StripOK', NEW i \in DOMAIN tabs, Strip!SwitchTab(i),
         UNCHANGED active_tab, LoadFailed
  PROVE  Strip!Current.url' = Strip!Current.url
<1> DEFINE a == Strip!Active
<1>1. /\ i \in 1..Len(tabs) /\ a \in 1..Len(tabs) /\ tabs[a].id = active_tab
      /\ tabs[i].id = active_tab
  BY PlacesOfStrip DEF Strip!SwitchTab
<1>2. i = a
  BY <1>1, PlacesOfStrip
<1>3. PICK t \in StripTheory!EnsureLoaded(Strip!Current) :
        tabs' = [tabs EXCEPT ![a] = t]
  BY <1>2, SameLoads DEF Strip!SwitchTab, Strip!Current
<1>4. Strip!Replace(t)
  BY <1>3 DEF Strip!Replace, Strip!SwitchTab
<1>5. Strip!Current' = t
  BY <1>4, ReplaceKeepsPlaces
<1>6. t.needs_reload
  BY <1>5 DEF LoadFailed
<1>7. StripTheory!WellFormed(Strip!Current)
  BY StripFacts, SamePlace, StripTheory!ActiveOK DEF StripOK
<1>8. t \notin StripTheory!Reloads(Strip!Current)
  BY <1>6, <1>7, StripFacts, StripTheory!ReloadsOK
<1>9. t = Strip!Current \/ t = [Strip!Current EXCEPT !.needs_reload = FALSE]
  BY <1>3, <1>8 DEF StripTheory!EnsureLoaded
<1> QED
  BY <1>5, <1>7, <1>9 DEF StripTheory!WellFormed, StripTheory!BrowserTab

\* The bar still shows the active tab, or this is one of the steps that may
\* leave it behind.
BarFollows ==
  \/ bar'.url = Strip!Current.url'
  \/ UNCHANGED active_tab /\ Reload
  \/ active_tab' # active_tab /\ LoadFailed

BarKept ==
  /\ bar' \in Bars /\ focus' \in {"bar", "page"}
  /\ bar.url = Strip!Current.url => BarFollows

LEMMA SyncKeepsBar ==
  ASSUME StripOK', SyncAddressBar
  PROVE  BarKept
BY SyncedBar DEF BarKept, BarFollows

LEMMA SameUrlKeepsBar ==
  ASSUME TypeOK, UNCHANGED <<bar, focus>>, Strip!Current.url' = Strip!Current.url
  PROVE  BarKept
BY DEF TypeOK, BarKept, BarFollows

LEMMA SameStripUrl == UNCHANGED strip => Strip!Current.url' = Strip!Current.url
BY DEF strip, Strip!Current, Strip!Active

LEMMA OnStripKeepsBar ==
  ASSUME TypeOK, StripOK, StripOK', OnStrip
  PROVE  BarKept
<1>1. CASE NewTab
  BY <1>1, SyncKeepsBar DEF NewTab, StripCommand
<1>2. CASE ReleaseTab
  BY <1>2, SameStripUrl, SameUrlKeepsBar DEF ReleaseTab
<1>3. ASSUME NEW i \in DOMAIN tabs, SwitchTab(i) PROVE BarKept
  <2>1. CASE LoadFailed /\ Skipped
    <3>1. UNCHANGED <<bar, focus>>
      BY <2>1 DEF Skipped
    <3>2. CASE UNCHANGED active_tab
      <4>1. Strip!SwitchTab(i)
        BY <1>3 DEF SwitchTab, StripCommand
      <4> QED
        BY <2>1, <3>1, <3>2, <4>1, SwitchedUrl, SameUrlKeepsBar
    <3>3. CASE active_tab' # active_tab
      BY <2>1, <3>1, <3>3 DEF TypeOK, BarKept, BarFollows
    <3> QED
      BY <3>2, <3>3
  <2>2. CASE SyncAddressBar
    BY <2>2, SyncKeepsBar
  <2> QED
    BY <1>3, <2>1, <2>2 DEF SwitchTab, StripCommand
<1>4. ASSUME NEW i \in DOMAIN tabs, CloseTab(i) PROVE BarKept
  <2>1. CASE active_tab' # active_tab /\ LoadFailed /\ Skipped
    BY <2>1 DEF Skipped, TypeOK, BarKept, BarFollows
  <2>2. CASE SyncAddressBar
    BY <2>2, SyncKeepsBar
  <2> QED
    BY <1>4, <2>1, <2>2 DEF CloseTab, StripCommand
<1>5. ASSUME NEW i \in DOMAIN tabs, NEW j \in DOMAIN tabs, ReorderTab(i, j) \/ DragTab(i, j)
      PROVE  BarKept
  <2>1. Strip!MoveTab(i, j) /\ UNCHANGED <<bar, focus>>
    BY <1>5 DEF ReorderTab, DragTab, Command
  <2> QED
    BY <2>1, MovedUrl, SameUrlKeepsBar
<1> QED
  BY <1>1, <1>2, <1>3, <1>4, <1>5 DEF OnStrip

LEMMA OnPageKeepsBar ==
  ASSUME TypeOK, StripOK, StripOK', OnPage
  PROVE  BarKept
<1>1. CASE (\E u \in Urls : Navigate(u)) \/ Back \/ Forward \/ Home \/ OpenView
  <2>1. SyncAddressBar
    BY <1>1 DEF Navigate, Back, Forward, Home, OpenView, Command, AfterNavigation
  <2> QED
    BY <2>1, SyncKeepsBar
<1>2. CASE Reload
  <2>1. UNCHANGED <<bar, focus, active_tab>>
    BY <1>2 DEF Reload, Quiet, Command, Strip!ReloadActive, Strip!Replace
  <2> QED
    BY <1>2, <2>1 DEF TypeOK, BarKept, BarFollows
<1>3. ASSUME Rerendered PROVE Strip!Current.url' = Strip!Current.url
  BY <1>3, RepagedUrl DEF Rerendered
<1>4. CASE ClickPage
  <2>1. UNCHANGED bar /\ focus' = "page" /\ (Rerendered \/ UNCHANGED strip)
    BY <1>4 DEF ClickPage, Command
  <2> QED
    BY <1>3, <2>1, SameStripUrl DEF TypeOK, BarKept, BarFollows
<1>5. CASE PageInput
  <2>1. UNCHANGED <<bar, focus>> /\ Rerendered
    BY <1>5 DEF PageInput, Quiet, Command
  <2> QED
    BY <1>3, <2>1, SameUrlKeepsBar
<1>6. CASE Scroll
  <2>1. UNCHANGED <<bar, focus>> /\ Strip!ScrollActive
    BY <1>6 DEF Scroll, Quiet, Command
  <2>2. \E p : Strip!Replace([Strip!Current EXCEPT !.page = p])
    BY <2>1 DEF Strip!ScrollActive
  <2> QED
    BY <2>1, <2>2, RepagedUrl, SameUrlKeepsBar
<1>7. CASE Resize
  <2>1. UNCHANGED <<bar, focus>> /\ Strip!Resize
    BY <1>7 DEF Resize, Quiet, Command
  <2> QED
    BY <2>1, ResizedUrl, SameUrlKeepsBar
<1> QED
  BY <1>1, <1>2, <1>4, <1>5, <1>6, <1>7 DEF OnPage

LEMMA EditKeepsBar ==
  ASSUME TypeOK, NEW b \in Bars, NEW f \in {"bar", "page"}, b.url = bar.url, BarOnly(b, f)
  PROVE  BarKept
<1>1. bar' = b /\ focus' = f /\ UNCHANGED strip
  BY DEF BarOnly, Command
<1> QED
  BY <1>1, SameStripUrl DEF BarKept, BarFollows

LEMMA OnBarKeepsBar ==
  ASSUME TypeOK, StripOK, StripOK', OnBar
  PROVE  BarKept
<1>1. /\ bar \in Bars /\ focus \in {"bar", "page"}
      /\ BarShowing(bar.url) \in Bars /\ BarShowing(bar.url).url = bar.url
  BY BarFields DEF TypeOK, BarShowing
<1>2. CASE FocusAddressBar
  <2>1. /\ [BarShowing(bar.url) EXCEPT !.focused = TRUE] \in Bars
        /\ [BarShowing(bar.url) EXCEPT !.focused = TRUE].url = bar.url
    BY <1>1, BarFields
  <2>2. PICK b \in Bars : b.url = bar.url /\ BarOnly(b, "bar")
    BY <1>1, <1>2, <2>1 DEF FocusAddressBar
  <2> QED
    BY <2>2, EditKeepsBar
<1>3. CASE EditDraft \/ \E u \in Suggested : SuggestionFails(u)
  <2>1. PICK d \in Drafts : BarOnly([bar EXCEPT !.draft = d], focus)
    BY <1>3, DraftsHold DEF EditDraft, SuggestionFails
  <2> QED
    BY <1>1, <2>1, BarFields, EditKeepsBar
<1>4. CASE Escape
  BY <1>1, <1>4, EditKeepsBar DEF Escape
<1>5. CASE SubmitUnresolved
  <2>1. BarOnly([bar EXCEPT !.focused = FALSE], focus)
    BY <1>5 DEF SubmitUnresolved
  <2> QED
    BY <1>1, <2>1, BarFields, EditKeepsBar
<1>6. CASE SubmitLoads
  <2>1. SyncAddressBar
    BY <1>6 DEF SubmitLoads, Navigate, Command, AfterNavigation
  <2> QED
    BY <2>1, SyncKeepsBar
<1>7. CASE SubmitFails
  <2>1. /\ Strip!Replace(Strip!Covered(Strip!Current, "load_error"))
        /\ bar' = [BarShowing(NoUrl) EXCEPT !.draft = bar.draft]
        /\ focus' = "page"
    BY <1>7 DEF SubmitFails, Command, Strip!ShowErrorOnActive
  <2>2. bar' \in Bars /\ bar'.url = NoUrl
    BY <1>1, <2>1, BarFields DEF BarShowing
  <2>3. Strip!Current' = Strip!Covered(Strip!Current, "load_error")
    BY <2>1, ReplaceKeepsPlaces
  <2>4. Strip!Current \in StripTheory!BrowserTab
    BY PlacesOfStrip DEF Strip!Current
  <2>5. Strip!Current.url' = NoUrl
    BY <2>3, <2>4 DEF Strip!Covered, StripTheory!BrowserTab
  <2> QED
    BY <2>1, <2>2, <2>5 DEF BarKept, BarFollows
<1> QED
  BY <1>2, <1>3, <1>4, <1>5, <1>6, <1>7 DEF OnBar, AddressBarSubmit

LEMMA LaunchBar ==
  ASSUME TypeOK, StripOK', Start
  PROVE  bar' \in Bars /\ focus' \in {"bar", "page"}
<1>1. NoUrl \in Urls \cup {NoUrl} /\ BarShowing(NoUrl) \in Bars
  BY BarFields
<1>2. CASE LaunchBlank
  BY <1>1, <1>2 DEF LaunchBlank, Open
<1>3. ASSUME NEW u \in Urls, LaunchTarget(u)
      PROVE  bar' \in Bars /\ focus' \in {"bar", "page"}
  <2>1. CASE \E f \in Strip!Load(u), r \in Rooms :
               Open(Strip!LoadedManager(f, r), BarShowing(f))
    BY <2>1, BarFields DEF Strip!Load, Open
  <2>2. CASE Open(Strip!ErrorManager, [BarShowing(NoUrl) EXCEPT !.draft = u])
    BY <1>1, <2>2, BarFields, DraftsHold DEF Open
  <2> QED
    BY <1>3, <2>1, <2>2 DEF LaunchTarget
<1>4. CASE LaunchRestored
  <2>1. PICK m : /\ tabs' = m.tabs /\ active_tab' = m.active_tab
                 /\ bar' = BarShowing(ManagerUrl(m)) /\ focus' = "page"
    BY <1>4 DEF LaunchRestored, Open
  <2>2. ManagerUrl(m) = Strip!Current.url'
    BY <2>1 DEF ManagerUrl, Strip!Current, Strip!Active
  <2>3. (StripOK => Strip!Current.url \in Urls \cup {NoUrl})'
    BY CurrentUrl, PTL
  <2> QED
    BY <2>1, <2>2, <2>3, BarFields
<1>5. CASE LaunchFails
  BY <1>5 DEF LaunchFails, TypeOK
<1> QED
  BY <1>2, <1>3, <1>4, <1>5 DEF Start

LEMMA MouseAndWindow ==
  ASSUME TypeOK, OnStrip \/ OnPage \/ OnBar
  PROVE  program' = program /\ dragging' \in BOOLEAN
BY DEF TypeOK, OnStrip, NewTab, ReleaseTab, SwitchTab, CloseTab, ReorderTab, DragTab,
   StripCommand, Command, OnPage, Navigate, Back, Forward, Reload, Home, OpenView,
   Resize, Scroll, ClickPage, PageInput, Quiet, OnBar, FocusAddressBar, EditDraft,
   Escape, AddressBarSubmit, SubmitUnresolved, SubmitLoads, SubmitFails,
   SuggestionFails, BarOnly

LEMMA NextTypeOK ==
  ASSUME TypeOK, AppInv, [Next]_vars
  PROVE  TypeOK'
<1>1. CASE UNCHANGED vars
  BY <1>1 DEF vars, TypeOK
<1>2. CASE OnStrip \/ OnPage \/ OnBar
  <2>1. Running /\ StripOK
    BY <1>2, CommandsRun DEF AppInv
  <2>2. Moves
    BY <1>2, OnStripMoves, OnPageMoves, OnBarMoves
  <2>3. StripOK'
    BY <2>1, <2>2, MovesInv
  <2>4. BarKept
    BY <1>2, <2>1, <2>3, OnStripKeepsBar, OnPageKeepsBar, OnBarKeepsBar
  <2>5. strip_saved' \in BOOLEAN
    BY <2>2 DEF Moves, StoreMoves, Persist, TypeOK
  <2> QED
    BY <1>2, <2>4, <2>5, MouseAndWindow DEF TypeOK, BarKept
<1>3. CASE Start
  <2>1. /\ program' \in {"running", "failed"} /\ dragging' \in BOOLEAN
        /\ strip_saved' \in BOOLEAN
    BY <1>3 DEF Start, LaunchBlank, LaunchRestored, LaunchFails, LaunchTarget, Open, TypeOK
  <2>2. CASE Running'
    <3>1. StripOK'
      BY <1>3, <2>2, LaunchInv
    <3> QED
      BY <1>3, <2>1, <3>1, LaunchBar DEF TypeOK
  <2>3. CASE LaunchFails
    BY <2>1, <2>3 DEF LaunchFails, TypeOK
  <2> QED
    BY <1>3, <2>2, <2>3
       DEF Start, LaunchBlank, LaunchRestored, LaunchTarget, Open, Running
<1>4. CASE Leave
  <2>1. BarShowing(NoUrl) \in Bars
    BY BarFields
  <2> QED
    BY <1>4, <2>1 DEF Leave, TypeOK
<1> QED
  BY <1>1, <1>2, <1>3, <1>4 DEF Next

LEMMA StepKeepsBar ==
  ASSUME TypeOK, AppInv, Next, Running, Running'
  PROVE  BarKept
<1>1. OnStrip \/ OnPage \/ OnBar
  BY DEF Next, Start, LaunchBlank, LaunchRestored, LaunchFails, LaunchTarget, Open, Leave,
     Running
<1>2. StripOK /\ StripOK'
  BY NextAppInv DEF AppInv
<1> QED
  BY <1>1, <1>2, OnStripKeepsBar, OnPageKeepsBar, OnBarKeepsBar

\* Once the bar shows the URL of the active tab it goes on doing so, whatever
\* tabs open, close, load or fail to (sync_address_bar of browser_app.rs), but
\* for a reload and for a lazy load that fails.
THEOREM BarCurrent == Spec => BarStaysCurrent
<1>1. ASSUME TypeOK, AppInv, [Next]_vars
      PROVE  [Running /\ Running' /\ bar.url = Strip!Current.url =>
               \/ bar'.url = Strip!Current.url'
               \/ UNCHANGED active_tab /\ Reload
               \/ active_tab' # active_tab /\ LoadFailed]_vars
  BY <1>1, StepKeepsBar DEF BarKept, BarFollows
<1> QED
  BY <1>1, InitAppInv, NextAppInv, NextTypeOK, PTL DEF Spec, BarStaysCurrent

=============================================================================
