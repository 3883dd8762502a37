-------------------------- MODULE TabManagerProofs --------------------------
(***************************************************************************)
(* Proofs about TabManager, for every value of its constants.              *)
(*                                                                         *)
(* Inv, a good strip, is inductive: that the index of the active tab       *)
(* exists is what makes the operations on it well typed, and unique ids    *)
(* below next_tab_id are what keeps it unique.  What else holds of single  *)
(* tabs rests on one fact about steps: each tab of the strip after a step  *)
(* is new, or is one of the tabs before it changed in one of a few ways    *)
(* (Descends).  With it, that a tab says what it shows (AllAgree), that    *)
(* tabs are independent, and that each is a session history, are           *)
(* statements about those few ways.                                        *)
(***************************************************************************)
EXTENDS TabManager, SequenceTheorems, TLAPS

-----------------------------------------------------------------------------
(* What the sequence operators of the library do.                           *)

LEMMA RemoveAtProperties ==
  ASSUME NEW S, NEW s \in Seq(S), NEW i \in DOMAIN s
  PROVE  /\ RemoveAt(s, i) \in Seq(S)
         /\ Len(RemoveAt(s, i)) = Len(s) - 1
         /\ \A k \in 1..(Len(s) - 1) :
              RemoveAt(s, i)[k] = IF k < i THEN s[k] ELSE s[k + 1]
<1> DEFINE left == SubSeq(s, 1, i - 1)
           right == SubSeq(s, i + 1, Len(s))
<1>1. i \in 1..Len(s) /\ Len(s) \in Nat
  OBVIOUS
<1>2. left \in Seq(S) /\ Len(left) = i - 1 /\ \A k \in 1..(i - 1) : left[k] = s[k]
  BY <1>1, SubSeqProperties, SMT
<1>3. /\ right \in Seq(S) /\ Len(right) = Len(s) - i
      /\ \A k \in 1..(Len(s) - i) : right[k] = s[i + k]
  BY <1>1, SubSeqProperties, SMT
<1> HIDE DEF left, right
<1>4. RemoveAt(s, i) = left \o right
  BY DEF RemoveAt, left, right
<1> QED
  BY <1>1, <1>2, <1>3, <1>4, ConcatProperties, SMT

LEMMA InsertAtProperties ==
  ASSUME NEW S, NEW s \in Seq(S), NEW i \in 1..(Len(s) + 1), NEW e \in S
  PROVE  /\ InsertAt(s, i, e) \in Seq(S)
         /\ Len(InsertAt(s, i, e)) = Len(s) + 1
         /\ \A k \in 1..(Len(s) + 1) :
              InsertAt(s, i, e)[k] = IF k < i THEN s[k]
                                     ELSE IF k = i THEN e ELSE s[k - 1]
<1> DEFINE left == SubSeq(s, 1, i - 1)
           right == SubSeq(s, i, Len(s))
           middle == left \o <<e>>
<1>1. Len(s) \in Nat
  OBVIOUS
<1>2. left \in Seq(S) /\ Len(left) = i - 1 /\ \A k \in 1..(i - 1) : left[k] = s[k]
  BY <1>1, SubSeqProperties, SMT
<1>3. /\ right \in Seq(S) /\ Len(right) = Len(s) - i + 1
      /\ \A k \in 1..(Len(s) - i + 1) : right[k] = s[i + k - 1]
  BY <1>1, SubSeqProperties, SMT
<1> HIDE DEF left, right
<1>4. <<e>> \in Seq(S) /\ Len(<<e>>) = 1 /\ <<e>>[1] = e
  OBVIOUS
<1>5. /\ middle \in Seq(S) /\ Len(middle) = i
      /\ \A k \in 1..i : middle[k] = IF k < i THEN s[k] ELSE e
  BY <1>1, <1>2, <1>4, ConcatProperties, SMT
<1>6. InsertAt(s, i, e) = middle \o right
  BY DEF InsertAt, left, right
<1> HIDE DEF middle
<1>7. /\ middle \o right \in Seq(S)
      /\ Len(middle \o right) = Len(middle) + Len(right)
      /\ \A k \in 1..(Len(middle) + Len(right)) :
           (middle \o right)[k] = IF k <= Len(middle) THEN middle[k]
                                  ELSE right[k - Len(middle)]
  BY <1>3, <1>5, ConcatProperties
<1>8. \A k \in 1..(Len(s) + 1) : k > i => k - i \in 1..(Len(s) - i + 1)
  BY <1>1, SMT
<1> QED
  BY <1>1, <1>3, <1>5, <1>6, <1>7, <1>8, SMT

-----------------------------------------------------------------------------
(* What the operations on one tab return.                                   *)

Views == {"none", "new_tab", "load_error", "list"}

LEMMA ConstantFacts ==
  /\ Rooms \subseteq Nat /\ 0 \in Rooms
  /\ NoUrl \in MaybeUrl /\ Urls \subseteq MaybeUrl
  /\ NoScroll \in MaybeScroll /\ Rooms \subseteq MaybeScroll
  /\ \A u : Load(u) \subseteq Urls /\ Landings(u) \subseteq Urls
BY ConstantsAssumption DEF MaybeUrl, MaybeScroll, Load, Landings

\* What a load of a Url ends at can be read back: what cannot, is not redirected.
Readable == {u \in Urls : ReadBack[u] # NoUrl}

LEMMA LandingsReadable ==
  ASSUME NEW u \in Urls
  PROVE  Landings(u) \subseteq Readable
<1> SUFFICES ASSUME NEW f \in Landings(u) PROVE f \in Readable
  OBVIOUS
<1> DEFINE v == ReadBack[u]
<1>1. f \in Urls /\ <<v, f>> \in Redirects
  BY DEF Landings, Load
<1>2. v \in Urls /\ v # NoUrl
  BY <1>1, ConstantsAssumption
<1>3. ReadBack[v] = v
  BY <1>2, ConstantsAssumption
<1> HIDE DEF v
<1>4. ReadBack[f] = NoUrl => v = f
  BY <1>1, ConstantsAssumption
<1> QED
  BY <1>1, <1>2, <1>3, <1>4 DEF Readable

LEMMA PageOK ==
  /\ Placeholder \in Page /\ Placeholder.scroll <= Placeholder.room
  /\ \A f \in Urls, r \in Rooms :
       Fresh(f, r) \in Page /\ Fresh(f, r).scroll <= Fresh(f, r).room
BY ConstantFacts DEF Placeholder, Fresh, Page

LEMMA ScrolledToOK ==
  ASSUME NEW p \in Page, NEW n \in Rooms
  PROVE  ScrolledTo(p, n) \in Page /\ ScrolledTo(p, n).scroll <= ScrolledTo(p, n).room
<1>0. p.room \in Rooms /\ p.room \in Nat /\ n \in Nat
  BY ConstantFacts DEF Page
<1>1. Clamp(n, p.room) \in Rooms /\ Clamp(n, p.room) <= p.room
  BY <1>0 DEF Clamp
<1> QED
  BY <1>1 DEF ScrolledTo, Page

\* Assigning a field a value of its type keeps a tab a tab.
LEMMA FieldsOK ==
  ASSUME NEW t \in BrowserTab
  PROVE  /\ \A v \in Page : [t EXCEPT !.page = v] \in BrowserTab
         /\ \A v \in MaybeUrl : [t EXCEPT !.url = v] \in BrowserTab
         /\ \A v \in Seq(Urls) : [t EXCEPT !.history = v] \in BrowserTab
         /\ \A v \in Nat : [t EXCEPT !.history_index = v] \in BrowserTab
         /\ \A v \in BOOLEAN : [t EXCEPT !.needs_reload = v] \in BrowserTab
         /\ \A v \in MaybeScroll : [t EXCEPT !.pending_scroll = v] \in BrowserTab
         /\ \A v \in Views : [t EXCEPT !.internal_view = v] \in BrowserTab
BY DEF BrowserTab, Views

LEMMA BlankTabOK ==
  ASSUME NEW id \in Nat, NEW view \in Views
  PROVE  WellFormed(BlankTab(id, view)) /\ BlankTab(id, view).id = id
BY ConstantFacts, PageOK DEF WellFormed, BlankTab, BrowserTab, Views

LEMMA ShownOK ==
  ASSUME NEW t, WellFormed(t), NEW f \in Urls, NEW r \in Rooms
  PROVE  /\ WellFormed(Shown(t, f, r))
         /\ Shown(t, f, r).id = t.id
         /\ Shown(t, f, r).history = t.history
         /\ Shown(t, f, r).history_index = t.history_index
<1> DEFINE t1 == [t EXCEPT !.page = Fresh(f, r)]
           t2 == [t1 EXCEPT !.url = f]
<1>1. t1 \in BrowserTab
  BY PageOK, FieldsOK DEF WellFormed
<1>2. t2 \in BrowserTab
  BY <1>1, FieldsOK, ConstantFacts
<1>3. Shown(t, f, r) \in BrowserTab
  BY <1>2, FieldsOK DEF Shown, Views
<1> QED
  BY <1>3, PageOK DEF WellFormed, Shown, BrowserTab

LEMMA LoadedTabOK ==
  ASSUME NEW id \in Nat, NEW f \in Urls, NEW r \in Rooms
  PROVE  WellFormed(LoadedTab(id, f, r)) /\ LoadedTab(id, f, r).id = id
<1> DEFINE t0 == BlankTab(id, "none")
           t1 == [t0 EXCEPT !.page = Fresh(f, r)]
           t2 == [t1 EXCEPT !.url = f]
           t3 == [t2 EXCEPT !.history = <<f>>]
<1>0. <<f>> \in Seq(Urls) /\ Len(<<f>>) = 1
  OBVIOUS
<1>1. t0 \in BrowserTab /\ t0.id = id
  BY BlankTabOK DEF WellFormed, Views
<1>2. t1 \in BrowserTab
  BY <1>1, PageOK, FieldsOK
<1>3. t2 \in BrowserTab
  BY <1>2, FieldsOK, ConstantFacts
<1>4. t3 \in BrowserTab
  BY <1>3, <1>0, FieldsOK
<1>5. LoadedTab(id, f, r) \in BrowserTab
  BY <1>4, FieldsOK DEF LoadedTab
<1> HIDE DEF t0
<1> QED
  BY <1>0, <1>1, <1>5, PageOK DEF WellFormed, LoadedTab, BrowserTab, t0

LEMMA UnloadedTabOK ==
  ASSUME NEW id \in Nat, NEW s \in RestoredTab
  PROVE  WellFormed(UnloadedTab(id, s)) /\ UnloadedTab(id, s).id = id
<1> DEFINE t0 == BlankTab(id, "new_tab")
           seeded == s.history = <<>> /\ s.url # NoUrl
           h == IF seeded THEN <<s.url>> ELSE s.history
           i == IF seeded THEN 1 ELSE s.history_index
           x == IF i \in DOMAIN h THEN i ELSE 0
           t1 == [t0 EXCEPT !.url = s.url]
           t2 == [t1 EXCEPT !.history = h]
           t3 == [t2 EXCEPT !.history_index = x]
           t4 == [t3 EXCEPT !.needs_reload = (s.url # NoUrl)]
           t5 == [t4 EXCEPT !.pending_scroll = s.scroll]
<1>1. t0 \in BrowserTab /\ t0.id = id /\ t0.page = Placeholder
  BY BlankTabOK DEF WellFormed, Views, BlankTab
<1>2. s.url \in MaybeUrl /\ s.scroll \in MaybeScroll /\ s.history \in Seq(Urls)
  BY ConstantFacts DEF RestoredTab
<1>3. h \in Seq(Urls)
  BY <1>2 DEF MaybeUrl
<1>4. x \in Nat /\ x \in 0..Len(h)
  BY <1>3 DEF RestoredTab
<1>5. (s.url # NoUrl) \in BOOLEAN
  OBVIOUS
<1>6. UnloadedTab(id, s) = t5
  BY DEF UnloadedTab
<1> HIDE DEF t0, h, x
<1>7. t1 \in BrowserTab
  BY <1>1, <1>2, FieldsOK
<1>8. t2 \in BrowserTab
  BY <1>7, <1>3, FieldsOK
<1>9. t3 \in BrowserTab
  BY <1>8, <1>4, FieldsOK
<1>10. t4 \in BrowserTab
  BY <1>9, <1>5, FieldsOK
<1>11. t5 \in BrowserTab
  BY <1>10, <1>2, FieldsOK
<1>12. t5.id = id /\ t5.page = Placeholder /\ t5.history = h /\ t5.history_index = x
  BY <1>1 DEF BrowserTab
<1> QED
  BY <1>4, <1>6, <1>11, <1>12, PageOK DEF WellFormed

LEMMA NavigatedOK ==
  ASSUME NEW t, WellFormed(t), NEW f \in Urls, NEW r \in Rooms
  PROVE  WellFormed(Navigated(t, f, r)) /\ Navigated(t, f, r).id = t.id
<1> DEFINE t0 == Shown(t, f, r)
           past == SubSeq(t.history, 1, t.history_index)
           h == Append(past, f)
           t1 == [t0 EXCEPT !.history = h]
           t2 == [t1 EXCEPT !.history_index = Len(h)]
           t3 == [t2 EXCEPT !.needs_reload = FALSE]
<1>1. past \in Seq(Urls)
  BY SubSeqProperties DEF WellFormed, BrowserTab
<1>2. h \in Seq(Urls) /\ Len(h) \in Nat /\ Len(h) \in 0..Len(h)
  BY <1>1
<1>3. /\ t0 \in BrowserTab /\ t0.id = t.id
      /\ t0.page \in Page /\ t0.page.scroll <= t0.page.room
  BY ShownOK DEF WellFormed, BrowserTab
<1>4. Navigated(t, f, r) = t3
  BY DEF Navigated
<1> HIDE DEF t0, h
<1>5. t1 \in BrowserTab
  BY <1>3, <1>2, FieldsOK
<1>6. t2 \in BrowserTab
  BY <1>5, <1>2, FieldsOK
<1>7. t3 \in BrowserTab
  BY <1>6, FieldsOK
<1>8. t3.id = t0.id /\ t3.page = t0.page /\ t3.history = h /\ t3.history_index = Len(h)
  BY <1>3 DEF BrowserTab
<1> QED
  BY <1>2, <1>3, <1>4, <1>7, <1>8 DEF WellFormed

LEMMA MovedToOK ==
  ASSUME NEW t, WellFormed(t), NEW f \in Urls, NEW r \in Rooms,
         NEW i \in 1..Len(t.history)
  PROVE  WellFormed(MovedTo(t, i, f, r)) /\ MovedTo(t, i, f, r).id = t.id
<1> DEFINE t0 == Shown(t, f, r)
           h == [t0.history EXCEPT ![i] = f]
           t1 == [t0 EXCEPT !.history = h]
           t2 == [t1 EXCEPT !.history_index = i]
<1>1. /\ t0 \in BrowserTab /\ t0.id = t.id /\ t0.history = t.history
      /\ t0.page \in Page /\ t0.page.scroll <= t0.page.room
  BY ShownOK DEF WellFormed, BrowserTab
<1>2. h \in Seq(Urls) /\ Len(h) = Len(t.history)
  BY <1>1, ExceptSeq DEF WellFormed, BrowserTab
<1>3. i \in Nat /\ i \in 0..Len(h)
  BY <1>2
<1>4. MovedTo(t, i, f, r) = t2
  BY DEF MovedTo
<1> HIDE DEF t0, h
<1>5. t1 \in BrowserTab
  BY <1>1, <1>2, FieldsOK
<1>6. t2 \in BrowserTab
  BY <1>5, <1>3, FieldsOK
<1>7. t2.id = t0.id /\ t2.page = t0.page /\ t2.history = h /\ t2.history_index = i
  BY <1>1 DEF BrowserTab
<1> QED
  BY <1>1, <1>3, <1>4, <1>6, <1>7 DEF WellFormed

LEMMA SettledOK ==
  ASSUME NEW t, WellFormed(t)
  PROVE  /\ WellFormed(Settled(t)) /\ Settled(t).id = t.id
         /\ Settled(t).history = t.history
         /\ Settled(t).history_index = t.history_index
         /\ Settled(t).needs_reload = FALSE
<1> DEFINE p == IF t.pending_scroll = NoScroll THEN t.page
                ELSE ScrolledTo(t.page, t.pending_scroll)
           t1 == [t EXCEPT !.needs_reload = FALSE]
           t2 == [t1 EXCEPT !.page = p]
           t3 == [t2 EXCEPT !.pending_scroll = NoScroll]
<1>1. t \in BrowserTab /\ t.page \in Page /\ t.page.scroll <= t.page.room
  BY DEF WellFormed, BrowserTab
<1>2. t.pending_scroll # NoScroll => t.pending_scroll \in Rooms
  BY <1>1 DEF BrowserTab, MaybeScroll
<1>3. p \in Page /\ p.scroll <= p.room
  BY <1>1, <1>2, ScrolledToOK
<1>4. Settled(t) = t3
  BY DEF Settled
<1> HIDE DEF p
<1>5. t1 \in BrowserTab
  BY <1>1, FieldsOK
<1>6. t2 \in BrowserTab
  BY <1>5, <1>3, FieldsOK
<1>7. t3 \in BrowserTab
  BY <1>6, ConstantFacts, FieldsOK
<1>8. /\ t3.id = t.id /\ t3.page = p /\ t3.history = t.history
      /\ t3.history_index = t.history_index /\ t3.needs_reload = FALSE
  BY <1>1 DEF BrowserTab
<1> QED
  BY <1>3, <1>4, <1>7, <1>8 DEF WellFormed

\* A reload through the current entry.
LEMMA RefreshedOK ==
  ASSUME NEW t, WellFormed(t), t.history_index # 0, NEW f \in Urls, NEW r \in Rooms
  PROVE  /\ WellFormed(Refreshed(t, f, r)) /\ Refreshed(t, f, r).id = t.id
         /\ Refreshed(t, f, r).needs_reload = FALSE
<1> DEFINE t0 == Shown(t, f, r)
           i == t.history_index
           h == [t0.history EXCEPT ![i] = f]
           t1 == [t0 EXCEPT !.history = h]
<1>1. /\ t0 \in BrowserTab /\ t0.id = t.id /\ t0.history = t.history
      /\ t0.history_index = i
      /\ t0.page \in Page /\ t0.page.scroll <= t0.page.room
  BY ShownOK DEF WellFormed, BrowserTab
<1>2. t.history \in Seq(Urls) /\ i \in 0..Len(t.history)
  BY DEF WellFormed, BrowserTab
<1>3. h \in Seq(Urls) /\ Len(h) = Len(t.history)
  BY <1>1, <1>2, ExceptSeq
<1>4. Refreshed(t, f, r) = Settled(t1)
  BY DEF Refreshed
<1> HIDE DEF t0, h
<1>5. t1 \in BrowserTab
  BY <1>1, <1>3, FieldsOK
<1>6. t1.id = t0.id /\ t1.page = t0.page /\ t1.history = h /\ t1.history_index = i
  BY <1>1 DEF BrowserTab
<1>7. WellFormed(t1)
  BY <1>1, <1>2, <1>3, <1>5, <1>6 DEF WellFormed
<1> QED
  BY <1>1, <1>4, <1>6, <1>7, SettledOK

LEMMA ReloadsOK ==
  ASSUME NEW t, WellFormed(t), NEW u \in Reloads(t)
  PROVE  WellFormed(u) /\ u.id = t.id /\ u.needs_reload = FALSE
<1>1. CASE t.history_index = 0
  <2>1. Reloads(t) = {Settled(t)}
    BY <1>1 DEF Reloads
  <2>2. u = Settled(t)
    BY <2>1
  <2> QED
    BY <2>2, SettledOK
<1>2. CASE t.history_index # 0
  <2>1. PICK f \in Urls, r \in Rooms : u = Refreshed(t, f, r)
    BY <1>2, ConstantFacts DEF Reloads
  <2> QED
    BY <1>2, <2>1, RefreshedOK
<1> QED
  BY <1>1, <1>2

LEMMA EnsureLoadedOK ==
  ASSUME NEW t, WellFormed(t), NEW u \in EnsureLoaded(t)
  PROVE  WellFormed(u) /\ u.id = t.id
<1>1. CASE u = t
  BY <1>1
<1>2. CASE u \in Reloads(t)
  BY <1>2, ReloadsOK
<1>3. CASE u = [t EXCEPT !.needs_reload = FALSE]
  BY <1>3 DEF WellFormed, BrowserTab
<1> QED
  BY <1>1, <1>2, <1>3 DEF EnsureLoaded

LEMMA CoveredOK ==
  ASSUME NEW t, WellFormed(t), NEW view \in Views
  PROVE  /\ WellFormed(Covered(t, view)) /\ Covered(t, view).id = t.id
         /\ Covered(t, view).history = t.history
         /\ Covered(t, view).history_index = t.history_index
<1> DEFINE t1 == [t EXCEPT !.page = Placeholder]
           t2 == [t1 EXCEPT !.url = NoUrl]
<1>1. t1 \in BrowserTab
  BY PageOK, FieldsOK DEF WellFormed
<1>2. t2 \in BrowserTab
  BY <1>1, FieldsOK, ConstantFacts
<1>3. Covered(t, view) \in BrowserTab
  BY <1>2, FieldsOK DEF Covered
<1> QED
  BY <1>3, PageOK DEF WellFormed, Covered, BrowserTab

LEMMA ClearedOK ==
  ASSUME NEW t, WellFormed(t), NEW view \in Views
  PROVE  WellFormed(Cleared(t, view)) /\ Cleared(t, view).id = t.id
<1> DEFINE t0 == Covered(t, view)
           t1 == [t0 EXCEPT !.history = <<>>]
           t2 == [t1 EXCEPT !.history_index = 0]
           t3 == [t2 EXCEPT !.needs_reload = FALSE]
<1>1. /\ t0 \in BrowserTab /\ t0.id = t.id
      /\ t0.page \in Page /\ t0.page.scroll <= t0.page.room
  BY CoveredOK DEF WellFormed, BrowserTab
<1>2. Cleared(t, view) = t3
  BY DEF Cleared
<1>3. <<>> \in Seq(Urls)
  OBVIOUS
<1> HIDE DEF t0
<1>4. t1 \in BrowserTab
  BY <1>1, <1>3, FieldsOK
<1>5. t2 \in BrowserTab
  BY <1>4, FieldsOK
<1>6. t3 \in BrowserTab
  BY <1>5, FieldsOK
<1>7. t3.id = t0.id /\ t3.page = t0.page /\ t3.history = <<>> /\ t3.history_index = 0
  BY <1>1 DEF BrowserTab
<1> QED
  BY <1>1, <1>2, <1>6, <1>7 DEF WellFormed

-----------------------------------------------------------------------------
(* The strip: what opening, replacing, removing and moving a tab preserve.   *)

GoodStrip(ts, act, n) ==
  /\ ts \in Seq(BrowserTab) /\ n \in Nat
  /\ \A i \in 1..Len(ts) : WellFormed(ts[i]) /\ ts[i].id < n
  /\ \A i, j \in 1..Len(ts) : ts[i].id = ts[j].id => i = j
  /\ \E i \in 1..Len(ts) : ts[i].id = act

\* The inductive invariant.
Inv == GoodStrip(tabs, active_tab, next_tab_id)

LEMMA InvImplies == Inv => TypeOK /\ UniqueActiveTab
<1> SUFFICES ASSUME Inv PROVE TypeOK /\ UniqueActiveTab
  OBVIOUS
<1>1. DOMAIN tabs = 1..Len(tabs)
  BY DEF Inv, GoodStrip
<1>2. active_tab \in Nat
  BY DEF Inv, GoodStrip, WellFormed, BrowserTab
<1> QED
  BY <1>1, <1>2 DEF Inv, GoodStrip, TypeOK, UniqueActiveTab

LEMMA ReplaceStrip ==
  ASSUME NEW ts, NEW act, NEW n, GoodStrip(ts, act, n),
         NEW i \in 1..Len(ts), NEW k \in 1..Len(ts),
         NEW u, WellFormed(u), u.id = ts[i].id
  PROVE  GoodStrip([ts EXCEPT ![i] = u], ts[k].id, n)
<1> DEFINE ts2 == [ts EXCEPT ![i] = u]
<1>1. ts \in Seq(BrowserTab) /\ u \in BrowserTab
  BY DEF GoodStrip, WellFormed
<1>2. ts2 \in Seq(BrowserTab) /\ Len(ts2) = Len(ts)
  BY <1>1, ExceptSeq
<1>3. \A j \in 1..Len(ts) : ts2[j] = IF j = i THEN u ELSE ts[j]
  BY <1>1
<1>4. \A j \in 1..Len(ts) : ts2[j].id = ts[j].id /\ WellFormed(ts2[j])
  BY <1>3 DEF GoodStrip
<1> HIDE DEF ts2
<1>5. GoodStrip(ts2, ts[k].id, n)
  BY <1>2, <1>4 DEF GoodStrip
<1> QED
  BY <1>5 DEF ts2

LEMMA OpenStrip ==
  ASSUME NEW ts, NEW act, NEW n, GoodStrip(ts, act, n),
         NEW u, WellFormed(u), u.id = n
  PROVE  GoodStrip(Append(ts, u), n, n + 1)
<1> DEFINE ts2 == Append(ts, u)
<1>1. ts \in Seq(BrowserTab) /\ u \in BrowserTab /\ n \in Nat /\ Len(ts) \in Nat
  BY DEF GoodStrip, WellFormed
<1>2. ts2 \in Seq(BrowserTab) /\ Len(ts2) = Len(ts) + 1
  BY <1>1
<1>3. \A j \in 1..Len(ts) : ts2[j] = ts[j]
  BY <1>1
<1>4. ts2[Len(ts) + 1] = u
  BY <1>1
<1>5. \A j \in 1..Len(ts) : ts[j].id \in Nat /\ ts[j].id < n
  BY DEF GoodStrip, WellFormed, BrowserTab
<1> HIDE DEF ts2
<1>6. \A j \in 1..Len(ts2) : WellFormed(ts2[j]) /\ ts2[j].id < n + 1
  <2> TAKE j \in 1..Len(ts2)
  <2>1. CASE j = Len(ts) + 1
    BY <2>1, <1>1, <1>4
  <2>2. CASE j \in 1..Len(ts)
    BY <2>2, <1>1, <1>3, <1>5 DEF GoodStrip
  <2> QED
    BY <1>1, <1>2, <2>1, <2>2
<1>7. \A i, j \in 1..Len(ts2) : ts2[i].id = ts2[j].id => i = j
  <2> SUFFICES ASSUME NEW i \in 1..Len(ts2), NEW j \in 1..Len(ts2),
                      ts2[i].id = ts2[j].id
               PROVE  i = j
    OBVIOUS
  <2>1. i \in 1..Len(ts) \/ i = Len(ts) + 1
    BY <1>1, <1>2
  <2>2. j \in 1..Len(ts) \/ j = Len(ts) + 1
    BY <1>1, <1>2
  <2>3. CASE i \in 1..Len(ts) /\ j \in 1..Len(ts)
    BY <2>3, <1>3 DEF GoodStrip
  <2>4. CASE i = Len(ts) + 1 /\ j \in 1..Len(ts)
    BY <2>4, <1>1, <1>3, <1>4, <1>5
  <2>5. CASE i \in 1..Len(ts) /\ j = Len(ts) + 1
    BY <2>5, <1>1, <1>3, <1>4, <1>5
  <2> QED
    BY <2>1, <2>2, <2>3, <2>4, <2>5
<1>8. n + 1 \in Nat /\ Len(ts) + 1 \in 1..Len(ts2)
  BY <1>1, <1>2
<1>9. GoodStrip(ts2, n, n + 1)
  BY <1>2, <1>4, <1>6, <1>7, <1>8 DEF GoodStrip
<1> QED
  BY <1>9 DEF ts2

LEMMA RemoveStrip ==
  ASSUME NEW ts, NEW act, NEW n, GoodStrip(ts, act, n), NEW i \in 1..Len(ts)
  PROVE  LET rest == RemoveAt(ts, i)
         IN  /\ rest \in Seq(BrowserTab) /\ Len(rest) = Len(ts) - 1
             /\ \A k \in 1..Len(rest) : rest[k].id # ts[i].id
             /\ \A k \in 1..Len(rest) : GoodStrip(rest, rest[k].id, n)
             /\ ts[i].id # act => GoodStrip(rest, act, n)
<1> DEFINE rest == RemoveAt(ts, i)
           old(k) == IF k < i THEN k ELSE k + 1
<1>1. ts \in Seq(BrowserTab) /\ n \in Nat /\ Len(ts) \in Nat /\ i \in Nat
  BY DEF GoodStrip
<1>2. /\ rest \in Seq(BrowserTab) /\ Len(rest) = Len(ts) - 1
      /\ \A k \in 1..(Len(ts) - 1) : rest[k] = IF k < i THEN ts[k] ELSE ts[k + 1]
  <2>1. DOMAIN ts = 1..Len(ts)
    BY <1>1
  <2> QED
    BY <1>1, <2>1, RemoveAtProperties
<1> HIDE DEF rest
<1>3. \A k \in 1..Len(rest) : rest[k] = ts[old(k)] /\ old(k) \in 1..Len(ts)
  BY <1>1, <1>2
<1>4. \A k \in 1..Len(rest) : WellFormed(rest[k]) /\ rest[k].id < n
  BY <1>3 DEF GoodStrip
<1>5. \A j, k \in 1..Len(rest) : old(j) = old(k) => j = k
  BY <1>1, <1>2
<1>6. \A j, k \in 1..Len(rest) : rest[j].id = rest[k].id => j = k
  <2> SUFFICES ASSUME NEW j \in 1..Len(rest), NEW k \in 1..Len(rest),
                      rest[j].id = rest[k].id
               PROVE  j = k
    OBVIOUS
  <2>1. ts[old(j)].id = ts[old(k)].id /\ old(j) \in 1..Len(ts) /\ old(k) \in 1..Len(ts)
    BY <1>3
  <2>2. old(j) = old(k)
    BY <2>1 DEF GoodStrip
  <2> QED
    BY <2>2, <1>5
<1>7. ASSUME ts[i].id # act
      PROVE  \E k \in 1..Len(rest) : rest[k].id = act
  <2>1. PICK j \in 1..Len(ts) : ts[j].id = act
    BY DEF GoodStrip
  <2>2. j # i /\ j \in Nat
    BY <1>7, <2>1
  <2> DEFINE k == IF j < i THEN j ELSE j - 1
  <2>3. k \in 1..Len(rest) /\ old(k) = j
    BY <1>1, <1>2, <2>2
  <2>4. rest[k].id = act
    BY <1>3, <2>1, <2>3
  <2> QED
    BY <2>3, <2>4
<1>8. \A k \in 1..Len(rest) : GoodStrip(rest, rest[k].id, n)
  BY <1>1, <1>2, <1>4, <1>6 DEF GoodStrip
<1>9. ts[i].id # act => GoodStrip(rest, act, n)
  BY <1>1, <1>2, <1>4, <1>6, <1>7 DEF GoodStrip
<1>10. \A k \in 1..Len(rest) : rest[k].id # ts[i].id
  <2> SUFFICES ASSUME NEW k \in 1..Len(rest), rest[k].id = ts[i].id
               PROVE  FALSE
    OBVIOUS
  <2>1. old(k) \in 1..Len(ts) /\ ts[old(k)].id = ts[i].id
    BY <1>3
  <2>2. old(k) = i
    BY <2>1 DEF GoodStrip
  <2> QED
    BY <1>1, <1>2, <2>2
<1> QED
  BY <1>2, <1>8, <1>9, <1>10 DEF rest

IsInsertion(t, s, i, e) ==
  /\ t \in Seq(BrowserTab) /\ Len(t) = Len(s) + 1
  /\ \A k \in 1..(Len(s) + 1) : t[k] = IF k < i THEN s[k] ELSE IF k = i THEN e ELSE s[k - 1]

LEMMA InsertedTab ==
  ASSUME NEW s \in Seq(BrowserTab), NEW i \in 1..(Len(s) + 1), NEW e \in BrowserTab
  PROVE  IsInsertion(InsertAt(s, i, e), s, i, e)
BY InsertAtProperties DEF IsInsertion

LEMMA MoveStrip ==
  ASSUME NEW ts, NEW act, NEW n, GoodStrip(ts, act, n),
         NEW i \in 1..Len(ts), NEW j \in 1..Len(ts)
  PROVE  GoodStrip(InsertAt(RemoveAt(ts, i), j, ts[i]), act, n)
<1> DEFINE rest == RemoveAt(ts, i)
           ts2 == InsertAt(rest, j, ts[i])
<1>1. /\ ts \in Seq(BrowserTab) /\ n \in Nat /\ Len(ts) \in Nat /\ j \in Nat
      /\ WellFormed(ts[i]) /\ ts[i] \in BrowserTab /\ ts[i].id < n
  BY DEF GoodStrip, WellFormed
<1>2. /\ rest \in Seq(BrowserTab) /\ Len(rest) = Len(ts) - 1
      /\ \A k \in 1..Len(rest) : rest[k].id # ts[i].id
      /\ \A k \in 1..Len(rest) : GoodStrip(rest, rest[k].id, n)
      /\ ts[i].id # act => GoodStrip(rest, act, n)
  BY RemoveStrip
<1> HIDE DEF rest
<1>3. /\ ts2 \in Seq(BrowserTab) /\ Len(ts2) = Len(rest) + 1
      /\ \A k \in 1..(Len(rest) + 1) :
           ts2[k] = IF k < j THEN rest[k] ELSE IF k = j THEN ts[i] ELSE rest[k - 1]
  <2>1. j \in 1..(Len(rest) + 1)
    BY <1>1, <1>2
  <2>2. IsInsertion(ts2, rest, j, ts[i])
    BY <1>1, <1>2, <2>1, InsertedTab
  <2> QED
    BY <2>2 DEF IsInsertion
<1> DEFINE old(k) == IF k < j THEN k ELSE k - 1
<1> HIDE DEF ts2
<1>4. /\ ts2[j] = ts[i] /\ j \in 1..Len(ts2)
      /\ \A k \in 1..Len(ts2) : k # j => ts2[k] = rest[old(k)] /\ old(k) \in 1..Len(rest)
  BY <1>1, <1>2, <1>3
<1>5. \A k \in 1..Len(ts2) : WellFormed(ts2[k]) /\ ts2[k].id < n
  <2> TAKE k \in 1..Len(ts2)
  <2>1. CASE k = j
    BY <1>1, <1>4, <2>1
  <2>2. CASE k # j
    BY <1>2, <1>4, <2>2 DEF GoodStrip
  <2> QED
    BY <2>1, <2>2
<1>6. \A k, m \in 1..Len(ts2) : ts2[k].id = ts2[m].id => k = m
  <2> SUFFICES ASSUME NEW k \in 1..Len(ts2), NEW m \in 1..Len(ts2),
                      ts2[k].id = ts2[m].id
               PROVE  k = m
    OBVIOUS
  <2>1. CASE k = j \/ m = j
    BY <1>2, <1>4, <2>1
  <2>2. CASE k # j /\ m # j
    <3>1. rest[old(k)].id = rest[old(m)].id /\ old(k) \in 1..Len(rest)
          /\ old(m) \in 1..Len(rest)
      BY <1>4, <2>2
    <3>2. old(k) = old(m)
      BY <1>2, <3>1 DEF GoodStrip
    <3> QED
      BY <1>1, <1>2, <1>3, <2>2, <3>2
  <2> QED
    BY <2>1, <2>2
<1>7. \E k \in 1..Len(ts2) : ts2[k].id = act
  <2>1. CASE ts[i].id = act
    BY <1>4, <2>1
  <2>2. CASE ts[i].id # act
    <3>1. PICK m \in 1..Len(rest) : rest[m].id = act
      BY <1>2, <2>2 DEF GoodStrip
    <3> DEFINE k == IF m < j THEN m ELSE m + 1
    <3>2. k \in 1..Len(ts2) /\ k # j /\ old(k) = m
      BY <1>1, <1>2, <1>3
    <3>3. ts2[k].id = act
      BY <1>4, <3>1, <3>2
    <3> QED
      BY <3>2, <3>3
  <2> QED
    BY <2>1, <2>2
<1> QED
  BY <1>1, <1>3, <1>5, <1>6, <1>7 DEF GoodStrip, ts2, rest

LEMMA SingleStrip ==
  ASSUME NEW id \in Nat, NEW u, WellFormed(u), u.id = id
  PROVE  GoodStrip(<<u>>, id, id + 1)
<1>1. u \in BrowserTab
  BY DEF WellFormed
<1>2. <<u>> \in Seq(BrowserTab) /\ Len(<<u>>) = 1 /\ <<u>>[1] = u
  BY <1>1
<1> QED
  BY <1>2 DEF GoodStrip

-----------------------------------------------------------------------------
(* The invariant holds of every way to start.                               *)

LEMMA RestoredStrip ==
  ASSUME NEW s, s.tabs \in Seq(RestoredTab), s.tabs # <<>>,
         s.active_tab_index \in Nat \ {0},
         NEW m \in RestoredManagers(s)
  PROVE  GoodStrip(m.tabs, m.active_tab, m.next_tab_id)
<1> DEFINE n == Len(s.tabs)
           top == Clamp(s.active_tab_index, n)
           unloaded == [k \in 1..n |-> UnloadedTab(k - 1, s.tabs[k])]
<1>1. /\ s.tabs \in Seq(RestoredTab) /\ s.tabs # <<>>
      /\ s.active_tab_index \in Nat \ {0}
  OBVIOUS
<1>2. n \in Nat \ {0}
  BY <1>1
<1>3. top \in 1..n
  BY <1>1, <1>2 DEF Clamp
<1>4. \A k \in 1..n : /\ WellFormed(UnloadedTab(k - 1, s.tabs[k]))
                      /\ UnloadedTab(k - 1, s.tabs[k]).id = k - 1
  <2> TAKE k \in 1..n
  <2>1. s.tabs[k] \in RestoredTab
    BY <1>1
  <2>2. k - 1 \in Nat
    BY <1>2
  <2> QED
    BY <2>1, <2>2, UnloadedTabOK
<1>5. PICK t \in EnsureLoaded(unloaded[top]) :
        m = Manager([unloaded EXCEPT ![top] = t], top - 1, n)
  <2>1. PICK t \in EnsureLoaded(UnloadedTab(top - 1, s.tabs[top])) :
          m = Manager([k \in 1..n |-> IF k = top THEN t ELSE UnloadedTab(k - 1, s.tabs[k])],
                      top - 1, n)
    BY DEF RestoredManagers
  <2>2. unloaded[top] = UnloadedTab(top - 1, s.tabs[top])
    BY <1>3
  <2>3. [k \in 1..n |-> IF k = top THEN t ELSE UnloadedTab(k - 1, s.tabs[k])]
        = [unloaded EXCEPT ![top] = t]
    BY <1>3
  <2> QED
    BY <2>1, <2>2, <2>3
<1>6. unloaded \in Seq(BrowserTab) /\ Len(unloaded) = n
  <2>1. \A k \in 1..n : UnloadedTab(k - 1, s.tabs[k]) \in BrowserTab
    BY <1>4 DEF WellFormed
  <2> QED
    BY <1>2, <2>1, IsASeq
<1>7. \A k \in 1..n : WellFormed(unloaded[k]) /\ unloaded[k].id = k - 1
  BY <1>4
<1> HIDE DEF unloaded, top
<1>8. GoodStrip(unloaded, top - 1, n)
  BY <1>2, <1>3, <1>6, <1>7 DEF GoodStrip
<1>9. WellFormed(t) /\ t.id = unloaded[top].id
  BY <1>3, <1>5, <1>7, EnsureLoadedOK
<1>10. GoodStrip([unloaded EXCEPT ![top] = t], unloaded[top].id, n)
  BY <1>3, <1>6, <1>8, <1>9, ReplaceStrip
<1>11. GoodStrip([unloaded EXCEPT ![top] = t], top - 1, n)
  BY <1>3, <1>7, <1>10
<1> QED
  BY <1>5, <1>11 DEF Manager

LEMMA InitInv == Init => Inv
<1> SUFFICES ASSUME Init PROVE Inv
  OBVIOUS
<1>1. PICK m \in InitialManagers :
        tabs = m.tabs /\ active_tab = m.active_tab /\ next_tab_id = m.next_tab_id
  BY DEF Init
<1> SUFFICES GoodStrip(m.tabs, m.active_tab, m.next_tab_id)
  BY <1>1 DEF Inv
<1>2. CASE m = NewManager
  <2>1. GoodStrip(<<BlankTab(0, "new_tab")>>, 0, 0 + 1)
    BY BlankTabOK, SingleStrip DEF Views
  <2> QED
    BY <1>2, <2>1 DEF NewManager, Manager
<1>3. CASE m = ErrorManager
  <2>1. GoodStrip(<<BlankTab(0, "load_error")>>, 0, 0 + 1)
    BY BlankTabOK, SingleStrip DEF Views
  <2> QED
    BY <1>3, <2>1 DEF ErrorManager, Manager
<1>4. CASE \E r \in Redirects, room \in Rooms : m = LoadedManager(r[2], room)
  <2>1. PICK r \in Redirects, room \in Rooms : m = LoadedManager(r[2], room)
    BY <1>4
  <2>2. r[2] \in Urls
    BY ConstantsAssumption
  <2>3. GoodStrip(<<LoadedTab(0, r[2], room)>>, 0, 0 + 1)
    BY <2>2, LoadedTabOK, SingleStrip
  <2> QED
    BY <2>1, <2>3 DEF LoadedManager, Manager
<1>5. CASE \E s \in Sessions : m \in RestoredManagers(s)
  BY <1>5, SessionsAssumption, RestoredStrip
<1> QED
  BY <1>1, <1>2, <1>3, <1>4, <1>5 DEF InitialManagers

-----------------------------------------------------------------------------
(* Every step preserves it.                                                 *)

LEMMA ActiveOK ==
  ASSUME Inv
  PROVE  Active \in 1..Len(tabs) /\ Current.id = active_tab /\ WellFormed(Current)
<1>1. DOMAIN tabs = 1..Len(tabs)
  BY DEF Inv, GoodStrip
<1>2. \E i \in DOMAIN tabs : tabs[i].id = active_tab
  BY <1>1 DEF Inv, GoodStrip
<1>3. Active \in DOMAIN tabs /\ tabs[Active].id = active_tab
  BY <1>2 DEF Active
<1> QED
  BY <1>1, <1>3 DEF Current, Inv, GoodStrip

LEMMA ReplaceInv ==
  ASSUME Inv, NEW t, WellFormed(t), t.id = Current.id, Replace(t)
  PROVE  Inv'
<1>1. GoodStrip([tabs EXCEPT ![Active] = t], tabs[Active].id, next_tab_id)
  BY ActiveOK, ReplaceStrip DEF Inv, Current
<1> QED
  BY <1>1, ActiveOK DEF Inv, Replace, Current

LEMMA OpenTabInv ==
  ASSUME Inv, NEW t, WellFormed(t), t.id = next_tab_id, OpenTab(t)
  PROVE  Inv'
BY OpenStrip DEF Inv, OpenTab

LEMMA NextIdOK == Inv => next_tab_id \in Nat
BY DEF Inv, GoodStrip

LEMMA OpeningInv ==
  ASSUME Inv, NewTab \/ OpenNativeTab \/ \E u \in Urls : OpenInNewTab(u)
  PROVE  Inv'
<1>1. CASE NewTab
  BY <1>1, NextIdOK, BlankTabOK, OpenTabInv DEF NewTab, Views
<1>2. CASE OpenNativeTab
  BY <1>2, NextIdOK, BlankTabOK, OpenTabInv DEF OpenNativeTab, Views
<1>3. CASE \E u \in Urls : OpenInNewTab(u)
  <2>1. PICK u \in Urls : OpenInNewTab(u)
    BY <1>3
  <2>2. CASE \E f \in Load(u), r \in Rooms : OpenTab(LoadedTab(next_tab_id, f, r))
    <3>1. PICK f \in Urls, r \in Rooms : OpenTab(LoadedTab(next_tab_id, f, r))
      BY <2>2, ConstantFacts
    <3> QED
      BY <3>1, NextIdOK, LoadedTabOK, OpenTabInv
  <2>3. CASE next_tab_id' = next_tab_id + 1 /\ UNCHANGED <<tabs, active_tab>>
    <3>1. \A i \in 1..Len(tabs) : tabs[i].id \in Nat /\ tabs[i].id < next_tab_id
      BY DEF Inv, GoodStrip, WellFormed, BrowserTab
    <3> QED
      BY <2>3, <3>1, NextIdOK DEF Inv, GoodStrip
  <2> QED
    BY <2>1, <2>2, <2>3 DEF OpenInNewTab
<1> QED
  BY <1>1, <1>2, <1>3

LEMMA SwitchInv ==
  ASSUME Inv, NEW i \in DOMAIN tabs, SwitchTab(i)
  PROVE  Inv'
<1>1. i \in 1..Len(tabs) /\ WellFormed(tabs[i])
  BY DEF Inv, GoodStrip
<1>2. PICK t \in EnsureLoaded(tabs[i]) : tabs' = [tabs EXCEPT ![i] = t]
  BY DEF SwitchTab
<1>3. WellFormed(t) /\ t.id = tabs[i].id
  BY <1>1, EnsureLoadedOK
<1>4. GoodStrip([tabs EXCEPT ![i] = t], tabs[i].id, next_tab_id)
  BY <1>1, <1>3, ReplaceStrip DEF Inv
<1> QED
  BY <1>2, <1>4 DEF Inv, SwitchTab

LEMMA CloseInv ==
  ASSUME Inv, NEW i \in DOMAIN tabs, CloseTab(i)
  PROVE  Inv'
<1> DEFINE rest == RemoveAt(tabs, i)
           j == Clamp(i, Len(rest))
<1>1. i \in 1..Len(tabs) /\ Len(tabs) \in Nat
  BY DEF Inv, GoodStrip
<1>2. /\ rest \in Seq(BrowserTab) /\ Len(rest) = Len(tabs) - 1
      /\ \A k \in 1..Len(rest) : GoodStrip(rest, rest[k].id, next_tab_id)
      /\ tabs[i].id # active_tab => GoodStrip(rest, active_tab, next_tab_id)
  BY <1>1, RemoveStrip DEF Inv
<1>3. CASE CloseLastTab
  <2>1. GoodStrip(<<BlankTab(next_tab_id, "new_tab")>>, next_tab_id, next_tab_id + 1)
    BY NextIdOK, BlankTabOK, SingleStrip DEF Views
  <2> QED
    BY <1>3, <2>1 DEF Inv, CloseLastTab
<1>4. CASE CloseActiveTab(i)
  <2>1. PICK t \in EnsureLoaded(rest[j]) :
          tabs' = [rest EXCEPT ![j] = t] /\ active_tab' = rest[j].id
    BY <1>4 DEF CloseActiveTab
  <2> HIDE DEF rest
  <2>2. j \in 1..Len(rest)
    BY <1>1, <1>2, <1>4 DEF Clamp, CloseActiveTab
  <2> HIDE DEF j
  <2>3. GoodStrip(rest, rest[j].id, next_tab_id) /\ WellFormed(rest[j])
    BY <1>2, <2>2 DEF GoodStrip
  <2>4. WellFormed(t) /\ t.id = rest[j].id
    BY <2>3, EnsureLoadedOK
  <2>5. GoodStrip([rest EXCEPT ![j] = t], rest[j].id, next_tab_id)
    BY <2>2, <2>3, <2>4, ReplaceStrip
  <2> QED
    BY <1>4, <2>1, <2>5 DEF Inv, CloseActiveTab
<1>5. CASE CloseOtherTab(i)
  BY <1>2, <1>5 DEF Inv, CloseOtherTab
<1> QED
  BY <1>3, <1>4, <1>5 DEF CloseTab

LEMMA MoveInv ==
  ASSUME Inv, NEW i \in DOMAIN tabs, NEW j \in DOMAIN tabs, MoveTab(i, j)
  PROVE  Inv'
<1>1. i \in 1..Len(tabs) /\ j \in 1..Len(tabs)
  BY DEF Inv, GoodStrip
<1>2. GoodStrip(InsertAt(RemoveAt(tabs, i), j, tabs[i]), active_tab, next_tab_id)
  BY <1>1, MoveStrip DEF Inv
<1> QED
  BY <1>2 DEF Inv, MoveTab

LEMMA PagedOK ==
  ASSUME NEW t, WellFormed(t), NEW p \in Page, p.scroll <= p.room
  PROVE  WellFormed([t EXCEPT !.page = p]) /\ [t EXCEPT !.page = p].id = t.id
<1>1. [t EXCEPT !.page = p] \in BrowserTab
  BY FieldsOK DEF WellFormed
<1> QED
  BY <1>1 DEF WellFormed, BrowserTab

LEMMA RelaidOK ==
  ASSUME NEW p \in Page, NEW q \in Relaid(p)
  PROVE  q \in Page /\ q.scroll <= q.room
<1>1. PICK r \in Rooms : q = ScrolledTo([p EXCEPT !.room = r], p.scroll)
  BY ConstantFacts DEF Relaid
<1>2. [p EXCEPT !.room = r] \in Page /\ p.scroll \in Rooms
  BY DEF Page
<1> QED
  BY <1>1, <1>2, ScrolledToOK

LEMMA ResizeInv ==
  ASSUME Inv, Resize
  PROVE  Inv'
<1>1. PICK page \in [DOMAIN tabs -> Page] :
        /\ \A i \in DOMAIN tabs : page[i] \in Relaid(tabs[i].page)
        /\ tabs' = [i \in DOMAIN tabs |-> [tabs[i] EXCEPT !.page = page[i]]]
  BY DEF Resize
<1>2. DOMAIN tabs = 1..Len(tabs) /\ Len(tabs) \in Nat
  BY DEF Inv, GoodStrip
<1>3. \A i \in 1..Len(tabs) : WellFormed(tabs[i]) /\ tabs[i].page \in Page
  BY DEF Inv, GoodStrip, WellFormed, BrowserTab
<1>4. \A i \in 1..Len(tabs) :
        /\ WellFormed([tabs[i] EXCEPT !.page = page[i]])
        /\ [tabs[i] EXCEPT !.page = page[i]].id = tabs[i].id
  BY <1>1, <1>2, <1>3, RelaidOK, PagedOK
<1> DEFINE new(i) == [tabs[i] EXCEPT !.page = page[i]]
           ts2 == [i \in 1..Len(tabs) |-> new(i)]
<1>5. tabs' = ts2
  BY <1>1, <1>2
<1>6. \A i \in 1..Len(tabs) : new(i) \in BrowserTab
  BY <1>4 DEF WellFormed
<1>7. ts2 \in Seq(BrowserTab) /\ Len(ts2) = Len(tabs)
  <2> HIDE DEF new
  <2> QED
    BY <1>2, <1>6, IsASeq
<1>8. \A i \in 1..Len(tabs) : WellFormed(ts2[i]) /\ ts2[i].id = tabs[i].id
  BY <1>4
<1> HIDE DEF ts2
<1>9. GoodStrip(ts2, active_tab, next_tab_id)
  BY <1>7, <1>8 DEF Inv, GoodStrip
<1> QED
  BY <1>5, <1>9 DEF Inv, Resize

LEMMA NavigationInv ==
  ASSUME Inv,
         (\E u \in Urls : NavigateActive(u)) \/ BackActive \/ ForwardActive \/ ReloadActive
  PROVE  Inv'
<1>1. WellFormed(Current) /\ Current.history \in Seq(Urls)
      /\ Current.history_index \in 0..Len(Current.history)
  BY ActiveOK DEF WellFormed, BrowserTab
<1>2. CASE \E u \in Urls : NavigateActive(u)
  <2>1. PICK f \in Urls, r \in Rooms : Replace(Navigated(Current, f, r))
    BY <1>2, ConstantFacts DEF NavigateActive
  <2> QED
    BY <1>1, <2>1, NavigatedOK, ReplaceInv
<1>3. ASSUME NEW i \in 1..Len(Current.history),
             \E f \in Landings(Current.history[i]), r \in Rooms :
               Replace(MovedTo(Current, i, f, r))
      PROVE  Inv'
  <2>1. PICK f \in Urls, r \in Rooms : Replace(MovedTo(Current, i, f, r))
    BY <1>3, ConstantFacts
  <2> QED
    BY <1>1, <2>1, MovedToOK, ReplaceInv
<1>4. CASE BackActive
  <2>1. Current.history_index - 1 \in 1..Len(Current.history)
    BY <1>1, <1>4 DEF BackActive, CanGoBack
  <2> QED
    BY <1>3, <1>4, <2>1 DEF BackActive
<1>5. CASE ForwardActive
  <2>1. Current.history_index + 1 \in 1..Len(Current.history)
    BY <1>1, <1>5 DEF ForwardActive, CanGoForward
  <2> QED
    BY <1>3, <1>5, <2>1 DEF ForwardActive
<1>6. CASE ReloadActive
  <2>1. PICK t \in Reloads(Current) : Replace(t)
    BY <1>6 DEF ReloadActive
  <2> QED
    BY <1>1, <2>1, ReloadsOK, ReplaceInv
<1> QED
  BY <1>2, <1>4, <1>5, <1>6

LEMMA ViewInv ==
  ASSUME Inv, ShowErrorOnActive \/ HomeActive \/ ShowNativeOnActive \/ ScrollActive
  PROVE  Inv'
<1>1. WellFormed(Current) /\ Current.page \in Page
  BY ActiveOK DEF WellFormed, BrowserTab
<1>2. CASE ShowErrorOnActive
  BY <1>1, <1>2, CoveredOK, ReplaceInv DEF ShowErrorOnActive, Views
<1>3. CASE HomeActive
  BY <1>1, <1>3, ClearedOK, ReplaceInv DEF HomeActive, Views
<1>4. CASE ShowNativeOnActive
  BY <1>1, <1>4, ClearedOK, ReplaceInv DEF ShowNativeOnActive, Views
<1>5. CASE ScrollActive
  <2>1. PICK n \in Rooms : Replace([Current EXCEPT !.page = ScrolledTo(Current.page, n)])
    BY <1>5 DEF ScrollActive
  <2> QED
    BY <1>1, <2>1, ScrolledToOK, PagedOK, ReplaceInv
<1> QED
  BY <1>2, <1>3, <1>4, <1>5

LEMMA NextInv ==
  ASSUME Inv, [Next]_vars
  PROVE  Inv'
<1>1. CASE UNCHANGED vars
  BY <1>1 DEF vars, Inv
<1>2. CASE Next
  BY <1>2, OpeningInv, SwitchInv, CloseInv, MoveInv, ResizeInv, NavigationInv, ViewInv
     DEF Next
<1> QED
  BY <1>1, <1>2

\* The strip is always well typed: no page is scrolled past its end and no
\* history cursor leaves its history, whatever loads, fails, closes or moves.
THEOREM TypeCorrect == Spec => []TypeOK
<1>1. Inv => TypeOK
  BY InvImplies
<1> QED
  BY InitInv, NextInv, <1>1, PTL DEF Spec

\* The active id always names exactly one open tab, for any number of tabs.
THEOREM ActiveTabUnique == Spec => []UniqueActiveTab
<1>1. Inv => UniqueActiveTab
  BY InvImplies
<1> QED
  BY InitInv, NextInv, <1>1, PTL DEF Spec

-----------------------------------------------------------------------------
(* Where the tabs of the strip after a step come from.  What is proved of   *)
(* one tab below holds of the strip because every step does to each tab of  *)
(* it one of the things of Evolves, or makes a new tab.                     *)

Evolves(t, u) ==
  \/ u = t
  \/ \E f \in Readable, r \in Rooms : u = Navigated(t, f, r)
  \/ \E i \in {t.history_index - 1, t.history_index + 1} \cap DOMAIN t.history,
        f \in Readable, r \in Rooms : u = MovedTo(t, i, f, r)
  \/ u \in Reloads(t)
  \/ t.history_index = 0 /\ u = [t EXCEPT !.needs_reload = FALSE]
  \/ \E view \in Views \ {"none"} : u \in {Covered(t, view), Cleared(t, view)}
  \/ \E p \in Page : p.doc = t.page.doc /\ u = [t EXCEPT !.page = p]

Born(u) ==
  /\ u.id = next_tab_id
  /\ \/ \E view \in Views \ {"none"} : u = BlankTab(next_tab_id, view)
     \/ \E f \in Urls, r \in Rooms : u = LoadedTab(next_tab_id, f, r)

Continues(t, u) ==
  /\ u.id = t.id
  /\ Evolves(t, u)
  /\ \/ u = t
     \/ t.id \in {active_tab, active_tab'}
     \/ Resize

\* The tab at place i after the step.
Descends(i) == Born(tabs'[i]) \/ \E k \in 1..Len(tabs) : Continues(tabs[k], tabs'[i])

LEMMA SameContinues ==
  ASSUME NEW i, NEW k \in 1..Len(tabs), tabs'[i] = tabs[k]
  PROVE  Descends(i)
BY DEF Descends, Continues, Evolves

LEMMA EnsureLoadedEvolves ==
  ASSUME NEW t, NEW u \in EnsureLoaded(t)
  PROVE  Evolves(t, u)
<1>1. CASE ~t.needs_reload
  <2>1. u = t
    BY <1>1 DEF EnsureLoaded
  <2> QED
    BY <2>1 DEF Evolves
<1>2. CASE t.needs_reload /\ t.history_index = 0
  <2>1. u = [t EXCEPT !.needs_reload = FALSE]
    BY <1>2 DEF EnsureLoaded
  <2> QED
    BY <1>2, <2>1 DEF Evolves
<1>3. CASE t.needs_reload /\ t.history_index # 0
  <2>1. u = t \/ u \in Reloads(t)
    BY <1>3 DEF EnsureLoaded
  <2> QED
    BY <2>1 DEF Evolves
<1> QED
  BY <1>1, <1>2, <1>3

LEMMA ReplaceDescends ==
  ASSUME Inv, NEW t, Replace(t), Evolves(Current, t), t.id = Current.id
  PROVE  \A i \in 1..Len(tabs') : Descends(i)
<1>1. Len(tabs') = Len(tabs) /\ Active \in 1..Len(tabs) /\ Current.id = active_tab
  BY ActiveOK DEF Replace, Inv, GoodStrip
<1> SUFFICES ASSUME NEW i \in 1..Len(tabs) PROVE Descends(i)
  BY <1>1
<1>2. CASE i = Active
  <2>1. tabs'[i] = t /\ tabs[i] = Current
    BY <1>1, <1>2 DEF Replace, Inv, GoodStrip, Current
  <2>2. Continues(tabs[i], tabs'[i])
    BY <1>1, <2>1 DEF Continues
  <2> QED
    BY <2>2 DEF Descends
<1>3. CASE i # Active
  <2>1. tabs'[i] = tabs[i]
    BY <1>3 DEF Replace, Inv, GoodStrip
  <2> QED
    BY <2>1, SameContinues
<1> QED
  BY <1>2, <1>3

LEMMA OpeningDescends ==
  ASSUME Inv, NewTab \/ OpenNativeTab \/ \E u \in Urls : OpenInNewTab(u)
  PROVE  \A i \in 1..Len(tabs') : Descends(i)
<1>1. ASSUME NEW t, Born(t), OpenTab(t)
      PROVE  \A i \in 1..Len(tabs') : Descends(i)
  <2>1. /\ Len(tabs) \in Nat /\ Len(tabs') = Len(tabs) + 1
        /\ tabs'[Len(tabs) + 1] = t
        /\ \A i \in 1..Len(tabs) : tabs'[i] = tabs[i]
    BY <1>1 DEF OpenTab, Inv, GoodStrip
  <2> SUFFICES ASSUME NEW i \in 1..Len(tabs') PROVE Descends(i)
    OBVIOUS
  <2>2. i = Len(tabs) + 1 \/ i \in 1..Len(tabs)
    BY <2>1
  <2>3. CASE i = Len(tabs) + 1
    BY <1>1, <2>1, <2>3 DEF Descends
  <2>4. CASE i \in 1..Len(tabs)
    BY <2>1, <2>4, SameContinues
  <2> QED
    BY <2>2, <2>3, <2>4
<1>2. CASE NewTab
  <2>1. Born(BlankTab(next_tab_id, "new_tab"))
    BY NextIdOK, BlankTabOK DEF Born, Views
  <2> QED
    BY <1>1, <1>2, <2>1 DEF NewTab
<1>3. CASE OpenNativeTab
  <2>1. Born(BlankTab(next_tab_id, "list"))
    BY NextIdOK, BlankTabOK DEF Born, Views
  <2> QED
    BY <1>1, <1>3, <2>1 DEF OpenNativeTab
<1>4. CASE \E u \in Urls : OpenInNewTab(u)
  <2>1. PICK u \in Urls : OpenInNewTab(u)
    BY <1>4
  <2>2. CASE \E f \in Load(u), r \in Rooms : OpenTab(LoadedTab(next_tab_id, f, r))
    <3>1. PICK f \in Urls, r \in Rooms : OpenTab(LoadedTab(next_tab_id, f, r))
      BY <2>2, ConstantFacts
    <3>2. Born(LoadedTab(next_tab_id, f, r))
      BY NextIdOK, LoadedTabOK DEF Born
    <3> QED
      BY <1>1, <3>1, <3>2
  <2>3. CASE UNCHANGED tabs
    BY <2>3, SameContinues
  <2> QED
    BY <2>1, <2>2, <2>3 DEF OpenInNewTab
<1> QED
  BY <1>2, <1>3, <1>4

LEMMA SwitchDescends ==
  ASSUME Inv, NEW i \in DOMAIN tabs, SwitchTab(i)
  PROVE  \A k \in 1..Len(tabs') : Descends(k)
<1>1. i \in 1..Len(tabs) /\ WellFormed(tabs[i])
  BY DEF Inv, GoodStrip
<1>2. PICK t \in EnsureLoaded(tabs[i]) : tabs' = [tabs EXCEPT ![i] = t]
  BY DEF SwitchTab
<1>3. Len(tabs') = Len(tabs) /\ tabs'[i] = t
  BY <1>1, <1>2 DEF Inv, GoodStrip
<1>4. Continues(tabs[i], t)
  BY <1>1, EnsureLoadedOK, EnsureLoadedEvolves DEF Continues, SwitchTab
<1>5. Descends(i)
  BY <1>1, <1>3, <1>4 DEF Descends
<1>6. ASSUME NEW k \in 1..Len(tabs), k # i PROVE Descends(k)
  <2>1. tabs'[k] = tabs[k]
    BY <1>2, <1>6 DEF Inv, GoodStrip
  <2> QED
    BY <2>1, SameContinues
<1> QED
  BY <1>3, <1>5, <1>6

LEMMA CloseDescends ==
  ASSUME Inv, NEW i \in DOMAIN tabs, CloseTab(i)
  PROVE  \A k \in 1..Len(tabs') : Descends(k)
<1> DEFINE rest == RemoveAt(tabs, i)
           j == Clamp(i, Len(rest))
<1>1. i \in 1..Len(tabs) /\ Len(tabs) \in Nat /\ tabs \in Seq(BrowserTab)
  BY DEF Inv, GoodStrip
<1>2. /\ rest \in Seq(BrowserTab) /\ Len(rest) = Len(tabs) - 1
      /\ \A k \in 1..Len(rest) : rest[k] = IF k < i THEN tabs[k] ELSE tabs[k + 1]
  BY <1>1, RemoveAtProperties
<1> HIDE DEF rest
<1>3. \A k \in 1..Len(rest) : \E l \in 1..Len(tabs) : rest[k] = tabs[l]
  <2> TAKE k \in 1..Len(rest)
  <2>1. k \in 1..Len(tabs) /\ k + 1 \in 1..Len(tabs)
    BY <1>1, <1>2
  <2> QED
    BY <1>2, <2>1
<1>4. CASE CloseLastTab
  <2>1. Born(BlankTab(next_tab_id, "new_tab"))
    BY NextIdOK, BlankTabOK DEF Born, Views
  <2>2. Len(tabs') = 1 /\ tabs'[1] = BlankTab(next_tab_id, "new_tab")
    BY <1>4 DEF CloseLastTab
  <2> QED
    BY <2>1, <2>2 DEF Descends
<1>5. CASE CloseActiveTab(i)
  <2>1. PICK t \in EnsureLoaded(rest[j]) :
          tabs' = [rest EXCEPT ![j] = t] /\ active_tab' = rest[j].id
    BY <1>5 DEF CloseActiveTab, rest
  <2>2. j \in 1..Len(rest)
    BY <1>1, <1>2, <1>5 DEF Clamp, CloseActiveTab
  <2> HIDE DEF j
  <2>3. Len(tabs') = Len(rest) /\ tabs'[j] = t
        /\ \A k \in 1..Len(rest) : k # j => tabs'[k] = rest[k]
    BY <1>2, <2>1, <2>2
  <2>4. PICK l \in 1..Len(tabs) : rest[j] = tabs[l]
    BY <1>3, <2>2
  <2>5. WellFormed(tabs[l])
    BY DEF Inv, GoodStrip
  <2>6. Continues(tabs[l], t)
    BY <2>1, <2>4, <2>5, EnsureLoadedOK, EnsureLoadedEvolves DEF Continues
  <2>7. Descends(j)
    BY <2>3, <2>6 DEF Descends
  <2>8. \A k \in 1..Len(rest) : k # j => Descends(k)
    BY <1>3, <2>3, SameContinues
  <2> QED
    BY <2>3, <2>7, <2>8
<1>6. CASE CloseOtherTab(i)
  <2>1. tabs' = rest
    BY <1>6 DEF CloseOtherTab, rest
  <2> QED
    BY <2>1, <1>3, SameContinues
<1> QED
  BY <1>4, <1>5, <1>6 DEF CloseTab

LEMMA MoveKeepsTabs ==
  ASSUME Inv, NEW i \in DOMAIN tabs, NEW j \in DOMAIN tabs, MoveTab(i, j)
  PROVE  /\ Len(tabs') = Len(tabs)
         /\ \A k \in 1..Len(tabs) : \E l \in 1..Len(tabs) : tabs'[k] = tabs[l]
<1> DEFINE rest == RemoveAt(tabs, i)
<1>1. /\ i \in 1..Len(tabs) /\ j \in 1..Len(tabs) /\ Len(tabs) \in Nat
      /\ tabs \in Seq(BrowserTab) /\ tabs[i] \in BrowserTab
  BY DEF Inv, GoodStrip, WellFormed
<1>2. /\ rest \in Seq(BrowserTab) /\ Len(rest) = Len(tabs) - 1
      /\ \A k \in 1..Len(rest) : rest[k] = IF k < i THEN tabs[k] ELSE tabs[k + 1]
  BY <1>1, RemoveAtProperties
<1>3. tabs' = InsertAt(rest, j, tabs[i])
  BY DEF MoveTab
<1> HIDE DEF rest
<1>4. j \in 1..(Len(rest) + 1)
  BY <1>1, <1>2
<1>5. /\ Len(tabs') = Len(tabs)
      /\ \A k \in 1..Len(tabs) :
           tabs'[k] = IF k < j THEN rest[k] ELSE IF k = j THEN tabs[i] ELSE rest[k - 1]
  <2> DEFINE ts2 == InsertAt(rest, j, tabs[i])
  <2>1. /\ Len(ts2) = Len(rest) + 1
        /\ \A k \in 1..(Len(rest) + 1) :
             ts2[k] = IF k < j THEN rest[k] ELSE IF k = j THEN tabs[i] ELSE rest[k - 1]
    <3>1. rest \in Seq(BrowserTab) /\ tabs[i] \in BrowserTab
      BY <1>1, <1>2
    <3>2. IsInsertion(ts2, rest, j, tabs[i])
      BY <3>1, <1>4, InsertedTab
    <3> QED
      BY <3>2 DEF IsInsertion
  <2>2. Len(rest) + 1 = Len(tabs)
    BY <1>1, <1>2
  <2> HIDE DEF ts2
  <2>3. tabs' = ts2
    BY <1>3 DEF ts2
  <2> QED
    BY <2>1, <2>2, <2>3
<1>6. \A k \in 1..Len(rest) : \E l \in 1..Len(tabs) : rest[k] = tabs[l]
  <2> TAKE k \in 1..Len(rest)
  <2>1. k \in 1..Len(tabs) /\ k + 1 \in 1..Len(tabs)
    BY <1>1, <1>2
  <2> QED
    BY <1>2, <2>1
<1>7. \A k \in 1..Len(tabs) : \E l \in 1..Len(tabs) : tabs'[k] = tabs[l]
  <2> TAKE k \in 1..Len(tabs)
  <2>1. CASE k < j
    <3>1. k \in 1..Len(rest)
      BY <1>1, <1>2, <2>1
    <3> QED
      BY <1>5, <1>6, <2>1, <3>1
  <2>2. CASE k = j
    BY <1>1, <1>5, <2>2
  <2>3. CASE k > j
    <3>1. k - 1 \in 1..Len(rest) /\ ~(k < j) /\ k # j
      BY <1>1, <1>2, <2>3
    <3> QED
      BY <1>5, <1>6, <3>1
  <2> QED
    BY <1>1, <2>1, <2>2, <2>3
<1> QED
  BY <1>5, <1>7

LEMMA MoveDescends ==
  ASSUME Inv, NEW i \in DOMAIN tabs, NEW j \in DOMAIN tabs, MoveTab(i, j)
  PROVE  \A k \in 1..Len(tabs') : Descends(k)
BY MoveKeepsTabs, SameContinues

LEMMA ResizeDescends ==
  ASSUME Inv, Resize
  PROVE  \A i \in 1..Len(tabs') : Descends(i)
<1>1. PICK page \in [DOMAIN tabs -> Page] :
        /\ \A i \in DOMAIN tabs : page[i] \in Relaid(tabs[i].page)
        /\ tabs' = [i \in DOMAIN tabs |-> [tabs[i] EXCEPT !.page = page[i]]]
  BY DEF Resize
<1>2. DOMAIN tabs = 1..Len(tabs) /\ Len(tabs) \in Nat
  BY DEF Inv, GoodStrip
<1>3. Len(tabs') = Len(tabs)
  BY <1>1, <1>2
<1> SUFFICES ASSUME NEW i \in 1..Len(tabs) PROVE Descends(i)
  BY <1>3
<1>4. tabs'[i] = [tabs[i] EXCEPT !.page = page[i]]
  BY <1>1, <1>2
<1>5. WellFormed(tabs[i]) /\ tabs[i].page \in Page
  BY DEF Inv, GoodStrip, WellFormed, BrowserTab
<1>6. page[i] \in Relaid(tabs[i].page)
  BY <1>1, <1>2
<1>7. page[i] \in Page /\ page[i].scroll <= page[i].room
  BY <1>5, <1>6, RelaidOK
<1>8. page[i].doc = tabs[i].page.doc
  BY <1>5, <1>6 DEF Relaid, ScrolledTo, Page
<1>9. tabs'[i].id = tabs[i].id
  BY <1>4, <1>5, <1>7, PagedOK
<1>10. Continues(tabs[i], tabs'[i])
  BY <1>4, <1>7, <1>8, <1>9 DEF Continues, Evolves
<1> QED
  BY <1>10 DEF Descends

LEMMA NavigationDescends ==
  ASSUME Inv,
         (\E u \in Urls : NavigateActive(u)) \/ BackActive \/ ForwardActive \/ ReloadActive
  PROVE  \A i \in 1..Len(tabs') : Descends(i)
<1>1. /\ WellFormed(Current) /\ Current.history \in Seq(Urls)
      /\ Current.history_index \in 0..Len(Current.history)
      /\ DOMAIN Current.history = 1..Len(Current.history)
  BY ActiveOK DEF WellFormed, BrowserTab
<1>2. CASE \E u \in Urls : NavigateActive(u)
  <2>1. PICK f \in Readable, r \in Rooms : Replace(Navigated(Current, f, r))
    BY <1>2, LandingsReadable DEF NavigateActive
  <2>2. Evolves(Current, Navigated(Current, f, r))
    BY DEF Evolves
  <2> QED
    BY <1>1, <2>1, <2>2, NavigatedOK, ReplaceDescends DEF Readable
<1>3. ASSUME NEW i \in 1..Len(Current.history),
             i \in {Current.history_index - 1, Current.history_index + 1},
             \E f \in Landings(Current.history[i]), r \in Rooms :
               Replace(MovedTo(Current, i, f, r))
      PROVE  \A k \in 1..Len(tabs') : Descends(k)
  <2>1. PICK f \in Readable, r \in Rooms : Replace(MovedTo(Current, i, f, r))
    BY <1>1, <1>3, LandingsReadable
  <2>2. Evolves(Current, MovedTo(Current, i, f, r))
    BY <1>1, <1>3 DEF Evolves
  <2> QED
    BY <1>1, <2>1, <2>2, MovedToOK, ReplaceDescends DEF Readable
<1>4. CASE BackActive
  <2>1. Current.history_index - 1 \in 1..Len(Current.history)
    BY <1>1, <1>4 DEF BackActive, CanGoBack
  <2> QED
    BY <1>3, <1>4, <2>1 DEF BackActive
<1>5. CASE ForwardActive
  <2>1. Current.history_index + 1 \in 1..Len(Current.history)
    BY <1>1, <1>5 DEF ForwardActive, CanGoForward
  <2> QED
    BY <1>3, <1>5, <2>1 DEF ForwardActive
<1>6. CASE ReloadActive
  <2>1. PICK t \in Reloads(Current) : Replace(t)
    BY <1>6 DEF ReloadActive
  <2>2. Evolves(Current, t)
    BY <2>1 DEF Evolves
  <2> QED
    BY <1>1, <2>1, <2>2, ReloadsOK, ReplaceDescends
<1> QED
  BY <1>2, <1>4, <1>5, <1>6

LEMMA ViewDescends ==
  ASSUME Inv, ShowErrorOnActive \/ HomeActive \/ ShowNativeOnActive \/ ScrollActive
  PROVE  \A i \in 1..Len(tabs') : Descends(i)
<1>1. WellFormed(Current) /\ Current.page \in Page
  BY ActiveOK DEF WellFormed, BrowserTab
<1>2. ASSUME NEW view \in Views \ {"none"},
             Replace(Covered(Current, view)) \/ Replace(Cleared(Current, view))
      PROVE  \A i \in 1..Len(tabs') : Descends(i)
  <2>1. Evolves(Current, Covered(Current, view)) /\ Evolves(Current, Cleared(Current, view))
    BY DEF Evolves
  <2> QED
    BY <1>1, <1>2, <2>1, CoveredOK, ClearedOK, ReplaceDescends
<1>3. {"new_tab", "load_error", "list"} \subseteq Views \ {"none"}
  BY DEF Views
<1>4. CASE ShowErrorOnActive \/ HomeActive \/ ShowNativeOnActive
  BY <1>2, <1>3, <1>4 DEF ShowErrorOnActive, HomeActive, ShowNativeOnActive
<1>5. CASE ScrollActive
  <2>1. PICK n \in Rooms : Replace([Current EXCEPT !.page = ScrolledTo(Current.page, n)])
    BY <1>5 DEF ScrollActive
  <2>2. /\ ScrolledTo(Current.page, n) \in Page
        /\ ScrolledTo(Current.page, n).scroll <= ScrolledTo(Current.page, n).room
        /\ ScrolledTo(Current.page, n).doc = Current.page.doc
    BY <1>1, ScrolledToOK DEF ScrolledTo, Page
  <2>3. Evolves(Current, [Current EXCEPT !.page = ScrolledTo(Current.page, n)])
    BY <2>2 DEF Evolves
  <2> QED
    BY <1>1, <2>1, <2>2, <2>3, PagedOK, ReplaceDescends
<1> QED
  BY <1>4, <1>5

LEMMA EveryTabDescends ==
  ASSUME Inv, [Next]_vars
  PROVE  \A i \in 1..Len(tabs') : Descends(i)
<1>1. CASE UNCHANGED vars
  BY <1>1, SameContinues DEF vars
<1>2. CASE Next
  BY <1>2, OpeningDescends, SwitchDescends, CloseDescends, MoveDescends, ResizeDescends,
     NavigationDescends, ViewDescends
     DEF Next
<1> QED
  BY <1>1, <1>2

-----------------------------------------------------------------------------
(* What a tab says, shows and remembers.                                    *)

\* The saved tabs of a session name the current entry of their history, when
\* they name anything: BrowserApp!StoredSessionCoherent says so of what
\* session.rs stores; a URL without a history is what an older file may hold.
SessionCoherent(s) ==
  \A k \in DOMAIN s.tabs :
    LET r == s.tabs[k] IN
    r.url # NoUrl => \/ r.history = <<>>
                     \/ /\ r.history_index \in DOMAIN r.history
                        /\ r.history[r.history_index] = r.url

SessionsCoherent == \A s \in Sessions : SessionCoherent(s)

Agrees(t) == TabAgrees(t) /\ TabLoadable(t)

LEMMA ShownFields ==
  ASSUME NEW t \in BrowserTab, NEW f \in Urls, NEW r \in Rooms
  PROVE  LET u == Shown(t, f, r)
         IN  /\ u \in BrowserTab
             /\ u.page.doc = f /\ f # NoUrl /\ u.url = f /\ u.internal_view = "none"
             /\ u.history = t.history /\ u.history_index = t.history_index
             /\ u.needs_reload = t.needs_reload
<1> DEFINE t1 == [t EXCEPT !.page = Fresh(f, r)]
           t2 == [t1 EXCEPT !.url = f]
<1>1. t1 \in BrowserTab
  BY PageOK, FieldsOK
<1>2. t2 \in BrowserTab
  BY <1>1, FieldsOK, ConstantFacts
<1>3. Shown(t, f, r) \in BrowserTab
  BY <1>2, FieldsOK DEF Shown, Views
<1>4. Fresh(f, r).doc = f /\ f # NoUrl
  BY ConstantsAssumption DEF Fresh
<1> QED
  BY <1>3, <1>4 DEF Shown, BrowserTab

LEMMA SettledAgrees ==
  ASSUME NEW t, WellFormed(t)
  PROVE  (TabAgrees(t) => TabAgrees(Settled(t))) /\ TabLoadable(Settled(t))
<1> DEFINE p == IF t.pending_scroll = NoScroll THEN t.page
                ELSE ScrolledTo(t.page, t.pending_scroll)
<1>1. t \in BrowserTab /\ t.page \in Page
  BY DEF WellFormed, BrowserTab
<1>2. p.doc = t.page.doc
  BY <1>1 DEF ScrolledTo, Page
<1>3. Settled(t) = [t EXCEPT !.needs_reload = FALSE, !.page = p, !.pending_scroll = NoScroll]
  BY DEF Settled
<1> HIDE DEF p
<1>4. /\ Settled(t).url = t.url /\ Settled(t).page = p
      /\ Settled(t).internal_view = t.internal_view
  BY <1>1, <1>3 DEF BrowserTab
<1> QED
  BY <1>2, <1>4, SettledOK DEF TabAgrees, TabLoadable

LEMMA NavigatedAgrees ==
  ASSUME NEW t, WellFormed(t), NEW f \in Urls, NEW r \in Rooms
  PROVE  Agrees(Navigated(t, f, r))
<1> DEFINE t0 == Shown(t, f, r)
           past == SubSeq(t.history, 1, t.history_index)
           h == Append(past, f)
<1>1. past \in Seq(Urls)
  BY SubSeqProperties DEF WellFormed, BrowserTab
<1>2. Len(h) # 0 /\ h[Len(h)] = f
  BY <1>1
<1>3. /\ t0 \in BrowserTab
      /\ t0.page.doc = f /\ f # NoUrl /\ t0.url = f /\ t0.internal_view = "none"
  BY ShownFields DEF WellFormed
<1>4. Navigated(t, f, r) =
        [t0 EXCEPT !.history = h, !.history_index = Len(h), !.needs_reload = FALSE]
  BY DEF Navigated
<1> HIDE DEF t0, h
<1>5. /\ Navigated(t, f, r).page = t0.page /\ Navigated(t, f, r).url = t0.url
      /\ Navigated(t, f, r).internal_view = t0.internal_view
      /\ Navigated(t, f, r).history = h /\ Navigated(t, f, r).history_index = Len(h)
      /\ Navigated(t, f, r).needs_reload = FALSE
  BY <1>3, <1>4 DEF BrowserTab
<1> QED
  BY <1>2, <1>3, <1>5 DEF Agrees, TabAgrees, TabLoadable

\* Back and forward to entry i, and a reload of it, write the URL into the
\* entry that is current after them.
LEMMA WrittenAgrees ==
  ASSUME NEW t, WellFormed(t), NEW f \in Urls, NEW r \in Rooms,
         NEW i \in 1..Len(t.history)
  PROVE  LET t0 == Shown(t, f, r)
             h == [t0.history EXCEPT ![i] = f]
             t1 == [t0 EXCEPT !.history = h]
             u == [t1 EXCEPT !.history_index = i]
         IN  WellFormed(u) /\ Agrees(u)
<1> DEFINE t0 == Shown(t, f, r)
           h == [t0.history EXCEPT ![i] = f]
           t1 == [t0 EXCEPT !.history = h]
           u == [t1 EXCEPT !.history_index = i]
<1>1. /\ t0 \in BrowserTab /\ t0.history = t.history
      /\ t0.page.doc = f /\ f # NoUrl /\ t0.url = f /\ t0.internal_view = "none"
  BY ShownFields DEF WellFormed
<1>2. i # 0 /\ h[i] = f
  BY <1>1 DEF WellFormed, BrowserTab
<1>3. WellFormed(u)
  BY MovedToOK DEF MovedTo
<1> HIDE DEF t0, h
<1>4. /\ u.page = t0.page /\ u.url = t0.url /\ u.internal_view = t0.internal_view
      /\ u.history = h /\ u.history_index = i /\ u.needs_reload = t0.needs_reload
  BY <1>1 DEF BrowserTab
<1>5. Agrees(u)
  BY <1>1, <1>2, <1>4 DEF Agrees, TabAgrees, TabLoadable
<1> QED
  BY <1>3, <1>5 DEF t0, h

LEMMA MovedToAgrees ==
  ASSUME NEW t, WellFormed(t), NEW f \in Urls, NEW r \in Rooms,
         NEW i \in 1..Len(t.history)
  PROVE  Agrees(MovedTo(t, i, f, r))
BY WrittenAgrees DEF MovedTo

LEMMA RefreshedAgrees ==
  ASSUME NEW t, WellFormed(t), t.history_index # 0, NEW f \in Urls, NEW r \in Rooms
  PROVE  Agrees(Refreshed(t, f, r))
<1> DEFINE i == t.history_index
           t0 == Shown(t, f, r)
           h == [t0.history EXCEPT ![i] = f]
           t1 == [t0 EXCEPT !.history = h]
           u == [t1 EXCEPT !.history_index = i]
<1>1. i \in 1..Len(t.history)
  BY DEF WellFormed, BrowserTab
<1>2. WellFormed(u) /\ Agrees(u)
  BY <1>1, WrittenAgrees
<1>3. t0 \in BrowserTab /\ t0.history_index = i
  BY ShownFields DEF WellFormed
<1>4. Refreshed(t, f, r) = Settled(t1)
  BY DEF Refreshed
<1> HIDE DEF t0, h
<1>5. u = t1
  BY <1>3 DEF BrowserTab
<1> QED
  BY <1>2, <1>4, <1>5, SettledAgrees DEF Agrees

LEMMA ReloadsAgrees ==
  ASSUME NEW t, WellFormed(t), NEW u \in Reloads(t)
  PROVE  (TabAgrees(t) => TabAgrees(u)) /\ TabLoadable(u)
<1>1. CASE t.history_index = 0
  <2>1. u = Settled(t)
    BY <1>1 DEF Reloads
  <2> QED
    BY <2>1, SettledAgrees
<1>2. CASE t.history_index # 0
  <2>1. PICK f \in Urls, r \in Rooms : u = Refreshed(t, f, r)
    BY <1>2, ConstantFacts DEF Reloads
  <2> QED
    BY <1>2, <2>1, RefreshedAgrees DEF Agrees
<1> QED
  BY <1>1, <1>2

LEMMA CoveredAgrees ==
  ASSUME NEW t, WellFormed(t), NEW view \in Views \ {"none"}
  PROVE  /\ TabAgrees(Covered(t, view))
         /\ TabLoadable(t) => TabLoadable(Covered(t, view))
         /\ Agrees(Cleared(t, view))
<1> DEFINE c == Covered(t, view)
<1>1. t \in BrowserTab /\ Placeholder.doc = NoUrl
  BY DEF WellFormed, Placeholder, Fresh
<1>2. c = [t EXCEPT !.page = Placeholder, !.url = NoUrl, !.internal_view = view]
  BY DEF Covered
<1>3. /\ c.page = Placeholder /\ c.url = NoUrl /\ c.internal_view # "none"
      /\ c.needs_reload = t.needs_reload /\ c.history_index = t.history_index
  BY <1>1, <1>2 DEF BrowserTab
<1>4. c \in BrowserTab
  BY CoveredOK DEF WellFormed
<1>5. Cleared(t, view) =
        [c EXCEPT !.history = <<>>, !.history_index = 0, !.needs_reload = FALSE]
  BY DEF Cleared
<1> HIDE DEF c
<1>6. /\ Cleared(t, view).page = c.page /\ Cleared(t, view).url = c.url
      /\ Cleared(t, view).internal_view = c.internal_view
      /\ Cleared(t, view).needs_reload = FALSE
  BY <1>4, <1>5 DEF BrowserTab
<1>7. TabAgrees(c) /\ (TabLoadable(t) => TabLoadable(c))
  BY <1>1, <1>3 DEF TabAgrees, TabLoadable
<1>8. Agrees(Cleared(t, view))
  BY <1>1, <1>3, <1>6 DEF Agrees, TabAgrees, TabLoadable
<1> QED
  BY <1>7, <1>8 DEF c

LEMMA EvolvesAgrees ==
  ASSUME NEW t, WellFormed(t), NEW u, Evolves(t, u)
  PROVE  (TabAgrees(t) => TabAgrees(u)) /\ (TabLoadable(t) => TabLoadable(u))
<1>1. CASE \E f \in Urls, r \in Rooms : u = Navigated(t, f, r)
  BY <1>1, NavigatedAgrees DEF Agrees
<1>2. ASSUME NEW i \in DOMAIN t.history, NEW f \in Urls, NEW r \in Rooms, u = MovedTo(t, i, f, r)
      PROVE  Agrees(u)
  <2>1. i \in 1..Len(t.history)
    BY DEF WellFormed, BrowserTab
  <2> QED
    BY <1>2, <2>1, MovedToAgrees
<1>3. CASE u \in Reloads(t)
  BY <1>3, ReloadsAgrees
<1>4. CASE t.history_index = 0 /\ u = [t EXCEPT !.needs_reload = FALSE]
  BY <1>4 DEF TabAgrees, TabLoadable, WellFormed, BrowserTab
<1>5. CASE \E view \in Views \ {"none"} : u \in {Covered(t, view), Cleared(t, view)}
  BY <1>5, CoveredAgrees DEF Agrees
<1>6. CASE \E p \in Page : p.doc = t.page.doc /\ u = [t EXCEPT !.page = p]
  BY <1>6 DEF TabAgrees, TabLoadable, WellFormed, BrowserTab
<1> QED
  BY <1>1, <1>2, <1>3, <1>4, <1>5, <1>6 DEF Evolves, Readable, Agrees

\* A tab that shows nothing and whose URL is the entry before its cursor, or
\* the last one when it has no cursor; all its entries can be read back.
Slipped(t) ==
  /\ t.page.doc = NoUrl /\ t.internal_view # "none"
  /\ \E i \in DOMAIN t.history :
       t.history[i] = t.url /\ t.history_index = IF i = Len(t.history) THEN 0 ELSE i + 1
  /\ \A i \in DOMAIN t.history : ReadBack[t.history[i]] # NoUrl

LEMMA SettledSlipped ==
  ASSUME NEW t, WellFormed(t), Slipped(t)
  PROVE  Slipped(Settled(t))
<1> DEFINE p == IF t.pending_scroll = NoScroll THEN t.page
                ELSE ScrolledTo(t.page, t.pending_scroll)
<1>1. t \in BrowserTab /\ t.page \in Page
  BY DEF WellFormed, BrowserTab
<1>2. p.doc = t.page.doc
  BY <1>1 DEF ScrolledTo, Page
<1>3. Settled(t) = [t EXCEPT !.needs_reload = FALSE, !.page = p, !.pending_scroll = NoScroll]
  BY DEF Settled
<1> HIDE DEF p
<1>4. /\ Settled(t).url = t.url /\ Settled(t).page = p
      /\ Settled(t).internal_view = t.internal_view
  BY <1>1, <1>3 DEF BrowserTab
<1> QED
  BY <1>2, <1>4, SettledOK DEF Slipped

\* Whatever loads it or covers it makes such a tab agree again.
LEMMA EvolvesSlipped ==
  ASSUME NEW t, WellFormed(t), Slipped(t), NEW u, Evolves(t, u)
  PROVE  TabAgrees(u) \/ Slipped(u)
<1>1. CASE \E f \in Urls, r \in Rooms : u = Navigated(t, f, r)
  BY <1>1, NavigatedAgrees DEF Agrees
<1>2. ASSUME NEW i \in DOMAIN t.history, NEW f \in Urls, NEW r \in Rooms, u = MovedTo(t, i, f, r)
      PROVE  TabAgrees(u)
  <2>1. i \in 1..Len(t.history)
    BY DEF WellFormed, BrowserTab
  <2> QED
    BY <1>2, <2>1, MovedToAgrees DEF Agrees
<1>3. CASE u \in Reloads(t)
  <2>1. CASE t.history_index = 0
    <3>1. u = Settled(t)
      BY <1>3, <2>1 DEF Reloads
    <3> QED
      BY <3>1, SettledSlipped
  <2>2. CASE t.history_index # 0
    <3>1. PICK f \in Urls, r \in Rooms : u = Refreshed(t, f, r)
      BY <1>3, <2>2, ConstantFacts DEF Reloads
    <3> QED
      BY <2>2, <3>1, RefreshedAgrees DEF Agrees
  <2> QED
    BY <2>1, <2>2
<1>4. CASE u = [t EXCEPT !.needs_reload = FALSE]
  BY <1>4 DEF Slipped, WellFormed, BrowserTab
<1>5. CASE \E view \in Views \ {"none"} : u \in {Covered(t, view), Cleared(t, view)}
  BY <1>5, CoveredAgrees DEF Agrees
<1>6. CASE \E p \in Page : p.doc = t.page.doc /\ u = [t EXCEPT !.page = p]
  BY <1>6 DEF Slipped, WellFormed, BrowserTab
<1>7. CASE u = t
  BY <1>7
<1> QED
  BY <1>1, <1>2, <1>3, <1>4, <1>5, <1>6, <1>7 DEF Evolves, Readable

LEMMA BlankAgrees ==
  ASSUME NEW id, NEW view \in Views \ {"none"}
  PROVE  Agrees(BlankTab(id, view))
BY DEF BlankTab, Agrees, TabAgrees, TabLoadable, Placeholder, Fresh

LEMMA LoadedAgrees ==
  ASSUME NEW id, NEW f \in Urls, NEW r \in Rooms
  PROVE  Agrees(LoadedTab(id, f, r))
<1> DEFINE u == LoadedTab(id, f, r)
<1>1. f # NoUrl /\ <<f>>[1] = f
  BY ConstantsAssumption
<1>2. /\ u.page = Fresh(f, r) /\ u.url = f /\ u.history = <<f>> /\ u.history_index = 1
      /\ u.needs_reload = FALSE /\ u.internal_view = "none"
  BY DEF LoadedTab, BlankTab
<1> HIDE DEF u
<1>3. Agrees(u)
  BY <1>1, <1>2 DEF Agrees, TabAgrees, TabLoadable, Fresh
<1> QED
  BY <1>3 DEF u

LEMMA UnloadedAgrees ==
  ASSUME NEW id \in Nat, NEW s \in RestoredTab,
         s.url # NoUrl => \/ s.history = <<>>
                          \/ /\ s.history_index \in DOMAIN s.history
                             /\ s.history[s.history_index] = s.url
  PROVE  Agrees(UnloadedTab(id, s))
<1> DEFINE seeded == s.history = <<>> /\ s.url # NoUrl
           h == IF seeded THEN <<s.url>> ELSE s.history
           i == IF seeded THEN 1 ELSE s.history_index
           x == IF i \in DOMAIN h THEN i ELSE 0
           t == UnloadedTab(id, s)
<1>1. /\ t.page = Placeholder /\ t.url = s.url /\ t.history = h /\ t.history_index = x
      /\ t.needs_reload = (s.url # NoUrl) /\ t.internal_view = "new_tab"
  BY DEF UnloadedTab, BlankTab
<1>2. s.url # NoUrl => x # 0 /\ h[x] = s.url
  <2>1. CASE seeded
    BY <2>1
  <2>2. CASE ~seeded /\ s.url # NoUrl
    BY <2>2 DEF RestoredTab
  <2> QED
    BY <2>1, <2>2
<1>3. Placeholder.doc = NoUrl
  BY DEF Placeholder, Fresh
<1> HIDE DEF t, h, x
<1>4. Agrees(t)
  BY <1>1, <1>2, <1>3 DEF Agrees, TabAgrees, TabLoadable
<1> QED
  BY <1>4 DEF t

AllAgree == \A i \in 1..Len(tabs) : Agrees(tabs[i])

LEMMA EnsureLoadedAgrees ==
  ASSUME NEW t, WellFormed(t), Agrees(t), NEW u \in EnsureLoaded(t)
  PROVE  Agrees(u)
BY EnsureLoadedEvolves, EvolvesAgrees DEF Agrees

LEMMA RestoredAgrees ==
  ASSUME NEW s, s.tabs \in Seq(RestoredTab), s.tabs # <<>>,
         s.active_tab_index \in Nat \ {0},
         SessionCoherent(s),
         NEW m \in RestoredManagers(s)
  PROVE  \A i \in 1..Len(m.tabs) : Agrees(m.tabs[i])
<1> DEFINE n == Len(s.tabs)
           top == Clamp(s.active_tab_index, n)
           unloaded(k) == UnloadedTab(k - 1, s.tabs[k])
<1>1. s.tabs \in Seq(RestoredTab) /\ n \in Nat /\ n # 0 /\ s.active_tab_index \in Nat \ {0}
  OBVIOUS
<1>2. top \in 1..n
  BY <1>1 DEF Clamp
<1>3. \A k \in 1..n : WellFormed(unloaded(k)) /\ Agrees(unloaded(k))
  <2> TAKE k \in 1..n
  <2>1. s.tabs[k] \in RestoredTab /\ k - 1 \in Nat /\ k \in DOMAIN s.tabs
    BY <1>1
  <2>2. LET r == s.tabs[k] IN
        r.url # NoUrl => \/ r.history = <<>>
                         \/ /\ r.history_index \in DOMAIN r.history
                            /\ r.history[r.history_index] = r.url
    BY <2>1 DEF SessionCoherent
  <2> QED
    BY <2>1, <2>2, UnloadedTabOK, UnloadedAgrees
<1>4. PICK t \in EnsureLoaded(unloaded(top)) :
        m.tabs = [k \in 1..n |-> IF k = top THEN t ELSE unloaded(k)]
  BY DEF RestoredManagers, Manager
<1> HIDE DEF unloaded, top
<1>5. Agrees(t)
  BY <1>2, <1>3, EnsureLoadedAgrees
<1>6. Len(m.tabs) = n
  BY <1>1, <1>4
<1> QED
  BY <1>3, <1>4, <1>5, <1>6

LEMMA InitAgrees ==
  ASSUME SessionsCoherent, Init
  PROVE  AllAgree
<1>1. PICK m \in InitialManagers : tabs = m.tabs
  BY DEF Init
<1> SUFFICES \A i \in 1..Len(m.tabs) : Agrees(m.tabs[i])
  BY <1>1 DEF AllAgree
<1>2. CASE m = NewManager \/ m = ErrorManager
  <2>1. PICK view \in Views \ {"none"} : m.tabs = <<BlankTab(0, view)>>
    BY <1>2 DEF NewManager, ErrorManager, Manager, Views
  <2> QED
    BY <2>1, BlankAgrees
<1>3. CASE \E r \in Redirects, room \in Rooms : m = LoadedManager(r[2], room)
  <2>1. PICK f \in Urls, room \in Rooms : m.tabs = <<LoadedTab(0, f, room)>>
    BY <1>3, ConstantsAssumption DEF LoadedManager, Manager
  <2> QED
    BY <2>1, LoadedAgrees
<1>4. CASE \E s \in Sessions : m \in RestoredManagers(s)
  BY <1>4, SessionsAssumption, RestoredAgrees DEF SessionsCoherent
<1> QED
  BY <1>1, <1>2, <1>3, <1>4 DEF InitialManagers

LEMMA StepAgrees ==
  ASSUME Inv, AllAgree, [Next]_vars
  PROVE  AllAgree'
<1> SUFFICES ASSUME NEW i \in 1..Len(tabs') PROVE Agrees(tabs'[i])
  BY DEF AllAgree, Agrees, TabAgrees, TabLoadable
<1>1. CASE Born(tabs'[i])
  BY <1>1, BlankAgrees, LoadedAgrees DEF Born
<1>2. ASSUME NEW k \in 1..Len(tabs), Continues(tabs[k], tabs'[i])
      PROVE  Agrees(tabs'[i])
  BY <1>2, EvolvesAgrees DEF Inv, GoodStrip, AllAgree, Agrees, Continues
<1> QED
  BY <1>1, <1>2, EveryTabDescends DEF Descends

LEMMA AllAgreeImplies ==
  ASSUME Inv, AllAgree
  PROVE  PageUrlHistoryAgree /\ UnloadedTabsLoadable
<1>1. DOMAIN tabs = 1..Len(tabs)
  BY DEF Inv, GoodStrip
<1> QED
  BY <1>1 DEF AllAgree, Agrees, PageUrlHistoryAgree, UnloadedTabsLoadable

\* Whatever is loaded, fails, is covered, restored or moved, the URL a tab
\* reports is the current entry of its history and the document it shows.
THEOREM PagesAgree ==
  ASSUME SessionsCoherent
  PROVE  Spec => []PageUrlHistoryAgree
<1>1. Init => Inv /\ AllAgree
  BY InitInv, InitAgrees
<1>2. Inv /\ AllAgree /\ [Next]_vars => (Inv /\ AllAgree)'
  BY NextInv, StepAgrees
<1>3. Inv /\ AllAgree => PageUrlHistoryAgree
  BY AllAgreeImplies
<1> QED
  BY <1>1, <1>2, <1>3, PTL DEF Spec

\* A tab that is not loaded yet has an entry to load (ensure_loaded of tab.rs
\* finds one), so that activating it cannot leave it waiting for good.
THEOREM UnloadedHaveEntry ==
  ASSUME SessionsCoherent
  PROVE  Spec => []UnloadedTabsLoadable
<1>1. Init => Inv /\ AllAgree
  BY InitInv, InitAgrees
<1>2. Inv /\ AllAgree /\ [Next]_vars => (Inv /\ AllAgree)'
  BY NextInv, StepAgrees
<1>3. Inv /\ AllAgree => UnloadedTabsLoadable
  BY AllAgreeImplies
<1> QED
  BY <1>1, <1>2, <1>3, PTL DEF Spec

-----------------------------------------------------------------------------
(* Tabs are independent.                                                    *)

LEMMA IdsOfStrip ==
  ASSUME Inv
  PROVE  /\ DOMAIN tabs = 1..Len(tabs)
         /\ \A i \in 1..Len(tabs) : tabs[i].id < next_tab_id
         /\ \A i, j \in 1..Len(tabs) : tabs[i].id = tabs[j].id => i = j
         /\ \A i \in 1..Len(tabs) : TabById(tabs, tabs[i].id) = {tabs[i]}
BY DEF Inv, GoodStrip, TabById

LEMMA StepLeavesBackground ==
  ASSUME Inv, [Next]_vars, ~Resize, NEW id \in (0..(next_tab_id - 1)) \ {active_tab, active_tab'}
  PROVE  TabById(tabs', id) \in {TabById(tabs, id), {}}
<1>1. Inv'
  BY NextInv
<1>2. DOMAIN tabs' = 1..Len(tabs')
  BY <1>1 DEF Inv, GoodStrip
<1>3. ASSUME NEW i \in 1..Len(tabs'), tabs'[i].id = id
      PROVE  TabById(tabs', id) = TabById(tabs, id)
  <2>1. ~Born(tabs'[i])
    BY <1>3, NextIdOK DEF Born
  <2>2. PICK k \in 1..Len(tabs) : Continues(tabs[k], tabs'[i])
    BY <2>1, EveryTabDescends DEF Descends
  <2>3. tabs'[i] = tabs[k]
    BY <1>3, <2>2 DEF Continues
  <2>4. TabById(tabs, id) = {tabs[k]}
    BY <1>3, <2>3, IdsOfStrip
  <2>5. \A j \in 1..Len(tabs') : tabs'[j].id = id => j = i
    BY <1>1, <1>3 DEF Inv, GoodStrip
  <2>6. TabById(tabs', id) = {tabs'[i]}
    BY <1>2, <1>3, <2>5 DEF TabById
  <2> QED
    BY <2>3, <2>4, <2>6
<1>4. CASE \A i \in 1..Len(tabs') : tabs'[i].id # id
  BY <1>2, <1>4 DEF TabById
<1> QED
  BY <1>3, <1>4

\* No operation on one tab (tab.rs) touches another: only a resize changes a
\* tab that is active neither before nor after the step.
THEOREM TabsIndependent == Spec => BackgroundTabsUntouched
<1>1. Inv /\ [Next]_vars =>
        \/ \A id \in 0..(next_tab_id - 1) \ {active_tab, active_tab'} :
             TabById(tabs', id) \in {TabById(tabs, id), {}}
        \/ Resize
  BY StepLeavesBackground
<1> QED
  BY InitInv, NextInv, <1>1, PTL DEF Spec, BackgroundTabsUntouched

-----------------------------------------------------------------------------
(* Each tab is a session history of its own.                                *)

\* A step of SessionHistory, from one pair of values to another, by documents
\* of D.
HistoryStep(D, entries, cursor, entries2, cursor2) ==
  \/ entries2 = entries /\ cursor2 = cursor
  \/ entries2 = <<>> /\ cursor2 = 0
  \/ \E d \in D :
       \/ entries2 = Append(SubSeq(entries, 1, cursor), d) /\ cursor2 = cursor + 1
       \/ /\ cursor2 \in {cursor - 1, cursor + 1} \cap DOMAIN entries
          /\ entries2 = [entries EXCEPT ![cursor2] = d]
       \/ cursor # 0 /\ entries2 = [entries EXCEPT ![cursor] = d] /\ cursor2 = cursor

LEMMA NavigatedHistory ==
  ASSUME NEW t, WellFormed(t), NEW f \in Urls, NEW r \in Rooms
  PROVE  /\ Navigated(t, f, r).history = Append(SubSeq(t.history, 1, t.history_index), f)
         /\ Navigated(t, f, r).history_index = t.history_index + 1
<1> DEFINE t0 == Shown(t, f, r)
           past == SubSeq(t.history, 1, t.history_index)
           h == Append(past, f)
<1>1. past \in Seq(Urls) /\ Len(past) = t.history_index
  BY SubSeqProperties DEF WellFormed, BrowserTab
<1>2. Len(h) = t.history_index + 1
  BY <1>1
<1>3. t0 \in BrowserTab
  BY ShownFields DEF WellFormed
<1>4. Navigated(t, f, r) =
        [t0 EXCEPT !.history = h, !.history_index = Len(h), !.needs_reload = FALSE]
  BY DEF Navigated
<1> HIDE DEF t0, h
<1>5. Navigated(t, f, r).history = h /\ Navigated(t, f, r).history_index = Len(h)
  BY <1>3, <1>4 DEF BrowserTab
<1> QED
  BY <1>2, <1>5 DEF h

LEMMA MovedToHistory ==
  ASSUME NEW t, WellFormed(t), NEW f \in Urls, NEW r \in Rooms,
         NEW i \in 1..Len(t.history)
  PROVE  /\ MovedTo(t, i, f, r).history = [t.history EXCEPT ![i] = f]
         /\ MovedTo(t, i, f, r).history_index = i
<1> DEFINE t0 == Shown(t, f, r)
           h == [t0.history EXCEPT ![i] = f]
<1>1. t0 \in BrowserTab /\ t0.history = t.history
  BY ShownFields DEF WellFormed
<1>2. MovedTo(t, i, f, r) = [[t0 EXCEPT !.history = h] EXCEPT !.history_index = i]
  BY DEF MovedTo
<1> HIDE DEF t0, h
<1>3. MovedTo(t, i, f, r).history = h /\ MovedTo(t, i, f, r).history_index = i
  BY <1>1, <1>2 DEF BrowserTab
<1> QED
  BY <1>1, <1>3 DEF h

LEMMA RefreshedHistory ==
  ASSUME NEW t, WellFormed(t), t.history_index # 0, NEW f \in Urls, NEW r \in Rooms
  PROVE  /\ Refreshed(t, f, r).history = [t.history EXCEPT ![t.history_index] = f]
         /\ Refreshed(t, f, r).history_index = t.history_index
<1> DEFINE i == t.history_index
           t0 == Shown(t, f, r)
           h == [t0.history EXCEPT ![i] = f]
           t1 == [t0 EXCEPT !.history = h]
           u == [t1 EXCEPT !.history_index = i]
<1>1. i \in 1..Len(t.history)
  BY DEF WellFormed, BrowserTab
<1>2. WellFormed(u)
  BY <1>1, WrittenAgrees
<1>3. t0 \in BrowserTab /\ t0.history = t.history /\ t0.history_index = i
  BY ShownFields DEF WellFormed
<1>4. Refreshed(t, f, r) = Settled(t1)
  BY DEF Refreshed
<1> HIDE DEF t0, h
<1>5. u = t1 /\ t1.history = h /\ t1.history_index = i
  BY <1>3 DEF BrowserTab
<1>6. Settled(t1).history = h /\ Settled(t1).history_index = i
  BY <1>2, <1>5, SettledOK
<1> QED
  BY <1>3, <1>4, <1>6 DEF h

LEMMA EvolvesHistory ==
  ASSUME NEW t, WellFormed(t), NEW u, Evolves(t, u)
  PROVE  HistoryStep(Readable, t.history, t.history_index, u.history, u.history_index)
<1>1. CASE u = t
  BY <1>1 DEF HistoryStep
<1>2. ASSUME NEW f \in Readable, NEW r \in Rooms, u = Navigated(t, f, r)
      PROVE  HistoryStep(Readable, t.history, t.history_index, u.history, u.history_index)
  <2>1. /\ u.history = Append(SubSeq(t.history, 1, t.history_index), f)
        /\ u.history_index = t.history_index + 1
    BY <1>2, NavigatedHistory DEF Readable
  <2> QED
    BY <2>1 DEF HistoryStep
<1>3. ASSUME NEW i \in {t.history_index - 1, t.history_index + 1} \cap DOMAIN t.history,
             NEW f \in Readable, NEW r \in Rooms, u = MovedTo(t, i, f, r)
      PROVE  HistoryStep(Readable, t.history, t.history_index, u.history, u.history_index)
  <2>1. i \in 1..Len(t.history)
    BY DEF WellFormed, BrowserTab
  <2>2. u.history = [t.history EXCEPT ![i] = f] /\ u.history_index = i
    BY <1>3, <2>1, MovedToHistory DEF Readable
  <2> QED
    BY <2>2 DEF HistoryStep
<1>4. CASE u \in Reloads(t)
  <2>1. CASE t.history_index = 0
    <3>1. u = Settled(t)
      BY <1>4, <2>1 DEF Reloads
    <3> QED
      BY <3>1, SettledOK DEF HistoryStep
  <2>2. CASE t.history_index # 0
    <3>1. t.history[t.history_index] \in Urls
      BY <2>2 DEF WellFormed, BrowserTab
    <3>2. PICK f \in Readable, r \in Rooms : u = Refreshed(t, f, r)
      BY <1>4, <2>2, <3>1, LandingsReadable DEF Reloads
    <3>3. f \in Urls
      BY DEF Readable
    <3> QED
      BY <2>2, <3>2, <3>3, RefreshedHistory DEF HistoryStep
  <2> QED
    BY <2>1, <2>2
<1>5. CASE u = [t EXCEPT !.needs_reload = FALSE]
  BY <1>5 DEF HistoryStep, WellFormed, BrowserTab
<1>6. ASSUME NEW view \in Views \ {"none"}, u \in {Covered(t, view), Cleared(t, view)}
      PROVE  HistoryStep(Readable, t.history, t.history_index, u.history, u.history_index)
  <2>1. CASE u = Covered(t, view)
    BY <2>1, CoveredOK DEF HistoryStep
  <2>2. CASE u = Cleared(t, view)
    <3> DEFINE c == Covered(t, view)
    <3>1. c \in BrowserTab
      BY CoveredOK DEF WellFormed
    <3>2. u = [c EXCEPT !.history = <<>>, !.history_index = 0, !.needs_reload = FALSE]
      BY <2>2 DEF Cleared
    <3> HIDE DEF c
    <3>3. u.history = <<>> /\ u.history_index = 0
      BY <3>1, <3>2 DEF BrowserTab
    <3> QED
      BY <3>3 DEF HistoryStep
  <2> QED
    BY <1>6, <2>1, <2>2
<1>7. CASE \E p \in Page : u = [t EXCEPT !.page = p]
  BY <1>7 DEF HistoryStep, WellFormed, BrowserTab
<1> QED
  BY <1>1, <1>2, <1>3, <1>4, <1>5, <1>6, <1>7 DEF Evolves

\* An entry that cannot be read back is only ever the first of its history.
ReadPast(h) == \A k \in 2..Len(h) : ReadBack[h[k]] # NoUrl

LEMMA StepReadPast ==
  ASSUME NEW h \in Seq(Urls), NEW c \in 0..Len(h), ReadPast(h), NEW h2, NEW c2,
         HistoryStep(Readable, h, c, h2, c2)
  PROVE  ReadPast(h2)
<1>1. CASE h2 = h \/ h2 = <<>>
  BY <1>1 DEF ReadPast
<1>2. ASSUME NEW d \in Readable, h2 = Append(SubSeq(h, 1, c), d)
      PROVE  ReadPast(h2)
  <2> DEFINE past == SubSeq(h, 1, c)
  <2>1. past \in Seq(Urls) /\ Len(past) = c /\ \A k \in 1..c : past[k] = h[k]
    BY SubSeqProperties
  <2> HIDE DEF past
  <2>2. Len(h2) = c + 1 /\ h2[c + 1] = d /\ \A k \in 1..c : h2[k] = h[k]
    BY <1>2, <2>1 DEF past
  <2>3. \A k \in 2..Len(h2) : k = c + 1 \/ (k \in 1..c /\ k \in 2..Len(h))
    BY <2>2
  <2> QED
    BY <2>2, <2>3 DEF ReadPast, Readable
<1>3. ASSUME NEW d \in Readable, NEW i \in DOMAIN h, h2 = [h EXCEPT ![i] = d]
      PROVE  ReadPast(h2)
  <2>1. Len(h2) = Len(h) /\ \A k \in 1..Len(h) : h2[k] = IF k = i THEN d ELSE h[k]
    BY <1>3
  <2>2. \A k \in 2..Len(h) : k \in 1..Len(h)
    OBVIOUS
  <2> QED
    BY <2>1, <2>2 DEF ReadPast, Readable
<1>4. c # 0 => c \in DOMAIN h
  OBVIOUS
<1> QED
  BY <1>1, <1>2, <1>3, <1>4 DEF HistoryStep

LEMMA BornHistory ==
  ASSUME NEW u, Born(u)
  PROVE  HistoryStep(Urls, <<>>, 0, u.history, u.history_index)
<1>1. CASE \E view \in Views : u = BlankTab(next_tab_id, view)
  BY <1>1 DEF BlankTab, HistoryStep
<1>2. ASSUME NEW f \in Urls, NEW r \in Rooms, u = LoadedTab(next_tab_id, f, r)
      PROVE  HistoryStep(Urls, <<>>, 0, u.history, u.history_index)
  <2>1. u.history = <<f>> /\ u.history_index = 1
    BY <1>2 DEF LoadedTab, BlankTab
  <2>2. <<>> \in Seq(Urls) /\ Len(<<>>) = 0
    OBVIOUS
  <2>3. SubSeq(<<>>, 1, 0) \in Seq(Urls) /\ Len(SubSeq(<<>>, 1, 0)) = 0
    BY <2>2, SubSeqProperties
  <2>4. SubSeq(<<>>, 1, 0) = <<>>
    BY <2>3
  <2>5. Append(<<>>, f) = <<f>>
    OBVIOUS
  <2> QED
    BY <2>1, <2>4, <2>5 DEF HistoryStep
<1> QED
  BY <1>1, <1>2 DEF Born

LEMMA OpenTabOf ==
  ASSUME Inv, NEW id, IsOpen(id)
  PROVE  \E k \in 1..Len(tabs) : tabs[k] = TabOf(id) /\ tabs[k].id = id
<1>1. DOMAIN tabs = 1..Len(tabs)
  BY DEF Inv, GoodStrip
<1> QED
  BY <1>1 DEF IsOpen, TabOf

LEMMA StepOfTab ==
  ASSUME Inv, [Next]_vars, NEW id \in 0..next_tab_id
  PROVE  UNCHANGED TabHistory(id)!history \/ TabHistory(id)!Next
<1> DEFINE entries == IF IsOpen(id) THEN TabOf(id).history ELSE <<>>
           cursor == IF IsOpen(id) THEN TabOf(id).history_index ELSE 0
<1>1. HistoryStep(Urls, entries, cursor, entries', cursor')
      => UNCHANGED TabHistory(id)!history \/ TabHistory(id)!Next
  BY DEF HistoryStep, TabHistory!history, TabHistory!Next, TabHistory!Forget,
         TabHistory!Visit, TabHistory!Traverse, TabHistory!Refresh
<1>2. Inv'
  BY NextInv
<1>3. CASE ~IsOpen(id)'
  BY <1>1, <1>3 DEF HistoryStep
<1>4. CASE IsOpen(id)'
  <2>1. PICK i \in 1..Len(tabs') : tabs'[i] = TabOf(id)' /\ tabs'[i].id = id
    <3>1. \E i \in DOMAIN tabs' : tabs'[i].id = id
      BY <1>4 DEF IsOpen
    <3>2. DOMAIN tabs' = 1..Len(tabs')
      BY <1>2 DEF Inv, GoodStrip
    <3> QED
      BY <3>1, <3>2 DEF TabOf
  <2>2. CASE IsOpen(id)
    <3>1. PICK k \in 1..Len(tabs) : tabs[k] = TabOf(id) /\ tabs[k].id = id
      BY <2>2, OpenTabOf
    <3>2. WellFormed(tabs[k]) /\ tabs[k].id < next_tab_id /\ next_tab_id \in Nat
      BY DEF Inv, GoodStrip
    <3>3. ~Born(tabs'[i])
      BY <2>1, <3>1, <3>2 DEF Born
    <3>4. PICK l \in 1..Len(tabs) : Continues(tabs[l], tabs'[i])
      BY <3>3, EveryTabDescends DEF Descends
    <3>5. l = k
      BY <2>1, <3>1, <3>4 DEF Continues, Inv, GoodStrip
    <3>6. HistoryStep(Readable, tabs[k].history, tabs[k].history_index,
                      tabs'[i].history, tabs'[i].history_index)
      BY <3>2, <3>4, <3>5, EvolvesHistory DEF Continues
    <3>7. HistoryStep(Urls, tabs[k].history, tabs[k].history_index,
                      tabs'[i].history, tabs'[i].history_index)
      BY <3>6 DEF HistoryStep, Readable
    <3> QED
      BY <1>1, <1>4, <2>1, <2>2, <3>1, <3>7
  <2>3. CASE ~IsOpen(id)
    <3>1. \A k \in 1..Len(tabs) : tabs[k].id # id
      BY <2>3 DEF IsOpen, Inv, GoodStrip
    <3>2. Born(tabs'[i])
      BY <2>1, <3>1, EveryTabDescends DEF Descends, Continues
    <3>3. HistoryStep(Urls, <<>>, 0, tabs'[i].history, tabs'[i].history_index)
      BY <3>2, BornHistory
    <3> QED
      BY <1>1, <1>4, <2>1, <2>3, <3>3
  <2> QED
    BY <2>2, <2>3
<1> QED
  BY <1>3, <1>4

\* Every tab, while it is open, is a session history (SessionHistory) of its
\* own, for any number of tabs and histories of any length.
THEOREM TabsAreSessionHistories == Spec => TabsImplementSessionHistory
<1>1. ASSUME Init
      PROVE  \A id \in 0..next_tab_id : TabHistory(id)!Init
  <2>1. Inv
    BY <1>1, InitInv
  <2> TAKE id \in 0..next_tab_id
  <2>2. CASE IsOpen(id)
    <3>1. WellFormed(TabOf(id))
      BY <2>1, <2>2, OpenTabOf DEF Inv, GoodStrip
    <3> QED
      BY <2>2, <3>1 DEF TabHistory!Init, WellFormed, BrowserTab
  <2>3. CASE ~IsOpen(id)
    BY <2>3 DEF TabHistory!Init
  <2> QED
    BY <2>2, <2>3
<1>2. Inv /\ [Next]_vars =>
        \A id \in 0..next_tab_id : UNCHANGED TabHistory(id)!history \/ TabHistory(id)!Next
  BY StepOfTab
<1> QED
  BY InitInv, NextInv, <1>1, <1>2, PTL DEF Spec, TabsImplementSessionHistory

-----------------------------------------------------------------------------
(* Strips some of whose tabs have slipped, as a restore that drops entries  *)
(* leaves them (d says whether there was one).  The active tab is never     *)
(* waiting for good: that is what lets a slipped tab be loaded again.       *)

Sound(t, d) == ReadPast(t.history) /\ (Agrees(t) \/ (d /\ Slipped(t)))

LEMMA EvolvesSound ==
  ASSUME NEW t, WellFormed(t), NEW d \in BOOLEAN, Sound(t, d), NEW u, Evolves(t, u),
         TabLoadable(t) \/ TabLoadable(u)
  PROVE  Sound(u, d)
<1>1. t.history \in Seq(Urls) /\ t.history_index \in 0..Len(t.history)
  BY DEF WellFormed, BrowserTab
<1>2. ReadPast(u.history)
  BY <1>1, EvolvesHistory, StepReadPast DEF Sound
<1>3. TabLoadable(u)
  BY EvolvesAgrees
<1>4. Agrees(u) \/ (d /\ Slipped(u))
  <2>1. CASE Agrees(t)
    BY <2>1, <1>3, EvolvesAgrees DEF Agrees
  <2>2. CASE d /\ Slipped(t)
    BY <2>2, <1>3, EvolvesSlipped DEF Agrees
  <2> QED
    BY <2>1, <2>2 DEF Sound
<1> QED
  BY <1>2, <1>4 DEF Sound

\* Another page of the same document changes nothing of this.
LEMMA PagedSound ==
  ASSUME NEW t, WellFormed(t), NEW d \in BOOLEAN, Sound(t, d),
         NEW p \in Page, p.doc = t.page.doc
  PROVE  Sound([t EXCEPT !.page = p], d)
<1> DEFINE u == [t EXCEPT !.page = p]
<1>1. /\ u.page = p /\ u.url = t.url /\ u.history = t.history
      /\ u.history_index = t.history_index /\ u.needs_reload = t.needs_reload
      /\ u.internal_view = t.internal_view
  BY DEF WellFormed, BrowserTab
<1> HIDE DEF u
<1>2. Sound(u, d)
  BY <1>1 DEF Sound, Agrees, TabAgrees, TabLoadable, Slipped
<1> QED
  BY <1>2 DEF u

LEMMA EnsureLoadedLoadable ==
  ASSUME NEW t, WellFormed(t), NEW u \in EnsureLoaded(t)
  PROVE  TabLoadable(u)
<1>1. CASE (~t.needs_reload \/ t.history_index # 0) /\ u = t
  BY <1>1 DEF EnsureLoaded, TabLoadable
<1>2. CASE u = [t EXCEPT !.needs_reload = FALSE]
  BY <1>2 DEF TabLoadable, WellFormed, BrowserTab
<1>3. CASE u \in Reloads(t)
  BY <1>3, ReloadsAgrees
<1> QED
  BY <1>1, <1>2, <1>3 DEF EnsureLoaded

LEMMA CurrentPlace ==
  ASSUME Inv', NEW k \in 1..Len(tabs'), tabs'[k].id = active_tab'
  PROVE  Current' = tabs'[k]
<1>1. (Inv => Active \in 1..Len(tabs) /\ Current.id = active_tab)'
  BY ActiveOK, PTL
<1>2. Active' \in 1..Len(tabs') /\ tabs'[Active'].id = active_tab'
  BY <1>1 DEF Current
<1> QED
  BY <1>2 DEF Current, Inv, GoodStrip

\* A tab that becomes the active one has been given the chance to load.
LEMMA ActivatedLoadable ==
  ASSUME Inv, Inv', Next, active_tab' # active_tab
  PROVE  TabLoadable(Current')
<1>1. ASSUME NEW t, TabLoadable(t), t.id = next_tab_id, OpenTab(t)
      PROVE  TabLoadable(Current')
  <2>1. /\ Len(tabs) + 1 \in 1..Len(tabs') /\ tabs'[Len(tabs) + 1] = t
        /\ active_tab' = next_tab_id
    BY <1>1 DEF OpenTab, Inv, GoodStrip
  <2> QED
    BY <1>1, <2>1, CurrentPlace
<1>2. CASE NewTab \/ OpenNativeTab \/ \E u \in Urls : OpenInNewTab(u)
  <2>1. ASSUME NEW view \in Views \ {"none"}, OpenTab(BlankTab(next_tab_id, view))
        PROVE  TabLoadable(Current')
    BY <1>1, <2>1, NextIdOK, BlankTabOK, BlankAgrees DEF Agrees
  <2>2. ASSUME NEW f \in Urls, NEW r \in Rooms, OpenTab(LoadedTab(next_tab_id, f, r))
        PROVE  TabLoadable(Current')
    BY <1>1, <2>2, NextIdOK, LoadedTabOK, LoadedAgrees DEF Agrees
  <2> QED
    BY <1>2, <2>1, <2>2, ConstantFacts DEF NewTab, OpenNativeTab, OpenInNewTab, Views
<1>3. ASSUME NEW i \in DOMAIN tabs, SwitchTab(i) PROVE TabLoadable(Current')
  <2>1. i \in 1..Len(tabs) /\ WellFormed(tabs[i]) /\ tabs \in Seq(BrowserTab)
    BY DEF Inv, GoodStrip
  <2>2. PICK t \in EnsureLoaded(tabs[i]) : tabs' = [tabs EXCEPT ![i] = t]
    BY <1>3 DEF SwitchTab
  <2>3. t.id = active_tab' /\ TabLoadable(t)
    BY <1>3, <2>1, EnsureLoadedOK, EnsureLoadedLoadable DEF SwitchTab
  <2>4. i \in 1..Len(tabs') /\ tabs'[i] = t
    BY <2>1, <2>2
  <2> QED
    BY <2>3, <2>4, CurrentPlace
<1>4. ASSUME NEW i \in DOMAIN tabs, CloseTab(i) PROVE TabLoadable(Current')
  <2>1. CASE CloseLastTab
    <3>1. /\ Len(tabs') = 1 /\ tabs'[1] = BlankTab(next_tab_id, "new_tab")
          /\ active_tab' = next_tab_id
      BY <2>1 DEF CloseLastTab
    <3>2. TabLoadable(tabs'[1]) /\ tabs'[1].id = active_tab'
      BY <3>1, NextIdOK, BlankTabOK, BlankAgrees DEF Agrees, Views
    <3> QED
      BY <3>1, <3>2, CurrentPlace
  <2>2. CASE CloseActiveTab(i)
    <3> DEFINE rest == RemoveAt(tabs, i)
               j == Clamp(i, Len(rest))
    <3>1. i \in 1..Len(tabs) /\ Len(tabs) \in Nat
      BY DEF Inv, GoodStrip
    <3>2. /\ rest \in Seq(BrowserTab) /\ Len(rest) = Len(tabs) - 1
          /\ \A k \in 1..Len(rest) : GoodStrip(rest, rest[k].id, next_tab_id)
      BY <3>1, RemoveStrip DEF Inv
    <3>3. PICK t \in EnsureLoaded(rest[j]) :
            tabs' = [rest EXCEPT ![j] = t] /\ active_tab' = rest[j].id
      BY <2>2 DEF CloseActiveTab
    <3> HIDE DEF rest
    <3>4. j \in 1..Len(rest)
      BY <2>2, <3>1, <3>2 DEF Clamp, CloseActiveTab
    <3> HIDE DEF j
    <3>5. t.id = active_tab' /\ TabLoadable(t)
      BY <3>2, <3>3, <3>4, EnsureLoadedOK, EnsureLoadedLoadable DEF GoodStrip
    <3>6. j \in 1..Len(tabs') /\ tabs'[j] = t
      BY <3>2, <3>3, <3>4
    <3> QED
      BY <3>5, <3>6, CurrentPlace
  <2>3. ~CloseOtherTab(i)
    BY DEF CloseOtherTab
  <2> QED
    BY <1>4, <2>1, <2>2, <2>3 DEF CloseTab
<1> QED
  BY <1>2, <1>3, <1>4
     DEF Next, MoveTab, Resize, NavigateActive, BackActive, ForwardActive, ReloadActive,
         ShowErrorOnActive, HomeActive, ShowNativeOnActive, ScrollActive, Replace

LEMMA StepSound ==
  ASSUME Inv, [Next]_vars, NEW d \in BOOLEAN,
         TabLoadable(Current), \A i \in 1..Len(tabs) : Sound(tabs[i], d)
  PROVE  /\ TabLoadable(Current')
         /\ \A i \in 1..Len(tabs') : Sound(tabs'[i], d)
<1>1. Inv'
  BY NextInv
<1>2. \A k \in 1..Len(tabs) : WellFormed(tabs[k]) /\ Sound(tabs[k], d)
  BY DEF Inv, GoodStrip
<1>3. ASSUME NEW k \in 1..Len(tabs), tabs[k].id = active_tab PROVE TabLoadable(tabs[k])
  BY <1>3, ActiveOK DEF Current, Inv, GoodStrip
<1>4. ASSUME NEW u, Born(u) PROVE Sound(u, d) /\ TabLoadable(u)
  <2>1. Agrees(u)
    BY <1>4, BlankAgrees, LoadedAgrees DEF Born
  <2>2. CASE \E view \in Views : u = BlankTab(next_tab_id, view)
    <3>1. u.history = <<>>
      BY <2>2 DEF BlankTab
    <3> QED
      BY <2>1, <3>1 DEF Sound, ReadPast, Agrees
  <2>3. ASSUME NEW f \in Urls, NEW r \in Rooms, u = LoadedTab(next_tab_id, f, r)
        PROVE  Sound(u, d) /\ TabLoadable(u)
    <3>1. u.history = <<f>>
      BY <2>3 DEF LoadedTab, BlankTab
    <3>2. Len(<<f>>) = 1
      OBVIOUS
    <3> QED
      BY <2>1, <3>1, <3>2 DEF Sound, ReadPast, Agrees
  <2> QED
    BY <1>4, <2>2, <2>3 DEF Born
<1>5. TabLoadable(Current')
  <2>1. CASE active_tab' # active_tab
    <3>1. Next
      BY <2>1 DEF vars
    <3> QED
      BY <1>1, <2>1, <3>1, ActivatedLoadable
  <2>2. CASE active_tab' = active_tab
    <3>1. (Inv => Active \in 1..Len(tabs) /\ Current.id = active_tab)'
      BY ActiveOK, PTL
    <3>2. PICK a \in 1..Len(tabs') : Current' = tabs'[a] /\ tabs'[a].id = active_tab
      BY <1>1, <2>2, <3>1 DEF Current
    <3>3. CASE Born(tabs'[a])
      BY <1>4, <3>2, <3>3
    <3>4. ASSUME NEW k \in 1..Len(tabs), Continues(tabs[k], tabs'[a])
          PROVE  TabLoadable(tabs'[a])
      BY <1>2, <1>3, <3>2, <3>4, EvolvesAgrees DEF Continues
    <3> QED
      BY <3>2, <3>3, <3>4, EveryTabDescends DEF Descends
  <2> QED
    BY <2>1, <2>2
<1>6. ASSUME NEW i \in 1..Len(tabs') PROVE Sound(tabs'[i], d)
  <2>1. CASE Resize
    <3>1. PICK page \in [DOMAIN tabs -> Page] :
            /\ \A k \in DOMAIN tabs : page[k] \in Relaid(tabs[k].page)
            /\ tabs' = [k \in DOMAIN tabs |-> [tabs[k] EXCEPT !.page = page[k]]]
      BY <2>1 DEF Resize
    <3>2. DOMAIN tabs = 1..Len(tabs) /\ Len(tabs') = Len(tabs)
      BY <3>1 DEF Inv, GoodStrip
    <3>3. /\ page[i] \in Relaid(tabs[i].page) /\ page[i] \in Page
          /\ tabs'[i] = [tabs[i] EXCEPT !.page = page[i]]
          /\ WellFormed(tabs[i]) /\ Sound(tabs[i], d)
      BY <1>2, <3>1, <3>2
    <3>4. page[i].doc = tabs[i].page.doc
      BY <3>3 DEF Relaid, ScrolledTo, Page, WellFormed, BrowserTab
    <3> QED
      BY <3>3, <3>4, PagedSound
  <2>2. CASE Born(tabs'[i])
    BY <1>4, <2>2
  <2>3. ASSUME NEW k \in 1..Len(tabs), Continues(tabs[k], tabs'[i]), ~Resize
        PROVE  Sound(tabs'[i], d)
    <3>1. CASE tabs'[i] = tabs[k]
      BY <1>2, <3>1
    <3>2. CASE tabs[k].id = active_tab
      BY <1>2, <1>3, <2>3, <3>2, EvolvesSound DEF Continues
    <3>3. CASE tabs[k].id = active_tab'
      <4>1. TabLoadable(tabs'[i])
        BY <1>1, <1>5, <2>3, <3>3, CurrentPlace DEF Continues
      <4> QED
        BY <1>2, <2>3, <4>1, EvolvesSound DEF Continues
    <3> QED
      BY <2>3, <3>1, <3>2, <3>3 DEF Continues
  <2> QED
    BY <2>1, <2>2, <2>3, EveryTabDescends DEF Descends
<1> QED
  BY <1>5, <1>6

=============================================================================
