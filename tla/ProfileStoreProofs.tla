-------------------------- MODULE ProfileStoreProofs --------------------------
(***************************************************************************)
(* Proofs about the profile database, for any number of browsers that use  *)
(* it at once, fail and are killed at any statement: its migrations, then  *)
(* the session, then the visits.  Each has an inductive invariant of its   *)
(* own that says what every browser may rely on where it stands in its     *)
(* statements: which tables there are (Inv), what it has saved or loaded   *)
(* of the session (SessionInv), and the row it is about to count up        *)
(* (VisitInv).                                                             *)
(***************************************************************************)
EXTENDS ProfileStore, FiniteSetTheorems, TLAPS

LEMMA PairIsSeq ==
  ASSUME NEW S, NEW a \in S, NEW b \in S
  PROVE  <<a, b>> \in Seq(S) /\ <<a, b>> # <<>>
  OBVIOUS

LEMMA SixIsSeq ==
  ASSUME NEW S, NEW a \in S, NEW b \in S, NEW c \in S, NEW d \in S, NEW e \in S, NEW f \in S
  PROVE  <<a, b, c, d, e, f>> \in Seq(S) /\ <<a, b, c, d, e, f>> # <<>>
  OBVIOUS

TableNames ==
  {"history", "bookmarks", "settings", "downloads", "session_tabs", "session_meta",
   "cookies", "local_storage"}

\* Every migration creates at least one table.
LEMMA MigrationsType ==
  /\ LatestVersion \in Nat
  /\ \A v \in 1..LatestVersion : Migrations[v] \in Seq(TableNames) \ {<<>>}
<1>1. LatestVersion = 2
  BY DEF LatestVersion, Migrations
<1>2. Migrations[1] \in Seq(TableNames) \ {<<>>}
  BY SixIsSeq DEF Migrations, TableNames
<1>3. Migrations[2] \in Seq(TableNames) \ {<<>>}
  BY PairIsSeq DEF Migrations, TableNames
<1> QED
  BY <1>1, <1>2, <1>3

Names(s) == {s[i] : i \in DOMAIN s}

LEMMA HeadOrTail ==
  ASSUME NEW s \in Seq(TableNames), s # <<>>
  PROVE  /\ Tail(s) \in Seq(TableNames)
         /\ Names(s) \subseteq {Head(s)} \cup Names(Tail(s))
         /\ Tail(s) = <<>> => Names(s) \subseteq {Head(s)}
<1>1. Tail(s) \in Seq(TableNames) /\ Len(Tail(s)) = Len(s) - 1
  OBVIOUS
<1>2. ASSUME NEW i \in DOMAIN s, i # 1
      PROVE  i - 1 \in DOMAIN Tail(s) /\ s[i] = Tail(s)[i - 1]
  BY <1>1, <1>2
<1>3. Head(s) = s[1]
  OBVIOUS
<1>4. Names(s) \subseteq {Head(s)} \cup Names(Tail(s))
  BY <1>2, <1>3 DEF Names
<1>5. Tail(s) = <<>> => Names(Tail(s)) = {}
  BY DEF Names
<1> QED
  BY <1>1, <1>4, <1>5

-----------------------------------------------------------------------------

\* The tables of the migrations up to v are among ts.
UpTo(v, ts) == \A w \in 1..LatestVersion : w <= v => TablesOf(w) \subseteq ts

\* What a browser may rely on where it is in opening the profile.
SoundAt(s, ts) ==
  /\ s.pc \in {"create", "delete", "insert"} => s.target \in 1..LatestVersion
  /\ s.pc = "create" => /\ s.left \in Seq(TableNames) \ {<<>>}
                        /\ UpTo(s.target - 1, ts)
                        /\ TablesOf(s.target) \subseteq ts \cup Names(s.left)
  /\ s.pc \in {"delete", "insert"} => UpTo(s.target, ts)
  /\ s.pc \notin {"down"} \cup Opening => UpTo(LatestVersion, ts)

\* SchemaSound with the browsers that are on their way.
Inv ==
  /\ versions \subseteq 1..LatestVersion
  /\ \A v \in versions : UpTo(v, tables)
  /\ proc = [p \in Processes |-> proc[p]]
  /\ \A p \in Processes : SoundAt(proc[p], tables)

LEMMA InvSchema == Inv => SchemaSound
  BY DEF Inv, SchemaSound, UpTo, SoundAt

\* A browser that goes on from version v.
LEMMA MigrateSound ==
  ASSUME NEW p \in Processes, NEW v \in 0..LatestVersion, NEW ts,
         UpTo(v, ts), Migrate(p, v)
  PROVE  \E s : Becomes(p, s) /\ SoundAt(s, ts)
<1> DEFINE next == [pc |-> "create", target |-> v + 1, left |-> Migrations[v + 1]]
<1>1. CASE v < LatestVersion
  <2>1. Becomes(p, next)
    BY <1>1 DEF Migrate
  <2>2. v + 1 \in 1..LatestVersion /\ (v + 1) - 1 = v
    BY <1>1, MigrationsType
  <2>3. TablesOf(v + 1) = Names(Migrations[v + 1])
    BY DEF TablesOf, Names
  <2>4. SoundAt(next, ts)
    BY <2>2, <2>3, MigrationsType DEF SoundAt, Opening
  <2> QED
    BY <2>1, <2>4
<1>2. CASE ~(v < LatestVersion)
  <2>1. v = LatestVersion
    BY <1>2, MigrationsType
  <2>2. Becomes(p, Idle) /\ SoundAt(Idle, ts)
    BY <1>2, <2>1 DEF Migrate, Idle, SoundAt, Opening
  <2> QED
    BY <2>2
<1> QED
  BY <1>1, <1>2

\* Tables are never dropped: what is sound stays so.
LEMMA SoundForGood ==
  ASSUME NEW s, NEW ts, NEW us, SoundAt(s, ts), ts \subseteq us
  PROVE  SoundAt(s, us)
  BY DEF SoundAt, UpTo, Opening

\* A step in which one browser goes on to a sound place, the others stay where
\* they are in opening, and no version is added.
LEMMA StepInv ==
  ASSUME Inv, tables \subseteq tables', versions' \subseteq versions,
         NEW p \in Processes, NEW s, SoundAt(s, tables'),
         Becomes(p, s) \/ BecomesTearing(p, s)
  PROVE  Inv'
<1>1. \A v \in versions' : UpTo(v, tables')
  BY DEF Inv, UpTo
<1>2. proc' = [q \in Processes |-> proc'[q]] /\ proc'[p] = s
  BY DEF Inv, Becomes, BecomesTearing
<1>3. ASSUME NEW q \in Processes, q # p
      PROVE  SoundAt(proc'[q], tables')
  <2>1. SoundAt(proc[q], tables')
    BY SoundForGood DEF Inv
  <2>2. CASE proc'[q] = proc[q]
    BY <2>1, <2>2
  <2>3. CASE proc[q].pc = "load" /\ proc'[q] = [proc[q] EXCEPT !.torn = TRUE]
    <3>1. proc'[q].pc = "load"
      BY <2>3
    <3> QED
      BY <2>1, <2>3, <3>1 DEF SoundAt, Opening
  <2> QED
    BY <1>3, <2>2, <2>3 DEF Becomes, BecomesTearing, Inv
<1> QED
  BY <1>1, <1>2, <1>3 DEF Inv

-----------------------------------------------------------------------------

LEMMA InitInv == Init => Inv
<1> SUFFICES ASSUME Init PROVE Inv
  OBVIOUS
<1>1. \A p \in Processes : SoundAt(proc[p], tables)
  BY DEF Init, Down, SoundAt, Opening
<1>2. versions \subseteq 1..LatestVersion /\ \A v \in versions : UpTo(v, tables)
  <2>1. LatestVersion = 2
    BY DEF LatestVersion, Migrations
  <2>2. TablesOf(1) \subseteq {"schema_version"} \cup TablesOf(1)
    OBVIOUS
  <2> QED
    BY <2>1, <2>2 DEF Init, UpTo
<1> QED
  BY <1>1, <1>2 DEF Init, Inv

LEMMA MigratingInv ==
  ASSUME Inv, NEW p \in Processes, Migrating(p)
  PROVE  Inv'
<1>1. CASE Open(p)
  <2>1. SoundAt([pc |-> "check"], tables')
    BY DEF SoundAt, Opening
  <2> QED
    BY <1>1, <2>1, StepInv DEF Open
<1>2. CASE ReadVersion(p)
  <2>1. PICK v \in 0..LatestVersion : UpTo(v, tables) /\ Migrate(p, v)
    <3>1. UpTo(0, tables) /\ 0 \in 0..LatestVersion
      BY MigrationsType DEF UpTo
    <3> QED
      BY <1>2, <3>1, MigrationsType DEF ReadVersion, Inv
  <2>2. PICK s : Becomes(p, s) /\ SoundAt(s, tables)
    BY <2>1, MigrateSound
  <2> QED
    BY <1>2, <2>2, StepInv DEF ReadVersion
<1>3. CASE CreateTable(p)
  <2> DEFINE s == proc[p]
             name == Head(s.left)
             delete == [pc |-> "delete", target |-> s.target]
             create == [pc |-> "create", target |-> s.target, left |-> Tail(s.left)]
  <2>1. /\ s.pc = "create" /\ s.target \in 1..LatestVersion
        /\ s.left \in Seq(TableNames) \ {<<>>}
        /\ UpTo(s.target - 1, tables) /\ TablesOf(s.target) \subseteq tables \cup Names(s.left)
    BY <1>3 DEF CreateTable, Inv, SoundAt
  <2>2. tables' = tables \cup {name}
    BY <1>3 DEF CreateTable
  <2>3. /\ Tail(s.left) \in Seq(TableNames)
        /\ TablesOf(s.target) \subseteq tables' \cup Names(Tail(s.left))
        /\ Tail(s.left) = <<>> => TablesOf(s.target) \subseteq tables'
    BY <2>1, <2>2, HeadOrTail
  <2>4. UpTo(s.target - 1, tables')
    BY <2>1, <2>2 DEF UpTo
  <2>5. CASE Tail(s.left) = <<>>
    <3>1. Becomes(p, delete)
      BY <1>3, <2>5 DEF CreateTable
    <3>2. UpTo(s.target, tables')
      BY <2>1, <2>3, <2>4, <2>5, MigrationsType DEF UpTo
    <3>3. SoundAt(delete, tables')
      BY <2>1, <3>2 DEF SoundAt, Opening
    <3> QED
      BY <1>3, <2>2, <3>1, <3>3, StepInv DEF CreateTable
  <2>6. CASE Tail(s.left) # <<>>
    <3>1. Becomes(p, create)
      BY <1>3, <2>6 DEF CreateTable
    <3>2. SoundAt(create, tables')
      BY <2>1, <2>3, <2>4, <2>6 DEF SoundAt, Opening
    <3> QED
      BY <1>3, <2>2, <3>1, <3>2, StepInv DEF CreateTable
  <2> QED
    BY <2>5, <2>6
<1>4. CASE DeleteVersion(p)
  <2> DEFINE s == [proc[p] EXCEPT !.pc = "insert"]
  <2>1. s.pc = "insert" /\ s.target = proc[p].target
    BY <1>4 DEF DeleteVersion
  <2>2. SoundAt(s, tables')
    BY <1>4, <2>1 DEF DeleteVersion, Inv, SoundAt, Opening
  <2> QED
    BY <1>4, <2>2, StepInv DEF DeleteVersion
<1>5. CASE InsertVersion(p)
  <2> DEFINE v == proc[p].target
  <2>1. v \in 1..LatestVersion /\ UpTo(v, tables)
    BY <1>5 DEF InsertVersion, Inv, SoundAt
  <2>2. PICK s : Becomes(p, s) /\ SoundAt(s, tables)
    BY <1>5, <2>1, MigrateSound, MigrationsType DEF InsertVersion
  <2>3. versions' = versions \cup {v} /\ tables' = tables
    BY <1>5 DEF InsertVersion
  <2>4. \A q \in Processes : SoundAt(proc'[q], tables')
    BY <2>2, <2>3 DEF Becomes, Inv
  <2> QED
    BY <2>1, <2>2, <2>3, <2>4 DEF Inv, Becomes
<1> QED
  BY <1>1, <1>2, <1>3, <1>4, <1>5 DEF Migrating

\* A browser that is open stays sound whatever it turns to, short of opening.
LEMMA OpenSound ==
  ASSUME Inv, NEW p \in Processes, proc[p].pc \notin {"down"} \cup Opening,
         NEW s, s.pc \notin Opening
  PROVE  SoundAt(s, tables)
  BY DEF Inv, SoundAt, Opening

LEMMA DownSound == SoundAt(Down, tables)
  BY DEF SoundAt, Down, Opening

LEMMA IdleIsOpen == Idle.pc = "open" /\ Idle.pc \notin {"down"} \cup Opening
  BY DEF Idle, Opening

LEMMA VisitingInv ==
  ASSUME Inv, NEW p \in Processes, Visiting(p)
  PROVE  Inv'
<1>1. CASE \E u \in Docs : RecordVisit(p, u)
  <2>1. PICK u \in Docs : RecordVisit(p, u)
    BY <1>1
  <2>2. PICK row \in RowsOf(u) \cup {0} : Becomes(p, [pc |-> "visit", url |-> u, row |-> row])
    BY <2>1 DEF RecordVisit
  <2>3. SoundAt([pc |-> "visit", url |-> u, row |-> row], tables)
    BY <2>1, OpenSound, IdleIsOpen DEF RecordVisit, Opening
  <2> QED
    BY <2>1, <2>2, <2>3, StepInv DEF RecordVisit
<1>2. CASE CountVisit(p)
  <2>1. SoundAt(Idle, tables)
    BY <1>2, OpenSound, IdleIsOpen DEF CountVisit, Opening
  <2> QED
    BY <1>2, <2>1, StepInv DEF CountVisit
<1>3. CASE ClearHistory(p)
  BY <1>3 DEF ClearHistory, Inv
<1> QED
  BY <1>1, <1>2, <1>3 DEF Visiting

LEMMA KeepingSessionInv ==
  ASSUME Inv, NEW p \in Processes, KeepingSession(p)
  PROVE  Inv'
<1>1. ASSUME proc[p].pc \notin {"down"} \cup Opening, UNCHANGED <<tables, versions>>,
             NEW s, s.pc \notin Opening, Becomes(p, s) \/ BecomesTearing(p, s)
      PROVE  Inv'
  BY <1>1, OpenSound, StepInv
<1>2. CASE \E s \in Snapshots : SaveSession(p, s)
  <2>1. PICK s \in Snapshots : SaveSession(p, s)
    BY <1>2
  <2>2. [pc |-> "save", snapshot |-> s].pc \notin Opening
    BY DEF Opening
  <2> QED
    BY <1>1, <2>1, <2>2, IdleIsOpen DEF SaveSession
<1>3. CASE SaveTab(p)
  BY <1>3 DEF SaveTab, Inv
<1>4. CASE SaveActive(p)
  <2>1. [proc[p] EXCEPT !.pc = "commit"].pc \notin Opening
    BY <1>4 DEF SaveActive, Opening
  <2>2. proc[p].pc \notin {"down"} \cup Opening
    BY <1>4 DEF SaveActive, Opening
  <2> QED
    BY <1>1, <1>4, <2>1, <2>2 DEF SaveActive
<1>5. CASE Commit(p)
  <2>1. proc[p].pc \notin {"down"} \cup Opening
    BY <1>5 DEF Commit, Opening
  <2> QED
    BY <1>1, <1>5, <2>1, IdleIsOpen DEF Commit, BecomesTearing
<1>6. CASE LoadSession(p)
  <2> DEFINE loading == [pc |-> "load", tabs |-> session.tabs, torn |-> FALSE]
  <2>1. loading.pc \notin Opening
    BY DEF Opening
  <2> QED
    BY <1>1, <1>6, <2>1, IdleIsOpen DEF LoadSession
<1>7. CASE Load(p)
  <2>1. proc[p].pc \notin {"down"} \cup Opening
    BY <1>7 DEF Load, Opening
  <2> QED
    BY <1>1, <1>7, <2>1, IdleIsOpen DEF Load
<1>8. CASE ClearSession(p)
  <2>1. [pc |-> "clear"].pc \notin Opening
    BY DEF Opening
  <2> QED
    BY <1>1, <1>8, <2>1, IdleIsOpen DEF ClearSession
<1>9. CASE ClearIndex(p)
  <2>1. proc[p].pc \notin {"down"} \cup Opening
    BY <1>9 DEF ClearIndex, Opening
  <2> QED
    BY <1>1, <1>9, <2>1, IdleIsOpen DEF ClearIndex
<1> QED
  BY <1>2, <1>3, <1>4, <1>5, <1>6, <1>7, <1>8, <1>9 DEF KeepingSession

LEMMA NextInv == Inv /\ [Next]_vars => Inv'
<1> SUFFICES ASSUME Inv, [Next]_vars PROVE Inv'
  OBVIOUS
<1>1. CASE UNCHANGED vars
  BY <1>1 DEF vars, Inv
<1>2. ASSUME NEW p \in Processes, Fails(p)
      PROVE  Inv'
  <2>1. CASE proc[p].pc \in Opening
    <3>1. Becomes(p, Down)
      BY <1>2, <2>1 DEF Fails
    <3> QED
      BY <1>2, <3>1, DownSound, StepInv DEF Fails
  <2>2. CASE proc[p].pc \notin Opening
    <3>1. Becomes(p, Idle) /\ UNCHANGED <<tables, versions>>
      BY <1>2, <2>2 DEF Fails
    <3>2. proc[p].pc \notin {"down"} \cup Opening
      BY <1>2, <2>2 DEF Fails
    <3> QED
      BY <3>1, <3>2, OpenSound, StepInv, IdleIsOpen
  <2> QED
    BY <2>1, <2>2
<1>3. ASSUME NEW p \in Processes, Crash(p)
      PROVE  Inv'
  BY <1>3, DownSound, StepInv DEF Crash
<1>4. CASE Next
  BY <1>2, <1>3, <1>4, MigratingInv, VisitingInv, KeepingSessionInv DEF Next
<1> QED
  BY <1>1, <1>4

LEMMA InvHolds == Spec => []Inv
  BY InitInv, NextInv, PTL DEF Spec

\* However many browsers migrate one profile at once, and wherever each of them
\* fails or is killed, the version never promises a table that is not there,
\* and an open profile has them all.
THEOREM MigrationsSafe == Spec => []SchemaSound
  BY InvHolds, InvSchema, PTL

-----------------------------------------------------------------------------
(* The session.                                                             *)

Sessions == [tabs : Seq(Docs), active : Nat]

\* Where a browser in state s stands with the session: the transaction is its own
\* or not, what it has saved of its snapshot, and what it has loaded.
SessionAt(s, p, w, now, ses) ==
  /\ s.pc \in {"save", "commit"} <=> w = p
  /\ s.pc = "save" =>
       /\ s \in [pc : {"save"}, snapshot : Snapshots]
       /\ Len(now.tabs) <= Len(s.snapshot.tabs)
       /\ \A i \in 1..Len(now.tabs) : now.tabs[i] = s.snapshot.tabs[i]
  /\ s.pc = "commit" =>
       /\ s \in [pc : {"commit"}, snapshot : Snapshots]
       /\ now.tabs = s.snapshot.tabs /\ now.active = s.snapshot.active
  /\ s.pc = "load" =>
       /\ s \in [pc : {"load"}, tabs : Seq(Docs) \ {<<>>}, torn : BOOLEAN]
       /\ ~s.torn => s.tabs = ses.tabs

\* The session is the one last saved, but for the index when a save came between
\* the statements of a clear.
SessionInv ==
  /\ proc = [p \in Processes |-> proc[p]]
  /\ session \in Sessions /\ work \in Sessions
  /\ \A p \in Processes : SessionAt(proc[p], p, writer, work, session)
  /\ stored \in Snapshots \cup {NoSession}
  /\ stored = NoSession => session.tabs = <<>>
  /\ stored # NoSession =>
       /\ session.tabs = stored.tabs
       /\ "clear" \notin crossed =>
            /\ session.active = stored.active
            /\ \A p \in Processes : proc[p].pc # "clear"

LEMMA SnapshotFacts ==
  ASSUME NEW s \in Snapshots
  PROVE  /\ s.tabs \in Seq(Docs) /\ s.tabs # <<>> /\ s.active \in 1..Len(s.tabs)
         /\ s.active \in Nat /\ s # NoSession
<1>1. s.tabs \in Seq(Docs) /\ s.active \in DOMAIN s.tabs /\ s # NoSession
  BY ProfileAssumption
<1>2. DOMAIN s.tabs = 1..Len(s.tabs) /\ Len(s.tabs) \in Nat
  BY <1>1
<1> QED
  BY <1>1, <1>2

LEMMA IdleAt ==
  ASSUME NEW p \in Processes, NEW s \in {Idle, Down}, NEW w, w # p, NEW now, NEW ses
  PROVE  SessionAt(s, p, w, now, ses) /\ s.pc # "clear"
BY DEF SessionAt, Idle, Down

\* The other browsers stand where they stood: while one of them is saving nobody
\* else has the transaction, and one that loads knows when the session changes.
LEMMA OthersKeep ==
  ASSUME SessionInv, NEW p \in Processes, NEW s,
         \/ Becomes(p, s) /\ session' = session
         \/ BecomesTearing(p, s),
         \A q \in Processes \ {p} : (writer' = q <=> writer = q) /\ (writer = q => work' = work),
         SessionAt(s, p, writer', work', session')
  PROVE  /\ \A q \in Processes : SessionAt(proc'[q], q, writer', work', session')
         /\ proc' = [q \in Processes |-> proc'[q]] /\ proc'[p] = s
         /\ \A q \in Processes \ {p} : proc'[q].pc = proc[q].pc
<1>1. proc' = [q \in Processes |-> proc'[q]] /\ proc'[p] = s
  BY DEF SessionInv, Becomes, BecomesTearing
<1>2. ASSUME NEW q \in Processes \ {p}
      PROVE  /\ SessionAt(proc'[q], q, writer', work', session')
             /\ proc'[q].pc = proc[q].pc
  <2>1. SessionAt(proc[q], q, writer, work, session)
    BY DEF SessionInv
  <2>2. (writer' = q <=> writer = q) /\ (writer = q => work' = work)
    OBVIOUS
  <2>3. CASE proc'[q] = proc[q] /\ (session' = session \/ proc[q].pc # "load")
    BY <2>1, <2>2, <2>3 DEF SessionAt
  <2>4. CASE proc[q].pc = "load" /\ proc'[q] = [proc[q] EXCEPT !.torn = TRUE]
    <3>1. proc[q] \in [pc : {"load"}, tabs : Seq(Docs) \ {<<>>}, torn : BOOLEAN]
      BY <2>1, <2>4 DEF SessionAt
    <3>2. /\ proc'[q] \in [pc : {"load"}, tabs : Seq(Docs) \ {<<>>}, torn : BOOLEAN]
          /\ proc'[q].torn /\ proc'[q].pc = "load"
      BY <2>4, <3>1
    <3> QED
      BY <2>1, <2>2, <2>4, <3>2 DEF SessionAt
  <2> QED
    BY <2>3, <2>4 DEF Becomes, BecomesTearing, SessionInv
<1> QED
  BY <1>1, <1>2

\* A step that leaves the session alone.
LEMMA SessionKept ==
  ASSUME SessionInv, NEW p \in Processes, NEW s, Becomes(p, s),
         UNCHANGED <<session, stored>>, "clear" \in crossed' <=> "clear" \in crossed,
         work' \in Sessions, s.pc # "clear",
         \A q \in Processes \ {p} : (writer' = q <=> writer = q) /\ (writer = q => work' = work),
         SessionAt(s, p, writer', work', session')
  PROVE  SessionInv'
<1>1. /\ \A q \in Processes : SessionAt(proc'[q], q, writer', work', session')
      /\ proc' = [q \in Processes |-> proc'[q]] /\ proc'[p] = s
      /\ \A q \in Processes \ {p} : proc'[q].pc = proc[q].pc
  BY OthersKeep
<1>2. (\A q \in Processes : proc[q].pc # "clear") => \A q \in Processes : proc'[q].pc # "clear"
  BY <1>1
<1> QED
  BY <1>1, <1>2 DEF SessionInv

\* A browser that is in no transaction turns to something that is no transaction
\* and no load.
LEMMA TurnsTo ==
  ASSUME SessionInv, NEW p \in Processes, NEW s, Becomes(p, s),
         proc[p].pc \notin {"save", "commit"}, s.pc \notin {"save", "commit", "load", "clear"},
         UNCHANGED <<session, stored, work, writer, crossed>>
  PROVE  SessionInv'
<1>1. SessionAt(s, p, writer', work', session')
  BY DEF SessionInv, SessionAt
<1> QED
  BY <1>1, SessionKept DEF SessionInv

LEMMA SessionInit ==
  ASSUME Init
  PROVE  SessionInv
<1>1. [tabs |-> <<>>, active |-> 0] \in Sessions
  BY DEF Sessions
<1>2. \A p \in Processes : SessionAt(Down, p, Nobody, work, session)
  BY IdleAt, ProfileAssumption
<1> QED
  BY <1>1, <1>2 DEF Init, SessionInv

LEMMA MigratingSession ==
  ASSUME SessionInv, NEW p \in Processes, Migrating(p)
  PROVE  SessionInv'
<1>1. UNCHANGED <<session, stored, work, writer, crossed>>
  BY DEF Migrating, Open, ReadVersion, CreateTable, DeleteVersion, InsertVersion, ghosts
<1>2. proc[p].pc \notin {"save", "commit"}
  BY DEF Migrating, Open, ReadVersion, CreateTable, DeleteVersion, InsertVersion, Down
<1>3. ASSUME NEW v, Migrate(p, v)
      PROVE  SessionInv'
  <2> DEFINE create == [pc |-> "create", target |-> v + 1, left |-> Migrations[v + 1]]
  <2>1. create.pc = "create" /\ Idle.pc = "open"
    BY DEF Idle
  <2>2. Becomes(p, create) \/ Becomes(p, Idle)
    BY <1>3 DEF Migrate
  <2> HIDE DEF create
  <2> QED
    BY <1>1, <1>2, <2>1, <2>2, TurnsTo
<1>4. CASE Open(p)
  <2>1. [pc |-> "check"].pc = "check"
    OBVIOUS
  <2> QED
    BY <1>1, <1>2, <1>4, <2>1, TurnsTo DEF Open
<1>5. CASE ReadVersion(p)
  BY <1>3, <1>5 DEF ReadVersion
<1>6. CASE CreateTable(p)
  <2> DEFINE delete == [pc |-> "delete", target |-> proc[p].target]
             create == [pc |-> "create", target |-> proc[p].target, left |-> Tail(proc[p].left)]
  <2>1. delete.pc = "delete" /\ create.pc = "create"
    OBVIOUS
  <2>2. Becomes(p, delete) \/ Becomes(p, create)
    BY <1>6 DEF CreateTable
  <2> HIDE DEF delete, create
  <2> QED
    BY <1>1, <1>2, <2>1, <2>2, TurnsTo
<1>7. CASE DeleteVersion(p)
  <2> DEFINE s == [proc[p] EXCEPT !.pc = "insert"]
  <2>1. Becomes(p, s) /\ s.pc = "insert"
    BY <1>7 DEF DeleteVersion
  <2> HIDE DEF s
  <2> QED
    BY <1>1, <1>2, <2>1, TurnsTo
<1>8. CASE InsertVersion(p)
  BY <1>3, <1>8 DEF InsertVersion
<1> QED
  BY <1>4, <1>5, <1>6, <1>7, <1>8 DEF Migrating

LEMMA VisitingSession ==
  ASSUME SessionInv, NEW p \in Processes, Visiting(p)
  PROVE  SessionInv'
<1>1. ASSUME NEW u \in Docs, RecordVisit(p, u)
      PROVE  SessionInv'
  <2>1. PICK row \in RowsOf(u) \cup {0} : Becomes(p, [pc |-> "visit", url |-> u, row |-> row])
    BY <1>1 DEF RecordVisit
  <2> DEFINE s == [pc |-> "visit", url |-> u, row |-> row]
  <2>2. Becomes(p, s) /\ s.pc = "visit" /\ Idle.pc = "open"
    BY <2>1 DEF Idle
  <2> HIDE DEF s
  <2> QED
    BY <1>1, <2>2, TurnsTo DEF RecordVisit, ghosts
<1>2. CASE CountVisit(p)
  <2>1. Idle.pc = "open"
    BY DEF Idle
  <2> QED
    BY <1>2, <2>1, TurnsTo DEF CountVisit
<1>3. CASE ClearHistory(p)
  <2>1. "clear" \in crossed' <=> "clear" \in crossed
    BY <1>3 DEF ClearHistory, Crossing
  <2> QED
    BY <1>3, <2>1 DEF ClearHistory, SessionInv
<1> QED
  BY <1>1, <1>2, <1>3 DEF Visiting

LEMMA SaveSessionKeeps ==
  ASSUME SessionInv, NEW p \in Processes, NEW s \in Snapshots, SaveSession(p, s)
  PROVE  SessionInv'
<1> DEFINE saving == [pc |-> "save", snapshot |-> s]
<1>1. /\ writer = Nobody /\ writer' = p /\ work' = [session EXCEPT !.tabs = <<>>]
      /\ Becomes(p, saving) /\ UNCHANGED <<session, stored, crossed>>
  BY DEF SaveSession, Save, ghosts
<1>2. /\ saving \in [pc : {"save"}, snapshot : Snapshots] /\ saving.pc = "save"
      /\ saving.snapshot = s
  OBVIOUS
<1>3. work' \in Sessions /\ work'.tabs = <<>>
  <2>1. <<>> \in Seq(Docs)
    OBVIOUS
  <2> QED
    BY <1>1, <2>1 DEF SessionInv, Sessions
<1>4. \A q \in Processes \ {p} : (writer' = q <=> writer = q) /\ (writer = q => work' = work)
  BY <1>1, ProfileAssumption
<1> HIDE DEF saving
<1>5. SessionAt(saving, p, writer', work', session')
  <2>1. Len(s.tabs) \in Nat /\ Len(work'.tabs) = 0
    BY <1>3, SnapshotFacts
  <2> QED
    BY <1>1, <1>2, <2>1 DEF SessionAt
<1> QED
  BY <1>1, <1>2, <1>3, <1>4, <1>5, SessionKept

\* What is known of the browser that has the transaction.
LEMMA SavingFacts ==
  ASSUME SessionInv, NEW p \in Processes, proc[p].pc \in {"save", "commit"}
  PROVE  /\ writer = p /\ work \in Sessions /\ proc[p].snapshot \in Snapshots
         /\ proc[p] \in [pc : {"save", "commit"}, snapshot : Snapshots]
         /\ SessionAt(proc[p], p, writer, work, session)
BY DEF SessionInv, SessionAt

LEMMA SaveTabKeeps ==
  ASSUME SessionInv, NEW p \in Processes, SaveTab(p)
  PROVE  SessionInv'
<1> DEFINE s == proc[p].snapshot
           n == Len(work.tabs)
           tab == s.tabs[n + 1]
<1>1. /\ proc[p].pc = "save" /\ n < Len(s.tabs)
      /\ work' = [work EXCEPT !.tabs = Append(work.tabs, tab)]
      /\ UNCHANGED <<session, stored, crossed, writer, proc>>
  BY DEF SaveTab, Save, ghosts
<1>2. /\ writer = p /\ work \in Sessions /\ s \in Snapshots
      /\ SessionAt(proc[p], p, writer, work, session)
  BY <1>1, SavingFacts
<1>3. work.tabs \in Seq(Docs) /\ n \in Nat /\ s.tabs \in Seq(Docs)
  BY <1>2, SnapshotFacts DEF Sessions
<1>4. tab \in Docs
  BY <1>1, <1>3
<1> HIDE DEF tab
<1>5. /\ work' \in Sessions /\ work'.tabs = Append(work.tabs, tab)
  <2> DEFINE longer == Append(work.tabs, tab)
  <2>1. longer \in Seq(Docs)
    BY <1>3, <1>4
  <2> HIDE DEF longer
  <2>2. work' = [work EXCEPT !.tabs = longer]
    BY <1>1 DEF longer, tab
  <2>3. work' \in Sessions /\ work'.tabs = longer
    BY <1>2, <2>1, <2>2 DEF Sessions
  <2> QED
    BY <2>3 DEF longer
<1>6. Len(work'.tabs) = n + 1 /\ \A i \in 1..n : work'.tabs[i] = work.tabs[i]
  BY <1>3, <1>4, <1>5
<1>7. work'.tabs[n + 1] = tab
  BY <1>3, <1>4, <1>5
<1>8. SessionAt(proc[p], p, writer', work', session')
  <2>1. Len(work'.tabs) <= Len(s.tabs)
    BY <1>1, <1>3, <1>6
  <2>2. \A i \in 1..Len(work'.tabs) : work'.tabs[i] = s.tabs[i]
    <3>1. \A i \in 1..n : work.tabs[i] = s.tabs[i]
      BY <1>1, <1>2 DEF SessionAt
    <3>2. \A i \in 1..(n + 1) : i \in 1..n \/ i = n + 1
      BY <1>3
    <3> QED
      BY <1>6, <1>7, <3>1, <3>2 DEF tab
  <2> QED
    BY <1>1, <1>2, <2>1, <2>2 DEF SessionAt
<1>9. ASSUME NEW q \in Processes, q # p
      PROVE  SessionAt(proc[q], q, writer', work', session')
  <2>1. SessionAt(proc[q], q, writer, work, session)
    BY DEF SessionInv
  <2> QED
    BY <1>1, <1>2, <1>9, <2>1 DEF SessionAt
<1> QED
  BY <1>1, <1>5, <1>8, <1>9 DEF SessionInv

LEMMA SaveActiveKeeps ==
  ASSUME SessionInv, NEW p \in Processes, SaveActive(p)
  PROVE  SessionInv'
<1> DEFINE s == proc[p].snapshot
           committing == [proc[p] EXCEPT !.pc = "commit"]
<1>1. /\ proc[p].pc = "save" /\ Len(work.tabs) = Len(s.tabs)
      /\ work' = [work EXCEPT !.active = s.active]
      /\ Becomes(p, committing) /\ UNCHANGED <<session, stored, crossed, writer>>
  BY DEF SaveActive, Save, ghosts
<1>2. /\ writer = p /\ work \in Sessions /\ s \in Snapshots
      /\ proc[p] \in [pc : {"save", "commit"}, snapshot : Snapshots]
      /\ SessionAt(proc[p], p, writer, work, session)
  BY <1>1, SavingFacts
<1>3. s.tabs \in Seq(Docs) /\ s.active \in Nat /\ work.tabs \in Seq(Docs)
  BY <1>2, SnapshotFacts DEF Sessions
<1>4. work' \in Sessions /\ work'.tabs = work.tabs /\ work'.active = s.active
  BY <1>1, <1>2, <1>3 DEF Sessions
<1>5. work.tabs = s.tabs
  <2>1. \A i \in 1..Len(work.tabs) : work.tabs[i] = s.tabs[i]
    BY <1>1, <1>2 DEF SessionAt
  <2> HIDE DEF s
  <2> QED
    BY <1>1, <1>3, <2>1
<1>6. /\ committing \in [pc : {"commit"}, snapshot : Snapshots] /\ committing.pc = "commit"
      /\ committing.snapshot = s
  BY <1>2
<1> HIDE DEF committing
<1>7. SessionAt(committing, p, writer', work', session')
  BY <1>1, <1>2, <1>4, <1>5, <1>6 DEF SessionAt
<1>8. \A q \in Processes \ {p} : (writer' = q <=> writer = q) /\ (writer = q => work' = work)
  BY <1>1, <1>2
<1> QED
  BY <1>1, <1>4, <1>6, <1>7, <1>8, SessionKept

LEMMA CommitKeeps ==
  ASSUME SessionInv, NEW p \in Processes, Commit(p)
  PROVE  SessionInv'
<1> DEFINE s == proc[p].snapshot
<1>1. /\ proc[p].pc = "commit" /\ session' = work /\ stored' = s /\ writer' = Nobody
      /\ work' = work /\ BecomesTearing(p, Idle) /\ Crossing("clear")
  BY DEF Commit
<1>2. /\ writer = p /\ work \in Sessions /\ s \in Snapshots
      /\ SessionAt(proc[p], p, writer, work, session)
  BY <1>1, SavingFacts
<1>3. work.tabs = s.tabs /\ work.active = s.active
  BY <1>1, <1>2 DEF SessionAt
<1>4. Idle.pc = "open" /\ Nobody \notin Processes
  BY ProfileAssumption DEF Idle
<1>5. SessionAt(Idle, p, writer', work', session')
  BY <1>1, <1>4, IdleAt
<1>6. \A q \in Processes \ {p} : (writer' = q <=> writer = q) /\ (writer = q => work' = work)
  BY <1>1, <1>2, <1>4
<1>7. /\ \A q \in Processes : SessionAt(proc'[q], q, writer', work', session')
      /\ proc' = [q \in Processes |-> proc'[q]] /\ proc'[p] = Idle
      /\ \A q \in Processes \ {p} : proc'[q].pc = proc[q].pc
  BY <1>1, <1>5, <1>6, OthersKeep
<1>8. "clear" \notin crossed' => \A q \in Processes : proc'[q].pc # "clear"
  BY <1>1, <1>4, <1>7 DEF Crossing
<1> QED
  BY <1>1, <1>2, <1>3, <1>7, <1>8, SnapshotFacts DEF SessionInv

LEMMA LoadSessionKeeps ==
  ASSUME SessionInv, NEW p \in Processes, LoadSession(p)
  PROVE  SessionInv'
<1> DEFINE loading == [pc |-> "load", tabs |-> session.tabs, torn |-> FALSE]
<1>1. /\ proc[p] = Idle /\ UNCHANGED <<session, stored, work, writer, crossed>>
      /\ Becomes(p, IF session.tabs = <<>> THEN Idle ELSE loading)
  BY DEF LoadSession, ghosts
<1>2. Idle.pc = "open" /\ writer # p
  BY <1>1 DEF Idle, SessionInv, SessionAt
<1>3. CASE session.tabs = <<>>
  BY <1>1, <1>2, <1>3, TurnsTo
<1>4. CASE session.tabs # <<>>
  <2>1. /\ loading \in [pc : {"load"}, tabs : Seq(Docs) \ {<<>>}, torn : BOOLEAN]
        /\ loading.pc = "load" /\ loading.tabs = session.tabs
    BY <1>4 DEF SessionInv, Sessions
  <2>2. Becomes(p, loading)
    BY <1>1, <1>4
  <2> HIDE DEF loading
  <2>3. SessionAt(loading, p, writer', work', session')
    BY <1>1, <1>2, <2>1 DEF SessionAt
  <2> QED
    BY <1>1, <2>1, <2>2, <2>3, SessionKept DEF SessionInv
<1> QED
  BY <1>3, <1>4

LEMMA ClearSessionKeeps ==
  ASSUME SessionInv, NEW p \in Processes, ClearSession(p)
  PROVE  SessionInv'
<1> DEFINE clearing == [pc |-> "clear"]
<1>1. /\ proc[p] = Idle /\ session' = [session EXCEPT !.tabs = <<>>] /\ stored' = NoSession
      /\ BecomesTearing(p, clearing) /\ UNCHANGED <<writer, work, crossed>>
  BY DEF ClearSession
<1>2. Idle.pc = "open" /\ writer # p /\ clearing.pc = "clear"
  BY <1>1 DEF Idle, SessionInv, SessionAt
<1>3. SessionAt(clearing, p, writer', work', session')
  BY <1>1, <1>2 DEF SessionAt
<1>4. session' \in Sessions /\ session'.tabs = <<>>
  <2>1. <<>> \in Seq(Docs)
    OBVIOUS
  <2> QED
    BY <1>1, <2>1 DEF SessionInv, Sessions
<1>5. /\ \A q \in Processes : SessionAt(proc'[q], q, writer', work', session')
      /\ proc' = [q \in Processes |-> proc'[q]]
  <2> HIDE DEF clearing
  <2> QED
    BY <1>1, <1>3, OthersKeep
<1> QED
  BY <1>1, <1>4, <1>5 DEF SessionInv

\* The index may be lost only if a session was saved since the tabs were cleared.
LEMMA ClearIndexKeeps ==
  ASSUME SessionInv, NEW p \in Processes, ClearIndex(p)
  PROVE  SessionInv'
<1>1. /\ proc[p].pc = "clear" /\ session' = [session EXCEPT !.active = 0]
      /\ BecomesTearing(p, Idle) /\ UNCHANGED <<writer, work, stored, crossed>>
  BY DEF ClearIndex, ghosts
<1>2. Idle.pc = "open" /\ writer # p
  BY <1>1 DEF Idle, SessionInv, SessionAt
<1>3. SessionAt(Idle, p, writer', work', session')
  BY <1>1, <1>2, IdleAt
<1>4. session' \in Sessions /\ session'.tabs = session.tabs
  BY <1>1 DEF SessionInv, Sessions
<1>5. /\ \A q \in Processes : SessionAt(proc'[q], q, writer', work', session')
      /\ proc' = [q \in Processes |-> proc'[q]]
  BY <1>1, <1>3, OthersKeep
<1>6. stored # NoSession => "clear" \in crossed
  BY <1>1 DEF SessionInv
<1> QED
  BY <1>1, <1>4, <1>5, <1>6 DEF SessionInv

\* A transaction that fails is rolled back, one whose browser is killed too.
LEMMA GivesUpKeeps ==
  ASSUME SessionInv, NEW p \in Processes, NEW s \in {Idle, Down}, Becomes(p, s),
         Released(p), UNCHANGED <<session, stored, work, crossed>>
  PROVE  SessionInv'
<1>1. writer' # p /\ \A q \in Processes \ {p} : writer' = q <=> writer = q
  BY ProfileAssumption DEF Released
<1>2. SessionAt(s, p, writer', work', session') /\ s.pc # "clear"
  BY <1>1, IdleAt
<1> QED
  BY <1>1, <1>2, SessionKept DEF SessionInv

LEMMA SessionNext ==
  ASSUME SessionInv, [Next]_vars
  PROVE  SessionInv'
<1>1. CASE UNCHANGED vars
  BY <1>1 DEF vars, SessionInv
<1>2. ASSUME NEW p \in Processes, KeepingSession(p)
      PROVE  SessionInv'
  <2>1. ASSUME Load(p) PROVE SessionInv'
    <3>1. Idle.pc = "open"
      BY DEF Idle
    <3> QED
      BY <2>1, <3>1, TurnsTo DEF Load, ghosts
  <2> QED
    BY <1>2, <2>1, SaveSessionKeeps, SaveTabKeeps, SaveActiveKeeps, CommitKeeps,
       LoadSessionKeeps, ClearSessionKeeps, ClearIndexKeeps DEF KeepingSession
<1>3. ASSUME NEW p \in Processes, Fails(p) \/ Crash(p)
      PROVE  SessionInv'
  <2>1. Becomes(p, Idle) \/ Becomes(p, Down)
    BY <1>3 DEF Fails, Crash
  <2>2. Released(p) /\ UNCHANGED <<session, stored, work, crossed>>
    BY <1>3 DEF Fails, Crash, ghosts
  <2> QED
    BY <2>1, <2>2, GivesUpKeeps
<1> QED
  BY <1>1, <1>2, <1>3, MigratingSession, VisitingSession DEF Next

LEMMA SessionHolds == Spec => []SessionInv
  BY SessionInit, SessionNext, PTL DEF Spec

\* A launch finds the session last saved, whole, or none when there is none
\* (LoadsWhatWasSaved), however many browsers save, clear and load it at once, and
\* wherever each of them fails or is killed.
THEOREM SessionRestored == Spec => []LoadsWhatWasSaved
<1>1. ASSUME SessionInv PROVE LoadsWhatWasSaved
  <2>1. (session.tabs = <<>>) = (stored = NoSession)
    <3>1. stored # NoSession => session.tabs = stored.tabs /\ stored.tabs # <<>>
      BY <1>1, SnapshotFacts DEF SessionInv
    <3> QED
      BY <1>1, <3>1 DEF SessionInv
  <2>2. ASSUME NEW p \in Processes, proc[p].pc = "load"
        PROVE  LET s == Loaded(proc[p].tabs)
               IN  /\ s.active \in DOMAIN s.tabs
                   /\ ~proc[p].torn =>
                        /\ s.tabs = stored.tabs
                        /\ "clear" \notin crossed => s.active = stored.active
    <3> DEFINE tabs == proc[p].tabs
               n == Len(tabs)
    <3>1. /\ tabs \in Seq(Docs) /\ tabs # <<>>
          /\ ~proc[p].torn => tabs = session.tabs
      BY <1>1, <2>2 DEF SessionInv, SessionAt
    <3>2. n \in Nat \ {0} /\ DOMAIN tabs = 1..n /\ session.active \in Nat
      BY <1>1, <3>1 DEF SessionInv, Sessions
    <3>3. /\ Loaded(tabs).tabs = tabs
          /\ Loaded(tabs).active = (IF session.active = 0 THEN 1
                                    ELSE IF session.active > n THEN n ELSE session.active)
      BY DEF Loaded
    <3>4. Loaded(tabs).active \in DOMAIN Loaded(tabs).tabs
      BY <3>2, <3>3
    <3>5. ASSUME ~proc[p].torn
          PROVE  /\ Loaded(tabs).tabs = stored.tabs
                 /\ "clear" \notin crossed => Loaded(tabs).active = stored.active
      <4>1. /\ stored \in Snapshots /\ tabs = stored.tabs
            /\ "clear" \notin crossed => session.active = stored.active
        BY <1>1, <3>1, <3>5 DEF SessionInv
      <4>2. stored.active \in 1..n
        BY <4>1, SnapshotFacts
      <4> HIDE DEF tabs
      <4> QED
        BY <3>2, <3>3, <4>1, <4>2
    <3> QED
      BY <3>4, <3>5
  <2> QED
    BY <2>1, <2>2 DEF LoadsWhatWasSaved
<1> QED
  BY <1>1, SessionHolds, PTL

-----------------------------------------------------------------------------
(* Visits.  The counts of the rows of a URL are added with a fold, whose    *)
(* definition by recursion over finite sets is unfolded first.              *)

\* The fold, as an equation: f sums the counts of the rows of every part of S.
Sums(f, h, S) ==
  f = [s \in SUBSET S |->
         IF s = {} THEN 0
         ELSE h[CHOOSE x \in s : TRUE].count + f[s \ {CHOOSE x \in s : TRUE}]]

Total(h, S) == (CHOOSE f : Sums(f, h, S))[S]

\* What a run evaluates is this total.
LEMMA VisitsTotal ==
  VisitsCounted <=>
    ("visit" \notin crossed => \A u \in Docs : Total(history, RowsOf(u)) = visits[u])
<1>1. ASSUME NEW S PROVE MapThenSumSet(LAMBDA i : history[i].count, S) = Total(history, S)
  BY DEF Total, Sums, MapThenSumSet, MapThenFoldSet
<1> QED
  BY <1>1 DEF VisitsCounted

\* A set of finite sets has one that contains no other of them.
LEMMA SmallestSet ==
  ASSUME NEW S, IsFiniteSet(S), NEW D, D \subseteq SUBSET S, D # {}
  PROVE  \E T \in D : \A U \in D : U \subseteq T => U = T
<1>1. D \subseteq FiniteSubsetsOf(S)
  BY FS_FiniteSubsetsOfFinite
<1>2. PICK T \in D : \A U \in D : ~ (<<U, T>> \in StrictSubsetOrdering(S))
  BY <1>1, FS_StrictSubsetOrderingWellFounded, WFMin
<1> QED
  BY <1>2 DEF StrictSubsetOrdering

\* What the fold takes first.
First(s) == CHOOSE x \in s : TRUE

LEMMA FirstIn ==
  ASSUME NEW s, s # {}
  PROVE  First(s) \in s
BY DEF First

LEMMA SumsAt ==
  ASSUME NEW f, NEW h, NEW S, Sums(f, h, S)
  PROVE  /\ f = [s \in SUBSET S |-> f[s]]
         /\ f[{}] = 0
         /\ \A s \in SUBSET S : s # {} => f[s] = h[First(s)].count + f[s \ {First(s)}]
<1>1. f = [s \in SUBSET S |->
             IF s = {} THEN 0 ELSE h[First(s)].count + f[s \ {First(s)}]]
  BY DEF Sums, First
<1> QED
  BY <1>1

LEMMA SumsStep ==
  ASSUME NEW f, NEW h, NEW S, Sums(f, h, S), NEW s, s \subseteq S, s # {}
  PROVE  f[s] = h[First(s)].count + f[s \ {First(s)}]
<1>1. s \in SUBSET S
  OBVIOUS
<1> QED
  BY <1>1 DEF Sums, First

LEMMA SumsFrom ==
  ASSUME NEW f, NEW h, NEW S, f = [s \in SUBSET S |-> f[s]], f[{}] = 0,
         \A s \in SUBSET S : s # {} => f[s] = h[First(s)].count + f[s \ {First(s)}]
  PROVE  Sums(f, h, S)
<1>1. f = [s \in SUBSET S |->
             IF s = {} THEN 0 ELSE h[First(s)].count + f[s \ {First(s)}]]
  <2> DEFINE g == [s \in SUBSET S |->
             IF s = {} THEN 0 ELSE h[First(s)].count + f[s \ {First(s)}]]
  <2>1. \A s \in SUBSET S : f[s] = g[s]
    OBVIOUS
  <2>2. [s \in SUBSET S |-> f[s]] = g
    BY <2>1
  <2> QED
    BY <2>2
<1> QED
  BY <1>1 DEF Sums, First

\* There is at most one such sum, over a set and over its parts.
LEMMA SumsUnique ==
  ASSUME NEW S, IsFiniteSet(S), NEW h, NEW T \in SUBSET S, NEW f, NEW g,
         Sums(f, h, S), Sums(g, h, T)
  PROVE  \A s \in SUBSET T : f[s] = g[s]
<1> DEFINE D == {s \in SUBSET T : f[s] # g[s]}
<1> SUFFICES ASSUME D # {} PROVE FALSE
  OBVIOUS
<1>1. D \subseteq SUBSET S
  OBVIOUS
<1>2. PICK s \in D : \A u \in D : u \subseteq s => u = s
  <2> HIDE DEF D
  <2> QED
    BY <1>1, SmallestSet
<1>3. s # {}
  BY SumsAt
<1> DEFINE rest == s \ {First(s)}
<1>4. f[rest] = g[rest]
  <2>1. rest \subseteq s /\ rest # s
    BY <1>3, FirstIn
  <2> QED
    BY <1>2, <2>1
<1>5. f[s] = h[First(s)].count + f[rest]
  <2>1. s \subseteq S
    BY <1>2
  <2> QED
    BY <1>3, <2>1, SumsStep
<1>6. g[s] = h[First(s)].count + g[rest]
  <2>1. s \subseteq T
    BY <1>2
  <2> QED
    BY <1>3, <2>1, SumsStep
<1>7. f[s] # g[s]
  BY <1>2
<1> QED
  BY <1>4, <1>5, <1>6, <1>7

\* There are such sums over a finite set.
LEMMA SumsExist ==
  ASSUME NEW S, IsFiniteSet(S), NEW h
  PROVE  \E f : Sums(f, h, S)
<1> DEFINE D == {T \in SUBSET S : ~\E f : Sums(f, h, T)}
<1> SUFFICES ASSUME D # {} PROVE FALSE
  OBVIOUS
<1>1. PICK T \in D : \A U \in D : U \subseteq T => U = T
  <2>1. D \subseteq SUBSET S
    OBVIOUS
  <2> HIDE DEF D
  <2> QED
    BY <2>1, SmallestSet
<1>2. ASSUME NEW U \in SUBSET T, U # T
      PROVE  Sums(CHOOSE f : Sums(f, h, U), h, U)
  <2>1. \E f : Sums(f, h, U)
    BY <1>1, <1>2
  <2> QED
    BY <2>1
<1> DEFINE part[U \in SUBSET T] == (CHOOSE f : Sums(f, h, U))[U]
           f == [s \in SUBSET T |->
                   IF s # T THEN part[s]
                   ELSE IF T = {} THEN 0
                   ELSE h[First(T)].count + part[T \ {First(T)}]]
<1>3. f = [s \in SUBSET T |-> f[s]]
  OBVIOUS
<1>4. f[{}] = 0
  <2>1. CASE T = {}
    BY <2>1
  <2>2. CASE T # {}
    <3>1. part[{}] = 0
      BY <1>2, <2>2, SumsAt
    <3> HIDE DEF part
    <3> QED
      BY <2>2, <3>1
  <2> QED
    BY <2>1, <2>2
<1>5. ASSUME NEW s \in SUBSET T, s # {}
      PROVE  f[s] = h[First(s)].count + f[s \ {First(s)}]
  <2> DEFINE rest == s \ {First(s)}
  <2>1. rest \in SUBSET T /\ rest # T /\ rest \subseteq s
    BY <1>5, FirstIn
  <2>2. f[rest] = part[rest]
    <3> HIDE DEF part
    <3> QED
      BY <2>1
  <2>3. CASE s = T
    <3> HIDE DEF part, rest
    <3>1. f[s] = h[First(s)].count + part[rest]
      BY <1>5, <2>3 DEF rest
    <3> HIDE DEF f
    <3> QED
      BY <2>2, <3>1 DEF rest
  <2>4. CASE s # T
    <3> DEFINE fs == CHOOSE g : Sums(g, h, s)
               fr == CHOOSE g : Sums(g, h, rest)
    <3>1. Sums(fs, h, s) /\ Sums(fr, h, rest)
      BY <1>2, <2>1, <2>4
    <3>2. part[s] = fs[s] /\ part[rest] = fr[rest]
      BY <2>1
    <3> HIDE DEF fs, fr, part
    <3>3. IsFiniteSet(s)
      BY FS_Subset
    <3>4. fs[rest] = fr[rest]
      <4> HIDE DEF rest
      <4> QED
        BY <2>1, <3>1, <3>3, SumsUnique
    <3>5. fs[s] = h[First(s)].count + fs[rest]
      BY <1>5, <3>1, SumsStep
    <3>6. f[s] = part[s]
      BY <2>4
    <3> HIDE DEF f, rest
    <3>7. f[s] = h[First(s)].count + f[rest]
      BY <2>2, <3>2, <3>4, <3>5, <3>6
    <3> QED
      BY <3>7 DEF rest
  <2> QED
    BY <2>3, <2>4
<1>6. Sums(f, h, T)
  <2> HIDE DEF f
  <2> QED
    BY <1>3, <1>4, <1>5, SumsFrom
<1> QED
  BY <1>1, <1>6

\* The sum of a part is the one the fold over the whole has for it.
LEMMA TotalSums ==
  ASSUME NEW S, IsFiniteSet(S), NEW h
  PROVE  \E f : Sums(f, h, S) /\ \A T \in SUBSET S : Total(h, T) = f[T]
<1>1. PICK f : Sums(f, h, S)
  BY SumsExist
<1>2. ASSUME NEW T \in SUBSET S
      PROVE  Total(h, T) = f[T]
  <2> DEFINE g == CHOOSE g : Sums(g, h, T)
  <2>1. Sums(g, h, T)
    <3>1. IsFiniteSet(T)
      BY FS_Subset
    <3> QED
      BY <3>1, SumsExist
  <2>2. Total(h, T) = g[T]
    BY DEF Total
  <2> HIDE DEF g
  <2> QED
    BY <1>1, <2>1, <2>2, SumsUnique
<1> QED
  BY <1>1, <1>2

\* One by one, in the order of the fold.
LEMMA TotalFirst ==
  ASSUME NEW S, IsFiniteSet(S), NEW h
  PROVE  /\ Total(h, {}) = 0
         /\ \A T \in SUBSET S : T # {} =>
              Total(h, T) = h[First(T)].count + Total(h, T \ {First(T)})
<1>1. PICK f : Sums(f, h, S) /\ \A T \in SUBSET S : Total(h, T) = f[T]
  BY TotalSums
<1>2. Total(h, {}) = 0
  BY <1>1, SumsAt
<1>3. ASSUME NEW T \in SUBSET S, T # {}
      PROVE  Total(h, T) = h[First(T)].count + Total(h, T \ {First(T)})
  <2>1. f[T] = h[First(T)].count + f[T \ {First(T)}]
    BY <1>1, <1>3, SumsStep
  <2>2. T \ {First(T)} \in SUBSET S
    OBVIOUS
  <2> QED
    BY <1>1, <2>1, <2>2
<1> QED
  BY <1>2, <1>3

LEMMA TotalNat ==
  ASSUME NEW S, IsFiniteSet(S), NEW h, \A i \in S : h[i].count \in Nat
  PROVE  \A T \in SUBSET S : Total(h, T) \in Nat
<1> DEFINE D == {T \in SUBSET S : Total(h, T) \notin Nat}
<1> SUFFICES ASSUME D # {} PROVE FALSE
  OBVIOUS
<1>1. PICK T \in D : \A U \in D : U \subseteq T => U = T
  <2>1. D \subseteq SUBSET S
    OBVIOUS
  <2> HIDE DEF D
  <2> QED
    BY <2>1, SmallestSet
<1>2. T # {}
  BY TotalFirst
<1>3. First(T) \in T
  BY <1>2, FirstIn
<1>4. Total(h, T \ {First(T)}) \in Nat
  BY <1>1, <1>3
<1>5. Total(h, T) = h[First(T)].count + Total(h, T \ {First(T)})
  BY <1>1, <1>2, TotalFirst
<1> QED
  BY <1>1, <1>3, <1>4, <1>5

\* One by one, in any order.
LEMMA TotalAnyFirst ==
  ASSUME NEW S, IsFiniteSet(S), NEW h, \A i \in S : h[i].count \in Nat
  PROVE  \A T \in SUBSET S : \A x \in T : Total(h, T) = h[x].count + Total(h, T \ {x})
<1> DEFINE D == {T \in SUBSET S : \E x \in T : Total(h, T) # h[x].count + Total(h, T \ {x})}
<1> SUFFICES ASSUME D # {} PROVE FALSE
  OBVIOUS
<1>1. PICK T \in D : \A U \in D : U \subseteq T => U = T
  <2>1. D \subseteq SUBSET S
    OBVIOUS
  <2> HIDE DEF D
  <2> QED
    BY <2>1, SmallestSet
<1>2. PICK x \in T : Total(h, T) # h[x].count + Total(h, T \ {x})
  BY <1>1
<1> DEFINE y == First(T)
           both == (T \ {x}) \ {y}
<1>3. y \in T
  BY <1>2, FirstIn
<1>4. Total(h, T) = h[y].count + Total(h, T \ {y})
  <2>1. T \in SUBSET S /\ T # {}
    BY <1>1, <1>2
  <2> QED
    BY <2>1, TotalFirst
<1>5. x # y
  BY <1>2, <1>4
<1>6. Total(h, T \ {y}) = h[x].count + Total(h, (T \ {y}) \ {x})
  <2>1. T \ {y} \in SUBSET S /\ T \ {y} \notin D
    BY <1>1, <1>3
  <2> QED
    BY <1>2, <1>5, <2>1
<1>7. Total(h, T \ {x}) = h[y].count + Total(h, (T \ {x}) \ {y})
  <2>1. T \ {x} \in SUBSET S /\ T \ {x} \notin D
    BY <1>1, <1>2
  <2> QED
    BY <1>3, <1>5, <2>1
<1>8. (T \ {y}) \ {x} = both
  OBVIOUS
<1>9. Total(h, both) \in Nat /\ h[x].count \in Nat /\ h[y].count \in Nat
  <2>1. both \in SUBSET S
    BY <1>1
  <2> QED
    BY <1>1, <1>2, <1>3, <2>1, TotalNat
<1>10. Total(h, T) = h[y].count + (h[x].count + Total(h, both))
  BY <1>4, <1>6, <1>8
<1>11. Total(h, T \ {x}) = h[y].count + Total(h, both)
  BY <1>7
<1> HIDE DEF both, y, D
<1> QED
  BY <1>2, <1>9, <1>10, <1>11

LEMMA TotalWithout ==
  ASSUME NEW S, IsFiniteSet(S), NEW h, \A i \in S : h[i].count \in Nat, NEW x \in S
  PROVE  Total(h, S) = h[x].count + Total(h, S \ {x})
<1>1. S \in SUBSET S
  OBVIOUS
<1> QED
  BY <1>1, TotalAnyFirst

\* Rows with the same counts have the same total.
SameCounts(g, h, S) == \A i \in S : g[i].count = h[i].count

LEMMA TotalSame ==
  ASSUME NEW S, IsFiniteSet(S), NEW g, NEW h, SameCounts(g, h, S)
  PROVE  Total(g, S) = Total(h, S)
<1>1. PICK f : Sums(f, h, S) /\ \A T \in SUBSET S : Total(h, T) = f[T]
  BY TotalSums
<1>2. Sums(f, g, S)
  <2>1. ASSUME NEW s \in SUBSET S, s # {}
        PROVE  f[s] = g[First(s)].count + f[s \ {First(s)}]
    <3>1. First(s) \in S
      BY <2>1, FirstIn
    <3>2. g[First(s)].count = h[First(s)].count
      BY <3>1 DEF SameCounts
    <3>3. f[s] = h[First(s)].count + f[s \ {First(s)}]
      <4>1. s \subseteq S
        BY <2>1
      <4>2. Sums(f, h, S)
        BY <1>1
      <4> QED
        BY <2>1, <4>1, <4>2, SumsStep
    <3> QED
      BY <3>2, <3>3
  <2>2. f = [s \in SUBSET S |-> f[s]] /\ f[{}] = 0
    BY <1>1, SumsAt
  <2> QED
    BY <2>1, <2>2, SumsFrom
<1>3. PICK e : Sums(e, g, S) /\ \A T \in SUBSET S : Total(g, T) = e[T]
  BY TotalSums
<1>4. S \in SUBSET S
  OBVIOUS
<1>5. e[S] = f[S]
  BY <1>2, <1>3, <1>4, SumsUnique
<1> QED
  BY <1>1, <1>3, <1>4, <1>5

LEMMA TotalAdd ==
  ASSUME NEW S, IsFiniteSet(S), NEW h, NEW x, x \notin S,
         \A i \in S \cup {x} : h[i].count \in Nat
  PROVE  Total(h, S \cup {x}) = h[x].count + Total(h, S)
<1> DEFINE more == S \cup {x}
<1>1. IsFiniteSet(more) /\ x \in more /\ more \ {x} = S
  BY FS_AddElement
<1>2. \A i \in more : h[i].count \in Nat
  OBVIOUS
<1> HIDE DEF more
<1>3. Total(h, more) = h[x].count + Total(h, more \ {x})
  BY <1>1, <1>2, TotalWithout
<1> QED
  BY <1>1, <1>3 DEF more

-----------------------------------------------------------------------------

\* The rows of the table have the ids up to n.
Table(h, n) ==
  /\ DOMAIN h = 1..n
  /\ \A i \in 1..n : h[i] \in [url : Docs, count : Nat]

Rows(h, u) == {i \in DOMAIN h : h[i].url = u}

\* The rows of each URL count its visits.
Counts(h, v) == \A u \in Docs : Total(h, Rows(h, u)) = v[u]

LEMMA RowsFinite ==
  ASSUME NEW n \in Nat, NEW h, Table(h, n), NEW u
  PROVE  /\ IsFiniteSet(Rows(h, u)) /\ Rows(h, u) \subseteq 1..n
         /\ \A i \in Rows(h, u) : h[i].count \in Nat
<1>1. IsFiniteSet(1..n)
  BY FS_Interval
<1>2. Rows(h, u) \in SUBSET (1..n)
  BY DEF Rows, Table
<1>3. \A i \in Rows(h, u) : h[i].count \in Nat
  BY DEF Rows, Table
<1> QED
  BY <1>1, <1>2, <1>3, FS_Subset

\* A row for a first visit, and a row that is counted up, add one visit of one URL.
LEMMA NewRow ==
  ASSUME NEW n \in Nat, NEW h, Table(h, n), NEW u \in Docs,
         NEW v \in [Docs -> Nat],
         NEW g, DOMAIN g = 1..(n + 1),
         \A i \in 1..n : g[i] = h[i],
         g[n + 1] = [url |-> u, count |-> 1]
  PROVE  /\ Table(g, n + 1)
         /\ Counts(h, v) => Counts(g, [v EXCEPT ![u] = @ + 1])
<1>1. DOMAIN g = 1..(n + 1)
  OBVIOUS
<1>2. \A i \in 1..n : i \in 1..(n + 1) /\ g[i] = h[i]
  OBVIOUS
<1>3. n + 1 \in 1..(n + 1) /\ g[n + 1] = [url |-> u, count |-> 1] /\ n + 1 \notin 1..n
  OBVIOUS
<1>4. \A i \in 1..(n + 1) : i = n + 1 \/ i \in 1..n
  OBVIOUS
<1>5. Table(g, n + 1)
  <2>1. [url |-> u, count |-> 1] \in [url : Docs, count : Nat]
    OBVIOUS
  <2> QED
    BY <1>1, <1>2, <1>3, <1>4, <2>1 DEF Table
<1>6. ASSUME Counts(h, v), NEW w \in Docs
      PROVE  Total(g, Rows(g, w)) = [v EXCEPT ![u] = @ + 1][w]
  <2> DEFINE R == Rows(h, w)
  <2>1. /\ IsFiniteSet(R) /\ R \subseteq 1..n
        /\ \A i \in R : h[i].count \in Nat
    BY RowsFinite
  <2>2. Total(h, R) = v[w] /\ v[w] \in Nat
    BY <1>6 DEF Counts
  <2>3. \A i \in R : g[i].count = h[i].count
    BY <1>2, <2>1
  <2>4. Total(g, R) = Total(h, R)
    <3> HIDE DEF R
    <3> QED
      BY <2>1, <2>3, TotalSame DEF SameCounts
  <2>5. CASE w = u
    <3>1. Rows(g, w) = R \cup {n + 1}
      <4>1. n + 1 \in Rows(g, w)
        BY <1>1, <1>3, <2>5 DEF Rows
      <4>2. \A i \in 1..n : i \in Rows(g, w) <=> i \in R
        BY <1>1, <1>2 DEF Rows, Table
      <4>3. Rows(g, w) \subseteq 1..(n + 1)
        BY <1>1 DEF Rows
      <4> HIDE DEF R
      <4> QED
        BY <1>4, <2>1, <4>1, <4>2, <4>3
    <3>2. n + 1 \notin R /\ \A i \in R \cup {n + 1} : g[i].count \in Nat
      BY <1>3, <2>1, <2>3
    <3>3. Total(g, R \cup {n + 1}) = g[n + 1].count + Total(g, R)
      <4> HIDE DEF R
      <4> QED
        BY <2>1, <3>2, TotalAdd
    <3>4. g[n + 1].count = 1
      BY <1>3
    <3>5. [v EXCEPT ![u] = @ + 1][w] = v[w] + 1
      BY <2>5
    <3> HIDE DEF R
    <3> QED
      BY <2>2, <2>4, <3>1, <3>3, <3>4, <3>5
  <2>6. CASE w # u
    <3>1. Rows(g, w) = R
      BY <1>1, <1>2, <1>3, <1>4, <2>6 DEF Rows, Table
    <3>2. [v EXCEPT ![u] = @ + 1][w] = v[w]
      BY <2>6
    <3> QED
      BY <2>2, <2>4, <3>1, <3>2
  <2> QED
    BY <2>5, <2>6
<1> QED
  BY <1>5, <1>6 DEF Counts

CountedUp(g, h, n, row) ==
  \A i \in 1..n : /\ g[i] \in [url : Docs, count : Nat] /\ g[i].url = h[i].url
                  /\ i # row => g[i].count = h[i].count
                  /\ i = row => g[i].count = h[i].count + 1

LEMMA CountedRow ==
  ASSUME NEW n \in Nat, NEW h, Table(h, n), NEW row,
         NEW g, g = [i \in DOMAIN h |-> IF i = row THEN [h[i] EXCEPT !.count = @ + 1] ELSE h[i]]
  PROVE  DOMAIN g = 1..n /\ CountedUp(g, h, n, row)
<1>1. DOMAIN g = 1..n /\ DOMAIN h = 1..n
  BY DEF Table
<1>2. ASSUME NEW i \in 1..n
      PROVE  /\ g[i] \in [url : Docs, count : Nat] /\ g[i].url = h[i].url
             /\ i # row => g[i].count = h[i].count
             /\ i = row => g[i].count = h[i].count + 1
  <2>1. h[i] \in [url : Docs, count : Nat]
    BY DEF Table
  <2>2. g[i] = IF i = row THEN [h[i] EXCEPT !.count = @ + 1] ELSE h[i]
    BY <1>1
  <2> QED
    BY <2>1, <2>2
<1> QED
  BY <1>1, <1>2 DEF CountedUp

LEMMA SameRow ==
  ASSUME NEW n \in Nat, NEW h, Table(h, n), NEW row,
         NEW v \in [Docs -> Nat], NEW u \in Docs,
         NEW g, DOMAIN g = 1..n, CountedUp(g, h, n, row)
  PROVE  /\ Table(g, n)
         /\ Counts(h, v) /\ row \in DOMAIN h /\ h[row].url = u
              => Counts(g, [v EXCEPT ![u] = @ + 1])
<1>1. DOMAIN g = 1..n /\ DOMAIN h = 1..n
  BY DEF Table
<1>2. \A i \in 1..n : /\ g[i] \in [url : Docs, count : Nat] /\ g[i].url = h[i].url
                      /\ i # row => g[i].count = h[i].count
                      /\ i = row => g[i].count = h[i].count + 1
  BY DEF CountedUp
<1>3. Table(g, n)
  BY <1>1, <1>2 DEF Table
<1>4. ASSUME Counts(h, v), row \in 1..n, h[row].url = u, NEW w \in Docs
      PROVE  Total(g, Rows(g, w)) = [v EXCEPT ![u] = @ + 1][w]
  <2> DEFINE R == Rows(h, w)
             others == R \ {row}
  <2>1. /\ IsFiniteSet(R) /\ R \subseteq 1..n
        /\ \A i \in R : h[i].count \in Nat
    BY RowsFinite
  <2>2. Total(h, R) = v[w] /\ v[w] \in Nat
    BY <1>4 DEF Counts
  <2>3. Rows(g, w) = R
    BY <1>1, <1>2 DEF Rows
  <2>4. Total(g, others) = Total(h, others)
    <3>1. IsFiniteSet(others) /\ \A i \in others : g[i].count = h[i].count
      BY <1>2, <2>1, FS_RemoveElement
    <3> HIDE DEF others
    <3> QED
      BY <3>1, TotalSame DEF SameCounts
  <2>5. CASE w = u
    <3>1. row \in R
      BY <1>1, <1>4, <2>5 DEF Rows
    <3>2. \A i \in R : g[i].count \in Nat
      BY <1>2, <2>1
    <3> HIDE DEF R
    <3>4. /\ Total(h, R) = h[row].count + Total(h, others)
          /\ Total(g, R) = g[row].count + Total(g, others)
      <4>1. IsFiniteSet(R) /\ \A i \in R : h[i].count \in Nat
        BY <2>1
      <4>2. Total(h, R) = h[row].count + Total(h, R \ {row})
        BY <3>1, <4>1, TotalWithout
      <4>3. Total(g, R) = g[row].count + Total(g, R \ {row})
        BY <3>1, <3>2, <4>1, TotalWithout
      <4> QED
        BY <4>2, <4>3
    <3>5. Total(h, others) \in Nat
      <4>1. others \in SUBSET R
        OBVIOUS
      <4> QED
        BY <2>1, <4>1, TotalNat
    <3>6. g[row].count = h[row].count + 1 /\ h[row].count \in Nat
      BY <1>2, <1>4, <2>1, <3>1
    <3>7. [v EXCEPT ![u] = @ + 1][w] = v[w] + 1
      BY <2>5
    <3> HIDE DEF others
    <3> QED
      BY <2>2, <2>3, <2>4, <3>4, <3>5, <3>6, <3>7
  <2>6. CASE w # u
    <3>1. others = R
      BY <1>4, <2>6 DEF Rows
    <3>2. [v EXCEPT ![u] = @ + 1][w] = v[w]
      BY <2>6
    <3> HIDE DEF others, R
    <3> QED
      BY <2>2, <2>3, <2>4, <3>1, <3>2
  <2> QED
    BY <2>5, <2>6
<1> QED
  BY <1>1, <1>3, <1>4 DEF Counts

-----------------------------------------------------------------------------

\* What a browser in the middle of a visit relies on.
VisitAt(s) ==
  s.pc = "visit" =>
    /\ s \in [pc : {"visit"}, url : Docs, row : Nat]
    /\ s.row # 0 /\ "visit" \notin crossed => s.row \in DOMAIN history /\ history[s.row].url = s.url

\* VisitsCounted with the browsers that are about to count.
VisitInv ==
  /\ \E n \in Nat : Table(history, n)
  /\ visits \in [Docs -> Nat]
  /\ proc = [p \in Processes |-> proc[p]]
  /\ \A p \in Processes : VisitAt(proc[p])
  /\ "visit" \notin crossed => Counts(history, visits)

LEMMA InvVisits == VisitInv => VisitsCounted
<1>1. \A u : RowsOf(u) = Rows(history, u)
  BY DEF RowsOf, Rows
<1> QED
  BY <1>1, VisitsTotal DEF VisitInv, Counts

LEMMA NoRows ==
  /\ Table(<<>>, 0)
  /\ Counts(<<>>, [u \in Docs |-> 0]) /\ [u \in Docs |-> 0] \in [Docs -> Nat]
<1>1. \A u : Rows(<<>>, u) = {}
  BY DEF Rows
<1>2. Total(<<>>, {}) = 0
  BY TotalFirst, FS_EmptySet
<1> QED
  BY <1>1, <1>2 DEF Table, Counts

LEMMA VisitInit == Init => VisitInv
<1> SUFFICES ASSUME Init PROVE VisitInv
  OBVIOUS
<1>1. history = <<>> /\ visits = [u \in Docs |-> 0] /\ proc = [p \in Processes |-> Down]
  BY DEF Init
<1>2. \A p \in Processes : proc[p].pc # "visit"
  BY <1>1 DEF Down
<1> QED
  BY <1>1, <1>2, NoRows DEF VisitInv, VisitAt

\* A step that leaves the history alone, after which a browser is where it may be.
LEMMA VisitKept ==
  ASSUME VisitInv, UNCHANGED <<history, visits>>, "visit" \in crossed' <=> "visit" \in crossed,
         NEW p \in Processes, NEW s, Becomes(p, s) \/ BecomesTearing(p, s),
         VisitAt(s)
  PROVE  VisitInv'
<1>1. proc' = [q \in Processes |-> proc'[q]] /\ proc'[p] = s
  BY DEF VisitInv, Becomes, BecomesTearing
<1>2. ASSUME NEW q \in Processes
      PROVE  VisitAt(proc'[q])
  <2>1. CASE q = p
    BY <1>1, <2>1
  <2>2. CASE q # p /\ proc'[q] = proc[q]
    BY <2>2 DEF VisitInv
  <2>3. CASE q # p /\ proc'[q] # proc[q]
    <3>1. proc[q].pc = "load" /\ proc'[q] = [proc[q] EXCEPT !.torn = TRUE]
      BY <2>3 DEF Becomes, BecomesTearing, VisitInv
    <3>2. proc'[q].pc = "load"
      BY <3>1
    <3> QED
      BY <3>2 DEF VisitAt
  <2> QED
    BY <2>1, <2>2, <2>3
<1>3. \A q \in Processes : VisitAt(proc'[q]) => VisitAt(proc[q])'
  BY DEF VisitAt
<1> QED
  BY <1>1, <1>2, <1>3 DEF VisitInv

LEMMA ElsewhereAt ==
  ASSUME NEW s, s.pc # "visit"
  PROVE  VisitAt(s)
BY DEF VisitAt

\* What a step that is not about visits leaves a browser in.
Elsewhere(p) == \E s : s.pc # "visit" /\ (Becomes(p, s) \/ BecomesTearing(p, s))

LEMMA ElsewhereKeeps ==
  ASSUME VisitInv, UNCHANGED <<history, visits>>, "visit" \in crossed' <=> "visit" \in crossed,
         NEW p \in Processes, Elsewhere(p)
  PROVE  VisitInv'
BY VisitKept, ElsewhereAt DEF Elsewhere

LEMMA IdleIsElsewhere ==
  ASSUME NEW p
  PROVE  /\ Becomes(p, Idle) \/ BecomesTearing(p, Idle) => Elsewhere(p)
         /\ Becomes(p, Down) => Elsewhere(p)
<1>1. Idle.pc # "visit" /\ Down.pc # "visit"
  BY DEF Idle, Down
<1> QED
  BY <1>1 DEF Elsewhere

LEMMA MigrateElsewhere ==
  ASSUME NEW p, NEW v, Migrate(p, v)
  PROVE  Elsewhere(p)
<1> DEFINE create == [pc |-> "create", target |-> v + 1, left |-> Migrations[v + 1]]
<1>1. create.pc # "visit"
  OBVIOUS
<1>2. Becomes(p, create) \/ Becomes(p, Idle)
  BY DEF Migrate
<1> HIDE DEF create
<1> QED
  BY <1>1, <1>2, IdleIsElsewhere DEF Elsewhere

LEMMA MigratingVisits ==
  ASSUME VisitInv, NEW p \in Processes, Migrating(p)
  PROVE  VisitInv'
<1>1. UNCHANGED <<history, visits, crossed>>
  BY DEF Migrating, Open, ReadVersion, CreateTable, DeleteVersion, InsertVersion, ghosts
<1>2. Elsewhere(p)
  <2>1. CASE Open(p)
    <3>1. [pc |-> "check"].pc # "visit" /\ Becomes(p, [pc |-> "check"])
      BY <2>1 DEF Open
    <3> QED
      BY <3>1 DEF Elsewhere
  <2>2. CASE ReadVersion(p) \/ InsertVersion(p)
    BY <2>2, MigrateElsewhere DEF ReadVersion, InsertVersion
  <2>3. CASE CreateTable(p)
    <3> DEFINE delete == [pc |-> "delete", target |-> proc[p].target]
               create == [pc |-> "create", target |-> proc[p].target,
                          left |-> Tail(proc[p].left)]
    <3>1. delete.pc # "visit" /\ create.pc # "visit"
      OBVIOUS
    <3>2. Becomes(p, delete) \/ Becomes(p, create)
      BY <2>3 DEF CreateTable
    <3> HIDE DEF delete, create
    <3> QED
      BY <3>1, <3>2 DEF Elsewhere
  <2>4. CASE DeleteVersion(p)
    <3> DEFINE s == [proc[p] EXCEPT !.pc = "insert"]
    <3>1. Becomes(p, s)
      BY <2>4 DEF DeleteVersion
    <3>2. s.pc # "visit"
      BY <2>4 DEF DeleteVersion
    <3> HIDE DEF s
    <3> QED
      BY <3>1, <3>2 DEF Elsewhere
  <2> QED
    BY <2>1, <2>2, <2>3, <2>4 DEF Migrating
<1> QED
  BY <1>1, <1>2, ElsewhereKeeps

LEMMA KeepingVisits ==
  ASSUME VisitInv, NEW p \in Processes, KeepingSession(p)
  PROVE  VisitInv'
<1>1. UNCHANGED <<history, visits>>
  BY DEF KeepingSession, SaveSession, SaveTab, SaveActive, Commit, LoadSession, Load,
     ClearSession, ClearIndex, ghosts
<1>2. "visit" \in crossed' <=> "visit" \in crossed
  BY DEF KeepingSession, SaveSession, SaveTab, SaveActive, Commit, LoadSession, Load,
     ClearSession, ClearIndex, ghosts, Crossing
<1>3. Elsewhere(p)
  <2>1. ASSUME NEW x \in Snapshots, SaveSession(p, x)
        PROVE  Elsewhere(p)
    <3> DEFINE s == [pc |-> "save", snapshot |-> x]
    <3>1. s.pc # "visit" /\ Becomes(p, s)
      BY <2>1 DEF SaveSession
    <3> HIDE DEF s
    <3> QED
      BY <3>1 DEF Elsewhere
  <2>2. CASE SaveTab(p)
    <3>1. proc[p].pc # "visit" /\ Becomes(p, proc[p])
      BY <2>2 DEF SaveTab, Becomes, VisitInv
    <3> QED
      BY <3>1 DEF Elsewhere
  <2>3. CASE SaveActive(p)
    <3> DEFINE s == [proc[p] EXCEPT !.pc = "commit"]
    <3>1. Becomes(p, s)
      BY <2>3 DEF SaveActive
    <3>2. s.pc # "visit"
      BY <2>3 DEF SaveActive
    <3> HIDE DEF s
    <3> QED
      BY <3>1, <3>2 DEF Elsewhere
  <2>4. CASE Commit(p) \/ Load(p) \/ ClearIndex(p)
    BY <2>4, IdleIsElsewhere DEF Commit, Load, ClearIndex
  <2>5. CASE LoadSession(p)
    <3> DEFINE s == [pc |-> "load", tabs |-> session.tabs, torn |-> FALSE]
    <3>1. s.pc # "visit" /\ (Becomes(p, s) \/ Becomes(p, Idle))
      BY <2>5 DEF LoadSession
    <3> HIDE DEF s
    <3> QED
      BY <3>1, IdleIsElsewhere DEF Elsewhere
  <2>6. CASE ClearSession(p)
    <3>1. [pc |-> "clear"].pc # "visit" /\ BecomesTearing(p, [pc |-> "clear"])
      BY <2>6 DEF ClearSession
    <3> QED
      BY <3>1 DEF Elsewhere
  <2> QED
    BY <2>1, <2>2, <2>3, <2>4, <2>5, <2>6 DEF KeepingSession
<1> QED
  BY <1>1, <1>2, <1>3, ElsewhereKeeps

LEMMA RecordVisitKeeps ==
  ASSUME VisitInv, NEW p \in Processes, NEW u \in Docs, RecordVisit(p, u)
  PROVE  VisitInv'
<1>1. PICK row \in RowsOf(u) \cup {0} : Becomes(p, [pc |-> "visit", url |-> u, row |-> row])
  BY DEF RecordVisit
<1> DEFINE s == [pc |-> "visit", url |-> u, row |-> row]
<1>2. s.row = row /\ s.url = u /\ Becomes(p, s)
  BY <1>1
<1>3. row \in Nat /\ (row # 0 => row \in DOMAIN history /\ history[row].url = u)
  BY DEF RowsOf, VisitInv, Table
<1>4. VisitAt(s)
  BY <1>3 DEF VisitAt
<1> HIDE DEF s
<1> QED
  BY <1>2, <1>4, VisitKept DEF RecordVisit, ghosts

\* The id of a new row is the next one: rows are only deleted all at once.
LEMMA NextId ==
  ASSUME NEW n \in Nat
  PROVE  Max((1..n) \cup {0}) = n
<1> DEFINE S == (1..n) \cup {0}
<1>1. n \in S /\ \A y \in S : n >= y
  OBVIOUS
<1>2. \A x \in S : (\A y \in S : x >= y) => x = n
  OBVIOUS
<1> HIDE DEF S
<1>3. Max(S) = n
  BY <1>1, <1>2 DEF Max
<1> QED
  BY <1>3 DEF S

LEMMA CountVisitKeeps ==
  ASSUME VisitInv, NEW p \in Processes, CountVisit(p)
  PROVE  VisitInv'
<1> DEFINE u == proc[p].url
           row == proc[p].row
<1>1. /\ proc[p].pc = "visit"
      /\ history' = IF row = 0 THEN Inserted(u) ELSE Incremented(row)
      /\ visits' = [visits EXCEPT ![u] = @ + 1]
      /\ proc' = [proc EXCEPT ![p] = Idle] /\ crossed' = crossed
  BY DEF CountVisit, Becomes
<1>2. u \in Docs /\ row \in Nat /\ visits \in [Docs -> Nat]
  BY <1>1 DEF VisitInv, VisitAt
<1>3. PICK n \in Nat : Table(history, n)
  BY DEF VisitInv
<1>4. visits' \in [Docs -> Nat]
  BY <1>1, <1>2
<1>5. \A q \in Processes : q # p => proc'[q] = proc[q]
  BY <1>1
<1>6. proc' = [q \in Processes |-> proc'[q]] /\ proc'[p] = Idle
  BY <1>1 DEF VisitInv
<1>7. /\ \E m \in Nat : Table(history', m)
      /\ "visit" \notin crossed => Counts(history', visits')
      /\ \A i \in DOMAIN history : i \in DOMAIN history' /\ history'[i].url = history[i].url
  <2>1. CASE row = 0
    <3>1. history' = [i \in 1..(n + 1) |->
                        IF i = n + 1 THEN [url |-> u, count |-> 1] ELSE history[i]]
      <4>1. DOMAIN history = 1..n
        BY <1>3 DEF Table
      <4>2. Inserted(u) = [i \in (1..n) \cup {n + 1} |->
                             IF i = n + 1 THEN [url |-> u, count |-> 1] ELSE history[i]]
        BY <4>1, NextId DEF Inserted
      <4>3. (1..n) \cup {n + 1} = 1..(n + 1)
        OBVIOUS
      <4> QED
        BY <1>1, <2>1, <4>2, <4>3
    <3> HIDE DEF u, row
    <3>2. /\ Table(history', n + 1)
          /\ Counts(history, visits) => Counts(history', visits')
      <4>1. /\ DOMAIN history' = 1..(n + 1)
            /\ \A i \in 1..n : history'[i] = history[i]
            /\ history'[n + 1] = [url |-> u, count |-> 1]
        BY <3>1
      <4> QED
        BY <1>1, <1>2, <1>3, <4>1, NewRow
    <3>3. \A i \in 1..n : i \in 1..(n + 1) /\ history'[i] = history[i]
      BY <3>1
    <3> QED
      BY <1>3, <3>2, <3>3 DEF Table, VisitInv
  <2>2. CASE row # 0
    <3>1. history' = [i \in DOMAIN history |->
                        IF i = row THEN [history[i] EXCEPT !.count = @ + 1] ELSE history[i]]
      BY <1>1, <2>2 DEF Incremented
    <3>2. "visit" \notin crossed => row \in DOMAIN history /\ history[row].url = u
      BY <1>1, <2>2 DEF VisitInv, VisitAt
    <3>3. \A i \in DOMAIN history : i \in DOMAIN history' /\ history'[i].url = history[i].url
      <4>1. \A i \in DOMAIN history : history[i] \in [url : Docs, count : Nat]
        BY <1>3 DEF Table
      <4> HIDE DEF row
      <4> QED
        BY <3>1, <4>1
    <3> HIDE DEF u, row
    <3>4. /\ Table(history', n)
          /\ "visit" \notin crossed /\ Counts(history, visits) => Counts(history', visits')
      <4>1. /\ Table(history', n)
            /\ Counts(history, visits) /\ row \in DOMAIN history /\ history[row].url = u
                 => Counts(history', [visits EXCEPT ![u] = @ + 1])
        <5>1. DOMAIN history' = 1..n /\ CountedUp(history', history, n, row)
          BY <1>3, <3>1, CountedRow
        <5> QED
          BY <1>2, <1>3, <5>1, SameRow
      <4>2. visits' = [visits EXCEPT ![u] = @ + 1]
        BY <1>1 DEF u
      <4> QED
        BY <3>2, <4>1, <4>2
    <3> QED
      BY <3>3, <3>4 DEF VisitInv
  <2> QED
    BY <2>1, <2>2
<1>8. ASSUME NEW q \in Processes
      PROVE  VisitAt(proc[q])'
  <2>1. CASE q = p
    BY <1>6, <2>1 DEF VisitAt, Idle
  <2>2. CASE q # p
    <3>1. VisitAt(proc[q]) /\ proc'[q] = proc[q]
      BY <1>5, <2>2 DEF VisitInv
    <3> QED
      BY <1>1, <1>7, <3>1 DEF VisitAt
  <2> QED
    BY <2>1, <2>2
<1> QED
  BY <1>1, <1>4, <1>6, <1>7, <1>8 DEF VisitInv

LEMMA ClearHistoryKeeps ==
  ASSUME VisitInv, NEW p \in Processes, ClearHistory(p)
  PROVE  VisitInv'
<1>1. /\ history' = <<>> /\ visits' = [u \in Docs |-> 0] /\ proc' = proc
      /\ "visit" \notin crossed' => \A q \in Processes : proc[q].pc # "visit"
  BY DEF ClearHistory, Crossing
<1>2. \A q \in Processes : VisitAt(proc[q])'
  BY <1>1 DEF VisitInv, VisitAt
<1> QED
  BY <1>1, <1>2, NoRows DEF VisitInv

LEMMA VisitNext ==
  ASSUME VisitInv, [Next]_vars
  PROVE  VisitInv'
<1>1. CASE UNCHANGED vars
  BY <1>1 DEF vars, VisitInv, VisitAt
<1>2. ASSUME NEW p \in Processes, Visiting(p)
      PROVE  VisitInv'
  BY <1>2, RecordVisitKeeps, CountVisitKeeps, ClearHistoryKeeps DEF Visiting
<1>3. ASSUME NEW p \in Processes, Fails(p) \/ Crash(p)
      PROVE  VisitInv'
  <2>1. Becomes(p, Idle) \/ Becomes(p, Down)
    BY <1>3 DEF Fails, Crash
  <2>2. UNCHANGED <<history, visits, crossed>>
    BY <1>3 DEF Fails, Crash, ghosts
  <2> QED
    BY <2>1, <2>2, IdleIsElsewhere, ElsewhereKeeps
<1> QED
  BY <1>1, <1>2, <1>3, MigratingVisits, KeepingVisits DEF Next

\* No visit is lost or counted twice (VisitsCounted), however the visits of any
\* number of browsers interleave and fail, unless the history is cleared in the
\* middle of one.
THEOREM NoVisitLost == Spec => []VisitsCounted
  BY VisitInit, VisitNext, InvVisits, PTL DEF Spec
=============================================================================
