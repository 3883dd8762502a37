----------------------------- MODULE ProfileStore -----------------------------
(***************************************************************************)
(* The profile database (crates/mocha_storage/src/lib.rs, migrations.rs,   *)
(* session.rs, history.rs), statement by statement.  Nothing keeps two     *)
(* browsers from opening one profile, and either may be killed between any *)
(* two statements.                                                         *)
(*                                                                         *)
(* What SQLite gives is taken as given: a statement happens at once or     *)
(* fails; one that writes waits while another process is in a transaction  *)
(* that wrote; a transaction is seen by others when it commits, and not at *)
(* all when it does not.                                                   *)
(***************************************************************************)
EXTENDS Integers, Sequences, FiniteSetsExt

CONSTANTS
  Processes,  \* browsers that use the profile
  Docs,       \* URLs, in their normalized form
  Snapshots,  \* the sessions that are saved
  Nobody, NoSession,
  MaxVisits   \* bound: after how many visits no more are begun, until a clear

VARIABLES
  tables,    \* the tables there are
  versions,  \* the rows of schema_version
  history,   \* rows of the table history, by id
  session,   \* session_tabs and, in session_meta, the active index
  writer,    \* whose transaction it is that has written
  work,      \* the session as that transaction sees it
  proc,      \* what each browser is doing
  stored,    \* history variable: the session last saved, or cleared
  visits,    \* history variable: visits recorded since the history was cleared
  crossed    \* history variable: what another browser came in the middle of:
             \* a visit (by clearing the history), a clear (by saving a session)

vars == <<tables, versions, history, session, writer, work, proc, stored, visits, crossed>>
ghosts == <<stored, visits, crossed>>

Migrations ==
  << <<"history", "bookmarks", "settings", "downloads", "session_tabs", "session_meta">>,
     <<"cookies", "local_storage">> >>

TablesOf(v) == {Migrations[v][i] : i \in DOMAIN Migrations[v]}

LatestVersion == Len(Migrations)

ASSUME ProfileAssumption ==
  /\ Nobody \notin Processes /\ NoSession \notin Snapshots
  /\ \A s \in Snapshots : s.tabs \in Seq(Docs) /\ s.active \in DOMAIN s.tabs
  /\ MaxVisits \in Nat

Down == [pc |-> "down"]
Idle == [pc |-> "open"]

Becomes(p, state) == proc' = [proc EXCEPT ![p] = state]

\* What is crossed after a step that every process in the middle of `pc' is crossed by.
Crossing(pc) ==
  crossed' = IF \E q \in Processes : proc[q].pc = pc THEN crossed \cup {pc} ELSE crossed \ {pc}

\* p goes on, and whoever is between the two SELECTs of a load reads a mixture.
BecomesTearing(p, state) ==
  proc' = [q \in Processes |->
             IF q = p THEN state
             ELSE IF proc[q].pc = "load" THEN [proc[q] EXCEPT !.torn = TRUE] ELSE proc[q]]

Writes(p) == writer \in {Nobody, p}

-----------------------------------------------------------------------------
(* Opening (Profile::open, migrate).                                        *)

Opening == {"check", "create", "delete", "insert"}

\* The loop of migrate, the database being at version v.
Migrate(p, v) ==
  Becomes(p, IF v < LatestVersion
             THEN [pc |-> "create", target |-> v + 1, left |-> Migrations[v + 1]]
             ELSE Idle)

Open(p) ==
  /\ proc[p] = Down /\ Writes(p)
  /\ tables' = tables \cup {"schema_version"}
  /\ Becomes(p, [pc |-> "check"])
  /\ UNCHANGED <<versions, history, session, writer, work, ghosts>>

\* COALESCE(MAX(version), 0)
ReadVersion(p) ==
  /\ proc[p].pc = "check"
  /\ \/ versions = {} /\ Migrate(p, 0)
     \/ \E v \in versions : (\A w \in versions : w <= v) /\ Migrate(p, v)
  /\ UNCHANGED <<tables, versions, history, session, writer, work, ghosts>>

\* Mutant of CreateTable: the version is set after the first of the tables.
CreateFirstTable(p) ==
  /\ proc[p].pc = "create" /\ Writes(p)
  /\ tables' = tables \cup {Head(proc[p].left)}
  /\ Becomes(p, [pc |-> "delete", target |-> proc[p].target])
  /\ UNCHANGED <<versions, history, session, writer, work, ghosts>>

\* One statement of the batch of a migration.
CreateTable(p) ==
  /\ proc[p].pc = "create" /\ Writes(p)
  /\ tables' = tables \cup {Head(proc[p].left)}
  /\ Becomes(p, IF Tail(proc[p].left) = <<>>
                THEN [pc |-> "delete", target |-> proc[p].target]
                ELSE [pc |-> "create", target |-> proc[p].target, left |-> Tail(proc[p].left)])
  /\ UNCHANGED <<versions, history, session, writer, work, ghosts>>

DeleteVersion(p) ==
  /\ proc[p].pc = "delete" /\ Writes(p)
  /\ versions' = {}
  /\ Becomes(p, [proc[p] EXCEPT !.pc = "insert"])
  /\ UNCHANGED <<tables, history, session, writer, work, ghosts>>

InsertVersion(p) ==
  /\ proc[p].pc = "insert" /\ Writes(p)
  /\ versions' = versions \cup {proc[p].target}
  /\ Migrate(p, proc[p].target)
  /\ UNCHANGED <<tables, history, session, writer, work, ghosts>>

-----------------------------------------------------------------------------
(* Visits (HistoryStore).                                                   *)

RowsOf(u) == {i \in DOMAIN history : history[i].url = u}

\* The SELECT; an error in it counts as no row.
RecordVisit(p, u) ==
  /\ proc[p] = Idle /\ MapThenSumSet(LAMBDA d : visits[d], Docs) < MaxVisits
  /\ \E row \in RowsOf(u) \cup {0} : Becomes(p, [pc |-> "visit", url |-> u, row |-> row])
  /\ UNCHANGED <<tables, versions, history, session, writer, work, ghosts>>

\* Mutant of Incremented: no WHERE clause.
IncrementedAll(row) == [i \in DOMAIN history |-> [history[i] EXCEPT !.count = @ + 1]]
Incremented(row) ==
  [i \in DOMAIN history |->
     IF i = row THEN [history[i] EXCEPT !.count = @ + 1] ELSE history[i]]

\* SQLite gives a new row the id after the largest in use.
Inserted(u) ==
  LET new == Max(DOMAIN history \cup {0}) + 1
  IN  [i \in DOMAIN history \cup {new} |->
         IF i = new THEN [url |-> u, count |-> 1] ELSE history[i]]

CountVisit(p) ==
  /\ proc[p].pc = "visit" /\ Writes(p)
  /\ history' = IF proc[p].row = 0 THEN Inserted(proc[p].url) ELSE Incremented(proc[p].row)
  /\ visits' = [visits EXCEPT ![proc[p].url] = @ + 1]
  /\ Becomes(p, Idle)
  /\ UNCHANGED <<tables, versions, session, writer, work, stored, crossed>>

ClearHistory(p) ==
  /\ proc[p] = Idle /\ Writes(p)
  /\ history' = <<>>
  /\ visits' = [u \in Docs |-> 0]
  /\ Crossing("visit")
  /\ UNCHANGED <<tables, versions, session, writer, work, proc, stored>>

-----------------------------------------------------------------------------
(* The session (SessionStore).                                              *)

\* Mutant of Save: no transaction.
SaveAtOnce(s) == work' = s /\ session' = s

\* A statement in the transaction.
Save(s) == work' = s /\ UNCHANGED session

SaveSession(p, s) ==
  /\ proc[p] = Idle /\ writer = Nobody
  /\ writer' = p
  /\ Save([session EXCEPT !.tabs = <<>>])
  /\ Becomes(p, [pc |-> "save", snapshot |-> s])
  /\ UNCHANGED <<tables, versions, history, ghosts>>

SaveTab(p) ==
  /\ proc[p].pc = "save"
  /\ LET n == Len(work.tabs)  s == proc[p].snapshot IN
     /\ n < Len(s.tabs)
     /\ Save([work EXCEPT !.tabs = Append(@, s.tabs[n + 1])])
  /\ UNCHANGED <<tables, versions, history, writer, proc, ghosts>>

SaveActive(p) ==
  /\ proc[p].pc = "save" /\ Len(work.tabs) = Len(proc[p].snapshot.tabs)
  /\ Save([work EXCEPT !.active = proc[p].snapshot.active])
  /\ Becomes(p, [proc[p] EXCEPT !.pc = "commit"])
  /\ UNCHANGED <<tables, versions, history, writer, ghosts>>

Commit(p) ==
  /\ proc[p].pc = "commit"
  /\ session' = work /\ stored' = proc[p].snapshot
  /\ writer' = Nobody /\ Crossing("clear")
  /\ BecomesTearing(p, Idle)
  /\ UNCHANGED <<tables, versions, history, work, visits>>

\* The first of the two SELECTs of load_session; no tabs is no session.
LoadSession(p) ==
  /\ proc[p] = Idle
  /\ Becomes(p, IF session.tabs = <<>> THEN Idle
                ELSE [pc |-> "load", tabs |-> session.tabs, torn |-> FALSE])
  /\ UNCHANGED <<tables, versions, history, session, writer, work, ghosts>>

\* Mutant of Loaded: the index is not brought into range.
LoadedAsRead(tabs) == [tabs |-> tabs, active |-> IF session.active = 0 THEN 1 ELSE session.active]

\* With the second: a row that is missing (0) counts as the first tab, an index
\* beyond the tabs as the last.
Loaded(tabs) ==
  [tabs |-> tabs,
   active |-> IF session.active = 0 THEN 1
              ELSE IF session.active > Len(tabs) THEN Len(tabs) ELSE session.active]

Load(p) ==
  /\ proc[p].pc = "load"
  /\ Becomes(p, Idle)
  /\ UNCHANGED <<tables, versions, history, session, writer, work, ghosts>>

\* clear_session: two statements, each on its own.
ClearSession(p) ==
  /\ proc[p] = Idle /\ Writes(p)
  /\ session' = [session EXCEPT !.tabs = <<>>] /\ stored' = NoSession
  /\ BecomesTearing(p, [pc |-> "clear"])
  /\ UNCHANGED <<tables, versions, history, writer, work, visits, crossed>>

ClearIndex(p) ==
  /\ proc[p].pc = "clear" /\ Writes(p)
  /\ session' = [session EXCEPT !.active = 0]
  /\ BecomesTearing(p, Idle)
  /\ UNCHANGED <<tables, versions, history, writer, work, ghosts>>

-----------------------------------------------------------------------------
(* What can go wrong.                                                       *)

Released(p) == writer' = IF writer = p THEN Nobody ELSE writer

\* A statement fails: a transaction is rolled back, the operation gives up; a
\* browser that cannot open its profile goes without.
Fails(p) ==
  /\ proc[p].pc \notin {"down", "open"}
  /\ Becomes(p, IF proc[p].pc \in Opening THEN Down ELSE Idle)
  /\ Released(p)
  /\ UNCHANGED <<tables, versions, history, session, work, ghosts>>

\* The browser quits or is killed.
Crash(p) ==
  /\ proc[p].pc # "down"
  /\ Becomes(p, Down)
  /\ Released(p)
  /\ UNCHANGED <<tables, versions, history, session, work, ghosts>>

\* No profile yet, or one that a build with the first migration only has made.
Init ==
  /\ \/ tables = {} /\ versions = {}
     \/ tables = {"schema_version"} \cup TablesOf(1) /\ versions = {1}
  /\ history = <<>>
  /\ session = [tabs |-> <<>>, active |-> 0] /\ work = session
  /\ writer = Nobody
  /\ proc = [p \in Processes |-> Down]
  /\ stored = NoSession /\ visits = [u \in Docs |-> 0] /\ crossed = {}

Migrating(p) ==
  Open(p) \/ ReadVersion(p) \/ CreateTable(p) \/ DeleteVersion(p) \/ InsertVersion(p)

Visiting(p) == (\E u \in Docs : RecordVisit(p, u)) \/ CountVisit(p) \/ ClearHistory(p)

KeepingSession(p) ==
  \/ \E s \in Snapshots : SaveSession(p, s)
  \/ SaveTab(p) \/ SaveActive(p) \/ Commit(p)
  \/ LoadSession(p) \/ Load(p) \/ ClearSession(p) \/ ClearIndex(p)

Next ==
  \E p \in Processes :
    Migrating(p) \/ Visiting(p) \/ KeepingSession(p) \/ Fails(p) \/ Crash(p)

Spec == Init /\ [][Next]_vars

-----------------------------------------------------------------------------
(* Properties.                                                              *)

\* Whatever was killed or failed, in whichever process, a browser that has
\* opened its profile finds every table; and a version that is written down
\* tells the truth about the tables of its migration and those before.
SchemaSound ==
  /\ \A v \in versions, w \in 1..LatestVersion : w <= v => TablesOf(w) \subseteq tables
  /\ \A p \in Processes : proc[p].pc \notin {"down"} \cup Opening
       => \A w \in 1..LatestVersion : TablesOf(w) \subseteq tables

\* No visit is lost or counted twice, however the visits of two browsers
\* interleave and fail, even when they have made two rows for one URL; only
\* clearing the history while a visit is being recorded may lose it or count
\* it for the URL that has the row's id by then.
VisitsCounted ==
  "visit" \notin crossed =>
    \A u \in Docs : MapThenSumSet(LAMBDA i : history[i].count, RowsOf(u)) = visits[u]

\* A launch finds the session last saved, whole, or none when there is none,
\* whatever was killed half way through saving or clearing; when another
\* browser saves between the two SELECTs it still names one of its tabs.  Saving
\* between the two statements of a clear may lose the index, and no more.
LoadsWhatWasSaved ==
  /\ (session.tabs = <<>>) = (stored = NoSession)
  /\ \A p \in Processes :
       proc[p].pc = "load" =>
         LET s == Loaded(proc[p].tabs)
         IN  /\ s.active \in DOMAIN s.tabs
             /\ ~proc[p].torn =>
                  /\ s.tabs = stored.tabs
                  /\ "clear" \notin crossed => s.active = stored.active
=============================================================================
