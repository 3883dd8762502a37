--------------------------- MODULE RendererProcess ---------------------------
(***************************************************************************)
(* The renderer child process and its browser side (crates/mocha_process), *)
(* over the frames of crates/mocha_ipc.                                    *)
(*                                                                         *)
(* The two sides share two pipes, written and read piece by piece: a frame *)
(* of n pieces ends with one more, its newline.  A pipe holds so much, so  *)
(* a writer may block; when the other end is closed a write fails and,     *)
(* once the pipe is empty, a read is at the end of the file.  A process    *)
(* may die at any moment, between any two pieces.                          *)
(*                                                                         *)
(* A document stands for whatever is rendered from it; RenderHtml covers   *)
(* RenderPreparedDocument, which takes the same path.  Rendering ends.     *)
(* Versions, field syntax and the text of errors are left out.             *)
(***************************************************************************)
EXTENDS Integers, Sequences, FiniteSets

CONSTANTS
  Docs,           \* what a render call is given
  Length,         \* Length[d]: pieces of the frame that carries d
  PageLengths,    \* the pieces a rendered page may take
  NoDoc,
  MaxFrame,       \* MAX_FRAME_SIZE
  Capacity,       \* pieces a pipe holds
  MaxId,          \* bound: calls with an id per renderer
  MaxSpawns       \* bound: renderers spawned

ASSUME ProcessAssumption ==
  /\ NoDoc \notin Docs
  /\ Length \in [Docs -> Nat \ {0}]
  /\ PageLengths \subseteq Nat \ {0}
  /\ MaxFrame \in Nat /\ MaxId \in Nat
  /\ Capacity \in Nat \ {0} /\ MaxSpawns \in Nat \ {0}

Spawned == 1..MaxSpawns

VARIABLES
  browser,      \* the calling thread: where it is in which call, and what it
                \* has written and read of the current frame
  current,      \* the renderer the manager holds
  next_id,
  policy,       \* history: the last policy a call has put in force
  outcome,      \* history: how the last call ended
  renderer,     \* renderer[p]: its status, its policy flag, what it has read of
                \* a request and written of a reply
  stdin, stdout \* the pipes of each renderer

vars == <<browser, current, next_id, policy, outcome, renderer, stdin, stdout>>

-----------------------------------------------------------------------------
(* Messages and frames.                                                     *)

RenderOps == {"RenderDocument", "RenderHtml"}
WithId == RenderOps \cup {"Ping"}
Answered == WithId \cup {"Shutdown"}

\* The calls of RendererProcess.
Calls ==
  {[op |-> o, doc |-> NoDoc, allow |-> FALSE] : o \in {"Ping", "Shutdown", "CrashForTest"}}
  \cup [op : RenderOps, doc : Docs, allow : {FALSE}]
  \cup [op : {"SetSandboxPolicy"}, doc : {NoDoc}, allow : BOOLEAN]

NoCall == [op |-> "none", doc |-> NoDoc, allow |-> FALSE]

NoOutcome == [call |-> NoCall, result |-> "none"]

\* A message: the call or the reply it is, and the pieces its fields take.
Message(kind, id, c, len) == [kind |-> kind, id |-> id, call |-> c, len |-> len]

NoMessage == Message("none", 0, NoCall, 0)

RequestFor(c, id) ==
  Message(c.op, id, c, IF c.op \in RenderOps THEN Length[c.doc] ELSE 1)

Piece(m, n) == [msg |-> m, last |-> n = m.len + 1]

\* write_frame compares the frame without its newline, read_frame with it.
TooLongToWrite(m) == m.len > MaxFrame
TooLongToRead(m) == m.len + 1 > MaxFrame

\* One more piece of m after n of them, if the pipe has room.
Put(pipe, m, n) == Append(pipe, Piece(m, n + 1))

Free(pipe) == Len(pipe) < Capacity

\* A frame being read: its message and how many of its pieces have come.
Frame(m, n) == [msg |-> m, got |-> n]
NoFrame == Frame(NoMessage, 0)

\* A renderer process: a fresh one allows direct loads.
Gone(status) ==
  [status |-> status, allow_direct_document_loads |-> FALSE, frame |-> NoFrame,
   reply |-> NoMessage, sent |-> 0]

Born == [Gone("running") EXCEPT !.allow_direct_document_loads = TRUE]

-----------------------------------------------------------------------------
(* The browser side.                                                        *)

Idle ==
  [pc |-> "idle", call |-> NoCall, id |-> 0, sent |-> 0, frame |-> NoFrame, dropping |-> 0]

Open == browser.pc \notin {"closed", "dead"}
Holds(p) == Open /\ p \in {current, browser.dropping}
Runs(p) == renderer[p].status = "running"

Request == RequestFor(browser.call, browser.id)

\* The call returns.
Return(result) ==
  /\ browser' = Idle
  /\ outcome' = [call |-> browser.call, result |-> result]

\* ping, render_document, render_html, render_prepared_document,
\* apply_sandbox_policy, shutdown and crash_for_test, up to the first write.
Call(c) ==
  /\ browser = Idle
  /\ c.op \in WithId => next_id <= MaxId
  /\ browser' = [Idle EXCEPT !.pc = "sending", !.call = c,
                             !.id = IF c.op \in WithId THEN next_id ELSE 0]
  /\ next_id' = IF c.op \in WithId THEN next_id + 1 ELSE next_id
  /\ UNCHANGED <<current, policy, outcome, renderer, stdin, stdout>>

\* write_frame: the frame is too large, the renderer is gone, or one more piece.
SendFails ==
  /\ browser.pc = "sending"
  /\ TooLongToWrite(Request) \/ ~Runs(current)
  /\ Return("error")
  /\ UNCHANGED <<current, next_id, policy, renderer, stdin, stdout>>

Sending ==
  /\ browser.pc = "sending"
  /\ ~TooLongToWrite(Request) /\ Runs(current) /\ Free(stdin[current])
  /\ stdin' = [stdin EXCEPT ![current] = Put(@, Request, browser.sent)]
  /\ UNCHANGED <<current, next_id, renderer, stdout>>

SendPiece ==
  /\ Sending
  /\ browser.sent < Request.len
  /\ browser' = [browser EXCEPT !.sent = @ + 1]
  /\ UNCHANGED <<policy, outcome>>

\* The newline: now wait for the reply, if there is one.
SendLast ==
  /\ Sending
  /\ browser.sent = Request.len
  /\ IF browser.call.op \in Answered
       THEN /\ browser' = [browser EXCEPT !.pc = "receiving", !.sent = 0]
            /\ UNCHANGED outcome
       ELSE Return("ok")
  /\ policy' = IF browser.call.op = "SetSandboxPolicy" THEN browser.call.allow ELSE policy

\* ping, expect_rendered and shutdown, each with the reply it takes.
Expected(m) ==
  CASE browser.call.op = "Ping" -> m.kind = "Pong" /\ m.id = browser.id
    [] browser.call.op = "Shutdown" -> m.kind = "Goodbye"
    [] OTHER -> m.kind = "Rendered" /\ m.id = browser.id

Accept(m, result) ==
  IF ~Expected(m) THEN Return("error")
  ELSE IF m.kind = "Goodbye"
    THEN browser' = [browser EXCEPT !.pc = "waiting", !.frame = NoFrame] /\ UNCHANGED outcome
    ELSE Return(result)

\* Mutant of ReceivePiece: the read stops at the limit, in the middle of a line.
ReceiveAtMost ==
  /\ browser.pc = "receiving" /\ stdout[current] # <<>>
  /\ LET piece == Head(stdout[current])
         m == piece.msg
     IN  IF browser.frame.got + 1 = MaxFrame /\ ~piece.last THEN Return("error")
         ELSE IF piece.last THEN Accept(m, "ok")
         ELSE /\ browser' = [browser EXCEPT !.frame = Frame(m, @.got + 1)]
              /\ UNCHANGED outcome
  /\ stdout' = [stdout EXCEPT ![current] = Tail(@)]
  /\ UNCHANGED <<current, next_id, policy, renderer, stdin>>

ReceivePiece ==
  /\ browser.pc = "receiving" /\ stdout[current] # <<>>
  /\ LET piece == Head(stdout[current])
         m == piece.msg
     IN  IF ~piece.last
           THEN /\ browser' = [browser EXCEPT !.frame = Frame(m, @.got + 1)]
                /\ UNCHANGED outcome
         ELSE IF TooLongToRead(m) THEN Return("error")
         ELSE Accept(m, "ok")
  /\ stdout' = [stdout EXCEPT ![current] = Tail(@)]
  /\ UNCHANGED <<current, next_id, policy, renderer, stdin>>

\* The end of the file.  read_frame does not tell whether the line was ended:
\* what came of it may decode, and then passes for the whole message.
ReceiveEof ==
  /\ browser.pc = "receiving" /\ stdout[current] = <<>> /\ ~Runs(current)
  /\ LET m == browser.frame.msg
     IN  \/ Return("error")
         \/ /\ browser.frame.got = m.len /\ m.len > 0
            /\ Accept(m, "ok")
         \/ /\ browser.frame.got \in 1..(m.len - 1) /\ m.kind = "Rendered"
            /\ Accept(m, "shortened")
  /\ UNCHANGED <<current, next_id, policy, renderer, stdin, stdout>>

\* The process is waited for, and gone.
Reap(p) == renderer' = [renderer EXCEPT ![p] = Gone("reaped")]

\* shutdown: child.wait() after the Goodbye.
WaitExit ==
  /\ browser.pc = "waiting" /\ ~Runs(current)
  /\ Reap(current)
  /\ Return("ok")
  /\ UNCHANGED <<current, next_id, policy, stdin, stdout>>

\* is_alive reaps a process that has exited.
IsAlive ==
  /\ browser = Idle /\ renderer[current].status = "exited"
  /\ Reap(current)
  /\ UNCHANGED <<browser, current, next_id, policy, outcome, stdin, stdout>>

-----------------------------------------------------------------------------
(* Replacing and giving up a renderer.                                      *)

\* respawn: the new process is spawned before the old one is dropped, and
\* nobody tells it the policy.
Respawn ==
  /\ browser = Idle
  /\ \E p \in Spawned :
       /\ renderer[p].status = "unborn" /\ \A q \in 1..(p - 1) : renderer[q].status # "unborn"
       /\ renderer' = [renderer EXCEPT ![p] = Born]
       /\ current' = p
  /\ browser' = [Idle EXCEPT !.pc = "dropping", !.dropping = current]
  /\ next_id' = 1 /\ policy' = TRUE
  /\ UNCHANGED <<outcome, stdin, stdout>>

\* The manager goes out of scope.
Close ==
  /\ browser = Idle
  /\ browser' = [Idle EXCEPT !.pc = "closing", !.dropping = current]
  /\ UNCHANGED <<current, next_id, policy, outcome, renderer, stdin, stdout>>

\* drop: a process that still runs is told to shut down, which may block, then
\* killed and waited for whatever came of the message.
Farewell == Message("Shutdown", 0, NoCall, 1)

Dropping == browser.pc \in {"dropping", "closing"}

DropPiece ==
  /\ Dropping
  /\ LET p == browser.dropping
     IN  /\ Runs(p) /\ browser.sent <= Farewell.len /\ Free(stdin[p])
         /\ stdin' = [stdin EXCEPT ![p] = Put(@, Farewell, browser.sent)]
  /\ browser' = [browser EXCEPT !.sent = @ + 1]
  /\ UNCHANGED <<current, next_id, policy, outcome, renderer, stdout>>

\* Mutant of Kill: the process is not waited for.
KillOnly ==
  /\ Dropping
  /\ LET p == browser.dropping
     IN  /\ Runs(p) => browser.sent > Farewell.len
         /\ renderer' = [renderer EXCEPT ![p] = Gone("exited")]
         /\ stdin' = [stdin EXCEPT ![p] = <<>>]
         /\ stdout' = [stdout EXCEPT ![p] = <<>>]
  /\ browser' = IF browser.pc = "closing" THEN [Idle EXCEPT !.pc = "closed"] ELSE Idle
  /\ UNCHANGED <<current, next_id, policy, outcome>>

Kill ==
  /\ Dropping
  /\ LET p == browser.dropping
     IN  /\ Runs(p) => browser.sent > Farewell.len
         /\ Reap(p)
         /\ stdin' = [stdin EXCEPT ![p] = <<>>]
         /\ stdout' = [stdout EXCEPT ![p] = <<>>]
  /\ browser' = IF browser.pc = "closing" THEN [Idle EXCEPT !.pc = "closed"] ELSE Idle
  /\ UNCHANGED <<current, next_id, policy, outcome>>

\* The browser process dies: nothing is dropped, the pipes close.
BrowserDies ==
  /\ Open
  /\ browser' = [Idle EXCEPT !.pc = "dead"]
  /\ UNCHANGED <<current, next_id, policy, outcome, renderer, stdin, stdout>>

-----------------------------------------------------------------------------
(* The renderer: run of bin/mocha_renderer.rs.                              *)

\* It exits: what it had not read is lost, what it wrote can still be read.
Exit(p) ==
  /\ renderer' = [renderer EXCEPT ![p] = Gone("exited")]
  /\ stdin' = [stdin EXCEPT ![p] = <<>>]
  /\ UNCHANGED <<browser, current, next_id, policy, outcome, stdout>>

\* Rendering yields a page or an error.
PagesOf(m) == {Message("Rendered", m.id, m.call, n) : n \in PageLengths}
ErrorFor(m) == Message("Error", m.id, m.call, 1)

RepliesTo(p, m) ==
  CASE m.kind = "Ping" -> {Message("Pong", m.id, m.call, 1)}
    [] m.kind = "RenderDocument" ->
         {ErrorFor(m)} \cup (IF renderer[p].allow_direct_document_loads THEN PagesOf(m) ELSE {})
    [] m.kind = "RenderHtml" -> {ErrorFor(m)} \cup PagesOf(m)
    [] m.kind = "Shutdown" -> {Message("Goodbye", 0, m.call, 1)}

\* What handling the request m makes of renderer p.
Handled(p, m) ==
  IF TooLongToRead(m) \/ m.kind = "CrashForTest" THEN {Gone("exited")}
  ELSE IF m.kind = "SetSandboxPolicy"
    THEN {[renderer[p] EXCEPT !.allow_direct_document_loads = m.call.allow,
                              !.frame = NoFrame]}
    ELSE {[renderer[p] EXCEPT !.frame = NoFrame, !.reply = r] : r \in RepliesTo(p, m)}

Reading(p) == Runs(p) /\ renderer[p].reply = NoMessage

ReadPiece(p) ==
  /\ Reading(p) /\ stdin[p] # <<>>
  /\ LET piece == Head(stdin[p])
     IN  IF piece.last
           THEN \E r \in Handled(p, piece.msg) :
                  /\ renderer' = [renderer EXCEPT ![p] = r]
                  /\ stdin' = [stdin EXCEPT ![p] = IF r.status = "running" THEN Tail(@) ELSE <<>>]
           ELSE /\ renderer' = [renderer EXCEPT ![p].frame = Frame(piece.msg, @.got + 1)]
                /\ stdin' = [stdin EXCEPT ![p] = Tail(@)]
  /\ UNCHANGED <<browser, current, next_id, policy, outcome, stdout>>

\* The end of the file.  Half a request may still decode: what it asks for is
\* then done for nobody.
ReadEof(p) ==
  /\ Reading(p) /\ stdin[p] = <<>> /\ ~Holds(p)
  /\ \/ Exit(p)
     \/ /\ renderer[p].frame.got > 0
        /\ \E r \in Handled(p, renderer[p].frame.msg) : renderer' = [renderer EXCEPT ![p] = r]
        /\ UNCHANGED <<browser, current, next_id, policy, outcome, stdin, stdout>>

\* Mutant of WriteFails: the error of the write is ignored.
WriteErrorIgnored(p) ==
  /\ Runs(p) /\ renderer[p].reply # NoMessage
  /\ TooLongToWrite(renderer[p].reply) \/ ~Holds(p)
  /\ renderer' = [renderer EXCEPT ![p].reply = NoMessage, ![p].sent = 0]
  /\ UNCHANGED <<browser, current, next_id, policy, outcome, stdin, stdout>>

\* write_renderer_message fails: the renderer exits with the error.
WriteFails(p) ==
  /\ Runs(p) /\ renderer[p].reply # NoMessage
  /\ TooLongToWrite(renderer[p].reply) \/ ~Holds(p)
  /\ Exit(p)

Writing(p) ==
  /\ Runs(p) /\ renderer[p].reply # NoMessage
  /\ ~TooLongToWrite(renderer[p].reply) /\ Holds(p) /\ Free(stdout[p])
  /\ stdout' = [stdout EXCEPT ![p] = Put(@, renderer[p].reply, renderer[p].sent)]
  /\ UNCHANGED <<browser, current, next_id, policy, outcome, stdin>>

WritePiece(p) ==
  /\ Writing(p)
  /\ renderer[p].sent < renderer[p].reply.len
  /\ renderer' = [renderer EXCEPT ![p].sent = @ + 1]

WriteLast(p) ==
  /\ Writing(p)
  /\ renderer[p].sent = renderer[p].reply.len
  /\ renderer' = [renderer EXCEPT
       ![p] = IF @.reply.kind = "Goodbye" THEN Gone("exited")
              ELSE [@ EXCEPT !.reply = NoMessage, !.sent = 0]]

Crash(p) == Runs(p) /\ Exit(p)

-----------------------------------------------------------------------------
Init ==
  /\ browser = Idle
  /\ current = 1 /\ next_id = 1 /\ policy = TRUE
  /\ outcome = NoOutcome
  /\ renderer = [p \in Spawned |-> IF p = 1 THEN Born ELSE Gone("unborn")]
  /\ stdin = [p \in Spawned |-> <<>>] /\ stdout = [p \in Spawned |-> <<>>]

\* What a thread or a process does by itself once it has begun.
BrowserStep ==
  \/ SendFails \/ SendPiece \/ SendLast \/ ReceivePiece \/ ReceiveEof \/ WaitExit
  \/ DropPiece \/ Kill

RendererStep(p) ==
  ReadPiece(p) \/ ReadEof(p) \/ WriteFails(p) \/ WritePiece(p) \/ WriteLast(p)

\* Nothing is left to do when the browser is gone and no renderer runs.
Finished == ~Open /\ \A p \in Spawned : ~Runs(p)

Next ==
  \/ \E c \in Calls : Call(c)
  \/ IsAlive \/ Respawn \/ Close \/ BrowserDies
  \/ BrowserStep
  \/ \E p \in Spawned : RendererStep(p) \/ Crash(p)
  \/ Finished /\ UNCHANGED vars

\* The system schedules both processes; nobody has to make a call or to crash.
Fairness == WF_vars(BrowserStep) /\ \A p \in Spawned : WF_vars(RendererStep(p))

Spec == Init /\ [][Next]_vars /\ Fairness

-----------------------------------------------------------------------------
(* Properties.                                                              *)

Messages ==
  [kind : Answered \cup {"SetSandboxPolicy", "CrashForTest", "Pong", "Rendered", "Error",
                          "Goodbye", "none"},
   id : Nat, call : Calls \cup {NoCall}, len : Nat]

Frames == [msg : Messages, got : Nat]
Pipes == Seq([msg : Messages, last : BOOLEAN])

\* Whatever became of earlier calls (too large to send or to read, cut short by
\* a death, answered with an error), nothing of them is left on the way to or
\* from the renderer when the next one is made: a reply always belongs to the
\* call that reads it, and "unexpected renderer response" cannot be met.
InFlight(p) ==
  {stdin[p][i].msg : i \in DOMAIN stdin[p]} \cup {stdout[p][i].msg : i \in DOMAIN stdout[p]}
  \cup {renderer[p].frame.msg, renderer[p].reply, browser.frame.msg}

RepliesInStep ==
  Open =>
    \A m \in InFlight(current) :
      m.call.op \in Answered => m.call = browser.call /\ m.id = browser.id

\* No renderer is left behind: beside the current one every process the manager
\* has spawned has been waited for, and after it all of them, however the old
\* renderer died and whatever it was doing when it was dropped.
NoneLeftBehind ==
  LET kept == IF browser.pc = "closed" THEN {} ELSE {current, browser.dropping}
  IN  browser.pc # "dead" =>
        \A p \in Spawned \ kept : renderer[p].status \in {"unborn", "reaped"}

\* Every call is answered, once and for what it asked, under the policy in
\* force, and a renderer does not outlive the browser: the pipes never leave
\* both sides waiting for each other.
Service ==
  INSTANCE RenderService WITH
    pending <- browser.call,
    alive <- Runs(current),
    allowed <- policy,
    open <- browser.pc \notin {"closing", "closed", "dead"}

ImplementsRenderService == Service!Spec

=============================================================================
