----------------------- MODULE RendererProcessProofs -----------------------
(***************************************************************************)
(* Proofs about RendererProcess, for every value of its constants.         *)
(*                                                                         *)
(* Both sides work on the pipes at once, so what is inductive is a         *)
(* statement about everything that is under way between the browser and    *)
(* the renderer it holds (Sound below), for each place the caller can be   *)
(* in: a request on its way and a reply on its way exclude each other, the *)
(* last piece of either is the last thing in its pipe, and nothing is      *)
(* under way when no call is.  From it follow the two invariants and, step *)
(* by step, that the calling code sees the RenderService.                  *)
(***************************************************************************)
EXTENDS RendererProcess, SequenceTheorems, TLAPS

-----------------------------------------------------------------------------
(* Types.                                                                   *)

Pieces == [msg : Messages, last : BOOLEAN]

Places == {"idle", "sending", "receiving", "waiting", "dropping", "closing", "closed", "dead"}

Callers ==
  [pc : Places, call : Calls \cup {NoCall}, id : Nat, sent : Nat, frame : Frames,
   dropping : Nat]

Renderers ==
  [status : {"unborn", "running", "exited", "reaped"},
   allow_direct_document_loads : BOOLEAN, frame : Frames, reply : Messages, sent : Nat]

TypeOK ==
  /\ browser \in Callers
  /\ current \in Spawned /\ next_id \in Nat /\ policy \in BOOLEAN
  /\ renderer \in [Spawned -> Renderers]
  /\ stdin \in [Spawned -> Seq(Pieces)] /\ stdout \in [Spawned -> Seq(Pieces)]

-----------------------------------------------------------------------------
(* The inductive invariant.                                                 *)

\* Where the caller is tells which call it makes and which renderer it drops.
CallerOK ==
  /\ browser.pc \in {"sending", "receiving", "waiting"} => browser.call \in Calls
  /\ browser.pc \notin {"sending", "receiving", "waiting"} =>
       browser.call = NoCall /\ browser.id = 0 /\ browser.frame = NoFrame
  /\ browser.pc = "receiving" => browser.call.op \in Answered
  /\ browser.pc = "waiting" => browser.call.op = "Shutdown"
  /\ browser.call.op \notin WithId => browser.id = 0
  /\ browser.pc = "idle" => browser = Idle
  /\ browser.pc = "dropping" => browser.dropping \in Spawned \ {current}
  /\ browser.pc = "closing" => browser.dropping = current
  /\ browser.pc \notin {"dropping", "closing"} => browser.dropping = 0

Order(m) == m.call \in Calls /\ m = RequestFor(m.call, m.id)
Legal(m) == Order(m) \/ m = Farewell

\* A renderer is only ever sent requests.  One that does not run holds nothing,
\* and nothing was ever sent to or by one that is not born.
RendererOK(r, in, out) ==
  /\ r.frame # NoFrame => Legal(r.frame.msg)
  /\ \A i \in 1..Len(in) : Legal(in[i].msg)
  /\ r.status # "running" => r.frame = NoFrame /\ r.reply = NoMessage
  /\ r.status = "unborn" => in = <<>> /\ out = <<>>

RenderersOK == \A p \in Spawned : RendererOK(renderer[p], stdin[p], stdout[p])

Wanted(m) == m.call.op \in Answered
Asked(b) == RequestFor(b.call, b.id)

\* Of what the renderer has to read nothing calls for a reply; no reply is under way;
\* only the request of the call does; the renderer is not told to go.
NothingAsked(r, in) == ~Wanted(r.frame.msg) /\ \A i \in 1..Len(in) : ~Wanted(in[i].msg)
Silent(b, r, out) == b.frame = NoFrame /\ r.reply = NoMessage /\ out = <<>>

OnlyAsked(b, r, in) ==
  /\ Wanted(r.frame.msg) => r.frame.msg = Asked(b)
  /\ \A i \in 1..Len(in) : Wanted(in[i].msg) => in[i].msg = Asked(b)

NoFarewell(r, in) ==
  /\ r.frame.msg # Farewell
  /\ \A i \in 1..Len(in) : in[i].msg # Farewell

\* m is an answer to the call of b.
Answers(b, pol, m) ==
  /\ m.call = b.call /\ m.id = b.id
  /\ b.call.op = "Ping" => m.kind = "Pong" /\ m.len = 1
  /\ b.call.op = "Shutdown" => m.kind = "Goodbye" /\ m.len = 1
  /\ b.call.op \in RenderOps => m.kind \in {"Rendered", "Error"}
  /\ b.call.op = "RenderDocument" /\ m.kind = "Rendered" => pol

\* The policy the renderer will have when it has read all it was sent.
Sets(in, i) == in[i].last /\ in[i].msg.kind = "SetSandboxPolicy"
InForce(r, in, pol) ==
  /\ (\A i \in 1..Len(in) : ~Sets(in, i)) => r.allow_direct_document_loads = pol
  /\ \A i \in 1..Len(in) :
       Sets(in, i) /\ (\A j \in 1..Len(in) : Sets(in, j) => j <= i)
         => in[i].msg.call.allow = pol

\* The caller waits for its reply, is sending its request, is giving the renderer up.
Receives(b, r, in, out, pol) ==
  /\ OnlyAsked(b, r, in)
  /\ NothingAsked(r, in) \/ Silent(b, r, out)
  /\ \A i \in 1..Len(in) : Wanted(in[i].msg) /\ in[i].last => i = Len(in)
  /\ \A i \in 1..Len(out) : out[i].last => i = Len(out)
  /\ r.reply # NoMessage => in = <<>> /\ \A i \in 1..Len(out) : ~out[i].last
  /\ r.reply # NoMessage => Answers(b, pol, r.reply)
  /\ b.frame # NoFrame => Answers(b, pol, b.frame.msg)
  /\ \A i \in 1..Len(out) : Answers(b, pol, out[i].msg)

Sends(b, r, in, out) ==
  /\ OnlyAsked(b, r, in)
  /\ Silent(b, r, out)
  /\ \A i \in 1..Len(in) : Wanted(in[i].msg) => ~in[i].last
  /\ TooLongToWrite(Asked(b)) => NothingAsked(r, in)

Closes(b, r, in, out) ==
  /\ NothingAsked(r, in)
  /\ ~Wanted(r.reply) /\ \A i \in 1..Len(out) : ~Wanted(out[i].msg)

\* All that is under way between the caller b and its renderer r.
Sound(b, r, in, out, pol) ==
  /\ b.pc # "closing" =>
       /\ NoFarewell(r, in)
       /\ r.status = "running" => InForce(r, in, pol)
       /\ r.status # "running" => in = <<>>
  /\ b.pc \in {"idle", "dropping", "waiting"} => NothingAsked(r, in) /\ Silent(b, r, out)
  /\ b.pc = "sending" => Sends(b, r, in, out)
  /\ b.pc = "receiving" => Receives(b, r, in, out, pol)
  /\ b.pc = "closing" => Closes(b, r, in, out)

Exchange ==
  /\ renderer[current].status # "unborn"
  /\ Open => Sound(browser, renderer[current], stdin[current], stdout[current], policy)

Inv == TypeOK /\ CallerOK /\ RenderersOK /\ NoneLeftBehind /\ Exchange

-----------------------------------------------------------------------------
(* Messages, frames and pipes.                                              *)

Kinds ==
  Answered \cup {"SetSandboxPolicy", "CrashForTest", "Pong", "Rendered", "Error", "Goodbye", "none"}

LEMMA MessageFields ==
  ASSUME NEW kind, NEW id, NEW c, NEW len
  PROVE  LET m == Message(kind, id, c, len)
         IN  m.kind = kind /\ m.id = id /\ m.call = c /\ m.len = len
BY DEF Message

LEMMA MessageOK ==
  ASSUME NEW kind \in Kinds, NEW id \in Nat, NEW c \in Calls \cup {NoCall}, NEW len \in Nat
  PROVE  Message(kind, id, c, len) \in Messages
BY DEF Message, Messages, Kinds

LEMMA NewMessage ==
  ASSUME NEW m, NEW kind \in Kinds, NEW id \in Nat, NEW c \in Calls \cup {NoCall},
         NEW len \in Nat, m = Message(kind, id, c, len)
  PROVE  m \in Messages /\ m.kind = kind /\ m.id = id /\ m.call = c /\ m.len = len
BY MessageOK, MessageFields

LEMMA ReplyKinds == {"Pong", "Goodbye", "Rendered", "Error"} \subseteq Kinds
BY DEF Kinds

LEMMA CallFacts ==
  ASSUME NEW c \in Calls
  PROVE  /\ c.op \in Answered \cup {"SetSandboxPolicy", "CrashForTest"}
         /\ c.op \in RenderOps => c.doc \in Docs
         /\ c.allow \in BOOLEAN
<1>1. CASE c \in {[op |-> o, doc |-> NoDoc, allow |-> FALSE] : o \in {"Ping", "Shutdown", "CrashForTest"}}
  <2>1. PICK o \in {"Ping", "Shutdown", "CrashForTest"} :
          c = [op |-> o, doc |-> NoDoc, allow |-> FALSE]
    BY <1>1
  <2>2. c.op = o /\ c.allow = FALSE
    BY <2>1
  <2> QED
    BY <2>2 DEF Answered, WithId, RenderOps
<1>2. CASE c \in [op : RenderOps, doc : Docs, allow : {FALSE}]
  BY <1>2 DEF Answered, WithId, RenderOps
<1>3. CASE c \in [op : {"SetSandboxPolicy"}, doc : {NoDoc}, allow : BOOLEAN]
  BY <1>3 DEF Answered, WithId, RenderOps
<1> QED
  BY <1>1, <1>2, <1>3 DEF Calls

LEMMA NoCallFacts == NoCall.op \notin Answered /\ NoCall.op = "none"
BY DEF NoCall, Answered, WithId, RenderOps

LEMMA RequestFacts ==
  ASSUME NEW c \in Calls, NEW id \in Nat
  PROVE  LET m == RequestFor(c, id)
         IN  /\ m.kind = c.op /\ m.id = id /\ m.call = c
             /\ m.len = (IF c.op \in RenderOps THEN Length[c.doc] ELSE 1)
             /\ m.len \in Nat \ {0}
             /\ m \in Messages /\ Order(m) /\ m # NoMessage /\ m # Farewell
<1> DEFINE len == IF c.op \in RenderOps THEN Length[c.doc] ELSE 1
           m == RequestFor(c, id)
<1>1. len \in Nat \ {0}
  BY ProcessAssumption, CallFacts
<1>2. m = Message(c.op, id, c, len)
  BY DEF RequestFor
<1>3. c.op \in Kinds
  BY CallFacts DEF Kinds
<1> HIDE DEF len, m
<1>4. m.kind = c.op /\ m.id = id /\ m.call = c /\ m.len = len
  BY <1>2, MessageFields
<1>5. m \in Messages
  BY <1>1, <1>2, <1>3, MessageOK
<1>6. m # NoMessage /\ m # Farewell
  <2>1. NoMessage.kind = "none" /\ NoMessage.call = NoCall /\ Farewell.call = NoCall
    BY MessageFields DEF NoMessage, Farewell
  <2>2. c # NoCall
    BY CallFacts, NoCallFacts DEF Answered, WithId, RenderOps
  <2> QED
    BY <1>4, <2>1, <2>2
<1>7. Order(m)
  BY <1>4 DEF Order, m
<1> QED
  BY <1>1, <1>4, <1>5, <1>6, <1>7 DEF len, m

LEMMA SpecialMessages ==
  /\ NoMessage \in Messages /\ Farewell \in Messages
  /\ NoMessage.call = NoCall /\ NoMessage.kind = "none" /\ NoMessage.len = 0
  /\ Farewell.call = NoCall /\ Farewell.kind = "Shutdown" /\ Farewell.len = 1
  /\ ~Wanted(NoMessage) /\ ~Wanted(Farewell) /\ Legal(Farewell) /\ NoMessage # Farewell
  /\ NoFrame \in Frames /\ NoFrame.msg = NoMessage /\ NoFrame.got = 0
<1>1. /\ NoMessage.call = NoCall /\ NoMessage.kind = "none" /\ NoMessage.len = 0
      /\ Farewell.call = NoCall /\ Farewell.kind = "Shutdown" /\ Farewell.len = 1
  BY MessageFields DEF NoMessage, Farewell
<1>2. NoMessage \in Messages /\ Farewell \in Messages
  BY MessageOK DEF NoMessage, Farewell, Kinds, Answered
<1>3. NoFrame \in Frames /\ NoFrame.msg = NoMessage /\ NoFrame.got = 0
  BY <1>2 DEF NoFrame, Frame, Frames
<1> QED
  BY <1>1, <1>2, <1>3, NoCallFacts DEF Wanted, Legal

LEMMA FrameFacts ==
  ASSUME NEW m \in Messages, NEW n \in Nat
  PROVE  /\ Frame(m, n) \in Frames /\ Frame(m, n).msg = m /\ Frame(m, n).got = n
         /\ n > 0 => Frame(m, n) # NoFrame
BY DEF Frame, Frames, NoFrame

LEMMA LegalFacts ==
  ASSUME NEW m \in Messages, Legal(m)
  PROVE  /\ m.kind \in Answered \cup {"SetSandboxPolicy", "CrashForTest"}
         /\ m.len \in Nat \ {0}
         /\ m # Farewell => m.call \in Calls /\ m.kind = m.call.op
         /\ Wanted(m) => m # Farewell
         /\ m # NoMessage
         /\ m.call.allow \in BOOLEAN
<1>1. CASE m = Farewell
  BY <1>1, SpecialMessages DEF Answered, WithId, NoCall
<1>2. CASE Order(m)
  <2>1. m.call \in Calls /\ m.id \in Nat /\ m = RequestFor(m.call, m.id)
    BY <1>2 DEF Order, Messages
  <2> QED
    BY <2>1, RequestFacts, CallFacts
<1> QED
  BY <1>1, <1>2 DEF Legal

LEMMA PieceFacts ==
  ASSUME NEW m \in Messages, NEW n
  PROVE  /\ Piece(m, n) \in Pieces /\ Piece(m, n).msg = m
         /\ Piece(m, n).last <=> n = m.len + 1
BY DEF Piece, Pieces

\* pipe2 is pipe with one more piece of m, after n of them.
OnePieceMore(pipe2, pipe, m, n) ==
  /\ pipe2 \in Seq(Pieces) /\ Len(pipe2) = Len(pipe) + 1 /\ Len(pipe) \in Nat
  /\ \A i \in 1..Len(pipe) : pipe2[i] = pipe[i]
  /\ pipe2[Len(pipe) + 1].msg = m
  /\ pipe2[Len(pipe) + 1].last <=> n = m.len

LEMMA PutFacts ==
  ASSUME NEW pipe \in Seq(Pieces), NEW m \in Messages, NEW n \in Nat
  PROVE  OnePieceMore(Put(pipe, m, n), pipe, m, n)
<1> DEFINE piece == Piece(m, n + 1)
<1>1. piece \in Pieces /\ piece.msg = m /\ (piece.last <=> n = m.len)
  <2>1. m.len \in Nat
    BY DEF Messages
  <2> QED
    BY <2>1, PieceFacts
<1>2. Put(pipe, m, n) = Append(pipe, piece)
  BY DEF Put
<1> HIDE DEF piece
<1> QED
  BY <1>1, <1>2, AppendProperties, LenProperties DEF OnePieceMore

LEMMA TailFacts ==
  ASSUME NEW pipe \in Seq(Pieces), pipe # <<>>
  PROVE  /\ Head(pipe) = pipe[1] /\ pipe[1] \in Pieces /\ 1 \in 1..Len(pipe)
         /\ Tail(pipe) \in Seq(Pieces) /\ Len(pipe) \in Nat \ {0}
         /\ Len(Tail(pipe)) = Len(pipe) - 1
         /\ \A i \in 1..(Len(pipe) - 1) : Tail(pipe)[i] = pipe[i + 1]
BY HeadTailProperties, LenProperties, EmptySeq

-----------------------------------------------------------------------------
(* What every step of one renderer has in common.                           *)

\* Nothing happens to any renderer but p.
Elsewhere(p) ==
  \A q \in Spawned \ {p} :
    renderer'[q] = renderer[q] /\ stdin'[q] = stdin[q] /\ stdout'[q] = stdout[q]

LEMMA RenderersKept ==
  ASSUME RenderersOK, NEW p \in Spawned, Elsewhere(p),
         RendererOK(renderer'[p], stdin'[p], stdout'[p])
  PROVE  RenderersOK'
<1> SUFFICES ASSUME NEW q \in Spawned PROVE RendererOK(renderer'[q], stdin'[q], stdout'[q])
  BY DEF RenderersOK, RendererOK
<1>1. CASE q = p
  BY <1>1
<1>2. CASE q # p
  BY <1>2 DEF Elsewhere, RenderersOK
<1> QED
  BY <1>1, <1>2

LEMMA CallerKept ==
  ASSUME CallerOK, UNCHANGED <<browser, current>>
  PROVE  CallerOK'
BY DEF CallerOK

\* A step of a running renderer p, of which the caller sees nothing but pipes.
LEMMA RendererKeeps ==
  ASSUME Inv, NEW p \in Spawned, Runs(p), Elsewhere(p), TypeOK',
         UNCHANGED <<browser, current, policy>>,
         renderer'[p].status \in {"running", "exited"},
         RendererOK(renderer'[p], stdin'[p], stdout'[p]),
         Open /\ p = current =>
           Sound(browser, renderer'[p], stdin'[p], stdout'[p], policy)
  PROVE  Inv'
<1>1. RenderersOK' /\ CallerOK'
  BY RenderersKept, CallerKept DEF Inv
<1>2. NoneLeftBehind'
  <2>1. \A q \in Spawned \ {p} : renderer'[q].status = renderer[q].status
    BY DEF Elsewhere
  <2> QED
    BY <2>1 DEF NoneLeftBehind, Inv, Runs
<1>3. Exchange'
  <2>1. CASE p = current
    BY <2>1 DEF Exchange, Open
  <2>2. CASE p # current
    <3>1. current \in Spawned \ {p}
      BY <2>2 DEF Inv, TypeOK
    <3>2. /\ renderer'[current] = renderer[current]
          /\ stdin'[current] = stdin[current] /\ stdout'[current] = stdout[current]
      BY <3>1 DEF Elsewhere
    <3> QED
      BY <3>2 DEF Inv, Exchange, Open
  <2> QED
    BY <2>1, <2>2
<1> QED
  BY <1>1, <1>2, <1>3 DEF Inv

-----------------------------------------------------------------------------
(* The renderer exits.                                                      *)

LEMMA GoneFacts ==
  ASSUME NEW status \in {"unborn", "exited", "reaped"}
  PROVE  /\ Gone(status) \in Renderers /\ Gone(status).status = status
         /\ Gone(status).frame = NoFrame /\ Gone(status).reply = NoMessage
BY SpecialMessages DEF Gone, Renderers

LEMMA BornFacts ==
  /\ Born \in Renderers /\ Born.status = "running"
  /\ Born.frame = NoFrame /\ Born.reply = NoMessage /\ Born.allow_direct_document_loads = TRUE
BY SpecialMessages DEF Born, Gone, Renderers

LEMMA ExitSound ==
  ASSUME NEW b, NEW r, NEW in, NEW out, NEW pol, Sound(b, r, in, out, pol),
         NEW r2, r2.status # "running", r2.frame = NoFrame, r2.reply = NoMessage
  PROVE  Sound(b, r2, <<>>, out, pol)
<1>1. Len(<<>>) = 0 /\ ~Wanted(r2.frame.msg) /\ r2.frame.msg # Farewell
  BY SpecialMessages
<1>2. NoFarewell(r2, <<>>) /\ NothingAsked(r2, <<>>) /\ OnlyAsked(b, r2, <<>>)
  BY <1>1 DEF NoFarewell, NothingAsked, OnlyAsked
<1>3. Silent(b, r, out) => Silent(b, r2, out)
  BY DEF Silent
<1>4. b.pc = "sending" => Sends(b, r2, <<>>, out)
  BY <1>1, <1>2, <1>3 DEF Sound, Sends
<1>5. b.pc = "receiving" => Receives(b, r2, <<>>, out, pol)
  BY <1>1, <1>2 DEF Sound, Receives
<1>6. b.pc = "closing" => Closes(b, r2, <<>>, out)
  BY <1>2, SpecialMessages DEF Sound, Closes
<1> QED
  BY <1>2, <1>3, <1>4, <1>5, <1>6 DEF Sound

LEMMA ExitKeeps ==
  ASSUME Inv, NEW p \in Spawned, Runs(p), Exit(p)
  PROVE  Inv'
<1>1. /\ renderer'[p] = Gone("exited") /\ stdin'[p] = <<>> /\ stdout'[p] = stdout[p]
      /\ Elsewhere(p)
  BY DEF Exit, Elsewhere, Inv, TypeOK
<1>2. TypeOK'
  BY GoneFacts, EmptySeq DEF Exit, Inv, TypeOK
<1>3. RendererOK(renderer'[p], stdin'[p], stdout'[p])
  BY <1>1, GoneFacts DEF RendererOK
<1>4. Open /\ p = current => Sound(browser, renderer'[p], stdin'[p], stdout'[p], policy)
  BY <1>1, GoneFacts, ExitSound DEF Inv, Exchange
<1> QED
  BY <1>1, <1>2, <1>3, <1>4, GoneFacts, RendererKeeps DEF Exit

-----------------------------------------------------------------------------
(* The renderer reads.                                                      *)

LEMMA TailInForce ==
  ASSUME NEW in \in Seq(Pieces), in # <<>>, NEW r, NEW r2, NEW pol, InForce(r, in, pol),
         r2.allow_direct_document_loads =
           IF Sets(in, 1) THEN in[1].msg.call.allow ELSE r.allow_direct_document_loads
  PROVE  InForce(r2, Tail(in), pol)
<1> DEFINE in2 == Tail(in)
           Set(i) == Sets(in, i)
<1>1. /\ Len(in) \in Nat \ {0} /\ Len(in2) = Len(in) - 1
      /\ \A i \in 1..(Len(in) - 1) : in2[i] = in[i + 1]
  BY TailFacts
<1> HIDE DEF in2
<1>2. \A i \in 1..(Len(in) - 1) : Sets(in2, i) <=> Set(i + 1)
  BY <1>1 DEF Sets
<1>3. \A j \in 1..Len(in) : j # 1 /\ Set(j) => j - 1 \in 1..Len(in2) /\ Sets(in2, j - 1)
  <2> SUFFICES ASSUME NEW j \in 1..Len(in), j # 1, Set(j)
               PROVE  j - 1 \in 1..Len(in2) /\ Sets(in2, j - 1)
    OBVIOUS
  <2>1. j - 1 \in 1..(Len(in) - 1) /\ (j - 1) + 1 = j
    BY <1>1
  <2>2. Sets(in2, j - 1) <=> Set((j - 1) + 1)
    BY <1>2, <2>1
  <2> QED
    BY <1>1, <2>1, <2>2
<1>4. ASSUME \A i \in 1..Len(in2) : ~Sets(in2, i)
      PROVE  r2.allow_direct_document_loads = pol
  <2>1. \A j \in 1..Len(in) : Set(j) => j = 1
    BY <1>3, <1>4
  <2>2. 1 \in 1..Len(in) /\ \A j \in 1..Len(in) : Set(j) => j <= 1
    BY <1>1, <2>1
  <2>3. CASE Set(1)
    BY <2>2, <2>3 DEF InForce
  <2>4. CASE ~Set(1)
    <3>1. \A j \in 1..Len(in) : ~Sets(in, j)
      BY <2>1, <2>4
    <3> QED
      BY <2>4, <3>1 DEF InForce
  <2> QED
    BY <2>3, <2>4
<1>5. ASSUME NEW i \in 1..Len(in2), Sets(in2, i), \A j \in 1..Len(in2) : Sets(in2, j) => j <= i
      PROVE  in2[i].msg.call.allow = pol
  <2>1. i \in 1..(Len(in) - 1) /\ i + 1 \in 1..Len(in)
    BY <1>1
  <2>2. Set(i + 1) /\ in2[i] = in[i + 1]
    BY <1>1, <1>2, <1>5, <2>1
  <2>3. \A j \in 1..Len(in) : Set(j) => j <= i + 1
    <3> SUFFICES ASSUME NEW j \in 1..Len(in), Set(j), j # 1 PROVE j <= i + 1
      BY <2>1
    <3>1. j - 1 \in 1..Len(in2) /\ Sets(in2, j - 1)
      BY <1>3
    <3>2. j - 1 <= i
      BY <1>5, <3>1
    <3> QED
      BY <2>1, <3>2
  <2> QED
    BY <2>1, <2>2, <2>3 DEF InForce
<1>6. InForce(r2, in2, pol)
  BY <1>4, <1>5 DEF InForce
<1> QED
  BY <1>6 DEF in2

\* One piece is taken out of the pipe, and no reply made.
ReadsInto(r, in, r2) ==
  /\ r2.status = r.status /\ r2.reply = r.reply
  /\ r2.frame.msg \in {NoMessage, in[1].msg}
  /\ r2.allow_direct_document_loads =
       IF Sets(in, 1) THEN in[1].msg.call.allow ELSE r.allow_direct_document_loads

LEMMA ReadSound ==
  ASSUME NEW b, NEW r, NEW in \in Seq(Pieces), NEW out, NEW pol,
         Sound(b, r, in, out, pol), in # <<>>,
         r.reply = NoMessage, r.status = "running", NEW r2, ReadsInto(r, in, r2)
  PROVE  Sound(b, r2, Tail(in), out, pol)
<1> DEFINE in2 == Tail(in)
<1>0. /\ 1 \in 1..Len(in) /\ Len(in2) = Len(in) - 1 /\ Len(in) \in Nat \ {0}
      /\ \A i \in 1..(Len(in) - 1) : in2[i] = in[i + 1]
  BY TailFacts
<1>1. /\ ~Wanted(NoMessage) /\ NoMessage # Farewell
      /\ r2.reply = r.reply /\ r2.frame.msg \in {NoMessage, in[1].msg}
  BY SpecialMessages DEF ReadsInto
<1> HIDE DEF in2
<1>2. NothingAsked(r, in) => NothingAsked(r2, in2)
  <2> SUFFICES ASSUME NothingAsked(r, in)
               PROVE  NothingAsked(r2, in2)
    OBVIOUS
  <2>1. ~Wanted(r2.frame.msg)
    BY <1>0, <1>1 DEF NothingAsked
  <2>2. ASSUME NEW i \in 1..Len(in2)
        PROVE  ~Wanted(in2[i].msg)
    <3>1. i + 1 \in 1..Len(in) /\ in2[i] = in[i + 1]
      BY <1>0
    <3> QED
      BY <3>1 DEF NothingAsked
  <2> QED
    BY <2>1, <2>2 DEF NothingAsked
<1>3. OnlyAsked(b, r, in) => OnlyAsked(b, r2, in2)
  BY <1>0, <1>1 DEF OnlyAsked
<1>4. NoFarewell(r, in) => NoFarewell(r2, in2)
  BY <1>0, <1>1 DEF NoFarewell
<1>5. InForce(r, in, pol) => InForce(r2, in2, pol)
  BY TailInForce DEF ReadsInto, in2
<1>6. Silent(b, r, out) => Silent(b, r2, out)
  BY <1>1 DEF Silent
<1>7. b.pc = "sending" => Sends(b, r2, in2, out)
  BY <1>0, <1>2, <1>3, <1>6 DEF Sound, Sends
<1>8. b.pc = "receiving" => Receives(b, r2, in2, out, pol)
  <2> SUFFICES ASSUME Receives(b, r, in, out, pol) PROVE Receives(b, r2, in2, out, pol)
    BY DEF Sound
  <2>1. \A i \in 1..Len(in2) : Wanted(in2[i].msg) /\ in2[i].last => i = Len(in2)
    BY <1>0 DEF Receives
  <2> QED
    BY <1>1, <1>2, <1>3, <1>6, <2>1 DEF Receives
<1>9. b.pc = "closing" => Closes(b, r2, in2, out)
  BY <1>1, <1>2 DEF Sound, Closes
<1>10. Sound(b, r2, in2, out, pol)
  BY <1>2, <1>4, <1>5, <1>6, <1>7, <1>8, <1>9 DEF Sound, ReadsInto
<1> QED
  BY <1>10 DEF in2

\* What RepliesTo says, for a request whose renderer stands in policy allow.
ReplyTo(m, allow, reply) ==
  /\ reply.call = m.call /\ reply.id = (IF m.kind = "Shutdown" THEN 0 ELSE m.id)
  /\ m.kind = "Ping" => reply.kind = "Pong" /\ reply.len = 1
  /\ m.kind = "Shutdown" => reply.kind = "Goodbye" /\ reply.len = 1
  /\ m.kind \in RenderOps => reply.kind \in {"Rendered", "Error"}
  /\ m.kind = "RenderDocument" /\ reply.kind = "Rendered" => allow

LEMMA ReplySound ==
  ASSUME NEW b, NEW r, NEW in \in Seq(Pieces), NEW out, NEW pol,
         Sound(b, r, in, out, pol), b.call.op \notin WithId => b.id = 0,
         in # <<>>, in[1].last, in[1].msg.kind \in Answered, Legal(in[1].msg),
         r.reply = NoMessage, r.status = "running",
         NEW r2, r2.status = r.status, r2.frame = NoFrame,
         ReplyTo(in[1].msg, r.allow_direct_document_loads, r2.reply),
         r2.allow_direct_document_loads = r.allow_direct_document_loads,
         b.pc \in {"idle", "sending", "receiving", "waiting", "dropping", "closing"}
  PROVE  Sound(b, r2, Tail(in), out, pol)
<1> DEFINE in2 == Tail(in)
           m == in[1].msg
<1>1. /\ 1 \in 1..Len(in) /\ Len(in2) = Len(in) - 1 /\ Len(in) \in Nat \ {0}
      /\ \A i \in 1..(Len(in) - 1) : in2[i] = in[i + 1]
      /\ in2 \in Seq(Pieces)
  BY TailFacts
<1>11. m \in Messages
  BY TailFacts DEF Pieces
<1>0. ~Wanted(r2.frame.msg) /\ r2.frame.msg # Farewell
  BY SpecialMessages
<1>2. m # Farewell => m.call \in Calls /\ m.kind = m.call.op /\ Wanted(m)
  BY <1>11, LegalFacts DEF Wanted
<1> HIDE DEF in2
<1>3. CASE b.pc = "closing"
  <2>1. NothingAsked(r2, in2)
    BY <1>0, <1>1, <1>3 DEF NothingAsked, Sound, Closes
  <2>2. ~Wanted(r2.reply)
    BY <1>1, <1>3 DEF NothingAsked, Sound, Closes, Wanted, ReplyTo
  <2> QED
    BY <1>3, <2>1, <2>2 DEF Sound, Closes, in2
<1>4. CASE b.pc # "closing"
  <2>1. m # Farewell /\ Wanted(m) /\ m.kind = m.call.op
    BY <1>1, <1>2, <1>4 DEF Sound, NoFarewell
  <2>2. b.pc = "receiving"
    BY <1>1, <1>4, <2>1 DEF Sound, Sends, NothingAsked
  <2>3. Receives(b, r, in, out, pol)
    BY <2>2 DEF Sound
  <2>4. m = Asked(b) /\ 1 = Len(in) /\ b.frame = NoFrame /\ out = <<>>
    BY <1>1, <2>1, <2>3 DEF Receives, OnlyAsked, NothingAsked, Silent
  <2>5. in2 = <<>>
    BY <1>1, <2>4
  <2>6. m.call = b.call /\ m.id = b.id /\ m.kind = b.call.op
    BY <2>4, <2>1, MessageFields DEF Asked, RequestFor
  <2>7. r.allow_direct_document_loads = pol
    <3>1. ~Sets(in, 1)
      BY DEF Sets, Answered, WithId, RenderOps
    <3> QED
      <4>1. InForce(r, in, pol)
        BY <2>2 DEF Sound
      <4>2. ASSUME NEW i \in 1..Len(in) PROVE ~Sets(in, i)
        <5>1. Len(in) = 1 /\ i \in 1..Len(in)
          BY <2>4, <4>2
        <5>2. i = 1
          BY <5>1
        <5> QED
          BY <3>1, <5>2
      <4> QED
        BY <4>1, <4>2 DEF InForce
  <2>8. Answers(b, pol, r2.reply)
    BY <2>6, <2>7 DEF Answers, ReplyTo, WithId, RenderOps
  <2>9. Len(out) = 0 /\ Len(in2) = 0
    BY <2>4, <2>5
  <2>10. NothingAsked(r2, in2) /\ OnlyAsked(b, r2, in2) /\ NoFarewell(r2, in2)
    BY <1>0, <2>9 DEF NothingAsked, OnlyAsked, NoFarewell
  <2>11. Receives(b, r2, in2, out, pol)
    BY <2>4, <2>5, <2>8, <2>9, <2>10 DEF Receives
  <2>12. InForce(r2, in2, pol)
    BY <2>7, <2>9 DEF InForce
  <2> QED
    BY <1>4, <2>2, <2>10, <2>11, <2>12 DEF Sound, in2
<1> QED
  BY <1>3, <1>4

LEMMA RendererFieldsOK ==
  ASSUME NEW r \in Renderers
  PROVE  /\ \A f \in Frames : [r EXCEPT !.frame = f] \in Renderers
         /\ \A m \in Messages : [r EXCEPT !.reply = m] \in Renderers
         /\ \A n \in Nat : [r EXCEPT !.sent = n] \in Renderers
         /\ \A x \in BOOLEAN : [r EXCEPT !.allow_direct_document_loads = x] \in Renderers
BY DEF Renderers

LEMMA PagesOfFacts ==
  ASSUME NEW m \in Messages, NEW reply \in {ErrorFor(m)} \cup PagesOf(m)
  PROVE  /\ reply \in Messages /\ reply.call = m.call /\ reply.id = m.id
         /\ reply.kind \in {"Rendered", "Error"} /\ (reply.kind = "Rendered" => reply \in PagesOf(m))
<1>0. m.id \in Nat /\ m.call \in Calls \cup {NoCall}
  BY DEF Messages
<1>1. CASE reply = ErrorFor(m)
  <2>1. reply = Message("Error", m.id, m.call, 1) /\ "Error" \in Kinds
    BY <1>1, ReplyKinds DEF ErrorFor
  <2>2. /\ reply \in Messages /\ reply.kind = "Error" /\ reply.id = m.id /\ reply.call = m.call
    BY <1>0, <2>1, NewMessage
  <2> QED
    BY <2>2
<1>2. CASE reply \in PagesOf(m)
  <2>1. PICK n \in PageLengths : reply = Message("Rendered", m.id, m.call, n)
    BY <1>2 DEF PagesOf
  <2>2. n \in Nat /\ "Rendered" \in Kinds
    BY ProcessAssumption, ReplyKinds
  <2>3. /\ reply \in Messages /\ reply.kind = "Rendered" /\ reply.id = m.id
        /\ reply.call = m.call
    BY <1>0, <2>1, <2>2, NewMessage
  <2> QED
    BY <1>2, <2>3
<1> QED
  BY <1>1, <1>2

LEMMA RepliesFacts ==
  ASSUME NEW p, NEW m \in Messages, m.kind \in Answered, NEW reply \in RepliesTo(p, m)
  PROVE  /\ reply \in Messages /\ reply # NoMessage
         /\ ReplyTo(m, renderer[p].allow_direct_document_loads, reply)
<1>0. m.id \in Nat /\ m.call \in Calls \cup {NoCall} /\ NoMessage.kind = "none"
  BY SpecialMessages DEF Messages
<1>1. CASE m.kind = "Ping"
  <2>1. reply = Message("Pong", m.id, m.call, 1)
    BY <1>1 DEF RepliesTo
  <2>2. /\ reply \in Messages /\ reply.kind = "Pong" /\ reply.id = m.id
        /\ reply.call = m.call /\ reply.len = 1
    BY <1>0, <2>1, NewMessage, ReplyKinds
  <2> QED
    BY <1>0, <1>1, <2>2 DEF ReplyTo, RenderOps
<1>2. CASE m.kind = "Shutdown"
  <2>1. reply = Message("Goodbye", 0, m.call, 1)
    BY <1>2 DEF RepliesTo
  <2>2. /\ reply \in Messages /\ reply.kind = "Goodbye" /\ reply.id = 0
        /\ reply.call = m.call /\ reply.len = 1
    BY <1>0, <2>1, NewMessage, ReplyKinds
  <2> QED
    BY <1>0, <1>2, <2>2 DEF ReplyTo, RenderOps
<1>3. CASE m.kind = "RenderHtml"
  <2>1. reply \in {ErrorFor(m)} \cup PagesOf(m)
    BY <1>3 DEF RepliesTo
  <2> QED
    BY <1>0, <1>3, <2>1, PagesOfFacts DEF ReplyTo
<1>4. CASE m.kind = "RenderDocument"
  <2>1. reply \in {ErrorFor(m)} \cup PagesOf(m)
    BY <1>4 DEF RepliesTo
  <2>2. renderer[p].allow_direct_document_loads \/ reply = ErrorFor(m)
    BY <1>4 DEF RepliesTo
  <2>3. reply.kind = "Rendered" => renderer[p].allow_direct_document_loads
    BY <2>2, MessageFields DEF ErrorFor
  <2> QED
    BY <1>0, <1>4, <2>1, <2>3, PagesOfFacts DEF ReplyTo
<1> QED
  BY <1>1, <1>2, <1>3, <1>4 DEF Answered, WithId, RenderOps

\* The renderer is done with the request m: it is gone, it has taken the policy,
\* or it has a reply to write.
LEMMA HandledFacts ==
  ASSUME NEW p, renderer[p] \in Renderers, Runs(p), NEW m \in Messages, Legal(m),
         NEW r2 \in Handled(p, m)
  PROVE  \/ r2 = Gone("exited")
         \/ /\ m.kind = "SetSandboxPolicy"
            /\ r2 \in Renderers /\ r2.status = "running" /\ r2.frame = NoFrame
            /\ r2.reply = renderer[p].reply
            /\ r2.allow_direct_document_loads = m.call.allow
         \/ /\ m.kind \in Answered
            /\ r2 \in Renderers /\ r2.status = "running" /\ r2.frame = NoFrame
            /\ r2.reply # NoMessage
            /\ ReplyTo(m, renderer[p].allow_direct_document_loads, r2.reply)
            /\ r2.allow_direct_document_loads = renderer[p].allow_direct_document_loads
<1>1. m.kind \in Answered \cup {"SetSandboxPolicy", "CrashForTest"} /\ m.call.allow \in BOOLEAN
  BY LegalFacts
<1>2. renderer[p].status = "running"
  BY DEF Runs
<1>3. CASE TooLongToRead(m) \/ m.kind = "CrashForTest"
  BY <1>3 DEF Handled
<1>4. CASE ~TooLongToRead(m) /\ m.kind = "SetSandboxPolicy"
  <2> DEFINE r1 == [renderer[p] EXCEPT !.allow_direct_document_loads = m.call.allow]
  <2>1. r2 = [r1 EXCEPT !.frame = NoFrame]
    BY <1>4 DEF Handled
  <2>2. /\ r1 \in Renderers /\ r1.status = "running" /\ r1.reply = renderer[p].reply
        /\ r1.allow_direct_document_loads = m.call.allow
    BY <1>1, <1>2 DEF Renderers
  <2> HIDE DEF r1
  <2>3. r2 \in Renderers
    BY <2>1, <2>2, SpecialMessages, RendererFieldsOK
  <2>4. /\ r2.status = r1.status /\ r2.frame = NoFrame /\ r2.reply = r1.reply
        /\ r2.allow_direct_document_loads = r1.allow_direct_document_loads
    BY <2>1, <2>2 DEF Renderers
  <2> QED
    BY <1>4, <2>2, <2>3, <2>4
<1>5. CASE ~TooLongToRead(m) /\ m.kind \in Answered
  <2> DEFINE r1 == [renderer[p] EXCEPT !.frame = NoFrame]
  <2>0. m.kind # "SetSandboxPolicy" /\ m.kind # "CrashForTest"
    BY <1>5 DEF Answered, WithId, RenderOps
  <2>1. PICK reply \in RepliesTo(p, m) : r2 = [r1 EXCEPT !.reply = reply]
    BY <1>5, <2>0 DEF Handled
  <2>2. /\ r1 \in Renderers /\ r1.status = "running" /\ r1.frame = NoFrame
        /\ r1.allow_direct_document_loads = renderer[p].allow_direct_document_loads
    BY <1>2, SpecialMessages DEF Renderers
  <2>3. /\ reply \in Messages /\ reply # NoMessage
        /\ ReplyTo(m, renderer[p].allow_direct_document_loads, reply)
    BY <1>5, RepliesFacts
  <2> HIDE DEF r1
  <2>4. r2 \in Renderers
    BY <2>1, <2>2, <2>3, RendererFieldsOK
  <2>5. /\ r2.status = r1.status /\ r2.frame = r1.frame /\ r2.reply = reply
        /\ r2.allow_direct_document_loads = r1.allow_direct_document_loads
    BY <2>1, <2>2 DEF Renderers
  <2> QED
    BY <1>5, <2>2, <2>3, <2>4, <2>5
<1> QED
  BY <1>1, <1>3, <1>4, <1>5

\* The caller is somewhere while it is open.
LEMMA OpenPlaces ==
  ASSUME TypeOK, Open
  PROVE  browser.pc \in {"idle", "sending", "receiving", "waiting", "dropping", "closing"}
BY DEF TypeOK, Callers, Places, Open

LEMMA RendererAt ==
  ASSUME Inv, NEW p \in Spawned
  PROVE  /\ renderer[p] \in Renderers /\ stdin[p] \in Seq(Pieces) /\ stdout[p] \in Seq(Pieces)
         /\ RendererOK(renderer[p], stdin[p], stdout[p])
         /\ renderer[p].frame \in Frames /\ renderer[p].reply \in Messages
BY DEF Inv, TypeOK, RenderersOK, Renderers

LEMMA ReadPieceKeeps ==
  ASSUME Inv, NEW p \in Spawned, ReadPiece(p)
  PROVE  Inv'
<1> DEFINE r == renderer[p]
           in == stdin[p]
           r2 == renderer'[p]
           in2 == stdin'[p]
<1>1. /\ r \in Renderers /\ in \in Seq(Pieces) /\ RendererOK(r, in, stdout[p])
      /\ r.frame \in Frames
  BY RendererAt
<1>2. Runs(p) /\ r.status = "running" /\ r.reply = NoMessage /\ in # <<>>
  BY DEF ReadPiece, Reading, Runs
<1>3. /\ Head(in) = in[1] /\ in[1] \in Pieces /\ 1 \in 1..Len(in)
      /\ Tail(in) \in Seq(Pieces) /\ Len(in) \in Nat \ {0} /\ Len(Tail(in)) = Len(in) - 1
      /\ \A i \in 1..(Len(in) - 1) : Tail(in)[i] = in[i + 1]
  BY <1>1, <1>2, TailFacts
<1>4. in[1].msg \in Messages /\ Legal(in[1].msg) /\ in[1].msg # NoMessage
  BY <1>1, <1>3, LegalFacts DEF Pieces, RendererOK
<1>5. \A i \in 1..Len(Tail(in)) : Legal(Tail(in)[i].msg)
  BY <1>1, <1>3 DEF RendererOK
<1>6. UNCHANGED <<browser, current, next_id, policy, outcome, stdout>>
  BY DEF ReadPiece
<1>7. /\ \E x : renderer' = [renderer EXCEPT ![p] = x]
      /\ \E x : stdin' = [stdin EXCEPT ![p] = x]
  BY <1>3 DEF ReadPiece
<1>8. Elsewhere(p)
  BY <1>6, <1>7 DEF Elsewhere, Inv, TypeOK
<1>9. Open /\ p = current => /\ Sound(browser, r, in, stdout[p], policy)
                             /\ browser.call.op \notin WithId => browser.id = 0
  BY DEF Inv, Exchange, CallerOK
<1>10. CASE ~in[1].last
  <2> DEFINE f == Frame(in[1].msg, r.frame.got + 1)
  <2>1. f \in Frames /\ f.msg = in[1].msg
    BY <1>1, <1>4, FrameFacts DEF Frames
  <2>2. r2 = [r EXCEPT !.frame = f] /\ in2 = Tail(in)
    <3>1. /\ renderer' = [renderer EXCEPT ![p].frame = f]
          /\ stdin' = [stdin EXCEPT ![p] = Tail(in)]
      BY <1>3, <1>10 DEF ReadPiece
    <3> HIDE DEF f
    <3> QED
      BY <3>1 DEF Inv, TypeOK
  <2> HIDE DEF f
  <2>3. r2 \in Renderers
    BY <1>1, <2>1, <2>2, RendererFieldsOK
  <2>4. /\ r2.status = r.status /\ r2.reply = r.reply /\ r2.frame = f
        /\ r2.allow_direct_document_loads = r.allow_direct_document_loads
    BY <1>1, <2>2 DEF Renderers
  <2>5. TypeOK'
    BY <1>3, <1>6, <1>7, <2>2, <2>3 DEF Inv, TypeOK
  <2>6. RendererOK(r2, in2, stdout'[p])
    BY <1>2, <1>4, <1>5, <2>1, <2>2, <2>4 DEF RendererOK
  <2>7. ReadsInto(r, in, r2)
    BY <1>10, <2>1, <2>4 DEF ReadsInto, Sets
  <2>8. Open /\ p = current => Sound(browser, r2, in2, stdout'[p], policy)
    BY <1>1, <1>2, <1>6, <1>9, <2>2, <2>7, ReadSound
  <2> HIDE DEF r2, in2
  <2> QED
    BY <1>2, <1>6, <1>8, <2>4, <2>5, <2>6, <2>8, RendererKeeps DEF r2, in2
<1>11. CASE in[1].last
  <2>1. /\ r2 \in Handled(p, in[1].msg)
        /\ in2 = IF r2.status = "running" THEN Tail(in) ELSE <<>>
    BY <1>3, <1>11 DEF ReadPiece, Inv, TypeOK
  <2>2. CASE r2 = Gone("exited")
    <3>1. in2 = <<>> /\ r2 \in Renderers
      BY <2>1, <2>2, GoneFacts
    <3>2. TypeOK'
      BY <1>6, <1>7, <3>1, EmptySeq DEF Inv, TypeOK
    <3>3. RendererOK(r2, in2, stdout'[p])
      BY <2>2, <3>1, GoneFacts DEF RendererOK
    <3>4. Open /\ p = current => Sound(browser, r2, in2, stdout'[p], policy)
      BY <1>6, <1>9, <2>2, <3>1, GoneFacts, ExitSound
    <3> QED
      BY <1>2, <1>6, <1>8, <2>2, <3>2, <3>3, <3>4, GoneFacts, RendererKeeps
  <2>3. CASE r2 # Gone("exited")
    <3>1. \/ /\ in[1].msg.kind = "SetSandboxPolicy"
             /\ r2 \in Renderers /\ r2.status = "running" /\ r2.frame = NoFrame
             /\ r2.reply = renderer[p].reply
             /\ r2.allow_direct_document_loads = in[1].msg.call.allow
          \/ /\ in[1].msg.kind \in Answered
             /\ r2 \in Renderers /\ r2.status = "running" /\ r2.frame = NoFrame
             /\ r2.reply # NoMessage
             /\ ReplyTo(in[1].msg, r.allow_direct_document_loads, r2.reply)
             /\ r2.allow_direct_document_loads = r.allow_direct_document_loads
      BY <1>1, <1>2, <1>4, <2>1, <2>3, HandledFacts
    <3>2. r2 \in Renderers /\ r2.status = "running" /\ r2.frame = NoFrame /\ in2 = Tail(in)
      BY <2>1, <3>1
    <3>3. TypeOK'
      BY <1>3, <1>6, <1>7, <3>2 DEF Inv, TypeOK
    <3>4. RendererOK(r2, in2, stdout'[p])
      BY <1>5, <3>2 DEF RendererOK
    <3>5. CASE in[1].msg.kind = "SetSandboxPolicy"
      <4>1. ReadsInto(r, in, r2)
        BY <1>2, <1>11, <3>1, <3>2, <3>5, SpecialMessages
           DEF ReadsInto, Sets, Answered, WithId, RenderOps
      <4> HIDE DEF r2, in2
      <4>2. Open /\ p = current => Sound(browser, r2, in2, stdout'[p], policy)
        BY <1>1, <1>2, <1>6, <1>9, <3>2, <4>1, ReadSound
      <4> QED
        BY <1>2, <1>6, <1>8, <3>2, <3>3, <3>4, <4>2, RendererKeeps DEF r2, in2
    <3>6. CASE in[1].msg.kind \in Answered
      <4>1. /\ ReplyTo(in[1].msg, r.allow_direct_document_loads, r2.reply)
            /\ r2.allow_direct_document_loads = r.allow_direct_document_loads
        BY <3>1, <3>6 DEF Answered, WithId, RenderOps
      <4> HIDE DEF r2, in2
      <4>2. ASSUME Open, p = current PROVE Sound(browser, r2, in2, stdout'[p], policy)
        <5>1. browser.pc \in {"idle", "sending", "receiving", "waiting", "dropping", "closing"}
          BY <4>2, OpenPlaces DEF Inv
        <5> HIDE DEF r, in
        <5>2. Sound(browser, r2, Tail(in), stdout[p], policy)
          BY <1>1, <1>2, <1>4, <1>9, <1>11, <3>2, <3>6, <4>1, <4>2, <5>1, ReplySound
        <5> QED
          BY <1>6, <3>2, <5>2
      <4> QED
        BY <1>2, <1>6, <1>8, <3>2, <3>3, <3>4, <4>2, RendererKeeps DEF r2, in2
    <3> QED
      BY <3>1, <3>5, <3>6
  <2> QED
    BY <2>2, <2>3
<1> QED
  BY <1>3, <1>10, <1>11 DEF Pieces

\* Half a request may be taken for a whole one at the end of the file: the
\* renderer has no owner then, and the current one always has.
LEMMA ReadEofKeeps ==
  ASSUME Inv, NEW p \in Spawned, ReadEof(p)
  PROVE  Inv'
<1>1. CASE Exit(p)
  BY <1>1, ExitKeeps DEF ReadEof, Reading
<1>2. ASSUME renderer[p].frame.got > 0,
             NEW x \in Handled(p, renderer[p].frame.msg),
             renderer' = [renderer EXCEPT ![p] = x],
             UNCHANGED <<browser, current, next_id, policy, outcome, stdin, stdout>>
      PROVE  Inv'
  <2> DEFINE r2 == renderer'[p]
  <2>1. /\ renderer[p] \in Renderers /\ RendererOK(renderer[p], stdin[p], stdout[p])
        /\ renderer[p].frame \in Frames
    BY RendererAt
  <2>2. Runs(p) /\ stdin[p] = <<>> /\ ~(Open /\ p = current)
    BY DEF ReadEof, Reading, Holds
  <2>3. renderer[p].frame.msg \in Messages /\ renderer[p].frame # NoFrame
    BY <1>2, <2>1, SpecialMessages DEF Frames
  <2>4. Legal(renderer[p].frame.msg)
    BY <2>1, <2>3 DEF RendererOK
  <2>5. r2 = x
    BY <1>2 DEF Inv, TypeOK
  <2>6. \/ r2 = Gone("exited")
        \/ r2 \in Renderers /\ r2.status = "running" /\ r2.frame = NoFrame
    BY <1>2, <2>1, <2>2, <2>3, <2>4, <2>5, HandledFacts
  <2>7. /\ r2 \in Renderers /\ r2.status \in {"running", "exited"} /\ r2.frame = NoFrame
        /\ r2.status # "running" => r2.reply = NoMessage
    BY <2>6, GoneFacts
  <2>8. TypeOK'
    BY <1>2, <2>5, <2>7 DEF Inv, TypeOK
  <2>9. RendererOK(r2, stdin'[p], stdout'[p])
    BY <1>2, <2>2, <2>7, LenProperties DEF RendererOK
  <2>10. Elsewhere(p)
    BY <1>2 DEF Elsewhere, Inv, TypeOK
  <2> HIDE DEF r2
  <2> QED
    BY <1>2, <2>2, <2>7, <2>8, <2>9, <2>10, RendererKeeps DEF r2
<1> QED
  BY <1>1, <1>2 DEF ReadEof

-----------------------------------------------------------------------------
(* The renderer writes.                                                     *)

\* One more piece of the reply; it is dropped with its last piece.
WritesOut(r, out, r2, out2) ==
  LET n == Len(out) + 1 IN
  /\ Len(out2) = n
  /\ \A i \in 1..Len(out) : out2[i] = out[i]
  /\ out2[n].msg = r.reply
  /\ r2.frame \in {r.frame, NoFrame}
  /\ r2.reply = (IF out2[n].last THEN NoMessage ELSE r.reply)
  /\ \/ r2.status = "running" /\ r2.allow_direct_document_loads = r.allow_direct_document_loads
     \/ r2.status = "exited" /\ out2[n].last

LEMMA WriteSound ==
  ASSUME NEW b, NEW r, NEW in \in Seq(Pieces), NEW out \in Seq(Pieces), NEW pol,
         Sound(b, r, in, out, pol), r.reply # NoMessage, r.status = "running",
         NEW r2, NEW out2 \in Seq(Pieces), WritesOut(r, out, r2, out2),
         b.pc \in {"idle", "sending", "receiving", "waiting", "dropping", "closing"}
  PROVE  Sound(b, r2, in, out2, pol)
<1>1. Len(out) \in Nat /\ ~Wanted(NoMessage) /\ NoFrame.msg = NoMessage /\ NoMessage # Farewell
  BY LenProperties, SpecialMessages
<1>2. /\ Len(out2) = Len(out) + 1
      /\ \A i \in 1..Len(out) : out2[i] = out[i]
      /\ out2[Len(out2)].msg = r.reply
      /\ r2.frame \in {r.frame, NoFrame}
      /\ r2.reply = (IF out2[Len(out2)].last THEN NoMessage ELSE r.reply)
  BY DEF WritesOut
<1>3. \A i \in 1..Len(out2) : i = Len(out2) \/ (i \in 1..Len(out) /\ out2[i] = out[i])
  BY <1>1, <1>2
<1>4. CASE b.pc = "closing"
  <2>1. Closes(b, r, in, out)
    BY <1>4 DEF Sound
  <2>2. \A i \in 1..Len(out2) : ~Wanted(out2[i].msg)
    BY <1>2, <1>3, <2>1 DEF Closes
  <2>3. NothingAsked(r2, in) /\ ~Wanted(r2.reply)
    BY <1>1, <1>2, <2>1 DEF Closes, NothingAsked
  <2> QED
    BY <1>4, <2>2, <2>3 DEF Sound, Closes
<1>5. CASE b.pc # "closing"
  <2>1. b.pc = "receiving" /\ Receives(b, r, in, out, pol)
    BY <1>5 DEF Sound, Sends, Silent
  <2>2. /\ in = <<>> /\ Len(in) = 0 /\ Answers(b, pol, r.reply)
        /\ \A i \in 1..Len(out) : ~out[i].last
    BY <2>1 DEF Receives
  <2>3. NothingAsked(r2, in) /\ OnlyAsked(b, r2, in) /\ NoFarewell(r2, in)
    <3>1. ~Wanted(r.frame.msg) /\ r.frame.msg # Farewell
      BY <1>5, <2>1 DEF Sound, NoFarewell, Receives, NothingAsked, Silent
    <3>2. ~Wanted(r2.frame.msg) /\ r2.frame.msg # Farewell
      BY <1>1, <1>2, <3>1
    <3> QED
      BY <2>2, <3>2 DEF NothingAsked, OnlyAsked, NoFarewell
  <2>4. \A i \in 1..Len(out2) : out2[i].last => i = Len(out2)
    BY <1>3, <2>2
  <2>5. \A i \in 1..Len(out2) : Answers(b, pol, out2[i].msg)
    BY <1>2, <1>3, <2>1, <2>2 DEF Receives
  <2>6. r2.reply # NoMessage =>
          /\ Answers(b, pol, r2.reply)
          /\ \A i \in 1..Len(out2) : ~out2[i].last
    BY <1>2, <1>3, <2>2
  <2>7. Receives(b, r2, in, out2, pol)
    BY <2>1, <2>2, <2>3, <2>4, <2>5, <2>6 DEF Receives
  <2>8. r2.status = "running" => InForce(r2, in, pol)
    <3>1. InForce(r, in, pol)
      BY <1>5 DEF Sound
    <3> QED
      BY <2>2, <3>1 DEF InForce, WritesOut
  <2> QED
    BY <1>5, <2>1, <2>2, <2>3, <2>7, <2>8 DEF Sound
<1> QED
  BY <1>4, <1>5

LEMMA WritingKeeps ==
  ASSUME Inv, NEW p \in Spawned, Writing(p), NEW r2 \in Renderers,
         renderer' = [renderer EXCEPT ![p] = r2],
         renderer[p].sent <= renderer[p].reply.len,
         r2.frame \in {renderer[p].frame, NoFrame},
         r2.reply = (IF renderer[p].sent = renderer[p].reply.len THEN NoMessage
                     ELSE renderer[p].reply),
         \/ /\ r2.status = "running"
            /\ r2.allow_direct_document_loads = renderer[p].allow_direct_document_loads
         \/ /\ renderer[p].sent = renderer[p].reply.len
            /\ r2.status = "exited" /\ r2.frame = NoFrame
  PROVE  Inv'
<1> DEFINE r == renderer[p]
           out2 == Put(stdout[p], r.reply, r.sent)
<1>1. /\ r \in Renderers /\ stdin[p] \in Seq(Pieces) /\ stdout[p] \in Seq(Pieces)
      /\ RendererOK(r, stdin[p], stdout[p]) /\ r.reply \in Messages /\ r.sent \in Nat
  BY RendererAt DEF Renderers
<1>2. /\ Runs(p) /\ r.status = "running" /\ r.reply # NoMessage
      /\ UNCHANGED <<browser, current, next_id, policy, outcome, stdin>>
      /\ stdout' = [stdout EXCEPT ![p] = out2]
  BY DEF Writing, Runs
<1>3. OnePieceMore(out2, stdout[p], r.reply, r.sent)
  <2> HIDE DEF r
  <2> QED
    BY <1>1, PutFacts
<1> HIDE DEF out2
<1>4. /\ renderer'[p] = r2 /\ stdin'[p] = stdin[p] /\ stdout'[p] = out2
      /\ Elsewhere(p)
  BY <1>2 DEF Elsewhere, Inv, TypeOK
<1>5. TypeOK'
  BY <1>2, <1>3 DEF Inv, TypeOK, OnePieceMore
<1>6. WritesOut(r, stdout[p], r2, out2)
  BY <1>3 DEF WritesOut, OnePieceMore
<1>7. RendererOK(r2, stdin[p], out2)
  <2>1. r2.status # "unborn" /\ (r2.status # "running" => r2.frame = NoFrame /\ r2.reply = NoMessage)
    OBVIOUS
  <2>2. r2.frame # NoFrame => r2.frame = r.frame
    OBVIOUS
  <2> QED
    BY <1>1, <2>1, <2>2 DEF RendererOK
<1>8. ASSUME Open, p = current PROVE Sound(browser, r2, stdin[p], out2, policy)
  <2>1. browser.pc \in {"idle", "sending", "receiving", "waiting", "dropping", "closing"}
    BY <1>8, OpenPlaces DEF Inv
  <2>2. Sound(browser, r, stdin[p], stdout[p], policy)
    BY <1>8 DEF Inv, Exchange
  <2> HIDE DEF r
  <2> QED
    BY <1>1, <1>2, <1>3, <1>6, <2>1, <2>2, WriteSound DEF OnePieceMore
<1> QED
  BY <1>2, <1>4, <1>5, <1>7, <1>8, RendererKeeps

LEMMA WritePieceKeeps ==
  ASSUME Inv, NEW p \in Spawned, WritePiece(p)
  PROVE  Inv'
<1> DEFINE r2 == [renderer[p] EXCEPT !.sent = renderer[p].sent + 1]
<1>1. renderer[p] \in Renderers /\ renderer[p].sent \in Nat /\ renderer[p].reply.len \in Nat
  BY RendererAt DEF Renderers, Messages
<1>2. /\ renderer[p].sent < renderer[p].reply.len /\ Runs(p) /\ Writing(p)
      /\ renderer' = [renderer EXCEPT ![p] = r2]
  BY DEF WritePiece, Writing, Inv, TypeOK
<1>3. r2 \in Renderers
  <2>1. renderer[p].sent + 1 \in Nat
    BY <1>1
  <2> QED
    BY <1>1, <2>1, RendererFieldsOK
<1>4. /\ r2.status = renderer[p].status /\ r2.frame = renderer[p].frame
      /\ r2.reply = renderer[p].reply
      /\ r2.allow_direct_document_loads = renderer[p].allow_direct_document_loads
  BY <1>1 DEF Renderers
<1> HIDE DEF r2
<1>5. /\ renderer[p].sent <= renderer[p].reply.len
      /\ renderer[p].sent # renderer[p].reply.len /\ r2.status = "running"
  BY <1>1, <1>2, <1>4 DEF Runs
<1>6. r2.reply = (IF renderer[p].sent = renderer[p].reply.len THEN NoMessage
                  ELSE renderer[p].reply)
  BY <1>4, <1>5
<1> QED
  BY <1>2, <1>3, <1>4, <1>5, <1>6, WritingKeeps

LEMMA WriteLastKeeps ==
  ASSUME Inv, NEW p \in Spawned, WriteLast(p)
  PROVE  Inv'
<1> DEFINE r1 == [renderer[p] EXCEPT !.reply = NoMessage]
           kept == [r1 EXCEPT !.sent = 0]
           r2 == IF renderer[p].reply.kind = "Goodbye" THEN Gone("exited") ELSE kept
<1>1. renderer[p] \in Renderers /\ renderer[p].sent \in Nat
  BY RendererAt DEF Renderers
<1>2. /\ renderer[p].sent = renderer[p].reply.len /\ renderer[p].status = "running" /\ Writing(p)
      /\ renderer' = [renderer EXCEPT ![p] = r2]
  BY DEF WriteLast, Writing, Runs, Inv, TypeOK
<1>3. r1 \in Renderers /\ r1.reply = NoMessage /\ r1.status = renderer[p].status
      /\ r1.frame = renderer[p].frame
      /\ r1.allow_direct_document_loads = renderer[p].allow_direct_document_loads
  BY <1>1, RendererFieldsOK, SpecialMessages DEF Renderers
<1> HIDE DEF r1
<1>4. kept \in Renderers
  BY <1>3, RendererFieldsOK
<1>5. /\ kept.reply = NoMessage /\ kept.status = r1.status /\ kept.frame = r1.frame
      /\ kept.allow_direct_document_loads = r1.allow_direct_document_loads
  BY <1>3 DEF Renderers
<1> HIDE DEF kept
<1>6. r2 = Gone("exited") \/ r2 = kept
  OBVIOUS
<1> HIDE DEF r2
<1>7. /\ r2 \in Renderers /\ r2.reply = NoMessage
      /\ r2.frame \in {renderer[p].frame, NoFrame}
      /\ \/ /\ r2.status = "running"
            /\ r2.allow_direct_document_loads = renderer[p].allow_direct_document_loads
         \/ r2.status = "exited" /\ r2.frame = NoFrame
  BY <1>2, <1>3, <1>4, <1>5, <1>6, GoneFacts
<1>8. renderer[p].sent <= renderer[p].reply.len
  BY <1>1, <1>2
<1>9. r2.reply = (IF renderer[p].sent = renderer[p].reply.len THEN NoMessage
                  ELSE renderer[p].reply)
  BY <1>2, <1>7
<1> QED
  BY <1>2, <1>7, <1>8, <1>9, WritingKeeps

LEMMA RendererStepKeeps ==
  ASSUME Inv, NEW p \in Spawned, RendererStep(p) \/ Crash(p)
  PROVE  Inv'
<1>1. CASE ReadPiece(p) \/ ReadEof(p) \/ WritePiece(p) \/ WriteLast(p)
  BY <1>1, ReadPieceKeeps, ReadEofKeeps, WritePieceKeeps, WriteLastKeeps
<1>2. CASE WriteFails(p) \/ Crash(p)
  BY <1>2, ExitKeeps DEF WriteFails, Crash
<1> QED
  BY <1>1, <1>2 DEF RendererStep

-----------------------------------------------------------------------------
(* The caller and the renderer it holds.                                    *)

LEMMA IdleFacts ==
  /\ Idle \in Callers /\ Idle.pc = "idle" /\ Idle.call = NoCall /\ Idle.id = 0
  /\ Idle.sent = 0 /\ Idle.frame = NoFrame /\ Idle.dropping = 0
BY SpecialMessages DEF Idle, Callers, Places

\* The caller is in no call, and may be giving a renderer up.
LEMMA RestFacts ==
  ASSUME NEW pc \in Places, NEW d \in Nat
  PROVE  LET b == [Idle EXCEPT !.pc = pc, !.dropping = d]
         IN  /\ b \in Callers /\ b.pc = pc /\ b.call = NoCall /\ b.id = 0
             /\ b.sent = 0 /\ b.frame = NoFrame /\ b.dropping = d
BY SpecialMessages DEF Idle, Callers

LEMMA CallerMoves ==
  ASSUME NEW b \in Callers, NEW pc \in Places, NEW n \in Nat
  PROVE  LET b2 == [b EXCEPT !.pc = pc, !.sent = n]
         IN  /\ b2 \in Callers /\ b2.pc = pc /\ b2.call = b.call /\ b2.id = b.id
             /\ b2.frame = b.frame /\ b2.dropping = b.dropping /\ b2.sent = n
BY DEF Callers

LEMMA CallerReads ==
  ASSUME NEW b \in Callers, NEW pc \in Places, NEW f \in Frames
  PROVE  LET b2 == [b EXCEPT !.pc = pc, !.frame = f]
         IN  /\ b2 \in Callers /\ b2.pc = pc /\ b2.call = b.call /\ b2.id = b.id
             /\ b2.frame = f /\ b2.dropping = b.dropping /\ b2.sent = b.sent
BY DEF Callers

\* A step of the caller in which no renderer is replaced or given up.
LEMMA CallerKeeps ==
  ASSUME Inv, Open, TypeOK', CallerOK', current' = current,
         browser'.pc \notin {"closed", "dead"}, browser'.dropping = browser.dropping,
         Elsewhere(current), renderer'[current].status # "unborn",
         RendererOK(renderer'[current], stdin'[current], stdout'[current]),
         Sound(browser', renderer'[current], stdin'[current], stdout'[current], policy')
  PROVE  Inv'
<1>1. RenderersOK'
  BY RenderersKept DEF Inv, TypeOK
<1>2. NoneLeftBehind'
  <2>1. \A q \in Spawned \ {current} : renderer'[q].status = renderer[q].status
    BY DEF Elsewhere
  <2> QED
    BY <2>1 DEF NoneLeftBehind, Inv, Open
<1>3. Exchange'
  BY DEF Exchange
<1> QED
  BY <1>1, <1>2, <1>3 DEF Inv

\* What is known of the caller and the renderer it holds.
LEMMA Held ==
  ASSUME Inv, Open
  PROVE  /\ current \in Spawned /\ browser \in Callers /\ browser.frame \in Frames
         /\ renderer[current] \in Renderers
         /\ stdin[current] \in Seq(Pieces) /\ stdout[current] \in Seq(Pieces)
         /\ RendererOK(renderer[current], stdin[current], stdout[current])
         /\ renderer[current].status # "unborn"
         /\ Sound(browser, renderer[current], stdin[current], stdout[current], policy)
BY RendererAt DEF Inv, TypeOK, Callers, Exchange

\* Nothing is under way: between two calls, and while another renderer is dropped.
Quiet(r, in, out, pol) ==
  /\ NoFarewell(r, in) /\ NothingAsked(r, in)
  /\ r.status = "running" => InForce(r, in, pol)
  /\ r.status # "running" => in = <<>>
  /\ r.reply = NoMessage /\ out = <<>>

LEMMA QuietIsSound ==
  ASSUME NEW b, NEW r, NEW in, NEW out, NEW pol
  PROVE  /\ b.pc \in {"idle", "dropping", "waiting"} =>
              (Sound(b, r, in, out, pol) <=> Quiet(r, in, out, pol) /\ b.frame = NoFrame)
         /\ b.pc = "sending" /\ b.frame = NoFrame /\ Quiet(r, in, out, pol)
              => Sound(b, r, in, out, pol)
         /\ b.pc = "closing" /\ Quiet(r, in, out, pol) => Sound(b, r, in, out, pol)
<1>1. b.pc \in {"idle", "dropping", "waiting"} =>
        (Sound(b, r, in, out, pol) <=> Quiet(r, in, out, pol) /\ b.frame = NoFrame)
  BY DEF Sound, Quiet, Silent
<1>2. b.pc = "sending" /\ b.frame = NoFrame /\ Quiet(r, in, out, pol)
        => Sound(b, r, in, out, pol)
  BY DEF Sound, Quiet, Silent, Sends, OnlyAsked, NothingAsked
<1>3. b.pc = "closing" /\ Quiet(r, in, out, pol) => Sound(b, r, in, out, pol)
  BY SpecialMessages, LenProperties DEF Sound, Quiet, Closes
<1> QED
  BY <1>1, <1>2, <1>3

\* Nothing is under way when the renderer of a call is gone and has been heard.
LEMMA GoneQuiet ==
  ASSUME NEW b, NEW r, NEW in, NEW out, NEW pol, Sound(b, r, in, out, pol),
         RendererOK(r, in, out), r.status # "running", b.pc # "closing",
         b.pc = "receiving" => out = <<>>,
         b.pc \in {"idle", "sending", "receiving", "waiting", "dropping"}
  PROVE  Quiet(r, in, out, pol)
<1>1. r.frame = NoFrame /\ r.reply = NoMessage /\ in = <<>> /\ Len(<<>>) = 0
  BY DEF RendererOK, Sound
<1>2. NothingAsked(r, in) /\ NoFarewell(r, in)
  BY <1>1, SpecialMessages DEF NothingAsked, NoFarewell
<1>3. out = <<>>
  BY DEF Sound, Sends, Silent
<1> QED
  BY <1>1, <1>2, <1>3 DEF Quiet

-----------------------------------------------------------------------------
(* A call is made and sent.                                                 *)

LEMMA CallKeeps ==
  ASSUME Inv, NEW c \in Calls, Call(c)
  PROVE  Inv'
<1> DEFINE id == IF c.op \in WithId THEN next_id ELSE 0
           b1 == [Idle EXCEPT !.pc = "sending", !.call = c]
           b2 == [b1 EXCEPT !.id = id]
<1>1. /\ browser = Idle /\ browser' = b2 /\ next_id' \in Nat
      /\ UNCHANGED <<current, policy, outcome, renderer, stdin, stdout>>
  BY DEF Call, Inv, TypeOK
<1>2. id \in Nat
  BY DEF Inv, TypeOK
<1>3. /\ b1 \in Callers /\ b1.pc = "sending" /\ b1.call = c /\ b1.frame = NoFrame
      /\ b1.dropping = 0
  BY IdleFacts DEF Callers, Places
<1> HIDE DEF b1
<1>4. /\ b2 \in Callers /\ b2.pc = "sending" /\ b2.call = c /\ b2.frame = NoFrame
      /\ b2.dropping = 0 /\ b2.id = id
  BY <1>2, <1>3 DEF Callers
<1> HIDE DEF b2
<1>5. TypeOK' /\ Open /\ Elsewhere(current)
  BY <1>1, <1>4, IdleFacts DEF Inv, TypeOK, Open, Elsewhere
<1>6. CallerOK'
  BY <1>1, <1>4 DEF CallerOK
<1>7. Quiet(renderer[current], stdin[current], stdout[current], policy)
  BY <1>1, <1>5, Held, IdleFacts, QuietIsSound
<1>8. Sound(b2, renderer[current], stdin[current], stdout[current], policy)
  BY <1>4, <1>7, QuietIsSound
<1> QED
  BY <1>1, <1>4, <1>5, <1>6, <1>8, Held, IdleFacts, CallerKeeps

\* A call returns and leaves nothing under way.
LEMMA ReturnKeeps ==
  ASSUME Inv, browser.pc \in {"idle", "sending", "receiving", "waiting"}, browser' = Idle,
         UNCHANGED current, Elsewhere(current), TypeOK', renderer'[current].status # "unborn",
         RendererOK(renderer'[current], stdin'[current], stdout'[current]),
         Quiet(renderer'[current], stdin'[current], stdout'[current], policy')
  PROVE  Inv'
<1>1. Open /\ browser.dropping = 0
  BY DEF Open, Inv, CallerOK
<1>2. CallerOK'
  BY IdleFacts, NoCallFacts DEF CallerOK, WithId, RenderOps
<1>3. Sound(browser', renderer'[current], stdin'[current], stdout'[current], policy')
  BY IdleFacts, QuietIsSound
<1> QED
  BY <1>1, <1>2, <1>3, IdleFacts, CallerKeeps

LEMMA SendFailsKeeps ==
  ASSUME Inv, SendFails
  PROVE  Inv'
<1>1. /\ browser.pc = "sending" /\ browser' = Idle
      /\ TooLongToWrite(Request) \/ renderer[current].status # "running"
      /\ UNCHANGED <<current, next_id, policy, renderer, stdin, stdout>>
  BY DEF SendFails, Return, Runs
<1>2. Open /\ TypeOK' /\ Elsewhere(current)
  BY <1>1, IdleFacts DEF Open, Inv, TypeOK, Elsewhere
<1>3. Quiet(renderer[current], stdin[current], stdout[current], policy)
  <2>1. CASE TooLongToWrite(Request)
    BY <1>1, <1>2, <2>1, Held DEF Sound, Sends, Asked, Request, Quiet, Silent
  <2>2. CASE renderer[current].status # "running"
    BY <1>1, <1>2, <2>2, Held, GoneQuiet
  <2> QED
    BY <1>1, <2>1, <2>2
<1> QED
  BY <1>1, <1>2, <1>3, Held, ReturnKeeps

\* What another piece of a message makes of the policy to come.
LEMMA PutInForce ==
  ASSUME NEW in \in Seq(Pieces), NEW m \in Messages, NEW n \in Nat, NEW r, NEW pol, NEW pol2,
         InForce(r, in, pol),
         pol2 = IF n = m.len /\ m.kind = "SetSandboxPolicy" THEN m.call.allow ELSE pol
  PROVE  InForce(r, Put(in, m, n), pol2)
<1> DEFINE in2 == Put(in, m, n)
           k == Len(in) + 1
<1>0. OnePieceMore(in2, in, m, n)
  BY PutFacts
<1> HIDE DEF in2
<1>1. /\ Len(in2) = k /\ Len(in) \in Nat /\ in2[k].msg = m
      /\ in2[k].last <=> n = m.len
  BY <1>0 DEF OnePieceMore
<1>2. \A i \in 1..Len(in) : in2[i] = in[i]
  BY <1>0 DEF OnePieceMore
<1>3. /\ \A i \in 1..Len(in) : Sets(in2, i) <=> Sets(in, i)
      /\ Sets(in2, k) <=> n = m.len /\ m.kind = "SetSandboxPolicy"
  BY <1>1, <1>2 DEF Sets
<1>4. \A i \in 1..k : i = k \/ i \in 1..Len(in)
  BY <1>1
<1>5. CASE n = m.len /\ m.kind = "SetSandboxPolicy"
  <2>1. k \in 1..Len(in2) /\ Sets(in2, k) /\ in2[k].msg.call.allow = pol2
    BY <1>1, <1>3, <1>5
  <2>2. ASSUME NEW i \in 1..Len(in2), \A j \in 1..Len(in2) : Sets(in2, j) => j <= i
        PROVE  i = k
    <3>1. k <= i /\ i \in 1..k
      BY <1>1, <2>1, <2>2
    <3> QED
      BY <1>1, <3>1
  <2> QED
    BY <2>1, <2>2 DEF InForce, in2
<1>6. CASE ~(n = m.len /\ m.kind = "SetSandboxPolicy")
  <2>1. pol2 = pol /\ ~Sets(in2, k)
    BY <1>3, <1>6
  <2>2. ASSUME \A i \in 1..Len(in2) : ~Sets(in2, i)
        PROVE  r.allow_direct_document_loads = pol2
    <3>1. \A i \in 1..Len(in) : i \in 1..Len(in2) /\ ~Sets(in, i)
      BY <1>1, <1>3, <2>2
    <3> QED
      BY <2>1, <3>1 DEF InForce
  <2>3. ASSUME NEW i \in 1..Len(in2), Sets(in2, i),
               \A j \in 1..Len(in2) : Sets(in2, j) => j <= i
        PROVE  in2[i].msg.call.allow = pol2
    <3>1. i \in 1..Len(in)
      BY <1>1, <1>4, <2>1, <2>3
    <3>2. Sets(in, i) /\ in2[i] = in[i]
      BY <1>2, <1>3, <2>3, <3>1
    <3>3. \A j \in 1..Len(in) : Sets(in, j) => j <= i
      <4>1. \A j \in 1..Len(in) : j \in 1..Len(in2)
        BY <1>1
      <4> QED
        BY <1>3, <2>3, <4>1
    <3> QED
      BY <2>1, <3>1, <3>2, <3>3 DEF InForce
  <2> QED
    BY <2>2, <2>3 DEF InForce, in2
<1> QED
  BY <1>5, <1>6

\* Every piece but the last leaves the call where it is.
LEMMA SendSound ==
  ASSUME NEW b, NEW r, NEW in \in Seq(Pieces), NEW out, NEW pol, NEW n \in Nat, NEW b2,
         Sound(b, r, in, out, pol), b.pc = "sending", b2.pc = "sending",
         b2.call = b.call, b2.id = b.id, b2.frame = b.frame, b.call \in Calls, b.id \in Nat,
         r.status = "running", ~TooLongToWrite(Asked(b)), n # Asked(b).len
  PROVE  Sound(b2, r, Put(in, Asked(b), n), out, pol)
<1> DEFINE m == Asked(b)
           in2 == Put(in, m, n)
<1>1. m \in Messages /\ m # Farewell /\ Asked(b2) = m
  BY RequestFacts DEF Asked
<1>2. OnePieceMore(in2, in, m, n)
  <2> HIDE DEF m
  <2> QED
    BY <1>1, PutFacts
<1> HIDE DEF in2
<1>3. \A i \in 1..Len(in2) : i = Len(in) + 1 \/ (i \in 1..Len(in) /\ in2[i] = in[i])
  <2>0. Len(in2) = Len(in) + 1 /\ Len(in) \in Nat
    BY <1>2 DEF OnePieceMore
  <2>1. \A i \in 1..Len(in2) : i = Len(in) + 1 \/ i \in 1..Len(in)
    BY <2>0
  <2> QED
    BY <1>2, <2>1 DEF OnePieceMore
<1>4. InForce(r, in2, pol)
  <2>1. InForce(r, in, pol)
    BY DEF Sound
  <2> HIDE DEF m
  <2> QED
    BY <1>1, <2>1, PutInForce DEF m, in2
<1>5. NoFarewell(r, in2)
  BY <1>1, <1>2, <1>3 DEF Sound, NoFarewell, OnePieceMore
<1>6. OnlyAsked(b2, r, in2)
  BY <1>1, <1>2, <1>3 DEF Sound, Sends, OnlyAsked, OnePieceMore
<1>7. Silent(b2, r, out)
  BY DEF Sound, Sends, Silent
<1>8. \A i \in 1..Len(in2) : Wanted(in2[i].msg) => ~in2[i].last
  BY <1>2, <1>3 DEF Sound, Sends, OnePieceMore
<1>9. Sound(b2, r, in2, out, pol)
  BY <1>1, <1>4, <1>5, <1>6, <1>7, <1>8 DEF Sound, Sends
<1> QED
  BY <1>9 DEF in2

\* The last piece: the caller waits for the reply to a request, and is done with
\* any other message.
LEMMA SendLastSound ==
  ASSUME NEW b, NEW r, NEW in \in Seq(Pieces), NEW out, NEW pol, NEW b2, NEW pol2,
         Sound(b, r, in, out, pol), b.pc = "sending", b.call \in Calls, b.id \in Nat,
         r.status = "running", ~TooLongToWrite(Asked(b)),
         pol2 = IF b.call.op = "SetSandboxPolicy" THEN b.call.allow ELSE pol
  PROVE  LET in2 == Put(in, Asked(b), Asked(b).len)
         IN  /\ b.call.op \notin Answered => Quiet(r, in2, out, pol2)
             /\ /\ b.call.op \in Answered /\ b2.pc = "receiving" /\ b2.frame = b.frame
                /\ b2.call = b.call /\ b2.id = b.id
                => Sound(b2, r, in2, out, pol2)
<1> DEFINE m == Asked(b)
           in2 == Put(in, m, m.len)
<1>1. /\ m \in Messages /\ m # Farewell /\ m.kind = b.call.op /\ m.call = b.call
      /\ m.len \in Nat
  BY RequestFacts DEF Asked
<1>2. OnePieceMore(in2, in, m, m.len)
  <2> DEFINE n == m.len
  <2> HIDE DEF m, n
  <2>1. n \in Nat
    BY <1>1 DEF n
  <2>2. OnePieceMore(Put(in, m, n), in, m, n)
    BY <1>1, <2>1, PutFacts
  <2> QED
    BY <2>2 DEF n
<1> HIDE DEF in2
<1>3. \A i \in 1..Len(in2) : i = Len(in) + 1 \/ (i \in 1..Len(in) /\ in2[i] = in[i])
  <2>0. Len(in2) = Len(in) + 1 /\ Len(in) \in Nat
    BY <1>2 DEF OnePieceMore
  <2>1. \A i \in 1..Len(in2) : i = Len(in) + 1 \/ i \in 1..Len(in)
    BY <2>0
  <2> QED
    BY <1>2, <2>1 DEF OnePieceMore
<1>4. InForce(r, in2, pol2)
  <2>1. InForce(r, in, pol)
    BY DEF Sound
  <2>2. pol2 = IF m.len = m.len /\ m.kind = "SetSandboxPolicy" THEN m.call.allow ELSE pol
    BY <1>1
  <2> HIDE DEF m
  <2> QED
    BY <1>1, <2>1, <2>2, PutInForce DEF m, in2
<1>5. NoFarewell(r, in2)
  BY <1>1, <1>2, <1>3 DEF Sound, NoFarewell, OnePieceMore
<1>6. OnlyAsked(b, r, in2)
  BY <1>1, <1>2, <1>3 DEF Sound, Sends, OnlyAsked, OnePieceMore
<1>7. Silent(b, r, out) /\ r.reply = NoMessage /\ out = <<>>
  BY DEF Sound, Sends, Silent
<1>8. ASSUME b.call.op \notin Answered PROVE Quiet(r, in2, out, pol2)
  <2>1. ~Wanted(m)
    BY <1>1, <1>8 DEF Wanted
  <2>2. NothingAsked(r, in2)
    BY <1>6, <2>1 DEF OnlyAsked, NothingAsked
  <2> QED
    BY <1>4, <1>5, <1>7, <2>2 DEF Quiet
<1>9. ASSUME b.call.op \in Answered, b2.pc = "receiving", b2.frame = b.frame,
             b2.call = b.call, b2.id = b.id
      PROVE  Sound(b2, r, in2, out, pol2)
  <2>1. Asked(b2) = Asked(b) /\ OnlyAsked(b2, r, in2) /\ Silent(b2, r, out)
    BY <1>6, <1>7, <1>9 DEF Asked, OnlyAsked, Silent
  <2>2. \A i \in 1..Len(in2) : Wanted(in2[i].msg) /\ in2[i].last => i = Len(in2)
    BY <1>2, <1>3 DEF Sound, Sends, OnePieceMore
  <2>3. Len(out) = 0 /\ b2.frame = NoFrame
    BY <1>7, <2>1 DEF Silent
  <2>4. Receives(b2, r, in2, out, pol2)
    BY <1>7, <2>1, <2>2, <2>3 DEF Receives
  <2> QED
    BY <1>4, <1>5, <1>9, <2>4 DEF Sound
<1> QED
  BY <1>8, <1>9 DEF in2

\* What the two steps that send have in common.
LEMMA SendingFacts ==
  ASSUME Inv, Sending, NEW n \in Nat, n = browser.sent
  PROVE  /\ Open /\ browser.pc = "sending" /\ browser.call \in Calls /\ browser.id \in Nat
         /\ browser.sent \in Nat /\ browser.dropping = 0
         /\ Runs(current) /\ ~TooLongToWrite(Asked(browser)) /\ Asked(browser) = Request
         /\ stdin'[current] = Put(stdin[current], Asked(browser), n)
         /\ UNCHANGED <<current, next_id, renderer, stdout>>
         /\ Elsewhere(current)
         /\ stdin' \in [Spawned -> Seq(Pieces)]
         /\ RendererOK(renderer'[current], stdin'[current], stdout'[current])
<1> DEFINE m == Asked(browser)
           in == stdin[current]
<1>1. /\ browser.pc = "sending" /\ Runs(current) /\ ~TooLongToWrite(m) /\ m = Request
      /\ stdin' = [stdin EXCEPT ![current] = Put(in, m, n)]
      /\ UNCHANGED <<current, next_id, renderer, stdout>>
  BY DEF Sending, Asked, Request
<1>2. Open
  BY <1>1 DEF Open
<1>3. /\ browser.call \in Calls /\ browser.id \in Nat /\ browser.sent \in Nat
      /\ browser.dropping = 0
  BY <1>1 DEF Inv, TypeOK, Callers, CallerOK
<1>4. m \in Messages /\ Legal(m)
  BY <1>3, RequestFacts DEF Asked, Legal
<1>5. in \in Seq(Pieces) /\ RendererOK(renderer[current], in, stdout[current])
  BY <1>2, Held
<1>6. stdin'[current] = Put(in, m, n) /\ Elsewhere(current)
  BY <1>1 DEF Inv, TypeOK, Elsewhere
<1> HIDE DEF m, in
<1>7. OnePieceMore(Put(in, m, n), in, m, n)
  BY <1>4, <1>5, PutFacts
<1>9. stdin' \in [Spawned -> Seq(Pieces)]
  BY <1>1, <1>7 DEF Inv, TypeOK, OnePieceMore
<1>10. RendererOK(renderer'[current], stdin'[current], stdout'[current])
  <2>1. \A i \in 1..Len(Put(in, m, n)) : i = Len(in) + 1 \/ i \in 1..Len(in)
    BY <1>7 DEF OnePieceMore
  <2>2. \A i \in 1..Len(Put(in, m, n)) : Legal(Put(in, m, n)[i].msg)
    BY <1>4, <1>5, <1>7, <2>1 DEF RendererOK, OnePieceMore
  <2> QED
    BY <1>1, <1>5, <1>6, <2>2 DEF RendererOK, Runs
<1> QED
  BY <1>1, <1>2, <1>3, <1>6, <1>9, <1>10 DEF m, in

LEMMA SendPieceKeeps ==
  ASSUME Inv, SendPiece
  PROVE  Inv'
<1> DEFINE n == browser.sent
           k == n + 1
           b2 == [browser EXCEPT !.pc = "sending", !.sent = k]
<1>1. /\ Sending /\ n < Request.len /\ browser' = [browser EXCEPT !.sent = n + 1]
      /\ UNCHANGED <<policy, outcome>>
  BY DEF SendPiece
<1>2. n \in Nat /\ browser \in Callers
  BY DEF Inv, TypeOK, Callers
<1>3. browser' = b2
  BY <1>1, <1>2 DEF Callers, Sending
<1>4. /\ b2 \in Callers /\ b2.pc = "sending" /\ b2.call = browser.call
      /\ b2.id = browser.id /\ b2.frame = browser.frame /\ b2.dropping = browser.dropping
  <2>1. k \in Nat
    BY <1>2
  <2> HIDE DEF k
  <2> QED
    BY <1>2, <2>1 DEF Callers, Places
<1> HIDE DEF b2
<1>5. /\ Open /\ browser.pc = "sending" /\ browser.call \in Calls /\ browser.id \in Nat
      /\ browser.dropping = 0
      /\ Runs(current) /\ ~TooLongToWrite(Asked(browser)) /\ Asked(browser) = Request
      /\ stdin'[current] = Put(stdin[current], Asked(browser), n)
      /\ UNCHANGED <<current, next_id, renderer, stdout>>
      /\ Elsewhere(current)
      /\ stdin' \in [Spawned -> Seq(Pieces)]
      /\ RendererOK(renderer'[current], stdin'[current], stdout'[current])
  BY <1>1, <1>2, SendingFacts
<1>6. TypeOK'
  BY <1>1, <1>3, <1>4, <1>5 DEF Inv, TypeOK
<1>7. CallerOK'
  BY <1>3, <1>4, <1>5 DEF CallerOK, Inv
<1>8. n # Asked(browser).len
  BY <1>1, <1>2, <1>5
<1> HIDE DEF n
<1>9. Sound(b2, renderer[current], Put(stdin[current], Asked(browser), n), stdout[current], policy)
  BY <1>2, <1>4, <1>5, <1>8, Held, SendSound DEF Runs
<1> QED
  BY <1>1, <1>3, <1>4, <1>5, <1>6, <1>7, <1>9, Held, CallerKeeps

LEMMA SendLastKeeps ==
  ASSUME Inv, SendLast
  PROVE  Inv'
<1> DEFINE n == browser.sent
           b2 == [browser EXCEPT !.pc = "receiving", !.sent = 0]
<1>1. /\ Sending /\ n = Request.len
      /\ browser' = IF browser.call.op \in Answered THEN b2 ELSE Idle
      /\ policy' = IF browser.call.op = "SetSandboxPolicy" THEN browser.call.allow ELSE policy
  BY DEF SendLast, Return
<1>2. n \in Nat /\ browser \in Callers
  BY DEF Inv, TypeOK, Callers
<1>3. /\ b2 \in Callers /\ b2.pc = "receiving" /\ b2.call = browser.call
      /\ b2.id = browser.id /\ b2.frame = browser.frame /\ b2.dropping = browser.dropping
  BY <1>2 DEF Callers, Places
<1> HIDE DEF b2
<1>4. /\ Open /\ browser.pc = "sending" /\ browser.call \in Calls /\ browser.id \in Nat
      /\ browser.dropping = 0
      /\ Runs(current) /\ ~TooLongToWrite(Asked(browser)) /\ Asked(browser) = Request
      /\ stdin'[current] = Put(stdin[current], Asked(browser), n)
      /\ UNCHANGED <<current, next_id, renderer, stdout>>
      /\ Elsewhere(current)
      /\ stdin' \in [Spawned -> Seq(Pieces)]
      /\ RendererOK(renderer'[current], stdin'[current], stdout'[current])
  BY <1>1, <1>2, SendingFacts
<1>5. policy' \in BOOLEAN
  BY <1>1, <1>4, CallFacts DEF Inv, TypeOK
<1>6. TypeOK'
  BY <1>1, <1>3, <1>4, <1>5, IdleFacts DEF Inv, TypeOK
<1>7. stdin'[current] = Put(stdin[current], Asked(browser), Asked(browser).len)
  BY <1>1, <1>4
<1>8. /\ Sound(browser, renderer[current], stdin[current], stdout[current], policy)
      /\ stdin[current] \in Seq(Pieces) /\ renderer[current].status = "running"
  BY <1>4, Held DEF Runs
<1>9. CASE browser.call.op \notin Answered
  <2>1. Quiet(renderer[current], stdin'[current], stdout[current], policy')
    BY <1>1, <1>4, <1>7, <1>8, <1>9, SendLastSound
  <2> QED
    BY <1>1, <1>4, <1>6, <1>8, <1>9, <2>1, ReturnKeeps
<1>10. CASE browser.call.op \in Answered
  <2>1. Sound(b2, renderer[current], stdin'[current], stdout[current], policy')
    BY <1>1, <1>3, <1>4, <1>7, <1>8, <1>10, SendLastSound
  <2>2. CallerOK'
    BY <1>1, <1>3, <1>4, <1>10 DEF CallerOK, Inv
  <2> QED
    BY <1>1, <1>3, <1>4, <1>6, <1>8, <1>10, <2>1, <2>2, CallerKeeps
<1> QED
  BY <1>9, <1>10

-----------------------------------------------------------------------------
(* A reply is received.                                                     *)

LEMMA ReceiveSound ==
  ASSUME NEW b, NEW r, NEW in, NEW out \in Seq(Pieces), NEW pol, NEW b2,
         Sound(b, r, in, out, pol), b.pc = "receiving", out # <<>>
  PROVE  /\ /\ b2.pc = "receiving" /\ b2.call = b.call /\ b2.id = b.id
            /\ b2.frame.msg = out[1].msg
            => Sound(b2, r, in, Tail(out), pol)
         /\ out[1].last => Quiet(r, in, Tail(out), pol)
<1> DEFINE out2 == Tail(out)
<1>1. /\ 1 \in 1..Len(out) /\ Len(out) \in Nat \ {0} /\ Len(out2) = Len(out) - 1
      /\ out2 \in Seq(Pieces)
      /\ \A i \in 1..(Len(out) - 1) : out2[i] = out[i + 1]
  BY TailFacts
<1> HIDE DEF out2
<1>2. Receives(b, r, in, out, pol)
  BY DEF Sound
<1>3. NothingAsked(r, in)
  BY <1>2 DEF Receives, Silent
<1>4. \A i \in 1..Len(out2) : i + 1 \in 1..Len(out) /\ out2[i] = out[i + 1]
  BY <1>1
<1>5. ASSUME b2.pc = "receiving", b2.call = b.call, b2.id = b.id, b2.frame.msg = out[1].msg
      PROVE  Sound(b2, r, in, out2, pol)
  <2>1. \A m : Answers(b2, pol, m) <=> Answers(b, pol, m)
    BY <1>5 DEF Answers
  <2>2. Answers(b2, pol, b2.frame.msg)
    BY <1>1, <1>2, <1>5, <2>1 DEF Receives
  <2>3. \A i \in 1..Len(out2) : Answers(b2, pol, out2[i].msg)
    BY <1>2, <1>4, <2>1 DEF Receives
  <2>4. \A i \in 1..Len(out2) : out2[i].last => i = Len(out2)
    <3> SUFFICES ASSUME NEW i \in 1..Len(out2), out2[i].last PROVE i = Len(out2)
      OBVIOUS
    <3>1. i + 1 = Len(out)
      BY <1>2, <1>4 DEF Receives
    <3> QED
      BY <1>1, <3>1
  <2>5. r.reply # NoMessage => \A i \in 1..Len(out2) : ~out2[i].last
    BY <1>2, <1>4 DEF Receives
  <2>6. OnlyAsked(b2, r, in)
    BY <1>2, <1>5 DEF Receives, OnlyAsked, Asked
  <2>7. Receives(b2, r, in, out2, pol)
    BY <1>2, <1>3, <2>1, <2>2, <2>3, <2>4, <2>5, <2>6 DEF Receives
  <2> QED
    BY <1>5, <2>7 DEF Sound
<1>6. ASSUME out[1].last PROVE Quiet(r, in, out2, pol)
  <2>1. r.reply = NoMessage /\ Len(out) = 1
    BY <1>1, <1>2, <1>6 DEF Receives
  <2>2. out2 = <<>>
    BY <1>1, <2>1, EmptySeq
  <2> QED
    BY <1>3, <2>1, <2>2 DEF Sound, Quiet
<1> QED
  BY <1>5, <1>6 DEF out2

\* The caller takes the message m for the answer, or returns with an error.
LEMMA AcceptKeeps ==
  ASSUME Inv, browser.pc = "receiving", NEW m, NEW result,
         Accept(m, result) \/ Return(result),
         UNCHANGED <<current, next_id, policy, renderer, stdin>>,
         stdout' \in [Spawned -> Seq(Pieces)], Elsewhere(current),
         RendererOK(renderer'[current], stdin'[current], stdout'[current]),
         Quiet(renderer'[current], stdin'[current], stdout'[current], policy')
  PROVE  Inv'
<1>1. Open /\ browser.dropping = 0
  BY DEF Open, Inv, CallerOK
<1>2. renderer'[current].status # "unborn"
  BY <1>1, Held
<1>3. CASE browser' = Idle
  <2>1. TypeOK'
    BY <1>3, IdleFacts DEF Inv, TypeOK
  <2> QED
    BY <1>2, <1>3, <2>1, ReturnKeeps
<1>4. CASE /\ browser' = [browser EXCEPT !.pc = "waiting", !.frame = NoFrame]
           /\ Expected(m) /\ m.kind = "Goodbye"
  <2>1. /\ browser' \in Callers /\ browser'.pc = "waiting" /\ browser'.frame = NoFrame
        /\ browser'.call = browser.call /\ browser'.id = browser.id
        /\ browser'.dropping = browser.dropping
    BY <1>1, <1>4, Held, SpecialMessages DEF Callers, Places
  <2>2. TypeOK'
    BY <2>1 DEF Inv, TypeOK
  <2>3. browser.call.op = "Shutdown"
    BY <1>4 DEF Expected
  <2>4. CallerOK'
    BY <1>1, <2>1, <2>3 DEF Inv, CallerOK
  <2>5. Sound(browser', renderer'[current], stdin'[current], stdout'[current], policy')
    BY <2>1, QuietIsSound
  <2> QED
    BY <1>1, <1>2, <2>1, <2>2, <2>4, <2>5, CallerKeeps
<1> QED
  BY <1>3, <1>4 DEF Accept, Return

LEMMA ReceivePieceKeeps ==
  ASSUME Inv, ReceivePiece
  PROVE  Inv'
<1> DEFINE out == stdout[current]
<1>1. /\ browser.pc = "receiving" /\ out # <<>>
      /\ stdout' = [stdout EXCEPT ![current] = Tail(out)]
      /\ UNCHANGED <<current, next_id, policy, renderer, stdin>>
  BY DEF ReceivePiece
<1>2. Open
  BY <1>1 DEF Open
<1>3. /\ current \in Spawned /\ browser \in Callers /\ browser.frame \in Frames
      /\ renderer[current] \in Renderers /\ out \in Seq(Pieces)
      /\ RendererOK(renderer[current], stdin[current], out)
      /\ renderer[current].status # "unborn"
      /\ Sound(browser, renderer[current], stdin[current], out, policy)
  BY <1>2, Held
<1>4. /\ Head(out) = out[1] /\ out[1] \in Pieces /\ Tail(out) \in Seq(Pieces)
  BY <1>1, <1>3, TailFacts
<1>5. /\ stdout' \in [Spawned -> Seq(Pieces)] /\ stdout'[current] = Tail(out)
      /\ Elsewhere(current)
  BY <1>1, <1>4 DEF Inv, TypeOK, Elsewhere
<1>6. RendererOK(renderer'[current], stdin'[current], stdout'[current])
  BY <1>1, <1>3 DEF RendererOK
<1>7. CASE ~out[1].last
  <2> DEFINE f == Frame(out[1].msg, browser.frame.got + 1)
             b2 == [browser EXCEPT !.pc = "receiving", !.frame = f]
  <2>1. f \in Frames /\ f.msg = out[1].msg
    BY <1>3, <1>4, FrameFacts DEF Frames, Pieces
  <2>2. browser' = [browser EXCEPT !.frame = f]
    BY <1>4, <1>7 DEF ReceivePiece
  <2> HIDE DEF f
  <2>3. browser' = b2
    BY <1>1, <1>3, <2>2 DEF Callers
  <2>4. /\ b2 \in Callers /\ b2.pc = "receiving" /\ b2.call = browser.call
        /\ b2.id = browser.id /\ b2.frame = f /\ b2.dropping = browser.dropping
    BY <1>3, <2>1 DEF Callers, Places
  <2> HIDE DEF b2
  <2>5. TypeOK'
    BY <1>1, <1>5, <2>3, <2>4 DEF Inv, TypeOK
  <2>6. CallerOK'
    BY <1>1, <2>3, <2>4 DEF Inv, CallerOK
  <2> HIDE DEF out
  <2>7. Sound(b2, renderer[current], stdin[current], Tail(out), policy)
    BY <1>1, <1>3, <2>1, <2>4, ReceiveSound
  <2> QED
    BY <1>1, <1>2, <1>3, <1>5, <1>6, <2>3, <2>4, <2>5, <2>6, <2>7, CallerKeeps
<1>8. CASE out[1].last
  <2>1. Quiet(renderer[current], stdin[current], Tail(out), policy)
    <3> HIDE DEF out
    <3> QED
      BY <1>1, <1>3, <1>8, ReceiveSound
  <2>2. Accept(out[1].msg, "ok") \/ Return("error")
    BY <1>4, <1>8 DEF ReceivePiece
  <2>3. CASE Accept(out[1].msg, "ok")
    BY <1>1, <1>5, <1>6, <2>1, <2>3, AcceptKeeps
  <2>4. CASE Return("error")
    BY <1>1, <1>5, <1>6, <2>1, <2>4, AcceptKeeps
  <2> QED
    BY <2>2, <2>3, <2>4
<1> QED
  BY <1>4, <1>7, <1>8 DEF Pieces

LEMMA ReceiveEofKeeps ==
  ASSUME Inv, ReceiveEof
  PROVE  Inv'
<1>1. /\ browser.pc = "receiving" /\ stdout[current] = <<>>
      /\ renderer[current].status # "running"
      /\ UNCHANGED <<current, next_id, policy, renderer, stdin, stdout>>
  BY DEF ReceiveEof, Runs
<1>2. Open
  BY <1>1 DEF Open
<1>3. /\ stdout' \in [Spawned -> Seq(Pieces)] /\ Elsewhere(current)
      /\ RendererOK(renderer'[current], stdin'[current], stdout'[current])
  BY <1>1, <1>2, Held DEF Inv, TypeOK, Elsewhere
<1>4. Quiet(renderer'[current], stdin'[current], stdout'[current], policy')
  BY <1>1, <1>2, Held, GoneQuiet
<1>5. \E result : Accept(browser.frame.msg, result) \/ Return(result)
  BY DEF ReceiveEof
<1> QED
  BY <1>1, <1>3, <1>4, <1>5, AcceptKeeps

-----------------------------------------------------------------------------
(* A renderer is waited for, replaced or given up.                          *)

\* The renderer the caller holds is gone and is waited for.
LEMMA ReapCurrentKeeps ==
  ASSUME Inv, browser.pc \in {"idle", "waiting"}, renderer[current].status # "running",
         Reap(current), browser' = Idle, UNCHANGED <<current, next_id, policy, stdin, stdout>>
  PROVE  Inv'
<1>1. Open
  BY DEF Open
<1>2. current \in Spawned /\ RendererOK(renderer[current], stdin[current], stdout[current])
  BY <1>1, Held
<1>3. /\ renderer'[current] = Gone("reaped") /\ Elsewhere(current)
      /\ renderer' \in [Spawned -> Renderers]
  BY <1>2, GoneFacts DEF Reap, Inv, TypeOK, Elsewhere
<1>4. TypeOK'
  BY <1>3, IdleFacts DEF Inv, TypeOK
<1>5. Quiet(renderer[current], stdin[current], stdout[current], policy)
  BY <1>1, Held, GoneQuiet
<1>6. stdin[current] = <<>> /\ stdout[current] = <<>> /\ Len(<<>>) = 0
  BY <1>5 DEF Quiet
<1>7. RendererOK(renderer'[current], stdin'[current], stdout'[current])
  BY <1>3, <1>6, GoneFacts DEF RendererOK
<1>8. Quiet(renderer'[current], stdin'[current], stdout'[current], policy')
  BY <1>3, <1>6, GoneFacts, SpecialMessages DEF Quiet, NoFarewell, NothingAsked
<1> QED
  BY <1>3, <1>4, <1>7, <1>8, GoneFacts, ReturnKeeps

LEMMA WaitExitKeeps ==
  ASSUME Inv, WaitExit
  PROVE  Inv'
BY ReapCurrentKeeps DEF WaitExit, Return, Runs

LEMMA IsAliveKeeps ==
  ASSUME Inv, IsAlive
  PROVE  Inv'
BY ReapCurrentKeeps, IdleFacts DEF IsAlive

LEMMA RespawnKeeps ==
  ASSUME Inv, Respawn
  PROVE  Inv'
<1>1. PICK p \in Spawned : /\ renderer[p].status = "unborn" /\ current' = p
                           /\ renderer' = [renderer EXCEPT ![p] = Born]
  BY DEF Respawn
<1> DEFINE old == current
           b2 == [Idle EXCEPT !.pc = "dropping", !.dropping = old]
<1>2. /\ browser = Idle /\ browser' = b2 /\ next_id' = 1 /\ policy' = TRUE
      /\ UNCHANGED <<outcome, stdin, stdout>>
  BY DEF Respawn
<1>3. Open /\ browser.dropping = 0
  BY <1>2, IdleFacts DEF Open
<1>4. old \in Spawned /\ old \in Nat /\ renderer[old].status # "unborn" /\ old # p
  BY <1>1, <1>3, Held DEF Spawned
<1>5. /\ b2 \in Callers /\ b2.pc = "dropping" /\ b2.call = NoCall /\ b2.id = 0
      /\ b2.frame = NoFrame /\ b2.dropping = old
  BY <1>4, RestFacts DEF Places
<1> HIDE DEF b2
<1>6. /\ renderer'[p] = Born /\ stdin'[p] = <<>> /\ stdout'[p] = <<>> /\ Elsewhere(p)
      /\ renderer' \in [Spawned -> Renderers]
  BY <1>1, <1>2, BornFacts DEF Inv, TypeOK, Elsewhere, RenderersOK, RendererOK
<1>7. TypeOK'
  BY <1>1, <1>2, <1>5, <1>6 DEF Inv, TypeOK
<1>8. CallerOK'
  BY <1>1, <1>2, <1>4, <1>5, NoCallFacts DEF CallerOK, WithId, RenderOps
<1>9. RenderersOK'
  <2>1. Len(<<>>) = 0
    OBVIOUS
  <2>2. RendererOK(renderer'[p], stdin'[p], stdout'[p])
    BY <1>6, <2>1, BornFacts DEF RendererOK
  <2> QED
    BY <1>6, <2>2, RenderersKept DEF Inv
<1>10. NoneLeftBehind'
  <2>1. \A q \in Spawned \ {p} : renderer'[q].status = renderer[q].status
    BY <1>6 DEF Elsewhere
  <2>2. \A q \in Spawned \ {current, 0} : renderer[q].status \in {"unborn", "reaped"}
    BY <1>2, <1>3, IdleFacts DEF Inv, NoneLeftBehind
  <2>3. \A q \in Spawned : q # 0
    BY DEF Spawned
  <2> QED
    BY <1>1, <1>2, <1>5, <2>1, <2>2, <2>3 DEF NoneLeftBehind
<1>11. Exchange'
  <2>1. Len(<<>>) = 0
    OBVIOUS
  <2>2. Quiet(Born, <<>>, <<>>, TRUE)
    BY <2>1, BornFacts, SpecialMessages DEF Quiet, NoFarewell, NothingAsked, InForce
  <2>3. Sound(b2, Born, <<>>, <<>>, TRUE)
    BY <1>5, <2>2, QuietIsSound
  <2> QED
    BY <1>1, <1>2, <1>6, <2>3, BornFacts DEF Exchange
<1> QED
  BY <1>7, <1>8, <1>9, <1>10, <1>11 DEF Inv

LEMMA CloseKeeps ==
  ASSUME Inv, Close
  PROVE  Inv'
<1> DEFINE b2 == [Idle EXCEPT !.pc = "closing", !.dropping = current]
<1>1. /\ browser = Idle /\ browser' = b2
      /\ UNCHANGED <<current, next_id, policy, outcome, renderer, stdin, stdout>>
  BY DEF Close
<1>2. Open /\ browser.dropping = 0 /\ browser.pc = "idle"
  BY <1>1, IdleFacts DEF Open
<1>3. current \in Spawned /\ current \in Nat
  BY <1>2, Held DEF Spawned
<1>4. /\ b2 \in Callers /\ b2.pc = "closing" /\ b2.call = NoCall /\ b2.id = 0
      /\ b2.frame = NoFrame /\ b2.dropping = current
  BY <1>3, RestFacts DEF Places
<1> HIDE DEF b2
<1>5. TypeOK'
  BY <1>1, <1>4 DEF Inv, TypeOK
<1>6. CallerOK'
  BY <1>1, <1>4, NoCallFacts DEF CallerOK, WithId, RenderOps
<1>7. RenderersOK'
  BY <1>1 DEF Inv, RenderersOK, RendererOK
<1>8. NoneLeftBehind'
  BY <1>1, <1>2, <1>4 DEF Inv, NoneLeftBehind, Spawned
<1>9. Exchange'
  <2>1. Quiet(renderer[current], stdin[current], stdout[current], policy)
    BY <1>2, Held, QuietIsSound
  <2>2. Sound(b2, renderer[current], stdin[current], stdout[current], policy)
    BY <1>4, <2>1, QuietIsSound
  <2> QED
    BY <1>1, <1>2, <2>2, Held DEF Exchange
<1> QED
  BY <1>5, <1>6, <1>7, <1>8, <1>9 DEF Inv

LEMMA DroppingFacts ==
  ASSUME Inv, Dropping
  PROVE  /\ browser.dropping \in Spawned /\ browser \in Callers /\ Open
         /\ browser.pc = "dropping" => browser.dropping # current
         /\ browser.pc = "closing" => browser.dropping = current
         /\ browser.pc \in {"dropping", "closing"} /\ current \in Spawned
BY DEF Inv, CallerOK, TypeOK, Dropping, Open

LEMMA DropPieceKeeps ==
  ASSUME Inv, DropPiece
  PROVE  Inv'
<1> DEFINE p == browser.dropping
           n == browser.sent
           k == n + 1
           in == stdin[p]
           in2 == Put(in, Farewell, n)
           b2 == [browser EXCEPT !.sent = k]
<1>1. /\ Dropping /\ Runs(p) /\ stdin' = [stdin EXCEPT ![p] = in2] /\ browser' = b2
      /\ UNCHANGED <<current, next_id, policy, outcome, renderer, stdout>>
  BY DEF DropPiece
<1>2. /\ p \in Spawned /\ browser \in Callers /\ Open
      /\ browser.pc = "dropping" => p # current
      /\ browser.pc = "closing" => p = current
      /\ browser.pc \in {"dropping", "closing"} /\ current \in Spawned
  BY <1>1, DroppingFacts
<1>3. n \in Nat /\ k \in Nat
  BY <1>2 DEF Callers
<1>4. in \in Seq(Pieces) /\ RendererOK(renderer[p], in, stdout[p])
  BY <1>2, RendererAt
<1>5. OnePieceMore(in2, in, Farewell, n)
  <2> HIDE DEF in, n
  <2> QED
    BY <1>3, <1>4, SpecialMessages, PutFacts
<1> HIDE DEF k
<1>6. /\ b2 \in Callers /\ b2.pc = browser.pc /\ b2.call = browser.call
      /\ b2.id = browser.id /\ b2.frame = browser.frame /\ b2.dropping = browser.dropping
  BY <1>2, <1>3 DEF Callers
<1> HIDE DEF b2, in2
<1>7. stdin'[p] = in2 /\ Elsewhere(p) /\ stdin' \in [Spawned -> Seq(Pieces)]
  BY <1>1, <1>2, <1>5 DEF Inv, TypeOK, Elsewhere, OnePieceMore
<1>8. TypeOK'
  BY <1>1, <1>6, <1>7 DEF Inv, TypeOK
<1>9. CallerOK'
  <2>1. browser.pc # "idle"
    BY <1>2
  <2> QED
    BY <1>1, <1>6, <2>1 DEF Inv, CallerOK
<1>10. \A i \in 1..Len(in2) : i = Len(in) + 1 \/ i \in 1..Len(in)
  <2>1. Len(in2) = Len(in) + 1 /\ Len(in) \in Nat
    BY <1>5 DEF OnePieceMore
  <2> QED
    BY <2>1
<1>11. RenderersOK'
  <2>1. \A i \in 1..Len(in2) : Legal(in2[i].msg)
    BY <1>4, <1>5, <1>10, SpecialMessages DEF RendererOK, OnePieceMore
  <2>2. RendererOK(renderer'[p], stdin'[p], stdout'[p])
    BY <1>1, <1>4, <1>7, <2>1 DEF RendererOK, Runs
  <2> QED
    BY <1>2, <1>7, <2>2, RenderersKept DEF Inv
<1>12. NoneLeftBehind'
  BY <1>1, <1>6 DEF Inv, NoneLeftBehind
<1>13. Exchange'
  <2>1. Sound(browser, renderer[current], stdin[current], stdout[current], policy)
    BY <1>2, Held
  <2>2. CASE browser.pc = "dropping"
    <3>1. stdin'[current] = stdin[current]
      BY <1>2, <1>7, <2>2 DEF Elsewhere
    <3>2. Sound(b2, renderer[current], stdin[current], stdout[current], policy)
      BY <1>6, <2>1, <2>2, QuietIsSound
    <3> QED
      BY <1>1, <1>2, <3>1, <3>2, Held DEF Exchange
  <2>3. CASE browser.pc = "closing"
    <3>1. NothingAsked(renderer[current], in2)
      BY <1>2, <1>5, <1>10, <2>1, <2>3, SpecialMessages
         DEF Sound, Closes, NothingAsked, OnePieceMore
    <3>2. Sound(b2, renderer[current], in2, stdout[current], policy)
      BY <1>6, <2>1, <2>3, <3>1 DEF Sound, Closes
    <3> QED
      BY <1>1, <1>2, <1>7, <2>3, <3>2, Held DEF Exchange
  <2> QED
    BY <1>2, <2>2, <2>3
<1> QED
  BY <1>8, <1>9, <1>11, <1>12, <1>13 DEF Inv

LEMMA KillKeeps ==
  ASSUME Inv, Kill
  PROVE  Inv'
<1> DEFINE p == browser.dropping
           closed == [Idle EXCEPT !.pc = "closed"]
<1>1. /\ Dropping /\ renderer' = [renderer EXCEPT ![p] = Gone("reaped")]
      /\ stdin' = [stdin EXCEPT ![p] = <<>>] /\ stdout' = [stdout EXCEPT ![p] = <<>>]
      /\ browser' = IF browser.pc = "closing" THEN closed ELSE Idle
      /\ UNCHANGED <<current, next_id, policy, outcome>>
  BY DEF Kill, Reap
<1>2. /\ p \in Spawned /\ browser \in Callers /\ Open
      /\ browser.pc = "dropping" => p # current
      /\ browser.pc = "closing" => p = current
      /\ browser.pc \in {"dropping", "closing"} /\ current \in Spawned
  BY <1>1, DroppingFacts
<1>3. /\ closed \in Callers /\ closed.pc = "closed" /\ closed.call = NoCall /\ closed.id = 0
      /\ closed.frame = NoFrame /\ closed.dropping = 0
  BY SpecialMessages DEF Idle, Callers, Places
<1> HIDE DEF closed
<1>4. /\ renderer'[p] = Gone("reaped") /\ stdin'[p] = <<>> /\ stdout'[p] = <<>>
      /\ Elsewhere(p)
  BY <1>1, <1>2 DEF Inv, TypeOK, Elsewhere
<1>5. TypeOK'
  BY <1>1, <1>2, <1>3, GoneFacts, IdleFacts, EmptySeq DEF Inv, TypeOK
<1>6. CallerOK'
  BY <1>1, <1>3, IdleFacts, NoCallFacts DEF CallerOK, WithId, RenderOps
<1>7. RenderersOK'
  <2>1. RendererOK(renderer'[p], stdin'[p], stdout'[p])
    BY <1>4, GoneFacts DEF RendererOK
  <2> QED
    BY <1>2, <1>4, <2>1, RenderersKept DEF Inv
<1>8. NoneLeftBehind'
  <2>1. \A q \in Spawned \ {p} : renderer'[q].status = renderer[q].status
    BY <1>4 DEF Elsewhere
  <2>2. \A q \in Spawned \ {current, p} : renderer[q].status \in {"unborn", "reaped"}
    BY <1>2 DEF Inv, NoneLeftBehind, Open
  <2>3. renderer'[p].status = "reaped"
    BY <1>4, GoneFacts
  <2>4. CASE browser.pc = "closing"
    <3>1. \A q \in Spawned : renderer'[q].status \in {"unborn", "reaped"}
      BY <1>2, <2>1, <2>2, <2>3, <2>4
    <3> QED
      BY <3>1 DEF NoneLeftBehind
  <2>5. CASE browser.pc # "closing"
    <3>1. \A q \in Spawned \ {current} : renderer'[q].status \in {"unborn", "reaped"}
      BY <1>2, <2>1, <2>2, <2>3, <2>5
    <3>2. browser' = Idle /\ current' = current
      BY <1>1, <2>5
    <3> QED
      BY <3>1, <3>2, IdleFacts DEF NoneLeftBehind
  <2> QED
    BY <2>4, <2>5
<1>9. Exchange'
  <2>1. CASE browser.pc = "closing"
    <3>1. ~Open' /\ renderer'[current].status # "unborn"
      BY <1>1, <1>2, <1>3, <1>4, <2>1, GoneFacts DEF Open
    <3> QED
      BY <1>1, <3>1 DEF Exchange
  <2>2. CASE browser.pc = "dropping"
    <3>1. /\ renderer'[current] = renderer[current] /\ stdin'[current] = stdin[current]
          /\ stdout'[current] = stdout[current]
      BY <1>2, <1>4, <2>2 DEF Elsewhere
    <3>2. Sound(Idle, renderer[current], stdin[current], stdout[current], policy)
      BY <1>2, <2>2, Held, IdleFacts, QuietIsSound
    <3>3. browser' = Idle /\ current' = current /\ policy' = policy
      BY <1>1, <2>2
    <3> QED
      BY <1>2, <3>1, <3>2, <3>3, Held DEF Exchange
  <2> QED
    BY <1>2, <2>1, <2>2
<1> QED
  BY <1>5, <1>6, <1>7, <1>8, <1>9 DEF Inv

LEMMA BrowserDiesKeeps ==
  ASSUME Inv, BrowserDies
  PROVE  Inv'
<1> DEFINE dead == [Idle EXCEPT !.pc = "dead"]
<1>1. /\ browser' = dead
      /\ UNCHANGED <<current, next_id, policy, outcome, renderer, stdin, stdout>>
  BY DEF BrowserDies
<1>2. /\ dead \in Callers /\ dead.pc = "dead" /\ dead.call = NoCall /\ dead.id = 0
      /\ dead.frame = NoFrame /\ dead.dropping = 0
  BY SpecialMessages DEF Idle, Callers, Places
<1> HIDE DEF dead
<1>3. TypeOK'
  BY <1>1, <1>2 DEF Inv, TypeOK
<1>4. CallerOK'
  BY <1>1, <1>2, NoCallFacts DEF CallerOK, WithId, RenderOps
<1>5. RenderersOK'
  BY <1>1 DEF Inv, RenderersOK, RendererOK
<1>6. NoneLeftBehind' /\ Exchange'
  BY <1>1, <1>2 DEF Inv, NoneLeftBehind, Exchange, Open
<1> QED
  BY <1>3, <1>4, <1>5, <1>6 DEF Inv

-----------------------------------------------------------------------------
(* The theorems.                                                            *)

LEMMA InvInit ==
  ASSUME Init
  PROVE  Inv
<1>1. /\ browser = Idle /\ current = 1 /\ next_id = 1 /\ policy = TRUE
      /\ renderer = [p \in Spawned |-> IF p = 1 THEN Born ELSE Gone("unborn")]
      /\ stdin = [p \in Spawned |-> <<>>] /\ stdout = [p \in Spawned |-> <<>>]
  BY DEF Init
<1>2. 1 \in Spawned /\ 0 \notin Spawned /\ Len(<<>>) = 0
  BY ProcessAssumption DEF Spawned
<1>3. TypeOK
  BY <1>1, <1>2, IdleFacts, BornFacts, GoneFacts, EmptySeq DEF TypeOK
<1>4. CallerOK
  BY <1>1, IdleFacts, NoCallFacts DEF CallerOK, WithId, RenderOps
<1>5. RenderersOK
  BY <1>1, <1>2, BornFacts, GoneFacts DEF RenderersOK, RendererOK
<1>6. NoneLeftBehind
  BY <1>1, <1>2, IdleFacts, GoneFacts DEF NoneLeftBehind
<1>7. Quiet(Born, <<>>, <<>>, TRUE)
  BY <1>2, BornFacts, SpecialMessages DEF Quiet, NoFarewell, NothingAsked, InForce
<1>8. Sound(Idle, Born, <<>>, <<>>, TRUE)
  BY <1>7, IdleFacts, QuietIsSound
<1>9. Exchange
  BY <1>1, <1>2, <1>8, BornFacts DEF Exchange
<1> QED
  BY <1>3, <1>4, <1>5, <1>6, <1>9 DEF Inv

LEMMA InvNext ==
  ASSUME Inv, [Next]_vars
  PROVE  Inv'
<1>1. ASSUME NEW c \in Calls, Call(c) PROVE Inv'
  BY <1>1, CallKeeps
<1>2. CASE IsAlive \/ Respawn \/ Close \/ BrowserDies
  BY <1>2, IsAliveKeeps, RespawnKeeps, CloseKeeps, BrowserDiesKeeps
<1>3. CASE SendFails \/ SendPiece \/ SendLast \/ ReceivePiece \/ ReceiveEof
  BY <1>3, SendFailsKeeps, SendPieceKeeps, SendLastKeeps, ReceivePieceKeeps, ReceiveEofKeeps
<1>4. CASE WaitExit \/ DropPiece \/ Kill
  BY <1>4, WaitExitKeeps, DropPieceKeeps, KillKeeps
<1>5. ASSUME NEW p \in Spawned, RendererStep(p) \/ Crash(p) PROVE Inv'
  BY <1>5, RendererStepKeeps
<1>6. CASE UNCHANGED vars
  BY <1>6 DEF vars, Inv, TypeOK, CallerOK, RenderersOK, NoneLeftBehind, Exchange, Open
<1> QED
  BY <1>1, <1>2, <1>3, <1>4, <1>5, <1>6 DEF Next, BrowserStep

\* Everything that is under way between the browser and its renderers is sound in
\* every state the two can reach together.
THEOREM Soundness == Spec => []Inv
BY InvInit, InvNext, PTL DEF Spec

\* No renderer is left behind (NoneLeftBehind): shutdown, is_alive, respawn and
\* drop between them wait for every process the manager has spawned.
THEOREM AllReaped == Spec => []NoneLeftBehind
<1>1. Inv => NoneLeftBehind
  BY DEF Inv
<1> QED
  BY <1>1, Soundness, PTL

\* A reply belongs to the call that reads it (RepliesInStep): the "unexpected
\* renderer response" of the client cannot be met.
THEOREM RepliesKeepStep == Spec => []RepliesInStep
<1>1. ASSUME Inv PROVE RepliesInStep
  <2> SUFFICES ASSUME Open, NEW m \in InFlight(current), m.call.op \in Answered
               PROVE  m.call = browser.call /\ m.id = browser.id
    BY DEF RepliesInStep
  <2> DEFINE r == renderer[current]
             in == stdin[current]
             out == stdout[current]
  <2>1. /\ Sound(browser, r, in, out, policy) /\ browser.frame \in Frames
        /\ in \in Seq(Pieces) /\ out \in Seq(Pieces)
    BY <1>1, Held
  <2>2. Wanted(m) /\ ~Wanted(NoMessage) /\ NoFrame.msg = NoMessage
    BY SpecialMessages DEF Wanted
  <2>3. \/ \E i \in 1..Len(in) : m = in[i].msg
        \/ \E i \in 1..Len(out) : m = out[i].msg
        \/ m = r.frame.msg \/ m = r.reply \/ m = browser.frame.msg
    BY <2>1, LenProperties DEF InFlight
  <2>4. browser.pc \in {"idle", "sending", "receiving", "waiting", "dropping", "closing"}
    BY <1>1, OpenPlaces DEF Inv
  <2>5. browser.pc \notin {"sending", "receiving", "waiting"} => browser.frame = NoFrame
    BY <1>1 DEF Inv, CallerOK
  <2>6. CASE browser.pc \in {"idle", "dropping", "waiting", "closing"}
    <3>1. /\ NothingAsked(r, in) /\ ~Wanted(r.reply) /\ ~Wanted(browser.frame.msg)
          /\ \A i \in 1..Len(out) : ~Wanted(out[i].msg)
      BY <2>1, <2>2, <2>5, <2>6, EmptySeq DEF Sound, Silent, Closes
    <3> QED
      BY <2>2, <2>3, <3>1 DEF NothingAsked
  <2>7. CASE browser.pc \in {"sending", "receiving"}
    <3>1. OnlyAsked(browser, r, in)
      BY <2>1, <2>7 DEF Sound, Sends, Receives
    <3>2. /\ r.reply # NoMessage => Answers(browser, policy, r.reply)
          /\ browser.frame # NoFrame => Answers(browser, policy, browser.frame.msg)
          /\ \A i \in 1..Len(out) : Answers(browser, policy, out[i].msg)
      BY <2>1, <2>7, EmptySeq DEF Sound, Sends, Silent, Receives
    <3>3. m = Asked(browser) \/ Answers(browser, policy, m)
      BY <2>2, <2>3, <3>1, <3>2 DEF OnlyAsked
    <3>4. Asked(browser).call = browser.call /\ Asked(browser).id = browser.id
      BY MessageFields DEF Asked, RequestFor
    <3> QED
      BY <3>3, <3>4 DEF Answers
  <2> QED
    BY <2>4, <2>6, <2>7
<1> QED
  BY <1>1, Soundness, PTL

-----------------------------------------------------------------------------
(* The calling code sees a render service.                                  *)

\* The calling code may still make calls.
ServesCalls == browser.pc \notin {"closing", "closed", "dead"}

LEMMA ServiceStutters ==
  ASSUME browser'.call = browser.call, UNCHANGED <<policy, outcome>>,
         Runs(current)' <=> Runs(current), ServesCalls' <=> ServesCalls
  PROVE  UNCHANGED Service!vars
BY DEF Service!vars, ServesCalls, Runs

LEMMA ReturnRefines ==
  ASSUME Inv, browser.pc \in {"sending", "receiving", "waiting"}, NEW r, Return(r),
         r \in Service!Results(browser.call),
         policy' = IF browser.call.op = "SetSandboxPolicy" /\ r = "ok"
                     THEN browser.call.allow ELSE policy,
         Runs(current)' <=> Runs(current)
  PROVE  Service!Return
<1>1. /\ browser' = Idle /\ outcome' = [call |-> browser.call, result |-> r]
      /\ browser.call \in Calls
  BY DEF Return, Inv, CallerOK
<1>2. browser.call # NoCall
  BY <1>1, CallFacts, NoCallFacts DEF Answered, WithId, RenderOps
<1>3. ServesCalls /\ ServesCalls' /\ browser'.call = NoCall
  BY <1>1, IdleFacts DEF ServesCalls
<1> QED
  BY <1>1, <1>2, <1>3 DEF Service!Return, Service!Ended, ServesCalls, Runs

LEMMA DieRefines ==
  ASSUME browser'.call = browser.call, UNCHANGED <<policy, outcome>>,
         Runs(current), ~Runs(current)', ServesCalls' <=> ServesCalls
  PROVE  Service!Die
BY DEF Service!Die, ServesCalls

\* A call that fails while the renderer runs is a rendering.
LEMMA FailureAllowed ==
  ASSUME NEW c, c.op \in RenderOps \/ ~Runs(current)
  PROVE  "error" \in Service!Results(c)
BY DEF Service!Results, Service!MayFail, RenderOps, Runs

LEMMA SuccessAllowed ==
  ASSUME NEW c, c.op = "RenderDocument" => policy, c.op = "Shutdown" => ~Runs(current)
  PROVE  "ok" \in Service!Results(c)
BY DEF Service!Results, Service!MaySucceed, Runs

LEMMA CallRefines ==
  ASSUME NEW c \in Calls, Call(c)
  PROVE  Service!Request
<1> DEFINE b1 == [Idle EXCEPT !.pc = "sending", !.call = c]
           id == IF c.op \in WithId THEN next_id ELSE 0
<1>1. /\ browser = Idle /\ browser' = [b1 EXCEPT !.id = id]
      /\ UNCHANGED <<current, policy, outcome, renderer>>
  BY DEF Call
<1>2. b1 \in Callers /\ b1.pc = "sending" /\ b1.call = c
  BY IdleFacts DEF Callers, Places
<1> HIDE DEF b1, id
<1>3. browser'.pc = "sending" /\ browser'.call = c
  BY <1>1, <1>2 DEF Callers
<1>4. browser.pc = "idle" /\ browser.call = NoCall
  BY <1>1, IdleFacts
<1> QED
  BY <1>1, <1>3, <1>4 DEF Service!Request, Runs

LEMMA SendRefines ==
  ASSUME Inv, SendFails \/ SendPiece \/ SendLast, MaxFrame >= 2
  PROVE  [Service!Next]_(Service!vars)
<1>1. /\ browser.pc = "sending" /\ browser.call \in Calls /\ browser.id \in Nat
      /\ browser \in Callers
  BY DEF SendFails, SendPiece, SendLast, Sending, Inv, CallerOK, TypeOK, Callers
<1>2. CASE SendFails
  <2>1. /\ TooLongToWrite(Request) \/ ~Runs(current)
        /\ Return("error") /\ UNCHANGED <<current, renderer, policy>>
    BY <1>2 DEF SendFails
  <2>2. browser.call.op \in RenderOps \/ ~Runs(current)
    <3>1. Request.len = (IF browser.call.op \in RenderOps THEN Length[browser.call.doc] ELSE 1)
      BY <1>1, RequestFacts DEF Request
    <3> QED
      BY <2>1, <3>1, ProcessAssumption DEF TooLongToWrite
  <2>3. Service!Return
    <3>1. "error" \in Service!Results(browser.call)
      BY <2>2, FailureAllowed
    <3>2. Runs(current)' <=> Runs(current)
      BY <2>1 DEF Runs
    <3> QED
      BY <1>1, <2>1, <3>1, <3>2, ReturnRefines
  <2> QED
    BY <2>3 DEF Service!Next
<1>3. CASE SendPiece
  <2>1. /\ browser' = [browser EXCEPT !.sent = browser.sent + 1]
        /\ UNCHANGED <<current, renderer, policy, outcome>>
    BY <1>3 DEF SendPiece, Sending
  <2>2. browser'.call = browser.call /\ browser'.pc = browser.pc
    BY <1>1, <2>1 DEF Callers
  <2> QED
    BY <2>1, <2>2, ServiceStutters DEF Runs, ServesCalls
<1>4. CASE SendLast
  <2>1. /\ UNCHANGED <<current, renderer>>
        /\ policy' = IF browser.call.op = "SetSandboxPolicy" THEN browser.call.allow ELSE policy
    BY <1>4 DEF SendLast, Sending
  <2>2. CASE browser.call.op \in Answered
    <3>1. /\ browser' = [browser EXCEPT !.pc = "receiving", !.sent = 0]
          /\ UNCHANGED <<policy, outcome>>
      BY <1>4, <2>1, <2>2 DEF SendLast, Answered, WithId, RenderOps
    <3>2. browser'.call = browser.call /\ browser'.pc = "receiving"
      BY <1>1, <3>1 DEF Callers
    <3> QED
      BY <1>1, <2>1, <3>1, <3>2, ServiceStutters DEF Runs, ServesCalls
  <2>3. CASE browser.call.op \notin Answered
    <3>1. Return("ok")
      BY <1>4, <2>3 DEF SendLast
    <3>2. "ok" \in Service!Results(browser.call)
      BY <2>3, SuccessAllowed DEF Answered, WithId, RenderOps
    <3>3. Service!Return
      BY <1>1, <2>1, <3>1, <3>2, ReturnRefines DEF Runs
    <3> QED
      BY <3>3 DEF Service!Next
  <2> QED
    BY <2>2, <2>3
<1> QED
  BY <1>2, <1>3, <1>4

\* A message the caller takes for its answer ends the call as the service may,
\* and one it refuses can only have come of a rendering.
LEMMA AcceptRefines ==
  ASSUME Inv, browser.pc = "receiving", NEW m, NEW result \in {"ok", "shortened"},
         Answers(browser, policy, m), Accept(m, result),
         result = "shortened" => ~Runs(current) /\ m.kind = "Rendered",
         UNCHANGED <<current, renderer, policy>>
  PROVE  [Service!Next]_(Service!vars)
<1>1. /\ browser.call \in Calls /\ browser.call.op \in Answered /\ browser \in Callers
      /\ browser.call.op # "SetSandboxPolicy"
  BY DEF Inv, CallerOK, TypeOK, Answered, WithId, RenderOps
<1>2. Runs(current)' <=> Runs(current)
  BY DEF Runs
<1>3. CASE ~Expected(m)
  <2>1. browser.call.op \in RenderOps
    BY <1>1, <1>3 DEF Expected, Answers, Answered, WithId
  <2>2. Return("error") /\ "error" \in Service!Results(browser.call)
    BY <1>3, <2>1, FailureAllowed DEF Accept
  <2>3. Service!Return
    BY <1>1, <1>2, <2>2, ReturnRefines
  <2> QED
    BY <2>3 DEF Service!Next
<1>4. CASE Expected(m) /\ m.kind = "Goodbye"
  <2>1. /\ browser' = [browser EXCEPT !.pc = "waiting", !.frame = NoFrame]
        /\ UNCHANGED outcome
    BY <1>4 DEF Accept
  <2>2. browser'.call = browser.call /\ browser'.pc = "waiting"
    BY <1>1, <2>1 DEF Callers
  <2> QED
    BY <1>2, <2>1, <2>2, ServiceStutters DEF ServesCalls
<1>5. CASE Expected(m) /\ m.kind # "Goodbye"
  <2>1. Return(result)
    BY <1>5 DEF Accept
  <2>2. browser.call.op # "Shutdown" /\ (browser.call.op = "RenderDocument" => policy)
    BY <1>5 DEF Expected, Answers, RenderOps
  <2>3. result \in Service!Results(browser.call)
    <3>1. CASE result = "ok"
      BY <2>2, <3>1, SuccessAllowed
    <3>2. CASE result = "shortened"
      <4>1. browser.call.op \in RenderOps /\ ~Runs(current)
        BY <1>1, <2>2, <3>2 DEF Answers, Answered, WithId
      <4> QED
        BY <2>2, <3>2, <4>1
           DEF Service!Results, Service!MaySucceed, RenderOps, Runs
    <3> QED
      BY <3>1, <3>2
  <2>4. Service!Return
    BY <1>1, <1>2, <2>1, <2>3, ReturnRefines
  <2> QED
    BY <2>4 DEF Service!Next
<1> QED
  BY <1>3, <1>4, <1>5

LEMMA ErrorRefines ==
  ASSUME Inv, browser.pc = "receiving", Return("error"),
         browser.call.op \in RenderOps \/ ~Runs(current),
         UNCHANGED <<current, renderer, policy>>
  PROVE  [Service!Next]_(Service!vars)
<1>1. "error" \in Service!Results(browser.call)
  BY FailureAllowed
<1>2. Runs(current)' <=> Runs(current)
  BY DEF Runs
<1>3. Service!Return
  BY <1>1, <1>2, ReturnRefines
<1> QED
  BY <1>3 DEF Service!Next

LEMMA ReceivePieceRefines ==
  ASSUME Inv, ReceivePiece, MaxFrame >= 2
  PROVE  [Service!Next]_(Service!vars)
<1> DEFINE out == stdout[current]
<1>1. /\ browser.pc = "receiving" /\ out # <<>> /\ Open
      /\ UNCHANGED <<current, renderer, policy>>
  BY DEF ReceivePiece, Open
<1>2. /\ out \in Seq(Pieces) /\ browser \in Callers
      /\ Sound(browser, renderer[current], stdin[current], out, policy)
  BY <1>1, Held
<1>3. Head(out) = out[1] /\ 1 \in 1..Len(out)
  BY <1>1, <1>2, TailFacts
<1>4. Answers(browser, policy, out[1].msg)
  BY <1>1, <1>2, <1>3 DEF Sound, Receives
<1>5. browser.call.op \in Answered
  BY <1>1 DEF Inv, CallerOK
<1>6. CASE ~out[1].last
  <2>1. /\ \E f : browser' = [browser EXCEPT !.frame = f]
        /\ UNCHANGED outcome
    BY <1>3, <1>6 DEF ReceivePiece
  <2>2. browser'.call = browser.call /\ browser'.pc = browser.pc
    BY <1>2, <2>1 DEF Callers
  <2> QED
    BY <1>1, <2>1, <2>2, ServiceStutters DEF Runs, ServesCalls
<1>7. CASE out[1].last /\ TooLongToRead(out[1].msg)
  <2>1. Return("error")
    BY <1>3, <1>7 DEF ReceivePiece
  <2>2. browser.call.op \in RenderOps
    BY <1>4, <1>5, <1>7, ProcessAssumption DEF TooLongToRead, Answers, Answered, WithId
  <2> QED
    BY <1>1, <2>1, <2>2, ErrorRefines
<1>8. CASE out[1].last /\ ~TooLongToRead(out[1].msg)
  <2>1. Accept(out[1].msg, "ok")
    BY <1>3, <1>8 DEF ReceivePiece
  <2> QED
    BY <1>1, <1>4, <2>1, AcceptRefines
<1> QED
  BY <1>6, <1>7, <1>8

LEMMA ReceiveEofRefines ==
  ASSUME Inv, ReceiveEof
  PROVE  [Service!Next]_(Service!vars)
<1> DEFINE m == browser.frame.msg
<1>1. /\ browser.pc = "receiving" /\ ~Runs(current) /\ Open
      /\ UNCHANGED <<current, renderer, policy>>
  BY DEF ReceiveEof, Open
<1>2. /\ browser.frame \in Frames
      /\ Sound(browser, renderer[current], stdin[current], stdout[current], policy)
  BY <1>1, Held
<1>3. m \in Messages /\ m.len \in Nat
  BY <1>2 DEF Frames, Messages
<1>4. browser.frame.got > 0 => Answers(browser, policy, m)
  BY <1>1, <1>2, SpecialMessages DEF Sound, Receives
<1>5. CASE Return("error")
  BY <1>1, <1>5, ErrorRefines
<1>6. CASE browser.frame.got = m.len /\ m.len > 0 /\ Accept(m, "ok")
  BY <1>1, <1>4, <1>6, AcceptRefines
<1>7. CASE browser.frame.got \in 1..(m.len - 1) /\ m.kind = "Rendered" /\ Accept(m, "shortened")
  <2>1. browser.frame.got > 0
    BY <1>3, <1>7
  <2> QED
    BY <1>1, <1>4, <1>7, <2>1, AcceptRefines
<1> QED
  BY <1>5, <1>6, <1>7 DEF ReceiveEof

LEMMA WaitExitRefines ==
  ASSUME Inv, WaitExit
  PROVE  [Service!Next]_(Service!vars)
<1>1. /\ browser.pc = "waiting" /\ ~Runs(current) /\ Reap(current) /\ Return("ok")
      /\ UNCHANGED <<current, policy>>
  BY DEF WaitExit
<1>2. browser.call.op = "Shutdown" /\ current \in Spawned
  BY <1>1 DEF Inv, CallerOK, TypeOK
<1>3. ~Runs(current)'
  BY <1>1, <1>2, GoneFacts DEF Reap, Runs, Inv, TypeOK
<1>4. "ok" \in Service!Results(browser.call)
  BY <1>1, <1>2, SuccessAllowed
<1>5. Service!Return
  BY <1>1, <1>2, <1>3, <1>4, ReturnRefines
<1> QED
  BY <1>5 DEF Service!Next

LEMMA IsAliveRefines ==
  ASSUME Inv, IsAlive
  PROVE  [Service!Next]_(Service!vars)
<1>1. /\ ~Runs(current) /\ Reap(current) /\ UNCHANGED <<browser, current, policy, outcome>>
  BY DEF IsAlive, Runs
<1>2. ~Runs(current)'
  BY <1>1, GoneFacts DEF Reap, Runs, Inv, TypeOK
<1> QED
  BY <1>1, <1>2, ServiceStutters DEF ServesCalls

LEMMA RespawnRefines ==
  ASSUME Inv, Respawn
  PROVE  Service!Respawn
<1>1. /\ browser = Idle /\ browser' = [Idle EXCEPT !.pc = "dropping", !.dropping = current]
      /\ policy' = TRUE /\ UNCHANGED outcome
  BY DEF Respawn
<1>2. /\ browser.pc = "idle" /\ browser.call = NoCall
      /\ browser'.pc = "dropping" /\ browser'.call = NoCall
  BY <1>1, IdleFacts DEF Idle
<1>3. Runs(current)'
  BY BornFacts DEF Respawn, Runs, Inv, TypeOK
<1> QED
  BY <1>1, <1>2, <1>3 DEF Service!Respawn, Runs

LEMMA CloseRefines ==
  ASSUME Inv, Close
  PROVE  Service!Close
<1>1. /\ browser = Idle /\ browser' = [Idle EXCEPT !.pc = "closing", !.dropping = current]
      /\ UNCHANGED <<current, policy, outcome, renderer>>
  BY DEF Close
<1>2. /\ browser.pc = "idle" /\ browser'.pc = "closing" /\ browser'.call = NoCall
  BY <1>1, IdleFacts DEF Idle
<1> QED
  BY <1>1, <1>2 DEF Service!Close, Runs

LEMMA BrowserDiesRefines ==
  ASSUME Inv, BrowserDies
  PROVE  [Service!Next]_(Service!vars)
<1>1. /\ browser' = [Idle EXCEPT !.pc = "dead"] /\ Open
      /\ UNCHANGED <<current, policy, outcome, renderer>>
  BY DEF BrowserDies
<1>2. browser'.pc = "dead" /\ browser'.call = NoCall
  BY <1>1 DEF Idle
<1>3. CASE browser.pc = "closing"
  <2>1. browser.call = NoCall
    BY <1>3 DEF Inv, CallerOK
  <2> QED
    BY <1>1, <1>2, <1>3, <2>1, ServiceStutters DEF Runs, ServesCalls
<1>4. CASE browser.pc # "closing"
  <2>1. Service!Close
    BY <1>1, <1>2, <1>4 DEF Service!Close, Runs, Open
  <2> QED
    BY <2>1 DEF Service!Next
<1> QED
  BY <1>3, <1>4

LEMMA DropRefines ==
  ASSUME Inv, DropPiece \/ Kill
  PROVE  [Service!Next]_(Service!vars)
<1>1. /\ browser.dropping \in Spawned /\ browser \in Callers
      /\ browser.pc = "dropping" => browser.dropping # current
      /\ browser.pc \in {"dropping", "closing"} /\ current \in Spawned
      /\ browser.call = NoCall
  BY DroppingFacts DEF DropPiece, Kill, Inv, CallerOK
<1>2. CASE DropPiece
  <2>1. /\ browser' = [browser EXCEPT !.sent = browser.sent + 1]
        /\ UNCHANGED <<current, renderer, policy, outcome>>
    BY <1>2 DEF DropPiece
  <2>2. browser'.call = browser.call /\ browser'.pc = browser.pc
    BY <1>1, <2>1 DEF Callers
  <2> QED
    BY <2>1, <2>2, ServiceStutters DEF Runs, ServesCalls
<1>3. CASE Kill
  <2> DEFINE p == browser.dropping
  <2>1. /\ renderer' = [renderer EXCEPT ![p] = Gone("reaped")]
        /\ browser' = IF browser.pc = "closing" THEN [Idle EXCEPT !.pc = "closed"] ELSE Idle
        /\ UNCHANGED <<current, policy, outcome>>
    BY <1>3 DEF Kill, Reap
  <2>2. /\ browser'.call = NoCall
        /\ browser'.pc = IF browser.pc = "closing" THEN "closed" ELSE "idle"
    BY <2>1, IdleFacts DEF Idle
  <2>3. ServesCalls' <=> ServesCalls
    BY <1>1, <2>2 DEF ServesCalls
  <2>4. \/ Runs(current)' <=> Runs(current)
        \/ Runs(current) /\ ~Runs(current)'
    <3>1. renderer'[p] = Gone("reaped") /\ \A q \in Spawned \ {p} : renderer'[q] = renderer[q]
      BY <1>1, <2>1 DEF Inv, TypeOK
    <3>2. current = p \/ current \in Spawned \ {p}
      BY <1>1
    <3> QED
      BY <2>1, <3>1, <3>2, GoneFacts DEF Runs
  <2>5. browser'.call = browser.call
    BY <1>1, <2>2
  <2> QED
    BY <2>1, <2>3, <2>4, <2>5, ServiceStutters, DieRefines DEF Service!Next
<1> QED
  BY <1>2, <1>3

\* To the calling code a renderer's step is nothing, or the death of the renderer.
LEMMA RendererStepRefines ==
  ASSUME Inv, NEW p \in Spawned, RendererStep(p) \/ Crash(p)
  PROVE  [Service!Next]_(Service!vars)
<1>1. /\ Runs(p) /\ UNCHANGED <<browser, current, policy, outcome>>
      /\ \A q \in Spawned \ {p} : renderer'[q] = renderer[q]
  BY DEF RendererStep, Crash, ReadPiece, ReadEof, WriteFails, WritePiece, WriteLast,
         Writing, Reading, Exit, Inv, TypeOK
<1>2. \/ Runs(current)' <=> Runs(current)
      \/ Runs(current) /\ ~Runs(current)'
  <2>1. current = p \/ current \in Spawned \ {p}
    BY DEF Inv, TypeOK
  <2> QED
    BY <1>1, <2>1 DEF Runs
<1> QED
  BY <1>1, <1>2, ServiceStutters, DieRefines DEF Service!Next, ServesCalls

\* The calling code sees the render service (the safety part of
\* ImplementsRenderService): one call at a time, answered once, for what it asked
\* and under the policy in force, and never shortened by a renderer that lives.
\* A frame must have room for the smallest message, a piece and its newline.
THEOREM ServiceKept ==
  ASSUME MaxFrame >= 2
  PROVE  Spec => Service!Init /\ [][Service!Next]_(Service!vars)
<1>1. Init => Service!Init
  BY IdleFacts, BornFacts, ProcessAssumption
     DEF Init, Service!Init, Runs, Spawned
<1>2. ASSUME Inv, [Next]_vars PROVE [Service!Next]_(Service!vars)
  <2>1. ASSUME NEW c \in Calls, Call(c) PROVE Service!Next
    BY <2>1, CallRefines DEF Service!Next
  <2>2. CASE IsAlive \/ Respawn \/ Close \/ BrowserDies
    BY <1>2, <2>2, IsAliveRefines, RespawnRefines, CloseRefines, BrowserDiesRefines
       DEF Service!Next
  <2>3. CASE BrowserStep
    BY <1>2, <2>3, SendRefines, ReceivePieceRefines, ReceiveEofRefines, WaitExitRefines,
       DropRefines DEF BrowserStep
  <2>4. ASSUME NEW p \in Spawned, RendererStep(p) \/ Crash(p)
        PROVE  [Service!Next]_(Service!vars)
    BY <1>2, <2>4, RendererStepRefines
  <2>5. CASE UNCHANGED vars
    BY <2>5, ServiceStutters DEF vars, Runs, ServesCalls
  <2> QED
    BY <1>2, <2>1, <2>2, <2>3, <2>4, <2>5 DEF Next
<1> QED
  BY <1>1, <1>2, Soundness, PTL DEF Spec
=============================================================================
