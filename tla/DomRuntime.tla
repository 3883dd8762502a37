----------------------------- MODULE DomRuntime -----------------------------
(***************************************************************************)
(* The JavaScript runtime of a page (crates/mocha_js_dom): scripts, timers *)
(* and event listeners over one shared document and one shared form state. *)
(*                                                                         *)
(* The interpreter is single-threaded and is left out: a script, a timer   *)
(* callback or a listener is any sequence of calls of the DOM interface    *)
(* that ends or throws.  A call that walks around a cycle of the document  *)
(* never returns ("hung").                                                 *)
(***************************************************************************)
EXTENDS FormControls, EventDispatcher

CONSTANTS
  Pages,        \* pages as parsed: [doc, uses (groups of calls), touch (the nodes
                \* scripts know), steps (the part of the interpreter's 100000
                \* steps that is left for calls of the DOM interface), targets
                \* (where the embedder dispatches events)]
  Callbacks,    \* function values
  Tags,         \* what createElement is called with
  Texts,        \* texts and values a script writes
  Fragments,    \* what innerHTML is set to, parsed
  Types,        \* event types
  Scripts,      \* inline scripts of a page
  DrainGuard,   \* tasks one drain may run (100000)
  MaxNodes      \* bound: nodes of the arena

\* What a script holds are elements and nodes it made, never the root
\* (document is an object of its own); events are dispatched at nodes.
ASSUME DomAssumption ==
  /\ \A p \in Pages : /\ IsParsed(p.doc) /\ p.touch \subseteq NodesOf(p.doc) \ {Root}
                       /\ p.targets \subseteq NodesOf(p.doc)
  /\ \A f \in Fragments : IsParsed(f)

VARIABLES
  page,         \* the page that was parsed
  doc, forms,   \* the document and the control states
  listeners,    \* JsListeners: [id, node, type, capture, does]; the code has no id
  timers,       \* queued tasks: [id, canceled]
  nextTimer,    \* the id of the next task
  pending,      \* the form a script asked to submit, or NoNode
  dirty,        \* a script changed the page
  mode,         \* what runs: see Modes
  ran,          \* scripts that ran, or tasks that ran in this drain
  disp,         \* the dispatch in progress, or the last one
  steps         \* interface calls of all scripts and callbacks together

rt == <<page, doc, forms, listeners, timers, nextTimer, pending, dirty, mode, ran, disp, steps>>

(* idle: between scripts; ready: the scripts and the timers have run;      *)
(* shown: the embedder has taken the document over.                        *)
Modes == {"idle", "script", "drain", "timer", "ready", "dispatch", "listener", "shown", "hung"}
Running == mode \in {"script", "timer", "listener"}

NoDispatch == [ev |-> NewEvent("none", Root, TRUE, TRUE),
               visits |-> << >>,    \* still to come
               queue |-> << >>,     \* the listeners of this visit still to call
               called |-> << >>,    \* history: what was called and did
               before |-> << >>,    \* history: the listeners at the start
               path |-> << >>,      \* history: all the visits
               changed |-> FALSE,   \* history: a listener was added or removed
               threw |-> FALSE]

RuntimeInit ==
  /\ page \in Pages
  /\ doc = page.doc
  /\ forms = EnsureDocument(page.doc, NoControls)
  /\ listeners = << >> /\ timers = << >> /\ nextTimer = 0
  /\ pending = NoNode /\ dirty = FALSE
  /\ mode = "idle" /\ ran = 0 /\ disp = NoDispatch /\ steps = 0

(***************************************************************************)
(* Calls of the interface by running JavaScript.                           *)
(***************************************************************************)
Api(group) == Running /\ group \in page.uses /\ steps < page.steps /\ steps' = steps + 1

Touched == page.touch \cup {n \in NodesOf(doc) : n \notin NodesOf(page.doc)}

\* the call changes the document and nothing else
Mutates(d) ==
  /\ doc' = d /\ dirty' = TRUE
  /\ UNCHANGED <<page, forms, listeners, timers, nextTimer, pending, mode, ran, disp>>

CreateNode ==
  /\ Api("tree") /\ NewNode(doc) < MaxNodes
  /\ \E t \in Tags : doc' = Create(doc, t, IF t = "text" THEN TextAttr(<<"t">>) ELSE [a \in {} |-> ""])
  /\ UNCHANGED <<page, forms, listeners, timers, nextTimer, pending, dirty, mode, ran, disp>>

AppendChildCall == Api("tree") /\ \E p, c \in Touched : Mutates(Move(doc, p, c))

RemoveChildCall ==
  Api("tree") /\ \E p, c \in Touched : CanRemove(doc, p, c) /\ Mutates(RemoveChild(doc, p, c))

SetText ==
  /\ Api("tree") /\ NewNode(doc) < MaxNodes
  /\ \E n \in Touched, x \in Texts : CanSetText(doc, n) /\ Mutates(SetTextContent(doc, n, x))

SetInnerHtml ==
  /\ Api("tree")
  /\ \E n \in Touched, f \in Fragments :
       NewNode(doc) + Cardinality(NodesOf(f)) - 1 <= MaxNodes /\ Mutates(Graft(doc, n, f))

SetAttributeCall ==
  /\ Api("forms")
  /\ \E n \in Touched \ {m \in NodesOf(doc) : doc.tag[m] = "text"}, a \in {"checked", "disabled"} :
       Mutates(SetAttribute(doc, n, a, ""))

\* reading textContent or innerHTML walks down, checking a radio walks up
Hangs ==
  /\ Running /\ steps < page.steps /\ mode' = "hung"
  /\ \E n \in Touched : \/ EndlessDown(doc, n)
                        \/ EndlessUp(doc, n) /\ n \in DOMAIN forms /\ forms[n].kind = "radio"
  /\ UNCHANGED <<page, doc, forms, listeners, timers, nextTimer, pending, dirty, ran, disp, steps>>

AddListener ==
  /\ Api("events")
  /\ \E n \in Touched, ty \in Types, c \in BOOLEAN, cb \in Callbacks :
       listeners' = Append(listeners, [id |-> steps, node |-> n, type |-> ty, capture |-> c,
                                       cb |-> cb])
  /\ disp' = [disp EXCEPT !.changed = TRUE]
  /\ UNCHANGED <<page, doc, forms, timers, nextTimer, pending, dirty, mode, ran>>

\* the first registration of the same node, type, phase and function
RemoveListener ==
  /\ Api("events")
  /\ \E i \in DOMAIN listeners :
       /\ \A j \in 1 .. i - 1 : \E f \in {"node", "type", "capture", "cb"} :
                                   listeners[j][f] # listeners[i][f]
       /\ listeners' = RemoveAt(listeners, i)
  /\ disp' = [disp EXCEPT !.changed = TRUE]
  /\ UNCHANGED <<page, doc, forms, timers, nextTimer, pending, dirty, mode, ran>>

SetTimeout ==
  /\ Api("timers")
  /\ timers' = Append(timers, [id |-> nextTimer, canceled |-> FALSE])
  /\ nextTimer' = nextTimer + 1
  /\ UNCHANGED <<page, doc, forms, listeners, pending, dirty, mode, ran, disp>>

\* a canceled task stays in the queue; an id that is not queued is ignored
ClearTimeout ==
  /\ Api("timers")
  /\ \E id \in 0 .. nextTimer - 1 :
       timers' = [i \in DOMAIN timers |->
                    IF timers[i].id = id THEN [timers[i] EXCEPT !.canceled = TRUE] ELSE timers[i]]
  /\ UNCHANGED <<page, doc, forms, listeners, nextTimer, pending, dirty, mode, ran, disp>>

\* the call changes the control states and nothing else
Controls(f) ==
  /\ forms' = f /\ dirty' = TRUE
  /\ UNCHANGED <<page, doc, listeners, timers, nextTimer, pending, mode, ran, disp>>

\* a control below a cycle is left to Hangs
ControlNodes == {n \in Touched : IsControl(doc, n) /\ ~EndlessUp(doc, n)}

\* reading a property makes the state of the control, and of its options
ReadControl ==
  /\ Api("forms")
  /\ \E n \in ControlNodes :
       forms' = IF doc.tag[n] = "select" THEN WithOptions(doc, Ensure(doc, forms, n), n)
                ELSE Ensure(doc, forms, n)
  /\ UNCHANGED <<page, doc, listeners, timers, nextTimer, pending, dirty, mode, ran, disp>>

SetChecked ==
  /\ Api("forms")
  /\ \E n \in ControlNodes, b \in BOOLEAN :
       LET f == Ensure(doc, forms, n)
       IN Controls(IF f[n].kind = "radio" /\ b THEN SelectRadio(doc, f, n)
                   ELSE [f EXCEPT ![n].checked = b])

SetValue ==
  /\ Api("forms")
  /\ \E n \in ControlNodes, x \in Texts :
       Controls(IF doc.tag[n] = "select" THEN SetSelectValue(doc, forms, n, x)
                ELSE [Ensure(doc, forms, n) EXCEPT ![n].value = x])

SetSelected ==
  /\ Api("forms")
  /\ \E n \in ControlNodes, b \in BOOLEAN :
       Controls([Ensure(doc, forms, n) EXCEPT ![n].selected = b])

SetDisabled ==
  /\ Api("forms")
  /\ \E n \in ControlNodes, b \in BOOLEAN :
       Controls([Ensure(doc, forms, n) EXCEPT ![n].disabled = b])

SetIndex ==
  /\ Api("forms")
  /\ \E n \in ControlNodes :
       /\ doc.tag[n] = "select"
       /\ \E i \in 0 .. Len(SelectOptions(doc, n)) : Controls(SetSelectedIndex(doc, forms, n, i))

\* form.submit(): the first request stays
SubmitCall ==
  /\ Api("forms")
  /\ \E n \in Touched : doc.tag[n] = "form" /\ pending' = IF pending = NoNode THEN n ELSE pending
  /\ UNCHANGED <<page, doc, forms, listeners, timers, nextTimer, dirty, mode, ran, disp>>

\* event.preventDefault(), stopPropagation(), stopImmediatePropagation()
OnEvent ==
  /\ Api("events") /\ mode = "listener"
  /\ LET l == Last(disp.called)
     IN \E does \in {"prevent", "stop", "immediate"} \ l.does :
          disp' = [disp EXCEPT !.ev = Effect(@, l.node, {does}),
                               !.called[Len(disp.called)].does = @ \cup {does}]
  /\ UNCHANGED <<page, doc, forms, listeners, timers, nextTimer, pending, dirty, mode, ran>>

(***************************************************************************)
(* A function returns, or a call fails (or the steps are used up) and the  *)
(* script, the drain or the dispatch it ran in is given up.                *)
(***************************************************************************)
Return ==
  /\ Running
  /\ mode' = CASE mode = "script" -> "idle" [] mode = "timer" -> "drain"
               [] mode = "listener" -> "dispatch"
  /\ UNCHANGED <<page, doc, forms, listeners, timers, nextTimer, pending, dirty, ran, disp, steps>>

Throw ==
  /\ Running
  /\ mode' = IF mode = "script" THEN "idle" ELSE "ready"
  /\ disp' = [disp EXCEPT !.threw = @ \/ mode = "listener"]
  /\ UNCHANGED <<page, doc, forms, listeners, timers, nextTimer, pending, dirty, ran, steps>>

(***************************************************************************)
(* The embedder: the scripts, one drain of the timers, dispatches.         *)
(***************************************************************************)
RunScript ==
  /\ mode = "idle" /\ ran < Scripts
  /\ mode' = "script" /\ ran' = ran + 1
  /\ UNCHANGED <<page, doc, forms, listeners, timers, nextTimer, pending, dirty, disp, steps>>

RunPendingTimers ==
  /\ mode = "idle" /\ ran = Scripts
  /\ mode' = "drain" /\ ran' = 0
  /\ UNCHANGED <<page, doc, forms, listeners, timers, nextTimer, pending, dirty, disp, steps>>

\* Mutant of RunTimer: the last task set runs first.
RunLastTimer ==
  /\ mode = "drain" /\ ran <= DrainGuard
  /\ LET i == SelectLastInSeq(timers, LAMBDA t : ~t.canceled)
     IN i # 0 /\ timers' = RemoveAt(timers, i)
  /\ mode' = "timer" /\ ran' = ran + 1
  /\ UNCHANGED <<page, doc, forms, listeners, nextTimer, pending, dirty, disp, steps>>

\* the first task that is not canceled leaves the queue and runs
RunTimer ==
  /\ mode = "drain" /\ ran <= DrainGuard
  /\ LET i == SelectInSeq(timers, LAMBDA t : ~t.canceled)
     IN i # 0 /\ timers' = RemoveAt(timers, i)
  /\ mode' = "timer" /\ ran' = ran + 1
  /\ UNCHANGED <<page, doc, forms, listeners, nextTimer, pending, dirty, disp, steps>>

\* Mutant of DrainEnds: it waits for the queue to be empty.
DrainWaits ==
  /\ mode = "drain" /\ timers = << >>
  /\ mode' = "ready"
  /\ UNCHANGED <<page, doc, forms, listeners, timers, nextTimer, pending, dirty, ran, disp, steps>>

\* nothing is left but canceled tasks, or the drain has run too many
DrainEnds ==
  /\ mode = "drain"
  /\ ran > DrainGuard \/ \A i \in DOMAIN timers : timers[i].canceled
  /\ mode' = "ready"
  /\ UNCHANGED <<page, doc, forms, listeners, timers, nextTimer, pending, dirty, ran, disp, steps>>

DispatchEvent ==
  /\ mode = "ready"
  /\ \E target \in page.targets, ty \in Types :
       IF EndlessUp(doc, target) THEN mode' = "hung" /\ UNCHANGED disp
       ELSE /\ mode' = "dispatch"
            /\ disp' = [NoDispatch EXCEPT !.ev = NewEvent(ty, target, TRUE, TRUE),
                                          !.visits = Visits(doc, target, TRUE),
                                          !.path = Visits(doc, target, TRUE),
                                          !.before = listeners]
  /\ UNCHANGED <<page, doc, forms, listeners, timers, nextTimer, pending, dirty, ran, steps>>

\* Mutant of Visit: a stopped event goes on.
VisitAlways ==
  /\ mode = "dispatch" /\ disp.queue = << >> /\ disp.visits # << >>
  /\ LET v == Head(disp.visits)
     IN disp' = [disp EXCEPT !.visits = Tail(@), !.queue = Matching(listeners, disp.ev, v)]
  /\ UNCHANGED <<page, doc, forms, listeners, timers, nextTimer, pending, dirty, mode, ran, steps>>

\* the functions to call at a node are taken down when the event gets there
Visit ==
  /\ mode = "dispatch" /\ disp.queue = << >> /\ disp.visits # << >>
  /\ LET v == Head(disp.visits)
     IN disp' = [disp EXCEPT !.visits = Tail(@),
                             !.queue = IF Enters(disp.ev, v) THEN Matching(listeners, disp.ev, v)
                                       ELSE << >>]
  /\ UNCHANGED <<page, doc, forms, listeners, timers, nextTimer, pending, dirty, mode, ran, steps>>

\* Mutant of CallListener: the listeners already taken down are all called.
CallThemAll ==
  /\ mode = "dispatch" /\ disp.queue # << >>
  /\ LET l == Head(disp.queue)
     IN /\ mode' = "listener"
        /\ disp' = [disp EXCEPT !.queue = Tail(@),
                      !.called = Append(@, [id |-> l.id, node |-> l.node,
                                            capture |-> l.capture, does |-> {}])]
  /\ UNCHANGED <<page, doc, forms, listeners, timers, nextTimer, pending, dirty, ran, steps>>

CallListener ==
  /\ mode = "dispatch" /\ disp.queue # << >>
  /\ LET l == Head(disp.queue)
     IN IF disp.ev.immediate THEN disp' = [disp EXCEPT !.queue = << >>] /\ UNCHANGED mode
        ELSE /\ mode' = "listener"
             /\ disp' = [disp EXCEPT !.queue = Tail(@),
                           !.called = Append(@, [id |-> l.id, node |-> l.node,
                                                 capture |-> l.capture, does |-> {}])]
  /\ UNCHANGED <<page, doc, forms, listeners, timers, nextTimer, pending, dirty, ran, steps>>

DispatchEnds ==
  /\ mode = "dispatch" /\ disp.queue = << >> /\ disp.visits = << >>
  /\ mode' = "ready"
  /\ UNCHANGED <<page, doc, forms, listeners, timers, nextTimer, pending, dirty, ran, disp, steps>>

Call == \/ CreateNode \/ AppendChildCall \/ RemoveChildCall \/ SetText \/ SetInnerHtml
        \/ SetAttributeCall \/ Hangs \/ AddListener \/ RemoveListener \/ SetTimeout
        \/ ClearTimeout \/ ReadControl \/ SetChecked \/ SetValue \/ SetSelected \/ SetDisabled \/ SetIndex
        \/ SubmitCall \/ OnEvent

RuntimeNext == \/ Call \/ Return \/ Throw
               \/ RunScript \/ RunPendingTimers \/ RunTimer \/ DrainEnds
               \/ DispatchEvent \/ Visit \/ CallListener \/ DispatchEnds
=============================================================================
