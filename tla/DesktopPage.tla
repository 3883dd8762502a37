---------------------------- MODULE DesktopPage -----------------------------
(***************************************************************************)
(* A page of the desktop shell (crates/mocha_desktop/src/lib.rs): the      *)
(* engine has run its scripts (DomRuntime) and the shell keeps the         *)
(* document and the control states, edits the states as the user clicks    *)
(* and types, and paints the whole page again after each change.  The      *)
(* runtime is gone by then: a click reaches no listener.                   *)
(*                                                                         *)
(* A click hits any node that has a box, or none; which one is Layout's.   *)
(***************************************************************************)
EXTENDS DomRuntime

CONSTANTS
  Keys,         \* characters the user types
  MaxActions    \* bound: user actions of a behaviour

VARIABLES
  focus,        \* the text control that takes the keys, or NoNode
  painted,      \* what the screen shows of each control
  sent,         \* the last navigation a click led to, or Nothing
  actions       \* user actions so far

shell == <<focus, painted, sent, actions>>
vars == <<rt, shell>>

Nothing == [to |-> "nothing"]

PaintedControls(f) == [n \in VisibleControls(doc, f) |-> Painted(doc, f, n)]

Init == RuntimeInit /\ focus = NoNode /\ painted = << >> /\ sent = Nothing /\ actions = 0

\* every control that is painted has its state made first
Rerender(f) ==
  LET g == EnsureAll(doc, f, Attached(doc))
  IN forms' = g /\ painted' = PaintedControls(g)

(* The engine hands the page over.  A submission a script asked for is     *)
(* taken out with it, and the shell does nothing with it.                  *)
Show ==
  /\ mode = "ready" /\ mode' = "shown"
  /\ Rerender(forms)
  /\ pending' = NoNode
  /\ UNCHANGED <<page, doc, listeners, timers, nextTimer, dirty, ran, disp, steps, focus, sent, actions>>

User == mode = "shown" /\ actions < MaxActions /\ actions' = actions + 1

Keep == UNCHANGED <<page, doc, listeners, timers, nextTimer, pending, dirty, mode, ran, disp, steps>>

Unpainted == {n \in NodesOf(doc) : doc.tag[n] \in {"document", "option"}}

\* the text control the node is or is in; another control there takes none
Editable(f, n) ==
  LET c == ClickedControl(doc, n)
  IN IF c # NoNode /\ Ensure(doc, f, c)[c].kind \in TextKinds THEN c ELSE NoNode

\* a form with a base to resolve against is sent, or refused (POST)
Submit(f, form, submitter) ==
  IF CanSubmit(doc, form)
  THEN /\ forms' = EnsureAll(doc, f, Range(TraverseDepthFirst(doc, form)))
       /\ sent' = [to |-> "form", form |-> form, fields |-> Fields(doc, f, form, submitter)]
  ELSE forms' = f /\ sent' = Nothing

LinkOf(n) ==
  LET up == PathUp(doc, n)
      i == SelectInSeq(up, LAMBDA m : doc.tag[m] = "a" /\ HasAttr(doc, m, "href"))
  IN IF i = 0 THEN Nothing ELSE [to |-> "link", link |-> up[i]]

Click ==
  /\ User /\ Keep
  /\ \E n \in Attached(doc) \ Unpainted :
       LET act == ClickAction(doc, forms, n)
           f == act.forms
       IN /\ focus' = Editable(f, n)
          /\ CASE act.did = "changed" -> Rerender(f) /\ sent' = Nothing
               [] act.did = "submit" ->
                    /\ Submit(f, act.form, act.submitter)
                    /\ UNCHANGED painted
               [] act.did = "none" -> forms' = f /\ sent' = LinkOf(n) /\ UNCHANGED painted

ClickNowhere == User /\ Keep /\ focus' = NoNode /\ sent' = Nothing /\ UNCHANGED <<forms, painted>>

\* the keys go to the control that has the focus, whatever its state
Edit(value) ==
  /\ User /\ Keep
  /\ forms[focus].kind \in TextKinds
  /\ Rerender([forms EXCEPT ![focus].value = value])
  /\ sent' = Nothing /\ UNCHANGED focus

InputText == focus # NoNode /\ \E k \in Keys : Edit(Append(forms[focus].value, k))

\* Mutant of Backspace: the page is not painted again.
BackspaceUnpainted ==
  /\ User /\ Keep
  /\ focus # NoNode /\ forms[focus].value # << >>
  /\ forms' = [forms EXCEPT ![focus].value = Front(@)]
  /\ sent' = Nothing /\ UNCHANGED <<focus, painted>>

Backspace == focus # NoNode /\ forms[focus].value # << >> /\ Edit(Front(forms[focus].value))

Next == \/ RuntimeNext /\ UNCHANGED shell
        \/ Show \/ Click \/ ClickNowhere \/ InputText \/ Backspace

(* The interpreter keeps running what it runs, and the engine goes from    *)
(* one stage to the next; nobody has to dispatch an event or call a DOM    *)
(* method.                                                                 *)
Advance == \/ Return \/ RunScript \/ RunPendingTimers \/ RunTimer \/ DrainEnds
           \/ Visit \/ CallListener \/ DispatchEnds
Fairness == WF_vars(Advance /\ UNCHANGED shell)

Spec == Init /\ [][Next]_vars /\ Fairness

-----------------------------------------------------------------------------
(* Type invariant: parent and child links, which are kept separately,      *)
(* agree.  The part of the document that is laid out is a tree: the walk   *)
(* from the root ends and meets a node once, whatever scripts move where,  *)
(* even when detached nodes form a cycle.  (dom lib.rs:151-190)            *)
AttachedIsTree ==
  /\ IsDocument(doc)
  /\ ~EndlessDown(doc, Root) /\ IsInjective(TraverseDepthFirst(doc, Root))

(* A dispatch during which no listener was added or removed calls what the *)
(* dispatcher for Rust callbacks calls, whatever the listeners do to the   *)
(* document, and prevents the default action when that does:               *)
(* dom-bindings.md says the one mirrors the other.                         *)
DoneBy(called, id) == UNION {called[i].does : i \in {j \in DOMAIN called : called[j].id = id}}
AsCallback(l, does) ==
  [id |-> l.id, node |-> l.node, type |-> l.type, capture |-> l.capture, once |-> FALSE, does |-> does]

MirrorsEventDispatcher ==
  mode = "ready" /\ ~disp.changed /\ ~disp.threw /\ disp.ev.type # "none" =>
    LET callbacks == [i \in DOMAIN disp.before |->
                        AsCallback(disp.before[i], DoneBy(disp.called, disp.before[i].id))]
        r == Dispatch(disp.path, callbacks, NewEvent(disp.ev.type, disp.ev.target, TRUE, TRUE))
    IN /\ r.called = [i \in DOMAIN disp.called |-> disp.called[i].id]
       /\ r.ev.prevented = disp.ev.prevented

(* Whatever listeners do to the listeners, a dispatch calls each at most   *)
(* once, those of a node in the order of registration, and none after the  *)
(* event was stopped at another node.                                      *)
FlowKept ==
  \A i, j \in DOMAIN disp.called :
    i < j => LET a == disp.called[i]  b == disp.called[j]
             IN /\ a.id # b.id
                /\ "immediate" \notin a.does
                /\ "stop" \in a.does => a.node = b.node
                /\ a.node = b.node /\ a.capture = b.capture => a.id < b.id
                /\ a.capture \/ ~b.capture

(* Timer tasks run in the order they were set, each once, and no canceled  *)
(* one: a task that starts was in the queue, live, before every other live *)
(* one, and is not in the queue afterwards.                                *)
TimersInOrder ==
  [][\A t \in Range(timers) :
       t \notin Range(timers') /\ [t EXCEPT !.canceled = TRUE] \notin Range(timers') =>
         /\ ~t.canceled
         /\ \A u \in Range(timers) : ~u.canceled => t.id <= u.id
         /\ \A u \in Range(timers') : u.id # t.id]_timers

(* The screen shows the control states as they are, so what the user sees  *)
(* is what a click submits.                                                *)
ScreenCurrent == mode = "shown" => painted = PaintedControls(forms)

(* A control is submitted only when it is in the form and enabled, and     *)
(* with the value on the screen; a submit button shows its label instead,  *)
(* and a box or a radio is sent because it is checked there.               *)
SendsWhatIsShown ==
  sent.to = "form" =>
    \A i \in DOMAIN sent.fields :
      LET fld == sent.fields[i]
      IN /\ ~forms[fld.node].disabled
         /\ Contains(PathUp(doc, fld.node), sent.form)
         /\ fld.node \in DOMAIN painted /\ forms[fld.node].kind # "submit" =>
              fld.value = painted[fld.node].value \/ painted[fld.node].checked

(* A radio that becomes checked, by the user or by a script, leaves no     *)
(* other radio of its group checked in the document (unless the markup     *)
(* checks both: a reset brings that back).                                 *)
SameGroup(a, b) == /\ forms[a].kind = "radio" /\ forms[b].kind = "radio"
                   /\ forms[a].name = forms[b].name /\ forms[a].name # NoName
                   /\ OwnerForm(doc, a) = OwnerForm(doc, b)
RadioGroupsExclusive ==
  [][\A a \in DOMAIN forms : \A b \in (DOMAIN forms) \ {a} :
       /\ SameGroup(a, b) /\ {a, b} \subseteq Attached(doc)
       /\ doc' = doc /\ ~forms[a].checked /\ forms'[a].checked
       /\ ~(HasAttr(doc, a, "checked") /\ HasAttr(doc, b, "checked"))
       => ~forms'[b].checked]_<<doc, forms>>

(* A page gets to be shown: scripts and timer callbacks run on a budget of *)
(* steps, and tasks that set tasks end with it or at the drain's guard.    *)
(* Only a walk around a cycle is not covered by the budget.                *)
ScriptsEnd == <>(mode \in {"ready", "hung"})

(* What javascript-interpreter.md:89 promises. *)
NeverHangs == mode # "hung"

(* What forms-and-controls.md:119 says of clicks: disabled controls do     *)
(* nothing.  The user never changes the value of a disabled control.       *)
DisabledDoNothing ==
  [][mode = "shown" => \A n \in DOMAIN forms :
       forms[n].disabled => forms'[n].value = forms[n].value]_forms
=============================================================================
