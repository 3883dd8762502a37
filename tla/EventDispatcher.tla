-------------------------- MODULE EventDispatcher ---------------------------
(***************************************************************************)
(* The event flow of mocha_events (crates/mocha_events): the path of an    *)
(* event through a document, and the dispatcher for Rust callbacks.  A     *)
(* callback gets the event and nothing else, so what it can do is prevent  *)
(* the default action, stop the event, or stop it at once.                 *)
(***************************************************************************)
EXTENDS Dom

(* The visits of an event: the capturing listeners from the root down to   *)
(* the parent, the target's capturing and then its other listeners, and,   *)
(* when the event bubbles, the others from the parent up.                  *)
Visits(doc, target, bubbles) ==
  LET up == Ancestors(doc, target)
      Each(nodes, c) == [i \in DOMAIN nodes |-> [node |-> nodes[i], capture |-> c]]
  IN Each(Reverse(up), TRUE) \o Each(<<target>>, TRUE) \o Each(<<target>>, FALSE)
     \o (IF bubbles THEN Each(up, FALSE) ELSE << >>)

NewEvent(type, target, bubbles, cancelable) ==
  [type |-> type, target |-> target, bubbles |-> bubbles, cancelable |-> cancelable,
   prevented |-> FALSE, immediate |-> FALSE,
   stopped |-> NoNode]   \* the node at which a listener stopped the event

PreventDefault(ev) == [ev EXCEPT !.prevented = @ \/ ev.cancelable]
StopPropagation(ev, n) == [ev EXCEPT !.stopped = IF @ = NoNode THEN n ELSE @]
StopImmediate(ev, n) == [StopPropagation(ev, n) EXCEPT !.immediate = TRUE]

(* A stopped event reaches no later node; stopped by a capturing listener  *)
(* of the target, it still reaches the target's other listeners.           *)
Enters(ev, visit) ==
  \/ ev.stopped = NoNode
  \/ /\ ev.stopped = ev.target /\ visit.node = ev.target
     /\ ~visit.capture /\ ~ev.immediate

Matching(listeners, ev, visit) ==
  Among(listeners, {l \in Range(listeners) : /\ l.node = visit.node
                                             /\ l.capture = visit.capture
                                             /\ l.type = ev.type})

(* What a callback does to the event at node n: some of "prevent", "stop", *)
(* "immediate".                                                            *)
Effect(ev, n, does) ==
  LET e == IF "prevent" \in does THEN PreventDefault(ev) ELSE ev
      s == IF "stop" \in does THEN StopPropagation(e, n) ELSE e
  IN IF "immediate" \in does THEN StopImmediate(s, n) ELSE s

(* The state of a dispatch: the event, the listeners called so far, and    *)
(* those that are left.  The functions taken down for a visit are called   *)
(* until one stops the event at once; a `once' listener goes after it ran. *)
RunCallback(st, l) ==
  IF st.ev.immediate THEN st
  ELSE [ev |-> Effect(st.ev, l.node, l.does),
        called |-> Append(st.called, l.id),
        left |-> IF l.once THEN Among(st.left, {m \in Range(st.left) : m.id # l.id}) ELSE st.left]

RunAll(st, ls) ==
  LET after[i \in 0 .. Len(ls)] == IF i = 0 THEN st ELSE RunCallback(after[i - 1], ls[i])
  IN after[Len(ls)]

Invoke(st, visit) ==
  IF Enters(st.ev, visit) THEN RunAll(st, Matching(st.left, st.ev, visit)) ELSE st

Deliver(st, visits) ==
  LET after[i \in 0 .. Len(visits)] == IF i = 0 THEN st ELSE Invoke(after[i - 1], visits[i])
  IN after[Len(visits)]

(* A whole dispatch along the visits of the event, which are taken down    *)
(* before the first callback runs.                                         *)
Dispatch(visits, listeners, event) ==
  Deliver([ev |-> event, called |-> << >>, left |-> listeners], visits)
=============================================================================
