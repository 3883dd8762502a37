-------------------------------- MODULE Dom --------------------------------
(***************************************************************************)
(* The document of mocha_dom (crates/mocha_dom/src/lib.rs): an arena of    *)
(* nodes that are never freed, whose parent and child links are kept       *)
(* separately.  Node 0 is the root.  An operation that can fail is a guard *)
(* (CanX) and its effect (X).                                              *)
(*                                                                         *)
(* A document is a record of functions over its nodes: tag (the element's  *)
(* name, or "text", "document"), attr (the attributes present, by name),   *)
(* parent, kids.  The text of a text node is its attribute "text", a       *)
(* sequence of characters.  Comments and doctypes are left out: no         *)
(* operation tells them from a text that displays nothing.                 *)
(***************************************************************************)
EXTENDS Integers, SequencesExt

Root == 0
NoNode == -1        \* parent: None

NodesOf(doc) == DOMAIN doc.tag
NewNode(doc) == Cardinality(NodesOf(doc))
ChildSet(doc, n) == {doc.kids[n][i] : i \in DOMAIN doc.kids[n]}
HasAttr(doc, n, a) == a \in DOMAIN doc.attr[n]

(* The two kinds of links agree, and no child is listed twice. *)
LinksSound(doc) ==
  \A n \in NodesOf(doc) :
    /\ doc.parent[n] = NoNode \/ n \in ChildSet(doc, doc.parent[n])
    /\ \A c \in ChildSet(doc, n) : doc.parent[c] = n
    /\ IsInjective(doc.kids[n])

\* SelectSeq with a set: the elements of s that are in S, in their order.
Among(s, S) ==
  LET kept[i \in 0 .. Len(s)] ==
        IF i = 0 THEN << >>
        ELSE IF s[i] \in S THEN Append(kept[i - 1], s[i]) ELSE kept[i - 1]
  IN kept[Len(s)]

(* What the operations are applied to and make; and a document as a parser *)
(* leaves it: no node but the root is without a parent.                    *)
IsDocument(doc) ==
  /\ doc = [tag |-> doc.tag, attr |-> doc.attr, parent |-> doc.parent, kids |-> doc.kids]
  /\ IsFiniteSet(NodesOf(doc)) /\ NodesOf(doc) = 0 .. NewNode(doc) - 1
  /\ DOMAIN doc.attr = NodesOf(doc)
  /\ doc.parent \in [NodesOf(doc) -> NodesOf(doc) \cup {NoNode}]
  /\ doc.kids \in [NodesOf(doc) -> Seq(NodesOf(doc))]
  /\ Root \in NodesOf(doc) /\ doc.parent[Root] = NoNode
  /\ LinksSound(doc)

IsParsed(doc) ==
  IsDocument(doc) /\ \A n \in NodesOf(doc) \ {Root} : doc.parent[n] # NoNode

EmptyDocument == [tag |-> [n \in {Root} |-> "document"],
                  attr |-> [n \in {Root} |-> [a \in {} |-> ""]],
                  parent |-> [n \in {Root} |-> NoNode],
                  kids |-> [n \in {Root} |-> << >>]]

(* Put a detached node at the end of the arena. *)
Create(doc, t, as) ==
  LET new == NewNode(doc)
      With(f, v) == [n \in NodesOf(doc) \cup {new} |-> IF n = new THEN v ELSE f[n]]
  IN [tag |-> With(doc.tag, t), attr |-> With(doc.attr, as),
      parent |-> With(doc.parent, NoNode), kids |-> With(doc.kids, << >>)]

(* Only the root and a node that has a parent are refused: a node may be   *)
(* appended to itself or to one of its own descendants.                    *)
CanAppend(doc, p, c) == c # Root /\ doc.parent[c] = NoNode

AppendChild(doc, p, c) ==
  [doc EXCEPT !.parent[c] = p, !.kids[p] = Append(@, c)]

CanRemove(doc, p, c) == c \in ChildSet(doc, p)

RemoveChild(doc, p, c) ==
  [doc EXCEPT !.parent[c] = NoNode,
              !.kids[p] = RemoveFirst(@, c)]

(* What appendChild of a script does: the child leaves its parent first.   *)
Detach(doc, c) ==
  IF doc.parent[c] = NoNode THEN doc ELSE RemoveChild(doc, doc.parent[c], c)

\* Mutant of Move: the child stays in the list of its old parent.
MoveWithoutDetach(doc, p, c) == AppendChild(doc, p, c)

Move(doc, p, c) == AppendChild(Detach(doc, c), p, c)

RemoveAll(doc, n) ==
  [doc EXCEPT !.kids[n] = << >>,
              !.parent = [m \in NodesOf(doc) |->
                            IF m \in ChildSet(doc, n) THEN NoNode ELSE @[m]]]

CanSetText(doc, n) == doc.tag[n] # "document"

TextAttr(text) == [a \in {"text"} |-> text]

SetTextContent(doc, n, text) ==
  IF doc.tag[n] = "text" THEN [doc EXCEPT !.attr[n] = TextAttr(text)]
  ELSE LET d == Create(RemoveAll(doc, n), "text", TextAttr(text))
       IN AppendChild(d, n, NewNode(doc))

SetAttribute(doc, n, a, v) ==
  [doc EXCEPT !.attr[n] = [b \in DOMAIN @ \cup {a} |-> IF b = a THEN v ELSE @[b]]]

(* innerHTML: the children of n go, and the nodes of a parsed fragment,    *)
(* numbered in document order from its root 0, are copied below n.         *)
Graft(doc, n, frag) ==
  LET d == RemoveAll(doc, n)
      base == NewNode(doc)
      new == base .. base + Cardinality(NodesOf(frag)) - 2
      Id(m) == IF m = Root THEN n ELSE base + m - 1
      Ids(ms) == [i \in DOMAIN ms |-> Id(ms[i])]
      all == NodesOf(doc) \cup new
      Old(m) == m \in NodesOf(doc)
  IN [tag |-> [m \in all |-> IF Old(m) THEN d.tag[m] ELSE frag.tag[m - base + 1]],
      attr |-> [m \in all |-> IF Old(m) THEN d.attr[m] ELSE frag.attr[m - base + 1]],
      parent |-> [m \in all |-> IF Old(m) THEN d.parent[m] ELSE Id(frag.parent[m - base + 1])],
      kids |-> [m \in all |-> IF m = n THEN Ids(frag.kids[Root])
                              ELSE IF Old(m) THEN d.kids[m]
                              ELSE Ids(frag.kids[m - base + 1])]]

(***************************************************************************)
(* Walks.  A node has at most one parent, so a walk meets a node twice     *)
(* only on a cycle, and then it never ends (EndlessUp, EndlessDown): a     *)
(* walk that ends takes at most one step for each node.                    *)
(***************************************************************************)

(* n, its parent, and so on up to the node without a parent. *)
PathUp(doc, n) ==
  LET climb[k \in Nat] ==
        IF k = 0 THEN <<n>>
        ELSE LET up == climb[k - 1]
             IN IF doc.parent[Last(up)] = NoNode THEN up
                ELSE Append(up, doc.parent[Last(up)])
  IN climb[Cardinality(NodesOf(doc))]

Ancestors(doc, n) == Tail(PathUp(doc, n))
EndlessUp(doc, n) == Len(PathUp(doc, n)) > Cardinality(NodesOf(doc))

(* Depth-first pre-order with an explicit stack. *)
Walk(doc, n) ==
  LET walk[k \in Nat] ==
        IF k = 0 THEN [order |-> << >>, stack |-> <<n>>]
        ELSE LET w == walk[k - 1]
             IN IF w.stack = << >> THEN w
                ELSE [order |-> Append(w.order, Last(w.stack)),
                      stack |-> Front(w.stack) \o Reverse(doc.kids[Last(w.stack)])]
  IN walk[Cardinality(NodesOf(doc))]

TraverseDepthFirst(doc, n) == Walk(doc, n).order
EndlessDown(doc, n) == Walk(doc, n).stack # << >>

TextContent(doc, n) ==
  LET texts == SelectSeq(TraverseDepthFirst(doc, n), LAMBDA m : doc.tag[m] = "text")
  IN FlattenSeq([i \in DOMAIN texts |-> doc.attr[texts[i]]["text"]])

(* n or its nearest ancestor whose tag is one of tags. *)
NearestTag(doc, n, tags) ==
  LET i == SelectInSeq(PathUp(doc, n), LAMBDA m : doc.tag[m] \in tags)
  IN IF i = 0 THEN NoNode ELSE PathUp(doc, n)[i]

Attached(doc) == Range(TraverseDepthFirst(doc, Root))
=============================================================================
