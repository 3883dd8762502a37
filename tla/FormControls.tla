---------------------------- MODULE FormControls ----------------------------
(***************************************************************************)
(* Form controls (crates/mocha_forms): the state of a control lives beside *)
(* the document, keyed by node, and is made from the attributes when it is *)
(* first needed; later changes of the attributes do not reach it, and a    *)
(* reset reads them again.                                                 *)
(*                                                                         *)
(* `forms' is a partial function from nodes to states.  A value is a       *)
(* sequence of characters; no character is white space, so the trimming of *)
(* labels and of option texts is the identity.                             *)
(***************************************************************************)
EXTENDS Dom

NoName == "(none)"                \* name: None
On == <<"on">>                    \* the value of a checkbox that has none

ControlTags == {"input", "button", "textarea", "select", "option"}
TextKinds == {"text", "password", "textarea"}
TypedKinds == {"password", "checkbox", "radio", "submit", "reset", "button", "hidden"}

IsControl(doc, n) == doc.tag[n] \in ControlTags

AttrOr(doc, n, a, v) == IF HasAttr(doc, n, a) THEN doc.attr[n][a] ELSE v

(* An input type that is not known is a text field, and an unknown button  *)
(* type a plain button.                                                    *)
ControlKind(doc, n) ==
  LET t == doc.tag[n]
      ty == AttrOr(doc, n, "type", "(none)")
  IN CASE t = "input" -> IF ty = "image" THEN "submit"
                         ELSE IF ty \in TypedKinds THEN ty ELSE "text"
       [] t = "button" -> IF ty \in {"(none)", "", "submit"} THEN "submit"
                          ELSE IF ty = "reset" THEN "reset" ELSE "button"
       [] OTHER -> t

InitialValue(doc, n) ==
  LET k == ControlKind(doc, n)
  IN CASE k = "textarea" -> TextContent(doc, n)
       [] k = "select" -> << >>
       [] k = "option" -> AttrOr(doc, n, "value", TextContent(doc, n))
       [] k \in {"checkbox", "radio"} -> AttrOr(doc, n, "value", On)
       [] OTHER -> AttrOr(doc, n, "value", << >>)

InitialControl(doc, n) ==
  [kind |-> ControlKind(doc, n),
   name |-> AttrOr(doc, n, "name", NoName),
   value |-> InitialValue(doc, n),
   checked |-> doc.tag[n] = "input" /\ HasAttr(doc, n, "checked"),
   selected |-> doc.tag[n] = "option" /\ HasAttr(doc, n, "selected"),
   disabled |-> HasAttr(doc, n, "disabled")]

(* States are made on first need. *)
EnsureAll(doc, forms, ns) ==
  [n \in DOMAIN forms \cup {m \in ns : IsControl(doc, m)} |->
     IF n \in DOMAIN forms THEN forms[n] ELSE InitialControl(doc, n)]
Ensure(doc, forms, n) == EnsureAll(doc, forms, {n})

OwnerForm(doc, n) ==
  IF doc.parent[n] = NoNode THEN NoNode
  ELSE NearestTag(doc, doc.parent[n], {"form"})

(***************************************************************************)
(* Selects: only direct option children count.                             *)
(***************************************************************************)
SelectOptions(doc, s) == Among(doc.kids[s], {c \in ChildSet(doc, s) : doc.tag[c] = "option"})

WithOptions(doc, forms, s) == EnsureAll(doc, forms, Range(SelectOptions(doc, s)))

(* The first option that is selected, else the first (0: no options). *)
SelectedIndex(doc, forms, s) ==
  LET opts == SelectOptions(doc, s)
      f == WithOptions(doc, forms, s)
      i == SelectInSeq(opts, LAMBDA o : f[o].selected)
  IN IF opts = << >> THEN 0 ELSE IF i = 0 THEN 1 ELSE i

SelectValue(doc, forms, s) ==
  LET opts == SelectOptions(doc, s)
  IN IF opts = << >> THEN << >>
     ELSE WithOptions(doc, forms, s)[opts[SelectedIndex(doc, forms, s)]].value

(* Any other index deselects every option. *)
SetSelectedIndex(doc, forms, s, i) ==
  LET opts == SelectOptions(doc, s)
      f == WithOptions(doc, forms, s)
  IN [n \in DOMAIN f |->
        IF Contains(opts, n) THEN [f[n] EXCEPT !.selected = i \in DOMAIN opts /\ opts[i] = n]
        ELSE f[n]]

SetSelectValue(doc, forms, s, v) ==
  LET f == WithOptions(doc, forms, s)
  IN SetSelectedIndex(doc, f, s, SelectInSeq(SelectOptions(doc, s), LAMBDA o : f[o].value = v))

(* In each of the selects ss the last option marked selected wins; with    *)
(* none marked, the first.                                                 *)
NormalizeSelects(doc, forms, ss) ==
  LET Chosen(s) ==
        LET opts == SelectOptions(doc, s)
            i == SelectLastInSeq(opts, LAMBDA o : forms[o].selected)
        IN opts[IF i = 0 THEN 1 ELSE i]
  IN [n \in DOMAIN forms |->
        IF doc.tag[n] = "option" /\ doc.parent[n] \in ss
        THEN [forms[n] EXCEPT !.selected = Chosen(doc.parent[n]) = n]
        ELSE forms[n]]

Selects(doc, ns) == {n \in ns : doc.tag[n] = "select"}

NoControls == [n \in {} |-> << >>]

EnsureDocument(doc, forms) ==
  LET ns == Range(TraverseDepthFirst(doc, Root))
  IN NormalizeSelects(doc, EnsureAll(doc, forms, ns), Selects(doc, ns))

(* The attributes are read again: what is below the form is made anew. *)
ResetForm(doc, forms, form) ==
  LET ns == Range(TraverseDepthFirst(doc, form))
      others == Restrict(forms, DOMAIN forms \ ns)
  IN NormalizeSelects(doc, EnsureAll(doc, others, ns), Selects(doc, ns))

(***************************************************************************)
(* Radios: a group is the radios of one name and one owner form that a     *)
(* walk from the root meets; an unnamed radio is a group of its own.       *)
(***************************************************************************)
\* Mutant of SelectRadio: only the radios beside it are unchecked.
SelectRadioAmongSiblings(doc, forms, r) ==
  [n \in DOMAIN forms |->
     IF n = r THEN [forms[n] EXCEPT !.checked = TRUE]
     ELSE IF /\ doc.parent[n] = doc.parent[r] /\ forms[n].kind = "radio"
             /\ forms[r].name # NoName /\ forms[n].name = forms[r].name
     THEN [forms[n] EXCEPT !.checked = FALSE]
     ELSE forms[n]]

\* the other inputs of the form of r, of any kind and name
Mates(doc, forms, r) ==
  {n \in Attached(doc) : /\ forms[r].name # NoName
                         /\ n # r /\ doc.tag[n] = "input"
                         /\ OwnerForm(doc, n) = OwnerForm(doc, r)}

SelectRadio(doc, forms, r) ==
  LET mates == Mates(doc, forms, r)
      f == EnsureAll(doc, forms, mates)
      Mate(n) == n \in mates /\ f[n].kind = "radio" /\ f[n].name = forms[r].name
  IN [n \in DOMAIN f |-> IF n = r THEN [f[n] EXCEPT !.checked = TRUE]
                         ELSE IF Mate(n) THEN [f[n] EXCEPT !.checked = FALSE]
                         ELSE f[n]]

(***************************************************************************)
(* The default action of a click at a node: what it does to the states,    *)
(* and the submission it asks for (form = NoNode: none).                   *)
(***************************************************************************)
ClickedControl(doc, n) == NearestTag(doc, n, ControlTags)

ClickAction(doc, forms, target) ==
  LET c == ClickedControl(doc, target)
      f == Ensure(doc, forms, c)
      form == OwnerForm(doc, c)
      Did(g, what) == [forms |-> g, did |-> what, form |-> form, submitter |-> c]
  IN IF c = NoNode THEN [forms |-> forms, did |-> "none", form |-> NoNode, submitter |-> NoNode]
     ELSE IF f[c].disabled THEN Did(f, "none")
     ELSE CASE f[c].kind = "checkbox" -> Did([f EXCEPT ![c].checked = ~@], "changed")
            [] f[c].kind = "radio" -> Did(SelectRadio(doc, f, c), "changed")
            [] f[c].kind = "submit" /\ form # NoNode -> Did(f, "submit")
            [] f[c].kind = "reset" /\ form # NoNode -> Did(ResetForm(doc, f, form), "changed")
            [] OTHER -> Did(f, "none")

(***************************************************************************)
(* Submission: GET only; the successful controls below the form, in        *)
(* document order.                                                         *)
(***************************************************************************)
CanSubmit(doc, form) == AttrOr(doc, form, "method", "") \in {"", "get"}

\* Mutant of Successful: a disabled control is sent.
SuccessfulDisabled(forms, n, submitter) ==
  /\ forms[n].name \notin {NoName, ""}
  /\ \/ forms[n].kind \in TextKinds \cup {"hidden"}
     \/ forms[n].kind \in {"checkbox", "radio"} /\ forms[n].checked
     \/ forms[n].kind = "submit" /\ n = submitter
     \/ forms[n].kind = "select"

Successful(forms, n, submitter) ==
  /\ ~forms[n].disabled
  /\ forms[n].name \notin {NoName, ""}
  /\ \/ forms[n].kind \in TextKinds \cup {"hidden"}
     \/ forms[n].kind \in {"checkbox", "radio"} /\ forms[n].checked
     \/ forms[n].kind = "submit" /\ n = submitter
     \/ forms[n].kind = "select"

(* A select that has no options contributes no field. *)
SuccessfulControls(doc, forms, form, submitter) ==
  LET ns == Range(TraverseDepthFirst(doc, form))
      f == EnsureAll(doc, forms, ns)
  IN Among(TraverseDepthFirst(doc, form),
       {n \in ns : /\ IsControl(doc, n) /\ Successful(f, n, submitter)
                   /\ doc.tag[n] = "select" => SelectOptions(doc, n) # << >>})

Fields(doc, forms, form, submitter) ==
  LET ns == SuccessfulControls(doc, forms, form, submitter)
      f == EnsureAll(doc, forms, Range(TraverseDepthFirst(doc, form)))
      Value(n) == IF f[n].kind = "select" THEN SelectValue(doc, f, n) ELSE f[n].value
  IN [i \in DOMAIN ns |-> [node |-> ns[i], name |-> f[ns[i]].name, value |-> Value(ns[i])]]

(***************************************************************************)
(* What is painted of a control (its size is left to Layout).              *)
(***************************************************************************)
Label(doc, forms, n) ==
  LET text == IF doc.tag[n] = "button" THEN TextContent(doc, n) ELSE forms[n].value
  IN IF text # << >> THEN text
     ELSE IF forms[n].kind = "reset" THEN <<"Reset">> ELSE <<"Submit">>

Painted(doc, forms, n) ==
  LET k == forms[n].kind
  IN [value |-> CASE k = "select" -> SelectValue(doc, forms, n)
                  [] k \in TextKinds -> forms[n].value
                  [] k \in {"checkbox", "radio"} -> << >>
                  [] OTHER -> Label(doc, forms, n),
      checked |-> k \in {"checkbox", "radio"} /\ forms[n].checked,
      disabled |-> forms[n].disabled]

VisibleControls(doc, forms) ==
  {n \in Attached(doc) \cap DOMAIN forms :
     /\ doc.tag[n] \in ControlTags \ {"option"}
     /\ forms[n].kind # "hidden"}
=============================================================================
