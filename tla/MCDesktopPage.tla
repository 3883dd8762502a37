--------------------------- MODULE MCDesktopPage ----------------------------
(***************************************************************************)
(* Small pages for TLC, one for each group of calls: a chain of elements   *)
(* with listeners; the same with listeners that move them; a few nodes     *)
(* scripts move about while timers run; a form with a radio group, a       *)
(* select, a text field and a second form inside a link; the same with     *)
(* calls that move controls.                                               *)
(***************************************************************************)
EXTENDS DesktopPage

None0 == [a \in {} |-> ""]

(* A document from the tags, attributes and parents of nodes 1, 2, ... in  *)
(* document order.                                                         *)
Parsed(tags, attrs, parents) ==
  LET all == 0 .. Len(tags)
      kid(n) == SelectSeq([i \in 1 .. Len(tags) |-> i], LAMBDA m : parents[m] = n)
  IN [tag |-> [n \in all |-> IF n = 0 THEN "document" ELSE tags[n]],
      attr |-> [n \in all |-> IF n = 0 THEN None0 ELSE attrs[n]],
      parent |-> [n \in all |-> IF n = 0 THEN NoNode ELSE parents[n]],
      kids |-> [n \in all |-> kid(n)]]

Input(type, name) == ("type" :> type) @@ ("name" :> name)
Present(a) == a :> ""

ChainPage ==
  [doc |-> Parsed(<<"div", "div">>, <<None0, None0>>, <<0, 1>>),
   uses |-> {"events"}, touch |-> {1, 2}, steps |-> 4, targets |-> {1, 2}]

TreePage ==
  [doc |-> Parsed(<<"div", "div", "textarea", "text">>,
                  <<None0, None0, Input("", "t"), TextAttr(<<"x">>)>>, <<0, 1, 1, 3>>),
   uses |-> {"tree", "timers"}, touch |-> {1, 2, 3}, steps |-> 3, targets |-> {2}]

\* form 1: radios 2 (checked) and 3, text 4, select 5 (options 6, 7), submit 8, reset 9
FormTags == <<"form", "input", "input", "input", "select", "option", "option", "button", "input">>
FormAttrs == <<None0, Input("radio", "r") @@ Present("checked"), Input("radio", "r"),
               Input("email", "q") @@ ("value" :> <<"x">>), ("name" :> "s"),
               ("value" :> <<"x">>), ("value" :> <<"y">>) @@ Present("selected"),
               None0, Input("reset", "z")>>
FormParents == <<0, 1, 1, 1, 1, 5, 5, 1, 1>>

FormPage ==
  [doc |-> Parsed(FormTags, FormAttrs, FormParents),
   uses |-> {"forms"}, touch |-> {1, 2, 3, 4, 5, 7, 9}, steps |-> 2, targets |-> {}]

\* radios in two forms, a checkbox in a link, a form that is posted
MovePage ==
  [doc |-> Parsed(<<"form", "input", "form", "input", "button", "a", "input">>,
                  <<None0, Input("radio", "r"), ("method" :> "post"),
                    Input("radio", "r") @@ Present("checked"), None0, ("href" :> "u"),
                    Input("checkbox", "c")>>,
                  <<0, 1, 0, 3, 3, 0, 6>>),
   uses |-> {"forms", "tree"}, touch |-> {1, 2, 3, 4, 7}, steps |-> 2, targets |-> {}]

\* listeners that move the nodes of the path
MovedPathPage == [ChainPage EXCEPT !.uses = {"events", "tree"}, !.steps = 2, !.targets = {2}]

MCPages == {ChainPage, MovedPathPage, TreePage, FormPage, MovePage}
MCTexts == {<<"y">>}
\* <input type="radio" name="r" checked><p>x</p>, of which the p is a div here
MCFragments == {Parsed(<<"input", "div", "text">>,
                       <<Input("radio", "r") @@ Present("checked"), None0, TextAttr(<<"x">>)>>,
                       <<0, 0, 2>>)}
=============================================================================
