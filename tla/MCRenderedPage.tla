--------------------------- MODULE MCRenderedPage ---------------------------
(***************************************************************************)
(* Small pages for TLC: one of every two pieces of a stylesheet, and pages *)
(* for the cascade, for layout and for images.                             *)
(***************************************************************************)
EXTENDS RenderedPage

None0 == [a \in {} |-> ""]

(* A document from the tags, attributes and parents of nodes 1, 2, ... in  *)
(* document order.                                                         *)
Parsed(nodes) ==
  LET all == 0 .. Len(nodes)
  IN [tag |-> [n \in all |-> IF n = 0 THEN "document" ELSE nodes[n][1]],
      attr |-> [n \in all |-> IF n = 0 THEN None0 ELSE nodes[n][2]],
      parent |-> [n \in all |-> IF n = 0 THEN NoNode ELSE nodes[n][3]],
      kids |-> [n \in all |-> SelectSeq([i \in DOMAIN nodes |-> i], LAMBDA m : nodes[m][3] = n)]]

Text(parent, text) == <<"text", "text" :> text, parent>>
Element(tag, parent) == <<tag, None0, parent>>

-----------------------------------------------------------------------------
(* Lexemes. *)
P(k) == [k |-> k, v |-> "", n |-> 0]
Id(v) == [k |-> "ident", v |-> v, n |-> 0]
Str(v) == [k |-> "text", v |-> v, n |-> 0]
Num(n) == [k |-> "num", v |-> "", n |-> n]
Dim(n, unit) == [k |-> "dim", v |-> unit, n |-> n]
Hash(v, n) == [k |-> "hash", v |-> v, n |-> n]

Decl(p, v) == <<Id(p), P(":"), P("ws"), v, P(";")>>
Rule(prelude, body) == prelude \o <<P("ws"), P("{")>> \o body \o <<P("}")>>
Media(query, body) == <<P("@"), Id("media"), P("ws")>> \o query \o <<P("{")>> \o body \o <<P("}")>>
MinWidth(w) == <<P("("), Id("min-width"), P(":"), Dim(w, "px"), P(")")>>
Cls(c) == <<P("."), Id(c)>>
Important(p, v) == <<Id(p), P(":"), v, P("!"), Id("important"), P(";")>>

Red == Decl("color", Id("red"))

(* Complete constructs: what is understood, and what is skipped. *)
Pieces == {
  Rule(<<Id("p")>>, Red),
  Rule(Cls("a") \o <<P(">"), Id("b"), P(","), P("ws"), P("*"), P(":"), Id("first-child")>>,
       Decl("margin", Dim(3, "px")) \o Decl("width", Id("auto"))),
  \* a declaration without a colon, an unknown property, an unknown value
  Rule(<<Id("p")>>, <<Id("color"), P(";")>> \o Decl("zoom", Num(1)) \o Decl("width", Id("wide")) \o Red),
  \* a selector that is not understood in a list, and alone
  Rule(<<Id("p"), P("%"), P(","), Id("b")>>, Red),
  Rule(<<P(":"), Id("frob"), P("("), Id("x"), P(")")>>, Red),
  \* at-rules: with nested blocks, without a block, a query not understood
  <<P("@"), Id("supports"), P("("), Id("x"), P(")"), P("{")>> \o Rule(<<Id("p")>>, Red) \o <<P("}")>>,
  <<P("@"), Id("import"), P("ws"), P("quote"), Str(<<"u">>), P("quote"), P(";")>>,
  Media(<<Id("print")>>, Rule(<<Id("p")>>, Red) \o Rule(<<Id("b")>>, Red)),
  Media(MinWidth(40), Rule(<<Id("p")>>, Red) \o <<P("ws")>> \o Rule(<<P("%")>>, Red)),
  \* comments and strings that hold brackets
  <<P("/*"), P("}"), P("{"), P("*/")>> \o Rule(<<Id("p")>>, <<P("/*"), P(";"), P("*/")>> \o Red),
  Rule(<<Id("p"), P("["), Id("id"), P("="), P("quote"), Str(<<"x">>), P("quote"), P("]")>>, Red),
  Rule(<<Id("p"), P(":"), Id("not"), P("("), P("."), Id("a"), P(")"), P(":"), Id("nth-child"), P("("), Id("odd"), P(")")>>,
       Decl("flex", Num(1)) \o Decl("border", Dim(1, "px"))),
  \* no rule at all
  <<P(";")>> \o Rule(<<Id("p")>>, << >>) }

(* Those that leave a brace behind: a rule in a rule, an at-rule with a    *)
(* rule in it in a media block, by itself and in front of a rule.          *)
Supports == <<P("@"), Id("supports"), P("("), Id("x"), P(")")>>
NestingPieces == {
  Rule(<<Id("p")>>, Red \o Rule(<<Id("b")>>, Red)),
  Rule(<<Id("p")>>, Rule(<<Id("b"), P(":"), Id("hover")>>, Rule(<<Id("i")>>, Red)) \o Red),
  Media(MinWidth(40), Rule(Supports, Rule(<<Id("p")>>, Red))),
  Media(MinWidth(40), Rule(Supports, Rule(<<Id("p")>>, Red)) \o Rule(<<Id("b")>>, Red)) }

(* The argument of :nth-child, the ways it is written. *)
Arguments == <<
  <<Id("odd")>>, <<Id("even")>>, <<Num(2)>>, <<P("+"), Num(2)>>, <<Id("n")>>, <<Id("n"), P("+"), Num(1)>>,
  <<Id("-n"), P("ws"), P("+"), P("ws"), Num(1)>>, <<Dim(2, "n-1")>>, <<Dim(2, "n"), Num(-1)>>, <<Dim(-1, "n"), P("+"), Num(2)>>,
  <<P("+"), Id("n")>>, <<Id("x")>>, << >>, <<Dim(2, "n"), P("+")>>, <<Id("n"), Id("odd")>> >>
NthSheet(first, last) ==
  FlattenSeq([i \in 1 .. last - first + 1 |->
                Rule(<<P(":"), Id("nth-child"), P("(")>> \o Arguments[first + i - 1] \o <<P(")")>>, Red)])

\* a style attribute that cannot be read: these pages end with their sheet
Unreadable == "style" :> <<P("quote"), Str(<<"x">>)>>
PieceDocument(sheet) ==
  Parsed(<<Element("style", 0), Text(1, sheet), <<"p", Unreadable, 0>>>>)
PiecePage(a, b, nests) ==
  [doc |-> PieceDocument(a \o b), base |-> FALSE, ends |-> {[at |-> Len(Tokenize(a).v), nests |-> nests]}]
PiecePages ==
  {PiecePage(a, b, FALSE) : a \in Pieces, b \in Pieces \cup NestingPieces}
  \cup {PiecePage(a, b, TRUE) : a \in NestingPieces, b \in Pieces \cup NestingPieces}
  \* an @ that the sheet ends with
  \cup {PiecePage(a, <<P("@")>>, FALSE) : a \in Pieces}

-----------------------------------------------------------------------------
(* The cascade: a sheet with a media block between its rules, a second     *)
(* sheet, and style attributes.                                            *)
CascadeSheet ==
  Rule(<<Id("p")>>, Decl("color", Id("red")) \o Decl("width", Dim(20, "px")))
  \o Media(MinWidth(40), Rule(<<Id("p")>>, Decl("color", Id("green"))) \o Rule(Cls("a"), Decl("width", Dim(30, "px"))))
  \o Rule(<<Id("p")>>, Decl("color", Id("blue")))
  \o Rule(Cls("a"), Important("height", Dim(5, "px")))
  \o Rule(<<Id("div"), P("ws"), Id("p"), P("ws"), P("~"), P("ws"), Id("p")>>, Decl("color", Id("black")))
  \o Media(MinWidth(40), Rule(<<Id("p")>>, Decl("color", Id("white"))))
CascadePage ==
  [doc |-> Parsed(<<Element("style", 0), Text(1, CascadeSheet),
                    <<"link", ("rel" :> <<"stylesheet">>) @@ ("href" :> "u"), 0>>,
                    Element("div", 0),
                    <<"p", ("class" :> <<"a">>) @@ ("style" :> (Decl("height", Dim(9, "px")) \o Decl("width", Dim(10, "px")))), 4>>,
                    Element("p", 4), Text(6, <<"x">>)>>),
   base |-> TRUE, ends |-> {}]
MCExternal == [u |-> Rule(<<Id("p")>>, Decl("width", Dim(12, "px")) \o Decl("background", Id("white")))]

-----------------------------------------------------------------------------
(* Layout: blocks that overflow, a flex row, rounded and bordered boxes, a *)
(* list, mixed inline and block children, hidden text, a control.          *)
LayoutSheet ==
  Rule(<<Id("body")>>, Decl("margin", Num(0)) \o Decl("font-size", Dim(5, "px")))
  \o Rule(Cls("low"), Decl("height", Dim(4, "px")) \o Decl("background", Id("red")))
  \o Rule(Cls("row"), Decl("display", Id("flex")) \o Decl("justify-content", Id("space-between"))
                      \o Decl("background", Id("blue")) \o Decl("padding", Dim(2, "px")))
  \o Rule(Cls("round"), Decl("border-radius", Dim(4, "px")) \o Decl("background", Id("green"))
                        \o <<Id("border"), P(":"), Dim(1, "px"), P(";")>>)
  \o Rule(Cls("off"), Decl("display", Id("none")))
Class(tag, c, parent) == <<tag, "class" :> <<c>>, parent>>
LayoutPage ==
  [doc |-> Parsed(<<Element("style", 0), Text(1, LayoutSheet), Element("body", 0),
                    Class("div", "low", 3), Text(4, <<"a", " ", "b", "b", " ", "c", "c", "c">>),
                    Class("div", "row", 3), Class("div", "round", 6), Text(7, <<"d">>),
                    Element("span", 6), Text(9, <<"e", " ", "e">>), Text(6, <<"f">>),
                    Class("p", "off", 3), Text(12, <<"g">>),
                    Element("ol", 3), Element("li", 14), Text(15, <<"h">>),
                    Text(3, <<" ", "i", " ">>), Class("h6", "round", 3), Text(18, <<"j">>),
                    <<"input", "type" :> "checkbox", 3>>, Text(3, <<"k">>),
                    Element("span", 3), Class("div", "row", 22), Text(23, <<"l">>)>>),
   base |-> FALSE, ends |-> {}]

(* Three siblings, and rules for them by their places. *)
CountedPages ==
  {[doc |-> Parsed(<<Element("style", 0), Text(1, NthSheet(i, i + 4)), Element("p", 0), Element("p", 0), Element("p", 0)>>),
    base |-> FALSE, ends |-> {}] : i \in {1, 6, 11}}

(* Images that load or not, one without a source, one hidden; a style      *)
(* attribute that cannot be read.                                          *)
ImagePage ==
  [doc |-> Parsed(<<Element("style", 0), Text(1, Rule(<<P("*")>>, Decl("font-size", Dim(5, "px")))),
                    <<"img", "src" :> <<"r">>, 0>>, Element("img", 0),
                    <<"img", ("src" :> <<"g">>) @@ ("width" :> 8), 0>>, Text(0, <<"x">>),
                    <<"img", ("src" :> <<"r">>) @@ ("style" :> Decl("display", Id("none"))), 0>>,
                    <<"img", "src" :> <<"g">>, 0>>>>),
   base |-> TRUE, ends |-> {}]
BrokenPages ==
  {[doc |-> Parsed(<<Element("style", 0), Text(1, Red \o <<broken>> \o Red), <<"p", Unreadable, 0>>>>),
    base |-> FALSE, ends |-> {}] : broken \in {P("/*"), P("quote"), P("#")}}

MCPictures ==
  (<<"r">> :> [w |-> 4, h |-> 4, pixels |-> [y \in 1 .. 4 |-> [x \in 1 .. 4 |-> IF x = y THEN "transparent" ELSE "red"]]]) @@
  (<<"g">> :> [w |-> 2, h |-> 1, pixels |-> <<<<"green", "transparent">>>>])

MCPages == PiecePages \cup BrokenPages \cup CountedPages \cup {CascadePage, LayoutPage, ImagePage}
MCSizes == {[w |-> 30, h |-> 20], [w |-> 44, h |-> 40]}
MCSteps == {7, -5}
MCPoints == {0, 11, 20, 33} \X {0, 3, 12, 18, 30}
=============================================================================
