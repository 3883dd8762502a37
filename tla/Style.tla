------------------------------- MODULE Style --------------------------------
(***************************************************************************)
(* Selector matching, the cascade and computed style (crates/mocha_style). *)
(* A sheet is a sequence of rules [selectors, declarations, order, under]: *)
(* the rules of a media block stand among the others with the conditions   *)
(* they are under, and order is the sheet's one source order.  Attribute   *)
(* values, like texts, are sequences of characters; a style attribute is a *)
(* sequence of lexemes.                                                    *)
(***************************************************************************)
EXTENDS Dom, CssParser

IsElement(doc, n) == doc.tag[n] \notin {"document", "text"}
Elements(doc) == {n \in NodesOf(doc) : IsElement(doc, n)}

Siblings(doc, n) ==
  IF doc.parent[n] = NoNode THEN <<n>>
  ELSE SelectSeq(doc.kids[doc.parent[n]], LAMBDA m : IsElement(doc, m))
OfType(doc, n) == SelectSeq(Siblings(doc, n), LAMBDA m : doc.tag[m] = doc.tag[n])
Place(nodes, n) == SelectInSeq(nodes, LAMBDA m : m = n)

Blank(text) == \A i \in DOMAIN text : text[i] = " "

NthMatches(nth, index) ==
  LET diff == index - nth[2]
      step == IF nth[1] < 0 THEN 0 - nth[1] ELSE nth[1]
  IN IF step = 0 THEN diff = 0 ELSE diff % step = 0 /\ diff * nth[1] >= 0

PseudoMatches(doc, n, p) ==
  LET all == Siblings(doc, n)
      same == OfType(doc, n)
  IN CASE p.s = "root" -> doc.parent[n] = Root
       [] p.s = "empty" -> \A m \in ChildSet(doc, n) : ~IsElement(doc, m) /\ Blank(doc.attr[m]["text"])
       [] p.s = "first-child" -> Head(all) = n
       [] p.s = "last-child" -> Last(all) = n
       [] p.s = "only-child" -> Len(all) = 1
       [] p.s = "first-of-type" -> Head(same) = n
       [] p.s = "last-of-type" -> Last(same) = n
       [] p.s = "only-of-type" -> Len(same) = 1
       [] p.s = "nth-child" -> NthMatches(p.nth, Place(all, n))
       [] p.s = "nth-last-child" -> NthMatches(p.nth, Place(Reverse(all), n))
       [] p.s = "nth-of-type" -> NthMatches(p.nth, Place(same, n))
       [] p.s = "nth-last-of-type" -> NthMatches(p.nth, Place(Reverse(same), n))

\* the words of a text, and whether it starts with a space
Words(text) ==
  LET ends == {i \in DOMAIN text : text[i] # " " /\ (i = Len(text) \/ text[i + 1] = " ")}
      Start(e) == Max({i \in 1 .. e : i = 1 \/ text[i - 1] = " "})
  IN [k \in 1 .. Cardinality(ends) |->
        LET e == CHOOSE x \in ends : Cardinality({y \in ends : y <= x}) = k
        IN SubSeq(text, Start(e), e)]
WordSet(text) == {Words(text)[k] : k \in DOMAIN Words(text)}

AttributeMatches(doc, n, a) ==
  LET value == doc.attr[n][a.name]
  IN /\ HasAttr(doc, n, a.name)
     /\ CASE a.m = "exists" -> TRUE
          [] a.m = "=" -> value = a.v
          [] a.m = "~" -> a.v # << >> /\ a.v \in WordSet(value)
          [] a.m = "|" -> value = a.v \/ IsPrefix(Append(a.v, "-"), value)
          [] a.m = "^" -> a.v # << >> /\ IsPrefix(a.v, value)
          [] a.m = "$" -> a.v # << >> /\ IsSuffix(a.v, value)
          [] a.m = "*" -> a.v # << >> /\ \E i \in DOMAIN value : IsPrefix(a.v, SubSeq(value, i, Len(value)))

SimpleMatches(doc, n, s) ==
  CASE s.s = "any" -> TRUE
    [] s.s = "type" -> doc.tag[n] = s.v
    [] s.s = "id" -> HasAttr(doc, n, "id") /\ doc.attr[n]["id"] = <<s.v>>
    [] s.s = "class" -> HasAttr(doc, n, "class") /\ <<s.v>> \in WordSet(doc.attr[n]["class"])
    [] s.s = "attr" -> AttributeMatches(doc, n, s)
    [] s.s = "inert" -> FALSE
    [] OTHER -> PseudoMatches(doc, n, s)

CompoundMatches(doc, n, c) ==
  \A i \in DOMAIN c :
    IF c[i].s = "not" THEN \E j \in DOMAIN c[i].inner : ~SimpleMatches(doc, n, c[i].inner[j])
    ELSE SimpleMatches(doc, n, c[i])

(* The elements the compound to the left of a combinator is tried on.      *)
Candidates(doc, n, comb) ==
  LET before == SubSeq(Siblings(doc, n), 1, Place(Siblings(doc, n), n) - 1)
  IN CASE comb = ">" -> {doc.parent[n]} \cap Elements(doc)
       [] comb = " " -> ToSet(Ancestors(doc, n)) \cap Elements(doc)
       [] comb = "+" -> IF before = << >> THEN {} ELSE {Last(before)}
       [] comb = "~" -> ToSet(before)

SelectorMatches(doc, n, sel) ==
  LET from[i \in DOMAIN sel] ==
        {m \in Elements(doc) :
           /\ CompoundMatches(doc, m, sel[i].part)
           /\ i > 1 => Candidates(doc, m, sel[i - 1].join) \cap from[i - 1] # {}}
  IN n \in from[Len(sel)]

(* querySelectorAll: the elements below the root, in document order.       *)
MatchingElements(doc, selectors) ==
  SelectSeq(TraverseDepthFirst(doc, Root),
            LAMBDA n : IsElement(doc, n) /\ \E i \in DOMAIN selectors : SelectorMatches(doc, n, selectors[i]))

-----------------------------------------------------------------------------
(***************************************************************************)
(* The cascade.                                                            *)
(***************************************************************************)
NotRendered == {"head", "meta", "title", "base", "link", "style", "script", "noscript", "template", "option"}
InlineTags == {"span", "a", "img", "label", "input", "button", "textarea", "select", "em", "strong", "b",
               "i", "small", "code", "br"}
Headings == [h1 |-> 32, h2 |-> 24, h3 |-> 19, h4 |-> 16, h5 |-> 13, h6 |-> 11]

\* what the browser itself declares for a tag
UaDefaults(tag) ==
  ("display" :> Keyword(IF tag \in NotRendered THEN "none" ELSE IF tag \in InlineTags THEN "inline" ELSE "block")) @@
  (IF tag = "a" THEN "color" :> Value("color", 0, "linkblue") ELSE << >>) @@
  (IF tag \in {"center", "th"} THEN "text-align" :> Keyword("center") ELSE << >>) @@
  (IF tag \in DOMAIN Headings THEN "font-size" :> Value("px", Headings[tag], "") ELSE << >>) @@
  (IF tag \in DOMAIN Headings \cup {"b", "strong"} THEN "font-weight" :> Keyword("bold") ELSE << >>) @@
  (IF tag \in {"ul", "ol"} THEN "padding-left" :> Value("px", 40, "") ELSE << >>) @@
  (IF tag = "blockquote" THEN [p \in {"margin-left", "margin-right"} |-> Value("px", 40, "")] ELSE << >>) @@
  (IF tag = "body" THEN [p \in {"margin-top", "margin-right", "margin-bottom", "margin-left"} |-> Value("px", 8, "")]
   ELSE << >>)

\* lexicographic order of sequences of numbers of one length
Before(a, b) == \E i \in DOMAIN a : a[i] < b[i] /\ \A j \in 1 .. i - 1 : a[j] = b[j]
Best(keys) == CHOOSE k \in keys : \A l \in keys : ~Before(k, l)

(* The declarations that compete for an element, each with its priority:   *)
(* important, inline over author, specificity, sheet, source order, place  *)
(* in the rule.                                                            *)
Priority(d, inline, spec, sheet, order, i) ==
  <<IF d.important THEN 1 ELSE 0, inline>> \o spec \o <<sheet, order, i>>

AuthorEntries(doc, n, s, rule) ==
  LET Matching == {i \in DOMAIN rule.selectors : SelectorMatches(doc, n, rule.selectors[i])}
  IN Given({Specificity(rule.selectors[i]) : i \in Matching}, LAMBDA specs :
       IF specs = {} THEN {}
       ELSE {[d |-> rule.declarations[i], key |-> Priority(rule.declarations[i], 0, Best(specs), s, rule.order, i)] :
               i \in DOMAIN rule.declarations})

InlineEntries(doc, n) ==
  IF ~HasAttr(doc, n, "style") THEN {}
  ELSE Given(InlineStyle(doc.attr[n]["style"]).v, LAMBDA ds :
         {[d |-> ds[i], key |-> Priority(ds[i], 1, <<0, 0, 0>>, 0, 0, i)] : i \in DOMAIN ds})

CascadeEntries(doc, n, sheets, width) ==
  InlineEntries(doc, n) \cup
  UNION {UNION {AuthorEntries(doc, n, s, sheets[s][k]) :
                  k \in {r \in DOMAIN sheets[s] : QueryMatches(sheets[s][r].under, width)}} :
           s \in DOMAIN sheets}

(* What is specified for an element: of each property the value applied    *)
(* last, whether or not it can be used.                                    *)
Winner(entries, p) ==
  LET mine == {e \in entries : e.d.p = p}
  IN (CHOOSE e \in mine : e.key = Best({f.key : f \in mine})).d.v

SpecifiedValues(doc, n, sheets, width) ==
  Given(CascadeEntries(doc, n, sheets, width), LAMBDA entries :
    [p \in {e.d.p : e \in entries} |-> Winner(entries, p)] @@ UaDefaults(doc.tag[n]))

-----------------------------------------------------------------------------
(***************************************************************************)
(* Computed style.  Lengths are whole pixels.                              *)
(***************************************************************************)
Auto == -1000           \* a length that is not set
RootFontSize == 16

NoEdges == [top |-> 0, right |-> 0, bottom |-> 0, left |-> 0]
Plain == [display |-> "inline", background |-> "transparent", width |-> Auto, height |-> Auto,
          margin |-> NoEdges, padding |-> NoEdges, border_width |-> 0, max_width |-> Auto,
          centered |-> FALSE, flex_direction |-> "row", justify |-> "start", align |-> "stretch",
          gap |-> 0, grow |-> 0, radius |-> 0]
Inherited == {"color", "font_size", "font_weight", "font_family", "text_align", "line_height"}

InitialStyle ==
  [Plain EXCEPT !.display = "block"] @@
  [color |-> "black", border_color |-> "black", font_size |-> RootFontSize, font_weight |-> "normal",
   font_family |-> "", text_align |-> "left", line_height |-> Auto]

TextStyle(parent) ==
  Plain @@ [f \in Inherited |-> parent[f]] @@ [border_color |-> parent.color]

StartWords == {"flex-start", "start", "left", "baseline"}
EndWords == {"flex-end", "end", "right"}
SideName(k) == IF k \in StartWords THEN "start" ELSE IF k \in EndWords THEN "end" ELSE k

(* A value that the property cannot use (a percentage, say) counts as not  *)
(* given.                                                                  *)
Resolved(values, p, font, else) ==
  IF p \notin DOMAIN values THEN else
  ELSE CASE values[p].u = "px" -> values[p].n
         [] values[p].u = "em" -> values[p].n * font
         [] values[p].u = "rem" -> values[p].n * RootFontSize
         [] OTHER -> else

Computed(values, parent, font, color) ==
  LET Is(p, units) == p \in DOMAIN values /\ values[p].u \in units
      Of(p, else) == Resolved(values, p, font, else)
      Word(p, else) == IF Is(p, {"key"}) THEN values[p].v ELSE else
      Edges(m) == [side \in DOMAIN NoEdges |-> Of(SideOf[side][m], 0)]
  IN [display |-> Word("display", "inline"),
      color |-> color,
      background |-> IF Is("background-color", {"color"}) THEN values["background-color"].v ELSE "transparent",
      border_color |-> IF Is("border-color", {"color"}) THEN values["border-color"].v ELSE color,
      font_size |-> font,
      font_weight |-> Word("font-weight", parent.font_weight),
      font_family |-> IF Is("font-family", {"font"}) THEN values["font-family"].v ELSE parent.font_family,
      text_align |-> Word("text-align", parent.text_align),
      line_height |-> IF ~Is("line-height", {"num"}) THEN Of("line-height", parent.line_height)
                      ELSE IF values["line-height"].v = "normal" THEN (6 * font) \div 5
                      ELSE values["line-height"].n * font,
      width |-> Of("width", Auto), height |-> Of("height", Auto), max_width |-> Of("max-width", Auto),
      margin |-> Edges(1), padding |-> Edges(2),
      border_width |-> Of("border-width", 0), radius |-> Of("border-radius", 0), gap |-> Of("gap", 0),
      centered |-> Is("margin-left", {"key"}) /\ Is("margin-right", {"key"}),
      flex_direction |-> Word("flex-direction", "row"),
      justify |-> SideName(Word("justify-content", "start")),
      align |-> SideName(Word("align-items", "stretch")),
      grow |-> IF Is("flex-grow", {"num"}) THEN values["flex-grow"].n ELSE 0]

FromValues(values, parent) ==
  Computed(values, parent, Resolved(values, "font-size", parent.font_size, parent.font_size),
           IF "color" \in DOMAIN values /\ values["color"].u = "color" THEN values["color"].v ELSE parent.color)

(***************************************************************************)
(* The styled tree: for each node that can have a box its style, its text  *)
(* and its children.  A list item has its marker, node -id, in front.      *)
(***************************************************************************)
Marker(doc, n) ==
  IF doc.tag[doc.parent[n]] # "ol" THEN <<"*", " ">>
  ELSE LET items == SelectSeq(doc.kids[doc.parent[n]], LAMBDA m : doc.tag[m] = "li") IN <<ToString(Place(items, n)), ".", " ">>

(* A style attribute that is not readable fails the whole tree.            *)
CanBuildStyleTree(doc) ==
  \A n \in ToSet(TraverseDepthFirst(doc, Root)) :
    HasAttr(doc, n, "style") => InlineStyle(doc.attr[n]["style"]).ok

BuildStyleTree(doc, sheets, width) ==
  LET shown == ToSet(TraverseDepthFirst(doc, Root))
      items == {n \in shown : doc.tag[n] = "li" /\ IsElement(doc, doc.parent[n])}
      style[n \in shown \cup {0 - m : m \in items}] ==
        IF n = Root THEN InitialStyle
        ELSE Given(style[IF n < 0 THEN 0 - n ELSE doc.parent[n]], LAMBDA parent :
               IF n < 0 \/ ~IsElement(doc, n) THEN TextStyle(parent)
               ELSE Given(SpecifiedValues(doc, n, sheets, width), LAMBDA values : FromValues(values, parent)))
  IN [style |-> style,
      isText |-> [n \in DOMAIN style |-> n < 0 \/ doc.tag[n] = "text"],
      text |-> [n \in DOMAIN style |-> IF n < 0 THEN Marker(doc, 0 - n)
                                       ELSE IF doc.tag[n] = "text" THEN doc.attr[n]["text"] ELSE << >>],
      kids |-> [n \in DOMAIN style |-> IF n < 0 THEN << >>
                                       ELSE IF n \in items THEN <<0 - n>> \o doc.kids[n] ELSE doc.kids[n]]]
=============================================================================
