---------------------------- MODULE RenderedPage ----------------------------
(***************************************************************************)
(* How the engine renders a page (crates/mocha_engine, mocha_resources)    *)
(* and the desktop shell shows it (crates/mocha_desktop/src/lib.rs): the   *)
(* stylesheets are collected in document order, the images are loaded, the *)
(* document is styled, laid out and painted; then the user resizes,        *)
(* scrolls and clicks.  Scripts have run (DomRuntime), what a click does   *)
(* to the controls and where it leads is DesktopPage's; here it is what    *)
(* it hits.                                                                *)
(*                                                                         *)
(* The text of a style element is a sequence of lexemes (CssParser).       *)
(***************************************************************************)
EXTENDS Paint, FormControls

CONSTANTS
  Pages,        \* pages: [doc, base, ends]; base: whether there is a base URL
  External,     \* the text of each external stylesheet, by href
  Pictures,     \* the image behind each src: [w, h, pixels]
  Sizes,        \* the sizes the user gives the window's page area
  Steps,        \* the distances the user scrolls
  Points,       \* the points of the page area the user clicks
  Chrome        \* the height of the chrome above the page area

ASSUME RenderAssumption ==
  /\ \A p \in Pages : p.base \in BOOLEAN
  /\ Sizes \subseteq [w : Nat \ {0}, h : Nat \ {0}]
  /\ Steps \subseteq Int /\ Points \subseteq Nat \X Nat /\ Chrome \in Nat

VARIABLES
  page,         \* what is rendered
  stage,        \* "collect", "parse", "images", "layout", "ready", "failed"
  todo,         \* the style and link elements, then the images, left to visit
  tokens, at,   \* the stylesheet being parsed and the parser's position
  reading,      \* its rules so far
  sheets,       \* the author's stylesheets
  images,       \* the decoded images, in the order of discovery
  viewport, layout_root, display_list, scroll_y,
  clicked       \* the last click: [x, y, hit], or NoClick

vars == <<page, stage, todo, tokens, at, reading, sheets, images, viewport, layout_root,
          display_list, scroll_y, clicked>>
parser == <<tokens, at, reading>>
screen == <<layout_root, display_list, scroll_y>>

doc == page.doc
NoBox == Anonymous("none", Rect(0, 0, 0, 0), << >>)
NoClick == [x |-> 0, y |-> 0, hit |-> NoNodeBox]

InOrder(Test(_)) == SelectSeq(TraverseDepthFirst(doc, Root), Test)

IsSheet(n) ==
  \/ doc.tag[n] = "style"
  \/ doc.tag[n] = "link" /\ AttrOr(doc, n, "rel", << >>) = <<"stylesheet">>
HasSource(n) == doc.tag[n] = "img" /\ AttrOr(doc, n, "src", << >>) # << >>

Init ==
  /\ page \in Pages /\ viewport \in Sizes
  /\ stage = "collect" /\ todo = InOrder(IsSheet)
  /\ tokens = << >> /\ at = 1 /\ reading = << >> /\ sheets = << >> /\ images = << >>
  /\ layout_root = NoBox /\ display_list = << >> /\ scroll_y = 0 /\ clicked = NoClick

-----------------------------------------------------------------------------
(***************************************************************************)
(* Stylesheets.                                                            *)
(***************************************************************************)
WhiteSpace == [k |-> "ws", v |-> "", n |-> 0]
StyleText(n) ==
  LET texts == SelectSeq(doc.kids[n], LAMBDA m : doc.tag[m] = "text")
  IN FlattenSeq([i \in DOMAIN texts |-> Append(doc.attr[texts[i]]["text"], WhiteSpace)])

(* No stylesheet of the page is used: not those before nor those after. *)
SkipAuthorCss ==
  /\ sheets' = << >> /\ stage' = "images" /\ todo' = InOrder(HasSource)
  /\ UNCHANGED <<page, parser, images, viewport, screen, clicked>>

ParseStylesheet(text) ==
  /\ Tokenize(text).ok
  /\ tokens' = Tokenize(text).v /\ at' = 1 /\ reading' = << >>
  /\ stage' = "parse" /\ todo' = Tail(todo)
  /\ UNCHANGED <<page, sheets, images, viewport, screen, clicked>>

Collecting(tag) == stage = "collect" /\ todo # << >> /\ doc.tag[Head(todo)] = tag

ReadStyleElement == Collecting("style") /\ ParseStylesheet(StyleText(Head(todo)))
StyleUnreadable == Collecting("style") /\ ~Tokenize(StyleText(Head(todo))).ok /\ SkipAuthorCss

(* An external stylesheet is loaded, or it is missing, not text/css or not *)
(* UTF-8, or there is nothing to resolve its href against.                 *)
LinkLoaded ==
  /\ Collecting("link") /\ page.base /\ HasAttr(doc, Head(todo), "href")
  /\ ParseStylesheet(External[doc.attr[Head(todo)]["href"]])
LinkFailed == Collecting("link") /\ SkipAuthorCss

\* Mutant of Numbered: the rules of a media block count from the start.
NumberedByBlock(rules, under, before) ==
  [k \in DOMAIN rules |->
     rules[k] @@ [under |-> under, order |-> IF under = << >> THEN before + k - 1 ELSE k - 1]]

\* Rules get their place in the sheet, across media blocks.
Numbered(rules, under, before) ==
  [k \in DOMAIN rules |-> rules[k] @@ [under |-> under, order |-> before + k - 1]]

(* One round of the parser's loop. *)
ParseRound ==
  /\ stage = "parse" /\ SkipWs(tokens, at) <= Len(tokens)
  /\ \E c \in {ParseConstruct(tokens, SkipWs(tokens, at))} :
       /\ at' = c.at
       /\ reading' = reading \o Numbered(c.rules, c.under, Len(reading))
  /\ UNCHANGED <<page, stage, todo, tokens, sheets, images, viewport, screen, clicked>>

SheetEnds ==
  /\ stage = "parse" /\ SkipWs(tokens, at) > Len(tokens)
  /\ sheets' = Append(sheets, reading) /\ stage' = "collect"
  /\ UNCHANGED <<page, todo, parser, images, viewport, screen, clicked>>

Collected ==
  /\ stage = "collect" /\ todo = << >>
  /\ stage' = "images" /\ todo' = InOrder(HasSource)
  /\ UNCHANGED <<page, parser, sheets, images, viewport, screen, clicked>>

-----------------------------------------------------------------------------
(***************************************************************************)
(* Images: one for each element with a source, so that the positions agree *)
(* with those found again at layout.                                       *)
(***************************************************************************)
Placeholder == [w |-> 1, h |-> 1, pixels |-> <<<<"transparent">>>>]

Loading == stage = "images" /\ todo # << >> /\ page.base
Source(n) == doc.attr[n]["src"]

ImageLoaded ==
  /\ Loading /\ images' = Append(images, Pictures[Source(Head(todo))]) /\ todo' = Tail(todo)
  /\ UNCHANGED <<page, stage, parser, sheets, viewport, screen, clicked>>

\* Mutant of ImageFailed: nothing stands for an image that did not load.
ImageFailedDropped ==
  /\ Loading /\ todo' = Tail(todo)
  /\ UNCHANGED <<page, stage, parser, sheets, images, viewport, screen, clicked>>

ImageFailed ==
  /\ Loading /\ images' = Append(images, Placeholder) /\ todo' = Tail(todo)
  /\ UNCHANGED <<page, stage, parser, sheets, viewport, screen, clicked>>

ImagesEnd ==
  /\ stage = "images" /\ (todo = << >> \/ ~page.base)
  /\ stage' = "layout" /\ todo' = << >>
  /\ UNCHANGED <<page, parser, sheets, images, viewport, screen, clicked>>

-----------------------------------------------------------------------------
(***************************************************************************)
(* Layout: images and controls are attached to the styled tree.            *)
(***************************************************************************)
NoAtom == [kind |-> "none", w |-> 0, h |-> 0, data |-> << >>]

(* CSS wins over the attributes, which win over the image's own size; the  *)
(* side that is not given keeps the proportions.                           *)
ImageSize(n, style, image) ==
  LET Asked(css, a) == IF css # Auto THEN css ELSE AttrOr(doc, n, a, Auto)
      w == Asked(style.width, "width")
      h == Asked(style.height, "height")
  IN CASE w # Auto /\ h # Auto -> <<w, h>>
       [] w # Auto -> <<w, (w * image.h) \div image.w>>
       [] h # Auto -> <<(h * image.w) \div image.h, h>>
       [] OTHER -> <<image.w, image.h>>

ControlSize(n, control, font) ==
  LET k == control.kind
      label == 16 + (6 * Len(Label(doc, n :> control, n)) * font + 5) \div 10
  IN CASE k \in {"text", "password", "select"} -> <<160, 24>>
       [] k \in {"checkbox", "radio"} -> <<13, 13>>
       [] k = "textarea" -> <<AttrOr(doc, n, "cols", 25) * 8, IF HasAttr(doc, n, "rows") THEN doc.attr[n]["rows"] * 18 ELSE 80>>
       [] OTHER -> <<Most(40, label), 26>>

ImageAtom(n, style, i) ==
  Given(ImageSize(n, style, images[i]), LAMBDA size : [kind |-> "image", w |-> size[1], h |-> size[2], data |-> i])

ControlAtom(n, style, forms) ==
  Given(ControlSize(n, forms[n], style.font_size), LAMBDA size :
    [kind |-> "control", data |-> Painted(doc, forms, n),
     w |-> IF style.width # Auto THEN style.width ELSE size[1],
     h |-> IF style.height # Auto THEN style.height ELSE size[2]])

(* The box of each node that has one of its own; images are found again,   *)
(* in the order they were loaded in.                                       *)
WithAtoms(t) ==
  Given(EnsureDocument(doc, NoControls), LAMBDA forms :
  Given(InOrder(HasSource), LAMBDA shown :
    LET Control(n) == n \in DOMAIN forms /\ doc.tag[n] # "option" /\ forms[n].kind # "hidden"
    IN t @@ [box |-> [n \in DOMAIN t.style |->
                        IF Place(shown, n) \in DOMAIN images THEN ImageAtom(n, t.style[n], Place(shown, n))
                        ELSE IF Control(n) THEN ControlAtom(n, t.style[n], forms) ELSE NoAtom]]))

Styled(size) == Given(BuildStyleTree(doc, sheets, size.w), LAMBDA t : WithAtoms(t))

MaxScroll(root, size) == Most(0, root.rect.h - size.h)

(* Style, lay out and paint from the start; the scroll position is clamped. *)
Relayout(size) ==
  /\ layout_root' = Given(Styled(size), LAMBDA t : BuildLayoutTree(t, size.w))
  /\ display_list' = BuildDisplayList(layout_root')
  /\ scroll_y' = Least(scroll_y, MaxScroll(layout_root', size))

FirstLayout ==
  /\ stage = "layout" /\ CanBuildStyleTree(doc)
  /\ Relayout(viewport) /\ stage' = "ready"
  /\ UNCHANGED <<page, todo, parser, sheets, images, viewport, clicked>>

\* A style attribute that cannot be read leaves no page at all.
LayoutFails ==
  /\ stage = "layout" /\ ~CanBuildStyleTree(doc) /\ stage' = "failed"
  /\ UNCHANGED <<page, todo, parser, sheets, images, viewport, screen, clicked>>

-----------------------------------------------------------------------------
(***************************************************************************)
(* The window.                                                             *)
(***************************************************************************)
Resize(size) ==
  /\ stage = "ready" /\ size # viewport /\ viewport' = size
  /\ Relayout(size) /\ clicked' = NoClick
  /\ UNCHANGED <<page, stage, todo, parser, sheets, images>>

ScrollBy(d) ==
  /\ stage = "ready"
  /\ scroll_y' = Least(Most(0, scroll_y + d), MaxScroll(layout_root, viewport))
  /\ clicked' = NoClick
  /\ UNCHANGED <<page, stage, todo, parser, sheets, images, viewport, layout_root, display_list>>

(* A point of the page area: the window's y less the chrome. *)
Click(x, y) ==
  /\ stage = "ready" /\ x < viewport.w /\ y < viewport.h
  /\ clicked' = [x |-> x, y |-> y, hit |-> HitTest(layout_root, x, y + scroll_y)]
  /\ UNCHANGED <<page, stage, todo, parser, sheets, images, viewport, screen>>

Next ==
  \/ ReadStyleElement \/ StyleUnreadable \/ LinkLoaded \/ LinkFailed \/ ParseRound \/ SheetEnds
  \/ Collected \/ ImageLoaded \/ ImageFailed \/ ImagesEnd \/ FirstLayout \/ LayoutFails
  \/ \E size \in Sizes : Resize(size)
  \/ \E d \in Steps : ScrollBy(d)
  \/ \E p \in Points : Click(p[1], p[2])

Spec == Init /\ [][Next]_vars

-----------------------------------------------------------------------------
(* Properties.                                                              *)

\* A page as it was just laid out: scrolling and clicking leave it.
Fresh == stage = "ready" /\ scroll_y = 0 /\ clicked = NoClick

\* Where the first block that opens at or behind a place closes.
BlockBehind(i) == Seek(tokens, Seek(tokens, i, {"{"}), {"}"})


\* What applies to n: its declarations [d, rank, place], those of the rules
\* that match it at this width and those of its style attribute.
Applying(n) ==
  LET Rules(s) == {k \in DOMAIN sheets[s] : QueryMatches(sheets[s][k].under, viewport.w)}
      Match(r) == {i \in DOMAIN r.selectors : SelectorMatches(doc, n, r.selectors[i])}
      own == IF HasAttr(doc, n, "style") THEN InlineStyle(doc.attr[n]["style"]).v ELSE << >>
  IN UNION {UNION {{[d |-> sheets[s][k].declarations[j], inline |-> FALSE, place |-> <<s, k, j>>,
                     spec |-> Specificity(sheets[s][k].selectors[i])] :
                      i \in Match(sheets[s][k]), j \in DOMAIN sheets[s][k].declarations} :
                     k \in Rules(s)} : s \in DOMAIN sheets}
     \cup {[d |-> own[j], inline |-> TRUE, place |-> <<0, 0, j>>, spec |-> <<0, 0, 0>>] : j \in DOMAIN own}

Beats(a, b) ==
  IF a.d.important # b.d.important THEN a.d.important
  ELSE IF a.inline # b.inline THEN a.inline
  ELSE Before(b.spec \o b.place, a.spec \o a.place)

\* The declaration that counts is one that no other beats: an important one
\* gives way to no ordinary one, an inline one to no rule, and of equal ones
\* the last in the text counts, whether or not a media block is around it.
\* (style lib.rs:562-668, parser.rs:321-383)
LastInTextWins ==
  Fresh =>
    \A n \in Elements(doc) :
      Given(SpecifiedValues(doc, n, sheets, viewport.w), LAMBDA specified :
      Given(Applying(n), LAMBDA applying :
        \A a \in applying :
          specified[a.d.p] = a.d.v \/ \E b \in applying : b.d.p = a.d.p /\ Beats(b, a)))

-----------------------------------------------------------------------------
RECURSIVE Boxes(_)
Boxes(b) == <<b>> \o FlattenSeq([k \in DOMAIN b.kids |-> Boxes(b.kids[k])])

\* A click goes to nothing that lies under what the window shows at that point:
\* the box hit was painted with, or after, the command whose color the pixel
\* has, at every scroll position and after every resize.
\* (layout lib.rs:53-76, desktop lib.rs:154-188, raster lib.rs:365-485)
ClicksLandOnWhatIsSeen ==
  clicked # NoClick =>
    Given(Rasterize(display_list, images, scroll_y, Chrome, clicked.x, clicked.y + Chrome), LAMBDA seen :
    Given(Boxes(layout_root), LAMBDA boxes :
      LET Painted0(i) == Len(FlattenSeq([j \in 1 .. i |-> OwnCommands(boxes[j])]))
          hits == {i \in DOMAIN boxes : /\ boxes[i].node = clicked.hit
                                        /\ Inside(boxes[i].rect, clicked.x, clicked.y + scroll_y)}
      IN seen # 0 => hits # {} /\ Painted0(Max(hits)) >= seen))

\* A node that is in a run of inline content, and not a box by itself: all that
\* is in an inline element is, whatever its display, unless that element is an
\* item of a flex row or column.
RECURSIVE InRun(_, _)
InRun(t, n) ==
  /\ n # Root
  /\ \/ InRun(t, doc.parent[n])
     \/ ~IsBlockLevel(t, n) /\ t.style[doc.parent[n]].display # "flex"

\* The text of a node that is drawn at all: neither it nor what is around it is
\* hidden, it is not in an image or a control, and not an item of a flex row or
\* column by itself (such text gets no box).
TextShown(t, n) ==
  /\ \A m \in ToSet(PathUp(doc, n)) : t.style[m].display # "none" /\ t.box[m].kind = "none"
  /\ InRun(t, n)

\* Whatever blocks, inline runs, lines and flex items the text falls into, each
\* of its words is drawn once and in its order; hidden text is not drawn.
\* (block.rs, inline.rs, line.rs, flex.rs)
EveryWordDrawnOnce ==
  Fresh =>
    Given(Styled(viewport), LAMBDA t :
      \A n \in {m \in NodesOf(doc) : doc.tag[m] = "text"} :
        Given(SelectSeq(display_list, LAMBDA c : c.op = "text" /\ c.node = n), LAMBDA drawn :
          [i \in DOMAIN drawn |-> drawn[i].data]
            = IF TextShown(t, n) THEN Words(doc.attr[n]["text"]) ELSE << >>))

\* Whichever images fail to load, each box shows the image its own element
\* names, or the placeholder.  (engine lib.rs:361-430, 467-490)
EachImageItsOwn ==
  \A i \in DOMAIN display_list :
    LET c == display_list[i]
    IN c.op = "image" =>
         c.data \in DOMAIN images /\ images[c.data] \in {Placeholder, Pictures[Source(c.node)]}
=============================================================================
