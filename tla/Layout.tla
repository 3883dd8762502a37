------------------------------- MODULE Layout -------------------------------
(***************************************************************************)
(* Block, inline and flex layout and hit testing (crates/mocha_layout).    *)
(* A box is a record of what it is (kind), the node it is for, its border  *)
(* box, its style and its children.  Lengths are whole pixels, a division  *)
(* rounds down, and every character of a font is 0.6 em wide: the measure  *)
(* the code uses where no system font is found.                            *)
(***************************************************************************)
EXTENDS Style

NoNodeBox == -1         \* node of an anonymous or line box
Most(a, b) == IF a >= b THEN a ELSE b
Least(a, b) == IF a <= b THEN a ELSE b
Total(f) == FoldFunctionOnSet(+, 0, f, DOMAIN f)

Rect(x, y, w, h) == [x |-> x, y |-> y, w |-> w, h |-> h]
Inside(r, x, y) == x \in r.x .. r.x + r.w - 1 /\ y \in r.y .. r.y + r.h - 1

Anonymous(kind, rect, kids) ==
  [kind |-> kind, node |-> NoNodeBox, rect |-> rect, style |-> InitialStyle, data |-> << >>, kids |-> kids]

-----------------------------------------------------------------------------
(***************************************************************************)
(* Inline content: words and atoms (images, controls), in lines.           *)
(***************************************************************************)
TextWidth(n, font) == (6 * n * font + 5) \div 10
LineHeight0(font) == (12 * font + 5) \div 10

Space == [kind |-> "space"]

(* The words, spaces and atoms of a node, in order; its own display, not   *)
(* that of what is around it, says whether it shows.                       *)
RECURSIVE Stream(_, _)
Stream(t, n) ==
  LET st == t.style[n]
      text == t.text[n]
      words == Words(text)
      Atom == [kind |-> t.box[n].kind, node |-> n, data |-> t.box[n].data, style |-> InitialStyle,
               w |-> t.box[n].w, h |-> t.box[n].h, space |-> TextWidth(1, RootFontSize)]
      Word(k) == [kind |-> "text", node |-> Most(n, 0 - n), data |-> words[k], style |-> st,
                  w |-> TextWidth(Len(words[k]), st.font_size), h |-> LineHeight0(st.font_size),
                  space |-> TextWidth(1, st.font_size)]
      Gap(is) == IF is THEN <<Space>> ELSE << >>
  IN CASE st.display = "none" -> << >>
       [] t.box[n].kind # "none" -> <<Atom>>
       [] t.isText[n] ->
            Gap(text # << >> /\ Head(text) = " ")
            \o FlattenSeq([k \in DOMAIN words |-> Gap(k > 1) \o <<Word(k)>>])
            \o Gap(words # << >> /\ Last(text) = " ")
       [] OTHER -> FlattenSeq([k \in DOMAIN t.kids[n] |-> Stream(t, t.kids[n][k])])

\* The items of a stream, each with the width of the space in front of it.
Items(stream) ==
  LET at == SelectSeq([i \in DOMAIN stream |-> i], LAMBDA i : stream[i] # Space)
      Spaced(k) == \E j \in (IF k = 1 THEN 1 ELSE at[k - 1]) .. at[k] : stream[j] = Space
  IN [k \in DOMAIN at |->
        [stream[at[k]] EXCEPT !.space = IF Spaced(k) THEN @ ELSE 0]]

\* How far items i to j reach when they share a line.
Extent(items, i, j) ==
  Total([k \in i .. j |-> items[k].w + (IF k > i THEN items[k].space ELSE 0)])

\* The last item of the line that starts with item i: one item at least.
LineEnd(items, i, width) ==
  Max({i} \cup {j \in i .. Len(items) : Extent(items, i, j) <= width})

ItemBox(item, x, y) ==
  [kind |-> item.kind, node |-> item.node, rect |-> Rect(x, y, item.w, item.h),
   style |-> [item.style EXCEPT !.background = "transparent"], data |-> item.data, kids |-> << >>]

(* The line of items i to j; free space goes to the left of it by align.   *)
FinishLine(items, i, j, x, y, width, align) ==
  LET free == Most(0, width - Extent(items, i, j))
      shift == CASE align = "left" -> 0 [] align = "center" -> free \div 2 [] align = "right" -> free
      height == Max({items[k].h : k \in i .. j})
  IN Anonymous("line", Rect(x, y, width, height),
       [k \in 1 .. j - i + 1 |->
          LET m == i + k - 1
          IN ItemBox(items[m], x + shift + Extent(items, i, m) - items[m].w, y)])

RECURSIVE LayoutItems(_, _, _, _, _, _)
LayoutItems(items, i, x, y, width, align) ==
  IF i > Len(items) THEN << >>
  ELSE LET j == LineEnd(items, i, width)
           line == FinishLine(items, i, j, x, y, width, align)
       IN <<line>> \o LayoutItems(items, j + 1, x, y + line.rect.h, width, align)

LayoutInline(t, nodes, x, y, width, align) ==
  LayoutItems(Items(FlattenSeq([k \in DOMAIN nodes |-> Stream(t, nodes[k])])), 1, x, y, width, align)

Height(boxes) == Total([k \in DOMAIN boxes |-> boxes[k].rect.h])

-----------------------------------------------------------------------------
(***************************************************************************)
(* Flex items move as a whole once they are measured.                      *)
(***************************************************************************)
RECURSIVE Translate(_, _, _)
Translate(b, dx, dy) ==
  [b EXCEPT !.rect.x = @ + dx, !.rect.y = @ + dy,
            !.kids = [k \in DOMAIN @ |-> Translate(@[k], dx, dy)]]

SetWidth(b, w) == [b EXCEPT !.rect.w = Most(0, w)]
SetHeight(b, h) == [b EXCEPT !.rect.h = Most(0, h)]

\* The right edges of the boxes that have no children.
RECURSIVE LeafRights(_)
LeafRights(b) ==
  IF b.kids = << >> THEN {b.rect.x + b.rect.w} ELSE UNION {LeafRights(b.kids[k]) : k \in DOMAIN b.kids}

ContentExtent(b) == Max(LeafRights(b) \cup {b.rect.x}) - b.rect.x

(* justify-content: where the first of n items starts, and what is put     *)
(* between two of them.                                                    *)
Justify(how, free, n, gap) ==
  CASE how = "start" -> <<0, gap>>
    [] how = "end" -> <<free, gap>>
    [] how = "center" \/ (how = "space-between" /\ n = 1) -> <<free \div 2, gap>>
    [] how = "space-between" -> <<0, gap + free \div (n - 1)>>
    [] how = "space-around" -> <<(free \div n) \div 2, gap + free \div n>>
    [] how = "space-evenly" -> <<free \div (n + 1), gap + free \div (n + 1)>>

AlignItem(how, line, item) ==
  CASE how \in {"start", "stretch"} -> 0
    [] how = "end" -> Most(0, line - item)
    [] how = "center" -> Most(0, (line - item) \div 2)

Unbounded == 1000000    \* the width a row item is measured at

-----------------------------------------------------------------------------
IsBlockLevel(t, n) == ~t.isText[n] /\ t.style[n].display \in {"block", "flex"}
Shown(t, ns) == SelectSeq(ns, LAMBDA n : t.style[n].display # "none")

\* Mutant of Groups: the inline run behind the last block is forgotten.
GroupsUpToLastBlock(t, ns) ==
  LET last == Max({i \in DOMAIN ns : IsBlockLevel(t, ns[i])})
  IN [i \in 1 .. last |-> <<ns[i]>>]

\* Runs of inline children and single blocks, in order.
Groups(t, ns) ==
  LET Alone(i) == IsBlockLevel(t, ns[i])
      starts == {i \in DOMAIN ns : i = 1 \/ Alone(i) \/ Alone(i - 1)}
      End(i) == Min({j - 1 : j \in {k \in starts : k > i}} \cup {Len(ns)})
      Group(k) == CHOOSE i \in starts : Cardinality({j \in starts : j <= i}) = k
  IN [k \in 1 .. Cardinality(starts) |-> SubSeq(ns, Group(k), End(Group(k)))]

RECURSIVE LayoutBlock(_, _, _, _, _)

(* Groups one below the other: the boxes, and the height they take.  A run *)
(* of inline children without a word or an atom makes no box.              *)
RECURSIVE Flow(_, _, _, _, _, _)
Flow(t, groups, x, y, width, align) ==
  LET g == Head(groups)
      margin == t.style[g[1]].margin
      Then(boxes, h) ==
        Given(Flow(t, Tail(groups), x, y + h, width, align), LAMBDA rest :
          [boxes |-> boxes \o rest.boxes, h |-> h + rest.h])
  IN IF groups = << >> THEN [boxes |-> << >>, h |-> 0]
     ELSE IF IsBlockLevel(t, g[1])
     THEN Given(LayoutBlock(t, g[1], x, y, width), LAMBDA block :
            Then(<<block>>, margin.top + block.rect.h + margin.bottom))
     ELSE Given(LayoutInline(t, g, x, y, width, align), LAMBDA lines :
            IF lines = << >> THEN Then(<< >>, 0)
            ELSE Then(<<Anonymous("anon", Rect(x, y, width, Height(lines)), lines)>>, Height(lines)))

\* What stands in a content box: its boxes and the height they take.
LayoutChildren(t, n, x, y, width) ==
  LET align == t.style[n].text_align
  IN Given(Shown(t, t.kids[n]), LAMBDA ns :
       IF \E i \in DOMAIN ns : IsBlockLevel(t, ns[i]) THEN Flow(t, Groups(t, ns), x, y, width, align)
       ELSE Given(LayoutInline(t, ns, x, y, width, align), LAMBDA lines :
              [boxes |-> lines, h |-> Height(lines)]))

-----------------------------------------------------------------------------
(***************************************************************************)
(* Flex containers: one line of items.                                     *)
(***************************************************************************)
IsRow(st) == st.flex_direction \in {"row", "row-reverse"}

FlexItems(t, n) ==
  LET shown == SelectSeq(Shown(t, t.kids[n]), LAMBDA m : ~(t.isText[m] /\ Blank(t.text[m])))
  IN IF t.style[n].flex_direction \in {"row-reverse", "column-reverse"} THEN Reverse(shown) ELSE shown

\* An item at the origin; in a row it is as wide as its content.
Measured(t, m, row, width) ==
  Given(LayoutBlock(t, m, 0, 0, IF row THEN Unbounded ELSE width), LAMBDA b :
    Translate(IF row THEN SetWidth(b, Least(ContentExtent(b), Most(0, width))) ELSE b, 0 - b.rect.x, 0 - b.rect.y))

Grow(t, items) == [i \in DOMAIN items |-> Most(0, t.style[items[i]].grow)]

\* The sizes of the items along the line: in a row the free space goes to
\* those that grow.
Mains(t, items, boxes, row, room, gaps) ==
  IF ~row THEN [i \in DOMAIN boxes |-> boxes[i].rect.h]
  ELSE Given(Grow(t, items), LAMBDA grow :
       Given(Most(0, room - gaps - Total([i \in DOMAIN boxes |-> boxes[i].rect.w])), LAMBDA free :
         [i \in DOMAIN boxes |->
            boxes[i].rect.w + IF Total(grow) = 0 THEN 0 ELSE (free * grow[i]) \div Total(grow)]))

\* The size across the line.
Line(st, boxes, row, width) ==
  IF ~row THEN width ELSE IF st.height # Auto THEN st.height
  ELSE Max({boxes[i].rect.h : i \in DOMAIN boxes})

\* An item at its place: main along the line, and across it.
PlaceItem(st, b, row, line, grows, main, at, x, y) ==
  LET grown == IF row /\ grows THEN SetWidth(b, main) ELSE b
      sized == IF st.align # "stretch" THEN grown ELSE IF row THEN SetHeight(grown, line) ELSE SetWidth(grown, line)
      cross == AlignItem(st.align, line, IF row THEN b.rect.h ELSE b.rect.w)
  IN Translate(sized, x + (IF row THEN at ELSE cross), y + (IF row THEN cross ELSE at))

LayoutFlex(t, n, x, y, width) ==
  LET st == t.style[n]
      row == IsRow(st)
      room == IF row THEN width ELSE Most(0, st.height)
      gap == Most(0, st.gap)
  IN Given(FlexItems(t, n), LAMBDA items :
     IF items = << >> THEN [boxes |-> << >>, h |-> IF st.height = Auto THEN 0 ELSE st.height]
     ELSE Given([i \in DOMAIN items |-> Measured(t, items[i], row, width)], LAMBDA boxes :
          Given(Mains(t, items, boxes, row, room, gap * (Len(items) - 1)), LAMBDA mains :
          Given(gap * (Len(items) - 1) + Total(mains), LAMBDA used :
          Given(Line(st, boxes, row, width), LAMBDA line :
          Given(Justify(st.justify, Most(0, room - used), Len(items), gap), LAMBDA place :
            [boxes |-> [i \in DOMAIN items |->
                          PlaceItem(st, boxes[i], row, line, Grow(t, items)[i] > 0, mains[i],
                                    place[1] + Total([k \in 1 .. i - 1 |-> mains[k] + place[2]]), x, y)],
             h |-> IF st.height # Auto THEN st.height ELSE IF row THEN line ELSE used]))))))

-----------------------------------------------------------------------------
Across(st) == st.padding.left + st.padding.right + 2 * st.border_width
Down(st) == st.padding.top + st.padding.bottom + 2 * st.border_width

\* The width of a content box, and how far its border box is from the left.
ContentWidth(st, available) ==
  LET filled == IF st.width # Auto THEN st.width
                ELSE Most(0, available - st.margin.left - st.margin.right - Across(st))
  IN IF st.max_width # Auto THEN Least(filled, Most(0, st.max_width)) ELSE filled
LeftOf(st, width, available) ==
  IF st.centered /\ width + Across(st) < available THEN (available - width - Across(st)) \div 2 ELSE st.margin.left

(* A block-level node whose margin box starts at x, y.                     *)
LayoutBlock(t, n, x, y, available) ==
  LET st == t.style[n]
      atom == t.box[n]
      Inner(width, left, top) ==
        IF st.display = "flex" THEN LayoutFlex(t, n, left, top, width) ELSE LayoutChildren(t, n, left, top, width)
      BoxAt(kind, data, left, width, height, kids) ==
        [kind |-> kind, node |-> n,
         rect |-> Rect(x + left, y + st.margin.top, width + Across(st), height + Down(st)),
         style |-> st, data |-> data, kids |-> kids]
  IN IF atom.kind # "none" THEN BoxAt(atom.kind, atom.data, st.margin.left, atom.w, atom.h, << >>)
     ELSE Given(ContentWidth(st, available), LAMBDA width :
          Given(LeftOf(st, width, available), LAMBDA left :
          Given(Inner(width, x + left + st.border_width + st.padding.left,
                      y + st.margin.top + st.border_width + st.padding.top), LAMBDA inner :
            BoxAt("block", << >>, left, width, IF st.height # Auto THEN st.height ELSE inner.h, inner.boxes))))

BuildLayoutTree(t, width) == LayoutBlock(t, Root, 0, 0, width)

-----------------------------------------------------------------------------
\* Mutant of HitTest: the first child that is hit wins.
RECURSIVE HitTestFirst(_, _, _)
HitTestFirst(b, x, y) ==
  LET below == SelectSeq([k \in DOMAIN b.kids |-> HitTestFirst(b.kids[k], x, y)], LAMBDA h : h # NoNodeBox)
  IN IF below # << >> THEN Head(below)
     ELSE IF Inside(b.rect, x, y) THEN b.node ELSE NoNodeBox

(* The node at a point: the last child that is hit, else the box itself.   *)
RECURSIVE HitTest(_, _, _)
HitTest(b, x, y) ==
  LET below == SelectSeq([k \in DOMAIN b.kids |-> HitTest(b.kids[k], x, y)], LAMBDA h : h # NoNodeBox)
  IN IF below # << >> THEN Last(below)
     ELSE IF Inside(b.rect, x, y) THEN b.node ELSE NoNodeBox
=============================================================================
