----------------------------- MODULE CssParser ------------------------------
(***************************************************************************)
(* The CSS tokenizer and parser (crates/mocha_css): a forgiving parser     *)
(* that skips what it does not understand and takes up the text again      *)
(* behind it.                                                              *)
(*                                                                         *)
(* A text is a sequence of lexemes [k, v, n]: the kind (the character      *)
(* itself for punctuation, "ws" for a run of white space, "ident", "hash", *)
(* "num", "dim"), the name or unit, and the number, an integer here.  A    *)
(* parse function takes the tokens and a position and answers [ok, at, v]: *)
(* the position behind what it read, or where it failed.                   *)
(***************************************************************************)
EXTENDS Integers, SequencesExt

Good(at, v) == [ok |-> TRUE, at |-> at, v |-> v]
Bad(at) == [ok |-> FALSE, at |-> at, v |-> << >>]
\* F of v, for a v that is used more than once
Given(v, F(_)) == CHOOSE r \in {F(x) : x \in {v}} : TRUE

\* the result of what comes first, vs, and of what follows it
Ahead(vs, r) == [r EXCEPT !.v = vs \o @]

Peek(ts, i) == IF i <= Len(ts) THEN ts[i].k ELSE "end"
\* the first position from i on that holds one of the kinds, or the end
Seek(ts, i, kinds) == Min({j \in i .. Max({i, Len(ts) + 1}) : Peek(ts, j) \in kinds \cup {"end"}})
SkipWs(ts, i) == Min({j \in i .. Len(ts) + 1 : Peek(ts, j) # "ws"})
NoWs(ts) == SelectSeq(ts, LAMBDA t : t.k # "ws")

(* Comments go, a quoted run becomes one string token; one that is not     *)
(* closed, or a # without a name, makes the whole text unreadable.         *)
Tokenize(ls) ==
  LET tok[i \in 1 .. Len(ls) + 1] ==
        CASE i > Len(ls) -> Good(i, << >>)
          [] Peek(ls, i) = "/*" ->
               LET j == Seek(ls, i + 1, {"*/"})
               IN IF j > Len(ls) THEN Bad(i) ELSE tok[j + 1]
          [] Peek(ls, i) = "quote" ->
               LET j == Seek(ls, i + 1, {"quote"})
               IN IF j > Len(ls) THEN Bad(i)
                  ELSE Ahead(<<[ls[i + 1] EXCEPT !.k = "str"]>>, tok[j + 1])
          [] Peek(ls, i) = "#" -> Bad(i)
          [] OTHER -> Ahead(<<ls[i]>>, tok[i + 1])
  IN tok[1]

(***************************************************************************)
(* Selectors.  A simple selector is a record whose field s says what it    *)
(* tests.                                                                  *)
(***************************************************************************)
Structural == {"root", "empty", "first-child", "last-child", "only-child",
               "first-of-type", "last-of-type", "only-of-type"}
Counting == {"nth-child", "nth-last-child", "nth-of-type", "nth-last-of-type"}
Dynamic == {"hover", "focus", "focus-within", "focus-visible", "active", "visited", "link",
            "any-link", "target", "checked", "enabled", "disabled", "required", "optional",
            "valid", "invalid", "default"}

(* The signs, numbers and the letter n that a token of an+b is written of; *)
(* of the names that go on behind the n, those that end in - or -1.        *)
Mark(k) == [k |-> k, n |-> 0]
Digits(n) == IF n < 0 THEN <<Mark("-"), [k |-> "num", n |-> 0 - n]>> ELSE <<[k |-> "num", n |-> n]>>
Named == ("n" :> <<Mark("n")>>) @@ ("-n" :> <<Mark("-"), Mark("n")>>) @@ ("-" :> <<Mark("-")>>) @@
         ("n-" :> <<Mark("n"), Mark("-")>>) @@ ("n-1" :> <<Mark("n")>> \o Digits(-1)) @@
         ("-n-1" :> <<Mark("-"), Mark("n")>> \o Digits(-1))
Marks(t) == (IF t.k \in {"num", "dim"} THEN Digits(t.n) ELSE << >>)
            \o (CASE t.k = "num" -> << >>
                  [] t.k \in {"ident", "dim"} /\ t.v \in DOMAIN Named -> Named[t.v]
                  [] OTHER -> <<Mark(t.k)>>)

\* A number with at most one sign in front of it.
Signed(ms) ==
  CASE Len(ms) = 1 /\ ms[1].k = "num" -> Good(0, ms[1].n)
    [] Len(ms) = 2 /\ ms[1].k \in {"+", "-"} /\ ms[2].k = "num" ->
         Good(0, IF ms[1].k = "-" THEN 0 - ms[2].n ELSE ms[2].n)
    [] OTHER -> Bad(0)

(* an+b, as it is written without white space: odd, even, a number, or n   *)
(* with a factor or a sign before it and a number behind it.               *)
Nth(arg) ==
  LET ms == FlattenSeq([i \in DOMAIN arg |-> Marks(arg[i])])
      n == SelectInSeq(ms, LAMBDA m : m.k = "n")
      before == SubSeq(ms, 1, n - 1)
      behind == SubSeq(ms, n + 1, Len(ms))
      Word(v) == Len(arg) = 1 /\ arg[1].k = "ident" /\ arg[1].v = v
      One == Digits(1)
      a == Signed(IF before = << >> \/ before \in {<<Mark("+")>>, <<Mark("-")>>} THEN before \o One ELSE before)
      b == Signed(IF behind = << >> THEN Digits(0) ELSE IF behind[1].k = "+" THEN Tail(behind) ELSE behind)
  IN CASE Word("odd") -> Good(0, <<2, 1>>)
       [] Word("even") -> Good(0, <<2, 0>>)
       [] n = 0 /\ Signed(ms).ok -> Good(0, <<0, Signed(ms).v>>)
       [] n # 0 /\ a.ok /\ b.ok -> Good(0, <<a.v, b.v>>)
       [] OTHER -> Bad(0)

AttrMarks == {"*", "~", "|", "^", "$"}

AttributeSelector(ts, i) ==
  LET name == SkipWs(ts, i + 1)
      mark == SkipWs(ts, name + 1)
      eq == IF Peek(ts, mark) \in AttrMarks THEN mark + 1 ELSE mark
      value == SkipWs(ts, eq + 1)
      close == SkipWs(ts, value + 1)
  IN CASE Peek(ts, name) # "ident" -> Bad(name)
       [] Peek(ts, mark) = "]" -> Good(mark + 1, [s |-> "attr", name |-> ts[name].v, m |-> "exists", v |-> << >>])
       [] Peek(ts, eq) # "=" -> Bad(eq)
       [] Peek(ts, value) \notin {"ident", "str"} -> Bad(value)
       [] Peek(ts, close) # "]" -> Bad(close)
       [] OTHER -> Good(close + 1, [s |-> "attr", name |-> ts[name].v, v |-> IF Peek(ts, value) = "str" THEN ts[value].v ELSE <<ts[value].v>>,
                                    m |-> IF eq = mark THEN "=" ELSE ts[mark].k])

(* A run of simple selectors; the argument of :not is such a run.          *)
Compounds(ts) ==
  LET run[i \in 1 .. Len(ts) + 3] ==
        LET Then(at, s) == Ahead(<<s>>, run[at])
            name == IF Peek(ts, i + 1) = ":" THEN i + 2 ELSE i + 1
            v == ts[name].v
            paren == Seek(ts, name + 1, {")"})
            nth == Nth(NoWs(SubSeq(ts, name + 2, paren - 1)))
            inner == SkipWs(ts, name + 2)
            not == run[inner]
            close == SkipWs(ts, not.at)
            Plain(s) == [s |-> s]
        IN CASE Peek(ts, i) = "*" -> Then(i + 1, Plain("any"))
             [] Peek(ts, i) = "ident" -> Then(i + 1, [s |-> "type", v |-> ts[i].v])
             [] Peek(ts, i) = "hash" -> Then(i + 1, [s |-> "id", v |-> ts[i].v])
             [] Peek(ts, i) = "." -> IF Peek(ts, i + 1) # "ident" THEN Bad(i + 1)
                                     ELSE Then(i + 2, [s |-> "class", v |-> ts[i + 1].v])
             [] Peek(ts, i) = "[" ->
                  LET a == AttributeSelector(ts, i) IN IF a.ok THEN Then(a.at, a.v) ELSE a
             [] Peek(ts, i) = "@" -> Bad(i)
             [] Peek(ts, i) = ":" ->
                  (CASE Peek(ts, name) # "ident" -> Bad(name)
                     [] name = i + 2 \/ v \in Dynamic -> Then(name + 1, Plain("inert"))
                     [] v \in Structural -> Then(name + 1, Plain(v))
                     [] v \in Counting ->
                          IF Peek(ts, name + 1) # "(" THEN Bad(name + 1)
                          ELSE IF paren > Len(ts) THEN Bad(paren)
                          ELSE IF ~nth.ok THEN Bad(paren + 1)
                          ELSE Then(paren + 1, [s |-> v, nth |-> nth.v])
                     [] v = "not" ->
                          IF Peek(ts, name + 1) # "(" THEN Bad(name + 1)
                          ELSE IF ~not.ok \/ not.v = << >> THEN Bad(not.at)
                          ELSE IF \E j \in DOMAIN not.v : not.v[j].s = "not" THEN Bad(not.at)
                          ELSE IF Peek(ts, close) # ")" THEN Bad(close)
                          ELSE Then(close + 1, [s |-> "not", inner |-> not.v])
                     [] OTHER -> Bad(name + 1))
             [] OTHER -> Good(i, << >>)
  IN run

Combinators == {">", "+", "~"}
StartsCompound == {"ident", "*", "hash", ".", ":", "["}

(* Compounds joined by combinators: the parts, each with the combinator    *)
(* behind it.                                                              *)
Selectors(ts) ==
  Given(Compounds(ts), LAMBDA compounds :
    LET sel[i \in 1 .. Len(ts) + 1] ==
          Given(compounds[i], LAMBDA c :
          Given(SkipWs(ts, c.at), LAMBDA j :
            LET Part(join) == <<[part |-> c.v, join |-> join]>>
            IN CASE ~c.ok \/ c.v = << >> -> Bad(c.at)
                 [] Peek(ts, j) \in Combinators -> Ahead(Part(Peek(ts, j)), sel[SkipWs(ts, j + 1)])
                 [] j > c.at /\ Peek(ts, j) \in StartsCompound -> Ahead(Part(" "), sel[j])
                 [] OTHER -> Good(j, Part(""))))
    IN sel)

(* Ids, classes (and attributes and pseudo-classes), elements; :not counts *)
(* what it contains.                                                       *)
Specificity(selector) ==
  LET Flat(c) == FlattenSeq([i \in DOMAIN c |-> IF c[i].s = "not" THEN c[i].inner ELSE <<c[i]>>])
      all == FlattenSeq([p \in DOMAIN selector |-> Flat(selector[p].part)])
      Count(kinds) == Len(SelectSeq(all, LAMBDA s : s.s \in kinds))
  IN <<Count({"id"}), Len(all) - Count({"id", "type", "any"}), Count({"type"})>>

-----------------------------------------------------------------------------
(***************************************************************************)
(* Declarations.  A declaration is [p, v, important]; its value [u, n, v]  *)
(* keeps the unit, or says that it is a keyword or a color.                *)
(***************************************************************************)
Lengths == {"max-width", "font-size", "border-width", "row-gap", "column-gap",
            "padding-top", "padding-right", "padding-bottom", "padding-left"}
AutoLengths == {"width", "height", "margin-top", "margin-right", "margin-bottom", "margin-left"}
FirstLengths == {"gap", "grid-gap", "border-radius"}
Colors == {"color", "background-color", "border-color"}
Borders == {"border", "border-top", "border-right", "border-bottom", "border-left"}
(* The keywords each property takes, and what is kept for each. *)
SameWord(words) == [w \in words |-> w]
Keywords ==
  ("flex-direction" :> SameWord({"row", "row-reverse", "column", "column-reverse"})) @@
  ("justify-content" :> SameWord({"flex-start", "flex-end", "center", "space-between", "space-around",
                                  "space-evenly", "start", "end", "left", "right"})) @@
  ("align-items" :> SameWord({"stretch", "flex-start", "flex-end", "center", "baseline", "start", "end"})) @@
  ("text-align" :> [center |-> "center", right |-> "right", end |-> "right", left |-> "left",
                    start |-> "left", justify |-> "left"])
NamedColors == {"black", "white", "red", "green", "blue", "transparent"}
Units == {"px", "em", "rem", "%", "pt", "pc", "in", "cm", "mm"}

Value(u, n, v) == [u |-> u, n |-> n, v |-> v]
Keyword(v) == Value("key", 0, v)

\* units but em, rem and % are turned into pixels
Px(n, unit) == CASE unit = "px" -> n [] unit = "pt" -> (n * 96) \div 72
                 [] unit = "pc" -> n * 16 [] unit = "in" -> n * 96
                 [] unit = "cm" -> (n * 9600) \div 254 [] unit = "mm" -> (n * 960) \div 254
Length(ts) ==
  IF Len(ts) # 1 THEN Bad(0)
  ELSE LET t == ts[1]
       IN CASE t.k = "dim" /\ t.v \in {"em", "rem", "%"} -> Good(0, Value(t.v, t.n, ""))
            [] t.k = "dim" /\ t.v \in Units -> Good(0, Value("px", Px(t.n, t.v), ""))
            [] t.k = "num" /\ t.n = 0 -> Good(0, Value("px", 0, ""))
            [] OTHER -> Bad(0)
LengthOrAuto(ts) ==
  IF Len(ts) = 1 /\ ts[1].k = "ident" /\ ts[1].v = "auto" THEN Good(0, Keyword("auto")) ELSE Length(ts)

\* a hash of three or six digits, a name, or a function of three numbers
ColorValue(ts) ==
  CASE ts = << >> -> Bad(0)
    [] Len(ts) = 1 /\ ts[1].k = "hash" /\ ts[1].n \in {3, 6} -> Good(0, Value("color", 0, ts[1].v))
    [] Len(ts) = 1 /\ ts[1].k = "ident" /\ ts[1].v \in NamedColors -> Good(0, Value("color", 0, ts[1].v))
    [] /\ Len(ts) > 1 /\ ts[1].k = "ident" /\ ts[1].v \in {"rgb", "rgba", "hsl", "hsla"} /\ ts[2].k = "("
       /\ Len(SelectSeq(ts, LAMBDA t : t.k = "num" \/ (t.k = "dim" /\ t.v = "%"))) >= 3 ->
         Good(0, Value("color", 0, ts[1].v))
    [] OTHER -> Bad(0)

\* for display anything is a box, but for none and what is laid out inline
DisplayValue(ts) ==
  IF Len(ts) # 1 \/ ts[1].k # "ident" THEN Bad(0)
  ELSE Good(0, Keyword(CASE ts[1].v \in {"none"} -> "none"
                         [] ts[1].v \in {"flex", "inline-flex"} -> "flex"
                         [] ts[1].v \in {"inline", "inline-block", "inline-grid"} -> "inline"
                         [] OTHER -> "block"))

KeywordValue(p, ts) ==
  IF Len(ts) = 1 /\ ts[1].k = "ident" /\ ts[1].v \in DOMAIN Keywords[p] THEN Good(0, Keyword(Keywords[p][ts[1].v])) ELSE Bad(0)

NumberValue(ts) == IF Len(ts) = 1 /\ ts[1].k = "num" THEN Good(0, Value("num", ts[1].n, "")) ELSE Bad(0)

WeightValue(ts) ==
  IF Len(ts) # 1 \/ ts[1].k \notin {"ident", "num"} THEN Bad(0)
  ELSE Good(0, Keyword(IF \/ ts[1].k = "ident" /\ ts[1].v \in {"bold", "bolder"}
                          \/ ts[1].k = "num" /\ ts[1].n >= 600
                       THEN "bold" ELSE "normal"))

LineHeight(ts) ==
  IF NumberValue(ts).ok THEN NumberValue(ts)
  ELSE IF Len(ts) = 1 /\ ts[1].k = "ident" /\ ts[1].v = "normal" THEN Good(0, Value("num", 1, "normal"))
  ELSE Length(ts)

FlexGrow(ts) ==
  LET i == SelectInSeq(ts, LAMBDA t : t.k = "num")
  IN IF ts[1].k = "ident" /\ ts[1].v = "none" THEN 0
     ELSE IF (ts[1].k = "ident" /\ ts[1].v = "auto") \/ i = 0 THEN 1 ELSE ts[i].n

Sides == <<"top", "right", "bottom", "left">>
SideOf == [top |-> <<"margin-top", "padding-top">>, right |-> <<"margin-right", "padding-right">>,
           bottom |-> <<"margin-bottom", "padding-bottom">>, left |-> <<"margin-left", "padding-left">>]
\* which of 1 to 4 values is for the top, right, bottom and left
Clockwise == <<<<1, 1, 1, 1>>, <<1, 2, 1, 2>>, <<1, 2, 3, 2>>, <<1, 2, 3, 4>>>>

BoxShorthand(name, ts) ==
  LET One(t) == IF name = "margin" THEN LengthOrAuto(<<t>>) ELSE Length(<<t>>)
  IN IF Len(ts) \notin 1 .. 4 \/ \E i \in DOMAIN ts : ~One(ts[i]).ok THEN Bad(0)
     ELSE Good(0, [i \in 1 .. 4 |->
            [p |-> SideOf[Sides[i]][IF name = "margin" THEN 1 ELSE 2],
             v |-> One(ts[Clockwise[Len(ts)][i]]).v]])

\* each token that is a length or a color; at least one
BorderShorthand(ts) ==
  LET Decl(t) == IF Length(<<t>>).ok THEN <<[p |-> "border-width", v |-> Length(<<t>>).v]>>
                 ELSE IF ColorValue(<<t>>).ok THEN <<[p |-> "border-color", v |-> ColorValue(<<t>>).v]>>
                 ELSE << >>
      all == FlattenSeq([i \in DOMAIN ts |-> Decl(ts[i])])
  IN IF all = << >> THEN Bad(0) ELSE Good(0, all)

\* the first token that is a color, or a color function
Background(ts) ==
  LET i == SelectInSeq(ts, LAMBDA t : ColorValue(<<t>>).ok)
  IN IF i # 0 THEN ColorValue(<<ts[i]>>) ELSE ColorValue(ts)

FontFamily(ts) ==
  LET names == SelectSeq(ts, LAMBDA t : t.k \in {"ident", "str"})
  IN IF names = << >> THEN Bad(0) ELSE Good(0, Value("font", 0, names[1].v))

BuildDeclarations(name, ts) ==
  LET As(p, r) == IF r.ok THEN Good(0, <<[p |-> p, v |-> r.v]>>) ELSE r
  IN CASE name \in Lengths -> As(IF name \in {"row-gap", "column-gap"} THEN "gap" ELSE name, Length(ts))
       [] name \in AutoLengths -> As(name, LengthOrAuto(ts))
       [] name \in FirstLengths -> As(IF name = "grid-gap" THEN "gap" ELSE name, Length(<<ts[1]>>))
       [] name \in Colors -> As(name, ColorValue(ts))
       [] name \in DOMAIN Keywords -> As(name, KeywordValue(name, ts))
       [] name = "display" -> As(name, DisplayValue(ts))
       [] name = "font-weight" -> As(name, WeightValue(ts))
       [] name = "line-height" -> As(name, LineHeight(ts))
       [] name = "font-family" -> As(name, FontFamily(ts))
       [] name = "flex-grow" -> As(name, NumberValue(ts))
       [] name = "flex" -> Good(0, <<[p |-> "flex-grow", v |-> Value("num", FlexGrow(ts), "")]>>)
       [] name = "background" -> As("background-color", Background(ts))
       [] name \in Borders -> BorderShorthand(ts)
       [] name \in {"margin", "padding"} -> BoxShorthand(name, ts)
       [] OTHER -> Bad(0)

(* One declaration: the value runs to a ; or a }, and a ! in it ends it    *)
(* and marks all it expands to.                                            *)
ParseDeclaration(ts, i) ==
  LET colon == SkipWs(ts, i + 1)
      end == Seek(ts, colon + 1, {";", "}"})
      value == NoWs(SubSeq(ts, colon + 1, end - 1))
      bang == SelectInSeq(value, LAMBDA t : t.k = "!")
      kept == IF bang = 0 THEN value ELSE SubSeq(value, 1, bang - 1)
      r == BuildDeclarations(ts[i].v, kept)
  IN CASE Peek(ts, i) # "ident" -> Bad(i)
       [] Peek(ts, colon) # ":" -> Bad(colon)
       [] kept = << >> \/ ~r.ok -> Bad(end)
       [] OTHER -> Good(end, [d \in DOMAIN r.v |-> [p |-> r.v[d].p, v |-> r.v[d].v, important |-> bang # 0]])

DeclarationEnd(ts, i) ==
  LET j == Seek(ts, i, {";", "}"}) IN IF Peek(ts, j) = ";" THEN j + 1 ELSE j

(* Declarations up to a } (in a block) or the end; those that do not parse *)
(* are skipped.  For style="..." a } is skipped like anything else.        *)
Declarations(ts, i, block) ==
  LET body[j \in 1 .. Len(ts) + 1] ==
        Given(SkipWs(ts, j), LAMBDA k :
          CASE Peek(ts, k) = "end" -> Good(k, << >>)
            [] Peek(ts, k) = "}" /\ block -> Good(k + 1, << >>)
            [] Peek(ts, k) = ";" -> body[k + 1]
            [] OTHER -> Given(ParseDeclaration(ts, k), LAMBDA d :
                        Given(DeclarationEnd(ts, d.at), LAMBDA e :
                          Ahead(d.v, body[IF e = k THEN k + 1 ELSE e]))))
  IN body[i]

InlineStyle(ls) ==
  LET t == Tokenize(ls) IN IF t.ok THEN Declarations(t.v, 1, FALSE) ELSE t

-----------------------------------------------------------------------------

\* the position behind the block that opens at i
BlockEnd(ts, i) ==
  LET Net(j) == Cardinality({m \in i .. j : ts[m].k = "{"}) - Cardinality({m \in i .. j : ts[m].k = "}"})
      ends == {j \in i .. Len(ts) : Net(j) = 0}
  IN IF ends = {} THEN Len(ts) + 1 ELSE Min(ends) + 1

\* behind the next block or the next ;
Resync(ts, i) ==
  LET j == Seek(ts, i, {"{", ";"})
  IN CASE Peek(ts, j) = "{" -> BlockEnd(ts, j) [] Peek(ts, j) = ";" -> j + 1 [] OTHER -> j

(* A list of selectors without those that do not parse. *)
SelectorList(ts, i) ==
  Given(Selectors(ts), LAMBDA sel :
    LET list[j \in 1 .. Len(ts) + 1] ==
          Given(SkipWs(ts, j), LAMBDA k :
          Given(sel[k], LAMBDA s :
          Given(SkipWs(ts, IF s.ok THEN s.at ELSE Seek(ts, s.at, {",", "{"})), LAMBDA end :
            LET here == IF s.ok THEN <<s.v>> ELSE << >>
            IN IF Peek(ts, k) \in {"end", "{"} THEN Good(k, << >>)
               ELSE IF Peek(ts, end) = "," THEN Ahead(here, list[end + 1])
               ELSE Good(end, here))))
    IN list[i])

(* A rule, or (not ok) no rule where one was expected. *)
ParseRule(ts, i) ==
  Given(SelectorList(ts, i), LAMBDA sels :
  Given(SkipWs(ts, sels.at), LAMBDA brace :
    IF Peek(ts, brace) # "{" THEN Bad(Resync(ts, brace))
    ELSE Given(Declarations(ts, brace + 1, TRUE), LAMBDA body :
           Good(body.at, [selectors |-> sels.v, declarations |-> body.v]))))

Kept(r) == r.ok /\ r.v.selectors # << >> /\ r.v.declarations # << >>

(* The conditions of a media query, or that it is not understood. *)
MediaQuery(prelude) ==
  LET q[i \in 1 .. Len(prelude) + 1] ==
        LET K(d) == Peek(prelude, i + d)
            t == prelude[i + 3]
            rest == q[i + 5]
        IN CASE i > Len(prelude) -> Good(i, << >>)
             [] K(0) = "ident" /\ prelude[i].v \in {"screen", "all", "and", "only"} -> q[i + 1]
             [] /\ K(0) = "(" /\ K(1) = "ident" /\ K(2) = ":" /\ K(3) = "dim" /\ K(4) = ")"
                /\ prelude[i + 1].v \in {"min-width", "max-width", "width"} /\ t.v \in {"px", "em"} ->
                  Ahead(<<[f |-> prelude[i + 1].v, px |-> IF t.v = "em" THEN t.n * 16 ELSE t.n]>>, rest)
             [] OTHER -> Bad(i)
  IN q[1]

QueryMatches(conditions, width) ==
  \A i \in DOMAIN conditions :
    LET c == conditions[i]
    IN CASE c.f = "min-width" -> width >= c.px [] c.f = "max-width" -> width <= c.px [] OTHER -> width = c.px

(* The rules inside a media block, up to its }.  An at-rule in there is    *)
(* read as a rule.                                                         *)
MediaBody(ts, i) ==
  LET body[j \in 1 .. Len(ts) + 1] ==
        Given(SkipWs(ts, j), LAMBDA k :
          CASE Peek(ts, k) = "end" -> Good(k, << >>)
            [] Peek(ts, k) = "}" -> Good(k + 1, << >>)
            [] OTHER -> Given(ParseRule(ts, k), LAMBDA r :
                          Ahead(IF Kept(r) THEN <<r.v>> ELSE << >>, body[IF r.at = k THEN k + 1 ELSE r.at])))
  IN body[i]

(* What one round of the stylesheet loop reads at i (no white space): the  *)
(* rules, in order, and the conditions they are under.                     *)
Construct(at, rules, under) == [at |-> at, rules |-> rules, under |-> under]

AtRule(ts, i) ==
  Given(Seek(ts, i + 2, {"{"}), LAMBDA brace :
  Given(MediaQuery(NoWs(SubSeq(ts, i + 2, brace - 1))), LAMBDA query :
    IF Peek(ts, i + 1) = "ident" /\ ts[i + 1].v = "media" /\ Peek(ts, brace) = "{" /\ query.ok
    THEN Given(MediaBody(ts, brace + 1), LAMBDA media : Construct(media.at, media.v, query.v))
    ELSE Construct(Resync(ts, i), << >>, << >>)))

ParseConstruct(ts, i) ==
  IF Peek(ts, i) = "@" THEN AtRule(ts, i)
  ELSE Given(ParseRule(ts, i), LAMBDA rule :
         Construct(IF rule.at = i THEN i + 1 ELSE rule.at, IF Kept(rule) THEN <<rule.v>> ELSE << >>, << >>))
=============================================================================
