------------------------------ MODULE HtmlParser ----------------------------
(***************************************************************************)
(* HTML to a document and back (crates/mocha_html, and the innerHTML of    *)
(* crates/mocha_js_dom): tokens, the tree built from them, and the text of *)
(* an element's children.                                                  *)
(*                                                                         *)
(* A text is a sequence of lexemes: the marks of the grammar, " ",         *)
(* character references, and words of letters.  Malformed input is never   *)
(* an error.  A document is one of Dom, with comments and doctypes as      *)
(* nodes of these tags, and the attributes of an element in the order they *)
(* were written, as its attribute "list".                                  *)
(***************************************************************************)
EXTENDS Dom, TLC

\* F of v, for a v that is used more than once
Given(v, F(_)) == CHOOSE r \in {F(x) : x \in {v}} : TRUE

\* some of the named references, and the characters they stand for
NamedEntity == "&lt;" :> "<" @@ "&amp;" :> "&" @@ "&quot;" :> "\"" @@ "&nbsp;" :> "nbsp"
White == {" ", "nbsp"}
IsWord(x) == x \notin {"<", ">", "/", "!", "--", "=", "\"", "'", "&", "end"} \cup White \cup DOMAIN NamedEntity

At(t, p) == IF p <= Len(t) THEN t[p] ELSE "end"
Last1(t, p) == IF p <= Len(t) THEN p ELSE Len(t) + 1
\* the next place from p with one of marks, or the end
Scan(t, p, marks) == Min({i \in p .. Len(t) : t[i] \in marks} \cup {Len(t) + 1})
SkipWhitespace(t, p) == Min({i \in p .. Len(t) : t[i] \notin White} \cup {Len(t) + 1})

DecodeEntities(t) == [i \in DOMAIN t |-> IF t[i] \in DOMAIN NamedEntity THEN NamedEntity[t[i]] ELSE t[i]]

\* each run of white space becomes one space
NormalizeText(t) ==
  LET kept == SelectSeq([i \in DOMAIN t |-> i], LAMBDA i : t[i] \notin White \/ i = 1 \/ t[i - 1] \notin White)
  IN [i \in DOMAIN kept |-> IF t[kept[i]] \in White THEN " " ELSE t[kept[i]]]

Trim(t) ==
  LET ink == {i \in DOMAIN t : t[i] \notin White} IN IF ink = {} THEN << >> ELSE SubSeq(t, Min(ink), Max(ink))

-----------------------------------------------------------------------------
(***************************************************************************)
(* Tokens.  What is read at p is a token and the place behind it.          *)
(***************************************************************************)
Token(kind, name, attributes, text, closed) ==
  [kind |-> kind, name |-> name, attributes |-> attributes, text |-> text, selfClosing |-> closed]
TextToken(text) == Token("text", "", << >>, text, FALSE)
Read(token, p) == [token |-> token, at |-> p]

\* up to a mark, which is consumed if it is there
ReadUntil(kind, t, from, mark) ==
  Given(Scan(t, from, {mark}), LAMBDA e : Read(Token(kind, "", << >>, Trim(SubSeq(t, from, e - 1)), FALSE), Last1(t, e + 1)))

ReadComment(t, p) ==
  Given(Min({i \in p + 3 .. Len(t) : t[i] = "--" /\ At(t, i + 1) = ">"} \cup {Len(t) + 1}), LAMBDA e :
    Read(Token("comment", "", << >>, Trim(SubSeq(t, p + 3, e - 1)), FALSE), Last1(t, e + 2)))

ReadBang(t, p) ==
  CASE At(t, p + 2) = "--" -> ReadComment(t, p)
    [] At(t, p + 2) = "doctype" -> ReadUntil("doctype", t, p + 3, ">")
    [] OTHER -> ReadUntil("comment", t, p + 2, ">")

TagName(t, p) == IF IsWord(At(t, p)) THEN t[p] ELSE ""
BehindTagName(t, p) == IF IsWord(At(t, p)) THEN p + 1 ELSE p

ReadEndTag(t, p) ==
  Read(Token("end", TagName(t, p + 2), << >>, << >>, FALSE), Last1(t, Scan(t, BehindTagName(t, p + 2), {">"}) + 1))

\* the value at v, quoted or not
ReadAttributeValue(t, v) ==
  IF At(t, v) \in {"\"", "'"}
  THEN Given(Scan(t, v + 1, {t[v]}), LAMBDA e : [value |-> SubSeq(t, v + 1, e - 1), at |-> Last1(t, e + 1)])
  ELSE Given(Scan(t, v, White \cup {">", "<"}), LAMBDA e : [value |-> SubSeq(t, v, e - 1), at |-> e])

\* a name and its value, or a mark that starts no name and is skipped
ReadAttribute(t, p) ==
  Given(Scan(t, p, White \cup {"=", ">", "/", "<"}), LAMBDA e :
    IF e = p THEN [attributes |-> << >>, at |-> p + 1]
    ELSE Given(SkipWhitespace(t, e), LAMBDA q :
           IF At(t, q) # "=" THEN [attributes |-> <<[name |-> SubSeq(t, p, e - 1), value |-> << >>]>>, at |-> q]
           ELSE Given(ReadAttributeValue(t, SkipWhitespace(t, q + 1)), LAMBDA v :
                  [attributes |-> <<[name |-> SubSeq(t, p, e - 1), value |-> DecodeEntities(v.value)]>>, at |-> v.at])))

(* What the loop of a start tag does at p, where no white space is.        *)
TagStep(t, p, r) ==
  CASE At(t, p) \in {"end", "<"} -> [r EXCEPT !.at = p, !.done = TRUE]
    [] At(t, p) = ">" -> [r EXCEPT !.at = p + 1, !.done = TRUE]
    [] At(t, p) = "/" -> IF At(t, p + 1) = ">" THEN [r EXCEPT !.at = p + 2, !.done = TRUE, !.closed = TRUE]
                         ELSE [r EXCEPT !.at = p + 1]
    [] OTHER -> Given(ReadAttribute(t, p), LAMBDA a :
                  [r EXCEPT !.at = a.at, !.attributes = @ \o a.attributes])

ReadStartTag(t, p) ==
  LET loop[k \in 0 .. Len(t) + 1] ==
        IF k = 0 THEN [at |-> p + 2, attributes |-> << >>, closed |-> FALSE, done |-> FALSE]
        ELSE Given(loop[k - 1], LAMBDA r : IF r.done THEN r ELSE TagStep(t, SkipWhitespace(t, r.at), r))
  IN Given(loop[Len(t) + 1], LAMBDA r : Read(Token("start", t[p + 1], r.attributes, << >>, r.closed), r.at))

ReadMarkup(t, p) ==
  CASE At(t, p + 1) = "!" -> ReadBang(t, p)
    [] At(t, p + 1) = "/" -> ReadEndTag(t, p)
    [] IsWord(At(t, p + 1)) -> ReadStartTag(t, p)
    [] OTHER -> Read(TextToken(<<"<">>), p + 1)

ReadText(t, p) ==
  Given(Scan(t, p, {"<"}), LAMBDA e : Read(TextToken(DecodeEntities(NormalizeText(SubSeq(t, p, e - 1)))), e))

RawTextTags == {"style", "script", "textarea"}

MatchesCloseTag(t, i, tag) ==
  t[i] = "<" /\ At(t, i + 1) = "/" /\ At(t, i + 2) = tag /\ At(t, i + 3) \in White \cup {">"}

(* A token, and behind the start of a raw-text element its body, verbatim. *)
TokensAt(t, p) ==
  IF t[p] # "<" THEN Given(ReadText(t, p), LAMBDA r : [tokens |-> <<r.token>>, at |-> r.at])
  ELSE Given(ReadMarkup(t, p), LAMBDA r :
         IF r.token.kind # "start" \/ r.token.selfClosing \/ r.token.name \notin RawTextTags
         THEN [tokens |-> <<r.token>>, at |-> r.at]
         ELSE Given(Min({i \in r.at .. Len(t) : MatchesCloseTag(t, i, r.token.name)} \cup {Len(t) + 1}), LAMBDA e :
                [tokens |-> IF e = r.at THEN <<r.token>> ELSE <<r.token, TextToken(SubSeq(t, r.at, e - 1))>>,
                 at |-> e]))

Tokenize(t) ==
  LET run[k \in 0 .. Len(t)] ==
        IF k = 0 THEN [tokens |-> << >>, at |-> 1]
        ELSE Given(run[k - 1], LAMBDA r :
               IF r.at > Len(t) THEN r
               ELSE Given(TokensAt(t, r.at), LAMBDA more : [tokens |-> r.tokens \o more.tokens, at |-> more.at]))
  IN run[Len(t)].tokens

-----------------------------------------------------------------------------
(***************************************************************************)
(* The tree: the document so far, and the elements still open.             *)
(***************************************************************************)
VoidTags == {"area", "base", "br", "col", "embed", "hr", "img", "input", "link", "meta", "param", "source",
             "track", "wbr"}

InlineTags == {"a", "span", "em", "strong", "b", "i", "u", "s", "small", "code", "kbd", "samp", "var", "cite",
               "q", "abbr", "mark", "sub", "sup", "time", "img", "label", "input", "button", "textarea",
               "select", "br", "font", "big", "tt", "wbr"}

IsBlockLevel(tag) == tag \notin InlineTags

Sections == {"thead", "tbody", "tfoot", "colgroup"}

\* the open elements that a start tag closes when they are on top
Implied(tag, top) ==
  \/ tag = "li" /\ top = "li"
  \/ tag \in {"dt", "dd"} /\ top \in {"dt", "dd"}
  \/ tag \in {"option", "optgroup"} /\ top \in {"option", "optgroup"}
  \/ tag = "tr" /\ top \in {"tr", "td", "th", "colgroup"}
  \/ tag \in {"td", "th"} /\ top \in {"td", "th"}
  \/ tag \in Sections /\ top \in {"tr", "td", "th"} \cup Sections
  \/ IsBlockLevel(tag) /\ top = "p"

\* Mutant of CloseImplied: one element is closed at most.
CloseImpliedOnce(doc, open, tag) ==
  IF open # << >> /\ Implied(tag, doc.tag[Last(open)]) THEN Front(open) ELSE open

CloseImplied(doc, open, tag) ==
  SubSeq(open, 1, Max({k \in DOMAIN open : ~Implied(tag, doc.tag[open[k]])} \cup {0}))

CurrentParent(open) == IF open = << >> THEN Root ELSE Last(open)

Insert(doc, open, tag, attributes) ==
  AppendChild(Create(doc, tag, attributes), CurrentParent(open), NewNode(doc))

Listed(attributes) == [a \in {"list"} |-> attributes]

InsertElement(tree, token) ==
  Given(CloseImplied(tree.doc, tree.open, token.name), LAMBDA open :
    [doc |-> Insert(tree.doc, open, token.name, Listed(token.attributes)),
     open |-> IF token.selfClosing \/ token.name \in VoidTags THEN open ELSE Append(open, NewNode(tree.doc))])

\* up to the nearest open element of that name; a stray end tag is ignored
CloseElement(tree, name) ==
  LET same == {k \in DOMAIN tree.open : tree.doc.tag[tree.open[k]] = name}
  IN [tree EXCEPT !.open = IF same = {} THEN @ ELSE SubSeq(@, 1, Max(same) - 1)]

BuildStep(tree, token) ==
  CASE token.kind = "start" -> InsertElement(tree, token)
    [] token.kind = "end" -> CloseElement(tree, token.name)
    [] OTHER -> [tree EXCEPT !.doc = Insert(@, tree.open, token.kind, TextAttr(token.text))]

BuildTree(tokens) ==
  LET built[k \in 0 .. Len(tokens)] ==
        IF k = 0 THEN [doc |-> EmptyDocument, open |-> << >>] ELSE BuildStep(built[k - 1], tokens[k])
  IN built[Len(tokens)].doc

ParseHtml(t) == BuildTree(Tokenize(t))

-----------------------------------------------------------------------------
(***************************************************************************)
(* innerHTML.                                                              *)
(***************************************************************************)
SerializeAttributes(attributes) ==
  FlattenSeq([i \in DOMAIN attributes |->
                <<" ">> \o attributes[i].name \o <<"=", "\"">> \o attributes[i].value \o <<"\"">>])

\* the text of node m, given that of its children
SerializeNode(doc, m, inner) ==
  CASE doc.tag[m] = "text" -> doc.attr[m]["text"]
    [] doc.tag[m] = "comment" -> <<"<", "!", "--">> \o doc.attr[m]["text"] \o <<"--", ">">>
    [] doc.tag[m] = "doctype" -> << >>
    [] OTHER -> <<"<", doc.tag[m]>> \o SerializeAttributes(doc.attr[m]["list"]) \o <<">">>
                  \o inner \o <<"<", "/", doc.tag[m], ">">>

SerializeChildren(doc, n) ==
  LET text[m \in NodesOf(doc)] ==
        SerializeNode(doc, m, FlattenSeq([i \in DOMAIN doc.kids[m] |-> text[doc.kids[m][i]]]))
  IN FlattenSeq([i \in DOMAIN doc.kids[n] |-> text[doc.kids[n][i]]])

SetInnerHtml(doc, n, t) == Graft(doc, n, ParseHtml(t))
=============================================================================
