----------------------------- MODULE DocumentLoad ---------------------------
(***************************************************************************)
(* One page from the network to the screen (mocha_net, mocha_gzip,         *)
(* mocha_html): the request and its redirects, the framing of the answer,  *)
(* its content encoding, its type, and the document made of it, whose      *)
(* innerHTML a script may read and assign.                                 *)
(*                                                                         *)
(* An answer is [status, location, type, length, transfer, encoding]: its  *)
(* status line and headers; the wire behind them; its content, what the    *)
(* server meant to send; and whether it is sound, as the formats ask.  The *)
(* wire is a sequence of bytes and, in chunked framing, of lines.  A       *)
(* connection may end anywhere.                                            *)
(***************************************************************************)
EXTENDS Url, Inflate, HtmlParser

CONSTANTS
  Inputs,         \* locations a load is asked for
  Site,           \* the answers a server may give, by the last lexeme of a path
  Alphabet,       \* the lexeme a byte stands for
  MaxRedirects,   \* MAX_REDIRECTS
  MaxOutput,      \* MAX_OUTPUT_BYTES
  MaxNodes        \* bound: innerHTML is assigned while the document has at most so many nodes

VARIABLES
  stage,      \* "request", "received", "framed", "inflating", "decoded", "answered", "ready";
              \* or how the load ended: "broken" (no whole answer), "refused"
  location,   \* current
  redirects,
  answer,     \* what the server of location sends
  received,   \* the part of its wire that arrived
  body,
  inflater,   \* the position in body, whether the block is the last, what is read next, the output
  page        \* the document
vars == <<stage, location, redirects, answer, received, body, inflater, page>>

\* headers that are not there; a location that is not is None
Absent == "absent"
NoLength == -1
Malformed == -2        \* a length that is no number
NoAnswer == [status |-> 0]
NoInflater == [at |-> 0, last |-> FALSE, next |-> "none", tables |-> << >>, output |-> << >>]
Resource(u) == Last(u.path)

Init ==
  /\ stage = "request" /\ redirects = 0
  /\ location \in {Parse(t) : t \in Inputs} \ {NotUrl} /\ location.scheme # "file"
  /\ answer = NoAnswer /\ received = << >> /\ body = << >>
  /\ inflater = NoInflater /\ page = EmptyDocument

EndsAs(end) == stage' = end /\ UNCHANGED <<location, redirects, answer, received, body, inflater, page>>

(* The whole exchange: the head and some of the wire, up to its end or to  *)
(* where the connection was closed.                                        *)
Exchange ==
  /\ stage = "request"
  /\ \E a \in Site[Resource(location)] : \E n \in 0 .. Len(a.wire) :
       /\ answer' = a /\ received' = SubSeq(a.wire, 1, n)
       /\ stage' = "received"
  /\ UNCHANGED <<location, redirects, body, inflater, page>>

(* No connection, a read that fails or times out, no end of the head.      *)
ExchangeFails == stage = "request" /\ EndsAs("broken")

-----------------------------------------------------------------------------
(***************************************************************************)
(* Framing.  A line of the wire is a number no byte has: the size n of a   *)
(* chunk, a trailer field, or nothing.                                     *)
(***************************************************************************)
SizeLine(n) == 1000 + n
FieldLine == 300
LineEnd == 301
OtherLine == 302       \* no size in hexadecimal

(* The chunk whose size line is at r.at, or the last one with its trailer. *)
Chunk(w, r) ==
  IF r.at > Len(w) THEN Failed
  ELSE LET size == w[r.at] - SizeLine(0)
           end == r.at + size
       IN IF size < 0 \/ end > Len(w) THEN Failed
          ELSE IF size > 0
          THEN IF end < Len(w) /\ w[Min({end + 1, Len(w)})] = LineEnd
               THEN Got(end + 2, r.v \o SubSeq(w, r.at + 1, end)) ELSE Failed
          ELSE IF Last(w) = LineEnd /\ \A i \in r.at + 1 .. Len(w) - 1 : w[i] = FieldLine
               THEN Got(0, r.v) ELSE Failed

\* at 0 when the last chunk was read
DecodeChunked(w) ==
  LET read[k \in 0 .. Len(w) + 1] ==
        IF k = 0 THEN Got(1, << >>)
        ELSE With(read[k - 1], LAMBDA r : IF r.at = 0 THEN r ELSE Chunk(w, r))
  IN read[Len(w) + 1]

Framed(bytes) == stage' = "framed" /\ body' = bytes /\ UNCHANGED <<location, redirects, answer, received, inflater, page>>

ReadChunked ==
  /\ stage = "received" /\ answer.transfer = "chunked"
  /\ LET r == DecodeChunked(received) IN IF r.ok THEN Framed(r.v) ELSE EndsAs("broken")

\* Mutant of ReadCounted: a body that is too short is a body.
ReadCountedShort ==
  /\ stage = "received" /\ answer.transfer = Absent /\ answer.length # NoLength
  /\ Framed(SubSeq(received, 1, Min({answer.length, Len(received)})))

\* what comes behind the declared length is ignored
ReadCounted ==
  /\ stage = "received" /\ answer.transfer = Absent /\ answer.length # NoLength
  /\ IF answer.length = Malformed \/ Len(received) < answer.length THEN EndsAs("broken") ELSE Framed(SubSeq(received, 1, answer.length))

ReadToClose ==
  /\ stage = "received"
  /\ answer.transfer = "identity" \/ (answer.transfer = Absent /\ answer.length = NoLength)
  /\ Framed(received)

FramingRefused ==
  /\ stage = "received" /\ answer.transfer \notin {"chunked", "identity", Absent}
  /\ EndsAs("refused")

-----------------------------------------------------------------------------
(***************************************************************************)
(* Content encoding.                                                       *)
(***************************************************************************)
Gzip == {"gzip", "x-gzip"}

NotEncoded ==
  /\ stage = "framed" /\ answer.encoding \in {"identity", Absent}
  /\ EndsAs("decoded")

InflateFrom(byte) ==
  /\ stage' = "inflating" /\ inflater' = [NoInflater EXCEPT !.at = 8 * byte, !.next = "block"]
  /\ UNCHANGED <<location, redirects, answer, received, body, page>>

ReadGzipHeader ==
  /\ stage = "framed" /\ answer.encoding \in Gzip
  /\ LET start == GzipStart(body) IN IF start = 0 THEN EndsAs("broken") ELSE InflateFrom(start - 1)

\* a server that leaves the zlib header out is believed
ReadZlibHeader ==
  /\ stage = "framed" /\ answer.encoding = "deflate"
  /\ InflateFrom(IF IsZlibHeader(body) THEN 2 ELSE 0)

EncodingRefused ==
  /\ stage = "framed" /\ answer.encoding \notin Gzip \cup {"deflate", "identity", Absent}
  /\ EndsAs("refused")

\* behind a block: the next one, or the end
Behind1(last) == IF last THEN "end" ELSE "block"

BlockStep(bytes, z) ==
  With(Take(bytes, z.at, 3), LAMBDA head :
    LET kind == head.v \div 2
        block == [z EXCEPT !.at = head.at, !.last = head.v % 2 = 1]
    IN CASE ~head.ok \/ kind = 3 -> Failed
         [] head.ok /\ kind = 0 ->
              With(StoredBlock(bytes, Aligned(head.at)), LAMBDA b :
                IF ~b.ok THEN Failed
                ELSE IF Len(z.output) + Len(b.v) > MaxOutput THEN Failed
                ELSE Got(0, [block EXCEPT !.at = b.at, !.next = Behind1(block.last), !.output = @ \o b.v]))
         [] head.ok /\ kind = 1 -> Got(0, [block EXCEPT !.next = "symbol", !.tables = FixedTables])
         [] head.ok /\ kind = 2 ->
              With(ReadDynamicHeader(bytes, head.at), LAMBDA d :
                IF d.ok THEN Got(0, [block EXCEPT !.at = d.at, !.next = "length", !.tables = d.v]) ELSE Failed))

(* A code length of a dynamic block, or with all of them its tables.       *)
LengthStep(bytes, z) ==
  IF AllLengths(z.tables)
  THEN With(DynamicTables(z.tables, z.at), LAMBDA t :
         IF t.ok THEN Got(0, [z EXCEPT !.next = "symbol", !.tables = t.v]) ELSE Failed)
  ELSE With(ReadCodeLength(bytes, z.at, z.tables), LAMBDA d :
         IF d.ok THEN Got(0, [z EXCEPT !.at = d.at, !.tables = d.v]) ELSE Failed)

(* A literal, the end of the block, or a match with earlier output.        *)
SymbolStep(bytes, z) ==
  With(Decode(z.tables.literal, bytes, z.at), LAMBDA s :
    CASE ~s.ok -> Failed
      [] s.ok /\ s.v < 256 ->
           IF Len(z.output) >= MaxOutput THEN Failed
           ELSE Got(0, [z EXCEPT !.at = s.at, !.output = Append(@, s.v)])
      [] s.ok /\ s.v = 256 -> Got(0, [z EXCEPT !.at = s.at, !.next = Behind1(z.last), !.tables = << >>])
      [] s.ok /\ s.v > 256 ->
           With(Match(z.tables, bytes, s.v, s.at), LAMBDA m :
             IF ~m.ok THEN Failed
             ELSE IF m.v.distance > Len(z.output) \/ Len(z.output) + m.v.length > MaxOutput THEN Failed
             ELSE Got(0, [z EXCEPT !.at = m.at, !.output = Copied(@, m.v.length, m.v.distance)])))

Inflated(r) ==
  IF r.ok THEN inflater' = r.v /\ UNCHANGED <<stage, location, redirects, answer, received, body, page>>
  ELSE EndsAs("broken")

InflateBlock == stage = "inflating" /\ inflater.next = "block" /\ Inflated(BlockStep(body, inflater))
InflateLength == stage = "inflating" /\ inflater.next = "length" /\ Inflated(LengthStep(body, inflater))
InflateSymbol == stage = "inflating" /\ inflater.next = "symbol" /\ Inflated(SymbolStep(body, inflater))

\* the checksum behind the stream; a stream without a wrapper has none
Checked ==
  LET at == Aligned(inflater.at)
  IN CASE answer.encoding \in Gzip -> GzipTrailer(body, at, inflater.output)
       [] OTHER -> IsZlibHeader(body) => ZlibTrailer(body, at, inflater.output)

CheckTrailer ==
  /\ stage = "inflating" /\ inflater.next = "end"
  /\ IF ~Checked THEN EndsAs("broken")
     ELSE /\ stage' = "decoded" /\ body' = inflater.output /\ inflater' = NoInflater
          /\ UNCHANGED <<location, redirects, answer, received, page>>

-----------------------------------------------------------------------------
(***************************************************************************)
(* Redirects, and the answer that is none.                                 *)
(***************************************************************************)
IsRedirect(status) == status \in {301, 302, 303, 307, 308}

\* where a redirect leads; nowhere without a location, and never to a file
Target == IF answer.location = None THEN NotUrl ELSE Join(location, answer.location)
Follows == redirects < MaxRedirects /\ Target.scheme \in {"http", "https"}

Redirected ==
  /\ stage = "decoded" /\ IsRedirect(answer.status) /\ Follows
  /\ stage' = "request" /\ location' = Target /\ redirects' = redirects + 1
  /\ answer' = NoAnswer /\ received' = << >> /\ body' = << >>
  /\ UNCHANGED <<inflater, page>>

RedirectRefused ==
  /\ stage = "decoded" /\ IsRedirect(answer.status) /\ ~Follows
  /\ EndsAs("refused")

Answered ==
  /\ stage = "decoded" /\ ~IsRedirect(answer.status)
  /\ EndsAs("answered")

-----------------------------------------------------------------------------
(***************************************************************************)
(* The document.                                                           *)
(***************************************************************************)
\* names of files that are pages
ClassifyByExtension(u) == IF Resource(u) \in {"x.html", "x.htm"} THEN "html" ELSE "unknown"

Classify(type, u) ==
  CASE type \in {Absent, ""} -> ClassifyByExtension(u)
    [] type \in {"html", "css", "text", "binary"} -> type
    [] OTHER -> "unknown"

\* every byte of the Alphabet is a character of its own
IsUtf8(bytes) == \A i \in DOMAIN bytes : bytes[i] < 128
Text(bytes) == [i \in DOMAIN bytes |-> Alphabet[bytes[i]]]

ShowPage ==
  /\ stage = "answered" /\ Classify(answer.type, location) = "html" /\ IsUtf8(body)
  /\ stage' = "ready" /\ page' = ParseHtml(Text(body))
  /\ UNCHANGED <<location, redirects, answer, received, body, inflater>>

PageRefused ==
  /\ stage = "answered" /\ ~(Classify(answer.type, location) = "html" /\ IsUtf8(body))
  /\ EndsAs("refused")

IsElement(n) == page.tag[n] \notin {"document", "text", "comment", "doctype"}

(* n.innerHTML = n.innerHTML *)
ReassignInnerHtml(n) ==
  /\ stage = "ready" /\ IsElement(n)
  /\ page' = SetInnerHtml(page, n, SerializeChildren(page, n))
  /\ UNCHANGED <<stage, location, redirects, answer, received, body, inflater>>

Edit == NewNode(page) <= MaxNodes /\ \E n \in NodesOf(page) : ReassignInnerHtml(n)

LoadStep ==
  \/ Exchange \/ ExchangeFails
  \/ ReadChunked \/ ReadCounted \/ ReadToClose \/ FramingRefused
  \/ NotEncoded \/ ReadGzipHeader \/ ReadZlibHeader \/ EncodingRefused
  \/ InflateBlock \/ InflateLength \/ InflateSymbol \/ CheckTrailer
  \/ Redirected \/ RedirectRefused \/ Answered
  \/ ShowPage \/ PageRefused

Next == LoadStep \/ Edit
Spec == Init /\ [][Next]_vars

-----------------------------------------------------------------------------
(***************************************************************************)
(* Properties.                                                             *)
(***************************************************************************)
\* only the end of the connection ends the body
ClosesDelimited == answer.transfer = "identity" \/ (answer.transfer = Absent /\ answer.length = NoLength)
Unchecked == answer.encoding \in {"identity", Absent}

(* What is taken for the body is what the server meant to send, wherever   *)
(* the connection ended and in whatever framing and encoding it came: less *)
(* only where neither tells (http.rs:170, inflate.rs:27).  And an answer   *)
(* that arrived whole is found broken only if it is.                       *)
BodyWhole ==
  /\ stage \in {"decoded", "answered", "ready"} =>
       \/ body = answer.content
       \/ ClosesDelimited /\ Unchecked /\ IsPrefix(body, answer.content)
  /\ stage = "broken" /\ answer # NoAnswer /\ received = answer.wire => ~answer.sound

\* without the white space at the end of what a location is written as
EndTrimmed(u) ==
  LET End(t) == SubSeq(t, 1, Max({i \in DOMAIN t : t[i] # " "} \cup {0}))
  IN IF u.query = None THEN [u EXCEPT !.path = End(@)] ELSE [u EXCEPT !.query = End(@)]

(* Wherever redirects lead, the normalized form of the location, which is  *)
(* stored and loaded again, is read as the same location but for its       *)
(* fragment (mocha_url lib.rs:130, 155), and for white space between path  *)
(* or query and the fragment: it belongs to the former (lib.rs:310), ends  *)
(* what is stored, and is gone when that is read (lib.rs:69).              *)
UrlsReadBack == Parse(Normalized(location)) = EndTrimmed([location EXCEPT !.fragment = None])

\* no character that was written as a reference, or that ends a value
Plain(doc, n) ==
  LET below == {m \in NodesOf(doc) : n \in Range(PathUp(doc, m))}
      Lexemes(m) ==
        CASE doc.tag[m] = "text" -> IF doc.tag[doc.parent[m]] \in RawTextTags THEN {} ELSE Range(doc.attr[m]["text"])
          [] IsElement(m) -> UNION {Range(a.value) \cap {"\""} : a \in Range(doc.attr[m]["list"])}
          [] OTHER -> {}
  IN doc.tag[n] \notin RawTextTags /\ \A m \in below : Lexemes(m) \cap {"<", "&", "\"", "nbsp"} = {}

(* Reading an element's innerHTML and assigning it, which makes new nodes  *)
(* of its children, changes nothing that can be seen: the elements that a  *)
(* start tag closes without an end tag (lib.rs:118) are where they would   *)
(* be with one.  Runs of white space that meet may become one; text with   *)
(* decoded references is not escaped (js_dom lib.rs:1050) and left out.    *)
InnerHtmlKept ==
  [][\A n \in NodesOf(page) :
       stage = "ready" /\ page'.kids[n] # page.kids[n] /\ Plain(page, n) =>
         NormalizeText(SerializeChildren(page', Root)) = NormalizeText(SerializeChildren(page, Root))]_vars

=============================================================================
