--------------------------- MODULE MCDocumentLoad ---------------------------
(***************************************************************************)
(* Small answers for TLC.  The compressed ones are the same fourteen bytes *)
(* in every kind of block and wrapper, and streams with one thing wrong.   *)
(***************************************************************************)
EXTENDS DocumentLoad

MCAlphabet == <<"<", ">", "/", "p", "li", "td", "tr", "b", " ", "x", "=", "\"", "!", "--", "doctype", "style", "&lt;", "&nbsp;", "br", "class", "ul", "table", "&", "dt", "option", "'">>
Bytes(lexemes) == [i \in DOMAIN lexemes |-> SelectInSeq(MCAlphabet, LAMBDA x : x = lexemes[i])]

Plain200 == [status |-> 200, location |-> None, type |-> "html", length |-> NoLength, transfer |-> Absent,
             encoding |-> Absent, wire |-> << >>, content |-> << >>, sound |-> TRUE]
ToClose(bytes) == [Plain200 EXCEPT !.wire = bytes, !.content = bytes]
Counted(bytes) == [ToClose(bytes) EXCEPT !.length = Len(bytes)]
Encoded(encoding, bytes, content) ==
  [Plain200 EXCEPT !.encoding = encoding, !.wire = bytes, !.content = content]
Chunked(wire, content) == [Plain200 EXCEPT !.transfer = "chunked", !.wire = wire, !.content = content]
Unsound(a) == [a EXCEPT !.sound = FALSE]
RedirectTo(ref) == [Plain200 EXCEPT !.status = 302, !.location = ref]

-----------------------------------------------------------------------------
Page == <<1, 4, 2, 10, 9, 10, 9, 10, 9, 10, 1, 4, 2, 10>>
Fixed == <<99, 100, 97, 226, 226, 4, 67, 70, 22, 38, 46, 0>>
Two == <<0, 4, 0, 251, 255, 1, 4, 2, 10, 227, 228, 226, 228, 226, 228, 2, 177, 0>>
Dynamic == <<21, 198, 177, 9, 0, 0, 0, 195, 32, 90, 186, 52, 255, 31, 92, 186, 169, 152, 82, 202, 53>>
GzDynamic == <<31, 139, 8, 30, 0, 0, 0, 0, 0, 255, 2, 0, 1, 2, 97, 98, 0, 99, 0, 211, 122, 21, 198, 177, 9, 0, 0, 0, 195, 32, 90, 186, 52, 255, 31, 92, 186, 169, 152, 82, 202, 53, 65, 220, 116, 80, 14, 0, 0, 0>>
GzStored == GzipCompressStored(Page)
ZlFixed == <<120, 1, 99, 100, 97, 226, 226, 4, 67, 70, 22, 38, 46, 0, 2, 158, 0, 92>>
ZlTail == ZlibCompressStored(Page) \o <<5, 5>>

\* a checksum, a size, data behind the end, a header's checksum, a reserved flag, the magic, the method
BadGzip == {
  <<31, 139, 8, 0, 0, 0, 0, 0, 0, 255, 1, 14, 0, 241, 255, 1, 4, 2, 10, 9, 10, 9, 10, 9, 10, 1, 4, 2, 10, 1, 0, 0, 0, 14, 0, 0, 0>>,
  <<31, 139, 8, 0, 0, 0, 0, 0, 0, 255, 1, 14, 0, 241, 255, 1, 4, 2, 10, 9, 10, 9, 10, 9, 10, 1, 4, 2, 10, 65, 220, 116, 80, 3, 0, 0, 0>>,
  <<31, 139, 8, 0, 0, 0, 0, 0, 0, 255, 1, 14, 0, 241, 255, 1, 4, 2, 10, 9, 10, 9, 10, 9, 10, 1, 4, 2, 10, 65, 220, 116, 80, 14, 0, 0, 0, 0>>,
  <<31, 139, 8, 2, 0, 0, 0, 0, 0, 255, 145, 201, 1, 14, 0, 241, 255, 1, 4, 2, 10, 9, 10, 9, 10, 9, 10, 1, 4, 2, 10, 65, 220, 116, 80, 14, 0, 0, 0>>,
  <<31, 139, 8, 32, 0, 0, 0, 0, 0, 0, 0, 1, 14, 0, 241, 255, 1, 4, 2, 10, 9, 10, 9, 10, 9, 10, 1, 4, 2, 10>>,
  <<31, 140, 0, 0, 0, 0, 0, 0, 0, 0, 0>>,
  <<31, 139, 7, 0, 0, 0, 0, 0, 0, 255, 1, 14, 0, 241, 255, 1, 4, 2, 10, 9, 10, 9, 10, 9, 10, 1, 4, 2, 10, 65, 220, 116, 80, 14, 0, 0, 0>>}

\* a checksum, a distance, two symbols no code means, a reserved block, a length, and tables:
\* no end of block, too many codes, nothing to repeat, too many lengths; and too much output
BadDeflate == {
  <<120, 1, 99, 100, 97, 226, 226, 4, 67, 70, 22, 38, 46, 0, 2, 158, 0, 93>>,
  <<99, 1, 34, 0>>,
  <<27, 3>>,
  <<99, 1, 62>>,
  <<7>>,
  <<1, 14, 0, 0, 0, 1, 4, 2, 10, 9, 10, 9, 10, 9, 10, 1, 4, 2, 10>>,
  <<5, 192, 33, 1, 0, 0, 0, 0, 144, 194, 255, 207, 0>>,
  <<5, 192, 33, 9, 0, 0, 0, 0, 160, 162, 255, 47, 11>>,
  <<5, 0, 130, 0, 201>>,
  <<5, 0, 128, 192, 223, 31>>,
  <<99, 100, 97, 226, 194, 11, 0>>}

Compressed ==
  {Encoded("deflate", b, Page) : b \in {Fixed, Two, Dynamic, Stored(Page), ZlFixed, ZlTail}}
    \cup {Encoded("gzip", b, Page) : b \in {GzDynamic, GzStored}}
    \cup {Encoded("gzip", GzipCompressStored(<< >>), << >>), Encoded("deflate", ZlibCompressStored(<< >>), << >>)}
    \cup {Unsound(Encoded("gzip", b, Page)) : b \in BadGzip}
    \cup {Unsound(Encoded("deflate", b, Page)) : b \in BadDeflate}
    \cup {[Encoded("x-gzip", GzStored, Page) EXCEPT !.length = Len(GzStored)]}

\* chunks of 3 and 11 bytes
TwoChunks == <<SizeLine(3)>> \o SubSeq(Page, 1, 3) \o <<LineEnd, SizeLine(11)>> \o SubSeq(Page, 4, 14) \o <<LineEnd>>
Framings ==
  {Counted(Page), [Counted(Page) EXCEPT !.wire = @ \o <<2, 2>>],
   [ToClose(Page) EXCEPT !.transfer = "identity", !.encoding = "identity"],
   Unsound([ToClose(Page) EXCEPT !.length = Malformed]),
   [ToClose(Page) EXCEPT !.transfer = "gzip"], [ToClose(Page) EXCEPT !.encoding = "br"],
   Chunked(TwoChunks \o <<SizeLine(0), LineEnd>>, Page),
   Chunked(TwoChunks \o <<SizeLine(0), FieldLine, LineEnd>>, Page),
   [Chunked(<<SizeLine(19)>> \o Stored(Page) \o <<LineEnd, SizeLine(0), LineEnd>>, Page) EXCEPT !.encoding = "deflate", !.length = 3],
   Unsound(Chunked(TwoChunks \o <<SizeLine(0), LineEnd, 1>>, Page)),
   Unsound(Chunked(TwoChunks \o <<OtherLine, LineEnd>>, Page)),
   Unsound(Chunked(<<SizeLine(2)>> \o Page, Page))}

-----------------------------------------------------------------------------
(* Pages: an element with every three of some pieces in it, and a few that *)
(* are written oddly.                                                      *)
Pieces == {<<"<", "li", ">">>, <<"<", "p", ">">>, <<"<", "/", "p", ">">>, <<"<", "td", ">">>, <<"<", "tr", ">">>,
           <<"<", "b", ">">>, <<"<", "/", "b", ">">>, <<"x", " ">>}
Odd == {
  <<"<", "p", " ", "class", "=", "\"", "x", " ", "b", "\"", " ", "=", "x", "/", "b", " ", "=", " ", "x", ">", "&lt;", "x">>,
  <<"<", "!", "doctype", " ", "x", ">", "<", "!", "--", "<", "p", "--", ">", "<", "!", "x", ">", "<", "br", "/", ">", "x">>,
  <<"<", "b", ">", "<", "style", ">", "x", "<", "p", ">", "<", "/", "style", ">", "x", "&nbsp;", "<", "/", "x", ">", " ">>,
  <<"<", "ul", ">", "<", "p", ">", "<", "option", " ", "x", "=", "'", "\"", "'", ">", "<", "option", "class", "=", "&lt;", "<", "dt", ">">>,
  <<"<", "p", ">", "x", "<", " ", "x", "<", "td", "/", ">", "x", "<", "/", ">", "<", "tr">>}

(* References to redirect to. *)
Web(scheme, rest) == <<scheme, "://">> \o rest
References == {
  << >>, <<"x">>, <<"x.html">>, <<"d", "/", "x">>, <<"..", "/", "x">>, <<".", "/", "..", "/", "d">>, <<"/">>, <<"/", "d", "/">>,
  <<"?", "x">>, <<"#", "x">>, <<"x", "?", "x", "?", "/", "#", "x">>, <<"/", "/", "h", "/", "x">>, <<"/", "/", "/", "x">>,
  Web("https", <<"h", ":", "80", "/", "x">>), Web("http", <<"h", ":", "h", ":", "80", "?", "x">>),
  Web("http", <<"h", ":", "/", "x">>), Web("ftp", <<"h", "/", "x">>), Web("file", <<"/", "x">>),
  <<"x", "?", "x", "=", "http", "://", "h">>, <<"d", "\\", "..", "\\", "x">>,
  <<" ", "x", " ">>, <<"x", " ", "#", "x">>, <<"x", "?", " ", " ", "#">>, <<".", " ", "/", "..", "/", "x">>}

MCInputs == {Web("http", <<"h", "/", "page">>), Web("http", <<"h", "#", "x">>), Web("http", <<"h", "/", "x", " ", "#", "x">>) \o <<" ">>, Web("https", <<"h", "/", "d", "/", "x.html", "?", "x">>),
             << >>, <<"x">>, <<"ftp", ":", "x">>, <<"c", ":", "\\", "x">>, Web("file", <<"/", "c", ":", "/", "x">>), Web("file", <<"h", "/", "x">>)}

MCSite ==
  [page |-> {ToClose(Bytes(<<"<", "table", ">">> \o a \o b \o c)) : a \in Pieces, b \in Pieces, c \in Pieces}
              \cup {ToClose(Bytes(t)) : t \in Odd} \cup Compressed \cup Framings]
  @@ [r \in {"x.html", "x", "/", "\\", "d", " "} |->
        {RedirectTo(ref) : ref \in References} \cup {[Plain200 EXCEPT !.status = 301]}
          \cup {[Counted(<<10>>) EXCEPT !.type = t] : t \in {Absent, "", "text", "other"}} \cup {ToClose(<<200>>)}]
=============================================================================
