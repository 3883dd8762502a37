--------------------------------- MODULE Url --------------------------------
(***************************************************************************)
(* Locations (crates/mocha_url): parsing, the normalized form that serves  *)
(* as a cache key and is stored in sessions, and the resolution of         *)
(* relative references.                                                    *)
(*                                                                         *)
(* A text is a sequence of lexemes, each a string: "://", "/", "\", ":",   *)
(* "?", "#", " " for white space, and names between them.                  *)
(***************************************************************************)
EXTENDS Integers, SequencesExt

CONSTANTS
  Ports,    \* the names that are port numbers
  Drives    \* the names of one letter

NotUrl == [scheme |-> "none"]
None == <<"none">>      \* no port, query or fragment
Marks == {"://", "/", "\\", ":", "?", "#"}

Has(t, mark) == \E i \in DOMAIN t : t[i] = mark
\* the first place of one of the marks in t, or the one behind t
FirstOf(t, marks) == Min({i \in DOMAIN t : t[i] \in marks} \cup {Len(t) + 1})
Head0(t, i) == SubSeq(t, 1, i - 1)
Behind(t, i) == SubSeq(t, i + 1, Len(t))
StartsWith(t, mark) == t # << >> /\ t[1] = mark

\* str::trim
Trimmed(t) ==
  LET solid == {i \in DOMAIN t : t[i] # " "}
  IN IF solid = {} THEN << >> ELSE SubSeq(t, Min(solid), Max(solid))

FileUrl(path) == [scheme |-> "file", host |-> << >>, port |-> None, path |-> path, query |-> None, fragment |-> None]

(* What stands in front of the first mark and, if it is there, behind it.  *)
Cut(t, mark) ==
  LET i == FirstOf(t, {mark}) IN [front |-> Head0(t, i), rest |-> IF i > Len(t) THEN None ELSE Behind(t, i)]

SplitPathQueryFragment(t) ==
  LET f == Cut(t, "#")
      q == Cut(f.front, "?")
  IN [path |-> q.front, query |-> q.rest, fragment |-> f.rest]

StartsWithDrive(t) == Len(t) >= 3 /\ t[1] \in Drives /\ t[2] = ":" /\ t[3] \in {"/", "\\"}

(* Behind file:// either a rooted path, less the slash in front of a drive,*)
(* or a drive.                                                             *)
ParseFileUrl(t) ==
  CASE StartsWith(t, "/") -> FileUrl(IF StartsWithDrive(Tail(t)) THEN Tail(t) ELSE t)
    [] StartsWithDrive(t) -> FileUrl(t)
    [] OTHER -> NotUrl

ParseAuthorityUrl(scheme, t) ==
  LET end == FirstOf(t, {"/", "?", "#"})
      authority == Head0(t, end)
      colon == Max({i \in DOMAIN authority : authority[i] = ":"} \cup {0})
      host == IF colon = 0 THEN authority ELSE Head0(authority, colon)
      port == IF colon = 0 THEN None ELSE Behind(authority, colon)
      tail == SplitPathQueryFragment(SubSeq(t, end, Len(t)))
  IN IF host = << >> \/ (colon # 0 /\ port \notin {<<p>> : p \in Ports}) THEN NotUrl
     ELSE [scheme |-> scheme, host |-> host, port |-> port,
           path |-> IF tail.path = << >> THEN <<"/">> ELSE tail.path,
           query |-> tail.query, fragment |-> tail.fragment]

\* a name of two letters or more before the first colon
HasExplicitScheme(t) == Len(t) > 1 /\ t[2] = ":" /\ t[1] \notin Marks \cup Drives

Parse(input) ==
  LET t == Trimmed(input)
      at == FirstOf(t, {"://"})
      scheme == Head0(t, at)
  IN CASE t = << >> -> NotUrl
       [] at <= Len(t) ->
            (CASE scheme = <<"file">> -> ParseFileUrl(Behind(t, at))
               [] scheme \in {<<"http">>, <<"https">>} -> ParseAuthorityUrl(scheme[1], Behind(t, at))
               [] OTHER -> NotUrl)
       [] HasExplicitScheme(t) -> NotUrl
       [] OTHER -> FileUrl(t)

-----------------------------------------------------------------------------
Optional(mark, part) == IF part = None THEN << >> ELSE <<mark>> \o part

RequestTarget(u) == u.path \o Optional("?", u.query)

Normalized(u) ==
  IF u.scheme = "file" THEN <<"file", "://">> \o u.path
  ELSE <<u.scheme, "://">> \o u.host \o Optional(":", u.port) \o RequestTarget(u)

-----------------------------------------------------------------------------
(* What stands between the slashes of a path.                              *)
Segments(path) ==
  LET slashes == {i \in DOMAIN path : path[i] = "/"}
      ends == SetToSortSeq(slashes \cup {0, Len(path) + 1}, <)
  IN [k \in 1 .. Len(ends) - 1 |-> SubSeq(path, ends[k] + 1, ends[k + 1] - 1)]

(* Segments one after the other: an empty one and . vanish, .. takes the   *)
(* one before it along.                                                    *)
Resolve(segments) ==
  LET kept[i \in 0 .. Len(segments)] ==
        IF i = 0 THEN << >>
        ELSE CASE segments[i] \in {<< >>, <<".">>} -> kept[i - 1]
               [] segments[i] = <<"..">> -> IF kept[i - 1] = << >> THEN << >> ELSE Front(kept[i - 1])
               [] OTHER -> Append(kept[i - 1], segments[i])
  IN kept[Len(segments)]

\* segments with a slash between two of them
Slashed(segments) == FlattenSeq([i \in DOMAIN segments |-> IF i = 1 THEN segments[1] ELSE <<"/">> \o segments[i]])

\* Mutant of NormalizeDotSegments: the leading slash goes with the segments.
NormalizeWithoutRoot(path) ==
  IF ~Has(path, "/") \/ Has(path, "\\") THEN path ELSE Slashed(Resolve(Segments(path)))

NormalizeDotSegments(path) ==
  IF ~Has(path, "/") \/ Has(path, "\\") THEN path
  ELSE (IF path[1] = "/" THEN <<"/">> ELSE << >>) \o Slashed(Resolve(Segments(path)))

(* The directory of a path, with its last slash or backslash.              *)
Directory(path) ==
  LET ends == {i \in DOMAIN path : path[i] \in {"/", "\\"}} IN IF ends = {} THEN <<"/">> ELSE SubSeq(path, 1, Max(ends))

Join(base, reference) ==
  LET location == Trimmed(reference) IN
  CASE location = << >> -> NotUrl
    [] Has(location, "://") -> Parse(location)
    [] Len(location) > 1 /\ location[1] = "/" /\ location[2] = "/" ->
         Parse(<<base.scheme, "://">> \o SubSeq(location, 3, Len(location)))
    [] OTHER ->
         LET ref == SplitPathQueryFragment(location)
             merged == IF StartsWith(ref.path, "/") THEN ref.path ELSE Directory(base.path) \o ref.path
         IN [base EXCEPT !.path = NormalizeDotSegments(merged), !.query = ref.query, !.fragment = ref.fragment]
=============================================================================
