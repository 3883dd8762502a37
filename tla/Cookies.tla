------------------------------- MODULE Cookies -------------------------------
(***************************************************************************)
(* Cookies (crates/mocha_cookie/src/lib.rs): what a Set-Cookie header      *)
(* becomes, which cookies go with a request, and how one replaces another. *)
(*                                                                         *)
(* A path is the sequence of its segments, the last one empty when the     *)
(* path ends in a slash: `/' is <<"">>, `/a/b' is <<"a", "b">>.  Hosts are *)
(* in lower case.  Times are 64-bit in the code: here they wrap at         *)
(* MaxTime, as in a release build.  SameSite plays no part in matching and *)
(* is left out, like the order in which cookies are sent.                  *)
(***************************************************************************)
EXTENDS Integers, SequencesExt

CONSTANTS
  Names, Values, Paths,
  Hosts,
  Under,       \* <<h, d>>: the name of host h ends in `.d'
  NoAttribute, \* a Domain, Path, Max-Age or Expires that is not there
  Sent,        \* <<header, request>>: the Set-Cookie headers that responses carry
  Asked,       \* the requests that ask for cookies
  Second,      \* milliseconds in a second
  MaxTime,     \* i64::MAX
  MaxClock     \* bound: the last time that is looked at

Schemes == {"http", "https"}

Requests == [scheme : Schemes, host : Hosts, path : Paths]

\* A header, its attributes told apart; the last of each kind counts.
Headers ==
  [name : Names, value : Values, domain : Hosts \cup {NoAttribute},
   path : Paths \cup {NoAttribute}, max_age : Int \cup {NoAttribute},
   expires : Nat \cup {NoAttribute}, secure : BOOLEAN]

ASSUME CookieAssumption ==
  /\ Under \subseteq Hosts \X Hosts
  /\ NoAttribute \notin Hosts \cup Paths /\ Paths # {}
  /\ NoAttribute \notin Int
  /\ Sent \subseteq Headers \X Requests /\ Asked \subseteq Requests
  /\ Second \in Nat \ {0} /\ MaxTime \in Nat \ {0} /\ MaxClock \in 0..MaxTime
  /\ Paths \subseteq Seq(STRING) \ {<<>>}

-----------------------------------------------------------------------------
(* Matching.                                                                *)

IsExpired(c, now) == c.expires_ms # NoAttribute /\ now >= c.expires_ms

DomainMatches(host, domain, host_only) ==
  host = domain \/ (~host_only /\ <<host, domain>> \in Under)

\* The cookie's path itself, or one below it: after its slash if it ends in
\* one, else at a segment boundary.
PathMatches(request_path, cookie_path) ==
  \/ IsPrefix(cookie_path, request_path)
  \/ LET n == Len(cookie_path) - 1
     IN  /\ cookie_path[n + 1] = ""
         /\ n < Len(request_path)
         /\ IsPrefix(SubSeq(cookie_path, 1, n), request_path)

MatchesRequest(c, r, now) ==
  /\ ~IsExpired(c, now)
  /\ c.secure => r.scheme = "https"
  /\ DomainMatches(r.host, c.domain, c.host_only)
  /\ PathMatches(r.path, c.path)

CookiesForRequest(cs, r, now) == {c \in cs : MatchesRequest(c, r, now)}

-----------------------------------------------------------------------------
(* parse_set_cookie.                                                        *)

\* Arithmetic of i64: the product saturates, the sum wraps around.
Saturating(n) == IF n > MaxTime THEN MaxTime ELSE IF n < -MaxTime - 1 THEN -MaxTime - 1 ELSE n
Wrapped(n) == IF n > MaxTime THEN n - 2 * (MaxTime + 1) ELSE n

\* Mutant of ExpiresMs: Expires wins over Max-Age.
ExpiresMsDateFirst(h, now) ==
  IF h.expires # NoAttribute THEN h.expires
  ELSE IF h.max_age # NoAttribute THEN Wrapped(now + Saturating(h.max_age * Second))
  ELSE NoAttribute

\* Max-Age wins over Expires.
ExpiresMs(h, now) ==
  IF h.max_age # NoAttribute THEN Wrapped(now + Saturating(h.max_age * Second))
  ELSE h.expires

\* The directory of the request's path.
DefaultPath(path) == IF Len(path) = 1 THEN <<"">> ELSE SubSeq(path, 1, Len(path) - 1)

\* A Domain that the request's host is not in is an error.
Accepted(h, r) == h.domain # NoAttribute => DomainMatches(r.host, h.domain, FALSE)

Parsed(h, r, now) ==
  [name |-> h.name, value |-> h.value,
   domain |-> IF h.domain = NoAttribute THEN r.host ELSE h.domain,
   path |-> IF h.path = NoAttribute THEN DefaultPath(r.path) ELSE h.path,
   expires_ms |-> ExpiresMs(h, now),
   secure |-> h.secure,
   host_only |-> h.domain = NoAttribute,
   created_ms |-> now]

-----------------------------------------------------------------------------
(* The jar.                                                                 *)

SameIdentity(c, d) == c.name = d.name /\ c.domain = d.domain /\ c.path = d.path

Others(cs, c) == {d \in cs : ~SameIdentity(d, c)}

\* An expired cookie removes the one it would have replaced.
WithCookie(cs, c, now) == Others(cs, c) \cup (IF IsExpired(c, now) THEN {} ELSE {c})
=============================================================================
