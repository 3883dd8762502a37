----------------------------- MODULE CookieStore -----------------------------
(***************************************************************************)
(* The cookies of a profile (crates/mocha_storage/src/cookies.rs): a table *)
(* keyed by name, domain and path, whose rows are loaded into a jar to     *)
(* answer a request.  Headers are parsed by mocha_cookie.                  *)
(***************************************************************************)
EXTENDS Cookies

VARIABLES
  cookies,  \* the rows
  last,     \* history, as in CookieJar
  clock

vars == <<cookies, last, clock>>

\* The cookie in a row, created at a given time.
CookieIn(r, created) ==
  [name |-> r.name, value |-> r.value, domain |-> r.domain, path |-> r.path,
   expires_ms |-> r.expires_ms, secure |-> r.secure, host_only |-> r.host_only,
   created_ms |-> created]

LoadJar == {CookieIn(r, r.created_ms) : r \in cookies}

\* A cookie that is replaced is created anew in a jar and keeps its time of
\* creation in the table: the jar that the table stands for is made of the
\* times of update.
Jar == INSTANCE CookieJar WITH jar <- {CookieIn(r, r.updated_ms) : r \in cookies}

Row(c, created, updated) ==
  [name |-> c.name, value |-> c.value, domain |-> c.domain, path |-> c.path,
   expires_ms |-> c.expires_ms, secure |-> c.secure, host_only |-> c.host_only,
   created_ms |-> created, updated_ms |-> updated]

Conflicting(c) == {r \in cookies : SameIdentity(r, c)}

\* Mutant of Upserted: host_only is not in the list of columns to update.
UpsertedKeepsHostOnly(c) ==
  IF Conflicting(c) = {} THEN {Row(c, c.created_ms, clock)}
  ELSE {[Row(c, r.created_ms, clock) EXCEPT !.host_only = r.host_only] : r \in Conflicting(c)}

\* INSERT ... ON CONFLICT DO UPDATE: a row that is there keeps its created_ms.
Upserted(c) ==
  IF Conflicting(c) = {} THEN {Row(c, c.created_ms, clock)}
  ELSE {Row(c, r.created_ms, clock) : r \in Conflicting(c)}

\* Mutant of SetCookie: an expired cookie is not stored, and deletes nothing.
SetCookieIgnoresExpired(c) ==
  /\ cookies' = IF IsExpired(c, clock) THEN cookies
                ELSE (cookies \ Conflicting(c)) \cup Upserted(c)
  /\ last' = Others(last, c) \cup {c}
  /\ UNCHANGED clock

SetCookie(c) ==
  /\ cookies' = (cookies \ Conflicting(c))
                  \cup (IF IsExpired(c, clock) THEN {} ELSE Upserted(c))
  /\ last' = Others(last, c) \cup {c}
  /\ UNCHANGED clock

StoreSetCookie(h, r) == Accepted(h, r) /\ SetCookie(Parsed(h, r, clock))

ClearCookies == cookies' = {} /\ last' = {} /\ UNCHANGED clock

Tick ==
  /\ clock < MaxClock
  /\ clock' = clock + 1
  /\ UNCHANGED <<cookies, last>>

Init == cookies = {} /\ last = {} /\ clock = 0

Next ==
  \/ \E s \in Sent : StoreSetCookie(s[1], s[2])
  \/ ClearCookies \/ Tick

Spec == Init /\ [][Next]_vars

-----------------------------------------------------------------------------
(* Properties.                                                              *)

\* A cookie but for its time of creation, which only orders what is sent.
Ageless(c) == [c EXCEPT !.created_ms = 0]

\* What the profile answers is what the last accepted header of each name,
\* domain and path says, host-only or not, expired or not.
ServesLastSet ==
  \A r \in Asked, now \in clock..MaxClock :
    {Ageless(c) : c \in CookiesForRequest(LoadJar, r, now)}
      = {Ageless(c) : c \in CookiesForRequest(last, r, now)}

\* The table behaves as the in-memory jar does, operation by operation: what a
\* page sees does not depend on which of the two holds its cookies.
ImplementsCookieJar == Jar!Spec

\* A positive Max-Age keeps a cookie for that long, unless the end of time
\* comes first: then the sum has wrapped and the cookie is gone at once.
KeptForMaxAge ==
  [][\A s \in Sent : LET h == s[1]  r == s[2] IN
       /\ StoreSetCookie(h, r) /\ h.max_age # NoAttribute /\ h.max_age > 0
       /\ clock + Saturating(h.max_age * Second) <= MaxTime
       => LET end == clock + Saturating(h.max_age * Second) IN
          \E c \in LoadJar' :
            /\ SameIdentity(c, Parsed(h, r, clock)) /\ c.value = h.value
            /\ \A now \in clock..(end - 1) : ~IsExpired(c, now)]_vars
=============================================================================
