------------------------------ MODULE CookieJar ------------------------------
(***************************************************************************)
(* The in-memory cookie jar (CookieJar of crates/mocha_cookie/src/lib.rs). *)
(***************************************************************************)
EXTENDS Cookies

VARIABLES
  jar,    \* the cookies held
  last,   \* history: of each name, domain and path the cookie set last
  clock

vars == <<jar, last, clock>>

SetCookie(c) ==
  /\ jar' = WithCookie(jar, c, clock)
  /\ last' = Others(last, c) \cup {c}
  /\ UNCHANGED clock

StoreSetCookie(h, r) == Accepted(h, r) /\ SetCookie(Parsed(h, r, clock))

RemoveExpired ==
  /\ jar' = {c \in jar : ~IsExpired(c, clock)}
  /\ UNCHANGED <<last, clock>>

Clear == jar' = {} /\ last' = {} /\ UNCHANGED clock

Tick ==
  /\ clock < MaxClock
  /\ clock' = clock + 1
  /\ UNCHANGED <<jar, last>>

Init == jar = {} /\ last = {} /\ clock = 0

Next ==
  \/ \E s \in Sent : StoreSetCookie(s[1], s[2])
  \/ RemoveExpired \/ Clear \/ Tick

Spec == Init /\ [][Next]_vars

-----------------------------------------------------------------------------
(* Properties.                                                              *)

\* Whatever was replaced, deleted by an expired cookie, or dropped on expiry,
\* a request gets at any later time what the last accepted header of each name,
\* domain and path gives it, and nothing of earlier headers.
ServesLastSet ==
  \A r \in Asked, now \in clock..MaxClock :
    CookiesForRequest(jar, r, now) = CookiesForRequest(last, r, now)

\* No two cookies of one identity: a request never carries the same name twice
\* for one domain and path.
OneOfEachIdentity == \A c, d \in jar : SameIdentity(c, d) => c = d
=============================================================================
