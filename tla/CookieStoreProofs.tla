-------------------------- MODULE CookieStoreProofs --------------------------
(***************************************************************************)
(* Proofs about cookies, for any hosts, paths, headers, requests and       *)
(* times.  First the in-memory jar (CookieJar): replacing, deleting and    *)
(* dropping cookies never changes what a request is answered, which is the *)
(* last accepted word on each name, domain and path.  Then the cookie      *)
(* table of a profile: it implements the jar, so it serves what the jar    *)
(* serves.                                                                 *)
(***************************************************************************)
EXTENDS CookieStore, TLAPS

VARIABLE jar    \* a jar of its own, beside the table

Memory == INSTANCE CookieJar

\* The jar that the table stands for.
AsJar == {CookieIn(r, r.updated_ms) : r \in cookies}

-----------------------------------------------------------------------------
(* What a jar keeps, said of any set of cookies held, any set of the       *)
(* cookies set last, and any time.                                         *)

\* A time of expiry is a number or absent, whatever the header says.
LEMMA ExpiresMsType ==
  ASSUME NEW h \in Headers, NEW now \in Int
  PROVE  ExpiresMs(h, now) \in Int \cup {NoAttribute}
<1>1. Second \in Int /\ MaxTime \in Int
  BY CookieAssumption
<1>2. CASE h.max_age # NoAttribute
  <2>1. h.max_age \in Int
    BY <1>2 DEF Headers
  <2>2. h.max_age * Second \in Int
    BY <1>1, <2>1
  <2>3. \A n \in Int : Saturating(n) \in Int
    BY <1>1 DEF Saturating
  <2>4. \A n \in Int : Wrapped(n) \in Int
    BY <1>1 DEF Wrapped
  <2>5. now + Saturating(h.max_age * Second) \in Int
    BY <2>2, <2>3
  <2> QED
    BY <1>2, <2>4, <2>5 DEF ExpiresMs
<1>3. CASE h.max_age = NoAttribute
  BY <1>3 DEF ExpiresMs, Headers
<1> QED
  BY <1>2, <1>3

\* An expired cookie stays expired.
LEMMA ExpiredForGood ==
  ASSUME NEW c, c.expires_ms \in Int \cup {NoAttribute},
         NEW now \in Int, NEW later \in Int, now <= later,
         IsExpired(c, now)
  PROVE  IsExpired(c, later)
<1>1. c.expires_ms \in Int
  BY DEF IsExpired
<1> QED
  BY <1>1 DEF IsExpired

\* What the jar lacks of the cookies set last has expired.
Keeps(held, set, now) ==
  /\ now \in Int
  /\ \A c \in set : c.expires_ms \in Int \cup {NoAttribute}
  /\ \A c, d \in set : SameIdentity(c, d) => c = d
  /\ held \subseteq set
  /\ \A c \in set \ held : IsExpired(c, now)

LEMMA SettingKeeps ==
  ASSUME NEW held, NEW set, NEW now, Keeps(held, set, now),
         NEW c, c.expires_ms \in Int \cup {NoAttribute}
  PROVE  Keeps(WithCookie(held, c, now), Others(set, c) \cup {c}, now)
<1> DEFINE h == WithCookie(held, c, now)
           s == Others(set, c) \cup {c}
<1>1. h = Others(held, c) \cup (IF IsExpired(c, now) THEN {} ELSE {c})
  BY DEF WithCookie
<1>2. \A d \in s : d.expires_ms \in Int \cup {NoAttribute}
  BY DEF Keeps, Others
<1>3. ASSUME NEW d \in s, NEW e \in s, SameIdentity(d, e)
      PROVE  d = e
  BY <1>3 DEF Keeps, Others, SameIdentity
<1>4. h \subseteq s
  BY <1>1 DEF Keeps, Others
<1>5. ASSUME NEW d \in s \ h
      PROVE  IsExpired(d, now)
  <2>1. CASE d = c
    BY <1>1, <1>5, <2>1
  <2>2. CASE d \in Others(set, c)
    BY <1>1, <1>5, <2>2 DEF Keeps, Others
  <2> QED
    BY <1>5, <2>1, <2>2
<1> QED
  BY <1>2, <1>3, <1>4, <1>5 DEF Keeps

LEMMA WaitingKeeps ==
  ASSUME NEW held, NEW set, NEW now, Keeps(held, set, now),
         NEW later \in Int, now <= later
  PROVE  Keeps(held, set, later)
<1>1. \A c \in set \ held : IsExpired(c, later)
  BY ExpiredForGood DEF Keeps
<1> QED
  BY <1>1 DEF Keeps

\* Only expired cookies make a difference, and they match no request.
LEMMA KeptIsServed ==
  ASSUME NEW held, NEW set, NEW now \in Int, Keeps(held, set, now), NEW r
  PROVE  CookiesForRequest(held, r, now) = CookiesForRequest(set, r, now)
<1>1. \A c \in set \ held : ~MatchesRequest(c, r, now)
  BY DEF Keeps, MatchesRequest
<1> QED
  BY <1>1 DEF Keeps, CookiesForRequest

LEMMA ParsedExpires ==
  ASSUME NEW s \in Sent, NEW now \in Int
  PROVE  Parsed(s[1], s[2], now).expires_ms \in Int \cup {NoAttribute}
<1>1. s[1] \in Headers
  BY CookieAssumption
<1> QED
  BY <1>1, ExpiresMsType DEF Parsed

-----------------------------------------------------------------------------
(* The in-memory jar.                                                      *)

\* The instance speaks of cookies and headers as this module does.
LEMMA MemorysWords ==
  ASSUME NEW cs, NEW c, NEW d, NEW now, NEW h, NEW q
  PROVE  /\ Memory!SameIdentity(c, d) <=> SameIdentity(c, d)
         /\ Memory!IsExpired(c, now) <=> IsExpired(c, now)
         /\ Memory!WithCookie(cs, c, now) = WithCookie(cs, c, now)
         /\ Memory!Others(cs, c) = Others(cs, c)
         /\ Memory!Parsed(h, q, now) = Parsed(h, q, now)
         /\ Memory!CookiesForRequest(cs, q, now) = CookiesForRequest(cs, q, now)
<1>1. \A x, y : Memory!SameIdentity(x, y) <=> SameIdentity(x, y)
  BY DEF Memory!SameIdentity, SameIdentity
<1>2. Memory!Others(cs, c) = Others(cs, c)
  BY <1>1 DEF Memory!Others, Others
<1>3. \A x, t : Memory!IsExpired(x, t) <=> IsExpired(x, t)
  BY DEF Memory!IsExpired, IsExpired
<1>4. Memory!WithCookie(cs, c, now) = WithCookie(cs, c, now)
  BY <1>2, <1>3 DEF Memory!WithCookie, WithCookie
<1>5. Memory!Parsed(h, q, now) = Parsed(h, q, now)
  <2>1. \A n : /\ Memory!Saturating(n) = Saturating(n)
               /\ Memory!Wrapped(n) = Wrapped(n)
    BY DEF Memory!Saturating, Saturating, Memory!Wrapped, Wrapped
  <2>2. Memory!ExpiresMs(h, now) = ExpiresMs(h, now)
    BY <2>1 DEF Memory!ExpiresMs, ExpiresMs
  <2>3. \A p : Memory!DefaultPath(p) = DefaultPath(p)
    BY DEF Memory!DefaultPath, DefaultPath
  <2> QED
    BY <2>2, <2>3 DEF Memory!Parsed, Parsed
<1>6. \A x : Memory!MatchesRequest(x, q, now) <=> MatchesRequest(x, q, now)
  <2>1. \A a, b, o : Memory!DomainMatches(a, b, o) <=> DomainMatches(a, b, o)
    BY DEF Memory!DomainMatches, DomainMatches
  <2>2. \A p, x : Memory!PathMatches(p, x) <=> PathMatches(p, x)
    BY DEF Memory!PathMatches, PathMatches, Memory!IsPrefix, IsPrefix
  <2> QED
    BY <1>3, <2>1, <2>2 DEF Memory!MatchesRequest, MatchesRequest
<1>7. Memory!CookiesForRequest(cs, q, now) = CookiesForRequest(cs, q, now)
  BY <1>6 DEF Memory!CookiesForRequest, CookiesForRequest
<1> QED
  BY <1>1, <1>2, <1>3, <1>4, <1>5, <1>7

LEMMA MemoryNext == Keeps(jar, last, clock) /\ [Memory!Next]_(Memory!vars) => Keeps(jar, last, clock)'
<1> SUFFICES ASSUME Keeps(jar, last, clock), [Memory!Next]_(Memory!vars)
             PROVE  Keeps(jar', last', clock')
  BY DEF Keeps, SameIdentity, IsExpired
<1>1. clock \in Int
  BY DEF Keeps
<1>2. ASSUME NEW s \in Sent, Memory!StoreSetCookie(s[1], s[2])
      PROVE  Keeps(jar', last', clock')
  <2> DEFINE c == Parsed(s[1], s[2], clock)
  <2>1. c.expires_ms \in Int \cup {NoAttribute}
    BY <1>1, ParsedExpires
  <2>2. Memory!SetCookie(c)
    BY <1>2, MemorysWords DEF Memory!StoreSetCookie
  <2> HIDE DEF c
  <2>3. /\ jar' = WithCookie(jar, c, clock)
        /\ last' = Others(last, c) \cup {c} /\ clock' = clock
    BY <2>2, MemorysWords DEF Memory!SetCookie
  <2> QED
    BY <2>1, <2>3, SettingKeeps
<1>3. CASE Memory!RemoveExpired
  <2>1. jar' = {c \in jar : ~IsExpired(c, clock)} /\ last' = last /\ clock' = clock
    BY <1>3, MemorysWords DEF Memory!RemoveExpired
  <2> QED
    BY <2>1 DEF Keeps
<1>4. CASE Memory!Clear
  BY <1>1, <1>4 DEF Memory!Clear, Keeps
<1>5. CASE Memory!Tick
  <2>1. clock' \in Int /\ clock <= clock' /\ last' = last /\ jar' = jar
    BY <1>1, <1>5 DEF Memory!Tick
  <2> QED
    BY <2>1, WaitingKeeps
<1>6. CASE UNCHANGED Memory!vars
  BY <1>6 DEF Memory!vars
<1> QED
  BY <1>2, <1>3, <1>4, <1>5, <1>6 DEF Memory!Next

LEMMA MemoryKeeps == Memory!Spec => []Keeps(jar, last, clock)
<1>1. Memory!Init => Keeps(jar, last, clock)
  BY DEF Memory!Init, Keeps
<1> QED
  BY <1>1, MemoryNext, PTL DEF Memory!Spec

\* Whatever a jar has replaced, deleted or dropped (set_cookie,
\* remove_expired), it answers a request as if it had kept every cookie set
\* last.
THEOREM JarServesLastSet == Memory!Spec => []Memory!ServesLastSet
<1>1. Keeps(jar, last, clock) => Memory!ServesLastSet
  <2> SUFFICES ASSUME Keeps(jar, last, clock), NEW r \in Asked, NEW now \in clock..MaxClock
               PROVE  CookiesForRequest(jar, r, now) = CookiesForRequest(last, r, now)
    BY MemorysWords DEF Memory!ServesLastSet
  <2>1. clock \in Int /\ now \in Int /\ clock <= now
    BY CookieAssumption DEF Keeps
  <2> QED
    BY <2>1, WaitingKeeps, KeptIsServed
<1> QED
  BY <1>1, MemoryKeeps, PTL

\* set_cookie leaves one cookie of a name, domain and path.
THEOREM JarHasOneOfEach == Memory!Spec => []Memory!OneOfEachIdentity
<1>1. Keeps(jar, last, clock) => Memory!OneOfEachIdentity
  BY MemorysWords DEF Memory!OneOfEachIdentity, Keeps
<1> QED
  BY <1>1, MemoryKeeps, PTL

-----------------------------------------------------------------------------
(* The table of a profile.                                                 *)

\* The jar of the refinement speaks of cookies and headers as this module does.
LEMMA SameWords ==
  ASSUME NEW cs, NEW c, NEW now
  PROVE  /\ Jar!Others(cs, c) = Others(cs, c)
         /\ Jar!WithCookie(cs, c, now) = WithCookie(cs, c, now)
<1>1. \A d : Jar!SameIdentity(d, c) <=> SameIdentity(d, c)
  BY DEF Jar!SameIdentity, SameIdentity
<1>2. Jar!Others(cs, c) = Others(cs, c)
  BY <1>1 DEF Jar!Others, Others
<1>3. Jar!IsExpired(c, now) <=> IsExpired(c, now)
  BY DEF Jar!IsExpired, IsExpired
<1> QED
  BY <1>2, <1>3 DEF Jar!WithCookie, WithCookie

LEMMA SameHeaders ==
  ASSUME NEW h, NEW q, NEW now
  PROVE  /\ Jar!Accepted(h, q) <=> Accepted(h, q)
         /\ Jar!Parsed(h, q, now) = Parsed(h, q, now)
<1>1. Jar!Accepted(h, q) <=> Accepted(h, q)
  BY DEF Jar!Accepted, Jar!DomainMatches, Accepted, DomainMatches
<1>2. Jar!ExpiresMs(h, now) = ExpiresMs(h, now)
  <2>1. \A n : /\ Jar!Saturating(n) = Saturating(n)
               /\ Jar!Wrapped(n) = Wrapped(n)
    BY DEF Jar!Saturating, Saturating, Jar!Wrapped, Wrapped
  <2> QED
    BY <2>1 DEF Jar!ExpiresMs, ExpiresMs
<1>3. \A p : Jar!DefaultPath(p) = DefaultPath(p)
  BY DEF Jar!DefaultPath, DefaultPath
<1> QED
  BY <1>1, <1>2, <1>3 DEF Jar!Parsed, Parsed

\* A row and the cookie in it have the same key.
LEMMA SameKey ==
  ASSUME NEW r, NEW c, NEW t
  PROVE  SameIdentity(CookieIn(r, t), c) <=> SameIdentity(r, c)
  BY DEF SameIdentity, CookieIn

\* What is written for a cookie just parsed is that cookie.
LEMMA RowHoldsCookie ==
  ASSUME NEW h, NEW q, NEW created
  PROVE  /\ Row(Parsed(h, q, clock), created, clock).updated_ms = clock
         /\ CookieIn(Row(Parsed(h, q, clock), created, clock), clock) = Parsed(h, q, clock)
  BY DEF Parsed, Row, CookieIn

LEMMA UpsertedHoldsCookie ==
  ASSUME NEW h, NEW q
  PROVE  {CookieIn(r, r.updated_ms) : r \in Upserted(Parsed(h, q, clock))}
           = {Parsed(h, q, clock)}
<1> DEFINE c == Parsed(h, q, clock)
<1> HIDE DEF c
<1>1. ASSUME NEW r \in Upserted(c)
      PROVE  \E created : r = Row(c, created, clock)
  BY <1>1 DEF Upserted
<1>2. \A r \in Upserted(c) : CookieIn(r, r.updated_ms) = c
  BY <1>1, RowHoldsCookie DEF c
<1>3. Upserted(c) # {}
  BY DEF Upserted
<1>4. {CookieIn(r, r.updated_ms) : r \in Upserted(c)} = {c}
  BY <1>2, <1>3
<1> QED
  BY <1>4 DEF c

\* set_cookie of the store is set_cookie of the jar.
LEMMA SetCookieStep ==
  ASSUME NEW h, NEW q, SetCookie(Parsed(h, q, clock))
  PROVE  Jar!SetCookie(Parsed(h, q, clock))
<1> DEFINE c == Parsed(h, q, clock)
           Kept == {CookieIn(r, r.updated_ms) : r \in cookies \ Conflicting(c)}
<1>1. {CookieIn(r, r.updated_ms) : r \in Upserted(c)} = {c}
  BY UpsertedHoldsCookie
<1>2. SetCookie(c)
  OBVIOUS
<1> HIDE DEF c
<1>3. cookies' = (cookies \ Conflicting(c)) \cup (IF IsExpired(c, clock) THEN {} ELSE Upserted(c))
  BY <1>2 DEF SetCookie
<1>4. Kept = Others(AsJar, c)
  <2>1. \A r \in cookies :
          r \in Conflicting(c) <=> SameIdentity(CookieIn(r, r.updated_ms), c)
    BY SameKey DEF Conflicting
  <2> QED
    BY <2>1 DEF Others, AsJar
<1>5. AsJar' = WithCookie(AsJar, c, clock)
  <2>1. CASE IsExpired(c, clock)
    BY <1>3, <1>4, <2>1 DEF WithCookie, AsJar
  <2>2. CASE ~IsExpired(c, clock)
    BY <1>1, <1>3, <1>4, <2>2 DEF WithCookie, AsJar
  <2> QED
    BY <2>1, <2>2
<1>6. last' = Others(last, c) \cup {c} /\ UNCHANGED clock
  BY <1>2 DEF SetCookie
<1>7. Jar!SetCookie(c)
  BY <1>5, <1>6, SameWords DEF Jar!SetCookie, AsJar
<1> QED
  BY <1>7 DEF c

LEMMA StepSimulates == [Next]_vars => [Jar!Next]_(Jar!vars)
<1> SUFFICES ASSUME [Next]_vars
             PROVE  Jar!Next \/ UNCHANGED Jar!vars
  OBVIOUS
<1>1. ASSUME NEW s \in Sent, StoreSetCookie(s[1], s[2])
      PROVE  Jar!Next
  <2>1. Jar!StoreSetCookie(s[1], s[2])
    BY <1>1, SetCookieStep, SameHeaders DEF StoreSetCookie, Jar!StoreSetCookie
  <2> QED
    BY <2>1 DEF Jar!Next
<1>2. CASE ClearCookies
  BY <1>2 DEF ClearCookies, AsJar, Jar!Next, Jar!Clear
<1>3. CASE Tick
  BY <1>3 DEF Tick, AsJar, Jar!Next, Jar!Tick
<1>4. CASE UNCHANGED vars
  BY <1>4 DEF vars, AsJar, Jar!vars
<1> QED
  BY <1>1, <1>2, <1>3, <1>4 DEF Next

\* Every operation of the store (set_cookie, clear_cookies) does to the cookies
\* it stands for what that of CookieJar does.
THEOREM StoreImplementsCookieJar == Spec => ImplementsCookieJar
<1>1. Init => Jar!Init
  BY DEF Init, AsJar, Jar!Init
<1> QED
  BY <1>1, StepSimulates, PTL DEF Spec, ImplementsCookieJar, Jar!Spec

\* Matching does not ask for the time of creation.
LEMMA MatchingIsAgeless ==
  ASSUME NEW r, NEW t, NEW u, NEW q, NEW now
  PROVE  /\ MatchesRequest(CookieIn(r, t), q, now) <=> MatchesRequest(CookieIn(r, u), q, now)
         /\ Ageless(CookieIn(r, t)) = Ageless(CookieIn(r, u))
<1>1. MatchesRequest(CookieIn(r, t), q, now) <=> MatchesRequest(CookieIn(r, u), q, now)
  BY DEF MatchesRequest, IsExpired, CookieIn
<1>2. Ageless(CookieIn(r, t)) = Ageless(CookieIn(r, u))
  BY DEF Ageless, CookieIn
<1> QED
  BY <1>1, <1>2

LEMMA TableNext == Keeps(AsJar, last, clock) /\ [Next]_vars => Keeps(AsJar, last, clock)'
<1> SUFFICES ASSUME Keeps(AsJar, last, clock), [Next]_vars
             PROVE  Keeps(AsJar', last', clock')
  BY DEF Keeps, SameIdentity, IsExpired
<1>1. clock \in Int
  BY DEF Keeps
<1>2. ASSUME NEW s \in Sent, StoreSetCookie(s[1], s[2])
      PROVE  Keeps(AsJar', last', clock')
  <2> DEFINE c == Parsed(s[1], s[2], clock)
  <2>1. c.expires_ms \in Int \cup {NoAttribute}
    BY <1>1, ParsedExpires
  <2>2. Jar!SetCookie(c)
    BY <1>2, SetCookieStep DEF StoreSetCookie
  <2> HIDE DEF c
  <2>3. /\ AsJar' = WithCookie(AsJar, c, clock)
        /\ last' = Others(last, c) \cup {c} /\ clock' = clock
    BY <2>2, SameWords DEF Jar!SetCookie, AsJar
  <2> QED
    BY <2>1, <2>3, SettingKeeps
<1>3. CASE ClearCookies
  <2>1. AsJar' = {} /\ last' = {} /\ clock' = clock
    BY <1>3 DEF ClearCookies, AsJar
  <2> QED
    BY <1>1, <2>1 DEF Keeps
<1>4. CASE Tick
  <2>1. clock' \in Int /\ clock <= clock' /\ last' = last /\ AsJar' = AsJar
    BY <1>1, <1>4 DEF Tick, AsJar
  <2> QED
    BY <2>1, WaitingKeeps
<1>5. CASE UNCHANGED vars
  <2>1. AsJar' = AsJar /\ last' = last /\ clock' = clock
    BY <1>5 DEF vars, AsJar
  <2> QED
    BY <2>1
<1> QED
  BY <1>2, <1>3, <1>4, <1>5 DEF Next

LEMMA KeptTableServes == Keeps(AsJar, last, clock) => ServesLastSet
<1> SUFFICES ASSUME Keeps(AsJar, last, clock),
                    NEW q \in Asked, NEW now \in clock..MaxClock
             PROVE  {Ageless(c) : c \in CookiesForRequest(LoadJar, q, now)}
                      = {Ageless(c) : c \in CookiesForRequest(last, q, now)}
  BY DEF ServesLastSet
<1>1. CookiesForRequest(AsJar, q, now) = CookiesForRequest(last, q, now)
  <2>1. clock \in Int /\ now \in Int /\ clock <= now
    BY CookieAssumption DEF Keeps
  <2> QED
    BY <2>1, WaitingKeeps, KeptIsServed
<1>2. \A r \in cookies :
        /\ MatchesRequest(CookieIn(r, r.created_ms), q, now)
             <=> MatchesRequest(CookieIn(r, r.updated_ms), q, now)
        /\ Ageless(CookieIn(r, r.created_ms)) = Ageless(CookieIn(r, r.updated_ms))
  BY MatchingIsAgeless
<1>3. {Ageless(c) : c \in CookiesForRequest(LoadJar, q, now)}
        = {Ageless(CookieIn(r, r.created_ms)) :
             r \in {x \in cookies : MatchesRequest(CookieIn(x, x.created_ms), q, now)}}
  BY DEF CookiesForRequest, LoadJar
<1>4. {Ageless(c) : c \in CookiesForRequest(AsJar, q, now)}
        = {Ageless(CookieIn(r, r.updated_ms)) :
             r \in {x \in cookies : MatchesRequest(CookieIn(x, x.updated_ms), q, now)}}
  BY DEF CookiesForRequest, AsJar
<1>5. {Ageless(CookieIn(r, r.created_ms)) :
         r \in {x \in cookies : MatchesRequest(CookieIn(x, x.created_ms), q, now)}}
        = {Ageless(CookieIn(r, r.updated_ms)) :
             r \in {x \in cookies : MatchesRequest(CookieIn(x, x.updated_ms), q, now)}}
  <2>1. {x \in cookies : MatchesRequest(CookieIn(x, x.created_ms), q, now)}
          = {x \in cookies : MatchesRequest(CookieIn(x, x.updated_ms), q, now)}
    BY <1>2
  <2> QED
    BY <1>2, <2>1
<1> QED
  BY <1>1, <1>3, <1>4, <1>5

\* cookies_for_request of the store answers what the last accepted Set-Cookie
\* of each name, domain and path says.
THEOREM StoreServesLastSet == Spec => []ServesLastSet
<1>1. Init => Keeps(AsJar, last, clock)
  BY DEF Init, AsJar, Keeps
<1> QED
  BY <1>1, TableNext, KeptTableServes, PTL DEF Spec

\* A positive Max-Age ends where it says, when that is before the end of time.
LEMMA MaxAgeEnds ==
  ASSUME NEW h \in Headers, NEW now \in Int,
         h.max_age # NoAttribute, h.max_age > 0,
         now + Saturating(h.max_age * Second) <= MaxTime
  PROVE  /\ ExpiresMs(h, now) = now + Saturating(h.max_age * Second)
         /\ ExpiresMs(h, now) \in Int /\ ExpiresMs(h, now) > now
<1>1. /\ h.max_age \in Int /\ Second \in Int /\ Second > 0
      /\ MaxTime \in Int /\ MaxTime > 0
  BY CookieAssumption DEF Headers
<1> DEFINE age == h.max_age * Second
<1>2. age \in Int /\ age > 0
  BY <1>1
<1> HIDE DEF age
<1>3. Saturating(age) \in Int /\ Saturating(age) > 0
  BY <1>1, <1>2 DEF Saturating
<1>4. ExpiresMs(h, now) = Wrapped(now + Saturating(age))
  BY DEF ExpiresMs, age
<1>5. now + Saturating(age) \in Int /\ now + Saturating(age) <= MaxTime
  BY <1>3 DEF age
<1>6. Wrapped(now + Saturating(age)) = now + Saturating(age)
  BY <1>1, <1>5 DEF Wrapped
<1> QED
  BY <1>3, <1>4, <1>6 DEF age

\* A cookie that has not expired is in the table once it is set.
LEMMA SetIsLoaded ==
  ASSUME NEW c, ~IsExpired(c, clock), SetCookie(c)
  PROVE  \E d \in LoadJar' :
           /\ SameIdentity(d, c) /\ d.value = c.value /\ d.expires_ms = c.expires_ms
<1>1. PICK created : Row(c, created, clock) \in Upserted(c)
  BY DEF Upserted
<1>2. Row(c, created, clock) \in cookies'
  BY <1>1 DEF SetCookie
<1> DEFINE r == Row(c, created, clock)
           d == CookieIn(r, r.created_ms)
<1>3. d \in LoadJar'
  BY <1>2 DEF LoadJar
<1>4. SameIdentity(d, c) /\ d.value = c.value /\ d.expires_ms = c.expires_ms
  BY DEF Row, CookieIn, SameIdentity
<1> QED
  BY <1>3, <1>4

LEMMA ClockRuns == Spec => [](clock \in Int)
<1>1. Init => clock \in Int
  BY DEF Init
<1>2. clock \in Int /\ [Next]_vars => (clock \in Int)'
  BY DEF Next, vars, StoreSetCookie, SetCookie, ClearCookies, Tick
<1> QED
  BY <1>1, <1>2, PTL DEF Spec

\* A cookie set with a positive Max-Age (parse_set_cookie) is in the table and
\* is not taken for expired until then, if then is before the end of time.
THEOREM MaxAgeKept == Spec => KeptForMaxAge
<1>1. ASSUME clock \in Int, NEW s \in Sent, StoreSetCookie(s[1], s[2]),
             s[1].max_age # NoAttribute, s[1].max_age > 0,
             clock + Saturating(s[1].max_age * Second) <= MaxTime
      PROVE  LET end == clock + Saturating(s[1].max_age * Second)
             IN  \E c \in LoadJar' :
                   /\ SameIdentity(c, Parsed(s[1], s[2], clock)) /\ c.value = s[1].value
                   /\ \A now \in clock..(end - 1) : ~IsExpired(c, now)
  <2> DEFINE c == Parsed(s[1], s[2], clock)
             end == ExpiresMs(s[1], clock)
  <2>1. /\ end = clock + Saturating(s[1].max_age * Second)
        /\ end \in Int /\ end > clock
    BY <1>1, CookieAssumption, MaxAgeEnds
  <2>2. c.expires_ms = end /\ c.value = s[1].value
    BY DEF Parsed
  <2>3. SetCookie(c)
    BY <1>1 DEF StoreSetCookie
  <2> HIDE DEF c, end
  <2>4. ~IsExpired(c, clock)
    BY <1>1, <2>1, <2>2 DEF IsExpired
  <2>5. PICK d \in LoadJar' :
          SameIdentity(d, c) /\ d.value = c.value /\ d.expires_ms = c.expires_ms
    BY <2>3, <2>4, SetIsLoaded
  <2>6. \A now \in clock..(end - 1) : ~IsExpired(d, now)
    BY <1>1, <2>1, <2>2, <2>5 DEF IsExpired
  <2> QED
    BY <2>1, <2>2, <2>5, <2>6 DEF c
<1>2. clock \in Int =>
        [\A s \in Sent : LET h == s[1]  r == s[2] IN
           /\ StoreSetCookie(h, r) /\ h.max_age # NoAttribute /\ h.max_age > 0
           /\ clock + Saturating(h.max_age * Second) <= MaxTime
           => LET end == clock + Saturating(h.max_age * Second) IN
              \E c \in LoadJar' :
                /\ SameIdentity(c, Parsed(h, r, clock)) /\ c.value = h.value
                /\ \A now \in clock..(end - 1) : ~IsExpired(c, now)]_vars
  BY <1>1
<1> QED
  BY <1>2, ClockRuns, PTL DEF KeptForMaxAge
=============================================================================
