-------------------------- MODULE NavControllerProofs --------------------------
(***************************************************************************)
(* Proofs about NavController, for every value of its constants.           *)
(*                                                                         *)
(* Inv relates the four places that a page shown has left a trace in: the  *)
(* site, the cache, what was seen, and the entries of the history.  It     *)
(* says that what was seen of a page is no newer than its cached copy,     *)
(* that an entry entered with a 200 is in the cache, that a cookie is of a *)
(* domain that the host which set it is in, and that a call of back or     *)
(* forward goes one entry from where the cursor stands when it returns.    *)
(***************************************************************************)
EXTENDS NavController, SequenceTheorems, TLAPS

Entries == [url : Urls, status : {"200", "other", "none"}]
Requests == [url : Urls, bypass_cache : BOOLEAN, cookies : BOOLEAN]
Cookies == [domain : Hosts, host_only : BOOLEAN, by : Hosts]

\* A cookie is of the host that set it, or of a domain that host is in.
CookiesOK(cs) ==
  \A c \in cs : c \in Cookies /\ DomainMatches(c.by, c.domain, c.host_only)
Hops == [pc : {"hop"}, request : Requests, current : Web, redirects : 0..MaxRedirects]
Kinds == {"navigate", "go_to", "reload", "embedder"}

\* A call under way and where it will move the cursor.
CallOK(c, cookies) ==
  /\ c.kind \in Kinds
  /\ c.kind = "embedder" <=> cookies
  /\ c.kind = "go_to" =>
       c.target \in {current - 1, current + 1} \cap (1..Len(entries))

TypeInv ==
  /\ site \in [Web -> 0..MaxVersion]
  /\ CookiesOK(jar)
  /\ \A u \in DOMAIN cache : u \in Web /\ cache[u] \in Responses
  /\ load = NotLoading \/ load \in Hops
  /\ entries \in Seq(Entries)
  /\ current \in 0..Len(entries)
  /\ seen \in [Web -> 0..MaxVersion]

\* A cached response is a 200 of its URL, no newer than the site and no older
\* than anything shown of it.
CacheInv ==
  /\ \A u \in Web : seen[u] <= site[u]
  /\ \A u \in DOMAIN cache :
       /\ cache[u].final_url = u /\ cache[u].status = "200"
       /\ seen[u] <= cache[u].body /\ cache[u].body <= site[u]

EntriesInv ==
  \A i \in 1..Len(entries) : entries[i].status = "200" => entries[i].url \in DOMAIN cache

Inv ==
  /\ TypeInv
  /\ CacheInv
  /\ EntriesInv
  /\ load.pc = "hop" => CallOK(call, load.request.cookies)
  /\ load.pc = "idle" => call = NotLoading
  /\ load.pc \in {"idle", "hop"}

LEMMA InitInv == Init => Inv
BY NetAssumption, NavAssumption
DEF Init, NetInit, NotLoading, Inv, TypeInv, CacheInv, EntriesInv, CookiesOK

-----------------------------------------------------------------------------
(* What a response does.                                                    *)

LEMMA PushEntryOK ==
  ASSUME TypeInv, NEW r \in Responses, PushEntry(r)
  PROVE  /\ entries' \in Seq(Entries) /\ current' = current + 1
         /\ Len(entries') = current + 1
         /\ \A i \in 1..current : entries'[i] = entries[i]
         /\ entries'[current + 1] = [url |-> r.final_url, status |-> r.status]
<1> DEFINE e == [url |-> r.final_url, status |-> r.status]
           past == SubSeq(entries, 1, current)
<1>1. e \in Entries
  BY DEF Responses, Entries
<1>2. /\ entries \in Seq(Entries) /\ Len(entries) \in Nat
      /\ current \in 0..Len(entries) /\ current \in Nat
  BY DEF TypeInv
<1>3. /\ past \in Seq(Entries) /\ Len(past) = current
      /\ \A i \in 1..current : past[i] = entries[i]
  BY <1>2, SubSeqProperties, SMT
<1>4. entries' = Append(past, e) /\ current' = current + 1
  BY DEF PushEntry
<1> HIDE DEF e, past
<1>5. /\ entries' \in Seq(Entries) /\ Len(entries') = current + 1
      /\ \A i \in 1..current : entries'[i] = past[i]
      /\ entries'[current + 1] = e
  BY <1>1, <1>3, <1>4, AppendProperties
<1> QED
  BY <1>3, <1>4, <1>5 DEF e

\* The response r of call c, given to the caller once the cache and the jar
\* are what they are to be.
Delivered(c, r) ==
  /\ r \in Responses
  /\ c.kind # "embedder" /\ r.status = "200" =>
       /\ r.final_url \in DOMAIN cache'
       /\ cache'[r.final_url].body = r.body
       /\ seen[r.final_url] <= r.body /\ r.final_url \in Web

\* What is kept by everything that happens to the cache.
Kept ==
  /\ UNCHANGED site
  /\ CookiesOK(jar')
  /\ DOMAIN cache \subseteq DOMAIN cache'
  /\ \A u \in DOMAIN cache' :
       /\ u \in Web /\ cache'[u] \in Responses
       /\ cache'[u].final_url = u /\ cache'[u].status = "200"
       /\ seen[u] <= cache'[u].body /\ cache'[u].body <= site[u]

LEMMA ReturnsInv ==
  ASSUME Inv, NEW c, NEW r, c.kind \in Kinds,
         c.kind = "go_to" => c.target \in 1..Len(entries),
         Delivered(c, r), Kept, Returns(c, r)
  PROVE  Inv'
<1>1. TypeInv /\ CacheInv /\ EntriesInv /\ r \in Responses
  BY DEF Inv, Delivered
<1>2. /\ seen' \in [Web -> 0..MaxVersion]
      /\ \A u \in Web : \/ seen'[u] = seen[u]
                        \/ /\ u \in DOMAIN cache' /\ seen'[u] = cache'[u].body
  <2>1. CASE c.kind # "embedder" /\ r.status = "200"
    <3>1. seen' = [seen EXCEPT ![r.final_url] = r.body]
      BY <2>1 DEF Returns
    <3>2. r.body \in 0..MaxVersion
      BY <1>1 DEF Responses
    <3> QED
      BY <2>1, <3>1, <3>2, <1>1 DEF Delivered, TypeInv
  <2>2. CASE ~(c.kind # "embedder" /\ r.status = "200")
    BY <2>2, <1>1 DEF Returns, TypeInv
  <2> QED
    BY <2>1, <2>2
<1>3. CacheInv'
  <2>1. \A u \in Web : seen[u] \in Nat /\ site[u] \in Nat
    BY <1>1, NetAssumption DEF TypeInv
  <2>2. \A u \in DOMAIN cache' : cache'[u].body \in Nat
    BY NetAssumption DEF Kept, Responses
  <2> QED
    BY <1>1, <1>2, <2>1, <2>2 DEF CacheInv, Kept
<1>4. /\ entries' \in Seq(Entries) /\ current' \in 0..Len(entries')
      /\ EntriesInv'
  <2>1. CASE c.kind = "navigate" /\ PushEntry(r)
    <3>1. /\ entries' \in Seq(Entries) /\ current' = current + 1
          /\ Len(entries') = current + 1
          /\ \A i \in 1..current : entries'[i] = entries[i]
          /\ entries'[current + 1] = [url |-> r.final_url, status |-> r.status]
      BY <1>1, <2>1, PushEntryOK
    <3>2. current \in Nat /\ current <= Len(entries) /\ Len(entries) \in Nat
      BY <1>1 DEF TypeInv
    <3>3. \A i \in 1..(current + 1) :
            entries'[i].status = "200" => entries'[i].url \in DOMAIN cache'
      <4> TAKE i \in 1..(current + 1)
      <4>1. CASE i = current + 1
        BY <2>1, <3>1, <4>1 DEF Delivered
      <4>2. CASE i \in 1..current
        BY <1>1, <3>1, <3>2, <4>2 DEF EntriesInv, Kept
      <4> QED
        BY <3>2, <4>1, <4>2
    <3> QED
      BY <3>1, <3>2, <3>3 DEF EntriesInv
  <2>2. CASE c.kind = "go_to" /\ MoveTo(c.target)
    BY <1>1, <2>2 DEF MoveTo, TypeInv, EntriesInv, Kept
  <2>3. CASE UNCHANGED <<entries, current>>
    BY <1>1, <2>3 DEF TypeInv, EntriesInv, Kept
  <2> QED
    BY <2>1, <2>2, <2>3 DEF Returns, Apply
<1>5. load' = NotLoading /\ call' = NotLoading
  BY DEF Returns
<1>6. TypeInv'
  BY <1>1, <1>2, <1>4, <1>5 DEF TypeInv, Kept
<1> QED
  BY <1>3, <1>4, <1>5, <1>6 DEF Inv, Kept, NotLoading

LEMMA FailsInv ==
  ASSUME Inv, Fails, UNCHANGED <<site, cache>>,
         CookiesOK(jar')
  PROVE  Inv'
BY DEF Inv, TypeInv, CacheInv, EntriesInv, Fails, NotLoading

-----------------------------------------------------------------------------
(* Every step keeps the invariant.                                          *)

LEMMA CacheKept ==
  ASSUME Inv, UNCHANGED <<site, jar, cache>>
  PROVE  Kept
BY DEF Inv, TypeInv, CacheInv, Kept

LEMMA FileDelivered ==
  ASSUME NEW c, NEW u \in Files
  PROVE  Delivered(c, ReadFile(u))
BY NetAssumption DEF Delivered, ReadFile, Responses, Urls

LEMMA HitDelivered ==
  ASSUME Inv, UNCHANGED cache, NEW c, NEW u \in DOMAIN cache
  PROVE  Delivered(c, cache[u])
BY DEF Inv, TypeInv, CacheInv, Delivered

LEMMA BeginInv ==
  ASSUME Inv, NEW c, NEW request \in Requests, CallOK(c, request.cookies),
         Begin(c, request)
  PROVE  Inv'
<1>1. UNCHANGED <<site, jar, cache>> /\ load.pc = "idle"
  BY DEF Begin
<1>2. c.kind \in Kinds /\ (c.kind = "go_to" => c.target \in 1..Len(entries))
  BY DEF CallOK
<1>3. CASE Fails
  BY <1>1, <1>3, FailsInv DEF Inv, TypeInv
<1>4. CASE request.url \in Files /\ Returns(c, ReadFile(request.url))
  BY <1>1, <1>2, <1>4, CacheKept, FileDelivered, ReturnsInv
<1>5. CASE CacheHit(request) /\ Returns(c, cache[request.url])
  BY <1>1, <1>2, <1>5, CacheKept, HitDelivered, ReturnsInv DEF CacheHit
<1>6. CASE /\ request.url \in Web
           /\ load' = Loading(request) /\ call' = c
           /\ UNCHANGED <<entries, current, seen>>
  <2>1. load' \in Hops /\ load'.pc = "hop" /\ load'.request = request
    BY <1>6, NetAssumption DEF Loading, Hops
  <2>2. CallOK(call, load.request.cookies)'
    BY <1>6, <2>1 DEF CallOK
  <2> QED
    BY <1>1, <1>6, <2>1, <2>2 DEF Inv, TypeInv, CacheInv, EntriesInv
<1> QED
  BY <1>3, <1>4, <1>5, <1>6 DEF Begin

LEMMA GoToInv ==
  ASSUME Inv, NEW target \in {current - 1, current + 1} \cap (1..Len(entries)),
         GoTo(target)
  PROVE  Inv'
<1>1. entries[target] \in Entries
  BY DEF Inv, TypeInv
<1>2. Request(entries[target].url, FALSE, FALSE) \in Requests
  BY <1>1 DEF Request, Requests, Entries
<1>3. CallOK([kind |-> "go_to", target |-> target], FALSE)
  BY DEF CallOK, Kinds
<1> QED
  BY <1>2, <1>3, BeginInv DEF GoTo, Request

LEMMA CallsInv ==
  ASSUME Inv, \/ \E u \in Urls : Navigate(u) \/ NavigateNoCache(u) \/ LoadWithCookies(u)
              \/ Back \/ Forward \/ Reload
  PROVE  Inv'
<1>1. entries \in Seq(Entries) /\ Len(entries) \in Nat /\ current \in 0..Len(entries)
  BY DEF Inv, TypeInv
<1>2. \A u \in Urls, bypass \in BOOLEAN, cookies \in BOOLEAN :
        Request(u, bypass, cookies) \in Requests
        /\ Request(u, bypass, cookies).cookies = cookies
  BY DEF Request, Requests
<1>3. ASSUME NEW u \in Urls, Navigate(u) \/ NavigateNoCache(u)
      PROVE  Inv'
  <2>1. CallOK([kind |-> "navigate"], FALSE)
    BY DEF CallOK, Kinds
  <2> QED
    BY <1>2, <1>3, <2>1, BeginInv DEF Navigate, NavigateNoCache
<1>4. ASSUME NEW u \in Urls, LoadWithCookies(u)
      PROVE  Inv'
  <2>1. CallOK([kind |-> "embedder"], TRUE)
    BY DEF CallOK, Kinds
  <2> QED
    BY <1>2, <1>4, <2>1, BeginInv DEF LoadWithCookies
<1>5. CASE Back
  BY <1>1, <1>5, GoToInv DEF Back
<1>6. CASE Forward
  BY <1>1, <1>6, GoToInv DEF Forward
<1>7. CASE Reload
  <2>1. CallOK([kind |-> "reload"], FALSE)
    BY DEF CallOK, Kinds
  <2>2. current \in 1..Len(entries)
    BY <1>1, <1>7 DEF Reload
  <2>3. entries[current] \in Entries
    BY <1>1, <2>2, ElementOfSeq
  <2>4. entries[current].url \in Urls
    BY <2>3 DEF Entries
  <2> QED
    BY <1>2, <1>7, <2>1, <2>4, BeginInv DEF Reload
<1> QED
  BY <1>3, <1>4, <1>5, <1>6, <1>7

LEMMA SettableOK ==
  ASSUME NEW h \in Hosts, NEW c \in Settable(h)
  PROVE  c \in Cookies /\ DomainMatches(c.by, c.domain, c.host_only)
<1>1. CASE c = [domain |-> h, host_only |-> TRUE, by |-> h]
  BY <1>1 DEF Cookies, DomainMatches
<1>2. ASSUME NEW d \in Hosts, DomainMatches(h, d, FALSE),
             c = [domain |-> d, host_only |-> FALSE, by |-> h]
      PROVE  c \in Cookies /\ DomainMatches(c.by, c.domain, c.host_only)
  BY <1>2 DEF Cookies
<1> QED
  BY <1>1, <1>2 DEF Settable

\* A response of an exchange stores cookies of domains its host is in.
LEMMA StoresCookiesOK ==
  ASSUME Inv, load \in Hops, StoresCookies
  PROVE  CookiesOK(jar')
<1> DEFINE host == HostOf[load.current]
<1>1. host \in Hosts
  BY NetAssumption DEF Hops
<1>2. \A c \in Settable(host) : c \in Cookies /\ DomainMatches(c.by, c.domain, c.host_only)
  BY <1>1, SettableOK
<1>3. jar' \subseteq jar \cup Settable(host)
  BY DEF StoresCookies
<1> QED
  BY <1>2, <1>3 DEF Inv, TypeInv, CookiesOK

LEMMA AnswerDelivered ==
  ASSUME Inv, load \in Hops, NEW r \in Answers, ServerAnswers(r)
  PROVE  Delivered(call, r) /\ Kept
<1>1. CallOK(call, load.request.cookies)
  BY DEF Inv, Hops
<1>2. load.current \in Web /\ load.request.cookies \in BOOLEAN
  BY DEF Hops, Requests
<1>3. /\ r \in Responses /\ r.final_url = load.current
      /\ r.body = site[load.current] /\ r.status # "none"
  BY <1>2 DEF Answers, Responses, Urls, Inv, TypeInv
<1>4. /\ \A u \in Web : seen[u] \in Nat /\ site[u] \in Nat /\ seen[u] <= site[u]
      /\ UNCHANGED site
  BY NetAssumption DEF Inv, TypeInv, CacheInv, ServerAnswers
<1>5. cache' = Stored(r)
  BY DEF ServerAnswers
<1>6. Kept
  <2>1. CookiesOK(jar')
    BY StoresCookiesOK DEF ServerAnswers
  <2>2. CASE r.status = "200" /\ ~load.request.cookies
    <3>1. cache' = WithResponse(load.current, r)
      BY <1>3, <1>5, <2>2 DEF Stored
    <3> QED
      BY <1>2, <1>3, <1>4, <2>1, <2>2, <3>1
      DEF WithResponse, Inv, TypeInv, CacheInv, Kept
  <2>3. CASE ~(r.status = "200" /\ ~load.request.cookies)
    BY <1>4, <1>5, <2>1, <2>3 DEF Stored, Inv, TypeInv, CacheInv, Kept
  <2> QED
    BY <2>2, <2>3
<1>7. Delivered(call, r)
  <2>1. ASSUME call.kind # "embedder", r.status = "200"
        PROVE  cache' = WithResponse(load.current, r)
    BY <1>1, <1>3, <1>5, <2>1 DEF Stored, CallOK
  <2> QED
    BY <1>2, <1>3, <1>4, <2>1 DEF Delivered, WithResponse
<1> QED
  BY <1>6, <1>7

LEMMA AnswerInv ==
  ASSUME Inv, load \in Hops, NEW r \in Answers, ServerAnswers(r)
  PROVE  Inv'
<1>1. CallOK(call, load.request.cookies)
  BY DEF Inv, Hops
<1> QED
  BY <1>1, AnswerDelivered, ReturnsInv DEF CallOK, ServerAnswers

LEMMA RedirectInv ==
  ASSUME Inv, load \in Hops, NEW u, ServerRedirects(u)
  PROVE  Inv'
<1>1. /\ CookiesOK(jar')
      /\ UNCHANGED <<site, cache>>
  BY StoresCookiesOK DEF ServerRedirects
<1>2. CASE Fails
  BY <1>1, <1>2, FailsInv
<1>3. CASE Redirected(u) /\ UNCHANGED navVars
  <2> DEFINE moved == [load EXCEPT !.current = u]
  <2>0. moved \in Hops /\ moved.redirects = load.redirects /\ moved.request = load.request
    BY <1>3 DEF Redirected, Hops
  <2>3. load' = [moved EXCEPT !.redirects = load.redirects + 1]
    BY <1>3 DEF Redirected
  <2> HIDE DEF moved
  <2>1. /\ load' \in Hops /\ load'.request = load.request /\ load'.pc = "hop"
        /\ UNCHANGED <<entries, current, call, seen>>
    BY <1>3, <2>0, <2>3, NetAssumption DEF Redirected, Hops, navVars
  <2>2. CallOK(call, load.request.cookies)'
    BY <2>1 DEF Inv, CallOK, Hops
  <2> QED
    BY <1>1, <2>1, <2>2 DEF Inv, TypeInv, CacheInv, EntriesInv
<1> QED
  BY <1>2, <1>3 DEF ServerRedirects

LEMMA LoadingIsHop == ASSUME Inv, load.pc = "hop" PROVE load \in Hops
BY DEF Inv, TypeInv, NotLoading

LEMMA ExchangeInv == ASSUME Inv, Exchange PROVE Inv'
<1>1. load \in Hops
  BY LoadingIsHop DEF Exchange, ServerFails, ServerRedirects
<1>2. CASE ServerFails
  BY <1>2, FailsInv DEF ServerFails, Inv, TypeInv
<1> QED
  BY <1>1, <1>2, RedirectInv, AnswerInv DEF Exchange

LEMMA SiteChangesInv == ASSUME Inv, SiteChanges PROVE Inv'
<1>1. PICK u \in Web : Changes(u) /\ UNCHANGED navVars
  BY DEF SiteChanges
<1>2. /\ site' = [site EXCEPT ![u] = @ + 1] /\ site[u] < MaxVersion
      /\ UNCHANGED <<jar, cache, load, entries, current, call, seen>>
  BY <1>1 DEF Changes, navVars
<1>3. site' \in [Web -> 0..MaxVersion] /\ \A v \in Web : site[v] \in Nat /\ site[v] <= site'[v]
  BY <1>2, NetAssumption DEF Inv, TypeInv
<1>4. \A v \in Web : seen[v] \in Nat
  BY NetAssumption DEF Inv, TypeInv
<1>5. \A v \in DOMAIN cache : v \in Web /\ cache[v].body \in Nat
  BY NetAssumption DEF Inv, TypeInv, Responses
<1>6. CacheInv'
  BY <1>2, <1>3, <1>4, <1>5 DEF Inv, CacheInv
<1> QED
  BY <1>2, <1>3, <1>6 DEF Inv, TypeInv, EntriesInv, CallOK

LEMMA StepInv == Inv /\ [Next]_vars => Inv'
<1> SUFFICES ASSUME Inv, [Next]_vars PROVE Inv'
  OBVIOUS
<1>1. CASE UNCHANGED vars
  BY <1>1 DEF vars, netVars, navVars, Inv, TypeInv, CacheInv, EntriesInv, CallOK
<1> QED
  BY <1>1, CallsInv, ExchangeInv, SiteChangesInv DEF Next

LEMMA Invariance == Spec => []Inv
BY InitInv, StepInv, PTL DEF Spec

-----------------------------------------------------------------------------
(* What follows from the invariant alone.                                   *)

\* Whoever redirected the load to it, a host gets a cookie only if it set it
\* itself or shares with the host that set it the domain that was named
\* (store_response_cookies, and the header of each hop).
THEOREM CookiesStay == Spec => []CookiesStayHome
<1>1. Inv => CookiesStayHome
  <2> SUFFICES ASSUME Inv, load.pc = "hop", NEW c \in CookieHeader
               PROVE  LET host == HostOf[load.current] IN
                      /\ c.by # host => ~c.host_only
                      /\ ~c.host_only =>
                           \A h \in {host, c.by} : h = c.domain \/ <<h, c.domain>> \in Under
    BY DEF CookiesStayHome
  <2>1. c \in jar /\ DomainMatches(HostOf[load.current], c.domain, c.host_only)
    BY DEF CookieHeader
  <2>2. c \in Cookies /\ DomainMatches(c.by, c.domain, c.host_only)
    BY <2>1 DEF Inv, TypeInv, CookiesOK
  <2> QED
    BY <2>1, <2>2 DEF DomainMatches, Cookies
<1> QED
  BY <1>1, Invariance, PTL

-----------------------------------------------------------------------------
(* A step answers a call or leaves the history and what was seen alone.     *)

Answered(c, r) ==
  /\ c.kind = "go_to" => c.target \in {current - 1, current + 1} \cap (1..Len(entries))
  /\ Delivered(c, r)
  /\ Returns(c, r)

Quiet == UNCHANGED <<entries, current, seen>>

LEMMA BeginAnswers ==
  ASSUME Inv, NEW c, NEW request, CallOK(c, request.cookies), Begin(c, request)
  PROVE  (\E r : Answered(c, r)) \/ Quiet
<1>1. CASE Fails \/ Quiet
  BY <1>1 DEF Fails, Quiet
<1>2. CASE request.url \in Files /\ Returns(c, ReadFile(request.url))
  BY <1>2, FileDelivered DEF Answered, CallOK
<1>3. CASE CacheHit(request) /\ Returns(c, cache[request.url])
  BY <1>3, HitDelivered DEF Answered, CallOK, CacheHit, Begin
<1> QED
  BY <1>1, <1>2, <1>3 DEF Begin, Quiet

LEMMA CallsAnswer ==
  ASSUME Inv, \/ \E u \in Urls : Navigate(u) \/ NavigateNoCache(u) \/ LoadWithCookies(u)
              \/ Back \/ Forward \/ Reload
  PROVE  (\E c, r : Answered(c, r)) \/ Quiet
<1>1. entries \in Seq(Entries) /\ Len(entries) \in Nat /\ current \in 0..Len(entries)
  BY DEF Inv, TypeInv
<1>2. /\ CallOK([kind |-> "navigate"], FALSE) /\ CallOK([kind |-> "reload"], FALSE)
      /\ CallOK([kind |-> "embedder"], TRUE)
  BY DEF CallOK, Kinds
<1>3. \A u, bypass, cookies : Request(u, bypass, cookies).cookies = cookies
  BY DEF Request
<1>4. ASSUME NEW target \in {current - 1, current + 1} \cap (1..Len(entries)),
             GoTo(target)
      PROVE  (\E c, r : Answered(c, r)) \/ Quiet
  <2> DEFINE c == [kind |-> "go_to", target |-> target]
             request == Request(entries[target].url, FALSE, FALSE)
  <2>1. request.cookies = FALSE
    BY <1>3
  <2>2. CallOK(c, FALSE)
    BY DEF CallOK, Kinds
  <2>3. Begin(c, request)
    BY <1>4 DEF GoTo
  <2> HIDE DEF c, request
  <2> QED
    BY <2>1, <2>2, <2>3, BeginAnswers
<1>5. CASE \E u \in Urls : Navigate(u) \/ NavigateNoCache(u)
  BY <1>2, <1>3, <1>5, BeginAnswers DEF Navigate, NavigateNoCache
<1>6. CASE \E u \in Urls : LoadWithCookies(u)
  BY <1>2, <1>3, <1>6, BeginAnswers DEF LoadWithCookies
<1>7. CASE Back
  BY <1>1, <1>4, <1>7 DEF Back
<1>8. CASE Forward
  BY <1>1, <1>4, <1>8 DEF Forward
<1>9. CASE Reload
  <2> DEFINE c == [kind |-> "reload"]
             request == Request(entries[current].url, TRUE, FALSE)
  <2>1. CallOK(c, request.cookies) /\ Begin(c, request)
    BY <1>2, <1>3, <1>9 DEF Reload
  <2> HIDE DEF c, request
  <2> QED
    BY <2>1, BeginAnswers
<1> QED
  BY <1>5, <1>6, <1>7, <1>8, <1>9

LEMMA StepAnswers ==
  ASSUME Inv, [Next]_vars
  PROVE  (\E c, r : Answered(c, r)) \/ Quiet
<1>1. ASSUME NEW r \in Answers, load.pc = "hop", ServerAnswers(r)
      PROVE  Answered(call, r)
  BY <1>1, LoadingIsHop, AnswerDelivered DEF Answered, Inv, CallOK, ServerAnswers
<1>2. CASE ServerFails \/ (\E u \in Urls \cup {NoLocation} : ServerRedirects(u))
  BY <1>2 DEF ServerFails, ServerRedirects, Fails, navVars, Quiet
<1>3. CASE SiteChanges \/ UNCHANGED vars
  BY <1>3 DEF SiteChanges, vars, navVars, Quiet
<1> QED
  BY <1>1, <1>2, <1>3, CallsAnswer DEF Next, Exchange

-----------------------------------------------------------------------------
(* Pages, and the cache that back and forward rely on.                      *)

\* A page never goes back in time: whatever is shown of it, from a server or
\* from the cache, is no older than what was shown of it before.
THEOREM PagesNeverOlder == Spec => NeverOlder
<1>1. ASSUME Inv, [Next]_vars
      PROVE  \A u \in Web : seen'[u] >= seen[u]
  <2>1. \A u \in Web : seen[u] \in Nat
    BY <1>1, NetAssumption DEF Inv, TypeInv
  <2>2. CASE Quiet
    BY <2>1, <2>2 DEF Quiet
  <2>3. ASSUME NEW c, NEW r, Answered(c, r)
        PROVE  \A u \in Web : seen'[u] >= seen[u]
    <3>1. CASE c.kind # "embedder" /\ r.status = "200"
      <4>1. seen' = [seen EXCEPT ![r.final_url] = r.body]
        BY <2>3, <3>1 DEF Answered, Returns
      <4>2. r.body \in Nat /\ seen[r.final_url] <= r.body
        BY <2>3, <3>1, NetAssumption DEF Answered, Delivered, Responses
      <4> QED
        BY <1>1, <2>1, <4>1, <4>2 DEF Inv, TypeInv
    <3>2. CASE ~(c.kind # "embedder" /\ r.status = "200")
      BY <2>1, <2>3, <3>2 DEF Answered, Returns
    <3> QED
      BY <3>1, <3>2
  <2> QED
    BY <1>1, <2>2, <2>3, StepAnswers
<1> QED
  BY <1>1, Invariance, PTL DEF Spec, NeverOlder

LEMMA BeginHitsCache ==
  ASSUME Inv, NEW target \in 1..Len(entries), GoTo(target),
         call' # NotLoading
  PROVE  call'.target = target /\ entries[target].status # "200"
<1> DEFINE c == [kind |-> "go_to", target |-> target]
           request == Request(entries[target].url, FALSE, FALSE)
<1>1. call' = c /\ ~CacheHit(request) /\ request.url \in Web
  BY DEF GoTo, Begin, Fails, Returns
<1>2. entries[target].url \notin DOMAIN cache
  BY <1>1 DEF CacheHit, Request
<1> QED
  BY <1>1, <1>2 DEF Inv, EntriesInv

\* Back and forward ask a server only for an entry that was not entered with
\* a 200: everything else is in the cache, under the URL of the entry.
THEOREM BackHits == Spec => BackHitsCache
<1>1. ASSUME Inv, Next, call' # NotLoading, call = NotLoading, call'.kind = "go_to"
      PROVE  entries[call'.target].status # "200"
  <2>1. ASSUME NEW target \in 1..Len(entries), GoTo(target)
        PROVE  entries[call'.target].status # "200"
    BY <1>1, <2>1, BeginHitsCache
  <2>2. CASE Back \/ Forward
    <3>1. Len(entries) \in Nat /\ current \in 0..Len(entries)
      BY <1>1, LenProperties DEF Inv, TypeInv
    <3>2. CASE Back
      <4>1. current - 1 \in 1..Len(entries) /\ GoTo(current - 1)
        BY <3>1, <3>2 DEF Back
      <4> QED
        BY <2>1, <4>1
    <3>3. CASE Forward
      <4>1. current + 1 \in 1..Len(entries) /\ GoTo(current + 1)
        BY <3>1, <3>3 DEF Forward
      <4> QED
        BY <2>1, <4>1
    <3> QED
      BY <2>2, <3>2, <3>3
  <2>3. ASSUME NEW c, NEW request, Begin(c, request)
        PROVE  call' = c
    BY <1>1, <2>3 DEF Begin, Fails, Returns
  <2>4. CASE Reload \/ \E u \in Urls : Navigate(u) \/ NavigateNoCache(u) \/ LoadWithCookies(u)
    <3>1. \/ call' = [kind |-> "reload"] \/ call' = [kind |-> "navigate"]
          \/ call' = [kind |-> "embedder"]
      BY <2>3, <2>4 DEF Reload, Navigate, NavigateNoCache, LoadWithCookies
    <3> QED
      BY <1>1, <3>1
  <2>5. CASE Exchange \/ SiteChanges
    BY <1>1, <2>5
    DEF Exchange, ServerFails, ServerRedirects, ServerAnswers, Fails, Returns,
        SiteChanges, navVars
  <2> QED
    BY <1>1, <2>2, <2>4, <2>5 DEF Next
<1> QED
  BY <1>1, Invariance, PTL DEF Spec, BackHitsCache, vars, navVars

-----------------------------------------------------------------------------
(* The refinement.                                                          *)

UrlsOf(es) == [i \in DOMAIN es |-> es[i].url]

LEMMA UrlsOfSeq ==
  ASSUME NEW es \in Seq(Entries)
  PROVE  /\ UrlsOf(es) \in Seq(Urls) /\ Len(UrlsOf(es)) = Len(es)
         /\ \A i \in 1..Len(es) : UrlsOf(es)[i] = es[i].url
<1> DEFINE url(i) == es[i].url
<1>1. Len(es) \in Nat /\ DOMAIN es = 1..Len(es)
  OBVIOUS
<1>2. \A i \in 1..Len(es) : url(i) \in Urls
  <2> TAKE i \in 1..Len(es)
  <2>1. es[i] \in Entries
    BY ElementOfSeq
  <2> QED
    BY <2>1 DEF Entries
<1>3. UrlsOf(es) = [i \in 1..Len(es) |-> url(i)]
  BY <1>1 DEF UrlsOf
<1> HIDE DEF url
<1>4. [i \in 1..Len(es) |-> url(i)] \in Seq(Urls)
  BY <1>1, <1>2, IsASeq
<1> QED
  BY <1>1, <1>3, <1>4 DEF url

LEMMA AnswerIsHistoryStep ==
  ASSUME Inv, NEW c, NEW r, Answered(c, r)
  PROVE  History!Next \/ UNCHANGED History!history
<1> DEFINE es == UrlsOf(entries)
<1>1. /\ entries \in Seq(Entries) /\ Len(entries) \in Nat
      /\ current \in 0..Len(entries) /\ current \in Nat
  BY DEF Inv, TypeInv
<1>2. /\ es \in Seq(Urls) /\ Len(es) = Len(entries) /\ DOMAIN es = 1..Len(entries)
      /\ \A i \in 1..Len(entries) : es[i] = entries[i].url
  BY <1>1, UrlsOfSeq
<1>3. r.final_url \in Urls /\ r \in Responses
  BY DEF Answered, Delivered, Responses
<1>4. CASE PushEntry(r)
  <2>1. /\ entries' \in Seq(Entries) /\ current' = current + 1
        /\ Len(entries') = current + 1
        /\ \A i \in 1..current : entries'[i] = entries[i]
        /\ entries'[current + 1] = [url |-> r.final_url, status |-> r.status]
    BY <1>3, <1>4, PushEntryOK DEF Inv
  <2>2. /\ UrlsOf(entries') \in Seq(Urls) /\ Len(UrlsOf(entries')) = current + 1
        /\ \A i \in 1..(current + 1) : UrlsOf(entries')[i] = entries'[i].url
    BY <2>1, UrlsOfSeq
  <2> DEFINE past == SubSeq(es, 1, current)
  <2> HIDE DEF es
  <2>3. past \in Seq(Urls) /\ Len(past) = current /\ \A i \in 1..current : past[i] = es[i]
    BY <1>1, <1>2, SubSeqProperties, SMT
  <2> HIDE DEF past
  <2>4. /\ Append(past, r.final_url) \in Seq(Urls)
        /\ Len(Append(past, r.final_url)) = current + 1
        /\ \A i \in 1..current : Append(past, r.final_url)[i] = past[i]
        /\ Append(past, r.final_url)[current + 1] = r.final_url
    BY <1>3, <2>3, AppendProperties
  <2>5. \A i \in 1..(current + 1) : UrlsOf(entries')[i] = Append(past, r.final_url)[i]
    <3> TAKE i \in 1..(current + 1)
    <3>1. i = current + 1 \/ i \in 1..current
      BY <1>1
    <3>2. CASE i = current + 1
      <4>1. entries'[current + 1].url = r.final_url /\ current + 1 \in 1..(current + 1)
        BY <1>1, <2>1
      <4> QED
        BY <2>2, <2>4, <3>2, <4>1
    <3>3. CASE i \in 1..current
      BY <1>1, <1>2, <2>1, <2>2, <2>3, <2>4, <3>3
    <3> QED
      BY <3>1, <3>2, <3>3
  <2>6. UrlsOf(entries') = Append(past, r.final_url)
    BY <2>2, <2>4, <2>5, SeqEqual
  <2>7. History!Visit(r.final_url)
    BY <2>1, <2>6 DEF History!Visit, past, es, UrlsOf
  <2> QED
    BY <1>3, <2>7 DEF History!Next
<1>5. CASE c.kind = "go_to" /\ MoveTo(c.target)
  <2>1. /\ current' = c.target /\ UNCHANGED entries
        /\ c.target \in {current - 1, current + 1} \cap DOMAIN es
    BY <1>2, <1>5 DEF Answered, MoveTo
  <2>2. es[c.target] \in Urls
    BY <1>2, <2>1
  <2>3. [es EXCEPT ![c.target] = es[c.target]] = es
    BY <1>2, <2>1
  <2>4. PICK d \in Urls : d = es[c.target]
    BY <2>2
  <2>5. History!Traverse(d)
    BY <2>1, <2>3, <2>4 DEF History!Traverse, UrlsOf
  <2> QED
    BY <2>5 DEF History!Next
<1>6. CASE UNCHANGED <<entries, current>>
  BY <1>6 DEF History!history
<1> QED
  BY <1>4, <1>5, <1>6 DEF Answered, Returns, Apply

\* The controller (navigate, back, forward, reload, and the loads of others) is
\* a session history: a navigation drops the entries ahead and adds one, back
\* and forward move by one, nothing else changes anything.
THEOREM ControllerIsSessionHistory == Spec => ImplementsSessionHistory
<1>1. Init => History!Init
  <2> SUFFICES ASSUME Init PROVE History!Init
    OBVIOUS
  <2>1. entries \in Seq(Entries) /\ Len(entries) = 0 /\ current = 0
    BY DEF Init
  <2>2. UrlsOf(entries) \in Seq(Urls) /\ Len(UrlsOf(entries)) = 0
    BY <2>1, UrlsOfSeq
  <2> QED
    BY <2>1, <2>2 DEF History!Init, UrlsOf
<1>2. Inv /\ [Next]_vars => [History!Next]_(History!history)
  <2> SUFFICES ASSUME Inv, [Next]_vars PROVE [History!Next]_(History!history)
    OBVIOUS
  <2>1. CASE Quiet
    BY <2>1 DEF Quiet, History!history
  <2> QED
    BY <2>1, StepAnswers, AnswerIsHistoryStep
<1> QED
  BY <1>1, <1>2, Invariance, PTL DEF Spec, ImplementsSessionHistory, History!Spec

=============================================================================
