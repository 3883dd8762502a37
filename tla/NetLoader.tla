------------------------------ MODULE NetLoader ------------------------------
(***************************************************************************)
(* Loading one resource (crates/mocha_net/src/lib.rs, http.rs, file.rs,    *)
(* cache.rs).  A load is a sequence of exchanges with servers, one per     *)
(* redirect; between two of them the sites may change, and a load with     *)
(* cookies reads and stores them at each.                                  *)
(*                                                                         *)
(* A URL is a model value, in its normalized form.  The contents of a page *)
(* are its version; the server of a URL may answer with them under status  *)
(* 200 or another, redirect anywhere, or fail (no connection, a malformed  *)
(* or truncated response, an encoding that is not supported).              *)
(* The CookieProvider is one over a CookieJar; of a cookie only its domain *)
(* is told apart (Cookies has names, paths, schemes and times).            *)
(***************************************************************************)
EXTENDS Integers, FiniteSets

CONSTANTS
  Web,           \* http and https URLs
  Files,         \* file URLs
  Hosts,         \* names of hosts, and of domains
  Under,         \* <<h, d>>: the name of host h ends in `.d'
  HostOf,        \* the host of each URL of Web
  NoLocation,    \* a Location that is missing or does not join to a URL
  MaxRedirects,  \* MAX_REDIRECTS
  MaxVersion,    \* bound: how often a page changes
  MaxCookies     \* bound: how many cookies there are

ASSUME NetAssumption ==
  /\ Web \cap Files = {} /\ NoLocation \notin Web \cup Files
  /\ HostOf \in [Web -> Hosts] /\ Under \subseteq Hosts \X Hosts
  /\ MaxRedirects \in Nat /\ MaxVersion \in Nat /\ MaxCookies \in Nat

Urls == Web \cup Files

VARIABLES
  site,  \* the version of each page at its server
  jar,   \* the cookies of the CookieProvider; with each, as history, the host that set it
  cache, \* MemoryCache: a response for some URLs
  load   \* the load under way

netVars == <<site, jar, cache, load>>

\* A file has no status, and its contents do not matter here.
Responses == [final_url : Urls, status : {"200", "other", "none"}, body : 0..MaxVersion]

\* A request: the URL, whether it bypasses the cache, whether it has cookies.
Request(u, bypass, cookies) == [url |-> u, bypass_cache |-> bypass, cookies |-> cookies]

NotLoading == [pc |-> "idle"]

Loading(request) == [pc |-> "hop", request |-> request, current |-> request.url, redirects |-> 0]

-----------------------------------------------------------------------------
(* Answers that need no exchange.                                           *)

ReadFile(u) == [final_url |-> u, status |-> "none", body |-> 0]

CacheHit(request) ==
  /\ request.url \in Web /\ ~request.bypass_cache /\ ~request.cookies
  /\ request.url \in DOMAIN cache

-----------------------------------------------------------------------------
(* One exchange (an iteration of fetch_with_redirects_cookies).             *)

DomainMatches(host, domain, host_only) ==
  host = domain \/ (~host_only /\ <<host, domain>> \in Under)

\* Mutant of CookieHeader: it is made once, for the URL that was asked for.
CookieHeaderOnce ==
  IF load.request.cookies
  THEN {c \in jar : DomainMatches(HostOf[load.request.url], c.domain, c.host_only)} ELSE {}

\* The cookies that go with the request.
CookieHeader ==
  IF load.request.cookies
  THEN {c \in jar : DomainMatches(HostOf[load.current], c.domain, c.host_only)} ELSE {}

\* parse_set_cookie, for a response of host h: a cookie of h alone, or with a
\* Domain that h is in; any other Domain is an error, and the header ignored.
Settable(h) ==
  {[domain |-> h, host_only |-> TRUE, by |-> h]} \cup
  {[domain |-> d, host_only |-> FALSE, by |-> h] : d \in {e \in Hosts : DomainMatches(h, e, FALSE)}}

\* store_response_cookies: any response, a redirect as well, may set cookies,
\* and replace or expire those of the domains it may set them for.
StoresCookies ==
  LET new == Settable(HostOf[load.current])
      touched == {c \in jar : \E d \in new : c.domain = d.domain}
  IN  jar' \in {jar} \cup
        (IF load.request.cookies
         THEN {cs \in {(jar \ touched) \cup set : set \in SUBSET (touched \cup new)} :
                 Cardinality(cs) <= MaxCookies}
         ELSE {})

\* Mutant of Redirected: the redirects are not counted.
RedirectedUncounted(u) ==
  /\ load.redirects < MaxRedirects /\ u \in Web
  /\ load' = [load EXCEPT !.current = u]

\* A redirect that is followed.
Redirected(u) ==
  /\ load.redirects < MaxRedirects /\ u \in Web
  /\ load' = [load EXCEPT !.current = u, !.redirects = @ + 1]

\* One redirect too many, one without a Location, or one to a file.
RedirectRefused(u) == load.redirects >= MaxRedirects \/ u \notin Web

Answers ==
  {[final_url |-> load.current, status |-> s, body |-> site[load.current]] : s \in {"200", "other"}}

WithResponse(u, r) == [v \in DOMAIN cache \cup {u} |-> IF v = u THEN r ELSE cache[v]]

\* Mutants of Stored: the key is the URL that was asked for; what bypasses the
\* cache on the way in does so on the way out.
StoredAsAsked(r) ==
  IF r.status = "200" /\ ~load.request.cookies THEN WithResponse(load.request.url, r) ELSE cache
StoredUnlessBypassed(r) ==
  IF r.status = "200" /\ ~load.request.cookies /\ ~load.request.bypass_cache
  THEN WithResponse(r.final_url, r) ELSE cache

\* Only a 200 is stored, under the URL it came from; a load with cookies
\* stores nothing.
Stored(r) ==
  IF r.status = "200" /\ ~load.request.cookies THEN WithResponse(r.final_url, r) ELSE cache

-----------------------------------------------------------------------------
(* What the world does meanwhile, and where it starts.                      *)

Changes(u) ==
  /\ site[u] < MaxVersion
  /\ site' = [site EXCEPT ![u] = @ + 1]
  /\ UNCHANGED <<jar, cache, load>>

NetInit ==
  /\ site = [u \in Web |-> 0]
  /\ jar = {} /\ cache = <<>> /\ load = NotLoading

=============================================================================
