---------------------------- MODULE NavController ----------------------------
(***************************************************************************)
(* The navigation controller (crates/mocha_nav/src/lib.rs) over its        *)
(* loader: a list of entries with a cursor, moved or extended when a load  *)
(* succeeds.  It is the navigation of the command-line shell and of        *)
(* whoever embeds the engine.  A call blocks its thread, but not the       *)
(* sites; the same thread may also load with cookies, past the cache.      *)
(***************************************************************************)
EXTENDS NetLoader, Sequences

CONSTANT MaxEntries  \* bound: the length of the history

ASSUME NavAssumption == MaxEntries \in Nat

VARIABLES
  entries,  \* the URL of each entry; with it, as history, the status it was entered with
  current,  \* the cursor, from 1; 0 is None
  call,     \* the call under way: what it does when its load has succeeded
  seen      \* history: the contents last shown of each page under status 200

navVars == <<entries, current, call, seen>>
vars == <<netVars, navVars>>

-----------------------------------------------------------------------------
(* What a response does to the history.                                     *)

\* Mutant of PushEntry: the entries ahead of the cursor are kept.
PushEntryKeepsForward(r) ==
  /\ entries' = Append(entries, [url |-> r.final_url, status |-> r.status])
  /\ current' = Len(entries')

PushEntry(r) ==
  /\ entries' = Append(SubSeq(entries, 1, current), [url |-> r.final_url, status |-> r.status])
  /\ current' = current + 1

\* go_to: the entry keeps its URL, whatever URL its load ended at.
MoveTo(target) == current' = target /\ UNCHANGED entries

Apply(c, r) ==
  \/ c.kind = "navigate" /\ PushEntry(r)
  \/ c.kind = "go_to" /\ MoveTo(c.target)
  \/ c.kind \in {"reload", "embedder"} /\ UNCHANGED <<entries, current>>

\* The load of call c has succeeded with r.
Returns(c, r) ==
  /\ Apply(c, r)
  /\ load' = NotLoading /\ call' = NotLoading
  /\ seen' = IF c.kind # "embedder" /\ r.status = "200"
             THEN [seen EXCEPT ![r.final_url] = r.body] ELSE seen

Fails ==
  /\ load' = NotLoading /\ call' = NotLoading
  /\ UNCHANGED <<entries, current, seen>>

-----------------------------------------------------------------------------
(* Calls.                                                                   *)

\* A file and a hit are answered at once, anything else by exchanges.
Begin(c, request) ==
  /\ load.pc = "idle"
  /\ UNCHANGED <<site, jar, cache>>
  /\ \/ request.url \in Files /\ (Fails \/ Returns(c, ReadFile(request.url)))
     \/ CacheHit(request) /\ Returns(c, cache[request.url])
     \/ /\ request.url \in Web /\ ~CacheHit(request)
        /\ load' = Loading(request) /\ call' = c
        /\ UNCHANGED <<entries, current, seen>>

Navigate(u) ==
  /\ current < MaxEntries
  /\ Begin([kind |-> "navigate"], Request(u, FALSE, FALSE))

NavigateNoCache(u) ==
  /\ current < MaxEntries
  /\ Begin([kind |-> "navigate"], Request(u, TRUE, FALSE))

GoTo(target) ==
  Begin([kind |-> "go_to", target |-> target], Request(entries[target].url, FALSE, FALSE))

Back == current > 1 /\ GoTo(current - 1)

Forward == current # 0 /\ current < Len(entries) /\ GoTo(current + 1)

Reload == current # 0 /\ Begin([kind |-> "reload"], Request(entries[current].url, TRUE, FALSE))

LoadWithCookies(u) == Begin([kind |-> "embedder"], Request(u, FALSE, TRUE))

-----------------------------------------------------------------------------
(* Exchanges.                                                               *)

ServerFails == load.pc = "hop" /\ Fails /\ UNCHANGED <<site, jar, cache>>

ServerRedirects(u) ==
  /\ load.pc = "hop"
  /\ StoresCookies
  /\ UNCHANGED <<site, cache>>
  /\ \/ RedirectRefused(u) /\ Fails
     \/ Redirected(u) /\ UNCHANGED navVars

ServerAnswers(r) ==
  /\ load.pc = "hop"
  /\ StoresCookies
  /\ cache' = Stored(r)
  /\ UNCHANGED site
  /\ Returns(call, r)

Exchange ==
  \/ ServerFails
  \/ \E u \in Urls \cup {NoLocation} : ServerRedirects(u)
  \/ load.pc = "hop" /\ \E r \in Answers : ServerAnswers(r)

SiteChanges == \E u \in Web : Changes(u) /\ UNCHANGED navVars

Init ==
  /\ NetInit
  /\ entries = <<>> /\ current = 0 /\ call = NotLoading
  /\ seen = [u \in Web |-> 0]

Next ==
  \/ \E u \in Urls : Navigate(u) \/ NavigateNoCache(u) \/ LoadWithCookies(u)
  \/ Back \/ Forward \/ Reload
  \/ Exchange \/ SiteChanges

\* An exchange ends: each of its reads and writes has a timeout, and servers
\* are taken not to trickle without end.
Fairness == WF_vars(Exchange)

Spec == Init /\ [][Next]_vars /\ Fairness

-----------------------------------------------------------------------------
(* Properties.                                                              *)

History == INSTANCE SessionHistory
  WITH Docs <- Urls, entries <- [i \in DOMAIN entries |-> entries[i].url], cursor <- current

\* The controller is a session history: entries behind the cursor are kept,
\* those ahead are dropped by a navigation and by nothing else.
ImplementsSessionHistory == History!Spec

\* A page never goes back in time: whatever mixture of navigations, redirects,
\* reloads, back and forward led there, the contents shown of a URL are no
\* older than those shown of it before.
NeverOlder == [][\A u \in Web : seen'[u] >= seen[u]]_vars

\* Back and forward to an entry that was entered with a 200 ask no server,
\* and show it: redirects lead to the entry of the URL they end at.
BackHitsCache ==
  [][/\ call' # NotLoading /\ call = NotLoading /\ call'.kind = "go_to"
     => entries[call'.target].status # "200"]_vars

\* Whoever redirected the load to it and wherever the load went before, a host
\* gets a cookie only if it set it itself, or is in a domain that the host which
\* set it is in and named; a cookie without a Domain never leaves its host.
CookiesStayHome ==
  load.pc = "hop" =>
    LET host == HostOf[load.current] IN
    \A c \in CookieHeader :
      /\ c.by # host => ~c.host_only
      /\ ~c.host_only => \A h \in {host, c.by} : h = c.domain \/ <<h, c.domain>> \in Under

\* Every load ends: redirects are followed up to a limit.
LoadsEnd == load.pc = "hop" ~> load.pc = "idle"
=============================================================================
