---------------------------- MODULE MCCookieStore ----------------------------
(***************************************************************************)
(* CookieStore on small instances: a site, a host under it and a host      *)
(* apart from both; the root and a directory.  The headers meet on the     *)
(* identities (site, /), (sub, /) and (sub, /a), host-only or not, kept    *)
(* for the session, for a while, deleted, and beyond the end of time.      *)
(***************************************************************************)
EXTENDS CookieStore

CONSTANTS site, sub, other, none

MCHosts == {site, sub, other}
MCUnder == {<<sub, site>>}
Root == <<"">>
Dir == <<"a">>
MCPaths == {Root, Dir}

Header(v, d, p, age, date, sec) ==
  [name |-> "n", value |-> v, domain |-> d, path |-> p, max_age |-> age,
   expires |-> date, secure |-> sec]
At(s, h, p) == [scheme |-> s, host |-> h, path |-> p]

MCSent ==
  {Header("v", d, none, age, none, FALSE) : d \in {site, none}, age \in {-1, 2, 9, none}}
    \X {At("http", site, Root)}
  \cup {Header("w", site, none, none, 2, FALSE), Header("w", none, none, 2, 1, FALSE),
        Header("w", none, Dir, none, none, TRUE), Header("w", none, Dir, 0, none, FALSE)}
    \X {At("https", sub, Dir)}
  \cup {<<Header("x", site, none, none, none, FALSE), At("http", other, Root)>>}

MCAsked == [scheme : {"http", "https"}, host : {site, sub}, path : MCPaths]
                \cup {At("http", other, Root)}
=============================================================================
