SPECIFICATION Spec
CONSTANTS
  a = a
  b = b
  f = f
  top = top
  sub = sub
  Hosts = {top, sub}
  Under <- MCUnder
  HostOf <- MCHostOf
  NoLocation = NoLocation
  Web = {a, b}
  Files = {f}
  MaxRedirects = 2
  MaxVersion = 2
  MaxCookies = 1
  MaxEntries = 2
INVARIANT CookiesStayHome
PROPERTIES ImplementsSessionHistory NeverOlder BackHitsCache LoadsEnd
