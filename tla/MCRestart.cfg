SPECIFICATION Spec
CONSTANTS
  docA = docA
  docB = docB
  relative = relative
  junk = junk
  absent = absent
  Urls = {docA, docB, relative}
  ReadBack <- SpacedReadBack
  Redirects <- AllRedirects
  NoUrl = absent
  Rooms = {0}
  NoScroll = absent
  Typed = {junk}
  Suggested = {docA, docB}
  Junk = junk
  NoSession = absent
  MaxTabs = 1
  MaxIds = 2
  MaxHistory = 2
INVARIANTS StoredSessionCoherent StripSound
