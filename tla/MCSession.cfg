SPECIFICATION Spec
CONSTANTS
  docA = docA
  docB = docB
  relative = relative
  junk = junk
  absent = absent
  Urls = {docA, docB, relative}
  ReadBack <- SpacedReadBack
  Redirects <- NoRedirects
  NoUrl = absent
  Rooms = {0}
  NoScroll = absent
  Typed = {}
  Suggested = {}
  Junk = junk
  NoSession = absent
  MaxTabs = 2
  MaxIds = 2
  MaxHistory = 1
INVARIANTS BackgroundTabsStored
PROPERTY BarStaysCurrent
