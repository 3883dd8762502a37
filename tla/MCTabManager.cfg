SPECIFICATION Spec
CONSTANTS
  docA = docA
  docB = docB
  absent = absent
  Urls <- MCUrls
  ReadBack <- MCReadBack
  Redirects <- MCRedirects
  NoUrl = absent
  Rooms = {0, 1}
  NoScroll = absent
  Sessions <- MCSessions
  MaxTabs = 2
  MaxIds = 3
  MaxHistory = 2
SYMMETRY MCSymmetry
INVARIANTS UniqueActiveTab
  PageUrlHistoryAgree
PROPERTIES BackgroundTabsUntouched TabsImplementSessionHistory
