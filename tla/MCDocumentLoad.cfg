SPECIFICATION Spec
CONSTANTS
  Ports = {"80", "8080"}
  Drives = {"c"}
  Inputs <- MCInputs
  Site <- MCSite
  Alphabet <- MCAlphabet
  MaxRedirects = 2
  MaxOutput = 30
  MaxNodes = 5
INVARIANTS
  BodyWhole
  UrlsReadBack
PROPERTIES InnerHtmlKept
CHECK_DEADLOCK FALSE
