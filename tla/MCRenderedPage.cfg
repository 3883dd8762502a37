SPECIFICATION Spec
CONSTANTS
  Pages <- MCPages
  External <- MCExternal
  Pictures <- MCPictures
  Sizes <- MCSizes
  Steps <- MCSteps
  Points <- MCPoints
  Chrome = 10
INVARIANTS
  LastInTextWins
  EveryWordDrawnOnce
  EachImageItsOwn
  ClicksLandOnWhatIsSeen
 
CHECK_DEADLOCK FALSE
