SPECIFICATION Spec
CONSTANTS
  Pages <- MCPages
  Callbacks = {"f"}
  Tags = {"div", "text"}
  Texts <- MCTexts
  Fragments <- MCFragments
  Types = {"click"}
  Scripts = 1
  DrainGuard = 1
  MaxNodes = 9
  Keys = {"k"}
  MaxActions = 2
INVARIANTS AttachedIsTree MirrorsEventDispatcher FlowKept ScreenCurrent SendsWhatIsShown
PROPERTIES TimersInOrder RadioGroupsExclusive ScriptsEnd
CHECK_DEADLOCK FALSE
