SPECIFICATION DSpec
CONSTANTS
  Pages <- MCPages
  Themes <- MCThemes
  Default <- MCDark
  Blank <- MCBlank
  BlankLooking <- MCBlankLooking
  Upper <- MCUpper
  Blanks <- MCBlanks
  Tabs <- MCTabs
  Histories <- MCHistories
  NewWidths <- MCNewWidths
  Buffers <- MCBuffers
  Searches <- MCSearches
  Files <- MCFiles
  Users <- MCUsers
  NameChars <- MCNameChars
  StyledLines <- MCStyledLines
  Bars <- MCBars
CHECK_DEADLOCK FALSE
INVARIANTS ScreenShowsFrame ViewFillsScreen ReflowRoundTrips SearchFindsWhatIsThere ProfilesAreResolved LinesSurvive ActiveTabVisible
