SPECIFICATION ScreenSpec
CONSTANTS
  Characters <- MCCharacters
  COLS = 2
  BOTTOM = 1
  Texts <- MCTexts
  Behinds <- MCBehinds
  Keys = {"a"}
  MAXPOS = 6
  MAXLINE = 2
CHECK_DEADLOCK FALSE
INVARIANTS
    CursorAgrees
    ScreenShowsText
