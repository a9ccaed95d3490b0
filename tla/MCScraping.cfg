\* The script may raise or be done: that is the end of the step.
CHECK_DEADLOCK FALSE
SPECIFICATION ScrSpec
CONSTANTS
  UNDEFINED = UNDEFINED
  Pages <- MCPages
  Columns <- MCColumns
  Internal <- MCInternal
  Texts <- MCTexts
INVARIANTS
  NothingIsLost
  RowsAreAligned
  GridIsFound
