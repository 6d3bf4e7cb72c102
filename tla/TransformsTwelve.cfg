CONSTANTS
  Sizes <- TwelveAndFourteen
  Tables <- MCTables
  Blocks <- MCBlocks
  Full = 127
  Half = 50
SPECIFICATION Spec
INVARIANT ForwardIsDct
CHECK_DEADLOCK FALSE
