CONSTANTS
  Sizes <- MostSizes
  Tables <- MCTables
  Blocks <- MCBlocks
  Full = 127
  Half = 50
SPECIFICATION Spec
INVARIANTS ForwardIsDct CoefficientsEncodable
PROPERTY RecodingKeepsPicture
CHECK_DEADLOCK FALSE
