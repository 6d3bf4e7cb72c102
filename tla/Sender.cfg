CONSTANTS
  PACKET = 2
  Lens <- MCLens
  LastFrame = 2
  MaxBacklog = 2
  Console = {"s", "r"}
  Interrupts = FALSE
SPECIFICATION FairSpec
INVARIANTS SenderInv PauseWithinOneFrame
PROPERTIES FeedSafety FeedLiveness FramesFlow
CHECK_DEADLOCK FALSE
