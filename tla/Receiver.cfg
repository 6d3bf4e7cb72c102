CONSTANTS
  BUFFLEN = 2
  MaxSends = 3
  MaxClients = 2
SPECIFICATION FairSpec
INVARIANTS ReceiverInv ObeyedOnceInOrder IgnoredOnlyAfterSilence
PROPERTY ReconnectServed
CHECK_DEADLOCK FALSE
