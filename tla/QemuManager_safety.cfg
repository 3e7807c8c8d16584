SPECIFICATION FairSpec
CONSTANTS
  Lines = {l1, l2}
  NoLine = none
  GaLines = {l1}
  MaxPid = 2
  MetaMayFail = TRUE
  CanCrash = TRUE
INVARIANTS
  TypeOK
  AtMostOneQemu
  Recoverable
  StopWaitsForItsQemu
  NoLiveOrphan
PROPERTIES
  LostForGood
  AttachUnlessLost
