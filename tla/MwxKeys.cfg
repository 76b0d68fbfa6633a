SPECIFICATION FairSpec
CONSTANTS
  RingSize = 4
  MaxTx = 2
  MaxRounds = 2
  MaxGtk = 2
  MaxUp = 2
  MaxDown = 2
  Events = {"loss", "noframe", "grouprekey", "deauth", "rekey", "failset", "stop"}
  NoKey = NoKey
INVARIANTS
  TypeOK
  LinkNeedsPairwiseKey
  KeysSettle
PROPERTIES
  PtkGivenOnceUnlessStopped
  HandshakeEnds
CHECK_DEADLOCK FALSE
