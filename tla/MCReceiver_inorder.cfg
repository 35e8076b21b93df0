CONSTANTS
  RingSize = 3
  SizeMod = 64
  IntMod = 32
  k1 = k1
  k2 = k2
  k3 = k3
  Keys = {k1, k2, k3}
  NoKey = NoKey
  Sessions <- MCSessions
  ChannelId = 7
  MaxFecN = 3
  MaxBlockIdx = 4
  MaxGap = 1
  Withheld <- MCWithheld
  LogOpens = {TRUE, FALSE}
  FecToggles = FALSE
SPECIFICATION FairSpec
INVARIANTS TypeOK SessionCoherent RecoveredInTime OldBlocksForgotten WindowAuthentic BlockAskedFor
PROPERTIES ImplementsDelivery HandlerReturns
