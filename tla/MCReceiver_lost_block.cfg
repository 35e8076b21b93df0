CONSTANTS
  RingSize = 4
  SizeMod = 64
  IntMod = 32
  k1 = k1
  k2 = k2
  k3 = k3
  Keys = {k1, k2, k3}
  NoKey = NoKey
  Sessions <- MCSessions
  ChannelId = 7
  MaxFecN = 3
  MaxBlockIdx = 4
  MaxGap = 2
  Withheld <- MCWithheld
  LogOpens = {FALSE}
  FecToggles = FALSE
SPECIFICATION Spec
INVARIANT CompletedBlockFreed
