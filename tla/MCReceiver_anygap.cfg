CONSTANTS
  RingSize = 3
  SizeMod = 64
  IntMod = 32
  k1 = k1
  k2 = k2
  k3 = k3
  Keys = {k1}
  NoKey = NoKey
  Sessions <- OneSession
  ChannelId = 7
  MaxFecN = 3
  MaxBlockIdx = 4
  MaxGap = 4
  Withheld <- MCWithheld
  LogOpens = {FALSE}
  FecToggles = TRUE
SPECIFICATION Spec
INVARIANTS Genuine AtMostOnce NoSilentSkip
