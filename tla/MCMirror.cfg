CONSTANTS
  Capturing = {m1, m2}
  Receiving = {m2, r}
  Radio <- MCRadio
  StraySizes = {0, 7}
  MaxFrames = 2
  SizeMod = 1048576
  ChannelId = 7
SPECIFICATION Spec
INVARIANTS MirrorFaithful NothingWrapped CountersAddUp
