SPECIFICATION FairRingSpec
CONSTANTS
  Slots = {s1, s2}
  Workers = {w1, w2}
  MaxFrames = 4
  NoFrame = NoFrame
INVARIANTS RingInv
PROPERTY ProducerReleased
CHECK_DEADLOCK FALSE
