CONSTANTS
  w1 = w1
  r1 = r1
  Writer <- MCWriter
  Reader <- MCReader
  Capacity = 4
  Modulus = 32
  MaxSamples = 3
  TargetSamples = 2
  Frames <- MCFrames
  MaxFrames = 2
  Needs <- MCNeeds
  MaxCallbacks = 3
SPECIFICATION RingSpec
INVARIANTS  TailStaysBehindHead PlaysInOrder BacklogIsCapped
PROPERTY CallbackReturns
CHECK_DEADLOCK FALSE
