CONSTANTS
  Mbufs = {m1, m2}
  RxRings = 1
  TxRings = 1
  BURST_SIZE = 1
  RX_RING_SIZE = 1
  ByteBase = 4
  Frames <- SignedFrames
  CounterMod = 1
SPECIFICATION Spec
SYMMETRY Symmetry
PROPERTIES
  DamageNeedsNegativeIndex
