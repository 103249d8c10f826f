CONSTANTS
  Mbufs = {m1, m2, m3, m4}
  RxRings = 2
  TxRings = 1
  BURST_SIZE = 1
  RX_RING_SIZE = 1
  ByteBase = 2
  Frames <- OneFrame
  CounterMod = 1
SPECIFICATION FairSpec
PROPERTIES
  NoQueueStarves
