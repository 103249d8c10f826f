CONSTANTS
  Mbufs = {m1, m2, m3, m4, m5, m6}
  Lcores = {0, 2}
  MainLcore = 0
  CacheSize = 2
  RxRings = 2
  TxRings = 2
  BURST_SIZE = 2
  RX_RING_SIZE = 1
  TX_RING_SIZE = 2
  TxFreeThresh = 1
  MAX_CORES = 3
  CounterMod = 1
SPECIFICATION Spec
SYMMETRY Symmetry
INVARIANTS
  OneQueuePerLcore
