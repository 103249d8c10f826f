CONSTANTS
  Mbufs = {m1, m2, m3, m4, m5}
  Lcores = {0}
  MainLcore = 0
  CacheSize = 2
  RxRings = 1
  TxRings = 1
  BURST_SIZE = 2
  RX_RING_SIZE = 1
  TX_RING_SIZE = 2
  TxFreeThresh = 1
  MAX_CORES = 3
  CounterMod = 1
SPECIFICATION Spec
SYMMETRY Symmetry
INVARIANTS
  NoBurstOnStoppedPort
