CONSTANTS
  Mbufs = {m1, m2, m3}
  Lcores = {0, 1, 2}
  MainLcore = 1
  CacheSize = 2
  RxRings = 3
  TxRings = 3
  BURST_SIZE = 1
  RX_RING_SIZE = 0
  TX_RING_SIZE = 1
  TxFreeThresh = 1
  MAX_CORES = 3
  CounterMod = 1
SPECIFICATION FairSpec
PROPERTIES
  MainFailureEndsProcess
  RefusedBurstRecovers
