CONSTANTS
  Mbufs = {m1, m2, m3, m4, m5}
  RxRings = 1
  TxRings = 1
  BURST_SIZE = 2
  RX_RING_SIZE = 3
  MaxFrames = 6
  HeapCells = 5
SPECIFICATION FairSpec
INVARIANTS
  RxOwnership
  InOrder
PROPERTIES
  EveryFramePrinted
  LeakIsFatal
