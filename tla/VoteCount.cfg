CONSTANTS
  Mbufs = {m1, m2, m3, m4, m5, m6}
  RxRings = 2
  TxRings = 1
  BURST_SIZE = 2
  RX_RING_SIZE = 2
  ByteBase = 4
  Frames <- SenderFrames
  CounterMod = 4
SPECIFICATION Spec
SYMMETRY Symmetry
INVARIANTS
  VoteTypeOK
  RxOwnership
  EveryPacketCounted
  SenderVotesInCellZero
  SenderNeverOverflows
