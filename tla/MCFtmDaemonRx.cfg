SPECIFICATION Spec
CONSTANTS
  Used <- RxUsed
  Refusable = {"FTM", "CHANNEL", "RX", "RX_PKT_CNT"}
  GarbageRates = {0}
  QLen = 1
  MaxRx = 2
INVARIANTS TypeOK RxCountIsFresh
