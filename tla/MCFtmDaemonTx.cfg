SPECIFICATION Spec
CONSTANTS
  Used <- TxUsed
  Refusable = {"TX_PKT_GEN", "CHANNEL", "TX_POWER"}
  GarbageRates = {0}
  QLen = 1
  MaxRx = 0
INVARIANTS TransmissionAsStaged 
