SPECIFICATION SysSpec
CONSTANTS
  Used <- SafeUsed
  Refusable = {"FTM", "CHANNEL"}
  GarbageRates = {0}
  QLen = 2
  MaxRx = 0
  Fds = {1, 2}
  MaxCtl = 1
  OneShot = FALSE
INVARIANTS SysTypeOK StopTestEndsFtm HoldsOwnSocket 
 
