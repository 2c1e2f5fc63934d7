SPECIFICATION SysSpec
CONSTANTS
  Used <- LiveUsed
  Refusable = {"FTM", "CHANNEL"}
  GarbageRates = {0}
  QLen = 1
  MaxRx = 0
  Fds = {1}
  MaxCtl = 1
  OneShot = TRUE
PROPERTIES CallsReturn StopTestStopsService
