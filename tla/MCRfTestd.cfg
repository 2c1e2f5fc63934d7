SPECIFICATION FairSpec
CONSTANTS
  c1 = c1
  c2 = c2
  c3 = c3
  none = none
  Clients = {c1, c2, c3}
  NoClient = none
  Outputs <- Scripts
  Backlog = 1
  MaxKill = 1
INVARIANTS TypeOK OneTestAtATime OverWhenShown 
PROPERTY ClientReturns
CHECK_DEADLOCK FALSE
