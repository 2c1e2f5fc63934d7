SPECIFICATION Spec
CONSTANTS
    Screens = {"BG", "Receive", "N", "Wave"}
    Bondings = {0, 1, 5}
    MaxChoices = 2
    MaxClicks = 2
    MaxTrouble = 1
INVARIANTS
    TypeOK
    ScreenTellsFields
    
    
CHECK_DEADLOCK FALSE
PROPERTIES
    ComesToRest
