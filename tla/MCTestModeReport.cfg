SPECIFICATION Spec
CONSTANTS
    Screens = {"Receive"}
    Bondings = {0}
    MaxChoices = 1
    MaxClicks = 2
    MaxTrouble = 0
PROPERTIES
    ReportGiven
CHECK_DEADLOCK FALSE
