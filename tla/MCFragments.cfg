SPECIFICATION Spec
CONSTANTS
    Chips = {"BCM43362", "BCM43241", "BCM4339", "MT6630"}
    Countries = {"WW", "ID"}
    Modes = {"b", "n", "a", "ac"}
    MaxTaps = 5
    MaxEarly = 2
    MaxStarts = 1
INVARIANTS TypeOK ScreenTellsFields StopsWhatRuns
PROPERTY Settles
CHECK_DEADLOCK FALSE
