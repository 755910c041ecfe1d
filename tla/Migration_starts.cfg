\* Three starts that die and two statements that fail.
SPECIFICATION MSpec
CONSTANTS
    MaxCrash = 3
    MaxFault = 2
INVARIANTS PrefsAreSafe 
PROPERTIES ComesUp
