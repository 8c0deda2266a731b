SPECIFICATION FairClass
CONSTANTS
    a = a
    Names = {a}
    MaxClasses = 2
INVARIANTS
    ClassOutlivesMachines
PROPERTIES
    ClassesFinalized
    ClassesBecomeReady
