CONSTANTS
    Formats = {1, 2, 3}
    Procs = {p1, p2}
    Names = {"A", "B"}
    Prints = {h1}
    Mounted <- MCMounted
    NoPrint = NoPrint
    f1 = f1
    MaxCommands = 2
SPECIFICATION RegSpec
SYMMETRY SameProcs

    
PROPERTIES
    PolicyUpdatesBuildOnCurrent
CHECK_DEADLOCK FALSE
