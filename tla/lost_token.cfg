SPECIFICATION Spec
CONSTANTS
    a = a
    b = b
    f = f
    g = g
    n1 = n1
    n2 = n2
    e1 = e1
    Procs = {a}
    Paths = {f}
    Names = {n1, n2}
    Edits = {e1}
    Commands = {"init", "anonymize"}
    MaxOrdinal = 2
    MaxCommands = 2
    MaxPowerLosses = 1
    Absent = Absent
    Corrupt = Corrupt
    None = None
INVARIANT TokensSurvive
