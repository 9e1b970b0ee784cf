SPECIFICATION Spec
CONSTANTS
    a = a
    b = b
    f = f
    g = g
    n1 = n1
    n2 = n2
    e1 = e1
    Procs = {a, b}
    Paths = {f, g}
    Names = {n1, n2}
    Edits = {e1}
    Commands = {"init", "edit", "tool_copy"}
    MaxOrdinal = 2
    MaxCommands = 3
    MaxPowerLosses = 0
    Absent = Absent
    Corrupt = Corrupt
    None = None
SYMMETRY ClientSymmetry
PROPERTY NoBlindOverwrite
