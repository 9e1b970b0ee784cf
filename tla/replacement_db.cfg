SPECIFICATION UndisturbedSpec
CONSTANTS
    a = a
    b = b
    f = f
    g = g
    n1 = n1
    n2 = n2
    e1 = e1
    Procs = {a, b}
    Paths = {f, g}
    Names = {n1, n2}
    Edits = {e1}
    Commands = {"init", "force_init", "edit", "anonymize",
                "tool_save", "tool_save_over", "tool_copy", "tool_copy_over"}
    MaxOrdinal = 2
    MaxCommands = 2
    MaxPowerLosses = 1
    Absent = Absent
    Corrupt = Corrupt
    None = None
INVARIANTS EmittedRecoverable SavedVersionVisible
PROPERTIES KeptForGood ImplementsStore CommandsFinish
