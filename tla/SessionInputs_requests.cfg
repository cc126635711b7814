SPECIFICATION Spec
CONSTANTS
    Requests = {r1, r2, r3}
    Inputs = {i1, i2}
    Bodies = {b1, b2}
    Appends = {"ok", "refused", "unsure", "torn"}
    MaxFaults = 1
    MaxCloses = 1
    MaxCrashes = 1
    Nil = Nil
SYMMETRY Symmetry
INVARIANTS
    OnceAsAdmitted
    CompletedIsSaved
PROPERTIES
    TerminalIsFinal
