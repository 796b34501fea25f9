SPECIFICATION Spec
CONSTANTS
    main = main
    ws = ws
    p = p
    x = x
    a1 = a1
    a2 = a2
    None = None
    Branch = {main, ws}
    Default = main
    Protected = {main}
    Claimed = {ws, main}
    Path = {p}
    Content = {x}
    Actor = {a1, a2}
    Serves <- MergeAndSync
    MaxCommits = 3
    Faults = {}
INVARIANTS KeepIInv
PROPERTIES MergeKeepsTarget
