SPECIFICATION Spec
CONSTANTS
    main = main
    ws = ws
    p = p
    x = x
    y = y
    a1 = a1
    a2 = a2
    None = None
    Branch = {main, ws}
    Default = main
    Protected = {main}
    Claimed = {ws, main}
    Path = {p}
    Content = {x, y}
    Actor = {a1}
    Serves <- OneServer
    MaxCommits = 3
    Faults = {"crash", "reset"}
SYMMETRY Symmetry
INVARIANTS WorktreeFollowsHead
PROPERTIES UndisturbedKeepsCommits ProtectedMovesBySwap
