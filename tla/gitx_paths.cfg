SPECIFICATION Spec
CONSTANTS
    main = main
    ws = ws
    p = p
    q = q
    x = x
    a1 = a1
    a2 = a2
    None = None
    Branch = {main, ws}
    Default = main
    Protected = {main}
    Claimed = {ws}
    Path = {p, q}
    Content = {x}
    Actor = {a1}
    Serves <- OneServer
    MaxCommits = 3
    Faults = {}
PROPERTIES UndisturbedKeepsDrafts
SYMMETRY Symmetry
