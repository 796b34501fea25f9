SPECIFICATION Spec
CONSTANTS
    f1 = f1
    f2 = f2
    d1 = d1
    d2 = d2
    d3 = d3
    a1 = a1
    a2 = a2
    t1 = t1
    t2 = t2
    Fp = {f1, f2}
    Path = {d1, d2}
    DocPath <- TwoDocs
    Kind <- TwoKinds
    Recipe <- Recipes
    DraftKinds = {"new-requirement", "coverage-gap"}
    Before = {f1}
    Requirement = {d1}
    Implicit = {}
    Selected = {t1, t2}
    Catalog = {t1}
    Source = "source"
    Actor = {a1, a2}
    Text = {"t", "u"}
    Protected = TRUE
    None = None
    MaxRuns = 2
    MaxRequests = 2
    MaxEdits = 1
    MaxEvents = 4
    MaxBusy = 2
INVARIANTS FindingInv ReportTracks FiledOnce
PROPERTIES TriageSurvives EditsSurvive RunLogAccumulates
SYMMETRY Symmetry
CHECK_DEADLOCK FALSE
