SPECIFICATION EngineSpec
CONSTANTS
    Parts = {"pipeline"}
    Recipes <- TwoRecipes
    Reply <- Replies
    Remarks <- Matches
    File = {"f", "g"}
    Doc = {"d"}
    MaxCalls = 4
    MaxRuns = 2
    Nothing = Nothing
    Path <- Paths
    First <- AtFirst
    Folder <- Folders
    RefSet <- RefSets
    MaxMoves = 1
    MaxEdits = 1
    Document = {"d"}
    Sketch = {"s"}
    Absent = Absent
    ToolRounds = 1
    ActRounds = 1
    ToolBudget = 2
    Attempts = 2
    MaxBatch = 2
    MaxSaves = 1
    MaxChats = 2
    Char = {"a", "b", "*", "?"}
    Piece <- Pieces
    Name <- SegmentNames
    Pattern <- Patterns
    FilePath <- FilePaths
    Docs = {"a"}
    Words = {"m", "n"}
    Others = {"o"}
    Nowhere = Nowhere
    MaxEvents = 2
INVARIANTS ResumeKeepsMatches
CHECK_DEADLOCK FALSE
