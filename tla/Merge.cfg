\* graph.Merge on every input of at most three nodes and three edges.
SPECIFICATION Spec
CONSTANTS
    MaxNodes = 3
    MaxEdges = 3
    Ids <- MCIds
    Strings <- MCStrings
    Keys = {"replicas", "image"}
    Values = {1, 2}
    Inputs <- MCInputs
INVARIANTS
    LoopInv
    ResultIsMerge
    DetailsKept
CHECK_DEADLOCK FALSE
