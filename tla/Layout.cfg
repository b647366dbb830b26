\* Every graph of up to four nodes and four edges; ids past n are missing ends.
SPECIFICATION Spec
CONSTANTS
    MaxId = 4
    NodeCounts = {0, 1, 2, 3, 4}
    MaxEdges = 4
    EdgeLists <- AllEdgeLists
INVARIANTS
    TypeOK
    PlacedApart
    ColumnsFollowEdges
    ColumnsAreLongestPaths
