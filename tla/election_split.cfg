CONSTANTS
    low = low  high = high
    Nodes = {low, high}
    Seeds <- MCSeeds
    Priority <- MCPriority
    MaxEvents = 2
    MaxTerm = 6
SPECIFICATION Spec
PROPERTY OneLeaderInTheEnd
CHECK_DEADLOCK FALSE
