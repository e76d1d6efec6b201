CONSTANTS
    low = low  high = high
    Nodes = {low, high}
    Seeds <- MCSeeds
    Priority <- MCPriority
    MaxEvents = 1
    MaxTerm = 6
SPECIFICATION Spec
PROPERTY FailsOver
CHECK_DEADLOCK FALSE
