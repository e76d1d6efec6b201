CONSTANTS
    low = low  high = high
    Nodes = {low, high}
    Seeds <- MCSeeds
    Priority <- MCEqual
    MaxEvents = 2
    MaxTerm = 6
SPECIFICATION Spec
INVARIANTS ReplicasAreMembers AtMostOneLeads
PROPERTIES TermsNeverGoBack SettlesOnOneLeader
CHECK_DEADLOCK FALSE
