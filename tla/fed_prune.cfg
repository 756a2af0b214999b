SPECIFICATION Spec
CONSTANTS
    a = a
    b = b
    c = c
    g1 = g1
    g2 = g2
    m1 = m1
    m2 = m2
    m3 = m3
    Hubs = {a, b}
    Groups = {g1, g2}
    Messages = {m1, m2}
    Peers <- MCPeers
    Hosts <- MCHosts
    GroupOf <- MCGroupOf
    Time <- MCTime
    SentTo <- MCSentTo
    Depth = 2
    Prefix <- MCPrefix
    MaxNodes = 4
    EpochLength = 2
    Retention = 1
    MaxBuckets = 1
    MaxBatch = 1
    MaxTime = 3
    MaxRounds = 2
    MaxFaults = 1
PROPERTIES PrunedStaysPruned
CHECK_DEADLOCK FALSE
