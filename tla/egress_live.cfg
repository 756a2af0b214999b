SPECIFICATION FairSpec
CONSTANTS
    e1 = e1
    e2 = e2
    u1 = u1
    n1 = n1
    c1 = c1
    m1 = m1
    Rows = {e1, e2}
    Kind <- MCKind
    GroupRows <- MCGroupRows
    Messages = {m1}
    MsgOf <- MCMsgOf
    MaxAttempts = 1
    Burst = 1
    BatchSize = 1
    PromptRelease = TRUE
    MaxRestarts = 0
PROPERTIES ReachableRowsSettle
CHECK_DEADLOCK FALSE
