SPECIFICATION Spec
CONSTANTS
    e1 = e1
    e2 = e2
    u1 = u1
    n1 = n1
    c1 = c1
    m1 = m1
    Rows = {e1, c1}
    Kind <- MCKind
    GroupRows <- MCGroupRows
    Messages = {m1}
    MsgOf <- MCMsgOf
    MaxAttempts = 2
    Burst = 1
    BatchSize = 1
    PromptRelease = TRUE
    MaxRestarts = 1
INVARIANTS TypeOK CopiesAreCharged OneCopyAtATime RowsLeaveForAReason QueuedRowHasMessage
PROPERTIES Promise
CHECK_DEADLOCK FALSE
