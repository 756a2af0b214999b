SPECIFICATION FairSpec
CONSTANTS
    o = o
    s = s
    g = g
    create = create
    delete = delete
    setacl = setacl
    add = add
    stray = stray
    forged = forged
    Users = {o, s}
    Operators = {o}
    Ids = {g}
    Messages = {create, delete, setacl, add, stray, forged}
    Author <- MCAuthor
    Text <- MCText
    Genuine = {create, delete, setacl, add, stray}
    Routers = {r1}
    Egress = egress
    Shell = shell
    NoMessage = NoMessage
    MaxSent = 1
    MaxTyped = 1
    MaxFaults = 1
INVARIANTS TypeOK
PROPERTIES OnlyOperatorsChange GroupsComeUp CommandsAreAnswered
CHECK_DEADLOCK FALSE
