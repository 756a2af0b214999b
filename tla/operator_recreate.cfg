SPECIFICATION FairSpec
CONSTANTS
    o = o
    s = s
    g = g
    create = create
    delete = delete
    setacl = setacl
    add = add
    stray = stray
    forged = forged
    Users = {o, s}
    Operators = {o}
    Ids = {g}
    Messages = {create, delete}
    Author <- MCAuthor
    Text <- MCText
    Genuine = {create, delete}
    Routers = {r1}
    Egress = egress
    Shell = shell
    NoMessage = NoMessage
    MaxSent = 2
    MaxTyped = 1
    MaxFaults = 0
PROPERTIES CreatedGroupsAnnounce
CHECK_DEADLOCK FALSE
