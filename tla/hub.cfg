SPECIFICATION Spec
CONSTANTS
    b = b
    c = c
    post = post
    add = add
    remove = remove
    ban = ban
    unban = unban
    ask = ask
    link = link
    Users = {b, c}
    Messages = {post, ban, unban, link}
    Author <- MCAuthor
    Text <- MCText
    Genuine = {post, ban, link}
    PeerMembers = {b}
    Routers = {r1}
    Egress = egress
    Federation = federation
    NoMessage = NoMessage
    MaxDeliveries = 2
    MaxChanges = 1
    MaxFaults = 1
INVARIANTS TypeOK
PROPERTIES FanOutIsFair AclHolds ModerationIsAuthorised HeldLeavesForAReason
CHECK_DEADLOCK FALSE
