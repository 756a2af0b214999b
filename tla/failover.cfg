SPECIFICATION FairSpec
CONSTANTS
    Peers = {p1}
    Groups = {g1}
    Users = {u1}
    Timeout = 1
    MaxRestarts = 2
INVARIANTS TypeOK AnnouncedAtMostOnce
PROPERTIES   MembersFindTheirHub IsolationIsNoticed
