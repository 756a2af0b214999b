SPECIFICATION SpecTell
CONSTANTS
    Hubs = {h1, h2}
    Devices = {d1, d2}
    Personas = {1, 2}
    Names = {1}
    Roles = {"member"}
    Renaming = FALSE
    MaxCodes = 1
    LastOp = 3
    MaxTime = 4
SYMMETRY Symmetry
INVARIANTS TypeOK TypeOKTell DevicesResolve SettledNamesGoToTheFirst SettledHubsAgreeOnDevices NoFalseAlarm LosersAreTold
PROPERTIES UnlinksStick
