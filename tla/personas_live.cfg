SPECIFICATION FairSpecTell
CONSTANTS
    Hubs = {h1, h2}
    Devices = {d1, d2}
    Personas = {1, 2}
    Names = {1}
    Roles = {"none"}
    Renaming = TRUE
    MaxCodes = 0
    LastOp = 3
    MaxTime = 5
PROPERTIES MeshComesToRest
