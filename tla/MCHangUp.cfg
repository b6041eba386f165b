SPECIFICATION Spec
CONSTANTS
    r1 = r1
    r2 = r2
    a = a
    b = b
    p1 = p1
    p2 = p2
    Names <- MCTwoNames
    Absent = Absent
    MaxFaults = 0
    Requests = {r1}
    Instances = {a}
    Versions = {1, 2}
    Manifest <- MCSameNames
    Catalog <- MCCatalog
    StartNames = {1, 2}
    Ops = {"install", "update"}
    PlanIds = {p1}
    NoPlan = NoPlan
    NoRecord = NoRecord
    Admin = Admin
    MaxEdits = 0
    MaxCrashes = 0
    ClientsHangUp = TRUE
    AdminMayRace = FALSE
INVARIANT CancelledUpdateRestoresService
