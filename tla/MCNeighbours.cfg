SPECIFICATION Spec
CONSTANTS
    r1 = r1
    r2 = r2
    a = a
    b = b
    p1 = p1
    p2 = p2
    Names <- MCTwoNames
    Absent = Absent
    MaxFaults = 1
    Requests = {r1}
    Instances = {a, b}
    Versions = {1}
    Manifest <- MCOneVersion
    Catalog <- MCCatalog
    StartNames = {2}
    Ops = {"install", "update", "remove"}
    PlanIds = {p1}
    NoPlan = NoPlan
    NoRecord = NoRecord
    Admin = Admin
    MaxEdits = 1
    MaxCrashes = 0
    ClientsHangUp = TRUE
    AdminMayRace = FALSE
INVARIANTS BaselineIsLive
PROPERTY ForeignUntouched
