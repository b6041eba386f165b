SPECIFICATION Spec
CONSTANTS
    r1 = r1
    r2 = r2
    a = a
    b = b
    p1 = p1
    p2 = p2
    Names <- MCTwoNames
    Absent = Absent
    MaxFaults = 1
    Requests = {r1}
    Instances = {a}
    Versions = {1, 2}
    Manifest <- MCShrinking
    Catalog <- MCCatalog
    StartNames = {2}
    Ops = {"install", "update", "remove"}
    PlanIds = {p1}
    NoPlan = NoPlan
    NoRecord = NoRecord
    Admin = Admin
    MaxEdits = 1
    MaxCrashes = 1
    ClientsHangUp = TRUE
    AdminMayRace = FALSE
INVARIANTS TypeOK RollbackRestores BaselineIsLive UnitsRunTheirFiles DocsFollowRecord
PROPERTIES ForeignUntouched OperationsAreAtomic
