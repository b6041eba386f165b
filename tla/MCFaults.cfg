SPECIFICATION FairSpec
CONSTANTS
    r1 = r1
    r2 = r2
    a = a
    b = b
    p1 = p1
    p2 = p2
    Names <- MCNames
    Absent = Absent
    MaxFaults = 2
    Requests = {r1}
    Instances = {a}
    Versions = {1, 2}
    Manifest <- MCManifest
    Catalog <- MCCatalog
    StartNames = {2, 3}
    Ops = {"install", "update", "remove", "start", "stop", "restart"}
    PlanIds = {p1}
    NoPlan = NoPlan
    NoRecord = NoRecord
    Admin = Admin
    MaxEdits = 0
    MaxCrashes = 0
    ClientsHangUp = FALSE
    AdminMayRace = FALSE
INVARIANTS SuccessIsFaithful RollbackRestores UnitsRunTheirFiles DocsFollowRecord
PROPERTIES EveryRequestEnds HandlersAdvance
