SPECIFICATION Spec
CONSTANTS
    r1 = r1
    r2 = r2
    a = a
    b = b
    p1 = p1
    p2 = p2
    Names <- MCTwoNames
    Absent = Absent
    MaxFaults = 1
    Requests = {r1, r2}
    Instances = {a, b}
    Versions = {1}
    Manifest <- MCOneVersion
    Catalog <- MCCatalog
    StartNames = {2}
    Ops = {"install"}
    PlanIds = {p1, p2}
    NoPlan = NoPlan
    NoRecord = NoRecord
    Admin = Admin
    MaxEdits = 0
    MaxCrashes = 0
    ClientsHangUp = TRUE
    AdminMayRace = FALSE
SYMMETRY InstallSymmetry
INVARIANTS InstallKeepsBaseline OneInstaller
PROPERTY OperationsAreAtomic
