SPECIFICATION Spec
CONSTANTS
    r1 = r1
    r2 = r2
    A = A
    B = B
    x = x
    y = y
    dataPath = dataPath
    webPort = webPort
    LetterV = LetterV
    Dash = Dash
    Junk = Junk
    Nil = Nil
    Components <- MCComponents
    Empty = Empty
    Dot = Dot
    DotDot = DotDot
    LineBreak = LineBreak
    Nul = Nul
    Long = Long
    Decimals <- MCDecimals
    Requests = {r1}
    Planners = {r1}
    Reports <- MCReports
    Size <- MCSize
    Torn <- MCTorn
    Instances = {a}
    AppIds = {x, y}
    Editions <- MCEditions
    Catalogs <- MCCatalogs
    NoApp = NoApp
    Configurations <- MCConfigurations
    Bodies <- MCBodies
    NoRecord = NoRecord
    NoPlan = NoPlan
    a = a
PROPERTY MutationsAreSupported
