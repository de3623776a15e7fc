SPECIFICATION Spec
CONSTANTS
    a = a  b = b
    blank = blank  x = x
    p = p  q = q  ann = ann
    Columns = {a, b}
    Values = {blank, x}
    Blank = blank
    ExpireColumn = b
    Past = x
    Authors = {p, q, blank, ann}
    analyst = ann
    Tables <- MCTables
    Loaded <- MCLoaded
    Imports <- MCImports
    MAX_DIFF_ROWS = 2
    MAX_ROWS = 4
    MaxNew = 2
    MaxRequests = 1
    Unfit <- MCUnfit
    MaxFaults = 1
CHECK_DEADLOCK FALSE
INVARIANTS TypeOK DiffReconciles
PROPERTIES ReplayedAsAsked FailsForCause ChargedAsAsked
