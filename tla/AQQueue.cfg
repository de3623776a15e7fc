SPECIFICATION Spec
CONSTANTS
    e1 = e1
    e2 = e2
    rr = rr
    dd = dd
    ann = ann
    bob = bob
    cam = cam
    dan = dan
    csv = csv
    rule = rule
    NoOne = NoOne
    NoFile = NoFile
    NoSig = NoSig
    NoJob = NoJob
    Workers = {w1, w2}
    Requests <- MCRequestsAll
    Users <- MCUsers
    Kind <- MCKind
    Csv <- MCCsv
    Rule <- MCRule
    Analyst <- MCAnalyst
    Jobs <- MCJobsAll
    Start = "signed"
    AtStart <- MCNone
    MAX_PENDING_REQUESTS = 2
    Faults <- MCNoFaults
    MaxFaults = 0
SYMMETRY WorkerSymmetry
CONSTRAINT AgingBound
INVARIANTS
    TypeOK
    DecidesOnQueue
    AckedIsStored
    ExecutedOnce
    RefusedIsNotDone
PROPERTIES
    ImplementsAtomicQueue
