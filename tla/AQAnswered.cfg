SPECIFICATION FairSpec
CONSTANTS
    e1 = e1
    e2 = e2
    rr = rr
    dd = dd
    ann = ann
    bob = bob
    cam = cam
    dan = dan
    csv = csv
    rule = rule
    NoOne = NoOne
    NoFile = NoFile
    NoSig = NoSig
    NoJob = NoJob
    Workers = {w1, w2}
    Requests <- MCRequestsTwo
    Users <- MCUsers
    Kind <- MCKind
    Csv <- MCCsv
    Rule <- MCRule
    Analyst <- MCAnalyst
    Jobs <- MCJobsTwo
    Start = "fresh"
    AtStart <- MCNone
    MAX_PENDING_REQUESTS = 2
    Faults <- MCAllFaults
    MaxFaults = 1
CONSTRAINT AgingBound
PROPERTIES
    Answered
