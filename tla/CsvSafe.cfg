SPECIFICATION Spec
CONSTANTS
    ann = ann  bob = bob  cam = cam
    p1 = p1  p2 = p2
    a = a  b = b  rq = rq  rp = rp  rv = rv
    Workers = {ann, bob, cam}
    Processes = {p1, p2}
    Requests = {rq, rp, rv}
    Edits = {a, b}
    AtStart <- MCNone
    Users <- MCUsers
    Kind <- MCKind
    Csv <- MCCsv
    Rule <- MCRule
    Analyst <- MCAnalyst
    Process <- MCProcess
    EditsOf <- MCEditsOf
    Length <- MCLength
    Does <- MCDoesAll
    Action <- MCAction
    Expired <- MCStale
    Original = {}
    Faults <- MCAllFaults
    MaxFaults = 1
    MaxClock = 1
    MaxRequests = 6
    blank = blank  torn = torn
    Blank = {blank}  Torn = {torn}
    NoFile = NoFile  NoOne = NoOne
    NoReq = NoReq  NoView = NoView  NoHash = NoHash
CHECK_DEADLOCK FALSE
CONSTRAINTS NoOverlap FewerRequests
INVARIANTS TypeOK WholeFile
PROPERTIES ReplacesWhatTokenNames ApprovedIsInForce
