SPECIFICATION Spec
CONSTANTS
    ann = ann  bob = bob  cam = cam
    p1 = p1  p2 = p2
    a = a  b = b  rq = rq  rp = rp  rv = rv
    Workers = {ann, bob}
    Processes = {p1, p2}
    Requests = {rq}
    Edits = {a, b}
    AtStart <- MCNone
    Users <- MCUsers
    Kind <- MCKind
    Csv <- MCCsv
    Rule <- MCRule
    Analyst <- MCAnalyst
    Process <- MCProcess
    EditsOf <- MCEditsOf
    Length <- MCLength
    Does <- MCDoesSave
    Action <- MCAction
    Expired <- MCStale
    Original = {}
    Faults <- MCNone
    MaxFaults = 0
    MaxClock = 1
    MaxRequests = 6
    blank = blank  torn = torn
    Blank = {blank}  Torn = {torn}
    NoFile = NoFile  NoOne = NoOne
    NoReq = NoReq  NoView = NoView  NoHash = NoHash
CHECK_DEADLOCK FALSE
PROPERTIES SecondSaveRejected
