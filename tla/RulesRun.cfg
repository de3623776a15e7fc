SPECIFICATION Spec
CONSTANTS
    ann = ann  bob = bob
    r1 = r1  r2 = r2  c1 = c1  c2 = c2
    Workers = {ann, bob}
    Rules = {r1, r2}
    Csvs = {c1, c2}
    Mapped <- MCMapped
    Registered <- MCRegistered
    Live <- MCLive
    Trashed <- MCTrashed
    First = 2
    Does <- MCDoesAll
    MaxRules = 2
    MaxPerRule = 2
    TwoAdmins = 3
    MaxRequests = 3
    MaxFaults = 1
    torn = torn  Torn = {torn}
    NoOne = NoOne
CHECK_DEADLOCK FALSE
SYMMETRY Alike
CONSTRAINT NoRace
INVARIANTS TypeOK NothingLost
PROPERTIES Serial
