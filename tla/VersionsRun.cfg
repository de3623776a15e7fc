SPECIFICATION Spec
CONSTANTS
    Workers = {ann, bob}
    MaxVersions = 2
    PerSecond = 2
    MaxTime = 2
    MaxRequests = 3
    MaxFaults = 1
    Missing = Missing  Torn = Torn
    NoOne = NoOne  NoFile = NoFile
CHECK_DEADLOCK FALSE
SYMMETRY Alike
CONSTRAINT NoRace
INVARIANTS TypeOK OfferedIsThere NewestIsCurrent
