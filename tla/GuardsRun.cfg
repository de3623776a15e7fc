SPECIFICATION Spec
CONSTANTS
    ann = ann  bob = bob
    Users = {ann, bob}
    Does <- Everyone
    Workers = {w1, w2}
    Cooldown = 2
    MaxTime = 2
    MaxRequests = 3
    MaxLosses = 1
    MaxFaults = 1
    Missing = Missing  Altered = Altered
    Torn = Torn  NoOne = NoOne
CHECK_DEADLOCK FALSE
SYMMETRY Alike
CONSTRAINT NoRace
INVARIANTS TypeOK CooldownKept FlaggedForCause
PROPERTIES LiftedByAnother
