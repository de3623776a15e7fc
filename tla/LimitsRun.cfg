SPECIFICATION Spec
CONSTANTS
    ann = ann  adm = adm  w1 = w1  w2 = w2
    Analysts = {ann}
    Admins = {adm}
    Workers = {w1, w2}
    Does <- MCAll
    DefaultLimits <- MCDefaultLimits
    DefaultAdmin <- MCDefaultAdmin
    Choices <- MCChoices
    AdminChoices <- MCAdminChoices
    MaxChanges = 1
    MaxTracked = 2
    Overflow = Overflow
    DaysPerMonth = 2
    MaxTime = 1
    MaxRequests = 3
    Torn = Torn  None = None  NoOne = NoOne
CHECK_DEADLOCK FALSE
SYMMETRY Alike
CONSTRAINTS NoRace FewFaults
INVARIANTS TypeOK CapKept SettingsKept ChangesCapped
