SPECIFICATION FairSpec
CONSTANTS
    cfg = cfg  view = view  log = log
    Plain = {cfg, view}
    Globbed = {view}
    InstanceCfg = cfg
    Log = log
    Generations = 2
    MaxLength = 2
    Outages = {"down", "error", "hangs"}
    Losses = {"fs", "kv", "denied", "write", "crash"}
    MaxChanges = 2
    MaxFaults = 2
    Missing = Missing  Corrupt = Corrupt  Unlisted = Unlisted
CHECK_DEADLOCK FALSE
INVARIANTS TypeOK NoSilentChange NoFalseAlarm
 
