\* One broker, one change of the limit.
SPECIFICATION Spec
CONSTANTS
    Brokers = {"kite"}
    NoBroker = "none"
    Symbols = {"nifty"}
    Intents = {"entry"}
    Limits = {1}
    NoLimit = NoLimit
    MaxSnapshots = 2
    MaxProfiles = 3
    MaxChanges = 1
    MaxDecisions = 2
INVARIANT
    StalePermissionIsRenewable
