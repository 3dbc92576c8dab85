\* Two brokers whose accounts change once.
SPECIFICATION Spec
CONSTANTS
    Brokers = {"kite", "paper"}
    NoBroker = "none"
    Symbols = {"nifty"}
    Intents = {"entry"}
    Limits = {1}
    NoLimit = NoLimit
    MaxSnapshots = 2
    MaxProfiles = 3
    MaxChanges = 1
    MaxDecisions = 2
PROPERTY
    PermissionFollowsBrokerTruth
