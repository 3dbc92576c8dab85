\* One entry from its evaluations to its orders: an account that takes two states, a change of
\* the limit that a crash leaves unconfirmed, two decisions with a request each, and room at the
\* broker for an order too many.
SPECIFICATION SystemSpec
CONSTANTS
    Brokers = {"kite"}
    NoBroker = "none"
    Symbols = {"nifty"}
    Intents = {"entry"}
    Limits = {1}
    NoLimit = NoLimit
    MaxSnapshots = 2
    MaxProfiles = 2
    MaxChanges = 1
    MaxDecisions = 2
    OrderIds = {o1, o2}
    NoRequest = NoRequest
    NoOrder = NoOrder
    Adapters = {"live"}
    Quantity = 1
    MaxTruths = 1
INVARIANTS
    TypeOK
    OneHandoverPerIntent
    NoBlockIsPassedOver
    OneOrderPerEntry
    OrdersFollowAPass
PROPERTIES
    LimitInForceIsKept
    PermittedWhenItLeaves
    BurnIsForGood
    OutdatedIsForGood
CONSTRAINT OrdersWorkOrFill
SYMMETRY OrderSymmetry
