\* One request to either broker through every fault and any number of crashes, with a spare order id for a
\* duplicate order to take.  No symmetry: one property is a liveness property.
SPECIFICATION FairSpec
CONSTANTS
    Requests = {r1}
    OrderIds = {o1, o2}
    NoRequest = NoRequest
    NoOrder = NoOrder
    Adapters = {"live", "simulated"}
    Quantity = 2
    MaxTruths = 3
INVARIANTS
    TypeOK
    AtMostOneOrder
    ExposureIsDurable
    FinalStatusIsBrokerTruth
PROPERTIES
    BrokerTruthNeverRetreats
    ImplementsOrderOutcome
    EveryOutcomeIsReported
\* The system is at rest when every request is final and every order has ended.
CHECK_DEADLOCK FALSE
