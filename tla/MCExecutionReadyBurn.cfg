\* Reconciling a request that was never submitted.
SPECIFICATION Spec
CONSTANTS
    Requests = {r1}
    OrderIds = {o1}
    NoRequest = NoRequest
    NoOrder = NoOrder
    Adapters = {"live"}
    Quantity = 2
    MaxTruths = 2
PROPERTIES
    ReadyLeavesOnlyBySubmission
CHECK_DEADLOCK FALSE
