SPECIFICATION Spec
CONSTANTS
    out = out
    near = near
    shown = shown
    far = far
    scan = scan
    Sources = {1}
    Outcomes = {out}
    Contracts = {near, shown, far}
    Contexts = {scan}
    NoContext = NoContext
    Payloads <- MCPayloads
    Terms <- MCTerms
    clean_contract_symbol <- MCClean
    Snapshots <- MCSnapshots
    Nothing = Nothing
    NoVerdict = NoVerdict
    MaxGap = 1
    MaxTime = 2
    MaxObservations = 2
    MaxEpisodes = 2
    MaxIntents = 2
    MaxReviews = 2
    MaxRuns = 2
INVARIANTS
    TypeOK
    OneActiveEpisode
    OneActiveIntent
    ReadyForRiskIsApproved
    RememberedRowsWereHandled
PROPERTIES
    CurrentEpisodeIsNewest
    ImplementsEntryOutcome
CHECK_DEADLOCK FALSE
