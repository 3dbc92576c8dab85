\* A stop loss and two proposals: a partial exit and the full exit that supersedes it, or a
\* full exit and the one of a reopened position.
SPECIFICATION FairSpec
CONSTANTS
    Rules = {"stop"}
    RuleClass <- MCRuleClass
    Quantities = {0, 1}
    Percents = {}
    MaxProposals = 2
INVARIANTS
    TypeOK
    AuthorityNeverWaits
    ApprovalIsOnRecord
    OneExitPath
PROPERTIES
    AuthorityHolds
    ClosureEndsExits
