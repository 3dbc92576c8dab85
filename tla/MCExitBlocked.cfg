SPECIFICATION Spec
CONSTANTS
    Rules = {"stop"}
    RuleClass <- MCRuleClass
    Quantities = {0, 1}
    Percents = {}
    MaxProposals = 2
INVARIANTS
    TriggerIsNotBlocked
