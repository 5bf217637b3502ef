SPECIFICATION Spec
CONSTANTS
    f = f
    g = g
    inside = inside
INVARIANTS ScoringIsSound CasesAreFaithful GatewayKeepsScope GapsAreVisible RewritesAreLocal
CHECK_DEADLOCK FALSE
