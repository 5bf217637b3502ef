\* One ledger, both pipelines, one rejudgment, two rounds of the advisory.
CONSTANTS
    exec = exec
    conn = conn
    proof = proof
    linked = linked
    guess = guess
    query = query
    clue = clue
    Activities = {exec, conn}
    Timeline = {}
    Registered = {exec}
    Evidence = {proof}
    ActivityOf <- MCActivityOf
    Capability <- MCCapability
    Entities = {}
    Resolved = {linked}
    Candidates = {guess}
    Queries = {query}
    Clues = {clue}
    Threats = {"backdoor_c2", "other"}
    Cites = {{}, {exec, proof}, {conn}, {query}, {clue}}
    Claims = {{}, {linked, guess}}
    ActionCites = {{}, {proof}, {conn}}
    MaxRejudgments = 1
    ParseLimit = 2
    TransportLimit = 2
    MaxRounds = 2
    MaxRepairs = 2
    MaxWrites = 2
SPECIFICATION FairSpec
INVARIANTS
    GroundedIsSupported
    ConfirmedHasFloor
    ApprovalNotSkipped
PROPERTIES
    CaseConcludes
