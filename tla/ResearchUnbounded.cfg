\* Runs that end without a commit: the attempts pass their limit.
SPECIFICATION Spec
CONSTANTS
    b1 = b1
    b2 = b2
    f1 = f1
    f2 = f2
    f3 = f3
    h1 = h1
    h2 = h2
    w1 = w1
    w2 = w2
    Bikes = {b1}
    Facts = {f1}
    BikeOf <- MCBikeOf
    CoreFacts = {f1}
    Seeded = {}
    Handlers = {h1}
    Workers = {w1}
    MaxAttempts = 2
    Backoff <- MCBackoff
    StaleAfter = 2
    KnowledgeCooldown = 2
    ExhaustedCooldown = 1
    ReleaseDelays = {0, 1}
    Outcomes = {"found", "no_reliable_source", "not_released_yet", "not_applicable"}
    Faults = {"unexpected"}
    MaxFaults = 1
    AttemptCap = 3
    Horizon = 2
INVARIANTS AttemptsBounded
