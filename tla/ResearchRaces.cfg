\* Two requests and a run on two facts of one bike, with every fault: the rows stay
\* coherent, and until a fault no row is left searching and attempts are bounded.
SPECIFICATION Spec
CONSTANTS
    b1 = b1
    b2 = b2
    f1 = f1
    f2 = f2
    f3 = f3
    h1 = h1
    h2 = h2
    w1 = w1
    w2 = w2
    Bikes = {b1}
    Facts = {f1, f2}
    BikeOf <- MCBikeOf
    CoreFacts = {f1}
    Seeded = {}
    Handlers = {h1, h2}
    Workers = {w1, w2}
    MaxAttempts = 2
    Backoff <- MCBackoff
    StaleAfter = 2
    KnowledgeCooldown = 2
    ExhaustedCooldown = 1
    ReleaseDelays = {1}
    Outcomes = {"found", "no_reliable_source", "not_released_yet", "not_applicable"}
    Faults = {"crash", "shutdown", "unexpected"}
    MaxFaults = 1
    AttemptCap = 3
    Horizon = 2
SYMMETRY ThreadSymmetry
INVARIANTS TypeOK RowCoherent SearchingIsOwned TriesBounded OneRunPerBike JobsAreLive
