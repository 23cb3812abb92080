\* Two bikes on two pool threads, one request at a time, every fault, calls that may hang:
\* what is asked of a bike whose calls return is settled, and opened again only when due.
SPECIFICATION FairSpec
CONSTANTS
    b1 = b1
    b2 = b2
    f1 = f1
    f2 = f2
    f3 = f3
    h1 = h1
    h2 = h2
    w1 = w1
    w2 = w2
    Bikes = {b1, b2}
    Facts = {f1, f3}
    BikeOf <- MCBikeOf
    CoreFacts = {f1}
    Seeded = {}
    Handlers = {h1}
    Workers = {w1, w2}
    MaxAttempts = 2
    Backoff <- MCBackoff
    StaleAfter = 1
    KnowledgeCooldown = 1
    ExhaustedCooldown = 1
    ReleaseDelays = {0, 1}
    Outcomes = {"found", "not_released_yet", "not_applicable"}
    Faults = {"crash", "shutdown", "unexpected"}
    MaxFaults = 1
    AttemptCap = 3
    Horizon = 2
INVARIANTS ResultsAreCurrent
PROPERTIES RequestsSettle ReopenedOnlyWhenDue ResearchOnce
