\* A turn alone: the budget is spent during a job that does not know of every fact
\* it asked for.
SPECIFICATION ChatSpec
CONSTANTS
    b1 = b1
    f1 = f1
    f2 = f2
    h1 = h1
    h2 = h2
    w1 = w1
    Bikes = {b1}
    Facts = {f1, f2}
    BikeOf <- MCBikeOf
    CoreFacts = {f2}
    Seeded = {}
    Handlers = {h1}
    Chatter = h1
    Workers = {w1}
    MaxAttempts = 1
    Backoff <- MCBackoff
    StaleAfter = 1
    KnowledgeCooldown = 1
    ExhaustedCooldown = 0
    ReleaseDelays = {0}
    Outcomes = {"found"}
    Faults = {}
    MaxFaults = 0
    AttemptCap = 2
    Horizon = 1
INVARIANTS PendingContinues
