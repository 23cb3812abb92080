\* A chat turn and another request on two facts of one bike: what the turn reports
\* is so, and it is answered whatever the search does.
SPECIFICATION FairChatSpec
CONSTANTS
    b1 = b1
    f1 = f1
    f2 = f2
    h1 = h1
    h2 = h2
    w1 = w1
    Bikes = {b1}
    Facts = {f1, f2}
    BikeOf <- MCBikeOf
    CoreFacts = {f2}
    Seeded = {}
    Handlers = {h1, h2}
    Chatter = h1
    Workers = {w1}
    MaxAttempts = 2
    Backoff <- MCBackoff
    StaleAfter = 1
    KnowledgeCooldown = 1
    ExhaustedCooldown = 0
    ReleaseDelays = {0}
    Outcomes = {"found"}
    Faults = {}
    MaxFaults = 0
    AttemptCap = 3
    Horizon = 1
INVARIANTS FoundIsStored PendingContinuesAfterWait
PROPERTIES TurnEnds
