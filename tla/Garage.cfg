\* Three requests on three bikes: the indexes hold whatever overlaps, and what is
\* documented holds until two requests overlap.
SPECIFICATION Spec
CONSTANTS
    Bikes = {k1, k2, k3}
    Requests = {r1, r2, r3}
    MaxRows = 4
SYMMETRY Threads
INVARIANTS TypeOK IndexesHold CurrentUntilOverlap FailuresOverlap
PROPERTIES NewestPromoted
CHECK_DEADLOCK FALSE
