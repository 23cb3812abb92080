\* Two requests that replace two columns, add and remove a dream bike, in any overlap.
SPECIFICATION Spec
CONSTANTS
    Columns = {market, style}
    Values = {"eu", "us", "none"}
    Texts = {" eu", "eu", "us", " "}
    Clean <- MCClean
    Payloads <- MCPayloads
    Bikes = {k1}
    Notes = {"none", "red"}
    Requests = {r1, r2}
    NoProfile = NoProfile
    MaxRows = 2
SYMMETRY Threads
INVARIANTS TypeOK FailuresOverlap
PROPERTIES PutReplaces AddIsListed RemovalIsExact
CHECK_DEADLOCK FALSE
