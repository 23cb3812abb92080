\* Two requests: a garage is left without a current bike.
SPECIFICATION Spec
CONSTANTS
    Bikes = {k1, k2}
    Requests = {r1, r2}
    MaxRows = 3
INVARIANTS OneCurrentPerGarage
