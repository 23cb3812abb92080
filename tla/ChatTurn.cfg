\* Two turns, in one conversation or two, with a new process in between or meanwhile.
SPECIFICATION Spec
CONSTANTS
    Turns = {t1, t2}
    Conversations = {"c1", "c2"}
    Limit = 3
    MaxCalls = 2
    MaxBoots = 1
INVARIANTS TypeOK CallsAnswered DoneIsKept ModelCallsBounded
PROPERTIES EveryTurnEnds
CHECK_DEADLOCK FALSE
