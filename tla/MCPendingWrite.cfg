CONSTANTS
    w1 = w1  w2 = w2
    First = First  None = None  other = other  another = another
    Writers = {w1, w2}
    Outsiders = {other, another}
    MaxFaults = 3
SPECIFICATION FairSpec
INVARIANTS SavedVersionKept NothingTorn
PROPERTIES EveryRequestEnds RegisterSpec
CHECK_DEADLOCK FALSE
