\* Four slots: three elements, and the indices wrap at each of them.
SPECIFICATION FairSpec
CONSTANTS
    Slots = 4
    Values = {v1, v2}
    NoValue = NoValue
    Torn = Torn
INVARIANTS
    SlotNotShared
    NoUnderflow
PROPERTIES
    ElementsAreRead
    ImplementsBoundedFifo
CHECK_DEADLOCK FALSE
