SPECIFICATION FairSpec
CONSTANTS
    Items = {a, b}
    Capacity = 3
INVARIANTS RingOrder NoSlotRace
PROPERTIES RefinesFIFO EverythingIsPopped
