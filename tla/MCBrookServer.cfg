SPECIFICATION FairSpec
CONSTANT MaxOpened = 3
INVARIANTS NothingHeld FreedByClose
PROPERTIES ClassifiedRight Decided StopEnds
