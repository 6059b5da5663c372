SPECIFICATION FairSpec
CHECK_DEADLOCK FALSE
INVARIANTS
    CancelsWhatItAbandons
PROPERTIES
    CallSettles
