SPECIFICATION FairSpec
CONSTANTS
    Hosts = {h1}
    Slots = {r1, r2}
    StaleCopies = FALSE
    MaxNonce = 1
    MaxSerial = 3
PROPERTY
    OldOnesRetire
CHECK_DEADLOCK FALSE
