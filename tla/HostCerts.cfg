SPECIFICATION Spec
CONSTANTS
    Hosts = {h1, h2}
    Slots = {r1, r2}
    StaleCopies = TRUE
    MaxNonce = 2
    MaxSerial = 3
CHECK_DEADLOCK FALSE
INVARIANTS NonceBurnsOnce EnrolledHoldsNewest NeverStranded DeletedCutOff

