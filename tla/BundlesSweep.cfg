\* One request at a time against the sweep and a restart.
SPECIFICATION FairSpec
CONSTANTS
    Ids = {i1, i2}
    Names = {a, b}
    Versions = {v1}
    Groups = {g}
    Slots = {s1}
    Workloads = {{"upload", "compose", "reseal", "rename", "delete", "sweep", "plain", "enc-v1"}}
    MaxBundles = 1
    MaxStops = 1
    Plain = Plain
    None = None
    Torn = Torn
CHECK_DEADLOCK FALSE
INVARIANT BytesKept
PROPERTY OrphansSwept
