\* The sweep deletes a staged re-seal between the rename's read and its commit.
SPECIFICATION Spec
CONSTANTS
    Ids = {i1, i2}
    Names = {a, b}
    Versions = {v1}
    Groups = {g}
    Slots = {s1}
    Workloads = {{"upload", "reseal", "rename", "sweep", "enc-v1"}}
    MaxBundles = 2
    MaxStops = 0
    Plain = Plain
    None = None
    Torn = Torn
SYMMETRY Symmetry
CHECK_DEADLOCK FALSE
INVARIANT StagedKept
