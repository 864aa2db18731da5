\* Two requests on one cluster with two paths; every failure is possible.
CONSTANTS
    Clusters = {c1}
    Paths = {p1, p2}
    Vals = {v1, v2}
    Reqs = {r1, r2}
    NoReq = NoReq
    NoFile = NoFile
    MaxWrites = 2
    MaxKeys = 2
    MaxCas = 1
    Faults = TRUE
SPECIFICATION Spec
SYMMETRY Symmetry
INVARIANTS Decryptable SealedAgainstCurrent
PROPERTIES VersionIdentifiesValue ImplementsKV
