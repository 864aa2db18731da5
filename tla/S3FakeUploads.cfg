\* Two requests at a time, two uploads to one object.
SPECIFICATION Spec
CONSTANTS
    Reqs = {k1, k2}
    NoReq = NoReq
    Objects = {1}
    Values = {a}
    MaxUploads = 2
    MaxPart = 2
    MaxLength = 1
SYMMETRY Symmetry
INVARIANTS
    TypeOK
    TornCanBeStored
PROPERTIES
    ImplementsUploads
    NamedPartsStored
