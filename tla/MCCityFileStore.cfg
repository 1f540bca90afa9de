CONSTANTS
    Cities = {c1, c2}
    Names = {n1, n2}
    Versions = {v1, v2}
    None = None
    Partial = Partial
SPECIFICATION Spec
INVARIANTS
    CommittedComplete
PROPERTIES
    KeepsContract
