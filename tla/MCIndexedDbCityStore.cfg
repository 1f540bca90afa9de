CONSTANTS
    Tabs = {t1, t2}
    Cities = {c1}
    Names = {n1, n2}
    Versions = {v1, v2}
    None = None
SPECIFICATION Spec
PROPERTIES
    KeepsContract
