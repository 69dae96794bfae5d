CONSTANTS
    Ids = {i1, i2}
    Slugs = {s1, s2}
    KeyShaped = {s2}
    Names = {n1, n2}
    Requests = {q1, q2, q3, q4}
    None = None
    TagsFit = TRUE
SPECIFICATION Spec
SYMMETRY Symmetry
CHECK_DEADLOCK FALSE
INVARIANTS
    TypeOK
    OneProjectPerSlug
    DeleteIsFinal
    ColumnsMatchPack
    LoggedMeansKept
