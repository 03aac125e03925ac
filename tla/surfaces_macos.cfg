SPECIFICATION Spec
CONSTANTS
    i1 = i1
    i2 = i2
    w1 = w1
    w2 = w2
    t1 = t1
    t2 = t2
    Ids = {i1, i2}
    Refs = {w1, w2}
    Tasks = {t1, t2}
    Specs <- MacSpecs
    Platform = "macos"
    NoId = NoId
    NoRef = NoRef
SYMMETRY Symmetry
INVARIANTS TypeOK OneAliveHandlePerWindow ReplaceReportsTruth PreexistingMovedOnlyByForce
PROPERTY DeadIsFinal
