SPECIFICATION OrderedFairSpec
CONSTANTS
    i1 = i1
    i2 = i2
    w1 = w1
    w2 = w2
    t1 = t1
    t2 = t2
    Ids = {i1, i2}
    Refs = {w1, w2}
    Tasks = {t1, t2}
    Specs <- WindowsSpecs
    Platform = "windows"
    NoId = NoId
    NoRef = NoRef
INVARIANTS DeadHandleWindowGone 
PROPERTIES RequestsEnd
