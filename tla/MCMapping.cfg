CONSTANTS
    Masters = {1, 2}
    Dests = {mux}
    Bound <- MuxBound
    Kinds = {1}
    Points <- MuxPoints
    Scripted = {}
    Modify <- Flip
    Index = {0, 1, 2}
    Values = {0, 1}
    Times = {0, 1}
    Batches <- MuxBatches
    Garbage = garbage
    Free = free
    Station = station
SPECIFICATION Spec
INVARIANTS TypeOK Published NoGarbage
PROPERTY RefinesPointMirror
