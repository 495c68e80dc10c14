CONSTANTS
    Masters = {1}
    Dests = {mux}
    Bound <- MuxBound
    Kinds = {1}
    Points <- ShiftedPoints
    Scripted = {}
    Modify <- Flip
    Index = {0, 1}
    Values = {0, 1}
    Times = {0, 1}
    Batches <- MuxBatches
    Garbage = garbage
    Free = free
    Station = station
SPECIFICATION Spec
INVARIANT NoGarbage
