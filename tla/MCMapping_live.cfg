CONSTANTS
    Masters = {1}
    Dests = {plain, lua}
    Bound <- MuxBound
    Kinds = {3}
    Points <- CounterPoints
    Scripted = {lua}
    Modify <- Flip
    Index = {0}
    Values = {0, 1}
    Times = {0}
    Batches <- TwoBatches
    Garbage = garbage
    Free = free
    Station = station
SPECIFICATION FairSpec
INVARIANT Published
PROPERTIES EventuallyPublished CallbackReturns QuitStops
