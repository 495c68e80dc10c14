SPECIFICATION FairSpec
CONSTANTS
    Readers = {r1, r2, handler}
    Writers = {handler, ping}
    read_condition = read_condition
    Nobody = Nobody
    MaxQueue = 4
    DataCount = 2
    Vals = {zero, one}
    Zero = zero
INVARIANTS
    TypeOK
    MutualExclusion
    QueueCoversWaiters
PROPERTIES
    RefinesAtomicBlock
    WritersProgress
