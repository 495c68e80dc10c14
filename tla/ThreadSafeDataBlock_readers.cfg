SPECIFICATION FairSpec
CONSTANTS
    Readers = {r1, r2}
    Writers = {ping1, ping2}
    read_condition = read_condition
    Nobody = Nobody
    MaxQueue = 4
    DataCount = 1
    Vals = {zero}
    Zero = zero
PROPERTY ReaderServed
