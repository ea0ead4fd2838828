CONSTANTS
    Threads = {t1, t2, t3}
    Wasms = {w1, w2, w3}
    Valid = {w1, w2}
    Cost <- MCCost
    Root = t1
    MaxAttempted = 6
    NoWasm = NoWasm
SPECIFICATION Spec
INVARIANTS
    TypeOK
    CountersPartitionAttempted
PROPERTIES
    ImplementsAbstractCache
