\* The buffer may be refilled and every call made at any time; a state with
\* no successor does not occur, so deadlock is checked.
CONSTANTS
    StackLimit = 3
    OutLimit = 5
    MaxBuf = 4
    Depths = {0, 1, 2, 3}
    U32Width = 3
    Costs = {0, 7, 8, 9}
    CostErr = CostErr
SPECIFICATION Spec
INVARIANTS
    TypeOK
    CanParseEnforcesDepthLimit
