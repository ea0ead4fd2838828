\* The caller may stop issuing calls, so a final idle state is not a
\* deadlock; progress inside a call is checked by EveryCallReturns.
CHECK_DEADLOCK FALSE
CONSTANTS
    Protocols <- MCProtocols
    ErrTypes <- MCErrTypes
    ErrCodes <- MCErrCodes
    TtlValues <- MCTtlValues
    MaxChanges = 2
    Charges <- MCCharges
    MaxContractEvents = 1
    MaxCalls = 2
    NetworkIdLens = {31, 32, 33}
    NoTtl = NoTtl
    HostRentFee = HostRentFee
    NoBudget = NoBudget
    NoRes = NoRes
    NoRet = NoRet
    NoError = NoError
SPECIFICATION Spec
INVARIANTS
    TypeOK
    InternalErrorMatchesSpec
    EffectsMatchSpec
    OutputAccountsForCall
    DiagnosticsReportFailure
PROPERTIES
    ImplementsAbstractInvocation
