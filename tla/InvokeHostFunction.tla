------------------------- MODULE InvokeHostFunction -------------------------
(***************************************************************************)
(* The invocation orchestrator of soroban_proto_any.rs: invoke_host_function *)
(* (the fault barrier, catch_unwind) around                                *)
(* invoke_host_function_or_maybe_panic, run by one caller thread for a     *)
(* sequence of calls.  One call is four steps, one per block of the code:  *)
(*   Begin        the caller passes its arguments                          *)
(*   BuildBudget  Budget::try_from_configs over the decoded cost tables    *)
(*   InvokeHost   the host call, timed; a panic is caught by the barrier   *)
(*   Complete     metrics, then the success or the failure output          *)
(* The host (soroban_env_host) is external: its outcome, its budget        *)
(* charges, its diagnostic events and its ledger changes are chosen        *)
(* nondeterministically from the values the host can return.               *)
(***************************************************************************)
EXTENDS Integers, Sequences, SequencesExt, LedgerEffects

CONSTANTS
    Protocols,          \* ledger protocol versions (ledger_info.protocol_version)
    ErrTypes,           \* ScErrorType values the host may report
    ErrCodes,           \* ScErrorCode values the host may report
    Charges,            \* the budget charges and durations one host call may have
    MaxContractEvents,  \* most contract events one successful call emits
    MaxCalls,           \* calls the caller issues in a behaviour
    NetworkIdLens,      \* byte lengths of the network_id buffer the caller passes
    HostRentFee,        \* model value: host_compute_rent_fee of the changes
    NoBudget, NoRes, NoRet, NoError  \* model values: "nothing here"

VARIABLES
    pc,                 \* where the caller thread is in the current call
    calls,              \* number of calls begun
    args,               \* the current call's arguments
    budget,             \* the call's Budget, NoBudget outside a call
    diagnostic_events,  \* the call's diagnostic event accumulator
    time_nsecs,         \* wall time measured around the host call
    res,                \* what the host returned (or that it panicked)
    ret                 \* what invoke_host_function returned to the caller

vars == <<pc, calls, args, budget, diagnostic_events, time_nsecs, res, ret>>

-----------------------------------------------------------------------------
HostError == [type : ErrTypes, code : ErrCodes]

\* The arguments that decide the control flow of a call.  The cost tables
\* and the network id are caller buffers that may fail to convert.
CallArgs ==
    [enable_diagnostics : BOOLEAN, protocol_version : Protocols,
     cost_params_ok : BOOLEAN, network_id_len : NetworkIdLens]

\* What the host charges to the budget during one call, and how long it
\* takes; VM instantiation is a part of the total in both.
Consumption ==
    {u \in [cpu : Nat, mem : Nat, vm_cpu : Nat, nsecs : Nat, vm_nsecs : Nat] :
        u.vm_cpu <= u.cpu /\ u.vm_nsecs <= u.nsecs}

ASSUME /\ "Contract" \in ErrTypes /\ "InternalError" \in ErrCodes
       /\ Charges \subseteq Consumption

\* Outcomes of invoke_host_function_with_trace_hook_and_module_cache:
\* Ok with an Ok invoke result, Ok with an Err invoke result, Err, or a panic.
HostOutcome ==
    [kind : {"ok"}, changes : ChangeLists, events : 0..MaxContractEvents, use : Charges]
      \cup [kind : {"fn_err", "host_err"}, error : HostError, use : Charges]
      \cup [kind : {"panic"}]

\* A diagnostic event; encodable is FALSE when its XDR exceeds the 5MB
\* limit of non_metered_xdr_to_vec.
DiagnosticEvent ==
    [source : {"host"}, error : {NoError}, encodable : BOOLEAN]
      \cup [source : {"host_fn_failed"}, error : HostError, encodable : {TRUE}]

\* The host records diagnostic events only when diagnostics are enabled.
HostDiagnostics(enabled) ==
    IF enabled
    THEN {<<>>} \cup {<<[source |-> "host", error |-> NoError, encodable |-> b]>> : b \in BOOLEAN}
    ELSE {<<>>}

BudgetState == [cpu : Nat, mem : Nat, vm_cpu : Nat, vm_nsecs : Nat]

InvokeHostFunctionOutput ==
    [success : BOOLEAN, is_internal_error : BOOLEAN,
     diagnostic_events : Seq(DiagnosticEvent),
     cpu_insns : Nat, mem_bytes : Nat, time_nsecs : Nat,
     cpu_insns_excluding_vm_instantiation : Nat,
     time_nsecs_excluding_vm_instantiation : Nat,
     result_value : {"value", "empty"}, modified_ledger_entries : Seq(LedgerEffect),
     contract_events : Nat, rent_fee : {0, HostRentFee}]

Return == [tag : {"Ok"}, out : InvokeHostFunctionOutput]
            \cup [tag : {"Err"}, why : {"config", "ledger_info", "panicked"}]

-----------------------------------------------------------------------------
SaturatingSub(a, b) == IF a >= b THEN a - b ELSE 0

\* budget.charge, as done by the host for every metered operation.
Charge(b, u) ==
    [cpu |-> b.cpu + u.cpu, mem |-> b.mem + u.mem,
     vm_cpu |-> b.vm_cpu + u.vm_cpu, vm_nsecs |-> b.vm_nsecs + u.vm_nsecs]

\* Only the encodable events survive encode_diagnostic_events.
encode_diagnostic_events(evs) == SelectSeq(evs, LAMBDA e : e.encodable)

\* Mutant: the protocol boundary off by one (<= 22 for < 22).
is_internal_error_through_22(protocol_version, err) ==
    IF protocol_version <= 22
    THEN err.code = "InternalError"
    ELSE err.code = "InternalError" /\ err.type # "Contract"

\* The classification of a failure as an internal error.
is_internal_error(protocol_version, err) ==
    IF protocol_version < 22
    THEN err.code = "InternalError"
    ELSE err.code = "InternalError" /\ err.type # "Contract"

\* The diagnostic event recording a failed call (topic "host_fn_failed").
HostFnFailedEvent(err) == [source |-> "host_fn_failed", error |-> err, encodable |-> TRUE]

\* Mutant: the operands of the saturating subtractions swapped.
MetricsSwappedSub(b, t) ==
    [cpu_insns |-> b.cpu, mem_bytes |-> b.mem, time_nsecs |-> t,
     cpu_insns_excluding_vm_instantiation |-> SaturatingSub(b.vm_cpu, b.cpu),
     time_nsecs_excluding_vm_instantiation |-> SaturatingSub(b.vm_nsecs, t)]

\* Mutant: swapped operands without saturation.
MetricsSwappedPlainSub(b, t) ==
    [cpu_insns |-> b.cpu, mem_bytes |-> b.mem, time_nsecs |-> t,
     cpu_insns_excluding_vm_instantiation |-> b.vm_cpu - b.cpu,
     time_nsecs_excluding_vm_instantiation |-> b.vm_nsecs - t]

\* The metric fields every output carries, read from the budget.
Metrics(b, t) ==
    [cpu_insns |-> b.cpu, mem_bytes |-> b.mem, time_nsecs |-> t,
     cpu_insns_excluding_vm_instantiation |-> SaturatingSub(b.cpu, b.vm_cpu),
     time_nsecs_excluding_vm_instantiation |-> SaturatingSub(t, b.vm_nsecs)]

SuccessOutput(b, t, evs, r) ==
    [success |-> TRUE, is_internal_error |-> FALSE,
     diagnostic_events |-> encode_diagnostic_events(evs),
     result_value |-> "value",
     modified_ledger_entries |-> extract_ledger_effects(r.changes),
     contract_events |-> r.events, rent_fee |-> HostRentFee] @@ Metrics(b, t)

FailureOutput(b, t, evs, internal) ==
    [success |-> FALSE, is_internal_error |-> internal,
     diagnostic_events |-> encode_diagnostic_events(evs),
     result_value |-> "empty", modified_ledger_entries |-> <<>>,
     contract_events |-> 0, rent_fee |-> 0] @@ Metrics(b, t)

\* TryFrom<&CxxLedgerInfo> for LedgerInfo: every field is copied, and the
\* network id's Vec<u8> converts to a [u8; 32] only when it has 32 bytes;
\* otherwise the conversion is Err("network ID has wrong size").
LedgerInfoConverts(a) == a.network_id_len = 32

\* Leave the call, handing r back to the caller; the budget is dropped.
Finish(r) ==
    /\ ret' = r
    /\ budget' = NoBudget
    /\ pc' = "Idle"

-----------------------------------------------------------------------------
Init ==
    /\ pc = "Idle"
    /\ calls = 0
    /\ args = [enable_diagnostics |-> FALSE, protocol_version |-> CHOOSE p \in Protocols : TRUE,
               cost_params_ok |-> TRUE, network_id_len |-> 32]
    /\ budget = NoBudget
    /\ diagnostic_events = <<>>
    /\ time_nsecs = 0
    /\ res = NoRes
    /\ ret = NoRet

\* The caller calls invoke_host_function with arguments a.
Begin(a) ==
    /\ pc = "Idle"
    /\ calls < MaxCalls
    /\ pc' = "BuildBudget"
    /\ calls' = calls + 1
    /\ args' = a
    /\ res' = NoRes
    /\ ret' = NoRet
    /\ UNCHANGED <<budget, diagnostic_events, time_nsecs>>

\* Budget::try_from_configs over the two non-metered cost-table decodes; a
\* table that does not decode returns Err before anything runs.  Then the
\* empty diagnostic event accumulator.
BuildBudget ==
    /\ pc = "BuildBudget"
    /\ IF args.cost_params_ok
       THEN /\ budget' = [cpu |-> 0, mem |-> 0, vm_cpu |-> 0, vm_nsecs |-> 0]
            /\ diagnostic_events' = <<>>
            /\ pc' = "InvokeHost"
            /\ UNCHANGED ret
       ELSE /\ Finish([tag |-> "Err", why |-> "config"])
            /\ UNCHANGED diagnostic_events
    /\ UNCHANGED <<calls, args, time_nsecs, res>>

\* Mutant: no fault barrier; a host panic ends the caller's thread.
InvokeHostNoBarrier ==
    /\ pc = "InvokeHost"
    /\ \/ /\ ~LedgerInfoConverts(args)
          /\ Finish([tag |-> "Err", why |-> "ledger_info"])
          /\ UNCHANGED <<diagnostic_events, time_nsecs, res>>
       \/ /\ LedgerInfoConverts(args)
          /\ \E o \in HostOutcome :
               /\ res' = o
               /\ IF o.kind = "panic"
                  THEN /\ pc' = "Dead"
                       /\ UNCHANGED <<budget, ret, diagnostic_events, time_nsecs>>
                  ELSE /\ budget' = Charge(budget, o.use)
                       /\ time_nsecs' = o.use.nsecs
                       /\ \E evs \in HostDiagnostics(args.enable_diagnostics) :
                            diagnostic_events' = evs
                       /\ pc' = "Complete"
                       /\ UNCHANGED ret
    /\ UNCHANGED <<calls, args>>

\* The timed host call.  ledger_info.try_into()? is evaluated among its
\* arguments and returns Err when the network id has the wrong size.  A
\* panic anywhere in the host unwinds to catch_unwind in
\* invoke_host_function, which returns Err("contract host panicked").
InvokeHost ==
    /\ pc = "InvokeHost"
    /\ \/ /\ ~LedgerInfoConverts(args)
          /\ Finish([tag |-> "Err", why |-> "ledger_info"])
          /\ UNCHANGED <<diagnostic_events, time_nsecs, res>>
       \/ /\ LedgerInfoConverts(args)
          /\ \E o \in HostOutcome :
               /\ res' = o
               /\ IF o.kind = "panic"
                  THEN /\ Finish([tag |-> "Err", why |-> "panicked"])
                       /\ UNCHANGED <<diagnostic_events, time_nsecs>>
                  ELSE /\ budget' = Charge(budget, o.use)
                       /\ time_nsecs' = o.use.nsecs
                       /\ \E evs \in HostDiagnostics(args.enable_diagnostics) :
                            diagnostic_events' = evs
                       /\ pc' = "Complete"
                       /\ UNCHANGED ret
    /\ UNCHANGED <<calls, args>>

\* Ok(res) with an Ok invoke result: rent fee, ledger effects, success output.
CompleteSuccess ==
    /\ pc = "Complete"
    /\ res.kind = "ok"
    /\ Finish([tag |-> "Ok",
               out |-> SuccessOutput(budget, time_nsecs, diagnostic_events, res)])
    /\ UNCHANGED <<calls, args, diagnostic_events, time_nsecs, res>>

\* Mutant: the host_fn_failed event pushed whether or not diagnostics are on.
CompleteFailureUnconditionalEvent ==
    /\ pc = "Complete"
    /\ res.kind \in {"fn_err", "host_err"}
    /\ LET evs == Append(diagnostic_events, HostFnFailedEvent(res.error))
       IN /\ diagnostic_events' = evs
          /\ Finish([tag |-> "Ok",
                     out |-> FailureOutput(budget, time_nsecs, evs,
                               is_internal_error(args.protocol_version, res.error))])
    /\ UNCHANGED <<calls, args, time_nsecs, res>>

\* Any host error: the host_fn_failed diagnostic event when diagnostics are
\* enabled, the protocol-dependent internal-error classification, and the
\* failure output carrying the metrics collected so far.
CompleteFailure ==
    /\ pc = "Complete"
    /\ res.kind \in {"fn_err", "host_err"}
    /\ LET evs == IF args.enable_diagnostics
                  THEN Append(diagnostic_events, HostFnFailedEvent(res.error))
                  ELSE diagnostic_events
       IN /\ diagnostic_events' = evs
          /\ Finish([tag |-> "Ok",
                     out |-> FailureOutput(budget, time_nsecs, evs,
                               is_internal_error(args.protocol_version, res.error))])
    /\ UNCHANGED <<calls, args, time_nsecs, res>>

Next ==
    \/ \E a \in CallArgs : Begin(a)
    \/ BuildBudget
    \/ InvokeHost
    \/ CompleteSuccess
    \/ CompleteFailure

\* The orchestrator runs synchronously on the caller's thread and the host
\* stops at the instruction limit, so a started call keeps making progress;
\* the caller itself is under no obligation to call again.
Fairness ==
    /\ WF_vars(BuildBudget)
    /\ WF_vars(InvokeHost)
    /\ WF_vars(CompleteSuccess)
    /\ WF_vars(CompleteFailure)

Spec == Init /\ [][Next]_vars /\ Fairness

-----------------------------------------------------------------------------
TypeOK ==
    /\ pc \in {"Idle", "BuildBudget", "InvokeHost", "Complete", "Dead"}
    /\ calls \in 0..MaxCalls
    /\ args \in CallArgs
    /\ budget \in BudgetState \cup {NoBudget}
    /\ diagnostic_events \in Seq(DiagnosticEvent)
    /\ time_nsecs \in Nat
    /\ res \in HostOutcome \cup {NoRes}
    /\ ret \in Return \cup {NoRet}

\* The call's output, once the caller has it.
Returned == pc = "Idle" /\ ret # NoRet /\ ret.tag = "Ok"
Out == ret.out

-----------------------------------------------------------------------------
(***************************************************************************)
(* Properties                                                              *)
(***************************************************************************)

\* Spec 4.2: a failure is internal iff its code is InternalError and, from
\* protocol 22 on, its type is not Contract; a success is never internal.
\* About the classification at the end of invoke_host_function_or_maybe_panic
\* evaluated against the protocol of the call that failed.
InternalErrorMatchesSpec ==
    Returned =>
      Out.is_internal_error =
        /\ ~Out.success
        /\ res.error.code = "InternalError"
        /\ (args.protocol_version >= 22 => res.error.type # "Contract")

\* Spec 4.6: a successful call hands back each written entry's new value and
\* one TTL record per strictly extended TTL, nothing else, grouped per entry.
\* About extract_ledger_effects on the changes the host returned.
EffectsMatchSpec ==
    Returned /\ Out.success =>
      MatchesSpecEffects(res.changes, Out.modified_ledger_entries)

\* Spec 3 and 7: every output carries the CPU, memory and time this call
\* consumed, with the VM instantiation share subtracted in the "excluding"
\* fields, on the failure path as on the success path; a failed call hands
\* back no result, effects, events or rent fee.  About the metric reads after
\* the host call and the two output constructors.
OutputAccountsForCall ==
    Returned =>
      /\ Out.cpu_insns = res.use.cpu
      /\ Out.mem_bytes = res.use.mem
      /\ Out.time_nsecs = res.use.nsecs
      /\ Out.cpu_insns_excluding_vm_instantiation + res.use.vm_cpu = res.use.cpu
      /\ Out.time_nsecs_excluding_vm_instantiation + res.use.vm_nsecs = res.use.nsecs
      /\ ~Out.success =>
           /\ Out.result_value = "empty"
           /\ Out.modified_ledger_entries = <<>>
           /\ Out.contract_events = 0
           /\ Out.rent_fee = 0

\* Spec 4.2 step 7: with diagnostics enabled a failed call ends its
\* diagnostic events with one host_fn_failed event carrying the error, even
\* when host events were dropped as unencodable; with diagnostics disabled
\* the output has no diagnostic events at all, and a success has no
\* host_fn_failed event.  About the diagnostics accumulator and its encoding.
DiagnosticsReportFailure ==
    Returned =>
      /\ ~args.enable_diagnostics => Out.diagnostic_events = <<>>
      /\ args.enable_diagnostics /\ ~Out.success =>
           Last(Out.diagnostic_events) = HostFnFailedEvent(res.error)
      /\ \A i \in DOMAIN Out.diagnostic_events :
           Out.diagnostic_events[i].source = "host_fn_failed" =>
             ~Out.success /\ i = Len(Out.diagnostic_events)

\* The abstract call, seen through the caller: busy while a call is open.
Abstract == INSTANCE InvokeHostFunctionAbstract WITH busy <- pc # "Idle"

\* Spec 4.2, 5, 6 and 8: the four-step call implements the atomic one:
\* every call returns exactly once, a host panic included, so the caller's
\* thread can make the next call; an undecodable cost table is reported
\* before a malformed network id, and neither reaches the host; an output
\* carries diagnostic events only when the caller enabled them.  About the
\* order of the early returns in invoke_host_function_or_maybe_panic and
\* catch_unwind in invoke_host_function.
ImplementsAbstractInvocation == Abstract!Spec

\* Spec 4.2 and 7: every call that reached execution yields an
\* InvocationOutput (success = FALSE on failure) with its metrics; only
\* malformed required inputs abort with no output.  About what
\* invoke_host_function returns when the host panics.
SpecExecutedCallYieldsOutput ==
    (pc = "Idle" /\ res # NoRes) => ret.tag = "Ok"
=============================================================================
