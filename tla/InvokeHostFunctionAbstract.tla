-------------------- MODULE InvokeHostFunctionAbstract --------------------
(***************************************************************************)
(* What invoke_host_function promises its caller (spec 4.2, 6): each call  *)
(* returns exactly once.  A cost table that does not decode aborts it      *)
(* before anything else is looked at.  Next a network id that is not a     *)
(* 32-byte hash aborts it.  Past both checks the call yields an output, or *)
(* an Err when the host crashed.  An output has no diagnostic events       *)
(* unless the caller enabled them.  Here a call is one atomic step from    *)
(* call to return.                                                         *)
(***************************************************************************)
EXTENDS Naturals, Sequences

CONSTANTS
    CallArgs,                  \* the arguments a caller passes
    InvokeHostFunctionOutput,  \* the outputs a call can produce
    MaxCalls,                  \* calls the caller issues in a behaviour
    NoRet                      \* model value: nothing returned yet

VARIABLES busy, calls, args, ret

\* What the caller may get back from a call with arguments a.
Allowed(a) ==
    CASE ~a.cost_params_ok -> {[tag |-> "Err", why |-> "config"]}
      [] a.network_id_len # 32 -> {[tag |-> "Err", why |-> "ledger_info"]}
      [] OTHER ->
           {[tag |-> "Err", why |-> "panicked"]}
             \cup {r \in [tag : {"Ok"}, out : InvokeHostFunctionOutput] :
                     ~a.enable_diagnostics => r.out.diagnostic_events = <<>>}

Init ==
    /\ busy = FALSE
    /\ calls = 0
    /\ args \in CallArgs
    /\ ret = NoRet

Call(a) ==
    /\ ~busy
    /\ calls < MaxCalls
    /\ busy' = TRUE
    /\ calls' = calls + 1
    /\ args' = a
    /\ ret' = NoRet

\* The return is checked by membership, so TLC never enumerates outputs.
Return ==
    /\ busy
    /\ busy' = FALSE
    /\ ret' \in Allowed(args)
    /\ UNCHANGED <<calls, args>>

Next == (\E a \in CallArgs : Call(a)) \/ Return

\* A call in progress returns: the caller's thread is never lost.  Return
\* is enabled whenever busy holds, so this is weak fairness of Return,
\* stated without the ENABLED that would enumerate every output.
Spec == Init /\ [][Next]_<<busy, calls, args, ret>> /\ (busy ~> ~busy)
=============================================================================
