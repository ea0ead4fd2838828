------------------------ MODULE MCInvokeHostFunction ------------------------
(***************************************************************************)
(* Model-checking instance of InvokeHostFunction.                          *)
(* Protocols 21 and 22 straddle the classification change; two error      *)
(* types and codes give every (type, code) combination the rule tells      *)
(* apart; TTLs 1..2 give increased, equal and decreased TTL changes; two   *)
(* changes give the per-entry ordering of effects; two calls show that a   *)
(* call after a panic starts from a fresh budget and returns.              *)
(***************************************************************************)
EXTENDS InvokeHostFunction

MCProtocols == {21, 22}
MCErrTypes == {"Contract", "Context"}
MCErrCodes == {"InternalError", "InvalidInput"}
MCTtlValues == {1, 2}
\* A call that charged nothing, one whose charges are all VM instantiation,
\* and one with charges both inside and outside VM instantiation.
MCCharges ==
    {[cpu |-> 0, mem |-> 0, vm_cpu |-> 0, nsecs |-> 0, vm_nsecs |-> 0],
     [cpu |-> 1, mem |-> 1, vm_cpu |-> 1, nsecs |-> 1, vm_nsecs |-> 1],
     [cpu |-> 3, mem |-> 2, vm_cpu |-> 1, nsecs |-> 4, vm_nsecs |-> 2]}
=============================================================================
