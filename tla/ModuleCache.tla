---------------------------- MODULE ModuleCache ----------------------------
(***************************************************************************)
(* ProtocolSpecificModuleCache of soroban_proto_any.rs: handles that share *)
(* one thread-safe ModuleCache (the host's map from content hash to parsed *)
(* module, behind its own lock) and that each own an AtomicU64 counting    *)
(* the memory their compilations consumed.  Each caller thread uses its    *)
(* own handle: the first made by new(), the others by shallow_clone.       *)
(*                                                                         *)
(* compile is two steps of its thread, so other threads' operations        *)
(* interleave between them:                                                *)
(*   CompileParse  a throwaway CoreCompilationContext, then                *)
(*                 parse_and_cache_module_simple (one locked map update)   *)
(*   CompileCount  fetch_add of the context's memory, then Ok(res?)        *)
(* The map itself is host code: its insert, remove and clear follow spec   *)
(* 4.4 (insert or replace, silent remove of an absent key).                *)
(***************************************************************************)
EXTENDS Naturals, FiniteSets, Functions

CONSTANTS
    Threads,       \* caller threads, each using its own handle
    Wasms,         \* contract bytecodes; a wasm is its own content hash
    Valid,         \* the wasms that parse
    Cost,          \* Cost[w]: memory the throwaway budget records compiling w
    Root,          \* the thread holding the handle made by new()
    MaxAttempted,  \* bound on the memory of all compilations in a behaviour
    NoWasm         \* model value: no compilation in progress

ASSUME /\ Root \in Threads /\ Valid \subseteq Wasms
       /\ Cost \in [Wasms -> Nat]

VARIABLES
    store,      \* keys of the shared ModuleCache map
    counter,    \* counter[t]: mem_bytes_consumed of t's handle
    hasHandle,  \* hasHandle[t]: t holds a handle
    tpc,        \* tpc[t]: "idle", or "counting" between the two compile steps
    pending,    \* pending[t]: the wasm t is compiling
    ctxMem,     \* ctxMem[t]: get_mem_bytes_consumed of the unlimited budget
                \* of t's CoreCompilationContext (0 when t is not compiling)
    result,     \* result[t]: what t's last compile returned
    attempted   \* history: memory of all compilations that ran, summed

vars == <<store, counter, hasHandle, tpc, pending, ctxMem, result, attempted>>

Init ==
    /\ store = {}
    /\ counter = [t \in Threads |-> 0]
    /\ hasHandle = [t \in Threads |-> t = Root]
    /\ tpc = [t \in Threads |-> "idle"]
    /\ pending = [t \in Threads |-> NoWasm]
    /\ ctxMem = [t \in Threads |-> 0]
    /\ result = [t \in Threads |-> "none"]
    /\ attempted = 0

Idle(t) == hasHandle[t] /\ tpc[t] = "idle"

\* Mutant: the entry inserted before the parse is known to succeed.
parse_and_cache_before_parse(s, w) == s \cup {w}

\* parse_and_cache_module_simple under the map's lock: a wasm that parses
\* is inserted (or replaces the entry of the same hash).
parse_and_cache_module_simple(s, w) == IF w \in Valid THEN s \cup {w} ELSE s

\* Mutant: one compilation context shared by the handles of a map, made
\* afresh by each compile: a thread reads the budget of whichever compile
\* started last, not its own.
CompileParseSharedContext(t, w) ==
    /\ Idle(t)
    /\ attempted + Cost[w] <= MaxAttempted
    /\ store' = parse_and_cache_module_simple(store, w)
    /\ tpc' = [tpc EXCEPT ![t] = "counting"]
    /\ pending' = [pending EXCEPT ![t] = w]
    /\ ctxMem' = [u \in Threads |-> Cost[w]]
    /\ attempted' = attempted + Cost[w]
    /\ UNCHANGED <<counter, hasHandle, result>>

\* compile, first step: a throwaway CoreCompilationContext whose unlimited
\* budget starts at zero, and the parse-and-cache through the shared map,
\* charging that budget.
CompileParse(t, w) ==
    /\ Idle(t)
    /\ attempted + Cost[w] <= MaxAttempted
    /\ store' = parse_and_cache_module_simple(store, w)
    /\ tpc' = [tpc EXCEPT ![t] = "counting"]
    /\ pending' = [pending EXCEPT ![t] = w]
    /\ ctxMem' = [ctxMem EXCEPT ![t] = Cost[w]]
    /\ attempted' = attempted + Cost[w]
    /\ UNCHANGED <<counter, hasHandle, result>>

\* Mutant: the parse result checked (res?) before the memory is added, so
\* a failed compilation is not counted.
CompileCountOnlyOk(t) ==
    /\ tpc[t] = "counting"
    /\ counter' = [counter EXCEPT ![t] =
                     IF pending[t] \in Valid THEN @ + ctxMem[t] ELSE @]
    /\ result' = [result EXCEPT ![t] = IF pending[t] \in Valid THEN "Ok" ELSE "Err"]
    /\ tpc' = [tpc EXCEPT ![t] = "idle"]
    /\ pending' = [pending EXCEPT ![t] = NoWasm]
    /\ ctxMem' = [ctxMem EXCEPT ![t] = 0]
    /\ UNCHANGED <<store, hasHandle, attempted>>

\* Mutant: the memory counted on the root handle, the one all handles
\* were cloned from, instead of the compiling thread's own.
CompileCountOnRoot(t) ==
    /\ tpc[t] = "counting"
    /\ counter' = [counter EXCEPT ![Root] = @ + ctxMem[t]]
    /\ result' = [result EXCEPT ![t] = IF pending[t] \in Valid THEN "Ok" ELSE "Err"]
    /\ tpc' = [tpc EXCEPT ![t] = "idle"]
    /\ pending' = [pending EXCEPT ![t] = NoWasm]
    /\ ctxMem' = [ctxMem EXCEPT ![t] = 0]
    /\ UNCHANGED <<store, hasHandle, attempted>>

\* compile, second step: fetch_add of the memory the throwaway budget
\* recorded, whether or not the parse succeeded, then Ok(res?); the
\* context is dropped on return.
CompileCount(t) ==
    /\ tpc[t] = "counting"
    /\ counter' = [counter EXCEPT ![t] = @ + ctxMem[t]]
    /\ result' = [result EXCEPT ![t] = IF pending[t] \in Valid THEN "Ok" ELSE "Err"]
    /\ tpc' = [tpc EXCEPT ![t] = "idle"]
    /\ pending' = [pending EXCEPT ![t] = NoWasm]
    /\ ctxMem' = [ctxMem EXCEPT ![t] = 0]
    /\ UNCHANGED <<store, hasHandle, attempted>>

\* evict: remove_module, its Option result discarded.
Evict(t, k) ==
    /\ Idle(t)
    /\ store' = store \ {k}
    /\ UNCHANGED <<counter, hasHandle, tpc, pending, ctxMem, result, attempted>>

Clear(t) ==
    /\ Idle(t)
    /\ store' = {}
    /\ UNCHANGED <<counter, hasHandle, tpc, pending, ctxMem, result, attempted>>

\* shallow_clone of u's handle, handed to thread t: Self::new() gives a
\* zeroed counter, then the map handle is replaced by a clone of u's, so
\* both share one map.  It borrows u's handle, so u is not compiling.
shallow_clone(t, u) ==
    /\ Idle(u) /\ ~hasHandle[t]
    /\ hasHandle' = [hasHandle EXCEPT ![t] = TRUE]
    /\ counter' = [counter EXCEPT ![t] = 0]
    /\ UNCHANGED <<store, tpc, pending, ctxMem, result, attempted>>

Next ==
    \E t \in Threads :
        \/ \E w \in Wasms : CompileParse(t, w)
        \/ CompileCount(t)
        \/ \E k \in Wasms : Evict(t, k)
        \/ Clear(t)
        \/ \E u \in Threads : shallow_clone(t, u)

Spec == Init /\ [][Next]_vars

-----------------------------------------------------------------------------
TypeOK ==
    /\ store \subseteq Valid
    /\ counter \in [Threads -> Nat]
    /\ hasHandle \in [Threads -> BOOLEAN]
    /\ tpc \in [Threads -> {"idle", "counting"}]
    /\ pending \in [Threads -> Wasms \cup {NoWasm}]
    /\ ctxMem \in [Threads -> Nat]
    /\ result \in [Threads -> {"none", "Ok", "Err"}]
    /\ attempted \in Nat

\* The memory t's compilation has recorded but not yet added to its handle.
InFlight(t) == IF tpc[t] = "counting" THEN ctxMem[t] ELSE 0

\* Spec 4.4 and 5: core adds up the counters of all handles to learn what
\* compilation cost; that sum, plus what compilations in progress have yet
\* to add, is the memory of every compilation that ran, failed ones
\* included: no clone inherits a count, no compilation is counted twice or
\* left out, and a compile overlapping another thread's compile counts
\* its own memory only.  About compile's throwaway context, its fetch_add
\* and the zeroed counter of shallow_clone.
CountersPartitionAttempted ==
    SumFunction(counter) + SumFunction([t \in Threads |-> InFlight(t)]) = attempted

\* The abstract cache, seen through the handles: a compilation in progress
\* already counts on its handle.
Abstract == INSTANCE ModuleCacheAbstract
              WITH counter <- [t \in Threads |-> counter[t] + InFlight(t)]

\* Spec 4.4: the two-step compile, with other threads' operations between
\* its steps, implements the atomic cache where a handle's counter grows by
\* exactly its own compilations' memory.  About compile, evict, clear and
\* shallow_clone together.
ImplementsAbstractCache == Abstract!Spec
=============================================================================
