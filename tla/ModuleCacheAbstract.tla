------------------------ MODULE ModuleCacheAbstract ------------------------
(***************************************************************************)
(* What a module-cache handle promises (spec 4.4): a content-addressed     *)
(* store shared by all handles, and per handle a memory counter that grows *)
(* by exactly the memory each of its own compilations consumed.  Here      *)
(* compile is one atomic step; a duplicated handle starts at zero.         *)
(***************************************************************************)
EXTENDS Naturals

CONSTANTS
    Threads,   \* caller threads, each using its own handle
    Wasms,     \* contract bytecodes; a wasm is its own content hash
    Valid,     \* the wasms that parse
    Cost,      \* Cost[w]: memory bytes one compilation of w consumes
    Root       \* the thread holding the handle made by new()

VARIABLES store, counter, hasHandle

Init ==
    /\ store = {}
    /\ counter = [t \in Threads |-> 0]
    /\ hasHandle = [t \in Threads |-> t = Root]

Compile(t, w) ==
    /\ hasHandle[t]
    /\ store' = IF w \in Valid THEN store \cup {w} ELSE store
    /\ counter' = [counter EXCEPT ![t] = @ + Cost[w]]
    /\ UNCHANGED hasHandle

Evict(t, k) ==
    /\ hasHandle[t]
    /\ store' = store \ {k}
    /\ UNCHANGED <<counter, hasHandle>>

Clear(t) ==
    /\ hasHandle[t]
    /\ store' = {}
    /\ UNCHANGED <<counter, hasHandle>>

Duplicate(t, u) ==
    /\ hasHandle[u] /\ ~hasHandle[t]
    /\ hasHandle' = [hasHandle EXCEPT ![t] = TRUE]
    /\ counter' = [counter EXCEPT ![t] = 0]
    /\ UNCHANGED store

Next ==
    \E t \in Threads :
        \/ \E w \in Wasms : Compile(t, w) \/ Evict(t, w)
        \/ Clear(t)
        \/ \E u \in Threads : Duplicate(t, u)

Spec == Init /\ [][Next]_<<store, counter, hasHandle>>
=============================================================================
