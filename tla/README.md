# TLA+ models of the Soroban invocation boundary (`soroban_proto_any.rs`)

This directory holds TLA+ models of `src/src/rust/src/soroban_proto_any.rs`.
That file is the boundary between stellar-core and the Soroban contract host.
It is compiled once for each supported host version (p21, p22, …) and
provides three things: the host-function invocation, the fee wrappers, and
the per-protocol module cache.

## Inventory

| Component | Code | State | Operations | Modelled |
|---|---|---|---|---|
| Invocation orchestrator | `invoke_host_function` (l.310-354), `invoke_host_function_or_maybe_panic` (l.391-557) | the call's Budget, the diagnostic-event accumulator, the measured wall time, the host result | build budget, call the host (timed, inside `catch_unwind`), read metrics, build the success output or the failure output | `InvokeHostFunction`, `InvokeHostFunctionAbstract` |
| Ledger effect extractor | `extract_ledger_effects` (l.261-302) | none (pure) | turns the host's change list into encoded entries and synthesised TtlEntries | `LedgerEffects` |
| Module cache | `ProtocolSpecificModuleCache` (l.700-774), `CoreCompilationContext` (l.652-698) | a shared thread-safe map (in the host), and a per-handle `AtomicU64` memory counter | `new`, `compile`, `evict`, `clear`, `contains_module`, `get_mem_bytes_consumed`, `shallow_clone` | `ModuleCache`, `ModuleCacheAbstract` |
| Budget & fee accountant | `compute_transaction_resource_fee`, `compute_rent_fee`, `compute_rent_write_fee_per_1kb`, `contract_code_memory_size_for_rent` (l.591-639) | none | argument conversion, then a call into the host's formulas | partly: `contract_code_memory_size_for_rent` in `XdrBoundary`; the other three only call host formulas that are not in this repository |
| Serialization boundary | `non_metered_xdr_*` (l.136-166), `can_parse_transaction` (l.641-650), the `From` conversions (l.63-103) | none | limited XDR decode and encode | partly: `XdrBoundary` (decode, encode, `can_parse_transaction`, `inplace_modify_cxxbuf_encoded_type`); the `From` conversions only copy numbers |
| Version adapter | `get_soroban_version_info`, `get_xdr_hashes`, `get_max_proto` (l.184-240) | none (compile-time constants) | builds the version report | not modelled: constant metadata (see below) |
| Trace hook, logging | `make_trace_hook_fn`, `log_diagnostic_events`, testutils helpers | a `RefCell<String>` of the previous trace | logging only | not modelled: logging (see below) |

**How the components interact.** The core's C++ code calls
`invoke_host_function` on its own thread, passing a module-cache handle. The
orchestrator builds a fresh Budget and calls the host. It then hands the
host's change list to the extractor and the host's rent changes to the
rent-fee formula. The module cache is the only state shared between
threads. Several C++ threads each hold a handle made with `shallow_clone`:
they compile into one map, and each counts its own memory.

**What is hard here.**
- A panic in the host must be caught at `catch_unwind` (l.325). What the
  barrier returns is an `Err`, not an output.
- The output must be fully filled on every path. The internal-error rule
  changes at protocol 22. Diagnostic events that fail to encode are dropped
  one at a time.
- The extractor must emit TTL records only for a strictly increased TTL, in
  per-entry order.
- `compile` is two steps: a locked map update, then a `fetch_add` on the
  handle's counter. Other threads evict, clear, compile and clone between the
  two steps. The counter must count failed parses too. A clone must start
  at zero.

**Properties that make each component correct.**
- Orchestrator: every call returns. An executed call yields an output with
  its metrics. The failure classification follows spec §4.2. Failure outputs
  are emptied but keep their accounting. The `host_fn_failed` marker is
  present exactly when diagnostics are on.
- Extractor: the output equals the spec's set of effects, in order.
- Cache: the per-handle counters partition the memory of all compilations.
  The two-step compile implements an atomic cache.

## Modules

- `LedgerEffects.tla` covers `extract_ledger_effects`. It is an operator
  over change lists built with `FlattenSeq`, plus a reference definition
  `SpecEffects` taken from spec §4.6. A change keeps only what the loop reads:
  `read_only`, whether `encoded_new_value` is Some, and the optional
  `ttl_change`. The key hash is the change's position.
- `InvokeHostFunction.tla` is one caller thread making up to `MaxCalls`
  calls, with variable `pc` through Begin, BuildBudget, InvokeHost and
  Complete(Success|Failure). Each action is one block of the code (see "map"
  in PROJECT.json).
  - The host is the environment. Its outcome is Ok, Ok with an Err invoke
    result, Err, or a panic. Its budget charges come from `Charges`. It
    emits diagnostic events only when they are enabled, and each event may
    be too large to encode. Its change list comes from
    `LedgerEffects!ChangeLists`.
  - The cost tables are caller buffers that may fail to decode.
    `LedgerInfoConverts` is `TryFrom<&CxxLedgerInfo>`: the network id
    converts only when it has exactly 32 bytes (lengths 31, 32 and 33 are
    tried). These give the two early `Err` returns.
  - `ret` is what the caller gets back.
- `ModuleCache.tla` models the handles of `ProtocolSpecificModuleCache`. The
  state is the shared map `store`, `counter[t]` for each thread's handle, and
  the compile step `tpc[t]`.
  - `compile` is `CompileParse` followed by `CompileCount`. `CompileParse`
    makes a throwaway `CoreCompilationContext`, whose budget starts at zero,
    and does the map update, which charges that budget (`ctxMem[t]`).
    `CompileCount` reads that budget, does the `fetch_add`, then returns
    `Ok(res?)`.
  - The host's map operations follow spec §4.4, since they are host code.
  - `contains_module` and `get_mem_bytes_consumed` only read, so they are
    not actions.
  - One history variable is kept: `attempted`, the memory of every
    compilation that ran.
- `ModuleCacheAbstract.tla` is what a handle promises: compile is atomic,
  and a duplicated handle starts at zero. `ModuleCache` instantiates it
  `WITH counter <- counter + InFlight`, so memory still being counted already
  belongs to its handle. The abstract `Spec` is checked as a property.
- `InvokeHostFunctionAbstract.tla` is what one call promises its caller,
  as one atomic step from call to return. An undecodable cost table gives
  `Err("config")`. Otherwise a malformed network id gives
  `Err("ledger_info")`. Otherwise the call returns an output, or `Err` after
  a host panic. An output has no diagnostic events unless diagnostics were
  enabled. Every call returns (`busy ~> ~busy`, which is weak fairness of
  `Return`: it is enabled whenever a call is open). `InvokeHostFunction`
  instantiates it `WITH busy <- pc # "Idle"`. Its internal steps are
  stutters, and `Finish` is the abstract `Return`.
- `XdrBoundary.tla` covers the byte-level functions. `buf` is the `CxxBuf`
  from the C++ side, and `last` is what the latest call returned.
  - The stellar-xdr codec is a recursive grammar of the envelope's shape. A
    value is a union: arm 0 is a leaf, arm 1 is a counted vector of values.
    `ReadVal` and `ReadVals` are `read_xdr` under `xdr::Limited`. Each value
    takes one depth level, and reading past the end fails. `Encode` and
    `Height` are the writer and the depth a value needs. The crate is not in
    this repository, so these follow its documented behaviour (spec_modelled).
  - `non_metered_xdr_from_cxx_buf` uses depth `MARSHALLING_STACK_LIMIT` and
    the buffer's length, and maps any error to InternalError.
    `non_metered_xdr_to_vec` adds the 5MB limit and maps errors to
    InvalidInput.
  - `can_parse_transaction` uses the caller's depth limit.
  - `InplaceModify` is `inplace_modify_cxxbuf_encoded_type`: decode, the
    test's closure (wrap or unwrap), encode, replace. Each `?` returns early.
    `replace_data_with` is taken to succeed.
  - `ContractCodeMemorySizeForRent` is `contract_code_memory_size_for_rent`.
    The code entry comes from `buf`. The cost tables decode or not. The
    zero-limit budget is built or not. The host's memory cost is a u64 or
    an Err. Then comes the u32 `try_into`.
  - `SpecParses` is a reference parser written from the encoder. It
    enumerates every value that fits in the buffer (`ValsUpTo`).
- `MCInvokeHostFunction.tla` and `MCModuleCache.tla` give the constants for
  TLC.

## Runs

| Run | cfg | Checks | Result |
|---|---|---|---|
| invoke | `MCInvokeHostFunction.cfg` | TypeOK, InternalErrorMatchesSpec, EffectsMatchSpec, OutputAccountsForCall, DiagnosticsReportFailure, ImplementsAbstractInvocation | passes (≈83k states, ~27 s) |
| invoke_panic | `MCInvokeHostFunctionPanic.cfg` | SpecExecutedCallYieldsOutput | violated: a host panic returns `Err` with no output |
| module_cache | `MCModuleCache.cfg` | TypeOK, CountersPartitionAttempted, ImplementsAbstractCache | passes (≈8k states, 2 s) |
| xdr_boundary | `MCXdrBoundary.cfg` | TypeOK, CanParseEnforcesDepthLimit | passes (≈2k states, 1 s) |
| xdr_trailing | `MCXdrBoundaryTrailing.cfg` | SpecCanParseRejectsMalformed | violated: a valid transaction followed by extra bytes is accepted |

**Bounds.**
- Protocols {21, 22} sit on either side of the classification change.
- Error types {Contract, Context} × codes {InternalError, InvalidInput}
  cover every case of the rule.
- TTLs {1, 2} give increased, equal and decreased TTLs. Two changes give the
  per-entry order of effects.
- Three budget charges give none, all-VM, and mixed VM and non-VM usage.
- Two calls show that a call after a panic or an error runs normally.
- For the XDR boundary: every buffer of up to 4 tokens over {0, 1, 2}.
  That covers leaves, empty and two-element vectors, nested vectors,
  truncated values, unknown arms, and values with bytes after them. The
  depth limits 0..3 reach the exact height of every such value and one
  beyond. `MARSHALLING_STACK_LIMIT` is scaled to 3 and the 5MB limit to 5
  tokens, so wrapping a value can exceed either limit. A u32 is scaled to
  3 bits, because TLC's integers cannot hold 2^32. The costs {0, 7, 8, 9}
  are 0, the largest u32, 2^w, and one above it.
- For the cache: three threads (root and two clones), two valid wasms and
  one invalid wasm, different costs, and room for three or more compilations.
  That is enough for a compile to straddle another thread's compile, evict,
  clear or clone.

**Fairness.** Weak fairness is placed only on the orchestrator's in-call
steps. The orchestrator runs synchronously on the caller's thread, and the
host stops at its instruction limit. The caller is never obliged to call
again, so `CHECK_DEADLOCK FALSE` is set: a final idle state is legitimate.
The cache runs check safety only: no property there needs fairness.

**What the passing properties catch.** Each is checked against a mutant
of the code (see "mutants" in PROJECT.json).
- `CountersPartitionAttempted`: the handles' counters, plus what running
  compiles have yet to add, equal the memory of every compilation. It
  catches counting only after `res?` (l.730 against l.736). It also
  catches a compilation context shared between handles, which is what
  the code's comment at l.703-707 rules out. With a shared context, a
  thread reads the budget of a compile that another thread started
  between its parse and its `fetch_add`. Only an interleaving of two
  threads shows that.
- `ImplementsAbstractCache` catches memory counted on the wrong handle.
- `CanParseEnforcesDepthLimit`: an exact encoding within the caller's depth
  limit is accepted, and nothing nested deeper is. It catches the
  internal `MARSHALLING_STACK_LIMIT` used in place of the caller's limit.
  It says nothing about trailing bytes, which the `xdr_trailing` run
  covers.

**Finding.** Spec §4.2, §7 and §8 say a crash-class fault yields an
InvocationOutput with `success = false` and with the metrics consumed so
far. The code (l.343-350) returns `Err("contract host panicked")` instead,
so those metrics never reach the caller.

**Finding.** Spec §4.1 says decoding a malformed buffer fails.
`can_parse_transaction` (l.641-650) calls `TransactionEnvelope::read_xdr`.
That reads one value and never checks that the buffer ends there, so a
valid envelope followed by extra bytes returns `true`. TLC's
counterexample is the buffer `<<0, 0>>`. The C++ caller has already decoded
the envelope with its own parser, so the practical effect depends on that
parser. `read_xdr_to_end` would reject the extra bytes.

**Not checked: compile then contains.** `compile` inserts under the map's
lock, then counts and returns `Ok(res?)` without it (l.723-737). Another
thread's `evict` or `clear` can land in between, so `compile` can return
Ok for a module that is already gone. Spec §9's `compile(hash) ⇒
contains(hash)` describes one caller at a time. With the evict ordered
after the insert, no concurrent cache could keep the module. So there is
no property here the code could fail (see the hazard at l.736).

## Not modelled, and why

- The fee formulas and the wasm memory cost are host code, not present here.
  `compute_transaction_resource_fee`, `compute_rent_fee` and
  `compute_rent_write_fee_per_1kb` do nothing but convert arguments and call
  them.
- Whether the memory-cost wrapper charges the zero-limit budget of
  `contract_code_memory_size_for_rent` is host code. The model lets it
  succeed or fail.
- Inside `InvokeHostFunction`, XDR conversions keep only their outcome.
  `XdrBoundary` models the codec itself.
- The version report (`get_soroban_version_info`, `get_xdr_hashes`,
  `get_max_proto`) copies compile-time constants. Its only branch picks
  `xdr_curr` or `xdr_next` from a constant string, so a property would
  restate that `match`. The per-version binding happens in the module tree
  outside this file.
- The trace hook (`make_trace_hook_fn`) keeps the last rendered state and
  resets it at frame begin and end. Each diff is taken against exactly the
  state the log last showed, so replaying the log is correct by
  construction. A property would only restate the reset. The other
  logging helpers only format.
- `compile` parses with `get_max_proto()`. What that protocol changes in
  parsing is host code, so a wasm is valid or not independent of protocol.
- The extractor's InternalError exits: the host always supplies 32-byte key
  hashes.
- The `?` exits of `CoreCompilationContext::new()` (l.724, an unlimited
  budget with empty cost tables), of `get_mem_bytes_consumed` (l.733), and
  of `Self::new()` in `shallow_clone` (l.771) are left out. So are the four
  budget getters whose metrics the orchestrator reads (l.458-466). The
  getters fail only when the budget is already borrowed, and nothing else
  holds it at those points.
- The VM share of the budget never exceeds the total in `Charges`, so the
  saturating subtraction of l.460-466 never actually saturates. The
  swapped-operand mutant is still caught.
- u64 wrap of the counters and of the time: unreachable in practice.

## Open work

1. Compose `InvokeHostFunction` with `ModuleCache`, if the host's use of the
   cache during a call can be pinned down from this repository. Today it
   cannot, since the lookups are host code.
