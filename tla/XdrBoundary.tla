---------------------------- MODULE XdrBoundary ----------------------------
(***************************************************************************)
(* The serialization boundary of soroban_proto_any.rs and the functions    *)
(* that decode caller buffers through it: non_metered_xdr_from_cxx_buf,    *)
(* non_metered_xdr_to_vec, can_parse_transaction,                          *)
(* inplace_modify_cxxbuf_encoded_type and                                  *)
(* contract_code_memory_size_for_rent.  buf is the CxxBuf the C++ side     *)
(* hands over; last is what the most recent call returned.                 *)
(*                                                                         *)
(* The XDR codec itself (ReadXdr / WriteXdr under xdr::Limited) is the     *)
(* stellar-xdr crate.  It is modelled on a grammar of the same shape as     *)
(* TransactionEnvelope: a value is a union whose arm 0 is a leaf and whose *)
(* arm 1 is a counted vector of values.  A token stands for an XDR word.   *)
(* Every value read or written takes one level of the depth limit, and     *)
(* reading stops at the value's end: read_xdr does not look at what        *)
(* follows.                                                                *)
(***************************************************************************)
EXTENDS Naturals, Sequences, SequencesExt

CONSTANTS
    StackLimit,  \* MARSHALLING_STACK_LIMIT, scaled down from 1000
    OutLimit,    \* the 5MB len limit of non_metered_xdr_to_vec, in tokens
    MaxBuf,      \* longest buffer the C++ side hands over
    Depths,      \* depth_limit arguments of can_parse_transaction
    U32Width,    \* bits of a u32, scaled down so TLC's integers hold 2^width
    Costs,       \* values wasm_module_memory_cost_wrapper may return (u64)
    CostErr      \* model value: wasm_module_memory_cost_wrapper returned Err

VARIABLES buf, last

vars == <<buf, last>>

Tokens == 0..2
Buffers == BoundedSeq(Tokens, MaxBuf)

Leaf == [node |-> FALSE, kids |-> <<>>]
Node(s) == [node |-> TRUE, kids |-> s]

-----------------------------------------------------------------------------
(* The stellar-xdr codec.                                                  *)
Fail == [ok |-> FALSE]

RECURSIVE ReadVal(_, _, _), ReadVals(_, _, _, _)
\* ReadXdr at position p with d levels of depth left.
ReadVal(b, p, d) ==
    IF d = 0 \/ p > Len(b) THEN Fail
    ELSE CASE b[p] = 0 -> [ok |-> TRUE, pos |-> p + 1, val |-> Leaf]
           [] b[p] = 1 /\ p < Len(b) ->
                LET r == ReadVals(b, p + 2, d - 1, b[p + 1])
                IN IF r.ok THEN [ok |-> TRUE, pos |-> r.pos, val |-> Node(r.vals)]
                   ELSE Fail
           [] OTHER -> Fail

\* k values one after the other.
ReadVals(b, p, d, k) ==
    IF k = 0 THEN [ok |-> TRUE, pos |-> p, vals |-> <<>>]
    ELSE LET h == ReadVal(b, p, d)
             t == IF h.ok THEN ReadVals(b, h.pos, d, k - 1) ELSE Fail
         IN IF t.ok THEN [ok |-> TRUE, pos |-> t.pos, vals |-> <<h.val>> \o t.vals]
            ELSE Fail

RECURSIVE Encode(_), Height(_)
Encode(v) ==
    IF ~v.node THEN <<0>>
    ELSE <<1, Len(v.kids)>> \o FlattenSeq([i \in DOMAIN v.kids |-> Encode(v.kids[i])])

\* The depth limit a value needs to be read or written.
Height(v) ==
    1 + (IF v.node /\ v.kids # <<>> THEN Max({Height(v.kids[i]) : i \in DOMAIN v.kids}) ELSE 0)

-----------------------------------------------------------------------------
(* The functions of soroban_proto_any.rs.                                  *)

\* Limits { depth: MARSHALLING_STACK_LIMIT, len: buf.data.len() }; any
\* decode error becomes (Value, InternalError).
non_metered_xdr_from_cxx_buf(b) ==
    LET r == ReadVal(b, 1, StackLimit)
    IN IF r.ok THEN [ok |-> TRUE, val |-> r.val] ELSE [ok |-> FALSE, err |-> "InternalError"]

\* Limits { depth: MARSHALLING_STACK_LIMIT, len: 5MB }; an encode error
\* becomes (Value, InvalidInput) and the partly written vec is dropped.
non_metered_xdr_to_vec(v) ==
    IF Height(v) <= StackLimit /\ Len(Encode(v)) <= OutLimit
    THEN [ok |-> TRUE, vec |-> Encode(v)]
    ELSE [ok |-> FALSE, err |-> "InvalidInput"]

\* Mutant: the caller's depth_limit ignored in favour of the internal one.
can_parse_transaction_internal_depth(b, d) == ReadVal(b, 1, StackLimit).ok

\* Limits { depth: depth_limit, len: xdr.data.len() }; is_ok of read_xdr.
can_parse_transaction(b, d) == ReadVal(b, 1, d).ok

\* The modify closures the tests pass: wrap the value in a one-element
\* vector, or take the first element of a vector (an Err on anything else).
Modify(m, v) ==
    CASE m = "wrap" -> [ok |-> TRUE, val |-> Node(<<v>>)]
      [] m = "unwrap" /\ v.node /\ v.kids # <<>> -> [ok |-> TRUE, val |-> v.kids[1]]
      [] OTHER -> [ok |-> FALSE, err |-> "modify"]

\* inplace_modify_cxxbuf_encoded_type: decode, modify, encode, and only
\* then replace_data_with; each ? returns early with the buffer untouched.
InplaceModify(m) ==
    LET d == non_metered_xdr_from_cxx_buf(buf)
        n == IF d.ok THEN Modify(m, d.val) ELSE d
        e == IF n.ok THEN non_metered_xdr_to_vec(n.val) ELSE n
    IN /\ buf' = IF e.ok THEN e.vec ELSE buf
       /\ last' = [op |-> "modify", ok |-> e.ok]

CanParse(d) ==
    /\ last' = [op |-> "can_parse", depth |-> d, ok |-> can_parse_transaction(buf, d)]
    /\ UNCHANGED buf

\* Mutant: the bound check off by one, so 2^32 itself passes.
NarrowToU32OffByOne(c) ==
    IF c <= 2^U32Width THEN [ok |-> TRUE, val |-> c] ELSE [ok |-> FALSE, err |-> "TryFromInt"]

\* u64::try_into::<u32>: an Err for a value that does not fit.
NarrowToU32(c) ==
    IF c < 2^U32Width THEN [ok |-> TRUE, val |-> c] ELSE [ok |-> FALSE, err |-> "TryFromInt"]

\* contract_code_memory_size_for_rent with the code entry in buf: decode the
\* entry, then the two cost tables (their decodes succeed or not), then
\* Budget::try_from_configs(0, 0, ..), then the host's memory cost, then the
\* u32 narrowing; the first error is returned.
ContractCodeMemorySizeForRent(tablesOk, budgetOk, cost) ==
    LET entry == non_metered_xdr_from_cxx_buf(buf)
        r == CASE ~entry.ok  -> entry
               [] ~tablesOk  -> [ok |-> FALSE, err |-> "InternalError"]
               [] ~budgetOk  -> [ok |-> FALSE, err |-> "Budget"]
               [] cost = CostErr -> [ok |-> FALSE, err |-> "Host"]
               [] OTHER      -> NarrowToU32(cost)
    IN /\ last' = [op |-> "mem_size", cost |-> cost] @@ r
       /\ UNCHANGED buf

\* The C++ side hands over a new buffer.
Refill(b) ==
    /\ buf' = b
    /\ last' = [op |-> "none"]

Init ==
    /\ buf \in Buffers
    /\ last = [op |-> "none"]

Next ==
    \/ \E d \in Depths : CanParse(d)
    \/ \E m \in {"wrap", "unwrap"} : InplaceModify(m)
    \/ \E t, g \in BOOLEAN, c \in Costs \cup {CostErr} : ContractCodeMemorySizeForRent(t, g, c)
    \/ \E b \in Buffers : Refill(b)

Spec == Init /\ [][Next]_vars

-----------------------------------------------------------------------------
TypeOK ==
    /\ buf \in Seq(Tokens)
    /\ last.op \in {"none", "can_parse", "modify", "mem_size"}
    /\ last.op = "mem_size" /\ last.ok => last.val \in 0..(2^U32Width - 1)

\* Every value whose encoding fits in n tokens.
RECURSIVE ValsUpTo(_)
ValsUpTo(n) ==
    IF n = 0 THEN {}
    ELSE LET smaller == ValsUpTo(n - 1)
         IN {v \in {Leaf} \cup {Node(s) : s \in BoundedSeq(smaller, 2)} : Len(Encode(v)) <= n}

\* Reference, from spec 4.1: a buffer is accepted at depth d when it begins
\* with the encoding of a value no deeper than d.
SpecParses(b, d) == \E v \in ValsUpTo(Len(b)) : Height(v) <= d /\ IsPrefix(Encode(v), b)

\* Spec 4.1: can_parse_transaction enforces the caller's depth limit.  A
\* buffer that is exactly the encoding of a value within the limit is
\* accepted, and an accepted buffer begins with a value within the limit:
\* nothing nested deeper than the caller allows gets through.  Whether
\* bytes after the value are refused is left to SpecCanParseRejectsMalformed.
\* About the depth_limit passed into xdr::Limited and the recursive read.
CanParseEnforcesDepthLimit ==
    last.op = "can_parse" =>
      /\ (\E v \in ValsUpTo(Len(buf)) : buf = Encode(v) /\ Height(v) <= last.depth)
           => last.ok
      /\ last.ok => SpecParses(buf, last.depth)

\* Spec 4.1: decoding a malformed buffer fails.  A buffer with bytes after
\* the end of the transaction is malformed.  About read_xdr (not
\* read_xdr_to_end) in can_parse_transaction.
SpecCanParseRejectsMalformed ==
    last.op = "can_parse" /\ last.ok => \E v \in ValsUpTo(Len(buf)) : buf = Encode(v)
=============================================================================
