--------------------------- MODULE LedgerEffects ---------------------------
(***************************************************************************)
(* The ledger-effect extractor of soroban_proto_any.rs                     *)
(* (extract_ledger_effects): from the host's per-entry LedgerEntryChange   *)
(* list it builds the list of encoded ledger entries handed back to core.  *)
(*                                                                         *)
(* A change is abstracted to what the extractor reads: the read_only flag, *)
(* whether encoded_new_value is Some, and the optional ttl_change with its *)
(* old and new live-until ledgers.  The entry's key hash is its position   *)
(* in the list (distinct entries have distinct hashes).  An encoded entry  *)
(* is a record naming the change it came from.                             *)
(***************************************************************************)
EXTENDS Naturals, Sequences, SequencesExt

CONSTANTS
    TtlValues,   \* live-until ledger numbers the host may report
    MaxChanges,  \* longest change list the host returns in the model
    NoTtl        \* model value: ttl_change is None

TtlChange == [old : TtlValues, new : TtlValues]

LedgerEntryChange ==
    [read_only : BOOLEAN, has_new_value : BOOLEAN, ttl_change : TtlChange \cup {NoTtl}]

ChangeLists == BoundedSeq(LedgerEntryChange, MaxChanges)

\* The re-encoded new value of the entry at position i.
EncodedEntry(i) == [kind |-> "entry", key |-> i]

\* The TtlEntry synthesised for the entry at position i; its
\* last_modified_ledger_seq is left at 0 for core to fill in.
EncodedTtl(i, liveUntil) ==
    [kind |-> "ttl", key |-> i, live_until |-> liveUntil, last_modified |-> 0]

LedgerEffect ==
    {EncodedEntry(i) : i \in 1..MaxChanges}
      \cup {EncodedTtl(i, t) : i \in 1..MaxChanges, t \in TtlValues}

\* Mutant: a TTL that did not change is taken as extended (>= for >).
TtlExtendedOrEqual(c) == c.ttl_change # NoTtl /\ c.ttl_change.new >= c.ttl_change.old

TtlExtended(c) == c.ttl_change # NoTtl /\ c.ttl_change.new > c.ttl_change.old

\* The entries one change contributes, in the order the loop body pushes
\* them: the new value of a written entry first, then its TTL record.
ChangeEffects(i, c) ==
    (IF ~c.read_only /\ c.has_new_value THEN <<EncodedEntry(i)>> ELSE <<>>)
      \o (IF TtlExtended(c) THEN <<EncodedTtl(i, c.ttl_change.new)>> ELSE <<>>)

extract_ledger_effects(changes) ==
    FlattenSeq([i \in DOMAIN changes |-> ChangeEffects(i, changes[i])])

-----------------------------------------------------------------------------
(***************************************************************************)
(* Reference: spec section 4.6 describes the effect list as a set: one new *)
(* value per non-read-only entry that has one, one TTL record per entry    *)
(* whose TTL strictly increased, and nothing else.                         *)
(***************************************************************************)
\* "Whose TTL strictly increased", as the spec words it.
SpecTtlIncreased(c) ==
    \E t \in TtlChange : c.ttl_change = t /\ t.old < t.new

SpecEffects(changes) ==
    {EncodedEntry(i) : i \in {j \in DOMAIN changes :
                                ~changes[j].read_only /\ changes[j].has_new_value}}
      \cup {EncodedTtl(i, changes[i].ttl_change.new) :
              i \in {j \in DOMAIN changes : SpecTtlIncreased(changes[j])}}

\* Effects appear grouped by entry, and an entry's value before its TTL.
EffectOrder(a, b) ==
    \/ a.key < b.key
    \/ a.key = b.key /\ a.kind = "entry" /\ b.kind = "ttl"

\* The extracted list holds exactly the spec's effects, each once, in order.
MatchesSpecEffects(changes, effects) ==
    /\ ToSet(effects) = SpecEffects(changes)
    /\ \A p, q \in DOMAIN effects : p < q => EffectOrder(effects[p], effects[q])
=============================================================================
