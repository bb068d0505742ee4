--------------------------- MODULE CustomOpsAtomic ---------------------------
(***************************************************************************)
(* What the custom-operation interpreter promises (spec section 4.4): an  *)
(* outer custom operation either applies the whole batch of inner          *)
(* operations it carries, in encoded order, or leaves the state as it was; *)
(* a batch is applied only when the authorities the outer operation        *)
(* declares are, level by level, the union of those its inner operations  *)
(* require.  Each outer operation is one step.                             *)
(***************************************************************************)
EXTENDS Integers, SequencesExt

CONSTANTS
    Keys,        \* the state cells inner evaluators write
    Values,      \* the values a cell can hold
    InitValue,   \* every cell's value at the start
    InnerOps,    \* the inner operations of the plugin's operation type
    Write(_),    \* the <<cell, value>> an inner evaluator writes
    Auths(_),    \* the <<level, account>> pairs an inner operation requires
    Others(_),   \* the raw authorities an inner operation requires, in order
    Outers,      \* outer operations: [auths, others] they declare
    MaxBatch     \* bound on the inner operations one payload encodes

VARIABLES
    store,       \* the chain state the inner evaluators write
    result       \* what became of the last outer operation

Batches == SeqOf(InnerOps, MaxBatch) \ {<<>>}
Results == {"none", "applied", "ignored", "rejected"}

\* The effect of applying the inner operations one after another.
RECURSIVE ApplyWrites(_, _)
ApplyWrites(s, ops) ==
    IF ops = <<>> THEN s
    ELSE ApplyWrites([s EXCEPT ![Write(Head(ops))[1]] = Write(Head(ops))[2]],
                     Tail(ops))

\* Spec 4.4 step 4: the authority sets are exactly equal, level by level.
UnionsEqual(o, ops) ==
    /\ o.auths = UNION {Auths(op) : op \in Range(ops)}
    /\ Range(o.others) = UNION {Range(Others(op)) : op \in Range(ops)}

Init ==
    /\ store = [k \in Keys |-> InitValue]
    /\ result = "none"

ApplyBatch(o, ops) ==
    /\ result' = "applied"
    /\ UnionsEqual(o, ops)
    /\ store' = ApplyWrites(store, ops)

Refuse ==
    /\ result' \in {"ignored", "rejected"}
    /\ UNCHANGED store

Next ==
    \/ \E o \in Outers, ops \in Batches : ApplyBatch(o, ops)
    \/ Refuse

Spec == Init /\ [][Next]_<<store, result>>

=============================================================================
