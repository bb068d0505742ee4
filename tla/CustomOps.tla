------------------------------ MODULE CustomOps ------------------------------
(***************************************************************************)
(* The custom_json, custom_json_dapp and custom_binary evaluators of       *)
(* sigmaengine_evaluator.cpp and generic_custom_operation_interpreter:    *)
(* look up the interpreter registered for the id, decode the payload,      *)
(* open a nested undo session, compare the outer and inner authorities,   *)
(* apply the inner operations one per step, squash.  An exception unwinds *)
(* the session and reaches the evaluator's catch.                          *)
(*                                                                         *)
(* The undo session is chainbase's, which is not in the tree: it is        *)
(* modelled from the specification (section 4.1) as the old value of each *)
(* cell kept at its first modification and put back on unwind.  The three *)
(* outer operation types differ only in how the payload is decoded, so a  *)
(* payload is either a batch of inner operations or Malformed.  An inner  *)
(* evaluator may fail on any state, so its failure is a choice.            *)
(***************************************************************************)
EXTENDS Integers, SequencesExt

CONSTANTS
    Keys, Values, InitValue, InnerOps, Write(_), Auths(_), Others(_),
    Outers, MaxBatch,
    Ids,         \* custom operation ids
    Registered   \* ids with a registered interpreter

\* A payload that does not decode (a one-element sequence that no inner
\* operation equals, so that it compares with the decoded batches).
Malformed == <<"malformed">>
NoOuter == [auths |-> {}, others |-> <<>>]
\* The saved old values, a function on the cells modified so far.
NoUndoLog == <<>>

VARIABLES
    store,       \* chain state
    pc,          \* "idle", or "apply" while the inner operations run
    producing,   \* database::is_producing() for the current operation
    outer,       \* the outer operation's declared authorities
    batch,       \* the decoded inner operations
    idx,         \* the next inner operation to apply
    undo,        \* the nested session's saved old values
    result,      \* what became of the last outer operation
    failure      \* where it failed

vars == <<store, pc, producing, outer, batch, idx, undo, result, failure>>

Batches == SeqOf(InnerOps, MaxBatch) \ {<<>>}
Payloads == Batches \cup {Malformed}

\* operation_get_required_authorities over the inner operations: the
\* account levels are flat_set insertions, the raw authorities push_backs.
InnerAuths(ops) == UNION {Auths(ops[i]) : i \in DOMAIN ops}
InnerOthers(ops) == FlattenSeq([i \in DOMAIN ops |-> Others(ops[i])])

\* The four FC_ASSERTs of apply_operations (lines 52-55).
AuthCheck(o, ops) == o.auths = InnerAuths(ops) /\ o.others = InnerOthers(ops)

\* The catch of custom_*_evaluator::do_apply.  FC_CAPTURE_AND_RETHROW in
\* the interpreter's apply turns every exception into an fc::exception,
\* which is re-thrown, rejecting the transaction, only while producing.
Outcome(prod) == IF prod THEN "rejected" ELSE "ignored"

\* Undoing the session puts back every saved old value.
Restore(s, u) == [k \in Keys |-> IF k \in DOMAIN u THEN u[k] ELSE s[k]]

\* The operation is over: the session, if any, is gone.
Finish(r, f) ==
    /\ pc' = "idle" /\ result' = r /\ failure' = f
    /\ undo' = NoUndoLog /\ idx' = 1

Init ==
    /\ store = [k \in Keys |-> InitValue]
    /\ pc = "idle"
    /\ producing = FALSE
    /\ outer = NoOuter
    /\ batch = <<>>
    /\ idx = 1
    /\ undo = NoUndoLog
    /\ result = "none"
    /\ failure = "none"

-----------------------------------------------------------------------------
\* Mutant: a payload that fails to decode is applied anyway.
ReceiveIgnoresDecodeError(id, o, payload, prod) ==
    /\ pc = "idle"
    /\ producing' = prod /\ outer' = o
    /\ \/ /\ id \notin Registered
          /\ Finish("ignored", "unregistered") /\ batch' = <<>>
       \/ /\ id \in Registered
          /\ pc' = "apply" /\ batch' = payload /\ idx' = 1 /\ undo' = NoUndoLog
          /\ UNCHANGED <<result, failure>>
    /\ UNCHANGED store

(* custom_json_evaluator::do_apply (and its dapp and binary twins) up to   *)
(* the first inner operation: no interpreter returns at once; a payload   *)
(* that does not decode, or whose authorities do not match, throws before *)
(* anything is written; otherwise the session is open.                    *)
Receive(id, o, payload, prod) ==
    /\ pc = "idle"
    /\ producing' = prod /\ outer' = o
    /\ \/ /\ id \notin Registered
          /\ Finish("ignored", "unregistered") /\ batch' = <<>>
       \/ /\ id \in Registered /\ payload \notin Batches
          /\ Finish(Outcome(prod), "decode") /\ batch' = <<>>
       \/ /\ id \in Registered /\ payload \in Batches
          /\ ~AuthCheck(o, payload)
          /\ Finish(Outcome(prod), "auth") /\ batch' = payload
       \/ /\ id \in Registered /\ payload \in Batches
          /\ AuthCheck(o, payload)
          /\ pc' = "apply" /\ batch' = payload /\ idx' = 1 /\ undo' = NoUndoLog
          /\ UNCHANGED <<result, failure>>
    /\ UNCHANGED store

\* Mutant: the session saves the old value on every modification.
ApplyInnerUndoEveryWrite ==
    /\ pc = "apply" /\ idx <= Len(batch)
    /\ LET w == Write(batch[idx]) IN
          /\ store' = [store EXCEPT ![w[1]] = w[2]]
          /\ undo' = (w[1] :> store[w[1]]) @@ undo
    /\ idx' = idx + 1
    /\ UNCHANGED <<pc, producing, outer, batch, result, failure>>

(* The loop of apply_operations: the inner evaluator writes its cell; the  *)
(* session saves the cell's value when it is first modified.              *)
ApplyInner ==
    /\ pc = "apply" /\ idx <= Len(batch)
    /\ LET w == Write(batch[idx]) IN
          /\ store' = [store EXCEPT ![w[1]] = w[2]]
          /\ undo' = undo @@ (w[1] :> store[w[1]])
    /\ idx' = idx + 1
    /\ UNCHANGED <<pc, producing, outer, batch, result, failure>>

(* An inner evaluator throws: the plugin session's destructor undoes the  *)
(* batch so far, and the evaluator's catch decides the outcome.           *)
InnerFails ==
    /\ pc = "apply" /\ idx <= Len(batch)
    /\ store' = Restore(store, undo)
    /\ Finish(Outcome(producing), "inner")
    /\ UNCHANGED <<producing, outer, batch>>

(* plugin_session.squash(): the writes stay, merged into the transaction. *)
Squash ==
    /\ pc = "apply" /\ idx > Len(batch)
    /\ Finish("applied", "none")
    /\ UNCHANGED <<store, producing, outer, batch>>

Next ==
    \/ \E id \in Ids, o \in Outers, p \in Payloads, prod \in BOOLEAN :
          Receive(id, o, p, prod)
    \/ ApplyInner
    \/ InnerFails
    \/ Squash

Spec == Init /\ [][Next]_vars

-----------------------------------------------------------------------------
(* Every variable holds a value of its type; in particular the batch being *)
(* applied is always a decoded sequence of inner operations.               *)
TypeOK ==
    /\ store \in [Keys -> Values]
    /\ pc \in {"idle", "apply"}
    /\ producing \in BOOLEAN
    /\ outer \in Outers \cup {NoOuter}
    /\ batch \in Batches \cup {<<>>}
    /\ idx \in 1..MaxBatch + 1
    /\ undo \in UNION {[S -> Values] : S \in SUBSET Keys}
    /\ result \in {"none", "applied", "ignored", "rejected"}
    /\ failure \in {"none", "unregistered", "decode", "auth", "inner"}

\* The state the abstract specification sees: while a batch is under way,
\* the state as it would be after the session is undone.
AbsStore == IF pc = "apply" THEN Restore(store, undo) ELSE store

Atomic == INSTANCE CustomOpsAtomic WITH store <- AbsStore, result <- result

(* The interpreter implements the atomic batch of spec section 4.4: seen  *)
(* through the undo session, every outer custom operation either applies  *)
(* all its inner operations in encoded order, and only when the declared  *)
(* authorities equal the inner ones, or changes nothing, however many of  *)
(* its inner operations had written before one threw.                     *)
ImplementsAtomic == Atomic!Spec

(* Spec section 4.4 step 4: apply_operations refuses a batch for its      *)
(* authorities exactly when the outer and inner unions differ, so a batch *)
(* whose unions are equal is never refused at the FC_ASSERTs.             *)
AuthorityCheckIsUnionEquality ==
    [][failure' = "auth" => ~Atomic!UnionsEqual(outer', batch')]_vars

=============================================================================
