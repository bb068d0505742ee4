# TLA+ models of the sigmaengine chain core

This directory holds TLA+ models of the state-changing core of the
sigmaengine node (`src/libraries/chain`, `src/libraries/protocol`, and the
plugins in `src/libraries/plugins`). It also holds the TLC configurations
that check them. Every action is translated from the C++ source. Three kinds
of code are modelled from `spec.md` instead, because their implementation is
not in the tree: `database.cpp`, chainbase, and the genesis code. The map in
`PROJECT.json` names the source lines behind every definition and marks the
spec-modelled ones.

## The system

| Part | Source | State | Operations |
|---|---|---|---|
| Producer schedule engine | `chain/bobserver_schedule.cpp`, `bobserver_objects.hpp`, `hardfork_property_object.hpp` | producer table (votes, signing key, running version, hardfork vote, excepted flag); schedule singleton (shuffled slots, `num_scheduled_bobservers`, `next_shuffle_block_num`, `majority_version`); hardfork property (current, next, next time) | `update_bobserver_schedule` once per block; it calls `update_bobserver_schedule4` every `SIGMAENGINE_NUM_BOBSERVERS` blocks |
| Balance evaluators | `chain/sigmaengine_evaluator.cpp` lines 168-178 and 443-650, `sigmaengine_objects.hpp` | liquid and savings balances, supply, `savings_withdraw_object`, `common_fund_object`, `fund_withdraw_object` | transfer, print, burn, transfer_savings, cancel/conclusion_transfer_savings, staking_fund, conclusion_staking, return_staking_fund, transfer_fund, set_fund_interest |
| Recovery and account evaluators | `sigmaengine_evaluator.cpp` lines 64-204 and 292-441 | accounts, authorities, recovery requests, change-recovery requests, decline-voting requests | account_create, account_update, account_auth, request/recover/change recovery, decline_voting_rights; reset operations are disabled |
| Custom-operation interpreter | `generic_custom_operation_interpreter.hpp`, `sigmaengine_evaluator.cpp` lines 206-290 | a nested undo session over the store | decode; compare the outer and inner authority unions; apply the inner operations in order; squash |
| State store and block pipeline | `database.hpp` only (no `database.cpp`) | undo sessions, head block, dynamic globals | push_block, apply_transaction, process_hardforks |
| txt_test_gen plugin | `plugins/txt_test_gen/txt_test_gen_plugin.cpp` | a running flag, a timer, a thread pool, `nonce_prefix` | start_generation, the timer handler, send_transaction, stop_generation |
| Authority resolver | `protocol/sign_state.cpp` (not in the tree), `app/database_api.cpp` lines 763-872 | none; reads account authorities | verify_authority, get_required_signatures, get_potential_signatures, verify_account_authority |
| Query APIs and observers | `app/database_api.cpp`, `app/impacted.cpp`, `sigmaengine_api_objects.hpp`, statistics and raw_block plugins | none of their own | read-only lookups over the index orders of the chain objects; the impacted-accounts visitor that files each applied operation under account histories |

How the parts interact:

- The pipeline applies each block inside an undo session. Each transaction
  is applied in a nested session.
- Every operation goes to its evaluator.
- A failing `FC_ASSERT` unwinds the transaction. During block application
  it unwinds the whole block.
- The schedule engine runs inside block application, after the
  transactions.
- The custom-operation evaluators call the interpreter that a plugin
  registered. The interpreter opens one more nested session.
- Every applied operation is published to the history consumers. The
  impacted-accounts visitor names the accounts whose history it is filed
  under.
- Wallets read the state back through `database_api`. Each query walks an
  ordered index of the chain objects and returns API objects copied from
  the rows.
- The txt_test_gen plugin stands apart from the chain. Its API starts and
  stops a pool of threads that sign transfers and broadcast them through
  the p2p node, so it never touches the chain state directly.

## Modules

### BobserverSchedule (producer schedule engine)

The variables are:

- `bobservers`: the producer table, with votes, `keyed` (the signing key is
  not null), running version, hardfork (version, time) vote and `excepted`.
- `shuffled`, `numScheduled`, `nextShuffleBlockNum` and `majorityVersion`:
  the schedule object.
- `hfp`: the hardfork property object.
- `shutdownVops`: the shutdown virtual operations of the last update.
- `headBlockNum`.

The actions are:

- `ApplyBlock`: a block that is not at a multiple of the slot count.
- `ApplyShuffleBlock`: a block whose schedule update succeeds. It performs
  the whole of `update_bobserver_schedule4` as `UpdateBobserverSchedule4`,
  in one step:
  - the key clearing;
  - the selection;
  - both tallies;
  - the slot array;
  - the shuffle;
  - `next_shuffle_block_num`.

Both block actions require `ScheduledSigners # {}`. Block validation in
`database.cpp`, which is not in the tree, takes the expected signer from
`get_scheduled_bobserver` (declared at `database.hpp:254`) and requires
that producer's signing key. A slot whose producer has no key is missed,
and the next slot's producer signs instead. So a block exists only while
some scheduled producer still holds a key. When the only scheduled producer
nulls its key, no block can follow. The chain really halts there, so the
`schedule` cfg sets `CHECK_DEADLOCK FALSE`. For the same reason, the
degenerate schedule (the single empty name, which appears when no producer
is eligible) can never be followed by another block. The update's
`get_bobserver` on that name is therefore never reached.

Between epochs, the producer table is changed by evaluators that are not in
the tree, such as vote adjustment, key updates and `except_bobserver`.
`ProducerOps` models them from the spec: each block may change one field of
one producer.

The xorshift generator is abstracted. The model draws the offsets
`k % jmax`, each in `0 .. jmax-1`, nondeterministically, so every
permutation the generator could yield is explored. The orderings come from
the code:

- `by_vote_name`: votes descending, then name ascending.
- `bobserver_versions`: a `flat_map` with `std::greater`.
- `hardfork_version_votes`: tuple order.

### Ledger (balance evaluators)

The variables are:

- `balance` and `savings`: per account.
- `supply`.
- `savingsWithdraws` and `fundWithdraws`: the rows.
- `fund`: per fund, the balance, `fund_withdraw_ready` and the interest
  table.
- `now`: the head block time.

There is one action per evaluator. Its guard is the evaluator's
`FC_ASSERT`s together with the unique-index constraint of the row it
creates. The adjust helpers of `database.cpp` fail on a negative result;
this is modelled from the spec in `AdjustBalance` and `CanAdjust`. The
interest is a whole percent. The payout `amount + amount*percent/100` is
truncated toward zero, as the double-to-`asset` conversion does.
`Tick` advances the head block time.

### Recovery (account_create, account_update, recovery)

The variables are:

- `exists`: the names with an `account_object`.
- `recoveryAccount`: each account's recovery partner.
- `owner` and `active`: the authorities.
- `lastOwnerUpdate` and `lastAccountRecovery`: the two cooldown times.
- `history`: the owner authority history rows (account, previous owner,
  last valid time).
- `recoveryRequests`: the pending request per account (authority,
  expires).
- `now`: the head block time.
- `supersededOwners`: a history variable holding every owner history row
  ever appended. It is the history without the sweep's deletions, and
  `OwnersEver(a)` is built from it.

An authority is a model value. The constants `Threshold`, `IsImpossible`
and `Refs` give its weight threshold, whether it is impossible, and the
accounts it names.

There is one action per evaluator: `AccountCreate`, `AccountUpdate`,
`RequestAccountRecovery` (new, cancel by an open authority, change) and
`RecoverAccount` (with `recover_account_operation::validate()` as
`RecoverValid`). `update_owner_authority` lives in `database.cpp`, so
`UpdateOwnerAuthority` is modelled from the spec: the superseded owner is
appended to the history and `last_owner_update` is set.

`Tick` ends a block. It advances the time and runs
`AccountRecoveryProcessing`, which models `database::account_recovery_processing`
(declared at `database.hpp:296`; its body is in `database.cpp`). It is
modelled from the spec and from the comments at `operations.hpp:173-175`
and `214-218`. Its first two loops are:

- `ClearExpiredRecoveryRequests`: remove every request whose `expires` is
  at or before the new head time;
- `ClearInvalidHistory`: remove every history row whose `last_valid_time`
  is more than `SIGMAENGINE_OWNER_AUTH_RECOVERY_PERIOD` in the past.

Its third loop applies due partner changes, and is in AccountRequests.
`recover_account` itself reads neither `expires` nor `last_valid_time`.
The recovery windows therefore hold only because this sweep runs before
the next block's operations. The spec's data model (spec.md, lines 26 and 33) instead says that expiry is
enforced by the evaluators and not by a sweep, and it calls the history
append-only. The code's own comments describe the sweep, and the model
follows the code.

### AccountRequests (change_recovery_account, decline_voting_rights, account_auth)

These evaluators only file rows for the request processing in
`database.cpp`, which is not in the tree. Their dates and tokens are read
by nothing in the tree, so a row keeps its key and its target. The
exception is the `effective_on` date of a `change_recovery_account` row,
which the sweep reads. `DatedChange` sets it to head time plus the recovery
period, both for a new request and for a retarget. `Tick` advances the time
and runs the sweep's third loop, `ApplyRecoveryAccountChanges`: every
request whose `effective_on` has passed sets the partner and is removed.
`lastChangeAsked` is a history variable of each account's last
`change_recovery_account` (target and time). Decline-voting processing is
not declared in `database.hpp` and is not modelled.
`account_create` appears here too, because it makes the accounts the rows
name and sets the partner `change_recovery_account` compares with. The
module is separate from Recovery because the two share no state beyond
existence and the partner, and together they are too large for TLC.

### ImpactedAccounts (history filing)

`Impacted(op)` is `get_impacted_account_visitor` (`app/impacted.cpp`) over
every operation type. The types without an overload of their own take the
template, which names the accounts of the required authorities. An
operation is a record whose `type` names its struct and whose other fields
are the struct's account fields. The custom operations parse a JSON or
binary payload; the field `innerAuths` stands for the accounts the parsed
inner operations require.

### LedgerOps, AccountOps and AccountRequestOps (operations as data)

Each of these wraps the evaluator actions of Ledger, Recovery or
AccountRequests in the step `database::apply_operation` takes:

1. pick an operation record from a small set of values for its fields;
2. run its `validate()` (`sigmaengine_operations.cpp`);
3. hand it to the evaluator registered for its type;
4. publish it, with any virtual operations the evaluator pushed.

The variable `published` is what the history consumers saw last. A failed
`validate()` or evaluator assertion disables the step, since the undo
session leaves the state as it was. Each module states that the history is
complete: an account whose state an operation changes is one `Impacted`
files the operation under.

`AccountOps` also has the account queries of `database_api.cpp`:
`lookup_account_names`, `get_owner_history` and `get_recovery_request`,
each returning the API objects of `sigmaengine_api_objects.hpp` with the
modelled fields. `AccountRequestOps` has `get_auth_token_list`. For that
query the `account_auth` rows are kept as a sequence in creation (`by_id`)
order.

### LedgerQueries and BobserverQueries (query APIs)

These are operators on the state of LedgerOps and BobserverSchedule. A query
does two things:

- it positions an iterator on an index, at `begin()`, at `lower_bound` of a
  key prefix, or at `iterator_to` a named row;
- it pushes rows while a condition holds and fewer than `limit` rows have
  been pushed.

The index orders come from the composite keys of `sigmaengine_objects.hpp`.
Account and fund names compare as strings; the constants `AccountRank` and
`FundRank` give their order. The modelled queries are:

- `get_savings_withdraw_from` and `get_savings_withdraw_to`;
- `get_fund_withdraw_from`, `get_fund_withdraw_list` and `get_common_fund`;
- `get_bobservers_by_vote` and `lookup_bobserver_accounts`.

The properties page through a query the way a wallet does. Each next page
starts at the last name of the previous page, or at the previous offset
plus the limit. The recursion is bounded by the size of the table.

### AccountSigning (authority resolver and signing queries)

This module holds operators over a snapshot of the account store, which is
passed in as the constants `Exists`, `Owner` and `Active`. `sign_state` and
`signed_transaction::verify_authority` are not in the tree. `CheckAuthority`,
`LookedUp`, `SignedByActive` and `RequiredSignatures` therefore follow
section 4.2 of the spec:

- an authority is satisfied when the weights of its signed keys and of its
  approved account atoms reach its threshold;
- an account atom is approved when that account's active authority is
  satisfied one level deeper;
- past `SIGMAENGINE_MAX_SIG_CHECK_DEPTH` (2), the resolver skips the atom,
  so a cycle makes an authority unsatisfiable rather than raising an error;
- an active requirement is met by the active authority, or else by the
  owner authority;
- every name the resolver looks up must have an
  `account_authority_object`, because the lambdas' `_db.get` throws
  otherwise.

The four `database_api.cpp` queries sit on top of this. A transfer from the
account stands for the transaction.

- `GetRequiredSignatures` hands the available keys on.
- `GetPotentialSignatures` collects the keys of every authority that a
  lambda returns during a run with no keys. The owner authority is fetched
  only when the active check fails.
- `VerifyAuthority` is the check itself.
- `VerifyAccountAuthority` looks the account up and verifies a dummy
  transfer with no signatures.

The module also holds the authorities that each account operation declares
(`sigmaengine_operations.hpp`). `RequiredOwnerAuthorities` comes from
`account_update` when its `owner` optional is set. `RequiredActiveAuthorities`
comes from the creator of `account_create`, from `account_update` without an
owner, and from the recovery partner of `request_account_recovery`.
`RequiredAuthorities` holds the two raw authorities of `recover_account`.
`VerifyOperation` is `verify_authority` for a transaction holding the
operation (spec 4.2). An owner requirement must be met by the owner
authority. An active requirement must be met by the active or the owner
authority. A raw authority must be met by itself.

`MCRecovery` instantiates the module once for every store of two accounts
and three authorities. It tabulates `SigningQueriesAgree` as a constant,
and the invariant of the `recovery` run then looks up the store that the
account evaluators have left. For `OwnerReplacedOnlyWithOwnerKeys` it
tabulates, as sets of tuples, the key sets that `VerifyOperation` accepts
for every store and operation, and the key sets that satisfy every
authority. TLC enumerates a set-of-tuples once at start-up. It keeps a
function `[x \in D |-> e]` lazy and would re-evaluate it at every lookup.

**Divergence found while modelling.** `verify_account_authority`
(`database_api.cpp` lines 853-872) never reads its `signers` argument,
although `database_api.hpp` documents it as "true if the signers have
enough authority to authorize an account". It answers whether the account
can be signed with no keys at all. Unless the account's active or owner
authority needs no weight, it throws, whatever keys are passed. There is no violation run
for this, because the answer is never a wrong "true". `SigningQueriesAgree`
checks the half of the contract that the code keeps: the query never
vouches for keys that `verify_authority` would refuse.

### CustomOps and CustomOpsAtomic (custom-operation interpreter)

`CustomOpsAtomic` is the promise of spec section 4.4. An outer custom
operation is one step that either applies all its inner writes in encoded
order, and only when the declared authorities equal the inner ones as sets,
or changes nothing.

`CustomOps` is the code, with these variables:

- `store`: the cells the inner evaluators write.
- `pc`: `idle`, or `apply` while a batch runs.
- `batch` and `idx`: the decoded inner operations and the next one.
- `undo`: the nested session's saved old values.
- `outer` and `producing`: the current outer operation's declared
  authorities and `is_producing()`.
- `result` and `failure`: what became of the last outer operation, and
  where it failed.

The actions are:

- `Receive`: the evaluator's interpreter lookup, the decoding, the
  session start and the four authority `FC_ASSERT`s.
- `ApplyInner`: one inner evaluator per step.
- `InnerFails`: the session is unwound and the evaluator's `catch` decides
  the outcome.
- `Squash`: the session is squashed.

chainbase's undo session is modelled from the spec: the old value of a cell
is saved at its first modification and restored on unwind. The fc library
is not in the tree either. Its `FC_CAPTURE_AND_RETHROW` turns every
exception into an `fc::exception`, so the evaluators' `catch(...)` is not
reached from the interpreter. The refinement mapping shows the abstract
module the store as the open session would undo it.

### TxtTestGen (transaction generator plugin)

This is the only multi-threaded code in the tree. `start_generation`
starts `PoolSize` threads that share one io_service, and it posts an
`arm` handler. A pool thread takes the head of the io_service's FIFO of
ready handlers (`RunHandler`):

- `arm`, or a timer completion while `running`, calls `arm_timer`. That
  posts a `send` handler and starts a timer wait (`ArmTimer`).
- `send` begins `my->nonce_prefix++`. The increment is two steps,
  `ReadNonce` and `WriteNonce`.
- A completion of the cancelled timer is dropped.

`SendTransaction` either broadcasts or throws. If it throws,
`FailureCallback` runs on the same pool thread and calls
`stop_generation` while `running`.

`stop_generation` is one action per statement, run by the API thread
(`ApiStop`, from the API or `plugin_shutdown`) or by a pool thread:
`StopCheck`, `StopCancel`, `StopFlag`, `StopService`, `StopJoin`,
`StopReturn`. `RunReturns` is `io_service::run` returning. That happens
once the service is stopped, or once nothing is queued, no wait is pending
and the work object is gone. `Expire` is the timer's expiry.

Undefined behaviour is a choice of outcomes:

- `push_back` through the never-engaged `thread_pool` optional either acts
  on an empty vector (zeroed heap) or crashes the node.
- A second `delete` of the work object either crashes the node or goes
  unnoticed.

An exception that escapes `io_service::run` ends the process
(`Abort`). That happens when a pool thread's `stop_generation` throws
because `running` is already false, or when `join` is called on the
calling thread itself. The transactions are abstracted to their nonce
(`sent`).

## Runs

| Run | Checks | Result |
|---|---|---|
| `schedule` (`MCBobserverSchedule.cfg`) | `TypeOK`; `ScheduleIsTopEligible` (the new schedule is exactly the top `max_voted` eligible producers, shuffled, with empty trailing slots, or the degenerate single empty name); `MajorityVersionIsHighestSupported` (the highest version whose cumulative support reaches the threshold); `HardforkFollowsSupermajority` (the least winning (version, time) pair, or a reset to the current version with the time kept); `ProducerListsPageCompletely` (paging `get_bobservers_by_vote` lists the voted producers once each in `by_vote_name` order, and paging `lookup_bobserver_accounts` lists the producers that are not excepted) | pass |
| `ledger` (`MCLedger.cfg`) | `TypeOK`; `Conservation` (liquid + savings + fund balances = supply); `SavingsBacked` (savings of each account = its pending rows); `FundReadyMatchesStakes` (the `fund_withdraw_ready` that `get_common_fund` reports = the stakes `get_fund_withdraw_from` lists, over all accounts); `PendingQueriesExact` (the per-account savings and staking queries return exactly the account's rows, whatever rows sort around them); `HistoryCoversChanges` (every account whose balances or rows an operation changes is one `Impacted` names for it or for a virtual operation it pushed) | pass |
| `ledger_fund_withdraw_list` (`MCLedgerFundList.cfg`) | `FundWithdrawListComplete` (with a limit above the number of rows, `get_fund_withdraw_list` lists every pending stake of the fund) | violation: the scan starts at `begin()` of an index ordered by `complete` first, and it stops at the first row of another fund |
| `recovery` (`MCRecovery.cfg`) | `TypeOK`; `OwnersListedByHistory` (`get_owner_history` lists exactly the owners superseded within the recovery period, so the sweep removes no row too early and keeps none too long); `AuthoritiesNameFoundAccounts` (every account named by a stored authority or a pending request is found by `lookup_account_names`); `SigningQueriesAgree` (in every store the evaluators leave, a wallet that filters its keys by `get_potential_signatures` and reduces them by `get_required_signatures` still signs a transfer it could sign before, and `verify_account_authority` vouches for no keys that `verify_authority` refuses); `OwnerUpdatesRateLimited` (an owner change by account_update comes more than the cooldown after every earlier replacement, including one made by recovery); `RecoveryWithinTimeLimits` (a recovery executes only a request that has not expired, and only while every history row of the account is within the recovery period); `OwnerReplacedOnlyWithOwnerKeys` (whenever a step replaces an account's owner, every key set with which `verify_authority` accepts the published operation satisfies some owner the account has had, so holders of the active keys alone, or of no keys, cannot take an account); `AccountHistoryCoversChanges` (every account an operation changes is one `Impacted` files it under) | pass |
| `account_requests` (`MCAccountRequests.cfg`) | `TypeOK` (including: every created account has its creator as partner); `AuthTokenListPagesComplete` (paging `get_auth_token_list` by offset lists every `account_auth` row once, in creation order); `RequestHistoryCoversChanges` | pass |
| `recovery_partner` (`MCRecoveryPartner.cfg`) | `PartnerChangesAfterRecoveryPeriod` (an account's partner changes only to the target of its last `change_recovery_account`, and at least one recovery period after that request, so a retarget restarts the delay) | pass |
| `custom_ops` (`MCCustomOps.cfg`) | `TypeOK`; `ImplementsAtomic` (`CustomOpsAtomic!Spec` under the refinement mapping) | pass |
| `custom_ops_authority_order` (`MCCustomOpsAuth.cfg`) | `AuthorityCheckIsUnionEquality` | violation: the raw authorities are compared as vectors |
| `txt_test_gen` (`MCTxtTestGen.cfg`) | `TypeOK`; `StopJoinsAllThreads` (when the API's stop returns, no pool thread is left in `run()`); `StopCompletes` (the API's stop returns, or the node ends) | pass |
| `txt_test_gen_nonce_race` (`MCTxtTestGenNonce.cfg`) | `NoncesDistinct` | violation: two send handlers read the same `nonce_prefix` |
| `txt_test_gen_failure_stop` (`MCTxtTestGenFailure.cfg`) | `FailedSendStopsGeneration` | violation: the failure callback's `stop_generation` joins its own thread |

Why the bounds are enough:

- **Schedule.** There are 3 producers, 2 slots, 2 voted producers, a
  threshold of 2, two versions, two hardfork votes and 6 blocks. That is
  three schedule updates, enough for the following cases:
  - a majority is gained and then lost;
  - ties are broken by name;
  - a producer is excepted while it is scheduled;
  - the schedule is degenerate.

  Votes are 0 or 2, so some producers have no votes and the by-vote
  listing stops before them. The paging property runs with limits 2 and 3.
- **Ledger.** There are two accounts (one of them Root), one fund, amounts
  of 1, one request id, months of 1, interests {-1, 0, 100}, a time up to 2
  and a supply up to 3. This reaches:
  - every evaluator;
  - a duplicate request id;
  - a conclusion before maturity;
  - an interest cell that staking rejects.

  A second request id multiplies the state space by about 100 without
  adding a new case. The `ledger_fund_withdraw_list` run has a second fund,
  `bonus`, whose name sorts before `deposit`, so the rows of the two funds
  interleave in the `by_complete_from` order.

- **Recovery.** There are two accounts. One is a genesis account and also
  the top producer; the other can be created. There are three authorities:
  the genesis key, an open one (threshold 0), and one that names the second
  account. There are two keys: the genesis authority's key, and a key that
  the naming authority accepts as an alternative to the second account's
  active authority. The signature depth bound is the code's 2, so a chain
  of account atoms is cut inside the bound. The time runs from 1 to 3, with a cooldown of 0 ticks, a request
  expiration of 1 and a recovery period of 1. The history holds at most two
  rows. This reaches:
  - recovery by the top producer and by a partner;
  - a request that names an account not yet created;
  - cancellation and change of a request;
  - a request removed by the sweep at exactly its `expires` time, and a
    history row kept at exactly the recovery period and removed one tick
    later;
  - recovery from an old owner;
  - an update in the same tick as a recovery;
  - an account whose active authority names itself, so it can sign only
    through its key or its owner authority.

  The `recovery` run sets `VIEW RecoveryView`, which leaves `published`
  out of the state that TLC compares. No guard reads the last published
  operation, and the action properties read only `published'`, which TLC
  checks on every step it generates. Leaving `published` out therefore
  merges states that have the same successors, and loses no step. The run
  reaches 77,009 distinct states.
- **AccountRequests.** There are three accounts, one of them genesis, and
  one auth type. This reaches every branch, including a change request
  naming an account created later. Up to three `account_auth` rows exist,
  so pages of 1 and 2 rows split the list at every boundary. The time is
  held at genesis (`MaxTime` 1). No property of this run reads the time,
  and the sweep's loop is covered by `recovery_partner`. `VIEW RequestsView`
  leaves `published` out of the compared state, for the same reason as in
  `recovery`.
- **Recovery partner.** There are two accounts, a recovery period of 2
  and times 1 to 4. Within that window a request can be filed, retargeted
  one tick later, and become due both at its first date and at its
  restarted date.
- **CustomOps.** There is one cell, values 0 to 2, and three inner
  operations, two of which write different values. Batches are up to 3
  long, so a cell is written twice and then a third operation fails.
  There are three outer declarations and a registered and an unregistered
  id.

- **TxtTestGen.** There are two pool threads, the smallest pool in which
  two handlers run at once, and two timer expiries, so that three sends
  can be queued. Stop from the API can come at any point, including
  before start (the `plugin_shutdown` case). The model covers one
  generation cycle.

Only `txt_test_gen` assumes fairness. Each pool thread's steps, and each
caller's `stop_generation` steps, are weakly fair: they are OS threads that
the scheduler keeps running. The timer's expiry is not fair, and no run
relies on it. The `txt_test_gen` cfgs turn off deadlock checking, because
generation really does stop for good, either after `stop_generation` or
when the node ends. `StopCompletes` is the property that says no join
waits forever.

## Not modelled, and why

- `database.cpp`, chainbase and the genesis code are not in the tree. The
  pipeline, the undo sessions and the adjust helpers are modelled only where
  the spec describes them, and only as far as the modules above need.
- The following change no state, or are pure I/O, or are formatting:
  - the query APIs other than those listed under LedgerQueries,
    BobserverQueries, AccountOps, AccountRequestOps and AccountSigning. Block,
    transaction and history queries read objects whose code is not in the
    tree. `get_balance_rank` ranks rows the models keep unordered. The rest
    format single objects. The statistics plugin is also left out;
  - `raw_block`;
  - JSON and memo handling.
- In the authority resolver, the following are not modelled:
  - posting authorities;
  - the recovery of keys from signatures;
  - the required-authority sets of operations other than a transfer.

  `get_required_signatures` is modelled as returning a smallest covering
  key set, which is what spec section 4.2 promises. The greedy removal of
  `sign_state::remove_unused_signatures` is not in the tree.
- In the account evaluators, the following are data that no modelled
  guard reads:
  - posting authorities, memo keys and JSON metadata;
  - the `SIGMAENGINE_TEMP_ACCOUNT` check, since no model account is the
    temp account;
  - the dates and tokens of the filed request rows.

  `reset_account` and `set_reset_account` always fail and change nothing.
- The 8192-byte size checks of the custom evaluators are on payload length,
  which the model does not keep.
- Two issues in the balance evaluators have no run of their own. Both are
  listed as hazards in `PROJECT.json`:
  - `conclusion_transfer_savings` has no maturity check;
  - `staking_fund` promises interest that it never funds.

  The Ledger model keeps both behaviours, so its invariants are checked
  over them.
- Virtual operations other than the shutdown set (for example the
  fill_savings and fill_staking records) are not modelled. Each is a record
  in the operation log that no evaluator reads.

## Plan

1. **Request-id history for Ledger.** This covers the spec's monotonically
   increasing ids.
2. **TxtTestGen restarts.** Allow a second generation cycle. The pool
   vector would keep the joined threads and the deleted work pointer.
3. **An exact 64-bit xorshift operator**, checked against the offset
   abstraction over bounded head times.
