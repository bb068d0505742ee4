----------------------------- MODULE LedgerOps -----------------------------
(***************************************************************************)
(* The ledger operations as the data a transaction carries.  A step takes *)
(* one operation, runs its validate() (sigmaengine_operations.cpp), hands  *)
(* it to the evaluator registered for its type (evaluator_impl::apply,     *)
(* evaluator.hpp) and publishes it, with the virtual operations the        *)
(* evaluator pushed, to the history consumers.  Which accounts a consumer *)
(* files an operation under is ImpactedAccounts.                           *)
(*                                                                         *)
(* A failing validate() or evaluator assertion rejects the operation and  *)
(* its transaction's undo session leaves the state as it was, so the step *)
(* is disabled.  The application loop that calls validate() before the    *)
(* evaluator and emits the notifications is database.cpp, which is not in  *)
(* the tree; its order is the one of spec section 4.5.                     *)
(***************************************************************************)
EXTENDS Ledger, ImpactedAccounts

CONSTANTS
    OpUserTypes, \* usertype values an operation may carry (uint8)
    OpMonths,    \* month values an operation may carry (uint8)
    Completes    \* complete times a transfer_savings may carry

ASSUME {u \in OpUserTypes : u \in 0..1} \subseteq UserTypes
ASSUME {m \in OpMonths : m \in 1..12} \subseteq Months

VARIABLE
    published    \* the last operation applied and the virtual operations
                 \* it pushed, as the history consumers see them

opsVars == <<vars, published>>

(* The ledger operations of sigmaengine_operations.hpp, with the fields   *)
(* the evaluators read.  Memos and symbols are left out: every amount is  *)
(* SGT, which validate() requires where it checks the symbol.             *)
TransferOps ==
    [type : {"transfer"}, from : Accounts, to : Accounts, amount : Amounts]

PrintBurnOps ==
    [type : {"print", "burn"}, root : Accounts, account : Accounts,
     amount : Amounts]

SavingsOps ==
    [type : {"transfer_savings"}, from : Accounts, to : Accounts,
     amount : Amounts, request_id : RequestIds, complete : Completes]
    \cup [type : {"cancel_transfer_savings"}, from : Accounts, to : Accounts,
          amount : Amounts, request_id : RequestIds]
    \cup [type : {"conclusion_transfer_savings"}, from : Accounts,
          to : Accounts, request_id : RequestIds]

StakingOps ==
    [type : {"staking_fund"}, from : Accounts, fund_name : Funds,
     request_id : RequestIds, amount : Amounts, usertype : OpUserTypes,
     month : OpMonths]
    \cup [type : {"conclusion_staking"}, root : Accounts, from : Accounts,
          fund_name : Funds, request_id : RequestIds]
    \cup [type : {"return_staking_fund"}, root : Accounts, fund_name : Funds,
          request_id : RequestIds, to : Accounts]

FundOps ==
    [type : {"transfer_fund"}, from : Accounts, fund_name : Funds,
     amount : Amounts]
    \cup [type : {"set_fund_interest"}, root : Accounts, fund_name : Funds,
          usertype : OpUserTypes, month : OpMonths,
          percent_interest : Interests]

Ops == TransferOps \cup PrintBurnOps \cup SavingsOps \cup StakingOps \cup FundOps

(* The validate() methods.  Account names are model values and always    *)
(* valid, fund names are never empty, a request_id is unsigned and so     *)
(* never negative, and memos are not modelled; what remains are the       *)
(* amount, usertype and month checks.                                      *)
TransferValidate(op) == op.amount > 0
PrintBurnValidate(op) == op.amount > 0
TransferSavingsValidate(op) == op.amount > 0
StakingFundValidate(op) ==
    /\ op.amount > 0
    /\ op.usertype \in 0..1
    /\ op.month \in 1..12
TransferFundValidate(op) == op.amount > 0
SetFundInterestValidate(op) == op.usertype \in 0..1 /\ op.month \in 1..12

\* operation_validate: the validate() of the operation's type; the
\* cancellation, conclusion and payout operations only check names.
Validate(op) ==
    CASE op.type = "transfer" -> TransferValidate(op)
      [] op.type \in {"print", "burn"} -> PrintBurnValidate(op)
      [] op.type = "transfer_savings" -> TransferSavingsValidate(op)
      [] op.type = "staking_fund" -> StakingFundValidate(op)
      [] op.type = "transfer_fund" -> TransferFundValidate(op)
      [] op.type = "set_fund_interest" -> SetFundInterestValidate(op)
      [] OTHER -> TRUE

(* evaluator_impl::apply: the evaluator registered for the operation's    *)
(* type runs do_apply on it.                                               *)
Apply(op) ==
    CASE op.type = "transfer" -> Transfer(op.from, op.to, op.amount)
      [] op.type = "print" -> PrintAsset(op.root, op.account, op.amount)
      [] op.type = "burn" -> Burn(op.root, op.account, op.amount)
      [] op.type = "transfer_savings" ->
            TransferSavings(op.from, op.to, op.amount, op.request_id,
                            op.complete)
      [] op.type = "cancel_transfer_savings" ->
            CancelTransferSavings(op.from, op.to, op.amount, op.request_id)
      [] op.type = "conclusion_transfer_savings" ->
            ConclusionTransferSavings(op.from, op.to, op.request_id)
      [] op.type = "staking_fund" ->
            StakingFund(op.from, op.fund_name, op.amount, op.request_id,
                        op.usertype, op.month)
      [] op.type = "conclusion_staking" ->
            ConclusionStaking(op.root, op.from, op.fund_name, op.request_id)
      [] op.type = "return_staking_fund" ->
            ReturnStakingFund(op.root, op.to, op.fund_name, op.request_id)
      [] op.type = "transfer_fund" ->
            TransferFund(op.from, op.fund_name, op.amount)
      [] op.type = "set_fund_interest" ->
            SetFundInterest(op.root, op.fund_name, op.usertype, op.month,
                            op.percent_interest)

\* Mutant: return_staking_fund pushes no fill_staking_fund.
VirtualOpsNoReturnFill(op) ==
    CASE op.type = "conclusion_transfer_savings" ->
            {[type |-> "fill_transfer_savings", from |-> op.from, to |-> op.to]}
      [] op.type = "conclusion_staking" ->
            {[type |-> "fill_staking_fund", from |-> op.from]}
      [] OTHER -> {}

(* The virtual operations the evaluators push: conclusion_transfer_savings *)
(* a fill_transfer_savings of the row (whose to equals op.to), and both   *)
(* payouts a fill_staking_fund naming the account paid, dwo.from for      *)
(* conclusion_staking and op.to for return_staking_fund.                  *)
VirtualOps(op) ==
    CASE op.type = "conclusion_transfer_savings" ->
            {[type |-> "fill_transfer_savings", from |-> op.from, to |-> op.to]}
      [] op.type = "conclusion_staking" ->
            {[type |-> "fill_staking_fund", from |-> op.from]}
      [] op.type = "return_staking_fund" ->
            {[type |-> "fill_staking_fund", from |-> op.to]}
      [] OTHER -> {}

\* The accounts whose history receives a published operation.
HistoryAccounts(p) ==
    Impacted(p.op) \cup UNION {Impacted(v) : v \in p.virtual}

NoOp == [type |-> "none"]

OpsInit == Init /\ published = [op |-> NoOp, virtual |-> {}]

(* One operation of a transaction: validated, applied and published.      *)
ApplyOperation(op) ==
    /\ Validate(op)
    /\ Apply(op)
    /\ published' = [op |-> op, virtual |-> VirtualOps(op)]

OpsNext ==
    \/ \E op \in Ops : ApplyOperation(op)
    \/ Tick /\ UNCHANGED published

OpsSpec == OpsInit /\ [][OpsNext]_opsVars

-----------------------------------------------------------------------------
SavingsRowsOf(a) == {w \in savingsWithdraws : a \in {w.from, w.to}}
StakingRowsOf(a) == {w \in fundWithdraws : w.from = a}

\* The step changes what an account holds or has pending.
Touched(a) ==
    \/ balance'[a] # balance[a]
    \/ savings'[a] # savings[a]
    \/ SavingsRowsOf(a)' # SavingsRowsOf(a)
    \/ StakingRowsOf(a)' # StakingRowsOf(a)

(* The history of an account is complete: every account whose liquid or  *)
(* savings balance, or whose pending savings or staking rows, an applied  *)
(* operation changes is named by get_impacted_account_visitor for that    *)
(* operation or for a virtual operation its evaluator pushed.  The payout *)
(* of return_staking_fund goes to op.to, which only the pushed            *)
(* fill_staking_fund names.                                                *)
HistoryCoversChanges ==
    [][\A a \in Accounts : Touched(a) => a \in HistoryAccounts(published')]_opsVars

=============================================================================
