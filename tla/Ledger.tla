------------------------------- MODULE Ledger -------------------------------
(***************************************************************************)
(* The balance-moving evaluators of sigmaengine_evaluator.cpp: transfer,   *)
(* print and burn, the savings escrow (transfer_savings, its cancellation  *)
(* and conclusion) and the staking funds (staking_fund, conclusion_staking,*)
(* return_staking_fund, transfer_fund, set_fund_interest).                 *)
(*                                                                         *)
(* Every action is one operation applied by its evaluator.  A failed      *)
(* FC_ASSERT aborts the operation and the enclosing transaction's undo     *)
(* session restores the state, so a failing operation is a disabled       *)
(* action.  The database helpers the evaluators call (adjust_balance,      *)
(* adjust_savings_balance, adjust_supply, adjust_fund_balance, ...) are    *)
(* in database.cpp, which is not part of the tree; they are modelled from  *)
(* the specification: an adjustment that would make a balance negative    *)
(* fails the operation.                                                    *)
(***************************************************************************)
EXTENDS Integers, FiniteSets, Functions, FiniteSetsExt

CONSTANTS
    Accounts,     \* account names
    Root,         \* SIGMAENGINE_ROOT_ACCOUNT
    Funds,        \* common fund names
    Amounts,      \* amounts an operation may carry
    RequestIds,   \* request ids an operation may carry
    UserTypes,    \* usertype values that pass validate() (0..1)
    Months,       \* month values that pass validate() (1..12)
    Interests,    \* percent_interest values set_fund_interest may store
    MonthLength,  \* fc::days(30), in ticks of head block time
    GenesisSupply,\* the supply genesis gives to Root
    MaxTime,      \* bound on head block time
    MaxSupply     \* bound on the current supply

ASSUME Root \in Accounts /\ GenesisSupply \in Nat
ASSUME Amounts \subseteq Nat

VARIABLES
    balance,       \* liquid balance of each account
    savings,       \* savings balance of each account
    supply,        \* current supply (dynamic global properties)
    savingsWithdraws, \* savings_withdraw_object rows
    fund,          \* common_fund_object per fund name
    fundWithdraws, \* fund_withdraw_object rows
    now            \* head_block_time

vars == <<balance, savings, supply, savingsWithdraws, fund, fundWithdraws, now>>

SavingsWithdrawRec ==
    [from : Accounts, to : Accounts, amount : Nat, requestId : RequestIds,
     complete : Nat]
FundWithdrawRec ==
    [from : Accounts, fund : Funds, amount : Int, requestId : RequestIds,
     complete : Nat]
FundRec ==
    [balance : Int, ready : Int, interest : [UserTypes \X Months -> Interests]]

-----------------------------------------------------------------------------
(* Genesis (init_genesis, database.cpp): Root holds the whole supply, no   *)
(* pending rows, every fund empty with a zero interest table.              *)
Init ==
    /\ balance = [a \in Accounts |-> IF a = Root THEN GenesisSupply ELSE 0]
    /\ savings = [a \in Accounts |-> 0]
    /\ supply = GenesisSupply
    /\ savingsWithdraws = {}
    /\ fund = [f \in Funds |-> [balance |-> 0, ready |-> 0,
                                interest |-> [c \in UserTypes \X Months |-> 0]]]
    /\ fundWithdraws = {}
    /\ now = 0

-----------------------------------------------------------------------------
(* database::adjust_balance / adjust_savings_balance: add delta, failing  *)
(* the operation when the result would be negative.                        *)
AdjustBalance(b, a, delta) ==
    [b EXCEPT ![a] = @ + delta]
CanAdjust(b, a, delta) == b[a] + delta >= 0

\* The root check shared by print, burn, conclusion_staking,
\* return_staking_fund and set_fund_interest: op.root must name the account
\* SIGMAENGINE_ROOT_ACCOUNT (same name and memo key).
IsRoot(r) == r = Root

\* db.get_savings_withdraw( from, request_id ): the by_from_rid lookup.
SavingsWithdrawsOf(from, rid) ==
    {w \in savingsWithdraws : w.from = from /\ w.requestId = rid}

\* db.get_fund_withdraw( from, fund_name, request_id ): the by_from_id lookup.
FundWithdrawsOf(from, f, rid) ==
    {w \in fundWithdraws : w.from = from /\ w.fund = f /\ w.requestId = rid}

\* asset( double ): the double amount * percent / 100 truncated toward zero.
TruncDiv(x, d) == IF x >= 0 THEN x \div d ELSE -((-x) \div d)

-----------------------------------------------------------------------------
(* transfer_evaluator: liquid funds move from one account to another.      *)
Transfer(from, to, amount) ==
    /\ balance[from] >= amount
    /\ balance' = AdjustBalance(AdjustBalance(balance, from, -amount), to, amount)
    /\ UNCHANGED <<savings, supply, savingsWithdraws, fund, fundWithdraws, now>>

(* print_evaluator: the root credits an account and raises the supply.    *)
PrintAsset(root, account, amount) ==
    /\ IsRoot(root)
    /\ balance' = AdjustBalance(balance, account, amount)
    /\ supply' = supply + amount
    /\ UNCHANGED <<savings, savingsWithdraws, fund, fundWithdraws, now>>

\* Mutant: the balance check of adjust_balance skipped for burn.
BurnUnchecked(root, account, amount) ==
    /\ IsRoot(root)
    /\ balance' = AdjustBalance(balance, account, -amount)
    /\ supply' = supply - amount
    /\ UNCHANGED <<savings, savingsWithdraws, fund, fundWithdraws, now>>

\* Mutant: the supply adjustment of burn dropped.
BurnKeepsSupply(root, account, amount) ==
    /\ IsRoot(root)
    /\ CanAdjust(balance, account, -amount)
    /\ balance' = AdjustBalance(balance, account, -amount)
    /\ UNCHANGED <<supply, savings, savingsWithdraws, fund, fundWithdraws, now>>

(* burn_evaluator: the root debits an account and lowers the supply; the  *)
(* only balance check is the one inside adjust_balance.                    *)
Burn(root, account, amount) ==
    /\ IsRoot(root)
    /\ CanAdjust(balance, account, -amount)
    /\ balance' = AdjustBalance(balance, account, -amount)
    /\ supply' = supply - amount
    /\ UNCHANGED <<savings, savingsWithdraws, fund, fundWithdraws, now>>

\* Mutant: the escrow credited to the savings of from instead of to.
TransferSavingsToSender(from, to, amount, rid, complete) ==
    /\ balance[from] >= amount
    /\ complete > now
    /\ SavingsWithdrawsOf(from, rid) = {}
    /\ balance' = AdjustBalance(balance, from, -amount)
    /\ savings' = AdjustBalance(savings, from, amount)
    /\ savingsWithdraws' = savingsWithdraws \cup
          {[from |-> from, to |-> to, amount |-> amount, requestId |-> rid,
            complete |-> complete]}
    /\ UNCHANGED <<supply, fund, fundWithdraws, now>>

(* transfer_savings_evaluator: liquid of from goes to the savings of to,  *)
(* and a withdraw row keyed (from, request_id) records it.  A second row   *)
(* with the same key violates the by_from_rid unique index and fails.     *)
TransferSavings(from, to, amount, rid, complete) ==
    /\ balance[from] >= amount
    /\ complete > now
    /\ SavingsWithdrawsOf(from, rid) = {}
    /\ balance' = AdjustBalance(balance, from, -amount)
    /\ savings' = AdjustBalance(savings, to, amount)
    /\ savingsWithdraws' = savingsWithdraws \cup
          {[from |-> from, to |-> to, amount |-> amount, requestId |-> rid,
            complete |-> complete]}
    /\ UNCHANGED <<supply, fund, fundWithdraws, now>>

(* cancel_transfer_savings_evaluator: the escrow goes back to from.       *)
CancelTransferSavings(from, to, amount, rid) ==
    \E swo \in SavingsWithdrawsOf(from, rid) :
       /\ swo.to = to
       /\ amount >= swo.amount
       /\ savings[swo.to] >= swo.amount
       /\ balance' = AdjustBalance(balance, swo.from, swo.amount)
       /\ savings' = AdjustBalance(savings, swo.to, -swo.amount)
       /\ savingsWithdraws' = savingsWithdraws \ {swo}
       /\ UNCHANGED <<supply, fund, fundWithdraws, now>>

(* conclusion_transfer_savings_evaluator: the escrow is released into the *)
(* liquid balance of to.  The fill_transfer_savings virtual operation is   *)
(* not modelled.                                                           *)
ConclusionTransferSavings(from, to, rid) ==
    \E swo \in SavingsWithdrawsOf(from, rid) :
       /\ swo.to = to
       /\ savings[swo.to] >= swo.amount
       /\ balance' = AdjustBalance(balance, swo.to, swo.amount)
       /\ savings' = AdjustBalance(savings, swo.to, -swo.amount)
       /\ savingsWithdraws' = savingsWithdraws \ {swo}
       /\ UNCHANGED <<supply, fund, fundWithdraws, now>>

(* staking_fund_evaluator: liquid of from goes into the fund; the row      *)
(* promises amount plus the interest of the (usertype, month) cell, and    *)
(* that promise is added to the fund's fund_withdraw_ready.                *)
StakingAmount(amount, percent) == amount + TruncDiv(amount * percent, 100)

\* Mutant: fund_withdraw_ready raised by the staked amount, not the promise.
StakingFundReadyAmount(from, f, amount, rid, usertype, month) ==
    LET percent == fund[f].interest[<<usertype, month>>]
        promised == StakingAmount(amount, percent)
    IN  /\ balance[from] >= amount
        /\ percent > -1
        /\ FundWithdrawsOf(from, f, rid) = {}
        /\ balance' = AdjustBalance(balance, from, -amount)
        /\ fund' = [fund EXCEPT ![f].balance = @ + amount,
                                ![f].ready = @ + amount]
        /\ fundWithdraws' = fundWithdraws \cup
              {[from |-> from, fund |-> f, amount |-> promised,
                requestId |-> rid, complete |-> now + MonthLength * month]}
        /\ UNCHANGED <<savings, supply, savingsWithdraws, now>>

StakingFund(from, f, amount, rid, usertype, month) ==
    LET percent == fund[f].interest[<<usertype, month>>]
        promised == StakingAmount(amount, percent)
    IN  /\ balance[from] >= amount
        /\ percent > -1
        /\ FundWithdrawsOf(from, f, rid) = {}
        /\ balance' = AdjustBalance(balance, from, -amount)
        /\ fund' = [fund EXCEPT ![f].balance = @ + amount,
                                ![f].ready = @ + promised]
        /\ fundWithdraws' = fundWithdraws \cup
              {[from |-> from, fund |-> f, amount |-> promised,
                requestId |-> rid, complete |-> now + MonthLength * month]}
        /\ UNCHANGED <<savings, supply, savingsWithdraws, now>>

(* The payout shared by conclusion_staking_evaluator (row looked up by    *)
(* op.from) and return_staking_fund_evaluator (row looked up by op.to):    *)
(* the fund pays the promised amount to the row's owner.                   *)
PayStaking(owner, f, rid) ==
    \E dwo \in FundWithdrawsOf(owner, f, rid) :
       /\ fund[f].balance >= dwo.amount
       /\ balance' = AdjustBalance(balance, owner, dwo.amount)
       /\ fund' = [fund EXCEPT ![f].balance = @ - dwo.amount,
                               ![f].ready = @ - dwo.amount]
       /\ fundWithdraws' = fundWithdraws \ {dwo}
       /\ UNCHANGED <<savings, supply, savingsWithdraws, now>>

ConclusionStaking(root, from, f, rid) ==
    /\ IsRoot(root)
    /\ PayStaking(from, f, rid)

ReturnStakingFund(root, to, f, rid) ==
    /\ IsRoot(root)
    /\ PayStaking(to, f, rid)

(* transfer_fund_evaluator: liquid funds go into a fund with no row.      *)
TransferFund(from, f, amount) ==
    /\ balance[from] >= amount
    /\ fund' = [fund EXCEPT ![f].balance = @ + amount]
    /\ balance' = AdjustBalance(balance, from, -amount)
    /\ UNCHANGED <<savings, supply, savingsWithdraws, fundWithdraws, now>>

(* set_fund_interest_evaluator: the root overwrites one interest cell.    *)
SetFundInterest(root, f, usertype, month, percent) ==
    /\ IsRoot(root)
    /\ fund' = [fund EXCEPT ![f].interest[<<usertype, month>>] = percent]
    /\ UNCHANGED <<balance, savings, supply, savingsWithdraws, fundWithdraws, now>>

(* The head block time advances between blocks.                          *)
Tick ==
    /\ now' = now + 1
    /\ UNCHANGED <<balance, savings, supply, savingsWithdraws, fund, fundWithdraws>>

(* The next-state relation, which applies these actions to operations *)
(* carried by transactions, is in LedgerOps.                            *)

-----------------------------------------------------------------------------
(* Bounds of the model: a state constraint, so that no action is disabled *)
(* by the bound itself.                                                    *)
LedgerBound == now <= MaxTime /\ supply <= MaxSupply

(* Every balance, row and fund field holds a value of its type; balances *)
(* and supply are never negative, as the adjust helpers ensure.            *)
TypeOK ==
    /\ balance \in [Accounts -> Nat]
    /\ savings \in [Accounts -> Nat]
    /\ supply \in Nat
    /\ savingsWithdraws \subseteq SavingsWithdrawRec
    /\ fund \in [Funds -> FundRec]
    /\ fundWithdraws \subseteq FundWithdrawRec
    /\ now \in Nat

RowSum(rows) == MapThenSumSet(LAMBDA w : w.amount, rows)

(* Conservation (spec section 8): the liquid balances, the savings        *)
(* balances and the fund balances together always equal the supply; only  *)
(* print and burn change the supply, and every other evaluator moves      *)
(* value between the three pools.                                          *)
Conservation ==
    SumFunction(balance) + SumFunction(savings)
        + SumFunction([f \in Funds |-> fund[f].balance]) = supply

(* The savings balance of every account is exactly the sum of the pending *)
(* savings_withdraw rows addressed to it, so a cancellation or conclusion  *)
(* of any row always finds its escrow intact (the savings_balance check of *)
(* cancel_transfer_savings and conclusion_transfer_savings never fails).   *)
SavingsBacked ==
    \A a \in Accounts :
       savings[a] = RowSum({w \in savingsWithdraws : w.to = a})

=============================================================================
