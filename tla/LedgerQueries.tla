---------------------------- MODULE LedgerQueries ----------------------------
(***************************************************************************)
(* The database_api queries over the pending savings and staking rows     *)
(* (app/database_api.cpp), as operators on the state of LedgerOps.  Each  *)
(* query walks an ordered index of sigmaengine_objects.hpp: it positions  *)
(* an iterator (begin() or lower_bound of a key prefix) and pushes rows    *)
(* while a condition holds.  The rows of the model carry no object id;    *)
(* where the id would break a tie between two keys the order is left to  *)
(* the sort, and the properties compare the rows returned as a set.        *)
(***************************************************************************)
EXTENDS LedgerOps, SequencesExt

CONSTANTS
    AccountRank, \* the order of account names (fixed_string comparison)
    FundRank     \* the order of fund names (shared_string comparison)

ASSUME \A a \in Accounts : AccountRank[a] \in Nat
ASSUME \A f \in Funds : FundRank[f] \in Nat

\* The limit get_fund_withdraw_list asserts.
ListLimitMax == 10000

(* The composite keys compare lexicographically, component by component. *)
RECURSIVE KeyLess(_, _)
KeyLess(k1, k2) ==
    /\ k1 # <<>>
    /\ \/ Head(k1) < Head(k2)
       \/ Head(k1) = Head(k2) /\ KeyLess(Tail(k1), Tail(k2))

(* The composite keys of the savings_withdraw_index and                  *)
(* fund_withdraw_index indices the queries walk.                           *)
IndexKey(index, w) ==
    CASE index = "by_from_rid" -> <<AccountRank[w.from], w.requestId>>
      [] index = "by_to_complete" -> <<AccountRank[w.to], w.complete>>
      [] index = "by_complete_from" ->
            <<w.complete, AccountRank[w.from], FundRank[w.fund]>>
      [] index = "by_from_complete" ->
            <<AccountRank[w.from], FundRank[w.fund], w.complete>>

\* The rows of a multi_index in the order of one of its indices.
IndexOrder(rows, index) ==
    SetToSortSeq(rows, LAMBDA x, y : KeyLess(IndexKey(index, x), IndexKey(index, y)))

\* lower_bound( bound ): the rows from the first whose key prefix is not
\* below bound.
LowerBound(seq, index, bound) ==
    LET Prefix(r) == SubSeq(IndexKey(index, r), 1, Len(bound))
        first == SelectInSeq(seq, LAMBDA r : ~KeyLess(Prefix(r), bound))
    IN  IF first = 0 THEN <<>> ELSE SubSeq(seq, first, Len(seq))

\* The while loop: rows are pushed until the first whose fields differ
\* from match.
TakeWhile(seq, match) ==
    LET stop == SelectInSeq(seq, LAMBDA r : \E f \in DOMAIN match : r[f] # match[f])
    IN  IF stop = 0 THEN seq ELSE SubSeq(seq, 1, stop - 1)

(* savings_withdraw_api_obj and fund_withdraw_api_obj: the rows as the   *)
(* queries return them, the fields copied (memo, split-pay fields and id  *)
(* are not modelled) and the fund name converted to a string.              *)
SavingsWithdrawApiObj(w) ==
    [from |-> w.from, to |-> w.to, request_id |-> w.requestId,
     amount |-> w.amount, complete |-> w.complete]

FundWithdrawApiObj(w) ==
    [from |-> w.from, fund_name |-> w.fund, request_id |-> w.requestId,
     amount |-> w.amount, complete |-> w.complete]

(* get_common_fund: the common_fund_object found by name (the FC_ASSERT   *)
(* never fails for a fund of Funds, which genesis creates); its api object *)
(* is the object itself.                                                   *)
GetCommonFund(name) ==
    [name |-> name, fund_balance |-> fund[name].balance,
     fund_withdraw_ready |-> fund[name].ready,
     percent_interest |-> fund[name].interest]

-----------------------------------------------------------------------------
(* get_savings_withdraw_from: lower_bound( account ) on by_from_rid, then *)
(* the rows while from == account.                                         *)
GetSavingsWithdrawFrom(account) ==
    LET scan == TakeWhile(LowerBound(IndexOrder(savingsWithdraws, "by_from_rid"),
                                     "by_from_rid", <<AccountRank[account]>>),
                          [from |-> account])
    IN  [i \in DOMAIN scan |-> SavingsWithdrawApiObj(scan[i])]

(* get_savings_withdraw_to: lower_bound( account ) on by_to_complete,     *)
(* then the rows while to == account.                                      *)
GetSavingsWithdrawTo(account) ==
    LET scan == TakeWhile(LowerBound(IndexOrder(savingsWithdraws, "by_to_complete"),
                                     "by_to_complete", <<AccountRank[account]>>),
                          [to |-> account])
    IN  [i \in DOMAIN scan |-> SavingsWithdrawApiObj(scan[i])]

\* Mutant: the scan starts at begin() instead of lower_bound( account, fund ).
GetFundWithdrawFromAtBegin(fundName, account) ==
    LET scan == TakeWhile(IndexOrder(fundWithdraws, "by_from_complete"),
                          [from |-> account, fund |-> fundName])
    IN  [i \in DOMAIN scan |-> FundWithdrawApiObj(scan[i])]

(* get_fund_withdraw_from: lower_bound( (account, fund_name) ) on         *)
(* by_from_complete, then the rows while from == account and the fund    *)
(* name matches.                                                           *)
GetFundWithdrawFrom(fundName, account) ==
    LET scan == TakeWhile(LowerBound(IndexOrder(fundWithdraws, "by_from_complete"),
                                     "by_from_complete",
                                     <<AccountRank[account], FundRank[fundName]>>),
                          [from |-> account, fund |-> fundName])
    IN  [i \in DOMAIN scan |-> FundWithdrawApiObj(scan[i])]

(* get_fund_withdraw_list: a limit above 10000 fails the FC_ASSERT.      *)
FundWithdrawListAccepts(limit) == limit <= ListLimitMax

(* Otherwise the scan starts at begin() of by_complete_from and pushes    *)
(* rows while the fund name matches and fewer than limit were pushed.     *)
GetFundWithdrawList(fundName, limit) ==
    LET scan == TakeWhile(IndexOrder(fundWithdraws, "by_complete_from"),
                          [fund |-> fundName])
        kept == SubSeq(scan, 1, IF Len(scan) < limit THEN Len(scan) ELSE limit)
    IN  [i \in DOMAIN kept |-> FundWithdrawApiObj(kept[i])]

-----------------------------------------------------------------------------
\* A query returns exactly the API objects of a set of rows, each once.
Lists(seq, objs) == ToSet(seq) = objs /\ Len(seq) = Cardinality(objs)

SavingsObjs(rows) == {SavingsWithdrawApiObj(w) : w \in rows}
FundObjs(rows) == {FundWithdrawApiObj(w) : w \in rows}

(* The per-account queries a wallet uses to show pending withdrawals     *)
(* return every row of the account and nothing else, whatever rows of     *)
(* other accounts and funds sort around them: get_savings_withdraw_from   *)
(* and _to list the account's outgoing and incoming escrows, the incoming *)
(* ones add up to its savings balance, and get_fund_withdraw_from lists   *)
(* the account's stakes in a fund.                                         *)
PendingQueriesExact ==
    \A a \in Accounts :
       /\ Lists(GetSavingsWithdrawFrom(a),
                SavingsObjs({w \in savingsWithdraws : w.from = a}))
       /\ Lists(GetSavingsWithdrawTo(a),
                SavingsObjs({w \in savingsWithdraws : w.to = a}))
       /\ RowSum(ToSet(GetSavingsWithdrawTo(a))) = savings[a]
       /\ \A f \in Funds :
             Lists(GetFundWithdrawFrom(f, a),
                   FundObjs({w \in fundWithdraws : w.from = a /\ w.fund = f}))

(* The fund_withdraw_ready get_common_fund reports for a fund is what    *)
(* the fund owes: the amounts of the stakes get_fund_withdraw_from lists,  *)
(* added over every account.  staking_fund adds the promise, and both     *)
(* conclusion_staking and return_staking_fund take the same amount back   *)
(* together with the row.                                                  *)
FundReadyMatchesStakes ==
    \A f \in Funds :
       GetCommonFund(f).fund_withdraw_ready =
          MapThenSumSet(LAMBDA a : RowSum(ToSet(GetFundWithdrawFrom(f, a))), Accounts)

(* get_fund_withdraw_list with a limit above the number of pending rows   *)
(* lists every pending stake of the fund, which is what a caller paying   *)
(* out matured stakes relies on.                                           *)
FundWithdrawListComplete ==
    LET limit == Cardinality(fundWithdraws) + 1
    IN  \A f \in Funds :
           FundWithdrawListAccepts(limit) =>
              Lists(GetFundWithdrawList(f, limit),
                    FundObjs({w \in fundWithdraws : w.fund = f}))

=============================================================================
