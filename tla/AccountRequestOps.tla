--------------------------- MODULE AccountRequestOps ---------------------------
(***************************************************************************)
(* The operations of AccountRequests as the data a transaction carries,   *)
(* published to the history consumers, which file them under              *)
(* ImpactedAccounts, and the auth-token queries of database_api.cpp.  The  *)
(* validate() of these operations only checks account names, which model   *)
(* values always pass.                                                     *)
(***************************************************************************)
EXTENDS Naturals, AccountRequests, ImpactedAccounts

VARIABLE
    published    \* the last operation applied, as the history consumers see
                 \* it; NoOp after the end of a block, which applies none

opsVars == <<vars, published>>

(* The operations of sigmaengine_operations.hpp, with the fields the      *)
(* evaluators read; authorities, extensions and the auth token are left   *)
(* out.                                                                    *)
ChangeRecoveryAccountOps ==
    [type : {"change_recovery_account"}, account_to_recover : Accounts,
     new_recovery_account : Accounts]

DeclineVotingRightsOps ==
    [type : {"decline_voting_rights"}, account : Accounts, decline : BOOLEAN]

AccountAuthOps ==
    [type : {"account_auth"}, account : Accounts, auth_type : AuthTypes]

RequestOpSet ==
    [type : {"account_create"}, creator : Accounts, new_account_name : Accounts]
    \cup ChangeRecoveryAccountOps \cup DeclineVotingRightsOps \cup AccountAuthOps

\* evaluator_impl::apply: the evaluator of the operation's type.
RequestApply(op) ==
    CASE op.type = "account_create" -> AccountCreate(op.creator, op.new_account_name)
      [] op.type = "change_recovery_account" ->
            ChangeRecoveryAccount(op.account_to_recover, op.new_recovery_account)
      [] op.type = "decline_voting_rights" ->
            DeclineVotingRights(op.account, op.decline)
      [] op.type = "account_auth" -> AccountAuth(op.account, op.auth_type)

NoOp == [type |-> "none"]

OpsInit == Init /\ published = NoOp

ApplyRequestOperation(op) ==
    /\ RequestApply(op)
    /\ published' = op

OpsNext ==
    \/ \E op \in RequestOpSet : ApplyRequestOperation(op)
    \/ Tick /\ published' = NoOp

OpsSpec == OpsInit /\ [][OpsNext]_opsVars

-----------------------------------------------------------------------------
\* The limit get_auth_token_list asserts.
AuthListLimitMax == 10000

\* account_auth_api_obj: a row as the query returns it (token and date are
\* not modelled).
AccountAuthApiObj(r) == [account |-> r[1], auth_type |-> r[2]]

\* Mutant: the skip loop passes one row more than from.
GetAuthTokenListSkipsOneMore(from, limit) ==
    LET rest == IF from + 1 >= Len(authRegs) THEN <<>>
                ELSE SubSeq(authRegs, from + 2, Len(authRegs))
        kept == SubSeq(rest, 1, IF Len(rest) < limit THEN Len(rest) ELSE limit)
    IN  [i \in DOMAIN kept |-> AccountAuthApiObj(kept[i])]

(* get_auth_token_list: walk by_id from begin(), skip from rows, then push *)
(* up to limit rows.                                                        *)
GetAuthTokenList(from, limit) ==
    LET rest == IF from >= Len(authRegs) THEN <<>>
                ELSE SubSeq(authRegs, from + 1, Len(authRegs))
        kept == SubSeq(rest, 1, IF Len(rest) < limit THEN Len(rest) ELSE limit)
    IN  [i \in DOMAIN kept |-> AccountAuthApiObj(kept[i])]

(* A client's offset paging: from 0, each next page from the previous one *)
(* plus limit, until a page shorter than limit.                            *)
RECURSIVE AuthPages(_, _, _)
AuthPages(from, limit, fuel) ==
    LET page == GetAuthTokenList(from, limit)
    IN  IF fuel = 0 \/ Len(page) < limit THEN page
        ELSE page \o AuthPages(from + limit, limit, fuel - 1)

-----------------------------------------------------------------------------
\* The step changes something recorded for account a.
RequestTouched(a) ==
    \/ (a \in exists') # (a \in exists)
    \/ recoveryAccount'[a] # recoveryAccount[a]
    \/ changeRequests'[a] # changeRequests[a]
    \/ (a \in declineRequests') # (a \in declineRequests)
    \/ {r \in AuthRows' : r[1] = a} # {r \in AuthRows : r[1] = a}

(* The request history is complete: an account whose existence, recovery  *)
(* partner, pending change of partner, pending decline or auth rows an    *)
(* applied operation (not the end-of-block processing, which no          *)
(* operation records) changes is one get_impacted_account_visitor files    *)
(* that operation under; account_auth has its own overload.                *)
RequestHistoryCoversChanges ==
    [][published' # NoOp =>
          \A a \in Accounts : RequestTouched(a) => a \in Impacted(published')]_opsVars

(* Paging get_auth_token_list by offset lists every account_auth row once, *)
(* in the order the evaluator created them, for any page size: the rows   *)
(* are only ever appended and refreshed in place, never removed.          *)
AuthTokenListPagesComplete ==
    \A limit \in 1..2 :
       /\ limit <= AuthListLimitMax
       /\ AuthPages(0, limit, Len(authRegs)) =
             [i \in DOMAIN authRegs |-> AccountAuthApiObj(authRegs[i])]

=============================================================================
