------------------------------ MODULE AccountOps ------------------------------
(***************************************************************************)
(* The account operations of Recovery as the data a transaction carries,  *)
(* and the database_api queries (app/database_api.cpp) a wallet uses to   *)
(* read the state they leave.  A step takes one operation, runs its        *)
(* validate() (sigmaengine_operations.cpp), hands it to its evaluator and *)
(* publishes it to the history consumers, which file it under             *)
(* ImpactedAccounts.  None of these evaluators pushes a virtual operation. *)
(* Names are model values and authorities model values whose key and      *)
(* account formats are valid, so validate_account_name and               *)
(* authority::validate() pass; what remains of validate() is the check of *)
(* recover_account, RecoverValid.                                          *)
(***************************************************************************)
EXTENDS Recovery, ImpactedAccounts

VARIABLE
    published    \* the last operation applied, as the history consumers see
                 \* it; NoOp after the end of a block, which applies none

opsVars == <<vars, published>>

(* The account operations of sigmaengine_operations.hpp, with the fields  *)
(* the evaluators read; account_update's absent optionals are NoChange.   *)
AccountCreateOps ==
    [type : {"account_create"}, creator : Accounts, new_account_name : Accounts,
     owner : Auths, active : Auths]

AccountUpdateOps ==
    [type : {"account_update"}, account : Accounts,
     owner : Auths \cup {NoChange}, active : Auths \cup {NoChange}]

RequestAccountRecoveryOps ==
    [type : {"request_account_recovery"}, recovery_account : Accounts,
     account_to_recover : Accounts, new_owner_authority : Auths]

RecoverAccountOps ==
    [type : {"recover_account"}, account_to_recover : Accounts,
     new_owner_authority : Auths, recent_owner_authority : Auths]

AccountOpSet ==
    AccountCreateOps \cup AccountUpdateOps \cup RequestAccountRecoveryOps
    \cup RecoverAccountOps

\* The validate() methods of the four operations.
AccountValidate(op) ==
    op.type = "recover_account" =>
       RecoverValid(op.new_owner_authority, op.recent_owner_authority)

\* evaluator_impl::apply: the evaluator of the operation's type.
AccountApply(op) ==
    CASE op.type = "account_create" ->
            AccountCreate(op.creator, op.new_account_name, op.owner, op.active)
      [] op.type = "account_update" ->
            AccountUpdate(op.account, op.owner, op.active)
      [] op.type = "request_account_recovery" ->
            RequestAccountRecovery(op.recovery_account, op.account_to_recover,
                                   op.new_owner_authority)
      [] op.type = "recover_account" ->
            RecoverAccount(op.account_to_recover, op.new_owner_authority,
                           op.recent_owner_authority)

NoOp == [type |-> "none"]

OpsInit == Init /\ published = NoOp

ApplyAccountOperation(op) ==
    /\ AccountValidate(op)
    /\ AccountApply(op)
    /\ published' = op

OpsNext ==
    \/ \E op \in AccountOpSet : ApplyAccountOperation(op)
    \/ Tick /\ published' = NoOp

OpsSpec == OpsInit /\ [][OpsNext]_opsVars

-----------------------------------------------------------------------------
(* account_api_obj, owner_authority_history_api_obj and                   *)
(* account_recovery_request_api_obj: the objects as the queries return    *)
(* them, with the modelled fields copied; account_api_obj also reads the *)
(* account's account_authority_object.  Ids, keys, metadata, balances and *)
(* post counters are not modelled.                                         *)
AccountApiObj(a) ==
    [name |-> a, owner |-> owner[a], active |-> active[a],
     last_owner_update |-> lastOwnerUpdate[a],
     recovery_account |-> recoveryAccount[a],
     last_account_recovery |-> lastAccountRecovery[a]]

OwnerAuthorityHistoryApiObj(h) ==
    [account |-> h.account, previous_owner_authority |-> h.previous,
     last_valid_time |-> h.lastValid]

AccountRecoveryRequestApiObj(a, req) ==
    [account_to_recover |-> a, new_owner_authority |-> req.auth,
     expires |-> req.expires]

\* An empty optional< api object >.
NoApiObj == [none |-> TRUE]

(* The queries.  lookup_account_names answers each name with the account  *)
(* or an empty optional; get_owner_history walks by_account    *)
(* from lower_bound( account ) while the row's account matches, and       *)
(* get_recovery_request finds the account's request or answers an empty   *)
(* optional.                                                                *)
LookupAccountNames(names) ==
    [n \in names |-> IF n \in exists THEN AccountApiObj(n) ELSE NoApiObj]

GetOwnerHistory(account) ==
    {OwnerAuthorityHistoryApiObj(h) : h \in {r \in history : r.account = account}}

GetRecoveryRequest(account) ==
    IF recoveryRequests[account] = NoRequest THEN NoApiObj
    ELSE AccountRecoveryRequestApiObj(account, recoveryRequests[account])

-----------------------------------------------------------------------------
\* The step changes something recorded for account a.
AccountTouched(a) ==
    \/ (a \in exists') # (a \in exists)
    \/ recoveryAccount'[a] # recoveryAccount[a]
    \/ owner'[a] # owner[a]
    \/ active'[a] # active[a]
    \/ recoveryRequests'[a] # recoveryRequests[a]
    \/ GetOwnerHistory(a)' # GetOwnerHistory(a)

(* The account history is complete: an account whose existence, recovery  *)
(* partner, owner or active authority, pending recovery request or owner  *)
(* history an applied operation (not the end-of-block cleanup, which no   *)
(* operation records) changes is one get_impacted_account_visitor         *)
(* files that operation under.  request_account_recovery is signed by the *)
(* recovery partner but changes the request of account_to_recover.        *)
AccountHistoryCoversChanges ==
    [][published' # NoOp =>
          \A a \in Accounts : AccountTouched(a) => a \in Impacted(published')]_opsVars

(* get_owner_history lists what recover_account can be given as proof:  *)
(* the owner authorities account a superseded within                      *)
(* SIGMAENGINE_OWNER_AUTH_RECOVERY_PERIOD, all of them and no older one,  *)
(* as the comment of recover_account_operation says, whichever of         *)
(* account_update and recover_account replaced them and however the      *)
(* end-of-block cleanup has pruned the history since.                     *)
OwnersListedByHistory ==
    \A a \in exists :
       {h.previous_owner_authority : h \in GetOwnerHistory(a)} =
          {r.previous : r \in {x \in supersededOwners :
                                 x.account = a /\ now - x.lastValid <= RecoveryPeriod}}

(* Every account that a stored authority or a pending recovery request   *)
(* names is found by lookup_account_names.                                 *)
AuthoritiesNameFoundAccounts ==
    \A a \in exists :
       LET req   == GetRecoveryRequest(a)
           named == Refs(owner[a]) \cup Refs(active[a]) \cup
                    (IF req = NoApiObj THEN {} ELSE Refs(req.new_owner_authority))
       IN  \A n \in named : LookupAccountNames(named)[n] # NoApiObj

=============================================================================
