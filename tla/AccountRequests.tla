--------------------------- MODULE AccountRequests ---------------------------
(***************************************************************************)
(* The account evaluators of sigmaengine_evaluator.cpp that only file      *)
(* rows for later processing: change_recovery_account,                     *)
(* decline_voting_rights and account_auth, together with account_create,   *)
(* which makes the accounts they name and sets the recovery partner that   *)
(* change_recovery_account compares with.  A change of recovery partner   *)
(* takes effect at its effective_on, when the third loop of               *)
(* database::account_recovery_processing (database.hpp:296; database.cpp, *)
(* not in the tree) applies it at the end of a block.  The processing of  *)
(* decline requests is not declared in the tree, and effective_date,      *)
(* reg_date and the auth token are read by nothing in it, so those rows   *)
(* keep only their key.                                                    *)
(***************************************************************************)
EXTENDS Naturals, FiniteSets, Sequences

CONSTANTS
    Accounts,         \* account names
    GenesisAccounts,  \* accounts init_genesis creates
    AuthTypes,        \* auth_type strings of account_auth
    RecoveryPeriod,   \* SIGMAENGINE_OWNER_AUTH_RECOVERY_PERIOD, in ticks
    GenesisTime,      \* head block time at genesis
    MaxTime           \* bound on head block time

ASSUME GenesisAccounts \subseteq Accounts

NoAccount == "none"
NoRequest == [none |-> TRUE]

VARIABLES
    exists,           \* names with an account_object
    recoveryAccount,  \* account_object::recovery_account
    changeRequests,   \* change_recovery_account_request_object per account
    declineRequests,  \* accounts with a decline_voting_rights_request_object
    authRegs,         \* (account, auth_type) keys of account_auth_object rows,
                      \* in the order of their ids
    now,              \* head_block_time
    lastChangeAsked   \* history variable: the partner and time of the last
                      \* change_recovery_account applied for each account

vars == <<exists, recoveryAccount, changeRequests, declineRequests, authRegs,
          now, lastChangeAsked>>

ChangeRequestRec == [recovery_account : Accounts, effective_on : Nat]

Init ==
    /\ exists = GenesisAccounts
    /\ recoveryAccount = [a \in Accounts |-> NoAccount]
    /\ changeRequests = [a \in Accounts |-> NoRequest]
    /\ declineRequests = {}
    /\ authRegs = <<>>
    /\ now = GenesisTime
    /\ lastChangeAsked = [a \in Accounts |-> NoRequest]

-----------------------------------------------------------------------------
\* Mutant: the new account's recovery_account is left unset.
AccountCreateNoPartner(creator, name) ==
    /\ creator \in exists
    /\ name \notin exists
    /\ exists' = exists \cup {name}
    /\ UNCHANGED <<recoveryAccount, changeRequests, declineRequests, authRegs,
                   now, lastChangeAsked>>

(* account_create_evaluator: the new account's recovery partner is its    *)
(* creator; a name already taken violates the by_name index.  The         *)
(* authorities it checks are modelled in Recovery.                         *)
AccountCreate(creator, name) ==
    /\ creator \in exists
    /\ name \notin exists
    /\ exists' = exists \cup {name}
    /\ recoveryAccount' = [recoveryAccount EXCEPT ![name] = creator]
    /\ UNCHANGED <<changeRequests, declineRequests, authRegs, now, lastChangeAsked>>

\* The rows of account_auth_index.
AuthRows == {authRegs[i] : i \in DOMAIN authRegs}

(* account_auth_evaluator: create the (account, auth_type) row, with the  *)
(* next id, or refresh its token and date when it exists.                  *)
AccountAuth(a, type) ==
    /\ a \in exists
    /\ authRegs' = IF <<a, type>> \in AuthRows THEN authRegs
                   ELSE Append(authRegs, <<a, type>>)
    /\ UNCHANGED <<exists, recoveryAccount, changeRequests, declineRequests,
                   now, lastChangeAsked>>

\* Request a: the change to newRecovery, effective a recovery period on.
DatedChange(newRecovery) ==
    [recovery_account |-> newRecovery, effective_on |-> now + RecoveryPeriod]

\* The change_recovery_account just applied, for the history variable.
AskedChange(a, newRecovery) ==
    lastChangeAsked' = [lastChangeAsked EXCEPT ![a] = [to |-> newRecovery, at |-> now]]

\* Mutant: retargeting a pending change keeps its effective_on.
ChangeRecoveryAccountKeepsDate(a, newRecovery) ==
    /\ newRecovery \in exists
    /\ a \in exists
    /\ \/ /\ changeRequests[a] = NoRequest
          /\ changeRequests' = [changeRequests EXCEPT ![a] = DatedChange(newRecovery)]
       \/ /\ changeRequests[a] # NoRequest
          /\ recoveryAccount[a] # newRecovery
          /\ changeRequests' = [changeRequests EXCEPT ![a].recovery_account = newRecovery]
       \/ /\ changeRequests[a] # NoRequest
          /\ recoveryAccount[a] = newRecovery
          /\ changeRequests' = [changeRequests EXCEPT ![a] = NoRequest]
    /\ AskedChange(a, newRecovery)
    /\ UNCHANGED <<exists, recoveryAccount, declineRequests, authRegs, now>>

(* change_recovery_account_evaluator: create the pending change, retarget *)
(* it (restarting its delay), or withdraw it when it names the current    *)
(* partner.                                                                 *)
ChangeRecoveryAccount(a, newRecovery) ==
    /\ newRecovery \in exists
    /\ a \in exists
    /\ \/ /\ changeRequests[a] = NoRequest
          /\ changeRequests' = [changeRequests EXCEPT ![a] = DatedChange(newRecovery)]
       \/ /\ changeRequests[a] # NoRequest
          /\ recoveryAccount[a] # newRecovery
          /\ changeRequests' = [changeRequests EXCEPT ![a] = DatedChange(newRecovery)]
       \/ /\ changeRequests[a] # NoRequest
          /\ recoveryAccount[a] = newRecovery
          /\ changeRequests' = [changeRequests EXCEPT ![a] = NoRequest]
    /\ AskedChange(a, newRecovery)
    /\ UNCHANGED <<exists, recoveryAccount, declineRequests, authRegs, now>>

(* or cancel the pending one.                                               *)
DeclineVotingRights(a, decline) ==
    /\ a \in exists
    /\ \/ /\ decline
          /\ a \notin declineRequests
          /\ declineRequests' = declineRequests \cup {a}
       \/ /\ ~decline
          /\ a \in declineRequests
          /\ declineRequests' = declineRequests \ {a}
    /\ UNCHANGED <<exists, recoveryAccount, changeRequests, authRegs, now,
                   lastChangeAsked>>

\* The requests the third loop of account_recovery_processing applies at
\* head block time t: those whose effective_on is at or before t.
DueChanges(t) ==
    {a \in Accounts : changeRequests[a] # NoRequest /\ changeRequests[a].effective_on <= t}

(* The end of a block: the head block time advances to t and the third    *)
(* loop of account_recovery_processing makes each due request's account   *)
(* the new recovery partner and removes the request.                     *)
ApplyRecoveryAccountChanges(t) ==
    /\ recoveryAccount' = [a \in Accounts |->
          IF a \in DueChanges(t) THEN changeRequests[a].recovery_account
          ELSE recoveryAccount[a]]
    /\ changeRequests' = [a \in Accounts |->
          IF a \in DueChanges(t) THEN NoRequest ELSE changeRequests[a]]

Tick ==
    /\ now' = now + 1
    /\ ApplyRecoveryAccountChanges(now + 1)
    /\ UNCHANGED <<exists, declineRequests, authRegs, lastChangeAsked>>

Next ==
    \/ \E c, n \in Accounts : AccountCreate(c, n)
    \/ \E a \in Accounts, t \in AuthTypes : AccountAuth(a, t)
    \/ \E a, r \in Accounts : ChangeRecoveryAccount(a, r)
    \/ \E a \in Accounts, d \in BOOLEAN : DeclineVotingRights(a, d)
    \/ Tick

Spec == Init /\ [][Next]_vars

-----------------------------------------------------------------------------
(* Every field holds a value of its type, and every account that          *)
(* account_create made (not a genesis account) has its creator as its      *)
(* recovery partner.                                                       *)
TypeOK ==
    /\ exists \subseteq Accounts
    /\ recoveryAccount \in [Accounts -> Accounts \cup {NoAccount}]
    /\ \A a \in exists \ GenesisAccounts : recoveryAccount[a] \in Accounts
    /\ changeRequests \in [Accounts -> ChangeRequestRec \cup {NoRequest}]
    /\ declineRequests \subseteq Accounts
    /\ authRegs \in Seq(Accounts \X AuthTypes)
    /\ now \in Nat

\* The bound on the head block time, used as a state constraint.
TimeBound == now <= MaxTime

(* A change of recovery partner waits out the whole recovery period from  *)
(* the last change_recovery_account: an existing account's partner only   *)
(* ever becomes the partner its last request asked for, and only          *)
(* SIGMAENGINE_OWNER_AUTH_RECOVERY_PERIOD or more after that request.     *)
(* Retargeting a pending change restarts the delay, so whoever holds the  *)
(* owner key cannot put a partner in place sooner by retargeting a change  *)
(* the account holder filed long before.                                  *)
PartnerChangesAfterRecoveryPeriod ==
    [][\A a \in exists :
          recoveryAccount'[a] # recoveryAccount[a] =>
             /\ lastChangeAsked[a] # NoRequest
             /\ recoveryAccount'[a] = lastChangeAsked[a].to
             /\ now' - lastChangeAsked[a].at >= RecoveryPeriod]_vars

=============================================================================
