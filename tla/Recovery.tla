------------------------------ MODULE Recovery ------------------------------
(***************************************************************************)
(* The account evaluators of sigmaengine_evaluator.cpp that create         *)
(* accounts and change who controls them: account_create, account_update, *)
(* request_account_recovery and recover_account.  The request evaluators  *)
(* that only file rows for database.cpp (change_recovery_account,         *)
(* decline_voting_rights, account_auth) are in AccountRequests.            *)
(*                                                                         *)
(* An authority is a model value; Threshold, IsImpossible and Refs give    *)
(* its weight_threshold, whether it can never be satisfied, and the        *)
(* accounts in its account_auths.  database::update_owner_authority and   *)
(* database::account_recovery_processing (database.hpp:281, 296) are in    *)
(* database.cpp, which is not in the tree.  The first appends the         *)
(* superseded owner to the owner authority history.  The second runs at   *)
(* the end of every block: it removes the recovery requests that have     *)
(* expired and the history rows older than the recovery period, as the    *)
(* comments of request_account_recovery_operation and                     *)
(* recover_account_operation describe.  Posting authorities, memo keys, JSON    *)
(* metadata and last_account_update are data no modelled guard reads and  *)
(* are left out.                                                           *)
(***************************************************************************)
EXTENDS Integers, FiniteSets

CONSTANTS
    Accounts,         \* account names
    GenesisAccounts,  \* accounts init_genesis creates
    Auths,            \* authorities an operation may carry
    Threshold(_),     \* authority::weight_threshold
    IsImpossible(_),  \* authority::is_impossible()
    Refs(_),          \* the account names of authority::account_auths
    GenesisAuth,      \* owner and active authority of genesis accounts
    TopBobserver,     \* begin() of the by_vote_name index
    UpdateLimit,      \* SIGMAENGINE_OWNER_UPDATE_LIMIT, in ticks
    RequestExpiration,\* SIGMAENGINE_ACCOUNT_RECOVERY_REQUEST_EXPIRATION_PERIOD
    RecoveryPeriod,   \* SIGMAENGINE_OWNER_AUTH_RECOVERY_PERIOD
    GenesisTime,      \* head block time at genesis
    MaxTime,          \* bound on head block time
    MaxOwnerChanges   \* bound on owner replacements (history rows)

ASSUME GenesisAccounts \subseteq Accounts /\ GenesisAuth \in Auths
ASSUME TopBobserver \in GenesisAccounts

\* account_name_type(): the empty name; time_point_sec::min().
NoAccount == "none"
MinTime == 0
NoRequest == [none |-> TRUE]

VARIABLES
    exists,             \* names with an account_object
    recoveryAccount,    \* account_object::recovery_account
    owner,              \* account_authority_object::owner
    active,             \* account_authority_object::active
    lastOwnerUpdate,    \* account_authority_object::last_owner_update
    lastAccountRecovery,\* account_object::last_account_recovery
    history,            \* owner_authority_history_object rows
    recoveryRequests,   \* account_recovery_request_object per account
    now,                \* head_block_time
    supersededOwners    \* history variable: every owner history row ever
                        \* written, including those the cleanup removed

vars == <<exists, recoveryAccount, owner, active, lastOwnerUpdate,
          lastAccountRecovery, history, recoveryRequests, now, supersededOwners>>

RecoveryRequestRec == [auth : Auths, expires : Nat]
HistoryRec == [account : Accounts, previous : Auths, lastValid : Nat]

-----------------------------------------------------------------------------
(* Genesis: the genesis accounts exist with no recovery partner.          *)
Init ==
    /\ exists = GenesisAccounts
    /\ recoveryAccount = [a \in Accounts |-> NoAccount]
    /\ owner = [a \in Accounts |-> GenesisAuth]
    /\ active = [a \in Accounts |-> GenesisAuth]
    /\ lastOwnerUpdate = [a \in Accounts |-> MinTime]
    /\ lastAccountRecovery = [a \in Accounts |-> MinTime]
    /\ history = {}
    /\ recoveryRequests = [a \in Accounts |-> NoRequest]
    /\ now = GenesisTime
    /\ supersededOwners = {}

\* The loops of _db.get_account( a.first ) over account_auths: every
\* account an authority names must exist.
RefsExist(auth) == Refs(auth) \subseteq exists

\* database::update_owner_authority: the superseded owner goes to the
\* history with its last valid time, the new owner is set and the owner
\* update time recorded.
UpdateOwnerAuthority(a, auth) ==
    LET row == [account |-> a, previous |-> owner[a], lastValid |-> now]
    IN  /\ history' = history \cup {row}
        /\ supersededOwners' = supersededOwners \cup {row}
        /\ owner' = [owner EXCEPT ![a] = auth]
        /\ lastOwnerUpdate' = [lastOwnerUpdate EXCEPT ![a] = now]

-----------------------------------------------------------------------------
(* account_create_evaluator: the new account's recovery partner is its    *)
(* creator; a name already taken violates the by_name index.              *)
AccountCreate(creator, name, ownerAuth, activeAuth) ==
    /\ creator \in exists
    /\ name \notin exists
    /\ RefsExist(ownerAuth) /\ RefsExist(activeAuth)
    /\ exists' = exists \cup {name}
    /\ recoveryAccount' = [recoveryAccount EXCEPT ![name] = creator]
    /\ owner' = [owner EXCEPT ![name] = ownerAuth]
    /\ active' = [active EXCEPT ![name] = activeAuth]
    /\ lastOwnerUpdate' = [lastOwnerUpdate EXCEPT ![name] = MinTime]
    /\ UNCHANGED <<lastAccountRecovery, history, recoveryRequests, now,
                   supersededOwners>>

(* account_update_evaluator: an owner change waits out the cooldown and   *)
(* goes through update_owner_authority; NoChange is an absent optional.   *)
NoChange == "unchanged"

\* Mutant: the owner is replaced whether or not the optional is set.
AccountUpdateIgnoresOptional(a, ownerAuth, activeAuth) ==
    /\ a \in exists
    /\ now - lastOwnerUpdate[a] > UpdateLimit
    /\ UpdateOwnerAuthority(a, ownerAuth)
    /\ active' = IF activeAuth # NoChange
                    THEN [active EXCEPT ![a] = activeAuth] ELSE active
    /\ UNCHANGED <<exists, recoveryAccount, lastAccountRecovery,
                   recoveryRequests, now>>

\* Mutant: the owner cooldown is not checked.
AccountUpdateNoCooldown(a, ownerAuth, activeAuth) ==
    /\ a \in exists
    /\ ownerAuth # NoChange => RefsExist(ownerAuth)
    /\ activeAuth # NoChange => RefsExist(activeAuth)
    /\ IF ownerAuth # NoChange
          THEN UpdateOwnerAuthority(a, ownerAuth)
          ELSE UNCHANGED <<history, owner, lastOwnerUpdate, supersededOwners>>
    /\ active' = IF activeAuth # NoChange
                    THEN [active EXCEPT ![a] = activeAuth] ELSE active
    /\ UNCHANGED <<exists, recoveryAccount, lastAccountRecovery,
                   recoveryRequests, now>>

AccountUpdate(a, ownerAuth, activeAuth) ==
    /\ a \in exists
    /\ ownerAuth # NoChange =>
          /\ now - lastOwnerUpdate[a] > UpdateLimit
          /\ RefsExist(ownerAuth)
    /\ activeAuth # NoChange => RefsExist(activeAuth)
    /\ IF ownerAuth # NoChange
          THEN UpdateOwnerAuthority(a, ownerAuth)
          ELSE UNCHANGED <<history, owner, lastOwnerUpdate, supersededOwners>>
    /\ active' = IF activeAuth # NoChange
                    THEN [active EXCEPT ![a] = activeAuth] ELSE active
    /\ UNCHANGED <<exists, recoveryAccount, lastAccountRecovery,
                   recoveryRequests, now>>

(* request_account_recovery_evaluator: only the recovery partner (or the  *)
(* top bobserver for an account without one) may ask; a new request, a    *)
(* cancellation by an open authority, or a change of the pending one.     *)
\* Mutant: the account_auths of the new authority are not looked up.
RequestAccountRecoveryNoLookup(recoverer, a, auth) ==
    /\ a \in exists
    /\ IF recoveryAccount[a] # NoAccount
          THEN recoveryAccount[a] = recoverer
          ELSE TopBobserver = recoverer
    /\ \/ /\ recoveryRequests[a] = NoRequest
          /\ ~IsImpossible(auth)
          /\ Threshold(auth) # 0
          /\ recoveryRequests' = [recoveryRequests EXCEPT ![a] =
                [auth |-> auth, expires |-> now + RequestExpiration]]
       \/ /\ recoveryRequests[a] # NoRequest
          /\ Threshold(auth) = 0
          /\ recoveryRequests' = [recoveryRequests EXCEPT ![a] = NoRequest]
       \/ /\ recoveryRequests[a] # NoRequest
          /\ Threshold(auth) # 0
          /\ ~IsImpossible(auth)
          /\ recoveryRequests' = [recoveryRequests EXCEPT ![a] =
                [auth |-> auth, expires |-> now + RequestExpiration]]
    /\ UNCHANGED <<exists, recoveryAccount, owner, active, lastOwnerUpdate,
                   lastAccountRecovery, history, now, supersededOwners>>

RequestAccountRecovery(recoverer, a, auth) ==
    /\ a \in exists
    /\ IF recoveryAccount[a] # NoAccount
          THEN recoveryAccount[a] = recoverer
          ELSE TopBobserver = recoverer
    /\ \/ /\ recoveryRequests[a] = NoRequest
          /\ ~IsImpossible(auth)
          /\ Threshold(auth) # 0
          /\ RefsExist(auth)
          /\ recoveryRequests' = [recoveryRequests EXCEPT ![a] =
                [auth |-> auth, expires |-> now + RequestExpiration]]
       \/ /\ recoveryRequests[a] # NoRequest
          /\ Threshold(auth) = 0
          /\ recoveryRequests' = [recoveryRequests EXCEPT ![a] = NoRequest]
       \/ /\ recoveryRequests[a] # NoRequest
          /\ Threshold(auth) # 0
          /\ ~IsImpossible(auth)
          /\ RefsExist(auth)
          /\ recoveryRequests' = [recoveryRequests EXCEPT ![a] =
                [auth |-> auth, expires |-> now + RequestExpiration]]
    /\ UNCHANGED <<exists, recoveryAccount, owner, active, lastOwnerUpdate,
                   lastAccountRecovery, history, now, supersededOwners>>

(* recover_account_operation::validate(): the structural checks.          *)
RecoverValid(auth, recent) ==
    /\ auth # recent
    /\ ~IsImpossible(auth) /\ ~IsImpossible(recent)
    /\ Threshold(auth) # 0

(* recover_account_evaluator: after the recovery cooldown, with a pending *)
(* request for exactly this authority and a matching owner in the history *)
(* of the account, the request is removed and the owner replaced.         *)
\* Mutant: the owner is written directly instead of through
\* update_owner_authority, so no history row is kept.
RecoverAccountDirect(a, auth, recent) ==
    /\ RecoverValid(auth, recent)
    /\ a \in exists
    /\ now - lastAccountRecovery[a] > UpdateLimit
    /\ recoveryRequests[a] # NoRequest
    /\ recoveryRequests[a].auth = auth
    /\ \E h \in history : h.account = a /\ h.previous = recent
    /\ recoveryRequests' = [recoveryRequests EXCEPT ![a] = NoRequest]
    /\ owner' = [owner EXCEPT ![a] = auth]
    /\ supersededOwners' = supersededOwners \cup
          {[account |-> a, previous |-> owner[a], lastValid |-> now]}
    /\ lastAccountRecovery' = [lastAccountRecovery EXCEPT ![a] = now]
    /\ UNCHANGED <<exists, recoveryAccount, active, lastOwnerUpdate, history, now>>

RecoverAccount(a, auth, recent) ==
    /\ RecoverValid(auth, recent)
    /\ a \in exists
    /\ now - lastAccountRecovery[a] > UpdateLimit
    /\ recoveryRequests[a] # NoRequest
    /\ recoveryRequests[a].auth = auth
    /\ \E h \in history : h.account = a /\ h.previous = recent
    /\ recoveryRequests' = [recoveryRequests EXCEPT ![a] = NoRequest]
    /\ UpdateOwnerAuthority(a, auth)
    /\ lastAccountRecovery' = [lastAccountRecovery EXCEPT ![a] = now]
    /\ UNCHANGED <<exists, recoveryAccount, active, now>>

\* Mutant: a request is kept through the block whose time equals expires.
ClearExpiredRecoveryRequestsLate(t) ==
    [a \in Accounts |-> IF recoveryRequests[a] # NoRequest
                           /\ recoveryRequests[a].expires < t
                        THEN NoRequest ELSE recoveryRequests[a]]

\* The first loop of account_recovery_processing: remove every request
\* whose expires is at or before the head block time t.
ClearExpiredRecoveryRequests(t) ==
    [a \in Accounts |-> IF recoveryRequests[a] # NoRequest
                           /\ recoveryRequests[a].expires <= t
                        THEN NoRequest ELSE recoveryRequests[a]]

\* The second loop: remove, from the oldest row on, every history row whose
\* last_valid_time + SIGMAENGINE_OWNER_AUTH_RECOVERY_PERIOD is before t.
\* Rows are created in last_valid_time order, so the loop, which stops at
\* the first row still valid, removes exactly these.
ClearInvalidHistory(t) ==
    {h \in history : ~(h.lastValid + RecoveryPeriod < t)}

(* The end of a block: the head block time advances to the new block's   *)
(* time t (update_global_dynamic_data) and account_recovery_processing     *)
(* runs with it.  Its third loop, which applies change_recovery_account    *)
(* requests, works on the rows of AccountRequests and is modelled there.  *)
AccountRecoveryProcessing(t) ==
    /\ recoveryRequests' = ClearExpiredRecoveryRequests(t)
    /\ history' = ClearInvalidHistory(t)

Tick ==
    /\ now' = now + 1
    /\ AccountRecoveryProcessing(now + 1)
    /\ UNCHANGED <<exists, recoveryAccount, owner, active, lastOwnerUpdate,
                   lastAccountRecovery, supersededOwners>>

Next ==
    \/ \E c, n \in Accounts, o, x \in Auths : AccountCreate(c, n, o, x)
    \/ \E a \in Accounts, o, x \in Auths \cup {NoChange} : AccountUpdate(a, o, x)
    \/ \E r, a \in Accounts, x \in Auths : RequestAccountRecovery(r, a, x)
    \/ \E a \in Accounts, x, y \in Auths : RecoverAccount(a, x, y)
    \/ Tick

Spec == Init /\ [][Next]_vars

-----------------------------------------------------------------------------
RecoveryBound == now <= MaxTime /\ Cardinality(supersededOwners) <= MaxOwnerChanges

(* Every account, authority and request field holds a value of its type; *)
(* in particular owner is always an authority, never an absent optional.   *)
TypeOK ==
    /\ exists \subseteq Accounts
    /\ recoveryAccount \in [Accounts -> Accounts \cup {NoAccount}]
    /\ owner \in [Accounts -> Auths]
    /\ active \in [Accounts -> Auths]
    /\ lastOwnerUpdate \in [Accounts -> Nat]
    /\ lastAccountRecovery \in [Accounts -> Nat]
    /\ history \subseteq HistoryRec
    /\ recoveryRequests \in [Accounts -> RecoveryRequestRec \cup {NoRequest}]
    /\ now \in Nat
    /\ supersededOwners \subseteq HistoryRec

\* Every owner authority account a has had: its owner and every one it
\* superseded.
OwnersEver(a) == {owner[a]} \cup {h.previous : h \in {r \in supersededOwners : r.account = a}}

\* A step in which recover_account ran for account a.
IsRecovery(a) == lastAccountRecovery'[a] # lastAccountRecovery[a]

\* A step that appended an owner history row for account a.
OwnerReplaced(a) == \E h \in history' \ history : h.account = a

(* Spec section 4.3: account_update changes the owner at most once per    *)
(* SIGMAENGINE_OWNER_UPDATE_LIMIT, counted from the last replacement of  *)
(* the owner by either path: account_update checks last_owner_update,     *)
(* which recover_account also sets through update_owner_authority, so an *)
(* owner installed by recovery cannot be replaced at once by an update.    *)
OwnerUpdatesRateLimited ==
    [][\A a \in Accounts :
          OwnerReplaced(a) /\ ~IsRecovery(a) =>
             \A h \in supersededOwners : h.account = a => now - h.lastValid > UpdateLimit]_vars

(* recover_account honours both time limits of recovery, although it   *)
(* reads neither time: a recovery consumes a request that has not reached *)
(* its expires time (the operation's comment: 24 hours to respond), and   *)
(* every history row it could have matched as proof of a recent owner    *)
(* was superseded at most SIGMAENGINE_OWNER_AUTH_RECOVERY_PERIOD ago      *)
(* (spec 4.3).  Both hold only because account_recovery_processing, at    *)
(* the end of every earlier block, removed the rows that are too old.     *)
RecoveryWithinTimeLimits ==
    [][\A a \in Accounts :
          IsRecovery(a) =>
             /\ now < recoveryRequests[a].expires
             /\ \A h \in history : h.account = a => now - h.lastValid <= RecoveryPeriod]_vars

=============================================================================
