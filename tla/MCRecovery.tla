----------------------------- MODULE MCRecovery -----------------------------
(* Model values and small sets for checking Recovery with TLC.  carol is  *)
(* not a genesis account, so kc, which names carol, is refused until      *)
(* account_create makes that account.                                               *)
EXTENDS AccountOps, TLC

CONSTANTS alice, carol, k1, kc, open, key1, key2

MCAccounts == {alice, carol}
MCGenesisAccounts == {alice}
MCAuths == {k1, kc, open}
MCThreshold(x) == IF x = open THEN 0 ELSE 1
\* No authority of the bounded input set is impossible.
MCIsImpossible(x) == FALSE
MCRefs(x) == IF x = kc THEN {carol} ELSE {}
MCKeys == {key1, key2}
\* k1 is key1; kc is key2 or carol's active authority; open needs nothing.
MCKeyWeights(x) == CASE x = k1 -> (key1 :> 1) [] x = kc -> (key2 :> 1)
                     [] OTHER -> [k \in {} |-> 0]
MCAccountWeights(x) == IF x = kc THEN (carol :> 1) ELSE [b \in {} |-> 0]

(* The state TLC compares to tell states apart.  No guard of Recovery or  *)
(* AccountOps reads the last published operation, and the action          *)
(* properties read only the one a step publishes (published'), which TLC  *)
(* checks on every step it generates; two states that differ only in     *)
(* published have the same successors and the same steps out of them.     *)
RecoveryView == vars

\* The signing queries over a store whose accounts, owners and actives are
\* ex, own and act.
Signing(ex, own, act) ==
    INSTANCE AccountSigning
    WITH Accounts <- MCAccounts, Auths <- MCAuths, Threshold <- MCThreshold,
         Refs <- MCRefs, Keys <- MCKeys, KeyWeights <- MCKeyWeights,
         AccountWeights <- MCAccountWeights, MaxSigCheckDepth <- 2,
         Exists <- ex, Owner <- own, Active <- act

\* Every store the resolver can read, paired with the answer of
\* SigningQueriesAgree in it; TLC enumerates the table once, as a constant.
StoreViews == (SUBSET MCAccounts) \X [MCAccounts -> MCAuths] \X [MCAccounts -> MCAuths]
SigningAgreeTable ==
    {<<v, Signing(v[1], v[2], v[3])!SigningQueriesAgree>> : v \in StoreViews}

(* Whatever owner and active authorities account_create, account_update  *)
(* and recover_account have installed, the database_api signing queries  *)
(* agree in the store they leave (AccountSigning!SigningQueriesAgree): a  *)
(* wallet reduced by get_potential_signatures and get_required_signatures *)
(* still signs, and verify_account_authority vouches for no signers that  *)
(* verify_authority refuses.                                              *)
SigningQueriesAgree == <<<<exists, owner, active>>, TRUE>> \in SigningAgreeTable

\* For every store and account operation, the key sets with which
\* verify_authority accepts the operation, and for every store and
\* authority, the key sets that satisfy it: sets of tuples, which TLC
\* enumerates once, as constants.
AuthorizingKeys ==
    {<<p[1], p[2], p[3]>> :
        p \in {q \in StoreViews \X AccountOpSet \X SUBSET MCKeys :
                 Signing(q[1][1], q[1][2], q[1][3])!VerifyOperation(q[2], q[3])}}
SatisfyingKeys ==
    {<<p[1], p[2], p[3]>> :
        p \in {q \in StoreViews \X MCAuths \X SUBSET MCKeys :
                 Signing(q[1][1], q[1][2], q[1][3])!CheckAuthority(q[2], q[3], 0)}}

(* Only the owner can hand over an account: whenever an applied account  *)
(* operation replaces the owner authority of an existing account, every  *)
(* set of keys with which verify_authority accepts that operation, under *)
(* the authorities the operation declares, satisfies the account's       *)
(* current owner authority or one it had before (the recent owner        *)
(* recover_account proves).  Keys that satisfy only the active authority *)
(* never replace the owner, through account_update's owner and active    *)
(* declarations, the owner fallback of an active requirement, or         *)
(* recover_account's raw authorities.                                    *)
OwnerReplacedOnlyWithOwnerKeys ==
    [][LET view == <<exists, owner, active>> IN
       \A a \in exists :
          owner'[a] # owner[a] =>
             \A s \in SUBSET MCKeys :
                <<view, published', s>> \in AuthorizingKeys =>
                   \E h \in OwnersEver(a) : <<view, h, s>> \in SatisfyingKeys]_opsVars
=============================================================================
