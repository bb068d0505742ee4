----------------------------- MODULE AccountSigning -----------------------------
(***************************************************************************)
(* The authority resolver over the account authorities that AccountOps    *)
(* changes, and the database_api signing queries a wallet uses.  An        *)
(* authority's key_auths and account_auths are the weight functions        *)
(* KeyWeights and AccountWeights; its weight_threshold is Threshold.       *)
(*                                                                         *)
(* sign_state (protocol/sign_state.cpp) is not in the tree: CheckAuthority *)
(* follows spec section 4.2.  An account atom is approved when the        *)
(* account's active authority is, one level deeper; past                   *)
(* SIGMAENGINE_MAX_SIG_CHECK_DEPTH the atom is skipped, so recursion       *)
(* beyond the bound is unsatisfiable, not an error.  An active requirement *)
(* is met by the active or, failing that, the owner authority.  The        *)
(* queries of database_api.cpp hand sign_state lambdas that read the       *)
(* account_authority_object of a name and throw when there is none.        *)
(* The resolver only reads the store, so the store it reads is a         *)
(* parameter: the accounts (Exists) and owner and active authorities     *)
(* (Owner, Active) that Recovery's evaluators wrote.                       *)
(***************************************************************************)
EXTENDS Naturals, FiniteSetsExt

CONSTANTS
    Accounts,          \* account names
    Auths,             \* authorities
    Threshold(_),      \* authority::weight_threshold
    Refs(_),           \* the account names of authority::account_auths
    Keys,              \* public keys
    KeyWeights(_),     \* authority::key_auths, a function key -> weight
    AccountWeights(_), \* authority::account_auths, a function name -> weight
    MaxSigCheckDepth,  \* SIGMAENGINE_MAX_SIG_CHECK_DEPTH
    Exists,            \* names with an account_object
    Owner,             \* account_authority_object::owner
    Active             \* account_authority_object::active

ASSUME \A x \in Auths : /\ DOMAIN KeyWeights(x) \subseteq Keys
                        /\ DOMAIN AccountWeights(x) = Refs(x)

\* sign_state::check_authority: the weights of the signed keys and of the
\* approved accounts reach the threshold.
RECURSIVE CheckAuthority(_, _, _)
CheckAuthority(auth, sigs, depth) ==
    LET kw       == KeyWeights(auth)
        aw       == AccountWeights(auth)
        approved == {b \in DOMAIN aw : depth < MaxSigCheckDepth
                                       /\ CheckAuthority(Active[b], sigs, depth + 1)}
    IN  MapThenSumSet(LAMBDA k : kw[k], DOMAIN kw \cap sigs)
          + MapThenSumSet(LAMBDA b : aw[b], approved) >= Threshold(auth)

\* The names whose active authority check_authority looks up below auth.
RECURSIVE LookedUp(_, _)
LookedUp(auth, depth) ==
    IF depth >= MaxSigCheckDepth THEN {}
    ELSE Refs(auth) \cup UNION {LookedUp(Active[b], depth + 1) : b \in Refs(auth) \cap Exists}

\* verify_authority for a transaction needing the active authority of a:
\* the signatures satisfy a's active authority, or else its owner
\* authority, and every account looked up on the way exists.
SignedByActive(a, sigs) ==
    /\ LookedUp(Active[a], 0) \subseteq Exists
    /\ \/ CheckAuthority(Active[a], sigs, 0)
       \/ /\ LookedUp(Owner[a], 0) \subseteq Exists
          /\ CheckAuthority(Owner[a], sigs, 0)

\* get_required_signatures: the minimal covering subset of the available
\* keys (spec 4.2), none when no subset covers.
RequiredSignatures(a, available) ==
    LET covering == {s \in SUBSET available : SignedByActive(a, s)}
    IN  IF covering = {} THEN {}
        ELSE CHOOSE s \in covering : \A t \in covering : Cardinality(s) <= Cardinality(t)

-----------------------------------------------------------------------------
(* The database_api queries.  A transfer from a stands for the            *)
(* transaction: it needs a's active authority.                              *)

\* get_required_signatures hands the available keys and the three lambdas on.
GetRequiredSignatures(a, available) == RequiredSignatures(a, available)

\* Mutant: the owner lambda returns the authority without adding its keys.
GetPotentialSignaturesNoOwnerKeys(a) ==
    LET auths == {Active[a]} \cup {Active[b] : b \in LookedUp(Active[a], 0) \cup LookedUp(Owner[a], 0)}
    IN  UNION {DOMAIN KeyWeights(x) : x \in auths}

(* get_potential_signatures: runs the check with no keys and collects the *)
(* keys of every authority a lambda returns: a's active, its owner when   *)
(* the active check fails, and the active of every account looked up.     *)
GetPotentialSignatures(a) ==
    LET tops  == IF CheckAuthority(Active[a], {}, 0) THEN {Active[a]}
                 ELSE {Active[a], Owner[a]}
        auths == tops \cup {Active[b] : b \in LookedUp(Active[a], 0) \cup
                             (IF CheckAuthority(Active[a], {}, 0) THEN {} ELSE LookedUp(Owner[a], 0))}
    IN  UNION {DOMAIN KeyWeights(x) : x \in auths}

\* verify_authority: true, or an exception (FALSE here).
VerifyAuthority(a, sigs) == SignedByActive(a, sigs)

\* Mutant: verify_account_authority answers from the account lookup alone.
VerifyAccountAuthorityNoCheck(name, signers) == name \in Exists

(* verify_account_authority: finds the account, builds a transaction with *)
(* one transfer from it and no signatures, and verifies that.  The         *)
(* signers argument is never read.                                          *)
VerifyAccountAuthority(name, signers) ==
    /\ name \in Exists
    /\ VerifyAuthority(name, {})

-----------------------------------------------------------------------------
(* The authorities an account operation declares                         *)
(* (sigmaengine_operations.hpp), for the operation records of AccountOps; *)
(* an account_update whose owner optional is absent carries no authority  *)
(* in its owner field.                                                     *)

\* Mutant: the owner test of account_update inverted, as in its active twin.
RequiredOwnerAuthoritiesInverted(op) ==
    IF op.type = "account_update" /\ op.owner \notin Auths THEN {op.account} ELSE {}

\* get_required_owner_authorities: account_update when it sets the owner.
RequiredOwnerAuthorities(op) ==
    IF op.type = "account_update" /\ op.owner \in Auths THEN {op.account} ELSE {}

\* get_required_active_authorities of the four account operations.
RequiredActiveAuthorities(op) ==
    CASE op.type = "account_create"           -> {op.creator}
      [] op.type = "account_update"           ->
            IF op.owner \in Auths THEN {} ELSE {op.account}
      [] op.type = "request_account_recovery" -> {op.recovery_account}
      [] OTHER                                -> {}

\* get_required_authorities: recover_account's raw authorities.
RequiredAuthorities(op) ==
    IF op.type = "recover_account"
    THEN {op.new_owner_authority, op.recent_owner_authority} ELSE {}

\* An authority checked as it stands, its account atoms looked up.
SignedRaw(auth, sigs) ==
    LookedUp(auth, 0) \subseteq Exists /\ CheckAuthority(auth, sigs, 0)

(* verify_authority of a transaction holding op (spec 4.2): every owner   *)
(* requirement by the owner authority, every active one by the active or  *)
(* the owner authority, every raw authority by itself; the lambdas throw  *)
(* for a required account that does not exist.                            *)
VerifyOperation(op, sigs) ==
    /\ \A a \in RequiredOwnerAuthorities(op) :
          a \in Exists /\ SignedRaw(Owner[a], sigs)
    /\ \A a \in RequiredActiveAuthorities(op) :
          a \in Exists /\ SignedByActive(a, sigs)
    /\ \A x \in RequiredAuthorities(op) : SignedRaw(x, sigs)

-----------------------------------------------------------------------------
(* A wallet signs with what the queries tell it: whatever owner and       *)
(* active authorities account_create, account_update and recover_account  *)
(* have installed, nested account authorities and cycles cut by the depth *)
(* bound included, a wallet holding keys that can sign a transfer still   *)
(* can after filtering them by get_potential_signatures and reducing them *)
(* with get_required_signatures, and verify_account_authority never       *)
(* vouches for signers that verify_authority would refuse.                 *)
SigningQueriesAgree ==
    \A a \in Exists, wallet \in SUBSET Keys :
       /\ VerifyAuthority(a, wallet) =>
             VerifyAuthority(a, GetRequiredSignatures(a, wallet \cap GetPotentialSignatures(a)))
       /\ VerifyAccountAuthority(a, wallet) => VerifyAuthority(a, wallet)

=============================================================================
