-------------------------- MODULE MCAccountRequests --------------------------
(* Model values for checking AccountRequests with TLC: one genesis account *)
(* and two names account_create can take.                                  *)
EXTENDS AccountRequestOps

CONSTANTS alice, bob, carol, token

MCAccounts == {alice, bob, carol}
MCGenesisAccounts == {alice}
MCAuthTypes == {token}

(* For the changes of recovery partner: the genesis account and one it   *)
(* creates.  Each can ask for either as its partner, so the genesis      *)
(* account, which has none, can file a change and retarget it.            *)
MCPartnerAccounts == {alice, bob}

(* The state TLC compares to tell states apart.  No guard of              *)
(* AccountRequests or AccountRequestOps reads the last published          *)
(* operation, and the action properties read only the one a step          *)
(* publishes (published'), which TLC checks on every step it generates.   *)
RequestsView == vars
=============================================================================
