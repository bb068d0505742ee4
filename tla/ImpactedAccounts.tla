--------------------------- MODULE ImpactedAccounts ---------------------------
(***************************************************************************)
(* get_impacted_account_visitor (app/impacted.cpp): the accounts whose     *)
(* history an operation is filed under.  An operation is a record whose    *)
(* type field names its struct and whose other fields are the struct's     *)
(* account fields.  The operations without an overload of their own take  *)
(* the template, which inserts the accounts of the operation's required   *)
(* posting, active and owner authorities.  The custom operations parse     *)
(* their JSON or binary payload into inner operations and insert the      *)
(* required authorities of those that parse; the field innerAuths stands  *)
(* for that result, the parsing being a conversion no property reads.     *)
(***************************************************************************)

\* Mutant: account_auth is filed under no account.
ImpactedAuthUnfiled(op) ==
    CASE op.type = "account_create" -> {op.new_account_name, op.creator}
      [] op.type \in {"account_update", "decline_voting_rights"} -> {op.account}
      [] op.type = "request_account_recovery" ->
            {op.account_to_recover, op.recovery_account}
      [] op.type \in {"recover_account", "change_recovery_account"} ->
            {op.account_to_recover}
      [] op.type \in {"bobserver_update", "shutdown_bobserver"} -> {op.owner}
      [] op.type \in {"update_bproducer", "except_bobserver"} -> {op.bobserver}
      [] op.type \in {"custom_json", "custom_json_dapp", "custom_binary"} ->
            op.innerAuths
      [] op.type \in {"transfer", "transfer_savings", "fill_transfer_savings",
                      "cancel_transfer_savings",
                      "conclusion_transfer_savings"} -> {op.from, op.to}
      [] op.type \in {"print", "burn"} -> {op.account, op.root}
      [] op.type \in {"staking_fund", "fill_staking_fund",
                      "conclusion_staking", "transfer_fund"} -> {op.from}
      [] op.type \in {"return_staking_fund", "set_fund_interest"} -> {op.root}
      [] OTHER -> {}

\* Mutant: request_account_recovery is filed under the recovery partner only.
ImpactedNoRecoverTarget(op) ==
    CASE op.type = "account_create" -> {op.new_account_name, op.creator}
      [] op.type \in {"account_update", "decline_voting_rights",
                      "account_auth"} -> {op.account}
      [] op.type = "request_account_recovery" -> {op.recovery_account}
      [] op.type \in {"recover_account", "change_recovery_account"} ->
            {op.account_to_recover}
      [] op.type \in {"bobserver_update", "shutdown_bobserver"} -> {op.owner}
      [] op.type \in {"update_bproducer", "except_bobserver"} -> {op.bobserver}
      [] op.type \in {"custom_json", "custom_json_dapp", "custom_binary"} ->
            op.innerAuths
      [] op.type \in {"transfer", "transfer_savings", "fill_transfer_savings",
                      "cancel_transfer_savings",
                      "conclusion_transfer_savings"} -> {op.from, op.to}
      [] op.type \in {"print", "burn"} -> {op.account, op.root}
      [] op.type \in {"staking_fund", "fill_staking_fund",
                      "conclusion_staking", "transfer_fund"} -> {op.from}
      [] op.type \in {"return_staking_fund", "set_fund_interest"} -> {op.root}
      [] OTHER -> {}

(* The overloads of the visitor, and the template for account_update      *)
(* (owner or active authority of op.account), decline_voting_rights and   *)
(* account_auth.  Note that return_staking_fund names only its root, not  *)
(* op.to, and change_recovery_account not the new recovery account.       *)
Impacted(op) ==
    CASE op.type = "account_create" -> {op.new_account_name, op.creator}
      [] op.type \in {"account_update", "decline_voting_rights",
                      "account_auth"} -> {op.account}
      [] op.type = "request_account_recovery" ->
            {op.account_to_recover, op.recovery_account}
      [] op.type \in {"recover_account", "change_recovery_account"} ->
            {op.account_to_recover}
      [] op.type \in {"bobserver_update", "shutdown_bobserver"} -> {op.owner}
      [] op.type \in {"update_bproducer", "except_bobserver"} -> {op.bobserver}
      [] op.type \in {"custom_json", "custom_json_dapp", "custom_binary"} ->
            op.innerAuths
      [] op.type \in {"transfer", "transfer_savings", "fill_transfer_savings",
                      "cancel_transfer_savings",
                      "conclusion_transfer_savings"} -> {op.from, op.to}
      [] op.type \in {"print", "burn"} -> {op.account, op.root}
      [] op.type \in {"staking_fund", "fill_staking_fund",
                      "conclusion_staking", "transfer_fund"} -> {op.from}
      [] op.type \in {"return_staking_fund", "set_fund_interest"} -> {op.root}
      [] OTHER -> {}

=============================================================================
