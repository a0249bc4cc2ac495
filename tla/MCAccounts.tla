----------------------------- MODULE MCAccounts -----------------------------
(* Instances of Accounts for TLC. *)
EXTENDS Accounts, TLC

\* Browsers, nicknames and addresses are only compared for equality.
AccountSymmetry ==
  Permutations(Browsers) \union Permutations(Nicks) \union Permutations(Mails)

=============================================================================
