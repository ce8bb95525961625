----------------------------- MODULE MCAccounts -----------------------------
(* Two users and two tokens, for TLC.                                      *)
EXTENDS Accounts, TLC

\* Users, addresses, tokens and requests are each interchangeable.
AccountsSymmetry ==
  Permutations(Names) \cup Permutations(Emails)
    \cup Permutations(Tokens) \cup Permutations(Requests)

=============================================================================
