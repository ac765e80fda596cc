----------------------------- MODULE MCAccounts -----------------------------
(* Two accounts and two requests for TLC.                                    *)
EXTENDS Accounts, TLC

MCSymmetry ==
    Permutations(Users) \cup Permutations(Tokens) \cup Permutations(Requests)

=============================================================================
