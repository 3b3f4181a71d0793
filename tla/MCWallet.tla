------------------------------ MODULE MCWallet ------------------------------
(* Model-checking instance of Wallet: users, keys and requests are        *)
(* interchangeable model values.                                           *)
EXTENDS Wallet

MCSymmetry == Permutations(Users) \cup Permutations(Reqs) \cup Permutations(Keys)

=============================================================================
