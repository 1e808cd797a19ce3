------------------------------ MODULE MCWallet ------------------------------
(* Wallet.tla for TLC: two users, so that renter and owner can differ.     *)
EXTENDS Wallet, TLC

UserSymmetry == Permutations(User)
=============================================================================
