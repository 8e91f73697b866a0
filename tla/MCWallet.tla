------------------------------ MODULE MCWallet ------------------------------
EXTENDS WalletProperties, TLC

AccountSymmetry == Permutations(Accounts)
=============================================================================
