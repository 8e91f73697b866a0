------------------------- MODULE MCConfidentialPool -------------------------
EXTENDS PoolProperties, HandleAccess, TLC

UserSymmetry == Permutations(Users)
=============================================================================
