------------------------------ MODULE Euint64 ------------------------------
(***************************************************************************)
(* The encrypted integers the pool computes with.  A ciphertext stands for *)
(* its plaintext: FHE.add and FHE.sub wrap around at the width of euint64  *)
(* without reverting, which is what the plaintexts must never meet.        *)
(***************************************************************************)
EXTENDS Integers

CONSTANT Modulus    \* 2^64 in the code; small in the model-checked instances

ASSUME ModulusAssumption == Modulus \in Nat \ {0}

Euint64s == 0 .. (Modulus - 1)

Add(a, b) == (a + b) % Modulus

Sub(a, b) == (a - b) % Modulus

\* FAULT: the branches of the select are exchanged.
SmallerSwapped(a, b) == IF a <= b THEN b ELSE a

\* FHE.select(FHE.le(a, b), a, b)
Smaller(a, b) == IF a <= b THEN a ELSE b
=============================================================================
