------------------------------ MODULE Z2nRing ------------------------------
(***************************************************************************)
(* src/integer/z2n: the triangle representation of Z/(2^n), in             *)
(*      R[X]/(X^n - X + 2),   tau = X - 2,                                 *)
(* where a word m is encoded as tau^{-1}[m] for its bit polynomial [m].    *)
(* A polynomial is the function of its n coefficients, as integers in a    *)
(* unit its user names: 1 for a bit polynomial, 2^-n for an encoding,      *)
(* 2^-2n for a product of two.  The code's floats hold these exactly.  The *)
(* root slots are the evaluations of a polynomial at the roots of the      *)
(* modulus, so a product of slots is the product of Mul.                   *)
(***************************************************************************)
EXTENDS Integers
LOCAL INSTANCE FiniteSetsExt

CONSTANT WordBits     \* n; the code admits 8, 16, 32 and 64

Z2nAssumption == WordBits \in {8, 16, 32, 64}

Degrees == 0 .. WordBits - 1
Modulus == 2^WordBits

-----------------------------------------------------------------------------
\* Polynomials.

Bit(m, j) == (m \div 2^j) % 2
BinaryEncode(m) == [j \in Degrees |-> Bit(m, j)]
Zero == [j \in Degrees |-> 0]
Tau == [Zero EXCEPT ![0] = -2, ![1] = 1]
\* In units of 2^-n.
TauInverse == [j \in Degrees |-> IF j = 0 THEN 1 - 2^(WordBits - 1) ELSE -(2^(WordBits - 1 - j))]

Plus(p, q) == [j \in Degrees |-> p[j] + q[j]]
Minus(p, q) == [j \in Degrees |-> p[j] - q[j]]

\* The coefficient of X^d in the product before the reduction.
Convolved(p, q, d) ==
  LET Term(j) == p[j] * q[d - j]
  IN  MapThenSumSet(Term, {j \in Degrees : d - j \in Degrees /\ q[d - j] # 0})

\* X^(n+j) becomes X^(j+1) - 2X^j; no degree below 2n - 1 has to be reduced twice.
Mul(p, q) ==
  [j \in Degrees |-> Convolved(p, q, j)
                     + (IF j = 0 THEN 0 ELSE Convolved(p, q, j + WordBits - 1))
                     - 2 * Convolved(p, q, j + WordBits)]
MulTau(p) == Mul(p, Tau)

\* A polynomial in units of 2^-2n that is one in units of 2^-n.
InUnits(p) == [j \in Degrees |-> p[j] \div Modulus]

-----------------------------------------------------------------------------
\* Arithmetic encodings.

ArithmeticEncode(m) == Mul(BinaryEncode(m), TauInverse)

\* Half-integers round up; one is the number of units in 1.
RoundToInt(x, one) == (2 * x + one) \div (2 * one)

\* The polynomial at X = 2.
AtTwo(p) ==
  LET Term(j) == p[j] * 2^j
  IN  MapThenSumSet(Term, Degrees)

\* tau, then every coefficient rounded for itself, then X = 2, then 2^n.
DecodeArithmetic(p, one) ==
  LET timesTau == MulTau(p)
  IN  AtTwo([j \in Degrees |-> RoundToInt(timesTau[j], one)]) % Modulus

\* Every coefficient modulo one into (-1 + eps, eps] with eps = 2^-(n+1); in
\* units of 2^-n that is the interval from 1 - 2^n to 0, whose ends the
\* half-unit eps keeps apart.
Ceiling(x, one) == -((-x) \div one)
CanonicalizeArithmetic(p) ==
  [j \in Degrees |->
     LET shifted == 2 * p[j] - 1
     IN  (shifted - Ceiling(shifted, 2 * Modulus) * 2 * Modulus + 1) \div 2]

AddArithmetic(p, q) == CanonicalizeArithmetic(Plus(p, q))
SubArithmetic(p, q) == CanonicalizeArithmetic(Minus(p, q))
MulArithmetic(p, q) == CanonicalizeArithmetic(InUnits(MulTau(Mul(p, q))))

-----------------------------------------------------------------------------
\* The conformance oracles of the conversion to bits.

\* The paired tables over a w-bit code; ID is in units of 2^-w.
A2BTwoLUT(code, w) ==
  [ID |-> IF code = 0 THEN 0 ELSE code - 2^w,
   MSB |-> IF code # 0 /\ code <= 2^(w - 1) THEN 1 ELSE 0]

A2BBooleanHalves(m) ==
  [Low |-> [j \in 1 .. WordBits \div 2 |-> Bit(m, j - 1)],
   High |-> [j \in 1 .. WordBits \div 2 |-> Bit(m, j - 1 + WordBits \div 2)]]

\* The word of two halves of bits.
B2A(halves) ==
  LET Term(j) == halves.Low[j] * 2^(j - 1) + halves.High[j] * 2^(j - 1 + WordBits \div 2)
  IN  MapThenSumSet(Term, 1 .. WordBits \div 2)
=============================================================================
