---------------------------- MODULE RingArithmetic ----------------------------
(***************************************************************************)
(* src/lattigo/ring on the words of one residue: the Barrett and the       *)
(* Montgomery reductions, the element operations of the vectors, and the   *)
(* constants and the transforms of a SubRing.  A word is an integer below  *)
(* 2^WordBits; every operation of the code wraps around, so every          *)
(* operation here does.                                                    *)
(***************************************************************************)
EXTENDS Integers
LOCAL INSTANCE FiniteSetsExt

CONSTANT WordBits     \* 64 in the code

WordAssumption == WordBits \in Nat /\ WordBits >= 3

Word == 2^WordBits
Wrap(x) == x % Word
High(x, y) == (x * y) \div Word

-----------------------------------------------------------------------------
\* Reductions modulo q; bred and mred are the constants of q.

GenMRedConstant(q) ==
  LET Square[i \in 0 .. WordBits - 1] ==
        IF i = 0 THEN [inverse |-> 1, power |-> q]
        ELSE LET last == Square[i - 1]
             IN  [inverse |-> Wrap(last.inverse * last.power), power |-> Wrap(last.power * last.power)]
  IN  Square[WordBits - 1].inverse

GenBRedConstant(q) == LET R == (Word * Word) \div q IN [high |-> R \div Word, low |-> Wrap(R)]

CRed(a, q) == IF a >= q THEN a - q ELSE a

MFormLazy(a, q, bred) == Wrap(-(a * bred.high + High(a, bred.low)) * q)
MForm(a, q, bred) == CRed(MFormLazy(a, q, bred), q)
IMFormLazy(a, q, mred) == q - High(Wrap(a * mred), q)
IMForm(a, q, mred) == CRed(IMFormLazy(a, q, mred), q)

MRedLazy(x, y, q, mred) == Wrap(High(x, y) - High(Wrap(Wrap(x * y) * mred), q) + q)
MRed(x, y, q, mred) == CRed(MRedLazy(x, y, q, mred), q)

BRedAddLazy(a, q, bred) == Wrap(a - High(a, bred.high) * q)
BRedAdd(a, q, bred) == CRed(BRedAddLazy(a, q, bred), q)

\* The two carries of the code's additions are those of one sum of three words.
BRedLazy(x, y, q, bred) ==
  LET high == High(x, y)
      low == Wrap(x * y)
      quotient == high * bred.high + High(low, bred.high) + High(high, bred.low)
                  + (Wrap(low * bred.high) + High(low, bred.low) + Wrap(high * bred.low)) \div Word
  IN  Wrap(low - quotient * q)
BRed(x, y, q, bred) == CRed(BRedLazy(x, y, q, bred), q)

-----------------------------------------------------------------------------
\* Exponentiation by squaring, in the code's order of multiplications.

\* Bit i - 1 of the exponent is looked at in step i.
Squared(one, x, e, Times(_, _)) ==
  LET Step[i \in 0..WordBits] ==
        IF i = 0 THEN [result |-> one, base |-> x]
        ELSE LET last == Step[i - 1]
             IN  [result |-> IF (e \div 2^(i - 1)) % 2 = 1 THEN Times(last.result, last.base)
                             ELSE last.result,
                  base |-> Times(last.base, last.base)]
  IN  Step[WordBits].result

ModExp(x, e, q) == LET Times(a, b) == BRed(a, b, q, GenBRedConstant(q)) IN Squared(1, x, e, Times)
ModExpPow2(x, e, p) == LET Times(a, b) == Wrap(a * b) IN Squared(1, x, e, Times) % p
ModexpMontgomery(x, e, q, mred, bred) ==
  LET Times(a, b) == MRed(a, b, q, mred) IN Squared(MForm(1, q, bred), x, e, Times)

\* Horner's rule for the coefficients poly[1], poly[2], ... of rising degree.
EvalPolyModP(x, poly, degree, p) ==
  LET bred == GenBRedConstant(p)
      From[i \in 0..degree] ==
        IF i = degree THEN poly[i + 1] ELSE CRed(Wrap(BRed(From[i + 1], x, p, bred) + poly[i + 1]), p)
  IN  From[0]

-----------------------------------------------------------------------------
\* The element operations of vec_ops.go: x, y and the accumulator z are words,
\* s a SubRing.

addvec(s, x, y) == CRed(Wrap(x + y), s.modulus)
addlazyvec(s, x, y) == Wrap(x + y)
subvec(s, x, y) == CRed(Wrap(x + s.modulus - y), s.modulus)
sublazyvec(s, x, y) == Wrap(x + s.modulus - y)
negvec(s, x) == Wrap(s.modulus - x)
reducevec(s, x) == BRedAdd(x, s.modulus, s.bred)
reducelazyvec(s, x) == BRedAddLazy(x, s.modulus, s.bred)

mulcoeffslazyvec(s, x, y) == Wrap(x * y)
mulcoeffslazythenaddlazyvec(s, x, y, z) == Wrap(z + x * y)
mulcoeffsbarrettvec(s, x, y) == BRed(x, y, s.modulus, s.bred)
mulcoeffsbarrettlazyvec(s, x, y) == BRedLazy(x, y, s.modulus, s.bred)
mulcoeffsthenaddvec(s, x, y, z) == CRed(Wrap(z + mulcoeffsbarrettvec(s, x, y)), s.modulus)
mulcoeffsbarrettthenaddlazyvec(s, x, y, z) == Wrap(z + mulcoeffsbarrettvec(s, x, y))

mulcoeffsmontgomeryvec(s, x, y) == MRed(x, y, s.modulus, s.mred)
mulcoeffsmontgomerylazyvec(s, x, y) == MRedLazy(x, y, s.modulus, s.mred)
mulcoeffsmontgomerythenaddvec(s, x, y, z) ==
  CRed(Wrap(z + mulcoeffsmontgomeryvec(s, x, y)), s.modulus)
mulcoeffsmontgomerythenaddlazyvec(s, x, y, z) == Wrap(z + mulcoeffsmontgomeryvec(s, x, y))
mulcoeffsmontgomerylazythenaddlazyvec(s, x, y, z) == Wrap(z + mulcoeffsmontgomerylazyvec(s, x, y))
mulcoeffsmontgomerythensubvec(s, x, y, z) ==
  CRed(Wrap(z + (s.modulus - mulcoeffsmontgomeryvec(s, x, y))), s.modulus)
mulcoeffsmontgomerythensublazyvec(s, x, y, z) ==
  Wrap(z + (s.modulus - mulcoeffsmontgomeryvec(s, x, y)))
\* A mutant: the lazy product may exceed the modulus it is subtracted from.
FaultLazySub(s, x, y, z) == Wrap(z + s.modulus - mulcoeffsmontgomerylazyvec(s, x, y))

mulcoeffsmontgomerylazythensublazyvec(s, x, y, z) ==
  Wrap(z + 2 * s.modulus - mulcoeffsmontgomerylazyvec(s, x, y))
mulcoeffsmontgomerylazythenNegvec(s, x, y) == Wrap(2 * s.modulus - mulcoeffsmontgomerylazyvec(s, x, y))

addlazythenmulscalarmontgomeryvec(s, x, y, scalar) == mulcoeffsmontgomeryvec(s, Wrap(x + y), scalar)
addscalarlazythenmulscalarmontgomeryvec(s, x, scalar0, scalar1) ==
  mulcoeffsmontgomeryvec(s, Wrap(x + scalar0), scalar1)
addscalarvec(s, x, scalar) == addvec(s, x, scalar)
addscalarlazyvec(s, x, scalar) == Wrap(x + scalar)
addscalarlazythenNegTwoModuluslazyvec(s, x, scalar) == Wrap(scalar + 2 * s.modulus - x)
subscalarvec(s, x, scalar) == subvec(s, x, scalar)
mulscalarmontgomeryvec(s, x, scalar) == mulcoeffsmontgomeryvec(s, x, scalar)
mulscalarmontgomerylazyvec(s, x, scalar) == mulcoeffsmontgomerylazyvec(s, x, scalar)
mulscalarmontgomerythenaddvec(s, x, scalar, z) == mulcoeffsmontgomerythenaddvec(s, x, scalar, z)
mulscalarmontgomerythenaddscalarvec(s, x, scalar0, scalar1) ==
  CRed(Wrap(mulcoeffsmontgomeryvec(s, x, scalar1) + scalar0), s.modulus)
subthenmulscalarmontgomeryTwoModulusvec(s, x, y, scalar) ==
  mulcoeffsmontgomeryvec(s, Wrap(2 * s.modulus - y + x), scalar)

mformvec(s, x) == MForm(x, s.modulus, s.bred)
mformlazyvec(s, x) == MFormLazy(x, s.modulus, s.bred)
imformvec(s, x) == IMForm(x, s.modulus, s.mred)

\* A SubRing does an element operation on every word.
EveryWord(Operation(_, _), s, x) == [j \in DOMAIN x |-> Operation(s, x[j])]

-----------------------------------------------------------------------------
\* What the element operations leave, for any word x, reduced words y and z, and
\* an accumulator a: the residue of the plain result (of the plain result divided
\* by 2^WordBits, for a Montgomery product) below a bound.  The bounds are the
\* least ones.  Two pass the ranges that subring_ops.go writes for a reduced
\* accumulator, [0, 2q-2] in lines 139 and 153: the last word, 2q-1, is left when
\* a zero is subtracted from q-1, and when a lazy product of 1 is negated.
Reduced(s, v, plain, bound) == v < bound /\ (v - plain) % s.modulus = 0
Montgomery(s, v, plain, bound) == v < bound /\ (v * Word - plain) % s.modulus = 0

AdditionsExact(s, x, y) ==
  LET q == s.modulus
  IN  /\ x < q => /\ Reduced(s, addvec(s, x, y), x + y, q) /\ Reduced(s, subvec(s, x, y), x - y, q)
                  /\ Reduced(s, addscalarvec(s, x, y), x + y, q)
                  /\ Reduced(s, subscalarvec(s, x, y), x - y, q)
                  /\ Reduced(s, negvec(s, x), -x, q + 1)
                  /\ Reduced(s, sublazyvec(s, x, y), x - y, 2 * q)
      /\ x < 2 * q => Reduced(s, addscalarlazythenNegTwoModuluslazyvec(s, x, y), y - x, 3 * q)
      /\ Reduced(s, reducevec(s, x), x, q) /\ Reduced(s, reducelazyvec(s, x), x, 2 * q)

BarrettExact(s, x, y, z, a) ==
  LET q == s.modulus
  IN  /\ Reduced(s, mulcoeffsbarrettvec(s, x, y), x * y, q)
      /\ Reduced(s, mulcoeffsbarrettlazyvec(s, x, y), x * y, 2 * q)
      /\ Reduced(s, mulcoeffsthenaddvec(s, x, y, z), z + x * y, q)
      /\ a + q <= Word => Reduced(s, mulcoeffsbarrettthenaddlazyvec(s, x, y, a), a + x * y, a + q)
      /\ x * y + a < Word => /\ mulcoeffslazyvec(s, x, y) = x * y
                             /\ mulcoeffslazythenaddlazyvec(s, x, y, a) = x * y + a
      /\ x \in 1 .. q - 1 => ModExp(x, y, q) = (x^y) % q /\ ModExpPow2(x, y, 8) = (x^y) % 8
      /\ LET poly == <<z, y, z>> IN EvalPolyModP(x, poly, 2, q) = (z + y * x + z * x * x) % q

MontgomeryExact(s, x, y, z, a) ==
  LET q == s.modulus
      product == mulcoeffsmontgomeryvec(s, x, y)
      lazy == mulcoeffsmontgomerylazyvec(s, x, y)
  IN  /\ Montgomery(s, product, x * y, q)
      /\ mulscalarmontgomeryvec(s, x, y) = product
      /\ lazy > 0 /\ Montgomery(s, lazy, x * y, 2 * q - 1)
      /\ mulscalarmontgomerylazyvec(s, x, y) = lazy
      /\ Reduced(s, mulcoeffsmontgomerythenaddvec(s, x, y, z), z + product, q)
      /\ Reduced(s, mulscalarmontgomerythenaddvec(s, x, y, z), z + product, q)
      /\ Reduced(s, mulscalarmontgomerythenaddscalarvec(s, x, z, y), z + product, q)
      /\ Reduced(s, mulcoeffsmontgomerythensubvec(s, x, y, z), z - product, q)
      /\ Reduced(s, mulcoeffsmontgomerylazythenNegvec(s, x, y), -product, 2 * q)
      /\ mulcoeffsmontgomerylazythenNegvec(s, x, y) = 2 * q - 1 <=> lazy = 1
      /\ a + 2 * q <= Word =>
           /\ Reduced(s, mulcoeffsmontgomerythenaddlazyvec(s, x, y, a), a + product, a + q)
           /\ Reduced(s, mulcoeffsmontgomerylazythenaddlazyvec(s, x, y, a), a + product, a + 2 * q - 1)
           /\ Reduced(s, mulcoeffsmontgomerythensublazyvec(s, x, y, a), a - product, a + q + 1)
           /\ mulcoeffsmontgomerythensublazyvec(s, x, y, a) = a + q <=> product = 0
           /\ Reduced(s, mulcoeffsmontgomerylazythensublazyvec(s, x, y, a), a - product, a + 2 * q)
      /\ x + z < Word =>
           /\ Montgomery(s, addlazythenmulscalarmontgomeryvec(s, x, z, y), (x + z) * y, q)
           /\ Montgomery(s, addscalarlazythenmulscalarmontgomeryvec(s, x, z, y), (x + z) * y, q)
      /\ x < 2 * q => Montgomery(s, subthenmulscalarmontgomeryTwoModulusvec(s, z, x, y), (z - x) * y, q)
      /\ Reduced(s, mformvec(s, x), x * Word, q) /\ Reduced(s, mformlazyvec(s, x), x * Word, 2 * q)
      /\ Montgomery(s, imformvec(s, x), x, q)

ElementsExact(s, x, y, z, a) ==
  AdditionsExact(s, x, y) /\ BarrettExact(s, x, y, z, a) /\ MontgomeryExact(s, x, y, z, a)

-----------------------------------------------------------------------------
\* SubRings.

IsPrime(x) == x > 1 /\ \A d \in 2 .. x - 1 : x % d # 0
PrimeFactors(m) == {d \in 2..m : m % d = 0 /\ IsPrime(d)}

\* Every listed factor is prime, and together they are all of m's.
CheckFactors(m, factors) == (\A f \in factors : IsPrime(f)) /\ PrimeFactors(m) \subseteq factors
CheckPrimitiveRoot(g, q, factors) ==
  CheckFactors(q - 1, factors) /\ \A f \in factors : ModExp(g, (q - 1) \div f, q) # 1

\* The search starts at 3.
PrimitiveRoot(q) ==
  Min({g \in 3 .. q - 1 : \A f \in PrimeFactors(q - 1) : ModExp(g, (q - 1) \div f, q) # 1})

Log2(n) == CHOOSE k \in 0..n : 2^k = n

RECURSIVE BitReverse(_, _)
BitReverse(i, bits) == IF bits = 0 THEN 0 ELSE (i % 2) * 2^(bits - 1) + BitReverse(i \div 2, bits - 1)

\* NewSubRing admits a degree and a modulus; the transform is standard with
\* 2N-th roots of unity, or conjugate-invariant with 4N-th roots.
ValidSubRing(N, q, nthRoot) ==
  N >= 8 /\ PrimeFactors(N) = {2} /\ IsPrime(q) /\ q % nthRoot = 1

\* generateNTTConstants: the powers of the root in Montgomery form, in
\* bit-reversed order.
RootTable(psi, size, q, mred, bred) ==
  [i \in 0 .. size - 1 |-> ModexpMontgomery(psi, BitReverse(i, Log2(size)), q, mred, bred)]

SubRing(N, q, type) ==
  LET nthRoot == IF type = "standard" THEN 2 * N ELSE 4 * N
      bred == GenBRedConstant(q)
      mred == GenMRedConstant(q)
      g == PrimitiveRoot(q)
      Root(e) == MForm(ModExp(g, e, q), q, bred)
  IN  [N |-> N, modulus |-> q, type |-> type, nthRoot |-> nthRoot, bred |-> bred, mred |-> mred,
       psi |-> Root((q - 1) \div nthRoot),
       nInv |-> MForm(ModExp(nthRoot \div 2, q - 2, q), q, bred),
       forward |-> RootTable(Root((q - 1) \div nthRoot), nthRoot \div 2, q, mred, bred),
       backward |-> RootTable(Root(q - 1 - (q - 1) \div nthRoot), nthRoot \div 2, q, mred, bred)]
-----------------------------------------------------------------------------
\* The transforms of ntt.go, on vectors of words.

Standard(s) == s.type = "standard"
Unrolled(s) == s.N >= 16               \* MinimumRingDegreeForLoopUnrolledNTT
Index(s) == 0 .. s.N - 1

\* Butterflies.  The code leaves out the subtraction of 4q in every other stage
\* of the unrolled loops: reduce says whether it is there.

butterfly(s, U, V, psi, reduce) ==
  LET u == IF reduce /\ U >= 4 * s.modulus THEN U - 4 * s.modulus ELSE U
      v == mulcoeffsmontgomerylazyvec(s, V, psi)
  IN  <<Wrap(u + v), Wrap(u + 2 * s.modulus - v)>>

invbutterfly(s, U, V, psi) ==
  LET x == Wrap(U + V)
  IN  <<IF x >= 2 * s.modulus THEN x - 2 * s.modulus ELSE x,
        mulcoeffsmontgomerylazyvec(s, Wrap(U + 4 * s.modulus - V), psi)>>

BitLength(n) == Log2(n) + 1

\* A mutant: only the last stage subtracts.
FaultReduces(s, m) == ~Unrolled(s) \/ (Standard(s) /\ 2 * m = s.N)

\* Whether the forward stage with m roots subtracts 4q before it adds.  Only
\* the last stage of the standard transform always does.
Reduces(s, m) ==
  \/ ~Unrolled(s)
  \/ Standard(s) /\ 2 * m = s.N
  \/ m > 1 /\ BitLength(m) % 2 = 1

\* One stage: the pairs are t words apart, and their roots lie from base on.
Paired(N, p, t, base, Pair(_, _, _)) ==
  [j \in 0 .. N - 1 |->
     LET x == IF j % (2 * t) < t THEN j ELSE j - t
         pair == Pair(p[x], p[x + t], base + j \div (2 * t))
     IN  IF j = x THEN pair[1] ELSE pair[2]]

ForwardStage(s, m, p) ==
  LET Pair(U, V, root) == butterfly(s, U, V, s.forward[root], Reduces(s, m))
  IN  Paired(s.N, p, IF Standard(s) THEN s.N \div (2 * m) ELSE s.N \div m, m, Pair)

\* m counts the blocks before the stage; the roots of the conjugate-invariant
\* transform are those of twice the degree.
BackwardStage(s, m, p) ==
  LET Pair(U, V, root) == invbutterfly(s, U, V, s.backward[root])
  IN  Paired(s.N, p, s.N \div m, IF Standard(s) THEN m \div 2 ELSE m, Pair)

\* The fold of the conjugate-invariant transforms: word j with word N - j.
\* Only the backward one doubles the constant coefficient.
Fold(s, p, root) ==
  [j \in Index(s) |-> IF j = 0 THEN p[0]
                   ELSE Wrap(p[j] + 2 * s.modulus - mulcoeffsmontgomerylazyvec(s, p[s.N - j], root))]
Doubled(s, p) == [p EXCEPT ![0] = CRed(Wrap(2 * p[0]), s.modulus)]

\* All stages.
NTTLazy(s, p) ==
  LET stages == IF Standard(s) THEN Log2(s.N) ELSE Log2(s.N) + 1
      After[k \in 0..stages] ==
        IF k = 0 THEN p
        ELSE IF ~Standard(s) /\ k = 1 THEN Fold(s, After[0], s.forward[1])
        ELSE ForwardStage(s, 2^(k - 1), After[k - 1])
  IN  After[stages]
NTT(s, p) == EveryWord(reducevec, s, NTTLazy(s, p))

BackwardStages(s, p) ==
  LET After[k \in 0..Log2(s.N)] ==
        IF k = 0 THEN p ELSE BackwardStage(s, s.N \div 2^(k - 1), After[k - 1])
      last == After[Log2(s.N)]
  IN  IF Standard(s) THEN last ELSE Doubled(s, Fold(s, last, s.backward[1]))
INTT(s, p) == LET last == BackwardStages(s, p)
              IN  [j \in Index(s) |-> mulscalarmontgomeryvec(s, last[j], s.nInv)]
\* The unrolled standard transform reduces even here.
INTTLazy(s, p) ==
  LET last == BackwardStages(s, p)
  IN  IF Standard(s) /\ Unrolled(s) THEN INTT(s, p)
      ELSE [j \in Index(s) |-> mulscalarmontgomerylazyvec(s, last[j], s.nInv)]

-----------------------------------------------------------------------------
\* Maps of polynomials.

\* X^i |-> X^(i gen) outside of the transform, a word q for a zero that is
\* negated; a word of the upper half of the conjugate-invariant ring is the
\* negated word of its mirror.
Automorphism(s, p, gen) ==
  LET size == IF Standard(s) THEN s.N ELSE 2 * s.N
      Source(j) == CHOOSE i \in 0 .. size - 1 : (i * gen) % size = j
      Flips(i) == ((i * gen) \div size + (IF i >= s.N THEN 1 ELSE 0)) % 2 = 1
  IN  [j \in Index(s) |->
         LET i == Source(j)
             word == p[IF i > s.N THEN 2 * s.N - i ELSE i]
         IN  IF Flips(i) THEN negvec(s, word) ELSE word]

\* The same on transformed words: a permutation.
AutomorphismNTTIndex(s, gen) ==
  LET bits == Log2(s.nthRoot) - 1
  IN  [i \in Index(s) |->
         BitReverse((((gen * (2 * BitReverse(i, bits) + 1)) % s.nthRoot) - 1) \div 2, bits)]
AutomorphismNTT(s, p, gen) ==
  LET index == AutomorphismNTTIndex(s, gen) IN [i \in Index(s) |-> p[index[i]]]

MultByMonomial(s, p, k) ==
  LET shift == (k + 2 * s.N) % (2 * s.N)
      rotated == shift % s.N
      signed == [j \in Index(s) |-> IF shift < s.N THEN p[j] ELSE negvec(s, p[j])]
  IN  IF shift = 0 THEN p
      ELSE [j \in Index(s) |-> IF j < rotated THEN negvec(s, signed[s.N - rotated + j])
                            ELSE signed[j - rotated]]
=============================================================================
