---------------------------- MODULE OneHotProofs ----------------------------
(***************************************************************************)
(* What holds of EvaluateOBO and EvaluateFullLevel for trees of every      *)
(* depth, every input, either strategy and integers of every width: the    *)
(* weights are one-hot, nothing that depends on the path is public, the    *)
(* operation counts and peaks are those of the design, and an evaluation   *)
(* that returns has walked the tree as the plain evaluation does.          *)
(*                                                                         *)
(* The inductive invariant Inv says of every state of an evaluation which  *)
(* weight is hot (HasPath), that what has been selected is the feature and *)
(* the threshold of the hot node (Selected), that the branch that was      *)
(* compared for it is the plain walk's (Compared), and, to the call, what  *)
(* has been spent so far (Billed, Bounded, Alive).  The steps rest on      *)
(*   - the arithmetic of the plain backend's values (AddValues, MulSameKind *)
(*     and their like): a weight of zero or one wraps around nowhere;      *)
(*   - the sum of a selection (SumOfOne): if all terms but one are zero,   *)
(*     the sum is that term, by induction over the number of terms;        *)
(*   - the tallies of the helpers' calls (FeatureBill and its like), whose *)
(*     totals over the levels are sums of powers of two.                   *)
(* The library states induction for an operator, which no prover here can  *)
(* instantiate; it is derived from WFMin as a statement about sets.        *)
(***************************************************************************)
EXTENDS OneHotEvaluation, FiniteSetTheorems, SequenceTheorems, TLAPS

-----------------------------------------------------------------------------
\* Induction over the natural numbers, in the form of a set: the library states
\* it for an operator, which the provers cannot instantiate.

\* Every nonempty set of natural numbers has a least element.
LEMMA LeastNumber ==
  ASSUME NEW T, T \subseteq Nat, T # {}
  PROVE  \E m \in T : \A k \in T : m <= k
<1>1. PICK m \in T : \A k \in T : <<k, m>> \notin OpToRel(<, Nat)
  BY NatLessThanWellFounded, WFMin
<1>2. ASSUME NEW k \in T PROVE m <= k
  <2>1. <<k, m>> \notin OpToRel(<, Nat)
    BY <1>1
  <2> QED BY <2>1 DEF OpToRel
<1> QED BY <1>2

\* A set with 0 that has i + 1 for every i it has holds every natural number: for
\* the loops over levels and terms of evaluator.go.
LEMMA Induction ==
  ASSUME NEW T, 0 \in T, \A n \in Nat : n \in T => n + 1 \in T
  PROVE  \A n \in Nat : n \in T
<1> DEFINE U == {n \in Nat : n \notin T}
<1> SUFFICES ASSUME U # {} PROVE FALSE
  OBVIOUS
<1>1. PICK m \in U : \A k \in U : m <= k
  <2>1. U \subseteq Nat
    OBVIOUS
  <2> QED BY <2>1, LeastNumber
<1>2. m \in Nat /\ m # 0
  OBVIOUS
<1>3. m - 1 \in Nat /\ m - 1 \in T
  BY <1>1, <1>2
<1> QED BY <1>2, <1>3

-----------------------------------------------------------------------------
\* Powers of two: 2^d nodes at level d, 2^d - 1 above it.

\* A level has at least one node more than there are levels above it.
LEMMA Powers ==
  \A d \in Nat : d <= MaxDepth + 1 => 2^d \in Nat /\ 2^d >= d + 1
<1> DEFINE T == {d \in Nat : d <= MaxDepth + 1 => 2^d \in Nat /\ 2^d >= d + 1}
<1>1. 0 \in T
  BY PowersOfTwo
<1>2. ASSUME NEW d \in Nat, d \in T PROVE d + 1 \in T
  <2> SUFFICES ASSUME d + 1 <= MaxDepth + 1 PROVE 2^(d + 1) \in Nat /\ 2^(d + 1) >= (d + 1) + 1
    OBVIOUS
  <2>1. 2^d \in Nat /\ 2^d >= d + 1 /\ 2^(d + 1) = 2 * 2^d
    BY <1>2, OneHotAssumption, PowersOfTwo
  <2> QED BY <2>1
<1> HIDE DEF T
<1>3. \A d \in Nat : d \in T
  BY <1>1, <1>2, Induction
<1> QED BY <1>3 DEF T

\* From one level to a deeper one, what is above grows, also without the one
\* addition that each selection of a level saves.
LEMMA PowersGrow ==
  ASSUME NEW e \in 0..MaxDepth
  PROVE  \A d \in 0..e : 2^d <= 2^e /\ 2^d - d <= 2^e - e
<1> DEFINE T == {k \in Nat : k <= e => 2^(e - k) <= 2^e /\ 2^(e - k) - (e - k) <= 2^e - e}
<1>0. MaxDepth \in Nat /\ e \in Nat
  BY OneHotAssumption
<1>1. 0 \in T
  <2>1. e - 0 = e /\ 2^e \in Nat
    BY <1>0, Powers
  <2> QED BY <1>0, <2>1
<1>2. ASSUME NEW k \in Nat, k \in T PROVE k + 1 \in T
  <2> SUFFICES ASSUME k + 1 <= e
               PROVE  2^(e - (k + 1)) <= 2^e /\ 2^(e - (k + 1)) - (e - (k + 1)) <= 2^e - e
    OBVIOUS
  <2> DEFINE d == e - (k + 1)
  <2>1. d \in 0..MaxDepth /\ d + 1 = e - k /\ d \in Nat /\ d <= MaxDepth + 1
    BY <1>0
  <2>2. 2^(d + 1) <= 2^e /\ 2^(d + 1) - (d + 1) <= 2^e - e
    BY <1>2, <2>1
  <2>3. 2^(d + 1) = 2 * 2^d /\ 2^d \in Nat /\ 2^d >= d + 1 /\ 2^e \in Nat
    BY <1>0, <2>1, PowersOfTwo, Powers
  <2> HIDE DEF d
  <2>4. 2^d <= 2^e /\ 2^d - d <= 2^e - e
    BY <1>0, <2>1, <2>2, <2>3
  <2> QED BY <2>4 DEF d
<1> HIDE DEF T
<1>3. \A k \in Nat : k \in T
  BY <1>1, <1>2, Induction
<1>4. ASSUME NEW d \in 0..e PROVE 2^d <= 2^e /\ 2^d - d <= 2^e - e
  <2>1. e - d \in Nat /\ e - d <= e /\ e - (e - d) = d
    BY <1>0
  <2> QED BY <1>3, <2>1 DEF T
<1> QED BY <1>4

-----------------------------------------------------------------------------
\* Values: what an encoding is of a number that fits, and what it decodes to.
Kinds == {"real", "unsigned", "signed"}
V(k, n) == Value(k, n, "opaque")

\* 2^BitWidth is an even number of at least two.
LEMMA ModulusFacts == Modulus \in Nat /\ Modulus >= 2 /\ Modulus = 2 * (Modulus \div 2)
BY PowersOfTwo

Residue(n, M) == n % M
\* What encoding a number does (SignedScalar, UnsignedScalar of numeric.go): numbers
\* of the range stay, those just below it wrap around, and the result is in range.
LEMMA SmallResidue ==
  ASSUME NEW M \in Nat \ {0}, NEW n \in Int
  PROVE  /\ n \in 0 .. M - 1 => Residue(n, M) = n
         /\ n \in -M .. -1 => Residue(n, M) = n + M
         /\ Residue(n, M) \in 0 .. M - 1
BY DEF Residue

\* Reals are encoded as they are, integers by their low bits.
LEMMA EncodedIs ==
  \A k, n : Encoded(k, n) = IF k = "real" THEN n ELSE Residue(n, Modulus)
BY DEF Encoded, Residue

\* Encoding is idempotent, and the bits 0 and 1 are encoded as themselves in every
\* kind: a one-hot weight is the same in integers of every width.
LEMMA EncodedNumbers ==
  ASSUME NEW k \in {"real", ScalarKind}, NEW n \in Int
  PROVE  /\ Encoded(k, n) \in Int /\ Encoded(k, Encoded(k, n)) = Encoded(k, n)
         /\ Encoded(k, 0) = 0 /\ Encoded(k, 1) = 1
<1>1. Modulus \in Nat \ {0} /\ 0 \in 0 .. Modulus - 1 /\ 1 \in 0 .. Modulus - 1
  BY ModulusFacts
<1>2. Residue(n, Modulus) \in 0 .. Modulus - 1 /\ Residue(0, Modulus) = 0 /\ Residue(1, Modulus) = 1
  BY <1>1, SmallResidue
<1>3. Residue(Residue(n, Modulus), Modulus) = Residue(n, Modulus)
  BY <1>1, <1>2, SmallResidue
<1> QED BY <1>2, <1>3, EncodedIs

\* Decoding gives back every number of the scalar type (SignedValue, UnsignedValue).
LEMMA DecodedNumbers ==
  ASSUME NEW n \in Int, Representable(n), NEW k \in {"real", ScalarKind}, NEW o
  PROVE  Decoded(Value(k, Encoded(k, n), o)) = n
<1>1. Modulus \in Nat \ {0} /\ Modulus >= 2 /\ Modulus = 2 * (Modulus \div 2)
        /\ Modulus \div 2 \in Nat
  BY ModulusFacts
<1>2. CASE k = "real"
  BY <1>2, EncodedIs DEF Decoded, Value
<1>3. CASE k = "unsigned"
  <2>1. ScalarKind = "unsigned"
    BY <1>3
  <2>2. n \in 0 .. Modulus - 1
    BY <2>1 DEF Representable
  <2>3. Residue(n, Modulus) = n
    BY <1>1, <2>2, SmallResidue
  <2> QED BY <1>3, <2>3, EncodedIs DEF Decoded, Value
<1>4. CASE k = "signed"
  <2>1. ScalarKind = "signed"
    BY <1>4
  <2>2. n \in -(Modulus \div 2) .. Modulus \div 2 - 1
    BY <2>1 DEF Representable
  <2>3. CASE n >= 0
    <3>1. n \in 0 .. Modulus - 1
      BY <1>1, <2>2, <2>3
    <3>2. Residue(n, Modulus) = n /\ ~(n >= Modulus \div 2)
      BY <1>1, <2>2, <3>1, SmallResidue
    <3> QED BY <1>4, <3>2, EncodedIs DEF Decoded, Value
  <2>4. CASE n < 0
    <3>1. n \in -Modulus .. -1
      BY <1>1, <2>2, <2>4
    <3>2. Residue(n, Modulus) = n + Modulus /\ n + Modulus >= Modulus \div 2
      BY <1>1, <2>2, <3>1, SmallResidue
    <3> QED BY <1>1, <1>4, <3>2, EncodedIs DEF Decoded, Value
  <2> QED BY <2>2, <2>3, <2>4
<1>5. k \in {"real", "unsigned", "signed"}
  BY OneHotAssumption
<1> QED BY <1>2, <1>3, <1>4, <1>5

\* The kind of an operand of the evaluation is never that of a failed operation.
LEMMA KindsAreGood ==
  ASSUME NEW k \in {"real", ScalarKind}
  PROVE  k # "bad" /\ k # "none" /\ (k = "real" \/ k \in {"unsigned", "signed"})
BY OneHotAssumption

\* A value is its three fields.
LEMMA ValueFields ==
  \A k, n, o : /\ Value(k, n, o).kind = k /\ Value(k, n, o).n = n
               /\ Value(k, n, o).provenance = o
BY DEF Value

\* What an opaque value takes part in is opaque (joinedKind of plain.go).
LEMMA OpaqueJoins ==
  \A k, n, k2, n2, o : /\ Joined(V(k, n), Value(k2, n2, o)) = "opaque"
                       /\ Joined(Value(k2, n2, o), V(k, n)) = "opaque"
BY ValueFields DEF Joined, V

\* Sums of opaque values of one kind.
LEMMA AddValues ==
  ASSUME NEW k \in {"real", ScalarKind}, NEW a \in Int, NEW b \in Int
  PROVE  Add(V(k, a), V(k, b)) = V(k, Encoded(k, a + b))
<1> DEFINE v == V(k, a)
           w == V(k, b)
<1>1. Matching(v, w) /\ ~(IsInteger(v) /\ IsBit(w)) /\ ~(IsInteger(w) /\ IsBit(v))
  BY ValueFields, KindsAreGood DEF Matching, V, IsInteger, IsBit
<1>2. v.n = a /\ w.n = b /\ v.kind = k /\ Joined(v, w) = "opaque"
  BY ValueFields, OpaqueJoins DEF V
<1> HIDE DEF v, w
<1>3. Add(v, w) = Arithmetic(v, w, v.n + w.n)
  BY <1>1 DEF Add
<1>4. Arithmetic(v, w, a + b) = V(k, Encoded(k, a + b))
  BY <1>2 DEF Arithmetic, V
<1> QED BY <1>2, <1>3, <1>4 DEF v, w

\* Differences of opaque values of one kind.
LEMMA SubValues ==
  ASSUME NEW k \in {"real", ScalarKind}, NEW a \in Int, NEW b \in Int
  PROVE  Sub(V(k, a), V(k, b)) = V(k, Encoded(k, a - b))
<1>1. Matching(V(k, a), V(k, b))
  BY ValueFields, KindsAreGood DEF Matching, V
<1>2. Sub(V(k, a), V(k, b)) = Arithmetic(V(k, a), V(k, b), a - b)
  BY <1>1, ValueFields DEF Sub, V
<1> QED BY <1>2, ValueFields, OpaqueJoins DEF Arithmetic, V

\* A weight times a value: of the same kind, or one of the two a bit.
LEMMA MulSameKind ==
  ASSUME NEW k \in {"real", ScalarKind}, NEW w \in Int, NEW n \in Int, NEW o
  PROVE  Mul(V(k, w), Value(k, n, o)) = V(k, Encoded(k, w * n))
<1> DEFINE a == V(k, w)
           b == Value(k, n, o)
<1>1. Matching(a, b) /\ ~(IsInteger(a) /\ IsBit(b)) /\ ~(IsInteger(b) /\ IsBit(a))
  BY ValueFields, KindsAreGood DEF Matching, V, IsInteger, IsBit
<1>2. a.n = w /\ b.n = n /\ a.kind = k /\ Joined(a, b) = "opaque"
  BY ValueFields, OpaqueJoins DEF V
<1> HIDE DEF a, b
<1>3. Mul(a, b) = Arithmetic(a, b, a.n * b.n)
  BY <1>1 DEF Mul
<1>4. Arithmetic(a, b, w * n) = V(k, Encoded(k, w * n))
  BY <1>2 DEF Arithmetic, V
<1> QED BY <1>2, <1>3, <1>4 DEF a, b

\* A real weight of zero or one times an integer (integerAndBinaryReal of plain.go).
LEMMA MulRealWeight ==
  ASSUME NEW w \in {0, 1}, NEW n \in Int, NEW o, ScalarKind # "real"
  PROVE  Mul(V("real", w), Value(ScalarKind, n, o)) = V(ScalarKind, Encoded(ScalarKind, w * n))
<1> DEFINE a == V("real", w)
           b == Value(ScalarKind, n, o)
<1>1. ~Matching(a, b) /\ ~IsInteger(a) /\ IsInteger(b) /\ IsBit(a)
  BY ValueFields, KindsAreGood DEF Matching, V, IsInteger, IsBit
<1>2. a.n = w /\ b.n = n /\ b.kind = ScalarKind /\ Joined(b, a) = "opaque"
  BY ValueFields, OpaqueJoins DEF V
<1> HIDE DEF a, b
<1>3. Mul(a, b) = Arithmetic(b, a, a.n * b.n)
  BY <1>1 DEF Mul
<1>4. Arithmetic(b, a, w * n) = V(ScalarKind, Encoded(ScalarKind, w * n))
  BY <1>2 DEF Arithmetic, V
<1> QED BY <1>2, <1>3, <1>4 DEF a, b

\* An integer weight times a real: an error of the backend unless the real is a bit.
LEMMA MulIntegerWeight ==
  ASSUME NEW w \in Int, NEW n \in Int, NEW o, ScalarKind # "real"
  PROVE  Mul(V(ScalarKind, w), Value("real", n, o))
           = IF n \in {0, 1} THEN V(ScalarKind, Encoded(ScalarKind, w * n)) ELSE Bad
<1> DEFINE a == V(ScalarKind, w)
           b == Value("real", n, o)
<1>1. ~Matching(a, b) /\ IsInteger(a) /\ ~IsInteger(b) /\ (IsBit(b) <=> n \in {0, 1})
  BY ValueFields, KindsAreGood DEF Matching, V, IsInteger, IsBit
<1>2. a.n = w /\ b.n = n /\ a.kind = ScalarKind /\ Joined(a, b) = "opaque"
  BY ValueFields, OpaqueJoins DEF V
<1> HIDE DEF a, b
<1>3. CASE n \in {0, 1}
  <2>1. Mul(a, b) = Arithmetic(a, b, a.n * b.n)
    BY <1>1, <1>3 DEF Mul
  <2>2. Arithmetic(a, b, w * n) = V(ScalarKind, Encoded(ScalarKind, w * n))
    BY <1>2 DEF Arithmetic, V
  <2> QED BY <1>2, <1>3, <2>1, <2>2 DEF a, b
<1>4. CASE n \notin {0, 1}
  <2>1. Mul(a, b) = Bad
    BY <1>1, <1>4 DEF Mul
  <2> QED BY <1>4, <2>1 DEF a, b
<1> QED BY <1>3, <1>4

\* A weight that is zero or one times a number: the number or nothing, of the
\* kind of the product; an integer weight refuses a real that is no bit.
ProductKind(k, l) == IF k = l THEN k ELSE ScalarKind

\* A weight of zero or one times an operand, where the backend has no error: zero or
\* the operand, in the integer kind if either is an integer.
LEMMA WeightTimes ==
  ASSUME NEW k \in {"real", ScalarKind}, NEW l \in {"real", ScalarKind},
         NEW w \in {0, 1}, NEW n \in Int, NEW o,
         Mul(V(k, w), Value(l, Encoded(l, n), o)) # Bad
  PROVE  Mul(V(k, w), Value(l, Encoded(l, n), o))
           = V(ProductKind(k, l), IF w = 1 THEN Encoded(ProductKind(k, l), n) ELSE 0)
<1> DEFINE m == Encoded(l, n)
<1>1. w \in Int /\ m \in Int /\ (w = 1 => w * m = m) /\ (w = 0 => w * m = 0)
  BY EncodedNumbers
<1>2. CASE k = l
  <2>1. Mul(V(k, w), Value(l, m, o)) = V(l, Encoded(l, w * m))
    BY <1>1, <1>2, MulSameKind
  <2>2. Encoded(l, w * m) = IF w = 1 THEN m ELSE 0
    BY <1>1, EncodedNumbers
  <2> QED BY <1>2, <2>1, <2>2 DEF ProductKind
<1>3. CASE k # l /\ k = "real"
  <2>1. l = ScalarKind /\ ScalarKind # "real" /\ ProductKind(k, l) = ScalarKind
    BY <1>3 DEF ProductKind
  <2>2. Mul(V("real", w), Value(ScalarKind, m, o)) = V(ScalarKind, Encoded(ScalarKind, w * m))
    BY <1>1, <2>1, MulRealWeight
  <2>3. Encoded(l, w * m) = IF w = 1 THEN m ELSE 0
    BY <1>1, EncodedNumbers
  <2> QED BY <1>3, <2>1, <2>2, <2>3
<1>4. CASE k # l /\ k # "real"
  <2>1. k = ScalarKind /\ l = "real" /\ ScalarKind # "real" /\ ProductKind(k, l) = ScalarKind
    BY <1>4 DEF ProductKind
  <2>2. m = n
    BY <2>1, EncodedIs
  <2>3. Mul(V(ScalarKind, w), Value("real", m, o))
          = IF m \in {0, 1} THEN V(ScalarKind, Encoded(ScalarKind, w * m)) ELSE Bad
    BY <1>1, <2>1, MulIntegerWeight
  <2>4. m \in {0, 1}
    BY <2>1, <2>3
  <2>5. Encoded(ScalarKind, w * m) = IF w = 1 THEN Encoded(ScalarKind, n) ELSE 0
    BY <1>1, <2>2, <2>4, EncodedNumbers
  <2> QED BY <2>1, <2>3, <2>4, <2>5
<1> QED BY <1>2, <1>3, <1>4

-----------------------------------------------------------------------------
\* Sums: the function that sumValues builds, from its first term on.
Unfolds(p, terms, n) ==
  p = [i \in 0 .. n - 1 |-> IF i = 0 THEN terms[0] ELSE Add(p[i - 1], terms[i])]

\* sumValues unfolds: there is a function of its partial sums.
LEMMA UnfoldingExists ==
  ASSUME NEW terms, NEW n \in Nat
  PROVE  \E p : Unfolds(p, terms, n)
<1> DEFINE T == {m \in Nat : \E p : Unfolds(p, terms, m)}
<1>1. 0 \in T
  <2>1. Unfolds([i \in 0 .. 0 - 1 |-> 0], terms, 0)
    BY DEF Unfolds
  <2> QED BY <2>1
<1>2. ASSUME NEW m \in Nat, m \in T PROVE m + 1 \in T
  <2>1. PICK p : Unfolds(p, terms, m)
    BY <1>2
  <2> DEFINE q == [i \in 0 .. m |-> IF i = m THEN IF m = 0 THEN terms[0] ELSE Add(p[m - 1], terms[m])
                                     ELSE p[i]]
  <2>2. Unfolds(q, terms, m + 1)
    <3>1. ASSUME NEW i \in 0 .. m PROVE q[i] = IF i = 0 THEN terms[0] ELSE Add(q[i - 1], terms[i])
      <4>1. CASE i = m
        BY <4>1
      <4>2. CASE i # m
        <5>1. i \in 0 .. m - 1
          BY <4>2
        <5>2. p[i] = IF i = 0 THEN terms[0] ELSE Add(p[i - 1], terms[i])
          BY <5>1, <2>1 DEF Unfolds
        <5>3. q[i] = p[i] /\ (i # 0 => q[i - 1] = p[i - 1])
          BY <4>2, <5>1
        <5> QED BY <5>2, <5>3
      <4> QED BY <4>1, <4>2
    <3>2. (m + 1) - 1 = m
      OBVIOUS
    <3> HIDE DEF q
    <3>3. q = [i \in 0 .. m |-> q[i]]
      BY DEF q
    <3> QED BY <3>1, <3>2, <3>3 DEF Unfolds
  <2> QED BY <2>2
<1> HIDE DEF T
<1>3. \A m \in Nat : m \in T
  BY <1>1, <1>2, Induction
<1> QED BY <1>3 DEF T

\* The sum of terms (sumValues of evaluator.go) is the last of its partial sums.
LEMMA SumUnfolds ==
  ASSUME NEW terms, NEW n \in Nat
  PROVE  \E p : Unfolds(p, terms, n) /\ Sum(terms, n) = p[n - 1]
<1> DEFINE q == CHOOSE p : Unfolds(p, terms, n)
<1>1. Unfolds(q, terms, n)
  BY UnfoldingExists
<1>2. Sum(terms, n) = q[n - 1]
  BY DEF Sum, Unfolds
<1> QED BY <1>1, <1>2

\* A sum of terms of which at most one is not zero is that one.
IsUnit(terms, n, h, k, v) == \A i \in 0 .. n - 1 : terms[i] = V(k, IF i = h THEN v ELSE 0)

\* A sum all of whose terms but one are zero is that term.
LEMMA SumOfOne ==
  ASSUME NEW terms, NEW n \in Nat, NEW h \in 0 .. n - 1,
         NEW k \in {"real", ScalarKind}, NEW v \in Int, Encoded(k, v) = v,
         IsUnit(terms, n, h, k, v)
  PROVE  Sum(terms, n) = V(k, v)
<1>0. \A i \in 0 .. n - 1 : terms[i] = V(k, IF i = h THEN v ELSE 0)
  BY DEF IsUnit
<1>1. PICK p : Unfolds(p, terms, n) /\ Sum(terms, n) = p[n - 1]
  BY SumUnfolds
<1>2. \A i \in 0 .. n - 1 : p[i] = IF i = 0 THEN terms[0] ELSE Add(p[i - 1], terms[i])
  BY <1>1 DEF Unfolds
<1> DEFINE T == {i \in Nat : i <= n - 1 => p[i] = V(k, IF i >= h THEN v ELSE 0)}
<1>3. 0 \in T
  <2>1. 0 \in 0 .. n - 1 /\ (0 = h <=> 0 >= h)
    OBVIOUS
  <2>2. p[0] = terms[0] /\ terms[0] = V(k, IF 0 = h THEN v ELSE 0)
    BY <1>0, <1>2, <2>1
  <2> QED BY <2>1, <2>2
<1>4. ASSUME NEW i \in Nat, i \in T PROVE i + 1 \in T
  <2> SUFFICES ASSUME i + 1 <= n - 1 PROVE p[i + 1] = V(k, IF i + 1 >= h THEN v ELSE 0)
    OBVIOUS
  <2>1. i + 1 \in 0 .. n - 1 /\ i + 1 # 0 /\ (i + 1) - 1 = i
    OBVIOUS
  <2>2. p[i + 1] = Add(p[i], terms[i + 1])
    BY <1>2, <2>1
  <2>3. p[i] = V(k, IF i >= h THEN v ELSE 0)
    BY <1>4
  <2>4. terms[i + 1] = V(k, IF i + 1 = h THEN v ELSE 0)
    BY <1>0, <2>1
  <2>a. PICK a \in Int : a = IF i >= h THEN v ELSE 0
    OBVIOUS
  <2>b. PICK b \in Int : b = IF i + 1 = h THEN v ELSE 0
    OBVIOUS
  <2>c. PICK c \in Int : c = IF i + 1 >= h THEN v ELSE 0
    OBVIOUS
  <2>5. a + b = c /\ (c = v \/ c = 0)
    BY <2>a, <2>b, <2>c
  <2>6. Encoded(k, c) = c
    BY <2>5, EncodedNumbers
  <2>7. Add(V(k, a), V(k, b)) = V(k, Encoded(k, a + b))
    BY AddValues
  <2>8. p[i] = V(k, a) /\ terms[i + 1] = V(k, b)
    BY <2>3, <2>4, <2>a, <2>b
  <2>9. p[i + 1] = V(k, c)
    BY <2>2, <2>5, <2>6, <2>7, <2>8
  <2> QED BY <2>9, <2>c
<1> HIDE DEF T
<1>5. \A i \in Nat : i \in T
  BY <1>3, <1>4, Induction
<1>6. n - 1 \in Nat /\ n - 1 >= h
  OBVIOUS
<1>7. p[n - 1] = V(k, v)
  BY <1>5, <1>6 DEF T
<1> QED BY <1>1, <1>7

\* A sum that is a value had only values for terms.
LEMMA SumNotBad ==
  ASSUME NEW terms, NEW n \in Nat, Sum(terms, n) # Bad
  PROVE  \A i \in 0 .. n - 1 : terms[i] # Bad
<1>1. PICK p : Unfolds(p, terms, n) /\ Sum(terms, n) = p[n - 1]
  BY SumUnfolds
<1>2. \A i \in 0 .. n - 1 : p[i] = IF i = 0 THEN terms[0] ELSE Add(p[i - 1], terms[i])
  BY <1>1 DEF Unfolds
<1>3. \A a, b : Add(a, b) # Bad => a # Bad /\ b # Bad
  <2>1. Bad.kind = "bad"
    BY DEF Bad, Value
  <2> SUFFICES ASSUME NEW a, NEW b, a = Bad \/ b = Bad PROVE Add(a, b) = Bad
    OBVIOUS
  <2>2. ~Matching(a, b) /\ ~(IsInteger(a) /\ IsBit(b)) /\ ~(IsInteger(b) /\ IsBit(a))
    BY <2>1 DEF Matching, IsInteger, IsBit
  <2> QED BY <2>2 DEF Add
<1> DEFINE T == {i \in Nat : i <= n - 1 /\ p[i] # Bad => \A j \in 0..i : terms[j] # Bad}
<1>4. 0 \in T
  <2> SUFFICES ASSUME 0 <= n - 1, p[0] # Bad PROVE \A j \in 0..0 : terms[j] # Bad
    OBVIOUS
  <2>1. p[0] = terms[0]
    BY <1>2
  <2> QED BY <2>1
<1>5. ASSUME NEW i \in Nat, i \in T PROVE i + 1 \in T
  <2> SUFFICES ASSUME i + 1 <= n - 1, p[i + 1] # Bad
               PROVE  \A j \in 0 .. i + 1 : terms[j] # Bad
    OBVIOUS
  <2>1. i + 1 \in 0 .. n - 1 /\ i + 1 # 0 /\ (i + 1) - 1 = i
    OBVIOUS
  <2>2. p[i + 1] = Add(p[i], terms[i + 1])
    BY <1>2, <2>1
  <2>3. p[i] # Bad /\ terms[i + 1] # Bad
    BY <1>3, <2>2
  <2>4. \A j \in 0..i : terms[j] # Bad
    BY <1>5, <2>3
  <2> QED BY <2>3, <2>4
<1> HIDE DEF T
<1>6. \A i \in Nat : i \in T
  BY <1>4, <1>5, Induction
<1>7. ASSUME NEW i \in 0 .. n - 1 PROVE terms[i] # Bad
  <2>1. n - 1 \in Nat /\ p[n - 1] # Bad
    BY <1>1
  <2> QED BY <1>6, <2>1 DEF T
<1> QED BY <1>7

-----------------------------------------------------------------------------
\* The inductive invariant.

HotAt(h) == h \in Level /\ weights = [i \in Level |-> V(one.kind, IF i = h THEN 1 ELSE 0)]
Goes(split) == IF x[split.feature + 1] >= split.threshold THEN 1 ELSE 0
Started == phase \notin {"validate", "rejected"}

\* What no step changes.
Given ==
  /\ tree \in Trees /\ x \in Inputs /\ strategy \in {"OBO", "FullLevel"}
  /\ one \in {Opaque(k, 1) : k \in {"real", ScalarKind}} /\ leafKind \in {"real", ScalarKind}

Place ==
  /\ phase \in {"validate", "rejected", "feature", "threshold", "compare", "update",
                "leaf", "returned", "failed"}
  /\ depth \in 0..tree.depth
  /\ phase \in {"feature", "threshold"} => strategy = "OBO"
  /\ phase \in {"feature", "threshold", "compare", "update"} => depth < tree.depth
  /\ phase \in {"leaf", "returned"} => depth = tree.depth

Idle ==
  ~Started =>
    /\ depth = 0 /\ weights = <<>> /\ branches = <<>>
    /\ chosen = [feature |-> Nothing, threshold |-> Nothing]
    /\ counts = NoCounts /\ peak = [path |-> 0, comparison |-> 0, total |-> 0]

HasPath == Started => Admissible /\ \E h \in Level : HotAt(h)

\* What has been selected is the feature and the threshold of the hot node.
Selected ==
  /\ chosen = [feature |-> chosen.feature, threshold |-> chosen.threshold]
  /\ chosen.threshold.kind # "none" =>
       chosen.threshold.provenance = "opaque" /\ chosen.feature.provenance = "opaque"
  /\ Started /\ strategy = "OBO" => \A h \in Level : HotAt(h) =>
       /\ phase \in {"threshold", "compare"} => chosen.feature = FeatureOf(Split(h))
       /\ phase = "compare" =>
            chosen.threshold = V(ScalarKind, Encoded(ScalarKind, Split(h).threshold))

\* The nodes compared so far, and the branch of the hot node.
Compared ==
  /\ \A i \in DOMAIN branches : branches[i].provenance = "opaque"
  /\ phase = "compare" /\ strategy = "FullLevel" =>
       \E n \in 0 .. Width - 1 : /\ DOMAIN branches = 0 .. n - 1
                                 /\ \A j \in 0 .. n - 1 : branches[j] = V("real", Goes(Split(j)))
  /\ phase = "update" =>
       /\ DOMAIN branches = Level
       /\ \A j \in Level : branches[j] \in {V("real", 0), V("real", 1)}
       /\ \A h \in Level : HotAt(h) => branches[h] = V("real", Goes(Split(h)))

\* The calls of the backend up to here, by kind.
Bill(constants, products, publicProducts, sums, differences, compares, publicCompares) ==
  [k \in OpKinds |->
     CASE k = "PublicConstant" -> constants
       [] k = "CTCTMul" -> products
       [] k = "CTPublicMul" -> publicProducts
       [] k = "Add" -> sums
       [] k = "Sub" -> differences
       [] k = "CTCTCompare" -> compares
       [] k = "CTPublicCompare" -> publicCompares]

Above == Width - 1
Features == IF phase \in {"threshold", "compare", "update"} THEN Width ELSE 0
Thresholds == IF phase \in {"compare", "update"} THEN Width ELSE 0
Once(n) == IF n > 0 THEN 1 ELSE 0
Compares ==
  IF phase = "compare" THEN Cardinality(DOMAIN branches)
  ELSE IF phase = "update" THEN Width ELSE 0
Leaves == IF phase = "returned" THEN L ELSE 0

Spent ==
  IF OBO
  THEN Bill(Above + Thresholds + Leaves, 2 * Above + Features, Above + Thresholds + Leaves,
            2 * (Above - depth) + (Features - Once(Features))
              + (Thresholds - Once(Thresholds)) + (Leaves - Once(Leaves)),
            Above, depth + (IF phase = "update" THEN 1 ELSE 0), 0)
  ELSE Bill(Above + Compares + Leaves, Above, Leaves, Leaves - Once(Leaves), Above, 0,
            Above + Compares)

Billed == phase # "failed" => counts = Spent
Fits(c) == c \in [OpKinds -> Nat] /\ \A k \in OpKinds : c[k] <= DesignCounts[k]
Bounded == Fits(counts)

Alive ==
  /\ peak.path \in Nat /\ peak.comparison \in Nat /\ peak.total \in Nat
  /\ peak.total <= peak.path + peak.comparison /\ peak.total <= L
  /\ Started => peak.path = Width

Inv == Given /\ Place /\ Idle /\ HasPath /\ Selected /\ Compared /\ Billed /\ Bounded /\ Alive

-----------------------------------------------------------------------------
\* Trees, levels and nodes.

\* The arrays of a tree have the lengths its depth asks for.
LEMMA TreeFacts ==
  ASSUME NEW t \in Trees
  PROVE  /\ t.depth \in 0..MaxDepth
         /\ t.splits \in [0 .. 2^t.depth - 2 -> Splits]
         /\ t.leaves \in [0 .. 2^t.depth - 1 -> LeafValues]
BY DEF Trees

\* A level above the leaves has at most half as many nodes as there are leaves.
LEMMA LevelFacts ==
  ASSUME NEW D \in 0..MaxDepth, NEW d \in 0..D
  PROVE  /\ d \in Nat /\ D \in Nat /\ 2^d \in Nat /\ 2^D \in Nat
         /\ 2^d >= d + 1 /\ 2^d <= 2^D /\ 2^d - d <= 2^D - D
         /\ d < D => /\ 2^(d + 1) = 2 * 2^d /\ 2 * 2^d <= 2^D
                     /\ 2 * 2^d - (d + 1) <= 2^D - D
<1>1. MaxDepth \in Nat /\ d \in Nat /\ D \in Nat /\ d <= MaxDepth + 1 /\ D <= MaxDepth + 1
        /\ d \in 0..MaxDepth
  BY OneHotAssumption
<1>2. 2^d \in Nat /\ 2^D \in Nat /\ 2^d >= d + 1
  BY <1>1, Powers
<1>3. 2^d <= 2^D /\ 2^d - d <= 2^D - D
  BY PowersGrow
<1>4. ASSUME d < D
      PROVE  2^(d + 1) = 2 * 2^d /\ 2 * 2^d <= 2^D /\ 2 * 2^d - (d + 1) <= 2^D - D
  <2>1. d + 1 \in 0..D
    BY <1>1, <1>4
  <2>2. 2^(d + 1) = 2 * 2^d
    BY <1>1, PowersOfTwo
  <2>3. 2^(d + 1) <= 2^D /\ 2^(d + 1) - (d + 1) <= 2^D - D
    BY <2>1, PowersGrow
  <2> QED BY <2>2, <2>3
<1> QED BY <1>1, <1>2, <1>3, <1>4

\* How the level of a state compares with the leaves of its tree.
LEMMA Shape ==
  ASSUME Given, Place
  PROVE  /\ depth \in Nat /\ tree.depth \in Nat /\ Width \in Nat /\ L \in Nat
         /\ Width >= depth + 1 /\ Width <= L /\ Width - depth <= L - tree.depth
         /\ 0 \in Level
         /\ depth < tree.depth => /\ 2^(depth + 1) = 2 * Width /\ 2 * Width <= L
                                  /\ 2 * Width - (depth + 1) <= L - tree.depth
         /\ depth = tree.depth => Width = L
<1>1. tree.depth \in 0..MaxDepth /\ depth \in 0..tree.depth
  BY TreeFacts DEF Given, Place
<1>2. PICK D \in 0..MaxDepth : D = tree.depth
  BY <1>1
<1>3. PICK d \in 0..D : d = depth
  BY <1>1, <1>2
<1>4. /\ d \in Nat /\ D \in Nat /\ 2^d \in Nat /\ 2^D \in Nat
      /\ 2^d >= d + 1 /\ 2^d <= 2^D /\ 2^d - d <= 2^D - D
      /\ d < D => /\ 2^(d + 1) = 2 * 2^d /\ 2 * 2^d <= 2^D
                  /\ 2 * 2^d - (d + 1) <= 2^D - D
  BY LevelFacts
<1>5. Width = 2^d /\ L = 2^D /\ Level = 0 .. 2^d - 1 /\ 2^(depth + 1) = 2^(d + 1)
  BY <1>2, <1>3 DEF Width, L, Level
<1>6. 0 \in Level
  BY <1>4, <1>5
<1> QED BY <1>2, <1>3, <1>4, <1>5, <1>6

\* The nodes of a level above the leaves are splits of the tree.
LEMMA NodeFits ==
  ASSUME Given, Place, depth < tree.depth, NEW i \in Level
  PROVE  i \in Nat /\ Width - 1 + i \in DOMAIN tree.splits /\ Split(i) \in Splits
<1>1. Width \in Nat /\ Width >= 1 /\ 2 * Width <= L /\ L \in Nat /\ Width - 1 + i \in Nat
        /\ Level = 0 .. Width - 1
  BY Shape DEF Level
<1>2. tree.splits \in [0 .. L - 2 -> Splits]
  BY TreeFacts DEF Given, L
<1>3. Width - 1 + i \in 0 .. L - 2 /\ i \in Nat
  BY <1>1
<1> QED BY <1>2, <1>3 DEF Split

\* The leaves of the last level are numbers of the scalar type.
LEMMA LeafFits ==
  ASSUME Given, Place, depth = tree.depth, NEW i \in Level
  PROVE  tree.leaves[i] \in Int /\ Representable(tree.leaves[i])
<1>1. tree.leaves \in [0 .. L - 1 -> LeafValues]
  BY TreeFacts DEF Given, L
<1>2. i \in 0 .. L - 1
  BY DEF Level, Width, L
<1>3. tree.leaves[i] \in LeafValues
  BY <1>1, <1>2
<1> QED BY <1>3, OneHotAssumption

\* After validateInputs the feature of every node is there, and both numbers that
\* its comparison takes are of the scalar type.
LEMMA SplitFacts ==
  ASSUME Given, Place, Admissible, depth < tree.depth, NEW i \in Level
  PROVE  /\ Split(i).threshold \in Int /\ Representable(Split(i).threshold)
         /\ x[Split(i).feature + 1] \in Int /\ Representable(x[Split(i).feature + 1])
         /\ Split(i).feature < Len(x)
<1>1. Width - 1 + i \in DOMAIN tree.splits /\ Split(i) \in Splits
  BY NodeFits
<1>2. Split(i).threshold \in Operands /\ Split(i).feature \in FeatureIds
  BY <1>1 DEF Splits
<1>3. Split(i).feature < Len(x)
  BY <1>1 DEF Admissible, Split
<1>4. Split(i).feature \in Nat /\ x \in Seq(Int)
  BY <1>2, OneHotAssumption DEF Given
<1>5. PICK f \in Nat : f = Split(i).feature
  BY <1>4
<1>6. f + 1 \in DOMAIN x /\ x[f + 1] \in Int
  BY <1>3, <1>4, <1>5
<1>7. Representable(x[f + 1])
  BY <1>6, OneHotAssumption DEF Given
<1>8. Split(i).threshold \in Int /\ Representable(Split(i).threshold)
  BY <1>2, OneHotAssumption
<1> QED BY <1>3, <1>5, <1>6, <1>7, <1>8

-----------------------------------------------------------------------------
\* Selections with weights of which one is one.

\* The weights of kind k, the h-th of which is one, times numbers of kind l.
IsSelection(terms, W, h, k, l, numbers, o) ==
  \A i \in 0 .. W - 1 :
     /\ numbers[i] \in Int
     /\ terms[i] = Mul(V(k, IF i = h THEN 1 ELSE 0), Value(l, Encoded(l, numbers[i]), o))

\* A selection that is a value is the term of the hot weight.
LEMMA Selection ==
  ASSUME NEW W \in Nat, NEW h \in 0 .. W - 1, NEW k \in {"real", ScalarKind},
         NEW l \in {"real", ScalarKind}, NEW o, NEW numbers, NEW terms,
         IsSelection(terms, W, h, k, l, numbers, o), Sum(terms, W) # Bad
  PROVE  Sum(terms, W) = V(ProductKind(k, l), Encoded(ProductKind(k, l), numbers[h]))
<1> DEFINE m == ProductKind(k, l)
           v == Encoded(m, numbers[h])
<1>1. m \in {"real", ScalarKind}
  BY DEF ProductKind
<1>2. v \in Int /\ Encoded(m, v) = v
  BY <1>1, EncodedNumbers DEF IsSelection
<1>3. ASSUME NEW i \in 0 .. W - 1 PROVE terms[i] = V(m, IF i = h THEN v ELSE 0)
  <2>1. PICK w \in {0, 1} : w = IF i = h THEN 1 ELSE 0
    OBVIOUS
  <2>2. terms[i] # Bad
    BY SumNotBad
  <2>3. terms[i] = Mul(V(k, w), Value(l, Encoded(l, numbers[i]), o)) /\ numbers[i] \in Int
    BY <2>1 DEF IsSelection
  <2>4. terms[i] = V(m, IF w = 1 THEN Encoded(m, numbers[i]) ELSE 0)
    BY <2>2, <2>3, WeightTimes
  <2> QED BY <2>1, <2>4
<1>4. IsUnit(terms, W, h, m, v)
  BY <1>3 DEF IsUnit
<1> HIDE DEF m, v
<1>5. Sum(terms, W) = V(m, v)
  BY <1>1, <1>2, <1>4, SumOfOne
<1> QED BY <1>5 DEF m, v

\* The one of the caller is an opaque one, real or of the scalar kind.
LEMMA OneKind ==
  ASSUME Given
  PROVE  one.kind \in {"real", ScalarKind} /\ one = V(one.kind, 1)
<1>1. PICK k \in {"real", ScalarKind} : one = Opaque(k, 1)
  BY DEF Given
<1>2. one = V(k, 1)
  BY <1>1, EncodedNumbers DEF Opaque, V
<1>3. one.kind = k
  BY <1>2, ValueFields DEF V
<1> QED BY <1>2, <1>3

\* The feature of a node as an operand: opaque.
LEMMA FeatureIs ==
  \A s : FeatureOf(s) = Value(ScalarKind, Encoded(ScalarKind, x[s.feature + 1]), "opaque")
BY DEF FeatureOf, Opaque

\* The threshold of a node as an operand: public.
LEMMA ThresholdIs ==
  \A s : ThresholdOf(s) = Value(ScalarKind, Encoded(ScalarKind, s.threshold), "public")
BY DEF ThresholdOf, Public

\* The feature that OBO selects with the weights is that of the hot node.
LEMMA FeatureSelected ==
  ASSUME Given, Place, Admissible, depth < tree.depth, NEW h \in Level, HotAt(h),
         SelectedFeature # Bad
  PROVE  SelectedFeature = FeatureOf(Split(h))
<1>1. PICK W \in Nat : W = Width
  BY Shape
<1>2. PICK k \in {"real", ScalarKind} : k = one.kind
  BY OneKind
<1>3. PICK numbers : numbers = [i \in Level |-> x[Split(i).feature + 1]]
  OBVIOUS
<1>4. PICK terms : terms = [i \in Level |-> Mul(weights[i], FeatureOf(Split(i)))]
  OBVIOUS
<1>5. Level = 0 .. W - 1 /\ h \in 0 .. W - 1
  BY <1>1 DEF Level
<1>6. \A i \in 0 .. W - 1 : numbers[i] \in Int
  BY <1>3, <1>5, SplitFacts
<1>7. ASSUME NEW i \in 0 .. W - 1
      PROVE  terms[i] = Mul(V(k, IF i = h THEN 1 ELSE 0),
                            Value(ScalarKind, Encoded(ScalarKind, numbers[i]), "opaque"))
  <2>1. weights[i] = V(k, IF i = h THEN 1 ELSE 0)
    BY <1>2, <1>5 DEF HotAt
  <2>2. FeatureOf(Split(i)) = Value(ScalarKind, Encoded(ScalarKind, numbers[i]), "opaque")
    BY <1>3, <1>5, FeatureIs
  <2> QED BY <1>4, <1>5, <2>1, <2>2
<1>8. Sum(terms, W) = SelectedFeature
  BY <1>1, <1>4 DEF SelectedFeature
<1>terms. IsSelection(terms, W, h, k, ScalarKind, numbers, "opaque")
  BY <1>6, <1>7 DEF IsSelection
<1>9. Sum(terms, W) = V(ProductKind(k, ScalarKind),
                        Encoded(ProductKind(k, ScalarKind), numbers[h]))
  BY <1>5, <1>8, <1>terms, Selection
<1>10. ProductKind(k, ScalarKind) = ScalarKind
  BY DEF ProductKind
<1> QED BY <1>3, <1>8, <1>9, <1>10, FeatureIs DEF V

\* The threshold that OBO selects is that of the hot node, and opaque: the selection
\* hides which node it is from.
LEMMA ThresholdSelected ==
  ASSUME Given, Place, Admissible, depth < tree.depth, NEW h \in Level, HotAt(h),
         SelectedThreshold # Bad
  PROVE  SelectedThreshold = V(ScalarKind, Encoded(ScalarKind, Split(h).threshold))
<1>1. PICK W \in Nat : W = Width
  BY Shape
<1>2. PICK k \in {"real", ScalarKind} : k = one.kind
  BY OneKind
<1>3. PICK numbers : numbers = [i \in Level |-> Split(i).threshold]
  OBVIOUS
<1>4. PICK terms : terms = [i \in Level |-> Mul(weights[i], ThresholdOf(Split(i)))]
  OBVIOUS
<1>5. Level = 0 .. W - 1 /\ h \in 0 .. W - 1
  BY <1>1 DEF Level
<1>6. \A i \in 0 .. W - 1 : numbers[i] \in Int
  BY <1>3, <1>5, SplitFacts
<1>7. ASSUME NEW i \in 0 .. W - 1
      PROVE  terms[i] = Mul(V(k, IF i = h THEN 1 ELSE 0),
                            Value(ScalarKind, Encoded(ScalarKind, numbers[i]), "public"))
  <2>1. weights[i] = V(k, IF i = h THEN 1 ELSE 0)
    BY <1>2, <1>5 DEF HotAt
  <2>2. ThresholdOf(Split(i)) = Value(ScalarKind, Encoded(ScalarKind, numbers[i]), "public")
    BY <1>3, <1>5, ThresholdIs
  <2> QED BY <1>4, <1>5, <2>1, <2>2
<1>8. Sum(terms, W) = SelectedThreshold
  BY <1>1, <1>4 DEF SelectedThreshold
<1>terms. IsSelection(terms, W, h, k, ScalarKind, numbers, "public")
  BY <1>6, <1>7 DEF IsSelection
<1>9. Sum(terms, W) = V(ProductKind(k, ScalarKind),
                        Encoded(ProductKind(k, ScalarKind), numbers[h]))
  BY <1>5, <1>8, <1>terms, Selection
<1>10. ProductKind(k, ScalarKind) = ScalarKind
  BY DEF ProductKind
<1> QED BY <1>3, <1>5, <1>8, <1>9, <1>10

\* The leaf that is selected is that of the hot weight, in a value of the leaf's or
\* the weights' kind.
LEMMA LeafSelected ==
  ASSUME Given, Place, depth = tree.depth, NEW h \in Level, HotAt(h), SelectedLeaf # Bad
  PROVE  Decoded(SelectedLeaf) = tree.leaves[h]
<1>1. PICK W \in Nat : W = Width
  BY Shape
<1>2. PICK k \in {"real", ScalarKind} : k = one.kind
  BY OneKind
<1>3. PICK l \in {"real", ScalarKind} : l = leafKind
  BY DEF Given
<1>4. PICK numbers : numbers = tree.leaves
  OBVIOUS
<1>5. PICK terms : terms = [i \in Level |-> Mul(weights[i], Public(leafKind, tree.leaves[i]))]
  OBVIOUS
<1>6. Level = 0 .. W - 1 /\ h \in 0 .. W - 1
  BY <1>1 DEF Level
<1>7. \A i \in 0 .. W - 1 : numbers[i] \in Int /\ Representable(numbers[i])
  BY <1>4, <1>6, LeafFits
<1>8. ASSUME NEW i \in 0 .. W - 1
      PROVE  terms[i] = Mul(V(k, IF i = h THEN 1 ELSE 0), Value(l, Encoded(l, numbers[i]), "public"))
  <2>1. weights[i] = V(k, IF i = h THEN 1 ELSE 0)
    BY <1>2, <1>6 DEF HotAt
  <2>2. Public(leafKind, tree.leaves[i]) = Value(l, Encoded(l, numbers[i]), "public")
    BY <1>3, <1>4 DEF Public
  <2> QED BY <1>5, <1>6, <2>1, <2>2
<1>9. Sum(terms, W) = SelectedLeaf
  BY <1>1, <1>5 DEF SelectedLeaf
<1>terms. IsSelection(terms, W, h, k, l, numbers, "public")
  BY <1>7, <1>8 DEF IsSelection
<1>10. Sum(terms, W) = V(ProductKind(k, l), Encoded(ProductKind(k, l), numbers[h]))
  BY <1>6, <1>9, <1>terms, Selection
<1>11. ProductKind(k, l) \in {"real", ScalarKind}
  BY DEF ProductKind
<1>12. Decoded(Value(ProductKind(k, l), Encoded(ProductKind(k, l), numbers[h]), "opaque")) = numbers[h]
  BY <1>6, <1>7, <1>11, DecodedNumbers
<1> QED BY <1>4, <1>9, <1>10, <1>12 DEF V

-----------------------------------------------------------------------------
\* Branches, and the weights they make.

\* A comparison that is a value is the branch of the plain walk, opaque as long
\* as the feature is.
LEMMA BranchIs ==
  ASSUME Given, Place, Admissible, depth < tree.depth, NEW i \in Level,
         NEW o, NEW t, t = Value(ScalarKind, Encoded(ScalarKind, Split(i).threshold), o),
         CompareGE(FeatureOf(Split(i)), t) # Bad
  PROVE  CompareGE(FeatureOf(Split(i)), t) = V("real", Goes(Split(i)))
<1>1. PICK a : a = FeatureOf(Split(i))
  OBVIOUS
<1>2. PICK f \in Int : f = x[Split(i).feature + 1] /\ Representable(f)
  BY SplitFacts
<1>3. PICK n \in Int : n = Split(i).threshold /\ Representable(n)
  BY SplitFacts
<1>4. a = Value(ScalarKind, Encoded(ScalarKind, f), "opaque")
  BY <1>1, <1>2, FeatureIs
<1>5. Decoded(a) = f
  BY <1>2, <1>4, DecodedNumbers
<1>6. Decoded(t) = n
  BY <1>3, DecodedNumbers
<1>7. Joined(a, t) = "opaque"
  BY <1>4, ValueFields DEF Joined
<1>8. CompareGE(a, t) = Value("real", IF Decoded(a) >= Decoded(t) THEN 1 ELSE 0, Joined(a, t))
  BY <1>1 DEF CompareGE
<1>9. Goes(Split(i)) = IF f >= n THEN 1 ELSE 0
  BY <1>2, <1>3 DEF Goes
<1> QED BY <1>1, <1>5, <1>6, <1>7, <1>8, <1>9 DEF V

\* A weight that is zero or one times a bit.
LEMMA BitTimes ==
  ASSUME NEW k \in {"real", ScalarKind}, NEW w \in {0, 1}, NEW b \in {0, 1}
  PROVE  Mul(V(k, w), V("real", b)) = V(k, w * b)
<1>1. w \in Int /\ b \in Int /\ w * b \in {0, 1} /\ Encoded(k, w * b) = w * b
  <2>1. w * b \in {0, 1}
    OBVIOUS
  <2> QED BY <2>1, EncodedNumbers
<1>2. CASE k = "real"
  <2>1. Mul(V("real", w), Value("real", b, "opaque")) = V("real", Encoded("real", w * b))
    BY <1>1, MulSameKind
  <2> QED BY <1>1, <1>2, <2>1 DEF V
<1>3. CASE k # "real"
  <2>1. ScalarKind # "real" /\ k = ScalarKind
    BY <1>3
  <2>2. Mul(V(ScalarKind, w), Value("real", b, "opaque"))
          = IF b \in {0, 1} THEN V(ScalarKind, Encoded(ScalarKind, w * b)) ELSE Bad
    BY <1>1, <2>1, MulIntegerWeight
  <2> QED BY <1>1, <2>1, <2>2 DEF V
<1> QED BY <1>2, <1>3

\* The two weights that a weight and its branch make.
LEMMA Refined ==
  ASSUME NEW k \in {"real", ScalarKind}, NEW w \in {0, 1}, NEW b \in {0, 1}
  PROVE  /\ Mul(V(k, w), V("real", b)) = V(k, IF w = 1 /\ b = 1 THEN 1 ELSE 0)
         /\ Sub(V(k, w), Mul(V(k, w), V("real", b))) = V(k, IF w = 1 /\ b = 0 THEN 1 ELSE 0)
<1>1. w * b = IF w = 1 /\ b = 1 THEN 1 ELSE 0
  OBVIOUS
<1>2. PICK c \in {0, 1} : c = w * b
  BY <1>1
<1>3. w - c = IF w = 1 /\ b = 0 THEN 1 ELSE 0
  BY <1>1, <1>2
<1>4. PICK d \in {0, 1} : d = w - c
  BY <1>3
<1>5. Mul(V(k, w), V("real", b)) = V(k, c)
  BY <1>2, BitTimes
<1>6. Sub(V(k, w), V(k, c)) = V(k, d)
  <2>1. w \in Int /\ c \in Int /\ d \in Int
    OBVIOUS
  <2>2. Sub(V(k, w), V(k, c)) = V(k, Encoded(k, w - c))
    BY <2>1, SubValues
  <2>3. Encoded(k, d) = d
    BY EncodedNumbers
  <2> QED BY <1>4, <2>2, <2>3
<1> QED BY <1>1, <1>2, <1>3, <1>4, <1>5, <1>6

\* updatePathWeights moves the hot weight to the child its branch names.
AreBits(b, W) == \A i \in 0 .. W - 1 : b[i] \in {V("real", 0), V("real", 1)}

\* updatePathWeights turns one-hot weights into one-hot weights of twice the width,
\* the hot one where the branch of the hot node goes, whatever the other branches.
LEMMA UpdatedHot ==
  ASSUME NEW W \in Nat, W = Width, NEW h \in 0 .. W - 1, NEW k \in {"real", ScalarKind},
         NEW c \in {0, 1}, NEW w, NEW b, IsUnit(w, W, h, k, 1), AreBits(b, W),
         b[h] = V("real", c)
  PROVE  Updated(w, b) = [j \in 0 .. 2 * W - 1 |-> V(k, IF j = 2 * h + c THEN 1 ELSE 0)]
<1>1. ASSUME NEW j \in 0 .. 2 * W - 1
      PROVE  (LET right == Mul(w[j \div 2], b[j \div 2])
              IN  IF j % 2 = 1 THEN right ELSE Sub(w[j \div 2], right))
             = V(k, IF j = 2 * h + c THEN 1 ELSE 0)
  <2>1. PICK i \in 0 .. W - 1 : i = j \div 2
    OBVIOUS
  <2>2. PICK r \in {0, 1} : r = j % 2 /\ j = 2 * i + r
    BY <2>1
  <2>3. PICK u \in {0, 1} : u = (IF i = h THEN 1 ELSE 0) /\ w[i] = V(k, u)
    BY DEF IsUnit
  <2>4. PICK e \in {0, 1} : b[i] = V("real", e) /\ (i = h => e = c)
    <3>1. CASE i = h
      BY <3>1
    <3>2. CASE i # h
      BY <3>2 DEF AreBits
    <3> QED BY <3>1, <3>2
  <2>5. /\ Mul(w[i], b[i]) = V(k, IF u = 1 /\ e = 1 THEN 1 ELSE 0)
        /\ Sub(w[i], Mul(w[i], b[i])) = V(k, IF u = 1 /\ e = 0 THEN 1 ELSE 0)
    BY <2>3, <2>4, Refined
  <2>6. j = 2 * h + c <=> i = h /\ r = c
    BY <2>2
  <2>7. CASE r = 1
    <3>1. (u = 1 /\ e = 1) <=> j = 2 * h + c
      BY <2>3, <2>4, <2>6, <2>7
    <3> QED BY <2>1, <2>2, <2>5, <2>7, <3>1
  <2>8. CASE r = 0
    <3>1. (u = 1 /\ e = 0) <=> j = 2 * h + c
      BY <2>3, <2>4, <2>6, <2>8
    <3> QED BY <2>1, <2>2, <2>5, <2>8, <3>1
  <2> QED BY <2>7, <2>8
<1> QED BY <1>1 DEF Updated

-----------------------------------------------------------------------------
\* Tallies: how many calls of each kind a helper makes.

\* The calls of a loop with one call.
LEMMA Single ==
  ASSUME NEW n \in Nat, NEW a
  PROVE  Times(n, <<a>>) = [i \in 1..n |-> a]
<1>1. Len(<<a>>) = 1 /\ <<a>>[1] = a /\ n * 1 = n
  OBVIOUS
<1>2. \A i \in 1..n : ((i - 1) % 1) + 1 = 1
  OBVIOUS
<1> QED BY <1>1, <1>2 DEF Times

\* The calls of a loop with two calls.
LEMMA Alternating ==
  ASSUME NEW n \in Nat, NEW a, NEW b
  PROVE  Times(n, <<a, b>>) = [i \in 1 .. 2 * n |-> IF i % 2 = 1 THEN a ELSE b]
<1>1. Len(<<a, b>>) = 2 /\ <<a, b>>[1] = a /\ <<a, b>>[2] = b /\ n * 2 = 2 * n
  OBVIOUS
<1>2. \A i \in 1 .. 2 * n : ((i - 1) % 2) + 1 = IF i % 2 = 1 THEN 1 ELSE 2
  OBVIOUS
<1> QED BY <1>1, <1>2 DEF Times

\* The calls of one loop after those of another.
LEMMA Joining ==
  ASSUME NEW n \in Nat, NEW m \in Nat, NEW s \in [1..n -> OpKinds], NEW t \in [1..m -> OpKinds]
  PROVE  s \o t = [i \in 1 .. n + m |-> IF i <= n THEN s[i] ELSE t[i - n]]
<1>1. s \in Seq(OpKinds) /\ t \in Seq(OpKinds)
  OBVIOUS
<1>2. Len(s) = n /\ Len(t) = m
  OBVIOUS
<1>3. s \o t \in Seq(OpKinds) /\ Len(s \o t) = Len(s) + Len(t)
        /\ \A i \in 1 .. Len(s) + Len(t) : (s \o t)[i] = IF i <= Len(s) THEN s[i] ELSE t[i - Len(s)]
  BY <1>1, ConcatProperties, Zenon
<1>4. PICK c \in Seq(OpKinds) : c = s \o t
  BY <1>3
<1>5. c = [i \in 1 .. Len(c) |-> c[i]]
  OBVIOUS
<1>6. Len(c) = n + m /\ \A i \in 1 .. n + m : c[i] = IF i <= n THEN s[i] ELSE t[i - n]
  BY <1>2, <1>3, <1>4
<1> QED BY <1>4, <1>5, <1>6

\* Half of the positions of an alternation are odd.
LEMMA Odds ==
  \A n \in Nat : /\ IsFiniteSet({i \in 1 .. 2 * n : i % 2 = 1})
                 /\ Cardinality({i \in 1 .. 2 * n : i % 2 = 1}) = n
                 /\ IsFiniteSet({i \in 1 .. 2 * n : i % 2 = 0})
                 /\ Cardinality({i \in 1 .. 2 * n : i % 2 = 0}) = n
<1> DEFINE O(n) == {i \in 1 .. 2 * n : i % 2 = 1}
           E(n) == {i \in 1 .. 2 * n : i % 2 = 0}
           T == {n \in Nat : /\ IsFiniteSet(O(n)) /\ Cardinality(O(n)) = n
                             /\ IsFiniteSet(E(n)) /\ Cardinality(E(n)) = n}
<1>1. 0 \in T
  <2>1. O(0) = {} /\ E(0) = {}
    OBVIOUS
  <2> HIDE DEF O, E
  <2> QED BY <2>1, FS_EmptySet
<1>2. ASSUME NEW n \in Nat, n \in T PROVE n + 1 \in T
  <2>1. O(n + 1) = O(n) \union {2 * n + 1} /\ 2 * n + 1 \notin O(n)
    OBVIOUS
  <2>2. E(n + 1) = E(n) \union {2 * n + 2} /\ 2 * n + 2 \notin E(n)
    OBVIOUS
  <2>3. IsFiniteSet(O(n)) /\ Cardinality(O(n)) = n /\ IsFiniteSet(E(n)) /\ Cardinality(E(n)) = n
    BY <1>2
  <2> HIDE DEF O, E
  <2>4. IsFiniteSet(O(n + 1)) /\ Cardinality(O(n + 1)) = n + 1
    BY <2>1, <2>3, FS_AddElement
  <2>5. IsFiniteSet(E(n + 1)) /\ Cardinality(E(n + 1)) = n + 1
    BY <2>2, <2>3, FS_AddElement
  <2> QED BY <2>4, <2>5
<1> HIDE DEF T
<1>3. \A n \in Nat : n \in T
  BY <1>1, <1>2, Induction
<1> QED BY <1>3 DEF T

\* The tally of the selection of ciphertext features.
LEMMA FeatureBill ==
  ASSUME NEW W \in Nat, W >= 1
  PROVE  LET ops == Times(W, <<"CTCTMul">>) \o Times(W - 1, <<"Add">>)
         IN  /\ ops \in [1 .. 2 * W - 1 -> OpKinds]
             /\ Tally(ops) = Bill(0, W, 0, W - 1, 0, 0, 0)
<1> DEFINE ops == Times(W, <<"CTCTMul">>) \o Times(W - 1, <<"Add">>)
<1>1. ops = [i \in 1 .. 2 * W - 1 |-> IF i <= W THEN "CTCTMul" ELSE "Add"]
  <2>M. PICK M \in Nat : M = W - 1
    OBVIOUS
  <2>1. Times(W, <<"CTCTMul">>) = [i \in 1..W |-> "CTCTMul"]
    BY Single
  <2>2. Times(M, <<"Add">>) = [i \in 1..M |-> "Add"]
    BY Single
  <2>3. PICK s \in [1..W -> OpKinds] : s = [i \in 1..W |-> "CTCTMul"]
    BY DEF OpKinds
  <2>4. PICK t \in [1..M -> OpKinds] : t = [i \in 1..M |-> "Add"]
    BY DEF OpKinds
  <2>5. s \o t = [i \in 1 .. W + M |-> IF i <= W THEN s[i] ELSE t[i - W]]
    BY Joining
  <2>6. ops = s \o t
    BY <2>1, <2>2, <2>3, <2>4, <2>M
  <2> HIDE DEF ops
  <2>7. W + M = 2 * W - 1
    BY <2>M
  <2>8. ops = [i \in 1 .. 2 * W - 1 |-> IF i <= W THEN s[i] ELSE t[i - W]]
    BY <2>5, <2>6, <2>7
  <2>9. ASSUME NEW i \in 1 .. 2 * W - 1
        PROVE  (IF i <= W THEN s[i] ELSE t[i - W]) = IF i <= W THEN "CTCTMul" ELSE "Add"
    <3>1. CASE i <= W
      <4>1. i \in 1..W
        BY <3>1
      <4> QED BY <3>1, <4>1, <2>3
    <3>2. CASE ~(i <= W)
      <4>1. i - W \in 1..M
        BY <3>2, <2>M
      <4> QED BY <3>2, <4>1, <2>4
    <3> QED BY <3>1, <3>2
  <2> QED BY <2>8, <2>9
<1>2. ops \in [1 .. 2 * W - 1 -> OpKinds]
  BY <1>1 DEF OpKinds
<1> HIDE DEF ops
<1>3. {i \in DOMAIN ops : ops[i] = "CTCTMul"} = 1..W
  BY <1>1
<1>4. {i \in DOMAIN ops : ops[i] = "Add"} = W + 1 .. 2 * W - 1
  BY <1>1
<1>5. \A k \in OpKinds : k # "CTCTMul" /\ k # "Add" => {i \in DOMAIN ops : ops[i] = k} = {}
  BY <1>1
<1>6. Cardinality(1..W) = W /\ Cardinality(W + 1 .. 2 * W - 1) = W - 1 /\ Cardinality({}) = 0
  <2>1. Cardinality(1..W) = W
    BY FS_Interval
  <2>2. Cardinality(W + 1 .. 2 * W - 1) = W - 1
    <3>1. W + 1 \in Int /\ 2 * W - 1 \in Int
      OBVIOUS
    <3>2. Cardinality(W + 1 .. 2 * W - 1) = IF W + 1 > 2 * W - 1 THEN 0 ELSE (2 * W - 1) - (W + 1) + 1
      BY <3>1, FS_Interval
    <3> QED BY <3>2
  <2> QED BY <2>1, <2>2, FS_EmptySet
<1>7. \A k \in OpKinds : Cardinality({i \in DOMAIN ops : ops[i] = k})
        = IF k = "CTCTMul" THEN W ELSE IF k = "Add" THEN W - 1 ELSE 0
  BY <1>3, <1>4, <1>5, <1>6
<1>8. Tally(ops) = Bill(0, W, 0, W - 1, 0, 0, 0)
  BY <1>7 DEF Tally, Bill, OpKinds
<1> QED BY <1>2, <1>8 DEF ops

\* The tally of the selection of public numbers.
LEMMA PublicBill ==
  ASSUME NEW W \in Nat, W >= 1
  PROVE  LET ops == Times(W, <<"PublicConstant", "CTPublicMul">>) \o Times(W - 1, <<"Add">>)
         IN  /\ ops \in [1 .. 3 * W - 1 -> OpKinds]
             /\ Tally(ops) = Bill(W, 0, W, W - 1, 0, 0, 0)
<1> DEFINE ops == Times(W, <<"PublicConstant", "CTPublicMul">>) \o Times(W - 1, <<"Add">>)
<1>1. ops = [i \in 1 .. 3 * W - 1 |->
               IF i <= 2 * W THEN IF i % 2 = 1 THEN "PublicConstant" ELSE "CTPublicMul" ELSE "Add"]
  <2>M. PICK M \in Nat : M = W - 1
    OBVIOUS
  <2>U. PICK U \in Nat : U = 2 * W
    OBVIOUS
  <2>1. Times(W, <<"PublicConstant", "CTPublicMul">>)
          = [i \in 1 .. 2 * W |-> IF i % 2 = 1 THEN "PublicConstant" ELSE "CTPublicMul"]
    BY Alternating
  <2>2. Times(M, <<"Add">>) = [i \in 1..M |-> "Add"]
    BY Single
  <2>3. PICK s \in [1..U -> OpKinds] :
               s = [i \in 1..U |-> IF i % 2 = 1 THEN "PublicConstant" ELSE "CTPublicMul"]
    BY DEF OpKinds
  <2>4. PICK t \in [1..M -> OpKinds] : t = [i \in 1..M |-> "Add"]
    BY DEF OpKinds
  <2>5. s \o t = [i \in 1 .. U + M |-> IF i <= U THEN s[i] ELSE t[i - U]]
    BY Joining
  <2>6. ops = s \o t
    BY <2>1, <2>2, <2>3, <2>4, <2>M, <2>U
  <2> HIDE DEF ops
  <2>7. U + M = 3 * W - 1
    BY <2>M, <2>U
  <2>8. ops = [i \in 1 .. 3 * W - 1 |-> IF i <= U THEN s[i] ELSE t[i - U]]
    BY <2>5, <2>6, <2>7
  <2>9. ASSUME NEW i \in 1 .. 3 * W - 1
        PROVE  (IF i <= U THEN s[i] ELSE t[i - U])
                 = IF i <= 2 * W THEN IF i % 2 = 1 THEN "PublicConstant" ELSE "CTPublicMul" ELSE "Add"
    <3>1. CASE i <= U
      <4>1. i \in 1..U
        BY <3>1
      <4>2. s[i] = IF i % 2 = 1 THEN "PublicConstant" ELSE "CTPublicMul"
        BY <4>1, <2>3
      <4> QED BY <3>1, <4>2, <2>U
    <3>2. CASE ~(i <= U)
      <4>1. i - U \in 1..M
        BY <3>2, <2>M, <2>U
      <4>2. t[i - U] = "Add"
        BY <4>1, <2>4
      <4> QED BY <3>2, <4>2, <2>U
    <3> QED BY <3>1, <3>2
  <2> QED BY <2>8, <2>9
<1>2. ops \in [1 .. 3 * W - 1 -> OpKinds]
  BY <1>1 DEF OpKinds
<1> HIDE DEF ops
<1>3. {i \in DOMAIN ops : ops[i] = "PublicConstant"} = {i \in 1 .. 2 * W : i % 2 = 1}
  BY <1>1
<1>4. {i \in DOMAIN ops : ops[i] = "CTPublicMul"} = {i \in 1 .. 2 * W : i % 2 = 0}
  BY <1>1
<1>5. {i \in DOMAIN ops : ops[i] = "Add"} = 2 * W + 1 .. 3 * W - 1
  BY <1>1
<1>6. \A k \in OpKinds : k \notin {"PublicConstant", "CTPublicMul", "Add"} =>
        {i \in DOMAIN ops : ops[i] = k} = {}
  BY <1>1
<1>7. Cardinality(2 * W + 1 .. 3 * W - 1) = W - 1 /\ Cardinality({}) = 0
  <2>1. 2 * W + 1 \in Int /\ 3 * W - 1 \in Int
    OBVIOUS
  <2>2. Cardinality(2 * W + 1 .. 3 * W - 1)
          = IF 2 * W + 1 > 3 * W - 1 THEN 0 ELSE (3 * W - 1) - (2 * W + 1) + 1
    BY <2>1, FS_Interval
  <2> QED BY <2>2, FS_EmptySet
<1> DEFINE C(k) == Cardinality({i \in DOMAIN ops : ops[i] = k})
<1>8. C("PublicConstant") = W /\ C("CTPublicMul") = W
  BY <1>3, <1>4, Odds
<1>9. C("Add") = W - 1
  BY <1>5, <1>7
<1>10. \A k \in OpKinds : k \notin {"PublicConstant", "CTPublicMul", "Add"} => C(k) = 0
  BY <1>6, <1>7
<1>11. Tally(ops) = [k \in OpKinds |-> C(k)]
  BY DEF Tally
<1> HIDE DEF C
<1>12. Tally(ops) = Bill(W, 0, W, W - 1, 0, 0, 0)
  BY <1>8, <1>9, <1>10, <1>11 DEF Bill, OpKinds
<1> QED BY <1>2, <1>12 DEF ops

\* The tally of updatePathWeights.
LEMMA UpdateBill ==
  ASSUME NEW W \in Nat, W >= 1
  PROVE  LET ops == Times(W, <<"CTCTMul", "Sub">>)
         IN  /\ ops \in [1 .. 2 * W -> OpKinds]
             /\ Tally(ops) = Bill(0, W, 0, 0, W, 0, 0)
<1> DEFINE ops == Times(W, <<"CTCTMul", "Sub">>)
<1>1. ops = [i \in 1 .. 2 * W |-> IF i % 2 = 1 THEN "CTCTMul" ELSE "Sub"]
  BY Alternating
<1>2. ops \in [1 .. 2 * W -> OpKinds]
  BY <1>1 DEF OpKinds
<1> HIDE DEF ops
<1>3. {i \in DOMAIN ops : ops[i] = "CTCTMul"} = {i \in 1 .. 2 * W : i % 2 = 1}
  BY <1>1
<1>4. {i \in DOMAIN ops : ops[i] = "Sub"} = {i \in 1 .. 2 * W : i % 2 = 0}
  BY <1>1
<1>5. \A k \in OpKinds : k \notin {"CTCTMul", "Sub"} => {i \in DOMAIN ops : ops[i] = k} = {}
  BY <1>1
<1> DEFINE C(k) == Cardinality({i \in DOMAIN ops : ops[i] = k})
<1>6. C("CTCTMul") = W /\ C("Sub") = W
  BY <1>3, <1>4, Odds
<1>7. \A k \in OpKinds : k \notin {"CTCTMul", "Sub"} => C(k) = 0
  BY <1>5, FS_EmptySet
<1>8. Tally(ops) = [k \in OpKinds |-> C(k)]
  BY DEF Tally
<1> HIDE DEF C
<1>9. Tally(ops) = Bill(0, W, 0, 0, W, 0, 0)
  BY <1>6, <1>7, <1>8 DEF Bill, OpKinds
<1> QED BY <1>2, <1>9 DEF ops

\* The tallies of a comparison.
LEMMA CompareBill ==
  /\ <<"CTCTCompare">> \in [1..1 -> OpKinds]
  /\ Tally(<<"CTCTCompare">>) = Bill(0, 0, 0, 0, 0, 1, 0)
  /\ <<"PublicConstant", "CTPublicCompare">> \in [1..2 -> OpKinds]
  /\ Tally(<<"PublicConstant", "CTPublicCompare">>) = Bill(1, 0, 0, 0, 0, 0, 1)
<1>1. ASSUME NEW ops \in [1..1 -> OpKinds], ops[1] = "CTCTCompare"
      PROVE  Tally(ops) = Bill(0, 0, 0, 0, 0, 1, 0)
  <2>1. {i \in DOMAIN ops : ops[i] = "CTCTCompare"} = {1}
    BY <1>1
  <2>2. \A k \in OpKinds : k # "CTCTCompare" => {i \in DOMAIN ops : ops[i] = k} = {}
    BY <1>1
  <2>3. \A k \in OpKinds : Cardinality({i \in DOMAIN ops : ops[i] = k})
          = IF k = "CTCTCompare" THEN 1 ELSE 0
    BY <2>1, <2>2, FS_EmptySet, FS_Singleton
  <2> QED BY <2>3 DEF Tally, Bill, OpKinds
<1>2. ASSUME NEW ops \in [1..2 -> OpKinds], ops[1] = "PublicConstant", ops[2] = "CTPublicCompare"
      PROVE  Tally(ops) = Bill(1, 0, 0, 0, 0, 0, 1)
  <2>1. {i \in DOMAIN ops : ops[i] = "PublicConstant"} = {1}
    BY <1>2
  <2>2. {i \in DOMAIN ops : ops[i] = "CTPublicCompare"} = {2}
    BY <1>2
  <2>3. \A k \in OpKinds : k \notin {"PublicConstant", "CTPublicCompare"} =>
          {i \in DOMAIN ops : ops[i] = k} = {}
    BY <1>2
  <2> DEFINE C(k) == Cardinality({i \in DOMAIN ops : ops[i] = k})
  <2>4. C("PublicConstant") = 1 /\ C("CTPublicCompare") = 1
    BY <2>1, <2>2, FS_Singleton
  <2>5. \A k \in OpKinds : k \notin {"PublicConstant", "CTPublicCompare"} => C(k) = 0
    BY <2>3, FS_EmptySet
  <2>6. Tally(ops) = [k \in OpKinds |-> C(k)]
    BY DEF Tally
  <2> HIDE DEF C
  <2> QED BY <2>4, <2>5, <2>6 DEF Bill, OpKinds
<1>3. <<"CTCTCompare">> \in [1..1 -> OpKinds]
  BY DEF OpKinds
<1>4. <<"PublicConstant", "CTPublicCompare">> \in [1..2 -> OpKinds]
  BY DEF OpKinds
<1>5. <<"CTCTCompare">>[1] = "CTCTCompare" /\ <<"PublicConstant", "CTPublicCompare">>[1] = "PublicConstant"
        /\ <<"PublicConstant", "CTPublicCompare">>[2] = "CTPublicCompare"
  OBVIOUS
<1> QED BY <1>1, <1>2, <1>3, <1>4, <1>5

\* Whatever a helper did before it stopped is part of what it does.
LEMMA PrefixTally ==
  ASSUME NEW N \in Nat, NEW ops \in [1..N -> OpKinds], NEW n \in 0 .. Len(ops)
  PROVE  /\ Tally(ops) \in [OpKinds -> Nat]
         /\ Tally(SubSeq(ops, 1, n)) \in [OpKinds -> Nat]
         /\ \A k \in OpKinds : Tally(SubSeq(ops, 1, n))[k] <= Tally(ops)[k]
<1>1. Len(ops) = N /\ DOMAIN ops = 1..N
  OBVIOUS
<1>2. SubSeq(ops, 1, n) = [i \in 1..n |-> ops[i]]
  BY <1>1
<1>3. ASSUME NEW k \in OpKinds
      PROVE  /\ Tally(ops)[k] \in Nat /\ Tally(SubSeq(ops, 1, n))[k] \in Nat
             /\ Tally(SubSeq(ops, 1, n))[k] <= Tally(ops)[k]
  <2> DEFINE S == {i \in 1..N : ops[i] = k}
             R == {i \in 1..n : ops[i] = k}
  <2>1. Tally(ops)[k] = Cardinality(S)
    BY <1>1 DEF Tally
  <2>2. Tally(SubSeq(ops, 1, n))[k] = Cardinality(R)
    <3>1. {i \in DOMAIN SubSeq(ops, 1, n) : SubSeq(ops, 1, n)[i] = k} = R
      BY <1>2
    <3> QED BY <3>1 DEF Tally
  <2>3. IsFiniteSet(S)
    <3>1. S \in SUBSET (1..N) /\ IsFiniteSet(1..N)
      BY FS_Interval
    <3> QED BY <3>1, FS_Subset
  <2>4. R \in SUBSET S
    BY <1>1
  <2>5. IsFiniteSet(R) /\ Cardinality(R) <= Cardinality(S)
    BY <2>3, <2>4, FS_Subset
  <2> HIDE DEF R, S
  <2> QED BY <2>1, <2>2, <2>3, <2>5, FS_CardinalityType
<1> QED BY <1>3 DEF Tally

-----------------------------------------------------------------------------
\* The charge of each helper: what has been spent with it, which the design
\* allows.

\* A bill within the design, kind by kind.
LEMMA BillFits ==
  ASSUME Given, Place, NEW a1 \in Nat, NEW a2 \in Nat, NEW a3 \in Nat, NEW a4 \in Nat,
         NEW a5 \in Nat, NEW a6 \in Nat, NEW a7 \in Nat,
         a1 <= 2 * L - 1, a5 <= L - 1,
         OBO => /\ a2 <= 2 * (L - 1) /\ a3 <= 2 * L - 1 /\ a4 <= 3 * L - 3 - 2 * tree.depth
                /\ a6 <= tree.depth /\ a7 = 0,
         ~OBO => a2 <= L - 1 /\ a3 <= L /\ a4 <= L - 1 /\ a6 = 0 /\ a7 <= L - 1
  PROVE  Fits(Bill(a1, a2, a3, a4, a5, a6, a7))
<1>1. Bill(a1, a2, a3, a4, a5, a6, a7) \in [OpKinds -> Nat]
  BY DEF Bill, OpKinds
<1>2. ASSUME NEW k \in OpKinds PROVE Bill(a1, a2, a3, a4, a5, a6, a7)[k] <= DesignCounts[k]
  BY DEF Bill, OpKinds, DesignCounts
<1> QED BY <1>1, <1>2 DEF Fits

\* What is spent in a phase of OBO, and of the full-level evaluation.
LEMMA SpentOBO ==
  ASSUME Given, Place, Billed, strategy = "OBO"
  PROVE  /\ phase = "feature" =>
              counts = Bill(Above, 2 * Above, Above, 2 * (Above - depth), Above, depth, 0)
         /\ phase = "threshold" =>
              counts = Bill(Above, 2 * Above + Width, Above, 2 * (Above - depth) + (Width - 1),
                            Above, depth, 0)
         /\ phase = "compare" =>
              counts = Bill(Above + Width, 2 * Above + Width, Above + Width,
                            2 * (Above - depth) + 2 * (Width - 1), Above, depth, 0)
         /\ phase = "update" =>
              counts = Bill(Above + Width, 2 * Above + Width, Above + Width,
                            2 * (Above - depth) + 2 * (Width - 1), Above, depth + 1, 0)
         /\ phase = "leaf" =>
              counts = Bill(Above, 2 * Above, Above, 2 * (Above - depth), Above, depth, 0)
<1>1. Width \in Nat /\ Width >= 1 /\ depth \in Nat
  BY Shape
<1> QED BY <1>1 DEF Billed, Spent, OBO, Features, Thresholds, Leaves, Once, Above

\* How far the full-level evaluation is in comparing a level.
LEMMA NodesCompared ==
  ASSUME Given, Place, Compared, phase = "compare", strategy = "FullLevel"
  PROVE  LET n == Cardinality(DOMAIN branches)
         IN  /\ n \in 0 .. Width - 1 /\ DOMAIN branches = 0 .. n - 1
             /\ \A j \in 0 .. n - 1 : branches[j] = V("real", Goes(Split(j)))
<1>1. Width \in Nat
  BY Shape
<1>2. PICK n \in 0 .. Width - 1 :
             /\ DOMAIN branches = 0 .. n - 1
             /\ \A j \in 0 .. n - 1 : branches[j] = V("real", Goes(Split(j)))
  BY DEF Compared
<1>3. n \in Nat
  BY <1>1
<1>4. Cardinality(0 .. n - 1) = n
  <2>1. 0 \in Int /\ n - 1 \in Int /\ (0 > n - 1 => n = 0) /\ n - 1 - 0 + 1 = n
    BY <1>3
  <2>2. Cardinality(0 .. n - 1) = IF 0 > n - 1 THEN 0 ELSE n - 1 - 0 + 1
    BY <2>1, FS_Interval
  <2> QED BY <2>1, <2>2
<1> QED BY <1>2, <1>4

\* What is spent in a phase of the full-level evaluation.
LEMMA SpentFull ==
  ASSUME Given, Place, Compared, Billed, strategy = "FullLevel"
  PROVE  /\ phase = "compare" =>
              counts = Bill(Above + Cardinality(DOMAIN branches), Above, 0, 0, Above, 0,
                            Above + Cardinality(DOMAIN branches))
         /\ phase = "update" => counts = Bill(Above + Width, Above, 0, 0, Above, 0, Above + Width)
         /\ phase = "leaf" => counts = Bill(Above, Above, 0, 0, Above, 0, Above)
<1>1. Width \in Nat /\ Width >= 1
  BY Shape
<1>2. phase = "compare" => Cardinality(DOMAIN branches) \in Nat
  BY <1>1, NodesCompared
<1> QED BY <1>1, <1>2 DEF Billed, Spent, OBO, Compares, Leaves, Once, Above

\* What a helper charges: the bill with it, which the design allows.  First, the
\* selection of the feature.
LEMMA ChargeFeature ==
  ASSUME Given, Place, Billed, phase = "feature", strategy = "OBO"
  PROVE  /\ Plus(counts, Tally(Ops("feature")))
              = Bill(Above, 2 * Above + Width, Above, 2 * (Above - depth) + (Width - 1), Above, depth, 0)
         /\ Fits(Plus(counts, Tally(Ops("feature"))))
<1>1. OBO /\ depth < tree.depth
  BY DEF Place, OBO
<1>2. /\ depth \in Nat /\ tree.depth \in Nat /\ Width \in Nat /\ L \in Nat
      /\ Width >= depth + 1 /\ 2 * Width <= L /\ 2 * Width - (depth + 1) <= L - tree.depth
  BY <1>1, Shape
<1>3. PICK W \in Nat : W = Width
  BY <1>2
<1>4. PICK d \in Nat : d = depth
  BY <1>2
<1>5. W >= 1 /\ Above = W - 1
  BY <1>2, <1>3, <1>4 DEF Above
<1>6. PICK LL \in Nat : LL = L
  BY <1>2
<1>7. PICK D \in Nat : D = tree.depth
  BY <1>2
<1>8. counts = Bill((W - 1), 2 * (W - 1), (W - 1), 2 * ((W - 1) - d), (W - 1), d, 0)
  BY <1>3, <1>4, <1>5, SpentOBO
<1>9. Tally(Ops("feature")) = Bill(0, W, 0, W - 1, 0, 0, 0)
  BY <1>3, <1>5, FeatureBill DEF Ops, SelectionOps
<1>10. Plus(counts, Tally(Ops("feature")))
         = Bill((W - 1), 2 * (W - 1) + W, (W - 1), 2 * ((W - 1) - d) + (W - 1), (W - 1), d, 0)
  BY <1>5, <1>8, <1>9 DEF Plus, Bill, OpKinds
<1>11. Fits(Bill((W - 1), 2 * (W - 1) + W, (W - 1), 2 * ((W - 1) - d) + (W - 1), (W - 1), d, 0))
  <2>1. /\ (W - 1) \in Nat
        /\ (W - 1) <= 2 * LL - 1
        /\ 2 * (W - 1) + W \in Nat
        /\ 2 * (W - 1) + W <= 2 * (LL - 1)
        /\ 2 * ((W - 1) - d) + (W - 1) \in Nat
        /\ 2 * ((W - 1) - d) + (W - 1) <= 3 * LL - 3 - 2 * D
        /\ (W - 1) <= LL - 1
        /\ d \in Nat
        /\ d <= D
    BY <1>1, <1>2, <1>3, <1>4, <1>6, <1>7
  <2> QED BY <1>1, <1>6, <1>7, <2>1, BillFits
<1> QED BY <1>3, <1>4, <1>5, <1>6, <1>10, <1>11

\* The charge of the selection of the threshold.
LEMMA ChargeThreshold ==
  ASSUME Given, Place, Billed, phase = "threshold", strategy = "OBO"
  PROVE  /\ Plus(counts, Tally(Ops("threshold")))
              = Bill(Above + Width, 2 * Above + Width, Above + Width, 2 * (Above - depth) + 2 * (Width - 1), Above, depth, 0)
         /\ Fits(Plus(counts, Tally(Ops("threshold"))))
<1>1. OBO /\ depth < tree.depth
  BY DEF Place, OBO
<1>2. /\ depth \in Nat /\ tree.depth \in Nat /\ Width \in Nat /\ L \in Nat
      /\ Width >= depth + 1 /\ 2 * Width <= L /\ 2 * Width - (depth + 1) <= L - tree.depth
  BY <1>1, Shape
<1>3. PICK W \in Nat : W = Width
  BY <1>2
<1>4. PICK d \in Nat : d = depth
  BY <1>2
<1>5. W >= 1 /\ Above = W - 1
  BY <1>2, <1>3, <1>4 DEF Above
<1>6. PICK LL \in Nat : LL = L
  BY <1>2
<1>7. PICK D \in Nat : D = tree.depth
  BY <1>2
<1>8. counts = Bill((W - 1), 2 * (W - 1) + W, (W - 1), 2 * ((W - 1) - d) + (W - 1), (W - 1), d, 0)
  BY <1>3, <1>4, <1>5, SpentOBO
<1>9. Tally(Ops("threshold")) = Bill(W, 0, W, W - 1, 0, 0, 0)
  BY <1>3, <1>5, PublicBill DEF Ops, SelectionOps
<1>10. Plus(counts, Tally(Ops("threshold")))
         = Bill((W - 1) + W, 2 * (W - 1) + W, (W - 1) + W, 2 * ((W - 1) - d) + 2 * (W - 1), (W - 1), d, 0)
  BY <1>5, <1>8, <1>9 DEF Plus, Bill, OpKinds
<1>11. Fits(Bill((W - 1) + W, 2 * (W - 1) + W, (W - 1) + W, 2 * ((W - 1) - d) + 2 * (W - 1), (W - 1), d, 0))
  <2>1. /\ (W - 1) + W \in Nat
        /\ (W - 1) + W <= 2 * LL - 1
        /\ 2 * (W - 1) + W \in Nat
        /\ 2 * (W - 1) + W <= 2 * (LL - 1)
        /\ 2 * ((W - 1) - d) + 2 * (W - 1) \in Nat
        /\ 2 * ((W - 1) - d) + 2 * (W - 1) <= 3 * LL - 3 - 2 * D
        /\ (W - 1) \in Nat
        /\ (W - 1) <= LL - 1
        /\ d \in Nat
        /\ d <= D
    BY <1>1, <1>2, <1>3, <1>4, <1>6, <1>7
  <2> QED BY <1>1, <1>6, <1>7, <2>1, BillFits
<1> QED BY <1>3, <1>4, <1>5, <1>6, <1>10, <1>11

\* The charge of the comparison of OBO.
LEMMA ChargeCompare ==
  ASSUME Given, Place, Billed, phase = "compare", strategy = "OBO"
  PROVE  /\ Plus(counts, Tally(Ops("compare")))
              = Bill(Above + Width, 2 * Above + Width, Above + Width, 2 * (Above - depth) + 2 * (Width - 1), Above, depth + 1, 0)
         /\ Fits(Plus(counts, Tally(Ops("compare"))))
<1>1. OBO /\ depth < tree.depth
  BY DEF Place, OBO
<1>2. /\ depth \in Nat /\ tree.depth \in Nat /\ Width \in Nat /\ L \in Nat
      /\ Width >= depth + 1 /\ 2 * Width <= L /\ 2 * Width - (depth + 1) <= L - tree.depth
  BY <1>1, Shape
<1>3. PICK W \in Nat : W = Width
  BY <1>2
<1>4. PICK d \in Nat : d = depth
  BY <1>2
<1>5. W >= 1 /\ Above = W - 1
  BY <1>2, <1>3, <1>4 DEF Above
<1>6. PICK LL \in Nat : LL = L
  BY <1>2
<1>7. PICK D \in Nat : D = tree.depth
  BY <1>2
<1>8. counts = Bill((W - 1) + W, 2 * (W - 1) + W, (W - 1) + W, 2 * ((W - 1) - d) + 2 * (W - 1), (W - 1), d, 0)
  BY <1>3, <1>4, <1>5, SpentOBO
<1>9. Tally(Ops("compare")) = Bill(0, 0, 0, 0, 0, 1, 0)
  BY CompareBill DEF Ops
<1>10. Plus(counts, Tally(Ops("compare")))
         = Bill((W - 1) + W, 2 * (W - 1) + W, (W - 1) + W, 2 * ((W - 1) - d) + 2 * (W - 1), (W - 1), d + 1, 0)
  BY <1>5, <1>8, <1>9 DEF Plus, Bill, OpKinds
<1>11. Fits(Bill((W - 1) + W, 2 * (W - 1) + W, (W - 1) + W, 2 * ((W - 1) - d) + 2 * (W - 1), (W - 1), d + 1, 0))
  <2>1. /\ (W - 1) + W \in Nat
        /\ (W - 1) + W <= 2 * LL - 1
        /\ 2 * (W - 1) + W \in Nat
        /\ 2 * (W - 1) + W <= 2 * (LL - 1)
        /\ 2 * ((W - 1) - d) + 2 * (W - 1) \in Nat
        /\ 2 * ((W - 1) - d) + 2 * (W - 1) <= 3 * LL - 3 - 2 * D
        /\ (W - 1) \in Nat
        /\ (W - 1) <= LL - 1
        /\ d + 1 \in Nat
        /\ d + 1 <= D
    BY <1>1, <1>2, <1>3, <1>4, <1>6, <1>7
  <2> QED BY <1>1, <1>6, <1>7, <2>1, BillFits
<1> QED BY <1>3, <1>4, <1>5, <1>6, <1>10, <1>11

\* The charge of the refinement of the weights, after OBO's comparison.
LEMMA ChargeUpdate ==
  ASSUME Given, Place, Billed, phase = "update", strategy = "OBO"
  PROVE  /\ Plus(counts, Tally(Ops("update")))
              = Bill(Above + Width, 2 * (Above + Width), Above + Width, 2 * (Above - depth) + 2 * (Width - 1), Above + Width, depth + 1, 0)
         /\ Fits(Plus(counts, Tally(Ops("update"))))
<1>1. OBO /\ depth < tree.depth
  BY DEF Place, OBO
<1>2. /\ depth \in Nat /\ tree.depth \in Nat /\ Width \in Nat /\ L \in Nat
      /\ Width >= depth + 1 /\ 2 * Width <= L /\ 2 * Width - (depth + 1) <= L - tree.depth
  BY <1>1, Shape
<1>3. PICK W \in Nat : W = Width
  BY <1>2
<1>4. PICK d \in Nat : d = depth
  BY <1>2
<1>5. W >= 1 /\ Above = W - 1
  BY <1>2, <1>3, <1>4 DEF Above
<1>6. PICK LL \in Nat : LL = L
  BY <1>2
<1>7. PICK D \in Nat : D = tree.depth
  BY <1>2
<1>8. counts = Bill((W - 1) + W, 2 * (W - 1) + W, (W - 1) + W, 2 * ((W - 1) - d) + 2 * (W - 1), (W - 1), d + 1, 0)
  BY <1>3, <1>4, <1>5, SpentOBO
<1>9. Tally(Ops("update")) = Bill(0, W, 0, 0, W, 0, 0)
  BY <1>3, <1>5, UpdateBill DEF Ops
<1>10. Plus(counts, Tally(Ops("update")))
         = Bill((W - 1) + W, 2 * ((W - 1) + W), (W - 1) + W, 2 * ((W - 1) - d) + 2 * (W - 1), (W - 1) + W, d + 1, 0)
  BY <1>5, <1>8, <1>9 DEF Plus, Bill, OpKinds
<1>11. Fits(Bill((W - 1) + W, 2 * ((W - 1) + W), (W - 1) + W, 2 * ((W - 1) - d) + 2 * (W - 1), (W - 1) + W, d + 1, 0))
  <2>1. /\ (W - 1) + W \in Nat
        /\ (W - 1) + W <= 2 * LL - 1
        /\ 2 * ((W - 1) + W) \in Nat
        /\ 2 * ((W - 1) + W) <= 2 * (LL - 1)
        /\ 2 * ((W - 1) - d) + 2 * (W - 1) \in Nat
        /\ 2 * ((W - 1) - d) + 2 * (W - 1) <= 3 * LL - 3 - 2 * D
        /\ (W - 1) + W <= LL - 1
        /\ d + 1 \in Nat
        /\ d + 1 <= D
    BY <1>1, <1>2, <1>3, <1>4, <1>6, <1>7
  <2> QED BY <1>1, <1>6, <1>7, <2>1, BillFits
<1> QED BY <1>3, <1>4, <1>5, <1>6, <1>10, <1>11

\* The charge of the selection of the leaf by OBO.
LEMMA ChargeLeaf ==
  ASSUME Given, Place, Billed, phase = "leaf", strategy = "OBO"
  PROVE  /\ Plus(counts, Tally(Ops("leaf")))
              = Bill(Above + L, 2 * Above, Above + L, 2 * (Above - depth) + (L - 1), Above, depth, 0)
         /\ Fits(Plus(counts, Tally(Ops("leaf"))))
<1>1. OBO /\ depth = tree.depth
  BY DEF Place, OBO
<1>2. /\ depth \in Nat /\ tree.depth \in Nat /\ Width \in Nat /\ L \in Nat
      /\ Width >= depth + 1 /\ Width = L
  BY <1>1, Shape
<1>3. PICK W \in Nat : W = Width
  BY <1>2
<1>4. PICK d \in Nat : d = depth
  BY <1>2
<1>5. W >= 1 /\ Above = W - 1
  BY <1>2, <1>3, <1>4 DEF Above
<1>6. PICK LL \in Nat : LL = L
  BY <1>2
<1>7. PICK D \in Nat : D = tree.depth
  BY <1>2
<1>8. counts = Bill((W - 1), 2 * (W - 1), (W - 1), 2 * ((W - 1) - d), (W - 1), d, 0)
  BY <1>3, <1>4, <1>5, SpentOBO
<1>9. Tally(Ops("leaf")) = Bill(W, 0, W, W - 1, 0, 0, 0)
  BY <1>3, <1>5, <1>2, <1>6, PublicBill DEF Ops, SelectionOps
<1>10. Plus(counts, Tally(Ops("leaf")))
         = Bill((W - 1) + LL, 2 * (W - 1), (W - 1) + LL, 2 * ((W - 1) - d) + (LL - 1), (W - 1), d, 0)
  BY <1>5, <1>8, <1>9, <1>2, <1>3, <1>6 DEF Plus, Bill, OpKinds
<1>11. Fits(Bill((W - 1) + LL, 2 * (W - 1), (W - 1) + LL, 2 * ((W - 1) - d) + (LL - 1), (W - 1), d, 0))
  <2>1. /\ (W - 1) + LL \in Nat
        /\ (W - 1) + LL <= 2 * LL - 1
        /\ 2 * (W - 1) \in Nat
        /\ 2 * (W - 1) <= 2 * (LL - 1)
        /\ 2 * ((W - 1) - d) + (LL - 1) \in Nat
        /\ 2 * ((W - 1) - d) + (LL - 1) <= 3 * LL - 3 - 2 * D
        /\ (W - 1) \in Nat
        /\ (W - 1) <= LL - 1
        /\ d \in Nat
        /\ d <= D
    BY <1>1, <1>2, <1>3, <1>4, <1>6, <1>7
  <2> QED BY <1>1, <1>6, <1>7, <2>1, BillFits
<1> QED BY <1>3, <1>4, <1>5, <1>6, <1>10, <1>11

\* The charge of the comparison of the next node of a level.
LEMMA ChargeNode ==
  ASSUME Given, Place, Compared, Billed, phase = "compare", strategy = "FullLevel"
  PROVE  /\ Plus(counts, Tally(Ops("compare")))
              = Bill(Above + Cardinality(DOMAIN branches) + 1, Above, 0, 0, Above, 0, Above + Cardinality(DOMAIN branches) + 1)
         /\ Fits(Plus(counts, Tally(Ops("compare"))))
<1>1. ~OBO /\ depth < tree.depth
  BY DEF Place, OBO
<1>2. /\ depth \in Nat /\ tree.depth \in Nat /\ Width \in Nat /\ L \in Nat
      /\ Width >= depth + 1 /\ 2 * Width <= L /\ 2 * Width - (depth + 1) <= L - tree.depth
  BY <1>1, Shape
<1>3. PICK W \in Nat : W = Width
  BY <1>2
<1>4. PICK d \in Nat : d = depth
  BY <1>2
<1>5. W >= 1 /\ Above = W - 1
  BY <1>2, <1>3, <1>4 DEF Above
<1>6. PICK LL \in Nat : LL = L
  BY <1>2
<1>7. PICK D \in Nat : D = tree.depth
  BY <1>2
<1>c. PICK c \in Nat : c = Cardinality(DOMAIN branches) /\ c <= W - 1
  BY <1>2, <1>3, NodesCompared
<1>8. counts = Bill((W - 1) + c, (W - 1), 0, 0, (W - 1), 0, (W - 1) + c)
  BY <1>3, <1>4, <1>5, <1>c, SpentFull
<1>9. Tally(Ops("compare")) = Bill(1, 0, 0, 0, 0, 0, 1)
  BY CompareBill DEF Ops
<1>10. Plus(counts, Tally(Ops("compare")))
         = Bill((W - 1) + c + 1, (W - 1), 0, 0, (W - 1), 0, (W - 1) + c + 1)
  BY <1>5, <1>8, <1>9, <1>c DEF Plus, Bill, OpKinds
<1>11. Fits(Bill((W - 1) + c + 1, (W - 1), 0, 0, (W - 1), 0, (W - 1) + c + 1))
  <2>1. /\ (W - 1) + c + 1 \in Nat
        /\ (W - 1) + c + 1 <= 2 * LL - 1
        /\ (W - 1) \in Nat
        /\ (W - 1) <= LL - 1
        /\ (W - 1) + c + 1 <= LL - 1
        /\ 0 <= LL
        /\ 0 <= LL - 1
    BY <1>1, <1>2, <1>3, <1>4, <1>6, <1>7, <1>c
  <2> QED BY <1>1, <1>6, <1>7, <2>1, BillFits
<1> QED BY <1>3, <1>4, <1>5, <1>6, <1>10, <1>11, <1>c

\* The charge of the refinement of the weights, after a level's comparisons.
LEMMA ChargeUpdateFull ==
  ASSUME Given, Place, Compared, Billed, phase = "update", strategy = "FullLevel"
  PROVE  /\ Plus(counts, Tally(Ops("update")))
              = Bill(Above + Width, Above + Width, 0, 0, Above + Width, 0, Above + Width)
         /\ Fits(Plus(counts, Tally(Ops("update"))))
<1>1. ~OBO /\ depth < tree.depth
  BY DEF Place, OBO
<1>2. /\ depth \in Nat /\ tree.depth \in Nat /\ Width \in Nat /\ L \in Nat
      /\ Width >= depth + 1 /\ 2 * Width <= L /\ 2 * Width - (depth + 1) <= L - tree.depth
  BY <1>1, Shape
<1>3. PICK W \in Nat : W = Width
  BY <1>2
<1>4. PICK d \in Nat : d = depth
  BY <1>2
<1>5. W >= 1 /\ Above = W - 1
  BY <1>2, <1>3, <1>4 DEF Above
<1>6. PICK LL \in Nat : LL = L
  BY <1>2
<1>7. PICK D \in Nat : D = tree.depth
  BY <1>2
<1>8. counts = Bill((W - 1) + W, (W - 1), 0, 0, (W - 1), 0, (W - 1) + W)
  BY <1>3, <1>4, <1>5, SpentFull
<1>9. Tally(Ops("update")) = Bill(0, W, 0, 0, W, 0, 0)
  BY <1>3, <1>5, UpdateBill DEF Ops
<1>10. Plus(counts, Tally(Ops("update")))
         = Bill((W - 1) + W, (W - 1) + W, 0, 0, (W - 1) + W, 0, (W - 1) + W)
  BY <1>5, <1>8, <1>9 DEF Plus, Bill, OpKinds
<1>11. Fits(Bill((W - 1) + W, (W - 1) + W, 0, 0, (W - 1) + W, 0, (W - 1) + W))
  <2>1. /\ (W - 1) + W \in Nat
        /\ (W - 1) + W <= 2 * LL - 1
        /\ (W - 1) + W <= LL - 1
        /\ 0 <= LL
        /\ 0 <= LL - 1
    BY <1>1, <1>2, <1>3, <1>4, <1>6, <1>7
  <2> QED BY <1>1, <1>6, <1>7, <2>1, BillFits
<1> QED BY <1>3, <1>4, <1>5, <1>6, <1>10, <1>11

\* The charge of the selection of the leaf after the full levels.
LEMMA ChargeLeafFull ==
  ASSUME Given, Place, Compared, Billed, phase = "leaf", strategy = "FullLevel"
  PROVE  /\ Plus(counts, Tally(Ops("leaf")))
              = Bill(Above + L, Above, L, L - 1, Above, 0, Above)
         /\ Fits(Plus(counts, Tally(Ops("leaf"))))
<1>1. ~OBO /\ depth = tree.depth
  BY DEF Place, OBO
<1>2. /\ depth \in Nat /\ tree.depth \in Nat /\ Width \in Nat /\ L \in Nat
      /\ Width >= depth + 1 /\ Width = L
  BY <1>1, Shape
<1>3. PICK W \in Nat : W = Width
  BY <1>2
<1>4. PICK d \in Nat : d = depth
  BY <1>2
<1>5. W >= 1 /\ Above = W - 1
  BY <1>2, <1>3, <1>4 DEF Above
<1>6. PICK LL \in Nat : LL = L
  BY <1>2
<1>7. PICK D \in Nat : D = tree.depth
  BY <1>2
<1>8. counts = Bill((W - 1), (W - 1), 0, 0, (W - 1), 0, (W - 1))
  BY <1>3, <1>4, <1>5, SpentFull
<1>9. Tally(Ops("leaf")) = Bill(W, 0, W, W - 1, 0, 0, 0)
  BY <1>3, <1>5, <1>2, <1>6, PublicBill DEF Ops, SelectionOps
<1>10. Plus(counts, Tally(Ops("leaf")))
         = Bill((W - 1) + LL, (W - 1), LL, LL - 1, (W - 1), 0, (W - 1))
  BY <1>5, <1>8, <1>9, <1>2, <1>3, <1>6 DEF Plus, Bill, OpKinds
<1>11. Fits(Bill((W - 1) + LL, (W - 1), LL, LL - 1, (W - 1), 0, (W - 1)))
  <2>1. /\ (W - 1) + LL \in Nat
        /\ (W - 1) + LL <= 2 * LL - 1
        /\ (W - 1) \in Nat
        /\ (W - 1) <= LL - 1
        /\ LL \in Nat
        /\ LL <= LL
        /\ LL - 1 \in Nat
        /\ LL - 1 <= LL - 1
    BY <1>1, <1>2, <1>3, <1>4, <1>6, <1>7
  <2> QED BY <1>1, <1>6, <1>7, <2>1, BillFits
<1> QED BY <1>3, <1>4, <1>5, <1>6, <1>10, <1>11

-----------------------------------------------------------------------------
\* The initial states and the steps.

\* The invariant holds before validateInputs.
LEMMA InitInv == Init => Inv
<1> SUFFICES ASSUME Init PROVE Inv
  OBVIOUS
<1>1. Given
  BY DEF Init, Given
<1>2. tree.depth \in 0..MaxDepth /\ MaxDepth \in Nat
  BY <1>1, TreeFacts, OneHotAssumption DEF Given
<1>3. Place
  BY <1>2 DEF Init, Place
<1>4. Idle /\ ~Started
  BY DEF Init, Idle, Started
<1>5. HasPath
  BY <1>4 DEF HasPath
<1>6. Selected
  <2>1. Nothing.kind = "none"
    BY ValueFields DEF Nothing
  <2> QED BY <1>4, <2>1 DEF Selected, Idle
<1>7. Compared
  BY DEF Init, Compared
<1>8. /\ depth = 0 /\ phase = "validate" /\ Width = 1 /\ Above = 0
      /\ L \in Nat /\ tree.depth \in Nat /\ L >= tree.depth + 1
  <2>1. depth = 0 /\ phase = "validate"
    BY DEF Init
  <2>2. Width = 1
    BY <2>1, PowersOfTwo DEF Width
  <2>3. /\ depth \in Nat /\ tree.depth \in Nat /\ Width \in Nat /\ L \in Nat
        /\ Width - depth <= L - tree.depth
    BY <1>1, <1>3, Shape
  <2> QED BY <2>1, <2>2, <2>3 DEF Above
<1>9. counts = Bill(0, 0, 0, 0, 0, 0, 0)
  BY DEF Init, NoCounts, Bill, OpKinds
<1>10. Billed
  BY <1>8, <1>9 DEF Billed, Spent, Features, Thresholds, Compares, Leaves, Once
<1>11. Bounded
  <2>1. Fits(Bill(0, 0, 0, 0, 0, 0, 0))
    <3>1. 0 \in Nat /\ 0 <= 2 * L - 1 /\ 0 <= L - 1 /\ 0 <= 2 * (L - 1) /\ 0 <= L
            /\ 0 <= 3 * L - 3 - 2 * tree.depth /\ 0 <= tree.depth
      BY <1>8
    <3> QED BY <1>1, <1>3, <3>1, BillFits
  <2> QED BY <1>9, <2>1 DEF Bounded
<1>12. Alive
  BY <1>4, <1>8 DEF Idle, Alive
<1> QED BY <1>1, <1>3, <1>4, <1>5, <1>6, <1>7, <1>10, <1>11, <1>12 DEF Inv

\* As long as neither tree, input, weights nor depth change, nothing does that is
\* said in terms of them.
LEMMA Still ==
  ASSUME UNCHANGED <<tree, x, strategy, one, leafKind, depth, weights>>
  PROVE  /\ Given' <=> Given
         /\ Level' = Level /\ Width' = Width /\ L' = L /\ Above' = Above /\ (OBO' <=> OBO)
         /\ Admissible' <=> Admissible
         /\ \A h : (HotAt(h)' <=> HotAt(h)) /\ Split(h)' = Split(h)
         /\ \A s : FeatureOf(s)' = FeatureOf(s) /\ Goes(s)' = Goes(s)
         /\ \A c : Fits(c)' <=> Fits(c)
         /\ DesignCounts' = DesignCounts
<1>1. Given' <=> Given
  BY DEF Given
<1>2. Level' = Level /\ Width' = Width /\ L' = L /\ Above' = Above /\ (OBO' <=> OBO)
  BY DEF Level, Width, L, Above, OBO
<1>3. Admissible' <=> Admissible
  BY DEF Admissible, InRange, ThresholdOf
<1>4. \A h : (HotAt(h)' <=> HotAt(h)) /\ Split(h)' = Split(h)
  BY DEF HotAt, Level, Width, Split
<1>5. \A s : FeatureOf(s)' = FeatureOf(s) /\ Goes(s)' = Goes(s)
  BY DEF FeatureOf, Goes
<1>6. DesignCounts' = DesignCounts
  BY <1>2 DEF DesignCounts
<1>7. \A c : Fits(c)' <=> Fits(c)
  BY <1>6 DEF Fits
<1> QED BY <1>1, <1>2, <1>3, <1>4, <1>5, <1>6, <1>7

\* The fields of what is selected, one of them assigned.
LEMMA FeatureAssigned ==
  ASSUME NEW f, chosen = [feature |-> chosen.feature, threshold |-> chosen.threshold],
         chosen' = [chosen EXCEPT !.feature = f]
  PROVE  /\ chosen' = [feature |-> chosen'.feature, threshold |-> chosen'.threshold]
         /\ chosen'.feature = f /\ chosen'.threshold = chosen.threshold
OBVIOUS

\* The same of the selected threshold.
LEMMA ThresholdAssigned ==
  ASSUME NEW t, chosen = [feature |-> chosen.feature, threshold |-> chosen.threshold],
         chosen' = [chosen EXCEPT !.threshold = t]
  PROVE  /\ chosen' = [feature |-> chosen'.feature, threshold |-> chosen'.threshold]
         /\ chosen'.threshold = t /\ chosen'.feature = chosen.feature
OBVIOUS

\* Selecting the feature of a level keeps the invariant: it is the hot node's.
LEMMA SelectFeatureStep ==
  ASSUME Inv, SelectFeature
  PROVE  Inv'
<1>1. /\ phase = "feature" /\ phase' = "threshold" /\ strategy = "OBO" /\ depth < tree.depth
      /\ counts' = Plus(counts, Tally(Ops("feature")))
      /\ Started /\ Started' /\ SelectedFeature # Bad
      /\ UNCHANGED <<tree, x, strategy, one, leafKind, depth, weights, branches, peak, result>>
  BY DEF Inv, Place, SelectFeature, Done, Started
<1>2. Given /\ Place /\ Idle /\ HasPath /\ Selected /\ Compared /\ Billed /\ Bounded /\ Alive
  BY DEF Inv
<1>3. /\ Given' /\ Level' = Level /\ Width' = Width /\ L' = L /\ Above' = Above
      /\ (Admissible' <=> Admissible)
  <2>1. UNCHANGED <<tree, x, strategy, one, leafKind, depth, weights>>
    BY <1>1
  <2> QED BY <1>2, <2>1, Still
<1>h. \A h : (HotAt(h)' <=> HotAt(h)) /\ FeatureOf(Split(h))' = FeatureOf(Split(h))
  BY <1>1 DEF HotAt, Level, Width, FeatureOf, Split
<1>4. Given'
  BY <1>3
<1>5. Place'
  BY <1>1, <1>2 DEF Place
<1>6. Idle' /\ HasPath'
  BY <1>1, <1>2, <1>3, <1>h DEF Idle, HasPath
<1>7. Selected'
  <2>1. PICK f : f = SelectedFeature
    OBVIOUS
  <2>2. chosen' = [chosen EXCEPT !.feature = f]
    BY <2>1 DEF SelectFeature
  <2>3. /\ chosen' = [feature |-> chosen'.feature, threshold |-> chosen'.threshold]
        /\ chosen'.feature = f /\ chosen'.threshold = chosen.threshold
    BY <1>2, <2>2, FeatureAssigned DEF Selected
  <2>4. ASSUME NEW h \in Level, HotAt(h) PROVE f = FeatureOf(Split(h))
    BY <1>1, <1>2, <2>1, <2>4, FeatureSelected DEF HasPath
  <2>5. f.provenance = "opaque"
    BY <1>1, <1>2, <2>4, FeatureIs, ValueFields DEF HasPath
  <2>6. \A h \in Level' : HotAt(h)' => chosen'.feature = FeatureOf(Split(h))'
    BY <1>3, <1>h, <2>3, <2>4
  <2>7. chosen'.threshold.kind # "none" =>
          chosen'.threshold.provenance = "opaque" /\ chosen'.feature.provenance = "opaque"
    BY <1>2, <2>3, <2>5 DEF Selected
  <2> QED BY <1>1, <2>3, <2>6, <2>7 DEF Selected
<1>8. Compared'
  BY <1>1, <1>2, <1>3 DEF Compared
<1>9. Billed' /\ Bounded'
  <2>1. /\ counts' = Bill(Above, 2 * Above + Width, Above, 2 * (Above - depth) + (Width - 1),
                          Above, depth, 0)
        /\ Fits(counts')
    BY <1>1, <1>2, ChargeFeature
  <2>2. Fits(counts)'
    BY <1>1, <2>1 DEF Fits, DesignCounts, L, OBO
  <2>3. Width \in Nat /\ Width >= 1 /\ depth \in Nat /\ Above = Width - 1
    BY <1>2, Shape DEF Above
  <2>4. Spent' = Bill(Above, 2 * Above + Width, Above, 2 * (Above - depth) + (Width - 1),
                      Above, depth, 0)
    BY <1>1, <1>3, <2>3 DEF Spent, OBO, Features, Thresholds, Leaves, Once
  <2> QED BY <2>1, <2>2, <2>4 DEF Billed, Bounded
<1>10. Alive'
  BY <1>1, <1>2, <1>3 DEF Alive
<1> QED BY <1>4, <1>5, <1>6, <1>7, <1>8, <1>9, <1>10 DEF Inv

\* Selecting the threshold of a level keeps the invariant: it is the hot node's.
LEMMA SelectThresholdStep ==
  ASSUME Inv, SelectThreshold
  PROVE  Inv'
<1>1. /\ phase = "threshold" /\ phase' = "compare" /\ strategy = "OBO" /\ depth < tree.depth
      /\ counts' = Plus(counts, Tally(Ops("threshold")))
      /\ Started /\ Started' /\ SelectedThreshold # Bad
      /\ UNCHANGED <<tree, x, strategy, one, leafKind, depth, weights, branches, peak, result>>
  BY DEF Inv, Place, SelectThreshold, Done, Started
<1>2. Given /\ Place /\ Idle /\ HasPath /\ Selected /\ Compared /\ Billed /\ Bounded /\ Alive
  BY DEF Inv
<1>3. /\ Given' /\ Level' = Level /\ Width' = Width /\ L' = L /\ Above' = Above
      /\ (Admissible' <=> Admissible)
  <2>1. UNCHANGED <<tree, x, strategy, one, leafKind, depth, weights>>
    BY <1>1
  <2> QED BY <1>2, <2>1, Still
<1>h. \A h : /\ HotAt(h)' <=> HotAt(h)
             /\ FeatureOf(Split(h))' = FeatureOf(Split(h)) /\ Split(h)' = Split(h)
  BY <1>1 DEF HotAt, Level, Width, FeatureOf, Split
<1>4. Place'
  BY <1>1, <1>2 DEF Place
<1>5. Idle' /\ HasPath'
  BY <1>1, <1>2, <1>3, <1>h DEF Idle, HasPath
<1>6. Selected'
  <2>1. PICK t : t = SelectedThreshold
    OBVIOUS
  <2>2. chosen' = [chosen EXCEPT !.threshold = t]
    BY <2>1 DEF SelectThreshold
  <2>3. /\ chosen' = [feature |-> chosen'.feature, threshold |-> chosen'.threshold]
        /\ chosen'.threshold = t /\ chosen'.feature = chosen.feature
    BY <1>2, <2>2, ThresholdAssigned DEF Selected
  <2>4. ASSUME NEW h \in Level, HotAt(h)
        PROVE  /\ t = V(ScalarKind, Encoded(ScalarKind, Split(h).threshold))
               /\ chosen.feature = FeatureOf(Split(h))
    <3>1. t = V(ScalarKind, Encoded(ScalarKind, Split(h).threshold))
      BY <1>1, <1>2, <2>1, <2>4, ThresholdSelected DEF HasPath
    <3> QED BY <1>1, <1>2, <2>4, <3>1 DEF Selected
  <2>5. t.provenance = "opaque" /\ chosen.feature.provenance = "opaque"
    BY <1>1, <1>2, <2>4, FeatureIs, ValueFields DEF HasPath, V
  <2>6. \A h \in Level' : HotAt(h)' =>
          /\ chosen'.feature = FeatureOf(Split(h))'
          /\ chosen'.threshold = V(ScalarKind, Encoded(ScalarKind, Split(h)'.threshold))
    BY <1>3, <1>h, <2>3, <2>4
  <2>7. chosen'.threshold.kind # "none" =>
          chosen'.threshold.provenance = "opaque" /\ chosen'.feature.provenance = "opaque"
    BY <2>3, <2>5
  <2> QED BY <1>1, <2>3, <2>6, <2>7 DEF Selected
<1>7. Compared'
  BY <1>1, <1>2, <1>3 DEF Compared
<1>8. Billed' /\ Bounded'
  <2>1. /\ counts' = Bill(Above + Width, 2 * Above + Width, Above + Width,
                          2 * (Above - depth) + 2 * (Width - 1), Above, depth, 0)
        /\ Fits(counts')
    BY <1>1, <1>2, ChargeThreshold
  <2>2. Fits(counts)'
    BY <1>1, <2>1 DEF Fits, DesignCounts, L, OBO
  <2>3. Width \in Nat /\ Width >= 1 /\ depth \in Nat /\ Above = Width - 1
    BY <1>2, Shape DEF Above
  <2>4. Spent' = Bill(Above + Width, 2 * Above + Width, Above + Width,
                      2 * (Above - depth) + 2 * (Width - 1), Above, depth, 0)
    BY <1>1, <1>3, <2>3 DEF Spent, OBO, Features, Thresholds, Leaves, Once
  <2> QED BY <2>1, <2>2, <2>4 DEF Billed, Bounded
<1>9. Alive'
  BY <1>1, <1>2, <1>3 DEF Alive
<1> QED BY <1>3, <1>4, <1>5, <1>6, <1>7, <1>8, <1>9 DEF Inv

\* observeLive keeps the peaks and takes in the new numbers.
LEMMA Observed ==
  ASSUME NEW p, p.path \in Nat, p.comparison \in Nat, p.total \in Nat,
         p.total <= p.path + p.comparison, NEW n \in Nat, NEW m \in Nat, NEW most \in Nat,
         p.total <= most, n + m <= most, p.path <= n
  PROVE  LET q == Observe(p, n, m)
         IN  /\ q.path = n /\ q.path \in Nat /\ q.comparison \in Nat /\ q.total \in Nat
             /\ q.total <= q.path + q.comparison /\ q.total <= most
BY DEF Observe

\* The one comparison of a level of OBO keeps the invariant: its branch is the hot
\* node's, whichever the other nodes would have.
LEMMA CompareSelectedStep ==
  ASSUME Inv, CompareSelected
  PROVE  Inv'
<1>1. /\ phase = "compare" /\ phase' = "update" /\ strategy = "OBO" /\ depth < tree.depth
      /\ counts' = Plus(counts, Tally(Ops("compare")))
      /\ Started /\ Started' /\ peak' = Observe(peak, Width, 1)
      /\ UNCHANGED <<tree, x, strategy, one, leafKind, depth, weights, chosen, result>>
  BY DEF Inv, Place, CompareSelected, Done, Started
<1>2. Given /\ Place /\ Idle /\ HasPath /\ Selected /\ Compared /\ Billed /\ Bounded /\ Alive
  BY DEF Inv
<1>3. /\ Given' /\ Level' = Level /\ Width' = Width /\ L' = L /\ Above' = Above
      /\ (Admissible' <=> Admissible)
  <2>1. UNCHANGED <<tree, x, strategy, one, leafKind, depth, weights>>
    BY <1>1
  <2> QED BY <1>2, <2>1, Still
<1>h. \A h : /\ HotAt(h)' <=> HotAt(h)
             /\ Goes(Split(h))' = Goes(Split(h)) /\ Split(h)' = Split(h)
  BY <1>1 DEF HotAt, Level, Width, Goes, Split
<1>4. Place'
  BY <1>1, <1>2 DEF Place
<1>5. Idle' /\ HasPath'
  BY <1>1, <1>2, <1>3, <1>h DEF Idle, HasPath
<1>6. Selected'
  BY <1>1, <1>2 DEF Selected
<1>7. Compared'
  <2>1. PICK h \in Level : HotAt(h)
    BY <1>1, <1>2 DEF HasPath
  <2>2. PICK b : b = CompareGE(chosen.feature, chosen.threshold)
    OBVIOUS
  <2>3. b # Bad /\ branches' = [i \in Level |-> b]
    BY <2>2 DEF CompareSelected
  <2>4. ASSUME NEW g \in Level, HotAt(g) PROVE b = V("real", Goes(Split(g)))
    <3>1. PICK t : t = chosen.threshold
      OBVIOUS
    <3>2. chosen.feature = FeatureOf(Split(g))
            /\ t = Value(ScalarKind, Encoded(ScalarKind, Split(g).threshold), "opaque")
      BY <1>1, <1>2, <2>4, <3>1 DEF Selected, V
    <3>3. Admissible
      BY <1>1, <1>2 DEF HasPath
    <3>4. CompareGE(FeatureOf(Split(g)), t) # Bad
      BY <2>2, <2>3, <3>1, <3>2
    <3>5. CompareGE(FeatureOf(Split(g)), t) = V("real", Goes(Split(g)))
      BY <1>1, <1>2, <3>2, <3>3, <3>4, BranchIs
    <3> QED BY <2>2, <3>1, <3>2, <3>5
  <2>5. b = V("real", Goes(Split(h)))
    BY <2>1, <2>4
  <2>6. b \in {V("real", 0), V("real", 1)} /\ b.provenance = "opaque"
    BY <2>5, ValueFields DEF Goes, V
  <2>7. /\ DOMAIN branches' = Level
        /\ \A j \in Level : branches'[j] = b
    BY <2>3
  <2>8. \A g \in Level' : HotAt(g)' => branches'[g] = V("real", Goes(Split(g))')
    BY <1>3, <1>h, <2>4, <2>7
  <2> QED BY <1>1, <1>3, <2>6, <2>7, <2>8 DEF Compared
<1>8. Billed' /\ Bounded'
  <2>1. /\ counts' = Bill(Above + Width, 2 * Above + Width, Above + Width,
                          2 * (Above - depth) + 2 * (Width - 1), Above, depth + 1, 0)
        /\ Fits(counts')
    BY <1>1, <1>2, ChargeCompare
  <2>2. Fits(counts)'
    BY <1>1, <2>1 DEF Fits, DesignCounts, L, OBO
  <2>3. Width \in Nat /\ Width >= 1 /\ depth \in Nat /\ Above = Width - 1
    BY <1>2, Shape DEF Above
  <2>4. Spent' = Bill(Above + Width, 2 * Above + Width, Above + Width,
                      2 * (Above - depth) + 2 * (Width - 1), Above, depth + 1, 0)
    BY <1>1, <1>3, <2>3 DEF Spent, OBO, Features, Thresholds, Leaves, Once
  <2> QED BY <2>1, <2>2, <2>4 DEF Billed, Bounded
<1>9. Alive'
  <2>1. PICK W \in Nat : W = Width /\ W >= 1
    BY <1>2, Shape
  <2>2. PICK LL \in Nat : LL = L /\ W + 1 <= LL
    BY <1>1, <1>2, <2>1, Shape
  <2>3. PICK p : p = peak
    OBVIOUS
  <2>4. /\ p.path \in Nat /\ p.comparison \in Nat /\ p.total \in Nat
        /\ p.total <= p.path + p.comparison /\ p.total <= LL /\ p.path <= W
    BY <1>1, <1>2, <2>1, <2>2, <2>3 DEF Alive
  <2>5. peak' = Observe(p, W, 1)
    BY <1>1, <2>1, <2>3
  <2>6. /\ peak'.path = W /\ peak'.path \in Nat /\ peak'.comparison \in Nat /\ peak'.total \in Nat
        /\ peak'.total <= peak'.path + peak'.comparison /\ peak'.total <= LL
    BY <2>2, <2>4, <2>5, Observed
  <2> QED BY <1>3, <2>1, <2>2, <2>6 DEF Alive
<1> QED BY <1>3, <1>4, <1>5, <1>6, <1>7, <1>8, <1>9 DEF Inv

\* Comparing the next node of a level keeps the invariant, in the middle of the level
\* and at its end.
LEMMA CompareNodeStep ==
  ASSUME Inv, CompareNode
  PROVE  Inv'
<1>1. /\ phase = "compare" /\ strategy = "FullLevel" /\ depth < tree.depth
      /\ counts' = Plus(counts, Tally(Ops("compare")))
      /\ Started
      /\ UNCHANGED <<tree, x, strategy, one, leafKind, depth, weights, chosen, result>>
  BY DEF Inv, Place, CompareNode, Done, Started
<1>2. Given /\ Place /\ Idle /\ HasPath /\ Selected /\ Compared /\ Billed /\ Bounded /\ Alive
  BY DEF Inv
<1>3. /\ Given' /\ Level' = Level /\ Width' = Width /\ L' = L /\ Above' = Above
      /\ (Admissible' <=> Admissible)
  <2>1. UNCHANGED <<tree, x, strategy, one, leafKind, depth, weights>>
    BY <1>1
  <2> QED BY <1>2, <2>1, Still
<1>h. \A h : /\ HotAt(h)' <=> HotAt(h)
             /\ Goes(Split(h))' = Goes(Split(h)) /\ Split(h)' = Split(h)
  BY <1>1 DEF HotAt, Level, Width, Goes, Split
<1>4. PICK W \in Nat : W = Width /\ W >= 1 /\ 2 * W <= L /\ Level = 0 .. W - 1
  BY <1>1, <1>2, Shape DEF Level
<1>5. PICK n \in 0 .. W - 1 : n = Cardinality(DOMAIN branches)
  BY <1>1, <1>2, <1>4, NodesCompared
<1>6. /\ DOMAIN branches = 0 .. n - 1
      /\ \A j \in 0 .. n - 1 : branches[j] = V("real", Goes(Split(j)))
  BY <1>1, <1>2, <1>5, NodesCompared
<1>7. n \in Nat /\ n \in Level
  BY <1>4
<1>8. PICK b : b = CompareGE(FeatureOf(Split(n)), ThresholdOf(Split(n)))
  OBVIOUS
<1>9. /\ b # Bad
      /\ phase' = IF n = W - 1 THEN "update" ELSE "compare"
      /\ branches' = [j \in 0..n |-> IF j = n THEN b ELSE branches[j]]
      /\ peak' = IF n = W - 1 THEN Observe(peak, W, W) ELSE peak
  BY <1>4, <1>5, <1>8 DEF CompareNode, Done
<1>10. b = V("real", Goes(Split(n)))
  <2>1. Admissible
    BY <1>1, <1>2 DEF HasPath
  <2>2. PICK t : t = ThresholdOf(Split(n))
    OBVIOUS
  <2>3. t = Value(ScalarKind, Encoded(ScalarKind, Split(n).threshold), "public")
    BY <2>2, ThresholdIs
  <2>4. CompareGE(FeatureOf(Split(n)), t) # Bad
    BY <1>8, <1>9, <2>2
  <2> QED BY <1>1, <1>2, <1>7, <1>8, <2>1, <2>2, <2>3, <2>4, BranchIs
<1>11. DOMAIN branches' = 0..n /\ \A j \in 0..n : branches'[j] = V("real", Goes(Split(j)))
  <2>1. ASSUME NEW j \in 0..n PROVE branches'[j] = V("real", Goes(Split(j)))
    <3>1. CASE j = n
      BY <1>9, <1>10, <3>1
    <3>2. CASE j # n
      <4>1. j \in 0 .. n - 1
        BY <1>7, <3>2
      <4> QED BY <1>6, <1>9, <3>2, <4>1
    <3> QED BY <3>1, <3>2
  <2> QED BY <1>9, <2>1
<1>12. Place'
  BY <1>1, <1>2, <1>9 DEF Place
<1>13. Started' /\ Idle' /\ HasPath'
  BY <1>1, <1>2, <1>3, <1>9, <1>h DEF Idle, HasPath, Started
<1>14. Selected'
  BY <1>1, <1>2 DEF Selected
<1>15. Compared'
  <2>1. \A j \in 0..n : branches'[j] \in {V("real", 0), V("real", 1)}
    BY <1>11 DEF Goes
  <2>2. \A j \in DOMAIN branches' : branches'[j].provenance = "opaque"
    BY <1>11, <2>1, ValueFields DEF V
  <2>3. CASE n = W - 1
    <3>1. 0..n = Level
      BY <1>4, <2>3
    <3>2. \A g \in Level' : HotAt(g)' => branches'[g] = V("real", Goes(Split(g))')
      BY <1>3, <1>11, <1>h, <3>1
    <3> QED BY <1>3, <1>9, <1>11, <2>1, <2>2, <2>3, <3>1, <3>2 DEF Compared
  <2>4. CASE n # W - 1
    <3>1. n + 1 \in 0 .. W - 1 /\ (n + 1) - 1 = n
      BY <1>4, <2>4
    <3>2. \A j \in 0 .. (n + 1) - 1 : branches'[j] = V("real", Goes(Split(j))')
      BY <1>11, <1>h, <3>1
    <3>3. Width' = W /\ phase' = "compare" /\ DOMAIN branches' = 0 .. (n + 1) - 1
      BY <1>3, <1>4, <1>9, <1>11, <2>4, <3>1
    <3> QED BY <2>2, <3>1, <3>2, <3>3 DEF Compared
  <2> QED BY <2>3, <2>4
<1>16. Billed' /\ Bounded'
  <2>1. /\ counts' = Bill(Above + n + 1, Above, 0, 0, Above, 0, Above + n + 1)
        /\ Fits(counts')
    BY <1>1, <1>2, <1>5, ChargeNode
  <2>2. Fits(counts)'
    BY <1>1, <2>1 DEF Fits, DesignCounts, L, OBO
  <2>3. Above = W - 1
    BY <1>4 DEF Above
  <2>4. Compares' = n + 1
    <3>1. CASE n = W - 1
      BY <1>3, <1>4, <1>7, <1>9, <3>1 DEF Compares
    <3>2. CASE n # W - 1
      <4>1. Cardinality(0..n) = n + 1
        <5>1. 0 \in Int /\ n \in Int /\ ~(0 > n) /\ n - 0 + 1 = n + 1
          BY <1>7
        <5>2. Cardinality(0..n) = IF 0 > n THEN 0 ELSE n - 0 + 1
          BY <5>1, FS_Interval
        <5> QED BY <5>1, <5>2
      <4> QED BY <1>9, <1>11, <3>2, <4>1 DEF Compares
    <3> QED BY <3>1, <3>2
  <2>5. Leaves' = 0 /\ ~OBO'
    BY <1>1, <1>9 DEF Leaves, OBO
  <2>6. Spent' = Bill(Above + n + 1, Above, 0, 0, Above, 0, Above + n + 1)
    <3>1. Above + (n + 1) + 0 = Above + n + 1 /\ Above + (n + 1) = Above + n + 1
      BY <1>4, <1>7, <2>3
    <3> QED BY <1>3, <1>4, <1>7, <2>3, <2>4, <2>5, <3>1 DEF Spent, Once
  <2> QED BY <2>1, <2>2, <2>6 DEF Billed, Bounded
<1>17. Alive'
  <2>1. PICK LL \in Nat : LL = L /\ W + W <= LL
    BY <1>1, <1>2, <1>4, Shape
  <2>2. PICK p : p = peak
    OBVIOUS
  <2>3. /\ p.path \in Nat /\ p.comparison \in Nat /\ p.total \in Nat
        /\ p.total <= p.path + p.comparison /\ p.total <= LL /\ p.path = W
    BY <1>1, <1>2, <1>4, <2>1, <2>2 DEF Alive
  <2>4. PICK q : q = Observe(p, W, W)
    OBVIOUS
  <2>5. /\ q.path = W /\ q.path \in Nat /\ q.comparison \in Nat /\ q.total \in Nat
        /\ q.total <= q.path + q.comparison /\ q.total <= LL
    BY <2>1, <2>3, <2>4, Observed
  <2>6. peak' = p \/ peak' = q
    BY <1>9, <2>2, <2>4
  <2> QED BY <1>3, <1>4, <2>1, <2>3, <2>5, <2>6 DEF Alive
<1> QED BY <1>3, <1>12, <1>13, <1>14, <1>15, <1>16, <1>17 DEF Inv

\* Selecting the leaf keeps the invariant: with it the counts are the design's.
LEMMA SelectLeafStep ==
  ASSUME Inv, SelectLeaf
  PROVE  Inv'
<1>1. /\ phase = "leaf" /\ phase' = "returned" /\ depth = tree.depth
      /\ counts' = Plus(counts, Tally(Ops("leaf")))
      /\ Started /\ Started'
      /\ UNCHANGED <<tree, x, strategy, one, leafKind, depth, weights, chosen, branches, peak>>
  BY DEF Inv, Place, SelectLeaf, Done, Started
<1>2. Given /\ Place /\ Idle /\ HasPath /\ Selected /\ Compared /\ Billed /\ Bounded /\ Alive
  BY DEF Inv
<1>3. /\ Given' /\ Level' = Level /\ Width' = Width /\ L' = L /\ Above' = Above
      /\ (Admissible' <=> Admissible)
  <2>1. UNCHANGED <<tree, x, strategy, one, leafKind, depth, weights>>
    BY <1>1
  <2> QED BY <1>2, <2>1, Still
<1>h. \A h : HotAt(h)' <=> HotAt(h)
  BY <1>1 DEF HotAt, Level, Width
<1>4. Place'
  BY <1>1, <1>2 DEF Place
<1>5. Idle' /\ HasPath'
  BY <1>1, <1>2, <1>3, <1>h DEF Idle, HasPath
<1>6. Selected' /\ Compared'
  BY <1>1, <1>2 DEF Selected, Compared
<1>7. Billed' /\ Bounded'
  <2>1. Width \in Nat /\ Width >= 1 /\ depth \in Nat /\ Above = Width - 1 /\ L = Width
    BY <1>1, <1>2, Shape DEF Above
  <2>2. CASE OBO
    <3>1. /\ counts' = Bill(Above + L, 2 * Above, Above + L, 2 * (Above - depth) + (L - 1),
                            Above, depth, 0)
          /\ Fits(counts')
      BY <1>1, <1>2, <2>2, ChargeLeaf DEF OBO
    <3>2. Fits(counts)'
      BY <1>1, <3>1 DEF Fits, DesignCounts, L, OBO
    <3>3. Spent' = Bill(Above + L, 2 * Above, Above + L, 2 * (Above - depth) + (L - 1),
                        Above, depth, 0)
      BY <1>1, <1>3, <2>1, <2>2 DEF Spent, OBO, Features, Thresholds, Leaves, Once
    <3> QED BY <3>1, <3>2, <3>3 DEF Billed, Bounded
  <2>3. CASE ~OBO
    <3>0. strategy = "FullLevel"
      BY <1>2, <2>3 DEF Given, OBO
    <3>1. /\ counts' = Bill(Above + L, Above, L, L - 1, Above, 0, Above)
          /\ Fits(counts')
      BY <1>1, <1>2, <3>0, ChargeLeafFull
    <3>2. Fits(counts)'
      BY <1>1, <3>1 DEF Fits, DesignCounts, L, OBO
    <3>3. Spent' = Bill(Above + L, Above, L, L - 1, Above, 0, Above)
      BY <1>1, <1>3, <2>1, <2>3 DEF Spent, OBO, Compares, Leaves, Once
    <3> QED BY <3>1, <3>2, <3>3 DEF Billed, Bounded
  <2> QED BY <2>2, <2>3
<1>8. Alive'
  BY <1>1, <1>2, <1>3 DEF Alive
<1> QED BY <1>3, <1>4, <1>5, <1>6, <1>7, <1>8 DEF Inv

\* What any helper calls is within the design.
LEMMA ChargeAny ==
  ASSUME Given, Place, Compared, Billed,
         phase \notin {"validate", "rejected", "returned", "failed"}
  PROVE  /\ Fits(Plus(counts, Tally(Ops(phase))))
         /\ \E N \in Nat : Ops(phase) \in [1..N -> OpKinds]
<1>1. phase \in {"feature", "threshold", "compare", "update", "leaf"}
  BY DEF Place
<1>2. strategy \in {"OBO", "FullLevel"}
  BY DEF Given
<1>3. PICK W \in Nat : W = Width /\ W >= 1
  BY Shape
<1>4. Fits(Plus(counts, Tally(Ops(phase))))
  <2>1. CASE phase = "feature"
    <3>1. strategy = "OBO"
      BY <2>1 DEF Place
    <3>2. Fits(Plus(counts, Tally(Ops("feature"))))
      BY <2>1, <3>1, ChargeFeature
    <3> QED BY <2>1, <3>2
  <2>2. CASE phase = "threshold"
    <3>1. strategy = "OBO"
      BY <2>2 DEF Place
    <3>2. Fits(Plus(counts, Tally(Ops("threshold"))))
      BY <2>2, <3>1, ChargeThreshold
    <3> QED BY <2>2, <3>2
  <2>3. CASE phase = "compare"
    <3>1. Fits(Plus(counts, Tally(Ops("compare"))))
      <4>1. CASE strategy = "OBO"
        BY <2>3, <4>1, ChargeCompare
      <4>2. CASE strategy = "FullLevel"
        BY <2>3, <4>2, ChargeNode
      <4> QED BY <1>2, <4>1, <4>2
    <3> QED BY <2>3, <3>1
  <2>4. CASE phase = "update"
    <3>1. Fits(Plus(counts, Tally(Ops("update"))))
      <4>1. CASE strategy = "OBO"
        BY <2>4, <4>1, ChargeUpdate
      <4>2. CASE strategy = "FullLevel"
        BY <2>4, <4>2, ChargeUpdateFull
      <4> QED BY <1>2, <4>1, <4>2
    <3> QED BY <2>4, <3>1
  <2>5. CASE phase = "leaf"
    <3>1. Fits(Plus(counts, Tally(Ops("leaf"))))
      <4>1. CASE strategy = "OBO"
        BY <2>5, <4>1, ChargeLeaf
      <4>2. CASE strategy = "FullLevel"
        BY <2>5, <4>2, ChargeLeafFull
      <4> QED BY <1>2, <4>1, <4>2
    <3> QED BY <2>5, <3>1
  <2> QED BY <1>1, <2>1, <2>2, <2>3, <2>4, <2>5
<1>5. \E N \in Nat : Ops(phase) \in [1..N -> OpKinds]
  <2>1. CASE phase = "feature"
    <3>1. 2 * W - 1 \in Nat
      BY <1>3
    <3>2. Ops(phase) \in [1 .. 2 * W - 1 -> OpKinds]
      BY <1>3, <2>1, FeatureBill DEF Ops, SelectionOps
    <3> QED BY <3>1, <3>2
  <2>2. CASE phase \in {"threshold", "leaf"}
    <3>1. 3 * W - 1 \in Nat
      BY <1>3
    <3>2. Ops(phase) \in [1 .. 3 * W - 1 -> OpKinds]
      BY <1>3, <2>2, PublicBill DEF Ops, SelectionOps
    <3> QED BY <3>1, <3>2
  <2>3. CASE phase = "compare"
    <3>1. Ops(phase) \in [1..1 -> OpKinds] \/ Ops(phase) \in [1..2 -> OpKinds]
      BY <2>3, CompareBill DEF Ops
    <3> QED BY <3>1
  <2>4. CASE phase = "update"
    <3>1. 2 * W \in Nat /\ Ops(phase) \in [1 .. 2 * W -> OpKinds]
      BY <1>3, <2>4, UpdateBill DEF Ops
    <3> QED BY <3>1
  <2> QED BY <1>1, <2>1, <2>2, <2>3, <2>4
<1> QED BY <1>4, <1>5

\* The counts of the design are numbers.
LEMMA DesignNumbers ==
  ASSUME Given, Place
  PROVE  \A k \in OpKinds : DesignCounts[k] \in Int
<1>1. L \in Int /\ tree.depth \in Int
  BY Shape
<1>2. PICK l \in Int : l = L
  BY <1>1
<1>3. PICK d \in Int : d = tree.depth
  BY <1>1
<1>4. /\ DesignCounts["PublicConstant"] = 2 * l - 1
      /\ DesignCounts["CTCTMul"] = IF OBO THEN 2 * (l - 1) ELSE l - 1
      /\ DesignCounts["CTPublicMul"] = IF OBO THEN 2 * l - 1 ELSE l
      /\ DesignCounts["Add"] = IF OBO THEN 3 * l - 3 - 2 * d ELSE l - 1
      /\ DesignCounts["Sub"] = l - 1
      /\ DesignCounts["CTCTCompare"] = IF OBO THEN d ELSE 0
      /\ DesignCounts["CTPublicCompare"] = IF OBO THEN 0 ELSE l - 1
  BY <1>2, <1>3 DEF DesignCounts, OpKinds
<1> QED BY <1>4 DEF OpKinds

\* A failure in the middle of any helper keeps the invariant: what the helper had
\* called until then is part of what it would have called.
LEMMA BackendFailsStep ==
  ASSUME Inv, BackendFails
  PROVE  Inv'
<1>1. /\ phase \notin {"validate", "rejected", "returned", "failed"} /\ phase' = "failed"
      /\ Started /\ Started'
      /\ UNCHANGED <<tree, x, strategy, one, leafKind, depth, weights, chosen, branches,
                     peak, result>>
  BY DEF BackendFails, Started
<1>2. Given /\ Place /\ Idle /\ HasPath /\ Selected /\ Compared /\ Billed /\ Bounded /\ Alive
  BY DEF Inv
<1>3. /\ Given' /\ Level' = Level /\ Width' = Width /\ L' = L
      /\ (Admissible' <=> Admissible)
  <2>1. UNCHANGED <<tree, x, strategy, one, leafKind, depth, weights>>
    BY <1>1
  <2> QED BY <1>2, <2>1, Still
<1>h. \A h : HotAt(h)' <=> HotAt(h)
  BY <1>1 DEF HotAt, Level, Width
<1>4. Place'
  BY <1>1, <1>2 DEF Place
<1>5. Idle' /\ HasPath'
  BY <1>1, <1>2, <1>3, <1>h DEF Idle, HasPath
<1>6. Selected' /\ Compared'
  BY <1>1, <1>2 DEF Selected, Compared
<1>7. Billed'
  BY <1>1 DEF Billed
<1>8. Bounded'
  <2>1. PICK ops : ops = Ops(phase)
    OBVIOUS
  <2>2. PICK N \in Nat : ops \in [1..N -> OpKinds]
    BY <1>1, <1>2, <2>1, ChargeAny
  <2>3. PICK n \in 0 .. Len(ops) : counts' = Plus(counts, Tally(SubSeq(ops, 1, n)))
    BY <2>1 DEF BackendFails
  <2>4. PICK some : some = Tally(SubSeq(ops, 1, n))
    OBVIOUS
  <2>5. PICK all : all = Tally(ops)
    OBVIOUS
  <2>6. /\ all \in [OpKinds -> Nat] /\ some \in [OpKinds -> Nat]
        /\ \A k \in OpKinds : some[k] <= all[k]
    BY <2>2, <2>4, <2>5, PrefixTally
  <2>7. Fits(Plus(counts, all))
    BY <1>1, <1>2, <2>1, <2>5, ChargeAny
  <2>8. counts \in [OpKinds -> Nat]
    BY <1>2 DEF Bounded, Fits
  <2>9. \A k \in OpKinds : DesignCounts[k] \in Int
    BY <1>2, DesignNumbers
  <2>10. counts' \in [OpKinds -> Nat]
    BY <2>3, <2>4, <2>6, <2>8 DEF Plus
  <2>11. ASSUME NEW k \in OpKinds PROVE counts'[k] <= DesignCounts[k]
    <3>1. counts'[k] = counts[k] + some[k] /\ Plus(counts, all)[k] = counts[k] + all[k]
      BY <2>3, <2>4 DEF Plus
    <3>2. Plus(counts, all)[k] <= DesignCounts[k]
      BY <2>7 DEF Fits
    <3>3. counts[k] \in Nat /\ some[k] \in Nat /\ all[k] \in Nat /\ some[k] <= all[k]
            /\ DesignCounts[k] \in Int
      BY <2>6, <2>8, <2>9
    <3> QED BY <3>1, <3>2, <3>3
  <2>12. DesignCounts' = DesignCounts
    BY <1>1 DEF DesignCounts, L, OBO
  <2> QED BY <2>10, <2>11, <2>12 DEF Bounded, Fits
<1>9. Alive'
  BY <1>1, <1>2, <1>3 DEF Alive
<1> QED BY <1>3, <1>4, <1>5, <1>6, <1>7, <1>8, <1>9 DEF Inv

\* validateInputs keeps the invariant: the first weight is the caller's one, at the root.
LEMMA ValidateStep ==
  ASSUME Inv, Validate
  PROVE  Inv'
<1>1. /\ phase = "validate" /\ ~Started
      /\ phase' = IF Admissible THEN LevelBegins(0) ELSE "rejected"
      /\ UNCHANGED <<tree, x, strategy, one, leafKind, depth, chosen, branches, counts, result>>
      /\ Admissible => weights' = [i \in {0} |-> one] /\ peak' = Observe(peak, 1, 0)
      /\ ~Admissible => UNCHANGED <<weights, peak>>
  BY DEF Validate, Started
<1>2. Given /\ Place /\ Idle /\ HasPath /\ Selected /\ Compared /\ Billed /\ Bounded /\ Alive
  BY DEF Inv
<1>3. /\ depth = 0 /\ weights = <<>> /\ branches = <<>>
      /\ chosen = [feature |-> Nothing, threshold |-> Nothing]
      /\ counts = NoCounts /\ peak = [path |-> 0, comparison |-> 0, total |-> 0]
  BY <1>1, <1>2 DEF Idle
<1>4. /\ depth \in Nat /\ tree.depth \in Nat /\ L \in Nat /\ Width = 1 /\ L >= 1
      /\ (tree.depth = 0 => L = 1)
  BY <1>2, <1>3, Shape, PowersOfTwo DEF Width
<1>5. Given' /\ Width' = Width /\ Level' = Level /\ L' = L /\ (Admissible' <=> Admissible)
  BY <1>1, <1>2 DEF Given, Width, Level, L, Admissible, InRange, ThresholdOf
<1>6. /\ phase' \in {"rejected", "leaf", "feature", "compare"}
      /\ phase' = "leaf" => depth = tree.depth
      /\ phase' = "feature" => strategy = "OBO" /\ depth < tree.depth
      /\ phase' = "compare" => strategy = "FullLevel" /\ depth < tree.depth
      /\ phase' = "rejected" <=> ~Admissible
  BY <1>1, <1>2, <1>3, <1>4 DEF LevelBegins, Given
<1>7. Place'
  BY <1>1, <1>2, <1>6 DEF Place
<1>8. Started' <=> Admissible
  BY <1>6 DEF Started
<1>9. Idle'
  BY <1>1, <1>3, <1>8 DEF Idle
<1>10. HasPath'
  <2> SUFFICES ASSUME Admissible PROVE \E h \in Level' : HotAt(h)'
    BY <1>5, <1>8 DEF HasPath
  <2>1. Level = {0}
    BY <1>4 DEF Level
  <2>2. weights' = [i \in {0} |-> one] /\ one = V(one.kind, 1)
    BY <1>1, <1>2, OneKind
  <2>3. HotAt(0)'
    BY <1>1, <1>5, <2>1, <2>2 DEF HotAt
  <2> QED BY <1>5, <2>1, <2>3
<1>11. Selected'
  <2>1. Nothing.kind = "none"
    BY ValueFields DEF Nothing
  <2>2. chosen'.threshold = Nothing
    BY <1>1, <1>3
  <2> QED BY <1>1, <1>2, <1>6, <2>1, <2>2 DEF Selected
<1>12. Compared'
  <2>1. branches' = <<>> /\ DOMAIN branches' = 0 .. 0 - 1
    BY <1>1, <1>3
  <2>2. 0 \in 0 .. Width' - 1
    BY <1>4, <1>5
  <2> QED BY <1>6, <2>1, <2>2 DEF Compared
<1>13. Billed' /\ Bounded'
  <2>1. counts' = Bill(0, 0, 0, 0, 0, 0, 0)
    BY <1>1, <1>3 DEF NoCounts, Bill, OpKinds
  <2>2. Above' = 0 /\ depth' = 0 /\ Leaves' = 0
          /\ (OBO' => Features' = 0 /\ Thresholds' = 0)
    <3>1. Above' = 0 /\ depth' = 0
      BY <1>1, <1>3, <1>4, <1>5 DEF Above
    <3>2. Leaves' = 0 /\ (OBO' => Features' = 0 /\ Thresholds' = 0)
      BY <1>1, <1>6 DEF Leaves, Features, Thresholds, OBO
    <3> QED BY <3>1, <3>2
  <2>3. Compares' = 0
    <3>1. DOMAIN branches' = {}
      BY <1>1, <1>3
    <3> QED BY <1>6, <3>1, FS_EmptySet DEF Compares
  <2>4. phase' # "update"
    BY <1>6
  <2>5. Spent' = Bill(0, 0, 0, 0, 0, 0, 0)
    BY <2>2, <2>3, <2>4 DEF Spent, Once
  <2>6. Bounded'
    BY <1>1, <1>2 DEF Bounded, Fits, DesignCounts, L, OBO
  <2> QED BY <2>1, <2>5, <2>6 DEF Billed
<1>14. Alive'
  <2>1. CASE Admissible
    <3>1. PICK LL \in Nat : LL = L /\ 1 + 0 <= LL
      BY <1>4
    <3>2. PICK p : p = peak
      OBVIOUS
    <3>3. /\ p.path \in Nat /\ p.comparison \in Nat /\ p.total \in Nat
          /\ p.total <= p.path + p.comparison /\ p.total <= LL /\ p.path <= 1
      BY <1>3, <3>1, <3>2
    <3>4. PICK q : q = Observe(p, 1, 0)
      OBVIOUS
    <3>5. /\ q.path = 1 /\ q.path \in Nat /\ q.comparison \in Nat /\ q.total \in Nat
          /\ q.total <= q.path + q.comparison /\ q.total <= LL
      BY <3>1, <3>3, <3>4, Observed
    <3>6. peak' = q
      BY <1>1, <2>1, <3>2, <3>4
    <3> QED BY <1>4, <1>5, <3>1, <3>5, <3>6 DEF Alive
  <2>2. CASE ~Admissible
    BY <1>1, <1>2, <1>5, <1>8, <2>2 DEF Alive
  <2> QED BY <2>1, <2>2
<1> QED BY <1>5, <1>7, <1>9, <1>10, <1>11, <1>12, <1>13, <1>14 DEF Inv

\* The hot weight goes where the plain walk goes.
LEMMA HotMoves ==
  ASSUME Inv, UpdateWeights, NEW h \in Level, HotAt(h), NEW c, c = Goes(Split(h))
  PROVE  /\ Width' = 2 * Width /\ c \in {0, 1}
         /\ 2 * h + c \in Level' /\ HotAt(2 * h + c)'
<1>1. /\ phase = "update" /\ depth' = depth + 1 /\ depth < tree.depth
      /\ weights' = Updated(weights, branches) /\ UNCHANGED one
  BY DEF Inv, Place, UpdateWeights, Done
<1>2. Given /\ Place /\ Compared
  BY DEF Inv
<1>3. PICK W \in Nat : W = Width /\ 2^(depth + 1) = 2 * W /\ Level = 0 .. W - 1
  BY <1>1, <1>2, Shape DEF Level
<1>4. Width' = 2 * W /\ Level' = 0 .. 2 * W - 1
  BY <1>1, <1>3 DEF Width, Level
<1>5. PICK k \in {"real", ScalarKind} : k = one.kind
  BY <1>2, OneKind
<1>6. c \in {0, 1}
  BY DEF Goes
<1>7. PICK w : w = weights
  OBVIOUS
<1>8. PICK b : b = branches
  OBVIOUS
<1>9. h \in 0 .. W - 1 /\ IsUnit(w, W, h, k, 1)
  BY <1>3, <1>5, <1>7 DEF HotAt, IsUnit
<1>10. AreBits(b, W) /\ b[h] = V("real", c)
  BY <1>1, <1>2, <1>3, <1>8 DEF Compared, AreBits
<1>11. Updated(w, b) = [j \in 0 .. 2 * W - 1 |-> V(k, IF j = 2 * h + c THEN 1 ELSE 0)]
  BY <1>3, <1>6, <1>9, <1>10, UpdatedHot
<1>13. 2 * h + c \in Level'
  BY <1>4, <1>6, <1>9
<1>14. HotAt(2 * h + c)'
  BY <1>1, <1>4, <1>5, <1>7, <1>8, <1>11, <1>13 DEF HotAt
<1> QED BY <1>3, <1>4, <1>6, <1>13, <1>14

\* No two weights are hot.
LEMMA OneIsHot ==
  ASSUME NEW g \in Level, HotAt(g), NEW h \in Level, HotAt(h)
  PROVE  g = h
<1>1. weights[g] = V(one.kind, 1) /\ weights[g] = V(one.kind, IF g = h THEN 1 ELSE 0)
  BY DEF HotAt
<1> QED BY <1>1, ValueFields DEF V

\* Refining the weights keeps the invariant: the hot one moves with the plain walk and
\* the next level starts.
LEMMA UpdateWeightsStep ==
  ASSUME Inv, UpdateWeights
  PROVE  Inv'
<1>1. /\ phase = "update" /\ phase' = LevelBegins(depth + 1) /\ depth' = depth + 1
      /\ depth < tree.depth
      /\ counts' = Plus(counts, Tally(Ops("update")))
      /\ peak' = Observe(peak, 2 * Width, 0)
      /\ branches' = <<>> /\ chosen' = [feature |-> Nothing, threshold |-> Nothing]
      /\ Started
      /\ UNCHANGED <<tree, x, strategy, one, leafKind, result>>
  BY DEF Inv, Place, UpdateWeights, Done, Started
<1>2. Given /\ Place /\ Idle /\ HasPath /\ Selected /\ Compared /\ Billed /\ Bounded /\ Alive
  BY DEF Inv
<1>3. PICK h \in Level : HotAt(h)
  BY <1>1, <1>2 DEF HasPath
<1>4. /\ Width' = 2 * Width
      /\ \E g \in Level' : HotAt(g)'
  <2>1. PICK c : c = Goes(Split(h))
    OBVIOUS
  <2> QED BY <1>3, <2>1, HotMoves
<1>5. Given' /\ L' = L /\ (Admissible' <=> Admissible) /\ (OBO' <=> OBO)
  BY <1>1, <1>2 DEF Given, L, Admissible, InRange, ThresholdOf, OBO
<1>6. /\ depth \in Nat /\ tree.depth \in Nat /\ Width \in Nat /\ L \in Nat
      /\ Width >= depth + 1 /\ 2 * Width <= L
  BY <1>1, <1>2, Shape
<1>7. /\ phase' \in {"leaf", "feature", "compare"}
      /\ phase' = "leaf" => depth' = tree.depth
      /\ phase' = "feature" => strategy = "OBO" /\ depth' < tree.depth
      /\ phase' = "compare" => strategy = "FullLevel" /\ depth' < tree.depth
  BY <1>1, <1>2, <1>6 DEF LevelBegins, Given
<1>8. Place'
  BY <1>1, <1>6, <1>7 DEF Place
<1>9. Started' /\ Idle' /\ HasPath'
  BY <1>1, <1>2, <1>4, <1>5, <1>7 DEF Idle, HasPath, Started
<1>10. Selected'
  <2>1. Nothing.kind = "none"
    BY ValueFields DEF Nothing
  <2>2. chosen'.threshold = Nothing
    BY <1>1
  <2> QED BY <1>1, <1>7, <2>1, <2>2 DEF Selected
<1>11. Compared'
  <2>1. branches' = <<>> /\ DOMAIN branches' = 0 .. 0 - 1
    BY <1>1
  <2>2. 0 \in 0 .. Width' - 1
    BY <1>4, <1>6
  <2> QED BY <1>7, <2>1, <2>2 DEF Compared
<1>12. Billed' /\ Bounded'
  <2>1. Above = Width - 1 /\ Above' = 2 * Width - 1 /\ depth' = depth + 1 /\ Leaves' = 0
    BY <1>1, <1>4, <1>7 DEF Above, Leaves
  <2>2. CASE OBO
    <3>1. /\ counts' = Bill(Above + Width, 2 * (Above + Width), Above + Width,
                            2 * (Above - depth) + 2 * (Width - 1), Above + Width, depth + 1, 0)
          /\ Fits(counts')
      BY <1>1, <1>2, <2>2, ChargeUpdate DEF OBO
    <3>2. Fits(counts)'
      BY <1>1, <3>1 DEF Fits, DesignCounts, L, OBO
    <3>3. Features' = 0 /\ Thresholds' = 0 /\ phase' # "update" /\ OBO'
      BY <1>1, <1>5, <1>7, <2>2 DEF Features, Thresholds, OBO
    <3>4. Spent' = Bill(2 * Width - 1, 2 * (2 * Width - 1), 2 * Width - 1,
                        2 * ((2 * Width - 1) - (depth + 1)), 2 * Width - 1, depth + 1, 0)
      BY <1>6, <2>1, <3>3 DEF Spent, Once
    <3>5. /\ Above + Width = 2 * Width - 1
          /\ 2 * (Above - depth) + 2 * (Width - 1) = 2 * ((2 * Width - 1) - (depth + 1))
      BY <1>6, <2>1
    <3> QED BY <3>1, <3>2, <3>4, <3>5 DEF Billed, Bounded
  <2>3. CASE ~OBO
    <3>1. strategy = "FullLevel"
      BY <1>2, <2>3 DEF Given, OBO
    <3>2. /\ counts' = Bill(Above + Width, Above + Width, 0, 0, Above + Width, 0, Above + Width)
          /\ Fits(counts')
      BY <1>1, <1>2, <3>1, ChargeUpdateFull
    <3>3. Fits(counts)'
      BY <1>1, <3>2 DEF Fits, DesignCounts, L, OBO
    <3>4. Compares' = 0
      <4>1. DOMAIN branches' = {}
        BY <1>1
      <4> QED BY <1>7, <4>1, FS_EmptySet DEF Compares
    <3>5. Spent' = Bill(2 * Width - 1, 2 * Width - 1, 0, 0, 2 * Width - 1, 0, 2 * Width - 1)
      BY <1>5, <1>6, <2>1, <2>3, <3>4 DEF Spent, Once
    <3>6. Above + Width = 2 * Width - 1
      BY <1>6, <2>1
    <3> QED BY <3>2, <3>3, <3>5, <3>6 DEF Billed, Bounded
  <2> QED BY <2>2, <2>3
<1>13. Alive'
  <2>1. PICK W \in Nat : W = Width
    BY <1>6
  <2>2. PICK LL \in Nat : LL = L /\ 2 * W + 0 <= LL
    BY <1>6, <2>1
  <2>3. PICK p : p = peak
    OBVIOUS
  <2>4. 2 * W \in Nat /\ 0 \in Nat /\ p.path <= 2 * W
          /\ p.path \in Nat /\ p.comparison \in Nat /\ p.total \in Nat
          /\ p.total <= p.path + p.comparison /\ p.total <= LL
    BY <1>1, <1>2, <2>1, <2>2, <2>3 DEF Alive
  <2>5. PICK q : q = Observe(p, 2 * W, 0)
    OBVIOUS
  <2>6. /\ q.path = 2 * W /\ q.path \in Nat /\ q.comparison \in Nat /\ q.total \in Nat
        /\ q.total <= q.path + q.comparison /\ q.total <= LL
    BY <2>2, <2>4, <2>5, Observed
  <2>7. peak' = q
    BY <1>1, <2>1, <2>3, <2>5
  <2> QED BY <1>4, <1>5, <2>1, <2>2, <2>6, <2>7 DEF Alive
<1> QED BY <1>5, <1>8, <1>9, <1>10, <1>11, <1>12, <1>13 DEF Inv

\* What leaves the evaluation alone keeps the invariant.
LEMMA StutterStep ==
  ASSUME Inv, UNCHANGED vars
  PROVE  Inv'
<1>1. /\ UNCHANGED <<tree, x, strategy, one, leafKind, depth, weights>>
      /\ UNCHANGED <<chosen, branches, counts, peak, phase, result>>
  BY DEF vars
<1>2. Given /\ Place /\ Idle /\ HasPath /\ Selected /\ Compared /\ Billed /\ Bounded /\ Alive
  BY DEF Inv
<1>3. /\ Given' /\ Level' = Level /\ Width' = Width /\ L' = L /\ Above' = Above
      /\ (Admissible' <=> Admissible) /\ (OBO' <=> OBO)
  BY <1>1, <1>2, Still
<1>h. \A h : /\ HotAt(h)' <=> HotAt(h)
             /\ FeatureOf(Split(h))' = FeatureOf(Split(h)) /\ Split(h)' = Split(h)
             /\ Goes(Split(h))' = Goes(Split(h))
  BY <1>1 DEF HotAt, Level, Width, FeatureOf, Split, Goes
<1>4. Place' /\ (Started' <=> Started)
  BY <1>1, <1>2 DEF Place, Started
<1>5. Idle' /\ HasPath'
  BY <1>1, <1>2, <1>3, <1>4, <1>h DEF Idle, HasPath
<1>6. Selected'
  BY <1>1, <1>2, <1>3, <1>4, <1>h DEF Selected
<1>7. Compared'
  BY <1>1, <1>2, <1>3, <1>h DEF Compared
<1>8. Billed'
  BY <1>1, <1>2, <1>3 DEF Billed, Spent, Features, Thresholds, Compares, Leaves
<1>9. Bounded'
  BY <1>1, <1>2 DEF Bounded, Fits, DesignCounts, L, OBO
<1>10. Alive'
  BY <1>1, <1>2, <1>3, <1>4 DEF Alive
<1> QED BY <1>3, <1>4, <1>5, <1>6, <1>7, <1>8, <1>9, <1>10 DEF Inv

\* Every reachable state of an evaluation has one hot weight, the selections and
\* branches of its node, and the bill and peaks of the design (evaluateOBO and
\* evaluateFullLevel, evaluator.go).
THEOREM OneHotInvariant == Spec => []Inv
<1>1. Init => Inv
  BY InitInv
<1>2. Inv /\ [Next]_vars => Inv'
  <2> SUFFICES ASSUME Inv, [Next]_vars PROVE Inv'
    OBVIOUS
  <2>1. CASE Validate
    BY <2>1, ValidateStep
  <2>2. CASE SelectFeature
    BY <2>2, SelectFeatureStep
  <2>3. CASE SelectThreshold
    BY <2>3, SelectThresholdStep
  <2>4. CASE CompareSelected
    BY <2>4, CompareSelectedStep
  <2>5. CASE CompareNode
    BY <2>5, CompareNodeStep
  <2>6. CASE UpdateWeights
    BY <2>6, UpdateWeightsStep
  <2>7. CASE SelectLeaf
    BY <2>7, SelectLeafStep
  <2>8. CASE BackendFails
    BY <2>8, BackendFailsStep
  <2>9. CASE UNCHANGED vars
    BY <2>9, StutterStep
  <2> QED BY <2>1, <2>2, <2>3, <2>4, <2>5, <2>6, <2>7, <2>8, <2>9 DEF Next
<1> QED BY <1>1, <1>2, PTL DEF Spec

-----------------------------------------------------------------------------
\* What the invariant says of the path.

AreHot(w, W, h, k) == w = [i \in 0 .. W - 1 |-> V(k, IF i = h THEN 1 ELSE 0)]

\* The index of the one in one-hot weights.
LEMMA HotWeights ==
  ASSUME NEW W \in Nat, NEW h \in 0 .. W - 1, NEW k, NEW w, AreHot(w, W, h, k)
  PROVE  /\ w # <<>>
         /\ {i \in DOMAIN w : w[i].n = 1} = {h}
         /\ (CHOOSE i \in DOMAIN w : w[i].n = 1) = h
         /\ \A i \in DOMAIN w : /\ w[i].kind = k /\ w[i].provenance = "opaque"
                                /\ w[i].n = 0 \/ w[i].n = 1
<1>1. \A i \in 0 .. W - 1 : /\ w[i].n = (IF i = h THEN 1 ELSE 0)
                            /\ w[i].kind = k /\ w[i].provenance = "opaque"
  BY ValueFields DEF V, AreHot
<1>2. DOMAIN w = 0 .. W - 1
  BY DEF AreHot
<1>n. \A i \in DOMAIN w : w[i].n = 1 <=> i = h
  BY <1>1, <1>2
<1>3. w # <<>>
  BY <1>2
<1>4. {i \in DOMAIN w : w[i].n = 1} = {h}
  BY <1>2, <1>n
<1>5. (CHOOSE i \in DOMAIN w : w[i].n = 1) = h
  BY <1>2, <1>n
<1> QED BY <1>1, <1>2, <1>3, <1>4, <1>5

\* The hot weight of a state is the only one that is one, and all are opaque.
LEMMA HotFacts ==
  ASSUME Given, Place, NEW h \in Level, HotAt(h)
  PROVE  /\ Hot = h /\ weights # <<>>
         /\ {i \in DOMAIN weights : weights[i].n = 1} = {h}
         /\ \A i \in DOMAIN weights :
              /\ weights[i].kind = one.kind /\ weights[i].provenance = "opaque"
              /\ weights[i].n = 0 \/ weights[i].n = 1
<1>1. PICK W \in Nat : W = Width /\ Level = 0 .. W - 1
  BY Shape DEF Level
<1>2. PICK k : k = one.kind
  OBVIOUS
<1>3. PICK w : w = weights
  OBVIOUS
<1>4. h \in 0 .. W - 1 /\ AreHot(w, W, h, k)
  BY <1>1, <1>2, <1>3 DEF HotAt, AreHot
<1>5. /\ w # <<>>
      /\ {i \in DOMAIN w : w[i].n = 1} = {h}
      /\ (CHOOSE i \in DOMAIN w : w[i].n = 1) = h
      /\ \A i \in DOMAIN w : /\ w[i].kind = k /\ w[i].provenance = "opaque"
                             /\ w[i].n = 0 \/ w[i].n = 1
  BY <1>4, HotWeights
<1>6. Hot = h
  BY <1>3, <1>5 DEF Hot
<1> QED BY <1>2, <1>3, <1>5, <1>6

\* The invariant is stronger than what it is for.
LEMMA InvHidesPath == Inv => PathIsHidden
<1> SUFFICES ASSUME Inv PROVE PathIsHidden
  OBVIOUS
<1>1. Given /\ Place /\ Idle /\ HasPath /\ Selected /\ Compared /\ Billed /\ Bounded /\ Alive
  BY DEF Inv
<1>2. ~Started => weights = <<>> /\ counts = NoCounts
  BY <1>1 DEF Idle
<1>3. OneHot
  <2> SUFFICES ASSUME weights # <<>>
               PROVE  /\ \A i \in DOMAIN weights : Decoded(weights[i]) = 0 \/ weights[i].n = 1
                      /\ Cardinality({i \in DOMAIN weights : weights[i].n = 1}) = 1
    BY DEF OneHot
  <2>1. PICK h \in Level : HotAt(h)
    BY <1>1, <1>2 DEF HasPath
  <2>2. /\ {i \in DOMAIN weights : weights[i].n = 1} = {h}
        /\ \A i \in DOMAIN weights : weights[i].n = 0 \/ weights[i].n = 1
    BY <1>1, <2>1, HotFacts
  <2>3. ASSUME NEW i \in DOMAIN weights, weights[i].n = 0 PROVE Decoded(weights[i]) = 0
    <3>1. ~(0 >= Modulus \div 2)
      BY ModulusFacts
    <3> QED BY <2>3, <3>1 DEF Decoded
  <2>4. Cardinality({h}) = 1
    BY FS_Singleton
  <2> QED BY <2>2, <2>3, <2>4
<1>4. NothingRevealed
  <2>1. \A i \in DOMAIN weights : weights[i].provenance = "opaque"
    <3>1. CASE Started
      <4>1. PICK h \in Level : HotAt(h)
        BY <1>1, <3>1 DEF HasPath
      <4> QED BY <1>1, <4>1, HotFacts
    <3>2. CASE ~Started
      BY <1>2, <3>2
    <3> QED BY <3>1, <3>2
  <2> QED BY <1>1, <2>1 DEF NothingRevealed, Selected, Compared
<1>5. CountsOfDesign
  <2>1. \A k \in OpKinds : counts[k] <= DesignCounts[k]
    BY <1>1 DEF Bounded, Fits
  <2>2. ASSUME phase = "returned" PROVE counts = DesignCounts
    <3>1. counts = Spent
      BY <1>1, <2>2 DEF Billed
    <3>2. /\ depth = tree.depth /\ Width = L /\ Above = L - 1 /\ Leaves = L
          /\ depth \in Nat /\ L \in Nat /\ L >= depth + 1
      BY <1>1, <2>2, Shape DEF Place, Above, Leaves
    <3>3. CASE OBO
      <4>1. Spent = Bill(2 * L - 1, 2 * (L - 1), 2 * L - 1, 3 * L - 3 - 2 * tree.depth, L - 1,
                         tree.depth, 0)
        <5>1. Features = 0 /\ Thresholds = 0 /\ Once(L) = 1 /\ Once(0) = 0 /\ phase # "update"
          BY <2>2, <3>2 DEF Features, Thresholds, Once
        <5>2. Spent = Bill((L - 1) + 0 + L, 2 * (L - 1) + 0, (L - 1) + 0 + L,
                           2 * ((L - 1) - depth) + (0 - 0) + (0 - 0) + (L - 1), L - 1, depth + 0, 0)
          BY <3>2, <3>3, <5>1 DEF Spent
        <5>3. /\ (L - 1) + 0 + L = 2 * L - 1 /\ 2 * (L - 1) + 0 = 2 * (L - 1)
              /\ 2 * ((L - 1) - depth) + (0 - 0) + (0 - 0) + (L - 1) = 3 * L - 3 - 2 * tree.depth
              /\ depth + 0 = tree.depth
          BY <3>2
        <5> QED BY <5>2, <5>3
      <4> QED BY <3>1, <3>3, <4>1 DEF DesignCounts, Bill, OpKinds
    <3>4. CASE ~OBO
      <4>1. Spent = Bill(2 * L - 1, L - 1, L, L - 1, L - 1, 0, L - 1)
        BY <2>2, <3>2, <3>4 DEF Spent, Compares, Once
      <4> QED BY <3>1, <3>4, <4>1 DEF DesignCounts, Bill, OpKinds
    <3> QED BY <3>3, <3>4
  <2> QED BY <2>1, <2>2 DEF CountsOfDesign
<1>6. PeakIsLeaves
  <2>1. ASSUME phase = "returned" PROVE peak.path = L
    BY <1>1, <2>1, Shape DEF Place, Alive, Started
  <2> QED BY <1>1, <2>1 DEF PeakIsLeaves, Alive
<1> QED BY <1>3, <1>4, <1>5, <1>6 DEF PathIsHidden

\* Nothing of the path shows: in every state of every evaluation, failed ones too,
\* exactly one weight is one and the others zero, every weight, branch and selection
\* is opaque, and operation counts and peaks are those the design document states
\* for the number of leaves, the same on every path (plain.go:118, evaluator.go:81,
\* engine.go:111).
THEOREM PathStaysHidden == Spec => []PathIsHidden
BY OneHotInvariant, InvHidesPath, PTL

\* The variables have their types: a weight for each node of the level, all of the
\* kind of the caller's one.
THEOREM OneHotTypeCorrect == Spec => []TypeOK
<1>1. Inv => TypeOK
  <2> SUFFICES ASSUME Inv PROVE TypeOK
    OBVIOUS
  <2>1. Given /\ Place /\ Idle /\ HasPath /\ Bounded /\ Alive
    BY DEF Inv
  <2>2. ASSUME Started
        PROVE  DOMAIN weights = Level /\ \A i \in DOMAIN weights : weights[i].kind = one.kind
    <3>1. PICK h \in Level : HotAt(h)
      BY <2>1, <2>2 DEF HasPath
    <3>2. DOMAIN weights = Level
      BY <3>1 DEF HotAt
    <3> QED BY <2>1, <3>1, <3>2, HotFacts
  <2>3. ~Started => DOMAIN weights = {}
    BY <2>1 DEF Idle
  <2> QED BY <2>1, <2>2, <2>3 DEF TypeOK, Place, Started, Bounded, Fits, Alive
<1> QED BY <1>1, OneHotInvariant, PTL

-----------------------------------------------------------------------------
\* The refinement of the plain walk.

\* Where the walk is, once its weights are there.
LEMMA HotNext ==
  ASSUME Inv', NEW h, HotAt(h)'
  PROVE  Hot' = h
<1>1. Given' /\ Place' /\ h \in Level'
  BY DEF Inv, HotAt
<1>2. tree'.depth \in 0..MaxDepth /\ depth' \in 0..tree'.depth
  BY <1>1, TreeFacts DEF Given, Place
<1>3. PICK d \in Nat : d = depth' /\ d <= MaxDepth + 1
  BY <1>2, OneHotAssumption
<1>4. PICK W \in Nat : W = 2^d
  BY <1>3, Powers
<1>5. Level' = 0 .. W - 1
  BY <1>3, <1>4 DEF Level, Width
<1>6. PICK k : k = one'.kind
  OBVIOUS
<1>7. PICK w : w = weights'
  OBVIOUS
<1>8. h \in 0 .. W - 1 /\ AreHot(w, W, h, k)
  BY <1>1, <1>5, <1>6, <1>7 DEF HotAt, AreHot
<1>9. w # <<>> /\ (CHOOSE i \in DOMAIN w : w[i].n = 1) = h
  BY <1>8, HotWeights
<1> QED BY <1>7, <1>9 DEF Hot

\* An evaluation that has not begun is the plain walk at the root.
LEMMA InitRoutes == Init => Route!Init
<1> SUFFICES ASSUME Init PROVE Route!Init
  OBVIOUS
<1>1. tree \in Route!Trees
  BY DEF Init, Trees, Splits, Route!Trees, Route!TreesOfDepth, Route!Splits
<1>2. depth = 0 /\ Hot = 0 /\ 2^depth - 1 + Hot = 0
  <2>1. depth = 0 /\ weights = <<>>
    BY DEF Init
  <2> QED BY <2>1, PowersOfTwo DEF Hot
<1>3. Decoded(result) = 0
  <2>1. result = Nothing
    BY DEF Init
  <2>2. Nothing.kind = "none" /\ Nothing.n = 0
    BY ValueFields DEF Nothing
  <2> QED BY <2>1, <2>2 DEF Decoded
<1> QED BY <1>1, <1>2, <1>3 DEF Init, Route!Init

\* A step that leaves tree, input, weights, depth and result alone and does not
\* return is none of the walk.
LEMMA RouteStutters ==
  ASSUME UNCHANGED <<tree, x, depth, weights, result>>, phase # "returned", phase' # "returned"
  PROVE  UNCHANGED Route!routeVars
BY DEF Hot, Decoded, Route!routeVars

\* Validation is no step of the walk: the caller's one marks the root.
LEMMA ValidateRoutes ==
  ASSUME Inv, Inv', Validate
  PROVE  UNCHANGED Route!routeVars
<1>1. /\ phase = "validate" /\ weights = <<>> /\ depth = 0
      /\ UNCHANGED <<tree, x, depth, result, one>>
      /\ phase' # "returned"
  BY DEF Inv, Idle, Started, Validate, LevelBegins
<1>2. Hot = 0
  BY <1>1 DEF Hot
<1>3. Hot' = 0
  <2>1. CASE Admissible
    <3>1. one = V(one.kind, 1)
      BY OneKind DEF Inv
    <3>2. weights' = [i \in {0} |-> one]
      BY <2>1 DEF Validate
    <3>3. Level' = {0}
      BY <1>1, PowersOfTwo DEF Level, Width
    <3>4. HotAt(0)'
      BY <1>1, <3>1, <3>2, <3>3 DEF HotAt
    <3> QED BY <3>4, HotNext
  <2>2. CASE ~Admissible
    BY <1>1, <2>2 DEF Validate, Hot
  <2> QED BY <2>1, <2>2
<1> QED BY <1>1, <1>2, <1>3 DEF Route!routeVars, Decoded

\* Refining the weights is one step of the plain walk down the tree.
LEMMA UpdateRoutes ==
  ASSUME Inv, Inv', UpdateWeights
  PROVE  Route!Descend
<1>1. /\ phase = "update" /\ phase' # "returned" /\ depth < tree.depth /\ depth' = depth + 1
      /\ UNCHANGED <<tree, x, result>>
  BY DEF Inv, Place, UpdateWeights, Done, LevelBegins
<1>2. Given /\ Place /\ HasPath /\ Admissible /\ Started
  BY <1>1 DEF Inv, HasPath, Started
<1>3. PICK h \in Level : HotAt(h)
  BY <1>2 DEF HasPath
<1>4. PICK W \in Nat : W = Width /\ W >= 1 /\ 2^(depth + 1) = 2 * W /\ Level = 0 .. W - 1
  BY <1>1, <1>2, Shape DEF Level
<1>5. PICK c : c = Goes(Split(h))
  OBVIOUS
<1>6. c \in {0, 1} /\ HotAt(2 * h + c)'
  BY <1>3, <1>5, HotMoves
<1>7. Hot = h /\ Hot' = 2 * h + c
  <2>1. PICK g : g = 2 * h + c
    OBVIOUS
  <2>2. Hot' = g
    BY <1>6, <2>1, HotNext
  <2> QED BY <1>2, <1>3, <2>1, <2>2, HotFacts
<1>8. PICK s : s = Split(h)
  OBVIOUS
<1>9. s = tree.splits[2^depth - 1 + Hot]
  BY <1>7, <1>8 DEF Split, Width
<1>10. Route!HasFeature(s)
  BY <1>1, <1>2, <1>8, SplitFacts DEF Route!HasFeature
<1>11. Route!Branch(s) = c
  <2>1. x[s.feature + 1] \in Int /\ s.threshold \in Int
    BY <1>1, <1>2, <1>8, SplitFacts
  <2> QED BY <1>5, <1>8, <2>1 DEF Route!Branch, Route!Feature, Goes
<1>12. Hot' = Route!Path(Hot, Route!Branch(s))
  BY <1>7, <1>11 DEF Route!Path
<1>13. (2^depth - 1 + Hot)' = Route!Child(2^depth - 1 + Hot, Route!Branch(s))
  <2>1. (2^depth - 1 + Hot)' = 2 * W - 1 + (2 * h + c)
    BY <1>1, <1>4, <1>7
  <2>2. Route!Child(2^depth - 1 + Hot, Route!Branch(s)) = 2 * (W - 1 + h) + 1 + c
    BY <1>4, <1>7, <1>11 DEF Route!Child, Width
  <2>3. h \in Nat
    BY <1>4
  <2> QED BY <1>6, <2>1, <2>2, <2>3
<1>14. Decoded(result)' = Decoded(result)
  BY <1>1 DEF Decoded
<1> QED BY <1>1, <1>9, <1>10, <1>12, <1>13, <1>14 DEF Route!Descend

\* Selecting the leaf is the end of the plain walk, with the leaf's number.
LEMMA LeafRoutes ==
  ASSUME Inv, SelectLeaf
  PROVE  Route!Arrive
<1>1. /\ phase = "leaf" /\ phase' = "returned" /\ depth = tree.depth /\ SelectedLeaf # Bad
      /\ result' = SelectedLeaf /\ UNCHANGED <<tree, x, depth, weights>>
  BY DEF Inv, Place, SelectLeaf, Done
<1>2. Given /\ Place /\ HasPath /\ Started
  BY <1>1 DEF Inv, Started
<1>3. PICK h \in Level : HotAt(h)
  BY <1>2 DEF HasPath
<1>4. Hot = h /\ Hot' = Hot
  <2>1. Hot' = Hot
    BY <1>1 DEF Hot
  <2> QED BY <1>2, <1>3, <2>1, HotFacts
<1>5. Decoded(SelectedLeaf) = tree.leaves[h]
  BY <1>1, <1>2, <1>3, LeafSelected
<1>6. Decoded(result)' = tree.leaves[Hot]
  BY <1>1, <1>4, <1>5 DEF Decoded
<1> QED BY <1>1, <1>4, <1>6 DEF Route!Arrive

\* Both strategies implement the plain walk of the tree (BinaryRoute): each level
\* follows the branch that the features and thresholds give, and the value decoded at
\* the end is the leaf the walk reaches, in integers that wrap around as well.
THEOREM EvaluationRoutes == Spec => ImplementsRoute
<1>1. Init => Route!Init
  BY InitRoutes
<1>2. Inv /\ Inv' /\ [Next]_vars => [Route!Next]_(Route!routeVars)
  <2> SUFFICES ASSUME Inv, Inv', [Next]_vars
               PROVE  Route!Next \/ UNCHANGED Route!routeVars
    OBVIOUS
  <2>1. CASE Validate
    BY <2>1, ValidateRoutes
  <2>2. CASE SelectFeature \/ SelectThreshold \/ CompareSelected \/ CompareNode
    <3>1. UNCHANGED <<tree, x, depth, weights, result>> /\ phase # "returned" /\ phase' # "returned"
      BY <2>2 DEF SelectFeature, SelectThreshold, CompareSelected, CompareNode, Done
    <3> QED BY <3>1, RouteStutters
  <2>3. CASE UpdateWeights
    BY <2>3, UpdateRoutes DEF Route!Next
  <2>4. CASE SelectLeaf
    BY <2>4, LeafRoutes DEF Route!Next
  <2>5. CASE BackendFails
    <3>1. UNCHANGED <<tree, x, depth, weights, result>> /\ phase # "returned" /\ phase' # "returned"
      BY <2>5 DEF BackendFails
    <3> QED BY <3>1, RouteStutters
  <2>6. CASE UNCHANGED vars
    BY <2>6 DEF vars, Hot, Decoded, Route!routeVars
  <2> QED BY <2>1, <2>2, <2>3, <2>4, <2>5, <2>6 DEF Next
<1> QED BY <1>1, <1>2, OneHotInvariant, PTL DEF Spec, ImplementsRoute, Route!Spec
=============================================================================
