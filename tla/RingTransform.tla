---------------------------- MODULE RingTransform ----------------------------
(***************************************************************************)
(* src/lattigo/ring: the number-theoretic transforms of a SubRing, stage   *)
(* by stage, and the maps between and inside the two representations.      *)
(*                                                                         *)
(* A behavior takes one polynomial, may multiply it by a monomial, goes    *)
(* through the stages of Forward, applies an automorphism, and goes back   *)
(* through the stages of Backward.  words are the words of the vector;     *)
(* poly is the polynomial they stand for, kept in plain arithmetic.        *)
(***************************************************************************)
EXTENDS RingArithmetic

CONSTANTS
  SubRings,       \* the SubRings asked for
  Inputs(_),      \* the vectors of words given to one
  Monomials,      \* the exponents of MultByMonomial
  Galois(_)       \* the Galois elements of a SubRing

VARIABLES s, words, poly, phase, m

vars == <<s, words, poly, phase, m>>

-----------------------------------------------------------------------------
\* Behaviors.

\* A SubRing is refused unless the degree and the modulus allow its transform.
Init ==
  /\ s \in SubRings /\ ValidSubRing(s.N, s.modulus, s.nthRoot)
  /\ CheckPrimitiveRoot(PrimitiveRoot(s.modulus), s.modulus, PrimeFactors(s.modulus - 1))
  /\ words \in Inputs(s)
  /\ poly = [j \in Index(s) |-> words[j] % s.modulus]
  /\ phase = "coefficients" /\ m = 1

\* The exact product of poly and X^k, and the exact image of poly.
TimesMonomial(k) ==
  [j \in Index(s) |-> LET i == (j - k) % (2 * s.N)
                   IN  IF i < s.N THEN poly[i] ELSE (-poly[i - s.N]) % s.modulus]
Plain(i) == IF i < s.N THEN poly[i] ELSE -poly[2 * s.N - i]
Image(gen) ==
  [j \in Index(s) |->
     LET size == IF Standard(s) THEN s.N ELSE 2 * s.N
         i == CHOOSE n \in 0 .. size - 1 : (n * gen) % size = j
     IN  (IF (i * gen) % (2 * size) = j THEN Plain(i) ELSE -Plain(i)) % s.modulus]

\* Of reduced words only, as its subtractions from q ask.
Multiply ==
  /\ phase = "coefficients" /\ Standard(s) /\ \A j \in Index(s) : words[j] < s.modulus
  /\ \E k \in Monomials : /\ words' = MultByMonomial(s, words, k)
                          /\ poly' = TimesMonomial(k)
  /\ phase' = "multiplied"
  /\ UNCHANGED <<s, m>>

\* The first stage reads the input, and of the conjugate-invariant transform is
\* the fold.
Forward ==
  /\ \/ phase \in {"coefficients", "multiplied"} /\ m = 1
     \/ phase = "forward"
  /\ words' = IF ~Standard(s) /\ m = 1 THEN Fold(s, words, s.forward[1]) ELSE ForwardStage(s, m, words)
  /\ m' = 2 * m
  /\ phase' = IF m' = (IF Standard(s) THEN s.N ELSE 2 * s.N) THEN "lazy" ELSE "forward"
  /\ UNCHANGED <<s, poly>>

Reduce ==
  /\ phase = "lazy"
  /\ words' = EveryWord(reducevec, s, words)
  /\ phase' = "transformed"
  /\ UNCHANGED <<s, poly, m>>

Map ==
  /\ phase = "transformed"
  /\ \E gen \in Galois(s) : /\ words' = AutomorphismNTT(s, words, gen)
                            /\ poly' = Image(gen)
  /\ phase' = "mapped" /\ m' = s.N
  /\ UNCHANGED s

Backward ==
  /\ phase \in {"mapped", "backward"} /\ m > 1
  /\ words' = BackwardStage(s, m, words)
  /\ m' = m \div 2
  /\ phase' = "backward"
  /\ UNCHANGED <<s, poly>>

\* The last fold, and the multiplication by the inverse of the degree.
Finish ==
  /\ phase = "backward" /\ m = 1
  /\ LET folded == IF Standard(s) THEN words ELSE Doubled(s, Fold(s, words, s.backward[1]))
     IN  words' = [j \in Index(s) |-> mulscalarmontgomeryvec(s, folded[j], s.nInv)]
  /\ phase' = "restored"
  /\ UNCHANGED <<s, poly, m>>

Next == Multiply \/ Forward \/ Reduce \/ Map \/ Backward \/ Finish
Spec == Init /\ [][Next]_vars

-----------------------------------------------------------------------------
\* The value of poly at psi^e; a conjugate-invariant polynomial has the
\* coefficient -p[i] at X^(2N - i).
Root == IMForm(s.psi, s.modulus, s.mred)
PowerOf(e) == ModExp(Root, e % s.nthRoot, s.modulus)
RECURSIVE Total(_, _, _)
Total(terms, from, to) ==
  IF from = to THEN terms[from]
  ELSE LET middle == (from + to) \div 2 IN Total(terms, from, middle) + Total(terms, middle + 1, to)
At(e) ==
  LET Term(j) == IF j = 0 THEN poly[0]
                 ELSE poly[j] * (PowerOf(j * e) + (IF Standard(s) THEN 0 ELSE PowerOf(-j * e)))
  IN  Total([j \in Index(s) |-> Term(j)], 0, s.N - 1) % s.modulus

\* The transform of ring/ntt.go: after Forward, word j is the value at the j-th
\* root in bit-reversed order, and the automorphism of transformed words is that
\* of the polynomial; after Backward the words are its coefficients again.
TransformIsExact ==
  /\ phase \in {"transformed", "mapped"} =>
       \A j \in Index(s) : words[j] = At(2 * BitReverse(j, Log2(s.nthRoot) - 1) + 1)
  /\ phase \in {"multiplied", "restored"} => \A j \in Index(s) : words[j] % s.modulus = poly[j]

\* How many moduli the words stay below that the stage with k roots leaves, if
\* those of the input are below three.
AfterForward(k) == IF k = 1 THEN 5 ELSE IF Reduces(s, k) THEN 6 ELSE IF k = 2 THEN 7 ELSE 8

\* The ranges of the stages: three bits above the modulus are enough for the
\* forward ones, one for the backward ones, and what is reduced is below q.
LazyWithinWord ==
  \A j \in Index(s) :
    words[j] < s.modulus * (CASE phase = "coefficients" -> 3
                              [] phase = "multiplied" -> 2
                              [] phase \in {"forward", "lazy"} -> AfterForward(m \div 2)
                              [] phase = "backward" -> 2
                              [] OTHER -> 1)

\* The comments on the lazy forward transform, ntt.go:67, 113, 136, 182, 211, 724
\* and 741: its output is in [0, 2q-1].  The last stage of the code adds a lazy
\* product to a word below 4q and reduces nothing afterwards.
LazyForwardAsDocumented ==
  phase = "lazy" => \A j \in Index(s) : words[j] < 2 * s.modulus
=============================================================================
