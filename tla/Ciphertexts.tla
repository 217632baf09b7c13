---------------------------- MODULE Ciphertexts ----------------------------
(***************************************************************************)
(* What a homomorphic operation of the CKKS evaluator does to a ciphertext,*)
(* as far as the circuits of src/integer/homchain rely on it: its level,   *)
(* its exact scale, and the slot value it encrypts.  The evaluator itself  *)
(* is not under test here; the circuits call it and then require an exact  *)
(* level and an exact scale of what came back.                             *)
(*                                                                         *)
(* A scale is a product of powers of the default scale S and of the primes *)
(* of the modulus chain, so two scales are equal when the exponents are:   *)
(* the code compares exact 256-bit snapshots (ExactScaleSnapshot).  A      *)
(* value is the integer num divided by Den^den.  exact is FALSE once two   *)
(* scales that differ have been added, and the value then means nothing.   *)
(***************************************************************************)
EXTENDS Integers

CONSTANTS TopLevel,   \* level of a fresh ciphertext: the last prime's index
          Den         \* denominator of a value's fixed-point part

ASSUME CiphertextAssumption == TopLevel \in Nat /\ Den \in Nat \ {0}

\* Not a restriction of Den: what the powers are that Scaled takes, for provers
\* that know no arithmetic of ^.
ASSUME PowersOfDen == Den^0 = 1 /\ Den^1 = Den /\ Den^2 = Den * Den

-----------------------------------------------------------------------------
\* Scales.

S == -1                                  \* the default scale
Drift == -2                              \* what a streamed transform adds to it
Factors == {S, Drift} \union 0..TopLevel \* and the primes Q()[i]
Scales == [Factors -> Int]
One == [f \in Factors |-> 0]
Prime(i) == [One EXCEPT ![i] = 1]
DefaultScale == Prime(S)
Times(s, t) == [f \in Factors |-> s[f] + t[f]]
Over(s, t) == [f \in Factors |-> s[f] - t[f]]
Drifted == Times(DefaultScale, Prime(Drift))

-----------------------------------------------------------------------------
\* Ciphertexts and encoded plaintexts.

Smaller(i, j) == IF i < j THEN i ELSE j

Operand(level, scale, num, den) ==
  [level |-> level, scale |-> scale, num |-> num, den |-> den, exact |-> TRUE]

\* The state a circuit profile gives a ciphertext.
Expected(level, scale) == [level |-> level, scale |-> scale]

\* num of a value written with at least d factors of Den in its denominator.
Scaled(c, d) == c.num * Den^(d - c.den)

Larger(i, j) == IF i < j THEN j ELSE i

Product(c, d) ==
  [level |-> Smaller(c.level, d.level), scale |-> Times(c.scale, d.scale),
   num |-> c.num * d.num, den |-> c.den + d.den, exact |-> c.exact /\ d.exact]

SumOf(c, d) ==
  [level |-> Smaller(c.level, d.level), scale |-> c.scale,
   num |-> Scaled(c, Larger(c.den, d.den)) + Scaled(d, Larger(c.den, d.den)),
   den |-> Larger(c.den, d.den),
   exact |-> c.exact /\ d.exact /\ c.scale = d.scale]

Rescaled(c) ==
  [c EXCEPT !.level = @ - 1, !.scale = Over(@, Prime(c.level))]

Dropped(c, n) == [c EXCEPT !.level = @ - n]

Negated(c) == [c EXCEPT !.num = -@]
=============================================================================
