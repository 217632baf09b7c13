------------------------------- MODULE RNSRing -------------------------------
(***************************************************************************)
(* src/lattigo/ring: one coefficient in residues.  ring.go and scalar.go   *)
(* go between integers and residues, scaling.go divides by the last        *)
(* modulus, basis_extension.go goes between the bases Q and P, divides by  *)
(* P and splits a residue vector into digits.                              *)
(*                                                                         *)
(* All of this is coefficientwise; the variants on transformed words do    *)
(* the same between transforms, which differ only in what a lazy backward  *)
(* transform leaves in a word.  value is the integer the residues stand    *)
(* for, kept in plain arithmetic.                                          *)
(***************************************************************************)
EXTENDS RingArithmetic, FiniteSets

CONSTANTS
  ChainQ, ChainP,   \* the moduli by index, from 0
  FloatBits,        \* how many bits of a quotient a float64 holds
  Values,           \* the integers a behavior starts from
  Scalars,          \* the integers given as scalars
  MaxSteps          \* bound on the length of a behavior

VARIABLES level,    \* of the basis Q
          q, p,     \* the residues in Q and in P, p empty while there are none
          value,
          last,     \* the operation the residues come from
          steps

vars == <<level, q, p, value, last, steps>>

-----------------------------------------------------------------------------
\* Chains.

MaxLevel(chain) == Cardinality(DOMAIN chain) - 1
ModulusAtLevel(chain, l) ==
  LET Product[i \in -1..l] == IF i = -1 THEN 1 ELSE Product[i - 1] * chain[i] IN Product[l]

Sub(m) == [modulus |-> m, bred |-> GenBRedConstant(m), mred |-> GenMRedConstant(m)]
Subs(chain) == [i \in DOMAIN chain |-> Sub(chain[i])]
RingQ == Subs(ChainQ)
RingP == Subs(ChainP)

NewRNSScalarFromBigint(chain, l, x) == [i \in 0..l |-> x % chain[i]]

\* The reconstruction of PolyToBigint; the centered one takes half of the
\* modulus, rounded down, to the negative side.
PolyToBigint(chain, l, words) ==
  LET M == ModulusAtLevel(chain, l)
      Factor(i) == (M \div chain[i]) * (CHOOSE x \in 1 .. chain[i] - 1 :
                                           (x * ((M \div chain[i]) % chain[i])) % chain[i] = 1 % chain[i])
      Sum[i \in -1..l] == IF i = -1 THEN 0 ELSE Sum[i - 1] + words[i] * Factor(i)
  IN  Sum[l] % M
PolyToBigintCentered(chain, l, words) ==
  LET M == ModulusAtLevel(chain, l)
      x == PolyToBigint(chain, l, words)
  IN  IF x >= M \div 2 THEN x - M ELSE x

\* An operation of a Ring is that of its SubRings.
EveryResidue(Operation(_, _), ring, words) == [i \in DOMAIN words |-> Operation(ring[i], words[i])]
AddScalarBigint(ring, words, x) ==
  LET Add(s, word) == addscalarvec(s, word, x % s.modulus) IN EveryResidue(Add, ring, words)
SubScalarBigint(ring, words, x) ==
  LET Subtract(s, word) == subscalarvec(s, word, x % s.modulus) IN EveryResidue(Subtract, ring, words)
MulScalarBigint(ring, words, x) ==
  LET Times(s, word) == mulscalarmontgomeryvec(s, word, mformvec(s, x % s.modulus))
  IN  EveryResidue(Times, ring, words)

-----------------------------------------------------------------------------
\* Division by the last modulus.

RescaleConstants(l, i) ==
  LET m == ChainQ[i] IN MForm(m - ModExp(ChainQ[l], m - 2, m), m, RingQ[i].bred)

\* word is what a transform has left of the last residue; the result is in the
\* residues below.
DivFloorByLastModulus(words, l, word) ==
  [i \in 0 .. l - 1 |->
     subthenmulscalarmontgomeryTwoModulusvec(RingQ[i], word, words[i], RescaleConstants(l, i))]

Half(m) == (m - 1) \div 2
DivRoundByLastModulus(words, l, word) ==
  LET centered == addscalarvec(RingQ[l], word, Half(ChainQ[l]))
      Offset(i) == ChainQ[i] - reducevec(RingQ[i], Half(ChainQ[l]))
  IN  [i \in 0 .. l - 1 |->
         addlazythenmulscalarmontgomeryvec(RingQ[i], centered,
           addscalarlazythenNegTwoModuluslazyvec(RingQ[i], words[i], Offset(i)), RescaleConstants(l, i))]

\* The same with the offset moved to the other operand, as after a transform.
DivRoundByLastModulusNTT(words, l, word) ==
  LET centered == addscalarvec(RingQ[l], word, Half(ChainQ[l]))
      Offset(i) == ChainQ[i] - reducevec(RingQ[i], Half(ChainQ[l]))
  IN  [i \in 0 .. l - 1 |->
         subthenmulscalarmontgomeryTwoModulusvec(RingQ[i], addscalarlazyvec(RingQ[i], centered, Offset(i)),
           words[i], RescaleConstants(l, i))]

\* nbRescales times, from level l; Div is one of the three above.
DivMany(Div(_, _, _), nbRescales, words, l) ==
  LET After[n \in 0..nbRescales] ==
        IF n = 0 THEN words ELSE Div(After[n - 1], l - n + 1, After[n - 1][l - n + 1])
  IN  After[nbRescales]

-----------------------------------------------------------------------------
\* Basis extension.  from and to are moduli by index.

GenModUpConstants(from, to) ==
  LET Product(m, one, Skip(_)) ==      \* of the moduli not skipped, from one on, modulo m
        LET s == Sub(m)
            P[j \in -1 .. MaxLevel(from)] ==
              IF j = -1 THEN one
              ELSE IF Skip(j) THEN P[j - 1]
              ELSE MRed(P[j - 1], MForm(from[j], m, s.bred), m, s.mred)
        IN  P[MaxLevel(from)]
      Others(m, one, i) == LET Skip(j) == j = i IN Product(m, one, Skip)
      All(m) == LET Skip(j) == FALSE IN Product(m, 1, Skip)
      Times(m) == LET T[v \in 0 .. MaxLevel(from) + 1] == IF v = 0 THEN 0 ELSE CRed(T[v - 1] + (m - All(m)), m) IN T
  IN  [qoverqiinvqi |->
         [i \in DOMAIN from |->
            LET s == Sub(from[i])
            IN  ModexpMontgomery(Others(from[i], MForm(1, from[i], s.bred), i), from[i] - 2, from[i], s.mred, s.bred)],
       qoverqimodp |-> [j \in DOMAIN to |-> [i \in DOMAIN from |-> MForm(Others(to[j], 1, i), to[j], Sub(to[j]).bred)]],
       vtimesqmodp |-> [j \in DOMAIN to |-> Times(to[j])]]

\* The digits y of the reconstruction, from words and their constants.
reconstructRNS(ring, words, muc) ==
  [i \in DOMAIN words |-> mulscalarmontgomeryvec(ring[i], words[i], muc.qoverqiinvqi[i])]
Reconstructed(from, y) ==
  LET M == ModulusAtLevel(from, MaxLevel(from))
      Sum[i \in -1 .. MaxLevel(from)] == IF i = -1 THEN 0 ELSE Sum[i - 1] + y[i] * (M \div from[i])
  IN  Sum[MaxLevel(from)]
\* The sum of the y[i] / q[i] is taken in float64, so its integer part may be one
\* off where the sum is next to an integer.
Near(M) == M \div 2^FloatBits
Corrections(from, y) ==
  LET M == ModulusAtLevel(from, MaxLevel(from))
      exact == Reconstructed(from, y) \div M
      rest == Reconstructed(from, y) % M
  IN  {exact} \cup {v \in {exact - 1} : v >= 0 /\ rest <= Near(M)}
              \cup {v \in {exact + 1} : v <= MaxLevel(from) + 1 /\ rest >= M - Near(M)}

\* The word modulo m.
multSum(s, y, v, qoverqimodp, vtimesqmodp) ==
  LET Sum[i \in -1 .. MaxLevel(y)] == IF i = -1 THEN 0 ELSE Sum[i - 1] + y[i] * qoverqimodp[i]
      high == Sum[MaxLevel(y)] \div Word
      low == Wrap(Sum[MaxLevel(y)])
  IN  Wrap(high - High(Wrap(low * s.mred), s.modulus) + s.modulus + vtimesqmodp[v])

\* Constants for every pair of levels, as a BasisExtender holds them.
Prefix(chain, l) == [i \in 0..l |-> chain[i]]
constantsQtoP == [l \in DOMAIN ChainQ |-> GenModUpConstants(Prefix(ChainQ, l), ChainP)]
constantsPtoQ == [l \in DOMAIN ChainP |-> GenModUpConstants(Prefix(ChainP, l), ChainQ)]
genmodDownConstants(chain, divisors) ==
  LET Down[j \in -1 .. MaxLevel(divisors)] ==
        IF j = -1 THEN [i \in DOMAIN chain |-> MForm(1, chain[i], Sub(chain[i]).bred)]
        ELSE [i \in DOMAIN chain |->
                LET s == Sub(chain[i])
                    inverse == MForm(ModExp(divisors[j], chain[i] - 2, chain[i]), chain[i], s.bred)
                IN  IF j = 0 THEN inverse ELSE MRed(inverse, Down[j - 1][i], chain[i], s.mred)]
  IN  Down
modDownConstantsPtoQ == genmodDownConstants(ChainQ, ChainP)

\* Half of the modulus is added before and subtracted after, so that the integer
\* extended is the centered one.
ModUp(ringFrom, from, l, ringTo, lTo, words, muc, v) ==
  LET half == ModulusAtLevel(from, l) \div 2
      y == reconstructRNS(ringFrom, AddScalarBigint(ringFrom, words, half), muc)
      sums == [j \in 0..lTo |-> multSum(ringTo[j], y, v, muc.qoverqimodp[j], muc.vtimesqmodp[j])]
  IN  SubScalarBigint(ringTo, sums, half)
ModUpDigits(ringFrom, from, l, words, muc) ==
  reconstructRNS(ringFrom, AddScalarBigint(ringFrom, words, ModulusAtLevel(from, l) \div 2), muc)

\* Division by the modulus of the other basis, from the extension of its words.
ModDown(ring, constants, words, extended) ==
  [i \in DOMAIN words |->
     subthenmulscalarmontgomeryTwoModulusvec(ring[i], extended[i], words[i], ring[i].modulus - constants[i])]

-----------------------------------------------------------------------------
\* The Decomposer: digit d is that of the nbPi moduli from d nbPi on, as far as
\* there are any up to levelQ.

First(d, nbPi) == d * nbPi
\* A mutant: the last digit of a full basis is taken for a partial one.
FaultDecompLvl(levelQ, d, nbPi) ==
  IF levelQ > nbPi * (d + 1) THEN nbPi - 2 ELSE (levelQ % nbPi) - 1

decompLvl(levelQ, d, nbPi) ==
  IF levelQ > nbPi * (d + 1) - 1 THEN nbPi - 2 ELSE (levelQ % nbPi) - 1
BaseRNSDecompositionVectorSize(levelQ, nbPi) == (levelQ + nbPi) \div nbPi

\* One modulus: the centered residue, a zero of negative sign left as the modulus.
SplitOne(ring, l, m, word) ==
  LET negative == word >= m \div 2
      size == IF negative THEN m - word ELSE word
  IN  [i \in 0..l |-> LET r == reducevec(ring[i], size) IN IF negative THEN ring[i].modulus - r ELSE r]

\* Several: constants of the group's moduli, for all moduli of Q and then of P.
Group(d, nbPi, lvl) == [k \in 0 .. lvl + 1 |-> ChainQ[First(d, nbPi) + k]]
QthenP(nbPi) == [j \in 0 .. MaxLevel(ChainQ) + nbPi |->
                   IF j <= MaxLevel(ChainQ) THEN ChainQ[j] ELSE ChainP[j - MaxLevel(ChainQ) - 1]]
DecomposerConstants ==
  [group \in {g \in (DOMAIN ChainQ) \X (2 .. MaxLevel(ChainP) + 1) \X (0 .. MaxLevel(ChainP) - 1) :
                g[3] + 2 <= g[2] /\ First(g[1], g[2]) + g[3] + 1 <= MaxLevel(ChainQ)} |->
     GenModUpConstants(Group(group[1], group[2], group[3]), QthenP(group[2]))]

reconstructRNSCentered(d, nbPi, words, half, muc) ==
  [k \in DOMAIN muc.qoverqiinvqi |->
     LET i == First(d, nbPi) + k
     IN  mulscalarmontgomeryvec(RingQ[i], words[i] + (half % ChainQ[i]), muc.qoverqiinvqi[k])]

\* The words of the digit in Q and P; v is what the float sum came to.  The group's
\* own words are left to the caller, who has them.
SplitMany(d, nbPi, lvl, words, y, v, half, muc) ==
  LET Own(j) == j \in First(d, nbPi) .. First(d, nbPi) + lvl + 1
      Sum(s, u) == subscalarvec(s, multSum(s, y, v, muc.qoverqimodp[u], muc.vtimesqmodp[u]), half % s.modulus)
  IN  [inQ |-> [j \in DOMAIN words |-> IF Own(j) THEN words[j] ELSE Sum(RingQ[j], j)],
       inP |-> [j \in 0 .. nbPi - 1 |-> Sum(RingP[j], MaxLevel(ChainQ) + 1 + j)]]

-----------------------------------------------------------------------------
\* Behaviors.  The integers of the actions are exact; what the properties say is
\* that the words keep up with them and that they are what was asked for.

None == [of |-> "none"]

Init ==
  /\ level = MaxLevel(ChainQ) /\ p = <<>>
  /\ value \in Values
  /\ q = NewRNSScalarFromBigint(ChainQ, level, value)
  /\ last = None /\ steps = 0

Step(name) == steps < MaxSteps /\ steps' = steps + 1 /\ last' = [of |-> name, from |-> value, level |-> level]
AllReduced == /\ \A i \in DOMAIN q : q[i] < ChainQ[i]
              /\ \A j \in DOMAIN p : p[j] < ChainP[j]

\* The scalar in both bases.
Scale ==
  /\ AllReduced /\ Step("scale")
  /\ \E x \in Scalars : /\ q' = MulScalarBigint(RingQ, q, x) /\ p' = MulScalarBigint(RingP, p, x)
                        /\ value' = value * x
  /\ UNCHANGED level
Shift ==
  /\ AllReduced /\ Step("shift")
  /\ \E x \in Scalars : \/ /\ q' = AddScalarBigint(RingQ, q, x) /\ p' = AddScalarBigint(RingP, p, x)
                           /\ value' = value + x
                        \/ /\ q' = SubScalarBigint(RingQ, q, x) /\ p' = SubScalarBigint(RingP, p, x)
                           /\ value' = value - x
  /\ UNCHANGED level

\* The words every transform and back leaves.
Reduce ==
  /\ ~AllReduced /\ Step("reduce")
  /\ q' = EveryResidue(reducevec, RingQ, q) /\ p' = EveryResidue(reducevec, RingP, p)
  /\ UNCHANGED <<level, value>>

\* Quotients.
Floor(x, m) == x \div m
Round(x, m) == (x + Half(m)) \div m

\* What the lazy backward transform leaves of the last residue: the residue, or
\* one modulus more.  The standard transform of degree 16 on leaves the residue,
\* the others a lazy product, which is not 0.  The code divides by the word it has.
Lazy(r, m) == {r} \cup {w \in {r + m} : w < 2 * m - 1}
StepOn(name, word) ==
  /\ steps < MaxSteps /\ steps' = steps + 1
  /\ last' = [of |-> name, from |-> value, level |-> level, lazy |-> word >= ChainQ[level]]
DivideFloor ==
  /\ AllReduced /\ p = <<>> /\ level > 0
  /\ \E word \in Lazy(q[level], ChainQ[level]) :
       /\ StepOn("floor", word)
       /\ q' = DivFloorByLastModulus(q, level, word)
       /\ value' = (value - word) \div ChainQ[level]
  /\ level' = level - 1
  /\ UNCHANGED p
DivideRound ==
  /\ AllReduced /\ p = <<>> /\ level > 0 /\ Step("round")
  /\ q' = DivRoundByLastModulus(q, level, q[level])
  /\ value' = Round(value, ChainQ[level])
  /\ level' = level - 1
  /\ UNCHANGED p
DivideRoundNTT ==
  /\ AllReduced /\ p = <<>> /\ level > 0
  /\ \E word \in Lazy(q[level], ChainQ[level]) :
       LET centered == addscalarvec(RingQ[level], word, Half(ChainQ[level]))
       IN  /\ StepOn("roundNTT", word)
           /\ q' = DivRoundByLastModulusNTT(q, level, word)
           /\ value' = (value + Half(ChainQ[level]) - centered) \div ChainQ[level]
  /\ level' = level - 1
  /\ UNCHANGED p

\* The integers of several divisions, each of the one before.
Nested(Quotient(_, _), n) ==
  LET After[k \in 0..n] ==
        IF k = 0 THEN value ELSE Quotient(After[k - 1], ChainQ[level - k + 1])
  IN  After[n]
DivideMany ==
  /\ AllReduced /\ p = <<>>
  /\ \E n \in 2..level :
       /\ \/ Step("floorMany") /\ q' = DivMany(DivFloorByLastModulus, n, q, level) /\ value' = Nested(Floor, n)
          \/ Step("roundMany") /\ q' = DivMany(DivRoundByLastModulus, n, q, level) /\ value' = Nested(Round, n)
       /\ level' = level - n
  /\ UNCHANGED p

\* The integer that words of the moduli from are extended as.
Extended(from, l, y, v) ==
  Reconstructed(from, y) - v * ModulusAtLevel(from, l) - ModulusAtLevel(from, l) \div 2

ModUpQtoP ==
  /\ AllReduced /\ p = <<>> /\ Step("extend")
  /\ \E levelP \in DOMAIN ChainP :
       LET from == Prefix(ChainQ, level)
           y == ModUpDigits(RingQ, from, level, q, constantsQtoP[level])
       IN  \E v \in Corrections(from, y) :
             /\ p' = ModUp(RingQ, from, level, RingP, levelP, q, constantsQtoP[level], v)
             /\ value' = Extended(from, level, y, v)
  /\ UNCHANGED <<level, q>>

ModDownQPtoQ ==
  /\ AllReduced /\ p # <<>> /\ Step("down")
  /\ LET levelP == MaxLevel(p)
         from == Prefix(ChainP, levelP)
         y == ModUpDigits(RingP, from, levelP, p, constantsPtoQ[levelP])
     IN  \E v \in Corrections(from, y) :
           /\ q' = ModDown(RingQ, modDownConstantsPtoQ[levelP], q,
                           ModUp(RingP, from, levelP, RingQ, level, p, constantsPtoQ[levelP], v))
           /\ value' = (value - Extended(from, levelP, y, v)) \div ModulusAtLevel(ChainP, levelP)
  /\ p' = <<>>
  /\ UNCHANGED level

Decompose ==
  /\ AllReduced /\ p = <<>> /\ steps < MaxSteps /\ steps' = steps + 1
  /\ \E levelP \in DOMAIN ChainP :
       LET nbPi == levelP + 1
       IN  \E d \in 0 .. BaseRNSDecompositionVectorSize(level, nbPi) - 1 :
             LET lvl == decompLvl(level, d, nbPi)
                 digit == [of |-> "decompose", from |-> value, level |-> level, digit |-> d, size |-> nbPi]
                 first == First(d, nbPi)
                 m == ChainQ[first]
             IN  /\ last' = digit
                 /\ IF lvl < 0
                     THEN /\ q' = SplitOne(RingQ, level, m, q[first])
                          /\ p' = SplitOne(RingP, levelP, m, q[first])
                          /\ value' = IF q[first] >= m \div 2 THEN q[first] - m ELSE q[first]
                     ELSE LET muc == DecomposerConstants[<<d, nbPi, lvl>>]
                              from == Group(d, nbPi, lvl)
                              half == ModulusAtLevel(from, lvl + 1) \div 2
                              y == reconstructRNSCentered(d, nbPi, q, half, muc)
                          IN  \E v \in Corrections(from, y) :
                                LET words == SplitMany(d, nbPi, lvl, q, y, v, half, muc)
                                IN  /\ q' = words.inQ /\ p' = words.inP
                                    /\ value' = Extended(from, lvl + 1, y, v)
  /\ UNCHANGED level

Next == \/ Scale \/ Shift \/ Reduce \/ DivideFloor \/ DivideRound \/ DivideRoundNTT \/ DivideMany
        \/ ModUpQtoP \/ ModDownQPtoQ \/ Decompose
Spec == Init /\ [][Next]_vars

-----------------------------------------------------------------------------
\* The range of the words each operation leaves: a division reduces, also the one
\* by P; the residue of one modulus that is split may leave the modulus for a zero;
\* an extension adds two reduced words and the high word of its sum.
Excess(from, m) ==
  LET Sum[i \in -1 .. MaxLevel(from)] == IF i = -1 THEN 0 ELSE Sum[i - 1] + from[i] - 1
  IN  High(Sum[MaxLevel(from)], m - 1)
Digit == [i \in 0 .. last.size - 1 |->
            IF last.digit * last.size + i <= last.level THEN ChainQ[last.digit * last.size + i] ELSE 1]
Extends(word, from, m) == word < 2 * m + Excess(from, m)
Splits(word, m) == IF Digit[0] = ModulusAtLevel(Digit, last.size - 1) THEN word <= m ELSE Extends(word, Digit, m)

\* basis_extension.go and scaling.go: the words in Q and in P are those of one
\* integer, within these ranges.  The comments on ModUpExact and multSum
\* (basis_extension.go:283 and 598) say [0, 2q-1]; they leave out the high word.
WordsOfValue ==
  /\ \A i \in DOMAIN q : (q[i] - value) % ChainQ[i] = 0
  /\ \A j \in DOMAIN p : (p[j] - value) % ChainP[j] = 0
  /\ last.of \notin {"extend", "decompose"} => AllReduced
  /\ last.of = "extend" => /\ \A i \in DOMAIN q : q[i] < ChainQ[i]
                           /\ \A j \in DOMAIN p : Extends(p[j], Prefix(ChainQ, level), ChainP[j])
  /\ last.of = "decompose" => /\ \A i \in DOMAIN q : Splits(q[i], ChainQ[i])
                              /\ \A j \in DOMAIN p : Splits(p[j], ChainP[j])
  /\ AllReduced => LET M == ModulusAtLevel(ChainQ, level)
                       x == PolyToBigintCentered(ChainQ, level, q)
                   IN  (x - value) % M = 0 /\ x + (M - M \div 2) \in 0 .. M - 1

\* In the centered interval, up to what the float sum may be wrong by.
Close(x, M) == x + (M - M \div 2) + Near(M) \in 0 .. 2 * (M - M \div 2 + Near(M))
\* What each operation was asked for: the quotient rounded down or to the nearest
\* integer, the centered integer of the same residues.  Where the lazy backward
\* transform has left a modulus too much, the quotient that scaling.go:6 says is
\* floored is one less, and the one that scaling.go:94 says is rounded is floored.
AsAsked ==
  LET x == last.from
      m == ChainQ[last.level]
      M == ModulusAtLevel(ChainQ, last.level)
  IN  /\ last.of = "floor" => value = x \div m - (IF last.lazy THEN 1 ELSE 0)
      /\ last.of = "round" => 2 * (value * m - x) \in -m .. m
      /\ last.of = "roundNTT" =>
           IF last.lazy THEN value = x \div m ELSE 2 * (value * m - x) \in -m .. m
      /\ last.of \in {"floorMany", "roundMany"} =>
           LET P == M \div ModulusAtLevel(ChainQ, level)
           IN  IF last.of = "floorMany" THEN value = x \div P
               ELSE 2 * (value * P - x) \in -(P + P \div ChainQ[level + 1]) .. P + P \div ChainQ[level + 1]
      /\ last.of = "extend" => (value - x) % M = 0 /\ Close(value, M)
      /\ last.of = "decompose" =>
           LET G == ModulusAtLevel(Digit, last.size - 1) IN (value - x) % G = 0 /\ Close(value, G)
      /\ last.of = "down" =>
           \E l \in DOMAIN ChainP : LET P == ModulusAtLevel(ChainP, l) IN Close(value * P - x, P)
=============================================================================
