--------------------------- MODULE CapacityPlans ---------------------------
(***************************************************************************)
(* integer/secureprofile: the parameter profile, the artifact shapes, the  *)
(* byte ledgers derived from them and the plans that seal a ledger: the    *)
(* artifact plan of the full packing, the combined plan of the 2^11-slot   *)
(* packing and one plan for each phase of a Route-B lineage.               *)
(*                                                                         *)
(* A digest is an injective function of what it covers: the record itself, *)
(* its own digest blanked.  Memory is counted in units of ByteUnit bytes;  *)
(* every product has a factor that ByteUnit divides.                       *)
(***************************************************************************)
EXTENDS Integers, FiniteSets, SequencesExt

CONSTANTS
  ByteUnit,       \* bytes that make one unit of memory
  MaxWord,        \* math.MaxUint64, in units
  MinimumGuard    \* 512 MiB, in units

ASSUME LedgerAssumption ==
  /\ ByteUnit \in Nat \ {0} /\ MaxWord \in Nat \ {0} /\ MinimumGuard \in Nat
  /\ 256 % ByteUnit = 0

-----------------------------------------------------------------------------
\* Checked arithmetic.  An error of one step is an error of the whole ledger.
Overflow == -1

CheckedSum(a, b) == IF Overflow \in {a, b} \/ a > MaxWord - b THEN Overflow ELSE a + b
CheckedProduct(a, b) ==
  IF Overflow \in {a, b} \/ (b # 0 /\ a > MaxWord \div b) THEN Overflow ELSE a * b
a ++ b == CheckedSum(a, b)
a ** b == CheckedProduct(a, b)

CheckedLevelCount(level) == IF level < 0 THEN Overflow ELSE level ++ 1

\* The empty digest, and the digest of a value whose digest field is blanked.
NoDigest == [none |-> 0]
Digest(value) == [sha256 |-> [value EXCEPT !.digest = NoDigest]]
Sealed(value) == [value EXCEPT !.digest = Digest(value)]
Intact(value) == value.digest # NoDigest /\ value.digest = Digest(value)

-----------------------------------------------------------------------------
\* The parameter profile: only the authenticated candidate has one, and only as
\* long as its manifest says that the evidence is missing.
Candidate == [tuple |-> "gao-compatible-n16", logN |-> 16, qCount |-> 21, pCount |-> 7, levels |-> 21]
Manifest == [estimatorEligible |-> FALSE, status |-> "pending", missingEvidence |-> {"estimator", "implementation"}]

Profiled(params) ==
  Sealed([parameters |-> params, maturity |-> "parameter_candidate_unverified",
          logN |-> params.logN, slots |-> 2^(params.logN - 1), wordBits |-> 8,
          wordCapacity |-> 2^(params.logN - 1) \div (8 \div 2),
          qCount |-> params.qCount, pCount |-> params.pCount,
          topology |-> <<params.levels - 1, 17, 17, 5, 4, 3>>,
          missingEvidence |-> Manifest.missingEvidence, digest |-> NoDigest])

NewGaoN16Accepts(params) ==
  /\ params = Candidate
  /\ ~Manifest.estimatorEligible /\ Manifest.status = "pending" /\ Manifest.missingEvidence # {}

ValidateParameters(profile, params) ==
  NewGaoN16Accepts(params) /\ profile.digest # NoDigest /\ profile.digest = Profiled(params).digest

ValidCapacityProfile(profile) ==
  /\ Intact(profile) /\ profile.digest = Profiled(Candidate).digest
  /\ profile.maturity = "parameter_candidate_unverified"

-----------------------------------------------------------------------------
\* The artifact shape of the full packing, and the policy.
DefaultArtifactShape ==
  [logN |-> 16, ringDegree |-> 65536, slots |-> 32768, wordCapacity |-> 8192, qCount |-> 21,
   pCount |-> 7, coefficientBytes |-> 8, entryBytes |-> 256, textBytes |-> 192, textCopies |-> 2,
   transforms |-> 9, vectors |-> 4, pairPolynomials |-> 14,
   stcDiagonals |-> <<255, 256>>, ctsDiagonals |-> <<32, 63, 63>>,
   stcLevels |-> <<18, 6>>, ctsLevels |-> <<20, 6>>, masks |-> 2, maskLevel |-> 19,
   mappings |-> 3, coefficients |-> 79]

DefaultPolicy ==
  Sealed([limitNumerator |-> 4, limitDenominator |-> 5, minimumGuard |-> MinimumGuard,
          guardNumerator |-> 1, guardDenominator |-> 10, digest |-> NoDigest])

ValidPolicy(policy) == policy = DefaultPolicy

\* Units of memory of one row of N coefficients, of one slot vector and of one entry.
RingUnits(shape) == shape.ringDegree \div ByteUnit
SlotUnits(shape) == shape.slots \div ByteUnit
EntryUnits(shape) == shape.entryBytes \div ByteUnit
Limbs(levels) == CheckedLevelCount(levels[1]) ++ CheckedLevelCount(levels[2])
Encoded(shape, diagonals, levels) ==
  diagonals ** RingUnits(shape) ** shape.coefficientBytes ** Limbs(levels)

\* The named terms of the ledger of the artifacts.
StcDiagonals(shape) == shape.stcDiagonals[1] ++ shape.stcDiagonals[2]
CtsDiagonals(shape) == shape.ctsDiagonals[1] ++ shape.ctsDiagonals[2] ++ shape.ctsDiagonals[3]
Text(shape, diagonals) == diagonals ** SlotUnits(shape) ** shape.textBytes ** shape.textCopies
Numeric(shape, vectors) == vectors ** SlotUnits(shape) ** shape.entryBytes

ArtifactTerms(shape) ==
  LET stc == StcDiagonals(shape)
      cts == CtsDiagonals(shape)
  IN  [specifications |-> shape.transforms ** shape.vectors ** SlotUnits(shape) ** shape.entryBytes,
       pair |-> shape.pairPolynomials ** RingUnits(shape) ** shape.coefficientBytes ** (shape.qCount ++ shape.pCount),
       stcEncoded |-> Encoded(shape, stc, shape.stcLevels),
       ctsEncoded |-> Encoded(shape, cts, shape.ctsLevels),
       masks |-> shape.masks ** RingUnits(shape) ** shape.coefficientBytes ** (shape.maskLevel ++ 1),
       polynomials |-> (shape.mappings ** SlotUnits(shape) ** shape.coefficientBytes)
                         ++ (shape.coefficients ** EntryUnits(shape)),
       stcNumeric |-> Numeric(shape, stc), ctsNumeric |-> Numeric(shape, cts),
       stcText |-> Text(shape, stc), ctsText |-> Text(shape, cts)]

Resident(t) == t.specifications ++ t.pair ++ t.stcEncoded ++ t.ctsEncoded ++ t.masks ++ t.polynomials

\* What is live while the STC factors are built, while the CTS factors are, and
\* while the polynomial operands are cloned.
ArtifactStages(t) ==
  LET base == t.specifications ++ t.pair ++ t.masks ++ t.polynomials
  IN  <<base ++ t.stcEncoded ++ t.stcNumeric ++ t.stcText,
        base ++ t.stcEncoded ++ t.ctsEncoded ++ t.ctsNumeric ++ t.ctsText,
        Resident(t) ++ t.polynomials>>

\* The largest of the stages; an overflow anywhere is an error.
Peak(stages) ==
  IF \E i \in DOMAIN stages : stages[i] = Overflow THEN Overflow
  ELSE CHOOSE b \in Range(stages) : \A i \in DOMAIN stages : stages[i] <= b

\* A plan is refused (NoPlan) unless profile, shape and policy are the expected
\* ones and the ledger has no overflow.
NoPlan == [kind |-> "none"]

ArtifactPlanOf(profile, shape, policy, t, stages, peak, resident) ==
  IF \/ ~ValidCapacityProfile(profile) \/ ~ValidPolicy(policy) \/ shape # DefaultArtifactShape
     \/ shape.logN # profile.logN \/ shape.slots # profile.slots
     \/ shape.wordCapacity # profile.wordCapacity
     \/ <<shape.qCount, shape.pCount>> # <<profile.qCount, profile.pCount>>
     \/ resident = Overflow \/ peak = Overflow
  THEN NoPlan
  ELSE Sealed([kind |-> "artifact", phase |-> "", claims |-> "artifact_capacity_only_unverified",
               profile |-> profile.digest, shape |-> shape, policy |-> policy, base |-> NoDigest,
               components |-> t, stages |-> stages, artifactPeak |-> peak,
               resident |-> resident, peak |-> peak, digest |-> NoDigest])

ArtifactPlanOn(profile, shape, policy, t) ==
  ArtifactPlanOf(profile, shape, policy, t, ArtifactStages(t), Peak(ArtifactStages(t)), Resident(t))

NewArtifactPlan(profile, shape, policy) == ArtifactPlanOn(profile, shape, policy, ArtifactTerms(shape))

-----------------------------------------------------------------------------
\* The 2^11-slot packing: its profile and the schedule of its evaluation keys.
\* 5^k modulo a power of two, by squaring; the product is split so that it fits
\* TLC's integers.
MulMod(a, b, modulus) == ((((a \div 512) * b) % modulus) * 512 + (a % 512) * b) % modulus

ModExpPow2(base, exponent, modulus) ==
  LET Step(acc, i) ==
        [result |-> IF (exponent \div 2^i) % 2 = 1 THEN MulMod(acc.result, acc.square, modulus) ELSE acc.result,
         square |-> MulMod(acc.square, acc.square, modulus)]
  IN  FoldLeft(Step, [result |-> 1, square |-> base % modulus], [j \in 1..17 |-> j - 1]).result

\* 2N has to be a positive power of two; every rotation is reduced modulo 2N.
PowerOfTwo(n) == \E i \in 0..17 : n = 2^i
GaloisElements(rotations, ringDegree) ==
  {ModExpPow2(5, k % (2 * ringDegree), 2 * ringDegree) : k \in rotations}

TraceRotations == {2048, 4096, 8192, 16384}
StcRotations == 1..8 \union {16, 24, 32, 64, 96, 128, 160, 192, 224} \union {256 * j : j \in 1..7}
                  \union {2016, 2024, 2032, 2040}
CtsRotations == {1, 2, 3, 4, 8, 16, 24, 32, 64, 96, 128, 256, 384, 512, 1024, 1536,
                 1920, 1952, 1984, 2016, 2040, 2044}

NewPackingProfile ==
  Sealed([claims |-> "capacity_only", base |-> Profiled(Candidate).digest, logN |-> 16, logSlots |-> 11,
          slots |-> 2048, wordBits |-> 8, wordCapacity |-> 512, gap |-> 16,
          traceRotations |-> TraceRotations, traceElements |-> GaloisElements(TraceRotations, 2^16),
          qCount |-> 21, pCount |-> 7, digest |-> NoDigest])

ValidPackingProfile(profile) == Intact(profile) /\ profile = NewPackingProfile

\* The keys of the schedule: one for each Galois element of the union of the two
\* transforms, the trace and the conjugation, however many rotations share it.
KeyUnion(shape) ==
  GaloisElements(shape.stcRotations, shape.ringDegree) \union GaloisElements(shape.ctsRotations, shape.ringDegree)
    \union GaloisElements(shape.traceRotations, shape.ringDegree) \union {shape.conjugation}

ShapeWithKeys(shape) ==
  Sealed([shape EXCEPT !.keys = KeyUnion(shape), !.keyCount = Cardinality(KeyUnion(shape))])

PackingFields ==
  [claims |-> "capacity_only", logN |-> 16, logSlots |-> 11, ringDegree |-> 65536, slots |-> 2048,
   wordBits |-> 8, wordCapacity |-> 512, gap |-> 16, qCount |-> 21, pCount |-> 7,
   coefficientBytes |-> 8, entryBytes |-> 256, textBytes |-> 192, textCopies |-> 2,
   transforms |-> 9, vectors |-> 4, pairPolynomials |-> 14,
   stcDiagonals |-> <<63, 64>>, ctsDiagonals |-> <<16, 31, 15>>,
   stcLevels |-> <<18, 6>>, ctsLevels |-> <<20, 6>>, masks |-> 2, maskLevel |-> 19,
   mappings |-> 3, coefficients |-> 79,
   traceRotations |-> TraceRotations, stcRotations |-> StcRotations, ctsRotations |-> CtsRotations,
   conjugation |-> 131071, keys |-> {}, keyCount |-> 0, keyUnits |-> 88080384 \div ByteUnit,
   fixedKeys |-> {"relinearization", "dense_to_sparse", "sparse_to_dense"},
   bufferUnits |-> 440926208 \div ByteUnit, babySteps |-> 4, components |-> 2,
   babyLevels |-> <<18, 6>>, scratch |-> 65536, digest |-> NoDigest]

DefaultPackingShape == ShapeWithKeys(PackingFields)

ValidKeySchedule(shape) ==
  /\ PowerOfTwo(2 * shape.ringDegree)
  /\ shape.conjugation = 2 * shape.ringDegree - 1
  /\ shape.keys = KeyUnion(shape) /\ shape.keyCount = Cardinality(shape.keys) /\ shape.keyCount = 38

ValidShapeSeal(shape) == ValidKeySchedule(shape) /\ Intact(shape) /\ shape.claims = "capacity_only"

\* The ledger of the combined plan: the artifacts and, on top of their peak, the
\* keys, the evaluator's buffers, the pre-rotated ciphertexts and one row.
MaxFactor(shape) ==
  LET sizes == {Encoded(shape, shape.stcDiagonals[i], shape.stcLevels) : i \in DOMAIN shape.stcDiagonals}
                 \union {Encoded(shape, shape.ctsDiagonals[i], shape.ctsLevels) : i \in DOMAIN shape.ctsDiagonals}
  IN  IF Overflow \in sizes THEN Overflow ELSE CHOOSE b \in sizes : \A c \in sizes : c <= b

RuntimeTerms(shape) ==
  [rotationKeys |-> Cardinality(shape.keys) ** shape.keyUnits,
   fixedKeys |-> Cardinality(shape.fixedKeys) ** shape.keyUnits,
   buffers |-> shape.bufferUnits,
   preRotated |-> shape.babySteps ** shape.components ** RingUnits(shape) ** shape.coefficientBytes
                    ** Limbs(shape.babyLevels),
   scratch |-> (shape.scratch \div ByteUnit) ** shape.coefficientBytes]

RuntimeSum(artifactPeak, r) ==
  artifactPeak ++ (r.rotationKeys ++ r.fixedKeys) ++ r.buffers ++ r.preRotated ++ r.scratch

CombinedPlanOf(profile, shape, policy, components, maxFactor, artifactPeak, resident, peak) ==
  IF \/ ~ValidPackingProfile(profile) \/ ~ValidShapeSeal(shape) \/ ~ValidPolicy(policy)
     \/ Overflow \in {peak, maxFactor, resident}
     \/ shape.keyCount # Cardinality(shape.keys) \/ shape.digest # DefaultPackingShape.digest
     \/ <<shape.logN, shape.logSlots, shape.slots, shape.wordBits, shape.wordCapacity, shape.gap>>
          # <<profile.logN, profile.logSlots, profile.slots, profile.wordBits, profile.wordCapacity, profile.gap>>
     \/ shape.traceRotations # profile.traceRotations
     \/ <<shape.qCount, shape.pCount>> # <<profile.qCount, profile.pCount>>
  THEN NoPlan
  ELSE Sealed([kind |-> "combined", phase |-> "", claims |-> profile.claims,
               profile |-> profile, shape |-> shape, policy |-> policy, base |-> NoDigest,
               components |-> components, maxFactor |-> maxFactor,
               artifactPeak |-> artifactPeak, resident |-> resident, peak |-> peak, digest |-> NoDigest])

\* Both groups of terms, by name.
Joined(t, r) == [n \in DOMAIN t \union DOMAIN r |-> IF n \in DOMAIN t THEN t[n] ELSE r[n]]

CombinedPlanOn(profile, shape, policy, t, r) ==
  CombinedPlanOf(profile, shape, policy, Joined(t, r), MaxFactor(shape), Peak(ArtifactStages(t)), Resident(t),
                 RuntimeSum(Peak(ArtifactStages(t)), r))

NewCombinedPlan(profile, shape, policy) ==
  CombinedPlanOn(profile, shape, policy, ArtifactTerms(shape), RuntimeTerms(shape))

-----------------------------------------------------------------------------
\* The phases of a lineage.
TreePhases == {"root-tree", "node-batch", "selected-child", "radix4-node"}
Phases == {"begin-build", "authorize-ready", "install", "preflight", "a2b-first-round", "a2b-full"} \union TreePhases

ComponentNames(phase) ==
  CASE phase = "begin-build" -> {"artifactPeak"}
    [] phase = "authorize-ready" -> {"scratch"}
    [] phase = "install" -> {"rotationKeys", "fixedKeys", "buffers", "preRotated", "scratch"}
    [] phase = "preflight" -> {"preRotated", "scratch"}
    [] OTHER -> {"specifications", "pair", "masks", "polynomials", "preRotated", "scratch"}

NamedBytes(base, phase) ==
  LET c == base.components
  IN  CASE phase = "begin-build" -> base.artifactPeak
        [] phase = "authorize-ready" -> c.scratch
        [] phase = "install" -> c.rotationKeys ++ c.fixedKeys ++ c.buffers ++ c.preRotated ++ c.scratch
        [] phase = "preflight" -> c.preRotated ++ c.scratch
        [] OTHER -> c.specifications ++ c.pair ++ c.masks ++ c.polynomials ++ c.preRotated ++ c.scratch

\* What the second nibble round, the root tree, the node batch and the selected
\* child add: a number of rows of N coefficients, or of slot vectors of entries.
Rows(shape, n) == n ** RingUnits(shape) ** shape.coefficientBytes

A2BFullBytes(shape) ==
  LET stc == StcDiagonals(shape)
  IN  Encoded(shape, stc, <<3, shape.stcLevels[2]>>) ++ Numeric(shape, stc) ++ Text(shape, stc)
        ++ Rows(shape, 5 + 1)                                \* identity scale
        ++ Rows(shape, 12 ** shape.components ** (19 + 1))   \* retained ciphertexts

RootTreeBytes(shape) ==
  Rows(shape, 20 + 1) ++ Numeric(shape, 1)                   \* threshold
    ++ Rows(shape, 4 ** ((4 + 1) + (6 + 1))) ++ Numeric(shape, 4)   \* broadcast
    ++ Rows(shape, 3 + 1) ++ Rows(shape, 3 + 1) ++ Rows(shape, 2 + 1)   \* one and leaves
    ++ Rows(shape, 5 ** shape.components ** (4 + 1))

NodeBatchBytes(shape) ==
  Rows(shape, 21) ++ Numeric(shape, 1)
    ++ Rows(shape, 4 ** 12) ++ Numeric(shape, 4)
    ++ Rows(shape, 4) ++ Rows(shape, 3) ++ Rows(shape, 3 ** 4)      \* ones and role masks
    ++ Rows(shape, 3 ** 2) ++ Rows(shape, 1)                        \* leaves
    ++ Rows(shape, 16 ** shape.components ** 5)

SelectedChildBytes(shape) ==
  Rows(shape, 3 ** shape.components ** 21) ++ Rows(shape, 21)       \* features and threshold
    ++ Rows(shape, 4 ** 12) ++ Numeric(shape, 4)
    ++ Rows(shape, 19) ++ Rows(shape, 17) ++ Rows(shape, 15)        \* affine, conditioner, thresholds
    ++ Rows(shape, 8 ** 13) ++ Rows(shape, 5) ++ Rows(shape, 14)    \* low B0 and mask, terminal
    ++ Rows(shape, 20 ** shape.components ** 9)

\* The components of a phase, in groups, and what they add up to.
PhaseComponents(base, phase) ==
  [envelope |-> IF phase = "begin-build" THEN 0 ELSE base.maxFactor,
   named |-> NamedBytes(base, phase),
   full |-> IF phase \in {"a2b-full"} \union TreePhases THEN A2BFullBytes(base.shape) ELSE 0,
   tree |-> CASE phase = "root-tree" -> RootTreeBytes(base.shape)
              [] phase \in {"node-batch", "radix4-node"} -> NodeBatchBytes(base.shape)
              [] phase = "selected-child" -> SelectedChildBytes(base.shape)
              [] OTHER -> 0]

ComponentSum(c) == c.envelope ++ c.named ++ c.full ++ c.tree

\* An estimate of nothing is a missing one.
Missing(base, phase) ==
  \E n \in ComponentNames(phase) :
    0 = IF n = "artifactPeak" THEN base.artifactPeak ELSE base.components[n]

PhasePlanOf(profile, shape, policy, phase, base, components, peak) ==
  IF phase \notin Phases \/ base = NoPlan \/ Missing(base, phase) \/ peak = Overflow
  THEN NoPlan
  ELSE Sealed([kind |-> "phase", phase |-> phase, claims |-> "runtime_phase_capacity_only",
               profile |-> profile, shape |-> shape, policy |-> policy, base |-> base.digest,
               components |-> components, maxFactor |-> base.maxFactor,
               artifactPeak |-> base.artifactPeak, resident |-> base.resident,
               peak |-> peak, digest |-> NoDigest])

PhasePlanOn(profile, shape, policy, phase, base) ==
  PhasePlanOf(profile, shape, policy, phase, base, PhaseComponents(base, phase),
              ComponentSum(PhaseComponents(base, phase)))

NewPhasePlan(profile, shape, policy, phase) ==
  PhasePlanOn(profile, shape, policy, phase, NewCombinedPlan(profile, shape, policy))

-----------------------------------------------------------------------------
\* The constructors pin profile, shape and policy: these are the plans there are.
MadePlans ==
  {NewArtifactPlan(Profiled(Candidate), DefaultArtifactShape, DefaultPolicy),
   NewCombinedPlan(NewPackingProfile, DefaultPackingShape, DefaultPolicy)}
    \union {NewPhasePlan(NewPackingProfile, DefaultPackingShape, DefaultPolicy, phase) : phase \in Phases}
=============================================================================
