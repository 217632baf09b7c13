--------------------------- MODULE A2BCircuits ----------------------------
(***************************************************************************)
(* The programs of homchain that work on words and their bits: the kernels,*)
(* arithmetic to Boolean, and the comparators around it.                   *)
(***************************************************************************)
EXTENDS CircuitSteps

----------------------------------------------------------------------------
(***************************************************************************)
(* The innermost circuits.  Gao's kernel takes exp(2 pi i x / 4) of a slot *)
(* x, squares it twice, and evaluates two polynomials at the root of unity *)
(* that is left: ID, the code of x over sixteen, and MSB, its top bit, of  *)
(* which only the real part counts.  The kernel of the full packing of     *)
(* N = 2^16 evaluates one polynomial for both, ID + i MSB, and splits it.  *)
(* The periodic Boolean applies an affine map of the root of unity instead.*)
(* A2AIHigh is the refresh of a whole arithmetic word.                     *)
(***************************************************************************)

At(level) == Expected(level, DefaultScale)

\* The scales two squarings leave.
SquareScale == Over(Times(DefaultScale, DefaultScale), Prime(11))
RootScale == Over(Times(SquareScale, SquareScale), Prime(10))

\* The exponential and its squares.  An evaluation of a polynomial is counted
\* before its error is looked at, a squaring once its rescaling is done.
RootOfUnity(from) ==
  <<Early(Step("Exponential", "exponential", 0, <<from>>, At(11), [Exp |-> 1])),
    Step("Square0", "square", 0, <<"Exponential">>, Expected(10, SquareScale), [Square |-> 1]),
    Step("RootOfUnity", "square", 0, <<"Square0">>, Expected(9, RootScale), [Square |-> 1])>>

RealRecovery(stage, from) ==
  Partly(Step(stage, "copy", 0, <<from>>, At(5), [Conj |-> 1, Real |-> 1]), {None, [Conj |-> 1]})

\* GaoA2BKernelEvaluator.EvaluateNew, and that of N16/L11.
Kernel ==
  [inputs |-> [Input |-> 1], operands |-> None,
   steps |-> RootOfUnity("Input")
     \o <<Early(Step("IdentityLUT", "identity", 0, <<"RootOfUnity">>, At(5), [Tables |-> 2])),
          Sure(Step("MSBLUT", "sign bit", 0, <<"RootOfUnity">>, At(5), None)),
          RealRecovery("Identity", "IdentityLUT"), RealRecovery("MSB", "MSBLUT")>>,
   profile |-> [Exp |-> 1, Square |-> 2, Tables |-> 2, Conj |-> 2, Real |-> 2],
   first |-> 1, states |-> 8, seals |-> FALSE]

\* GaoA2BKernelN16L11Evaluator.evaluateNew of the full packing: the sum with the
\* conjugate is the one output, -i times the difference the other.
KernelFullPacked ==
  [inputs |-> [Input |-> 1], operands |-> None,
   steps |-> RootOfUnity("Input")
     \o <<Batch(Early(Step("PackedLUT", "both tables", 0, <<"RootOfUnity">>, At(5), [Tables |-> 1])), 2),
          Quiet(Unchecked(Partly(Step("Identity", "real part", 0, <<"PackedLUT">>, At(5), [Conj |-> 1]),
                                 {None, [Conj |-> 1]}))),
          Batch(Unchecked(Step("MSB", "imaginary part", 0, <<"PackedLUT">>, At(5), [Real |-> 2])), 2)>>,
   profile |-> [Exp |-> 1, Square |-> 2, Tables |-> 1, Conj |-> 1, Real |-> 2],
   first |-> 1, states |-> 8, seals |-> FALSE]

\* EvaluatePreparedMSBNew: only the sign bit, without states or counts, and the
\* squares are not looked at.
KernelMSBOnly ==
  LET prefix == RootOfUnity("Input")
  IN  [inputs |-> [Input |-> 1], operands |-> None,
       steps |-> <<Quiet(Step("Exponential", "exponential", 0, <<"Input">>, At(11), None)),
                   Quiet(Unchecked(Step("Square0", "square", 0, <<"Exponential">>, prefix[2].expected, None))),
                   Quiet(Unchecked(Step("RootOfUnity", "square", 0, <<"Square0">>, prefix[3].expected, None))),
                   Quiet(Step("MSBLUT", "sign bit", 0, <<"RootOfUnity">>, At(5), None)),
                   Quiet(Unchecked(Step("MSB", "copy", 0, <<"MSBLUT">>, At(5), None)))>>,
       profile |-> None, first |-> 0, states |-> 0, seals |-> FALSE]

-----------------------------------------------------------------------------
\* Slot j of a word holds its coefficient c_j, which is -TauInverse[j] times c7.
Affine(j) == Operand(9, Prime(9), Ring!TauInverse[j], 1)

\* GaoPeriodicBooleanN16L11Evaluator.EvaluateNew, slot j; the counts it reports
\* are those of its profile.
PeriodicBooleanN16(j) ==
  [inputs |-> [Input |-> 1], operands |-> [affine |-> Affine(j)],
   steps |-> <<Step("Exponential", "exponential", 0, <<"Input">>, At(11), None),
               Step("Square0", "square", 0, <<"Exponential">>, Expected(10, SquareScale), None),
               Step("RootOfUnity", "square", 0, <<"Square0">>, Expected(9, RootScale), None),
               Step("AffineRaw", "decode", 0, <<"RootOfUnity", "affine">>,
                    Expected(9, Times(RootScale, Prime(9))), None),
               Step("Output", "rescale", 0, <<"AffineRaw">>, Expected(8, RootScale), None)>>,
   profile |-> None, first |-> 1, states |-> 6, seals |-> FALSE]

-----------------------------------------------------------------------------
\* A2AIHighEvaluator.A2AIHighNew with matrices that start at level l: the word to
\* its coefficients, the coefficients to one prime and up the chain, and back.
\* Each state has a field of its own in the trace and is recorded before it is
\* compared; the scale never changes.
A2AIHigh(l, lift) ==
  [inputs |-> [Input |-> 1],
   operands |-> [v |-> Matrix(l, 1), stc |-> Matrix(l - 1, 2), cts |-> Matrix(TopLevel, 3),
                 u |-> Matrix(TopLevel - 3, 1)],
   steps |-> <<Step("ZToC", "dft", 0, <<"Input", "v">>, At(l - 1), None),
               Step("SlotsToCoeffs", "dft", 0, <<"ZToC", "stc">>, At(l - 3), None),
               Step("ScaleDown", "scale down", 0, <<"SlotsToCoeffs">>, At(0), None),
               Step("ModUp", "mod up", lift, <<"ScaleDown">>, At(TopLevel), None),
               Step("CoeffsToSlots", "dft", 0, <<"ModUp", "cts">>, At(TopLevel - 3), None),
               Step("Output", "dft", 0, <<"CoeffsToSlots", "u">>, At(TopLevel - 4), None)>>,
   profile |-> None, first |-> 1, states |-> 7, seals |-> FALSE]

----------------------------------------------------------------------------
(***************************************************************************)
(* Arithmetic to Boolean: a word becomes the eight ciphertexts of its bits.*)
(* The low four coefficients are refreshed and looked up first; what they  *)
(* hold (ID0) over sixteen is taken from the high four, which leaves those *)
(* on the kernel's grid.  A2BFull runs from the top of the modulus chain,  *)
(* A2BFullIngress6 from level 6 with another first DFT matrix, A2BRefresh  *)
(* is the refresh of both halves alone.  Column j of the low half is the   *)
(* coefficient 2c1, c1, c2 or c3, of the high half c4, c5, c6 or c7.       *)
(***************************************************************************)

LowColumn(level, j) == Operand(level, Prime(level), 2^(8 - j), 0)
HighColumn(level, j) == Operand(level, Prime(level), 2^(4 - j), 0)
Mask(level) == Operand(level, Prime(level), 1, 0)
\* Fault: ID0 is divided by eight.
FaultSixteenth == Operand(5, Prime(5), Den \div 8, 1)
Sixteenth == Operand(5, Prime(5), Den \div 16, 1)

\* One refresh: slots to coefficients, down to one prime, up to the whole chain,
\* and back to the slots.  The four states are appended together at its end.
RefreshStages(i) ==
  [stc |-> i \o "STC", down |-> i \o "ScaleDown", up |-> i \o "ModUp", cts |-> i \o "CTS"]
Refresh(i, from, matrix, depth, level, lift) ==
  LET s == RefreshStages(i)
  IN  <<Quiet(Step(s.stc, "dft", 0, <<from, matrix>>, At(level - depth), None)),
        Quiet(Step(s.down, "scale down", 0, <<s.stc>>, At(0), None)),
        Quiet(Step(s.up, "mod up", lift, <<s.down>>, At(TopLevel), None)),
        Batch(Step(s.cts, "dft", 0, <<s.up, "cts">>, At(TopLevel - 3),
                   [Refresh |-> 1, SharedCTS |-> 1]), 4)>>

\* The two outputs of one kernel call.
Lookup(i, from) ==
  <<Quiet(Call("ID" \o i, Kernel, <<from>>, "Identity", At(5), [Kernel |-> 1])),
    Batch(Sure(Call("MSB" \o i, Kernel, <<from>>, "MSB", At(5), None)), 2)>>

-----------------------------------------------------------------------------
\* The word is split and the low half masked.
Ingress(level) ==
  <<Quiet(Step("SpecialLow", "weigh", 0, <<"Input", "low">>, At(level - 1), [SpecialB0 |-> 1])),
    Batch(Sure(Step("SpecialHigh", "weigh", 0, <<"Input", "high">>, At(level - 1), None)), 2),
    Step("Mask0", "weigh", 0, <<"SpecialLow", "mask0">>, At(level - 2), [MaskRescale |-> 1])>>

\* From level 6 the low half is at level 5 already.
AlignLow(level) ==
  IF level = 6 THEN Sure(Step("LowAligned", "copy", 0, <<"SpecialLow">>, At(5), None))
  ELSE Sure(Step("LowAligned", "drop", 5, <<"SpecialLow">>, At(5), [Drop |-> 1]))

\* What is left of both halves without the low digit.
Update(level) ==
  <<Step("ID0Over16", "weigh", 0, <<"ID0", "sixteenth">>, At(4), [IDScale |-> 1]),
    Sure(Step("HighAligned", "drop", 4, <<"SpecialHigh">>, At(4), [Drop |-> 1])),
    Step("HighUpdated", "difference", 0, <<"HighAligned", "ID0Over16">>, At(4), [Sub |-> 1]),
    AlignLow(level),
    Step("LowSelfRemoved", "difference", 0, <<"LowAligned", "ID0">>, At(5), [Sub |-> 1]),
    Step("Mask1", "weigh", 0, <<"HighUpdated", "mask1">>, At(3), [MaskRescale |-> 1])>>

Egress ==
  <<Sure(Step("ID1Aligned", "drop", 4, <<"ID1">>, At(4), [Drop |-> 1])),
    Step("HighSelfRemoved", "difference", 0, <<"HighUpdated", "ID1Aligned">>, At(4), [Sub |-> 1])>>

Operands(level, j, firstSTC) ==
  [low |-> LowColumn(level, j), high |-> HighColumn(level, j), mask0 |-> Mask(level - 1),
   sixteenth |-> Sixteenth, mask1 |-> Mask(4), stc0 |-> firstSTC, stc1 |-> Matrix(3, 2),
   cts |-> Matrix(TopLevel, 3)]

A2BFullProfile ==
  [SpecialB0 |-> 1, MaskRescale |-> 2, Refresh |-> 2, Kernel |-> 2, IDScale |-> 1,
   Drop |-> 3, Sub |-> 3, SharedCTS |-> 2]

\* A2BFullEvaluator.EvaluateNew, column j, with the integers its two ModUps add.
A2BFull(j, lifts) ==
  [inputs |-> [Input |-> 1], operands |-> Operands(TopLevel, j, Matrix(18, 2)),
   steps |-> Ingress(TopLevel) \o Refresh("0", "Mask0", "stc0", 2, 18, lifts[1])
             \o Lookup("0", "0CTS") \o Update(TopLevel)
             \o Refresh("1", "Mask1", "stc1", 2, 3, lifts[2]) \o Lookup("1", "1CTS") \o Egress,
   profile |-> A2BFullProfile, first |-> 1, states |-> 24, seals |-> FALSE]

-----------------------------------------------------------------------------
\* A2BFullIngress6Evaluator.EvaluateNew.  refreshIter0 goes through the factors
\* of its matrix one by one and appends every state on its own; refreshIter1
\* takes the two factors of its matrix at once.
Factor(stage, from, matrix, level) ==
  Step(stage, "dft", 0, <<from, matrix>>, At(level), [FirstSTC |-> 1, FirstRescale |-> 1])
FirstSTC == <<Factor("Factor0", "Mask0", "stc0", 3), Factor("Factor1", "Factor0", "stc0b", 2)>>
SecondSTC ==
  <<Step("1STC", "dft", 0, <<"Mask1", "stc1">>, At(1), [SecondSTC |-> 2, SecondRescale |-> 2])>>

Guarded(i, from, lift) ==
  LET s == RefreshStages(i)
  IN  <<Step(s.down, "scale down", 0, <<from>>, At(0), [ScaleDown |-> 1, Refresh |-> 1]),
        Step(s.up, "mod up", lift, <<s.down>>, At(TopLevel), [ModUp |-> 1]),
        Step(s.cts, "dft", 0, <<s.up, "cts">>, At(TopLevel - 3), [CTS |-> 3, SharedCTS |-> 1])>>

Ingress6Profile ==
  [SpecialB0 |-> 1, MaskRescale |-> 2, FirstSTC |-> 2, FirstRescale |-> 2, ScaleDown |-> 2,
   ModUp |-> 2, CTS |-> 6, Refresh |-> 2, Kernel |-> 2, IDScale |-> 1, Drop |-> 2, Sub |-> 3,
   SecondSTC |-> 2, SecondRescale |-> 2, SharedCTS |-> 2]

Ingress6Operands(j) ==
  LET o == Operands(6, j, Matrix(4, 1))
  IN  [s \in DOMAIN o \union {"stc0b"} |-> IF s = "stc0b" THEN Matrix(3, 1) ELSE o[s]]

Ingress6(j, lifts) ==
  [inputs |-> [Input |-> 1], operands |-> Ingress6Operands(j),
   steps |-> Ingress(6) \o FirstSTC \o Guarded("0", "Factor1", lifts[1]) \o Lookup("0", "0CTS")
             \o Update(6) \o SecondSTC \o Guarded("1", "1STC", lifts[2]) \o Lookup("1", "1CTS")
             \o Egress,
   profile |-> Ingress6Profile, first |-> 1, states |-> 25, seals |-> FALSE]

-----------------------------------------------------------------------------
\* A2BRefreshEvaluator.EvaluateNew: both halves are masked and refreshed, one
\* after the other and without any kernel.  It keeps no counts.
A2BRefresh(j, lifts) ==
  [inputs |-> [Input |-> 1],
   operands |-> [low |-> LowColumn(TopLevel, j), high |-> HighColumn(TopLevel, j),
                 mask |-> Mask(19), stc |-> Matrix(18, 2), cts |-> Matrix(TopLevel, 3)],
   steps |-> <<Quiet(Step("SpecialLow", "weigh", 0, <<"Input", "low">>, At(19), None)),
               Batch(Sure(Step("SpecialHigh", "weigh", 0, <<"Input", "high">>, At(19), None)), 2),
               Quiet(Step("MaskedLow", "weigh", 0, <<"SpecialLow", "mask">>, At(18), None)),
               Batch(Step("MaskedHigh", "weigh", 0, <<"SpecialHigh", "mask">>, At(18), None), 2)>>
             \o Refresh("Low", "MaskedLow", "stc", 2, 18, lifts[1])
             \o Refresh("High", "MaskedHigh", "stc", 2, 18, lifts[2]),
   profile |-> [Refresh |-> 2, SharedCTS |-> 2], first |-> 1, states |-> 13, seals |-> FALSE]

-----------------------------------------------------------------------------
\* What a word m has to become, in units of 1/Den: the bits of column j, and two
\* cores that have nothing left of it; or, refreshed, what it was up to an integer.
A2BBits(m, j) == [MSB0 |-> Den * Ring!Bit(m, j - 1), MSB1 |-> Den * Ring!Bit(m, j + 3)]
A2BCores == [LowSelfRemoved |-> 0, HighSelfRemoved |-> 0]
RefreshedHalves(m, j) ==
  [LowCTS |-> (-m * 2^(8 - j)) % Den, HighCTS |-> (-m * 2^(4 - j)) % Den]

----------------------------------------------------------------------------
(***************************************************************************)
(* The circuits around A2B.  The sign of a difference is bit 7 of the word *)
(* it has; SignFusion makes an arithmetic word of that one bit of the four *)
(* packed in a high half, B2A makes the word of all eight bits.  The       *)
(* complement of the sign is the branch f >= t.  The root comparator takes *)
(* inputs at the top level, the child comparator two selected operands at  *)
(* level 6.                                                                *)
(***************************************************************************)

SignMatrix == Operand(5, Prime(5), -1, 1)

\* SignFusionEvaluator.EvaluateNew.  The state of either result is taken before
\* its level and scale are compared.  The counts are the profile's.
SignFusion ==
  [inputs |-> [HighBoolean |-> 1], operands |-> [sign |-> SignMatrix],
   steps |-> <<Step("RankOneLinear", "product", 0, <<"HighBoolean", "sign">>,
                    Expected(5, Times(DefaultScale, Prime(5))), None),
               Step("ArithmeticSign", "rescale", 0, <<"RankOneLinear">>, At(4), None)>>,
   profile |-> None, first |-> 1, states |-> 3, seals |-> FALSE]

\* B2AFullEvaluator.EvaluateNew on the two halves of four bits; here each half
\* is the number its bits make.
B2A(level) ==
  LET fused == Expected(level, Times(DefaultScale, Prime(level)))
  IN  [inputs |-> [InputLow |-> 1, InputHigh |-> 2],
       operands |-> [u0 |-> Operand(level, Prime(level), -1, 1),
                     u1 |-> Operand(level, Prime(level), -16, 1)],
       steps |-> <<Quiet(Step("FusedLow", "product", 0, <<"InputLow", "u0">>, fused, None)),
                   Batch(Step("FusedHigh", "product", 0, <<"InputHigh", "u1">>, fused, None), 2),
                   Step("Recombined", "sum", 0, <<"FusedLow", "FusedHigh">>, fused, None),
                   Step("Rescaled", "rescale", 0, <<"Recombined">>, At(level - 1), None)>>,
       profile |-> None, first |-> 2, states |-> 6, seals |-> FALSE]

-----------------------------------------------------------------------------
ArithmeticOne == Word(4, DefaultScale, 1)

\* Signed8ComparatorEvaluator.compareNew.  A public threshold is a plaintext and
\* has no state of its own.  A call is counted before its error is looked at.
SignedComparator(public, lifts) ==
  LET subtraction == IF public THEN [CTPTSub |-> 1] ELSE [CTCTSub |-> 1]
  IN  [inputs |-> [FeatureInput |-> 1, ThresholdInput |-> 2],
       operands |-> [one |-> ArithmeticOne],
       steps |-> <<Early(Step("Difference", "difference", 0, <<"FeatureInput", "ThresholdInput">>,
                              At(TopLevel), subtraction)),
                   Call("HighMSB", A2BFull(4, lifts), <<"Difference">>, "MSB1", At(5), None),
                   Call("ArithmeticSign", SignFusion, <<"HighMSB">>, "ArithmeticSign", At(4), None),
                   Step("NegatedSign", "negate", 0, <<"ArithmeticSign">>, At(4), [Negations |-> 1]),
                   Early(Step("GreaterEqual", "sum", 0, <<"NegatedSign", "one">>, At(4),
                              [PTAdds |-> 1]))>>,
       profile |-> [CTPTSub |-> IF public THEN 1 ELSE 0, CTCTSub |-> IF public THEN 0 ELSE 1,
                    Negations |-> 1, PTAdds |-> 1],
       first |-> IF public THEN 1 ELSE 2, states |-> IF public THEN 6 ELSE 7, seals |-> FALSE]

\* Signed8Depth2ChildComparatorEvaluator.EvaluateNew.  The ingress is bound to
\* the difference it is given, and a count is of a call that returned.
ChildComparator(lifts) ==
  [inputs |-> [Feature |-> 1, Threshold |-> 2], operands |-> [one |-> ArithmeticOne],
   steps |-> <<Step("Difference", "difference", 0, <<"Feature", "Threshold">>, At(6), [CTCTSub |-> 1]),
               Call("IngressHigh", Ingress6(4, lifts), <<"Difference">>, "MSB1", At(5), [Ingress |-> 1]),
               Call("ArithmeticSign", SignFusion, <<"IngressHigh">>, "ArithmeticSign", At(4),
                    [SignFusion |-> 1]),
               Step("NegatedSign", "negate", 0, <<"ArithmeticSign">>, At(4), [Negations |-> 1]),
               Step("GreaterEqual", "sum", 0, <<"NegatedSign", "one">>, At(4), [PTAdds |-> 1])>>,
   profile |-> [CTCTSub |-> 1, Ingress |-> 1, SignFusion |-> 1, Negations |-> 1, PTAdds |-> 1],
   first |-> 2, states |-> 7, seals |-> FALSE]

\* f >= t as an arithmetic word, and what has to be on the way to it.
GreaterEqual(f, t) == IF f >= t THEN 1 ELSE 0

============================================================================
