------------------------- MODULE SelectorCircuits -------------------------
(***************************************************************************)
(* The programs of homchain that select: the branch of a comparison becomes*)
(* a selector, and selectors pick the children and leaves of a tree.       *)
(***************************************************************************)
EXTENDS A2BCircuits

----------------------------------------------------------------------------
(***************************************************************************)
(* A branch is an arithmetic word at level 4, of which the only use is to  *)
(* select.  The reraise decode brings it back up the modulus chain and     *)
(* makes a Boolean 0 or 1 of every slot: the phase of a slot is a root of  *)
(* unity that depends on the slot's coefficient of tau^-1, and the affine  *)
(* map of that slot takes the two roots it may be to 0 and 1.  A decoded   *)
(* selector keeps the scale two squarings left; the conditioner turns it   *)
(* into the scale q7 that multiplies a default scale and rescales to one.  *)
(***************************************************************************)

\* Slot j of a word holds its coefficient c_j, and the high half c_(j+4).
NormalV(j) == Operand(4, Prime(4), -Ring!TauInverse[j], 0)

-----------------------------------------------------------------------------
\* Groups of calls.  Errors come back from the middle of a group, after some of
\* its counts; the level and scale of most of what it makes are only compared
\* with the profile at the end.

\* evaluateNormalV: both transforms at once, then for each lane the sum with its
\* conjugate, then for each lane a rescaling.
RealPart == [Conj |-> 1, CTAdd |-> 1]
NormalVSteps ==
  LET raw == Expected(4, Times(DefaultScale, Prime(4)))
  IN  <<Dispatched(Unchecked(Partly(
          Step("VRawLow", "product", 0, <<"Input", "vLow">>, raw, [LT |-> 2, Conj |-> 1, CTAdd |-> 1]),
          {None, [LT |-> 2], [LT |-> 2, Conj |-> 1]})), [LT |-> 2]),
        Unchecked(Partly(Step("VRawHigh", "product", 0, <<"Input", "vHigh">>, raw, RealPart),
                         {None, [Conj |-> 1]})),
        Unchecked(Step("VLow", "rescale", 0, <<"VRawLow">>, At(3), [Rescale |-> 1])),
        Unchecked(Step("VHigh", "rescale", 0, <<"VRawHigh">>, At(3), [Rescale |-> 1]))>>

\* evaluateLinearFactor.
Linear(stage, from, matrix, level) ==
  Unchecked(Partly(Step(stage, "dft", 0, <<from, matrix>>, At(level), [LT |-> 1, Rescale |-> 1]),
                   {None, [LT |-> 1]}))

\* evaluateSlotsToCoeffs: i times the high half is added to the low half, whose
\* slots are the real part of what goes through the two factors.
SlotsToCoeffs ==
  LET combine == [ScalarI |-> 1, CTAdd |-> 1]
      linear == [ScalarI |-> 1, CTAdd |-> 1, LT |-> 1]
      all == [ScalarI |-> 1, CTAdd |-> 1, LT |-> 1, Rescale |-> 1]
      factor0 == Step("STCFactor0", "dft", 0, <<"VLow", "stc0">>, At(2), all)
  IN  <<Dispatched(Unchecked(Partly(factor0, {None, [ScalarI |-> 1], combine, linear})),
                   [ScalarI |-> 1]),
        Linear("STCFactor1", "STCFactor0", "stc1", 1)>>

\* evaluateCoeffsToSlots.  Both halves are made, then appended one after the other;
\* the decoder goes on with the low one, the sum of the last factor with its
\* conjugate.
CoeffsToSlots ==
  LET split == [Conj |-> 1, CTAdd |-> 2, ScalarI |-> 1]
      partial == {None, [Conj |-> 1], [Conj |-> 1, CTAdd |-> 1], [Conj |-> 1, CTAdd |-> 1, ScalarI |-> 1]}
  IN  <<Dispatched(Linear("CTSFactor0", "ModUp", "cts0", 19), [LT |-> 1]),
        Linear("CTSFactor1", "CTSFactor0", "cts1", 18),
        Linear("CTSFactor2", "CTSFactor1", "cts2", 17),
        Unchecked(Partly(Step("CTSLow", "copy", 0, <<"CTSFactor2">>, At(17), split), partial)),
        Unchecked(Sure(Step("CTSHigh", "copy", 0, <<"CTSFactor2">>, At(17), None)))>>

\* evaluatePeriodicBoolean.
Square(stage, from, level, scale) ==
  Partly(Step(stage, "square", 0, <<from>>, Expected(level, scale),
              [CTCT |-> 1, Relin |-> 1, Rescale |-> 1]),
         {None, [CTCT |-> 1, Relin |-> 1]})
PeriodicBoolean ==
  <<Dispatched(Step("PeriodicExp", "exponential", 0, <<"CTSLow">>, At(11), [Exp |-> 1]), [Exp |-> 1]),
    Square("PeriodicSq0", "PeriodicExp", 10, SquareScale),
    Square("PeriodicRoot", "PeriodicSq0", 9, RootScale),
    LevelOnly(Step("AffineRaw", "decode", 0, <<"PeriodicRoot", "affine">>,
                   Expected(9, Times(RootScale, Prime(9))), [CTPT |-> 1])),
    Partly(Step("Output", "rescale", 0, <<"AffineRaw">>, Expected(8, RootScale),
                [Rescale |-> 1, CTAdd |-> 1, PTAdd |-> 1]),
           {None, [Rescale |-> 1]})>>

\* deriveSelectorPeriodicCounts, without what happens inside a transformation.
DecodeProfile ==
  [LT |-> 7, Conj |-> 3, CTAdd |-> 6, ScalarI |-> 2, Rescale |-> 10, ScaleDown |-> 1,
   ModUp |-> 1, Exp |-> 1, CTCT |-> 2, Relin |-> 2, CTPT |-> 1, PTAdd |-> 1]

\* SelectorReraiseDecodeEvaluator.evaluateNew and, sealing what is left of a
\* failure, Signed8Depth2ChildSelectorDecodeEvaluator.evaluateNew; slot j.
Decode(j, lift, seals) ==
  [inputs |-> [Input |-> 1],
   operands |-> [vLow |-> NormalV(j), vHigh |-> NormalV(j + 4), affine |-> Affine(j),
                 stc0 |-> Matrix(3, 1), stc1 |-> Matrix(2, 1),
                 cts0 |-> Matrix(20, 1), cts1 |-> Matrix(19, 1), cts2 |-> Matrix(18, 1)],
   steps |-> NormalVSteps \o SlotsToCoeffs
     \o <<Dispatched(Step("ScaleDown", "scale down", 0, <<"STCFactor1">>, At(0), [ScaleDown |-> 1]),
                     [ScaleDown |-> 1]),
          Dispatched(Step("ModUp", "mod up", lift, <<"ScaleDown">>, At(TopLevel), [ModUp |-> 1]),
                     [ModUp |-> 1])>>
     \o CoeffsToSlots \o PeriodicBoolean,
   profile |-> DecodeProfile, first |-> 1, states |-> 19, seals |-> seals]

-----------------------------------------------------------------------------
\* ScalarSelectorConditionEvaluator.EvaluateNew; its states are taken at the end.
\* Fault: the multiplier has the scale that a selector at the default scale needs.
FaultConditionScale == Over(Times(Prime(8), Prime(7)), DefaultScale)
ConditionScale == Over(Times(Prime(8), Prime(7)), RootScale)
Conditioner ==
  [inputs |-> [Selector |-> 1], operands |-> [multiplier |-> Operand(8, ConditionScale, 1, 0)],
   steps |-> <<Quiet(Step("Raw", "product", 0, <<"Selector", "multiplier">>,
                          Expected(8, Times(Prime(8), Prime(7))), None)),
               Batch(Step("Conditioned", "rescale", 0, <<"Raw">>, Expected(7, Prime(7)), None), 2)>>,
   profile |-> None, first |-> 0, states |-> 2, seals |-> FALSE]

\* Signed8Depth2SourcePrefixEvaluator.EvaluateNew: left + b (right - left), once
\* of two encrypted features and once of two public thresholds.  Nothing is
\* returned of a failure, and the nine states are taken when all is done.
SourcePrefix(leftThreshold, rightThreshold) ==
  LET raw == Expected(7, Times(Prime(7), DefaultScale))
  IN  [inputs |-> [Selector |-> 1, Left |-> 2, Right |-> 3],
       operands |-> [delta |-> Word(7, DefaultScale, rightThreshold - leftThreshold),
                     left |-> Word(6, DefaultScale, leftThreshold)],
       steps |-> <<Quiet(Call("Conditioned", Conditioner, <<"Selector">>, "Conditioned",
                              Expected(7, Prime(7)), None)),
                   Quiet(Step("FeatureDelta", "difference", 0, <<"Right", "Left">>, At(TopLevel), None)),
                   Quiet(Step("FeatureRaw", "product", 0, <<"Conditioned", "FeatureDelta">>, raw, None)),
                   Quiet(Step("FeatureProduct", "rescale", 0, <<"FeatureRaw">>, At(6), None)),
                   Quiet(Sure(Step("LeftAligned", "drop", 6, <<"Left">>, At(6), None))),
                   Quiet(Step("SelectedFeature", "sum", 0, <<"FeatureProduct", "LeftAligned">>, At(6), None)),
                   Quiet(Step("ThresholdRaw", "product", 0, <<"Conditioned", "delta">>, raw, None)),
                   Quiet(Step("ThresholdProduct", "rescale", 0, <<"ThresholdRaw">>, At(6), None)),
                   Batch(Step("SelectedThreshold", "sum", 0, <<"ThresholdProduct", "left">>, At(6), None), 9)>>,
       profile |-> None, first |-> 0, states |-> 9, seals |-> FALSE]

----------------------------------------------------------------------------
(***************************************************************************)
(* The trees over a signed byte.  RootTree is the one of depth 1: the      *)
(* branch of a comparison picks one of two leaves.  SelectedChild is the   *)
(* one of depth 2: the root branch, decoded to a selector, picks the       *)
(* feature and the threshold of the child; the child branch, decoded too,  *)
(* and the conditioned root selector pick one of four leaves.              *)
(***************************************************************************)

\* Signed8RootTreeEvaluator.evaluateNew.
RootTree(public, left, right, lifts) ==
  [inputs |-> [Feature |-> 1, Threshold |-> 2],
   operands |-> [delta |-> Operand(4, Prime(4), right - left, 0),
                 left |-> Word(3, DefaultScale, left)],
   steps |-> <<Call("ComparatorGE", SignedComparator(public, lifts), <<"Feature", "Threshold">>,
                    "GreaterEqual", At(4), [Comparator |-> 1]),
               Step("RawProduct", "product", 0, <<"ComparatorGE", "delta">>,
                    Expected(4, Times(DefaultScale, Prime(4))), [CTPT |-> 1]),
               Step("RescaledProduct", "rescale", 0, <<"RawProduct">>, At(3), [Rescale |-> 1]),
               Step("Output", "sum", 0, <<"RescaledProduct", "left">>, At(3), [PTAdd |-> 1])>>,
   profile |-> [Comparator |-> 1, CTPT |-> 1, Rescale |-> 1, PTAdd |-> 1],
   first |-> 0, states |-> 4, seals |-> FALSE]

-----------------------------------------------------------------------------
\* The four leaves, multiplexed by the child selector and the root selector;
\* module TerminalLeaf has every failure of this evaluation.
TerminalDelta == Over(Times(Prime(8), DefaultScale), RootScale)
Terminal(leafValues, j, lift) ==
  LET deltaL == leafValues[2] - leafValues[1]
      raw == Expected(8, Times(Prime(8), DefaultScale))
  IN  [inputs |-> [ChildBranch |-> 1, RootSelector |-> 2],
       operands |-> [dL |-> Operand(8, TerminalDelta, deltaL, 0),
                     cross |-> Operand(8, TerminalDelta, leafValues[4] - leafValues[3] - deltaL, 0),
                     l00 |-> Operand(7, DefaultScale, leafValues[1], 0),
                     dX |-> Operand(7, DefaultScale, leafValues[3] - leafValues[1], 0)],
       steps |-> <<Call("DecodedChild", Decode(j, lift, TRUE), <<"ChildBranch">>, "Output",
                        Expected(8, RootScale), None),
                   Step("RawA", "product", 0, <<"DecodedChild", "dL">>, raw, None),
                   Step("RescaledA", "rescale", 0, <<"RawA">>, At(7), None),
                   Step("AffineA", "sum", 0, <<"RescaledA", "l00">>, At(7), None),
                   Step("RawD", "product", 0, <<"DecodedChild", "cross">>, raw, None),
                   Step("RescaledD", "rescale", 0, <<"RawD">>, At(7), None),
                   Step("AffineD", "sum", 0, <<"RescaledD", "dX">>, At(7), None),
                   Step("RawY", "product", 0, <<"RootSelector", "AffineD">>,
                        Expected(7, Times(Prime(7), DefaultScale)), None),
                   Step("RescaledY", "rescale", 0, <<"RawY">>, At(6), None),
                   Step("AlignedA", "drop", 6, <<"AffineA">>, At(6), None),
                   Step("Output", "sum", 0, <<"AlignedA", "RescaledY">>, At(6), None)>>,
       profile |-> None, first |-> 1, states |-> 12, seals |-> FALSE]

\* Signed8Depth2SelectedChildEvaluator.EvaluatePublicNew.  The tree is the one
\* it was sealed with: thresholds <<root, left child, right child>>, four leaves.
\* The outputs of the one evaluation of the prefix are three.  Nothing but the
\* traces of its stages is kept.
SelectedChild(thresholds, leafValues, j, lifts) ==
  LET prefix == SourcePrefix(thresholds[2], thresholds[3])
      Prefixed(out, expected) ==
        Call(out, prefix, <<"RootSelector", "LeftFeature", "RightFeature">>, out, expected, None)
  IN  [inputs |-> [RootFeature |-> 1, LeftFeature |-> 2, RightFeature |-> 3],
       operands |-> [threshold |-> Word(TopLevel, DefaultScale, thresholds[1])],
       steps |-> <<Quiet(Call("RootBranch", SignedComparator(TRUE, <<lifts[1], lifts[2]>>),
                              <<"RootFeature", "threshold">>, "GreaterEqual", At(4), None)),
                   Quiet(Call("RootSelector", Decode(j, lifts[3], FALSE), <<"RootBranch">>, "Output",
                              Expected(8, RootScale), None)),
                   Quiet(Prefixed("Conditioned", Expected(7, Prime(7)))),
                   Quiet(Sure(Prefixed("SelectedFeature", At(6)))),
                   Quiet(Sure(Prefixed("SelectedThreshold", At(6)))),
                   Quiet(Call("ChildBranch", ChildComparator(<<lifts[4], lifts[5]>>),
                              <<"SelectedFeature", "SelectedThreshold">>, "GreaterEqual", At(4), None)),
                   Quiet(Call("Leaf", Terminal(leafValues, j, lifts[6]), <<"ChildBranch", "Conditioned">>,
                              "Output", At(6), None))>>,
       profile |-> None, first |-> 0, states |-> 0, seals |-> FALSE]

============================================================================
