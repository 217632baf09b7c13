-------------------------- MODULE RouteBCircuits --------------------------
(***************************************************************************)
(* The programs of the Route-B runners, on one word and on packed queries. *)
(***************************************************************************)
EXTENDS SelectorCircuits

----------------------------------------------------------------------------
(***************************************************************************)
(* The evaluations of src/integer/secureeval on an installed evaluator:    *)
(* arithmetic to Boolean in full or its first round only, a tree of depth  *)
(* one over a public threshold, and the tree of depth two whose child is   *)
(* selected under encryption.  They differ from those of homchain in the   *)
(* refresh: the installed transform streams its factors and leaves a scale *)
(* that has drifted from the default one by less than 2^-40, and the scale *)
(* is set back, metadata only, if it is exactly the registered one.        *)
(* Nothing is returned of a failure; counts and states are then those the  *)
(* evaluation had got to.                                                  *)
(***************************************************************************)

\* A state that is recorded and only compared when the report is validated.
Recorded(stage, op, of, expected) == Unchecked(Step(stage, op, 0, of, expected, None))

\* runCanonicalRouteBFirstSparseMR0 and the normalization of what it leaves.
\* Some callers record the state before it, some the one after.
MR0Stages(i) == [down |-> i \o "ScaleDown", up |-> i \o "ModUp", cts |-> i \o "MR0", at |-> i \o "Normalized"]
MR0(i, from, lift, counts, before, after) ==
  LET s == MR0Stages(i)
  IN  <<Quiet(Step(s.down, "scale down", 0, <<from>>, At(0), None)),
        Quiet(Unchecked(Step(s.up, "mod up", lift, <<s.down>>, At(TopLevel), None))),
        Batch(Unchecked(Step(s.cts, "streamed dft", 0, <<s.up, "cts">>,
                             Expected(TopLevel - 3, Drifted), counts)), before),
        Batch(Step(s.at, "normalize", 0, <<s.cts>>, At(TopLevel - 3), None), after)>>

\* The kernel's eight states are appended before its outputs are looked at.
EightStates(i) ==
  <<Batch(Call("ID" \o i, Kernel, <<MR0Stages(i).at>>, "Identity", At(5), [Kernel |-> 1]), 8),
    Quiet(Sure(Call("MSB" \o i, Kernel, <<MR0Stages(i).at>>, "MSB", At(5), None)))>>

\* One round of refresh and lookup, from a half that is masked.
Round(i, from, matrix, level, lift, counts) ==
  <<Step(i \o "STC", "dft", 0, <<from, matrix>>, At(level), None)>>
  \o MR0(i, i \o "STC", lift, counts, 1, 0) \o EightStates(i)

-----------------------------------------------------------------------------
\* routeBA2BFullPreparedEvaluator.evaluateNew, column j.
RouteBA2B(j, lifts) ==
  LET refresh == [Refresh |-> 1, SharedCTS |-> 1]
  IN  [inputs |-> [Input |-> 1], operands |-> Operands(TopLevel, j, Matrix(18, 2)),
       steps |-> Ingress(TopLevel) \o Round("0", "Mask0", "stc0", 16, lifts[1], refresh)
                 \o Update(TopLevel) \o Round("1", "Mask1", "stc1", 1, lifts[2], refresh) \o Egress,
       profile |-> A2BFullProfile, first |-> 1, states |-> 32, seals |-> FALSE]

\* runCanonicalRouteBFirstSparseA2BFirstRound.
RouteBFirstRound(j, lift) ==
  [inputs |-> [Input |-> 1], operands |-> Operands(TopLevel, j, Matrix(18, 2)),
   steps |-> Ingress(TopLevel) \o Round("0", "Mask0", "stc0", 16, lift, None),
   profile |-> None, first |-> 1, states |-> 14, seals |-> FALSE]

-----------------------------------------------------------------------------
\* Threshold, sign and its broadcast from the last column to the four slots of
\* a word: one where the feature is not below its threshold.
Broadcast == Bit(4, Prime(4), 1)
BroadcastSign(raw, sign, from) ==
  <<Recorded(raw, "product", <<from, "broadcast">>, Expected(4, Times(DefaultScale, Prime(4)))),
    Recorded(sign, "rescale", <<raw>>, At(3))>>
NotBelow(lifts) ==
  <<Step("Difference", "difference", 0, <<"Input", "threshold">>, At(TopLevel), None),
    Unchecked(Call("HighBoolean", RouteBA2B(4, lifts), <<"Difference">>, "MSB1", At(5), None))>>
  \o BroadcastSign("BroadcastRaw", "Sign", "HighBoolean")
  \o <<Recorded("GE", "difference", <<"one", "Sign">>, At(3))>>

\* runCanonicalRouteBSigned8RootTree.
RouteBRootTree(threshold, left, right, lifts) ==
  [inputs |-> [Input |-> 1],
   operands |-> [threshold |-> Word(TopLevel, DefaultScale, threshold), broadcast |-> Broadcast,
                 one |-> Bit(3, DefaultScale, 1), delta |-> Operand(3, Prime(3), right - left, 0),
                 left |-> Operand(2, DefaultScale, left, 0)],
   steps |-> NotBelow(lifts)
     \o <<Recorded("LeafRaw", "product", <<"GE", "delta">>, Expected(3, Times(DefaultScale, Prime(3)))),
          Quiet(Recorded("Leaf", "rescale", <<"LeafRaw">>, At(2))),
          Recorded("Output", "sum", <<"Leaf", "left">>, At(2))>>,
   profile |-> None, first |-> 1, states |-> 8, seals |-> FALSE]

-----------------------------------------------------------------------------
\* runRouteBSigned8Depth2SelectedChildA2Sign: only the sign is wanted, so that
\* neither half is freed of its own digit, and the word comes in at level 6.
A2SignOperands ==
  [low |-> LowColumn(5, 4), high |-> HighColumn(5, 4), mask |-> Mask(4), sixteenth |-> Sixteenth,
   stc |-> Matrix(3, 2), cts |-> Matrix(TopLevel, 3)]
SignRound(i, from, masked, lift) ==
  <<Step(masked, "weigh", 0, <<from, "mask">>, At(3), None),
    Step(i \o "STC", "dft", 0, <<masked, "stc">>, At(1), None)>>
  \o MR0(i, i \o "STC", lift, None, 0, 1)
  \o <<Call("ID" \o i, Kernel, <<MR0Stages(i).at>>, "Identity", At(5), None),
       Sure(Call("MSB" \o i, Kernel, <<MR0Stages(i).at>>, "MSB", At(5), None))>>
A2Sign(lifts) ==
  [inputs |-> [Input |-> 1], operands |-> A2SignOperands,
   steps |-> <<Sure(Step("Aligned", "drop", 5, <<"Input">>, At(5), None)),
               Step("SpecialLow", "weigh", 0, <<"Aligned", "low">>, At(4), None),
               Sure(Step("SpecialHigh", "weigh", 0, <<"Aligned", "high">>, At(4), None))>>
     \o SignRound("0", "SpecialLow", "Mask0", lifts[1])
     \o <<Step("ID0Over16", "weigh", 0, <<"ID0", "sixteenth">>, At(4), None),
          Step("HighUpdated", "difference", 0, <<"SpecialHigh", "ID0Over16">>, At(4), None)>>
     \o SignRound("1", "HighUpdated", "Mask1", lifts[2]),
   profile |-> None, first |-> 1, states |-> 16, seals |-> FALSE]

-----------------------------------------------------------------------------
\* newRouteBSigned8Depth2SelectedChildScalePlan: the scales that make all terms
\* of the leaf end at that of the conditioned root selector.
BetaScale == Over(Times(Prime(3), Prime(7)), DefaultScale)
GammaScale == Over(Times(Prime(3), Prime(2)), DefaultScale)

\* newRouteBSigned8Depth2SelectedChildArtifacts, slot j.
SelectedChildOperands(thresholds, leafValues, j) ==
  [threshold |-> Word(TopLevel, DefaultScale, thresholds[1]),
   phase |-> Operand(4, Prime(4), Ring!TauInverse[j], 1), broadcast |-> Broadcast,
   stc |-> Matrix(3, 2), cts |-> Matrix(TopLevel, 3),
   conditioner |-> Operand(8, ConditionScale, 1, 0), rootOne |-> Bit(7, Prime(7), 1),
   thresholdDelta |-> Word(7, DefaultScale, thresholds[3] - thresholds[2]),
   leftThreshold |-> Word(6, DefaultScale, thresholds[2]), childOne |-> Bit(3, DefaultScale, 1),
   base |-> Operand(1, Prime(7), leafValues[1], 0),
   alpha |-> Operand(3, Prime(3), leafValues[3] - leafValues[1], 0),
   beta |-> Operand(3, BetaScale, leafValues[2] - leafValues[1], 0),
   gamma |-> Operand(3, GammaScale, leafValues[4] - leafValues[3] - leafValues[2] + leafValues[1], 0)]

\* The sign of the root goes back up the chain as a phase, slot by slot, and
\* comes out as the root selector.
RootSelectorSteps(j, lifts) ==
  <<Step("RootDifference", "difference", 0, <<"RootFeature", "threshold">>, At(TopLevel), None),
    Call("RootHigh", RouteBA2B(4, lifts), <<"RootDifference">>, "MSB1", At(5), None),
    Step("PhaseRaw", "product", 0, <<"RootHigh", "phase">>,
         Expected(4, Times(DefaultScale, Prime(4))), None),
    Step("Phase", "rescale", 0, <<"PhaseRaw">>, At(3), None),
    Step("PhaseSTC", "dft", 0, <<"Phase", "stc">>, At(1), None)>>
  \o MR0("Phase", "PhaseSTC", lifts[3], None, 0, 1)
  \o <<Call("RootSign", PeriodicBooleanN16(j), <<MR0Stages("Phase").at>>, "Output",
            Expected(8, RootScale), None),
       Step("ConditionedRaw", "product", 0, <<"RootSign", "conditioner">>,
            Expected(8, Times(Prime(8), Prime(7))), None),
       Step("ConditionedSign", "rescale", 0, <<"ConditionedRaw">>, Expected(7, Prime(7)), None),
       Step("RootGE", "difference", 0, <<"rootOne", "ConditionedSign">>, Expected(7, Prime(7)), None)>>

\* left + b (right - left), of the encrypted features and the public thresholds.
SelectedOperands ==
  LET raw == Expected(7, Times(Prime(7), DefaultScale))
  IN  <<Quiet(Sure(Step("LeftAt7", "drop", 7, <<"LeftFeature">>, At(7), None))),
        Quiet(Sure(Step("RightAt7", "drop", 7, <<"RightFeature">>, At(7), None))),
        Step("FeatureDelta", "difference", 0, <<"RightAt7", "LeftAt7">>, At(7), None),
        Step("FeatureRaw", "product", 0, <<"RootGE", "FeatureDelta">>, raw, None),
        Quiet(Unchecked(Step("FeatureProduct", "rescale", 0, <<"FeatureRaw">>, At(6), None))),
        Quiet(Sure(Step("LeftAt6", "drop", 6, <<"LeftAt7">>, At(6), None))),
        Step("SelectedFeature", "sum", 0, <<"FeatureProduct", "LeftAt6">>, At(6), None),
        Step("ThresholdRaw", "product", 0, <<"RootGE", "thresholdDelta">>, raw, None),
        Quiet(Unchecked(Step("ThresholdProduct", "rescale", 0, <<"ThresholdRaw">>, At(6), None))),
        Step("SelectedThreshold", "sum", 0, <<"ThresholdProduct", "leftThreshold">>, At(6), None),
        Step("ChildDifference", "difference", 0, <<"SelectedFeature", "SelectedThreshold">>, At(6), None)>>

ChildSelector(lifts) ==
  <<Call("ChildHigh", A2Sign(lifts), <<"ChildDifference">>, "MSB1", At(5), None),
    Step("ChildRaw", "product", 0, <<"ChildHigh", "broadcast">>,
         Expected(4, Times(DefaultScale, Prime(4))), None),
    Quiet(Unchecked(Step("ChildSign", "rescale", 0, <<"ChildRaw">>, At(3), None))),
    Step("ChildGE", "difference", 0, <<"childOne", "ChildSign">>, At(3), None)>>

\* l0 + alpha r + beta c + gamma r c, the product of three rescaled twice.
TerminalLeaves ==
  LET low(stage, from) ==
        Quiet(Sure(Step(stage, "drop", 1, <<from>>, Expected(1, Prime(7)), None)))
  IN  <<Step("RootTerminal", "drop", 3, <<"RootGE">>, Expected(3, Prime(7)), None),
        Step("ProductRaw", "product", 0, <<"RootTerminal", "ChildGE">>,
             Expected(3, Times(Prime(7), DefaultScale)), None),
        Step("AlphaRaw", "product", 0, <<"RootTerminal", "alpha">>,
             Expected(3, Times(Prime(7), Prime(3))), None),
        Step("Alpha", "rescale", 0, <<"AlphaRaw">>, Expected(2, Prime(7)), None),
        Step("BetaRaw", "product", 0, <<"ChildGE", "beta">>, Expected(3, Times(Prime(3), Prime(7))), None),
        Step("Beta", "rescale", 0, <<"BetaRaw">>, Expected(2, Prime(7)), None),
        Step("GammaRaw", "product", 0, <<"ProductRaw", "gamma">>,
             Expected(3, Times(Prime(7), Times(Prime(3), Prime(2)))), None),
        Step("GammaAfterQ3", "rescale", 0, <<"GammaRaw">>, Expected(2, Times(Prime(7), Prime(2))), None),
        Step("Gamma", "rescale", 0, <<"GammaAfterQ3">>, Expected(1, Prime(7)), None),
        low("AlphaAt1", "Alpha"), low("BetaAt1", "Beta"),
        Quiet(Unchecked(Step("AlphaBeta", "sum", 0, <<"AlphaAt1", "BetaAt1">>, Expected(1, Prime(7)), None))),
        Quiet(Unchecked(Step("AllTerms", "sum", 0, <<"AlphaBeta", "Gamma">>, Expected(1, Prime(7)), None))),
        Step("Output", "sum", 0, <<"AllTerms", "base">>, Expected(1, Prime(7)), None)>>

\* runCanonicalRouteBSigned8Depth2SelectedChild, slot j.
RouteBSelectedChild(thresholds, leafValues, j, lifts) ==
  [inputs |-> [RootFeature |-> 1, LeftFeature |-> 2, RightFeature |-> 3],
   operands |-> SelectedChildOperands(thresholds, leafValues, j),
   steps |-> RootSelectorSteps(j, lifts) \o SelectedOperands \o ChildSelector(<<lifts[4], lifts[5]>>)
             \o TerminalLeaves,
   profile |-> None, first |-> 3, states |-> 32, seals |-> FALSE]

----------------------------------------------------------------------------
(***************************************************************************)
(* The Route-B evaluations that pack several queries, three words each, in *)
(* one ciphertext: all words are compared with the threshold of their role *)
(* at once, role masks take the three selectors of a query apart, and two  *)
(* rotations bring them to its first word, where the leaf is combined.     *)
(* Words that belong to no query are padding.                              *)
(***************************************************************************)

\* The code packs 170 queries and 2 words of padding.
Queries == 2
Padding == 2
Words == 3 * Queries + Padding

Everywhere(x) == [w \in 1..Words |-> x]
HasRole(w, role) == w <= 3 * Queries /\ (w - 1) % 3 = role
\* routeBSigned8Depth2NodeBatchRoleSlots.
InRole(level, scale, role, x) ==
  [w \in 1..Words |-> Operand(level, scale, IF HasRole(w, role) THEN x ELSE 0, 0)]
\* routeBSigned8Depth2NodeBatchThresholdSlots: the words of padding have threshold 0.
PackedThresholds(thresholds) ==
  [w \in 1..Words |->
     Word(TopLevel, DefaultScale, IF w <= 3 * Queries THEN thresholds[((w - 1) % 3) + 1] ELSE 0)]

\* The operands both programs have.
SharedOperands(thresholds) ==
  [threshold |-> PackedThresholds(thresholds), broadcast |-> Everywhere(Broadcast),
   one |-> Everywhere(Bit(3, DefaultScale, 1)),
   role0 |-> InRole(3, Prime(3), 0, 1), role1 |-> InRole(3, Prime(3), 1, 1),
   role2 |-> InRole(3, Prime(3), 2, 1)]
Also(operands, more) ==
  [s \in DOMAIN operands \union DOMAIN more |->
     IF s \in DOMAIN more THEN more[s] ELSE operands[s]]
Constant(level, scale, x) == Everywhere(Operand(level, scale, x, 0))

Scaling(raw, stage, of, rawAt, at) ==
  <<Recorded(raw, "product", of, rawAt), Recorded(stage, "rescale", <<raw>>, at)>>

\* The selectors T0, T1 and T2 of each query, each in its own word and zero
\* elsewhere, and then all in the first.
Aligned ==
  LET raw == Expected(3, Times(DefaultScale, Prime(3)))
  IN  Scaling("T0Raw", "T0", <<"GE", "role0">>, raw, At(2))
      \o Scaling("T1Raw", "T1Masked", <<"GE", "role1">>, raw, At(2))
      \o Scaling("T2Raw", "T2Masked", <<"GE", "role2">>, raw, At(2))
      \o <<[Recorded("T1", "rotate", <<"T1Masked">>, At(2)) EXCEPT !.n = 1],
           [Recorded("T2", "rotate", <<"T2Masked">>, At(2)) EXCEPT !.n = 2]>>

\* The three terms and the base leaf, which only the first words of queries have.
Combined(level) ==
  <<Quiet(Recorded("Terms01", "sum", <<"Term0", "Term1">>, At(level))),
    Quiet(Recorded("Terms012", "sum", <<"Terms01", "Term2">>, At(level))),
    Recorded("Output", "sum", <<"Terms012", "base">>, At(level))>>

-----------------------------------------------------------------------------
\* runCanonicalRouteBSigned8Radix4: a node of four children over one feature, with
\* increasing thresholds; a threshold passed adds the step to the next leaf.
Radix4(thresholds, leafValues, lifts) ==
  LET raw == Expected(2, Times(DefaultScale, Prime(2)))
      delta(i) == Constant(2, Prime(2), leafValues[i + 1] - leafValues[i])
  IN  [inputs |-> [Input |-> 1], words |-> Words,
       operands |-> Also(SharedOperands(thresholds),
                         [d0 |-> delta(1), d1 |-> delta(2), d2 |-> delta(3),
                          base |-> InRole(1, DefaultScale, 0, leafValues[1])]),
       steps |-> NotBelow(lifts) \o Aligned
         \o Scaling("Term0Raw", "Term0", <<"T0", "d0">>, raw, At(1))
         \o Scaling("Term1Raw", "Term1", <<"T1", "d1">>, raw, At(1))
         \o Scaling("Term2Raw", "Term2", <<"T2", "d2">>, raw, At(1))
         \o Combined(1),
       profile |-> None, first |-> 1, states |-> 21, seals |-> FALSE]

-----------------------------------------------------------------------------
\* runCanonicalRouteBSigned8Depth2NodeBatch: a binary tree of depth 2, its three
\* nodes the three words of a query.  A path is the product of two selectors, and
\* its scale is not the default one.
PathScale == Over(Times(DefaultScale, DefaultScale), Prime(2))
LeafOperandScale == Over(Times(Prime(1), DefaultScale), PathScale)

\* The complement is one in the first words of queries only.
Paths ==
  LET raw == Expected(2, Times(DefaultScale, DefaultScale))
      path == Expected(1, PathScale)
  IN  <<Recorded("NotRoot", "difference", <<"rootOne", "T0">>, At(2)),
        Recorded("NotRight", "difference", <<"rootOne", "T2">>, At(2))>>
      \o Scaling("P01Raw", "P01", <<"NotRoot", "T1">>, raw, path)
      \o Scaling("P10Raw", "P10", <<"T0", "NotRight">>, raw, path)
      \o Scaling("P11Raw", "P11", <<"T0", "T2">>, raw, path)
      \o <<Recorded("RootRight", "sum", <<"P10", "P11">>, path)>>

NodeBatch(thresholds, leafValues, lifts) ==
  LET raw == Expected(1, Times(PathScale, LeafOperandScale))
      delta(i, k) == Constant(1, LeafOperandScale, leafValues[i] - leafValues[k])
  IN  [inputs |-> [Input |-> 1], words |-> Words,
       operands |-> Also(SharedOperands(thresholds),
                         [rootOne |-> InRole(2, DefaultScale, 0, 1),
                          d01 |-> delta(2, 1), dX |-> delta(3, 1), d11 |-> delta(4, 3),
                          base |-> InRole(0, DefaultScale, 0, leafValues[1])]),
       steps |-> NotBelow(lifts) \o Aligned \o Paths
         \o Scaling("Term0Raw", "Term0", <<"P01", "d01">>, raw, At(0))
         \o Scaling("Term1Raw", "Term1", <<"RootRight", "dX">>, raw, At(0))
         \o Scaling("Term2Raw", "Term2", <<"P11", "d11">>, raw, At(0))
         \o Combined(0),
       profile |-> None, first |-> 1, states |-> 30, seals |-> FALSE]

\* runCanonicalRouteBSigned8SameFeatureBinary writes the same evaluation out once
\* more, for the tree with the thresholds and leaves of the radix-4 node.
SameFeatureBinary(thresholds, leafValues, lifts) ==
  NodeBatch(<<thresholds[2], thresholds[1], thresholds[3]>>, leafValues, lifts)

============================================================================
