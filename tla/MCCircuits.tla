----------------------------- MODULE MCCircuits -----------------------------
(***************************************************************************)
(* All circuits of the homomorphic chain: the subject of a behavior is the *)
(* terminal leaf, with all its failures, or one of the staged programs.    *)
(***************************************************************************)
EXTENDS TerminalLeaf, RouteBCircuits, TLC

CONSTANT Cases

\* Signs, zero and a magnitude above one are what the bounds of the leaf tell apart.
Mixed == {-3, 0, 1}

-----------------------------------------------------------------------------
\* The evaluations of StagedCircuit: for each circuit its inputs, and in units of
\* 1/Den the results it has to give, exactly (wanted) or up to an integer
\* (residues).  They are computed from the words, not the circuit.

Fresh(m) == Word(TopLevel, DefaultScale, m)
Picked(l, r, b) == IF b = 1 THEN r ELSE l

Gives(program, given, wanted) ==
  [program |-> program, given |-> given, wanted |-> wanted, residues |-> None]
UpToIntegers(program, given, residues) ==
  [Gives(program, given, None) EXCEPT !.residues = residues]

\* Four bits of a word, and an integer that has to make no difference.
KernelCases ==
  [<<circuit, n, l>> \in {"Kernel", "KernelFullPacked", "KernelMSBOnly"} \X (0..15) \X (-2 .. 2) |->
     Gives(CASE circuit = "Kernel" -> Kernel
             [] circuit = "KernelFullPacked" -> KernelFullPacked
             [] circuit = "KernelMSBOnly" -> KernelMSBOnly,
           [Input |-> Operand(17, DefaultScale, l * Den - (Den \div 16) * n, 1)],
           IF circuit = "KernelMSBOnly" THEN [MSB |-> Den * (n \div 8)]
           ELSE [Identity |-> -16 * n, MSB |-> Den * (n \div 8)])]
PeriodicCases ==
  [<<circuit, j, l, b>> \in {"PeriodicBooleanN16"} \X (0..3) \X (-2 .. 2) \X (0..1) |->
     Gives(PeriodicBooleanN16(j),
           [Input |-> Operand(17, DefaultScale, Ring!TauInverse[j] * b + l * Den, 1)],
           [Output |-> Den * b])]
A2AICases ==
  [<<circuit, l, m>> \in {"A2AIHigh"} \X (-1 .. 1) \X {-128, -1, 0, 77} |->
     UpToIntegers(A2AIHigh(TopLevel, l), [Input |-> Fresh(m)], [Output |-> (-m) % Den])]

\* Every value of the bits that reach column j (of all columns, or of the first and
\* the last), with lifts of either sign.
LiftsOf(m) == <<(m % 3) - 1, 2 - (m % 5)>>
Reaching(columns) == {<<j, m>> \in columns \X (0..255) : m < 2^(j + 4)}
A2BFullCases ==
  [<<circuit, x>> \in {"A2BFull"} \X Reaching(1..4) |->
     [Gives(A2BFull(x[1], LiftsOf(x[2])), [Input |-> Fresh(x[2])], A2BBits(x[2], x[1]))
        EXCEPT !.residues = A2BCores]]
Ingress6Cases ==
  [<<circuit, x>> \in {"Ingress6"} \X Reaching({1, 4}) |->
     [Gives(Ingress6(x[1], LiftsOf(x[2])), [Input |-> Word(6, DefaultScale, x[2])], A2BBits(x[2], x[1]))
        EXCEPT !.residues = A2BCores]]
A2BRefreshCases ==
  [<<circuit, x>> \in {"A2BRefresh"} \X Reaching({1, 4}) |->
     UpToIntegers(A2BRefresh(x[1], LiftsOf(x[2])), [Input |-> Fresh(x[2])], RefreshedHalves(x[2], x[1]))]

SignCases ==
  [<<circuit, b>> \in {"SignFusion"} \X (0..1) |->
     Gives(SignFusion, [HighBoolean |-> Bit(5, DefaultScale, b)], [ArithmeticSign |-> -b])]
B2ACases ==
  [<<circuit, level, low, high>> \in {"B2A"} \X {5, TopLevel} \X (0..15) \X (0..15) |->
     Gives(B2A(level),
           [InputLow |-> Bit(level, DefaultScale, low), InputHigh |-> Bit(level, DefaultScale, high)],
           [Rescaled |-> -(16 * high + low)])]

\* Every difference the certified range admits, at both of its ends.
Compared == ((-64 .. 63) \X {-64}) \union ((-65 .. 63) \X {63})
SignedCases ==
  [<<circuit, public, w>> \in {"SignedComparator"} \X BOOLEAN \X Compared |->
     Gives(SignedComparator(public, LiftsOf(w[1] - w[2])),
           [FeatureInput |-> Fresh(w[1]), ThresholdInput |-> Fresh(w[2])],
           [GreaterEqual |-> -GreaterEqual(w[1], w[2])])]
ChildCases ==
  [<<circuit, w>> \in {"ChildComparator"} \X Compared |->
     Gives(ChildComparator(LiftsOf(w[1] - w[2])),
           [Feature |-> Word(6, DefaultScale, w[1]), Threshold |-> Word(6, DefaultScale, w[2])],
           [GreaterEqual |-> -GreaterEqual(w[1], w[2])])]

DecodeCases ==
  [<<circuit, j, l, seals, b>> \in {"Decode"} \X (0..3) \X (-2 .. 2) \X BOOLEAN \X (0..1) |->
     Gives(Decode(j, l, seals), [Input |-> Word(4, DefaultScale, b)], [Output |-> Den * b])]
ConditionerCases ==
  [<<circuit, b>> \in {"Conditioner"} \X (0..1) |->
     Gives(Conditioner, [Selector |-> Bit(8, RootScale, b)], [Conditioned |-> Den * b])]

-----------------------------------------------------------------------------
\* A tree of four different leaves, and words on both sides of its thresholds.
Thresholds == <<3, -20, 40>>
Leaves == <<5, -7, 0, 100>>

PrefixCases ==
  [<<circuit, b, l, r>> \in {"SourcePrefix"} \X (0..1) \X {-64, 0, 1} \X {0, 63} |->
     Gives(SourcePrefix(Thresholds[2], Thresholds[3]),
           [Selector |-> Bit(8, RootScale, b), Left |-> Fresh(l), Right |-> Fresh(r)],
           [SelectedFeature |-> -Picked(l, r, b),
            SelectedThreshold |-> -Picked(Thresholds[2], Thresholds[3], b)])]
RootTreeCases ==
  [<<circuit, public, f>> \in {"RootTree"} \X BOOLEAN \X {-64, 2, 3, 63} |->
     Gives(RootTree(public, 17, -100, <<2, -1>>), [Feature |-> Fresh(f), Threshold |-> Fresh(3)],
           [Output |-> -Picked(17, -100, GreaterEqual(f, 3))])]

\* The leaf a plain walk reaches.
Walk(root, left, right) ==
  LET b0 == GreaterEqual(root, Thresholds[1])
      b1 == GreaterEqual(Picked(left, right, b0), Picked(Thresholds[2], Thresholds[3], b0))
  IN  Leaves[1 + 2 * b0 + b1]
Features(f) == [RootFeature |-> Fresh(f[1]), LeftFeature |-> Fresh(f[2]), RightFeature |-> Fresh(f[3])]
Around == {2, 3} \X {-21, -20} \X {39, 40}
SelectedChildCases ==
  [<<circuit, j, f>> \in {"SelectedChild"} \X (0..3) \X Around |->
     Gives(SelectedChild(Thresholds, Leaves, j, <<1, 0, -1, 2, 1, -2>>), Features(f),
           [Leaf |-> Den * Walk(f[1], f[2], f[3])])]

-----------------------------------------------------------------------------
\* Route B.  Of the first round the low four bits come out.
RouteBA2BCases ==
  [<<circuit, x>> \in {"RouteBA2B"} \X Reaching({1, 4}) |->
     [Gives(RouteBA2B(x[1], LiftsOf(x[2])), [Input |-> Fresh(x[2])], A2BBits(x[2], x[1]))
        EXCEPT !.residues = A2BCores]]
FirstRoundCases ==
  [<<circuit, j, m>> \in {"RouteBFirstRound"} \X (1..4) \X (0..15) |->
     Gives(RouteBFirstRound(j, (m % 5) - 2), [Input |-> Fresh(m)],
           [MSB0 |-> Den * Ring!Bit(m, j - 1), ID0 |-> -((m % 2^j) * 2^(8 - j))])]
A2SignCases ==
  [<<circuit, m>> \in {"A2Sign"} \X (-128 .. 127) |->
     Gives(A2Sign(LiftsOf(m)), [Input |-> Word(6, DefaultScale, m)],
           [MSB1 |-> IF m < 0 THEN Den ELSE 0])]
RouteBRootTreeCases ==
  [<<circuit, t, f>> \in {"RouteBRootTree"} \X {-32, 31} \X {-96, -33, -32, 0, 30, 31, 95} |->
     Gives(RouteBRootTree(t, 17, -100, LiftsOf(f)), [Input |-> Fresh(f)],
           [Output |-> Den * Picked(17, -100, GreaterEqual(f, t))])]
RouteBSelectedChildCases ==
  [<<circuit, j, f>> \in {"RouteBSelectedChild"} \X (0..3) \X Around |->
     Gives(RouteBSelectedChild(Thresholds, Leaves, j, <<1, 0, -1, 2, 1>>), Features(f),
           [Output |-> Den * Walk(f[1], f[2], f[3])])]

\* The words of two queries, each of three features, and the leaves of both.
Pack(a, b) == [w \in 1..Words |-> Fresh(IF w <= 3 THEN a[w] ELSE IF w <= 6 THEN b[w - 3] ELSE 0)]
PackedLeaves(x, y) == [w \in 1..Words |-> Den * (IF w = 1 THEN x ELSE IF w = 4 THEN y ELSE 0)]

\* One feature and three increasing thresholds: the number passed picks the leaf,
\* as in the binary tree with the middle threshold at its root.
Increasing == <<-32, 0, 32>>
Passed(f) == Leaves[1 + GreaterEqual(f, -32) + GreaterEqual(f, 0) + GreaterEqual(f, 32)]
SameFeatureCases ==
  [<<circuit, f, g>> \in {"Radix4", "SameFeatureBinary"}
                          \X {-96, -33, -32, -1, 0, 31, 32, 95} \X {-64, 1} |->
     Gives(IF circuit = "Radix4" THEN Radix4(Increasing, Leaves, <<1, -1>>)
           ELSE SameFeatureBinary(Increasing, Leaves, <<1, -1>>),
           [Input |-> Pack(<<f, f, f>>, <<g, g, g>>)], [Output |-> PackedLeaves(Passed(f), Passed(g))])]
NodeBatchCases ==
  [<<circuit, f>> \in {"NodeBatch"} \X Around |->
     LET g == <<5 - f[1], -41 - f[2], 79 - f[3]>> IN
     Gives(NodeBatch(Thresholds, Leaves, <<1, -1>>), [Input |-> Pack(f, g)],
           [Output |-> PackedLeaves(Walk(f[1], f[2], f[3]), Walk(g[1], g[2], g[3]))])]

EveryCase ==
  KernelCases @@ PeriodicCases @@ A2AICases @@ A2BFullCases @@ Ingress6Cases @@ A2BRefreshCases
  @@ SignCases @@ B2ACases @@ SignedCases @@ ChildCases @@ DecodeCases @@ ConditionerCases
  @@ PrefixCases @@ RootTreeCases @@ SelectedChildCases
  @@ RouteBA2BCases @@ FirstRoundCases @@ A2SignCases @@ RouteBRootTreeCases
  @@ RouteBSelectedChildCases @@ SameFeatureCases @@ NodeBatchCases
\* TLC evaluates EveryCase once, and what replaces a constant at every use.
AllCases == EveryCase

-----------------------------------------------------------------------------
VARIABLES subject, case, made, pc, tally, outcome

C == INSTANCE StagedCircuit

terminalOnly == <<leaves, bits, error, phase, cts, payloads, completed, decoder,
                  intact, failureStage>>
stagedOnly == <<case, made, pc, tally, outcome>>

InitTerminal ==
  /\ subject = "terminal" /\ Init
  /\ case = "none" /\ made = <<>> /\ pc = 0 /\ tally = <<>> /\ outcome = "none"

InitStaged ==
  /\ subject = "staged" /\ C!Init
  /\ leaves = <<0, 0, 0, 0>> /\ bits = <<>> /\ error = <<>> /\ phase = "none"
  /\ cts = <<>> /\ payloads = 0 /\ completed = NoCounts /\ decoder = "none"
  /\ intact = TRUE /\ failureStage = "none"

MCInit == InitTerminal \/ InitStaged
MCNext ==
  \/ subject = "terminal" /\ Next /\ UNCHANGED <<subject, stagedOnly>>
  \/ subject = "staged" /\ C!Next /\ UNCHANGED <<subject, terminalOnly>>
MCSpec == MCInit /\ [][MCNext]_<<vars, subject, stagedOnly>>

-----------------------------------------------------------------------------
\* Whatever circuit is evaluated, a result it returns is the one it is for:
\* of the terminal leaf within its tolerance, of the programs exactly.
ResultsCorrect == ResultIsLeaf /\ C!ResultsCorrect

\* A run of any EvaluateNew in which no call fails and nothing is changed
\* returns its result: levels, scales, states and tally all fit one another.
CleanRunsReturn == CleanRunReturns /\ C!CleanRunReturns

\* The partial evidence of an operation's failure authenticates, both that of
\* the terminal leaf and that of the child selector decoder.
FailuresAuthenticate == FailureEvidenceAuthenticates /\ C!FailureEvidenceAuthenticates
=============================================================================
