------------------------------- MODULE MCRing -------------------------------
(***************************************************************************)
(* Words, trees over words, and residues: the codecs of integer/evaluator  *)
(* with the Context and the Functional8 engines modulo 2^8, the one-hot    *)
(* evaluation of trees over integers that wrap around, and the ring of     *)
(* Lattigo, its element operations, its transforms and one coefficient in  *)
(* residues.                                                               *)
(* The initial state chooses the subject; the variables of the others stay *)
(* unused.                                                                 *)
(***************************************************************************)
EXTENDS OneHotEvaluation

VARIABLES subject, answer, values, built, handles, s, words, poly, stage, m,
          level, q, p, value, last, steps

wordVars == <<answer, values, built, handles>>
elementVars == <<s, words, poly, m>>
ringVars == <<elementVars, stage>>
residueVars == <<level, q, p, value, last, steps>>
scenes == <<subject, vars, wordVars, ringVars, residueVars>>
Unused == "unused"

-----------------------------------------------------------------------------
\* A client, a server that only evaluates, and a context with narrow bounds.
Codecs == {"client", "server", "narrow"}
Keys == [c \in Codecs |-> IF c = "server" THEN {"relinearization"} ELSE {"encryption", "secret"}]
Minimum == [c \in Codecs |-> IF c = "narrow" THEN -4 ELSE -100]
Maximum == [c \in Codecs |-> IF c = "narrow" THEN 4 ELSE 100]
\* The last three are empty, too long, and out of the client's bounds.
WordVectors == {<<100>>, <<227>>, <<3, 255>>, <<>>, <<1, 2, 3>>, <<128>>}
\* Coefficients 0, 1 and 7 are what tau adds up to a coefficient; 31/256 is the
\* largest error below 1/8.
Worst == [j \in 0..7 |-> IF j = 1 THEN -31 ELSE 31]

Evaluator == INSTANCE IntegerEvaluator
  WITH WordBits <- 8, Contexts <- {"narrow"}, InitialLevel <- 2, Capacity <- 2,
       Inputs <- WordVectors, SignedInputs <- {<<-100, 4>>, <<130>>, <<-3>>},
       Noises <- {Worst, [j \in 0..7 |-> -Worst[j]]}, MaxValues <- 3

-----------------------------------------------------------------------------
\* Two engines whose difference intervals touch both ends of a byte, one whose
\* interval is too wide at each end.
Range4(x0, x1, t0, t1) ==
  [featureMin |-> x0, featureMax |-> x1, thresholdMin |-> t0, thresholdMax |-> t1]
EngineRanges ==
  [wide |-> Range4(-64, 63, -64, 64), low |-> Range4(-128, 0, -127, 0),
   over |-> Range4(-100, 100, -10, 100), under |-> Range4(-10, 100, -100, 10)]

FeatureVectors == {<<-64, 63, 0, -1>>, <<-128, 0, -127, -1>>, <<127, -128, 64, -65>>}
ThresholdVectors == {<<-64, 64, 0, 0>>, <<-127, 0, -127, 0>>, <<100, -10, 10, 100>>}
Depth2Models ==
  {[features |-> f, thresholds |-> t, leaves |-> <<3, -1, 7, 20>>] :
     f \in {<<0, 1, 0>>, <<1, 0, 0>>, <<0, 2, 1>>}, t \in {<<0, -64, 0>>, <<-1, 0, -127>>}}

Engine == INSTANCE Functional8Engine
  WITH WordBits <- 8, Engines <- DOMAIN EngineRanges, Ranges <- EngineRanges,
       Words <- FeatureVectors, Thresholds <- ThresholdVectors, Models <- Depth2Models,
       MaxHandles <- 3

ASSUME RingAssumption == Evaluator!EvaluatorAssumption /\ Engine!Z2nAssumption

-----------------------------------------------------------------------------
\* Complete trees of depth at most 2 over two features.  The signed integers
\* have two bits, so they wrap around at once, and a feature may lie outside the
\* policy's range.
Thresholds2 == {-2, 1}
Features2 == {<<a, b>> : a \in {-1, 1}, b \in {-1, 1}} \union {<<-2, 1>>, <<-1>>}
Left2 == -1..1
Right2 == -2..1

\* The other subjects leave the evaluation as it is before it starts.
OneTree == [depth |-> 0, splits |-> [i \in {} |-> 0], leaves |-> [i \in {0} |-> 0]]
NoEvaluation ==
  /\ tree = OneTree /\ x = <<-1>> /\ strategy = "OBO" /\ one = Opaque("real", 1) /\ leafKind = "real"
  /\ Init

-----------------------------------------------------------------------------
\* Element operations on words of 6 bits modulo 5 and 7; an accumulator is at
\* most what leaves room for two moduli.
Small == INSTANCE RingArithmetic WITH WordBits <- 6
Of(modulus) == [modulus |-> modulus, bred |-> Small!GenBRedConstant(modulus),
                mred |-> Small!GenMRedConstant(modulus)]
ElementOperands == {[x |-> v, y |-> y, z |-> z, a |-> a] :
               v \in 0..63, y \in 0..6, z \in {0, 4, 6}, a \in {0, 4, 5, 6, 7, 49, 53}}

\* Transforms in words of 12 bits, three above the largest modulus: standard of
\* degrees 8 to 64 and conjugate-invariant, with and without unrolled loops.
Wide == INSTANCE RingArithmetic WITH WordBits <- 12
Transformed ==
  {Wide!SubRing(8, 17, "standard"), Wide!SubRing(4, 17, "standard"), Wide!SubRing(16, 17, "standard"), Wide!SubRing(8, 241, "standard"),
   Wide!SubRing(16, 97, "standard"), Wide!SubRing(32, 193, "standard"), Wide!SubRing(64, 257, "standard"),
   Wide!SubRing(8, 97, "conjugate"), Wide!SubRing(16, 193, "conjugate")}
\* Some unit vectors, the largest words, words without a pattern, and words below
\* three moduli, as a basis extension leaves.
Vectors(r) ==
  LET I == 0 .. r.N - 1
  IN  {[j \in I |-> IF j = i THEN 1 ELSE 0] : i \in I \ (2 .. r.N - 3)}
      \cup {[j \in I |-> r.modulus - 1], [j \in I |-> (j * j * 7 + 3 * j + 5) % r.modulus],
            [j \in I |-> IF j % 2 = 0 THEN 3 * r.modulus - 1 ELSE 0]}
GaloisOf(r) == {5, 25 % r.nthRoot} \cup (IF r.type = "standard" THEN {r.nthRoot - 1} ELSE {})

Transform == INSTANCE RingTransform
  WITH WordBits <- 12, SubRings <- Transformed, Inputs <- Vectors,
       Monomials <- {1, -3, 9, 15}, Galois <- GaloisOf, phase <- stage

\* Three moduli and two; integers at zero, at the halves of the moduli and of
\* their products, and one whose extension is a word above two moduli.
ThreeModuli == [i \in 0..2 |-> <<13, 19, 31>>[i + 1]]
TwoModuli == [i \in 0..1 |-> <<11, 29>>[i + 1]]
Integers7 == {-3828, -100, 0, 6, 7, 123, 3800}

Residues == INSTANCE RNSRing
  WITH WordBits <- 8, ChainQ <- ThreeModuli, ChainP <- TwoModuli, FloatBits <- 6,
       Values <- Integers7, Scalars <- {-7, 40}, MaxSteps <- 3

-----------------------------------------------------------------------------
Unchosen(scene) ==
  /\ (scene \notin {"codec", "engine"}) => answer = Unused
  /\ (scene # "codec") => values = Unused
  /\ (scene # "engine") => (built = Unused /\ handles = Unused)
  /\ (scene \notin {"elements", "transform"}) => (s = Unused /\ words = Unused)
  /\ (scene # "transform") => (poly = Unused /\ m = Unused /\ stage = Unused)
  /\ (scene # "one-hot") => NoEvaluation
  /\ (scene # "residues") => /\ level = Unused /\ q = Unused /\ p = Unused
                            /\ value = Unused /\ last = Unused /\ steps = Unused

InitScene ==
  \/ subject = "codec" /\ Evaluator!Init /\ Unchosen("codec")
  \/ subject = "engine" /\ Engine!Init /\ Unchosen("engine")
  \/ subject = "elements" /\ s \in {Of(5), Of(7)} /\ words \in ElementOperands /\ Unchosen("elements")
  \/ subject = "transform" /\ Transform!Init /\ Unchosen("transform")
  \/ subject = "residues" /\ Residues!Init /\ Unchosen("residues")
  \/ subject = "one-hot" /\ Init /\ Unchosen("one-hot")

NextScene ==
  \/ subject = "codec" /\ Evaluator!Next
     /\ UNCHANGED <<subject, vars, built, handles, ringVars, residueVars>>
  \/ subject = "engine" /\ Engine!Next
     /\ UNCHANGED <<subject, vars, values, ringVars, residueVars>>
  \/ subject = "transform" /\ Transform!Next /\ UNCHANGED <<subject, vars, wordVars, residueVars>>
  \/ subject = "residues" /\ Residues!Next /\ UNCHANGED <<subject, vars, wordVars, ringVars>>
  \/ subject = "one-hot" /\ Next /\ UNCHANGED <<subject, wordVars, ringVars, residueVars>>

Scenes == InitScene /\ [][NextScene]_scenes
Transforms == subject = "transform" /\ Scenes

-----------------------------------------------------------------------------
\* The codecs of integer/evaluator decrypt, and the engines of ckksint answer, as
\* plain words, comparisons and trees would.
WordsAsPlain ==
  /\ subject = "codec" => Evaluator!DecryptsAsPlain
  /\ subject = "engine" => Engine!AnswersAsPlain

\* The element operations of lattigo/ring/vec_ops.go return the residue of the
\* plain result, below the least bounds there are, and its transforms are exact
\* and stay within the words (ntt.go).
OperationsExact ==
  /\ (subject = "elements" /\ words.y < s.modulus /\ words.z < s.modulus) =>
       Small!ElementsExact(s, words.x, words.y, words.z, words.a)
  /\ subject = "transform" => Transform!TransformIsExact /\ Transform!LazyWithinWord

\* Rescaling, basis extension and decomposition keep the words of one integer, in
\* exact ranges, and the integer is the one asked for, or of a lazy word one less.
ResiduesAsInteger == subject = "residues" => Residues!WordsOfValue /\ Residues!AsAsked

\* A lazy forward transform leaves words below two moduli, says ntt.go:211.
LazyOutputAsDocumented == subject = "transform" => Transform!LazyForwardAsDocumented
=============================================================================
