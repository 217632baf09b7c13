-------------------------- MODULE OneHotEvaluation --------------------------
(***************************************************************************)
(* EvaluateOBO and EvaluateFullLevel of integer/treeeval over the plain    *)
(* backend: a tree is evaluated on opaque features with nothing but public *)
(* constants, addition, subtraction, multiplication and CompareGE.  The    *)
(* path is a vector of weights, one per node of the level, of which one is *)
(* one.                                                                    *)
(*                                                                         *)
(* OBO selects the feature and the threshold of the active node with the   *)
(* weights and compares once per level; the full-level evaluation compares *)
(* every node of the level with its public threshold.                      *)
(*                                                                         *)
(* A number is real, or an integer of BitWidth bits that wraps around.     *)
(* One step of the model is one call of a helper of evaluator.go; a        *)
(* backend may fail in the middle of any of them.                          *)
(***************************************************************************)
EXTENDS Integers, Sequences, FiniteSets

CONSTANTS MaxDepth, FeatureIds, Operands, LeafValues, Inputs,
          ScalarKind,    \* "real", "unsigned" or "signed": features and thresholds
          BitWidth,      \* width of the integers
          LeftRange, RightRange   \* the policy's ranges, sets of numbers

Modulus == 2^BitWidth

\* Features, thresholds and leaves are values of the scalar type.
Representable(n) ==
  CASE ScalarKind = "real" -> TRUE
    [] ScalarKind = "unsigned" -> n \in 0 .. Modulus - 1
    [] ScalarKind = "signed" -> n \in -(Modulus \div 2) .. Modulus \div 2 - 1

ASSUME OneHotAssumption ==
  /\ MaxDepth \in Nat /\ FeatureIds \subseteq Nat
  /\ Operands \subseteq Int /\ LeafValues \subseteq Int /\ Inputs \subseteq Seq(Int)
  /\ ScalarKind \in {"real", "unsigned", "signed"} /\ BitWidth \in 1..64
  /\ \A n \in Operands \union LeafValues : Representable(n)
  /\ \A features \in Inputs : \A i \in DOMAIN features : Representable(features[i])

\* Not a restriction of the constants: what a power of two is, for provers that
\* know no arithmetic of ^.
ASSUME PowersOfTwo ==
  /\ Modulus \in Nat /\ Modulus >= 2 /\ Modulus % 2 = 0
  /\ 2^0 = 1 /\ \A d \in 0..MaxDepth : 2^(d + 1) = 2 * 2^d

VARIABLES tree, x,
          strategy,      \* "OBO" or "FullLevel"
          one,           \* the opaque one the caller brings
          leafKind,      \* the number type of the leaves
          depth,         \* levels finished
          weights,       \* one value per node of the level
          chosen,        \* OBO: the selected feature and threshold
          branches,      \* the comparison results of the level
          counts, peak,  \* OperationCounts
          phase, result

vars == <<tree, x, strategy, one, leafKind, depth, weights, chosen, branches,
          counts, peak, phase, result>>

-----------------------------------------------------------------------------
\* Values of the plain backend.

Value(kind, n, provenance) == [kind |-> kind, n |-> n, provenance |-> provenance]
Bad == Value("bad", 0, "invalid")
Nothing == Value("none", 0, "invalid")

\* SignedScalar, UnsignedScalar: the canonical low bits.
Encoded(kind, n) == IF kind = "real" THEN n ELSE n % Modulus
\* SignedValue, UnsignedValue
Decoded(v) ==
  IF v.kind = "signed" /\ v.n >= Modulus \div 2 THEN v.n - Modulus ELSE v.n

\* joinedKind. Fault: a result is opaque only if both operands are.
FaultJoined(a, b) ==
  IF a.provenance = "opaque" /\ b.provenance = "opaque" THEN "opaque" ELSE "public"
Joined(a, b) ==
  IF "opaque" \in {a.provenance, b.provenance} THEN "opaque" ELSE "public"

\* Two reals, or two integers of one type.
Matching(a, b) == a.kind = b.kind /\ a.kind # "bad"
\* integerAndBinaryReal: an integer and a real that is 0 or 1.
IsBit(v) == v.kind = "real" /\ v.n \in {0, 1}
IsInteger(v) == v.kind \in {"unsigned", "signed"}

Arithmetic(a, b, n) == Value(a.kind, Encoded(a.kind, n), Joined(a, b))

Add(a, b) ==
  CASE Matching(a, b) -> Arithmetic(a, b, a.n + b.n)
    [] IsInteger(a) /\ IsBit(b) /\ b.n = 0 -> Arithmetic(a, b, a.n)
    [] IsInteger(b) /\ IsBit(a) /\ a.n = 0 -> Arithmetic(b, a, b.n)
    [] OTHER -> Bad
\* Fault: the difference is taken the other way round.
FaultSub(a, b) == IF Matching(a, b) THEN Arithmetic(a, b, b.n - a.n) ELSE Bad
Sub(a, b) == IF Matching(a, b) THEN Arithmetic(a, b, a.n - b.n) ELSE Bad
Mul(a, b) ==
  CASE Matching(a, b) -> Arithmetic(a, b, a.n * b.n)
    [] IsInteger(a) /\ IsBit(b) -> Arithmetic(a, b, a.n * b.n)
    [] IsInteger(b) /\ IsBit(a) -> Arithmetic(b, a, a.n * b.n)
    [] OTHER -> Bad

\* validateOperand for the two sides, then the order of the policy's kind.
InRange(v, range) == v.kind = ScalarKind /\ (ScalarKind = "real" \/ Decoded(v) \in range)
\* Fault: signed operands are compared by their bits.
FaultCompareGE(a, b) ==
  IF ~InRange(a, LeftRange) \/ ~InRange(b, RightRange) THEN Bad
  ELSE Value("real", IF a.n >= b.n THEN 1 ELSE 0, Joined(a, b))
CompareGE(a, b) ==
  IF ~InRange(a, LeftRange) \/ ~InRange(b, RightRange) THEN Bad
  ELSE Value("real", IF Decoded(a) >= Decoded(b) THEN 1 ELSE 0, Joined(a, b))

Public(kind, n) == Value(kind, Encoded(kind, n), "public")
Opaque(kind, n) == Value(kind, Encoded(kind, n), "opaque")

-----------------------------------------------------------------------------
\* Operation counts.

OpKinds == {"PublicConstant", "CTCTMul", "CTPublicMul", "Add", "Sub",
            "CTCTCompare", "CTPublicCompare"}
NoCounts == [k \in OpKinds |-> 0]
Times(n, ops) == [i \in 1 .. n * Len(ops) |-> ops[((i - 1) % Len(ops)) + 1]]
Tally(ops) == [k \in OpKinds |-> Cardinality({i \in DOMAIN ops : ops[i] = k})]
Plus(c, d) == [k \in OpKinds |-> c[k] + d[k]]

\* observeLive. Fault: the peak of the sum is the sum of the peaks.
FaultObserve(p, paths, comparisons) ==
  LET path == IF paths > p.path THEN paths ELSE p.path
      comparison == IF comparisons > p.comparison THEN comparisons ELSE p.comparison
  IN  [path |-> path, comparison |-> comparison, total |-> path + comparison]
Observe(p, paths, comparisons) ==
  [path |-> IF paths > p.path THEN paths ELSE p.path,
   comparison |-> IF comparisons > p.comparison THEN comparisons ELSE p.comparison,
   total |-> IF paths + comparisons > p.total THEN paths + comparisons ELSE p.total]

-----------------------------------------------------------------------------
\* The helpers over the nodes of a level, numbered from 0.

Width == 2^depth
Level == 0 .. Width - 1
Split(i) == tree.splits[Width - 1 + i]

\* sumValues
Sum(terms, n) ==
  LET prefix[i \in 0 .. n - 1] ==
        IF i = 0 THEN terms[0] ELSE Add(prefix[i - 1], terms[i])
  IN  prefix[n - 1]

FeatureOf(split) == Opaque(ScalarKind, x[split.feature + 1])
ThresholdOf(split) == Public(ScalarKind, split.threshold)

SelectedFeature == Sum([i \in Level |-> Mul(weights[i], FeatureOf(Split(i)))], Width)
SelectedThreshold == Sum([i \in Level |-> Mul(weights[i], ThresholdOf(Split(i)))], Width)
SelectedLeaf ==
  Sum([i \in Level |-> Mul(weights[i], Public(leafKind, tree.leaves[i]))], Width)

\* updatePathWeights.  Fault: the old weights stay in front of the new ones.
FaultUpdatedAppended(w, b) ==
  [j \in 0 .. 3 * Width - 1 |->
     IF j < Width THEN w[j]
     ELSE LET i == (j - Width) \div 2
              right == Mul(w[i], b[i])
          IN  IF (j - Width) % 2 = 1 THEN right ELSE Sub(w[i], right)]
Updated(w, b) ==
  [j \in 0 .. 2 * Width - 1 |->
     LET right == Mul(w[j \div 2], b[j \div 2])
     IN  IF j % 2 = 1 THEN right ELSE Sub(w[j \div 2], right)]

\* The backend calls of each helper, in their order.
\* Fault: the sum of a selection takes one addition per term.
FaultSelectionOps(mul) == Times(Width, mul) \o Times(Width, <<"Add">>)
SelectionOps(mul) == Times(Width, mul) \o Times(Width - 1, <<"Add">>)
Ops(p) ==
  CASE p = "feature" -> SelectionOps(<<"CTCTMul">>)
    [] p \in {"threshold", "leaf"} -> SelectionOps(<<"PublicConstant", "CTPublicMul">>)
    [] p = "compare" -> IF strategy = "OBO" THEN <<"CTCTCompare">>
                        ELSE <<"PublicConstant", "CTPublicCompare">>
    [] p = "update" -> Times(Width, <<"CTCTMul", "Sub">>)

-----------------------------------------------------------------------------
Splits == [feature : FeatureIds, threshold : Operands]
Trees == UNION {[depth : {d}, splits : [0 .. 2^d - 2 -> Splits],
                 leaves : [0 .. 2^d - 1 -> LeafValues]] : d \in 0..MaxDepth}

Init ==
  /\ tree \in Trees /\ x \in Inputs
  /\ strategy \in {"OBO", "FullLevel"}
  /\ one \in {Opaque(k, 1) : k \in {"real", ScalarKind}}
  /\ leafKind \in {"real", ScalarKind}
  /\ depth = 0 /\ weights = <<>> /\ branches = <<>>
  /\ chosen = [feature |-> Nothing, threshold |-> Nothing]
  /\ counts = NoCounts /\ peak = [path |-> 0, comparison |-> 0, total |-> 0]
  /\ phase = "validate" /\ result = Nothing

\* validateInputs: every split's feature is there, and every threshold lies in
\* the policy's right range, on the path or not.
Admissible ==
  \A i \in DOMAIN tree.splits :
     /\ tree.splits[i].feature < Len(x)
     /\ InRange(ThresholdOf(tree.splits[i]), RightRange)

LevelBegins(d) ==
  IF d = tree.depth THEN "leaf" ELSE IF strategy = "OBO" THEN "feature" ELSE "compare"

Validate ==
  /\ phase = "validate"
  /\ phase' = IF Admissible THEN LevelBegins(0) ELSE "rejected"
  /\ IF Admissible
     THEN weights' = [i \in {0} |-> one] /\ peak' = Observe(peak, 1, 0)
     ELSE UNCHANGED <<weights, peak>>
  /\ UNCHANGED <<tree, x, strategy, one, leafKind, depth, chosen, branches, counts, result>>

Done(p, next) ==
  /\ phase = p
  /\ counts' = Plus(counts, Tally(Ops(p)))
  /\ phase' = next

SelectFeature ==
  /\ Done("feature", "threshold")
  /\ SelectedFeature # Bad
  /\ chosen' = [chosen EXCEPT !.feature = SelectedFeature]
  /\ UNCHANGED <<tree, x, strategy, one, leafKind, depth, weights, branches, peak, result>>

SelectThreshold ==
  /\ Done("threshold", "compare")
  /\ SelectedThreshold # Bad
  /\ chosen' = [chosen EXCEPT !.threshold = SelectedThreshold]
  /\ UNCHANGED <<tree, x, strategy, one, leafKind, depth, weights, branches, peak, result>>

\* OBO compares once and uses the branch for every path.
CompareSelected ==
  /\ strategy = "OBO"
  /\ Done("compare", "update")
  /\ LET branch == CompareGE(chosen.feature, chosen.threshold)
     IN  branch # Bad /\ branches' = [i \in Level |-> branch]
  /\ peak' = Observe(peak, Width, 1)
  /\ UNCHANGED <<tree, x, strategy, one, leafKind, depth, weights, chosen, result>>

\* The next node of the level.
CompareNode ==
  /\ strategy = "FullLevel"
  /\ LET i == Cardinality(DOMAIN branches)
         branch == CompareGE(FeatureOf(Split(i)), ThresholdOf(Split(i)))
         last == i = Width - 1
     IN  /\ Done("compare", IF last THEN "update" ELSE "compare")
         /\ branch # Bad
         /\ branches' = [j \in 0..i |-> IF j = i THEN branch ELSE branches[j]]
         /\ peak' = IF last THEN Observe(peak, Width, Width) ELSE peak
  /\ UNCHANGED <<tree, x, strategy, one, leafKind, depth, weights, chosen, result>>

UpdateWeights ==
  /\ Done("update", LevelBegins(depth + 1))
  /\ LET next == Updated(weights, branches)
     IN  (\A j \in DOMAIN next : next[j] # Bad) /\ weights' = next
  /\ depth' = depth + 1
  /\ peak' = Observe(peak, 2 * Width, 0)
  /\ branches' = <<>> /\ chosen' = [feature |-> Nothing, threshold |-> Nothing]
  /\ UNCHANGED <<tree, x, strategy, one, leafKind, result>>

SelectLeaf ==
  /\ Done("leaf", "returned")
  /\ SelectedLeaf # Bad /\ SelectedLeaf.provenance = "opaque"
  /\ result' = SelectedLeaf
  /\ UNCHANGED <<tree, x, strategy, one, leafKind, depth, weights, chosen, branches, peak>>

\* A call of the backend returns an error, or something of another provenance,
\* and the helper stops there.
BackendFails ==
  /\ phase \notin {"validate", "rejected", "returned", "failed"}
  /\ \E n \in 0 .. Len(Ops(phase)) :
        counts' = Plus(counts, Tally(SubSeq(Ops(phase), 1, n)))
  /\ phase' = "failed"
  /\ UNCHANGED <<tree, x, strategy, one, leafKind, depth, weights, chosen, branches,
                 peak, result>>

Next == Validate \/ SelectFeature \/ SelectThreshold \/ CompareSelected
          \/ CompareNode \/ UpdateWeights \/ SelectLeaf \/ BackendFails

Spec == Init /\ [][Next]_vars

-----------------------------------------------------------------------------
\* TypeOK of an evaluation.
TypeOK ==
  /\ phase \in {"validate", "rejected", "feature", "threshold", "compare", "update",
                "leaf", "returned", "failed"}
  /\ depth \in 0..tree.depth
  /\ phase \notin {"validate", "rejected"} => DOMAIN weights = Level
  /\ \A i \in DOMAIN weights : weights[i].kind = one.kind
  /\ counts \in [OpKinds -> Nat] /\ peak.total <= peak.path + peak.comparison

\* Exactly one weight is one: whatever the branches of inactive nodes are, they
\* change nothing, in integers that wrap around as well.
OneHot ==
  weights # <<>> =>
    /\ \A i \in DOMAIN weights : Decoded(weights[i]) = 0 \/ weights[i].n = 1
    /\ Cardinality({i \in DOMAIN weights : weights[i].n = 1}) = 1

\* The index of that weight, and the route it stands for.
Hot == IF weights = <<>> THEN 0 ELSE CHOOSE i \in DOMAIN weights : weights[i].n = 1

\* Both strategies implement the plain walk of the tree: a level is a step of
\* Route, the one-hot weight is its path, and the selected leaf its value.
Route == INSTANCE BinaryRoute
           WITH node <- 2^depth - 1 + Hot, leaf <- Hot,
                status <- IF phase = "returned" THEN "routed" ELSE "routing",
                value <- Decoded(result)
ImplementsRoute == Route!Spec

\* Everything that depends on a feature or on the path stays opaque, so no
\* comparison of OBO ever sees a public threshold.
NothingRevealed ==
  /\ \A i \in DOMAIN weights : weights[i].provenance = "opaque"
  /\ \A i \in DOMAIN branches : branches[i].provenance = "opaque"
  /\ chosen.threshold.kind # "none" =>
       chosen.threshold.provenance = "opaque" /\ chosen.feature.provenance = "opaque"

\* The counts the design document states for L leaves at depth D, reached by
\* a sum over levels, helpers and terms.
L == 2^tree.depth
OBO == strategy = "OBO"
DesignCounts ==
  [k \in OpKinds |->
     CASE k = "PublicConstant" -> 2 * L - 1
       [] k = "CTCTMul" -> IF OBO THEN 2 * (L - 1) ELSE L - 1
       [] k = "CTPublicMul" -> IF OBO THEN 2 * L - 1 ELSE L
       [] k = "Add" -> IF OBO THEN 3 * L - 3 - 2 * tree.depth ELSE L - 1
       [] k = "Sub" -> L - 1
       [] k = "CTCTCompare" -> IF OBO THEN tree.depth ELSE 0
       [] k = "CTPublicCompare" -> IF OBO THEN 0 ELSE L - 1]
CountsOfDesign ==
  /\ phase = "returned" => counts = DesignCounts
  /\ \A k \in OpKinds : counts[k] <= DesignCounts[k]

\* No more states are ever alive than there are leaves: the widest level's
\* comparisons and the weights they refine are together no more than the
\* weights that follow.
PeakIsLeaves == peak.total <= L /\ (phase = "returned" => peak.path = L)

\* Nothing of the path shows: the weights are one-hot, in integers that wrap
\* around as well, every value that depends on them stays opaque, and counts and
\* peak are those of the design document on every path, whichever backend call
\* fails (plain.go:118, evaluator.go:81, engine.go:111).
PathIsHidden == OneHot /\ NothingRevealed /\ CountsOfDesign /\ PeakIsLeaves
=============================================================================
