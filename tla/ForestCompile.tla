---------------------------- MODULE ForestCompile ----------------------------
(***************************************************************************)
(* CompileModel of integer/treecompile: a forest of raw XGBoost trees,     *)
(* node arrays with child indices nobody has checked, becomes a forest of  *)
(* complete binary trees of one common depth, and RawMargin evaluates that *)
(* forest.  analyzeRawTree counts the parents of every node first and only *)
(* then walks from the root; CompileTreeAtDepth pads a shallow leaf into   *)
(* the range of leaves below it.                                           *)
(*                                                                         *)
(* One model is compiled and evaluated.  A number is an integer and one    *)
(* beyond MaxFinite is not finite; the conversion of the base score is     *)
(* left out, base is the margin it gives.                                  *)
(***************************************************************************)
EXTENDS Integers, Sequences, SequencesExt, FiniteSets

CONSTANTS Models,       \* sequences of raw trees
          NumFeature,   \* the feature count of a model
          Inputs,       \* feature vectors of that length
          Base,         \* the base margin
          MaxDepth,     \* MaxMaterializedDepth
          MaxFinite     \* the largest finite number

\* What the constants have to be; whoever instantiates this module assumes it.
ForestAssumption ==
  /\ NumFeature \in Nat /\ Inputs \subseteq [1..NumFeature -> Int]
  /\ MaxDepth \in Nat /\ MaxFinite \in Nat /\ Base \in -MaxFinite..MaxFinite

VARIABLES model, x,          \* the raw trees; the features of the evaluation
          status,            \* the phase, or the error it ended with
          k,                 \* the tree at work
          i, parents,        \* the loop over its nodes, their parents so far
          visited, frames,   \* the walk: the mark of each node, the calls of visit
          deepest, common,   \* the depth found, and that of all trees so far
          pending, forest,   \* the calls of fill to come, and the trees filled
          sum

analysis == <<i, parents, visited, frames, deepest, common>>
vars == <<model, x, status, k, analysis, pending, forest, sum>>

Raw == model[k]
Size == Cardinality(DOMAIN Raw)
\* A raw tree maps 0..n-1 to records of one node each.
Leaf(node) == node.left = -1 /\ node.right = -1
Larger(a, b) == IF a < b THEN b ELSE a

-----------------------------------------------------------------------------
\* analyzeRawTree

Init ==
  /\ model \in Models /\ x \in Inputs
  /\ status = "nodes" /\ k = 1
  /\ i = 0 /\ parents = [n \in DOMAIN model[1] |-> 0]
  /\ visited = [n \in DOMAIN model[1] |-> 0] /\ frames = <<>>
  /\ deepest = 0 /\ common = 0
  /\ pending = <<>> /\ forest = <<>> /\ sum = 0

\* Fault: a feature may be the count.
FaultMalformed(node) ==
  \/ (node.left = -1) # (node.right = -1)
  \/ /\ ~Leaf(node)
     /\ \/ node.feature \notin 0..NumFeature
        \/ {node.left, node.right} \ (0 .. Size - 1) # {}
Malformed(node) ==
  \/ (node.left = -1) # (node.right = -1)
  \/ /\ ~Leaf(node)
     /\ \/ node.feature \notin 0 .. NumFeature - 1
        \/ {node.left, node.right} \ (0 .. Size - 1) # {}

\* What is wrong with a node, in the order of the checks.
NodeStatus(node) ==
  CASE node.type # "numeric" -> "categorical"
    [] node.type = "numeric" /\ node.defaultLeft -> "default left"
    [] node.type = "numeric" /\ ~node.defaultLeft /\ Malformed(node) -> "malformed"
    [] OTHER -> "nodes"

CheckNode ==
  /\ status = "nodes" /\ i < Size
  /\ status' = NodeStatus(Raw[i])
  /\ IF status' = "nodes" /\ ~Leaf(Raw[i])
     THEN parents' = [n \in DOMAIN Raw |-> parents[n]
                        + (IF Raw[i].left = n THEN 1 ELSE 0)
                        + (IF Raw[i].right = n THEN 1 ELSE 0)]
     ELSE UNCHANGED parents
  /\ i' = i + 1
  /\ UNCHANGED <<model, x, k, visited, frames, deepest, common, pending, forest, sum>>

\* Fault: every node but the root has a parent.
FaultParentsFit(p) == p[0] = 0 /\ \A n \in DOMAIN p \ {0} : p[n] >= 1
ParentsFit(p) == p[0] = 0 /\ \A n \in DOMAIN p \ {0} : p[n] = 1

\* A call of visit: the node, its depth, and how many children it has visited.
Frame(node, depth) == [node |-> node, depth |-> depth, done |-> 0]

CheckParents ==
  /\ status = "nodes" /\ i = Size
  /\ IF Size > 0 /\ ParentsFit(parents)
     THEN /\ status' = "walk" /\ frames' = <<Frame(0, 0)>>
          /\ visited' = [visited EXCEPT ![0] = 1]
     ELSE status' = "malformed" /\ UNCHANGED <<frames, visited>>
  /\ UNCHANGED <<model, x, k, i, parents, deepest, common, pending, forest, sum>>

Top == Last(frames)
Children(node) == <<node.left, node.right>>
Unfinished == status = "walk" /\ frames # <<>>

\* visit reaches a child.  A child that is marked ends the walk or is skipped;
\* that never happens once the parents have been counted (WalkIsOnce).
VisitChild ==
  /\ Unfinished /\ ~Leaf(Raw[Top.node]) /\ Top.done < 2
  /\ LET child == Children(Raw[Top.node])[Top.done + 1]
     IN  /\ visited[child] = 0
         /\ visited' = [visited EXCEPT ![child] = 1]
         /\ frames' = Append([frames EXCEPT ![Len(frames)].done = @ + 1],
                             Frame(child, Top.depth + 1))
  /\ UNCHANGED <<model, x, status, k, i, parents, deepest, common, pending, forest, sum>>

\* Fault: the depth of the last leaf.
FaultDeeper(found, depth) == depth
Deeper(found, depth) == Larger(found, depth)

ReturnFromVisit ==
  /\ Unfinished /\ (Leaf(Raw[Top.node]) \/ Top.done = 2)
  /\ deepest' = IF Leaf(Raw[Top.node]) THEN Deeper(deepest, Top.depth) ELSE deepest
  /\ visited' = [visited EXCEPT ![Top.node] = 2]
  /\ frames' = Front(frames)
  /\ UNCHANGED <<model, x, status, k, i, parents, common, pending, forest, sum>>

\* The walk is over: CompileModel goes on to the next tree, or to padding.
Analyzed ==
  /\ status = "walk" /\ frames = <<>>
  /\ IF (\A n \in DOMAIN Raw : visited[n] = 2) /\ deepest <= MaxDepth
     THEN /\ common' = Larger(common, deepest)
          /\ deepest' = 0 /\ i' = 0
          /\ LET next == (k % Len(model)) + 1
             IN  /\ k' = next
                 /\ parents' = [n \in DOMAIN model[next] |-> 0]
                 /\ visited' = [n \in DOMAIN model[next] |-> 0]
          /\ status' = IF k < Len(model) THEN "nodes" ELSE "pad"
     ELSE /\ status' = "malformed"
          /\ UNCHANGED <<common, deepest, i, k, parents, visited>>
  /\ UNCHANGED <<model, x, frames, pending, forest, sum>>

-----------------------------------------------------------------------------
\* CompileTreeAtDepth.  The second analysis it begins with finds what the first
\* one has.

Dummy == [feature |-> 0, threshold |-> 0]
Fill(node, depth, heap, prefix) ==
  [node |-> node, depth |-> depth, heap |-> heap, prefix |-> prefix]

\* Fault: as many leaves as splits.
FaultPadded(depth) ==
  [depth |-> depth, splits |-> [h \in 0 .. 2^depth - 2 |-> Dummy],
   leaves |-> [l \in 0 .. 2^depth - 2 |-> 0]]
Padded(depth) ==
  [depth |-> depth, splits |-> [h \in 0 .. 2^depth - 2 |-> Dummy],
   leaves |-> [l \in 0 .. 2^depth - 1 |-> 0]]

Pad ==
  /\ status = "pad"
  /\ forest' = Append(forest, Padded(common))
  /\ pending' = <<Fill(0, 0, 0, 0)>>
  /\ status' = "fill"
  /\ UNCHANGED <<model, x, k, analysis, sum>>

Now == Head(pending)
\* Fault: the range of a shallow leaf starts at its prefix.
FaultBelow(f) == f.prefix .. f.prefix + 2^(common - f.depth) - 1
Below(f) ==
  LET remaining == common - f.depth
  IN  f.prefix * 2^remaining .. f.prefix * 2^remaining + 2^remaining - 1

FillLeaf ==
  /\ status = "fill" /\ pending # <<>> /\ Leaf(Raw[Now.node])
  /\ forest' = [forest EXCEPT ![k].leaves =
       [l \in DOMAIN @ |-> IF l \in Below(Now) THEN Raw[Now.node].value ELSE @[l]]]
  /\ pending' = Tail(pending)
  /\ UNCHANGED <<model, x, status, k, analysis, sum>>

FillSplit ==
  /\ status = "fill" /\ pending # <<>> /\ ~Leaf(Raw[Now.node])
  /\ LET node == Raw[Now.node]
     IN  /\ forest' = [forest EXCEPT ![k].splits[Now.heap] =
                        [feature |-> node.feature, threshold |-> node.value]]
         /\ pending' = <<Fill(node.left, Now.depth + 1, 2 * Now.heap + 1, 2 * Now.prefix),
                         Fill(node.right, Now.depth + 1, 2 * Now.heap + 2, 2 * Now.prefix + 1)>>
                       \o Tail(pending)
  /\ UNCHANGED <<model, x, status, k, analysis, sum>>

Filled ==
  /\ status = "fill" /\ pending = <<>>
  /\ k' = (k % Len(model)) + 1
  /\ status' = IF k < Len(model) THEN "pad" ELSE "compiled"
  /\ UNCHANGED <<model, x, analysis, pending, forest, sum>>

-----------------------------------------------------------------------------
\* Forest.Validate and RawMargin.

Validates ==
  \A t \in 1..Len(forest) :
    /\ forest[t].depth = common /\ common <= MaxDepth
    /\ \A h \in DOMAIN forest[t].splits : forest[t].splits[h].feature < NumFeature

RawMargin ==
  /\ status = "compiled"
  /\ Validates
  /\ sum' = Base
  /\ status' = "adding"
  /\ UNCHANGED <<model, x, k, analysis, pending, forest>>

\* BinaryTree.Evaluate: the leaf the features lead to, one level after another.
Evaluate(tree, features) ==
  LET at[d \in 0..tree.depth] ==
        IF d = 0 THEN 0
        ELSE LET split == tree.splits[at[d - 1]]
             IN  2 * at[d - 1] + (IF features[split.feature + 1] < split.threshold THEN 1 ELSE 2)
  IN  tree.leaves[at[tree.depth] - (2^tree.depth - 1)]

AddTree ==
  /\ status = "adding"
  /\ sum' = sum + Evaluate(forest[k], x)
  /\ status' = CASE sum' \notin -MaxFinite..MaxFinite -> "not finite"
                 [] sum' \in -MaxFinite..MaxFinite /\ k = Len(model) -> "margin"
                 [] OTHER -> "adding"
  /\ k' = (k % Len(model)) + 1
  /\ UNCHANGED <<model, x, analysis, pending, forest>>

Next == CheckNode \/ CheckParents \/ VisitChild \/ ReturnFromVisit \/ Analyzed
          \/ Pad \/ FillLeaf \/ FillSplit \/ Filled \/ RawMargin \/ AddTree

Spec == Init /\ [][Next]_vars /\ WF_vars(Next)

-----------------------------------------------------------------------------
\* TypeOK of a compilation.
TypeOK ==
  /\ status \in {"nodes", "walk", "pad", "fill", "compiled", "adding", "margin",
                 "not finite", "malformed", "categorical", "default left"}
  /\ k \in 1..Len(model) /\ i \in 0..Size
  /\ \A n \in DOMAIN visited : visited[n] \in 0..2
  /\ \A t \in 1..Len(forest) : DOMAIN forest[t].leaves = 0 .. 2^common - 1

\* The nodes that d or fewer steps from the root reach.
Reach(raw, d) ==
  LET reach[n \in 0..d] ==
        IF n = 0 THEN {0}
        ELSE reach[n - 1] \union
             UNION {{raw[m].left, raw[m].right} : m \in {m \in reach[n - 1] : ~Leaf(raw[m])}}
  IN  reach[d]

\* A tree by its definition: no child is shared, not even by the two sides of
\* one node, none is the root, and every node is reached.
Edges(raw) == {<<n, side, raw[n][side]>> : n \in {n \in DOMAIN raw : ~Leaf(raw[n])},
                                          side \in {"left", "right"}}
IsTree(raw) ==
  /\ \A e, f \in Edges(raw) : e[3] = f[3] => e = f
  /\ \A e \in Edges(raw) : e[3] # 0
  /\ Reach(raw, Cardinality(DOMAIN raw)) = DOMAIN raw

Plain(raw) ==
  \A n \in DOMAIN raw :
    /\ raw[n].type = "numeric" /\ ~raw[n].defaultLeft
    /\ Leaf(raw[n]) \/ /\ {raw[n].left, raw[n].right} \subseteq DOMAIN raw
                       /\ raw[n].feature \in 0 .. NumFeature - 1
Shallow(raw) == IsTree(raw) => Reach(raw, MaxDepth) = DOMAIN raw
Good(raw) == DOMAIN raw # {} /\ Plain(raw) /\ IsTree(raw) /\ Shallow(raw)

\* Counting parents before the walk is enough: the walk never meets a node
\* twice, so neither its cycle error nor its shortcut is ever taken, and it
\* ends on cyclic input.
WalkIsOnce ==
  Unfinished /\ ~Leaf(Raw[Top.node]) /\ Top.done < 2 =>
    visited[Children(Raw[Top.node])[Top.done + 1]] = 0

\* Exactly the forests of plain trees compile, and a tree is refused only at
\* its own turn: the nodes cannot form a shared, cyclic or disconnected graph
\* that passes, nor a tree that does not.
Refused == status \in {"malformed", "categorical", "default left"}
OnlyTreesCompile ==
  /\ status \in {"pad", "fill", "compiled", "adding", "margin"} =>
       \A t \in DOMAIN model : Good(model[t])
  /\ Refused => ~Good(Raw) /\ \A t \in 1 .. k - 1 : Good(model[t])

\* The common depth is that of the deepest tree: no forest is padded further
\* than one of its trees needs, and none loses a level.
CommonDepthIsDeepest ==
  status \in {"pad", "compiled", "margin"} =>
    /\ \A t \in DOMAIN model : Reach(model[t], common) = DOMAIN model[t]
    /\ common > 0 => \E t \in DOMAIN model : Reach(model[t], common - 1) # DOMAIN model[t]

\* The leaf of the raw tree itself.
RawLeaf(raw, features) ==
  LET at[d \in 0..MaxDepth] ==
        IF d = 0 THEN 0
        ELSE LET node == raw[at[d - 1]]
             IN  CASE Leaf(node) -> at[d - 1]
                   [] ~Leaf(node) /\ features[node.feature + 1] < node.value -> node.left
                   [] OTHER -> node.right
  IN  raw[at[MaxDepth]].value

\* The padded forest gives every input the margin of the raw trees, or reports
\* that a sum on the way was not finite: no padding, heap index or prefix
\* moves a leaf.
MarginOf(t) == Base + FoldLeft(LAMBDA total, raw : total + RawLeaf(raw, x), 0, SubSeq(model, 1, t))
MarginIsRaw ==
  /\ status = "margin" => sum = MarginOf(Len(model))
  /\ status = "not finite" => \E t \in DOMAIN model : MarginOf(t) \notin -MaxFinite..MaxFinite

\* A compilation ends, whatever graph the node arrays describe, and one that
\* produced a forest ends with a margin: RawMargin does not refuse what
\* CompileModel made.
EndsWithAnswer == <>(Refused \/ status \in {"margin", "not finite"})
=============================================================================
