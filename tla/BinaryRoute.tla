---------------------------- MODULE BinaryRoute ----------------------------
(***************************************************************************)
(* BinaryTree of integer/treeplan: the plaintext meaning of a complete     *)
(* binary decision tree, which the radix plans and the one-hot evaluators  *)
(* have to keep.  Splits lie in breadth-first heap order, leaves in the    *)
(* order of their paths with the root's branch as the most significant     *)
(* bit.  Indices start at 0, as in the code.                               *)
(*                                                                         *)
(* Route walks one level per step.  A feature that the input does not have *)
(* is an error only when the walk meets it.                                *)
(***************************************************************************)
EXTENDS Integers, Sequences

CONSTANTS MaxDepth,      \* bound on the depth of a tree
          FeatureIds,    \* feature numbers a split may name
          Operands,      \* thresholds, integers
          LeafValues,    \* leaf values, integers
          Inputs         \* feature vectors

\* What the constants have to be; whoever instantiates this module assumes it.
RouteAssumption ==
  /\ MaxDepth \in Nat /\ FeatureIds \subseteq Nat
  /\ Operands \subseteq Int /\ LeafValues \subseteq Int
  /\ Inputs \subseteq Seq(Int)

VARIABLES tree, x,       \* the tree and the features
          depth,         \* levels walked
          node, leaf,    \* the heap index reached, the path so far
          status,        \* "routing", "routed" or "error"
          value          \* the value of the leaf, once routed

routeVars == <<tree, x, depth, node, leaf, status, value>>

-----------------------------------------------------------------------------
\* fullTreeCounts and Validate: the complete trees of some depth.
Splits == [feature : FeatureIds, threshold : Operands]
TreesOfDepth(d) ==
  [depth : {d}, splits : [0 .. 2^d - 2 -> Splits], leaves : [0 .. 2^d - 1 -> LeafValues]]
Trees == UNION {TreesOfDepth(d) : d \in 0..MaxDepth}

HasFeature(split) == split.feature < Len(x)
Feature(split) == x[split.feature + 1]

\* Fault: equality goes to the left.
FaultBranch(split) == IF Feature(split) <= split.threshold THEN 0 ELSE 1
Branch(split) == IF Feature(split) < split.threshold THEN 0 ELSE 1

Init ==
  /\ tree \in Trees /\ x \in Inputs
  /\ depth = 0 /\ node = 0 /\ leaf = 0
  /\ status = "routing" /\ value = 0

\* Fault: the children of the heap's node i are 2i and 2i + 1.
FaultChild(n, branch) == 2 * n + branch
Child(n, branch) == 2 * n + 1 + branch

\* Fault: the branch is shifted with the path.
FaultPath(l, branch) == 2 * (l + branch)
Path(l, branch) == 2 * l + branch

Descend ==
  /\ status = "routing" /\ depth < tree.depth
  /\ LET split == tree.splits[node]
     IN  /\ HasFeature(split)
         /\ leaf' = Path(leaf, Branch(split))
         /\ node' = Child(node, Branch(split))
  /\ depth' = depth + 1
  /\ UNCHANGED <<tree, x, status, value>>

FeatureMissing ==
  /\ status = "routing" /\ depth < tree.depth
  /\ ~HasFeature(tree.splits[node])
  /\ status' = "error"
  /\ UNCHANGED <<tree, x, depth, node, leaf, value>>

Arrive ==
  /\ status = "routing" /\ depth = tree.depth
  /\ status' = "routed"
  /\ value' = tree.leaves[leaf]
  /\ UNCHANGED <<tree, x, depth, node, leaf>>

Next == Descend \/ FeatureMissing \/ Arrive

Spec == Init /\ [][Next]_routeVars

-----------------------------------------------------------------------------
\* TypeOK of a walk.
TypeOK ==
  /\ depth \in 0..tree.depth /\ node \in Nat /\ leaf \in 0 .. 2^depth - 1
  /\ status \in {"routing", "routed", "error"}

\* The split that decides the k-th bit of leaf l of a tree of depth d.
Decides(l, k, d) == 2^k - 1 + l \div 2^(d - k)
\* Leaf l is the one the features belong to: each of its bits, the root's
\* first, says whether the feature reaches the threshold at the split its
\* earlier bits lead to.
Belongs(l) ==
  \A k \in 0 .. tree.depth - 1 :
     /\ HasFeature(tree.splits[Decides(l, k, tree.depth)])
     /\ LET split == tree.splits[Decides(l, k, tree.depth)]
        IN  (l \div 2^(tree.depth - k - 1)) % 2 = 1 <=> Feature(split) >= split.threshold

\* Route returns the one leaf whose path the features follow: the heap index,
\* which only the loop keeps, and the path index, which only the leaves are
\* ordered by, stay together.
RoutesToOwnLeaf ==
  status = "routed" =>
    \A l \in 0 .. 2^tree.depth - 1 : Belongs(l) <=> l = leaf
=============================================================================
