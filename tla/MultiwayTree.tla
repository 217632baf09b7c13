---------------------------- MODULE MultiwayTree ----------------------------
(***************************************************************************)
(* MultiwayTree of integer/treeplan, the R1 model: nodes with several      *)
(* increasing thresholds and one child more, in two arenas of nodes and    *)
(* leaves.  Children may be shared, so the graph is a dag.  Validate walks *)
(* it depth first for cycles and unreachable entries, Metrics takes the    *)
(* worst of each count over the paths, and Route follows one path.         *)
(*                                                                         *)
(* One tree is validated, measured, and routed through.  A reference is    *)
(* <<kind, index>>.  The six counts of a path are three, from which the    *)
(* others differ by their names only.                                      *)
(***************************************************************************)
EXTENDS Integers, Sequences, SequencesExt, FiniteSetsExt

CONSTANTS Trees,    \* records [root, nodes, leaves]: two functions from 0..n-1
          Inputs    \* feature vectors

VARIABLES tree, x,
          status,            \* the phase, or the error it ended with
          state, frames,     \* marks of the nodes, and the calls of visit
          leavesReached,
          memo,              \* Metrics: the counts of the nodes that are done
          ref, used          \* Route: the reference reached, what it took

vars == <<tree, x, status, state, frames, leavesReached, memo, ref, used>>

-----------------------------------------------------------------------------
\* Validate: the nodes one by one, then the walk.

Nodes == DOMAIN tree.nodes
Leaves == DOMAIN tree.leaves
IsNode(r) == r[1] = "node"
RefFits(r) == r[2] \in IF IsNode(r) THEN Nodes ELSE Leaves

\* Fault: equal thresholds pass.
FaultIncreasing(thresholds) ==
  \A j \in 2..Len(thresholds) : thresholds[j - 1] <= thresholds[j]
Increasing(thresholds) ==
  \A j \in 2..Len(thresholds) : thresholds[j - 1] < thresholds[j]
NodeFits(node) ==
  /\ node.thresholds # <<>> /\ Increasing(node.thresholds)
  /\ Len(node.children) = Len(node.thresholds) + 1
  /\ \A j \in DOMAIN node.children : RefFits(node.children[j])

NoCounts == [comparisons |-> 0, rounds |-> 0, terms |-> 0]
Unmarked == [n \in Nodes |-> 0]

Init ==
  /\ tree \in Trees /\ x \in Inputs
  /\ status = "nodes"
  /\ state = Unmarked /\ frames = <<>> /\ leavesReached = {}
  /\ memo = [n \in {} |-> NoCounts]
  /\ ref = tree.root /\ used = NoCounts

\* The calls of visit: the references each has still to visit.
Validate ==
  /\ status = "nodes"
  /\ IF RefFits(tree.root) /\ \A n \in Nodes : NodeFits(tree.nodes[n])
     THEN status' = "walk" /\ frames' = <<[node |-> -1, left |-> <<tree.root>>]>>
     ELSE status' = "malformed" /\ UNCHANGED frames
  /\ UNCHANGED <<tree, x, state, leavesReached, memo, ref, used>>

Top == Last(frames)
Walking == status = "walk" /\ frames # <<>>
Next1 == Head(Top.left)
Advanced == [frames EXCEPT ![Len(frames)].left = Tail(@)]

VisitLeaf ==
  /\ Walking /\ Top.left # <<>> /\ ~IsNode(Next1)
  /\ leavesReached' = leavesReached \union {Next1[2]}
  /\ frames' = Advanced
  /\ UNCHANGED <<tree, x, status, state, memo, ref, used>>

VisitNode ==
  /\ Walking /\ Top.left # <<>> /\ IsNode(Next1) /\ state[Next1[2]] = 0
  /\ state' = [state EXCEPT ![Next1[2]] = 1]
  /\ frames' = Append(Advanced, [node |-> Next1[2], left |-> tree.nodes[Next1[2]].children])
  /\ UNCHANGED <<tree, x, status, leavesReached, memo, ref, used>>

\* Fault: a node that has been met is not looked at again.
FaultOnCycle(n) == FALSE
OnCycle(n) == state[n] = 1
VisitMarked ==
  /\ Walking /\ Top.left # <<>> /\ IsNode(Next1) /\ state[Next1[2]] # 0
  /\ IF OnCycle(Next1[2])
     THEN status' = "cycle" /\ UNCHANGED frames
     ELSE frames' = Advanced /\ UNCHANGED status
  /\ UNCHANGED <<tree, x, state, leavesReached, memo, ref, used>>

\* Fault: a node stays marked as being visited.
FaultFinished(n) == state
Finished(n) == [m \in Nodes |-> IF m = n THEN 2 ELSE state[m]]
ReturnFromVisit ==
  /\ Walking /\ Top.left = <<>>
  /\ state' = Finished(Top.node)
  /\ frames' = Front(frames)
  /\ UNCHANGED <<tree, x, status, leavesReached, memo, ref, used>>

Validated ==
  /\ status = "walk" /\ frames = <<>>
  /\ status' = IF (\A n \in Nodes : state[n] # 0) /\ leavesReached = Leaves
               THEN "measure" ELSE "unreachable"
  /\ UNCHANGED <<tree, x, state, frames, leavesReached, memo, ref, used>>

-----------------------------------------------------------------------------
\* Metrics.

CountsOf(r) == IF IsNode(r) THEN memo[r[2]] ELSE NoCounts
\* Fault: the cost of the first child.
FaultWorst(n) == CountsOf(tree.nodes[n].children[1])
Worst(n) ==
  LET counts == {CountsOf(r) : r \in Range(tree.nodes[n].children)}
  IN  [comparisons |-> Max({c.comparisons : c \in counts}),
       rounds |-> Max({c.rounds : c \in counts}), terms |-> Max({c.terms : c \in counts})]

\* walk, a node whose children are done.  The order among those is that of the
\* recursion; what it computes does not depend on it.
Ready(n) ==
  /\ n \notin DOMAIN memo
  /\ \A r \in Range(tree.nodes[n].children) : IsNode(r) => r[2] \in DOMAIN memo
Measure ==
  /\ status = "measure"
  /\ \E n \in Nodes :
       /\ Ready(n) /\ \A m \in Nodes : Ready(m) => n <= m
       /\ LET radix == Len(tree.nodes[n].children)
          IN  memo' = [m \in DOMAIN memo \union {n} |->
                 IF m # n THEN memo[m]
                 ELSE [comparisons |-> Worst(n).comparisons + radix - 1,
                       rounds |-> Worst(n).rounds + 1, terms |-> Worst(n).terms + radix]]
  /\ UNCHANGED <<tree, x, status, state, frames, leavesReached, ref, used>>

Measured ==
  /\ status = "measure" /\ DOMAIN memo = Nodes
  /\ status' = "route"
  /\ UNCHANGED <<tree, x, state, frames, leavesReached, memo, ref, used>>

\* CompleteMultiwayCost of radix^d leaves: d is counted by exact divisions.
Depth(radix, leaves) ==
  LET depth[n \in 1..leaves] == IF n = 1 THEN 0 ELSE depth[n \div radix] + 1
  IN  depth[leaves]
\* Fault: a node compares once per child.
FaultCompleteCost(radix, leaves) ==
  [comparisons |-> radix * Depth(radix, leaves), rounds |-> Depth(radix, leaves),
   terms |-> radix * Depth(radix, leaves)]
CompleteCost(radix, leaves) ==
  [comparisons |-> (radix - 1) * Depth(radix, leaves), rounds |-> Depth(radix, leaves),
   terms |-> radix * Depth(radix, leaves)]

-----------------------------------------------------------------------------
\* Route.

Here == tree.nodes[ref[2]]
\* The first threshold above the value, or the last interval.
\* Fault: a value at its threshold stays below it.
FaultInterval(thresholds, v) ==
  Min({j \in DOMAIN thresholds : v <= thresholds[j]} \union {Len(thresholds) + 1})
Interval(thresholds, v) ==
  Min({j \in DOMAIN thresholds : v < thresholds[j]} \union {Len(thresholds) + 1})

Descend ==
  /\ status = "route" /\ IsNode(ref)
  /\ Here.feature < Len(x)
  /\ ref' = Here.children[Interval(Here.thresholds, x[Here.feature + 1])]
  /\ used' = [comparisons |-> used.comparisons + Len(Here.thresholds),
              rounds |-> used.rounds + 1, terms |-> used.terms + Len(Here.children)]
  /\ UNCHANGED <<tree, x, status, state, frames, leavesReached, memo>>

FeatureMissing ==
  /\ status = "route" /\ IsNode(ref)
  /\ Here.feature >= Len(x)
  /\ status' = "feature"
  /\ UNCHANGED <<tree, x, state, frames, leavesReached, memo, ref, used>>

Arrive ==
  /\ status = "route" /\ ~IsNode(ref)
  /\ status' = "routed"
  /\ UNCHANGED <<tree, x, state, frames, leavesReached, memo, ref, used>>

Next == Validate \/ VisitLeaf \/ VisitNode \/ VisitMarked \/ ReturnFromVisit \/ Validated
          \/ Measure \/ Measured \/ Descend \/ FeatureMissing \/ Arrive

Spec == Init /\ [][Next]_vars /\ WF_vars(Next)

-----------------------------------------------------------------------------
Ended == status \in {"malformed", "cycle", "unreachable", "feature", "routed"}

\* TypeOK of a call of each method.
TypeOK ==
  /\ status \in {"nodes", "walk", "measure", "route"} \/ Ended
  /\ \A n \in Nodes :
       /\ state[n] \in 0..2
       /\ Walking \/ status = "cycle" =>
            (state[n] = 1 <=> \E f \in DOMAIN frames : frames[f].node = n)
  /\ leavesReached \subseteq Leaves /\ DOMAIN memo \subseteq Nodes
  /\ RefFits(tree.root) => RefFits(ref)

\* What n steps lead to, from a set of references.
Below(refs) == UNION {Range(tree.nodes[r[2]].children) : r \in {r \in refs : IsNode(r)}}
After(refs, n) ==
  LET after[i \in 0..n] == IF i = 0 THEN refs ELSE Below(after[i - 1])
  IN  after[n]
Size == Cardinality(Nodes)
Acyclic == \A n \in Nodes : \A d \in 1..Size : <<"node", n>> \notin After({<<"node", n>>}, d)
Everything == {<<"node", n>> : n \in Nodes} \union {<<"leaf", l>> : l \in Leaves}
AllReached == UNION {After({tree.root}, d) : d \in 0..Size} = Everything

\* The walk accepts exactly the acyclic graphs it reaches all of, shared nodes
\* included, and a cycle is reported only where there is one.
AcceptsDags ==
  /\ status = "measure" => Acyclic /\ AllReached
  /\ status = "cycle" => ~Acyclic
  /\ status = "unreachable" => ~AllReached

\* The leaf returned is that of the intervals the features lie in: at each node
\* of its path, not below the child's lower threshold and below its upper one.
Inside(node, j, v) ==
  /\ j > 1 => v >= node.thresholds[j - 1]
  /\ j <= Len(node.thresholds) => v < node.thresholds[j]
Led(r) == IF IsNode(r) /\ tree.nodes[r[2]].feature < Len(x)
          THEN LET node == tree.nodes[r[2]]
               IN  {node.children[j] :
                      j \in {j \in DOMAIN node.children : Inside(node, j, x[node.feature + 1])}}
          ELSE {r}
RoutesByIntervals ==
  status = "routed" =>
    LET led[d \in 0..Size] == IF d = 0 THEN {tree.root} ELSE UNION {Led(r) : r \in led[d - 1]}
    IN  led[Size] = {ref}

\* No route takes more comparisons, rounds or selector terms than Metrics says,
\* even when the worst of each count lies on another path.
WithinMetrics ==
  status \in {"route", "routed", "feature"} =>
    /\ used.comparisons <= CountsOf(tree.root).comparisons
    /\ used.rounds <= CountsOf(tree.root).rounds
    /\ used.terms <= CountsOf(tree.root).terms

Complete(radix) ==
  /\ \A n \in Nodes : Len(tree.nodes[n].children) = radix
  /\ \E d \in 0..Size : radix^d = Cardinality(Leaves)
  /\ \A d \in 0..Size : \A r \in After({tree.root}, d) :
       IsNode(r) <=> d < Depth(radix, Cardinality(Leaves))
\* For a complete tree the closed form and the walk agree.
CompleteCostIsMetrics ==
  status \in {"route", "routed"} =>
    \A radix \in 2..3 :
      Nodes # {} /\ Complete(radix) =>
        CountsOf(tree.root) = CompleteCost(radix, Cardinality(Leaves))

\* A call ends on every graph, cyclic ones included.
Ends == <>Ended
=============================================================================
