------------------------------ MODULE MCPlans ------------------------------
(***************************************************************************)
(* The plan compilers, one at a time.  The initial state chooses the       *)
(* subject; the variables of the other subjects stay unused.               *)
(***************************************************************************)
EXTENDS Integers, Sequences, TLC

VARIABLES
  subject,
  source, status, x,                                     \* of several subjects
  plan, assigned, position, digit, local, value,         \* RadixPlan
  request, group, heap, mine, copy, detached, written,   \* SchedulePlan
  model, k, i, parents, visited, frames,                 \* ForestCompile
  deepest, common, pending, forest, sum,
  feature, threshold, featureKey, thresholdKey, branch,  \* OrderedFloat32
  tree, state, leavesReached, memo, ref, used            \* MultiwayTree

radixVars == <<plan, assigned, position, digit, local, value>>
scheduleVars == <<request, group, heap, mine, copy, detached, written>>
forestVars == <<model, k, i, parents, visited, deepest, common, pending, forest, sum>>
floatVars == <<feature, threshold, featureKey, thresholdKey, branch>>
treeVars == <<tree, state, leavesReached, memo, ref, used>>
vars == <<subject, source, status, x, frames, radixVars, scheduleVars, forestVars, floatVars, treeVars>>

Unused == "unused"
NoRadix == /\ plan = Unused /\ assigned = Unused /\ position = Unused /\ digit = Unused
           /\ local = Unused /\ value = Unused
NoSchedule == /\ request = Unused /\ group = Unused /\ heap = Unused /\ mine = Unused
              /\ copy = Unused /\ detached = Unused /\ written = Unused
NoForest == /\ model = Unused /\ k = Unused /\ i = Unused /\ parents = Unused
            /\ visited = Unused /\ deepest = Unused /\ common = Unused /\ pending = Unused
            /\ forest = Unused /\ sum = Unused
NoFloat == /\ feature = Unused /\ threshold = Unused /\ featureKey = Unused /\ thresholdKey = Unused
           /\ branch = Unused
NoTree == /\ tree = Unused /\ state = Unused /\ leavesReached = Unused /\ memo = Unused
          /\ ref = Unused /\ used = Unused

-----------------------------------------------------------------------------
\* RadixPlan: trees of depth 0 to 4 whose splits test one of two binary
\* features, with leaves that are their own indices, or those shifted by one,
\* so that every group width from 1 to 4 leaves a shorter last level for some
\* depth.
BinaryTree(d, splits, shift) ==
  [depth |-> d, splits |-> [n \in 0 .. 2^d - 2 |-> [feature |-> splits[n], threshold |-> 1]],
   leaves |-> [n \in 0 .. 2^d - 1 |-> (n + shift) % 2^d]]
Binary(d, right, shift) == BinaryTree(d, [n \in 0 .. 2^d - 2 |-> IF n \in right THEN 1 ELSE 0], shift)
BinaryTrees ==
  {Binary(0, {}, 0), Binary(1, {0}, 0), Binary(1, {0}, 1), Binary(2, {0}, 0), Binary(2, {1}, 0),
   Binary(2, {1}, 1), Binary(3, {0, 2, 5}, 0), Binary(3, {1, 4, 6}, 0),
   Binary(4, {1, 4, 6, 8, 11, 13}, 0)}

Radix == INSTANCE RadixPlan
  WITH Sources <- BinaryTrees, Inputs <- {<<0, 1>>, <<1, 0>>, <<1, 1>>, <<0>>}, MaxAssigned <- 2

-----------------------------------------------------------------------------
\* SchedulePlan: trees of depth 0 to 3, two of one depth, so that every group
\* width leaves a shorter last group for some of them.  With 7 as the largest
\* integer, seven comparisons of seven streams wrap around to one, and two
\* charges of seven streams to -2.
Scheduled ==
  {[id |-> "leaf", depth |-> 0, oneFeature |-> {}],
   [id |-> "stump", depth |-> 1, oneFeature |-> {0}],
   [id |-> "twin", depth |-> 1, oneFeature |-> {}],
   [id |-> "uniform", depth |-> 3, oneFeature |-> {0, 2}]}

Schedule == INSTANCE SchedulePlan
  WITH Sources <- Scheduled, MaxInt <- 7, Counts <- {1, 7}, Aggregates <- {2, 7}

-----------------------------------------------------------------------------
\* ForestCompile: every graph of three nodes, those of five nodes with two
\* inner ones, a flag or a feature out of range on one node, a tree that is too
\* deep, and pairs of well-formed trees of different depths.
Node(n, left, right) ==
  [left |-> left, right |-> right, feature |-> n % 2, value |-> (n % 3) - 1,
   type |-> "numeric", defaultLeft |-> FALSE]
Graph(n, child) == [m \in 0 .. n - 1 |-> Node(m, child[m][1], child[m][2])]

Ends(n) == (-1..n) \X (-1..n)
Small == {Graph(3, child) : child \in [0..2 -> Ends(3)]}
Inner(j) == {Graph(5, [m \in 0..4 |-> IF m = 0 THEN root ELSE IF m = j THEN ends ELSE <<-1, -1>>]) :
               root \in (0..4) \X (0..4), ends \in (0..4) \X (0..4)}

Stump == Graph(3, 0 :> <<1, 2>> @@ 1 :> <<-1, -1>> @@ 2 :> <<-1, -1>>)
Lean == Graph(5, 0 :> <<3, 1>> @@ 1 :> <<2, 4>> @@ 2 :> <<-1, -1>> @@ 3 :> <<-1, -1>> @@ 4 :> <<-1, -1>>)
Chain == Graph(7, 0 :> <<1, 2>> @@ 1 :> <<3, 4>> @@ 2 :> <<-1, -1>> @@ 3 :> <<5, 6>>
                    @@ 4 :> <<-1, -1>> @@ 5 :> <<-1, -1>> @@ 6 :> <<-1, -1>>)
Single == Graph(1, 0 :> <<-1, -1>>)
Odd == {[Stump EXCEPT ![n].type = "categorical"] : n \in 0..2}
         \union {[Stump EXCEPT ![n].defaultLeft = TRUE] : n \in 0..2}
         \union {[Stump EXCEPT ![0].feature = 2], <<>>}

Models ==
  {<<t>> : t \in Small \union Inner(1) \union Odd \union {Chain, Single}}
    \union {<<s, t>> : s, t \in {Single, Stump, Lean, Chain, [Stump EXCEPT ![1].left = 2]}}

Forest == INSTANCE ForestCompile
  WITH Models <- Models, NumFeature <- 2, Inputs <- {<<-1, 0>>, <<0, -1>>}, Base <- 2,
       MaxDepth <- 2, MaxFinite <- 2

-----------------------------------------------------------------------------
\* OrderedFloat32: all pairs of patterns of a format of seven bits.
Float == INSTANCE OrderedFloat32 WITH ExponentBits <- 3, FractionBits <- 3

-----------------------------------------------------------------------------
\* MultiwayTree: graphs of one to three nodes of radix 2 or 3 over two or three
\* leaves, with shared nodes, cycles, unreachable entries and references out of
\* range, and complete trees of radix 2 and 3.
NodeOf(n, thresholds, children) == [feature |-> n % 2, thresholds |-> thresholds, children |-> children]
Refs(n, l) == {<<"node", m>> : m \in 1..n} \union {<<"leaf", m>> : m \in 0 .. l - 1}
Of(root, nodes, l) == [root |-> root, nodes |-> nodes, leaves |-> [m \in 0 .. l - 1 |-> m]]

\* Three nodes of radix 2 over two leaves; the last reference is out of range.
Dags == {Of(<<"node", 0>>, [n \in 0..2 |-> NodeOf(n, <<n>>, c[n])], 2) :
           c \in [0..2 -> Refs(2, 2) \X Refs(2, 2)]}
Wide == {Of(<<"node", 0>>,
            0 :> NodeOf(0, t, <<a, b, <<"leaf", 1>>>>) @@ 1 :> NodeOf(1, <<1>>, <<c, <<"leaf", 2>>>>), 3) :
           t \in {<<0, 1>>, <<1, 1>>, <<1>>}, a, b, c \in Refs(2, 1) \union {<<"node", 0>>}}
Full(radix, thresholds) ==
  Of(<<"node", 0>>, [n \in 0..radix |->
       NodeOf(n, thresholds, [j \in 1..radix |->
          IF n = 0 THEN <<"node", j>> ELSE <<"leaf", radix * (n - 1) + j - 1>>])], radix * radix)
Bare == [root |-> <<"leaf", 0>>, nodes |-> <<>>, leaves |-> 0 :> 0]

Multiway == INSTANCE MultiwayTree
  WITH Trees <- Dags \union Wide \union {Full(2, <<1>>), Full(3, <<0, 2>>), Bare},
       Inputs <- {<<0, 1>>, <<2, 2>>, <<1>>}

ASSUME PlansAssumption ==
  Schedule!ScheduleAssumption /\ Forest!ForestAssumption /\ Float!FormatAssumption

-----------------------------------------------------------------------------
Init ==
  \/ /\ subject = "radix" /\ Radix!Init
     /\ frames = Unused /\ NoSchedule /\ NoForest
     /\ NoFloat /\ NoTree
  \/ /\ subject = "schedule" /\ Schedule!Init
     /\ status = Unused /\ x = Unused /\ frames = Unused /\ NoRadix /\ NoForest
     /\ NoFloat /\ NoTree
  \/ /\ subject = "forest" /\ Forest!Init
     /\ source = Unused /\ NoRadix /\ NoSchedule
     /\ NoFloat /\ NoTree
  \/ /\ subject = "float" /\ Float!Init
     /\ source = Unused /\ x = Unused /\ frames = Unused /\ NoRadix /\ NoSchedule
     /\ NoForest /\ NoTree
  \/ /\ subject = "multiway" /\ Multiway!Init
     /\ source = Unused /\ NoRadix /\ NoSchedule
     /\ NoForest /\ NoFloat

RadixStep ==
  /\ subject = "radix" /\ Radix!Next
  /\ UNCHANGED <<subject, frames, scheduleVars, forestVars, floatVars, treeVars>>
ScheduleStep ==
  /\ subject = "schedule" /\ Schedule!Next
  /\ UNCHANGED <<subject, status, x, frames, radixVars, forestVars, floatVars, treeVars>>
ForestStep ==
  /\ subject = "forest" /\ Forest!Next
  /\ UNCHANGED <<subject, source, radixVars, scheduleVars, floatVars, treeVars>>
FloatStep ==
  /\ subject = "float" /\ Float!Next
  /\ UNCHANGED <<subject, source, x, frames, radixVars, scheduleVars, forestVars, treeVars>>
MultiwayStep ==
  /\ subject = "multiway" /\ Multiway!Next
  /\ UNCHANGED <<subject, source, radixVars, scheduleVars, forestVars, floatVars>>

Next == RadixStep \/ ScheduleStep \/ ForestStep \/ FloatStep \/ MultiwayStep

Spec == Init /\ [][Next]_vars /\ WF_vars(ForestStep) /\ WF_vars(MultiwayStep)

-----------------------------------------------------------------------------
\* A certificate is worth something: only the plan of the source itself, and of
\* the request itself, verifies against it, what is reported equivalent has
\* every split of the source once, and a write into a copy of a plan is seen by
\* every plan it reaches and by no other (radix.go:180,
\* schedule_certificate.go:214).  Its counts are counts of the schedule: no
\* measured product or total has wrapped around, grouping loses no comparison,
\* and the metrics of a tree bound its routes (schedule.go:260, multiway.go:212).
CertificatesHold ==
  /\ subject = "radix" => Radix!OnlyOwnPlanVerifies /\ Radix!EquivalentIsPartition
  /\ subject = "schedule" =>
       /\ Schedule!OnlyOwnRequestVerifies /\ Schedule!WritesAreSeen /\ Schedule!DerivationIssues
       /\ Schedule!TotalsOfSchedule /\ Schedule!ProductsExact /\ Schedule!AggregatesExact
  /\ subject = "multiway" => Multiway!WithinMetrics /\ Multiway!CompleteCostIsMetrics

\* Exactly the graphs that are trees, or dags, are accepted, and no walk meets
\* a node twice where it must not (compile.go:75, multiway.go:108).
OnlyWellFormed ==
  /\ subject = "forest" => Forest!WalkIsOnce /\ Forest!OnlyTreesCompile /\ Forest!CommonDepthIsDeepest
  /\ subject = "multiway" => Multiway!AcceptsDags

\* What is compiled evaluates as its source: padded forests, interval routes
\* and integer keys of floating-point thresholds (compile.go:166,
\* multiway.go:212, ordered_float32.go:29).
EvaluatesAsSource ==
  /\ subject = "forest" => Forest!MarginIsRaw
  /\ subject = "multiway" => Multiway!RoutesByIntervals
  /\ subject = "float" => Float!BranchIsSource /\ Float!KeysDistinguish

\* A plan that validates routes as the binary tree of its certificate, one
\* split at a time (radix.go:180).
RoutesAsBinary == [][subject = "radix" => [Radix!Route!Next]_(Radix!Route!routeVars)]_vars

\* Compilation, validation and routing end on every graph (compile.go:75,
\* multiway.go:95).
WalksEnd ==
  /\ subject = "forest" ~> Forest!Refused \/ status \in {"margin", "not finite"}
  /\ subject = "multiway" ~> Multiway!Ended
=============================================================================
