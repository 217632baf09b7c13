----------------------------- MODULE RadixPlan -----------------------------
(***************************************************************************)
(* RadixTree of integer/treeplan: CompileR0 groups GroupWidth consecutive  *)
(* levels of a binary tree into supernodes, one per path prefix, and binds *)
(* its output to the tree with a certificate.  All fields but the          *)
(* certificate are public, so the plan may be anything afterwards: a field *)
(* of another plan, a decoded copy without a certificate.  Validate,       *)
(* VerifyAgainst and Semantics have to tell, and Route follows only a plan *)
(* that validates.                                                         *)
(*                                                                         *)
(* Digests are taken as injective, so a digest is what it was computed     *)
(* from.                                                                   *)
(***************************************************************************)
EXTENDS Integers, Sequences

CONSTANTS Sources,    \* the binary trees, as in BinaryRoute
          Inputs,     \* feature vectors
          MaxAssigned \* bound on the assignments to public fields

VARIABLES source,     \* the tree of the caller
          plan,       \* the plan it holds
          assigned,   \* how often a field of it was assigned
          x, position, digit, local, status, value    \* a call of Route

vars == <<source, plan, assigned, x, position, digit, local, status, value>>
routing == <<x, position, digit, local, status, value>>

GroupWidths == 1..4

-----------------------------------------------------------------------------
\* CompileR0.

Smaller(a, b) == IF a < b THEN a ELSE b
Count(depth, group) == (depth + group - 1) \div group
\* The local split that lies local levels below the prefix.  Local indices are
\* heap indices again: local level k begins at 2^k - 1.
LocalLevel(i) == CHOOSE k \in 0..3 : 2^k - 1 <= i /\ i < 2^(k + 1) - 1
\* Fault: the prefix is shifted with the group's width, not with the local level.
FaultGlobalIndex(start, width, prefix, i) ==
  LET k == LocalLevel(i)
  IN  (2^(start + k) - 1) + ((prefix * 2^(width - 1) + (i - (2^k - 1))) % 2^(start + k))
GlobalIndex(start, width, prefix, i) ==
  LET k == LocalLevel(i)
  IN  (2^(start + k) - 1) + prefix * 2^k + (i - (2^k - 1))

Level(tree, start, width) ==
  [start |-> start, width |-> width,
   nodes |-> [prefix \in 0 .. 2^start - 1 |->
     [i \in 0 .. 2^width - 2 |-> tree.splits[GlobalIndex(start, width, prefix, i)]]]]

Levels(tree, group) ==
  [i \in 1 .. Count(tree.depth, group) |->
     Level(tree, (i - 1) * group, Smaller(group, tree.depth - (i - 1) * group))]

NoCertificate == [issued |-> FALSE]
\* digestRadixPlan: every public field.  Fault: the leaves are not digested.
FaultDigest(p) == <<p.depth, p.group, p.levels>>
Digest(p) == <<p.depth, p.group, p.levels, p.leaves>>

Public(tree, group) ==
  [depth |-> tree.depth, group |-> group, levels |-> Levels(tree, group),
   leaves |-> tree.leaves]
CompileR0(tree, group) ==
  LET p == Public(tree, group)
  IN  [depth |-> p.depth, group |-> p.group, levels |-> p.levels, leaves |-> p.leaves,
       certificate |-> [issued |-> TRUE, source |-> tree, plan |-> Digest(p)]]

-----------------------------------------------------------------------------
\* What the methods of a plan say of it.

\* validateStructure
Complete(p) ==
  /\ p.group \in GroupWidths
  /\ DOMAIN p.leaves = 0 .. 2^p.depth - 1
  /\ Len(p.levels) = Count(p.depth, p.group)
  /\ \A i \in DOMAIN p.levels :
       LET level == p.levels[i]
       IN  /\ level.start = (i - 1) * p.group
           /\ level.width = Smaller(p.group, p.depth - level.start)
           /\ DOMAIN level.nodes = 0 .. 2^level.start - 1
           /\ \A n \in DOMAIN level.nodes :
                DOMAIN level.nodes[n] = 0 .. 2^level.width - 2

\* validateCertificate. Fault: an issued certificate is enough.
FaultCertified(p) == p.certificate.issued
Certified(p) == p.certificate.issued /\ p.certificate.plan = Digest(p)

Valid(p) == Complete(p) /\ Certified(p)

VerifiesAgainst(p, tree) ==
  /\ Valid(p)
  /\ p.certificate.source = tree
  /\ Digest(CompileR0(tree, p.group)) = p.certificate.plan

Semantics(p) == IF Valid(p) THEN "r0_binary_equivalent" ELSE "unverified"

-----------------------------------------------------------------------------
Init ==
  /\ source \in Sources /\ x \in Inputs
  /\ \E group \in GroupWidths : plan = CompileR0(source, group)
  /\ assigned = 0
  /\ position = [level |-> 1, prefix |-> 0] /\ digit = 0 /\ local = 0
  /\ status = "none" /\ value = 0

\* A public field gets what another plan has in it.
Assign ==
  /\ status = "none" /\ assigned < MaxAssigned
  /\ assigned' = assigned + 1
  /\ \E other \in Sources, group \in GroupWidths :
       LET p == Public(other, group)
       IN  \/ plan' = [plan EXCEPT !.levels = p.levels]
           \/ plan' = [plan EXCEPT !.leaves = p.leaves]
           \/ plan' = [plan EXCEPT !.group = group]
           \/ plan' = [plan EXCEPT !.depth = p.depth]
  /\ UNCHANGED <<source, routing>>

\* A copy that went through an encoder has no certificate.
Decode ==
  /\ status = "none"
  /\ plan' = [plan EXCEPT !.certificate = NoCertificate]
  /\ UNCHANGED <<source, assigned, routing>>

CallRoute ==
  /\ status = "none"
  /\ status' = IF Valid(plan) THEN "routing" ELSE "refused"
  /\ UNCHANGED <<source, plan, assigned, x, position, digit, local, value>>

Here == plan.levels[position.level]
SplitHere == Here.nodes[position.prefix][local]
Routing == status = "routing" /\ position.level <= Len(plan.levels)

\* One split of the supernode; the last one appends the digit to the prefix.
\* Fault: the prefix makes room for a digit of the plan's width.
FaultAppended(prefix, d, width) == prefix * 2^plan.group + d
Appended(prefix, d, width) == prefix * 2^width + d

Descend ==
  /\ Routing
  /\ SplitHere.feature < Len(x)
  /\ LET branch == IF x[SplitHere.feature + 1] < SplitHere.threshold THEN 0 ELSE 1
         next == 2 * local + 1 + branch
     IN  IF next < 2^Here.width - 1
         THEN /\ digit' = 2 * digit + branch /\ local' = next
              /\ UNCHANGED position
         ELSE /\ digit' = 0 /\ local' = 0
              /\ position' = [level |-> position.level + 1,
                   prefix |-> Appended(position.prefix, 2 * digit + branch, Here.width)]
  /\ UNCHANGED <<source, plan, assigned, x, status, value>>

FeatureMissing ==
  /\ Routing
  /\ SplitHere.feature >= Len(x)
  /\ status' = "error"
  /\ UNCHANGED <<source, plan, assigned, x, position, digit, local, value>>

Arrive ==
  /\ status = "routing" /\ position.level > Len(plan.levels)
  /\ status' = "routed" /\ value' = plan.leaves[position.prefix]
  /\ UNCHANGED <<source, plan, assigned, x, position, digit, local>>

Next == Assign \/ Decode \/ CallRoute \/ Descend \/ FeatureMissing \/ Arrive

Spec == Init /\ [][Next]_vars

-----------------------------------------------------------------------------
\* TypeOK of a plan and a call.
TypeOK ==
  /\ status \in {"none", "refused", "routing", "routed", "error"}
  /\ status \in {"routing", "routed"} =>
       /\ position.prefix \in 0 .. 2^plan.depth - 1
       /\ position.level \in 1 .. Len(plan.levels) + 1

\* The levels walked so far, and the path.
LocalDepth == LocalLevel(local)
Walked == IF position.level > Len(plan.levels) THEN plan.depth
          ELSE Here.start + LocalDepth
Path == position.prefix * 2^LocalDepth + digit

\* A plan that validates routes as the tree its certificate was issued for, one
\* split at a time, whatever has been assigned to its fields in between.
Entered == status \in {"routing", "routed", "error"}
Route == INSTANCE BinaryRoute
           WITH MaxDepth <- 4, FeatureIds <- 0..3, Operands <- 0..3, LeafValues <- 0..15,
                tree <- source,
                depth <- IF Entered THEN Walked ELSE 0,
                node <- IF Entered THEN 2^Walked - 1 + Path ELSE 0,
                leaf <- IF Entered THEN Path ELSE 0,
                status <- IF status \in {"routed", "error"} THEN status ELSE "routing"
ImplementsRoute == [][Route!Next]_(Route!routeVars)

\* Only the plan of the source itself verifies against it: no mixture of
\* fields of certified plans and no certificate of another tree passes.
OnlyOwnPlanVerifies ==
  \A tree \in Sources :
     VerifiesAgainst(plan, tree) <=>
       /\ tree = source /\ plan.certificate.issued
       /\ plan.group \in GroupWidths
       /\ Digest(plan) = Digest(Public(source, plan.group))
       /\ Digest(plan) = plan.certificate.plan

\* What is reported as equivalent has every split of the source exactly once,
\* at the position its supernode gives it, and the leaves in their order.
Arena == UNION {{<<i, n, j>> : n \in DOMAIN plan.levels[i].nodes,
                               j \in 0 .. 2^plan.levels[i].width - 2} : i \in DOMAIN plan.levels}
GlobalOf(a) == GlobalIndex(plan.levels[a[1]].start, plan.levels[a[1]].width, a[2], a[3])
EquivalentIsPartition ==
  Semantics(plan) = "r0_binary_equivalent" =>
    /\ \A i \in DOMAIN source.splits : \E a \in Arena :
         /\ GlobalOf(a) = i /\ \A b \in Arena : GlobalOf(b) = i => b = a
         /\ plan.levels[a[1]].nodes[a[2]][a[3]] = source.splits[i]
    /\ plan.leaves = source.leaves
=============================================================================
