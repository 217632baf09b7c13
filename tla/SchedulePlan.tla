---------------------------- MODULE SchedulePlan ----------------------------
(***************************************************************************)
(* R0SchedulePlan of integer/treeplan: PlanSchedule derives, for one of    *)
(* five schedules, what each group of a certified radix plan charges;      *)
(* WithPhysicalMeasurements attaches what a backend has measured to a copy *)
(* and issues the copy's certificate again.  Products and sums of measured *)
(* counts are int64 and have overflow guards of their own.  Every field is *)
(* public, and a Go assignment of a plan shares its groups; only Clone     *)
(* detaches them.                                                          *)
(*                                                                         *)
(* int64 is modelled by the integers from -MaxInt - 1 to MaxInt.  Digests  *)
(* are injective.  A source is its identity, its depth and the depths at   *)
(* which a group starts whose supernodes have one feature each.            *)
(* Bootstraps are validated as refreshes are and are left out, as are the  *)
(* physical counts no rule relates to another.                             *)
(***************************************************************************)
EXTENDS Integers, Sequences, FiniteSetsExt, SequencesExt

CONSTANTS Sources,     \* records [id, depth, oneFeature]
          MaxInt,      \* the largest int64
          Counts,      \* the measured values tried
          Aggregates   \* the measured totals tried

\* What the constants have to be; whoever instantiates this module assumes it.
ScheduleAssumption ==
  /\ MaxInt \in Nat /\ Counts \subseteq 0..MaxInt /\ Aggregates \subseteq 0..MaxInt
  /\ \A s \in Sources : s.depth \in Nat

VARIABLES request, source, group,   \* what the plan was asked for
          heap,                     \* the groups of the plan and of its copy
          mine, copy,               \* the two plan values
          detached,                 \* the copy was made by Clone
          written                   \* a caller wrote into the copy

vars == <<request, source, group, heap, mine, copy, detached, written>>
asked == <<request, source, group>>

Wrapped(n) == ((n + MaxInt + 1) % (2 * (MaxInt + 1))) - MaxInt - 1

-----------------------------------------------------------------------------
\* Requests.

Sequential == {"source_faithful_obo", "active_ct_ct"}
Eager == {"eager_active_ct_ct", "eager_all_ct_pt"}
\* The fused schedule names how it goes on below the root, and proofs that are
\* recorded but not read; proofs says whether every one asked for is there.
Requests ==
  [schedule : Sequential \union Eager, belowRoot : {"none"}, proofs : {FALSE}]
    \union [schedule : {"fused_lut"},
            belowRoot : {"none", "all_supernodes", "global_domain"}, proofs : BOOLEAN]

-----------------------------------------------------------------------------
\* The logical charges of a group of height h that starts at depth d.

Smaller(a, b) == IF a < b THEN a ELSE b
Supernodes(d) == 2^d
Predicates(h) == 2^h - 1
SumOver(lo, hi, f(_)) == FoldSet(LAMBDA i, total : total + f(i), 0, lo..hi)

Charge(provenance, logical) == [provenance |-> provenance, logical |-> logical]
\* The root of the tree compares with a public threshold, every later depth
\* with a selected one; a charge of no comparison is not recorded.
\* Fault: it is.
FaultChargesOBO(d, h) ==
  IF d > 0 THEN <<Charge("ct_ct", h)>> ELSE <<Charge("ct_pt", 1), Charge("ct_ct", h - 1)>>
ChargesOBO(d, h) ==
  SelectSeq(IF d > 0 THEN <<Charge("ct_ct", h)>>
                     ELSE <<Charge("ct_pt", 1), Charge("ct_ct", h - 1)>>,
            LAMBDA c : c.logical > 0)

\* Fault: the eager schedule forgets that every supernode of the depth compares.
FaultCharges(schedule, d, h) ==
  CASE schedule = "source_faithful_obo" -> ChargesOBO(d, h)
    [] schedule = "active_ct_ct" -> <<Charge("ct_ct", h)>>
    [] schedule = "eager_active_ct_ct" -> <<Charge("ct_ct", Predicates(h))>>
    [] schedule = "eager_all_ct_pt" -> <<Charge("ct_pt", Predicates(h))>>
    [] schedule = "fused_lut" -> <<>>
Charges(schedule, d, h) ==
  CASE schedule = "source_faithful_obo" -> ChargesOBO(d, h)
    [] schedule = "active_ct_ct" -> <<Charge("ct_ct", h)>>
    [] schedule = "eager_active_ct_ct" -> <<Charge("ct_ct", Predicates(h))>>
    [] schedule = "eager_all_ct_pt" -> <<Charge("ct_pt", Supernodes(d) * Predicates(h))>>
    [] schedule = "fused_lut" -> <<>>

\* A selection of the feature and one of the threshold at every depth, which
\* the source-faithful schedule does without at the root.
SelectorTerms(r, d, h) ==
  CASE r.schedule = "source_faithful_obo" ->
         SumOver(d, d + h - 1, LAMBDA k : IF k = 0 THEN 0 ELSE 2 * 2^k)
    [] r.schedule = "active_ct_ct" -> SumOver(d, d + h - 1, LAMBDA k : 2 * 2^k)
    [] r.schedule = "eager_active_ct_ct" -> Predicates(h) * 2 * Supernodes(d)
    [] r.schedule = "eager_all_ct_pt" -> Supernodes(d)
    [] r.schedule = "fused_lut" ->
         IF d > 0 /\ r.belowRoot = "all_supernodes" THEN Supernodes(d) ELSE 0

Rounds(schedule, h) == IF schedule \in Sequential THEN h ELSE 1
LUTs(r, d) ==
  CASE r.schedule # "fused_lut" -> 0
    [] r.schedule = "fused_lut" /\ d > 0 /\ r.belowRoot = "all_supernodes" -> Supernodes(d)
    [] OTHER -> 1

NotMeasured == -1
Measured(count) == count # NotMeasured
Unobserved == [perComparison |-> NotMeasured, streams |-> NotMeasured,
               perStream |-> NotMeasured, refreshes |-> NotMeasured]

LogicalOf(charges) == SumOver(1, Len(charges), LAMBDA i : charges[i].logical)
Group(r, d, h) ==
  LET charges == Charges(r.schedule, d, h)
  IN  [start |-> d, height |-> h, charges |-> charges, logical |-> LogicalOf(charges),
       terms |-> SelectorTerms(r, d, h), rounds |-> Rounds(r.schedule, h),
       luts |-> LUTs(r, d), proof |-> r.schedule = "fused_lut",
       observed |-> [i \in DOMAIN charges |-> Unobserved], endToEnd |-> NotMeasured,
       streams |-> NotMeasured, refreshes |-> NotMeasured]

Groups(r, s, g) ==
  [i \in 1 .. ((s.depth + g - 1) \div g) |->
     Group(r, (i - 1) * g, Smaller(g, s.depth - (i - 1) * g))]

-----------------------------------------------------------------------------
\* Validation of measured counts.

\* validateMeasuredProduct: the guard divides, so it cannot overflow itself.
\* Fault: the product is only compared as it comes out.
FaultProductFits(multiplicand, factor, product) ==
  Measured(factor) /\ Measured(product) => product = Wrapped(multiplicand * factor)
ProductFits(multiplicand, factor, product) ==
  Measured(factor) /\ Measured(product) =>
    /\ multiplicand # 0 => factor <= MaxInt \div multiplicand
    /\ product = Wrapped(multiplicand * factor)

\* ComparatorCharge.Validate
ChargeFits(charge, o) ==
  /\ charge.logical > 0
  /\ ProductFits(charge.logical, o.perComparison, o.streams)
  /\ Measured(o.streams) => ProductFits(o.streams, o.perStream, o.refreshes)

\* validateChargeAggregate: the running sum of what is measured must not pass
\* MaxInt, the aggregate must not be below it.
\* Fault: the sum wraps around.
FaultAggregateFits(aggregate, counts, exact) ==
  Measured(aggregate) /\ counts # <<>> =>
    LET sum == FoldSeq(+, 0, SelectSeq(counts, Measured))
    IN  /\ aggregate >= Wrapped(sum)
        /\ exact /\ (\A i \in DOMAIN counts : Measured(counts[i])) => aggregate = Wrapped(sum)
AggregateFits(aggregate, counts, exact) ==
  Measured(aggregate) /\ counts # <<>> =>
    LET sum == FoldSeq(+, 0, SelectSeq(counts, Measured))
    IN  /\ sum <= MaxInt /\ aggregate >= sum
        /\ exact /\ (\A i \in DOMAIN counts : Measured(counts[i])) => aggregate = sum

\* R0GroupProfile.Validate
GroupFits(g, schedule) ==
  /\ g.height \in 1..4
  /\ \A i \in DOMAIN g.charges : ChargeFits(g.charges[i], g.observed[i])
  /\ \A i, j \in DOMAIN g.charges : g.charges[i].provenance = g.charges[j].provenance => i = j
  /\ g.logical = LogicalOf(g.charges)
  /\ g.terms >= 0 /\ g.rounds > 0
  /\ Measured(g.endToEnd) => g.endToEnd >= g.rounds
  /\ AggregateFits(g.streams, [i \in DOMAIN g.charges |-> g.observed[i].streams], TRUE)
  /\ AggregateFits(g.refreshes, [i \in DOMAIN g.charges |-> g.observed[i].refreshes], FALSE)
  /\ schedule = "fused_lut" <=> g.proof
  /\ schedule = "fused_lut" => g.charges = <<>> /\ g.logical = 0

\* validatePublic
PublicFits(p, groups) ==
  /\ p.group \in 1..4
  /\ p.eligibility = "proof_unverified" <=> p.schedule = "fused_lut"
  /\ \A i \in DOMAIN groups :
       /\ groups[i].start = SumOver(1, i - 1, LAMBDA k : groups[k].height)
       /\ GroupFits(groups[i], p.schedule)
  /\ p.depth = SumOver(1, Len(groups), LAMBDA k : groups[k].height)

-----------------------------------------------------------------------------
\* The certificate.

\* digestSchedulePlan without what was measured.
\* Fault: the source's digest is left out.
Logical(g) == [g EXCEPT !.observed = <<>>, !.endToEnd = NotMeasured,
                        !.streams = NotMeasured, !.refreshes = NotMeasured]
FaultStructure(p, groups) ==
  <<p.schedule, p.depth, p.group, p.eligibility, p.certificate.request,
    [i \in DOMAIN groups |-> Logical(groups[i])]>>
Structure(p, groups) ==
  <<p.schedule, p.depth, p.group, p.eligibility, p.source, p.certificate.request,
    [i \in DOMAIN groups |-> Logical(groups[i])]>>
\* With it. Fault: the full digest is the structure's.
FaultFull(p, groups) == <<Structure(p, groups), <<>>>>
Full(p, groups) == <<Structure(p, groups), groups>>

\* reissue
Issued(p, groups) ==
  [p EXCEPT !.certificate.structure = Structure(p, groups), !.certificate.full = Full(p, groups)]

NoPlan == [schedule |-> "none"]
\* R0SchedulePlan.Validate
Valid(p) ==
  /\ p # NoPlan
  /\ PublicFits(p, heap[p.groups])
  /\ Structure(p, heap[p.groups]) = p.certificate.structure
  /\ Full(p, heap[p.groups]) = p.certificate.full

\* The plan of PlanSchedule before it is issued.
Plan(r, s, g) ==
  [schedule |-> r.schedule, depth |-> s.depth, group |-> g,
   eligibility |-> IF r.schedule = "fused_lut" THEN "proof_unverified" ELSE "pending",
   source |-> s.id, groups |-> "mine",
   certificate |-> [request |-> r, structure |-> <<>>, full |-> <<>>]]

Plannable(r, s, g) ==
  r.schedule = "fused_lut" =>
    /\ r.proofs
    /\ s.depth > g => r.belowRoot # "none"
    /\ s.depth > 0 => 0 \in s.oneFeature
    /\ r.belowRoot = "all_supernodes" =>
         \A i \in 1 .. (s.depth - 1) \div g : i * g \in s.oneFeature

\* VerifyScheduleAgainst
VerifiesAgainst(p, s, r) ==
  /\ r = p.certificate.request
  /\ Plannable(r, s, p.group)
  /\ Valid(p)
  /\ Structure(Plan(r, s, p.group), Groups(r, s, p.group)) = p.certificate.structure

-----------------------------------------------------------------------------
Init ==
  /\ request \in Requests /\ source \in Sources /\ group \in 1..4
  /\ heap = [h \in {"mine", "copy"} |-> <<>>]
  /\ mine = NoPlan /\ copy = NoPlan
  /\ detached = FALSE /\ written = FALSE

\* PlanSchedule issues what it derived, or refuses.
PlanSchedule ==
  /\ mine = NoPlan
  /\ Plannable(request, source, group)
  /\ LET groups == Groups(request, source, group)
         p == Plan(request, source, group)
     IN  /\ PublicFits(p, groups)
         /\ heap' = [heap EXCEPT !["mine"] = groups]
         /\ mine' = Issued(p, groups)
  /\ UNCHANGED <<asked, copy, detached, written>>

\* An assignment of the struct: the same groups.
CopyValue ==
  /\ mine # NoPlan /\ copy = NoPlan
  /\ copy' = mine /\ detached' = FALSE
  /\ UNCHANGED <<asked, heap, mine, written>>

\* Fault: the copy keeps the groups.
FaultCloned(p) == p
Cloned(p) == [p EXCEPT !.groups = "copy"]
Clone ==
  /\ mine # NoPlan /\ copy = NoPlan
  /\ copy' = Cloned(mine) /\ detached' = TRUE
  /\ heap' = [heap EXCEPT ![copy'.groups] = heap[mine.groups]]
  /\ UNCHANGED <<asked, mine, written>>

Observations ==
  [perComparison : Counts \union {NotMeasured}, streams : Counts \union {NotMeasured},
   perStream : Counts, refreshes : Counts \union {NotMeasured}]

\* The dependency depth is measured where no stream is: no rule relates the two.
Depths(streams) ==
  {NotMeasured} \union IF \E n \in streams : Measured(n) THEN {} ELSE Counts

\* WithPhysicalMeasurements works on a clone and issues it again; here one of
\* the groups is measured.  What does not fit leaves no plan.
Attach ==
  /\ copy = NoPlan /\ Valid(mine)
  /\ \E i \in DOMAIN heap[mine.groups] :
     \E observed \in [DOMAIN heap[mine.groups][i].charges -> Observations] :
     \E streams, refreshes \in Aggregates \union {NotMeasured} :
     \E endToEnd \in Depths({streams, refreshes} \union {observed[j].streams : j \in DOMAIN observed}) :
       LET groups == [heap[mine.groups] EXCEPT ![i].observed = observed,
                         ![i].endToEnd = endToEnd, ![i].streams = streams, ![i].refreshes = refreshes]
           p == Cloned(mine)
       IN  /\ PublicFits(p, groups)
           /\ heap' = [heap EXCEPT ![p.groups] = groups]
           /\ copy' = Issued(p, groups)
  /\ detached' = TRUE
  /\ UNCHANGED <<asked, mine, written>>

\* A caller writes into the groups, or into the fields, of the copy.
Write ==
  /\ copy # NoPlan /\ ~written
  /\ written' = TRUE
  /\ \/ /\ \E i \in DOMAIN heap[copy.groups] :
            \/ heap' = [heap EXCEPT ![copy.groups][i].logical = @ + 1]
            \/ heap' = [heap EXCEPT ![copy.groups][i].streams = MaxInt]
            \/ heap' = [heap EXCEPT ![copy.groups][i].terms = @ + 1]
         /\ heap' # heap
         /\ UNCHANGED copy
     \/ /\ \/ copy' = [copy EXCEPT !.group = (@ % 4) + 1]
           \/ copy' = [copy EXCEPT !.source = "other"]
           \/ copy' = [copy EXCEPT !.schedule = "active_ct_ct"]
           \/ copy' = [copy EXCEPT !.eligibility = "pending"]
        /\ copy' # copy
        /\ UNCHANGED heap
  /\ UNCHANGED <<asked, mine, detached>>

Next == PlanSchedule \/ CopyValue \/ Clone \/ Attach \/ Write

Spec == Init /\ [][Next]_vars

-----------------------------------------------------------------------------
\* TypeOK of the two plan values and the groups they hold.
TypeOK ==
  /\ request \in Requests /\ source \in Sources /\ group \in 1..4
  /\ mine = NoPlan \/ mine.groups = "mine"
  /\ copy = NoPlan \/ (copy.groups = "copy" <=> detached)

\* PlanSchedule never refuses its own derivation: what the request and the
\* features allow passes the validation it is issued under, for every group
\* width and depth.
DerivationIssues ==
  mine = NoPlan /\ Plannable(request, source, group) =>
    PublicFits(Plan(request, source, group), Groups(request, source, group))

\* Grouping moves comparisons between groups and never adds or drops one: the
\* sequential schedules compare once per depth, the source-faithful one once
\* with a plaintext and then with ciphertexts only, and the all-supernodes
\* schedule compares at every split of the tree exactly once.  Selections of
\* a sequential schedule add up to those of the depths.
Total(groups, provenance) ==
  SumOver(1, Len(groups), LAMBDA i :
    SumOver(1, Len(groups[i].charges), LAMBDA j :
      IF groups[i].charges[j].provenance = provenance THEN groups[i].charges[j].logical ELSE 0))
Terms(groups) == SumOver(1, Len(groups), LAMBDA i : groups[i].terms)
TotalsOfSchedule ==
  mine # NoPlan /\ ~written =>
    LET groups == heap["mine"]
        D == source.depth
        root == IF D = 0 THEN 0 ELSE 1
    IN  CASE request.schedule = "source_faithful_obo" ->
               /\ Total(groups, "ct_pt") = root /\ Total(groups, "ct_ct") = D - root
               /\ Terms(groups) = 2 * (2^D - 1) - 2 * root
          [] request.schedule = "active_ct_ct" ->
               Total(groups, "ct_pt") = 0 /\ Total(groups, "ct_ct") = D
                 /\ Terms(groups) = 2 * (2^D - 1)
          [] request.schedule = "eager_active_ct_ct" ->
               Total(groups, "ct_pt") = 0 /\ Total(groups, "ct_ct") \in D .. 2^D - 1
          [] request.schedule = "eager_all_ct_pt" ->
               Total(groups, "ct_pt") = 2^D - 1 /\ Total(groups, "ct_ct") = 0
          [] request.schedule = "fused_lut" ->
               Total(groups, "ct_pt") + Total(groups, "ct_ct") = 0

\* In a plan that validates, every measured product is the product of its
\* measured factors as integers, never one that int64 has wrapped around.
ProductsExact ==
  Valid(copy) =>
    \A g \in Range(heap[copy.groups]) : \A j \in DOMAIN g.charges :
      LET o == g.observed[j]
      IN  /\ Measured(o.perComparison) /\ Measured(o.streams) =>
               o.streams = g.charges[j].logical * o.perComparison
          /\ Measured(o.streams) /\ Measured(o.perStream) /\ Measured(o.refreshes) =>
               o.refreshes = o.streams * o.perStream

\* And a group's measured total is never below what its charges add up to as
\* integers, and is that sum of streams when every charge has its streams.
AggregatesExact ==
  Valid(copy) =>
    \A g \in Range(heap[copy.groups]) :
      LET count(j) == IF Measured(g.observed[j].streams) THEN g.observed[j].streams ELSE 0
          refreshed(j) == IF Measured(g.observed[j].refreshes) THEN g.observed[j].refreshes ELSE 0
          complete == \A j \in DOMAIN g.charges : Measured(g.observed[j].streams)
          streams == SumOver(1, Len(g.charges), count)
      IN  g.charges # <<>> =>
            /\ Measured(g.streams) => g.streams >= streams /\ (complete => g.streams = streams)
            /\ Measured(g.refreshes) => g.refreshes >= SumOver(1, Len(g.charges), refreshed)

\* A write into a copy never goes unnoticed, measured counts included, and
\* never reaches the original of a clone; it does reach the original of an
\* assigned copy, which then does not validate either when groups were written.
WritesAreSeen ==
  /\ written => ~Valid(copy)
  /\ mine # NoPlan /\ (~written \/ detached) => Valid(mine)
  /\ mine # NoPlan /\ Valid(mine) =>
       heap["mine"] = Groups(request, source, group)

\* An issued plan verifies against its own source and request only, with or
\* without measurements attached.
OnlyOwnRequestVerifies ==
  \A s \in Sources, r \in Requests :
    copy # NoPlan =>
      (VerifiesAgainst(copy, s, r) <=> ~written /\ s.id = source.id /\ r = request)
=============================================================================
