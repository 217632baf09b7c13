------------------------- MODULE CapacityAdmission -------------------------
(***************************************************************************)
(* integer/secureprofile: admission to memory.  A plan evaluates a         *)
(* snapshot of the physical memory to a report and, if the projected use   *)
(* stays below four fifths, to a permit; a construction spec turns the     *)
(* permit of the combined plan into the permit of one construction, whose  *)
(* stages run only after everything has been evaluated again.              *)
(*                                                                         *)
(* Reports and permits are values in the hands of a caller: between two    *)
(* calls the caller may take a new snapshot, use another plan, or hold a   *)
(* report or permit in which a field is not what was issued.               *)
(***************************************************************************)
EXTENDS CapacityPlans, TLC

CONSTANTS
  Snapshots,      \* the snapshots [id, total, available] a caller takes
  PeakContract,   \* DefaultGaoN16RouteBPeakContract, in units
  MaxChanges      \* how often the caller changes what it holds

ASSUME AdmissionAssumption ==
  /\ \A at \in Snapshots : at.total \in Nat /\ at.available \in Nat
  /\ PeakContract.duplicate \in Nat

VARIABLES
  plan, snapshot,         \* what the caller evaluates with
  report, permit,         \* what it holds
  spec, construction,     \* the construction spec, and the permit it minted
  called,                 \* stages of the construction that have been called
  verdict,                \* what the last call answered
  issuer, minter,         \* of the report and permit, and of the construction permit
  changes

held == <<report, permit, issuer>>
building == <<spec, construction, called, minter>>
admissionVars == <<plan, snapshot, held, building, verdict, changes>>

-----------------------------------------------------------------------------
\* A plan is valid when what it was made of makes it again.
ValidPlan(p) == p # NoPlan /\ Intact(p) /\ p \in MadePlans

\* The projected use of memory, with the floors of the integer divisions.
Guard(share, policy) ==
  LET relative == share \div policy.guardDenominator
  IN  IF relative < policy.minimumGuard THEN policy.minimumGuard ELSE relative

\* Fault: a projection that meets the limit is admitted.
FaultJudged(used, product, share, guard, guarded, projected, limit) ==
  [overflow |-> Overflow \in {product, share, guarded, projected}, used |-> used, limit |-> limit,
   guard |-> guard, guarded |-> guarded, projected |-> projected,
   remaining |-> IF projected >= limit THEN 0 ELSE limit - projected,
   decision |-> IF projected > limit THEN "RESOURCE_BLOCKED" ELSE "ADMITTED"]

Judged(used, product, share, guard, guarded, projected, limit) ==
  [overflow |-> Overflow \in {product, share, guarded, projected}, used |-> used, limit |-> limit,
   guard |-> guard, guarded |-> guarded, projected |-> projected,
   remaining |-> IF projected >= limit THEN 0 ELSE limit - projected,
   decision |-> IF projected >= limit THEN "RESOURCE_BLOCKED" ELSE "ADMITTED"]

Projection(peak, policy, used, product, share, guard) ==
  Judged(used, product, share, guard, peak ++ guard, used ++ (peak ++ guard), product \div policy.limitDenominator)

Weighed(peak, policy, at, share) ==
  Projection(peak, policy, at.total - at.available, at.total ** policy.limitNumerator,
             share, Guard(share, policy))

Assess(peak, policy, at) == Weighed(peak, policy, at, peak ** policy.guardNumerator)

ValidSnapshot(at) == at.id # "" /\ at.total # 0 /\ at.available <= at.total

\* The probe of the artifact plan covers the policy and the snapshot; those of
\* the other plans also cover the plan, and the phase.
ArtifactProbe(p, at) == [policy |-> p.policy.digest, snapshot |-> at]
CombinedProbe(p, at) == [policy |-> p.policy.digest, snapshot |-> at, plan |-> p.digest]
PhaseProbe(p, at) == [policy |-> p.policy.digest, snapshot |-> at, plan |-> p.digest, phase |-> p.phase]

NoReport == [kind |-> "none"]
NoPermit == [kind |-> "none"]

ReportOf(p, at, probe, a) ==
  IF ~ValidPlan(p) \/ ~ValidSnapshot(at) \/ a.overflow THEN NoReport
  ELSE Sealed([kind |-> p.kind, claims |-> p.claims, plan |-> p.digest, probe |-> probe,
               snapshot |-> at, assessed |-> a, decision |-> a.decision, peak |-> p.peak,
               digest |-> NoDigest])
Report(p, at, probe) == ReportOf(p, at, probe, Assess(p.peak, p.policy, at))

\* A blocked report is returned, for the record, but no permit with it.
PermitOf(r) ==
  IF r = NoReport \/ r.decision # "ADMITTED" THEN NoPermit
  ELSE Sealed([kind |-> r.kind, claims |-> r.claims, decision |-> r.decision, plan |-> r.plan,
               probe |-> r.probe, report |-> r.digest, digest |-> NoDigest])

Evaluation(r) == [report |-> r, permit |-> PermitOf(r)]

Evaluated(p, at) ==
  IF p = NoPlan THEN Evaluation(NoReport)
  ELSE Evaluation(Report(p, at, CASE p.kind = "artifact" -> ArtifactProbe(p, at)
                                  [] p.kind = "combined" -> CombinedProbe(p, at)
                                  [] p.kind = "phase" -> PhaseProbe(p, at)))

\* The artifact plan compares the digests, the others the whole value; then the
\* digest of what was given is computed again.
ArtifactReportValid(r, expected) ==
  NoReport \notin {r, expected} /\ r.digest = expected.digest /\ Intact(r)

PackingReportValid(p, at, r) == r # NoReport /\ r = Evaluated(p, at).report /\ Intact(r)

\* Fault: a permit is valid if it is admitted and its own seal is.
FaultPermitValid(p, at, given) ==
  given # NoPermit /\ ValidPlan(p) /\ ValidSnapshot(at) /\ Intact(given) /\ given.decision = "ADMITTED"
PermitValid(p, at, given) == given # NoPermit /\ given = Evaluated(p, at).permit

-----------------------------------------------------------------------------
\* Route-B construction: identities of the transforms and payloads, the byte
\* contract, the semantics and the manifest that binds them to the plan.
Canonical(digests) == \A i \in DOMAIN digests : digests[i] # ""

\* Literals: raw and effective literal, raw and effective scaling.
TransformDigests(role, literals) == Sealed([role |-> role, literals |-> literals, digest |-> NoDigest])
ValidTransform(value, role) == Canonical(value.literals) /\ value.role = role /\ Intact(value)

Artifacts(c2s, s2c, payloads) == Sealed([c2s |-> c2s, s2c |-> s2c, payloads |-> payloads, digest |-> NoDigest])
ValidArtifacts(value) ==
  /\ ValidTransform(value.c2s, "c2s") /\ ValidTransform(value.s2c, "s2c")
  /\ Canonical(value.payloads) /\ Intact(value)

\* The guard of a contract is a tenth of its peak, and the default constructor
\* that the schedule excludes would exceed what remains by exactly the excess.
ValidPeakContract(value) ==
  /\ value = PeakContract
  /\ value.guarded = value.peak ++ (value.peak \div 10)
  /\ value.duplicate > value.remaining /\ value.duplicate - value.remaining = value.excess

DefaultSemantics ==
  Sealed([generatorBits |-> 256, encoderBits |-> 256, defaultConstructorCalls |-> 0,
          schedule |-> "factor-at-a-time", contract |-> PeakContract, digest |-> NoDigest])
ValidSemantics(value) ==
  /\ ValidPeakContract(value.contract) /\ value = DefaultSemantics /\ Intact(value)
  /\ value.generatorBits = value.encoderBits /\ value.defaultConstructorCalls = 0

ArtifactManifest(p, artifacts, semantics) ==
  Sealed([plan |-> p.digest, artifacts |-> artifacts, semantics |-> semantics, digest |-> NoDigest])

NoSpec == [schema |-> "none"]
NewSpec(p, artifacts, semantics) ==
  IF p.kind # "combined" \/ ~ValidPlan(p) \/ ~ValidArtifacts(artifacts) \/ ~ValidSemantics(semantics)
  THEN NoSpec
  ELSE Sealed([schema |-> "spec", plan |-> p, artifacts |-> artifacts, semantics |-> semantics,
               manifest |-> ArtifactManifest(p, artifacts, semantics), digest |-> NoDigest])

ValidSpec(s) ==
  /\ s # NoSpec /\ ValidPlan(s.plan) /\ ValidArtifacts(s.artifacts) /\ ValidSemantics(s.semantics)
  /\ s.manifest = ArtifactManifest(s.plan, s.artifacts, s.semantics) /\ Intact(s)

\* The contract has to be what the plan projects for exactly this snapshot.
PeakAgainstCapacity(s, r, contract) ==
  /\ s.plan.artifactPeak = contract.artifactPeak
  /\ s.plan.peak = contract.peak /\ r.peak = contract.peak
  /\ r.assessed.guarded = contract.guarded /\ r.assessed.remaining = contract.remaining
  /\ r.assessed.projected ++ contract.duplicate > r.assessed.limit
  /\ contract.duplicate - contract.remaining = contract.excess

\* spec.Evaluate: the capacity report and permit are built again.
MintedFrom(s, at, given, r) ==
  IF ~ValidSpec(s) \/ ~PermitValid(s.plan, at, given) \/ ~PeakAgainstCapacity(s, r, s.semantics.contract)
  THEN NoPermit
  ELSE Sealed([kind |-> "construction", decision |-> "ADMITTED", spec |-> s.digest, snapshot |-> at,
               capacity |-> <<r.probe, r.digest, given.digest>>, manifest |-> s.manifest,
               digest |-> NoDigest])
Minted(s, at, given) == MintedFrom(s, at, given, Evaluated(s.plan, at).report)

ConstructionValid(minted, expected) ==
  expected # NoPermit /\ minted = expected /\ Intact(minted)

-----------------------------------------------------------------------------
\* Who issued the report, the permit and the construction permit held.
Nobody == [by |-> "nobody"]
Forger == [by |-> "altered"]

AdmissionInit ==
  /\ plan = NoPlan /\ snapshot \in Snapshots
  /\ report = NoReport /\ permit = NoPermit /\ issuer = [report |-> Nobody, permit |-> Nobody]
  /\ spec = NoSpec /\ construction = NoPermit /\ called = <<>> /\ minter = Nobody
  /\ verdict = "none" /\ changes = 0

\* A plan is made of the defaults, or of a profile, shape or policy in which one
\* field differs and which is sealed again.
Drifts == {"none", "profile", "shape", "policy"}
Promoted(value) == Sealed([value EXCEPT !.claims = "source_faithful"])
Loose == Sealed([DefaultPolicy EXCEPT !.limitNumerator = 5])
Leaner(shape) == Sealed([shape EXCEPT !.stcDiagonals = <<63, 63>>])

MakeArtifactPlan ==
  \E drift \in Drifts :
    plan' = NewArtifactPlan(
      IF drift = "profile" THEN Sealed([Profiled(Candidate) EXCEPT !.maturity = "verified"]) ELSE Profiled(Candidate),
      IF drift = "shape" THEN [DefaultArtifactShape EXCEPT !.ctsDiagonals = <<32, 63>>] ELSE DefaultArtifactShape,
      IF drift = "policy" THEN Loose ELSE DefaultPolicy)

PackingInputs(drift) ==
  [profile |-> IF drift = "profile" THEN Promoted(NewPackingProfile) ELSE NewPackingProfile,
   shape |-> IF drift = "shape" THEN Leaner(DefaultPackingShape) ELSE DefaultPackingShape,
   policy |-> IF drift = "policy" THEN Loose ELSE DefaultPolicy]

MakeCombinedPlan ==
  \E drift \in Drifts :
    LET in == PackingInputs(drift) IN plan' = NewCombinedPlan(in.profile, in.shape, in.policy)

MakePhasePlan ==
  \E drift \in Drifts, phase \in Phases \union {"unknown"} :
    LET in == PackingInputs(drift) IN plan' = NewPhasePlan(in.profile, in.shape, in.policy, phase)

MakePlan ==
  /\ plan = NoPlan
  /\ MakeArtifactPlan \/ MakeCombinedPlan \/ MakePhasePlan
  /\ UNCHANGED <<snapshot, held, building, verdict, changes>>

\* The reports of the artifact plan have a type of their own; those of the other
\* plans are of one type, and so may be taken to a plan that did not issue them.
PackingPlans == {p \in MadePlans : p.kind # "artifact"}

UseOtherPlan ==
  /\ report # NoReport /\ plan.kind # "artifact" /\ changes < MaxChanges /\ changes' = changes + 1
  /\ plan' \in PackingPlans \ {plan}
  /\ verdict' = "none" /\ UNCHANGED <<snapshot, held, building>>

\* The caller looks at the memory again.
TakeSnapshot ==
  /\ report # NoReport /\ changes < MaxChanges /\ changes' = changes + 1
  /\ snapshot' \in Snapshots \ {snapshot}
  /\ verdict' = "none" /\ UNCHANGED <<plan, held, building>>

Issuer(p, at) == [by |-> p.kind, phase |-> p.phase, snapshot |-> at]

\* Evaluate: the report, and the permit or nothing.
Evaluate ==
  /\ plan # NoPlan /\ report = NoReport
  /\ \E e \in {Evaluated(plan, snapshot)} :
       /\ report' = e.report /\ permit' = e.permit
       /\ verdict' = IF e.permit = NoPermit THEN "blocked" ELSE "admitted"
  /\ LET this == Issuer(plan, snapshot) IN issuer' = [report |-> this, permit |-> this]
  /\ UNCHANGED <<plan, snapshot, building, changes>>

\* One field of what the caller holds is not what was issued, sealed again or not.
Foreign == [foreign |-> 0]
Altered(value) ==
  LET fields == {n \in {"decision", "peak", "plan", "probe", "report", "spec", "manifest"} : n \in DOMAIN value}
      Other(n) == IF n = "peak" THEN IF value.peak = 0 THEN 1 ELSE 0
                  ELSE IF n = "decision" THEN IF value.decision = "ADMITTED" THEN "RESOURCE_BLOCKED" ELSE "ADMITTED"
                  ELSE Foreign
      changed == {[value EXCEPT ![n] = Other(n)] : n \in fields}
  IN  changed \union {Sealed(v) : v \in changed}

Alter ==
  /\ changes < MaxChanges /\ changes' = changes + 1
  /\ \/ report # NoReport /\ issuer.report # Forger
        /\ report' \in Altered(report) /\ issuer' = [issuer EXCEPT !.report = Forger]
        /\ UNCHANGED <<plan, permit, building>>
     \/ permit # NoPermit /\ issuer.permit # Forger
        /\ permit' \in Altered(permit) /\ issuer' = [issuer EXCEPT !.permit = Forger]
        /\ UNCHANGED <<plan, report, building>>
     \/ plan # NoPlan /\ plan.peak # 0 /\ report = NoReport
        /\ plan' \in {[plan EXCEPT !.peak = 0], Sealed([plan EXCEPT !.peak = 0])}
        /\ UNCHANGED <<held, building>>
     \/ construction # NoPermit /\ minter # Forger
        /\ construction' \in Altered(construction) /\ minter' = Forger
        /\ UNCHANGED <<plan, held, spec, called>>
  /\ verdict' = "none" /\ UNCHANGED snapshot

ValidateReport ==
  /\ plan # NoPlan /\ report # NoReport
  /\ verdict' = IF IF plan.kind = "artifact" THEN ArtifactReportValid(report, Evaluated(plan, snapshot).report)
                   ELSE PackingReportValid(plan, snapshot, report)
                THEN "report valid" ELSE "refused"
  /\ UNCHANGED <<plan, snapshot, held, building, changes>>

ValidatePermit ==
  /\ plan # NoPlan /\ permit # NoPermit
  /\ verdict' = IF PermitValid(plan, snapshot, permit) THEN "permit valid" ELSE "refused"
  /\ UNCHANGED <<plan, snapshot, held, building, changes>>

-----------------------------------------------------------------------------
\* Construction.  The identities may be swapped between the roles, or missing.
OwnC2S == TransformDigests("c2s", <<"c1", "c2", "c3", "c4">>)
OwnS2C == TransformDigests("s2c", <<"s1", "s2", "s3", "s4">>)
Offered ==
  {Artifacts(OwnC2S, OwnS2C, <<"numeric", "encoded">>), Artifacts(OwnC2S, OwnS2C, <<"numeric", "other">>),
   Artifacts(OwnS2C, OwnC2S, <<"numeric", "encoded">>), Artifacts(OwnC2S, OwnS2C, <<"", "encoded">>),
   Artifacts(TransformDigests("c2s", <<"", "c2", "c3", "c4">>), OwnS2C, <<"numeric", "encoded">>)}

MakeSpec ==
  /\ permit # NoPermit /\ called = <<>>
  /\ \E artifacts \in Offered, bits \in {256, 128} :
       spec' = NewSpec(plan, artifacts, Sealed([DefaultSemantics EXCEPT !.encoderBits = bits]))
  /\ \/ spec = NoSpec /\ UNCHANGED changes
     \/ spec # NoSpec /\ spec' \notin {spec, NoSpec} /\ changes < MaxChanges /\ changes' = changes + 1
  /\ verdict' = IF spec' = NoSpec THEN "refused" ELSE "none"
  /\ UNCHANGED <<plan, snapshot, held, construction, called, minter>>

Minter(s, at, from) == [by |-> "spec", spec |-> s.artifacts, snapshot |-> at, capacity |-> from]

MintConstruction ==
  /\ spec # NoSpec /\ construction = NoPermit
  /\ construction' = Minted(spec, snapshot, permit)
  /\ minter' = Minter(spec, snapshot, issuer.permit)
  /\ verdict' = IF construction' = NoPermit THEN "blocked" ELSE "admitted"
  /\ UNCHANGED <<plan, snapshot, held, spec, called, changes>>

\* RunAfterValidation: the stages in order, until one fails; none if one of them
\* is missing.
Stages == <<"provider", "builder", "encoder">>
RunAfterValidation ==
  /\ construction # NoPermit /\ called = <<>>
  /\ \E present \in BOOLEAN :
     IF present /\ ConstructionValid(construction, Minted(spec, snapshot, permit))
     THEN \E n \in 1..Len(Stages), ok \in BOOLEAN :
            /\ ok => n = Len(Stages)
            /\ called' = SubSeq(Stages, 1, n) /\ verdict' = IF ok THEN "built" ELSE "stage failed"
     ELSE verdict' = "refused" /\ UNCHANGED called
  /\ UNCHANGED <<plan, snapshot, held, spec, construction, minter, changes>>

AdmissionNext ==
  \/ MakePlan \/ UseOtherPlan \/ TakeSnapshot \/ Evaluate \/ Alter \/ ValidateReport \/ ValidatePermit
  \/ MakeSpec \/ MintConstruction \/ RunAfterValidation

AdmissionSpec == AdmissionInit /\ [][AdmissionNext]_admissionVars

-----------------------------------------------------------------------------
\* What is accepted was issued by this plan for this snapshot and has not been
\* touched since, whatever is sealed again: not by another phase whose ledger is
\* the same, not for memory that has changed, and no construction runs on the
\* permit of another spec, snapshot or capacity permit (gao_n16_capacity.go:339,
\* gao_n16_packing_l11_phase.go:612, gao_n16_route_b_construction.go:856).
AcceptedIsOwn ==
  /\ verdict = "report valid" => issuer.report = Issuer(plan, snapshot)
  /\ verdict = "permit valid" => issuer.permit = Issuer(plan, snapshot)
  /\ verdict \in {"built", "stage failed"} =>
       /\ minter = Minter(spec, snapshot, issuer.permit)
       /\ issuer.permit = [by |-> "combined", phase |-> "", snapshot |-> snapshot]

\* An accepted permit leaves room: without any rounding, what is used, the peak
\* of the plan and the guard stay below four fifths of the memory.  Memory that
\* holds the combined plan holds every phase of it, and the construction that
\* runs has no room for the constructor its schedule excludes
\* (gao_n16_capacity.go:385, gao_n16_packing_l11_phase.go:40,
\* gao_n16_route_b_construction.go:833).
AdmittedFits ==
  verdict \in {"permit valid", "built", "stage failed"} =>
    LET p == IF verdict = "permit valid" THEN plan ELSE spec.plan
        used == snapshot.total - snapshot.available
        guard == IF p.peak \div 10 > MinimumGuard THEN p.peak \div 10 ELSE MinimumGuard
        Fits(bytes) == 5 * (used + bytes + guard) < 4 * snapshot.total
    IN  /\ Fits(p.peak) /\ p.artifactPeak >= p.resident
        /\ p.kind = "combined" => \A phase \in Phases : Fits(ComponentSum(PhaseComponents(p, phase)))
        /\ verdict # "permit valid" => ~Fits(p.peak + PeakContract.duplicate)
=============================================================================
