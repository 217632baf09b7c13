--------------------------- MODULE RouteBLineage ---------------------------
(***************************************************************************)
(* The Route-B artifact lifecycle of integer/secureeval.                   *)
(*                                                                         *)
(* A RouteBAuthority samples the host's memory under sampleMu and gives    *)
(* every sample a generation.  A lineage (routeBLineageCell) starts when   *)
(* AuthorizeBuild mints a permit and is driven by BeginBuild,              *)
(* AuthorizeReady, Install, the first operation on the installed evaluator *)
(* and the later operational A2B calls.  Each of those validates its       *)
(* handles, obtains a new capacity sample, validates again, compares       *)
(* generations, wins a compare-and-swap on the lineage state, stores the   *)
(* consumed generation and only then works.                                *)
(*                                                                         *)
(* A Call is one goroutine inside one such method.  Several may hold       *)
(* copies of the same handles, so every atomic step of a call is an action *)
(* of its own.  The DFT construction counters are process-wide: one        *)
(* counter stands for their sum (every check compares all four deltas with *)
(* 0/0/0/k, and every construction entered here is an observed-streaming   *)
(* one, so the sum differs from k exactly when some delta differs).        *)
(***************************************************************************)
EXTENDS Integers, FiniteSets

CONSTANTS
  Authority,      \* RouteBAuthority values of the process
  Lineage,        \* lineage cells AuthorizeBuild may mint (bounds the model)
  Owner,          \* Owner[l]: the authority whose AuthorizeBuild mints l
  Call,           \* goroutines calling the API
  MaxGeneration,  \* stands for math.MaxUint64, where sampling is exhausted
  None            \* no job, no lock holder

ASSUME LineageAssumption ==
  /\ Owner \in [Lineage -> Authority]
  /\ MaxGeneration \in Nat
  /\ None \notin Call

VARIABLES
  generation,        \* routeBAuthorityCell.generation
  state,             \* routeBLineageCell.state
  mintGeneration,    \* routeBLineageCell.mintGeneration
  lastConsumed,      \* routeBLineageCell.lastConsumedGeneration
  readyGeneration,   \* ReadyPermit.runtime.Generation, 0 before a permit exists
  installGeneration, \* routeBInstalledEvaluatorCell.install.Generation
  artifact,          \* routeBArtifactCell: availability and matrices
  evaluator,         \* routeBInstalledEvaluatorCell: availability and evaluator
  firstOperation,    \* operation of routeBInstalledEvaluatorCell.firstOperation
  preparedA2BFull,   \* routeBInstalledEvaluatorCell.preparedA2BFull is set
  operationMu,       \* holder of routeBInstalledEvaluatorCell.operationMu
  constructions,     \* sum of the process-wide DFT construction counters
  pc,                \* where a call is in its method
  job,               \* the call's method and arguments
  ev,                \* generation of the call's capacity evidence
  before             \* the call's construction-counter snapshot

authorityVars == <<generation>>
lineageVars   == <<state, mintGeneration, lastConsumed>>
permitVars    == <<readyGeneration, installGeneration>>
payloadVars   == <<artifact, evaluator, firstOperation, preparedA2BFull>>
callVars      == <<operationMu, pc, job, ev, before>>
vars == <<generation, state, mintGeneration, lastConsumed, readyGeneration,
          installGeneration, artifact, evaluator, firstOperation,
          preparedA2BFull, operationMu, constructions, pc, job, ev, before>>

----------------------------------------------------------------------------
(* Vocabulary of the source.                                               *)

Working == {"Building", "Readying", "Installing", "Preflighting"}

LineageState ==
  {"Zero", "Authorized", "PrivateUninstalled", "Ready", "InstalledUnverified",
   "Operational", "Failed"} \cup Working

FirstOps     == {"FirstA2BFull", "FirstOther"}
InstalledOps == FirstOps \cup {"OperationalA2B"}
ArtifactOps  == {"AuthorizeReady", "Install"}
LockingOps   == InstalledOps \cup {"Retire"}
StageOps     == {"BeginBuild"} \cup ArtifactOps \cup InstalledOps
Ops          == {"AuthorizeBuild", "Retire"} \cup StageOps

\* The state a stage's compare-and-swap expects, the one it sets, and the one
\* the stage publishes.
From(op) ==
  CASE op = "BeginBuild"     -> "Authorized"
    [] op = "AuthorizeReady" -> "PrivateUninstalled"
    [] op = "Install"        -> "Ready"
    [] op \in FirstOps       -> "InstalledUnverified"
    [] OTHER                 -> "Operational"

During(op) ==
  CASE op = "BeginBuild"     -> "Building"
    [] op = "AuthorizeReady" -> "Readying"
    [] op = "Install"        -> "Installing"
    [] OTHER                 -> "Preflighting"

\* Artifact cell: not built; built with matrices; matrices moved to the
\* assembler while available is still set; cleared or handed over.
ArtifactState  == {"none", "resident", "donated", "released"}
\* Evaluator: none; assembled inside Install; returned to the caller; cleared.
EvaluatorState == {"none", "assembled", "available", "retired"}

\* lin: lineage of the permit or of the installed handle; art: lineage of the
\* receipt and artifact presented with it; auth: the receiver.
Jobs == [op : Ops, lin : Lineage, art : Lineage, auth : Authority]

Waiting == {"enter", "sample", "recheck", "cas", "mint"}
Won     == {"store", "snapshot", "cts", "delta", "guard", "assemble", "install",
            "deferred", "run", "runDelta", "publish", "clear"}

TypeOK ==
  /\ generation \in [Authority -> 0..MaxGeneration]
  /\ state \in [Lineage -> LineageState]
  /\ mintGeneration \in [Lineage -> Nat]
  /\ lastConsumed \in [Lineage -> Nat]
  /\ readyGeneration \in [Lineage -> Nat]
  /\ installGeneration \in [Lineage -> Nat]
  /\ artifact \in [Lineage -> ArtifactState]
  /\ evaluator \in [Lineage -> EvaluatorState]
  /\ firstOperation \in [Lineage -> FirstOps \cup {"none"}]
  /\ preparedA2BFull \in [Lineage -> BOOLEAN]
  /\ operationMu \in [Lineage -> Call \cup {None}]
  /\ constructions \in Nat
  /\ pc \in [Call -> {"idle"} \cup Waiting \cup Won]
  /\ job \in [Call -> Jobs \cup {None}]
  /\ ev \in [Call -> Nat]
  /\ before \in [Call -> Nat]
  /\ \A c \in Call : pc[c] # "idle" => job[c] \in Jobs

Init ==
  /\ generation = [a \in Authority |-> 0]
  /\ state = [l \in Lineage |-> "Zero"]
  /\ mintGeneration = [l \in Lineage |-> 0]
  /\ lastConsumed = [l \in Lineage |-> 0]
  /\ readyGeneration = [l \in Lineage |-> 0]
  /\ installGeneration = [l \in Lineage |-> 0]
  /\ artifact = [l \in Lineage |-> "none"]
  /\ evaluator = [l \in Lineage |-> "none"]
  /\ firstOperation = [l \in Lineage |-> "none"]
  /\ preparedA2BFull = [l \in Lineage |-> FALSE]
  /\ operationMu = [l \in Lineage |-> None]
  /\ constructions = 0
  /\ pc = [c \in Call |-> "idle"]
  /\ job = [c \in Call |-> None]
  /\ ev = [c \in Call |-> 0]
  /\ before = [c \in Call |-> 0]

----------------------------------------------------------------------------
(* Steps shared by the methods.                                            *)

Lin(c) == job[c].lin
Op(c)  == job[c].op

Goto(c, to) == pc' = [pc EXCEPT ![c] = to]

\* The deferred Unlock of operationMu runs on every return.
Unlocked(c) == [l \in Lineage |-> IF operationMu[l] = c THEN None ELSE operationMu[l]]

Return(c) ==
  /\ pc' = [pc EXCEPT ![c] = "idle"]
  /\ job' = [job EXCEPT ![c] = None]
  /\ ev' = [ev EXCEPT ![c] = 0]
  /\ before' = [before EXCEPT ![c] = 0]
  /\ operationMu' = Unlocked(c)

\* Calls that may start: the caller holds the handles.  A build permit exists
\* once minted, receipt and artifact once BeginBuild returned, an installed
\* handle once Install returned.  Only AuthorizeReady and Install take a
\* receipt and an artifact, and they may belong to another lineage.
Callable(j) ==
  /\ j.op = "AuthorizeBuild" => /\ state[j.lin] = "Zero"
                                /\ j.auth = Owner[j.lin]
                                /\ \A d \in Call : pc[d] # "idle" => Lin(d) # j.lin
  /\ j.op # "AuthorizeBuild" => state[j.lin] # "Zero"
  /\ IF j.op \in ArtifactOps THEN artifact[j.art] # "none" ELSE j.art = j.lin
  /\ j.op = "Install" => readyGeneration[j.lin] # 0
  /\ j.op \in LockingOps => /\ evaluator[j.lin] \in {"available", "retired"}
                            /\ j.auth = Owner[j.lin]

Start(c) ==
  /\ pc[c] = "idle"
  /\ \E j \in Jobs :
       /\ Callable(j)
       /\ job' = [job EXCEPT ![c] = j]
       /\ Goto(c, IF j.op = "AuthorizeBuild" THEN "sample" ELSE "enter")
  /\ UNCHANGED <<authorityVars, lineageVars, permitVars, payloadVars,
                 operationMu, constructions, ev, before>>

\* What each validation compares.  Evidence of the mint still unspent; spent by
\* the build and not re-minted; the permit rests on the last sample consumed;
\* the installation does; the first operation was the complete A2B.
BuildEvidence(l)       == lastConsumed[l] = mintGeneration[l]
ReadyEvidence(l)       == lastConsumed[l] > mintGeneration[l]
InstallEvidence(l)     == readyGeneration[l] = lastConsumed[l]
FirstEvidence(l)       == installGeneration[l] = lastConsumed[l]
OperationalEvidence(l) == preparedA2BFull[l] /\ firstOperation[l] = "FirstA2BFull"

ArtifactBound(c) == /\ job[c].art = Lin(c)
                    /\ artifact[Lin(c)] \in {"resident", "donated"}

\* Fault: handles of different lineages accepted together.
Valid_AnyArtifact(c) ==
  LET l == Lin(c) IN
  /\ job[c].auth = Owner[l]
  /\ state[l] = From(Op(c))
  /\ Op(c) = "BeginBuild" => BuildEvidence(l)
  /\ Op(c) \in ArtifactOps => artifact[job[c].art] \in {"resident", "donated"}
  /\ Op(c) = "AuthorizeReady" => ReadyEvidence(l)
  /\ Op(c) = "Install" => InstallEvidence(l)
  /\ Op(c) \in InstalledOps => evaluator[l] = "available"
  /\ Op(c) \in FirstOps => FirstEvidence(l)
  /\ Op(c) = "OperationalA2B" => OperationalEvidence(l)

\* validate...BeforeUse of the stage.  The loads of one validation are one
\* step: they are followed by the compare-and-swap that decides.
Valid(c) ==
  LET l == Lin(c) IN
  /\ job[c].auth = Owner[l]
  /\ state[l] = From(Op(c))
  /\ Op(c) = "BeginBuild" => BuildEvidence(l)
  /\ Op(c) \in ArtifactOps => ArtifactBound(c)
  /\ Op(c) = "AuthorizeReady" => ReadyEvidence(l)
  /\ Op(c) = "Install" => InstallEvidence(l)
  /\ Op(c) \in InstalledOps => evaluator[l] = "available"
  /\ Op(c) \in FirstOps => FirstEvidence(l)
  /\ Op(c) = "OperationalA2B" => OperationalEvidence(l)

Unlocking(c) == Op(c) \in LockingOps => operationMu[Lin(c)] = None

\* Validation before the capacity gate.  The operations of an installed
\* evaluator lock operationMu first and keep it until they return.
Enter(c) ==
  /\ pc[c] = "enter" /\ Op(c) # "Retire"
  /\ Unlocking(c)
  /\ Valid(c)
  /\ operationMu' = IF Op(c) \in LockingOps
                    THEN [operationMu EXCEPT ![Lin(c)] = c] ELSE operationMu
  /\ Goto(c, IF Op(c) = "OperationalA2B" THEN "cas" ELSE "sample")
  /\ UNCHANGED <<authorityVars, lineageVars, permitVars, payloadVars,
                 constructions, job, ev, before>>

Refuse(c) ==
  /\ pc[c] = "enter" /\ Op(c) # "Retire"
  /\ Unlocking(c)
  /\ ~Valid(c)
  /\ Return(c)
  /\ UNCHANGED <<authorityVars, lineageVars, permitVars, payloadVars, constructions>>

----------------------------------------------------------------------------
(* Capacity: sampleAndEvaluateCapacity is one step, sampleMu covers it.    *)

\* Fault: the generation is read and returned without being advanced.
SampleAdmitted_Stale(c) ==
  LET a == job[c].auth IN
  /\ pc[c] = "sample"
  /\ generation[a] < MaxGeneration
  /\ generation' = [generation EXCEPT ![a] = IF @ = 0 THEN 1 ELSE @]
  /\ ev' = [ev EXCEPT ![c] = generation'[a]]
  /\ Goto(c, IF Op(c) = "AuthorizeBuild" THEN "mint" ELSE "recheck")
  /\ UNCHANGED <<lineageVars, permitVars, payloadVars, operationMu,
                 constructions, job, before>>

\* Fault: exhaustion is noticed one sample too late.
SampleAdmitted_Wraps(c) ==
  LET a == job[c].auth IN
  /\ pc[c] = "sample"
  /\ generation[a] <= MaxGeneration
  /\ generation' = [generation EXCEPT ![a] = @ + 1]
  /\ ev' = [ev EXCEPT ![c] = generation[a] + 1]
  /\ Goto(c, IF Op(c) = "AuthorizeBuild" THEN "mint" ELSE "recheck")
  /\ UNCHANGED <<lineageVars, permitVars, payloadVars, operationMu,
                 constructions, job, before>>

SampleAdmitted(c) ==
  LET a == job[c].auth IN
  /\ pc[c] = "sample"
  /\ generation[a] < MaxGeneration
  /\ generation' = [generation EXCEPT ![a] = @ + 1]
  /\ ev' = [ev EXCEPT ![c] = generation[a] + 1]
  /\ Goto(c, IF Op(c) = "AuthorizeBuild" THEN "mint" ELSE "recheck")
  /\ UNCHANGED <<lineageVars, permitVars, payloadVars, operationMu,
                 constructions, job, before>>

\* The sampler fails or the plan refuses the host: the generation is spent.
SampleBlocked(c) ==
  LET a == job[c].auth IN
  /\ pc[c] = "sample"
  /\ generation[a] < MaxGeneration
  /\ generation' = [generation EXCEPT ![a] = @ + 1]
  /\ Return(c)
  /\ UNCHANGED <<lineageVars, permitVars, payloadVars, constructions>>

SampleExhausted(c) ==
  /\ pc[c] = "sample"
  /\ generation[job[c].auth] = MaxGeneration
  /\ Return(c)
  /\ UNCHANGED <<authorityVars, lineageVars, permitVars, payloadVars, constructions>>

\* prepareStoredParameters, then mintArtifactBuildPermit.
Mint(c) ==
  LET l == Lin(c) IN
  /\ pc[c] = "mint"
  /\ mintGeneration' = [mintGeneration EXCEPT ![l] = ev[c]]
  /\ lastConsumed' = [lastConsumed EXCEPT ![l] = ev[c]]
  /\ state' = [state EXCEPT ![l] = "Authorized"]
  /\ Return(c)
  /\ UNCHANGED <<authorityVars, permitVars, payloadVars, constructions>>

\* The stored parameters cannot be prepared, or differ from the permit's.
PrepareFails(c) ==
  /\ pc[c] \in {"mint", "recheck"}
  /\ Return(c)
  /\ UNCHANGED <<authorityVars, lineageVars, permitVars, payloadVars, constructions>>

\* Second validation and the generation comparison after preparation.
Fresh(c) == ev[c] > lastConsumed[Lin(c)]

Recheck(c) ==
  /\ pc[c] = "recheck"
  /\ Valid(c) /\ Fresh(c)
  /\ Goto(c, "cas")
  /\ UNCHANGED <<authorityVars, lineageVars, permitVars, payloadVars,
                 operationMu, constructions, job, ev, before>>

RecheckFails(c) ==
  /\ pc[c] = "recheck"
  /\ ~(Valid(c) /\ Fresh(c))
  /\ Return(c)
  /\ UNCHANGED <<authorityVars, lineageVars, permitVars, payloadVars, constructions>>

----------------------------------------------------------------------------
(* The exclusive transition.                                               *)

\* Fault: the state is stored without comparing it first.
Cas_Unguarded(c) ==
  LET l == Lin(c) IN
  /\ pc[c] = "cas"
  /\ state' = [state EXCEPT ![l] = During(Op(c))]
  /\ Goto(c, IF Op(c) = "OperationalA2B" THEN "run" ELSE "store")
  /\ UNCHANGED <<authorityVars, mintGeneration, lastConsumed, permitVars,
                 payloadVars, operationMu, constructions, job, ev, before>>

\* An operational A2B consumes no new sample: it reuses the first one's.
Cas(c) ==
  LET l == Lin(c) IN
  /\ pc[c] = "cas"
  /\ state[l] = From(Op(c))
  /\ state' = [state EXCEPT ![l] = During(Op(c))]
  /\ Goto(c, IF Op(c) = "OperationalA2B" THEN "run" ELSE "store")
  /\ UNCHANGED <<authorityVars, mintGeneration, lastConsumed, permitVars,
                 payloadVars, operationMu, constructions, job, ev, before>>

\* Fault: a lost compare-and-swap is retried until it wins.
CasLost_Spins(c) ==
  /\ pc[c] = "cas"
  /\ state[Lin(c)] # From(Op(c))
  /\ UNCHANGED vars

CasLost(c) ==
  /\ pc[c] = "cas"
  /\ state[Lin(c)] # From(Op(c))
  /\ Return(c)
  /\ UNCHANGED <<authorityVars, lineageVars, permitVars, payloadVars, constructions>>

Store(c) ==
  /\ pc[c] = "store"
  /\ lastConsumed' = [lastConsumed EXCEPT ![Lin(c)] = ev[c]]
  /\ Goto(c, "snapshot")
  /\ UNCHANGED <<authorityVars, state, mintGeneration, permitVars, payloadVars,
                 operationMu, constructions, job, ev, before>>

----------------------------------------------------------------------------
(* The work, guarded by construction-counter deltas.                       *)

\* BeginBuild snapshots and enters the STC constructor; the others snapshot
\* before rehashing the resident matrices.
Snapshot(c) ==
  /\ pc[c] = "snapshot"
  /\ before' = [before EXCEPT ![c] = constructions]
  /\ IF Op(c) = "BeginBuild"
     THEN constructions' = constructions + 1 /\ Goto(c, "cts")
     ELSE UNCHANGED constructions /\ Goto(c, "delta")
  /\ UNCHANGED <<authorityVars, lineageVars, permitVars, payloadVars,
                 operationMu, job, ev>>

ConstructCTS(c) ==
  /\ pc[c] = "cts"
  /\ constructions' = constructions + 1
  /\ Goto(c, "delta")
  /\ UNCHANGED <<authorityVars, lineageVars, permitVars, payloadVars,
                 operationMu, job, ev, before>>

DeltaAccepted(c) ==
  /\ pc[c] = "delta"
  /\ constructions - before[c] = (IF Op(c) = "BeginBuild" THEN 2 ELSE 0)
  /\ Goto(c, CASE Op(c) \in {"BeginBuild", "AuthorizeReady"} -> "publish"
               [] Op(c) = "Install" -> "guard"
               [] OTHER -> "run")
  /\ UNCHANGED <<authorityVars, lineageVars, permitVars, payloadVars,
                 operationMu, constructions, job, ev, before>>

PublishBuild(c) ==
  /\ pc[c] = "publish" /\ Op(c) = "BeginBuild"
  /\ artifact' = [artifact EXCEPT ![Lin(c)] = "resident"]
  /\ state' = [state EXCEPT ![Lin(c)] = "PrivateUninstalled"]
  /\ Return(c)
  /\ UNCHANGED <<authorityVars, mintGeneration, lastConsumed, permitVars,
                 evaluator, firstOperation, preparedA2BFull, constructions>>

PublishReady(c) ==
  /\ pc[c] = "publish" /\ Op(c) = "AuthorizeReady"
  /\ readyGeneration' = [readyGeneration EXCEPT ![Lin(c)] = ev[c]]
  /\ state' = [state EXCEPT ![Lin(c)] = "Ready"]
  /\ Return(c)
  /\ UNCHANGED <<authorityVars, mintGeneration, lastConsumed, installGeneration,
                 payloadVars, constructions>>

\* Install: the guard's snapshot, then key generation and assembly (which
\* empties the matrix donors), then the installed cell.
Guard(c) ==
  /\ pc[c] = "guard"
  /\ before' = [before EXCEPT ![c] = constructions]
  /\ Goto(c, "assemble")
  /\ UNCHANGED <<authorityVars, lineageVars, permitVars, payloadVars,
                 operationMu, constructions, job, ev>>

Assemble(c) ==
  /\ pc[c] = "assemble"
  /\ artifact' = [artifact EXCEPT ![job[c].art] = "donated"]
  /\ evaluator' = [evaluator EXCEPT ![Lin(c)] = "assembled"]
  /\ Goto(c, "install")
  /\ UNCHANGED <<authorityVars, lineageVars, permitVars, firstOperation,
                 preparedA2BFull, operationMu, constructions, job, ev, before>>

\* The state is already InstalledUnverified while the deferred guard runs.
InstallCell(c) ==
  /\ pc[c] = "install"
  /\ installGeneration' = [installGeneration EXCEPT ![Lin(c)] = ev[c]]
  /\ artifact' = [artifact EXCEPT ![job[c].art] = "released"]
  /\ state' = [state EXCEPT ![Lin(c)] = "InstalledUnverified"]
  /\ Goto(c, "deferred")
  /\ UNCHANGED <<authorityVars, mintGeneration, lastConsumed, readyGeneration,
                 evaluator, firstOperation, preparedA2BFull,
                 operationMu, constructions, job, ev, before>>

InstallReturns(c) ==
  /\ pc[c] = "deferred"
  /\ constructions = before[c]
  /\ evaluator' = [evaluator EXCEPT ![Lin(c)] = "available"]
  /\ Return(c)
  /\ UNCHANGED <<authorityVars, lineageVars, permitVars, artifact,
                 firstOperation, preparedA2BFull, constructions>>

InstallRevoked(c) ==
  /\ pc[c] = "deferred"
  /\ constructions # before[c]
  /\ state' = [state EXCEPT ![Lin(c)] = "Failed"]
  /\ Goto(c, "clear")
  /\ UNCHANGED <<authorityVars, mintGeneration, lastConsumed, permitVars,
                 payloadVars, operationMu, constructions, job, ev, before>>

\* The runner of an installed operation.  A first A2B (and every tree circuit)
\* snapshots and constructs the supplemental second-round STC matrix; the
\* ModUp prefix and the prepared circuit construct nothing.
RunSupplemental(c) ==
  /\ pc[c] = "run" /\ Op(c) \in FirstOps
  /\ before' = [before EXCEPT ![c] = constructions]
  /\ constructions' = constructions + 1
  /\ Goto(c, "runDelta")
  /\ UNCHANGED <<authorityVars, lineageVars, permitVars, payloadVars,
                 operationMu, job, ev>>

RunPlain(c) ==
  /\ pc[c] = "run" /\ Op(c) \in {"FirstOther", "OperationalA2B"}
  /\ Goto(c, "publish")
  /\ UNCHANGED <<authorityVars, lineageVars, permitVars, payloadVars,
                 operationMu, constructions, job, ev, before>>

\* The delta agrees and the circuit is evaluated; an A2BFull runner then leaves
\* it in the installed cell, before the operation is published.
RunDelta(c) ==
  /\ pc[c] = "runDelta"
  /\ constructions - before[c] = 1
  /\ preparedA2BFull' = [preparedA2BFull EXCEPT ![Lin(c)] = @ \/ Op(c) = "FirstA2BFull"]
  /\ Goto(c, "publish")
  /\ UNCHANGED <<authorityVars, lineageVars, permitVars, artifact, evaluator,
                 firstOperation, operationMu, constructions, job, ev, before>>

PublishOperation(c) ==
  LET l == Lin(c) IN
  /\ pc[c] = "publish" /\ Op(c) \in InstalledOps
  /\ firstOperation' = IF Op(c) \in FirstOps
                       THEN [firstOperation EXCEPT ![l] = Op(c)] ELSE firstOperation
  /\ state' = [state EXCEPT ![l] = "Operational"]
  /\ Return(c)
  /\ UNCHANGED <<authorityVars, mintGeneration, lastConsumed, permitVars,
                 artifact, evaluator, preparedA2BFull, constructions>>

\* Fault: failed work puts the lineage back where the stage found it.
Fail_RollsBack(c) ==
  /\ pc[c] \in {"snapshot", "cts", "delta", "guard", "assemble", "install",
                "run", "runDelta", "publish"}
  /\ state' = [state EXCEPT ![Lin(c)] = From(Op(c))]
  /\ Goto(c, "clear")
  /\ UNCHANGED <<authorityVars, mintGeneration, lastConsumed, permitVars,
                 payloadVars, operationMu, constructions, job, ev, before>>

\* Any error or panic of the work: the deferred cleanup first stores Failed...
Fail(c) ==
  /\ pc[c] \in {"snapshot", "cts", "delta", "guard", "assemble", "install",
                "run", "runDelta", "publish"}
  /\ state' = [state EXCEPT ![Lin(c)] = "Failed"]
  /\ Goto(c, "clear")
  /\ UNCHANGED <<authorityVars, mintGeneration, lastConsumed, permitVars,
                 payloadVars, operationMu, constructions, job, ev, before>>

\* Fault: a failed first operation keeps its evaluator usable.
Clear_KeepsEvaluator(c) ==
  LET l == Lin(c) IN
  /\ pc[c] = "clear"
  /\ artifact' = IF Op(c) \in ArtifactOps
                 THEN [artifact EXCEPT ![job[c].art] = "released"] ELSE artifact
  /\ evaluator' = IF Op(c) = "Install" THEN [evaluator EXCEPT ![l] = "none"] ELSE evaluator
  /\ UNCHANGED <<firstOperation, preparedA2BFull>>
  /\ Return(c)
  /\ UNCHANGED <<authorityVars, lineageVars, permitVars, constructions>>

\* ... and then drops the payload: the presented artifact (AuthorizeReady,
\* Install), the assembled but unpublished evaluator (Install), or the
\* installed cell with its prepared circuit (installed operations).
Clear(c) ==
  LET l == Lin(c) IN
  /\ pc[c] = "clear"
  /\ artifact' = IF Op(c) \in ArtifactOps
                 THEN [artifact EXCEPT ![job[c].art] = "released"] ELSE artifact
  /\ evaluator' = CASE Op(c) = "Install"        -> [evaluator EXCEPT ![l] = "none"]
                    [] Op(c) \in InstalledOps   -> [evaluator EXCEPT ![l] = "retired"]
                    [] OTHER                    -> evaluator
  /\ preparedA2BFull' = [preparedA2BFull EXCEPT ![l] = FALSE]
  /\ firstOperation' = IF Op(c) \in FirstOps
                       THEN [firstOperation EXCEPT ![l] = "none"] ELSE firstOperation
  /\ Return(c)
  /\ UNCHANGED <<authorityVars, lineageVars, permitVars, constructions>>

\* Fault: the evaluator is cleared without taking operationMu.
Retire_Unlocked(c) ==
  /\ pc[c] = "enter" /\ Op(c) = "Retire"
  /\ evaluator' = [evaluator EXCEPT ![Lin(c)] = "retired"]
  /\ preparedA2BFull' = [preparedA2BFull EXCEPT ![Lin(c)] = FALSE]
  /\ Return(c)
  /\ UNCHANGED <<authorityVars, lineageVars, permitVars, artifact,
                 firstOperation, constructions>>

\* Fault: the evaluator is dropped and its prepared circuit is not.
Retire_KeepsCircuit(c) ==
  /\ pc[c] = "enter" /\ Op(c) = "Retire"
  /\ operationMu[Lin(c)] = None
  /\ evaluator' = [evaluator EXCEPT ![Lin(c)] = "retired"]
  /\ Return(c)
  /\ UNCHANGED <<authorityVars, lineageVars, permitVars, artifact,
                 firstOperation, preparedA2BFull, constructions>>

\* Close of a session: lock, clear and unlock are one step, nothing else runs
\* under operationMu meanwhile.  The lineage keeps its state.
Retire(c) ==
  /\ pc[c] = "enter" /\ Op(c) = "Retire"
  /\ operationMu[Lin(c)] = None
  /\ evaluator' = [evaluator EXCEPT ![Lin(c)] = "retired"]
  /\ preparedA2BFull' = [preparedA2BFull EXCEPT ![Lin(c)] = FALSE]
  /\ Return(c)
  /\ UNCHANGED <<authorityVars, lineageVars, permitVars, artifact,
                 firstOperation, constructions>>

----------------------------------------------------------------------------
(* Specification.                                                          *)

Admission(c) ==
  \/ Enter(c) \/ Refuse(c) \/ Retire(c)
  \/ SampleAdmitted(c) \/ SampleBlocked(c) \/ SampleExhausted(c)
  \/ Mint(c) \/ PrepareFails(c) \/ Recheck(c) \/ RecheckFails(c)
  \/ Cas(c) \/ CasLost(c) \/ Store(c)

Work(c) ==
  \/ Snapshot(c) \/ ConstructCTS(c) \/ DeltaAccepted(c)
  \/ PublishBuild(c) \/ PublishReady(c)
  \/ Guard(c) \/ Assemble(c) \/ InstallCell(c) \/ InstallReturns(c) \/ InstallRevoked(c)
  \/ RunSupplemental(c) \/ RunPlain(c) \/ RunDelta(c) \/ PublishOperation(c)
  \/ Fail(c) \/ Clear(c)

Next == \E c \in Call : Start(c) \/ Admission(c) \/ Work(c)

Spec == Init /\ [][Next]_vars

\* A goroutine inside a call keeps running.  sync.Mutex hands a starving waiter
\* the lock (its starvation mode), hence strong fairness for the two actions
\* that wait for operationMu.  Nobody is obliged to call.
Fairness == \A c \in Call : /\ WF_vars(Admission(c) \/ Work(c))
                            /\ SF_vars(Enter(c) \/ Refuse(c) \/ Retire(c))

FairSpec == Spec /\ Fairness

----------------------------------------------------------------------------
(* Properties.                                                             *)

\* At most one call at a time works on a lineage, from its won
\* compare-and-swap to the end of its cleanup, whatever copies of permits and
\* handles the callers hold (route_b_live_artifact.go:253, ready.go:134,
\* install.go:135, preflight.go:252).
ExclusiveTransition ==
  \A c, d \in Call : /\ c # d
                     /\ pc[c] \in Won
                     /\ pc[d] \in Won
                     => Lin(c) # Lin(d)

\* Two lineages of one authority never rest on the same capacity sample: a
\* sample admits one transition (the generation is drawn under sampleMu, the
\* capability is consumed once).
OneSampleOneTransition ==
  \A l, m \in Lineage : /\ l # m
                        /\ Owner[l] = Owner[m]
                        /\ lastConsumed[l] # 0
                        => lastConsumed[l] # lastConsumed[m]

\* The matrices of a lineage are never reachable twice, and a failed lineage
\* whose cleanup has ended holds none: no usable artifact, no usable evaluator,
\* also when Install failed after it had stored InstalledUnverified.
PayloadReleased ==
  \A l \in Lineage :
    /\ artifact[l] = "resident" => evaluator[l] = "none"
    /\ /\ state[l] = "Failed"
       /\ \A c \in Call : pc[c] = "clear" => Lin(c) # l
       => /\ artifact[l] \in {"none", "released"}
          /\ evaluator[l] \in {"none", "retired"}

\* Nobody retires or clears an evaluator while an operation runs on it: Close
\* waits on operationMu (route_b_experiment.go:221).
NoRunAfterRetire ==
  \A c \in Call : pc[c] \in Won /\ Op(c) \in InstalledOps
                  => evaluator[Lin(c)] = "available"

\* Whoever gets operationMu and finds a prepared circuit finds a live evaluator
\* whose first admitted operation was the complete A2B, the one whose capacity
\* evidence later calls present again, although the circuit is stored in the
\* middle of that operation (route_b_preflight.go:331, route_b_a2b_full.go:790).
PreparedCircuitIsLive ==
  \A l \in Lineage : operationMu[l] = None /\ preparedA2BFull[l]
                       => /\ evaluator[l] = "available"
                          /\ firstOperation[l] = "FirstA2BFull"

\* The consumed generation of a lineage only grows, although it is stored after
\* the compare-and-swap and not with it.
EvidenceAdvances ==
  [][\A l \in Lineage : lastConsumed'[l] >= lastConsumed[l]]_vars

\* A call changes the payload of a lineage only while it owns that lineage's
\* transition (or retires its evaluator): a failure on one lineage never
\* clears the artifact of another.
PayloadOfWinnerOnly ==
  [][\A l \in Lineage : artifact'[l] # artifact[l]
       => \E c \in Call : pc[c] \in Won /\ Lin(c) = l]_vars

\* Every call returns, also those that wait for operationMu and those whose
\* work fails.
CallsReturn == \A c \in Call : pc[c] # "idle" ~> pc[c] = "idle"

----------------------------------------------------------------------------
(* Refinement.                                                             *)

\* The generation a lineage rests on: between the compare-and-swap and the
\* store it is the winner's, not yet the stored one.
EffectiveEvidence ==
  [l \in Lineage |->
     IF \E c \in Call : pc[c] = "store" /\ Lin(c) = l
     THEN ev[CHOOSE c \in Call : pc[c] = "store" /\ Lin(c) = l]
     ELSE lastConsumed[l]]

Lifecycle == INSTANCE LineageLifecycle WITH
               stage <- state,
               evidence <- EffectiveEvidence,
               handed <- [l \in Lineage |-> evaluator[l] \in {"available", "retired"}]

\* The detailed protocol implements the one-way lifecycle.
ImplementsLifecycle == Lifecycle!Spec

============================================================================
