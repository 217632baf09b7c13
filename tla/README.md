# A verification project for LCPDTE's integer CKKS library

This directory specifies and checks the parts of the repository in which a mistake
would be hard to see: the *Route-B* artifact lifecycle of `integer/secureeval` and the
client/server sessions built on it, the *Gao full-packed* session with its on-disk
factor store, the assembly of bootstrapping evaluators and the streamed construction
of their matrices, the circuits of `integer/homchain` and of the Route-B runners, the
integer codec and the Functional8 engine, and the decision-tree plan compilers.
Everything is TLA+, model-checked with TLC on small instances. The safety of the Route-B
lineage and its refinement of the abstract lifecycle, of the client/server sessions, of the
Gao stores and session, of the construction counters, of the prebuilt assembly and of the
streamed construction is also proved with TLAPS for every number of lineages, sessions,
factors, counters, callers and transformations.

Hardness assumptions and noise are not modelled. Where a protocol calls a homomorphic computation, a
digest comparison or an encoding, that is a step that succeeds or fails, and what is
modelled is who may take it, in which order, under which lock, and what is left behind.
Where the circuit itself is the subject, a ciphertext is what its circuit relies on: a
level, an exact scale and the value of a slot, without noise.

Paths below are relative to `src/`; file names without a directory are in
`src/integer/secureeval/`.

## 1. Inventory

### 1.1 Components

| Component | Where | State it keeps | Operations | Status |
|---|---|---|---|---|
| Route-B authority and lineage | `route_b_authority.go`, `_live_artifact.go`, `_ready.go`, `_install.go`, `_preflight.go`, `_artifact.go`, `_a2b_full.go`, `_experiment.go` | per authority: sampling mutex and generation; per lineage: atomic state, mint and last consumed generation; artifact cell; installed cell with evaluator, first-operation report, prepared circuit, `operationMu` | `AuthorizeBuild`, `BeginBuild`, `AuthorizeReady`, `Install`, `RunFirst…`, `RunSparseA2BFull`, retire | modelled |
| Depth-2 and A2B sessions | `route_b_depth2_session.go`, `route_b_a2b_session.go` | client (key, token), server (`mu`, `installed`, `used` or `calls`, `closed`) | `New…Session`, `Encrypt…`, `Evaluate…`, `Decrypt…`, `Close` | modelled |
| Gao factor store | `gao_full_packed_factor_store.go` | directory, paths, sizes, resident factors, `diskLoads`, `closed` | construct, `ReadFactor`, `ReadValidatedFactor`, `PrepareResident`, `Close` | modelled |
| Gao full-packed A2B session | `gao_full_packed_a2b.go`, `gao_full_packed_session.go` | two stores, kernels, scratch evaluators, `server.mu` | construct, `EvaluateA2B`, `Close` | modelled |
| DFT construction counters | `lattigo/circuits/ckks/dft/construction_counters.go` | four process-wide atomic counters | enter, snapshot, delta | modelled |
| Observed DFT streaming | `lattigo/circuits/ckks/dft/observed_streaming.go` | trace, products, borrowed inputs of one construction | construct, consume, seal, take, discard, validate | modelled |
| Prebuilt evaluator assembly | `lattigo/circuits/ckks/bootstrapping/prebuilt_evaluator.go`, `evaluator.go` | ownership cells, donors | move, consume, assemble, finish | modelled |
| Homomorphic chain | `integer/homchain` | none beyond a circuit while it runs; sealed profiles | A2B, B2A, comparators, decoders, trees | partly: every evaluation circuit; not the noise studies, records and fingerprints |
| Route-B tree runners | `route_b_signed8_*.go`, `route_b_a2b_*.go` | the same | first operations of a lineage | partly: their lifecycle and their circuits; not reports and preflights |
| Integer ring | `integer/z2n` | none | encodings, arithmetic, oracles | partly: the root transform is numerical |
| Integer evaluator | `integer/evaluator` | configuration, keys | encrypt, add, subtract, negate, multiply, decrypt | modelled |
| Public API | `ckksint/` | context, Functional8 engine, keys | wrappers of the sessions, 8-bit operations | partly: context and Functional8 |
| Plan compilers | `integer/treeplan`, `integer/treecompile` | plans with certificates | binary, multiway and radix compilation, schedules, forests, keys | partly: not the file parsers |
| Tree evaluation | `integer/treeeval` | counts of an evaluation | one-by-one and full-level evaluation | modelled |
| Lattigo fork | `lattigo/` | - | - | partly: modular arithmetic, transforms, residue bases, levels and scales |
| Route-B experiments | `route_b_*_experiment.go` | none | timed acceptance runs | not modelled |
| Authority wire, RB-DFT factors | `route_b_auth_wire.go`, `route_b_rbdft_*.go` | none | canonical encodings, digests | not modelled |
| Host memory and process sampling | `route_b_capacity_sampler*.go`, `route_b_process_rss*.go` | none | reads of the operating system | not modelled: outcomes of sampling |
| Security and memory profiles | `integer/secureprofile`, `integer/securityparams` | sealed plans, reports and permits in a caller's hands | make a plan, evaluate memory, validate, mint and run a construction | modelled |
| Benchmark comparison | `internal/benchcmp`, `cmd/compare-ckksint` | none | report admission | not modelled |
| Command-line drivers, examples | `cmd/`, `examples/`, `main.go` | none | straight-line programs | not modelled |
| Paper prototype | `tree/`, `pack/`, `treeio/`, `he/` | none | floating-point tree evaluation | not modelled |
| Vendored code, research data | `vendor/`, `research/`, `xgboost/`, `xgbdata/` | - | - | not modelled |

### 1.2 How the components interact

* A session constructor drives one authority through
  `AuthorizeBuild → BeginBuild → AuthorizeReady → Install` and returns a client that
  holds the secret key and a server that holds the installed evaluator. Nothing is
  sent over a network: inputs and outputs are values that carry a session token, and
  the caller may keep, repeat or misdirect them.
* Permits, receipts, artifacts and installed handles are small values around a pointer
  to a shared cell. **Copies of a handle share the cell**, so any number of goroutines
  may present the same permit; the atomic `state` of the lineage decides who wins.
* Each stage follows one pattern: validate, take a new capacity sample (a generation
  drawn under `sampleMu`), prepare the stored parameters, validate again, compare
  generations, compare-and-swap the state, store the generation, work, publish, and on
  any error or panic store `Failed` and release the payload.
* The DFT construction counters are **process-wide**: a stage brackets its work with
  snapshots and requires an exact delta, so a build in another session can fail an
  honest stage.
* Locks nest `server.mu` → `operationMu` → `sampleMu` / preparation mutex. Sessions
  serialise their server, the installed cell serialises its operations and its
  retirement, the authority serialises its samples.
* The Gao session writes two factor stores into temporary directories, makes both
  resident, removes the directories, and then serves from memory under `server.mu`.

* `BeginBuild` streams DFT factors through a consumer and installs the matrices by moving
  them through a carrier into an evaluator: each of these is a move whose copies share
  one cell, so again many holders may try and one may win.
* An installed evaluator runs circuits. A circuit is a straight line of homomorphic
  calls, each counted, checked against an exact level and scale and appended to a trace;
  a failure anywhere has to leave a trace that its receiver accepts.
* A forest is compiled to binary trees, these to radix plans and schedules; each plan
  carries a certificate over public fields and is checked before it is used.

### 1.3 What is hard here

* copies of one permit, carrier or product racing through validate / sample / swap;
* evidence compared before the swap and stored after it;
* `Install` sets `InstalledUnverified` before its deferred guard has run, and the guard
  may still turn it into `Failed`;
* `Close` against running operations, and locks that must be released on every path;
* constructors that fail half-way with gigabytes of matrices or directories in hand;
* frames that change on disk between writing and reading, coefficients included, which
  nothing compares, and removals that fail;
* snapshots of four counters that are not one snapshot;
* consumers, sources and backends that fail, panic or hand back somebody else's object;
* circuits of a hundred operations in which every level and every scale must meet, and
  every one of them may fail;
* thresholds, lifts and coefficients that are right for all words but one;
* node arrays, plans and counts of which nothing may be assumed.

`PROJECT.json` lists each of them at its line, with the property that would notice it
going wrong.

## 2. Modules

| Module | Models | Extends / composes |
|---|---|---|
| `LineageLifecycle` | abstract specification: what a lineage promises | - |
| `RouteBLineage` | the detailed protocol of all Route-B calls | refines `LineageLifecycle` |
| `RouteBLineageProofs` | theorems about the lineage: exclusion, evidence, payload, refinement, each on top of the one before | `RouteBLineage`, TLAPS |
| `RouteBSession` | depth-2 and A2B sessions | instance of `LineageLifecycle` |
| `RouteBSessionProofs` | theorems | `RouteBSession`, TLAPS |
| `GaoFactorStore` | one factor store and its file system | - |
| `GaoFullPackedA2B` | evaluator, server and both stores | extends `GaoFactorStore` |
| `GaoFullPackedProofs` | theorems about a store and about the session | `GaoFullPackedA2B`, TLAPS |
| `ConstructionCounters` | counters, snapshots, differences | - |
| `PrebuiltEvaluator` | carriers and the assembly of an evaluator | extends `ConstructionCounters` |
| `PrebuiltProofs` | theorems about the counters and about the assembly | `PrebuiltEvaluator`, TLAPS |
| `ObservedStreaming` | streamed construction of a DFT matrix under any consumer | - |
| `StreamingProofs` | theorems about the streamed construction | `ObservedStreaming`, TLAPS |
| `Ciphertexts` | level, scale and value of a ciphertext | - |
| `CircuitSteps` | circuits as programs | `Ciphertexts` |
| `A2BCircuits`, `SelectorCircuits` | the programs of `homchain` | `CircuitSteps`; the second extends the first |
| `RouteBCircuits` | the programs of the Route-B runners, single and packed | `SelectorCircuits` |
| `StagedCircuit` | one evaluation of one program, with every failure | `CircuitSteps` |
| `TerminalLeaf` | the last circuit of the depth-2 tree, in detail | `Ciphertexts` |
| `TerminalLeafProofs` | theorems about it | `TerminalLeaf`, TLAPS |
| `Z2nRing` | words modulo 2^n and their encodings | - |
| `IntegerEvaluator` | codecs and the context | `Z2nRing` |
| `Functional8Engine` | the Functional8 engine | `Z2nRing` |
| `BinaryRoute` | abstract specification: the walk through a binary tree | - |
| `RadixPlan` | radix plans and certificates | refines `BinaryRoute` |
| `SchedulePlan` | schedules and measured counts | - |
| `MultiwayTree`, `ForestCompile`, `OrderedFloat32` | dags, forests, float keys | - |
| `OneHotEvaluation` | both evaluation strategies | refines `BinaryRoute` |
| `OneHotProofs` | theorems about it | `OneHotEvaluation`, TLAPS |
| `RingArithmetic` | reductions and element operations of Lattigo's ring on words that wrap | - |
| `RingTransform` | its number-theoretic transforms, stage by stage | `RingArithmetic` |
| `RNSRing` | one coefficient in residues: rescaling, basis extension, digits | `RingArithmetic` |
| `CapacityPlans` | profiles, artifact shapes, byte ledgers and the plans that seal them | - |
| `CapacityAdmission` | evaluation of memory, reports, permits, Route-B construction | extends `CapacityPlans` |
| `AdmissionProofs` | theorems about it and the ledgers | `CapacityAdmission`, TLAPS |
| `MCRouteBSession` | the sessions of a process, and one lineage whose callers contend | extends `RouteBSession`, instance of `RouteBLineage` |
| `MCCircuits` | every program and the terminal leaf, with the cases of section 2.8 | extends `TerminalLeaf`, `RouteBCircuits` |
| `MC…` | the other instances for TLC | |

### 2.1 `RouteBLineage`

A `Call` is one goroutine inside one method; `job[c]` is the method and the handles it
was given, `pc[c]` the atomic step it is about to take. The constants are the
authorities, the lineage cells that may be minted, the authority that mints each, the
callers, and `MaxGeneration`, which stands for `math.MaxUint64`.

| Variable | Code |
|---|---|
| `generation` | `routeBAuthorityCell.generation` |
| `state`, `mintGeneration`, `lastConsumed` | the fields of `routeBLineageCell` |
| `readyGeneration`, `installGeneration` | runtime generation of the Ready permit and of the installation |
| `artifact` | `routeBArtifactCell`: `resident`, then `donated` while its matrices are with the assembler, then `released` |
| `evaluator` | the installed cell: `assembled` inside `Install`, `available` when returned, `retired` when cleared |
| `firstOperation`, `preparedA2BFull`, `operationMu` | fields of `routeBInstalledEvaluatorCell` |
| `constructions` | the sum of the process-wide construction counters |
| `ev`, `before` | a call's evidence and its counter snapshot |

| Actions | Code |
|---|---|
| `Start`, `Enter`, `Refuse` | entering a method: lock (installed operations), first validation |
| `SampleAdmitted`, `SampleBlocked`, `SampleExhausted` | `sampleAndEvaluateCapacity` |
| `Mint`, `PrepareFails` | `AuthorizeBuild`'s permit; preparation that fails or disagrees |
| `Recheck`, `RecheckFails` | second validation and the generation comparison |
| `Cas`, `CasLost`, `Store` | the compare-and-swap and the store of the generation, two steps as in the code |
| `Snapshot`, `ConstructCTS`, `DeltaAccepted` | matrix construction (BeginBuild) or rehash (others) between counter snapshots |
| `PublishBuild`, `PublishReady` | what BeginBuild and AuthorizeReady publish |
| `Guard`, `Assemble`, `InstallCell`, `InstallReturns`, `InstallRevoked` | Install with its deferred guard |
| `RunSupplemental`, `RunPlain`, `RunDelta`, `PublishOperation` | the runners; a complete A2B builds a supplemental matrix and leaves its circuit in the cell |
| `Fail`, `Clear` | error or panic: `Failed` first, payload second, two steps |
| `Retire` | `retireRouteBInstalledEvaluator` under `operationMu` |

Abstractions. All comparisons of digests, parameters and manifests are folded into
"the step may fail". The loads of one validation are one step: each validation is
followed by another check and finally by the compare-and-swap, which decides. One
counter stands for the sum of the four construction counters: each check compares all
four deltas with `0/0/0/k` and every construction entered here increments the same
(observed streaming) counter, so the sum differs from `k` exactly when some delta
does; `ConstructionCounters` has the four saturating counters. An `Install` revoked by its guard leaves a cell nobody holds (its evaluator
field is already nil), hence `evaluator = "none"` there. First operations are of two
kinds, the complete A2B and all others (ModUp prefix, first A2B round, tree circuits):
later A2B calls tell only these two apart.

### 2.2 `LineageLifecycle`, the abstract specification

Three variables: the stage of each lineage, the generation it rests on and whether its
evaluator has been handed out. It says that lineages walk one way, that every admitted
stage rests on a newer sample which no other lineage of the authority rests on, that
nothing runs before hand-over, and that `Failed` is final. `RouteBLineage` implements
it under the mapping `stage <- state`, `handed <- evaluator is available or retired`,
and `evidence <- EffectiveEvidence`: between the compare-and-swap and the store of the
generation, a lineage already rests on the winner's sample. That mapping is where the
split of the two writes would show.

### 2.3 `RouteBSession`

The sessions over the *abstract* lineage: a stage of the constructor takes steps of
`LineageLifecycle` (`Mint`, `Begin`, `Finish`, `Fail`, `HandOver`) or is refused before any of
them. The composition is sound because `RouteBLineage` implements that specification.
`Construct` is the constructor with its deferred cleanup, `Encrypt` and `Decrypt` the
client, `Evaluate…`, `Run…` and `Close` the server. `attempts` (runs a depth-2
server started) and `opened` (which key decrypted what) are history variables. Inputs
carry only the session that encrypted them. A run and its output are complete or
failed: the code's checks for half-complete results cannot fire when the run has
returned without error. `calls` stops counting at `MaxCalls`: the code only asks
whether it is zero.

### 2.4 `GaoFactorStore`

`frame[s][i]` is what is found at the path of factor `i`: its own frame, another
factor's, one cut short (of another size, header or shape), its own with other
coefficients (`Altered`), or nothing; `DiskFault` changes one frame that was written.
`RemoveAll` succeeds, or fails after having unlinked any subset of the frames.
`diskLoads` and `closed` are the code's, `closeResult` records what the last `Close`
returned; `altered` is a history variable, the factors whose coefficients changed on disk
before they were read. The store is used by one goroutine at a time (under the session's
mutex), so its operations interleave with the file system and not with each other.

A load is one step. It compares what the code compares: the file's size with the one
recorded at writing, the header's identity (version, index, count, literal, levels, keys),
the size of each polynomial frame, the end of the file, and the shape of the factor
(`NewValidatedFactor`). The store keeps no digest of a factor, and no check looks at a
coefficient, so `Accepts` holds of an `Altered` frame, which becomes resident and is served
to every pass. `ReadsAreSound` therefore does not say that what is resident is what was
written. It says: it is the factor asked for, or that factor altered on disk before its
one read; never another factor, never a part of one, and never anything that happened to
the disk after the read.

### 2.5 `GaoFullPackedA2B`

Composes two stores with the evaluator's constructor (`Construct`: both builds, keys,
kernels, residency, publication, and the deferred cleanup that closes the stores it
owns, CTS first) and the server. An evaluation is four DFT passes, each reading every
factor of one store; a missing factor *would* be loaded from disk (`Pass`), so that no
load happens online is a property and not an assumption.

### 2.6 `ConstructionCounters` and `PrebuiltEvaluator`

An increment is a load and a compare-and-swap, a snapshot one load per counter, so both
interleave. `mark[c]` records how far each counter had really come when a bracket began
and ended (history variables); `DeltaBounds` says what an accepted difference is worth:
at least what was noted between the snapshots, at most what was begun around them. A
saturated counter makes `Delta` fail. In `PrebuiltEvaluator` a matrix is in one of four
kinds of places (`donor`, `cell`, `call`, `given`), a call consumes carrier and key donor
before it looks at either, and `hostile` sources construct, panic or check nothing. The
structural comparison of a matrix with its literal is one condition, `Fits`.

### 2.7 `ObservedStreaming`

Construction `k` lends factor after factor to its consumer, which is any code: while it
runs it may seal transformations into products for every input that is active, start
another construction, fail, panic, or hand back any product it holds. A step of the
constructor between two consumer calls is one step; it runs without calling out. The
trace is built event by event as in the code, and `Validates` is the code's own
validator with the failure ledger. A digest and a byte count are the transformation
they describe, so refusals of empty evidence do not appear; sealing for an inactive
input changes nothing and is left out. The branches for a generator that yields too few
factors and for a success trace that does not validate are there and cannot be reached
after the literal has been validated. Other failures of the generator panic through.

### 2.8 Circuits

`Ciphertexts` is what `Add`, `Mul`, `Rescale`, `DropLevel` and a refresh do to level,
exact scale and slot value. A scale is a vector of exponents over the default scale and
the primes, so two scales are equal exactly when the code's 256-bit snapshots are. A
value is `num / Den^den`; adding two different scales makes it meaningless (`exact`).

A circuit is a program: steps with their operation, operands, the count they charge and
the state they append, beside sealed constants. `StagedCircuit` runs one: admission, the
check of the object graph, then step after step with a failure at each return of the
code, dispatch and completion counted apart, and at the end the comparison of inputs,
counts and states. `tally`, `made`, `pc` and `outcome` are the trace. A result of the wrong
level or scale is noticed at once where the code compares its state (`Amiss`); at a step the
code does not check (`Unchecked`) the run goes on and the final validation refuses it
(`LeavesAmiss`, `EndRefused`), if nothing else fails before. `TerminalLeaf` models one
circuit in more detail (its three kinds of trace, the ledger it authenticates against, and
the certificate's bounds).

A failure trace is validated again by the object that receives it, against the circuit and
the input as they are then. Both may change under a run (`Changes`): the final validation
then fails, and the trace of that failure, or of any other after the change, does not
authenticate, because `validateFailureTrace` runs the same `circuit.validate()`. The same
holds of a partial trace with a state amiss. `intact` in `TerminalLeaf` says that nothing has changed, `fault` in
`StagedCircuit` what did; a failure is sealed if and only if there was no such thing.

The values are columns of slots that no operation mixes. An arithmetic word m is
`c7 = -m/256`; the other coefficients follow up to integers (`c_j = 2^(7-j) c7`,
`c_0 = 127 c7`), which a refresh adds anyway. `MCCircuits` computes the expected
results from the words, never from the circuits: A2B of every word in every column,
every difference of the certified comparator range, every slot of the selector decoder
(slot 0 has its own map), the codes of the kernels, the trees over all branches.

The Route-B programs stream their transformation, which leaves a scale off by a `drift`;
it is set back only if it is exactly the registered one. Packed words are tuples: two
queries and two words of padding stand for the 170 queries and two padding words of the
code, since the rotations are by one and two words only.

Left out: noise (the values are those the circuits decrypt to while errors stay below
what the thresholds round away); the operations inside encoded linear transformations;
counts the code compares with nothing; `normalizedCertified`, which the code leaves
false; the terminal leaf's headroom bits and cache slack; digests and reports.

### 2.9 Integers and trees

`Z2nRing` computes in R[X]/(X^n - X + 2) exactly, on coefficients in units its user
names. The root transform is the ring isomorphism it approximates, so a product of root
slots is `Mul`. `IntegerEvaluator` has every operation of the codec with its refusals;
the error of the scheme is added when a value is decrypted and is below 1/8 in each
coefficient, which is what the rounding decoder needs. `Functional8Engine` uses the
circuits by what they compute and keeps the tokens, freshness and certified ranges that
decide whether a comparison may be asked for.

`BinaryRoute` is the plain walk. `RadixPlan` compiles, certifies, clones, tampers and
routes; `SchedulePlan` derives schedules and attaches measured counts in an int64 of
which `MaxInt` is the bound, and a measured end-to-end dependency depth, which must not be
below the rounds of the predicates; digests are injective in both. `MultiwayTree` validates a
dag depth first, measures and routes; `ForestCompile` compiles node arrays nobody has
checked, padding to the deepest tree; `OrderedFloat32` compares keys of two bit patterns
with the numbers they stand for. `OneHotEvaluation` is one helper call per step over
wrapping integers, with a backend that may fail in the middle of each.

### 2.10 The ring of Lattigo

`RingArithmetic` is `lattigo/ring` on one word: Barrett and Montgomery reduction with their
constants, the lazy and the full element operations, the roots and factors a SubRing
stores. A word has `WordBits` bits and wraps, so a lazy sum that does not fit is seen.
`RingTransform` runs the forward and the backward transform of one polynomial stage by
stage, with the unrolled first and last stages, standard and conjugate-invariant, and the
monomial product and automorphisms between them; `poly` is the polynomial in plain
arithmetic. `RNSRing` keeps the residues of one coefficient in the bases Q and P beside
the integer they stand for: `DivFloor…`/`DivRoundByLastModulus`, `ModUp`, `ModDown`,
`Decomposer`, scalars and the integer conversions, with the float quotient of the basis
extension cut to `FloatBits`.

Ranges are stated as they are, not as wide as would do. `OperationsExact` has the least
bound of every element operation, and after each stage of a transform how many moduli the
words stay below (`AfterForward`): 6 after a stage that subtracts 4q, 7 or 8 after one that
does not. `ResiduesAsInteger` has the word a basis extension may leave: two moduli and the
high word of its sum (`Excess`). A lazy backward transform leaves the last residue or one
modulus more (`Lazy`), and a division of transformed words works on that word: `AsAsked`
states the quotient for both. Where these differ from the comments of the code, section 5
says so.

### 2.11 Admission to memory

`CapacityPlans` derives the byte ledgers of the artifact plan, of the combined plan and of
each phase from the shapes in the code, with every product and sum checked for overflow,
and seals them; a digest is the record it covers, its own digest blanked. The code hands all
terms of a sum to one checked loop; here the components of a phase are added in groups, which
overflows exactly when the loop does. In
`CapacityAdmission` a caller makes a plan from the defaults or with one field changed and
sealed again, evaluates a snapshot of memory to a report and a permit, and then may take
another snapshot, another plan, or alter what it holds, before it validates, mints a
construction permit or runs the construction. `issuer` and `minter` are history variables:
who made what is held. `verdict` is the answer of the last call. The reports of the
artifact plan have their own Go type, so they are not taken to other plans. Left out: the
JSON and the hexadecimal form of digests, and the reading of `/proc/meminfo`.

## 3. What the runs check

| Run | Instance | Properties |
|---|---|---|
| `race` | 1 lineage, 3 callers, 7 samples | `TypeOK`, `ExclusiveTransition`, `PayloadReleased`, `NoRunAfterRetire`, `PreparedCircuitIsLive`, `EvidenceAdvances` |
| `pair` | 2 lineages of 1 authority and a second authority, 2 callers, 7 samples | `OneSampleOneTransition`, `PayloadOfWinnerOnly`, `ImplementsLifecycle` |
| `two_sessions` | 2 A2B sessions, or an A2B and a depth-2 one, 2 callers; or 1 lineage, 2 callers, 6 samples | `OwnKeyOnly`, `NotClosedDuringRun`, `CallsCounted`, `FailedLeavesNothing`, `CloseRetires`, `CallsReturn` |
| `gao` | 2 stores of 2 factors, 3 callers; or one store alone | `ReadsAreSound`, `DirectoriesRemoved`, `OnlineIsUndisturbed`, `CallsReturn` |
| `factor_close` | 1 store of 1 factor | `CloseRemoves`, **violated** (section 5) |
| `prebuilt` | 3 callers, 1 counter to 2, 1 carrier; or 2 observed constructions | `MovedOnce`, `GivenIsSound`, `DeltaBounds`, `StreamedIsSound`, `Returns` |
| `circuits` | every circuit on the inputs of section 2.8 | `ResultsCorrect`, `WithinCertificate`, `CleanRunsReturn`, `FailuresAuthenticate` |
| `terminal_leaf_prefix` | the terminal leaf | `ExactPrefixAuthenticates`, **violated** (section 5) |
| `lazy_forward` | the transforms of `ring` | `LazyOutputAsDocumented`, **violated** (section 5) |
| `plans` | the plan compilers, one at a time | `CertificatesHold`, `OnlyWellFormed`, `EvaluatesAsSource`, `RoutesAsBinary`, `WalksEnd` |
| `ring` | three codecs, four engines, ring elements, transforms, residues; or one evaluation of a tree | `WordsAsPlain`, `OperationsExact`, `ResiduesAsInteger`, `PathIsHidden`, `ImplementsRoute` |
| `admission` | the plans of the code, five memories, two changes | `AcceptedIsOwn`, `AdmittedFits` |

A run whose initial state chooses among components (`two_sessions`, `gao`, `prebuilt`,
`circuits`, `plans`, `ring`) takes every action of each of them, although TLC reports a composite step as one.

What the properties say:

* **`ExclusiveTransition`** - from its won compare-and-swap to the end of its cleanup
  a call is alone on its lineage, whatever copies of handles exist. The interesting case
  is `Install`, whose state is already `InstalledUnverified` while the deferred guard runs.
* **`OneSampleOneTransition`**, **`EvidenceAdvances`** - a capacity sample admits one
  transition of one lineage, and the consumed generation only grows although it is
  written after the swap.
* **`PayloadReleased`**, **`PayloadOfWinnerOnly`** - matrices are reachable through one
  handle only, a failed lineage keeps none, and no call releases another lineage's. `race`
  has one lineage; that a build of another lineage disturbs the counters of an honest stage
  happens in `pair`.
* **`NoRunAfterRetire`**, **`PreparedCircuitIsLive`** - `operationMu` covers the whole of
  an operation and of retirement; whoever obtains it finds no half-published circuit.
* **`ImplementsLifecycle`** - the refinement of section 2.2.
* **`OwnKeyOnly`**, **`CallsCounted`**, **`NotClosedDuringRun`**, **`FailedLeavesNothing`** -
  no result under one key is decrypted with another, retry after refusal selects the
  right operation, a depth-2 server is used up by its first attempt, `Close` waits,
  failed constructors leave nothing.
* **`ReadsAreSound`**, **`DirectoriesRemoved`**, **`OnlineIsUndisturbed`** - the stores under lost, cut, exchanged and altered frames
  and failing removals, and the session on top of them. What is resident is the factor asked
  for or one altered before its single read (section 2.4).
* **`MovedOnce`**, **`GivenIsSound`** - a matrix pair has one owner and every call uses its
  inputs up; an evaluator is given back only if it was checked and nothing was, or could
  without notice have been, constructed. **`DeltaBounds`** - what a difference of two
  snapshots that are not atomic proves; `prebuilt` has one kind of counter, the mixed snapshot
  of all four is covered by the theorems `CountersBound` and `CountersMonotone`, which hold
  for any number of them.
* **`StreamedIsSound`** - whatever its consumer does, a streamed construction returns a
  trace its own validator accepts and a matrix of its own factors, and no transformation
  ends in two places.
* **`ResultsCorrect`** - a circuit that returns, returns the bits, word, selector or leaf it
  is for. **`CleanRunsReturn`** - and it does return when nothing fails: levels and scales
  meet everywhere, so no check refuses an honest run. **`FailuresAuthenticate`** - a failure
  at any point leaves a trace the receiver's ledger accepts, exactly as long as circuit and
  input are what they were and no state the receiver compares is amiss. **`WithinCertificate`** - the
  terminal leaf's certificate bounds every intermediate value.
* **`PathIsHidden`**, **`ImplementsRoute`** - one weight is one although
  sums wrap, helpers spend the calls of the design document also when they fail, and the
  result is that of the plain walk.
* **`CertificatesHold`**, **`RoutesAsBinary`** - only the plan of the source itself verifies,
  whatever fields were exchanged, and it routes as the source. **`OnlyWellFormed`**, **`EvaluatesAsSource`** - exactly trees (or dags) are
  accepted, and what is compiled evaluates as its source.
* **`WordsAsPlain`** - any sequence of operations of a codec decrypts to what plain words
  give, and an engine compares only where the sign bit is an order.
* **`OperationsExact`**, **`ResiduesAsInteger`** - no element operation
  passes its least bound or leaves its residue, a transform evaluates the polynomial at the
  roots and each of its lazy stages stays below so many moduli, and rescaling, extension and
  decomposition keep the residues of one integer: the one asked for, or the one beside it
  where a lazy last word brings one modulus too much.
* **`AcceptedIsOwn`**, **`AdmittedFits`** - a report, permit or construction permit that is
  accepted was issued by this plan for this memory and not touched since, and what it
  admits stays below four fifths of the memory, computed without rounding.
* **`CallsReturn`**, **`CloseRetires`**, **`Returns`**, **`WalksEnd`** - nobody waits or walks for ever.

Every property of a passing run has a mutant in `PROJECT.json`: a plausible mistake in
one definition (the operators marked *Fault* in the modules) that TLC must find.

### Bounds, and why they are enough

* *Callers.* A race needs the winner, a loser that validated before the swap, and one
  more call that starts in between (`Retire`, or the next stage): three. `pair` uses two
  callers and two lineages, because its hazards are about two.
* *Samples* (`MaxGeneration`). A full lifecycle consumes five (mint, build, ready,
  install, first operation). `race` and `pair` have seven, so two may be blocked, lost
  or drawn for another lineage, and exhaustion is reached in every stage; the contended
  lineage of `two_sessions` has six.
* *Sessions.* Two of a kind suffice for misdirected inputs; `MaxCalls = 1` separates
  none from some, which is all the code asks; `MaxBegun = 2` bounds the runs begun.
* *Factors.* Two per store: one resident and one damaged, altered or still to load.
* *Counters.* One kind with `MaxCounter = 2`: below, at and refused at the maximum; the
  race of loads needs two constructing goroutines and one that brackets.
* *Streaming.* One construction of each role, with the two and three factors of the code,
  and as many transformations as both need, each fitting one place; one construction runs
  before, after or inside the consumer of the other, and of the other's transformations
  a consumer seals one.
* *Circuits.* `Den = 256` is the grid of a byte's coefficients, `TopLevel = 20` the code's
  modulus chain; inputs are exhaustive in the sense of section 2.8.
* *Plans.* All graphs of three nodes, those of five nodes with two inner ones, dags of
  three nodes; radix trees to depth 4 so that every group width leaves a shorter last
  level; `MaxInt = 7`, so that products and sums of counts pass it; all pairs of patterns
  of a seven-bit float format.
* *Ring.* Bytes, as the engine uses them; two operations reach every pair of
  representations, `MaxValues = MaxHandles = 3`. Elements are words of six bits modulo 5
  and 7, all of them; transforms have degrees 8 to 64, above and below the unrolled loops,
  in words of 12 bits that leave the lazy stages the room the code's moduli leave; residues
  have Q = {13, 19, 31}, P = {11, 29} and `MaxSteps = 3`, so an integer is extended, divided
  and split in any order and an extension leaves a word above two moduli, and `FloatBits = 6` makes a rounded quotient wrong where the
  code's 53 bits could.
* *One-hot evaluation.* Trees of depth 0 to 2 over two-bit integers, all of them.
* *Admission.* The byte numbers of the code in units of 256 bytes, of which every estimate is
  a whole number; the limit, the guard and what remains come out of floors, which in the
  larger unit are less than two units off. `MaxWord` is the largest word whose products TLC computes exactly and is passed by one
  of the five memories. `MaxChanges = 2`: a plan, report, permit or memory exchanged, and
  exchanged back or something else beside it.
* *Symmetry* among callers, and among lineages where their constants are alike; it is
  not used in the liveness runs.

Deadlock is checked in the Route-B lineage runs, where something can always be started. In
the others `CHECK_DEADLOCK FALSE` is set, because a constructor that failed,
a circuit that returned, a transform that is done or a walk that ended leaves nothing to do.

### Fairness

A goroutine inside a method keeps running: weak fairness of its steps. Actions that
wait for `sync.Mutex` (`Enter`/`Refuse`/`Retire` on `operationMu`, `Locking` on
`server.mu`) are strongly fair: the lock is enabled again and again while others take
and release it, and Go's mutex hands it to a waiter that has starved for a
millisecond. The compare-and-swap loop of the counters has weak fairness only: a lost
swap is somebody else's increment, and these are finitely many. Compilation and walks
are sequential code and weakly fair as a whole. Nobody is obliged to construct, call,
encrypt or close.

## 4. What is proved

| Module | Assumes | Arbitrary |
|---|---|---|
| `RouteBLineageProofs` | `LineageAssumption`: each lineage has an authority, `MaxGeneration` is a natural number, `None` is not a caller | authorities, lineages, callers, the limit |
| `RouteBSessionProofs` | `SessionAssumption`: a session is of one of two kinds, `MaxCalls` is positive, `None` is not a caller | sessions and their kinds, callers, the bounds |
| `GaoFullPackedProofs` | `StoreAssumption`: a store has a factor; `SessionAssumption`: the two stores of the code, `None` is not a caller | factors and callers |
| `PrebuiltProofs` | `CounterAssumption`: there is a counter, it counts at least to one; `PrebuiltAssumption`: a donor is an encoder or a decoder, `None` is neither a donor nor a cell | counters, their maximum, goroutines, donors, carriers |
| `StreamingProofs` | `StreamingAssumption`: a role has two or three factors, `Nothing` is not a transformation | constructions, transformations, which factor fits which place |
| `TerminalLeafProofs` | `CiphertextAssumption`, `TerminalAssumption`: leaves are integers, the modulus has the levels the circuit uses; `PowersOfDen` | the leaves, `Den`, `TopLevel` from 11 on; with them every error of the selectors |
| `OneHotProofs` | `OneHotAssumption`: thresholds, leaves and inputs are representable in the kind of scalar; `PowersOfTwo` | depth, features, thresholds, leaves, inputs, kind, `BitWidth` from 1 to 64 |
| `AdmissionProofs` | `LedgerAssumption`: the unit of memory divides 256 bytes; `AdmissionAssumption`: memory is counted in natural numbers | the unit, the word size, the minimum guard, the snapshots, the excluded duplicate, the changes a caller may make |

No other fact is assumed; TLC evaluates each assumption in the runs. `PowersOfDen` and
`PowersOfTwo` restrict no constant: they say what `^` is for the provers, which have no
arithmetic of it.

| Theorem | States | Run |
|---|---|---|
| `TypeCorrect` | `Spec => []TypeOK`; no generation passes the limit | `race` |
| `Inductive` | `Spec => []IInv` | |
| `Exclusive` | `Spec => []ExclusiveTransition` | `race` |
| `RetireWaits` | `Spec => []NoRunAfterRetire` | `race` |
| `CircuitLive` | `Spec => []PreparedCircuitIsLive` | `race` |
| `Evidence` | `Spec => [](IInv /\ EvidenceInv)` | |
| `OneSample` | `Spec => []OneSampleOneTransition` | `pair` |
| `Advances` | `Spec => EvidenceAdvances` | `race` |
| `Payload` | `Spec => [](IInv /\ PayloadInv)` | |
| `Released` | `Spec => []PayloadReleased` | `race` |
| `WinnerOnly` | `Spec => PayloadOfWinnerOnly` | `pair` |
| `Refines` | `Spec => ImplementsLifecycle` | `pair` |
| `Sessions` | `Spec => []IInv` of the sessions | |
| `OwnKey`, `NotClosed`, `Counted`, `FailedClean` | `OwnKeyOnly`, `NotClosedDuringRun`, `CallsCounted`, `FailedLeavesNothing` | `two_sessions` |
| `StoreReads` | `StoreSpec => []ReadsAreSound`: a store on its own, under all faults of section 2.4, altered coefficients included | `gao` |
| `Session` | `Spec => []IInv` of the Gao session | |
| `SessionReads`, `Removed`, `Undisturbed` | `ReadsAreSound`, `DirectoriesRemoved`, `OnlineIsUndisturbed` | `gao` |
| `CountersBound` | `Spec => []DeltaBounds`: the counters on their own | `prebuilt` |
| `CountersMonotone` | `Spec => []NeverNonMonotonic` | |
| `Prebuilt` | `PrebuiltSpec => []IInv` | |
| `Moved`, `GivenBack`, `PrebuiltBound` | `MovedOnce`, `GivenIsSound`, `DeltaBounds` | `prebuilt` |
| `Streaming` | `StreamingSpec => []IInv` | |
| `Streamed` | `StreamedIsSound` | `prebuilt` |
| `LeafInvariant`, `LeafTypeCorrect` | `Spec => []LeafInv`, `[]TypeOK` of the terminal leaf | |
| `CertificateCovers` | `Spec => []WithinCertificate` | `circuits` |
| `OutputIsLeaf`, `CleanRunsAreAccepted`, `LeafFailuresAuthenticate` | of the terminal leaf what `ResultsCorrect`, `CleanRunsReturn` and `FailuresAuthenticate` say of all circuits; a failure is sealed if and only if circuit and input have not changed | |
| `OneHotInvariant`, `OneHotTypeCorrect` | `Spec => []Inv`, `[]TypeOK` of the tree evaluation | |
| `PathStaysHidden`, `EvaluationRoutes` | `Spec => []PathIsHidden`, `Spec => ImplementsRoute` | `ring` |
| `AdmissionInvariant` | `AdmissionSpec => []AdmissionInv` | |
| `AcceptsOnlyOwn`, `AdmittedLeavesRoom` | `AdmissionSpec => []AcceptedIsOwn`, `[]AdmittedFits` | `admission` |

**Exclusion.** `ExclusiveTransition` is not inductive. A call about to
swap `InstalledUnverified` could meet an `Install` in its deferred guard, in which the
state has that same value; it does not, because an installed operation has seen an
`available` evaluator under `operationMu` and `Install` hands it out last. So `IInv`
has, besides `TypeOK`:
* `CallInv`: per call, which positions its method has (`PcOfOp`), which state its
  lineage is in while it works (`StateOfCall`), and which evaluator and lock it relies on
  (`EvaluatorOfCall`);
* `PairInv`: two winners, or a mint and anybody, are on different lineages;
* `LineageInv`: no evaluator before `Installing`, no prepared circuit before the first
  operation, and a prepared circuit is live, its first operation published or still in
  the hands of the call that stored it.

The proof has one lemma per kind of step (a move, a return, an entry, a swap, a
publication, a failure, a retirement) and one frame lemma for the other calls.

**Evidence.** A call compares its generation with `lastConsumed`, then
swaps, then stores. Between comparison and swap another call might have stored a newer
one. It cannot have, if the swap succeeds: `Rank` orders the states, no step lowers the
rank of a lineage (`StatesAdvance`), and no two states share the rank of a state that a
consuming stage starts from (`FromRank`). Hence the state was never left in between and
nobody stored. `UniqueInv` says a drawn sample is held by one call or stored by one
lineage.

**Payload.** That a failed lineage keeps no matrices says nothing while a call is between
the store of `Failed` and its cleanup, and a second handle might reach them before. So
`PayloadInv` ties the artifact to the state (`ArtifactOf`: none before it is built, released
once an evaluator is handed over), gives what a failed lineage still holds to the one call
that clears it, and says what that call has left to clear (`ClearOf`) and that it presents
the artifact of its own lineage past its first validation (`BoundOf`).

**Refinement.** Each action of `RouteBLineage` maps to one action of
`LineageLifecycle` or to a stutter. The swap takes the abstract step: from it on
`EffectiveEvidence` is the winner's sample, so the store after it is a stutter. The
abstract guards then ask for exactly what the invariants give: that the winner's sample
is newer than the stored one and no other lineage rests on it (`Evidence`), and that no
other call is between swap and store on the lineage (`Inductive`). `Assemble` and
`InstallReturns` are where the hand-over of the evaluator needs `Payload`.

**Sessions.** Nothing the properties say is inductive. A run relies on the evaluator it
checked because the holder of `server.mu` is the running caller and `Close` needs that lock
(`CallInv`). The counter of an idle A2B server agrees with the lineage because the lineage is
`Preflighting` exactly while a run works (`ServerInv`, `Matches`); before the session is
returned nobody can have touched the server (`ConstructorInv`, `Unopened`). That each
abstract step is taken with a new sample rests on counting the samples a stage has
consumed (`Samples`). A result carries the key of its session (`DataInv`), and `Decrypt`
compares the session.

**Gao.** A store gives its directory up only after the last factor has become resident, so
`BackingInv` counts how far `PrepareResident` has come and `FactorInv` ties the number of loads
to residency, under any faults of the frames; that a resident factor of other coefficients
is one in `altered` needs the same of the frames that are still to be read. `PhaseInv` says what each phase of the
session's constructor has behind it (`Built`, then `Loaded` stores) and which stores its
cleanup owns; `LeftOver` that a directory nobody will remove is one whose removal failed;
`CallerInv` that a caller inside a pass or a `Close` holds `server.mu`.

**Counters.** Increments retry and snapshots load one counter at a time. `ExactInv`: a
counter is what was noted until it saturates, and what was entered and not noted is
exactly the set of goroutines inside an increment, a finite set whose size is
carried through every step. So a load lies between what was noted and what was entered
when it was made (`First`, `Second`), and the difference of two loads between the differences
of those. Each half is needed: `GivenBack` uses the upper one for honest calls and the
lower one, with the refusal of saturated counters, for what others constructed.

**Assembly.** `CallInv` fixes per position of a call what it holds of its carrier and keys,
and `Sole` that each matrix is in one of a donor, a cell, a call or a result. That no step
copies one is proved per step: a move empties the place it takes from in the same step.

**Streaming.** That a trace passes its validator says nothing before the construction has
returned. `ConstructionInv` therefore holds the validator's own predicates of the trace under
construction: its events are a prefix of the lifecycle, as long as the factors taken make
it, and agree with their evidence (`Underway`). One expected event prolongs the prefix
(`Goes`); a consumer only decides where it ends, and what `generatorReturned` then appends
fits that end (`FailureValidates`). After the last factor the success trace validates
(`SuccessValidates`), so the branch for one that does not is never taken. `HolderInv` gives
each transformation one of variable, product or a factor of one construction; taking a
product that was handed back twice, or for another invocation, fails on what the first
taker left. Each factor carries its invocation (`OwnFactors`), which `take` has compared.

**Terminal leaf.** `LeafInv` names the ciphertext of every stage in closed form: `cts` is a
prefix of `Table`, whose entries are polynomials in the leaves, the bits and the selectors'
errors (`Chain`). That a step appends the next entry is computed stage by stage from the
operations of `Ciphertexts` (`ComputedStage`), and with it that each level and scale is the
one the code expects, so `Verdict` never refuses a run in which no call failed. The ledger of
counts is a recursive function over the stages; unfolded from its end it is a table
(`CompletedIsLedger`), and each counted step is arithmetic. The certificate is then a
statement about `Table` alone: bounds on products of integers and, for the output, one
polynomial identity, that the mux is the chosen leaf plus terms with an error as a factor
(`MuxPolynomial`, `MuxError`).

**One-hot evaluation.** That the output is the plain walk's needs to know, in every state,
which weight is hot (`HasPath`), that the selected feature and threshold are those of that node
(`Selected`) and that its comparison is the plain branch (`Compared`). A selection is a sum over
a level in which every term but one is zero: that it is this term, of its kind and without
wrapping around, goes by induction over the number of terms (`SumOfOne`), stated of a set of
numbers and derived from the well-foundedness of `<` (`Induction`). `Billed` says to the call
what has been spent in each state, whose totals over the levels are sums of powers of two;
`Bounded` and `Alive` carry that through a backend that fails in the middle of a helper. The
refinement maps the hot node to the node of `BinaryRoute`: an update of the weights is one step
of the walk, everything else a stutter.

**Admission.** A digest fixes every other field of what it seals, so an accepted report or
permit equals one the plan would issue now. It remains to exclude that a *changed* value
equals an honest one. `AdmissionInv` says that what is held was issued by one plan or spec for
one memory, or is an alteration of such a value, and that no alteration equals anything any
plan issues: its decision is not the one of its assessment, its peak not the one of the plan
its digest names, or a digest in it is nobody's (`AlteredReport`, `AlteredPermit`,
`AlteredConstruction`). Two phases with the same ledger differ by the name in the plan's digest.
What an accepted permit *means* rests on the ledger: checked operations on numbers that may
have overflowed give what the exact ones give, capped (`SumCapped`, `ProductCapped`); every
estimate is a number of 256-byte pages (`Units`), so the combined plan and each phase of it are
literal numbers, and a phase that overflows no earlier and asks for no more than the combined
plan fits where that fits (`PhaseWithinCombined`), whichever the word size. The floors in
`evaluateReport` lose nothing: a strict comparison of integers below `(4 * total) \div 5` is the
exact one (`FourFifths`, `AboveLimit`).

**Only model-checked.**
* All liveness (`CallsReturn`, `CloseRetires`, `Returns`, `WalksEnd`): the installed provers do
  not reason about `ENABLED`, which fairness is made of.
* The programs of the circuits (`ResultsCorrect`, `CleanRunsReturn`, `FailuresAuthenticate`,
  except for the terminal leaf), the codecs and engines, the ring and the plans (`WordsAsPlain`,
  `OperationsExact`, `ResiduesAsInteger`, `CertificatesHold`, `OnlyWellFormed`,
  `EvaluatesAsSource`, `RoutesAsBinary`): what a recursive operator computes of every program,
  tree or polynomial. The library's induction theorems take an operator as a parameter, which
  none of the provers instantiates, and a module with a recursive operator is out of their reach
  altogether. Induction stated of a set of numbers is available, as in `OneHotProofs`, where the
  recursion is over the length of a level.

## 5. Findings

`CloseRemoves` states the comment of the factor store's `Close`
(`gao_full_packed_factor_store.go:223`): *"Close removes the evaluator-private temporary
factor directory. It is idempotent"*. `Close` sets `closed` and forgets the directory
before it calls `os.RemoveAll`. If that call fails, the first `Close` returns the error,
but every later one returns nil at once with the directory still on disk, so the
removal can no longer be retried, and both cleanups that call `Close` drop its error
(line 88 of the store, `gao_full_packed_a2b.go:96`). `PrepareResident` keeps the path in
the same situation, which is part of what `DirectoriesRemoved` checks. Run `factor_close`
shows it in a store that is written and then closed twice.

`ExactPrefixAuthenticates` states the comment of `validateFailureTrace`
(`integer/homchain/signed8_depth2_terminal_leaf.go:1547`): terminal-local failures contain a
successful decoder tuple plus an exact prefix of mux boundaries. When the snapshot of the
root selector fails, the decoded child has already been appended, so the trace is such a
prefix with one state; `validSigned8Depth2TerminalLeafProgress` (line 1759) accepts a
failure at either selector only with no state at all, and the partial trace cannot be
sealed. Run `terminal_leaf_prefix` shows it.

`LazyOutputAsDocumented` states the comments on the lazy forward transforms
(`lattigo/ring/ntt.go:67, 113, 136, 182, 211, 724, 741`): *"output values in the range [0,
2\*modulus-1]"*. The last stage adds a lazy product to a word below 4q and nothing reduces
after it; run `lazy_forward` shows a word of two moduli or more for a reduced polynomial. The
range there is, below six moduli (seven or eight where the last stage subtracts nothing), is
part of `OperationsExact`.

Three more comments of `lattigo/ring` say less than run `ring` finds:
* `MulCoeffsMontgomeryThenSubLazy` and `MulCoeffsMontgomeryLazyThenNeg`
  (`subring_ops.go:139, 153`) leave 2q-1, where *"[0, 2\*modulus-2]"* is written: when a zero is
  subtracted from q-1, and when a lazy product of 1 is negated. `OperationsExact` says these are
  the only cases. The other lazy operations stay within the written ranges.
* `DivFloorByLastModulusNTT` *"divides (floored)"* and `DivRoundByLastModulusNTT` *"divides
  (rounded)"* (`scaling.go:6, 94`): after a lazy word one modulus above the last residue, the
  first quotient is one less and the second is the floored one. The standard transform of
  degree 16 on reduces that word, so only smaller degrees and the conjugate-invariant ring are
  concerned. `ResiduesAsInteger` states both quotients.
* `ModUpExact` and `multSum` *"[0, 2q-1]"* (`basis_extension.go:283, 598`) leave the high word of
  the sum out, by which a result may pass it. `ResiduesAsInteger` states the range with it;
  where the sums have no high word, the written one holds.

## 6. Not modelled, and why

* Noise, key switching, the sampling of keys and the precision of polynomial
  approximations: probabilities and real-number arithmetic out of TLC's reach.
* Digests, canonical wire encodings, reports, audit records and their validation
  (`route_b_auth_wire.go`, `route_b_rbdft_*.go`, `route_b_*_experiment.go`, the profile
  and fingerprint code that makes up most of `homchain`): long records compared field by
  field. A model would restate them; the lifecycle only compares the outcome.
* Process crashes: no lineage survives its process, the factor directories are
  temporary, and nothing is recovered at start.
* The paper prototype: floating-point evaluation without protocol state.
* Drivers, examples, benchmarks, third-party and vendored code, research data.

## 7. Plan

Done, in this order: the lineage and its abstraction, its exclusion and evidence proofs,
the sessions, the Gao store and session, the counters and the prebuilt assembly, the plan
compilers and tree evaluation, the ring, codec and engine, the circuits of the chain and of
the runners, the streamed construction, admission to memory; then the proofs of payload and
refinement of the lineage, of the sessions, of the Gao modules, of the counters and the
assembly, of the streamed construction, of the terminal leaf, of the one-hot evaluation and of
admission.

Left:

1. More proofs: the reductions of `RingArithmetic` for every modulus and word size, once the
   module has a function in place of its recursive `BitReverse`; that a `RadixPlan` of any depth
   routes as its source; the keys of `OrderedFloat32` for every format.
2. The canonical wire records, as strict decoders of a field grammar.
3. Report admission in `internal/benchcmp`; the packing layouts of `pack/`.
4. Key switching of `lattigo/core/rlwe` over the residues of `RNSRing`.
