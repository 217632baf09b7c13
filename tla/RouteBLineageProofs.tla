------------------------ MODULE RouteBLineageProofs ------------------------
(***************************************************************************)
(* Safety of the Route-B lineage for any number of authorities, lineages   *)
(* and callers and any generation limit; its capacity evidence, its        *)
(* payload, and that the detailed protocol implements the one-way          *)
(* lifecycle of LineageLifecycle.                                          *)
(*                                                                         *)
(* Exclusive transitions are not inductive by themselves: that no first    *)
(* operation wins a lineage whose Install is still inside its deferred     *)
(* guard follows from the evaluator not having been handed out yet.  The   *)
(* inductive invariant therefore ties the position of every call to the    *)
(* state, the evaluator and the lock of its lineage.                       *)
(*                                                                         *)
(* The generation is stored after the compare-and-swap, so that it only    *)
(* grows rests on the states: they are never visited twice by a stage that *)
(* consumes a sample, hence a call that wins its compare-and-swap compared *)
(* its generation with the value it is about to replace.                   *)
(*                                                                         *)
(* An artifact follows the state of its lineage until the lineage has      *)
(* failed; from then on it is in the hands of the one call that clears it. *)
(* A lineage rests on the stored generation, except between the winner's   *)
(* compare-and-swap and its store, where it rests on the winner's.         *)
(***************************************************************************)
EXTENDS RouteBLineage, TLAPS

----------------------------------------------------------------------------
(* The inductive invariant.                                                *)

Early == {"Zero", "Authorized", "Building", "PrivateUninstalled", "Readying", "Ready"}

\* Which positions a method has.
PcOfOp(c) ==
  /\ pc[c] = "enter" => Op(c) # "AuthorizeBuild"
  /\ pc[c] = "sample" => Op(c) \notin {"Retire", "OperationalA2B"}
  /\ pc[c] = "mint" => Op(c) = "AuthorizeBuild"
  /\ pc[c] = "recheck" => Op(c) \in StageOps \ {"OperationalA2B"}
  /\ pc[c] \in {"cas"} \cup Won => Op(c) \in StageOps
  /\ pc[c] \in {"store", "snapshot", "delta"} => Op(c) # "OperationalA2B"
  /\ pc[c] = "cts" => Op(c) = "BeginBuild"
  /\ pc[c] \in {"guard", "assemble", "install", "deferred"} => Op(c) = "Install"
  /\ pc[c] \in {"run", "runDelta"} => Op(c) \in InstalledOps
  /\ pc[c] = "runDelta" => Op(c) \in FirstOps
  /\ pc[c] = "publish" => Op(c) # "Install"

\* The lineage state under a winner at each of its positions.
Phase(c) ==
  CASE pc[c] = "deferred" -> "InstalledUnverified"
    [] pc[c] = "clear"    -> "Failed"
    [] OTHER              -> During(Op(c))

StateOfCall(c) ==
  /\ pc[c] # "idle" /\ Op(c) = "AuthorizeBuild" => state[Lin(c)] = "Zero"
  /\ pc[c] # "idle" /\ Op(c) # "AuthorizeBuild" => state[Lin(c)] # "Zero"
  /\ pc[c] \in Won => state[Lin(c)] = Phase(c)

\* The call has left its prepared circuit and not yet published.
Stored(c) == Op(c) = "FirstA2BFull" /\ pc[c] \in {"publish", "clear"}

EvaluatorOfCall(c) ==
  /\ pc[c] # "idle" /\ Op(c) \in LockingOps
       => evaluator[Lin(c)] \in {"available", "retired"}
  /\ pc[c] \notin {"idle", "enter"} /\ Op(c) \in InstalledOps
       => operationMu[Lin(c)] = c /\ evaluator[Lin(c)] = "available"
  /\ pc[c] \in Won /\ Op(c) = "Install"
       => /\ pc[c] \in {"install", "deferred"} => evaluator[Lin(c)] = "assembled"
          /\ pc[c] = "clear" => evaluator[Lin(c)] \in {"none", "assembled"}
          /\ pc[c] \notin {"install", "deferred", "clear"} => evaluator[Lin(c)] = "none"
  /\ pc[c] \notin {"idle", "enter"} /\ Op(c) \in FirstOps /\ preparedA2BFull[Lin(c)]
       => Stored(c)
  /\ pc[c] \notin {"idle", "enter"} /\ Op(c) = "OperationalA2B"
       => firstOperation[Lin(c)] = "FirstA2BFull"

CallInv == \A c \in Call : PcOfOp(c) /\ StateOfCall(c) /\ EvaluatorOfCall(c)

\* Winners, and mints, of one lineage.
PairInv ==
  \A c, d \in Call : c # d =>
    /\ pc[c] \in Won /\ pc[d] \in Won => Lin(c) # Lin(d)
    /\ pc[c] # "idle" /\ pc[d] # "idle" /\ Op(c) = "AuthorizeBuild"
         => Lin(c) # Lin(d)

LineageInv ==
  \A l \in Lineage :
    /\ state[l] \in Early => evaluator[l] = "none"
    /\ state[l] \in Early \cup {"Installing", "InstalledUnverified"} => ~preparedA2BFull[l]
    /\ preparedA2BFull[l] => /\ evaluator[l] = "available"
                             /\ \/ firstOperation[l] = "FirstA2BFull"
                                \/ \E c \in Call : Stored(c) /\ Lin(c) = l

IInv == TypeOK /\ CallInv /\ PairInv /\ LineageInv

----------------------------------------------------------------------------
(* Type correctness.                                                       *)

\* A return leaves the calls' variables well typed.
LEMMA ReturnType ==
  ASSUME TypeOK, NEW c \in Call, Return(c)
  PROVE  /\ pc' \in [Call -> {"idle"} \cup Waiting \cup Won]
         /\ job' \in [Call -> Jobs \cup {None}]
         /\ ev' \in [Call -> Nat]
         /\ before' \in [Call -> Nat]
         /\ operationMu' \in [Lineage -> Call \cup {None}]
         /\ \A d \in Call : pc'[d] # "idle" => job'[d] \in Jobs
BY DEF TypeOK, Return, Unlocked

\* A move to another position leaves them well typed.
LEMMA GotoType ==
  ASSUME TypeOK, NEW c \in Call, NEW to \in {"idle"} \cup Waiting \cup Won,
         Goto(c, to), pc[c] # "idle", UNCHANGED job
  PROVE  /\ pc' \in [Call -> {"idle"} \cup Waiting \cup Won]
         /\ \A d \in Call : pc'[d] # "idle" => job'[d] \in Jobs
BY DEF TypeOK, Goto

\* What the type invariant says of a call in progress.
LEMMA JobType ==
  ASSUME TypeOK, NEW c \in Call, pc[c] # "idle"
  PROVE  /\ job[c] \in Jobs
         /\ Op(c) \in Ops /\ Lin(c) \in Lineage
         /\ job[c].auth \in Authority /\ job[c].art \in Lineage
         /\ generation[job[c].auth] \in 0..MaxGeneration
         /\ ev[c] \in Nat /\ before[c] \in Nat
BY DEF TypeOK, Jobs, Op, Lin

\* Every step preserves the type invariant.
LEMMA TypeStep == TypeOK /\ [Next]_vars => TypeOK'
<1> SUFFICES ASSUME TypeOK, [Next]_vars PROVE TypeOK'
  OBVIOUS
<1> USE LineageAssumption
<1>1. CASE UNCHANGED vars
  BY <1>1 DEF TypeOK, vars
<1>2. CASE Next
  <2> PICK c \in Call : Start(c) \/ Admission(c) \/ Work(c)
    BY <1>2 DEF Next
  <2>1. CASE Start(c)
    <3> PICK j \in Jobs : /\ job' = [job EXCEPT ![c] = j]
                          /\ Goto(c, IF j.op = "AuthorizeBuild" THEN "sample" ELSE "enter")
      BY <2>1 DEF Start
    <3> QED
      BY <2>1 DEF Start, TypeOK, Goto, Waiting, authorityVars, lineageVars, permitVars, payloadVars
  <2>2. CASE Refuse(c) \/ SampleBlocked(c) \/ SampleExhausted(c) \/ PrepareFails(c)
             \/ RecheckFails(c) \/ CasLost(c)
    <3>1. pc[c] # "idle"
      BY <2>2 DEF Refuse, SampleBlocked, SampleExhausted, PrepareFails, RecheckFails, CasLost
    <3>2. Return(c)
      BY <2>2 DEF Refuse, SampleBlocked, SampleExhausted, PrepareFails, RecheckFails, CasLost
    <3>3. generation' \in [Authority -> 0..MaxGeneration]
      BY <2>2, <3>1, JobType DEF Refuse, SampleBlocked, SampleExhausted, PrepareFails,
           RecheckFails, CasLost, authorityVars, TypeOK
    <3> QED
      BY <2>2, <3>2, <3>3, ReturnType
         DEF Refuse, SampleBlocked, SampleExhausted, PrepareFails, RecheckFails, CasLost,
             lineageVars, permitVars, payloadVars, TypeOK
  <2>3. CASE Recheck(c) \/ DeltaAccepted(c) \/ Guard(c) \/ RunPlain(c)
             \/ Snapshot(c) \/ ConstructCTS(c) \/ RunSupplemental(c)
    <3>1. pc[c] # "idle" /\ UNCHANGED <<authorityVars, lineageVars, permitVars, payloadVars,
                                       operationMu, job, ev>>
      BY <2>3 DEF Recheck, DeltaAccepted, Guard, RunPlain, Snapshot,
                  ConstructCTS, RunSupplemental
    <3>2. \E to \in Waiting \cup Won : Goto(c, to)
      BY <2>3, Zenon DEF Recheck, DeltaAccepted, Guard, RunPlain, Snapshot,
                  ConstructCTS, RunSupplemental, Waiting, Won
    <3>3. constructions' \in Nat /\ before' \in [Call -> Nat]
      BY <2>3, JobType DEF Recheck, DeltaAccepted, Guard, RunPlain, Snapshot,
                  ConstructCTS, RunSupplemental, TypeOK
    <3> QED
      BY <3>1, <3>2, <3>3, GotoType
         DEF authorityVars, lineageVars, permitVars, payloadVars, TypeOK
  <2>4. CASE Enter(c) \/ SampleAdmitted(c) \/ Store(c)
    <3>1. pc[c] # "idle" /\ UNCHANGED <<state, mintGeneration, permitVars, payloadVars,
                                       constructions, job, before>>
      BY <2>4 DEF Enter, SampleAdmitted, Store, lineageVars
    <3>2. \E to \in Waiting \cup Won : Goto(c, to)
      BY <2>4, Zenon DEF Enter, SampleAdmitted, Store, Waiting, Won
    <3>3. /\ generation' \in [Authority -> 0..MaxGeneration]
          /\ lastConsumed' \in [Lineage -> Nat]
          /\ ev' \in [Call -> Nat]
          /\ operationMu' \in [Lineage -> Call \cup {None}]
      BY <2>4, JobType DEF Enter, SampleAdmitted, Store, TypeOK, authorityVars, lineageVars
    <3> QED
      BY <3>1, <3>2, <3>3, GotoType DEF permitVars, payloadVars, TypeOK
  <2>5. CASE Cas(c) \/ InstallRevoked(c) \/ Fail(c)
    <3>1. pc[c] # "idle" /\ UNCHANGED <<generation, mintGeneration, lastConsumed, permitVars,
                                       payloadVars, operationMu, constructions, job, ev, before>>
      BY <2>5 DEF Cas, InstallRevoked, Fail, authorityVars
    <3>2. \E to \in Waiting \cup Won : Goto(c, to)
      BY <2>5, Zenon DEF Cas, InstallRevoked, Fail, Waiting, Won
    <3>3. state' \in [Lineage -> LineageState]
      BY <2>5 DEF Cas, InstallRevoked, Fail, TypeOK, During, LineageState, Working
    <3> QED
      BY <3>1, <3>2, <3>3, GotoType DEF permitVars, payloadVars, TypeOK
  <2>6. CASE Assemble(c) \/ InstallCell(c)
    <3>1. pc[c] # "idle" /\ UNCHANGED <<generation, mintGeneration, lastConsumed, readyGeneration,
                                       firstOperation, preparedA2BFull, operationMu,
                                       constructions, job, ev, before>>
      BY <2>6 DEF Assemble, InstallCell, authorityVars, lineageVars, permitVars
    <3>2. \E to \in Waiting \cup Won : Goto(c, to)
      BY <2>6, Zenon DEF Assemble, InstallCell, Waiting, Won
    <3>3. /\ state' \in [Lineage -> LineageState]
          /\ installGeneration' \in [Lineage -> Nat]
          /\ artifact' \in [Lineage -> ArtifactState]
          /\ evaluator' \in [Lineage -> EvaluatorState]
      BY <2>6, JobType DEF Assemble, InstallCell, TypeOK, LineageState, ArtifactState,
           EvaluatorState, lineageVars, permitVars
    <3> QED
      BY <3>1, <3>2, <3>3, GotoType DEF TypeOK
  <2>7. CASE Mint(c) \/ PublishBuild(c) \/ PublishReady(c) \/ InstallReturns(c)
             \/ PublishOperation(c) \/ Clear(c) \/ Retire(c)
    <3>1. pc[c] # "idle" /\ Return(c) /\ UNCHANGED <<generation, installGeneration, constructions>>
      BY <2>7 DEF Mint, PublishBuild, PublishReady, InstallReturns, PublishOperation, Clear,
                  Retire, authorityVars, permitVars
    <3>2. /\ state' \in [Lineage -> LineageState]
          /\ mintGeneration' \in [Lineage -> Nat]
          /\ lastConsumed' \in [Lineage -> Nat]
          /\ readyGeneration' \in [Lineage -> Nat]
      BY <2>7, <3>1, JobType DEF Mint, PublishBuild, PublishReady, InstallReturns,
           PublishOperation, Clear, Retire, lineageVars, permitVars, TypeOK, LineageState
    <3>3. /\ artifact' \in [Lineage -> ArtifactState]
          /\ evaluator' \in [Lineage -> EvaluatorState]
      BY <2>7, <3>1, JobType DEF Mint, PublishBuild, PublishReady, InstallReturns,
           PublishOperation, Clear, Retire, payloadVars, TypeOK, ArtifactState, EvaluatorState
    <3>4. firstOperation' \in [Lineage -> FirstOps \cup {"none"}]
      BY <2>7, <3>1, JobType DEF Mint, PublishBuild, PublishReady, InstallReturns,
           PublishOperation, Clear, Retire, payloadVars, TypeOK, FirstOps
    <3>5. preparedA2BFull' \in [Lineage -> BOOLEAN]
      BY <2>7, <3>1, JobType DEF Mint, PublishBuild, PublishReady, InstallReturns,
           PublishOperation, Clear, Retire, payloadVars, TypeOK
    <3> QED
      BY <3>1, <3>2, <3>3, <3>4, <3>5, ReturnType DEF TypeOK
  <2>8. CASE RunDelta(c)
    <3>1. pc[c] # "idle" /\ UNCHANGED <<generation, state, mintGeneration, lastConsumed, permitVars,
                                       artifact, evaluator, firstOperation, operationMu,
                                       constructions, job, ev, before>>
      BY <2>8 DEF RunDelta, authorityVars, lineageVars
    <3>2. Goto(c, "publish") /\ preparedA2BFull' \in [Lineage -> BOOLEAN]
      BY <2>8 DEF RunDelta, TypeOK
    <3> QED BY <3>1, <3>2, GotoType DEF permitVars, Won, TypeOK
  <2> QED
    BY <2>1, <2>2, <2>3, <2>4, <2>5, <2>6, <2>7, <2>8 DEF Admission, Work
<1> QED
  BY <1>1, <1>2

\* Every variable of the lineage protocol stays in its type for any number of
\* callers; in particular no generation passes the limit at which sampling is
\* exhausted (route_b_authority.go:225).
THEOREM TypeCorrect == Spec => []TypeOK
<1>1. Init => TypeOK
  BY LineageAssumption DEF Init, TypeOK, LineageState, ArtifactState, EvaluatorState
<1> QED
  BY <1>1, TypeStep, PTL DEF Spec

----------------------------------------------------------------------------
(* Exclusive transitions.                                                  *)

\* A call that only moves on, waiting or working, disturbs nobody.
LEMMA MoveKeeps ==
  ASSUME IInv, NEW c \in Call, NEW to \in Waiting \cup Won, Goto(c, to),
         pc[c] \notin {"idle", "enter", "install", "deferred", "publish", "clear"},
         to \notin {"enter", "install", "deferred", "clear"},
         to \in Won => pc[c] \in Won,
         UNCHANGED <<state, evaluator, firstOperation, preparedA2BFull, operationMu, job>>,
         PcOfOp(c)'
  PROVE  CallInv' /\ PairInv' /\ LineageInv'
<1> USE DEF IInv
<1>1. PairInv'
  BY DEF TypeOK, PairInv, Goto, Op, Lin
<1>2. LineageInv'
  BY DEF TypeOK, LineageInv, Stored, Goto, Op, Lin
<1>3. ASSUME NEW d \in Call PROVE (PcOfOp(d) /\ StateOfCall(d) /\ EvaluatorOfCall(d))'
  <2>1. CASE d = c
    <3>1. StateOfCall(c)'
      BY DEF TypeOK, CallInv, StateOfCall, Phase, Goto, Op, Lin
    <3>2. EvaluatorOfCall(c)'
      BY DEF TypeOK, CallInv, EvaluatorOfCall, Stored, Goto, Op, Lin
    <3> QED BY <2>1, <3>1, <3>2
  <2>2. CASE d # c
    BY <2>2 DEF TypeOK, CallInv, PcOfOp, StateOfCall, EvaluatorOfCall, Stored, Phase, Goto, Op, Lin
  <2> QED BY <2>1, <2>2
<1> QED BY <1>1, <1>2, <1>3 DEF CallInv

\* A waiting call that returns and changes nothing else disturbs nobody.
LEMMA ReturnKeeps ==
  ASSUME IInv, NEW c \in Call, Return(c), pc[c] \in Waiting,
         UNCHANGED <<state, evaluator, firstOperation, preparedA2BFull>>
  PROVE  CallInv' /\ PairInv' /\ LineageInv'
<1> USE DEF IInv
<1>1. PairInv'
  BY DEF TypeOK, PairInv, Return, Op, Lin, Won
<1>2. LineageInv'
  BY DEF TypeOK, LineageInv, Stored, Return, Op, Lin, Waiting
<1>3. ASSUME NEW d \in Call PROVE (PcOfOp(d) /\ StateOfCall(d) /\ EvaluatorOfCall(d))'
  <2>1. CASE d = c
    BY <2>1 DEF TypeOK, Return, PcOfOp, StateOfCall, EvaluatorOfCall, Won
  <2>2. CASE d # c
    <3>1. pc'[d] = pc[d] /\ job'[d] = job[d]
      BY <2>2 DEF TypeOK, Return
    <3>2. pc[d] # "idle" /\ operationMu[Lin(d)] = d => operationMu'[Lin(d)] = d
      BY <2>2, JobType DEF Return, Unlocked
    <3> QED
      BY <3>1, <3>2 DEF CallInv, PcOfOp, StateOfCall, EvaluatorOfCall, Stored, Phase, Op, Lin
  <2> QED BY <2>1, <2>2
<1> QED BY <1>1, <1>2, <1>3 DEF CallInv

\* Calls other than the one that moves keep their facts when the lineage they
\* are on is untouched.
LEMMA OthersKeep ==
  ASSUME IInv, NEW c \in Call, NEW d \in Call, d # c,
         pc'[d] = pc[d], job'[d] = job[d],
         pc[d] # "idle" =>
           /\ state'[Lin(d)] = state[Lin(d)]
           /\ evaluator'[Lin(d)] = evaluator[Lin(d)]
           /\ firstOperation'[Lin(d)] = firstOperation[Lin(d)]
           /\ preparedA2BFull'[Lin(d)] => preparedA2BFull[Lin(d)]
           /\ operationMu[Lin(d)] = d => operationMu'[Lin(d)] = d
  PROVE  (PcOfOp(d) /\ StateOfCall(d) /\ EvaluatorOfCall(d))'
<1>1. CASE pc[d] = "idle"
  BY <1>1 DEF PcOfOp, StateOfCall, EvaluatorOfCall, Won
<1>2. CASE pc[d] # "idle"
  BY <1>2 DEF IInv, CallInv, PcOfOp, StateOfCall, EvaluatorOfCall, Stored, Phase, Op, Lin
<1> QED BY <1>1, <1>2

\* A winner's lineage carries no other winner, no mint and, unless the winner
\* is itself an installed operation, no call that has passed the lock.
LEMMA Alone ==
  ASSUME IInv, NEW c \in Call, NEW d \in Call, d # c, pc[c] \in Won,
         pc[d] # "idle", Lin(d) = Lin(c)
  PROVE  /\ pc[d] \notin Won
         /\ Op(d) # "AuthorizeBuild"
         /\ Op(c) = "Install" => Op(d) \notin LockingOps
         /\ Op(c) \in InstalledOps /\ Op(d) \in InstalledOps => pc[d] = "enter"
BY DEF IInv, PairInv, CallInv, StateOfCall, EvaluatorOfCall, LockingOps, InstalledOps, FirstOps, Won

\* A call that starts disturbs nobody.
LEMMA StartKeeps ==
  ASSUME IInv, NEW c \in Call, Start(c)
  PROVE  CallInv' /\ PairInv' /\ LineageInv'
<1> PICK j \in Jobs : /\ Callable(j)
                     /\ job' = [job EXCEPT ![c] = j]
                     /\ Goto(c, IF j.op = "AuthorizeBuild" THEN "sample" ELSE "enter")
  BY DEF Start
<1> USE DEF IInv
<1>1. PairInv'
  BY DEF TypeOK, PairInv, CallInv, StateOfCall, Start, Callable, Goto, Op, Lin, Won
<1>2. LineageInv'
  BY DEF TypeOK, LineageInv, Stored, Start, Goto, Op, Lin, lineageVars, payloadVars
<1>3. (PcOfOp(c) /\ StateOfCall(c) /\ EvaluatorOfCall(c))'
  <2>1. /\ job'[c] = j /\ pc'[c] \in {"sample", "enter"}
        /\ pc'[c] = "sample" <=> j.op = "AuthorizeBuild"
    BY DEF TypeOK, Goto
  <2>2. state' = state /\ evaluator' = evaluator
    BY DEF Start, lineageVars, payloadVars
  <2>3. PcOfOp(c)'
    BY <2>1 DEF PcOfOp, Op, Won
  <2>4. StateOfCall(c)'
    BY <2>1, <2>2 DEF StateOfCall, Callable, Op, Lin, Won
  <2>5. EvaluatorOfCall(c)'
    BY <2>1, <2>2 DEF EvaluatorOfCall, Callable, Op, Lin, Won, LockingOps, InstalledOps, FirstOps
  <2> QED BY <2>3, <2>4, <2>5
<1>4. ASSUME NEW d \in Call, d # c PROVE (PcOfOp(d) /\ StateOfCall(d) /\ EvaluatorOfCall(d))'
  BY <1>4, OthersKeep DEF TypeOK, Start, Goto, lineageVars, payloadVars
<1> QED BY <1>1, <1>2, <1>3, <1>4 DEF CallInv

\* A call that passes its first validation, with or without the lock, disturbs
\* nobody.
LEMMA EnterKeeps ==
  ASSUME IInv, NEW c \in Call, Enter(c)
  PROVE  CallInv' /\ PairInv' /\ LineageInv'
<1> USE DEF IInv
<1>1. PairInv'
  BY DEF TypeOK, PairInv, Enter, Goto, Op, Lin, Won
<1>2. LineageInv'
  BY DEF TypeOK, LineageInv, Stored, Enter, Goto, Op, Lin, lineageVars, payloadVars
<1>3. (PcOfOp(c) /\ StateOfCall(c) /\ EvaluatorOfCall(c))'
  <2>1. PcOfOp(c)'
    BY JobType DEF TypeOK, CallInv, PcOfOp, Enter, Goto, Op, Lin, Won, StageOps, Ops
  <2>2. StateOfCall(c)'
    BY DEF TypeOK, CallInv, StateOfCall, Enter, Goto, Op, Lin, Won, lineageVars
  <2>3. EvaluatorOfCall(c)'
    <3>1. ~(Op(c) \in FirstOps /\ preparedA2BFull[Lin(c)])
      BY JobType DEF Enter, Valid, From, LineageInv, FirstOps
    <3>2. Op(c) = "OperationalA2B" => firstOperation[Lin(c)] = "FirstA2BFull"
      BY DEF Enter, Valid, OperationalEvidence
    <3> QED
      BY <3>1, <3>2, JobType DEF TypeOK, CallInv, EvaluatorOfCall, Enter, Valid, Goto, Op, Lin, Won,
         payloadVars, LockingOps
  <2> QED BY <2>1, <2>2, <2>3
<1>4. ASSUME NEW d \in Call, d # c PROVE (PcOfOp(d) /\ StateOfCall(d) /\ EvaluatorOfCall(d))'
  <2>1. pc[d] # "idle" /\ operationMu[Lin(d)] = d => operationMu'[Lin(d)] = d
    BY <1>4, JobType, LineageAssumption DEF TypeOK, Enter, Unlocking
  <2> QED BY <1>4, <2>1, OthersKeep DEF TypeOK, Enter, Goto, lineageVars, payloadVars
<1> QED BY <1>1, <1>2, <1>3, <1>4 DEF CallInv

\* The mint of a lineage disturbs no call: none is on a lineage still at Zero.
LEMMA MintKeeps ==
  ASSUME IInv, NEW c \in Call, Mint(c)
  PROVE  CallInv' /\ PairInv' /\ LineageInv'
<1> USE DEF IInv
<1>0. Op(c) = "AuthorizeBuild" /\ Lin(c) \in Lineage /\ state[Lin(c)] = "Zero" /\ pc[c] = "mint"
  BY JobType DEF Mint, CallInv, PcOfOp, StateOfCall
<1>1. PairInv'
  BY DEF TypeOK, PairInv, Mint, Return, Op, Lin, Won
<1>2. LineageInv'
  BY <1>0 DEF TypeOK, LineageInv, Stored, Mint, Return, payloadVars, Early, Op, Lin
<1>3. (PcOfOp(c) /\ StateOfCall(c) /\ EvaluatorOfCall(c))'
  BY DEF TypeOK, PcOfOp, StateOfCall, EvaluatorOfCall, Mint, Return, Won
<1>4. ASSUME NEW d \in Call, d # c PROVE (PcOfOp(d) /\ StateOfCall(d) /\ EvaluatorOfCall(d))'
  <2>1. pc[d] # "idle" => Lin(d) # Lin(c) /\ Lin(d) \in Lineage
    BY <1>0, <1>4, JobType DEF PairInv
  <2> QED BY <1>4, <2>1, OthersKeep DEF TypeOK, Mint, Return, Unlocked, payloadVars
<1> QED BY <1>1, <1>2, <1>3, <1>4 DEF CallInv

\* The winner of a compare-and-swap is alone on its lineage: whoever else was
\* working there would have moved the state away from the expected one.
LEMMA CasKeeps ==
  ASSUME IInv, NEW c \in Call, Cas(c)
  PROVE  CallInv' /\ PairInv' /\ LineageInv'
<1> USE DEF IInv
<1> DEFINE l == Lin(c)
<1>0. /\ Op(c) \in StageOps /\ l \in Lineage /\ pc[c] = "cas"
      /\ state[l] = From(Op(c)) /\ state[l] # "Zero"
      /\ state' = [state EXCEPT ![l] = During(Op(c))]
  BY JobType DEF Cas, CallInv, PcOfOp, StateOfCall, StageOps, ArtifactOps, InstalledOps, FirstOps
<1>1. ASSUME NEW d \in Call, d # c, pc[d] # "idle", Lin(d) = l
      PROVE  pc[d] \notin Won /\ Op(d) # "AuthorizeBuild"
  <2>1. Op(d) # "AuthorizeBuild"
    BY <1>0, <1>1 DEF CallInv, StateOfCall
  <2>2. SUFFICES ASSUME pc[d] \in Won PROVE FALSE
    BY <2>1
  <2>3. state[l] = Phase(d) /\ Op(d) \in StageOps
    BY <1>1, <2>2 DEF CallInv, StateOfCall, PcOfOp
  <2>4. pc[d] = "deferred" /\ Op(d) = "Install" /\ Op(c) \in FirstOps
    <3>1. state[l] \notin Working \cup {"Failed"}
      BY <1>0 DEF From, Working
    <3>2. pc[d] = "deferred"
      BY <2>3, <3>1 DEF Phase, During, Working
    <3> QED
      BY <1>0, <2>3, <3>2 DEF Phase, From, StageOps, InstalledOps, FirstOps, ArtifactOps, CallInv, PcOfOp
  <2>5. evaluator[l] = "assembled"
    BY <1>1, <2>2, <2>4 DEF CallInv, EvaluatorOfCall
  <2>6. evaluator[l] = "available"
    BY <1>0, <2>4 DEF CallInv, EvaluatorOfCall, InstalledOps
  <2> QED BY <2>5, <2>6
<1>2. PairInv'
  BY <1>0, <1>1 DEF TypeOK, PairInv, CallInv, PcOfOp, Cas, Goto, Op, Lin, Won, StageOps,
     ArtifactOps, InstalledOps, FirstOps
<1>3. LineageInv'
  <2>1. /\ state[l] \notin Early => During(Op(c)) \notin Early
        /\ Op(c) \in ArtifactOps \cup {"BeginBuild"} => state[l] \in Early
        /\ Op(c) \in InstalledOps => During(Op(c)) = "Preflighting"
    BY <1>0 DEF Early, From, During, StageOps, ArtifactOps, InstalledOps, FirstOps
  <2>2. \A d \in Call : Stored(d) => Stored(d)' /\ Lin(d)' = Lin(d)
    BY <1>0 DEF TypeOK, Stored, Cas, Goto, Op, Lin
  <2> QED
    BY <1>0, <2>1, <2>2 DEF TypeOK, LineageInv, Cas, payloadVars, Early, StageOps
<1>4. (PcOfOp(c) /\ StateOfCall(c) /\ EvaluatorOfCall(c))'
  <2>1. PcOfOp(c)'
    BY <1>0 DEF TypeOK, CallInv, PcOfOp, Cas, Goto, Op, Won, StageOps, InstalledOps
  <2>2. StateOfCall(c)'
    BY <1>0 DEF TypeOK, CallInv, StateOfCall, Cas, Goto, Op, Lin, Won, Phase, During, StageOps,
       ArtifactOps, InstalledOps, FirstOps
  <2>3. EvaluatorOfCall(c)'
    BY <1>0 DEF TypeOK, CallInv, EvaluatorOfCall, Stored, LineageInv, Cas, Goto, Op, Lin, Won,
       payloadVars, From, Early, StageOps, ArtifactOps, InstalledOps, FirstOps
  <2> QED BY <2>1, <2>2, <2>3
<1>5. ASSUME NEW d \in Call, d # c PROVE (PcOfOp(d) /\ StateOfCall(d) /\ EvaluatorOfCall(d))'
  <2>1. CASE pc[d] # "idle" /\ Lin(d) = l
    <3>1. pc[d] \notin Won /\ Op(d) # "AuthorizeBuild" /\ pc'[d] = pc[d] /\ job'[d] = job[d]
      BY <1>1, <1>5, <2>1 DEF TypeOK, Cas, Goto
    <3>2. During(Op(c)) # "Zero"
      BY DEF During
    <3> QED BY <1>0, <2>1, <3>1, <3>2 DEF TypeOK, CallInv, PcOfOp, StateOfCall, EvaluatorOfCall,
               Stored, Cas, payloadVars, Op, Lin
  <2>2. CASE pc[d] = "idle" \/ Lin(d) # l
    BY <1>0, <1>5, <2>2, JobType, OthersKeep DEF TypeOK, Cas, Goto, payloadVars
  <2> QED BY <2>1, <2>2
<1> QED BY <1>2, <1>3, <1>4, <1>5 DEF CallInv

\* What a winner may do to its lineage without disturbing the other calls.
LEMMA WinnerOthers ==
  ASSUME IInv, NEW c \in Call, NEW d \in Call, d # c, pc[c] \in Won,
         pc'[d] = pc[d], job'[d] = job[d],
         \A l \in Lineage : l # Lin(c) => /\ state'[l] = state[l]
                                          /\ evaluator'[l] = evaluator[l]
                                          /\ firstOperation'[l] = firstOperation[l]
                                          /\ preparedA2BFull'[l] => preparedA2BFull[l],
         \A l \in Lineage : operationMu[l] = d => operationMu'[l] = d,
         state'[Lin(c)] # "Zero",
         \/ Op(c) = "Install"
         \/ evaluator'[Lin(c)] = evaluator[Lin(c)]
         \/ Op(c) \in InstalledOps /\ evaluator'[Lin(c)] = "retired",
         \/ Op(c) \in {"Install"} \cup InstalledOps
         \/ /\ firstOperation'[Lin(c)] = firstOperation[Lin(c)]
            /\ preparedA2BFull'[Lin(c)] => preparedA2BFull[Lin(c)]
  PROVE  (PcOfOp(d) /\ StateOfCall(d) /\ EvaluatorOfCall(d))'
<1>1. CASE pc[d] # "idle" /\ Lin(d) = Lin(c)
  <2>1. /\ pc[d] \notin Won /\ Op(d) # "AuthorizeBuild" /\ Lin(d) \in Lineage
        /\ Op(c) = "Install" => Op(d) \notin LockingOps
        /\ Op(c) \in InstalledOps /\ Op(d) \in InstalledOps => pc[d] = "enter"
    BY <1>1, Alone, JobType DEF IInv
  <2> QED
    BY <1>1, <2>1 DEF IInv, CallInv, PcOfOp, StateOfCall, EvaluatorOfCall, Stored, LockingOps,
       InstalledOps, Op, Lin
<1>2. CASE pc[d] = "idle"
  BY <1>2, OthersKeep
<1>3. CASE pc[d] # "idle" /\ Lin(d) # Lin(c)
  <2>1. Lin(d) \in Lineage
    BY <1>3, JobType DEF IInv
  <2> QED BY <1>3, <2>1, OthersKeep
<1> QED BY <1>1, <1>2, <1>3

\* A winner that publishes or cleans up and returns.
LEMMA WinnerReturns ==
  ASSUME IInv, NEW c \in Call,
         \/ PublishBuild(c) \/ PublishReady(c) \/ InstallReturns(c)
         \/ PublishOperation(c) \/ Clear(c)
  PROVE  CallInv' /\ PairInv' /\ LineageInv'
<1> USE DEF IInv
<1> DEFINE l == Lin(c)
<1>0. /\ pc[c] \in {"publish", "deferred", "clear"} /\ Return(c)
      /\ Op(c) \in StageOps /\ l \in Lineage /\ state[l] = Phase(c)
  BY JobType DEF CallInv, StateOfCall, PcOfOp, PublishBuild, PublishReady, InstallReturns,
                 PublishOperation, Clear, Won
<1>1. PairInv'
  BY <1>0 DEF TypeOK, PairInv, Return, Op, Lin, Won
<1>2. LineageInv'
  <2>0. ASSUME NEW d \in Call, Stored(d), Lin(d) # l \/ ~Stored(c) PROVE Stored(d)' /\ Lin(d)' = Lin(d)
    BY <1>0, <2>0 DEF TypeOK, Return, Stored, Op, Lin
  <2>1. CASE PublishBuild(c) \/ PublishReady(c)
    <3>1. ~Stored(c)
      BY <2>1 DEF PublishBuild, PublishReady, Stored
    <3> QED
      BY <1>0, <2>0, <2>1, <3>1 DEF PublishBuild, PublishReady, TypeOK, LineageInv, Early, Phase,
         During, lineageVars, payloadVars
  <2>2. CASE InstallReturns(c)
    <3>1. ~Stored(c)
      BY <2>2 DEF InstallReturns, Stored
    <3> QED
      BY <1>0, <2>0, <2>2, <3>1 DEF InstallReturns, TypeOK, LineageInv, Early, Phase, lineageVars,
         PcOfOp, CallInv
  <2>3. CASE PublishOperation(c)
    <3>1. /\ evaluator[l] = "available"
          /\ Op(c) \in FirstOps /\ preparedA2BFull[l] => Op(c) = "FirstA2BFull"
          /\ Op(c) \notin FirstOps => firstOperation[l] = "FirstA2BFull"
      BY <1>0, <2>3 DEF PublishOperation, CallInv, EvaluatorOfCall, Stored, InstalledOps
    <3>2. preparedA2BFull[l] => firstOperation'[l] = "FirstA2BFull"
      BY <1>0, <2>3, <3>1 DEF PublishOperation, TypeOK
    <3>3. ASSUME NEW m \in Lineage, m # l
          PROVE  state'[m] = state[m] /\ firstOperation'[m] = firstOperation[m]
      BY <2>3, <3>3 DEF PublishOperation, TypeOK
    <3>4. state'[l] = "Operational" /\ evaluator' = evaluator /\ preparedA2BFull' = preparedA2BFull
      BY <1>0, <2>3 DEF PublishOperation, TypeOK
    <3> QED
      BY <2>0, <3>1, <3>2, <3>3, <3>4 DEF LineageInv, Early
  <2>4. CASE Clear(c)
    <3>1. ~preparedA2BFull'[l] /\ state' = state /\ state[l] = "Failed"
      BY <1>0, <2>4 DEF Clear, TypeOK, lineageVars, Phase
    <3>2. ASSUME NEW m \in Lineage, m # l
          PROVE  /\ evaluator'[m] = evaluator[m]
                 /\ firstOperation'[m] = firstOperation[m]
                 /\ preparedA2BFull'[m] = preparedA2BFull[m]
      BY <2>4, <3>2 DEF Clear, TypeOK
    <3> QED
      BY <2>0, <3>1, <3>2 DEF LineageInv, Early
  <2> QED BY <2>1, <2>2, <2>3, <2>4
<1>3. (PcOfOp(c) /\ StateOfCall(c) /\ EvaluatorOfCall(c))'
  BY <1>0 DEF TypeOK, Return, PcOfOp, StateOfCall, EvaluatorOfCall, Won
<1>4. ASSUME NEW d \in Call, d # c PROVE (PcOfOp(d) /\ StateOfCall(d) /\ EvaluatorOfCall(d))'
  <2>1. pc'[d] = pc[d] /\ job'[d] = job[d]
    BY <1>0, <1>4 DEF TypeOK, Return
  <2>2. \A m \in Lineage : operationMu[m] = d => operationMu'[m] = d
    BY <1>0, <1>4 DEF Return, Unlocked
  <2>3. pc[c] \in Won
    BY <1>0 DEF Won
  <2>4. CASE PublishBuild(c) \/ PublishReady(c) \/ PublishOperation(c)
    <3>1. /\ state'[l] # "Zero" /\ evaluator' = evaluator /\ preparedA2BFull' = preparedA2BFull
          /\ Op(c) \in InstalledOps \/ firstOperation' = firstOperation
          /\ \A m \in Lineage : m # l => /\ state'[m] = state[m]
                                         /\ firstOperation'[m] = firstOperation[m]
      BY <1>0, <2>4 DEF PublishBuild, PublishReady, PublishOperation, TypeOK, payloadVars
    <3> QED BY <1>4, <2>1, <2>2, <2>3, <3>1, WinnerOthers
  <2>5. CASE InstallReturns(c)
    <3>1. /\ state'[l] # "Zero" /\ Op(c) = "Install"
          /\ \A m \in Lineage : m # l => /\ state'[m] = state[m]
                                         /\ evaluator'[m] = evaluator[m]
                                         /\ firstOperation'[m] = firstOperation[m]
                                         /\ preparedA2BFull'[m] => preparedA2BFull[m]
      BY <1>0, <2>5 DEF InstallReturns, TypeOK, lineageVars, Phase, CallInv, PcOfOp
    <3> QED BY <1>4, <2>1, <2>2, <2>3, <3>1, WinnerOthers
  <2>6. CASE Clear(c)
    <3>1. /\ state'[l] # "Zero" /\ ~preparedA2BFull'[l]
          /\ Op(c) \in InstalledOps \/ firstOperation' = firstOperation
          /\ \A m \in Lineage : m # l => /\ state'[m] = state[m]
                                         /\ firstOperation'[m] = firstOperation[m]
                                         /\ preparedA2BFull'[m] => preparedA2BFull[m]
      BY <1>0, <2>6 DEF Clear, TypeOK, lineageVars, Phase, InstalledOps
    <3>2. CASE Op(c) = "Install"
      <4>1. \A m \in Lineage : m # l => evaluator'[m] = evaluator[m]
        BY <2>6, <3>2 DEF Clear, TypeOK
      <4> QED BY <1>4, <2>1, <2>2, <2>3, <3>1, <3>2, <4>1, WinnerOthers
    <3>3. CASE Op(c) \in InstalledOps
      <4>1. /\ evaluator'[l] = "retired"
            /\ \A m \in Lineage : m # l => evaluator'[m] = evaluator[m]
        BY <1>0, <2>6, <3>3 DEF Clear, TypeOK, InstalledOps, FirstOps
      <4> QED BY <1>4, <2>1, <2>2, <2>3, <3>1, <3>3, <4>1, WinnerOthers
    <3>4. CASE Op(c) \notin InstalledOps \cup {"Install"}
      <4>1. evaluator' = evaluator
        BY <2>6, <3>4 DEF Clear
      <4> QED BY <1>4, <2>1, <2>2, <2>3, <3>1, <4>1, WinnerOthers
    <3> QED BY <3>2, <3>3, <3>4
  <2> QED BY <2>4, <2>5, <2>6
<1> QED BY <1>1, <1>2, <1>3, <1>4 DEF CallInv

\* A winner that assembles or installs an evaluator, or fails.
LEMMA WinnerMoves ==
  ASSUME IInv, NEW c \in Call,
         Assemble(c) \/ InstallCell(c) \/ InstallRevoked(c) \/ Fail(c)
  PROVE  CallInv' /\ PairInv' /\ LineageInv'
<1> USE DEF IInv
<1> DEFINE l == Lin(c)
<1>0. /\ pc[c] \in Won \ {"clear"} /\ Op(c) \in StageOps /\ l \in Lineage
      /\ state[l] = Phase(c) /\ Op(c)' = Op(c) /\ Lin(c)' = l
      /\ \E to \in {"install", "deferred", "clear"} : Goto(c, to)
  BY JobType, Zenon DEF CallInv, StateOfCall, PcOfOp, Assemble, InstallCell, InstallRevoked, Fail,
     Won, Op, Lin
<1>1. PairInv'
  BY <1>0 DEF TypeOK, PairInv, Goto, Op, Lin, Won, Assemble, InstallCell, InstallRevoked, Fail
<1>5. ASSUME NEW d \in Call, Stored(d), d # c \/ pc'[c] = "clear" PROVE Stored(d)' /\ Lin(d)' = Lin(d)
  BY <1>0, <1>5 DEF TypeOK, Goto, Stored, Op, Lin, Assemble, InstallCell, InstallRevoked, Fail
<1>2. CASE Assemble(c)
  <2>1. /\ pc[c] = "assemble" /\ pc'[c] = "install" /\ Op(c) = "Install"
        /\ state' = state /\ state[l] = "Installing" /\ evaluator[l] = "none"
        /\ evaluator' = [evaluator EXCEPT ![l] = "assembled"]
        /\ preparedA2BFull' = preparedA2BFull /\ operationMu' = operationMu
        /\ ~preparedA2BFull[l] /\ firstOperation' = firstOperation /\ ~Stored(c)
    BY <1>0, <1>2 DEF Assemble, TypeOK, Goto, CallInv, PcOfOp, EvaluatorOfCall, Phase, During,
                      Won, lineageVars, LineageInv, Stored
  <2>2. LineageInv'
    BY <1>0, <1>5, <2>1 DEF TypeOK, LineageInv, Early
  <2>3. (PcOfOp(c) /\ StateOfCall(c) /\ EvaluatorOfCall(c))'
    BY <1>0, <2>1 DEF TypeOK, PcOfOp, StateOfCall, EvaluatorOfCall, Phase, During, Won, StageOps,
       ArtifactOps, LockingOps, InstalledOps, FirstOps
  <2>4. ASSUME NEW d \in Call, d # c PROVE (PcOfOp(d) /\ StateOfCall(d) /\ EvaluatorOfCall(d))'
    <3>1. pc'[d] = pc[d] /\ job'[d] = job[d]
      BY <1>2, <2>4 DEF TypeOK, Assemble, Goto
    <3>2. \A m \in Lineage : m # l => evaluator'[m] = evaluator[m]
      BY <2>1 DEF TypeOK
    <3> QED BY <1>0, <2>1, <2>4, <3>1, <3>2, WinnerOthers
  <2> QED BY <1>1, <2>2, <2>3, <2>4 DEF CallInv
<1>3. CASE InstallCell(c)
  <2>1. /\ pc[c] = "install" /\ pc'[c] = "deferred" /\ Op(c) = "Install"
        /\ state' = [state EXCEPT ![l] = "InstalledUnverified"]
        /\ evaluator[l] = "assembled" /\ evaluator' = evaluator /\ state[l] = "Installing"
        /\ preparedA2BFull' = preparedA2BFull /\ operationMu' = operationMu
        /\ ~preparedA2BFull[l] /\ firstOperation' = firstOperation /\ ~Stored(c)
    BY <1>0, <1>3 DEF InstallCell, TypeOK, Goto, CallInv, PcOfOp, EvaluatorOfCall, Phase, During,
                      Won, LineageInv, Stored
  <2>2. LineageInv'
    BY <1>0, <1>5, <2>1 DEF TypeOK, LineageInv, Early
  <2>3. (PcOfOp(c) /\ StateOfCall(c) /\ EvaluatorOfCall(c))'
    BY <1>0, <2>1 DEF TypeOK, PcOfOp, StateOfCall, EvaluatorOfCall, Phase, During, Won, StageOps,
       ArtifactOps, LockingOps, InstalledOps, FirstOps
  <2>4. ASSUME NEW d \in Call, d # c PROVE (PcOfOp(d) /\ StateOfCall(d) /\ EvaluatorOfCall(d))'
    <3>1. pc'[d] = pc[d] /\ job'[d] = job[d]
      BY <1>3, <2>4 DEF TypeOK, InstallCell, Goto
    <3>2. state'[l] # "Zero" /\ \A m \in Lineage : m # l => state'[m] = state[m]
      BY <1>0, <2>1 DEF TypeOK
    <3> QED BY <1>0, <2>1, <2>4, <3>1, <3>2, WinnerOthers
  <2> QED BY <1>1, <2>2, <2>3, <2>4 DEF CallInv
<1>4. CASE InstallRevoked(c) \/ Fail(c)
  <2>1. /\ pc'[c] = "clear" /\ state' = [state EXCEPT ![l] = "Failed"]
        /\ evaluator' = evaluator /\ preparedA2BFull' = preparedA2BFull
        /\ operationMu' = operationMu /\ firstOperation' = firstOperation
    BY <1>0, <1>4 DEF InstallRevoked, Fail, TypeOK, Goto, payloadVars
  <2>2. LineageInv'
    BY <1>0, <1>5, <2>1 DEF TypeOK, LineageInv, Early
  <2>3. (PcOfOp(c) /\ StateOfCall(c))'
    BY <1>0, <2>1 DEF TypeOK, PcOfOp, StateOfCall, Phase, Won, StageOps,
       ArtifactOps, LockingOps, InstalledOps, FirstOps
  <2>4. EvaluatorOfCall(c)'
    BY <1>0, <2>1 DEF TypeOK, CallInv, EvaluatorOfCall, Stored, Won
  <2>5. ASSUME NEW d \in Call, d # c PROVE (PcOfOp(d) /\ StateOfCall(d) /\ EvaluatorOfCall(d))'
    <3>1. pc'[d] = pc[d] /\ job'[d] = job[d]
      BY <1>4, <2>5 DEF TypeOK, InstallRevoked, Fail, Goto
    <3>2. state'[l] # "Zero" /\ \A m \in Lineage : m # l => state'[m] = state[m]
      BY <1>0, <2>1 DEF TypeOK
    <3> QED BY <1>0, <2>1, <2>5, <3>1, <3>2, WinnerOthers
  <2> QED BY <1>1, <2>2, <2>3, <2>4, <2>5 DEF CallInv
<1> QED BY <1>2, <1>3, <1>4

\* A runner that leaves its prepared circuit holds operationMu, so that nobody
\* else looks at it before the operation is published or cleared.
LEMMA RunDeltaKeeps ==
  ASSUME IInv, NEW c \in Call, RunDelta(c)
  PROVE  CallInv' /\ PairInv' /\ LineageInv'
<1> USE DEF IInv
<1> DEFINE l == Lin(c)
<1>0. /\ pc[c] = "runDelta" /\ pc'[c] = "publish" /\ Op(c) \in FirstOps /\ l \in Lineage
      /\ state[l] = "Preflighting" /\ operationMu[l] = c /\ evaluator[l] = "available"
      /\ ~preparedA2BFull[l]
      /\ preparedA2BFull'[l] => Op(c) = "FirstA2BFull"
      /\ \A m \in Lineage : m # l => preparedA2BFull'[m] = preparedA2BFull[m]
      /\ UNCHANGED <<state, evaluator, firstOperation, operationMu, job>>
      /\ \A d \in Call : d # c => pc'[d] = pc[d]
  <2>1. pc[c] = "runDelta" /\ Op(c) \in FirstOps /\ l \in Lineage
    BY JobType DEF RunDelta, CallInv, PcOfOp
  <2>2. /\ state[l] = "Preflighting" /\ operationMu[l] = c /\ evaluator[l] = "available"
        /\ ~preparedA2BFull[l]
    BY <2>1 DEF CallInv, StateOfCall, EvaluatorOfCall, Stored, Phase, During, Won, InstalledOps,
                FirstOps
  <2> QED
    BY <2>1, <2>2 DEF RunDelta, Goto, TypeOK, lineageVars
<1>1. PairInv'
  BY <1>0 DEF PairInv, Op, Lin, Won
<1>2. LineageInv'
  <2>1. ASSUME NEW d \in Call, Stored(d) PROVE Stored(d)' /\ Lin(d)' = Lin(d)
    BY <1>0, <2>1 DEF Stored, Op, Lin
  <2>2. preparedA2BFull'[l] => Stored(c)' /\ Lin(c)' = l
    BY <1>0 DEF Stored, Op, Lin
  <2> QED BY <1>0, <2>1, <2>2 DEF LineageInv, Early
<1>3. (PcOfOp(c) /\ StateOfCall(c) /\ EvaluatorOfCall(c))'
  <2>1. PcOfOp(c)' /\ StateOfCall(c)'
    BY <1>0 DEF PcOfOp, StateOfCall, Phase, During, Won, StageOps, InstalledOps, FirstOps, Op, Lin
  <2>2. EvaluatorOfCall(c)'
    BY <1>0 DEF EvaluatorOfCall, Stored, Won, InstalledOps, FirstOps, Op, Lin
  <2> QED BY <2>1, <2>2
<1>4. ASSUME NEW d \in Call, d # c PROVE (PcOfOp(d) /\ StateOfCall(d) /\ EvaluatorOfCall(d))'
  <2>1. pc[c] \in Won /\ Op(c) \in InstalledOps /\ pc'[d] = pc[d] /\ job'[d] = job[d]
    BY <1>0, <1>4 DEF Won, InstalledOps
  <2> QED BY <1>0, <1>4, <2>1, WinnerOthers
<1> QED BY <1>1, <1>2, <1>3, <1>4 DEF CallInv

\* Retiring an evaluator under its free lock disturbs no running operation.
LEMMA RetireKeeps ==
  ASSUME IInv, NEW c \in Call, Retire(c)
  PROVE  CallInv' /\ PairInv' /\ LineageInv'
<1> USE DEF IInv
<1> DEFINE l == Lin(c)
<1>0. /\ pc[c] = "enter" /\ Op(c) = "Retire" /\ l \in Lineage /\ Return(c)
      /\ operationMu[l] = None /\ state' = state /\ firstOperation' = firstOperation
      /\ evaluator' = [evaluator EXCEPT ![l] = "retired"]
      /\ preparedA2BFull' = [preparedA2BFull EXCEPT ![l] = FALSE]
      /\ evaluator[l] \in {"available", "retired"}
  BY JobType DEF Retire, CallInv, EvaluatorOfCall, LockingOps, lineageVars
<1>1. PairInv'
  BY <1>0 DEF TypeOK, PairInv, Return, Op, Lin, Won
<1>2. LineageInv'
  <2>1. ASSUME NEW d \in Call, Stored(d) PROVE Stored(d)' /\ Lin(d)' = Lin(d)
    BY <1>0, <2>1 DEF TypeOK, Return, Stored, Op, Lin
  <2> QED BY <1>0, <2>1 DEF TypeOK, LineageInv
<1>3. (PcOfOp(c) /\ StateOfCall(c) /\ EvaluatorOfCall(c))'
  BY <1>0 DEF TypeOK, Return, PcOfOp, StateOfCall, EvaluatorOfCall, Won
<1>4. ASSUME NEW d \in Call, d # c PROVE (PcOfOp(d) /\ StateOfCall(d) /\ EvaluatorOfCall(d))'
  <2>1. pc'[d] = pc[d] /\ job'[d] = job[d]
    BY <1>0, <1>4 DEF TypeOK, Return
  <2>2. CASE pc[d] # "idle" /\ Lin(d) = l
    <3>1. /\ pc[d] \in Won => Op(d) # "Install"
          /\ Op(d) \in InstalledOps => pc[d] = "enter"
      BY <1>0, <2>2, LineageAssumption DEF CallInv, EvaluatorOfCall
    <3>2. Op(d) \notin FirstOps \/ pc[d] = "enter"
      BY <3>1 DEF InstalledOps
    <3>3. PcOfOp(d)' /\ StateOfCall(d)'
      BY <1>0, <2>1 DEF CallInv, PcOfOp, StateOfCall, Phase, Op, Lin
    <3> QED
      BY <1>0, <2>1, <2>2, <3>1, <3>2, <3>3 DEF TypeOK, EvaluatorOfCall, InstalledOps, Op, Lin, Won
  <2>3. CASE pc[d] = "idle" \/ Lin(d) # l
    <3>1. pc[d] # "idle" =>
            /\ state'[Lin(d)] = state[Lin(d)]
            /\ evaluator'[Lin(d)] = evaluator[Lin(d)]
            /\ firstOperation'[Lin(d)] = firstOperation[Lin(d)]
            /\ preparedA2BFull'[Lin(d)] => preparedA2BFull[Lin(d)]
            /\ operationMu[Lin(d)] = d => operationMu'[Lin(d)] = d
      BY <1>0, <1>4, <2>3, JobType DEF TypeOK, Return, Unlocked
    <3> QED BY <1>4, <2>1, <3>1, OthersKeep
  <2> QED BY <2>2, <2>3
<1> QED BY <1>1, <1>2, <1>3, <1>4 DEF CallInv

\* Every step preserves the inductive invariant.
LEMMA InductiveStep == IInv /\ [Next]_vars => IInv'
<1> SUFFICES ASSUME IInv, [Next]_vars PROVE CallInv' /\ PairInv' /\ LineageInv'
  BY TypeStep DEF IInv
<1>1. CASE UNCHANGED vars
  <2>1. CallInv'
    BY <1>1 DEF IInv, CallInv, PcOfOp, StateOfCall, EvaluatorOfCall, Stored, Phase, Op, Lin, vars
  <2>2. PairInv'
    BY <1>1 DEF IInv, PairInv, Op, Lin, vars
  <2>3. LineageInv'
    BY <1>1 DEF IInv, LineageInv, Stored, Op, Lin, vars
  <2> QED BY <2>1, <2>2, <2>3
<1>2. CASE Next
  <2> PICK c \in Call : Start(c) \/ Admission(c) \/ Work(c)
    BY <1>2 DEF Next
  <2>1. CASE Start(c)
    BY <2>1, StartKeeps
  <2>2. CASE Enter(c)
    BY <2>2, EnterKeeps
  <2>3. CASE Mint(c)
    BY <2>3, MintKeeps
  <2>4. CASE Cas(c)
    BY <2>4, CasKeeps
  <2>5. CASE Retire(c)
    BY <2>5, RetireKeeps
  <2>6. CASE Refuse(c) \/ SampleBlocked(c) \/ SampleExhausted(c) \/ PrepareFails(c)
             \/ RecheckFails(c) \/ CasLost(c)
    <3>1. /\ Return(c) /\ pc[c] \in Waiting
          /\ UNCHANGED <<state, evaluator, firstOperation, preparedA2BFull>>
      BY <2>6 DEF Refuse, SampleBlocked, SampleExhausted, PrepareFails, RecheckFails, CasLost,
                  lineageVars, payloadVars, Waiting
    <3> QED BY <3>1, ReturnKeeps
  <2>7. CASE SampleAdmitted(c) \/ Recheck(c) \/ Store(c) \/ Snapshot(c) \/ ConstructCTS(c)
             \/ DeltaAccepted(c) \/ Guard(c) \/ RunSupplemental(c) \/ RunPlain(c)
    <3> DEFINE to == pc'[c]
    <3>1. UNCHANGED <<state, evaluator, firstOperation, preparedA2BFull, operationMu, job>>
      BY <2>7 DEF SampleAdmitted, Recheck, Store, Snapshot, ConstructCTS, DeltaAccepted, Guard,
                  RunSupplemental, RunPlain, lineageVars, payloadVars
    <3>2. /\ pc[c] \in {"sample", "recheck", "store", "snapshot", "cts", "delta", "guard", "run"}
          /\ to \in {"mint", "recheck", "cas", "snapshot", "cts", "delta", "publish", "guard",
                     "assemble", "run", "runDelta"}
          /\ to \in Won => pc[c] \in Won
          /\ Goto(c, to)
      <4>1. CASE SampleAdmitted(c) \/ Recheck(c) \/ Store(c) \/ Guard(c)
        BY <4>1 DEF IInv, TypeOK, SampleAdmitted, Recheck, Store, Guard, Goto, Won
      <4>2. CASE Snapshot(c) \/ ConstructCTS(c) \/ DeltaAccepted(c)
        BY <4>2 DEF IInv, TypeOK, Snapshot, ConstructCTS, DeltaAccepted, Goto, Won
      <4>3. CASE RunSupplemental(c) \/ RunPlain(c)
        BY <4>3 DEF IInv, TypeOK, RunSupplemental, RunPlain, Goto, Won
      <4> QED BY <2>7, <4>1, <4>2, <4>3
    <3>3. PcOfOp(c)'
      <4>1. PcOfOp(c) /\ Op(c)' = Op(c) /\ Op(c) \in Ops
        BY <3>1, <3>2, JobType DEF IInv, CallInv, Op
      <4>2. CASE SampleAdmitted(c)
        BY <3>2, <4>1, <4>2 DEF IInv, TypeOK, SampleAdmitted, Goto, PcOfOp, Won, Ops
      <4>3. CASE Recheck(c) \/ Store(c) \/ Guard(c)
        BY <3>2, <4>1, <4>3 DEF IInv, TypeOK, Recheck, Store, Guard, Goto, PcOfOp, Won
      <4>4. CASE Snapshot(c) \/ ConstructCTS(c)
        BY <3>2, <4>1, <4>4 DEF IInv, TypeOK, Snapshot, ConstructCTS, Goto, PcOfOp, Won
      <4>5. CASE DeltaAccepted(c)
        BY <3>2, <4>1, <4>5 DEF IInv, TypeOK, DeltaAccepted, Goto, PcOfOp, Won, StageOps, ArtifactOps
      <4>6. CASE RunSupplemental(c) \/ RunPlain(c)
        BY <3>2, <4>1, <4>6 DEF IInv, TypeOK, RunSupplemental, RunPlain, Goto, PcOfOp, Won,
           InstalledOps, FirstOps
      <4> QED BY <2>7, <4>2, <4>3, <4>4, <4>5, <4>6
    <3> QED BY <3>1, <3>2, <3>3, MoveKeeps DEF Waiting, Won
  <2>8. CASE PublishBuild(c) \/ PublishReady(c) \/ InstallReturns(c) \/ PublishOperation(c) \/ Clear(c)
    BY <2>8, WinnerReturns
  <2>9. CASE Assemble(c) \/ InstallCell(c) \/ InstallRevoked(c) \/ Fail(c)
    BY <2>9, WinnerMoves
  <2>10. CASE RunDelta(c)
    BY <2>10, RunDeltaKeeps
  <2> QED
    BY <2>1, <2>2, <2>3, <2>4, <2>5, <2>6, <2>7, <2>8, <2>9, <2>10, Zenon DEF Admission, Work
<1> QED BY <1>1, <1>2

\* The initial states satisfy the inductive invariant.
LEMMA InductiveInit == Init => IInv
<1> SUFFICES ASSUME Init PROVE IInv
  OBVIOUS
<1>1. TypeOK
  BY LineageAssumption DEF Init, TypeOK, LineageState, ArtifactState, EvaluatorState
<1>2. CallInv /\ PairInv
  BY DEF Init, CallInv, PcOfOp, StateOfCall, EvaluatorOfCall, PairInv, Won
<1>3. LineageInv
  BY DEF Init, LineageInv
<1> QED BY <1>1, <1>2, <1>3 DEF IInv

\* The inductive invariant holds in every reachable state: the position of each
\* call agrees with the state, the evaluator and the lock of its lineage
\* (route_b_live_artifact.go, route_b_ready.go, route_b_install.go,
\* route_b_preflight.go).
THEOREM Inductive == Spec => []IInv
  BY InductiveInit, InductiveStep, PTL DEF Spec

\* At most one call works on a lineage, for any number of callers sharing any
\* copies of its handles: the four compare-and-swaps (and the evaluator that is
\* handed out only after Install's deferred guard) suffice.
THEOREM Exclusive == Spec => []ExclusiveTransition
<1>1. IInv => ExclusiveTransition
  BY DEF IInv, PairInv, ExclusiveTransition
<1> QED BY <1>1, Inductive, PTL

\* No evaluator is retired or cleared under a running operation, for any number
\* of callers of the installed operations and of Close: operationMu covers the
\* whole of both (route_b_preflight.go:188, route_b_experiment.go:221).
THEOREM RetireWaits == Spec => []NoRunAfterRetire
<1>1. IInv => NoRunAfterRetire
  BY DEF IInv, CallInv, EvaluatorOfCall, NoRunAfterRetire, Won
<1> QED BY <1>1, Inductive, PTL

\* A prepared circuit found under operationMu belongs to a live evaluator whose
\* first operation was the complete A2B (route_b_preflight.go:331): a circuit
\* stored before its operation is published is hidden by the lock.
THEOREM CircuitLive == Spec => []PreparedCircuitIsLive
<1>1. IInv => PreparedCircuitIsLive
  <2> SUFFICES ASSUME IInv, NEW l \in Lineage, operationMu[l] = None, preparedA2BFull[l]
               PROVE  evaluator[l] = "available" /\ firstOperation[l] = "FirstA2BFull"
    BY DEF PreparedCircuitIsLive
  <2>1. ASSUME NEW c \in Call, Stored(c), Lin(c) = l PROVE FALSE
    <3>1. operationMu[l] = c
      BY <2>1 DEF IInv, CallInv, EvaluatorOfCall, Stored, InstalledOps, FirstOps
    <3> QED BY <3>1, LineageAssumption
  <2> QED BY <2>1 DEF IInv, LineageInv
<1> QED BY <1>1, Inductive, PTL


----------------------------------------------------------------------------
(* The samples: the inductive invariant.                                   *)

\* The one-way order of the states; the last two alternate.
Rank(s) ==
  CASE s = "Zero"                -> 0
    [] s = "Authorized"          -> 1
    [] s = "Building"            -> 2
    [] s = "PrivateUninstalled"  -> 3
    [] s = "Readying"            -> 4
    [] s = "Ready"               -> 5
    [] s = "Installing"          -> 6
    [] s = "InstalledUnverified" -> 7
    [] s = "Failed"              -> 9
    [] OTHER                     -> 8

\* The call holds a sample it has not stored yet.
Pending(c) == pc[c] \in {"mint", "recheck", "cas", "store"} /\ Op(c) # "OperationalA2B"

PendingInv ==
  \A c \in Call :
    /\ pc[c] = "sample" \/ Pending(c) => job[c].auth = Owner[Lin(c)]
    /\ Pending(c) => ev[c] \in 1..generation[job[c].auth]
    /\ pc[c] = "cas" /\ Pending(c)
         => /\ Rank(state[Lin(c)]) >= Rank(From(Op(c)))
            /\ state[Lin(c)] = From(Op(c)) => ev[c] > lastConsumed[Lin(c)]
    /\ pc[c] = "store" => ev[c] > lastConsumed[Lin(c)]

ConsumedInv ==
  \A l \in Lineage : /\ lastConsumed[l] <= generation[Owner[l]]
                     /\ state[l] = "Zero" => lastConsumed[l] = 0

\* No sample is held twice, nor held and stored.
UniqueInv ==
  /\ \A c, d \in Call : c # d /\ Pending(c) /\ Pending(d) /\ job[c].auth = job[d].auth
                        => ev[c] # ev[d]
  /\ \A c \in Call, l \in Lineage : Pending(c) /\ Owner[l] = job[c].auth
                                    => ev[c] # lastConsumed[l]

EvidenceInv == PendingInv /\ ConsumedInv /\ UniqueInv /\ OneSampleOneTransition

----------------------------------------------------------------------------
(* States only advance.                                                    *)

\* What a call may do to the state of its lineage.
LEMMA StateSteps ==
  ASSUME IInv, NEW c \in Call, Start(c) \/ Admission(c) \/ Work(c)
  PROVE  \/ state' = state
         \/ pc[c] # "idle" /\ \E s \in LineageState :
              /\ state' = [state EXCEPT ![Lin(c)] = s]
              /\ Rank(s) >= Rank(state[Lin(c)])
<1> USE DEF IInv
<1>1. CASE Mint(c)
  <2>1. state[Lin(c)] = "Zero" /\ pc[c] = "mint"
    BY <1>1 DEF Mint, CallInv, PcOfOp, StateOfCall
  <2>2. state' = [state EXCEPT ![Lin(c)] = "Authorized"]
    BY <1>1 DEF Mint
  <2>3. Rank("Authorized") >= Rank("Zero") /\ "Authorized" \in LineageState
    BY DEF Rank, LineageState
  <2> QED BY <2>1, <2>2, <2>3
<1>2. CASE Cas(c)
  <2>1. Op(c) \in StageOps /\ pc[c] = "cas" /\ state[Lin(c)] = From(Op(c))
    BY <1>2 DEF Cas, CallInv, PcOfOp
  <2>2. Rank(During(Op(c))) >= Rank(From(Op(c))) /\ During(Op(c)) \in LineageState
    BY <2>1 DEF Rank, During, From, StageOps, ArtifactOps, InstalledOps, FirstOps, LineageState,
                Working
  <2> QED BY <1>2, <2>1, <2>2 DEF Cas
<1>3. CASE PublishBuild(c) \/ PublishReady(c) \/ PublishOperation(c) \/ InstallCell(c)
  <2>1. state[Lin(c)] = During(Op(c)) /\ pc[c] \in {"publish", "install"}
    BY <1>3 DEF PublishBuild, PublishReady, PublishOperation, InstallCell, CallInv, StateOfCall,
                Phase, Won
  <2>2. pc[c] = "install" => Op(c) = "Install"
    BY DEF CallInv, PcOfOp
  <2>3. CASE PublishBuild(c)
    <3>1. state[Lin(c)] = "Building" /\ state' = [state EXCEPT ![Lin(c)] = "PrivateUninstalled"]
      BY <2>1, <2>3 DEF PublishBuild, During
    <3>2. Rank("PrivateUninstalled") >= Rank("Building") /\ "PrivateUninstalled" \in LineageState
      BY DEF Rank, LineageState
    <3> QED BY <2>1, <3>1, <3>2
  <2>4. CASE PublishReady(c)
    <3>1. state[Lin(c)] = "Readying" /\ state' = [state EXCEPT ![Lin(c)] = "Ready"]
      BY <2>1, <2>4 DEF PublishReady, During
    <3>2. Rank("Ready") >= Rank("Readying") /\ "Ready" \in LineageState
      BY DEF Rank, LineageState
    <3> QED BY <2>1, <3>1, <3>2
  <2>5. CASE PublishOperation(c)
    <3>1. state[Lin(c)] = "Preflighting" /\ state' = [state EXCEPT ![Lin(c)] = "Operational"]
      BY <2>1, <2>5 DEF PublishOperation, During, InstalledOps, FirstOps
    <3>2. Rank("Operational") >= Rank("Preflighting") /\ "Operational" \in LineageState
      BY DEF Rank, LineageState
    <3> QED BY <2>1, <3>1, <3>2
  <2>6. CASE InstallCell(c)
    <3>1. state[Lin(c)] = "Installing" /\ state' = [state EXCEPT ![Lin(c)] = "InstalledUnverified"]
      BY <2>1, <2>2, <2>6 DEF InstallCell, During
    <3>2. Rank("InstalledUnverified") >= Rank("Installing") /\ "InstalledUnverified" \in LineageState
      BY DEF Rank, LineageState
    <3> QED BY <2>1, <3>1, <3>2
  <2> QED BY <1>3, <2>3, <2>4, <2>5, <2>6
<1>4. CASE InstallRevoked(c) \/ Fail(c)
  <2>1. pc[c] # "idle" /\ state' = [state EXCEPT ![Lin(c)] = "Failed"]
    BY <1>4 DEF InstallRevoked, Fail
  <2>2. Rank("Failed") >= Rank(state[Lin(c)])
    BY DEF Rank
  <2> QED BY <2>1, <2>2 DEF LineageState
<1>5. CASE Start(c) \/ Enter(c) \/ Refuse(c) \/ Retire(c) \/ SampleAdmitted(c) \/ SampleBlocked(c)
           \/ SampleExhausted(c) \/ PrepareFails(c) \/ Recheck(c) \/ RecheckFails(c) \/ CasLost(c)
           \/ Store(c)
  BY <1>5 DEF Start, Enter, Refuse, Retire, SampleAdmitted, SampleBlocked, SampleExhausted,
              PrepareFails, Recheck, RecheckFails, CasLost, Store, lineageVars
<1>6. CASE Snapshot(c) \/ ConstructCTS(c) \/ DeltaAccepted(c) \/ Guard(c) \/ Assemble(c)
           \/ InstallReturns(c) \/ RunSupplemental(c) \/ RunPlain(c) \/ RunDelta(c) \/ Clear(c)
  BY <1>6 DEF Snapshot, ConstructCTS, DeltaAccepted, Guard, Assemble, InstallReturns,
              RunSupplemental, RunPlain, RunDelta, Clear, lineageVars
<1> QED BY <1>1, <1>2, <1>3, <1>4, <1>5, <1>6, Zenon DEF Admission, Work

\* The rank of a state is a number.
LEMMA RankType == ASSUME NEW s PROVE Rank(s) \in 0..9
  BY DEF Rank

\* No step lowers the rank of a lineage: its states are never visited again by
\* a stage that consumes a sample.
LEMMA StatesAdvance ==
  ASSUME IInv, NEW c \in Call, Start(c) \/ Admission(c) \/ Work(c), NEW l \in Lineage
  PROVE  Rank(state'[l]) >= Rank(state[l])
<1>1. CASE state' = state
  BY <1>1, RankType
<1>2. CASE pc[c] # "idle" /\ \E s \in LineageState : /\ state' = [state EXCEPT ![Lin(c)] = s]
                                                     /\ Rank(s) >= Rank(state[Lin(c)])
  <2> PICK s \in LineageState : /\ state' = [state EXCEPT ![Lin(c)] = s]
                                /\ Rank(s) >= Rank(state[Lin(c)])
    BY <1>2
  <2>1. state'[l] = IF l = Lin(c) THEN s ELSE state[l]
    BY DEF IInv, TypeOK
  <2> QED BY <2>1, RankType
<1> QED BY <1>1, <1>2, StateSteps

\* No state a consuming stage starts from shares its rank with another state.
LEMMA FromRank ==
  ASSUME NEW op \in StageOps \ {"OperationalA2B"}, NEW s, Rank(s) = Rank(From(op)), s \in LineageState
  PROVE  s = From(op)
BY DEF Rank, From, StageOps, ArtifactOps, InstalledOps, FirstOps, LineageState, Working

----------------------------------------------------------------------------
(* Preservation.                                                           *)

\* Steps that store no sample and draw none for a call that goes on.
LEMMA EvidenceFrame ==
  ASSUME IInv, IInv', EvidenceInv,
         lastConsumed' = lastConsumed,
         \A a \in Authority : generation'[a] >= generation[a],
         \A l \in Lineage : Rank(state'[l]) >= Rank(state[l]),
         \A d \in Call : pc'[d] = "sample" => job'[d].auth = Owner[job'[d].lin],
         \A d \in Call : Pending(d)' => Pending(d) /\ ev'[d] = ev[d] /\ job'[d] = job[d],
         \A d \in Call : pc'[d] = "cas" /\ Pending(d)'
                           => \/ pc[d] = "cas"
                              \/ /\ Rank(state[Lin(d)]) >= Rank(From(Op(d)))
                                 /\ ev[d] > lastConsumed[Lin(d)],
         \A d \in Call : pc'[d] = "store" => pc[d] = "store" \/ ev[d] > lastConsumed[Lin(d)]
  PROVE  EvidenceInv'
<1> USE DEF EvidenceInv
<1>1. UniqueInv'
  BY DEF UniqueInv
<1>2. OneSampleOneTransition'
  BY DEF OneSampleOneTransition
<1>3. ConsumedInv'
  <2> SUFFICES ASSUME NEW l \in Lineage
               PROVE  /\ lastConsumed[l] <= generation'[Owner[l]]
                      /\ state'[l] = "Zero" => lastConsumed[l] = 0
    BY DEF ConsumedInv
  <2>1. Owner[l] \in Authority /\ lastConsumed[l] \in Nat /\ generation[Owner[l]] \in Int
        /\ generation'[Owner[l]] \in Int
    BY LineageAssumption DEF IInv, TypeOK
  <2>2. state'[l] = "Zero" => state[l] = "Zero"
    BY DEF Rank
  <2> QED BY <2>1, <2>2 DEF ConsumedInv
<1>4. PendingInv'
  <2> SUFFICES ASSUME NEW d \in Call
               PROVE  /\ pc'[d] = "sample" \/ Pending(d)' => job'[d].auth = Owner[Lin(d)']
                      /\ Pending(d)' => ev'[d] \in 1..generation'[job'[d].auth]
                      /\ pc'[d] = "cas" /\ Pending(d)'
                           => /\ Rank(state'[Lin(d)']) >= Rank(From(Op(d)'))
                              /\ state'[Lin(d)'] = From(Op(d)') => ev'[d] > lastConsumed'[Lin(d)']
                      /\ pc'[d] = "store" => ev'[d] > lastConsumed'[Lin(d)']
    BY Zenon DEF PendingInv
  <2>1. pc'[d] = "sample" \/ Pending(d)' => job'[d].auth = Owner[Lin(d)']
    BY DEF PendingInv, Lin
  <2>2. ASSUME Pending(d)' PROVE ev'[d] \in 1..generation'[job'[d].auth]
    <3>1. Pending(d) /\ ev'[d] = ev[d] /\ job'[d] = job[d] /\ pc[d] # "idle"
      BY <2>2 DEF Pending
    <3>2. job[d].auth \in Authority
      BY <3>1, JobType DEF IInv
    <3>3. generation[job[d].auth] \in Int /\ generation'[job[d].auth] \in Int
      BY <3>2 DEF IInv, TypeOK
    <3> QED BY <3>1, <3>2, <3>3 DEF PendingInv
  <2>3. ASSUME pc'[d] = "cas", Pending(d)'
        PROVE  /\ Rank(state'[Lin(d)']) >= Rank(From(Op(d)'))
               /\ state'[Lin(d)'] = From(Op(d)') => ev'[d] > lastConsumed'[Lin(d)']
    <3>1. Pending(d) /\ ev'[d] = ev[d] /\ job'[d] = job[d] /\ pc[d] # "idle"
      BY <2>3 DEF Pending
    <3>2. Lin(d) \in Lineage /\ Op(d) \in Ops /\ Lin(d)' = Lin(d) /\ Op(d)' = Op(d)
      BY <3>1, JobType DEF IInv, Lin, Op
    <3>3. Op(d) \in StageOps \ {"OperationalA2B"}
      BY <2>3, <3>2 DEF IInv, CallInv, PcOfOp, Pending
    <3>4. Rank(state[Lin(d)]) >= Rank(From(Op(d)))
      BY <2>3, <3>1 DEF PendingInv
    <3>5. Rank(state'[Lin(d)]) >= Rank(state[Lin(d)])
      BY <3>2
    <3>6. ASSUME state'[Lin(d)] = From(Op(d)) PROVE ev[d] > lastConsumed[Lin(d)]
      <4>1. Rank(state[Lin(d)]) = Rank(From(Op(d)))
        BY <3>4, <3>5, <3>6, RankType
      <4>2. state[Lin(d)] = From(Op(d))
        BY <3>2, <3>3, <4>1, FromRank DEF IInv, TypeOK
      <4> QED BY <2>3, <3>1, <4>2 DEF PendingInv
    <3>7. Rank(state'[Lin(d)]) >= Rank(From(Op(d)))
      BY <3>4, <3>5, RankType
    <3> QED BY <3>1, <3>2, <3>6, <3>7
  <2>4. ASSUME pc'[d] = "store" PROVE ev'[d] > lastConsumed'[Lin(d)']
    <3>1. Op(d)' # "OperationalA2B"
      BY <2>4 DEF IInv, CallInv, PcOfOp
    <3>2. ev'[d] = ev[d] /\ job'[d] = job[d]
      BY <2>4, <3>1 DEF Pending
    <3> QED BY <2>4, <3>2 DEF PendingInv, Lin
  <2> QED BY <2>1, <2>2, <2>3, <2>4
<1> QED BY <1>1, <1>2, <1>3, <1>4

\* The same, from what happens to the call that moves.
LEMMA EvidenceMove ==
  ASSUME IInv, IInv', EvidenceInv, NEW c \in Call, Start(c) \/ Admission(c) \/ Work(c),
         lastConsumed' = lastConsumed,
         \A a \in Authority : generation'[a] >= generation[a],
         \A d \in Call : d # c => pc'[d] = pc[d] /\ job'[d] = job[d] /\ ev'[d] = ev[d],
         pc'[c] = "sample" => job'[c].auth = Owner[job'[c].lin],
         Pending(c)' => Pending(c) /\ ev'[c] = ev[c] /\ job'[c] = job[c],
         pc'[c] = "cas" /\ Pending(c)' => /\ Rank(state[Lin(c)]) >= Rank(From(Op(c)))
                                          /\ ev[c] > lastConsumed[Lin(c)],
         pc'[c] = "store" => ev[c] > lastConsumed[Lin(c)]
  PROVE  EvidenceInv'
<1>1. \A l \in Lineage : Rank(state'[l]) >= Rank(state[l])
  BY StatesAdvance
<1>2. ASSUME NEW d \in Call
      PROVE  /\ pc'[d] = "sample" => job'[d].auth = Owner[job'[d].lin]
             /\ Pending(d)' => Pending(d) /\ ev'[d] = ev[d] /\ job'[d] = job[d]
             /\ pc'[d] = "cas" /\ Pending(d)'
                  => \/ pc[d] = "cas"
                     \/ /\ Rank(state[Lin(d)]) >= Rank(From(Op(d)))
                        /\ ev[d] > lastConsumed[Lin(d)]
             /\ pc'[d] = "store" => pc[d] = "store" \/ ev[d] > lastConsumed[Lin(d)]
  <2>1. CASE d = c
    BY <2>1
  <2>2. CASE d # c
    BY <2>2 DEF EvidenceInv, PendingInv, Pending, Op, Lin
  <2> QED BY <2>1, <2>2
<1> QED BY <1>1, <1>2, EvidenceFrame

\* Returns, refusals and blocked samples.
LEMMA EvidenceReturn ==
  ASSUME IInv, IInv', EvidenceInv, NEW c \in Call, Start(c) \/ Admission(c) \/ Work(c),
         Return(c), lastConsumed' = lastConsumed,
         \A a \in Authority : generation'[a] >= generation[a]
  PROVE  EvidenceInv'
<1>1. pc'[c] = "idle" /\ \A d \in Call : d # c => pc'[d] = pc[d] /\ job'[d] = job[d] /\ ev'[d] = ev[d]
  BY DEF IInv, TypeOK, Return
<1> QED BY <1>1, EvidenceMove DEF Pending

\* A call that draws a sample.
LEMMA EvidenceSample ==
  ASSUME IInv, IInv', EvidenceInv, NEW c \in Call, SampleAdmitted(c)
  PROVE  EvidenceInv'
<1> USE DEF EvidenceInv
<1> DEFINE a == job[c].auth
<1>0. /\ pc[c] = "sample" /\ pc'[c] \in {"mint", "recheck"} /\ a \in Authority
      /\ generation' = [generation EXCEPT ![a] = @ + 1] /\ generation[a] \in Nat
      /\ ev'[c] = generation[a] + 1 /\ job' = job /\ state' = state /\ lastConsumed' = lastConsumed
      /\ a = Owner[Lin(c)]
      /\ \A d \in Call : d # c => pc'[d] = pc[d] /\ ev'[d] = ev[d]
  BY JobType DEF IInv, TypeOK, SampleAdmitted, Goto, lineageVars, PendingInv
<1>1. \A b \in Authority : /\ generation[b] \in Nat /\ generation'[b] \in Nat
                           /\ generation'[b] >= generation[b]
                           /\ b = a => generation'[b] = generation[b] + 1
  BY <1>0 DEF IInv, TypeOK
<1>2. \A d \in Call : d # c => (Pending(d)' <=> Pending(d))
  BY <1>0 DEF Pending, Op
<1>3. ConsumedInv' /\ OneSampleOneTransition'
  <2>1. OneSampleOneTransition'
    BY <1>0 DEF OneSampleOneTransition
  <2>2. ASSUME NEW l \in Lineage PROVE lastConsumed'[l] <= generation'[Owner[l]]
    <3>1. Owner[l] \in Authority /\ lastConsumed[l] \in Nat
      BY LineageAssumption DEF IInv, TypeOK
    <3> QED BY <1>0, <1>1, <3>1 DEF ConsumedInv
  <2> QED BY <1>0, <2>1, <2>2 DEF ConsumedInv
<1>4. UniqueInv'
  <2>1. ASSUME NEW d \in Call, d # c, Pending(d), job[d].auth = a PROVE ev[d] < ev'[c]
    <3>1. ev[d] \in 1..generation[a]
      BY <2>1 DEF PendingInv
    <3> QED BY <1>0, <3>1
  <2>2. ASSUME NEW l \in Lineage, Owner[l] = a PROVE lastConsumed[l] < ev'[c]
    <3>1. lastConsumed[l] <= generation[a] /\ lastConsumed[l] \in Nat
      BY <2>2 DEF ConsumedInv, IInv, TypeOK
    <3> QED BY <1>0, <3>1
  <2>3. \A d \in Call : Pending(d) => ev[d] \in Nat
    BY DEF IInv, TypeOK
  <2>4. \A l \in Lineage : lastConsumed[l] \in Nat
    BY DEF IInv, TypeOK
  <2>5. ev'[c] \in Nat
    BY <1>0
  <2>6. ASSUME NEW d \in Call, NEW e \in Call, d # e, Pending(d)', Pending(e)',
               job'[d].auth = job'[e].auth
        PROVE  ev'[d] # ev'[e]
    BY <1>0, <1>2, <2>1, <2>3, <2>5, <2>6 DEF UniqueInv
  <2>7. ASSUME NEW d \in Call, NEW l \in Lineage, Pending(d)', Owner[l] = job'[d].auth
        PROVE  ev'[d] # lastConsumed'[l]
    BY <1>0, <1>2, <2>2, <2>4, <2>5, <2>7 DEF UniqueInv
  <2> QED BY <2>6, <2>7 DEF UniqueInv
<1>5. PendingInv'
  <2>1. ASSUME NEW d \in Call, d # c
        PROVE  /\ pc'[d] = "sample" \/ Pending(d)' => job'[d].auth = Owner[Lin(d)']
               /\ pc'[d] = "cas" /\ Pending(d)'
                    => /\ Rank(state'[Lin(d)']) >= Rank(From(Op(d)'))
                       /\ state'[Lin(d)'] = From(Op(d)') => ev'[d] > lastConsumed'[Lin(d)']
               /\ pc'[d] = "store" => ev'[d] > lastConsumed'[Lin(d)']
    BY <1>0, <1>2, <2>1 DEF PendingInv, Op, Lin
  <2>2. ASSUME NEW d \in Call, d # c, Pending(d)' PROVE ev'[d] \in 1..generation'[job'[d].auth]
    <3>1. Pending(d) /\ pc[d] # "idle"
      BY <1>2, <2>2 DEF Pending
    <3>2. job[d].auth \in Authority /\ ev[d] \in 1..generation[job[d].auth]
      BY <3>1, JobType DEF IInv, PendingInv
    <3> QED BY <1>0, <1>1, <2>2, <3>2
  <2>3. ev'[c] \in 1..generation'[job'[c].auth]
    BY <1>0, <1>1
  <2>4. job'[c].auth = Owner[Lin(c)'] /\ pc'[c] \notin {"cas", "store"}
    BY <1>0 DEF Lin
  <2>5. ASSUME NEW d \in Call PROVE Pending(d)' => ev'[d] \in 1..generation'[job'[d].auth]
    BY <2>2, <2>3
  <2> QED BY <2>1, <2>4, <2>5, Zenon DEF PendingInv
<1> QED BY <1>3, <1>4, <1>5

\* A call that stores its sample: Mint and the winner of a stage.
LEMMA EvidenceStore ==
  ASSUME IInv, IInv', EvidenceInv, NEW c \in Call, Mint(c) \/ Store(c)
  PROVE  EvidenceInv' /\ ev[c] > lastConsumed[Lin(c)]
<1> USE DEF EvidenceInv
<1> DEFINE l == Lin(c)
           a == job[c].auth
<1>0. /\ pc[c] \in {"mint", "store"} /\ pc'[c] \in {"idle", "snapshot"} /\ Pending(c)
      /\ l \in Lineage /\ a = Owner[l] /\ a \in Authority
      /\ lastConsumed' = [lastConsumed EXCEPT ![l] = ev[c]] /\ generation' = generation
      /\ ev[c] \in 1..generation[a]
      /\ \A d \in Call : d # c => pc'[d] = pc[d] /\ ev'[d] = ev[d] /\ job'[d] = job[d]
      /\ \A m \in Lineage : m # l => state'[m] = state[m]
  <2>1. pc[c] \in {"mint", "store"} /\ pc'[c] \in {"idle", "snapshot"}
    BY DEF IInv, TypeOK, Mint, Store, Return, Goto
  <2>2. Op(c) # "OperationalA2B"
    BY <2>1 DEF IInv, CallInv, PcOfOp
  <2>3. Pending(c) /\ l \in Lineage /\ a \in Authority
    BY <2>1, <2>2, JobType DEF Pending, IInv
  <2>4. a = Owner[l] /\ ev[c] \in 1..generation[a]
    BY <2>3 DEF PendingInv
  <2> QED
    BY <2>1, <2>3, <2>4 DEF IInv, TypeOK, Mint, Store, Return, Goto, authorityVars
<1>1. ev[c] > lastConsumed[l]
  <2>1. CASE Mint(c)
    <3>1. state[l] = "Zero"
      BY <1>0, <2>1 DEF Mint, IInv, CallInv, PcOfOp, StateOfCall
    <3> QED BY <1>0, <3>1 DEF ConsumedInv
  <2>2. CASE Store(c)
    BY <2>2 DEF Store, PendingInv
  <2> QED BY <2>1, <2>2
<1>2. ~Pending(c)' /\ \A d \in Call : d # c => (Pending(d)' <=> Pending(d))
  BY <1>0 DEF Pending, Op
<1>3. \A m \in Lineage : lastConsumed'[m] = IF m = l THEN ev[c] ELSE lastConsumed[m]
  BY <1>0 DEF IInv, TypeOK
<1>4. UniqueInv'
  <2>1. ASSUME NEW d \in Call, NEW e \in Call, d # e, Pending(d)', Pending(e)',
               job'[d].auth = job'[e].auth
        PROVE  ev'[d] # ev'[e]
    BY <1>0, <1>2, <2>1 DEF UniqueInv
  <2>2. ASSUME NEW d \in Call, NEW m \in Lineage, Pending(d)', Owner[m] = job'[d].auth
        PROVE  ev'[d] # lastConsumed'[m]
    BY <1>0, <1>2, <1>3, <2>2 DEF UniqueInv
  <2> QED BY <2>1, <2>2 DEF UniqueInv
<1>5. OneSampleOneTransition'
  <2> SUFFICES ASSUME NEW m \in Lineage, NEW n \in Lineage, m # n, Owner[m] = Owner[n],
                      lastConsumed'[m] # 0
               PROVE  lastConsumed'[m] # lastConsumed'[n]
    BY DEF OneSampleOneTransition
  <2> QED BY <1>0, <1>3 DEF UniqueInv, OneSampleOneTransition
<1>6. ConsumedInv'
  <2> SUFFICES ASSUME NEW m \in Lineage
               PROVE  /\ lastConsumed'[m] <= generation'[Owner[m]]
                      /\ state'[m] = "Zero" => lastConsumed'[m] = 0
    BY DEF ConsumedInv
  <2>1. CASE m # l
    BY <1>0, <1>3, <2>1 DEF ConsumedInv
  <2>2. CASE m = l
    <3>1. state'[l] # "Zero"
      <4>1. CASE Mint(c)
        BY <1>0, <4>1 DEF Mint, IInv, TypeOK
      <4>2. CASE Store(c)
        <5>1. state' = state /\ Op(c) # "AuthorizeBuild"
          BY <1>0, <4>2 DEF Store, IInv, CallInv, PcOfOp, StageOps, ArtifactOps, InstalledOps,
                            FirstOps, Won
        <5> QED BY <1>0, <5>1 DEF IInv, CallInv, StateOfCall
      <4> QED BY <4>1, <4>2
    <3> QED BY <1>0, <1>3, <2>2, <3>1
  <2> QED BY <2>1, <2>2
<1>7. PendingInv'
  <2> SUFFICES ASSUME NEW d \in Call, d # c
               PROVE  /\ pc'[d] = "sample" \/ Pending(d)' => job'[d].auth = Owner[Lin(d)']
                      /\ Pending(d)' => ev'[d] \in 1..generation'[job'[d].auth]
                      /\ pc'[d] = "cas" /\ Pending(d)'
                           => /\ Rank(state'[Lin(d)']) >= Rank(From(Op(d)'))
                              /\ state'[Lin(d)'] = From(Op(d)') => ev'[d] > lastConsumed'[Lin(d)']
                      /\ pc'[d] = "store" => ev'[d] > lastConsumed'[Lin(d)']
    BY <1>0, <1>2, Zenon DEF PendingInv
  <2>1. /\ pc'[d] = "sample" \/ Pending(d)' => job'[d].auth = Owner[Lin(d)']
        /\ Pending(d)' => ev'[d] \in 1..generation'[job'[d].auth]
    BY <1>0, <1>2 DEF PendingInv, Lin
  <2>2. pc'[d] = pc[d] /\ ev'[d] = ev[d] /\ Lin(d)' = Lin(d) /\ Op(d)' = Op(d)
    BY <1>0 DEF Lin, Op
  <2>3. CASE pc[d] \in {"cas", "store"} /\ Lin(d) # l
    <3>1. Lin(d) \in Lineage
      BY <2>3, JobType DEF IInv
    <3>2. state'[Lin(d)] = state[Lin(d)] /\ lastConsumed'[Lin(d)] = lastConsumed[Lin(d)]
      BY <1>0, <1>3, <2>3, <3>1
    <3> QED BY <1>2, <2>1, <2>2, <3>2 DEF PendingInv
  <2>4. CASE pc[d] \in {"cas", "store"} /\ Lin(d) = l
    <3>1. Store(c)
      <4> SUFFICES ASSUME Mint(c) PROVE FALSE
        OBVIOUS
      <4>1. Op(c) = "AuthorizeBuild" /\ pc[c] # "idle"
        BY DEF Mint, IInv, CallInv, PcOfOp
      <4> QED BY <2>4, <4>1 DEF IInv, PairInv
    <3>2. pc[d] # "store" /\ pc[d] = "cas"
      BY <2>4, <3>1 DEF Store, IInv, PairInv, Won
    <3>3. state' = state /\ state[l] = During(Op(c))
      BY <3>1 DEF Store, IInv, CallInv, StateOfCall, Phase, Won
    <3>4. During(Op(c)) # From(Op(d))
      BY DEF During, From
    <3> QED BY <1>2, <2>1, <2>2, <2>4, <3>2, <3>3, <3>4 DEF PendingInv
  <2>5. CASE pc[d] \notin {"cas", "store"}
    BY <2>1, <2>2, <2>5
  <2> QED BY <2>3, <2>4, <2>5
<1> QED BY <1>1, <1>4, <1>5, <1>6, <1>7

----------------------------------------------------------------------------
(* The theorems.                                                           *)

\* Every step preserves the evidence invariant and no step lowers a consumed
\* generation.
LEMMA EvidenceStep ==
  IInv /\ EvidenceInv /\ [Next]_vars
    => EvidenceInv' /\ \A l \in Lineage : lastConsumed'[l] >= lastConsumed[l]
<1> SUFFICES ASSUME IInv, EvidenceInv, [Next]_vars
             PROVE  EvidenceInv' /\ \A l \in Lineage : lastConsumed'[l] >= lastConsumed[l]
  OBVIOUS
<1>0. IInv' /\ \A l \in Lineage : lastConsumed[l] \in Nat
  BY InductiveStep DEF IInv, TypeOK
<1>1. CASE UNCHANGED vars
  <2>1. PendingInv' /\ ConsumedInv'
    BY <1>1 DEF EvidenceInv, PendingInv, ConsumedInv, Pending, Op, Lin, vars
  <2>2. UniqueInv' /\ OneSampleOneTransition'
    BY <1>1 DEF EvidenceInv, UniqueInv, OneSampleOneTransition, Pending, Op, Lin, vars
  <2> QED BY <1>0, <1>1, <2>1, <2>2 DEF EvidenceInv, vars
<1>2. CASE Next
  <2> PICK c \in Call : Start(c) \/ Admission(c) \/ Work(c)
    BY <1>2 DEF Next
  <2>1. CASE SampleAdmitted(c)
    <3>1. lastConsumed' = lastConsumed
      BY <2>1 DEF SampleAdmitted, lineageVars
    <3>2. EvidenceInv'
      BY <1>0, <2>1, EvidenceSample
    <3> QED BY <1>0, <3>1, <3>2
  <2>2. CASE Mint(c) \/ Store(c)
    <3>1. EvidenceInv' /\ ev[c] > lastConsumed[Lin(c)]
      BY <1>0, <2>2, EvidenceStore
    <3>2. lastConsumed' = [lastConsumed EXCEPT ![Lin(c)] = ev[c]] /\ ev[c] \in Nat
      BY <2>2 DEF Mint, Store, IInv, TypeOK
    <3>3. \A l \in Lineage : lastConsumed'[l] = IF l = Lin(c) THEN ev[c] ELSE lastConsumed[l]
      BY <3>2 DEF IInv, TypeOK
    <3> QED BY <1>0, <3>1, <3>2, <3>3
  <2>3. CASE SampleBlocked(c)
    <3>1. Return(c) /\ lastConsumed' = lastConsumed
      BY <2>3 DEF SampleBlocked, lineageVars
    <3>2. \A a \in Authority : generation'[a] >= generation[a]
      BY <2>3 DEF SampleBlocked, IInv, TypeOK
    <3> QED BY <1>0, <3>1, <3>2, EvidenceReturn
  <2>4. CASE Refuse(c) \/ SampleExhausted(c) \/ PrepareFails(c) \/ RecheckFails(c) \/ CasLost(c)
             \/ Retire(c) \/ PublishBuild(c) \/ PublishReady(c) \/ InstallReturns(c)
             \/ PublishOperation(c) \/ Clear(c)
    <3>1. Return(c) /\ lastConsumed' = lastConsumed /\ generation' = generation
      BY <2>4 DEF Refuse, SampleExhausted, PrepareFails, RecheckFails, CasLost, Retire,
                  PublishBuild, PublishReady, InstallReturns, PublishOperation, Clear,
                  authorityVars, lineageVars
    <3>2. \A a \in Authority : generation'[a] >= generation[a]
      BY <3>1 DEF IInv, TypeOK
    <3> QED BY <1>0, <3>1, <3>2, EvidenceReturn
  <2>5. CASE Start(c) \/ Enter(c) \/ Recheck(c) \/ Cas(c)
    <3>1. /\ lastConsumed' = lastConsumed /\ generation' = generation /\ ev' = ev
          /\ \A d \in Call : d # c => pc'[d] = pc[d] /\ job'[d] = job[d]
      BY <2>5 DEF Start, Enter, Recheck, Cas, Goto, authorityVars, lineageVars, IInv, TypeOK
    <3>2. \A a \in Authority : generation'[a] >= generation[a]
      BY <3>1 DEF IInv, TypeOK
    <3>3. CASE Start(c)
      <4>1. /\ pc'[c] \in {"sample", "enter"}
            /\ pc'[c] = "sample" => job'[c].auth = Owner[job'[c].lin]
        BY <3>3 DEF Start, Callable, Goto, IInv, TypeOK
      <4> QED BY <1>0, <3>1, <3>2, <4>1, EvidenceMove DEF Pending
    <3>4. CASE Enter(c)
      <4>1. /\ pc'[c] \in {"sample", "cas"} /\ job' = job
            /\ pc'[c] = "cas" => Op(c) = "OperationalA2B"
            /\ job[c].auth = Owner[Lin(c)]
        BY <3>4 DEF Enter, Valid, Goto, IInv, TypeOK
      <4>2. ~Pending(c)'
        BY <4>1 DEF Pending, Op
      <4> QED BY <1>0, <3>1, <3>2, <4>1, <4>2, EvidenceMove DEF Lin
    <3>5. CASE Recheck(c)
      <4>1. /\ pc[c] = "recheck" /\ pc'[c] = "cas" /\ job' = job
            /\ state[Lin(c)] = From(Op(c)) /\ ev[c] > lastConsumed[Lin(c)]
        BY <3>5 DEF Recheck, Valid, Fresh, Goto, IInv, TypeOK
      <4>2. Rank(state[Lin(c)]) >= Rank(From(Op(c)))
        BY <4>1, RankType
      <4>3. Pending(c)' => Pending(c)
        BY <4>1 DEF Pending, Op
      <4> QED BY <1>0, <3>1, <3>2, <4>1, <4>2, <4>3, EvidenceMove
    <3>6. CASE Cas(c)
      <4>1. /\ pc[c] = "cas" /\ pc'[c] \in {"store", "run"} /\ job' = job
            /\ pc'[c] = "store" => Op(c) # "OperationalA2B"
            /\ state[Lin(c)] = From(Op(c))
        BY <3>6 DEF Cas, Goto, IInv, TypeOK
      <4>2. Pending(c)' => Pending(c)
        BY <4>1 DEF Pending, Op
      <4>3. pc'[c] = "store" => ev[c] > lastConsumed[Lin(c)]
        BY <4>1 DEF EvidenceInv, PendingInv, Pending
      <4> QED BY <1>0, <3>1, <3>2, <4>1, <4>2, <4>3, EvidenceMove
    <3>7. EvidenceInv'
      BY <2>5, <3>3, <3>4, <3>5, <3>6
    <3> QED BY <1>0, <3>1, <3>7
  <2>6. CASE Snapshot(c) \/ ConstructCTS(c) \/ DeltaAccepted(c) \/ Guard(c) \/ Assemble(c)
             \/ InstallCell(c) \/ InstallRevoked(c) \/ RunSupplemental(c) \/ RunPlain(c)
             \/ RunDelta(c) \/ Fail(c)
    <3>1. /\ lastConsumed' = lastConsumed /\ generation' = generation /\ ev' = ev /\ job' = job
      BY <2>6 DEF Snapshot, ConstructCTS, DeltaAccepted, Guard, Assemble, InstallCell,
                  InstallRevoked, RunSupplemental, RunPlain, RunDelta, Fail,
                  authorityVars, lineageVars
    <3>2. /\ pc'[c] \in {"cts", "delta", "publish", "guard", "run", "assemble", "install",
                         "deferred", "clear", "runDelta"}
          /\ \A d \in Call : d # c => pc'[d] = pc[d]
      BY <2>6 DEF Snapshot, ConstructCTS, DeltaAccepted, Guard, Assemble, InstallCell,
                  InstallRevoked, RunSupplemental, RunPlain, RunDelta, Fail, Goto, IInv, TypeOK
    <3>3. \A a \in Authority : generation'[a] >= generation[a]
      BY <3>1 DEF IInv, TypeOK
    <3> QED BY <1>0, <3>1, <3>2, <3>3, EvidenceMove DEF Pending
  <2> QED
    BY <2>1, <2>2, <2>3, <2>4, <2>5, <2>6, Zenon DEF Admission, Work
<1> QED BY <1>1, <1>2

\* The initial states satisfy the evidence invariant.
LEMMA EvidenceInit == Init => EvidenceInv
<1> SUFFICES ASSUME Init PROVE EvidenceInv
  OBVIOUS
<1>1. \A l \in Lineage : generation[Owner[l]] = 0
  BY LineageAssumption DEF Init
<1>2. PendingInv
  BY DEF Init, PendingInv, Pending
<1>3. ConsumedInv /\ OneSampleOneTransition
  BY <1>1 DEF Init, ConsumedInv, OneSampleOneTransition
<1>4. UniqueInv
  BY DEF Init, UniqueInv, Pending
<1> QED BY <1>2, <1>3, <1>4 DEF EvidenceInv

\* Every sample is drawn once, held by one call and stored by at most one
\* lineage, and a call about to win holds a newer one than its lineage rests on
\* (route_b_authority.go:215, consumeCapacityCapability).
THEOREM Evidence == Spec => [](IInv /\ EvidenceInv)
<1>1. Init => IInv /\ EvidenceInv
  BY InductiveInit, EvidenceInit
<1>2. IInv /\ EvidenceInv /\ [Next]_vars => (IInv /\ EvidenceInv)'
  BY InductiveStep, EvidenceStep
<1> QED BY <1>1, <1>2, PTL DEF Spec

\* Two lineages of one authority never rest on the same capacity sample, for
\* any number of lineages and callers.
THEOREM OneSample == Spec => []OneSampleOneTransition
<1>1. EvidenceInv => OneSampleOneTransition
  BY DEF EvidenceInv
<1> QED BY <1>1, Evidence, PTL

\* The consumed generation of a lineage only grows although it is stored after
\* the compare-and-swap (route_b_live_artifact.go:253, route_b_ready.go:134,
\* route_b_install.go:135, route_b_preflight.go:252).
THEOREM Advances == Spec => EvidenceAdvances
<1>1. IInv /\ EvidenceInv /\ [Next]_vars => \A l \in Lineage : lastConsumed'[l] >= lastConsumed[l]
  BY EvidenceStep
<1> QED BY <1>1, Evidence, PTL DEF Spec, EvidenceAdvances

----------------------------------------------------------------------------
(* The payload.                                                            *)

\* Past its first validation a stage works with the artifact of its lineage.
BoundOf(c) ==
  pc[c] \notin {"idle", "enter"} /\ Op(c) \in ArtifactOps => job[c].art = Lin(c)

\* What a call that clears up has left to clear.
ClearOf(c) ==
  pc[c] = "clear" =>
    /\ Op(c) = "BeginBuild" => artifact[Lin(c)] = "none"
    /\ Op(c) \in {"BeginBuild", "AuthorizeReady"} => evaluator[Lin(c)] = "none"
    /\ Op(c) \in InstalledOps => artifact[Lin(c)] = "released"

Unbuilt   == {"Zero", "Authorized", "Building"}
Delivered == {"InstalledUnverified", "Preflighting", "Operational"}

Empty(l) == artifact[l] \in {"none", "released"} /\ evaluator[l] \in {"none", "retired"}
Clears(c, l) == pc[c] = "clear" /\ Lin(c) = l

ArtifactOf(l) ==
  /\ artifact[l] = "resident" => evaluator[l] = "none"
  /\ state[l] \in Unbuilt => artifact[l] = "none"
  /\ state[l] \in Delivered => artifact[l] = "released"
  /\ state[l] = "Failed" => Empty(l) \/ \E c \in Call : Clears(c, l)

PayloadInv == /\ \A c \in Call : BoundOf(c) /\ ClearOf(c)
              /\ \A l \in Lineage : ArtifactOf(l)

\* A call that leaves states and payloads alone.
LEMMA PayloadStill ==
  ASSUME PayloadInv, NEW c \in Call, UNCHANGED <<state, artifact, evaluator>>,
         \A d \in Call : d # c => pc'[d] = pc[d] /\ job'[d] = job[d],
         pc[c] # "clear", pc'[c] # "clear", BoundOf(c)'
  PROVE  PayloadInv'
<1>1. ASSUME NEW d \in Call PROVE BoundOf(d)' /\ ClearOf(d)'
  <2>1. CASE d = c
    BY <2>1 DEF ClearOf
  <2>2. CASE d # c
    BY <2>2 DEF PayloadInv, BoundOf, ClearOf, Op, Lin
  <2> QED BY <2>1, <2>2
<1>2. ASSUME NEW l \in Lineage PROVE ArtifactOf(l)'
  <2>1. \A d \in Call : Clears(d, l) => Clears(d, l)'
    BY DEF Clears, Lin
  <2> QED BY <2>1 DEF PayloadInv, ArtifactOf, Empty
<1> QED BY <1>1, <1>2 DEF PayloadInv

\* A call that works on a lineage nobody else is clearing.
LEMMA PayloadAlone ==
  ASSUME IInv, PayloadInv, NEW c \in Call, NEW l \in Lineage,
         \A d \in Call : d # c => pc'[d] = pc[d] /\ job'[d] = job[d],
         \A m \in Lineage : m # l => /\ state'[m] = state[m]
                                     /\ artifact'[m] = artifact[m]
                                     /\ evaluator'[m] = evaluator[m],
         \A d \in Call : d # c => ~Clears(d, l),
         pc[c] = "clear" => Lin(c) = l,
         BoundOf(c)', ClearOf(c)', ArtifactOf(l)'
  PROVE  PayloadInv'
<1>1. ASSUME NEW d \in Call PROVE BoundOf(d)' /\ ClearOf(d)'
  <2>1. CASE d = c
    BY <2>1
  <2>2. CASE d # c
    <3>1. pc[d] = "clear" => Lin(d) # l /\ Lin(d) \in Lineage
      BY <2>2, JobType DEF Clears, IInv
    <3> QED BY <2>2, <3>1 DEF PayloadInv, BoundOf, ClearOf, Op, Lin
  <2> QED BY <2>1, <2>2
<1>2. ASSUME NEW m \in Lineage PROVE ArtifactOf(m)'
  <2>1. CASE m = l
    BY <2>1
  <2>2. CASE m # l
    <3>1. \A d \in Call : Clears(d, m) => Clears(d, m)'
      BY <2>2 DEF Clears, Lin
    <3> QED BY <2>2, <3>1 DEF PayloadInv, ArtifactOf, Empty
  <2> QED BY <2>1, <2>2
<1> QED BY <1>1, <1>2 DEF PayloadInv

\* A winner, like a mint, meets nobody who clears up on its lineage, and what it
\* finds there follows from its method.
LEMMA WinnerFacts ==
  ASSUME IInv, PayloadInv, NEW c \in Call, pc[c] \in Won
  PROVE  /\ Lin(c) \in Lineage /\ Op(c) \in StageOps /\ state[Lin(c)] = Phase(c)
         /\ \A d \in Call : d # c => ~Clears(d, Lin(c))
         /\ Op(c) \in ArtifactOps => job[c].art = Lin(c)
         /\ pc[c] \notin {"deferred", "clear"} =>
              /\ Op(c) = "BeginBuild" => artifact[Lin(c)] = "none" /\ evaluator[Lin(c)] = "none"
              /\ Op(c) = "AuthorizeReady" => evaluator[Lin(c)] = "none"
              /\ Op(c) \in InstalledOps => artifact[Lin(c)] = "released"
<1> USE DEF IInv
<1>1. Lin(c) \in Lineage /\ Op(c) \in StageOps /\ state[Lin(c)] = Phase(c)
  BY JobType DEF CallInv, PcOfOp, StateOfCall, Won
<1>2. \A d \in Call : d # c => ~Clears(d, Lin(c))
  BY DEF PairInv, Clears, Won
<1>3. Op(c) \in ArtifactOps => job[c].art = Lin(c)
  BY DEF PayloadInv, BoundOf, Won
<1>4. CASE pc[c] \notin {"deferred", "clear"}
  <2>1. state[Lin(c)] = During(Op(c))
    BY <1>1, <1>4 DEF Phase
  <2> QED
    BY <1>1, <1>2, <1>3, <2>1 DEF PayloadInv, ArtifactOf, LineageInv, During, Unbuilt, Delivered,
       Early, InstalledOps, FirstOps
<1> QED BY <1>1, <1>2, <1>3, <1>4

\* A step moves one call.
LEMMA OthersStay ==
  ASSUME TypeOK, NEW c \in Call, Start(c) \/ Admission(c) \/ Work(c), NEW d \in Call, d # c
  PROVE  pc'[d] = pc[d] /\ job'[d] = job[d]
<1>1. CASE Start(c)
  BY <1>1 DEF TypeOK, Start, Goto
<1>2. CASE Enter(c) \/ Refuse(c) \/ Retire(c) \/ SampleAdmitted(c) \/ SampleBlocked(c)
           \/ SampleExhausted(c) \/ Mint(c)
  BY <1>2 DEF TypeOK, Enter, Refuse, Retire, SampleAdmitted, SampleBlocked, SampleExhausted, Mint,
              Goto, Return
<1>3. CASE PrepareFails(c) \/ Recheck(c) \/ RecheckFails(c) \/ Cas(c) \/ CasLost(c) \/ Store(c)
  BY <1>3 DEF TypeOK, PrepareFails, Recheck, RecheckFails, Cas, CasLost, Store, Goto, Return
<1>4. CASE Snapshot(c) \/ ConstructCTS(c) \/ DeltaAccepted(c) \/ PublishBuild(c)
           \/ PublishReady(c) \/ Guard(c) \/ Assemble(c) \/ InstallCell(c)
  BY <1>4 DEF TypeOK, Snapshot, ConstructCTS, DeltaAccepted, PublishBuild, PublishReady, Guard,
              Assemble, InstallCell, Goto, Return
<1>5. CASE InstallReturns(c) \/ InstallRevoked(c) \/ RunSupplemental(c) \/ RunPlain(c)
           \/ RunDelta(c) \/ PublishOperation(c) \/ Fail(c) \/ Clear(c)
  BY <1>5 DEF TypeOK, InstallReturns, InstallRevoked, RunSupplemental, RunPlain, RunDelta,
              PublishOperation, Fail, Clear, Goto, Return
<1> QED BY <1>1, <1>2, <1>3, <1>4, <1>5, Zenon DEF Admission, Work

\* Steps that only move the call on.
LEMMA PayloadMoves ==
  ASSUME IInv, PayloadInv, NEW c \in Call,
         \/ Start(c) \/ Enter(c) \/ Refuse(c) \/ SampleAdmitted(c) \/ SampleBlocked(c)
         \/ SampleExhausted(c) \/ PrepareFails(c) \/ Recheck(c) \/ RecheckFails(c) \/ CasLost(c)
         \/ Store(c) \/ Snapshot(c) \/ ConstructCTS(c) \/ DeltaAccepted(c) \/ Guard(c)
         \/ RunSupplemental(c) \/ RunPlain(c) \/ RunDelta(c)
  PROVE  PayloadInv' /\ artifact' = artifact
<1> USE DEF IInv
<1>0. \A d \in Call : d # c => pc'[d] = pc[d] /\ job'[d] = job[d]
  BY OthersStay DEF Admission, Work
<1>1. CASE Start(c)
  <2>1. /\ UNCHANGED <<state, artifact, evaluator>>
        /\ pc[c] = "idle" /\ pc'[c] \in {"sample", "enter"}
        /\ pc'[c] = "sample" => job'[c].op = "AuthorizeBuild"
    BY <1>1 DEF Start, Goto, TypeOK, lineageVars, payloadVars
  <2>2. BoundOf(c)'
    BY <2>1 DEF BoundOf, Op, ArtifactOps
  <2> QED BY <1>0, <2>1, <2>2, PayloadStill
<1>2. CASE Enter(c)
  <2>1. /\ UNCHANGED <<state, artifact, evaluator, job>>
        /\ pc[c] = "enter" /\ pc'[c] \in {"sample", "cas"}
        /\ Op(c) \in ArtifactOps => job[c].art = Lin(c)
    BY <1>2 DEF Enter, Valid, ArtifactBound, Goto, TypeOK, lineageVars, payloadVars
  <2>2. BoundOf(c)'
    BY <2>1 DEF BoundOf, Op, Lin
  <2> QED BY <1>0, <2>1, <2>2, PayloadStill
<1>3. CASE Refuse(c) \/ SampleBlocked(c) \/ SampleExhausted(c) \/ PrepareFails(c)
           \/ RecheckFails(c) \/ CasLost(c)
  <2>1. /\ UNCHANGED <<state, artifact, evaluator>>
        /\ pc[c] # "clear" /\ pc'[c] = "idle"
    BY <1>3 DEF Refuse, SampleBlocked, SampleExhausted, PrepareFails, RecheckFails, CasLost, Return,
                TypeOK, lineageVars, payloadVars
  <2>2. BoundOf(c)'
    BY <2>1 DEF BoundOf
  <2> QED BY <1>0, <2>1, <2>2, PayloadStill
<1>4. CASE SampleAdmitted(c) \/ Recheck(c) \/ Store(c) \/ Snapshot(c) \/ ConstructCTS(c)
           \/ DeltaAccepted(c) \/ Guard(c) \/ RunSupplemental(c) \/ RunPlain(c) \/ RunDelta(c)
  <2>1. /\ UNCHANGED <<state, artifact, evaluator, job>>
        /\ pc[c] \notin {"idle", "enter", "clear"}
    BY <1>4 DEF SampleAdmitted, Recheck, Store, Snapshot, ConstructCTS, DeltaAccepted, Guard,
                RunSupplemental, RunPlain, RunDelta, lineageVars, payloadVars
  <2>2. pc'[c] # "clear"
    BY <1>4 DEF SampleAdmitted, Recheck, Store, Snapshot, ConstructCTS, DeltaAccepted, Guard,
                RunSupplemental, RunPlain, RunDelta, Goto, TypeOK
  <2>3. BoundOf(c)'
    BY <2>1 DEF BoundOf, PayloadInv, Op, Lin
  <2> QED BY <1>0, <2>1, <2>2, <2>3, PayloadStill
<1> QED BY <1>1, <1>2, <1>3, <1>4

\* A mint and a won compare-and-swap: the lineage is in nobody's hands yet.
LEMMA PayloadAdmits ==
  ASSUME IInv, PayloadInv, NEW c \in Call, Mint(c) \/ Cas(c)
  PROVE  PayloadInv' /\ artifact' = artifact
<1> USE DEF IInv
<1> PICK l \in Lineage : l = Lin(c)
  BY JobType DEF Mint, Cas
<1>0. /\ \A d \in Call : d # c => pc'[d] = pc[d] /\ job'[d] = job[d]
      /\ pc[c] # "clear" /\ pc[c] \notin {"idle", "enter"}
      /\ UNCHANGED <<artifact, evaluator>>
  BY OthersStay, JobType DEF Mint, Cas, payloadVars, Admission
<1>1. CASE Mint(c)
  <2>1. /\ state[l] = "Zero" /\ state' = [state EXCEPT ![l] = "Authorized"] /\ pc'[c] = "idle"
    BY <1>1 DEF Mint, CallInv, PcOfOp, StateOfCall, Return, TypeOK
  <2>2. \A d \in Call : ~Clears(d, l)
    BY <1>0, <2>1 DEF Clears, CallInv, StateOfCall, Phase, Won
  <2>3. ArtifactOf(l)'
    BY <1>0, <2>1 DEF PayloadInv, ArtifactOf, Unbuilt, Delivered, TypeOK
  <2>4. BoundOf(c)' /\ ClearOf(c)'
    BY <2>1 DEF BoundOf, ClearOf
  <2> QED BY <1>0, <2>1, <2>2, <2>3, <2>4, PayloadAlone DEF TypeOK
<1>2. CASE Cas(c)
  <2>1. /\ state[l] = From(Op(c)) /\ state' = [state EXCEPT ![l] = During(Op(c))] /\ job' = job
        /\ pc'[c] \in {"store", "run"}
    BY <1>2 DEF Cas, Goto, TypeOK
  <2>2. Op(c) \in StageOps
    BY <1>2 DEF Cas, CallInv, PcOfOp
  <2>3. state[l] # "Failed"
    BY <2>1 DEF From
  <2>4. \A d \in Call : ~Clears(d, l)
    BY <2>3 DEF Clears, CallInv, StateOfCall, Phase, Won
  <2>5. ArtifactOf(l)'
    <3>1. /\ During(Op(c)) \in Unbuilt => From(Op(c)) \in Unbuilt
          /\ During(Op(c)) \in Delivered => From(Op(c)) \in Delivered
          /\ During(Op(c)) # "Failed"
      BY <2>2 DEF During, From, Unbuilt, Delivered, StageOps, ArtifactOps, InstalledOps, FirstOps
    <3>2. state'[l] = During(Op(c))
      BY <1>0, <2>1 DEF TypeOK
    <3> QED BY <1>0, <2>1, <3>1, <3>2 DEF PayloadInv, ArtifactOf
  <2>6. BoundOf(c)' /\ ClearOf(c)'
    BY <1>0, <2>1 DEF BoundOf, ClearOf, PayloadInv, Op, Lin
  <2> QED BY <1>0, <2>1, <2>4, <2>5, <2>6, PayloadAlone DEF TypeOK
<1> QED BY <1>0, <1>1, <1>2

\* The work of a winner, its failure and its cleanup.
LEMMA PayloadWorks ==
  ASSUME IInv, PayloadInv, NEW c \in Call,
         \/ PublishBuild(c) \/ PublishReady(c) \/ PublishOperation(c) \/ Assemble(c)
         \/ InstallCell(c) \/ InstallReturns(c) \/ InstallRevoked(c) \/ Fail(c) \/ Clear(c)
  PROVE  /\ PayloadInv'
         /\ pc[c] \in Won
         /\ \A m \in Lineage : artifact'[m] # artifact[m] => Lin(c) = m
<1> USE DEF IInv
<1> PICK l \in Lineage : l = Lin(c)
  BY JobType DEF PublishBuild, PublishReady, PublishOperation, Assemble, InstallCell, InstallReturns,
                 InstallRevoked, Fail, Clear
<1>0. /\ \A d \in Call : d # c => pc'[d] = pc[d] /\ job'[d] = job[d]
      /\ pc[c] \in Won
  <2>1. pc[c] \in Won
    BY DEF PublishBuild, PublishReady, PublishOperation, Assemble, InstallCell, InstallReturns,
           InstallRevoked, Fail, Clear, Won
  <2> QED BY <2>1, OthersStay DEF Work
<1>w. /\ Op(c) \in StageOps /\ state[l] = Phase(c)
      /\ \A d \in Call : d # c => ~Clears(d, l)
      /\ Op(c) \in ArtifactOps => job[c].art = l
      /\ pc[c] \notin {"deferred", "clear"} =>
           /\ Op(c) = "BeginBuild" => artifact[l] = "none" /\ evaluator[l] = "none"
           /\ Op(c) = "AuthorizeReady" => evaluator[l] = "none"
           /\ Op(c) \in InstalledOps => artifact[l] = "released"
  BY <1>0, WinnerFacts
<1>1. CASE PublishBuild(c)
  <2>1. /\ artifact' = [artifact EXCEPT ![l] = "resident"] /\ evaluator' = evaluator
        /\ state' = [state EXCEPT ![l] = "PrivateUninstalled"] /\ pc'[c] = "idle"
        /\ evaluator[l] = "none"
    BY <1>1, <1>w DEF PublishBuild, Return, TypeOK
  <2>2. ArtifactOf(l)'
    BY <1>w, <2>1 DEF ArtifactOf, Unbuilt, Delivered, TypeOK
  <2>3. BoundOf(c)' /\ ClearOf(c)'
    BY <2>1 DEF BoundOf, ClearOf
  <2>4. pc[c] # "clear"
    BY <1>1 DEF PublishBuild
  <2> QED BY <1>0, <1>w, <2>1, <2>2, <2>3, <2>4, PayloadAlone DEF TypeOK
<1>2. CASE PublishReady(c)
  <2>1. /\ UNCHANGED <<artifact, evaluator>>
        /\ state' = [state EXCEPT ![l] = "Ready"] /\ pc'[c] = "idle" /\ pc[c] = "publish"
    BY <1>2 DEF PublishReady, Return, TypeOK, payloadVars
  <2>2. ArtifactOf(l)'
    BY <1>w, <2>1 DEF ArtifactOf, PayloadInv, Unbuilt, Delivered, TypeOK
  <2>3. BoundOf(c)' /\ ClearOf(c)'
    BY <2>1 DEF BoundOf, ClearOf
  <2> QED BY <1>0, <1>w, <2>1, <2>2, <2>3, PayloadAlone DEF TypeOK
<1>3. CASE PublishOperation(c)
  <2>1. /\ UNCHANGED <<artifact, evaluator>> /\ Op(c) \in InstalledOps
        /\ state' = [state EXCEPT ![l] = "Operational"] /\ pc'[c] = "idle" /\ pc[c] = "publish"
    BY <1>3 DEF PublishOperation, Return, TypeOK
  <2>2. ArtifactOf(l)'
    BY <1>w, <2>1 DEF ArtifactOf, PayloadInv, Unbuilt, Delivered, TypeOK
  <2>3. BoundOf(c)' /\ ClearOf(c)'
    BY <2>1 DEF BoundOf, ClearOf
  <2> QED BY <1>0, <1>w, <2>1, <2>2, <2>3, PayloadAlone DEF TypeOK
<1>4. CASE Assemble(c)
  <2>1. /\ Op(c) = "Install" /\ pc[c] = "assemble" /\ pc'[c] = "install" /\ job' = job
        /\ state' = state /\ state[l] = "Installing"
        /\ evaluator' = [evaluator EXCEPT ![l] = "assembled"]
    BY <1>4, <1>w DEF Assemble, Goto, TypeOK, CallInv, PcOfOp, Phase, During, lineageVars
  <2>2. artifact' = [artifact EXCEPT ![l] = "donated"]
    BY <1>4, <1>w, <2>1 DEF Assemble, ArtifactOps
  <2>3. ArtifactOf(l)'
    BY <1>w, <2>1, <2>2 DEF ArtifactOf, Unbuilt, Delivered, TypeOK
  <2>4. BoundOf(c)' /\ ClearOf(c)'
    BY <1>w, <2>1 DEF BoundOf, ClearOf, Op, Lin
  <2> QED BY <1>0, <1>w, <2>1, <2>2, <2>3, <2>4, PayloadAlone DEF TypeOK
<1>5. CASE InstallCell(c)
  <2>1. /\ Op(c) = "Install" /\ pc[c] = "install" /\ pc'[c] = "deferred" /\ job' = job
        /\ state' = [state EXCEPT ![l] = "InstalledUnverified"] /\ evaluator' = evaluator
    BY <1>5, <1>w DEF InstallCell, Goto, TypeOK, CallInv, PcOfOp
  <2>2. artifact' = [artifact EXCEPT ![l] = "released"]
    BY <1>5, <1>w, <2>1 DEF InstallCell, ArtifactOps
  <2>3. ArtifactOf(l)'
    BY <1>w, <2>1, <2>2 DEF ArtifactOf, Unbuilt, Delivered, TypeOK
  <2>4. BoundOf(c)' /\ ClearOf(c)'
    BY <1>w, <2>1 DEF BoundOf, ClearOf, Op, Lin
  <2> QED BY <1>0, <1>w, <2>1, <2>2, <2>3, <2>4, PayloadAlone DEF TypeOK
<1>6. CASE InstallReturns(c)
  <2>1. /\ pc[c] = "deferred" /\ pc'[c] = "idle" /\ state' = state /\ artifact' = artifact
        /\ state[l] = "InstalledUnverified"
        /\ evaluator' = [evaluator EXCEPT ![l] = "available"]
    BY <1>6, <1>w DEF InstallReturns, Return, TypeOK, Phase, lineageVars
  <2>2. artifact[l] = "released"
    BY <1>w, <2>1 DEF PayloadInv, ArtifactOf, Delivered
  <2>3. ArtifactOf(l)'
    BY <1>w, <2>1, <2>2 DEF ArtifactOf, Unbuilt, TypeOK
  <2>4. BoundOf(c)' /\ ClearOf(c)'
    BY <2>1 DEF BoundOf, ClearOf
  <2> QED BY <1>0, <1>w, <2>1, <2>3, <2>4, PayloadAlone DEF TypeOK
<1>7. CASE InstallRevoked(c) \/ Fail(c)
  <2>1. /\ pc[c] # "clear" /\ pc'[c] = "clear" /\ job' = job /\ UNCHANGED <<artifact, evaluator>>
        /\ state' = [state EXCEPT ![l] = "Failed"]
        /\ pc[c] = "deferred" => Op(c) = "Install"
    BY <1>7 DEF InstallRevoked, Fail, Goto, TypeOK, payloadVars, CallInv, PcOfOp
  <2>2. Clears(c, l)'
    BY <2>1 DEF Clears, Lin
  <2>3. ArtifactOf(l)'
    BY <1>w, <2>1, <2>2 DEF PayloadInv, ArtifactOf, Unbuilt, Delivered, TypeOK, Lin
  <2>4. BoundOf(c)'
    BY <1>w, <2>1 DEF BoundOf, Op, Lin
  <2>5. ClearOf(c)'
    BY <1>w, <2>1 DEF ClearOf, Op, Lin, InstalledOps, FirstOps
  <2> QED BY <1>0, <1>w, <2>1, <2>3, <2>4, <2>5, PayloadAlone DEF TypeOK
<1>8. CASE Clear(c)
  <2>1. /\ pc[c] = "clear" /\ pc'[c] = "idle" /\ state' = state /\ state[l] = "Failed"
    BY <1>8, <1>w DEF Clear, Return, TypeOK, Phase, lineageVars
  <2>2. artifact' = IF Op(c) \in ArtifactOps THEN [artifact EXCEPT ![l] = "released"] ELSE artifact
    BY <1>8, <1>w DEF Clear
  <2>3. evaluator' = CASE Op(c) = "Install"      -> [evaluator EXCEPT ![l] = "none"]
                       [] Op(c) \in InstalledOps -> [evaluator EXCEPT ![l] = "retired"]
                       [] OTHER                  -> evaluator
    BY <1>8 DEF Clear
  <2>4. Empty(l)'
    <3>1. ClearOf(c)
      BY DEF PayloadInv
    <3>2. CASE Op(c) \in InstalledOps
      BY <1>w, <2>1, <2>2, <2>3, <3>1, <3>2 DEF ClearOf, Empty, TypeOK, InstalledOps, FirstOps,
         ArtifactOps
    <3>3. CASE Op(c) \in ArtifactOps \cup {"BeginBuild"}
      BY <1>w, <2>1, <2>2, <2>3, <3>1, <3>3 DEF ClearOf, Empty, TypeOK, InstalledOps, FirstOps,
         ArtifactOps
    <3> QED BY <1>w, <3>2, <3>3 DEF StageOps
  <2>5. \A m \in Lineage : m # l => artifact'[m] = artifact[m] /\ evaluator'[m] = evaluator[m]
    BY <2>2, <2>3 DEF TypeOK
  <2>6. ArtifactOf(l)'
    <3>1. artifact'[l] # "resident"
      BY <2>4 DEF Empty
    <3> QED BY <2>1, <2>4, <3>1 DEF ArtifactOf, Unbuilt, Delivered
  <2>7. BoundOf(c)' /\ ClearOf(c)'
    BY <2>1 DEF BoundOf, ClearOf
  <2>8. PayloadInv'
    BY <1>0, <1>w, <2>1, <2>5, <2>6, <2>7, PayloadAlone
  <2> QED BY <1>0, <2>5, <2>8
<1> QED BY <1>1, <1>2, <1>3, <1>4, <1>5, <1>6, <1>7, <1>8

\* Close finds an evaluator that has been handed out, whose matrices are gone.
LEMMA PayloadRetires ==
  ASSUME IInv, PayloadInv, NEW c \in Call, Retire(c)
  PROVE  PayloadInv' /\ artifact' = artifact
<1> USE DEF IInv
<1> PICK l \in Lineage : l = Lin(c)
  BY JobType DEF Retire
<1>0. /\ pc[c] = "enter" /\ pc'[c] = "idle" /\ l \in Lineage
      /\ UNCHANGED <<state, artifact>> /\ evaluator[l] \in {"available", "retired"}
      /\ evaluator' = [evaluator EXCEPT ![l] = "retired"]
      /\ \A d \in Call : d # c => pc'[d] = pc[d] /\ job'[d] = job[d]
  <2>1. pc[c] = "enter" /\ l \in Lineage /\ evaluator[l] \in {"available", "retired"}
    BY JobType DEF Retire, CallInv, EvaluatorOfCall, LockingOps
  <2> QED BY <2>1, OthersStay DEF Retire, Return, TypeOK, lineageVars, Admission
<1>1. ASSUME NEW d \in Call PROVE BoundOf(d)' /\ ClearOf(d)'
  <2>1. CASE d = c
    BY <1>0, <2>1 DEF BoundOf, ClearOf
  <2>2. CASE d # c
    <3>1. pc[d] = "clear" => Lin(d) \in Lineage
      BY JobType
    <3> QED BY <1>0, <2>2, <3>1 DEF PayloadInv, BoundOf, ClearOf, Op, Lin, TypeOK
  <2> QED BY <2>1, <2>2
<1>2. ASSUME NEW m \in Lineage PROVE ArtifactOf(m)'
  <2>1. \A d \in Call : Clears(d, m) => Clears(d, m)'
    BY <1>0 DEF Clears, Lin
  <2>2. evaluator'[m] = evaluator[m] \/ (m = l /\ evaluator'[m] = "retired")
    BY <1>0 DEF TypeOK
  <2> QED BY <1>0, <2>1, <2>2 DEF PayloadInv, ArtifactOf, Empty
<1> QED BY <1>0, <1>1, <1>2 DEF PayloadInv

\* Every step preserves the payload invariant, and only a winner changes an
\* artifact, that of its own lineage.
LEMMA PayloadStep ==
  IInv /\ PayloadInv /\ [Next]_vars
    => /\ PayloadInv'
       /\ \A l \in Lineage : artifact'[l] # artifact[l]
                             => \E c \in Call : pc[c] \in Won /\ Lin(c) = l
<1> SUFFICES ASSUME IInv, PayloadInv, [Next]_vars
             PROVE  /\ PayloadInv'
                    /\ \A l \in Lineage : artifact'[l] # artifact[l]
                                          => \E c \in Call : pc[c] \in Won /\ Lin(c) = l
  OBVIOUS
<1>1. CASE UNCHANGED vars
  BY <1>1 DEF PayloadInv, BoundOf, ClearOf, ArtifactOf, Empty, Clears, Op, Lin, vars
<1>2. CASE Next
  <2> PICK c \in Call : Start(c) \/ Admission(c) \/ Work(c)
    BY <1>2 DEF Next
  <2>1. \/ PayloadInv' /\ artifact' = artifact
        \/ /\ PayloadInv'
           /\ pc[c] \in Won
           /\ \A l \in Lineage : artifact'[l] # artifact[l] => Lin(c) = l
    <3>1. CASE Mint(c) \/ Cas(c)
      BY <3>1, PayloadAdmits
    <3>2. CASE Retire(c)
      BY <3>2, PayloadRetires
    <3>3. CASE \/ Start(c) \/ Enter(c) \/ Refuse(c) \/ SampleAdmitted(c) \/ SampleBlocked(c)
               \/ SampleExhausted(c) \/ PrepareFails(c) \/ Recheck(c) \/ RecheckFails(c)
               \/ CasLost(c) \/ Store(c) \/ Snapshot(c) \/ ConstructCTS(c) \/ DeltaAccepted(c)
               \/ Guard(c) \/ RunSupplemental(c) \/ RunPlain(c) \/ RunDelta(c)
      BY <3>3, PayloadMoves
    <3>4. CASE \/ PublishBuild(c) \/ PublishReady(c) \/ PublishOperation(c) \/ Assemble(c)
               \/ InstallCell(c) \/ InstallReturns(c) \/ InstallRevoked(c) \/ Fail(c) \/ Clear(c)
      BY <3>4, PayloadWorks
    <3> QED BY <3>1, <3>2, <3>3, <3>4, Zenon DEF Admission, Work
  <2> QED BY <2>1
<1> QED BY <1>1, <1>2

\* The initial states satisfy the payload invariant.
LEMMA PayloadInit == Init => PayloadInv
  BY DEF Init, PayloadInv, BoundOf, ClearOf, ArtifactOf, Unbuilt, Delivered

\* The artifact follows the state of its lineage, and what a failed lineage
\* still holds is in the hands of the call that clears it
\* (route_b_live_artifact.go, route_b_ready.go, route_b_install.go).
THEOREM Payload == Spec => [](IInv /\ PayloadInv)
<1>1. Init => IInv /\ PayloadInv
  BY InductiveInit, PayloadInit
<1>2. IInv /\ PayloadInv /\ [Next]_vars => (IInv /\ PayloadInv)'
  BY InductiveStep, PayloadStep
<1> QED BY <1>1, <1>2, PTL DEF Spec

\* For any number of callers with copies of any handles, matrices are reachable
\* through one handle only, and a failed lineage whose cleanup has ended holds
\* none (route_b_ready.go:147, route_b_install.go:145, route_b_preflight.go:262).
THEOREM Released == Spec => []PayloadReleased
<1>1. PayloadInv => PayloadReleased
  BY DEF PayloadInv, ArtifactOf, PayloadReleased, Empty, Clears
<1> QED BY <1>1, Payload, PTL

\* A call changes the artifact of a lineage only as the winner of that lineage's
\* transition, whatever receipts and artifacts of other lineages are presented
\* with its permit (route_b_ready.go:106, route_b_install.go:102).
THEOREM WinnerOnly == Spec => PayloadOfWinnerOnly
<1>1. IInv /\ PayloadInv /\ [Next]_vars
        => \A l \in Lineage : artifact'[l] # artifact[l]
                              => \E c \in Call : pc[c] \in Won /\ Lin(c) = l
  BY PayloadStep
<1> QED BY <1>1, Payload, PTL DEF Spec, PayloadOfWinnerOnly

----------------------------------------------------------------------------
(* The generation a lineage rests on.                                      *)

Stores(c, l) == pc[c] = "store" /\ Lin(c) = l

\* The one winner that has not stored its sample yet is the one CHOOSE finds.
WinnerRests == \A c \in Call : pc[c] = "store" => EffectiveEvidence[Lin(c)] = ev[c]

LEMMA RestsOnWinner == IInv => WinnerRests
<1> SUFFICES ASSUME IInv, NEW c \in Call, pc[c] = "store"
             PROVE  EffectiveEvidence[Lin(c)] = ev[c]
  BY DEF WinnerRests
<1>1. Lin(c) \in Lineage
  BY JobType DEF IInv
<1>2. ASSUME NEW d \in Call, Stores(d, Lin(c)) PROVE d = c
  BY <1>2 DEF IInv, PairInv, Won, Stores
<1>3. (CHOOSE d \in Call : pc[d] = "store" /\ Lin(d) = Lin(c)) = c
  BY <1>2 DEF Stores
<1> QED BY <1>1, <1>3 DEF EffectiveEvidence

\* The same after a step.
LEMMA RestsOnWinnerNext == IInv' => WinnerRests'
  BY RestsOnWinner, PTL

\* Without such a winner it is the stored one.
LEMMA RestsOnStored ==
  \A l \in Lineage : (\A c \in Call : ~Stores(c, l)) => EffectiveEvidence[l] = lastConsumed[l]
BY DEF EffectiveEvidence, Stores

\* Equal values on every lineage make equal functions.
LEMMA RestsEqual ==
  ASSUME \A l \in Lineage : EffectiveEvidence'[l] = EffectiveEvidence[l]
  PROVE  EffectiveEvidence' = EffectiveEvidence
<1>1. /\ EffectiveEvidence = [l \in Lineage |-> EffectiveEvidence[l]]
      /\ EffectiveEvidence' = [l \in Lineage |-> EffectiveEvidence'[l]]
  BY DEF EffectiveEvidence
<1> QED BY <1>1

\* A call that neither draws, wins nor stores a sample changes it nowhere.
LEMMA RestsStill ==
  ASSUME IInv, IInv', NEW c \in Call, lastConsumed' = lastConsumed,
         \A d \in Call : d # c => pc'[d] = pc[d] /\ job'[d] = job[d] /\ ev'[d] = ev[d],
         pc[c] # "store", pc'[c] # "store"
  PROVE  EffectiveEvidence' = EffectiveEvidence
<1>1. ASSUME NEW l \in Lineage PROVE EffectiveEvidence'[l] = EffectiveEvidence[l]
  <2>1. CASE \E d \in Call : Stores(d, l)
    <3> PICK d \in Call : Stores(d, l)
      BY <2>1
    <3>1. Stores(d, l)' /\ ev'[d] = ev[d]
      BY DEF Stores, Lin
    <3>2. EffectiveEvidence[l] = ev[d]
      BY RestsOnWinner DEF Stores, WinnerRests
    <3>3. EffectiveEvidence'[l] = ev'[d]
      BY <3>1, RestsOnWinnerNext DEF Stores, WinnerRests
    <3> QED BY <3>1, <3>2, <3>3
  <2>2. CASE \A d \in Call : ~Stores(d, l)
    <3>1. \A d \in Call : ~Stores(d, l)'
      BY <2>2 DEF Stores, Lin
    <3>2. EffectiveEvidence'[l] = lastConsumed'[l]
      BY <3>1 DEF EffectiveEvidence, Stores
    <3> QED BY <2>2, <3>2, RestsOnStored
  <2> QED BY <2>1, <2>2
<1> QED BY <1>1, RestsEqual

\* The winner's store puts the generation where it already counted.
LEMMA RestsStored ==
  ASSUME IInv, IInv', NEW c \in Call, Store(c)
  PROVE  EffectiveEvidence' = EffectiveEvidence
<1>0. /\ pc[c] = "store" /\ pc'[c] = "snapshot" /\ job' = job /\ ev' = ev /\ Lin(c) \in Lineage
      /\ \A d \in Call : d # c => pc'[d] = pc[d]
      /\ lastConsumed' = [lastConsumed EXCEPT ![Lin(c)] = ev[c]]
  BY JobType DEF Store, Goto, IInv, TypeOK
<1>1. ASSUME NEW l \in Lineage PROVE EffectiveEvidence'[l] = EffectiveEvidence[l]
  <2>1. CASE l = Lin(c)
    <3>1. \A d \in Call : ~Stores(d, l)'
      BY <1>0, <2>1 DEF Stores, Lin, IInv, PairInv, Won
    <3>2. EffectiveEvidence'[l] = lastConsumed'[l]
      BY <3>1 DEF EffectiveEvidence, Stores
    <3>3. lastConsumed'[l] = ev[c]
      BY <1>0, <2>1 DEF IInv, TypeOK
    <3> QED BY <1>0, <2>1, <3>2, <3>3, RestsOnWinner DEF WinnerRests
  <2>2. CASE l # Lin(c) /\ \E d \in Call : Stores(d, l)
    <3> PICK d \in Call : Stores(d, l)
      BY <2>2
    <3>1. Stores(d, l)'
      BY <1>0, <2>2 DEF Stores, Lin
    <3>2. EffectiveEvidence[l] = ev[d]
      BY RestsOnWinner DEF Stores, WinnerRests
    <3>3. EffectiveEvidence'[l] = ev'[d]
      BY <3>1, RestsOnWinnerNext DEF Stores, WinnerRests
    <3> QED BY <1>0, <3>2, <3>3
  <2>3. CASE l # Lin(c) /\ \A d \in Call : ~Stores(d, l)
    <3>1. \A d \in Call : ~Stores(d, l)'
      BY <1>0, <2>3 DEF Stores, Lin
    <3>2. EffectiveEvidence'[l] = lastConsumed'[l]
      BY <3>1 DEF EffectiveEvidence, Stores
    <3>3. lastConsumed'[l] = lastConsumed[l]
      BY <1>0, <2>3 DEF IInv, TypeOK
    <3> QED BY <2>3, <3>2, <3>3, RestsOnStored
  <2> QED BY <2>1, <2>2, <2>3
<1> QED BY <1>1, RestsEqual

\* A sample some call has not stored yet is the sample of no lineage, apart
\* from the one it has already won.
LEMMA RestsDistinct ==
  ASSUME IInv, EvidenceInv, NEW c \in Call, Pending(c),
         NEW m \in Lineage, Owner[m] = Owner[Lin(c)], ~Stores(c, m)
  PROVE  EffectiveEvidence[m] # ev[c]
<1>1. job[c].auth = Owner[m]
  BY DEF EvidenceInv, PendingInv
<1>2. CASE \A d \in Call : ~Stores(d, m)
  <2>1. EffectiveEvidence[m] = lastConsumed[m]
    BY <1>2, RestsOnStored
  <2> QED BY <1>1, <2>1 DEF EvidenceInv, UniqueInv
<1>3. CASE \E d \in Call : Stores(d, m)
  <2> PICK d \in Call : Stores(d, m)
    BY <1>3
  <2>1. Pending(d) /\ d # c
    BY DEF Stores, Pending, IInv, CallInv, PcOfOp
  <2>2. job[d].auth = Owner[m]
    BY <2>1 DEF Stores, EvidenceInv, PendingInv
  <2>3. EffectiveEvidence[m] = ev[d]
    BY RestsOnWinner DEF Stores, WinnerRests
  <2> QED BY <1>1, <2>1, <2>2, <2>3 DEF EvidenceInv, UniqueInv
<1> QED BY <1>2, <1>3

\* A mint, and a won compare-and-swap of a stage that consumes a sample, make
\* the lineage rest on the caller's sample: a newer one, and one that no other
\* lineage of the authority rests on.
LEMMA RestsAnew ==
  ASSUME IInv, IInv', EvidenceInv, NEW c \in Call, NEW l \in Lineage, Lin(c) = l,
         Mint(c) \/ (Cas(c) /\ Op(c) # "OperationalA2B")
  PROVE  Lifecycle!Admit(l)
<1>0. /\ pc[c] \in {"mint", "cas"} /\ Pending(c) /\ ev' = [ev EXCEPT ![c] = ev'[c]]
      /\ \A d \in Call : d # c => pc'[d] = pc[d] /\ job'[d] = job[d] /\ ev'[d] = ev[d]
  <2>1. CASE Mint(c)
    <3>1. Op(c) # "OperationalA2B"
      BY <2>1 DEF Mint, IInv, CallInv, PcOfOp
    <3> QED BY <2>1, <3>1 DEF Mint, Return, Pending, IInv, TypeOK
  <2>2. CASE Cas(c) /\ Op(c) # "OperationalA2B"
    BY <2>2 DEF Cas, Goto, Pending, IInv, TypeOK
  <2> QED BY <2>1, <2>2
<1>1. /\ \A m \in Lineage : m # l => lastConsumed'[m] = lastConsumed[m]
      /\ ev[c] > lastConsumed[l]
      /\ \A d \in Call : ~Stores(d, l)
  <2>1. CASE Mint(c)
    <3>1. /\ \A m \in Lineage : m # l => lastConsumed'[m] = lastConsumed[m]
          /\ ev[c] > lastConsumed[l]
      BY <2>1, EvidenceStore DEF Mint, IInv, TypeOK
    <3>2. \A d \in Call : ~Stores(d, l)
      BY <2>1 DEF Mint, Stores, IInv, CallInv, PcOfOp, PairInv
    <3> QED BY <3>1, <3>2
  <2>2. CASE Cas(c) /\ Op(c) # "OperationalA2B"
    <3>1. state[l] = From(Op(c)) /\ pc[c] = "cas" /\ lastConsumed' = lastConsumed
      BY <2>2 DEF Cas
    <3>2. ev[c] > lastConsumed[l]
      BY <1>0, <3>1 DEF EvidenceInv, PendingInv
    <3>3. ASSUME NEW d \in Call, Stores(d, l) PROVE FALSE
      <4>1. state[l] = During(Op(d))
        BY <3>3 DEF Stores, IInv, CallInv, StateOfCall, Phase, Won
      <4> QED BY <3>1, <4>1 DEF From, During
    <3> QED BY <3>1, <3>2, <3>3
  <2> QED BY <2>1, <2>2
<1>2. EffectiveEvidence[l] = lastConsumed[l]
  BY <1>1, RestsOnStored
<1>3. EffectiveEvidence'[l] = ev[c]
  <2>1. CASE Mint(c)
    <3>1. lastConsumed'[l] = ev[c] /\ pc'[c] = "idle"
      BY <2>1 DEF Mint, Return, IInv, TypeOK
    <3>2. \A d \in Call : ~Stores(d, l)'
      BY <1>0, <1>1, <3>1 DEF Stores, Lin
    <3> QED BY <3>1, <3>2 DEF EffectiveEvidence, Stores
  <2>2. CASE Cas(c) /\ Op(c) # "OperationalA2B"
    <3>1. pc'[c] = "store" /\ Lin(c)' = l /\ ev'[c] = ev[c]
      BY <2>2 DEF Cas, Goto, Lin, IInv, TypeOK
    <3> QED BY <3>1, RestsOnWinnerNext DEF WinnerRests
  <2> QED BY <2>1, <2>2
<1>4. ASSUME NEW m \in Lineage, m # l PROVE EffectiveEvidence'[m] = EffectiveEvidence[m]
  <2>1. \A d \in Call : Stores(d, m)' <=> Stores(d, m)
    <3>1. ~Stores(c, m)
      BY <1>4 DEF Stores
    <3>2. ~Stores(c, m)'
      BY <1>4 DEF Stores, Lin, Mint, Cas, Return, Goto, IInv, TypeOK
    <3>3. \A d \in Call : d # c => (Stores(d, m)' <=> Stores(d, m))
      BY <1>0 DEF Stores, Lin
    <3> QED BY <3>1, <3>2, <3>3
  <2>2. CASE \E d \in Call : Stores(d, m)
    <3> PICK d \in Call : Stores(d, m)
      BY <2>2
    <3>1. Stores(d, m)' /\ d # c
      BY <1>4, <2>1 DEF Stores
    <3>2. EffectiveEvidence[m] = ev[d]
      BY RestsOnWinner DEF Stores, WinnerRests
    <3>3. EffectiveEvidence'[m] = ev'[d]
      BY <3>1, RestsOnWinnerNext DEF Stores, WinnerRests
    <3> QED BY <1>0, <3>1, <3>2, <3>3
  <2>3. CASE \A d \in Call : ~Stores(d, m)
    <3>1. EffectiveEvidence'[m] = lastConsumed'[m]
      BY <2>1, <2>3 DEF EffectiveEvidence, Stores
    <3> QED BY <1>1, <1>4, <2>3, <3>1, RestsOnStored
  <2> QED BY <2>2, <2>3
<1>5. EffectiveEvidence' = [EffectiveEvidence EXCEPT ![l] = EffectiveEvidence'[l]]
  <2>1. /\ EffectiveEvidence = [m \in Lineage |-> EffectiveEvidence[m]]
        /\ EffectiveEvidence' = [m \in Lineage |-> EffectiveEvidence'[m]]
    BY DEF EffectiveEvidence
  <2> QED BY <1>4, <2>1
<1>6. \A m \in Lineage : m # l /\ Owner[m] = Owner[l] => EffectiveEvidence[m] # EffectiveEvidence'[l]
  BY <1>0, <1>1, <1>3, RestsDistinct DEF Stores
<1> QED BY <1>1, <1>2, <1>3, <1>5, <1>6 DEF Lifecycle!Admit

----------------------------------------------------------------------------
(* The refinement.                                                         *)

Handed == [l \in Lineage |-> evaluator[l] \in {"available", "retired"}]

Stutters == UNCHANGED <<state, EffectiveEvidence, Handed>>

\* Steps before the compare-and-swap and inside a stage: the lifecycle stutters.
LEMMA StepStutters ==
  ASSUME IInv, IInv', NEW c \in Call,
         \/ Start(c) \/ Enter(c) \/ Refuse(c) \/ Retire(c) \/ SampleAdmitted(c) \/ SampleBlocked(c)
         \/ SampleExhausted(c) \/ PrepareFails(c) \/ Recheck(c) \/ RecheckFails(c) \/ CasLost(c)
         \/ Store(c) \/ Snapshot(c) \/ ConstructCTS(c) \/ DeltaAccepted(c) \/ Guard(c)
         \/ Assemble(c) \/ RunSupplemental(c) \/ RunPlain(c) \/ RunDelta(c) \/ Clear(c)
  PROVE  Stutters
<1>0. \A d \in Call : d # c => pc'[d] = pc[d] /\ job'[d] = job[d] /\ ev'[d] = ev[d]
  <2>1. \A d \in Call : d # c => pc'[d] = pc[d] /\ job'[d] = job[d]
    BY OthersStay DEF Admission, Work, IInv
  <2>2. ev' = ev \/ ev' = [ev EXCEPT ![c] = ev'[c]]
    BY DEF Start, Enter, Refuse, Retire, SampleAdmitted, SampleBlocked, SampleExhausted,
           PrepareFails, Recheck, RecheckFails, CasLost, Store, Snapshot, ConstructCTS,
           DeltaAccepted, Guard, Assemble, RunSupplemental, RunPlain, RunDelta, Clear, Return,
           IInv, TypeOK
  <2> QED BY <2>1, <2>2 DEF IInv, TypeOK
<1>1. state' = state
  BY DEF Start, Enter, Refuse, Retire, SampleAdmitted, SampleBlocked, SampleExhausted,
         PrepareFails, Recheck, RecheckFails, CasLost, Store, Snapshot, ConstructCTS,
         DeltaAccepted, Guard, Assemble, RunSupplemental, RunPlain, RunDelta, Clear, lineageVars
<1>2. EffectiveEvidence' = EffectiveEvidence
  <2>1. CASE Store(c)
    BY <2>1, RestsStored
  <2>2. CASE ~Store(c)
    <3>1. lastConsumed' = lastConsumed /\ pc[c] # "store"
      BY <2>2 DEF Start, Enter, Refuse, Retire, SampleAdmitted, SampleBlocked, SampleExhausted,
             PrepareFails, Recheck, RecheckFails, CasLost, Snapshot, ConstructCTS,
             DeltaAccepted, Guard, Assemble, RunSupplemental, RunPlain, RunDelta, Clear, lineageVars
    <3>2. pc'[c] # "store"
      BY <2>2 DEF Start, Enter, Refuse, Retire, SampleAdmitted, SampleBlocked, SampleExhausted,
             PrepareFails, Recheck, RecheckFails, CasLost, Snapshot, ConstructCTS,
             DeltaAccepted, Guard, Assemble, RunSupplemental, RunPlain, RunDelta, Clear, Return,
             Goto, IInv, TypeOK
    <3> QED BY <1>0, <3>1, <3>2, RestsStill
  <2> QED BY <2>1, <2>2
<1>3. Handed' = Handed
  <2>1. CASE Retire(c)
    <3>1. Lin(c) \in Lineage /\ evaluator[Lin(c)] \in {"available", "retired"}
      BY <2>1, JobType DEF Retire, IInv, CallInv, EvaluatorOfCall, LockingOps
    <3> QED BY <2>1, <3>1 DEF Retire, Handed, IInv, TypeOK
  <2>2. CASE Assemble(c)
    <3>1. evaluator[Lin(c)] = "none"
      BY <2>2 DEF Assemble, IInv, CallInv, PcOfOp, EvaluatorOfCall, Won
    <3> QED BY <2>2, <3>1 DEF Assemble, Handed, IInv, TypeOK
  <2>3. CASE Clear(c)
    <3>1. /\ Op(c) = "Install" => evaluator[Lin(c)] \in {"none", "assembled"}
          /\ Op(c) \in InstalledOps => evaluator[Lin(c)] = "available"
      BY <2>3 DEF Clear, IInv, CallInv, EvaluatorOfCall, Won
    <3>2. /\ Op(c) = "Install" => evaluator' = [evaluator EXCEPT ![Lin(c)] = "none"]
          /\ Op(c) \in InstalledOps => evaluator' = [evaluator EXCEPT ![Lin(c)] = "retired"]
          /\ Op(c) \notin InstalledOps \cup {"Install"} => evaluator' = evaluator
      BY <2>3 DEF Clear, InstalledOps, FirstOps
    <3> QED BY <3>1, <3>2 DEF Handed, IInv, TypeOK
  <2>4. CASE ~Retire(c) /\ ~Assemble(c) /\ ~Clear(c)
    <3>1. evaluator' = evaluator
      BY <2>4 DEF Start, Enter, Refuse, SampleAdmitted, SampleBlocked, SampleExhausted,
             PrepareFails, Recheck, RecheckFails, CasLost, Store, Snapshot, ConstructCTS,
             DeltaAccepted, Guard, RunSupplemental, RunPlain, RunDelta, payloadVars
    <3> QED BY <3>1 DEF Handed
  <2> QED BY <2>1, <2>2, <2>3, <2>4
<1> QED BY <1>1, <1>2, <1>3 DEF Stutters

\* A mint begins a lineage of the lifecycle.
LEMMA StepMints ==
  ASSUME IInv, IInv', EvidenceInv, NEW c \in Call, NEW l \in Lineage, Lin(c) = l, Mint(c)
  PROVE  Lifecycle!Mint(l)
<1>1. Lifecycle!Admit(l)
  BY RestsAnew
<1>2. Lifecycle!Move(l, "Zero", "Authorized")
  BY DEF Mint, IInv, CallInv, PcOfOp, StateOfCall, Lifecycle!Move
<1>3. UNCHANGED evaluator
  BY DEF Mint, payloadVars
<1> QED BY <1>1, <1>2, <1>3 DEF Lifecycle!Mint

\* A won compare-and-swap begins a stage of the lifecycle, or resumes it.
LEMMA StepBegins ==
  ASSUME IInv, IInv', EvidenceInv, NEW c \in Call, NEW l \in Lineage, Lin(c) = l, Cas(c)
  PROVE  Lifecycle!Begin(l) \/ Lifecycle!Resume(l)
<1>1. Op(c) \in StageOps /\ Lifecycle!Move(l, From(Op(c)), During(Op(c))) /\ UNCHANGED evaluator
  BY DEF Cas, IInv, CallInv, PcOfOp, Lifecycle!Move, payloadVars
<1>2. CASE Op(c) # "OperationalA2B"
  <2>1. Lifecycle!Admit(l)
    BY <1>2, RestsAnew
  <2>2. Op(c) \in FirstOps => evaluator[l] \in {"available", "retired"}
    BY DEF Cas, IInv, CallInv, EvaluatorOfCall, LockingOps, InstalledOps
  <2>3. \/ Op(c) = "BeginBuild" /\ From(Op(c)) = "Authorized" /\ During(Op(c)) = "Building"
        \/ Op(c) = "AuthorizeReady" /\ From(Op(c)) = "PrivateUninstalled" /\ During(Op(c)) = "Readying"
        \/ Op(c) = "Install" /\ From(Op(c)) = "Ready" /\ During(Op(c)) = "Installing"
        \/ /\ Op(c) \in FirstOps
           /\ From(Op(c)) = "InstalledUnverified" /\ During(Op(c)) = "Preflighting"
    BY <1>1, <1>2 DEF StageOps, ArtifactOps, InstalledOps, FirstOps, From, During
  <2> QED BY <1>1, <2>1, <2>2, <2>3 DEF Lifecycle!Begin
<1>3. CASE Op(c) = "OperationalA2B"
  <2>1. From(Op(c)) = "Operational" /\ During(Op(c)) = "Preflighting"
    BY <1>3 DEF From, During, FirstOps
  <2>2. EffectiveEvidence' = EffectiveEvidence
    <3>1. /\ lastConsumed' = lastConsumed /\ pc[c] = "cas" /\ pc'[c] = "run"
          /\ \A d \in Call : d # c => pc'[d] = pc[d] /\ job'[d] = job[d] /\ ev'[d] = ev[d]
      BY <1>3 DEF Cas, Goto, IInv, TypeOK
    <3> QED BY <3>1, RestsStill
  <2> QED BY <1>1, <2>1, <2>2 DEF Lifecycle!Resume
<1> QED BY <1>2, <1>3

\* Publication finishes a stage of the lifecycle.
LEMMA StepFinishes ==
  ASSUME IInv, IInv', NEW c \in Call, NEW l \in Lineage, Lin(c) = l,
         PublishBuild(c) \/ PublishReady(c) \/ PublishOperation(c) \/ InstallCell(c)
  PROVE  Lifecycle!Finish(l)
<1>1. state[l] = During(Op(c))
  BY DEF PublishBuild, PublishReady, PublishOperation, InstallCell, IInv, CallInv, StateOfCall,
         Phase, Won
<1>2. InstallCell(c) => Op(c) = "Install"
  BY DEF InstallCell, IInv, CallInv, PcOfOp
<1>3. \/ Lifecycle!Move(l, "Building", "PrivateUninstalled")
      \/ Lifecycle!Move(l, "Readying", "Ready")
      \/ Lifecycle!Move(l, "Installing", "InstalledUnverified")
      \/ Lifecycle!Move(l, "Preflighting", "Operational")
  <2>1. CASE PublishBuild(c)
    BY <1>1, <2>1 DEF PublishBuild, During, Lifecycle!Move
  <2>2. CASE PublishReady(c)
    BY <1>1, <2>2 DEF PublishReady, During, Lifecycle!Move
  <2>3. CASE PublishOperation(c)
    BY <1>1, <2>3 DEF PublishOperation, During, InstalledOps, FirstOps, Lifecycle!Move
  <2>4. CASE InstallCell(c)
    BY <1>1, <1>2, <2>4 DEF InstallCell, During, Lifecycle!Move
  <2> QED BY <2>1, <2>2, <2>3, <2>4
<1>4. evaluator' = evaluator /\ lastConsumed' = lastConsumed
  BY DEF PublishBuild, PublishReady, PublishOperation, InstallCell, payloadVars
<1>5. EffectiveEvidence' = EffectiveEvidence
  <2>1. pc[c] # "store" /\ pc'[c] # "store"
    BY DEF PublishBuild, PublishReady, PublishOperation, InstallCell, Return, Goto, IInv, TypeOK
  <2>2. \A d \in Call : d # c => pc'[d] = pc[d] /\ job'[d] = job[d] /\ ev'[d] = ev[d]
    BY DEF PublishBuild, PublishReady, PublishOperation, InstallCell, Return, Goto, IInv, TypeOK
  <2> QED BY <1>4, <2>1, <2>2, RestsStill
<1> QED BY <1>3, <1>4, <1>5 DEF Lifecycle!Finish

\* The evaluator is handed over where Install returns, and nothing fails a
\* lineage but its winner, an installation only before that.
LEMMA StepEnds ==
  ASSUME IInv, IInv', NEW c \in Call, NEW l \in Lineage, Lin(c) = l,
         InstallReturns(c) \/ InstallRevoked(c) \/ Fail(c)
  PROVE  Lifecycle!HandOver(l) \/ Lifecycle!Fail(l)
<1>1. EffectiveEvidence' = EffectiveEvidence
  <2>1. /\ lastConsumed' = lastConsumed /\ pc[c] # "store" /\ pc'[c] # "store"
        /\ \A d \in Call : d # c => pc'[d] = pc[d] /\ job'[d] = job[d] /\ ev'[d] = ev[d]
    BY DEF InstallReturns, InstallRevoked, Fail, Return, Goto, IInv, TypeOK, lineageVars
  <2> QED BY <2>1, RestsStill
<1>2. CASE InstallReturns(c)
  <2>1. state[l] = "InstalledUnverified" /\ state' = state /\ evaluator[l] = "assembled"
    BY <1>2 DEF InstallReturns, IInv, CallInv, PcOfOp, StateOfCall, Phase, EvaluatorOfCall, Won,
                lineageVars
  <2>2. Handed' = [Handed EXCEPT ![l] = TRUE]
    BY <1>2 DEF InstallReturns, Handed, IInv, TypeOK
  <2> QED BY <1>1, <2>1, <2>2 DEF Lifecycle!HandOver, Handed
<1>3. CASE InstallRevoked(c)
  <2>1. state[l] = "InstalledUnverified" /\ evaluator[l] = "assembled" /\ evaluator' = evaluator
    BY <1>3 DEF InstallRevoked, IInv, CallInv, PcOfOp, StateOfCall, Phase, EvaluatorOfCall, Won,
                payloadVars
  <2>2. state' = [state EXCEPT ![l] = "Failed"]
    BY <1>3 DEF InstallRevoked
  <2> QED BY <1>1, <2>1, <2>2 DEF Lifecycle!Fail
<1>4. CASE Fail(c)
  <2>1. state[l] = During(Op(c)) /\ evaluator' = evaluator
    BY <1>4 DEF Fail, IInv, CallInv, StateOfCall, Phase, Won, payloadVars
  <2>2. state' = [state EXCEPT ![l] = "Failed"]
    BY <1>4 DEF Fail
  <2>3. During(Op(c)) \in Lifecycle!InProgress
    BY DEF During, Lifecycle!InProgress
  <2> QED BY <1>1, <2>1, <2>2, <2>3 DEF Lifecycle!Fail
<1> QED BY <1>2, <1>3, <1>4

\* Every step of the protocol is a step of the lifecycle or a stutter.
LEMMA StepRefines == IInv /\ EvidenceInv /\ [Next]_vars => [Lifecycle!Next]_(Lifecycle!vars)
<1> SUFFICES ASSUME IInv, EvidenceInv, [Next]_vars PROVE [Lifecycle!Next]_(Lifecycle!vars)
  OBVIOUS
<1>0. IInv'
  BY InductiveStep
<1>s. Stutters => UNCHANGED Lifecycle!vars
  BY DEF Stutters, Handed, Lifecycle!vars
<1>1. CASE UNCHANGED vars
  <2>1. EffectiveEvidence' = EffectiveEvidence
    BY <1>1 DEF EffectiveEvidence, Lin, vars
  <2> QED BY <1>1, <1>s, <2>1 DEF Stutters, Handed, vars
<1>2. CASE Next
  <2> PICK c \in Call : Start(c) \/ Admission(c) \/ Work(c)
    BY <1>2 DEF Next
  <2>1. CASE \/ Start(c) \/ Enter(c) \/ Refuse(c) \/ Retire(c) \/ SampleAdmitted(c)
             \/ SampleBlocked(c) \/ SampleExhausted(c) \/ PrepareFails(c) \/ Recheck(c)
             \/ RecheckFails(c) \/ CasLost(c) \/ Store(c) \/ Snapshot(c) \/ ConstructCTS(c)
             \/ DeltaAccepted(c) \/ Guard(c) \/ Assemble(c) \/ RunSupplemental(c) \/ RunPlain(c)
             \/ RunDelta(c) \/ Clear(c)
    BY <1>0, <1>s, <2>1, StepStutters
  <2>2. CASE \/ Mint(c) \/ Cas(c) \/ PublishBuild(c) \/ PublishReady(c) \/ PublishOperation(c)
             \/ InstallCell(c) \/ InstallReturns(c) \/ InstallRevoked(c) \/ Fail(c)
    <3> PICK l \in Lineage : Lin(c) = l
      BY <2>2, JobType DEF Mint, Cas, PublishBuild, PublishReady, PublishOperation, InstallCell,
         InstallReturns, InstallRevoked, Fail, IInv
    <3>1. \/ Lifecycle!Mint(l) \/ Lifecycle!Begin(l) \/ Lifecycle!Resume(l) \/ Lifecycle!Finish(l)
          \/ Lifecycle!HandOver(l) \/ Lifecycle!Fail(l)
      BY <1>0, <2>2, StepMints, StepBegins, StepFinishes, StepEnds
    <3> QED BY <3>1 DEF Lifecycle!Next
  <2> QED BY <2>1, <2>2, Zenon DEF Admission, Work
<1> QED BY <1>1, <1>2

\* For any number of authorities, lineages and callers, the protocol of permits,
\* samples, compare-and-swaps and cleanups implements the one-way lifecycle: each
\* admitted stage rests on a sample newer than the previous one and shared with
\* no other lineage of the authority, an evaluator is used only after it was
\* handed over, and a failed lineage stays failed (route_b_live_artifact.go,
\* route_b_ready.go, route_b_install.go, route_b_preflight.go).
THEOREM Refines == Spec => ImplementsLifecycle
<1>1. Init => Lifecycle!Init
  <2> SUFFICES ASSUME Init PROVE Lifecycle!Init
    OBVIOUS
  <2>1. EffectiveEvidence = [l \in Lineage |-> 0]
    <3>1. \A c \in Call : pc[c] # "store"
      BY DEF Init
    <3>2. lastConsumed = [l \in Lineage |-> 0]
      BY DEF Init
    <3> QED BY <3>1, <3>2 DEF EffectiveEvidence
  <2>2. \A l \in Lineage : (evaluator[l] \in {"available", "retired"}) = FALSE
    BY DEF Init
  <2>3. [l \in Lineage |-> evaluator[l] \in {"available", "retired"}] = [l \in Lineage |-> FALSE]
    BY <2>2, Zenon
  <2> QED BY <2>1, <2>3 DEF Init, Lifecycle!Init
<1>2. IInv /\ EvidenceInv /\ [Next]_vars => [Lifecycle!Next]_(Lifecycle!vars)
  BY StepRefines
<1> QED BY <1>1, <1>2, Evidence, PTL DEF Spec, ImplementsLifecycle, Lifecycle!Spec
=============================================================================
