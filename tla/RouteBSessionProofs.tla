------------------------ MODULE RouteBSessionProofs ------------------------
(***************************************************************************)
(* Safety of the client/server sessions for any number of sessions of      *)
(* either kind and any number of goroutines calling their servers.         *)
(*                                                                         *)
(* Nothing the properties say is inductive by itself: that a server's      *)
(* evaluator is there during a run rests on the holder of server.mu being  *)
(* the running caller, and that the call counter agrees with the lineage   *)
(* rests on the lineage being Preflighting exactly while a run works.      *)
(***************************************************************************)
EXTENDS RouteBSession, TLAPS

----------------------------------------------------------------------------
(* The inductive invariant.                                                *)

\* How many capacity samples of its authority a lineage has consumed.
Samples(st) ==
  CASE st = "Zero"                                  -> 0
    [] st = "Authorized"                            -> 1
    [] st \in {"Building", "PrivateUninstalled"}    -> 2
    [] st \in {"Readying", "Ready"}                 -> 3
    [] st \in {"Installing", "InstalledUnverified"} -> 4
    [] OTHER                                        -> 5

\* Nobody has used the server of a session that is not open.
Unopened(s) ==
  /\ ~handed[s] /\ ~available[s] /\ ~closed[s] /\ ~used[s]
  /\ calls[s] = 0 /\ attempts[s] = 0

\* Where a constructor is, and what its lineage and its matrices are then.
ConstructorInv(s) ==
  /\ phase[s] # "open" => Unopened(s)
  /\ phase[s] \in {"none", "authorize"} => stage[s] = "Zero" /\ artifact[s] = "none"
  /\ phase[s] = "build" => stage[s] \in {"Authorized", "Building"} /\ artifact[s] = "none"
  /\ phase[s] = "ready" => stage[s] \in {"PrivateUninstalled", "Readying"}
  /\ phase[s] = "params" => stage[s] = "Ready"
  /\ phase[s] = "install" => stage[s] \in {"Ready", "Installing", "InstalledUnverified"}
  /\ phase[s] = "failed" => artifact[s] # "resident"
  /\ phase[s] = "open" => stage[s] \in {"InstalledUnverified", "Preflighting", "Operational", "Failed"}
  /\ stage[s] # "Failed" => evidence[s] = Samples(stage[s])

Works(c, s) == pc[c] = "work" /\ Srv(c) = s

\* The counter an idle or starting A2B server has, against its lineage.
Matches(s) == IF calls[s] = 0 THEN stage[s] = "InstalledUnverified"
                              ELSE stage[s] = "Operational" /\ prepared[s]

ServerInv(s) ==
  /\ used[s] => Kind[s] = "depth2"
  /\ attempts[s] = IF used[s] THEN 1 ELSE 0
  /\ phase[s] = "open" /\ available[s]
       => /\ Kind[s] = "depth2" /\ ~used[s] => stage[s] = "InstalledUnverified"
          /\ Kind[s] = "a2b" /\ (\A c \in Call : ~Works(c, s)) => Matches(s)

CallInv(c) ==
  /\ pc[c] # "idle" => job[c] \in [server : Session, input : Session] /\ phase[Srv(c)] = "open"
  /\ pc[c] \in {"run", "work"}
       => /\ mu[Srv(c)] = c /\ job[c].input = Srv(c)
          /\ ~closed[Srv(c)] /\ available[Srv(c)]
          /\ Kind[Srv(c)] = "depth2" => used[Srv(c)]
  /\ pc[c] = "work" => stage[Srv(c)] = "Preflighting"

\* A result is under the key of the session that carries it.
DataInv == \A o \in outputs : o.key = o.session

IInv ==
  /\ TypeOK
  /\ \A s \in Session : ConstructorInv(s) /\ ServerInv(s)
  /\ \A c \in Call : CallInv(c)
  /\ DataInv /\ OwnKeyOnly

----------------------------------------------------------------------------
(* Frames.                                                                 *)

Stages == {"Zero", "Authorized", "PrivateUninstalled", "Ready", "InstalledUnverified",
           "Operational", "Failed"} \cup Lineages!InProgress

\* Everything a session keeps, apart from its lock.
Same(t) ==
  /\ stage'[t] = stage[t] /\ evidence'[t] = evidence[t] /\ handed'[t] = handed[t]
  /\ phase'[t] = phase[t] /\ artifact'[t] = artifact[t]
  /\ available'[t] = available[t] /\ prepared'[t] = prepared[t]
  /\ used'[t] = used[t] /\ calls'[t] = calls[t] /\ closed'[t] = closed[t]
  /\ attempts'[t] = attempts[t]

\* What the type invariant says of a call in progress.
LEMMA JobType ==
  ASSUME IInv, NEW c \in Call, pc[c] # "idle"
  PROVE  Srv(c) \in Session /\ job[c].input \in Session /\ phase[Srv(c)] = "open"
BY DEF IInv, TypeOK, CallInv, Srv

\* The callers inside a run of one server are one caller.
LEMMA OneRun ==
  ASSUME IInv, NEW c \in Call, NEW d \in Call,
         pc[c] \in {"run", "work"}, pc[d] \in {"run", "work"}, Srv(c) = Srv(d)
  PROVE  c = d
BY DEF IInv, CallInv

\* A session no step touches keeps its facts.
LEMMA Apart ==
  ASSUME IInv, NEW t \in Session, Same(t), \A c \in Call : Works(c, t) => Works(c, t)'
  PROVE  ConstructorInv(t)' /\ ServerInv(t)'
<1>1. ConstructorInv(t)'
  BY DEF IInv, ConstructorInv, Unopened, Same
<1>2. Matches(t)' <=> Matches(t)
  BY DEF Matches, Same
<1>3. ServerInv(t)'
  BY <1>2 DEF IInv, ServerInv, Same
<1> QED BY <1>1, <1>3

\* So does a call whose session and position no step touches.
LEMMA CallApart ==
  ASSUME IInv, NEW c \in Call, pc'[c] = pc[c], job'[c] = job[c],
         pc[c] # "idle" => Same(Srv(c)) /\ mu'[Srv(c)] = mu[Srv(c)]
  PROVE  CallInv(c)'
BY DEF IInv, CallInv, Srv, Same

\* A step of one constructor disturbs neither the callers nor other sessions:
\* nobody calls a server that has not been returned.
LEMMA ConstructFrame ==
  ASSUME IInv, TypeOK', NEW s \in Session, phase[s] # "open",
         \A t \in Session : t # s => Same(t), UNCHANGED <<dataVars, callVars>>,
         ConstructorInv(s)', ServerInv(s)'
  PROVE  IInv'
<1>1. \A t \in Session : ConstructorInv(t)' /\ ServerInv(t)'
  <2> SUFFICES ASSUME NEW t \in Session, t # s PROVE ConstructorInv(t)' /\ ServerInv(t)'
    OBVIOUS
  <2>1. \A c \in Call : Works(c, t) => Works(c, t)'
    BY DEF Works, Srv, callVars
  <2> QED BY <2>1, Apart
<1>2. \A c \in Call : CallInv(c)'
  <2> SUFFICES ASSUME NEW c \in Call PROVE CallInv(c)'
    OBVIOUS
  <2>1. pc[c] # "idle" => Srv(c) \in Session /\ Srv(c) # s
    BY JobType
  <2> QED BY <2>1, CallApart DEF callVars
<1>3. DataInv' /\ OwnKeyOnly'
  BY DEF IInv, DataInv, OwnKeyOnly, dataVars
<1> QED BY <1>1, <1>2, <1>3 DEF IInv

\* A step of one caller disturbs neither other sessions nor, when it holds the
\* lock of its server or finds it free, the callers inside other runs.
LEMMA ServerFrame ==
  ASSUME IInv, TypeOK', NEW c \in Call, NEW s \in Session, phase'[s] = phase[s],
         pc[c] # "idle" => Srv(c) = s, pc'[c] # "idle" => Srv(c)' = s,
         \A t \in Session : t # s => Same(t) /\ mu'[t] = mu[t],
         \A d \in Call : d # c => pc'[d] = pc[d] /\ job'[d] = job[d],
         \A d \in Call : d # c /\ pc[d] \in {"run", "work"} => Srv(d) # s,
         ConstructorInv(s)', ServerInv(s)', CallInv(c)', DataInv', OwnKeyOnly'
  PROVE  IInv'
<1>1. \A t \in Session : ConstructorInv(t)' /\ ServerInv(t)'
  <2> SUFFICES ASSUME NEW t \in Session, t # s PROVE ConstructorInv(t)' /\ ServerInv(t)'
    OBVIOUS
  <2>1. \A d \in Call : Works(d, t) => Works(d, t)'
    BY DEF Works, Srv
  <2> QED BY <2>1, Apart
<1>2. \A d \in Call : CallInv(d)'
  <2> SUFFICES ASSUME NEW d \in Call, d # c PROVE CallInv(d)'
    OBVIOUS
  <2>1. CASE pc[d] = "idle" \/ Srv(d) # s
    <3>1. pc[d] # "idle" => Srv(d) \in Session
      BY JobType
    <3> QED BY <2>1, <3>1, CallApart
  <2>2. CASE pc[d] \in {"evaluate", "close"} /\ Srv(d) = s
    BY <2>2 DEF IInv, CallInv, Srv
  <2>3. CASE pc[d] \in {"run", "work"} /\ Srv(d) = s
    BY <2>3
  <2> QED BY <2>1, <2>2, <2>3 DEF IInv, TypeOK
<1> QED BY <1>1, <1>2 DEF IInv

\* The steps of a lineage: which state they leave, and that its consumed samples
\* can be told from that state.
LEMMA LineageStep ==
  ASSUME TypeOK, NEW s \in Session, stage[s] # "Failed" => evidence[s] = Samples(stage[s]),
         \/ Newer(s) /\ Lineages!Mint(s)
         \/ Newer(s) /\ Lineages!Begin(s)
         \/ Lineages!Resume(s) \/ Lineages!Finish(s) \/ Lineages!Fail(s)
  PROVE  /\ stage' \in [Session -> Stages] /\ evidence' \in [Session -> 0..5] /\ handed' = handed
         /\ \A t \in Session : t # s => stage'[t] = stage[t] /\ evidence'[t] = evidence[t]
         /\ stage'[s] # "Failed" => evidence'[s] = Samples(stage'[s])
<1> USE DEF Lineages!Move, Lineages!InProgress
<1>1. CASE Newer(s) /\ Lineages!Mint(s)
  <2>1. /\ stage[s] = "Zero" /\ stage' = [stage EXCEPT ![s] = "Authorized"]
        /\ evidence' = [evidence EXCEPT ![s] = evidence[s] + 1] /\ handed' = handed
    BY <1>1 DEF Newer, Lineages!Mint
  <2> QED BY <2>1 DEF TypeOK, Stages, Samples
<1>2. CASE Newer(s) /\ Lineages!Begin(s)
  <2>1. \E r \in {<<"Authorized", "Building">>, <<"PrivateUninstalled", "Readying">>,
                  <<"Ready", "Installing">>, <<"InstalledUnverified", "Preflighting">>} :
          stage[s] = r[1] /\ stage' = [stage EXCEPT ![s] = r[2]]
    BY <1>2 DEF Lineages!Begin
  <2>2. evidence' = [evidence EXCEPT ![s] = evidence[s] + 1] /\ handed' = handed
    BY <1>2 DEF Newer, Lineages!Begin
  <2> QED BY <2>1, <2>2 DEF TypeOK, Stages, Samples
<1>3. CASE Lineages!Resume(s)
  <2>1. /\ stage[s] = "Operational" /\ stage' = [stage EXCEPT ![s] = "Preflighting"]
        /\ evidence' = evidence /\ handed' = handed
    BY <1>3 DEF Lineages!Resume
  <2> QED BY <2>1 DEF TypeOK, Stages, Samples
<1>4. CASE Lineages!Finish(s)
  <2>1. \E r \in {<<"Building", "PrivateUninstalled">>, <<"Readying", "Ready">>,
                  <<"Installing", "InstalledUnverified">>, <<"Preflighting", "Operational">>} :
          stage[s] = r[1] /\ stage' = [stage EXCEPT ![s] = r[2]]
    BY <1>4 DEF Lineages!Finish
  <2>2. evidence' = evidence /\ handed' = handed
    BY <1>4 DEF Lineages!Finish
  <2> QED BY <2>1, <2>2 DEF TypeOK, Stages, Samples
<1>5. CASE Lineages!Fail(s)
  <2>1. /\ stage' = [stage EXCEPT ![s] = "Failed"]
        /\ evidence' = evidence /\ handed' = handed
    BY <1>5 DEF Lineages!Fail
  <2> QED BY <2>1 DEF TypeOK, Stages
<1> QED BY <1>1, <1>2, <1>3, <1>4, <1>5

----------------------------------------------------------------------------
(* Steps of a constructor.                                                 *)

\* A constructor that has not returned leaves its server untouched.
LEMMA Untouched ==
  ASSUME IInv, NEW s \in Session, phase[s] # "open", phase'[s] # "open",
         UNCHANGED <<handed, cellVars, serverVars, callVars>>
  PROVE  Unopened(s)' /\ ServerInv(s)'
BY DEF IInv, ConstructorInv, ServerInv, Unopened, cellVars, serverVars, callVars

\* Steps that leave the lineage alone: the authority, a refusal at any stage,
\* the client's parameters and the cleanup of the error return.
LEMMA ConstructQuietly ==
  ASSUME IInv, NEW s \in Session, New(s) \/ Refused(s) \/ Params(s) \/ Cleanup(s)
  PROVE  IInv'
<1>0. /\ phase' = [phase EXCEPT ![s] = phase'[s]]
      /\ phase'[s] \in {"authorize", "cleanup", "failed", "install"}
      /\ phase[s] \in {"none", "authorize", "params", "cleanup"} \cup StagePhases
      /\ artifact' = [artifact EXCEPT ![s] = artifact'[s]]
      /\ artifact'[s] \in {"none", "resident", "released"}
      /\ UNCHANGED <<lineageVars, cellVars, serverVars, dataVars, callVars>>
  <2>1. CASE New(s)
    BY <2>1 DEF New, Phase, Bail, IInv, TypeOK
  <2>2. CASE Refused(s)
    BY <2>2 DEF Refused, Phase, Bail, IInv, TypeOK
  <2>3. CASE Params(s)
    BY <2>3 DEF Params, Phase, IInv, TypeOK
  <2>4. CASE Cleanup(s)
    BY <2>4 DEF Cleanup, Phase, IInv, TypeOK
  <2> QED BY <2>1, <2>2, <2>3, <2>4
<1>1. TypeOK'
  <2>1. phase' \in [Session -> Phases]
    BY <1>0 DEF IInv, TypeOK, Phases, StagePhases
  <2>2. artifact' \in [Session -> {"none", "resident", "released"}]
    BY <1>0 DEF IInv, TypeOK
  <2> QED
    BY <1>0, <2>1, <2>2 DEF IInv, TypeOK, lineageVars, cellVars, serverVars, dataVars, callVars
<1>2. \A t \in Session : t # s => Same(t)
  BY <1>0 DEF IInv, TypeOK, Same, lineageVars, cellVars, serverVars, dataVars, callVars
<1>3. Unopened(s)' /\ ServerInv(s)'
  BY <1>0, Untouched DEF lineageVars, StagePhases
<1>4. ConstructorInv(s)'
  <2>1. stage' = stage /\ evidence' = evidence
    BY <1>0 DEF lineageVars
  <2>2. CASE New(s)
    <3>1. phase[s] = "none" /\ artifact' = artifact /\ phase'[s] \in {"authorize", "failed"}
      BY <2>2 DEF New, Phase, Bail, IInv, TypeOK
    <3> QED BY <1>3, <2>1, <3>1 DEF IInv, ConstructorInv
  <2>3. CASE Refused(s)
    <3>1. /\ artifact' = artifact
          /\ \/ phase'[s] = "failed" /\ phase[s] \in {"authorize", "build"}
             \/ phase'[s] = "cleanup"
      BY <2>3 DEF Refused, Phase, Bail, IInv, TypeOK, StagePhases
    <3> QED BY <1>3, <2>1, <3>1 DEF IInv, ConstructorInv
  <2>4. CASE Params(s)
    <3>1. phase[s] = "params" /\ artifact' = artifact /\ phase'[s] = "install"
      BY <2>4 DEF Params, Phase, IInv, TypeOK
    <3> QED BY <1>3, <2>1, <3>1 DEF IInv, ConstructorInv
  <2>5. CASE Cleanup(s)
    <3>1. phase'[s] = "failed" /\ artifact'[s] = "released"
      BY <2>5 DEF Cleanup, Phase, IInv, TypeOK
    <3> QED BY <1>3, <2>1, <3>1 DEF IInv, ConstructorInv
  <2> QED BY <2>2, <2>3, <2>4, <2>5
<1> QED BY <1>0, <1>1, <1>2, <1>3, <1>4, ConstructFrame DEF StagePhases

\* Steps of the lineage a constructor drives.
LEMMA ConstructStage ==
  ASSUME IInv, NEW s \in Session, Authorize(s) \/ StageBegins(s) \/ StageFails(s) \/ StageEnds(s)
  PROVE  IInv'
<1>0. /\ phase' = [phase EXCEPT ![s] = phase'[s]]
      /\ phase'[s] \in {"params", "cleanup", "failed"} \cup StagePhases
      /\ phase[s] \in {"authorize"} \cup StagePhases
      /\ artifact' = [artifact EXCEPT ![s] = artifact'[s]]
      /\ artifact'[s] \in {"none", "resident", "released"}
      /\ UNCHANGED <<cellVars, serverVars, dataVars, callVars>>
  <2>1. CASE Authorize(s)
    BY <2>1 DEF Authorize, Phase, StagePhases, IInv, TypeOK
  <2>2. CASE StageBegins(s)
    BY <2>2 DEF StageBegins, buildVars, StagePhases, IInv, TypeOK
  <2>3. CASE StageFails(s)
    BY <2>3 DEF StageFails, Phase, Bail, StagePhases, IInv, TypeOK
  <2>4. CASE StageEnds(s)
    BY <2>4 DEF StageEnds, Phase, StagePhases, IInv, TypeOK
  <2> QED BY <2>1, <2>2, <2>3, <2>4
<1>f. stage[s] # "Failed" => evidence[s] = Samples(stage[s])
  BY DEF IInv, ConstructorInv
<1>l. /\ stage' \in [Session -> Stages] /\ evidence' \in [Session -> 0..5] /\ handed' = handed
      /\ \A t \in Session : t # s => stage'[t] = stage[t] /\ evidence'[t] = evidence[t]
      /\ stage'[s] # "Failed" => evidence'[s] = Samples(stage'[s])
  BY <1>f, LineageStep DEF Authorize, StageBegins, StageFails, StageEnds, IInv
<1>1. TypeOK'
  <2>1. phase' \in [Session -> Phases]
    BY <1>0 DEF IInv, TypeOK, Phases, StagePhases
  <2>2. artifact' \in [Session -> {"none", "resident", "released"}]
    BY <1>0 DEF IInv, TypeOK
  <2>3. handed' \in [Session -> BOOLEAN]
    BY <1>l DEF IInv, TypeOK
  <2> QED
    BY <1>0, <1>l, <2>1, <2>2, <2>3 DEF IInv, TypeOK, Stages, cellVars, serverVars, dataVars,
       callVars
<1>2. \A t \in Session : t # s => Same(t)
  BY <1>0, <1>l DEF IInv, TypeOK, Same, cellVars, serverVars, dataVars, callVars
<1>3. Unopened(s)' /\ ServerInv(s)'
  BY <1>0, <1>l, Untouched DEF StagePhases
<1>4. ConstructorInv(s)'
  <2>1. CASE Authorize(s)
    <3>1. /\ phase[s] = "authorize" /\ phase'[s] = "build" /\ artifact' = artifact
          /\ stage'[s] = "Authorized"
      BY <2>1 DEF Authorize, Phase, Lineages!Mint, Lineages!Move, IInv, TypeOK
    <3> QED BY <1>3, <1>l, <3>1 DEF IInv, ConstructorInv
  <2>2. CASE StageBegins(s)
    <3>1. /\ phase[s] \in StagePhases /\ stage[s] = Expected(phase[s])
          /\ phase' = phase /\ artifact' = artifact
      BY <2>2 DEF StageBegins, buildVars
    <3>2. \/ phase[s] = "build" /\ stage'[s] = "Building"
          \/ phase[s] = "ready" /\ stage'[s] = "Readying"
          \/ phase[s] = "install" /\ stage'[s] = "Installing"
      BY <2>2, <3>1 DEF StageBegins, Expected, StagePhases, Lineages!Begin, Lineages!Move, IInv,
                        TypeOK
    <3> QED BY <1>3, <1>l, <3>1, <3>2 DEF IInv, ConstructorInv
  <2>3. CASE StageFails(s)
    <3>1. /\ stage'[s] = "Failed"
          /\ \/ phase'[s] = "failed" /\ artifact'[s] = "none"
             \/ phase'[s] = "cleanup"
      BY <2>3 DEF StageFails, Lineages!Fail, Bail, Phase, StagePhases, IInv, TypeOK
    <3> QED BY <1>3, <1>l, <3>1 DEF ConstructorInv
  <2>4. CASE StageEnds(s)
    <3>1. /\ phase[s] \in StagePhases
          /\ phase'[s] = CASE phase[s] = "build" -> "ready"
                           [] phase[s] = "ready" -> "params"
                           [] OTHER              -> "install"
      BY <2>4 DEF StageEnds, Phase, IInv, TypeOK
    <3>2. \/ stage[s] = "Building" /\ stage'[s] = "PrivateUninstalled"
          \/ stage[s] = "Readying" /\ stage'[s] = "Ready"
          \/ stage[s] = "Installing" /\ stage'[s] = "InstalledUnverified"
          \/ stage[s] = "Preflighting" /\ stage'[s] = "Operational"
      BY <2>4 DEF StageEnds, Lineages!Finish, Lineages!Move, IInv, TypeOK
    <3>3. \/ phase[s] = "build" /\ stage[s] = "Building"
          \/ phase[s] = "ready" /\ stage[s] = "Readying"
          \/ phase[s] = "install" /\ stage[s] = "Installing"
      BY <3>1, <3>2 DEF IInv, ConstructorInv, StagePhases
    <3> QED BY <1>3, <1>l, <3>1, <3>2, <3>3 DEF ConstructorInv
  <2> QED BY <2>1, <2>2, <2>3, <2>4
<1> QED BY <1>0, <1>1, <1>2, <1>3, <1>4, ConstructFrame DEF StagePhases

\* The session is returned with its evaluator.
LEMMA ConstructOpens ==
  ASSUME IInv, NEW s \in Session, Open(s)
  PROVE  IInv'
<1>0. /\ phase[s] = "install" /\ phase' = [phase EXCEPT ![s] = "open"]
      /\ stage[s] = "InstalledUnverified" /\ stage' = stage /\ evidence' = evidence
      /\ handed' = [handed EXCEPT ![s] = TRUE] /\ available' = [available EXCEPT ![s] = TRUE]
      /\ UNCHANGED <<artifact, prepared, serverVars, dataVars, callVars>>
  BY DEF Open, Phase, Lineages!HandOver
<1>1. TypeOK'
  BY <1>0 DEF IInv, TypeOK, Phases, serverVars, dataVars, callVars
<1>2. \A t \in Session : t # s => Same(t)
  BY <1>0 DEF IInv, TypeOK, Same, serverVars, dataVars, callVars
<1>3. ConstructorInv(s)'
  BY <1>0 DEF IInv, TypeOK, ConstructorInv
<1>4. ServerInv(s)'
  BY <1>0 DEF IInv, ConstructorInv, ServerInv, Unopened, Matches, serverVars, callVars
<1> QED BY <1>0, <1>1, <1>2, <1>3, <1>4, ConstructFrame

----------------------------------------------------------------------------
(* Steps of a client, and the start of a call.                             *)

\* An input is one more; a decrypted result is under the session's own key.
LEMMA ClientSteps ==
  ASSUME IInv, NEW s \in Session, Encrypt(s) \/ Decrypt(s)
  PROVE  IInv'
<1>0. UNCHANGED <<lineageVars, buildVars, cellVars, serverVars, outputs, callVars>>
  BY DEF Encrypt, Decrypt
<1>1. TypeOK'
  <2>1. inputs' \subseteq Session /\ opened' \subseteq [client : Session, key : Session]
    BY DEF Encrypt, Decrypt, IInv, TypeOK
  <2> QED BY <1>0, <2>1 DEF IInv, TypeOK, lineageVars, buildVars, cellVars, serverVars, callVars
<1>2. \A t \in Session : Same(t)
  BY <1>0 DEF Same, lineageVars, buildVars, cellVars, serverVars, callVars
<1>3. \A t \in Session : ConstructorInv(t)' /\ ServerInv(t)'
  <2> TAKE t \in Session
  <2>1. \A c \in Call : Works(c, t) => Works(c, t)'
    BY <1>0 DEF Works, Srv, callVars
  <2> QED BY <1>2, <2>1, Apart
<1>4. \A c \in Call : CallInv(c)'
  BY <1>0, <1>2, JobType, CallApart DEF callVars
<1>5. OwnKeyOnly'
  BY DEF Encrypt, Decrypt, IInv, DataInv, OwnKeyOnly
<1>6. DataInv'
  BY <1>0 DEF IInv, DataInv
<1> QED BY <1>1, <1>3, <1>4, <1>5, <1>6 DEF IInv

\* A call begins on a server that has been returned.
LEMMA CallSteps ==
  ASSUME IInv, NEW c \in Call, CallEvaluate(c) \/ CallClose(c)
  PROVE  IInv'
<1>0. \E s \in Session, i \in Session :
        /\ pc[c] = "idle" /\ phase[s] = "open"
        /\ job' = [job EXCEPT ![c] = [server |-> s, input |-> i]]
        /\ \E p \in {"evaluate", "close"} : pc' = [pc EXCEPT ![c] = p]
        /\ UNCHANGED <<lineageVars, buildVars, cellVars, serverVars, dataVars, mu, attempts>>
  BY DEF CallEvaluate, CallClose, IInv, TypeOK
<1> PICK s \in Session, i \in Session, p \in {"evaluate", "close"} :
        /\ pc[c] = "idle" /\ phase[s] = "open"
        /\ job' = [job EXCEPT ![c] = [server |-> s, input |-> i]]
        /\ pc' = [pc EXCEPT ![c] = p]
        /\ UNCHANGED <<lineageVars, buildVars, cellVars, serverVars, dataVars, mu, attempts>>
  BY <1>0
<1>1. TypeOK'
  BY DEF IInv, TypeOK, lineageVars, buildVars, cellVars, serverVars, dataVars
<1>2. \A t \in Session : Same(t) /\ mu'[t] = mu[t]
  BY DEF Same, lineageVars, buildVars, cellVars, serverVars, dataVars
<1>3. \A t \in Session : ConstructorInv(t)' /\ ServerInv(t)'
  <2> TAKE t \in Session
  <2>1. \A d \in Call : Works(d, t) => Works(d, t)'
    BY DEF Works, Srv, IInv, TypeOK
  <2> QED BY <1>2, <2>1, Apart
<1>4. \A d \in Call : CallInv(d)'
  <2> TAKE d \in Call
  <2>1. CASE d = c
    <3>1. /\ pc'[c] \in {"evaluate", "close"} /\ job'[c] = [server |-> s, input |-> i]
          /\ phase' = phase
      BY DEF IInv, TypeOK, buildVars
    <3>2. job'[c] \in [server : Session, input : Session]
      BY <3>1
    <3> QED BY <2>1, <3>1, <3>2 DEF CallInv, Srv
  <2>2. CASE d # c
    <3>1. pc'[d] = pc[d] /\ job'[d] = job[d]
      BY <2>2 DEF IInv, TypeOK
    <3> QED BY <1>2, <3>1, JobType, CallApart
  <2> QED BY <2>1, <2>2
<1>5. DataInv' /\ OwnKeyOnly'
  BY DEF IInv, DataInv, OwnKeyOnly, dataVars
<1> QED BY <1>1, <1>3, <1>4, <1>5 DEF IInv

----------------------------------------------------------------------------
(* Steps of a call on its server.                                          *)

\* A refused call leaves everything but itself as it was.
LEMMA ServerRefuses ==
  ASSUME IInv, NEW c \in Call, EvaluateRefused(c)
  PROVE  IInv'
<1> PICK s \in Session : Srv(c) = s
  BY JobType DEF EvaluateRefused
<1>0. /\ pc[c] = "evaluate" /\ pc' = [pc EXCEPT ![c] = "idle"] /\ job' = [job EXCEPT ![c] = None]
      /\ mu[s] = None
      /\ UNCHANGED <<lineageVars, buildVars, cellVars, serverVars, dataVars, mu, attempts>>
  BY DEF EvaluateRefused, Done
<1>1. TypeOK'
  BY <1>0 DEF IInv, TypeOK, lineageVars, buildVars, cellVars, serverVars, dataVars
<1>2. \A t \in Session : Same(t)
  BY <1>0 DEF Same, lineageVars, buildVars, cellVars, serverVars, dataVars
<1>3. \A d \in Call : d # c => pc'[d] = pc[d] /\ job'[d] = job[d]
  BY <1>0 DEF IInv, TypeOK
<1>4. pc'[c] = "idle"
  BY <1>0 DEF IInv, TypeOK
<1>5. \A d \in Call : pc[d] \in {"run", "work"} => Srv(d) # s
  BY <1>0, SessionAssumption DEF IInv, CallInv
<1>6. ConstructorInv(s)' /\ ServerInv(s)'
  <2>1. \A d \in Call : Works(d, s) => Works(d, s)'
    BY <1>0, <1>3 DEF Works, Srv
  <2> QED BY <1>2, <2>1, Apart
<1>7. CallInv(c)'
  BY <1>4 DEF CallInv
<1>8. DataInv' /\ OwnKeyOnly'
  BY <1>0 DEF IInv, DataInv, OwnKeyOnly, dataVars
<1> QED BY <1>0, <1>1, <1>2, <1>3, <1>4, <1>5, <1>6, <1>7, <1>8, ServerFrame DEF Same

\* Close finds the lock free, so nobody is inside a run.
LEMMA ServerCloses ==
  ASSUME IInv, NEW c \in Call, Close(c)
  PROVE  IInv'
<1> PICK s \in Session : Srv(c) = s
  BY JobType DEF Close
<1>0. /\ pc[c] = "close" /\ pc' = [pc EXCEPT ![c] = "idle"] /\ job' = [job EXCEPT ![c] = None]
      /\ mu[s] = None /\ phase[s] = "open"
      /\ closed' = [closed EXCEPT ![s] = TRUE]
      /\ available' = [available EXCEPT ![s] = FALSE]
      /\ prepared' = [prepared EXCEPT ![s] = FALSE]
      /\ UNCHANGED <<lineageVars, buildVars, used, calls, dataVars, mu, attempts>>
  BY JobType DEF Close, Done
<1>1. TypeOK'
  BY <1>0 DEF IInv, TypeOK, lineageVars, buildVars, dataVars
<1>2. \A t \in Session : t # s => Same(t)
  BY <1>0 DEF IInv, TypeOK, Same, lineageVars, buildVars
<1>3. \A d \in Call : d # c => pc'[d] = pc[d] /\ job'[d] = job[d]
  BY <1>0 DEF IInv, TypeOK
<1>4. pc'[c] = "idle" /\ available'[s] = FALSE
  BY <1>0 DEF IInv, TypeOK
<1>5. \A d \in Call : pc[d] \in {"run", "work"} => Srv(d) # s
  BY <1>0, SessionAssumption DEF IInv, CallInv
<1>6. ConstructorInv(s)'
  BY <1>0 DEF IInv, ConstructorInv, lineageVars, buildVars
<1>7. ServerInv(s)'
  BY <1>0, <1>4 DEF IInv, ServerInv
<1>8. CallInv(c)'
  BY <1>4 DEF CallInv
<1>9. DataInv' /\ OwnKeyOnly'
  BY <1>0 DEF IInv, DataInv, OwnKeyOnly, dataVars
<1>10. phase'[s] = phase[s]
  BY <1>0 DEF buildVars
<1> QED BY <1>0, <1>1, <1>2, <1>3, <1>4, <1>5, <1>6, <1>7, <1>8, <1>9, <1>10, ServerFrame

\* The lock is free, so this is the first run of a depth-2 server and no other
\* run of an A2B server is inside.
LEMMA ServerAccepts ==
  ASSUME IInv, NEW c \in Call, Evaluate(c)
  PROVE  IInv'
<1> PICK s \in Session : Srv(c) = s
  BY JobType DEF Evaluate
<1>0. /\ pc[c] = "evaluate" /\ pc' = [pc EXCEPT ![c] = "run"] /\ job' = job
      /\ mu[s] = None /\ mu' = [mu EXCEPT ![s] = c]
      /\ phase[s] = "open" /\ job[c].input = s /\ ~closed[s] /\ available[s]
      /\ Kind[s] = "depth2" => ~used[s]
      /\ used' = [used EXCEPT ![s] = Kind[s] = "depth2"]
      /\ attempts' = [attempts EXCEPT ![s] = IF Kind[s] = "depth2" THEN @ + 1 ELSE @]
      /\ UNCHANGED <<lineageVars, buildVars, cellVars, calls, closed, dataVars>>
  BY JobType DEF Evaluate, Admissible
<1>1. TypeOK'
  BY <1>0 DEF IInv, TypeOK, lineageVars, buildVars, cellVars, dataVars
<1>2. \A t \in Session : t # s => Same(t) /\ mu'[t] = mu[t]
  BY <1>0 DEF IInv, TypeOK, Same, lineageVars, buildVars, cellVars
<1>3. \A d \in Call : d # c => pc'[d] = pc[d] /\ job'[d] = job[d]
  BY <1>0 DEF IInv, TypeOK
<1>4. /\ pc'[c] = "run" /\ Srv(c)' = s /\ mu'[s] = c
      /\ used'[s] = (Kind[s] = "depth2")
      /\ attempts'[s] = IF Kind[s] = "depth2" THEN attempts[s] + 1 ELSE attempts[s]
  BY <1>0 DEF IInv, TypeOK, Srv
<1>5. \A d \in Call : pc[d] \in {"run", "work"} => Srv(d) # s
  BY <1>0, SessionAssumption DEF IInv, CallInv
<1>6. ConstructorInv(s)'
  BY <1>0 DEF IInv, ConstructorInv, lineageVars, buildVars
<1>7. ServerInv(s)'
  <2>1. \A d \in Call : ~Works(d, s) /\ ~Works(d, s)'
    BY <1>3, <1>4, <1>5 DEF Works, Srv
  <2>2. ServerInv(s) /\ ~used[s]
    BY <1>0 DEF IInv, ServerInv
  <2>3. Matches(s)' <=> Matches(s)
    BY <1>0 DEF Matches, lineageVars, cellVars
  <2> QED
    BY <1>0, <1>4, <2>1, <2>2, <2>3, SessionAssumption DEF ServerInv, IInv, TypeOK, lineageVars,
       buildVars, cellVars
<1>8. CallInv(c)'
  <2>1. job'[c] \in [server : Session, input : Session] /\ job'[c].input = s
    BY <1>0 DEF IInv, CallInv
  <2>2. phase'[s] = "open" /\ ~closed'[s] /\ available'[s]
    BY <1>0 DEF buildVars, cellVars
  <2> QED BY <1>4, <2>1, <2>2 DEF CallInv
<1>9. DataInv' /\ OwnKeyOnly'
  BY <1>0 DEF IInv, DataInv, OwnKeyOnly, dataVars
<1>10. phase'[s] = phase[s]
  BY <1>0 DEF buildVars
<1> QED BY <1>0, <1>1, <1>2, <1>3, <1>4, <1>5, <1>6, <1>7, <1>8, <1>9, <1>10, ServerFrame

\* The holder of the lock wins the lineage: with the first operation or, when
\* the counter says there was one, with the prepared circuit.
LEMMA RunWins ==
  ASSUME IInv, NEW c \in Call, RunBegins(c)
  PROVE  IInv'
<1> PICK s \in Session : Srv(c) = s
  BY JobType DEF RunBegins
<1>0. /\ pc[c] = "run" /\ pc' = [pc EXCEPT ![c] = "work"] /\ job' = job
      /\ mu[s] = c /\ phase[s] = "open"
      /\ stage[s] \in {"InstalledUnverified", "Operational"}
      /\ stage' = [stage EXCEPT ![s] = "Preflighting"]
      /\ Kind[s] = "depth2" => used[s]
      /\ UNCHANGED <<buildVars, cellVars, serverVars, dataVars, mu, attempts>>
  <2>1. pc[c] = "run" /\ mu[s] = c /\ phase[s] = "open" /\ (Kind[s] = "depth2" => used[s])
    BY JobType DEF RunBegins, IInv, CallInv
  <2>2. /\ stage[s] \in {"InstalledUnverified", "Operational"}
        /\ stage' = [stage EXCEPT ![s] = "Preflighting"]
    BY DEF RunBegins, Runnable, Lineages!Begin, Lineages!Resume, Lineages!Move
  <2> QED BY <2>1, <2>2 DEF RunBegins
<1>f. stage[s] # "Failed" => evidence[s] = Samples(stage[s])
  BY DEF IInv, ConstructorInv
<1>l. /\ stage' \in [Session -> Stages] /\ evidence' \in [Session -> 0..5] /\ handed' = handed
      /\ \A t \in Session : t # s => stage'[t] = stage[t] /\ evidence'[t] = evidence[t]
      /\ stage'[s] # "Failed" => evidence'[s] = Samples(stage'[s])
  BY <1>f, LineageStep DEF RunBegins, IInv
<1>1. TypeOK'
  BY <1>0, <1>l DEF IInv, TypeOK, Stages, buildVars, cellVars, serverVars, dataVars
<1>2. \A t \in Session : t # s => Same(t) /\ mu'[t] = mu[t]
  BY <1>0, <1>l DEF IInv, TypeOK, Same, buildVars, cellVars, serverVars
<1>3. \A d \in Call : d # c => pc'[d] = pc[d] /\ job'[d] = job[d]
  BY <1>0 DEF IInv, TypeOK
<1>4. pc'[c] = "work" /\ Srv(c)' = s /\ stage'[s] = "Preflighting"
  BY <1>0 DEF IInv, TypeOK, Srv
<1>5. \A d \in Call : d # c /\ pc[d] \in {"run", "work"} => Srv(d) # s
  BY <1>0, OneRun
<1>6. ConstructorInv(s)'
  BY <1>0, <1>4, <1>l DEF IInv, ConstructorInv, buildVars
<1>7. ServerInv(s)'
  <2>1. Works(c, s)'
    BY <1>4 DEF Works
  <2> QED BY <1>0, <2>1 DEF IInv, ServerInv, serverVars
<1>8. CallInv(c)'
  BY <1>0, <1>4 DEF IInv, CallInv, Srv, buildVars, cellVars, serverVars
<1>9. DataInv' /\ OwnKeyOnly'
  BY <1>0 DEF IInv, DataInv, OwnKeyOnly, dataVars
<1>10. phase'[s] = phase[s]
  BY <1>0 DEF buildVars
<1> QED BY <1>0, <1>1, <1>2, <1>3, <1>4, <1>5, <1>6, <1>7, <1>8, <1>9, <1>10, ServerFrame

\* A refused run gives the lock back and has charged nobody.
LEMMA RunGivesUp ==
  ASSUME IInv, NEW c \in Call, RunRefused(c)
  PROVE  IInv'
<1> PICK s \in Session : Srv(c) = s
  BY JobType DEF RunRefused
<1>0. /\ pc[c] = "run" /\ pc' = [pc EXCEPT ![c] = "idle"] /\ job' = [job EXCEPT ![c] = None]
      /\ mu' = [mu EXCEPT ![s] = None]
      /\ UNCHANGED <<lineageVars, buildVars, cellVars, serverVars, dataVars, attempts>>
  BY DEF RunRefused, Unlock, Done
<1>1. TypeOK'
  BY <1>0 DEF IInv, TypeOK, lineageVars, buildVars, cellVars, serverVars, dataVars
<1>2. Same(s) /\ \A t \in Session : t # s => Same(t) /\ mu'[t] = mu[t]
  BY <1>0 DEF Same, lineageVars, buildVars, cellVars, serverVars, IInv, TypeOK
<1>3. \A d \in Call : d # c => pc'[d] = pc[d] /\ job'[d] = job[d]
  BY <1>0 DEF IInv, TypeOK
<1>4. pc'[c] = "idle"
  BY <1>0 DEF IInv, TypeOK
<1>5. \A d \in Call : d # c /\ pc[d] \in {"run", "work"} => Srv(d) # s
  BY <1>0, OneRun
<1>6. ConstructorInv(s)' /\ ServerInv(s)'
  <2>1. \A d \in Call : Works(d, s) => Works(d, s)'
    BY <1>0, <1>3 DEF Works, Srv
  <2> QED BY <1>2, <2>1, Apart
<1>7. CallInv(c)'
  BY <1>4 DEF CallInv
<1>8. DataInv' /\ OwnKeyOnly'
  BY <1>0 DEF IInv, DataInv, OwnKeyOnly, dataVars
<1> QED BY <1>0, <1>1, <1>2, <1>3, <1>4, <1>5, <1>6, <1>7, <1>8, ServerFrame DEF Same

\* A failed run leaves no evaluator behind.
LEMMA RunBreaks ==
  ASSUME IInv, NEW c \in Call, RunFails(c)
  PROVE  IInv'
<1> PICK s \in Session : Srv(c) = s
  BY JobType DEF RunFails
<1>0. /\ pc[c] = "work" /\ pc' = [pc EXCEPT ![c] = "idle"] /\ job' = [job EXCEPT ![c] = None]
      /\ mu' = [mu EXCEPT ![s] = None] /\ phase[s] = "open"
      /\ stage' = [stage EXCEPT ![s] = "Failed"]
      /\ available' = [available EXCEPT ![s] = FALSE]
      /\ prepared' = [prepared EXCEPT ![s] = FALSE]
      /\ UNCHANGED <<buildVars, serverVars, dataVars, attempts>>
  BY JobType DEF RunFails, Unlock, Done, Lineages!Fail
<1>f. stage[s] # "Failed" => evidence[s] = Samples(stage[s])
  BY DEF IInv, ConstructorInv
<1>l. /\ stage' \in [Session -> Stages] /\ evidence' \in [Session -> 0..5] /\ handed' = handed
      /\ \A t \in Session : t # s => stage'[t] = stage[t] /\ evidence'[t] = evidence[t]
      /\ stage'[s] # "Failed" => evidence'[s] = Samples(stage'[s])
  BY <1>f, LineageStep DEF RunFails, IInv
<1>1. TypeOK'
  BY <1>0, <1>l DEF IInv, TypeOK, Stages, buildVars, serverVars, dataVars
<1>2. \A t \in Session : t # s => Same(t) /\ mu'[t] = mu[t]
  BY <1>0, <1>l DEF IInv, TypeOK, Same, buildVars, serverVars
<1>3. \A d \in Call : d # c => pc'[d] = pc[d] /\ job'[d] = job[d]
  BY <1>0 DEF IInv, TypeOK
<1>4. pc'[c] = "idle" /\ stage'[s] = "Failed" /\ available'[s] = FALSE
  BY <1>0 DEF IInv, TypeOK
<1>5. \A d \in Call : d # c /\ pc[d] \in {"run", "work"} => Srv(d) # s
  BY <1>0, OneRun
<1>6. ConstructorInv(s)'
  BY <1>0, <1>4, <1>l DEF IInv, ConstructorInv, buildVars
<1>7. ServerInv(s)'
  BY <1>0, <1>4 DEF IInv, ServerInv, serverVars
<1>8. CallInv(c)'
  BY <1>4 DEF CallInv
<1>9. DataInv' /\ OwnKeyOnly'
  BY <1>0 DEF IInv, DataInv, OwnKeyOnly, dataVars
<1>10. phase'[s] = phase[s]
  BY <1>0 DEF buildVars
<1> QED BY <1>0, <1>1, <1>2, <1>3, <1>4, <1>5, <1>6, <1>7, <1>8, <1>9, <1>10, ServerFrame

\* A completed run is counted, keeps its circuit and returns a result under the
\* key of its own session.
LEMMA RunCompletes ==
  ASSUME IInv, NEW c \in Call, RunEnds(c)
  PROVE  IInv'
<1> PICK s \in Session : Srv(c) = s
  BY JobType DEF RunEnds
<1>0. /\ pc[c] = "work" /\ pc' = [pc EXCEPT ![c] = "idle"] /\ job' = [job EXCEPT ![c] = None]
      /\ mu' = [mu EXCEPT ![s] = None] /\ phase[s] = "open" /\ job[c].input = s
      /\ Kind[s] = "depth2" => used[s]
      /\ stage' = [stage EXCEPT ![s] = "Operational"]
      /\ prepared' = [prepared EXCEPT ![s] = Kind[s] = "a2b"]
      /\ calls' = [calls EXCEPT ![s] = Count(s)]
      /\ outputs' = outputs \cup {[key |-> s, session |-> s]}
      /\ UNCHANGED <<buildVars, available, used, closed, inputs, opened, attempts>>
  <2>1. /\ pc[c] = "work" /\ phase[s] = "open" /\ job[c].input = s /\ stage[s] = "Preflighting"
        /\ Kind[s] = "depth2" => used[s]
    BY JobType DEF RunEnds, IInv, CallInv
  <2>2. stage' = [stage EXCEPT ![s] = "Operational"]
    BY <2>1 DEF RunEnds, Lineages!Finish, Lineages!Move
  <2> QED BY <2>1, <2>2 DEF RunEnds, Unlock, Done
<1>f. stage[s] # "Failed" => evidence[s] = Samples(stage[s])
  BY DEF IInv, ConstructorInv
<1>l. /\ stage' \in [Session -> Stages] /\ evidence' \in [Session -> 0..5] /\ handed' = handed
      /\ \A t \in Session : t # s => stage'[t] = stage[t] /\ evidence'[t] = evidence[t]
      /\ stage'[s] # "Failed" => evidence'[s] = Samples(stage'[s])
  BY <1>f, LineageStep DEF RunEnds, IInv
<1>c. Count(s) \in 0..MaxCalls /\ (Kind[s] = "a2b" => Count(s) # 0)
  BY SessionAssumption DEF Count, IInv, TypeOK
<1>1. TypeOK'
  <2>1. calls' \in [Session -> 0..MaxCalls]
    BY <1>0, <1>c DEF IInv, TypeOK
  <2>2. outputs' \subseteq [key : Session, session : Session]
    BY <1>0 DEF IInv, TypeOK
  <2> QED BY <1>0, <1>l, <2>1, <2>2 DEF IInv, TypeOK, Stages, buildVars
<1>2. \A t \in Session : t # s => Same(t) /\ mu'[t] = mu[t]
  BY <1>0, <1>l DEF IInv, TypeOK, Same, buildVars
<1>3. \A d \in Call : d # c => pc'[d] = pc[d] /\ job'[d] = job[d]
  BY <1>0 DEF IInv, TypeOK
<1>4. /\ pc'[c] = "idle" /\ stage'[s] = "Operational" /\ calls'[s] = Count(s)
      /\ prepared'[s] = (Kind[s] = "a2b")
  BY <1>0 DEF IInv, TypeOK
<1>5. \A d \in Call : d # c /\ pc[d] \in {"run", "work"} => Srv(d) # s
  BY <1>0, OneRun
<1>6. ConstructorInv(s)'
  BY <1>0, <1>4, <1>l DEF IInv, ConstructorInv, buildVars
<1>7. ServerInv(s)'
  <2>1. Kind[s] = "a2b" => Matches(s)'
    BY <1>4, <1>c DEF Matches
  <2> QED BY <1>0, <2>1 DEF IInv, ServerInv
<1>8. CallInv(c)'
  BY <1>4 DEF CallInv
<1>9. DataInv' /\ OwnKeyOnly'
  BY <1>0 DEF IInv, DataInv, OwnKeyOnly
<1>10. phase'[s] = phase[s]
  BY <1>0 DEF buildVars
<1> QED BY <1>0, <1>1, <1>2, <1>3, <1>4, <1>5, <1>6, <1>7, <1>8, <1>9, <1>10, ServerFrame

----------------------------------------------------------------------------
(* The theorems.                                                           *)

\* The initial states satisfy the inductive invariant.
LEMMA SessionInit == Init => IInv
<1> SUFFICES ASSUME Init PROVE IInv
  OBVIOUS
<1> USE DEF Init, Lineages!Init
<1>1. TypeOK
  BY SessionAssumption DEF TypeOK, Phases
<1>2. ASSUME NEW s \in Session PROVE ConstructorInv(s) /\ ServerInv(s)
  BY DEF ConstructorInv, Unopened, Samples, ServerInv
<1>3. \A c \in Call : CallInv(c)
  BY DEF CallInv
<1>4. DataInv /\ OwnKeyOnly
  BY DEF DataInv, OwnKeyOnly
<1> QED BY <1>1, <1>2, <1>3, <1>4 DEF IInv

\* Every step preserves it.
LEMMA SessionStep == IInv /\ [Next]_vars => IInv'
<1> SUFFICES ASSUME IInv, [Next]_vars PROVE IInv'
  OBVIOUS
<1>1. CASE UNCHANGED vars
  <2>1. TypeOK' /\ DataInv' /\ OwnKeyOnly'
    BY <1>1 DEF IInv, TypeOK, DataInv, OwnKeyOnly, vars
  <2>2. \A t \in Session : Same(t)
    BY <1>1 DEF Same, vars
  <2>3. \A t \in Session : ConstructorInv(t)' /\ ServerInv(t)'
    <3> TAKE t \in Session
    <3>1. \A c \in Call : Works(c, t) => Works(c, t)'
      BY <1>1 DEF Works, Srv, vars
    <3> QED BY <2>2, <3>1, Apart
  <2>4. \A c \in Call : CallInv(c)'
    BY <1>1, <2>2, JobType, CallApart DEF vars
  <2> QED BY <2>1, <2>3, <2>4 DEF IInv
<1>2. CASE \E s \in Session : Construct(s) \/ Encrypt(s) \/ Decrypt(s)
  <2> PICK s \in Session : Construct(s) \/ Encrypt(s) \/ Decrypt(s)
    BY <1>2
  <2> QED BY ConstructQuietly, ConstructStage, ConstructOpens, ClientSteps DEF Construct
<1>3. CASE \E c \in Call : CallEvaluate(c) \/ CallClose(c) \/ Locking(c) \/ Running(c)
  <2> PICK c \in Call : CallEvaluate(c) \/ CallClose(c) \/ Locking(c) \/ Running(c)
    BY <1>3
  <2> QED
    BY CallSteps, ServerAccepts, ServerRefuses, ServerCloses, RunWins, RunGivesUp, RunBreaks,
       RunCompletes DEF Locking, Running
<1> QED BY <1>1, <1>2, <1>3 DEF Next

\* Constructor, lineage, server and callers of every session stay in step.
THEOREM Sessions == Spec => []IInv
  BY SessionInit, SessionStep, PTL DEF Spec

\* For any number of sessions, whichever of their handles the callers mix up, a
\* client only decrypts results under its own key (route_b_a2b_session.go:229,
\* route_b_depth2_session.go:320).
THEOREM OwnKey == Spec => []OwnKeyOnly
<1>1. IInv => OwnKeyOnly
  BY DEF IInv
<1> QED BY <1>1, Sessions, PTL

\* For any number of callers, the evaluator a run has checked stays until that
\* run returns (route_b_a2b_session.go:232 and 242).
THEOREM NotClosed == Spec => []NotClosedDuringRun
<1>1. IInv => NotClosedDuringRun
  BY DEF IInv, CallInv, NotClosedDuringRun
<1> QED BY <1>1, Sessions, PTL

\* An idle A2B server's counter selects the run its lineage is ready for, and a
\* depth-2 server starts at most one run (route_b_a2b_session.go:242,
\* route_b_depth2_session.go:329).
THEOREM Counted == Spec => []CallsCounted
<1>1. IInv => CallsCounted
  <2> SUFFICES ASSUME IInv PROVE CallsCounted
    OBVIOUS
  <2>1. CallsMatchLineage
    <3> SUFFICES ASSUME NEW s \in Session, phase[s] = "open", Kind[s] = "a2b", mu[s] = None,
                        available[s]
                 PROVE  Matches(s)
      BY DEF CallsMatchLineage, Matches
    <3>1. \A c \in Call : ~Works(c, s)
      BY SessionAssumption DEF IInv, CallInv, Works
    <3> QED BY <3>1 DEF IInv, ServerInv
  <2>2. SingleAttempt
    BY DEF IInv, ServerInv, SingleAttempt
  <2> QED BY <2>1, <2>2 DEF CallsCounted
<1> QED BY <1>1, Sessions, PTL

\* A constructor that returned an error holds no matrices and has published no
\* evaluator (route_b_depth2_session.go:110, route_b_a2b_session.go:102).
THEOREM FailedClean == Spec => []FailedLeavesNothing
<1>1. IInv => FailedLeavesNothing
  BY DEF IInv, ConstructorInv, Unopened, FailedLeavesNothing
<1> QED BY <1>1, Sessions, PTL
=============================================================================
