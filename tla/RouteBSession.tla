--------------------------- MODULE RouteBSession ---------------------------
(***************************************************************************)
(* The two client/server sessions over a Route-B lineage: the depth-2      *)
(* tree session, which serves one request, and the A2B session, which      *)
(* prepares its circuit on the first call and reuses it afterwards.        *)
(*                                                                         *)
(* New...Session drives Authority -> Build -> Ready -> Install in one      *)
(* goroutine and cleans up on the way out when a stage fails.  Goroutines  *)
(* then evaluate inputs on the server or close it; server.mu serialises    *)
(* them.  Inputs and outputs are values the callers hold: they may be kept *)
(* back, presented twice, after Close or to the wrong session.             *)
(*                                                                         *)
(* The lineage itself is LineageLifecycle, the specification RouteBLineage *)
(* implements; a stage call here takes its steps and may in addition be    *)
(* refused before any of them (capacity, preparation, validation).         *)
(***************************************************************************)
EXTENDS Naturals, FiniteSets

CONSTANTS
  Session,      \* one authority, lineage, client and server each
  A2BSession,   \* the A2B sessions among them; the others are depth-2 sessions
  Call,         \* goroutines calling the servers
  MaxCalls,     \* where the count of an A2B server's completed calls stops
  MaxBegun,     \* bound of a run: sessions whose construction begins
  None

ASSUME SessionAssumption ==
  /\ A2BSession \subseteq Session
  /\ MaxCalls \in Nat \ {0}
  /\ MaxBegun \in Nat
  /\ None \notin Call

Kind == [s \in Session |-> IF s \in A2BSession THEN "a2b" ELSE "depth2"]

VARIABLES
  stage,      \* lineage state, as in LineageLifecycle
  evidence,   \* capacity sample the lineage rests on, counted per lineage
  handed,     \* Install returned the evaluator
  phase,      \* where New...Session is
  artifact,   \* the matrices in the constructor's hands
  available,  \* installed.IsZero() is false
  prepared,   \* the installed cell holds the prepared A2B circuit
  used,       \* RouteBDepth2Server.used
  calls,      \* RouteBA2BServer.calls
  closed,     \* server.closed; server.installed is nil from then on
  mu,         \* holder of server.mu
  inputs,     \* sessions whose client has encrypted an input
  outputs,    \* results: key they are encrypted under, session they carry
  opened,     \* pairs of client and key of a decrypted result
  attempts,   \* runs a depth-2 server has started
  pc,         \* where a caller is
  job         \* the caller's server and input

lineageVars == <<stage, evidence, handed>>
buildVars   == <<phase, artifact>>
cellVars    == <<available, prepared>>
serverVars  == <<used, calls, closed>>
dataVars    == <<inputs, outputs, opened>>
callVars    == <<mu, attempts, pc, job>>
vars == <<stage, evidence, handed, phase, artifact, available, prepared, used, calls,
          closed, mu, inputs, outputs, opened, attempts, pc, job>>

Lineages == INSTANCE LineageLifecycle WITH
              Authority <- Session,
              Lineage   <- Session,
              Owner     <- [s \in Session |-> s]

StagePhases == {"build", "ready", "install"}
Phases == {"none", "authorize", "params", "cleanup", "failed", "open"} \cup StagePhases

\* The state a constructor's stage call finds.
Expected(p) == CASE p = "build"   -> "Authorized"
                 [] p = "ready"   -> "PrivateUninstalled"
                 [] p = "install" -> "Ready"

TypeOK ==
  /\ stage \in [Session -> {"Zero", "Authorized", "PrivateUninstalled", "Ready",
                            "InstalledUnverified", "Operational", "Failed"}
                           \cup Lineages!InProgress]
  /\ evidence \in [Session -> 0..5]
  /\ handed \in [Session -> BOOLEAN]
  /\ phase \in [Session -> Phases]
  /\ artifact \in [Session -> {"none", "resident", "released"}]
  /\ available \in [Session -> BOOLEAN]
  /\ prepared \in [Session -> BOOLEAN]
  /\ used \in [Session -> BOOLEAN]
  /\ calls \in [Session -> 0..MaxCalls]
  /\ closed \in [Session -> BOOLEAN]
  /\ mu \in [Session -> Call \cup {None}]
  /\ inputs \subseteq Session
  /\ outputs \subseteq [key : Session, session : Session]
  /\ opened \subseteq [client : Session, key : Session]
  /\ attempts \in [Session -> Nat]
  /\ pc \in [Call -> {"idle", "evaluate", "close", "run", "work"}]
  /\ job \in [Call -> [server : Session, input : Session] \cup {None}]

Init ==
  /\ Lineages!Init
  /\ phase = [s \in Session |-> "none"]
  /\ artifact = [s \in Session |-> "none"]
  /\ available = [s \in Session |-> FALSE]
  /\ prepared = [s \in Session |-> FALSE]
  /\ used = [s \in Session |-> FALSE]
  /\ calls = [s \in Session |-> 0]
  /\ closed = [s \in Session |-> FALSE]
  /\ mu = [s \in Session |-> None]
  /\ inputs = {} /\ outputs = {} /\ opened = {}
  /\ attempts = [s \in Session |-> 0]
  /\ pc = [c \in Call |-> "idle"]
  /\ job = [c \in Call |-> None]

----------------------------------------------------------------------------
(* New...Session.                                                          *)

Phase(s, p) == phase' = [phase EXCEPT ![s] = p]

\* The next capacity sample of the session's own authority.
Newer(s) == evidence' = [evidence EXCEPT ![s] = @ + 1]

\* The deferred cleanup is registered once BeginBuild has returned.
Bail(s) == Phase(s, IF phase[s] \in {"none", "authorize", "build"} THEN "failed" ELSE "cleanup")

\* NewRouteBAuthority validates the canonical inputs, or fails.
New(s) ==
  /\ phase[s] = "none" /\ Cardinality({t \in Session : phase[t] # "none"}) < MaxBegun
  /\ Phase(s, "authorize") \/ Bail(s)
  /\ UNCHANGED <<lineageVars, artifact, cellVars, serverVars, dataVars, callVars>>

Authorize(s) ==
  /\ phase[s] = "authorize"
  /\ Newer(s) /\ Lineages!Mint(s)
  /\ Phase(s, "build")
  /\ UNCHANGED <<artifact, cellVars, serverVars, dataVars, callVars>>

\* A stage call that returns its error before it has won the lineage, or the
\* parameters of the client that cannot be prepared.
Refused(s) ==
  /\ \/ phase[s] \in {"authorize", "params"}
     \/ phase[s] \in StagePhases /\ stage[s] = Expected(phase[s])
  /\ Bail(s)
  /\ UNCHANGED <<lineageVars, artifact, cellVars, serverVars, dataVars, callVars>>

StageBegins(s) ==
  /\ phase[s] \in StagePhases /\ stage[s] = Expected(phase[s])
  /\ Newer(s) /\ Lineages!Begin(s)
  /\ UNCHANGED <<buildVars, cellVars, serverVars, dataVars, callVars>>

\* The stage has cleared the payload itself when it returns.
StageFails(s) ==
  /\ phase[s] \in StagePhases
  /\ Lineages!Fail(s)
  /\ artifact' = [artifact EXCEPT ![s] = IF phase[s] = "build" THEN "none" ELSE "released"]
  /\ Bail(s)
  /\ UNCHANGED <<cellVars, serverVars, dataVars, callVars>>

StageEnds(s) ==
  /\ phase[s] \in StagePhases
  /\ Lineages!Finish(s)
  /\ artifact' = [artifact EXCEPT ![s] = CASE phase[s] = "build"   -> "resident"
                                           [] phase[s] = "install" -> "released"
                                           [] OTHER                -> @]
  /\ Phase(s, CASE phase[s] = "build" -> "ready"
                [] phase[s] = "ready" -> "params"
                [] OTHER              -> "install")
  /\ UNCHANGED <<cellVars, serverVars, dataVars, callVars>>

\* Client parameters, encoder and secret key exist; Install is next.
Params(s) ==
  /\ phase[s] = "params"
  /\ Phase(s, "install")
  /\ UNCHANGED <<lineageVars, artifact, cellVars, serverVars, dataVars, callVars>>

Open(s) ==
  /\ phase[s] = "install"
  /\ Lineages!HandOver(s)
  /\ available' = [available EXCEPT ![s] = TRUE]
  /\ Phase(s, "open")
  /\ UNCHANGED <<artifact, prepared, serverVars, dataVars, callVars>>

\* Fault: the error path drops the handles and leaves the matrices.
Cleanup_Forgets(s) ==
  /\ phase[s] = "cleanup"
  /\ Phase(s, "failed")
  /\ UNCHANGED <<lineageVars, artifact, cellVars, serverVars, dataVars, callVars>>

Cleanup(s) ==
  /\ phase[s] = "cleanup"
  /\ artifact' = [artifact EXCEPT ![s] = "released"]
  /\ Phase(s, "failed")
  /\ UNCHANGED <<lineageVars, cellVars, serverVars, dataVars, callVars>>

Construct(s) ==
  \/ New(s) \/ Authorize(s) \/ Refused(s) \/ StageBegins(s) \/ StageFails(s)
  \/ StageEnds(s) \/ Params(s) \/ Open(s) \/ Cleanup(s)

----------------------------------------------------------------------------
(* The client.                                                             *)

Encrypt(s) ==
  /\ phase[s] = "open" /\ s \notin inputs
  /\ inputs' = inputs \cup {s}
  /\ UNCHANGED <<lineageVars, buildVars, cellVars, serverVars, outputs, opened, callVars>>

\* Outputs outlive their server: the client decrypts them after Close too.
Decrypt(s) ==
  /\ phase[s] = "open"
  /\ \E o \in outputs : /\ o.session = s
                        /\ opened' = opened \cup {[client |-> s, key |-> o.key]}
  /\ UNCHANGED <<lineageVars, buildVars, cellVars, serverVars, inputs, outputs, callVars>>

----------------------------------------------------------------------------
(* The server.                                                             *)

Srv(c) == job[c].server

\* The code only asks whether calls is 0: the count stops at MaxCalls.
Count(s) == IF Kind[s] = "a2b" /\ calls[s] < MaxCalls THEN calls[s] + 1 ELSE calls[s]

CallEvaluate(c) ==
  /\ pc[c] = "idle"
  /\ \E s \in Session, i \in inputs :
       /\ phase[s] = "open" /\ Kind[s] = Kind[i]
       /\ job' = [job EXCEPT ![c] = [server |-> s, input |-> i]]
  /\ pc' = [pc EXCEPT ![c] = "evaluate"]
  /\ UNCHANGED <<lineageVars, buildVars, cellVars, serverVars, dataVars, mu, attempts>>

CallClose(c) ==
  /\ pc[c] = "idle"
  /\ \E s \in Session :
       /\ phase[s] = "open"
       /\ job' = [job EXCEPT ![c] = [server |-> s, input |-> s]]
  /\ pc' = [pc EXCEPT ![c] = "close"]
  /\ UNCHANGED <<lineageVars, buildVars, cellVars, serverVars, dataVars, mu, attempts>>

Done(c) ==
  /\ pc' = [pc EXCEPT ![c] = "idle"]
  /\ job' = [job EXCEPT ![c] = None]

\* Every return runs the deferred server.mu.Unlock.
Unlock(c) == Done(c) /\ mu' = [mu EXCEPT ![Srv(c)] = None]

\* Fault: the server takes an input of any session.
Admissible_AnySession(c) ==
  LET s == Srv(c) IN ~closed[s] /\ available[s] /\ (Kind[s] = "depth2" => ~used[s])

Admissible(c) ==
  LET s == Srv(c) IN
  /\ job[c].input = s
  /\ ~closed[s] /\ available[s]
  /\ Kind[s] = "depth2" => ~used[s]

\* Fault: used is left for a run that ends well to set.
Evaluate_LeavesUnused(c) ==
  LET s == Srv(c) IN
  /\ pc[c] = "evaluate" /\ mu[s] = None
  /\ Admissible(c)
  /\ mu' = [mu EXCEPT ![s] = c]
  /\ attempts' = [attempts EXCEPT ![s] = IF Kind[s] = "depth2" THEN @ + 1 ELSE @]
  /\ pc' = [pc EXCEPT ![c] = "run"]
  /\ UNCHANGED <<lineageVars, buildVars, cellVars, serverVars, dataVars, job>>

\* Lock, check, and start the run; a depth-2 server is used up from here on.
Evaluate(c) ==
  LET s == Srv(c) IN
  /\ pc[c] = "evaluate" /\ mu[s] = None
  /\ Admissible(c)
  /\ mu' = [mu EXCEPT ![s] = c]
  /\ used' = [used EXCEPT ![s] = Kind[s] = "depth2"]
  /\ attempts' = [attempts EXCEPT ![s] = IF Kind[s] = "depth2" THEN @ + 1 ELSE @]
  /\ pc' = [pc EXCEPT ![c] = "run"]
  /\ UNCHANGED <<lineageVars, buildVars, cellVars, calls, closed, dataVars, job>>

EvaluateRefused(c) ==
  /\ pc[c] = "evaluate" /\ mu[Srv(c)] = None
  /\ ~Admissible(c)
  /\ Done(c)
  /\ UNCHANGED <<lineageVars, buildVars, cellVars, serverVars, dataVars, mu, attempts>>

\* The run an A2B server selects: the first operation, or the prepared circuit.
First(c) == Kind[Srv(c)] = "depth2" \/ calls[Srv(c)] = 0

\* What the selected run needs before it may win the lineage.
Runnable(c) ==
  LET s == Srv(c) IN
  IF First(c) THEN stage[s] = "InstalledUnverified"
              ELSE stage[s] = "Operational" /\ prepared[s]

RunBegins(c) ==
  LET s == Srv(c) IN
  /\ pc[c] = "run"
  /\ Runnable(c)
  /\ IF First(c) THEN Newer(s) /\ Lineages!Begin(s) ELSE Lineages!Resume(s)
  /\ pc' = [pc EXCEPT ![c] = "work"]
  /\ UNCHANGED <<buildVars, cellVars, serverVars, dataVars, mu, attempts, job>>

\* Fault: the error return skips the unlock.
RunRefused_KeepsLock(c) ==
  /\ pc[c] = "run"
  /\ First(c) \/ ~Runnable(c)
  /\ Done(c)
  /\ UNCHANGED <<lineageVars, buildVars, cellVars, serverVars, dataVars, mu, attempts>>

\* Fault: the call is counted although it was refused.
RunRefused_Counts(c) ==
  /\ pc[c] = "run"
  /\ First(c) \/ ~Runnable(c)
  /\ calls' = [calls EXCEPT ![Srv(c)] = Count(Srv(c))]
  /\ Unlock(c)
  /\ UNCHANGED <<lineageVars, buildVars, cellVars, used, closed, dataVars, attempts>>

\* Fault: the lineage is charged for a sample whose operation was refused.
RunRefused_Consumes(c) ==
  /\ pc[c] = "run"
  /\ First(c) \/ ~Runnable(c)
  /\ Newer(Srv(c))
  /\ Unlock(c)
  /\ UNCHANGED <<stage, handed, buildVars, cellVars, serverVars, dataVars, attempts>>

\* A first operation may be refused by the host's memory or the preparation of
\* the stored parameters; the prepared circuit asks neither.
RunRefused(c) ==
  /\ pc[c] = "run"
  /\ First(c) \/ ~Runnable(c)
  /\ Unlock(c)
  /\ UNCHANGED <<lineageVars, buildVars, cellVars, serverVars, dataVars, attempts>>

\* The run failed: its cleanup has cleared the installed cell.
RunFails(c) ==
  LET s == Srv(c) IN
  /\ pc[c] = "work"
  /\ Lineages!Fail(s)
  /\ available' = [available EXCEPT ![s] = FALSE]
  /\ prepared' = [prepared EXCEPT ![s] = FALSE]
  /\ Unlock(c)
  /\ UNCHANGED <<buildVars, serverVars, dataVars, attempts>>

RunEnds(c) ==
  LET s == Srv(c) IN
  /\ pc[c] = "work"
  /\ Lineages!Finish(s)
  /\ prepared' = [prepared EXCEPT ![s] = Kind[s] = "a2b"]
  /\ calls' = [calls EXCEPT ![s] = Count(s)]
  /\ outputs' = outputs \cup {[key |-> job[c].input, session |-> s]}
  /\ Unlock(c)
  /\ UNCHANGED <<buildVars, available, used, closed, inputs, opened, attempts>>

\* Fault: Close does not wait for server.mu.
Close_Unlocked(c) ==
  LET s == Srv(c) IN
  /\ pc[c] = "close"
  /\ closed' = [closed EXCEPT ![s] = TRUE]
  /\ available' = [available EXCEPT ![s] = FALSE]
  /\ prepared' = [prepared EXCEPT ![s] = FALSE]
  /\ Done(c)
  /\ UNCHANGED <<lineageVars, buildVars, used, calls, dataVars, mu, attempts>>

\* One step under server.mu: whoever holds operationMu holds server.mu too, so
\* retireRouteBInstalledEvaluator never waits here.  A second Close returns at
\* once and finds everything as it left it.
Close(c) ==
  LET s == Srv(c) IN
  /\ pc[c] = "close" /\ mu[s] = None
  /\ closed' = [closed EXCEPT ![s] = TRUE]
  /\ available' = [available EXCEPT ![s] = FALSE]
  /\ prepared' = [prepared EXCEPT ![s] = FALSE]
  /\ Done(c)
  /\ UNCHANGED <<lineageVars, buildVars, used, calls, dataVars, mu, attempts>>

Locking(c) == Evaluate(c) \/ EvaluateRefused(c) \/ Close(c)
Running(c) == RunBegins(c) \/ RunRefused(c) \/ RunFails(c) \/ RunEnds(c)

----------------------------------------------------------------------------
Next ==
  \/ \E s \in Session : Construct(s) \/ Encrypt(s) \/ Decrypt(s)
  \/ \E c \in Call : CallEvaluate(c) \/ CallClose(c) \/ Locking(c) \/ Running(c)

Spec == Init /\ [][Next]_vars

\* Goroutines inside a call keep running, and sync.Mutex does not starve a
\* waiter for ever.  Nobody has to construct, encrypt, evaluate or close.
Fairness == /\ \A s \in Session : WF_vars(phase[s] # "none" /\ Construct(s))
            /\ \A c \in Call : WF_vars(Running(c)) /\ SF_vars(Locking(c))

FairSpec == Spec /\ Fairness

----------------------------------------------------------------------------
(* Properties.                                                             *)

\* A client only ever decrypts results computed on ciphertexts under its own
\* key.  The client compares the output's token, which is the server's: the
\* server must have compared the input's (route_b_a2b_session.go:229,
\* route_b_depth2_session.go:320).
OwnKeyOnly == \A o \in opened : o.client = o.key

\* While the server is open and idle, the call counter that selects between the
\* first operation and the prepared circuit agrees with the lineage: a refused
\* call may be retried, a completed one is never asked to be first again
\* (route_b_a2b_session.go:242).
CallsMatchLineage ==
  \A s \in Session :
    phase[s] = "open" /\ Kind[s] = "a2b" /\ mu[s] = None /\ available[s]
    => IF calls[s] = 0 THEN stage[s] = "InstalledUnverified"
                       ELSE stage[s] = "Operational" /\ prepared[s]

\* A depth-2 server starts at most one run, also when that run was refused
\* before it touched the lineage (route_b_depth2_session.go:329).
SingleAttempt == \A s \in Session : attempts[s] <= 1

\* Servers keep count of what they asked of their lineage
\* (route_b_a2b_session.go:242, route_b_depth2_session.go:329).
CallsCounted == CallsMatchLineage /\ SingleAttempt

\* The evaluator a caller has checked is still there when the caller uses it
\* after the check (route_b_a2b_session.go:232 and 242).
NotClosedDuringRun ==
  \A c \in Call : pc[c] \in {"run", "work"} => ~closed[Srv(c)] /\ available[Srv(c)]

\* A constructor that returned an error leaves no matrices behind and has
\* published no evaluator, whichever stage refused or failed
\* (route_b_depth2_session.go:110, route_b_a2b_session.go:102).
FailedLeavesNothing ==
  \A s \in Session : phase[s] = "failed" => artifact[s] # "resident" /\ ~available[s]

\* A Close that was called takes effect: no caller keeps server.mu for ever,
\* also not one whose run is refused or fails.
CloseRetires == \A s \in Session, c \in Call :
                  pc[c] = "close" /\ Srv(c) = s ~> closed[s] /\ ~available[s]
=============================================================================
