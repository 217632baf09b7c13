------------------------- MODULE GaoFullPackedA2B --------------------------
(***************************************************************************)
(* The full-packed Gao A2B session: newGaoFullPackedA2BEvaluator builds    *)
(* the CTS and STC factor stores, the keys and the two kernels, makes the  *)
(* factors resident and publishes the evaluator; the server then evaluates *)
(* inputs and is closed, one call at a time under server.mu.  The Lattigo  *)
(* evaluators share scratch buffers, so nothing else may use them.         *)
(***************************************************************************)
EXTENDS GaoFactorStore, FiniteSets

CONSTANTS
  Call,  \* goroutines calling the server
  None

ASSUME SessionAssumption ==
  /\ Store = {"cts", "stc"}
  /\ None \notin Call

VARIABLES
  phase,      \* where the constructor is
  owned,      \* stores the constructor's deferred cleanup closes
  published,  \* server.evaluator is set
  mu,         \* holder of server.mu
  pc          \* where a caller is

serverVars == <<phase, owned, published, mu, pc>>
vars == <<op, next, directory, exists, frame, resident, diskLoads, closed, closeResult, altered,
          phase, owned, published, mu, pc>>

\* The DFT passes of one evaluation, in order: STC and CTS of either round (the
\* second passes have names of their own).
Round == {"stc0", "cts0", "stc1", "cts1"}
PassStore(r) == IF r \in {"stc0", "stc1"} THEN "stc" ELSE "cts"
AfterPass(r) == CASE r = "stc0" -> "cts0"
                  [] r = "cts0" -> "stc1"
                  [] r = "stc1" -> "cts1"
                  [] r = "cts1" -> "return"

Building == {"buildCTS", "buildSTC"}
Loading  == {"prepareCTS", "prepareSTC"}

\* The store a phase works on, and the phase after it.
PhaseStore(p) == IF p \in {"buildCTS", "prepareCTS"} THEN "cts" ELSE "stc"
AfterPhase(p) == CASE p = "buildCTS"   -> "buildSTC"
                   [] p = "buildSTC"   -> "keys"
                   [] p = "keys"       -> "prepareCTS"
                   [] p = "prepareCTS" -> "prepareSTC"
                   [] p = "prepareSTC" -> "publish"

SessionTypeOK ==
  /\ TypeOK
  /\ phase \in {"none", "keys", "publish", "abort", "failed", "open", "closed"}
              \cup Building \cup Loading
  /\ owned \subseteq Store
  /\ published \in BOOLEAN
  /\ mu \in Call \cup {None}
  /\ pc \in [Call -> {"idle", "evaluate", "close", "closing", "return"} \cup Round]

Init ==
  /\ StoreInit
  /\ phase = "none"
  /\ owned = {}
  /\ published = FALSE
  /\ mu = None
  /\ pc = [c \in Call |-> "idle"]

----------------------------------------------------------------------------
(* newGaoFullPackedA2BEvaluator.                                           *)

\* The parameters are constructed, prepared and verified, or construction ends
\* before it owns anything.
Begin ==
  /\ phase = "none"
  /\ phase' \in {"buildCTS", "failed"}
  /\ UNCHANGED <<storeVars, owned, published, mu, pc>>

\* One step of a store's constructor; it has cleaned up its own store when it
\* returns an error.
BuildStep ==
  LET s == PhaseStore(phase) IN
  /\ phase \in Building
  /\ op[s] \in {"none", "writing"}
  /\ Constructing(s)
  /\ UNCHANGED serverVars

\* Fault: only the first store is registered for cleanup.
BuildEnds_OwnsFirst ==
  LET s == PhaseStore(phase) IN
  /\ phase \in Building
  /\ op[s] \in {"idle", "failed"}
  /\ IF op[s] = "idle" THEN owned' = owned \cup {"cts"} /\ phase' = AfterPhase(phase)
                       ELSE phase' = "abort" /\ UNCHANGED owned
  /\ UNCHANGED <<storeVars, published, mu, pc>>

BuildEnds ==
  LET s == PhaseStore(phase) IN
  /\ phase \in Building
  /\ op[s] \in {"idle", "failed"}
  /\ IF op[s] = "idle" THEN owned' = owned \cup {s} /\ phase' = AfterPhase(phase)
                       ELSE phase' = "abort" /\ UNCHANGED owned
  /\ UNCHANGED <<storeVars, published, mu, pc>>

\* Special-b0, evaluation keys, evaluator graph and kernels.
Keys ==
  /\ phase = "keys"
  /\ phase' \in {AfterPhase(phase), "abort"}
  /\ UNCHANGED <<storeVars, owned, published, mu, pc>>

PrepareBegins ==
  LET s == PhaseStore(phase) IN
  /\ phase \in Loading
  /\ PrepareResident(s)
  /\ UNCHANGED serverVars

PrepareStep ==
  /\ phase \in Loading
  /\ PrepareFactor(PhaseStore(phase))
  /\ UNCHANGED serverVars

PrepareEnds ==
  /\ phase \in Loading
  /\ PrepareRemoves(PhaseStore(phase))
  /\ phase' = AfterPhase(phase)
  /\ UNCHANGED <<owned, published, mu, pc>>

\* Fault: a store that cannot be made resident is read from disk later.
PrepareAborts_GoesOn ==
  LET s == PhaseStore(phase) IN
  /\ phase \in Loading
  /\ PrepareFails(s) \/ RemoveFails(s)
  /\ phase' = AfterPhase(phase)
  /\ UNCHANGED <<owned, published, mu, pc>>

\* PrepareResident is not tried again: its error ends the construction.
PrepareAborts ==
  LET s == PhaseStore(phase) IN
  /\ phase \in Loading
  /\ PrepareFails(s) \/ RemoveFails(s)
  /\ phase' = "abort"
  /\ UNCHANGED <<owned, published, mu, pc>>

\* Stores are closed CTS first.
InOrder(s, all) == s = "stc" /\ "cts" \in all => closed["cts"]

\* The deferred cleanup closes the owned stores and drops their errors.
AbortCloses ==
  /\ phase = "abort"
  /\ \E s \in owned : InOrder(s, owned) /\ Close(s)
  /\ UNCHANGED serverVars

AbortEnds ==
  /\ phase = "abort"
  /\ \A s \in owned : closed[s]
  /\ phase' = "failed"
  /\ UNCHANGED <<storeVars, owned, published, mu, pc>>

\* The session is returned, or its parameters differ from the evaluator's and
\* the evaluator is closed.
Publish ==
  /\ phase = "publish"
  /\ \/ phase' = "open" /\ published' = TRUE
     \/ phase' = "abort" /\ UNCHANGED published
  /\ UNCHANGED <<storeVars, owned, mu, pc>>

Construct ==
  \/ Begin \/ BuildStep \/ BuildEnds \/ Keys \/ PrepareBegins \/ PrepareStep
  \/ PrepareEnds \/ PrepareAborts \/ AbortCloses \/ AbortEnds \/ Publish

----------------------------------------------------------------------------
(* The server.                                                             *)

Serving == phase \in {"open", "closed"}

To(c, p) == pc' = [pc EXCEPT ![c] = p]

CallServer(c) ==
  /\ Serving /\ pc[c] = "idle"
  /\ To(c, "evaluate") \/ To(c, "close")
  /\ UNCHANGED <<storeVars, phase, owned, published, mu>>

\* Fault: the method forgets to lock.
Evaluate_Unlocked(c) ==
  /\ pc[c] = "evaluate"
  /\ published
  /\ To(c, "stc0")
  /\ UNCHANGED <<storeVars, phase, owned, published, mu>>

Evaluate(c) ==
  /\ pc[c] = "evaluate" /\ mu = None
  /\ published
  /\ mu' = c
  /\ To(c, "stc0")
  /\ UNCHANGED <<storeVars, phase, owned, published>>

\* A closed server, an empty input or one of another session.
Refuse(c) ==
  /\ pc[c] = "evaluate" /\ mu = None
  /\ To(c, "idle")
  /\ UNCHANGED <<storeVars, phase, owned, published, mu>>

\* A DFT pass reads every factor of its store; one that is not resident is
\* loaded from disk.
Pass(c) ==
  LET s == PassStore(pc[c])
      missing == {i \in Factor : resident[s][i] = Absent} IN
  /\ pc[c] \in Round
  /\ \A i \in missing : directory[s] /\ Accepts(s, i)
  /\ resident' = [resident EXCEPT ![s] = [i \in Factor |-> IF i \in missing THEN frame[s][i] ELSE @[i]]]
  /\ diskLoads' = [diskLoads EXCEPT ![s] = [i \in Factor |-> IF i \in missing THEN @[i] + 1 ELSE @[i]]]
  /\ To(c, AfterPass(pc[c]))
  /\ UNCHANGED <<op, next, directory, exists, frame, closed, closeResult, altered,
                 phase, owned, published, mu>>

\* A factor, a ciphertext check or a homomorphic operation fails.
PassFails(c) ==
  /\ pc[c] \in Round
  /\ To(c, "return")
  /\ UNCHANGED <<storeVars, phase, owned, published, mu>>

\* Fault: the unlock is missing.
Return_KeepsLock(c) ==
  /\ pc[c] = "return"
  /\ To(c, "idle")
  /\ UNCHANGED <<storeVars, phase, owned, published, mu>>

Return(c) ==
  /\ pc[c] = "return"
  /\ mu' = None
  /\ To(c, "idle")
  /\ UNCHANGED <<storeVars, phase, owned, published>>

\* Fault: Close does not wait for the evaluation under way.
CloseServer_Unlocked(c) ==
  /\ pc[c] = "close" /\ phase = "open"
  /\ phase' = "closed" /\ published' = FALSE
  /\ To(c, "closing")
  /\ UNCHANGED <<storeVars, owned, mu>>

CloseServer(c) ==
  /\ pc[c] = "close" /\ mu = None /\ phase = "open"
  /\ mu' = c
  /\ phase' = "closed" /\ published' = FALSE
  /\ To(c, "closing")
  /\ UNCHANGED <<storeVars, owned>>

\* The evaluator closes both stores, whatever the first one returned; the
\* server drops the errors.
CloseStore(c) ==
  /\ pc[c] = "closing"
  /\ \E s \in Store : InOrder(s, Store) /\ Close(s)
  /\ UNCHANGED serverVars

CloseEnds(c) ==
  /\ pc[c] = "closing"
  /\ \A s \in Store : closed[s]
  /\ To(c, "return")
  /\ UNCHANGED <<storeVars, phase, owned, published, mu>>

CloseServerAgain(c) ==
  /\ pc[c] = "close" /\ mu = None /\ phase = "closed"
  /\ To(c, "idle")
  /\ UNCHANGED <<storeVars, phase, owned, published, mu>>

Locking(c) == Evaluate(c) \/ Refuse(c) \/ CloseServer(c) \/ CloseServerAgain(c)
Working(c) == Pass(c) \/ PassFails(c) \/ Return(c) \/ CloseStore(c) \/ CloseEnds(c)

----------------------------------------------------------------------------
Disk == (\E s \in Store : DiskFault(s)) /\ UNCHANGED serverVars

Next ==
  \/ Disk
  \/ Construct
  \/ \E c \in Call : CallServer(c) \/ Locking(c) \/ Working(c)

Spec == Init /\ [][Next]_vars

\* The constructor and the calls keep running; sync.Mutex does not starve a
\* waiter for ever.  Nobody has to construct or to call.
Fairness == /\ WF_vars(phase # "none" /\ Construct)
            /\ \A c \in Call : WF_vars(Working(c)) /\ SF_vars(Locking(c))

FairSpec == Spec /\ Fairness

----------------------------------------------------------------------------
(* Properties.                                                             *)

\* An online evaluation performs no file access: when the session is published
\* every factor of both stores is resident and no directory is left on disk
\* that could be read instead (comment at gao_full_packed_a2b.go:169).
OnlineIsResident ==
  published => \A s \in Store : /\ \A i \in Factor : resident[s][i] # Absent
                                /\ ~exists[s]

\* Whichever step of the construction fails, its directories are gone
\* afterwards, except one whose removal failed (gao_full_packed_a2b.go:91).
FailedLeavesNoStore ==
  phase = "failed" => \A s \in Store : exists[s] => closeResult[s] = "error"

\* No directory is forgotten: neither by a store nor by a construction that failed
\* (gao_full_packed_factor_store.go:155, gao_full_packed_a2b.go:91).
DirectoriesRemoved == DirectoryNotForgotten /\ FailedLeavesNoStore

\* Two evaluations never share the evaluator's scratch buffers
\* (gao_full_packed_a2b.go:34, gao_full_packed_session.go:365).
ScratchIsExclusive ==
  \A c, d \in Call : pc[c] \in Round /\ pc[d] \in Round => c = d

\* No store is closed, and the evaluator not dropped, under an evaluation
\* (gao_full_packed_session.go:485).
NotClosedDuringPass ==
  \A c \in Call : pc[c] \in Round => published /\ \A s \in Store : ~closed[s]

\* A pass is undisturbed: by a second one on its scratch, and by Close
\* (gao_full_packed_session.go:365).
PassIsUndisturbed == ScratchIsExclusive /\ NotClosedDuringPass

\* Nothing is read from disk and nobody interferes while a pass runs
\* (gao_full_packed_session.go:365, gao_full_packed_a2b.go:169).
OnlineIsUndisturbed == OnlineIsResident /\ PassIsUndisturbed

\* Every call returns, whatever its passes or the other callers do.
CallsReturn == \A c \in Call : pc[c] # "idle" ~> pc[c] = "idle"
=============================================================================
