--------------------------- MODULE MCRouteBSession ---------------------------
(***************************************************************************)
(* Two scenes for TLC, chosen by the initial state: sessions whose callers *)
(* mix up their handles, and one lineage whose callers contend for         *)
(* operationMu.  The variables of the other scene keep their initial       *)
(* values.                                                                 *)
(***************************************************************************)
EXTENDS RouteBSession

CONSTANTS a1, l1

VARIABLES scene, generation, state, mintGeneration, lastConsumed, readyGeneration,
          installGeneration, cell, evaluator, firstOperation, preparedA2BFull,
          operationMu, constructions, at, method, ev, before

lineage == <<generation, state, mintGeneration, lastConsumed, readyGeneration,
             installGeneration, cell, evaluator, firstOperation, preparedA2BFull,
             operationMu, constructions, at, method, ev, before>>

all == <<scene, vars, lineage>>

Contended == INSTANCE RouteBLineage
  WITH Authority <- {a1}, Lineage <- {l1}, Owner <- [l \in {l1} |-> a1], MaxGeneration <- 6,
       artifact <- cell, pc <- at, job <- method

InitScene == scene \in {"sessions", "lineage"} /\ Init /\ Contended!Init

NextScene == \/ scene = "sessions" /\ Next /\ UNCHANGED <<scene, lineage>>
             \/ scene = "lineage" /\ Contended!Next /\ UNCHANGED <<scene, vars>>

\* The fairness of both.
InSessions(Action) == scene = "sessions" /\ Action /\ UNCHANGED <<scene, lineage>>
InLineage(Action) == scene = "lineage" /\ Action /\ UNCHANGED <<scene, vars>>
Fair ==
  /\ \A s \in Session : WF_all(InSessions(phase[s] # "none" /\ Construct(s)))
  /\ \A c \in Call :
       /\ WF_all(InSessions(Running(c)) \/ InLineage(Contended!Admission(c) \/ Contended!Work(c)))
       /\ SF_all(\/ InSessions(Locking(c))
                 \/ InLineage(Contended!Enter(c) \/ Contended!Refuse(c) \/ Contended!Retire(c)))

Scenes == InitScene /\ [][NextScene]_all /\ Fair

-----------------------------------------------------------------------------
\* Every call of a lineage returns, although Retire and the operations of the
\* installed evaluator wait for one another (route_b_preflight.go:206, 321).
CallsReturn == Contended!CallsReturn
=============================================================================
