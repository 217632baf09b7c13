------------------------- MODULE MCPrebuiltEvaluator -------------------------
\* Four scenes of one process: two calls with sealed parameters that race beside
\* one construction, a lone call with any arguments beside as many constructions
\* as saturate the counter, two goroutines that construct and a third that
\* brackets, and two observed constructions, of a decoding and of an encoding
\* matrix, whose consumers share what they hold.
EXTENDS PrebuiltEvaluator, ObservedStreaming, TLC

CONSTANTS c1, c2, decoding, encoding, s1, s2, e1, e2, e3

Two == <<2>>

VARIABLES scene

Factors == decoding :> 2 @@ encoding :> 3
Fit ==
  s1 :> {<<decoding, 0>>} @@ s2 :> {<<decoding, 1>>} @@ e1 :> {<<encoding, 0>>}
    @@ e2 :> {<<encoding, 1>>} @@ e3 :> {<<encoding, 2>>}

sceneVars == <<allVars, scene, streamingVars>>

ScenesInit ==
  /\ PrebuiltInit /\ StreamingInit
  /\ scene \in {"race", "saturate", "brackets", "streaming"}

Only(callers) == \A c \in Callers \ callers : pc'[c] = pc[c]

Race ==
  /\ scene = "race" /\ PrebuiltNext /\ Only({c1, c2}) /\ entered'[1] <= 1
  /\ \A c \in Callers : call'[c] # NoCall => call'[c].sealed /\ keys'[c] # "incomplete"
Saturate == scene = "saturate" /\ PrebuiltNext /\ Only({c1})
Brackets ==
  /\ scene = "brackets" /\ Next /\ UNCHANGED prebuiltVars
  /\ \A c \in {c1, c2} : pc'[c] \in {"idle", "load", "cas"}
  /\ \A c \in Callers \ {c1, c2} : pc'[c] \notin {"load", "cas"}

\* One goroutine: the encoding matrix is constructed before the decoding one,
\* after it, or by its consumer, which then has two inputs to seal for.  Of the
\* transformations of the other matrix each consumer seals one.
Observed ==
  /\ scene = "streaming" /\ StreamingNext
  /\ at'[encoding] # at[encoding] => at[decoding] # "generating"
  /\ at'[decoding] # at[decoding] => at[encoding] \in {"idle", "returned"}
  /\ \A t \in {s1, e2, e3} :
       product'[t] # product[t] /\ product'[t].available =>
         (product'[t].invocation[1] = decoding <=> t = s1)
  /\ UNCHANGED allVars

ScenesNext ==
  /\ UNCHANGED scene
  /\ \/ (Race \/ Saturate \/ Brackets) /\ UNCHANGED streamingVars
     \/ Observed

Goes(c) ==
  \/ scene \in {"race", "saturate"} /\ (CallStep(c) \/ NoteLoad(c) \/ NoteSwap(c))
  \/ /\ scene = "brackets"
     /\ \/ LoadCounter(c, "idle") \/ SwapCounter(c, "idle") \/ LoadBefore(c, "work")
        \/ EndWork(c, "work") \/ LoadAfter(c) \/ TakeDelta(c, "idle")
     /\ UNCHANGED prebuiltVars

\* A goroutine inside a call or inside the counters' functions goes on.
Scenes ==
  /\ ScenesInit /\ [][ScenesNext]_sceneVars
  /\ \A c \in Callers : WF_sceneVars(Goes(c) /\ UNCHANGED <<scene, streamingVars>>)
=============================================================================
