---------------------------- MODULE TerminalLeaf ----------------------------
(***************************************************************************)
(* Signed8Depth2TerminalLeafEvaluator: the last circuit of the depth-2     *)
(* tree.  It decodes the child selector b1, takes the root selector b0     *)
(* that came with it, and selects one of the four leaves by the affine mux *)
(*      A = l00 + b1*dL,   D = dX + b1*cross,   y = A + b0*D.              *)
(* Every ciphertext it makes is checked against a fixed level and an exact *)
(* scale and is retained, with the digest of its payload, in the trace;    *)
(* every operation is counted when it is attempted and when it completes.  *)
(* A failure returns no result but a sealed partial trace, and the sealing *)
(* authenticates that trace against the same ledger.                       *)
(*                                                                         *)
(* One evaluation of an authenticated input is modelled, with every point  *)
(* of failure the code has a return for.  A selector is 0 or 1 up to an    *)
(* error of 1/Den, the error the certificate assumes.                      *)
(*                                                                         *)
(* The circuit and the input are validated on the way in, before the       *)
(* selectors are admitted, at the end, and again when a failure is sealed. *)
(* Either may change in between.  The values are those of the unchanged    *)
(* operands: nothing that is made after a change is returned or sealed.    *)
(***************************************************************************)
EXTENDS Ciphertexts, Sequences, FiniteSets

CONSTANTS LeafValues      \* values of the leaves, integers

ASSUME TerminalAssumption == LeafValues \subseteq Int /\ TopLevel >= 11

VARIABLES leaves,      \* the four leaves l00, l01, l10, l11 of the frozen tree
          bits,        \* what the selectors stand for
          error,       \* the numerator over Den of each selector's error
          phase,       \* where evaluateNew is
          cts,         \* the ciphertexts made so far, in the order of Stages
          states,      \* how many of them the trace holds as states
          payloads,    \* how many of those have a payload digest too
          attempted, completed,   \* the two operation ledgers
          decoder,     \* what the child decoder returned
          intact,      \* the circuit and the admitted input still validate
          fault,       \* what went wrong first, if anything did
          failureStage, sealed    \* the failure, and whether its trace authenticates

vars == <<leaves, bits, error, phase, cts, states, payloads, attempted,
          completed, decoder, intact, fault, failureStage, sealed>>

-----------------------------------------------------------------------------
\* The schedule: stages, scales, cached operands and operations.

Stages == <<"DecodedChild", "RootSelector", "RawA", "RescaledA", "AffineA",
            "RawD", "RescaledD", "AffineD", "RawY", "RescaledY", "AlignedA",
            "Output">>
StageIndex(s) == CHOOSE i \in DOMAIN Stages : Stages[i] = s

\* deriveSigned8Depth2TerminalScales
SquaredS == Times(DefaultScale, DefaultScale)
ScaleB1 == Over(Times(SquaredS, SquaredS),
                Times(Times(Prime(11), Prime(11)), Prime(10)))
ScaleB0 == Prime(7)
ScaleDelta == Over(Times(Prime(8), DefaultScale), ScaleB1)
ScaleRawA == Times(ScaleB1, ScaleDelta)
ScaleRawY == Times(Prime(7), DefaultScale)

\* expectedStates: the level and scale each stage has to have.
ExpectedStates ==
  <<Expected(8, ScaleB1), Expected(7, ScaleB0),
    Expected(8, ScaleRawA), Expected(7, DefaultScale), Expected(7, DefaultScale),
    Expected(8, ScaleRawA), Expected(7, DefaultScale), Expected(7, DefaultScale),
    Expected(7, ScaleRawY), Expected(6, DefaultScale), Expected(6, DefaultScale),
    Expected(6, DefaultScale)>>

\* The four cached plaintexts.
DeltaL == leaves[2] - leaves[1]
DeltaR == leaves[4] - leaves[3]
DeltaX == leaves[3] - leaves[1]
Cross == DeltaR - DeltaL
Cache == [dL |-> Operand(8, ScaleDelta, DeltaL, 0),
          cross |-> Operand(8, ScaleDelta, Cross, 0),
          l00 |-> Operand(7, DefaultScale, leaves[1], 0),
          dX |-> Operand(7, DefaultScale, DeltaX, 0)]

\* What the selectors decrypt to when they are admitted.
Selector(level, scale, bit, err) == Operand(level, scale, bit * Den + err, 1)
DecodedChild == Selector(8, ScaleB1, bits.b1, error.b1)
RootSelector == Selector(7, ScaleB0, bits.b0, error.b0)

Made(s) == cts[StageIndex(s)]

\* What the evaluator computes for the next stage.
Computed(s) ==
  CASE s = "RawA" -> Product(Made("DecodedChild"), Cache.dL)
    [] s = "RescaledA" -> Rescaled(Made("RawA"))
    [] s = "AffineA" -> SumOf(Made("RescaledA"), Cache.l00)
    [] s = "RawD" -> Product(Made("DecodedChild"), Cache.cross)
    [] s = "RescaledD" -> Rescaled(Made("RawD"))
    [] s = "AffineD" -> SumOf(Made("RescaledD"), Cache.dX)
    [] s = "RawY" -> Product(Made("RootSelector"), Made("AffineD"))
    [] s = "RescaledY" -> Rescaled(Made("RawY"))
    [] s = "AlignedA" -> Dropped(Made("AffineA"), 1)
    [] s = "Output" -> SumOf(Made("AlignedA"), Made("RescaledY"))

AsExpected(c, i) == c.level = ExpectedStates[i].level /\ c.scale = ExpectedStates[i].scale

-----------------------------------------------------------------------------
\* The operation ledgers.

Kinds == {"CTPT", "CTCT", "Relin", "Rescale", "PTAdd", "CTAdd", "Drop"}
NoCounts == [k \in Kinds |-> 0]
Plus(counts, kinds) == [k \in Kinds |-> counts[k] + IF k \in kinds THEN 1 ELSE 0]

\* What is counted before the call, and what a call that returned has done: the
\* relinearization of a fused product is claimed only once the call returned.
OnDispatch(s) ==
  CASE s \in {"RawA", "RawD"} -> {"CTPT"}
    [] s \in {"RescaledA", "RescaledD", "RescaledY"} -> {"Rescale"}
    [] s \in {"AffineA", "AffineD"} -> {"PTAdd"}
    [] s = "RawY" -> {"CTCT"}
    [] s = "AlignedA" -> {"Drop"}
    [] s = "Output" -> {"CTAdd"}
OnReturn(s) == OnDispatch(s) \union IF s = "RawY" THEN {"Relin"} ELSE {}
CanReturnError(s) == s # "AlignedA"

\* The counts of the profile.
FullCounts == [NoCounts EXCEPT !["CTPT"] = 2, !["CTCT"] = 1, !["Relin"] = 1,
                               !["Rescale"] = 3, !["PTAdd"] = 2, !["CTAdd"] = 1,
                               !["Drop"] = 1]

\* signed8Depth2TerminalLeafOperationProgressLedger: what the operations before
\* stage i have completed.
CompletedBefore[i \in 3..13] ==
  IF i = 3 THEN NoCounts ELSE Plus(CompletedBefore[i - 1], OnReturn(Stages[i - 1]))

\* validSigned8Depth2TerminalLeafProgress
ValidProgress(s, n, done, tried) ==
  LET none == done = NoCounts /\ tried = NoCounts
      full == done = FullCounts /\ tried = FullCounts
      i == StageIndex(s)
  IN  CASE s \in {"DecodedChild", "RootSelector"} -> n = 0 /\ none
        [] s = "Admission" -> (n = 0 /\ none) \/ (n = 12 /\ full)
        [] s = "Preflight" -> n = 12 /\ full
        [] OTHER ->
             \/ /\ CanReturnError(s) /\ n = i - 1
                /\ done = CompletedBefore[i]
                /\ tried = Plus(CompletedBefore[i], OnDispatch(s))
             \/ /\ done = CompletedBefore[i + 1] /\ tried = CompletedBefore[i + 1]
                /\ n \in {i - 1, i}

\* validateSigned8Depth2TerminalRetainedPrefix: the states are a prefix of the
\* expected ones and each has its ciphertext and its payload digest.
ValidRetainedPrefix(n, digests) ==
  n = digests /\ \A i \in 1..n : AsExpected(cts[i], i)

\* validateFailureTrace, of a failure after the decoder returned.  It validates
\* the circuit, its caches and its decoder, and the input, before the trace.
Authenticates(s, n, digests, done, tried) ==
  /\ intact
  /\ decoder = "valid"
  /\ ValidProgress(s, n, done, tried)
  /\ ValidRetainedPrefix(n, digests)

-----------------------------------------------------------------------------
\* The magnitude certificate, in units of 1/Den^2.

Abs(x) == IF x < 0 THEN -x ELSE x
Beta == Den + 1
BoundRawA == Den * Beta * Abs(DeltaL)
BoundA == Den * Den * Abs(leaves[1]) + BoundRawA
\* Fault: the bound forgets that a selector may exceed one.
FaultBoundRawD == Den * Den * Abs(Cross)
BoundRawD == Den * Beta * Abs(Cross)
BoundD == Den * Den * Abs(DeltaX) + BoundRawD
BoundRawY == Beta * (Den * Abs(DeltaX) + Beta * Abs(Cross))
BoundY == BoundA + BoundRawY
Bound(s) ==
  CASE s \in {"DecodedChild", "RootSelector"} -> Den * Beta
    [] s \in {"RawA", "RescaledA"} -> BoundRawA
    [] s \in {"AffineA", "AlignedA"} -> BoundA
    [] s \in {"RawD", "RescaledD"} -> BoundRawD
    [] s = "AffineD" -> BoundD
    [] s \in {"RawY", "RescaledY"} -> BoundRawY
    [] s = "Output" -> BoundY

\* The part of the output tolerance that covers the selectors' errors; the
\* rest is slack for the arithmetic and for the rounding of the caches.
SelectorTolerance ==
  Den * (Abs(DeltaL) + Abs(DeltaX) + 2 * Abs(Cross)) + Abs(Cross)

-----------------------------------------------------------------------------
\* The evaluation.

Init ==
  /\ leaves \in [1..4 -> LeafValues]
  /\ bits \in [b0 : 0..1, b1 : 0..1]
  /\ error \in [b0 : {-1, 0, 1}, b1 : {-1, 0, 1}]
  /\ phase = "decode"
  /\ cts = <<>> /\ states = 0 /\ payloads = 0
  /\ attempted = NoCounts /\ completed = NoCounts
  /\ decoder = "pending" /\ intact = TRUE
  /\ fault = "none" /\ failureStage = "none" /\ sealed = FALSE

\* postFailure: no result, and the partial trace sealed as it is.
Fail(what, stage, n, digests, done, tried) ==
  /\ fault' = what
  /\ failureStage' = stage
  /\ sealed' = Authenticates(stage, n, digests, done, tried)
  /\ states' = n /\ payloads' = digests
  /\ completed' = done /\ attempted' = tried
  /\ phase' = "failed"
  /\ UNCHANGED intact

\* The circuit, one of its cached operands or the input changes under the run.
Changes ==
  /\ phase \in {"decode", "check", "run"}
  /\ intact
  /\ intact' = FALSE
  /\ UNCHANGED <<leaves, bits, error, phase, cts, states, payloads, attempted,
                 completed, decoder, fault, failureStage, sealed>>

\* Refused before anything ran, or by a decoder that had not dispatched
\* anything either: the exact-zero result and trace.
RejectedBeforeWork ==
  /\ phase = "decode"
  /\ fault' = "rejected" /\ phase' = "rejected"
  /\ UNCHANGED <<leaves, bits, error, cts, states, payloads, attempted, completed,
                 decoder, intact, failureStage, sealed>>

\* The decoder failed after some work: its partial trace is lifted into a
\* trace of this module that holds nothing else.
DecoderFails(partial) ==
  /\ phase = "decode"
  /\ decoder' = partial
  /\ fault' = "decoder" /\ failureStage' = "DecoderFailure"
  /\ sealed' = (partial = "valid partial" /\ intact)
  /\ phase' = "failed"
  /\ UNCHANGED <<leaves, bits, error, cts, states, payloads, attempted, completed,
                 intact>>

DecoderReturns(evidence) ==
  /\ phase = "decode"
  /\ decoder' = evidence
  /\ phase' = "check"
  /\ UNCHANGED <<leaves, bits, error, cts, states, payloads, attempted, completed,
                 intact, fault, failureStage, sealed>>

\* The decoder's evidence is validated first, and the decoder circuit with it,
\* then circuit and input again, then the level and scale of each selector.
CheckFails(what, stage) ==
  /\ phase = "check"
  /\ what = "decoder" <=> decoder # "valid"
  /\ Fail(what, stage, 0, 0, NoCounts, NoCounts)
  /\ UNCHANGED <<leaves, bits, error, cts, decoder>>

CheckDecoder ==
  \/ CheckFails("decoder", "DecodedChild")
  \/ ~intact /\ \E stage \in {"DecodedChild", "Admission"} : CheckFails("changed", stage)
  \/ \E stage \in {"DecodedChild", "RootSelector"} : CheckFails("state", stage)

Admit ==
  /\ phase = "check"
  /\ decoder = "valid" /\ intact
  /\ AsExpected(DecodedChild, 1) /\ AsExpected(RootSelector, 2)
  /\ phase' = "run"
  /\ cts' = <<DecodedChild, RootSelector>>
  /\ UNCHANGED <<leaves, bits, error, states, payloads, attempted, completed,
                 decoder, intact, fault, failureStage, sealed>>

\* appendSigned8Depth2TerminalState: the snapshot of the next stage.  It adds
\* the state and the ciphertext first and digests the payload last.
Snapshot ==
  /\ phase = "run"
  /\ states < Len(cts)
  /\ states' = states + 1 /\ payloads' = payloads + 1
  /\ UNCHANGED <<leaves, bits, error, phase, cts, attempted, completed, decoder,
                 intact, fault, failureStage, sealed>>

SnapshotFails ==
  /\ phase = "run"
  /\ states < Len(cts)
  /\ LET s == Stages[states + 1]
     IN  \/ Fail("snapshot", s, states, payloads, completed, attempted)
         \/ Fail("payload", s, states + 1, payloads, completed, attempted)
  /\ UNCHANGED <<leaves, bits, error, cts, decoder>>

Ready == phase = "run" /\ states = Len(cts) /\ Len(cts) < Len(Stages)
NextStage == Stages[Len(cts) + 1]

\* One operation, its counts, and the check of what it returned.
Operate ==
  /\ Ready
  /\ LET s == NextStage
         c == Computed(s)
         tried == Plus(attempted, OnReturn(s))
         done == Plus(completed, OnReturn(s))
     IN  IF AsExpected(c, Len(cts) + 1)
         THEN /\ cts' = Append(cts, c)
              /\ attempted' = tried /\ completed' = done
              /\ UNCHANGED <<phase, states, payloads, intact, fault,
                             failureStage, sealed>>
         ELSE /\ Fail("none", s, states, payloads, done, tried)
              /\ UNCHANGED cts
  /\ UNCHANGED <<leaves, bits, error, decoder>>

\* The call returns an error.
OperationFails ==
  /\ Ready
  /\ CanReturnError(NextStage)
  /\ Fail("dispatch", NextStage, states, payloads, completed,
          Plus(attempted, OnDispatch(NextStage)))
  /\ UNCHANGED <<leaves, bits, error, cts, decoder>>

\* The call returns, but an operand was changed or the result is not in the
\* state it has to be in.
OperationCorrupts(what) ==
  /\ Ready
  /\ Fail(what, NextStage, states, payloads, Plus(completed, OnReturn(NextStage)),
          Plus(attempted, OnReturn(NextStage)))
  /\ UNCHANGED <<leaves, bits, error, cts, decoder>>

\* The ledgers are compared with the profile.  The last preflight validates the
\* circuit and then compares what the evaluator is bound to: its objects, keys
\* and runtime identities.  The input is validated again, the output digested,
\* and the result and its trace validated, circuit and input with them.
Finishing == phase = "run" /\ states = Len(Stages)
LedgerFits == completed = FullCounts /\ attempted = completed

FinishFails(what, stage) ==
  /\ Finishing
  /\ LedgerFits
  /\ Fail(what, stage, states, payloads, completed, attempted)
  /\ UNCHANGED <<leaves, bits, error, cts, decoder>>

FailToFinish ==
  \/ FinishFails("graph", "Preflight")
  \/ ~intact /\ \E stage \in {"Preflight", "Admission", "Output"} : FinishFails("changed", stage)
  \/ FinishFails("result", "Output")

Return ==
  /\ Finishing
  /\ LedgerFits => intact
  /\ IF LedgerFits
     THEN /\ phase' = "returned"
          /\ UNCHANGED <<states, payloads, attempted, completed, intact,
                         fault, failureStage, sealed>>
     ELSE Fail("none", "Output", states, payloads, completed, attempted)
  /\ UNCHANGED <<leaves, bits, error, cts, decoder>>

Next ==
  \/ RejectedBeforeWork
  \/ \E partial \in {"valid partial", "damaged partial"} : DecoderFails(partial)
  \/ \E evidence \in {"valid", "damaged"} : DecoderReturns(evidence)
  \/ CheckDecoder
  \/ Admit
  \/ Snapshot
  \/ SnapshotFails
  \/ Operate
  \/ OperationFails
  \/ \E what \in {"operand", "state"} : OperationCorrupts(what)
  \/ FailToFinish
  \/ Return
  \/ Changes

Spec == Init /\ [][Next]_vars

-----------------------------------------------------------------------------
Ended == phase \in {"rejected", "failed", "returned"}

\* The leaf the selectors choose, and the result, in units of 1/Den^2.
Chosen == leaves[1 + 2 * bits.b0 + bits.b1]

\* TypeOK of the evaluation.
TypeOK ==
  /\ phase \in {"decode", "check", "run", "rejected", "failed", "returned"}
  /\ Len(cts) <= 12 /\ states <= Len(cts) /\ payloads \in {states, states - 1}
  /\ attempted \in [Kinds -> 0..3] /\ completed \in [Kinds -> 0..3]
  /\ decoder \in {"pending", "valid", "damaged", "valid partial", "damaged partial"}
  /\ intact \in BOOLEAN /\ sealed \in BOOLEAN

\* The mux selects: a returned output is the chosen leaf, up to what the
\* certificate allows for the error of the selectors, whatever the leaves are.
\* The product of the two selector errors and the four differences have to
\* work together in three rescaled products for that, and nothing may have
\* changed the operands on the way.
ResultIsLeaf ==
  phase = "returned" =>
    /\ intact
    /\ Made("Output").exact
    /\ Abs(Scaled(Made("Output"), 2) - Den * Den * Chosen) <= SelectorTolerance

\* The certificate's bounds hold of every ciphertext on the way, so the
\* headroom that is computed from them is there.
WithinCertificate ==
  \A i \in DOMAIN cts : Abs(Scaled(cts[i], 2)) <= Bound(Stages[i])

\* The table of levels and scales, the caches' scales and the operation counts
\* fit one another: an evaluation nothing goes wrong in does return.  Each check
\* of the code compares with a constant, and only together do they let a run through.
CleanRunReturns == Ended /\ fault = "none" => phase = "returned"

\* A failure of an operation, of its result, of what the evaluator is bound to or
\* of the output is sealed with evidence that authenticates, at whichever stage,
\* unless the circuit or the input changed at any time before the sealing: then
\* no evidence authenticates, whatever the run itself failed of.
FailureEvidenceAuthenticates ==
  phase = "failed" /\ fault \in {"dispatch", "operand", "state", "graph", "result"}
     => (sealed <=> intact)

\* A partial trace that has a valid decoder tuple and an exact prefix of the
\* mux boundaries authenticates (the comment of validateFailureTrace).
ExactPrefixAuthenticates ==
  phase = "failed" /\ decoder = "valid" /\ intact
    /\ ValidRetainedPrefix(states, payloads) => sealed
=============================================================================
