--------------------------- MODULE StagedCircuit ----------------------------
(***************************************************************************)
(* One evaluation of one of the programs: the admission of the input and   *)
(* the check of the object graph and the keys, then the steps in order with*)
(* a return at every point where the code has one, then the comparison of  *)
(* inputs, counts and states with what was sealed.  An error returns the   *)
(* zero result and the trace as far as it goes.                            *)
(***************************************************************************)
EXTENDS CircuitSteps

CONSTANT Cases     \* the evaluations to consider: program, inputs and results of each

VARIABLES case,       \* the evaluation
          made,       \* the ciphertexts made so far
          pc,         \* the number of steps done
          tally,     \* the operation counts of the trace
          attempted,  \* the lower bound of what was attempted
          states,     \* the number of states of the trace
          outcome,    \* "running", "rejected", "failed" or "returned"
          fault,      \* what went wrong first
          sealed      \* the partial trace of the failure authenticates

circuitVars == <<case, made, pc, tally, attempted, states, outcome, fault, sealed>>

-----------------------------------------------------------------------------
Subject == Cases[case]
program == Subject.program
Next1 == program.steps[pc + 1]
Running == outcome = "running" /\ pc < Len(program.steps)

Plus(n, more) ==
  [k \in DOMAIN n |-> n[k] + IF k \in DOMAIN more THEN more[k] ELSE 0]
NoCounts == [k \in DOMAIN program.profile |-> 0]
AtMost(n, m) == \A k \in DOMAIN n : n[k] <= m[k]
Greatest(n, m) == [k \in DOMAIN n |-> Larger(n[k], m[k])]

\* validateFailureTrace of the child selector decoder, which seals what is left
\* of a failed evaluation: circuit and input validate still, completed counts are
\* within attempted ones within the profile, something was attempted, and each of
\* the states has the level and the scale of the profile.
Authenticates(done, tried, n) ==
  /\ program.seals /\ fault # "changed"
  /\ AtMost(done, tried) /\ AtMost(tried, program.profile)
  /\ \E k \in DOMAIN tried : tried[k] > 0
  /\ n \in 1 .. program.states
  /\ \A i \in 1..pc : FitsIn(program, made[program.steps[i].stage], program.steps[i].expected)

Fail(what, done, n) ==
  LET tried == Greatest(done, attempted')
  IN  /\ outcome' = "failed" /\ fault' = IF fault = "none" THEN what ELSE fault
      /\ tally' = done /\ states' = n
      /\ sealed' = Authenticates(done, tried, n)
      /\ UNCHANGED <<case, made, pc>>

-----------------------------------------------------------------------------
Init ==
  /\ case \in DOMAIN Cases
  /\ made = Subject.given
  /\ pc = 0
  /\ tally = NoCounts /\ attempted = NoCounts
  /\ states = program.first
  /\ outcome = "running" /\ fault = "none" /\ sealed = FALSE

\* The input is not an admitted one, or the graph or a key has changed.
Reject ==
  /\ outcome = "running" /\ pc = 0
  /\ outcome' = "rejected" /\ fault' = "rejected"
  /\ UNCHANGED <<case, made, pc, tally, attempted, states, sealed>>

\* Fault: nothing is claimed before the group of calls has returned.
FaultDispatch(step) == attempted' = IF step.dispatch = None THEN attempted ELSE tally
\* What is claimed as attempted when a step begins.
Dispatch(step) ==
  attempted' = IF step.dispatch = None THEN attempted ELSE Plus(tally, step.dispatch)

\* The next operation is done: its ciphertext, its count and its states.
Completes(step, c) ==
  /\ made' = With(made, step.stage, c)
  /\ pc' = pc + 1
  /\ tally' = Plus(tally, step.counts)
  /\ states' = states + step.states
  /\ UNCHANGED <<case, outcome, sealed>>

\* The next operation and the check of what it left.
Operate ==
  /\ Running
  /\ LET step == Next1
         c == Result(program, made, step)
     IN  /\ Dispatch(step)
         /\ IF Passes(program, c, step)
            THEN Completes(step, c) /\ UNCHANGED fault
            ELSE Fail("none", Plus(tally, step.counts), states)

\* The call leaves a level or a scale that is not the expected one, at a step
\* where that is not checked: its state goes into the trace, and the run goes on
\* until a later check fails of it or the trace is compared with the profile.
LeavesAmiss ==
  /\ Running
  /\ fault = "none" /\ Next1.states > 0
  /\ Dispatch(Next1)
  /\ \E field \in {"level", "scale"} \ Next1.checked :
       Completes(Next1, AmissIn(program, Result(program, made, Next1), field))
  /\ fault' = "amiss"

\* The call returns an error, before or after some of its own counts.
OperationFails ==
  /\ Running
  /\ \E done \in Next1.partial :
       /\ Dispatch(Next1)
       /\ Fail("call", Plus(tally, done), states)

\* The call returns, but what it left does not pass the check, or its state cannot
\* be taken.
ResultRefused ==
  /\ Running
  /\ \E what \in {"state", "snapshot"} :
       /\ what = "state" => Next1.checked # {}
       /\ Dispatch(Next1)
       /\ Fail(what, Plus(tally, Next1.counts), states)

\* The input, or the circuit with its encoded operands, changes under the run.
\* Where nothing is sealed only the end of the run can tell.
Changes ==
  /\ outcome = "running"
  /\ fault = "none"
  /\ program.seals \/ pc = Len(program.steps)
  /\ fault' = "changed"
  /\ UNCHANGED <<case, made, pc, tally, attempted, states, outcome, sealed>>

-----------------------------------------------------------------------------
Finishing == outcome = "running" /\ pc = Len(program.steps)

\* The last group of calls is over: what was completed is what was attempted.
Settled == attempted' = tally

\* Circuit and input are validated again; then what the evaluator is bound to, its
\* keys and its runtime identities are compared, and the output is digested and
\* validated.
ChangeNoticed ==
  /\ Finishing
  /\ Settled
  /\ fault = "changed"
  /\ Fail("changed", tally, states)

EndRefused ==
  /\ Finishing
  /\ Settled
  /\ \E what \in {"graph", "result"} : Fail(what, tally, states)

AsProfiled ==
  /\ tally = program.profile
  /\ states = program.states
  /\ \A i \in DOMAIN program.steps :
       FitsIn(program, made[program.steps[i].stage], program.steps[i].expected)

Return ==
  /\ Finishing
  /\ Settled
  /\ fault # "changed"
  /\ IF AsProfiled
     THEN outcome' = "returned" /\ UNCHANGED <<case, made, pc, tally, states, fault, sealed>>
     ELSE Fail("none", tally, states)

Next ==
  \/ Reject
  \/ Operate
  \/ LeavesAmiss
  \/ OperationFails
  \/ ResultRefused
  \/ Changes
  \/ ChangeNoticed
  \/ EndRefused
  \/ Return

Spec == Init /\ [][Next]_circuitVars

-----------------------------------------------------------------------------
\* Every circuit computes what it is for: the bits of every word, the order of
\* two words in the certified range, the selected operands, the decoded selector,
\* the leaf a plain walk of the tree reaches, whatever integers the ModUps add.
\* The table lookups have a meaning only on a grid that earlier subtractions
\* have to leave the values on.
ResultsCorrect ==
  outcome = "returned" =>
    /\ \A s \in DOMAIN Subject.wanted : \A w \in DOMAIN Lanes(program, made[s]) :
         LET c == Lanes(program, made[s])[w]
         IN  c.exact /\ c.num * Den = Lanes(program, Subject.wanted[s])[w] * Den^c.den
    /\ \A s \in DOMAIN Subject.residues :
         (made[s].num * Den) % Den^(made[s].den + 1) = Subject.residues[s] * Den^made[s].den

\* The levels, the scales of the operands, the tables of states and the profile
\* of counts are written down apart; an evaluation nothing goes wrong in returns
\* only if all of them fit together.
CleanRunReturns ==
  outcome \in {"failed", "returned"} /\ fault = "none" => outcome = "returned"

\* The decoder's partial trace of a failure authenticates, although calls are
\* counted in the middle of its helpers, unless the circuit or the input changed
\* or a level or scale that nothing checked on the spot went amiss, at any time
\* before.  Then it does not, whatever the run failed of in the end.
FailureEvidenceAuthenticates ==
  outcome = "failed" /\ program.seals => (sealed <=> fault \notin {"changed", "amiss"})
=============================================================================
