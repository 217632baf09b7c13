-------------------------- MODULE PrebuiltEvaluator --------------------------
(***************************************************************************)
(* The assembly of a bootstrapping evaluator from encoded DFT matrices,    *)
(* lattigo/circuits/ckks/bootstrapping/prebuilt_evaluator.go.              *)
(*                                                                         *)
(* A carrier moves a matrix pair out of its donors; its copies share one   *)
(* cell, which the first call to swap it gets.  A call brackets its work   *)
(* with snapshots of the construction counters (ConstructionCounters) and  *)
(* gives no evaluator back when anything failed, panicked or was           *)
(* constructed meanwhile, in any goroutine.                                *)
(***************************************************************************)
EXTENDS ConstructionCounters, FiniteSets

CONSTANTS
  Donors,    \* dft.Matrix variables, each holding an encoded matrix at first
  EncodeOf,  \* those whose matrix fits the prepared CoeffsToSlots literal
  DecodeOf,  \* those whose matrix fits the prepared SlotsToCoeffs literal
  Cells,     \* ownership cells
  None       \* a nil donor, an empty variable, the cell of a zero carrier

ASSUME PrebuiltAssumption ==
  /\ EncodeOf \subseteq Donors /\ DecodeOf \subseteq Donors
  /\ EncodeOf \cap DecodeOf = {}
  /\ None \notin Donors \cup Cells

VARIABLES
  donor,  \* donor[d]: the matrix in the variable d, None when it is cleared
  cell,   \* cell[x]: the pair in the ownership cell x and whether it is issued
  call,   \* call[c]: the arguments of c's call
  keys,   \* keys[c]: what the key donor variable of c's call points to
  pair,   \* pair[c]: the pair c's call has taken from its carrier
  eval,   \* eval[c]: the evaluator c's call has under assembly
  err,    \* err[c]: whether its error is set
  given   \* given[c]: the evaluator c's call returned

prebuiltVars == <<donor, cell, call, keys, pair, eval, err, given>>
allVars == <<vars, prebuiltVars>>

Matrix == Donors \cup {None}
Pair(m, n) == [held |-> TRUE, c2s |-> m, s2c |-> n]
NoPair == [held |-> FALSE, c2s |-> None, s2c |-> None]
Unissued == [issued |-> FALSE, pair |-> NoPair]

(* A nil key donor is as good as an empty one. *)
Keys == {"empty", "incomplete", "complete"}
Arguments ==
  [carrier : {x \in Cells : cell[x].issued} \cup {None}, sealed : BOOLEAN, hostile : BOOLEAN]
NoCall == [carrier |-> None, sealed |-> FALSE, hostile |-> FALSE]
NoEvaluator == [pair |-> NoPair, keys |-> "empty"]

PrebuiltInit ==
  /\ Init
  /\ donor = [d \in Donors |-> d]
  /\ cell = [x \in Cells |-> Unissued]
  /\ call = [c \in Callers |-> NoCall]
  /\ keys = [c \in Callers |-> "empty"]
  /\ pair = [c \in Callers |-> NoPair]
  /\ eval = [c \in Callers |-> NoEvaluator]
  /\ err = [c \in Callers |-> FALSE]
  /\ given = [c \in Callers |-> NoEvaluator]

-----------------------------------------------------------------------------
(* Carriers. *)

(* NewPrebuiltDFTMatrixCarrier: nil and aliased donors are refused, a donor
   that is cleared already is moved as it is, and every donor ends cleared. *)
NewCarrier(d1, d2) ==
  LET ok == None \notin {d1, d2} /\ d1 # d2 IN
  /\ donor' = [d \in Donors |-> IF d \in {d1, d2} THEN None ELSE donor[d]]
  /\ \/ /\ ok
        /\ \E x \in Cells :
             /\ ~cell[x].issued
             /\ cell' = [cell EXCEPT ![x] = [issued |-> TRUE, pair |-> Pair(donor[d1], donor[d2])]]
     \/ ~ok /\ UNCHANGED cell
  /\ UNCHANGED <<vars, call, keys, pair, eval, err, given>>

-----------------------------------------------------------------------------
(* One call. *)

(* The first snapshot; the arguments, a copy of some carrier among them, are
   chosen by the caller.  A hostile source constructs or panics. *)
CallNew(c) ==
  /\ BeginBracket(c)
  /\ \E a \in Arguments, k \in Keys :
       /\ call' = [call EXCEPT ![c] = a]
       /\ keys' = [keys EXCEPT ![c] = k]
  /\ UNCHANGED <<donor, cell, pair, eval, err, given>>

LoadFirst(c) == LoadBefore(c, "consume") /\ UNCHANGED prebuiltVars

(* What consume finds in the cell. *)
Taken(c) == IF call[c].carrier = None THEN NoPair ELSE cell[call[c].carrier].pair

HasKeys(c) == keys[c] # "empty"

(* Fault: the cell is read, not swapped. *)
FaultCellAfter(c) == cell

(* Fault: a call without keys leaves the carrier alone. *)
FaultCellAfterKeys(c) ==
  IF call[c].carrier = None \/ ~HasKeys(c) THEN cell ELSE [cell EXCEPT ![call[c].carrier].pair = NoPair]

(* What its swap leaves there. *)
CellAfter(c) ==
  IF call[c].carrier = None THEN cell ELSE [cell EXCEPT ![call[c].carrier].pair = NoPair]

(* Both inputs are consumed before either is looked at; a call that lacks one
   clears the other. *)
Consume(c) ==
  /\ pc[c] = "consume"
  /\ cell' = CellAfter(c)
  /\ keys' = [keys EXCEPT ![c] = "empty"]
  /\ \/ /\ ~HasKeys(c) \/ ~Taken(c).held
        /\ err' = [err EXCEPT ![c] = TRUE]
        /\ pc' = [pc EXCEPT ![c] = "end"]
        /\ UNCHANGED <<pair, eval>>
     \/ /\ HasKeys(c) /\ Taken(c).held
        /\ pair' = [pair EXCEPT ![c] = Taken(c)]
        /\ eval' = [eval EXCEPT ![c].keys = keys[c]]
        /\ pc' = [pc EXCEPT ![c] = "assemble"]
        /\ UNCHANGED err
  /\ UNCHANGED <<counterVars, donor, call, given>>

(* A source that touches a public DFT constructor. *)
SourceConstructs(c, k) ==
  /\ call[c].hostile
  /\ EnterConstruction(c, k, "assemble")
  /\ UNCHANGED prebuiltVars

(* The source clears its matrices when it has handed them over, and refuses
   those that do not fit the prepared literals; a hostile one checks nothing. *)
Fits(c) ==
  \/ call[c].hostile
  \/ pair[c].c2s \in EncodeOf /\ pair[c].s2c \in DecodeOf

(* newEvaluatorFromPreparedWithDFTMatrixSource gives the evaluator back also
   when checkKeys has failed; a refused seal or matrix gives none.  The pair is
   cleared by the deferred function in every case. *)
Assemble(c) ==
  /\ pc[c] = "assemble"
  /\ LET built == call[c].sealed /\ Fits(c) IN
     /\ eval' = [eval EXCEPT ![c] = IF built THEN [@ EXCEPT !.pair = pair[c]] ELSE NoEvaluator]
     /\ err' = [err EXCEPT ![c] = ~built \/ eval[c].keys # "complete"]
  /\ pair' = [pair EXCEPT ![c] = NoPair]
  /\ pc' = [pc EXCEPT ![c] = "end"]
  /\ UNCHANGED <<counterVars, donor, cell, call, keys, given>>

(* A panic anywhere in the assembly is recovered by the deferred finish. *)
AssemblePanics(c) ==
  /\ pc[c] = "assemble"
  /\ call[c].hostile
  /\ eval' = [eval EXCEPT ![c] = NoEvaluator]
  /\ err' = [err EXCEPT ![c] = TRUE]
  /\ pair' = [pair EXCEPT ![c] = NoPair]
  /\ pc' = [pc EXCEPT ![c] = "end"]
  /\ UNCHANGED <<counterVars, donor, cell, call, keys, given>>

FinishBegins(c) == EndWork(c, "end") /\ UNCHANGED prebuiltVars
LoadSecond(c) == LoadAfter(c) /\ UNCHANGED prebuiltVars

(* Fault: only an error of Delta counts. *)
FaultConstructed(d) == d.status # "accepted"

(* Fault: a refused difference is taken for an empty one. *)
FaultConstructedBy(d) == d.by # Zero

(* enforceZeroPrebuiltDFTConstruction: an error of Delta counts as well. *)
Constructed(d) == d.status # "accepted" \/ d.by # Zero

(* Fault: the error of the assembly does not take the evaluator back. *)
FaultGiven(c, d) == IF Constructed(d) THEN NoEvaluator ELSE eval[c]

Given(c, d) == IF Constructed(d) \/ err[c] THEN NoEvaluator ELSE eval[c]

(* The end of finishPrebuiltEvaluatorAssembly: with its difference the call
   returns. *)
Finish(c) ==
  /\ TakeDelta(c, "returned")
  /\ given' = [given EXCEPT ![c] = Given(c, delta'[c])]
  /\ err' = [err EXCEPT ![c] = @ \/ Constructed(delta'[c])]
  /\ eval' = [eval EXCEPT ![c] = NoEvaluator]
  /\ UNCHANGED <<donor, cell, call, keys, pair>>

(* Fault: a source that constructed does not come back. *)
FaultResume(c) == "idle"

(* The increments of a source and those of other goroutines. *)
Resume(c) == IF eval[c].keys = "empty" THEN "idle" ELSE "assemble"

NoteLoad(c) == LoadCounter(c, Resume(c)) /\ UNCHANGED prebuiltVars
NoteSwap(c) == SwapCounter(c, Resume(c)) /\ UNCHANGED prebuiltVars
OtherConstruction(c, k) == EnterConstruction(c, k, "idle") /\ UNCHANGED prebuiltVars

CallStep(c) ==
  \/ LoadFirst(c) \/ Consume(c) \/ Assemble(c)
  \/ FinishBegins(c) \/ LoadSecond(c) \/ Finish(c)

PrebuiltNext ==
  \/ \E d1, d2 \in Matrix : NewCarrier(d1, d2)
  \/ \E c \in Callers :
       \/ CallNew(c) \/ CallStep(c) \/ AssemblePanics(c)
       \/ NoteLoad(c) \/ NoteSwap(c)
       \/ \E k \in Kinds : SourceConstructs(c, k) \/ OtherConstruction(c, k)

(* A goroutine inside the call goes on. *)
PrebuiltSpec ==
  /\ PrebuiltInit /\ [][PrebuiltNext]_allVars
  /\ \A c \in Callers : WF_allVars(CallStep(c)) /\ WF_allVars(NoteLoad(c)) /\ WF_allVars(NoteSwap(c))

-----------------------------------------------------------------------------
(* Properties. *)

PairType == [held : BOOLEAN, c2s : Matrix, s2c : Matrix]
EvaluatorType == [pair : PairType, keys : Keys]

(* Every variable has its type. *)
PrebuiltTypeOK ==
  /\ counter \in [Kinds -> 0 .. MaxCounter]
  /\ pc \in [Callers -> Location \cup {"consume", "assemble", "end", "returned"}]
  /\ donor \in [Donors -> Matrix]
  /\ cell \in [Cells -> [issued : BOOLEAN, pair : PairType]]
  /\ call \in [Callers -> [carrier : Cells \cup {None}, sealed : BOOLEAN, hostile : BOOLEAN]]
  /\ keys \in [Callers -> Keys]
  /\ pair \in [Callers -> PairType]
  /\ eval \in [Callers -> EvaluatorType]
  /\ err \in [Callers -> BOOLEAN]
  /\ given \in [Callers -> EvaluatorType]

(* The places that hold the matrix m. *)
InPair(m, p) == m \in {p.c2s, p.s2c}
Holders(m) ==
  {<<"donor", d>> : d \in {d \in Donors : donor[d] = m}}
    \cup {<<"cell", x>> : x \in {x \in Cells : InPair(m, cell[x].pair)}}
    \cup {<<"call", c>> : c \in {c \in Callers : InPair(m, pair[c]) \/ InPair(m, eval[c].pair)}}
    \cup {<<"given", c>> : c \in {c \in Callers : InPair(m, given[c].pair)}}

(* A matrix is moved, never shared: whichever copies of a carrier the calls
   race with, one variable, cell, call or evaluator holds it
   (prebuilt_evaluator.go:15). *)
OneOwner == \A m \in Donors : Cardinality(Holders(m)) <= 1

(* A call that returned has consumed its carrier and its key donor, also when
   it failed, so nothing of it can be tried again
   (prebuilt_evaluator.go:105). *)
ConsumedOnReturn ==
  \A c \in Callers : pc[c] = "returned" =>
    /\ call[c].carrier # None => ~cell[call[c].carrier].pair.held
    /\ keys[c] = "empty"
    /\ pair[c] = NoPair

(* Whoever gets an evaluator got a checked one: sealed parameters, complete
   keys, and matrices that fit unless the source did not check them. *)
GivenIsChecked ==
  \A c \in Callers : given[c] # NoEvaluator =>
    /\ call[c].sealed /\ given[c].keys = "complete"
    /\ call[c].hostile \/ (given[c].pair.c2s \in EncodeOf /\ given[c].pair.s2c \in DecodeOf)

(* Nothing was constructed, in any goroutine, inside the bracket of a call that
   gives an evaluator back: neither by its source nor beside it, although the
   snapshots are not atomic and the counters saturate. *)
NothingConstructed ==
  \A c \in Callers : given[c] # NoEvaluator =>
    \A k \in Kinds : mark[c].noted2[k] <= mark[c].begun[k]

(* A process whose counter is saturated can no longer prove that nothing was
   constructed: no call that ends then gives an evaluator back
   (construction_counters.go:59). *)
SaturatedGivesNothing ==
  \A c \in Callers : given[c] # NoEvaluator =>
    \A k \in Kinds : mark[c].noted2[k] < MaxCounter

(* A pair is moved once and used up by every call that got hold of it
   (prebuilt_evaluator.go:63). *)
MovedOnce == OneOwner /\ ConsumedOnReturn

(* An evaluator is given back only when it is checked and nothing was, or could
   have been without notice, constructed (prebuilt_evaluator.go:167). *)
GivenIsSound == GivenIsChecked /\ NothingConstructed /\ SaturatedGivesNothing

(* Every call returns, and the increment loop ends for both of two contending
   goroutines: a lost compare-and-swap is somebody else's increment. *)
Returns ==
  \A c \in Callers : /\ pc[c] = "load" ~> pc[c] # "load" /\ pc[c] # "cas"
                     /\ call[c] # NoCall /\ pc[c] = "snapshot" ~> pc[c] = "returned"
=============================================================================
