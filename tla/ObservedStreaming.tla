-------------------------- MODULE ObservedStreaming --------------------------
(***************************************************************************)
(* The observed construction of a DFT matrix,                              *)
(* lattigo/circuits/ckks/dft/observed_streaming.go.                        *)
(*                                                                         *)
(* The generator lends one factor at a time to a consumer, which moves the *)
(* transformation it encoded into a product and hands the product back.    *)
(* The consumer is any code: it may fail, panic, start another             *)
(* construction, keep what it was lent and hand back anything it holds.    *)
(* Whatever it does, the trace that is returned has to pass its own        *)
(* validator, and a transformation ends in one place.                      *)
(*                                                                         *)
(* A digest and a byte count stand for the transformation they describe;   *)
(* role, factor count and sequence number of an event follow from its      *)
(* trace and its position.                                                 *)
(***************************************************************************)
EXTENDS Integers, Sequences, FiniteSets

CONSTANTS
  Constructions,    \* calls of the constructor
  FactorsOf,        \* FactorsOf[k]: the factor count of k's role, 2 or 3
  Transformations,  \* LinearTransformation variables, each encoded at first
  FitOf,            \* FitOf[t]: the <<k, i>> whose plan accepts the structure of t
  Nothing           \* no product, no payload, no invocation

(* A role has two or three factors. *)
ASSUME StreamingAssumption ==
  /\ FactorsOf \in [Constructions -> {2, 3}]
  /\ Nothing \notin Transformations

VARIABLES
  at,           \* at[k]: idle, generating, consuming or returned
  trace,        \* trace[k]: the trace under construction
  factorIndex,  \* factorIndex[k]: the factors generated so far
  matrices,     \* matrices[k]: the transformations k has taken
  result,       \* result[k]: those of the matrix k returned
  encoded,      \* encoded[t]: whether the variable t still has its transformation
  product       \* product[t]: the state of the product t was moved into

streamingVars == <<at, trace, factorIndex, matrices, result, encoded, product>>

(* A discarded product, and one that was never sealed. *)
Zeroed == [invocation |-> Nothing, available |-> FALSE, transferred |-> FALSE]

Event(code, i, payload) == [code |-> code, index |-> i, payload |-> payload]
Cleanup(code, i) == [code |-> code, index |-> i]
NoTrace == [status |-> "none", stage |-> "none", count |-> 0, completed |-> 0, attempted |-> 0,
            events |-> <<>>, cleanup |-> <<>>, factors |-> <<>>]

StreamingInit ==
  /\ at = [k \in Constructions |-> "idle"]
  /\ trace = [k \in Constructions |-> NoTrace]
  /\ factorIndex = [k \in Constructions |-> 0]
  /\ matrices = [k \in Constructions |-> <<>>]
  /\ result = [k \in Constructions |-> <<>>]
  /\ encoded = [t \in Transformations |-> TRUE]
  /\ product = [t \in Transformations |-> Zeroed]

-----------------------------------------------------------------------------
(* The validator of traces. *)

FactorCodes ==
  <<"FactorGenerated", "NumericDigested", "FactorEncoded", "EncodedDigested",
    "NumericReferenceDropped">>

InFactor(n, s) == s \in 2 .. 5 * n + 1

ExpectedCode(n, s) ==
  CASE s = 1 -> "TransformStart"
    [] InFactor(n, s) -> FactorCodes[((s - 2) % 5) + 1]
    [] s = 5 * n + 2 -> "TransformEnd"
    [] s = 5 * n + 3 -> "GeneratorReturned"

ExpectedIndex(n, s) == IF InFactor(n, s) THEN (s - 2) \div 5 ELSE -1

(* validateObservedStreamingEventPrefix *)
IsLifecyclePrefix(n, events) ==
  /\ Len(events) <= 5 * n + 3
  /\ \A s \in 1 .. Len(events) :
       /\ events[s].code = ExpectedCode(n, s)
       /\ events[s].index = ExpectedIndex(n, s)
       /\ events[s].payload # Nothing <=> events[s].code \in {"NumericDigested", "EncodedDigested"}

(* The evidence of the factors agrees with the events that announced them: by
   is the invocation its product was sealed for, of the transformation. *)
EvidenceAgrees(t, ownership) ==
  \A i \in 1 .. Len(t.factors) :
    /\ t.factors[i].by[2] = i - 1
    /\ t.factors[i].ownership = ownership
    /\ 5 * i <= Len(t.events)
    /\ t.events[5 * i - 2].payload = t.factors[i].of
    /\ t.events[5 * i].payload = t.factors[i].of

(* What the first n factors of a failed construction leave in the ledger. *)
Discards(n) ==
  [i \in 1 .. n |-> Cleanup("MatrixArtifactDiscarded", i - 1)]
    \o <<Cleanup("GeneratorReferencesCleared", -1)>>

(* validateObservedStreamingFailureLedger *)
FailureLedger(t) ==
  LET done == Len(t.factors)
      cleared == <<Cleanup("FactorReferenceCleared", done)>> \o Discards(done)
  IN
  /\ t.attempted = t.completed + 1
  /\ \/ /\ t.stage \in {"consumer", "product"}
        /\ done < t.count /\ Len(t.events) = 2 + 5 * done
        /\ t.cleanup \in {cleared, <<Cleanup("ProductDiscarded", done)>> \o cleared}
     \/ /\ t.stage = "generator"
        /\ done <= t.count /\ Len(t.events) = 1 + 5 * done /\ t.cleanup = Discards(done)
     \/ /\ t.stage = "seal"
        /\ done = t.count /\ Len(t.events) = 5 * done + 3 /\ t.cleanup = Discards(done)

(* Validate; n is the factor count of the role, 0 for an unknown one. *)
Validates(n, t) ==
  IF t.status = "failure" /\ t.stage = "validation"
  THEN t = [NoTrace EXCEPT !.status = "failure", !.stage = "validation", !.count = n]
  ELSE /\ n # 0 /\ t.count = n /\ t.completed = Len(t.events)
       /\ IsLifecyclePrefix(n, t.events)
       /\ \/ /\ t.status = "success" /\ t.stage = "none"
             /\ Len(t.events) = 5 * n + 3 /\ t.attempted = t.completed
             /\ t.cleanup = <<>> /\ Len(t.factors) = n
             /\ EvidenceAgrees(t, "matrix")
          \/ /\ t.status = "failure"
             /\ EvidenceAgrees(t, "discarded") /\ FailureLedger(t)

-----------------------------------------------------------------------------
(* The trace as it is built. *)

AddEvent(t, code, i, payload) == [t EXCEPT !.events = Append(@, Event(code, i, payload))]
AddCleanup(t, code, i) == [t EXCEPT !.cleanup = Append(@, Cleanup(code, i))]
Sealed(t) == [t EXCEPT !.completed = Len(t.events)]

(* What generatorReturned, and the failing seal, do to the factors taken so
   far. *)
Discarded(t) ==
  [t EXCEPT !.factors = [i \in DOMAIN @ |-> [@[i] EXCEPT !.ownership = "discarded"]],
            !.cleanup = @ \o Discards(Len(t.factors))]

(* generatorReturned, then the code after the generator: the trace to return.
   whole says that the generator had no error and every factor is taken. *)
AfterGenerator(t, whole) ==
  LET ended == AddEvent(AddEvent(t, "TransformEnd", -1, Nothing), "GeneratorReturned", -1, Nothing)
      success == Sealed([ended EXCEPT !.status = "success", !.stage = "none",
                                      !.attempted = Len(ended.events)])
      late == [Discarded(success) EXCEPT !.status = "failure", !.stage = "seal",
                                         !.attempted = Len(success.events) + 1]
      staged == IF t.stage = "none"
                THEN [t EXCEPT !.stage = "generator", !.attempted = Len(t.events) + 1] ELSE t
  IN IF ~whole THEN Sealed(Discarded(staged))
     ELSE IF Validates(t.count, success) THEN success ELSE Sealed(late)

(* The construction k returns with the trace t: its matrix, or nothing. *)
Deliver(k, t) ==
  /\ trace' = [trace EXCEPT ![k] = t]
  /\ result' = [result EXCEPT ![k] = IF t.status = "success" THEN matrices[k] ELSE <<>>]
  /\ matrices' = [matrices EXCEPT ![k] = <<>>]
  /\ at' = [at EXCEPT ![k] = "returned"]

-----------------------------------------------------------------------------
(* The constructor. *)

(* A refused argument: an unknown role, no consumer or encoder, another
   precision, other parameters or a literal that does not fit. *)
Refuse(k) ==
  /\ at[k] = "idle"
  /\ \E n \in {0, FactorsOf[k]} :
       Deliver(k, Sealed([NoTrace EXCEPT !.status = "failure", !.stage = "validation", !.count = n]))
  /\ UNCHANGED <<factorIndex, encoded, product>>

Start(k) ==
  /\ at[k] = "idle"
  /\ at' = [at EXCEPT ![k] = "generating"]
  /\ trace' = [trace EXCEPT ![k] =
       AddEvent([NoTrace EXCEPT !.status = "failure", !.count = FactorsOf[k]],
                "TransformStart", -1, Nothing)]
  /\ UNCHANGED <<factorIndex, matrices, result, encoded, product>>

(* The generator emits its next factor, and the consumer is lent it. *)
Generate(k) ==
  /\ at[k] = "generating" /\ factorIndex[k] < FactorsOf[k]
  /\ at' = [at EXCEPT ![k] = "consuming"]
  /\ factorIndex' = [factorIndex EXCEPT ![k] = @ + 1]
  /\ LET t == AddEvent(trace[k], "FactorGenerated", factorIndex[k], Nothing) IN
     trace' = [trace EXCEPT ![k] = [t EXCEPT !.attempted = Len(t.events) + 1]]
  /\ UNCHANGED <<matrices, result, encoded, product>>

(* The invocation whose input is active while k's consumer runs. *)
Invocation(k) == <<k, factorIndex[k] - 1>>

(* NewObservedFactorProduct, by whichever consumer has an active input; an
   inactive one, or a variable moved already, is refused and nothing changes. *)
Seal(k, t) ==
  /\ at[k] = "consuming"
  /\ encoded[t]
  /\ encoded' = [encoded EXCEPT ![t] = FALSE]
  /\ product' = [product EXCEPT ![t] =
       [invocation |-> Invocation(k), available |-> TRUE, transferred |-> FALSE]]
  /\ UNCHANGED <<at, trace, factorIndex, matrices, result>>

(* Fault: the token of the invocation is not compared. *)
FaultTakes(k, p) == p # Nothing /\ product[p].available

(* take: one shot, and only for the invocation the product was sealed for. *)
Takes(k, p) == p # Nothing /\ product[p].available /\ product[p].invocation = Invocation(k)

(* A product that is not accepted is discarded, whoever it was sealed for. *)
ProductsAfter(k, p, failed) ==
  IF p = Nothing THEN product
  ELSE [product EXCEPT ![p] =
          IF ~failed /\ Takes(k, p) /\ Invocation(k) \in FitOf[p]
          THEN [Zeroed EXCEPT !.transferred = TRUE] ELSE Zeroed]

(* The consumer hands back an accepted product; the generator drops the factor
   and goes on. *)
Accept(k, p) ==
  /\ at[k] = "consuming"
  /\ Takes(k, p) /\ Invocation(k) \in FitOf[p]
  /\ product' = ProductsAfter(k, p, FALSE)
  /\ LET i == factorIndex[k] - 1
         digested == AddEvent(AddEvent(AddEvent(trace[k], "NumericDigested", i, p),
                                       "FactorEncoded", i, Nothing), "EncodedDigested", i, p)
         taken == [digested EXCEPT !.factors =
                     Append(@, [by |-> product[p].invocation, of |-> p, ownership |-> "matrix"])]
     IN trace' = [trace EXCEPT ![k] = AddEvent(taken, "NumericReferenceDropped", i, Nothing)]
  /\ matrices' = [matrices EXCEPT ![k] = Append(@, p)]
  /\ at' = [at EXCEPT ![k] = "generating"]
  /\ UNCHANGED <<factorIndex, result, encoded>>

(* The discarded product, then the factor the generator drops. *)
LedgerOf(k, p, t) ==
  LET i == factorIndex[k] - 1
      discarded == IF p = Nothing THEN t ELSE AddCleanup(t, "ProductDiscarded", i)
  IN AddCleanup(discarded, "FactorReferenceCleared", i)

(* The consumer fails, with or without a product, or panics, which loses the
   product; or what it hands back is refused: nil, taken already, of another
   invocation, or of another structure. *)
Reject(k, p, failed) ==
  /\ at[k] = "consuming"
  /\ failed \/ ~(Takes(k, p) /\ Invocation(k) \in FitOf[p])
  /\ product' = ProductsAfter(k, p, failed)
  /\ LET t == [trace[k] EXCEPT !.stage = IF failed THEN "consumer" ELSE "product"] IN
     Deliver(k, AfterGenerator(LedgerOf(k, p, t), FALSE))
  /\ UNCHANGED <<factorIndex, encoded>>

(* The generator has emitted every factor. *)
Complete(k) ==
  /\ at[k] = "generating" /\ factorIndex[k] = FactorsOf[k]
  /\ Deliver(k, AfterGenerator(trace[k], Len(matrices[k]) = FactorsOf[k]))
  /\ UNCHANGED <<factorIndex, encoded, product>>

StreamingNext ==
  \E k \in Constructions :
    \/ Refuse(k) \/ Start(k) \/ Generate(k) \/ Complete(k)
    \/ \E t \in Transformations : Seal(k, t) \/ Accept(k, t)
    \/ \E p \in Transformations \cup {Nothing}, failed \in BOOLEAN : Reject(k, p, failed)

StreamingSpec == StreamingInit /\ [][StreamingNext]_streamingVars

-----------------------------------------------------------------------------
(* Properties. *)

(* The trace of every construction that returned, whatever its consumer did in
   the middle, passes the validator its receiver applies to it
   (observed_streaming.go:351). *)
TracesValidate ==
  \A k \in Constructions : at[k] = "returned" => Validates(trace[k].count, trace[k])

(* The factors of ms that are the variable t, by the construction k. *)
FactorsIn(where, k, ms, t) == {<<where, k, i>> : i \in {j \in DOMAIN ms : ms[j] = t}}

(* The places that hold the transformation of the variable t. *)
InVariable(t) == {x \in {<<"variable">>} : encoded[t]}
InProduct(t) == {x \in {<<"product">>} : product[t].available}
InMatrix(t) == UNION {FactorsIn("taken", k, matrices[k], t) : k \in Constructions}
InResult(t) == UNION {FactorsIn("returned", k, result[k], t) : k \in Constructions}
Places(t) == InVariable(t) \cup InProduct(t) \cup InMatrix(t) \cup InResult(t)

(* A transformation is moved, never shared: from its variable into a product,
   from there into one matrix, also when a product is handed back twice or to
   another construction (observed_streaming.go:228). *)
TransformationMoved == \A t \in Transformations : Cardinality(Places(t)) <= 1

(* A matrix is returned whole: each of its factors was sealed for exactly this
   place, and fits it (observed_streaming.go:660). *)
MatrixIsOwn ==
  \A k \in Constructions : result[k] # <<>> =>
    /\ Len(result[k]) = FactorsOf[k]
    /\ \A i \in DOMAIN result[k] :
         /\ trace[k].factors[i].by = <<k, i - 1>> /\ trace[k].factors[i].of = result[k][i]
         /\ <<k, i - 1>> \in FitOf[result[k][i]]

(* What an observed construction gives away is sound: its trace, its matrix and
   the ownership of what its consumer moved (observed_streaming.go:510). *)
StreamedIsSound == TracesValidate /\ TransformationMoved /\ MatrixIsOwn
=============================================================================
