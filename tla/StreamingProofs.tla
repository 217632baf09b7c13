-------------------------- MODULE StreamingProofs --------------------------
(***************************************************************************)
(* Safety of observed constructions for any number of constructions and    *)
(* transformations, and for any consumers.                                 *)
(*                                                                         *)
(* The trace under construction satisfies the validator's own predicates   *)
(* at every moment: its events are a prefix of the lifecycle and agree     *)
(* with the factors taken.  Whatever a consumer does only decides where    *)
(* that prefix ends, and the ledger of a failure follows from the end.  A  *)
(* transformation has one holder because every step moves it.              *)
(***************************************************************************)
EXTENDS ObservedStreaming, SequenceTheorems, FiniteSetTheorems, TLAPS

-----------------------------------------------------------------------------
(* The inductive invariant. *)

Codes == {"TransformStart", "FactorGenerated", "NumericDigested", "FactorEncoded",
          "EncodedDigested", "NumericReferenceDropped", "TransformEnd", "GeneratorReturned"}
CleanupCodes == {"ProductDiscarded", "FactorReferenceCleared", "MatrixArtifactDiscarded",
                 "GeneratorReferencesCleared"}
Stages == {"none", "validation", "consumer", "product", "generator", "seal"}
Payloads == Transformations \cup {Nothing}
Invocations == Constructions \X Int

Events == [code : Codes, index : Int, payload : Payloads]
Cleanups == [code : CleanupCodes, index : Int]
Evidence == [by : Invocations, of : Transformations, ownership : {"matrix", "discarded"}]
Traces == [status : {"none", "success", "failure"}, stage : Stages, count : Int, completed : Int, attempted : Int,
           events : Seq(Events), cleanup : Seq(Cleanups), factors : Seq(Evidence)]

StreamingTypeOK ==
  /\ at \in [Constructions -> {"idle", "generating", "consuming", "returned"}]
  /\ trace \in [Constructions -> Traces]
  /\ factorIndex \in [Constructions -> Nat]
  /\ matrices \in [Constructions -> Seq(Transformations)]
  /\ result \in [Constructions -> Seq(Transformations)]
  /\ encoded \in [Transformations -> BOOLEAN]
  /\ product \in [Transformations -> [invocation : Invocations \cup {Nothing},
                                      available : BOOLEAN, transferred : BOOLEAN]]

(* The first factors of k: each was sealed for its place, and fits it. *)
OwnFactors(k, factors, ms) ==
  /\ Len(factors) = Len(ms)
  /\ \A i \in 1 .. Len(ms) : /\ factors[i].by = <<k, i - 1>> /\ factors[i].of = ms[i]
                             /\ <<k, i - 1>> \in FitOf[ms[i]]

(* The trace of a construction that has taken the transformations ms. *)
Underway(k, t, ms) ==
  /\ t.status = "failure" /\ t.stage = "none" /\ t.count = FactorsOf[k] /\ t.cleanup = <<>>
  /\ Len(ms) <= FactorsOf[k]
  /\ OwnFactors(k, t.factors, ms)
  /\ IsLifecyclePrefix(FactorsOf[k], t.events)
  /\ EvidenceAgrees(t, "matrix")

ConstructionInv(k) ==
  /\ at[k] = "idle" => factorIndex[k] = 0
  /\ at[k] \in {"idle", "returned"} => matrices[k] = <<>>
  /\ at[k] # "returned" => result[k] = <<>>
  /\ at[k] = "generating" =>
       /\ Underway(k, trace[k], matrices[k])
       /\ factorIndex[k] = Len(matrices[k])
       /\ Len(trace[k].events) = 5 * Len(matrices[k]) + 1
  /\ at[k] = "consuming" =>
       /\ Underway(k, trace[k], matrices[k])
       /\ factorIndex[k] = Len(matrices[k]) + 1 /\ factorIndex[k] <= FactorsOf[k]
       /\ Len(trace[k].events) = 5 * Len(matrices[k]) + 2
       /\ trace[k].attempted = Len(trace[k].events) + 1
  /\ at[k] = "returned" =>
       /\ Validates(trace[k].count, trace[k])
       /\ result[k] # <<>> => Len(result[k]) = FactorsOf[k] /\ OwnFactors(k, trace[k].factors, result[k])

(* What k holds: taken before it returns, given away with its matrix then. *)
Holding(k) == IF at[k] = "returned" THEN result[k] ELSE matrices[k]
HeldAt(t, k, i) == i \in DOMAIN Holding(k) /\ Holding(k)[i] = t

HolderInv(t) ==
  /\ encoded[t] => ~product[t].available
  /\ \A k \in Constructions, i \in Nat : HeldAt(t, k, i) => ~encoded[t] /\ ~product[t].available
  /\ \A k, j \in Constructions, i, l \in Nat : HeldAt(t, k, i) /\ HeldAt(t, j, l) => k = j /\ i = l

IInv ==
  /\ StreamingTypeOK
  /\ \A k \in Constructions : ConstructionInv(k)
  /\ \A t \in Transformations : HolderInv(t)

-----------------------------------------------------------------------------
(* The trace as it is built. *)

LEMMA AddEventType ==
  ASSUME NEW t \in Traces, NEW code \in Codes, NEW i \in Int, NEW p \in Payloads
  PROVE  /\ AddEvent(t, code, i, p) \in Traces
         /\ AddEvent(t, code, i, p).events = Append(t.events, Event(code, i, p))
         /\ AddEvent(t, code, i, p).status = t.status /\ AddEvent(t, code, i, p).stage = t.stage
         /\ AddEvent(t, code, i, p).count = t.count
         /\ AddEvent(t, code, i, p).completed = t.completed
         /\ AddEvent(t, code, i, p).attempted = t.attempted
         /\ AddEvent(t, code, i, p).cleanup = t.cleanup
         /\ AddEvent(t, code, i, p).factors = t.factors
<1>1. Event(code, i, p) \in Events
  BY DEF Event, Events
<1>2. t.events \in Seq(Events)
  BY DEF Traces
<1>3. Append(t.events, Event(code, i, p)) \in Seq(Events)
  BY <1>1, <1>2
<1> QED BY <1>3 DEF AddEvent, Traces

(* What a lifecycle expects next: the five events of the factor after d others,
   then the two that end it. *)
LEMMA NextEvents ==
  ASSUME NEW n \in {2, 3}, NEW d \in 0 .. n
  PROVE  /\ ExpectedCode(n, 1) = "TransformStart" /\ ExpectedIndex(n, 1) = -1
         /\ d < n =>
              /\ ExpectedCode(n, 5 * d + 2) = "FactorGenerated" /\ ExpectedIndex(n, 5 * d + 2) = d
              /\ ExpectedCode(n, 5 * d + 3) = "NumericDigested" /\ ExpectedIndex(n, 5 * d + 3) = d
              /\ ExpectedCode(n, 5 * d + 4) = "FactorEncoded" /\ ExpectedIndex(n, 5 * d + 4) = d
              /\ ExpectedCode(n, 5 * d + 5) = "EncodedDigested" /\ ExpectedIndex(n, 5 * d + 5) = d
              /\ ExpectedCode(n, 5 * d + 6) = "NumericReferenceDropped"
              /\ ExpectedIndex(n, 5 * d + 6) = d
         /\ ExpectedCode(n, 5 * n + 2) = "TransformEnd" /\ ExpectedIndex(n, 5 * n + 2) = -1
         /\ ExpectedCode(n, 5 * n + 3) = "GeneratorReturned" /\ ExpectedIndex(n, 5 * n + 3) = -1
<1>1. CASE n = 2 /\ d = 0
  BY <1>1 DEF ExpectedCode, ExpectedIndex, InFactor, FactorCodes
<1>2. CASE n = 2 /\ d = 1
  BY <1>2 DEF ExpectedCode, ExpectedIndex, InFactor, FactorCodes
<1>3. CASE n = 3 /\ d = 0
  BY <1>3 DEF ExpectedCode, ExpectedIndex, InFactor, FactorCodes
<1>4. CASE n = 3 /\ d = 1
  BY <1>4 DEF ExpectedCode, ExpectedIndex, InFactor, FactorCodes
<1>5. CASE n = 3 /\ d = 2
  BY <1>5 DEF ExpectedCode, ExpectedIndex, InFactor, FactorCodes
<1>6. CASE n = d
  BY <1>6 DEF ExpectedCode, ExpectedIndex, InFactor, FactorCodes
<1> QED BY <1>1, <1>2, <1>3, <1>4, <1>5, <1>6

(* An expected event prolongs a lifecycle. *)
LEMMA Prolonged ==
  ASSUME NEW n \in {2, 3}, NEW es \in Seq(Events), NEW e \in Events,
         IsLifecyclePrefix(n, es), Len(es) < 5 * n + 3,
         e.code = ExpectedCode(n, Len(es) + 1), e.index = ExpectedIndex(n, Len(es) + 1),
         e.payload # Nothing <=> e.code \in {"NumericDigested", "EncodedDigested"}
  PROVE  IsLifecyclePrefix(n, Append(es, e))
<1>1. /\ Len(Append(es, e)) = Len(es) + 1 /\ Append(es, e)[Len(es) + 1] = e
      /\ \A s \in 1 .. Len(es) : Append(es, e)[s] = es[s]
  OBVIOUS
<1>2. \A s \in 1 .. Len(es) + 1 : s = Len(es) + 1 \/ s \in 1 .. Len(es)
  OBVIOUS
<1> QED BY <1>1, <1>2 DEF IsLifecyclePrefix

(* Longer events do not unsay what the factors agree with. *)
LEMMA AgreesLonger ==
  ASSUME NEW t \in Traces, NEW u \in Traces, NEW o, EvidenceAgrees(t, o),
         u.factors = t.factors, Len(u.events) >= Len(t.events),
         \A s \in 1 .. Len(t.events) : u.events[s] = t.events[s]
  PROVE  EvidenceAgrees(u, o)
<1>1. Len(t.events) \in Nat /\ Len(u.events) \in Nat /\ Len(t.factors) \in Nat
  BY DEF Traces
<1> SUFFICES ASSUME NEW i \in 1 .. Len(t.factors)
             PROVE  /\ u.factors[i].by[2] = i - 1 /\ u.factors[i].ownership = o
                    /\ 5 * i <= Len(u.events)
                    /\ u.events[5 * i - 2].payload = u.factors[i].of
                    /\ u.events[5 * i].payload = u.factors[i].of
  BY DEF EvidenceAgrees
<1>2. /\ t.factors[i].by[2] = i - 1 /\ t.factors[i].ownership = o
      /\ 5 * i <= Len(t.events)
      /\ t.events[5 * i - 2].payload = t.factors[i].of
      /\ t.events[5 * i].payload = t.factors[i].of
  BY DEF EvidenceAgrees
<1>3. 5 * i - 2 \in 1 .. Len(t.events) /\ 5 * i \in 1 .. Len(t.events)
  <2>1. 5 * i <= Len(t.events)
    BY <1>2
  <2> QED BY <1>1, <2>1
<1>4. u.events[5 * i - 2] = t.events[5 * i - 2] /\ u.events[5 * i] = t.events[5 * i]
  BY <1>3
<1> QED BY <1>1, <1>2, <1>4

(* The event that a lifecycle of n factors has next, after those of t. *)
IsNext(n, t, code, i, p) ==
  /\ code \in Codes /\ i \in Int /\ p \in Payloads /\ Len(t.events) < 5 * n + 3
  /\ code = ExpectedCode(n, Len(t.events) + 1) /\ i = ExpectedIndex(n, Len(t.events) + 1)
  /\ p # Nothing <=> code \in {"NumericDigested", "EncodedDigested"}

(* A trace with one more expected event. *)
LEMMA Goes ==
  ASSUME NEW n \in {2, 3}, NEW t \in Traces, NEW code \in Codes, NEW i \in Int, NEW p \in Payloads, NEW o,
         IsNext(n, t, code, i, p), IsLifecyclePrefix(n, t.events), EvidenceAgrees(t, o)
  PROVE  LET u == AddEvent(t, code, i, p) IN
         /\ u \in Traces /\ IsLifecyclePrefix(n, u.events) /\ EvidenceAgrees(u, o)
         /\ Len(u.events) = Len(t.events) + 1 /\ u.events[Len(u.events)] = Event(code, i, p)
         /\ \A s \in 1 .. Len(t.events) : u.events[s] = t.events[s]
<1> DEFINE u == AddEvent(t, code, i, p)
<1>0. /\ code \in Codes /\ i \in Int /\ p \in Payloads /\ Len(t.events) < 5 * n + 3
      /\ code = ExpectedCode(n, Len(t.events) + 1) /\ i = ExpectedIndex(n, Len(t.events) + 1)
      /\ p # Nothing <=> code \in {"NumericDigested", "EncodedDigested"}
  BY DEF IsNext
<1>1. u \in Traces /\ u.events = Append(t.events, Event(code, i, p)) /\ u.factors = t.factors
  BY <1>0, AddEventType
<1>2. t.events \in Seq(Events) /\ Event(code, i, p) \in Events
  BY <1>0 DEF Traces, Event, Events
<1>3. /\ Len(u.events) = Len(t.events) + 1 /\ u.events[Len(u.events)] = Event(code, i, p)
      /\ \A s \in 1 .. Len(t.events) : u.events[s] = t.events[s]
  BY <1>1, <1>2
<1>4. IsLifecyclePrefix(n, u.events)
  <2>1. /\ Event(code, i, p).code = code /\ Event(code, i, p).index = i
        /\ Event(code, i, p).payload = p
    BY DEF Event
  <2> QED BY <1>0, <1>1, <1>2, <2>1, Prolonged
<1>5. EvidenceAgrees(u, o)
  <2>1. Len(t.events) \in Nat
    BY <1>2
  <2>2. Len(u.events) >= Len(t.events)
    BY <1>3, <2>1
  <2> HIDE DEF u
  <2> QED BY <1>1, <1>3, <2>2, AgreesLonger
<1> HIDE DEF u
<1>6. u \in Traces /\ IsLifecyclePrefix(n, u.events) /\ EvidenceAgrees(u, o)
  BY <1>1, <1>4, <1>5
<1> QED BY <1>3, <1>6 DEF u

(* A trace of m events on its way through a lifecycle of n factors. *)
Along(n, t, o, m) ==
  t \in Traces /\ IsLifecyclePrefix(n, t.events) /\ EvidenceAgrees(t, o) /\ Len(t.events) = m

LEMMA GoesOn ==
  ASSUME NEW n \in {2, 3}, NEW t, NEW code, NEW i, NEW p, NEW o, NEW m,
         Along(n, t, o, m), IsNext(n, t, code, i, p)
  PROVE  Along(n, AddEvent(t, code, i, p), o, m + 1)
<1>1. /\ t \in Traces /\ IsLifecyclePrefix(n, t.events) /\ EvidenceAgrees(t, o)
      /\ code \in Codes /\ i \in Int /\ p \in Payloads
  BY DEF Along, IsNext
<1> DEFINE u == AddEvent(t, code, i, p)
<1>2. /\ u \in Traces /\ IsLifecyclePrefix(n, u.events) /\ EvidenceAgrees(u, o)
      /\ Len(u.events) = Len(t.events) + 1
  BY <1>1, Goes
<1>3. Len(t.events) = m
  BY DEF Along
<1> HIDE DEF u
<1>4. Along(n, u, o, m + 1)
  BY <1>2, <1>3 DEF Along
<1> QED BY <1>4 DEF u

-----------------------------------------------------------------------------
(* Frames. *)

(* Everything but the construction k. *)
Aside(k) ==
  \A j \in Constructions : j # k =>
    /\ at'[j] = at[j] /\ trace'[j] = trace[j] /\ factorIndex'[j] = factorIndex[j]
    /\ matrices'[j] = matrices[j] /\ result'[j] = result[j]

LEMMA ConstructionsAside ==
  ASSUME IInv, NEW k \in Constructions, Aside(k), ConstructionInv(k)'
  PROVE  \A j \in Constructions : ConstructionInv(j)'
<1> SUFFICES ASSUME NEW j \in Constructions, j # k PROVE ConstructionInv(j)'
  OBVIOUS
<1>1. ConstructionInv(j)
  BY DEF IInv
<1>2. /\ at'[j] = at[j] /\ trace'[j] = trace[j] /\ factorIndex'[j] = factorIndex[j]
      /\ matrices'[j] = matrices[j] /\ result'[j] = result[j]
  BY DEF Aside
<1> QED BY <1>1, <1>2 DEF ConstructionInv

(* Nothing is held that was not, and no product filled. *)
LEMMA HoldersFewer ==
  ASSUME IInv, encoded' = encoded,
         \A t \in Transformations : product'[t].available => product[t].available,
         \A t \in Transformations, k \in Constructions, i \in Nat :
            HeldAt(t, k, i)' => HeldAt(t, k, i)
  PROVE  \A t \in Transformations : HolderInv(t)'
<1> SUFFICES ASSUME NEW t \in Transformations PROVE HolderInv(t)'
  OBVIOUS
<1>1. HolderInv(t)
  BY DEF IInv
<1>2. /\ encoded'[t] = encoded[t] /\ (product'[t].available => product[t].available)
      /\ \A k \in Constructions, i \in Nat : HeldAt(t, k, i)' => HeldAt(t, k, i)
  OBVIOUS
<1>3. encoded'[t] => ~product'[t].available
  BY <1>1, <1>2 DEF HolderInv
<1>4. \A k \in Constructions, i \in Nat : HeldAt(t, k, i)' => ~encoded'[t] /\ ~product'[t].available
  BY <1>1, <1>2 DEF HolderInv
<1>5. \A k, j \in Constructions, i, l \in Nat :
        HeldAt(t, k, i)' /\ HeldAt(t, j, l)' => k = j /\ i = l
  BY <1>1, <1>2 DEF HolderInv
<1> QED BY <1>3, <1>4, <1>5 DEF HolderInv

(* A step of the construction k that takes nothing. *)
LEMMA StepOf ==
  ASSUME IInv, StreamingTypeOK', NEW k \in Constructions, Aside(k), ConstructionInv(k)',
         encoded' = encoded, \A t \in Transformations : product'[t].available => product[t].available,
         Holding(k)' \in {Holding(k), <<>>}
  PROVE  IInv'
<1>1. \A j \in Constructions : ConstructionInv(j)'
  BY ConstructionsAside
<1>2. \A t \in Transformations, j \in Constructions, i \in Nat : HeldAt(t, j, i)' => HeldAt(t, j, i)
  <2> SUFFICES ASSUME NEW t \in Transformations, NEW j \in Constructions, NEW i \in Nat, HeldAt(t, j, i)'
               PROVE  HeldAt(t, j, i)
    OBVIOUS
  <2>1. CASE j = k
    BY <2>1 DEF HeldAt
  <2>2. CASE j # k
    BY <2>2 DEF HeldAt, Holding, Aside
  <2> QED BY <2>1, <2>2
<1>3. \A t \in Transformations : HolderInv(t)'
  BY <1>2, HoldersFewer
<1> QED BY <1>1, <1>3 DEF IInv

-----------------------------------------------------------------------------
(* How a construction returns. *)

LEMMA CleanupTypes ==
  /\ \A i \in Int : Cleanup("ProductDiscarded", i) \in Cleanups
                    /\ Cleanup("FactorReferenceCleared", i) \in Cleanups
                    /\ Cleanup("MatrixArtifactDiscarded", i) \in Cleanups
                    /\ Cleanup("GeneratorReferencesCleared", i) \in Cleanups
  /\ \A n \in Nat : Discards(n) \in Seq(Cleanups)
<1>1. \A i \in Int : /\ Cleanup("ProductDiscarded", i) \in Cleanups
                     /\ Cleanup("FactorReferenceCleared", i) \in Cleanups
                     /\ Cleanup("MatrixArtifactDiscarded", i) \in Cleanups
                     /\ Cleanup("GeneratorReferencesCleared", i) \in Cleanups
  BY DEF Cleanup, Cleanups, CleanupCodes
<1>2. ASSUME NEW n \in Nat PROVE Discards(n) \in Seq(Cleanups)
  <2>1. [i \in 1 .. n |-> Cleanup("MatrixArtifactDiscarded", i - 1)] \in Seq(Cleanups)
    BY <1>1
  <2>2. <<Cleanup("GeneratorReferencesCleared", -1)>> \in Seq(Cleanups)
    BY <1>1
  <2> QED BY <2>1, <2>2 DEF Discards
<1> QED BY <1>1, <1>2

(* The factors of a failure are discarded, and its events counted. *)
LEMMA DiscardedType ==
  ASSUME NEW t \in Traces
  PROVE  LET u == Sealed(Discarded(t)) IN
         /\ u \in Traces
         /\ u.status = t.status /\ u.stage = t.stage /\ u.count = t.count
         /\ u.attempted = t.attempted /\ u.events = t.events /\ u.completed = Len(t.events)
         /\ u.cleanup = t.cleanup \o Discards(Len(t.factors))
         /\ Len(u.factors) = Len(t.factors)
         /\ \A i \in 1 .. Len(t.factors) : /\ u.factors[i].by = t.factors[i].by
                                           /\ u.factors[i].of = t.factors[i].of
                                           /\ u.factors[i].ownership = "discarded"
<1>1. t.factors \in Seq(Evidence) /\ t.cleanup \in Seq(Cleanups) /\ t.events \in Seq(Events)
  BY DEF Traces
<1>2. PICK fs : fs = [i \in DOMAIN t.factors |-> [t.factors[i] EXCEPT !.ownership = "discarded"]]
  OBVIOUS
<1>3. \A i \in DOMAIN t.factors :
        /\ fs[i] \in Evidence /\ fs[i].by = t.factors[i].by /\ fs[i].of = t.factors[i].of
        /\ fs[i].ownership = "discarded"
  <2> SUFFICES ASSUME NEW i \in DOMAIN t.factors
               PROVE  /\ fs[i] \in Evidence /\ fs[i].by = t.factors[i].by
                      /\ fs[i].of = t.factors[i].of /\ fs[i].ownership = "discarded"
    OBVIOUS
  <2>1. PICK e \in Evidence : e = t.factors[i]
    BY <1>1
  <2>2. fs[i] = [e EXCEPT !.ownership = "discarded"]
    BY <1>2, <2>1
  <2> QED BY <2>1, <2>2 DEF Evidence
<1>4. DOMAIN t.factors = 1 .. Len(t.factors) /\ Len(t.factors) \in Nat
  BY <1>1
<1>5. fs \in Seq(Evidence) /\ Len(fs) = Len(t.factors)
  BY <1>2, <1>3, <1>4
<1>6. PICK cs : cs = t.cleanup \o Discards(Len(t.factors))
  OBVIOUS
<1>7. cs \in Seq(Cleanups)
  BY <1>1, <1>4, <1>6, CleanupTypes
<1>8. Discarded(t) = [t EXCEPT !.factors = fs, !.cleanup = cs]
  BY <1>2, <1>6 DEF Discarded
<1>9. Sealed(Discarded(t)) = [t EXCEPT !.factors = fs, !.cleanup = cs, !.completed = Len(t.events)]
  BY <1>8 DEF Sealed, Traces
<1>10. Len(t.events) \in Int
  BY <1>1
<1>11. /\ Sealed(Discarded(t)) \in Traces
       /\ Sealed(Discarded(t)).factors = fs /\ Sealed(Discarded(t)).cleanup = cs
       /\ Sealed(Discarded(t)).status = t.status /\ Sealed(Discarded(t)).stage = t.stage
       /\ Sealed(Discarded(t)).count = t.count /\ Sealed(Discarded(t)).attempted = t.attempted
       /\ Sealed(Discarded(t)).events = t.events /\ Sealed(Discarded(t)).completed = Len(t.events)
  BY <1>5, <1>7, <1>9, <1>10 DEF Traces
<1> QED BY <1>3, <1>4, <1>5, <1>6, <1>11

(* Whatever the consumer of the next factor did, the trace it leaves validates. *)
LEMMA FailureValidates ==
  ASSUME NEW k \in Constructions, NEW t \in Traces, NEW d \in Nat,
         FactorsOf[k] \in {2, 3}, d < FactorsOf[k],
         t.status = "failure", t.stage \in {"consumer", "product"}, t.count = FactorsOf[k],
         t.cleanup \in {<<Cleanup("FactorReferenceCleared", d)>>,
                        <<Cleanup("ProductDiscarded", d), Cleanup("FactorReferenceCleared", d)>>},
         Len(t.factors) = d, Len(t.events) = 5 * d + 2, t.attempted = Len(t.events) + 1,
         IsLifecyclePrefix(FactorsOf[k], t.events), EvidenceAgrees(t, "matrix")
  PROVE  Validates(FactorsOf[k], Sealed(Discarded(t)))
<1> DEFINE v == Sealed(Discarded(t))
<1>0. /\ v \in Traces
      /\ v.status = t.status /\ v.stage = t.stage /\ v.count = t.count
      /\ v.attempted = t.attempted /\ v.events = t.events /\ v.completed = Len(t.events)
      /\ v.cleanup = t.cleanup \o Discards(Len(t.factors))
      /\ Len(v.factors) = Len(t.factors)
      /\ \A i \in 1 .. Len(t.factors) : /\ v.factors[i].by = t.factors[i].by
                                        /\ v.factors[i].of = t.factors[i].of
                                        /\ v.factors[i].ownership = "discarded"
  BY DiscardedType
<1> HIDE DEF v
<1>1. PICK u \in Traces : u = v
  BY <1>0
<1>2. /\ u.status = "failure" /\ u.stage \in {"consumer", "product"} /\ u.count = FactorsOf[k]
      /\ u.attempted = u.completed + 1 /\ u.events = t.events /\ u.completed = Len(u.events)
      /\ u.cleanup = t.cleanup \o Discards(d)
      /\ Len(u.factors) = d
      /\ \A i \in 1 .. d : /\ u.factors[i].by = t.factors[i].by /\ u.factors[i].of = t.factors[i].of
                           /\ u.factors[i].ownership = "discarded"
  BY <1>0, <1>1
<1>3. EvidenceAgrees(u, "discarded")
  <2> SUFFICES ASSUME NEW i \in 1 .. d
               PROVE  /\ u.factors[i].by[2] = i - 1 /\ u.factors[i].ownership = "discarded"
                      /\ 5 * i <= Len(u.events)
                      /\ u.events[5 * i - 2].payload = u.factors[i].of
                      /\ u.events[5 * i].payload = u.factors[i].of
    BY <1>2 DEF EvidenceAgrees
  <2>1. /\ t.factors[i].by[2] = i - 1 /\ 5 * i <= Len(t.events)
        /\ t.events[5 * i - 2].payload = t.factors[i].of
        /\ t.events[5 * i].payload = t.factors[i].of
    BY DEF EvidenceAgrees
  <2> QED BY <1>2, <2>1
<1>4. u.cleanup \in {<<Cleanup("FactorReferenceCleared", d)>> \o Discards(d),
                     <<Cleanup("ProductDiscarded", d)>>
                       \o (<<Cleanup("FactorReferenceCleared", d)>> \o Discards(d))}
  <2>1. \A a, b \in Cleanups, r \in Seq(Cleanups) : <<a, b>> \o r = <<a>> \o (<<b>> \o r)
    <3> SUFFICES ASSUME NEW a \in Cleanups, NEW b \in Cleanups, NEW r \in Seq(Cleanups)
                 PROVE  <<a, b>> \o r = <<a>> \o (<<b>> \o r)
      OBVIOUS
    <3>2. <<a>> \in Seq(Cleanups) /\ <<b>> \in Seq(Cleanups) /\ <<a, b>> \in Seq(Cleanups)
      OBVIOUS
    <3>1. <<a, b>> = <<a>> \o <<b>>
      <4>1. <<a>> \o <<b>> \in Seq(Cleanups) /\ Len(<<a>> \o <<b>>) = 2
        BY <3>2, ConcatProperties
      <4>2. (<<a>> \o <<b>>)[1] = a /\ (<<a>> \o <<b>>)[2] = b
        <5>1. Len(<<a>>) = 1 /\ Len(<<b>>) = 1 /\ <<a>>[1] = a /\ <<b>>[1] = b
          OBVIOUS
        <5>2. \A i \in 1 .. Len(<<a>>) + Len(<<b>>) :
                (<<a>> \o <<b>>)[i] = IF i <= Len(<<a>>) THEN <<a>>[i] ELSE <<b>>[i - Len(<<a>>)]
          BY <3>2, ConcatProperties
        <5> QED BY <5>1, <5>2
      <4>3. PICK x \in Seq(Cleanups) : x = <<a>> \o <<b>>
        BY <4>1
      <4>4. PICK y \in Seq(Cleanups) : y = <<a, b>>
        BY <3>2
      <4>5. Len(y) = 2 /\ y[1] = a /\ y[2] = b
        BY <4>4
      <4>6. Len(x) = 2 /\ x[1] = a /\ x[2] = b
        BY <4>1, <4>2, <4>3
      <4>7. x = y
        <5>1. \A i \in 1 .. Len(x) : x[i] = y[i]
          BY <4>5, <4>6
        <5> QED BY <4>5, <4>6, <5>1, SeqEqual
      <4> QED BY <4>3, <4>4, <4>7
    <3>3. (<<a>> \o <<b>>) \o r = <<a>> \o (<<b>> \o r)
      BY <3>2, ConcatAssociative
    <3> QED BY <3>1, <3>3
  <2>2. /\ Cleanup("ProductDiscarded", d) \in Cleanups
        /\ Cleanup("FactorReferenceCleared", d) \in Cleanups /\ Discards(d) \in Seq(Cleanups)
    BY CleanupTypes
  <2> QED BY <1>2, <2>1, <2>2
<1>5. FailureLedger(u)
  <2> DEFINE cleared == <<Cleanup("FactorReferenceCleared", d)>> \o Discards(d)
  <2>1. u.cleanup \in {cleared, <<Cleanup("ProductDiscarded", d)>> \o cleared}
    BY <1>4
  <2>2. d < u.count /\ Len(u.events) = 2 + 5 * d /\ Len(u.factors) = d
    BY <1>2
  <2> HIDE DEF cleared
  <2>3. cleared = <<Cleanup("FactorReferenceCleared", Len(u.factors))>> \o Discards(Len(u.factors))
    BY <2>2 DEF cleared
  <2> QED BY <1>2, <2>1, <2>2, <2>3 DEF FailureLedger
<1>6. IsLifecyclePrefix(FactorsOf[k], u.events)
  BY <1>2
<1> QED BY <1>1, <1>2, <1>3, <1>5, <1>6 DEF Validates, v

(* Every factor of k is taken. *)
Whole(k, t, ms) ==
  /\ FactorsOf[k] \in {2, 3} /\ Nothing \notin Transformations
  /\ Underway(k, t, ms) /\ Len(ms) = FactorsOf[k] /\ Len(t.events) = 5 * Len(ms) + 1

(* The trace of a whole matrix validates: what the code would do if it did not
   is never done. *)
LEMMA SuccessValidates ==
  ASSUME NEW k \in Constructions, NEW t \in Traces, NEW ms \in Seq(Transformations),
         Whole(k, t, ms)
  PROVE  LET u == AfterGenerator(t, TRUE) IN
         /\ u \in Traces /\ u.status = "success" /\ u.count = FactorsOf[k] /\ u.factors = t.factors
         /\ Validates(FactorsOf[k], u)
<1>1. PICK n \in {2, 3} : n = FactorsOf[k]
  BY DEF Whole
<1>2. /\ t.count = n /\ t.cleanup = <<>> /\ Len(t.factors) = n /\ Len(t.events) = 5 * n + 1
      /\ IsLifecyclePrefix(n, t.events) /\ EvidenceAgrees(t, "matrix")
  BY <1>1 DEF Underway, OwnFactors, Whole
<1>3. /\ ExpectedCode(n, 5 * n + 2) = "TransformEnd" /\ ExpectedIndex(n, 5 * n + 2) = -1
      /\ ExpectedCode(n, 5 * n + 3) = "GeneratorReturned" /\ ExpectedIndex(n, 5 * n + 3) = -1
  BY NextEvents
<1>4. PICK v : v = AddEvent(t, "TransformEnd", -1, Nothing)
  OBVIOUS
<1>5. /\ v \in Traces /\ IsLifecyclePrefix(n, v.events) /\ EvidenceAgrees(v, "matrix")
      /\ Len(v.events) = 5 * n + 2
      /\ v.count = n /\ v.cleanup = <<>> /\ v.factors = t.factors
  <2>1. "TransformEnd" \in Codes /\ -1 \in Int /\ Nothing \in Payloads
    BY DEF Codes, Payloads
  <2>2. v.count = n /\ v.cleanup = <<>> /\ v.factors = t.factors
    BY <1>2, <1>4, <2>1, AddEventType
  <2>3. /\ Len(t.events) < 5 * n + 3
        /\ "TransformEnd" = ExpectedCode(n, Len(t.events) + 1)
        /\ -1 = ExpectedIndex(n, Len(t.events) + 1)
        /\ Nothing # Nothing <=> "TransformEnd" \in {"NumericDigested", "EncodedDigested"}
    BY <1>2, <1>3
  <2>4. LET r == AddEvent(t, "TransformEnd", -1, Nothing) IN
        /\ r \in Traces /\ IsLifecyclePrefix(n, r.events) /\ EvidenceAgrees(r, "matrix")
        /\ Len(r.events) = Len(t.events) + 1
    <3>1. IsLifecyclePrefix(n, t.events) /\ EvidenceAgrees(t, "matrix")
      BY <1>2
    <3>2. IsNext(n, t, "TransformEnd", -1, Nothing)
      BY <2>1, <2>3 DEF IsNext
    <3> QED BY <2>1, <3>1, <3>2, Goes
  <2> QED BY <1>2, <1>4, <2>2, <2>4
<1>6. PICK w : w = AddEvent(v, "GeneratorReturned", -1, Nothing)
  OBVIOUS
<1>7. /\ w \in Traces /\ IsLifecyclePrefix(n, w.events) /\ EvidenceAgrees(w, "matrix")
      /\ Len(w.events) = 5 * n + 3
      /\ w.count = n /\ w.cleanup = <<>> /\ w.factors = t.factors
  <2>1. "GeneratorReturned" \in Codes /\ -1 \in Int /\ Nothing \in Payloads
    BY DEF Codes, Payloads
  <2>2. w.count = n /\ w.cleanup = <<>> /\ w.factors = t.factors
    BY <1>5, <1>6, <2>1, AddEventType
  <2>3. /\ Len(v.events) < 5 * n + 3
        /\ "GeneratorReturned" = ExpectedCode(n, Len(v.events) + 1)
        /\ -1 = ExpectedIndex(n, Len(v.events) + 1)
        /\ Nothing # Nothing <=> "GeneratorReturned" \in {"NumericDigested", "EncodedDigested"}
    BY <1>5, <1>3
  <2>4. LET r == AddEvent(v, "GeneratorReturned", -1, Nothing) IN
        /\ r \in Traces /\ IsLifecyclePrefix(n, r.events) /\ EvidenceAgrees(r, "matrix")
        /\ Len(r.events) = Len(v.events) + 1
    <3>1. v \in Traces
      BY <1>5
    <3>2. IsLifecyclePrefix(n, v.events) /\ EvidenceAgrees(v, "matrix")
      BY <1>5
    <3>3. IsNext(n, v, "GeneratorReturned", -1, Nothing)
      BY <2>1, <2>3 DEF IsNext
    <3> QED BY <2>1, <3>1, <3>2, <3>3, Goes
  <2> QED BY <1>5, <1>6, <2>2, <2>4
<1>8. PICK u : u = Sealed([w EXCEPT !.status = "success", !.stage = "none",
                                    !.attempted = Len(w.events)])
  OBVIOUS
<1>9. /\ u \in Traces /\ u.status = "success" /\ u.stage = "none" /\ u.count = n
      /\ u.events = w.events /\ u.attempted = Len(w.events) /\ u.completed = Len(w.events)
      /\ u.cleanup = <<>> /\ u.factors = t.factors
  <2>1. PICK z \in Int : z = Len(w.events)
    BY <1>7
  <2>2. u = [w EXCEPT !.status = "success", !.stage = "none", !.attempted = z, !.completed = z]
    BY <1>7, <1>8, <2>1 DEF Sealed, Traces
  <2>3. w \in Traces /\ w.count = n /\ w.cleanup = <<>> /\ w.factors = t.factors
    BY <1>7
  <2>4. "none" \in Stages
    BY DEF Stages
  <2>5. /\ u \in Traces /\ u.status = "success" /\ u.stage = "none" /\ u.count = w.count
        /\ u.events = w.events /\ u.attempted = z /\ u.completed = z
        /\ u.cleanup = w.cleanup /\ u.factors = w.factors
    BY <2>2, <2>3, <2>4 DEF Traces
  <2> QED BY <2>1, <2>3, <2>5
<1>10. EvidenceAgrees(u, "matrix")
  <2>1. u.events = w.events /\ u.factors = w.factors /\ EvidenceAgrees(w, "matrix")
    BY <1>7, <1>9
  <2> QED BY <2>1 DEF EvidenceAgrees
<1>11. IsLifecyclePrefix(n, u.events)
  BY <1>7, <1>9
<1>12. Validates(n, u)
  <2>1. u.completed = Len(u.events) /\ Len(u.events) = 5 * n + 3 /\ u.attempted = u.completed
        /\ Len(u.factors) = n /\ n # 0 /\ u.status # "failure"
    <3>1. Len(u.events) = 5 * n + 3 /\ u.completed = Len(u.events) /\ u.attempted = Len(u.events)
      BY <1>7, <1>9
    <3>2. Len(u.factors) = n /\ u.status # "failure"
      BY <1>2, <1>9
    <3> QED BY <3>1, <3>2
  <2> QED BY <1>9, <1>10, <1>11, <2>1 DEF Validates
<1>13. AfterGenerator(t, TRUE) = u
  BY <1>2, <1>4, <1>6, <1>8, <1>12 DEF AfterGenerator
<1> QED BY <1>1, <1>9, <1>12, <1>13

-----------------------------------------------------------------------------
(* The steps. *)

LEMMA NoTraceType ==
  ASSUME NEW n \in Int
  PROVE  /\ NoTrace \in Traces
         /\ \E u \in Traces :
              /\ u = [NoTrace EXCEPT !.status = "failure", !.count = n]
              /\ u.status = "failure" /\ u.stage = "none" /\ u.count = n /\ u.events = <<>>
              /\ u.cleanup = <<>> /\ u.factors = <<>>
         /\ \E u \in Traces :
              /\ u = [NoTrace EXCEPT !.status = "failure", !.stage = "validation", !.count = n]
              /\ u.status = "failure" /\ u.stage = "validation" /\ u.count = n /\ Sealed(u) = u
<1>1. <<>> \in Seq(Events) /\ <<>> \in Seq(Cleanups) /\ <<>> \in Seq(Evidence) /\ Len(<<>>) = 0
  BY EmptySeq
<1>2. PICK es \in Seq(Events), cs \in Seq(Cleanups), fs \in Seq(Evidence) :
        es = <<>> /\ cs = <<>> /\ fs = <<>>
  BY <1>1, Zenon
<1> DEFINE z == 0
<1>20. z \in Int /\ z = Len(es)
  BY <1>1, <1>2
<1>3. PICK t : t = NoTrace
  OBVIOUS
<1>4. t = [status |-> "none", stage |-> "none", count |-> 0, completed |-> z, attempted |-> 0,
           events |-> es, cleanup |-> cs, factors |-> fs]
  BY <1>2, <1>3 DEF NoTrace
<1>5. t \in Traces /\ t.stage = "none" /\ t.completed = z /\ t.events = es /\ t.cleanup = cs
      /\ t.factors = fs
  BY <1>4 DEF Traces, Stages
<1>6. PICK u : u = [t EXCEPT !.status = "failure", !.count = n]
  OBVIOUS
<1>7. /\ u \in Traces /\ u.status = "failure" /\ u.stage = "none" /\ u.count = n /\ u.events = es
      /\ u.cleanup = cs /\ u.factors = fs
  BY <1>5, <1>6 DEF Traces, Stages
<1>8. PICK v : v = [t EXCEPT !.status = "failure", !.stage = "validation", !.count = n]
  OBVIOUS
<1>9. /\ v \in Traces /\ v.status = "failure" /\ v.stage = "validation" /\ v.count = n
      /\ v.events = es /\ v.completed = z
  BY <1>5, <1>8 DEF Traces, Stages
<1>10. Sealed(v) = v
  <2>1. Sealed(v) = [v EXCEPT !.completed = z]
    BY <1>20, <1>9 DEF Sealed
  <2> QED BY <1>9, <2>1 DEF Traces
<1>11. u = [NoTrace EXCEPT !.status = "failure", !.count = n]
  BY <1>3, <1>6
<1>12. v = [NoTrace EXCEPT !.status = "failure", !.stage = "validation", !.count = n]
  BY <1>3, <1>8
<1>13. \E x \in Traces :
         /\ x = [NoTrace EXCEPT !.status = "failure", !.count = n]
         /\ x.status = "failure" /\ x.stage = "none" /\ x.count = n /\ x.events = <<>>
         /\ x.cleanup = <<>> /\ x.factors = <<>>
  BY <1>2, <1>7, <1>11, Zenon
<1>14. \E x \in Traces :
         /\ x = [NoTrace EXCEPT !.status = "failure", !.stage = "validation", !.count = n]
         /\ x.status = "failure" /\ x.stage = "validation" /\ x.count = n /\ Sealed(x) = x
  BY <1>9, <1>10, <1>12, Zenon
<1>15. NoTrace \in Traces
  BY <1>3, <1>5
<1> QED BY <1>13, <1>14, <1>15, Zenon

(* A construction returns with a trace that validates. *)
LEMMA ReturnKeeps ==
  ASSUME IInv, NEW k \in Constructions, NEW t \in Traces, Deliver(k, t), at[k] # "returned",
         encoded' = encoded, factorIndex' = factorIndex,
         product' \in [Transformations -> [invocation : Invocations \cup {Nothing},
                                           available : BOOLEAN, transferred : BOOLEAN]],
         \A x \in Transformations : product'[x].available => product[x].available,
         Validates(t.count, t),
         t.status = "success" =>
           Len(matrices[k]) = FactorsOf[k] /\ OwnFactors(k, t.factors, matrices[k])
  PROVE  IInv'
<1>1. StreamingTypeOK
  BY DEF IInv
<1>2. PICK r \in Seq(Transformations) : r = IF t.status = "success" THEN matrices[k] ELSE <<>>
  <2>1. matrices[k] \in Seq(Transformations)
    BY <1>1 DEF StreamingTypeOK
  <2>2. <<>> \in Seq(Transformations)
    BY EmptySeq
  <2> QED BY <2>1, <2>2
<1>3. /\ trace' = [trace EXCEPT ![k] = t] /\ result' = [result EXCEPT ![k] = r]
      /\ matrices' = [matrices EXCEPT ![k] = <<>>] /\ at' = [at EXCEPT ![k] = "returned"]
  BY <1>2 DEF Deliver
<1>4. StreamingTypeOK'
  <2>1. trace' \in [Constructions -> Traces] /\ result' \in [Constructions -> Seq(Transformations)]
    BY <1>1, <1>3 DEF StreamingTypeOK
  <2>2. /\ matrices' \in [Constructions -> Seq(Transformations)]
        /\ at' \in [Constructions -> {"idle", "generating", "consuming", "returned"}]
    BY <1>1, <1>3 DEF StreamingTypeOK
  <2> QED BY <1>1, <2>1, <2>2 DEF StreamingTypeOK
<1>5. at'[k] = "returned" /\ trace'[k] = t /\ result'[k] = r /\ matrices'[k] = <<>>
  BY <1>1, <1>3 DEF StreamingTypeOK
<1>6. Aside(k)
  BY <1>1, <1>3 DEF Aside, StreamingTypeOK
<1>7. ConstructionInv(k)'
  <2>1. r # <<>> => Len(r) = FactorsOf[k] /\ OwnFactors(k, t.factors, r)
    BY <1>2
  <2> QED BY <1>5, <2>1 DEF ConstructionInv
<1>8. Holding(k)' \in {Holding(k), <<>>}
  BY <1>2, <1>5 DEF Holding
<1> QED BY <1>4, <1>6, <1>7, <1>8, StepOf

LEMMA RefuseKeeps ==
  ASSUME IInv, NEW k \in Constructions, Refuse(k)
  PROVE  IInv'
<1>1. PICK n \in {0, FactorsOf[k]} :
        Deliver(k, Sealed([NoTrace EXCEPT !.status = "failure", !.stage = "validation", !.count = n]))
  BY DEF Refuse
<1>2. n \in Int
  BY StreamingAssumption
<1>3. \E t \in Traces :
        /\ t = [NoTrace EXCEPT !.status = "failure", !.stage = "validation", !.count = n]
        /\ t.status = "failure" /\ t.stage = "validation" /\ t.count = n /\ Sealed(t) = t
  BY <1>2, NoTraceType
<1>4. PICK t \in Traces :
        /\ t = [NoTrace EXCEPT !.status = "failure", !.stage = "validation", !.count = n]
        /\ t.status = "failure" /\ t.stage = "validation" /\ t.count = n /\ Sealed(t) = t
  BY <1>3
<1>5. t.status = "failure" /\ t.stage = "validation" /\ t.count = n
  BY <1>4
<1>6. Validates(t.count, t)
  BY <1>4, <1>5 DEF Validates
<1>7. at[k] = "idle" /\ encoded' = encoded /\ factorIndex' = factorIndex /\ product' = product
  BY DEF Refuse
<1>8. Deliver(k, t)
  BY <1>1, <1>4
<1> QED BY <1>5, <1>6, <1>7, <1>8, ReturnKeeps DEF IInv, StreamingTypeOK

(* The trace of k goes on. *)
LEMMA TraceKeeps ==
  ASSUME IInv, NEW k \in Constructions, NEW t \in Traces, trace' = [trace EXCEPT ![k] = t],
         NEW a \in {"generating", "consuming"}, at[k] # "returned", at' = [at EXCEPT ![k] = a],
         NEW n \in Nat, factorIndex' = [factorIndex EXCEPT ![k] = n],
         UNCHANGED <<matrices, result, encoded, product>>,
         Underway(k, t, matrices[k]),
         a = "generating" => n = Len(matrices[k]) /\ Len(t.events) = 5 * Len(matrices[k]) + 1,
         a = "consuming" =>
           /\ n = Len(matrices[k]) + 1 /\ n <= FactorsOf[k]
           /\ Len(t.events) = 5 * Len(matrices[k]) + 2 /\ t.attempted = Len(t.events) + 1
  PROVE  IInv'
<1>1. StreamingTypeOK /\ ConstructionInv(k)
  BY DEF IInv
<1>2. StreamingTypeOK'
  <2>1. trace' \in [Constructions -> Traces] /\ factorIndex' \in [Constructions -> Nat]
    BY <1>1 DEF StreamingTypeOK
  <2>2. at' \in [Constructions -> {"idle", "generating", "consuming", "returned"}]
    BY <1>1 DEF StreamingTypeOK
  <2> QED BY <1>1, <2>1, <2>2 DEF StreamingTypeOK
<1>3. /\ at'[k] = a /\ trace'[k] = t /\ factorIndex'[k] = n
      /\ matrices'[k] = matrices[k] /\ result'[k] = result[k]
  BY <1>1 DEF StreamingTypeOK
<1>4. Aside(k)
  BY <1>1 DEF Aside, StreamingTypeOK
<1>5. ConstructionInv(k)'
  BY <1>1, <1>3 DEF ConstructionInv
<1>6. Holding(k)' = Holding(k)
  BY <1>3 DEF Holding
<1> QED BY <1>2, <1>4, <1>5, <1>6, StepOf

LEMMA StartKeeps ==
  ASSUME IInv, NEW k \in Constructions, Start(k)
  PROVE  IInv'
<1>1. PICK n \in {2, 3} : n = FactorsOf[k]
  BY StreamingAssumption
<1>2. PICK t \in Traces :
        /\ t = [NoTrace EXCEPT !.status = "failure", !.count = n]
        /\ t.status = "failure" /\ t.stage = "none" /\ t.count = n /\ t.events = <<>>
        /\ t.cleanup = <<>> /\ t.factors = <<>>
  <2>1. n \in Int
    OBVIOUS
  <2> QED BY <2>1, NoTraceType
<1>3. Len(t.events) = 0 /\ Len(t.factors) = 0
  BY <1>2, EmptySeq
<1>4. IsLifecyclePrefix(n, t.events) /\ EvidenceAgrees(t, "matrix")
  BY <1>3 DEF IsLifecyclePrefix, EvidenceAgrees
<1>5. /\ "TransformStart" \in Codes /\ -1 \in Int /\ Nothing \in Payloads
      /\ "TransformStart" = ExpectedCode(n, Len(t.events) + 1)
      /\ -1 = ExpectedIndex(n, Len(t.events) + 1) /\ Len(t.events) < 5 * n + 3
      /\ Nothing # Nothing <=> "TransformStart" \in {"NumericDigested", "EncodedDigested"}
  <2>1. ExpectedCode(n, 1) = "TransformStart" /\ ExpectedIndex(n, 1) = -1
    BY NextEvents
  <2> QED BY <1>3, <2>1 DEF Codes, Payloads
<1>6. PICK u : u = AddEvent(t, "TransformStart", -1, Nothing)
  OBVIOUS
<1>7. LET r == AddEvent(t, "TransformStart", -1, Nothing) IN
      /\ r \in Traces /\ IsLifecyclePrefix(n, r.events) /\ EvidenceAgrees(r, "matrix")
      /\ Len(r.events) = Len(t.events) + 1
  <2>1. IsNext(n, t, "TransformStart", -1, Nothing)
    BY <1>5 DEF IsNext
  <2>2. Along(n, t, "matrix", Len(t.events))
    BY <1>4 DEF Along
  <2>3. Along(n, AddEvent(t, "TransformStart", -1, Nothing), "matrix", Len(t.events) + 1)
    BY <2>1, <2>2, GoesOn, Zenon
  <2> QED BY <2>3 DEF Along
<1>8. /\ u \in Traces /\ IsLifecyclePrefix(n, u.events) /\ EvidenceAgrees(u, "matrix")
      /\ Len(u.events) = 1
      /\ u.status = "failure" /\ u.stage = "none" /\ u.count = n /\ u.cleanup = <<>>
      /\ u.factors = <<>>
  <2>1. /\ u \in Traces /\ IsLifecyclePrefix(n, u.events) /\ EvidenceAgrees(u, "matrix")
        /\ Len(u.events) = 1
    BY <1>3, <1>6, <1>7
  <2>2. /\ u.status = t.status /\ u.stage = t.stage /\ u.count = t.count
        /\ u.cleanup = t.cleanup /\ u.factors = t.factors
    BY <1>5, <1>6, AddEventType
  <2> QED BY <1>2, <2>1, <2>2, Zenon
<1>9. matrices[k] = <<>> /\ factorIndex[k] = 0 /\ at[k] = "idle"
  BY DEF IInv, ConstructionInv, Start
<1>10. Underway(k, u, matrices[k])
  BY <1>1, <1>8, <1>9 DEF Underway, OwnFactors
<1>11. trace' = [trace EXCEPT ![k] = u] /\ at' = [at EXCEPT ![k] = "generating"]
  BY <1>1, <1>2, <1>6 DEF Start
<1>12. factorIndex' = [factorIndex EXCEPT ![k] = 0]
  BY <1>9 DEF Start, IInv, StreamingTypeOK
<1>13. UNCHANGED <<matrices, result, encoded, product>>
  BY DEF Start
<1>14. Len(matrices[k]) = 0 /\ "generating" \in {"generating", "consuming"} /\ 0 \in Nat
  BY <1>9, EmptySeq
<1>15. Len(u.events) = 5 * Len(matrices[k]) + 1 /\ at[k] # "returned"
  BY <1>8, <1>9, <1>14
<1> QED BY <1>15, <1>8, <1>9, <1>10, <1>11, <1>12, <1>13, <1>14, TraceKeeps

LEMMA GenerateKeeps ==
  ASSUME IInv, NEW k \in Constructions, Generate(k)
  PROVE  IInv'
<1>1. PICK n \in {2, 3} : n = FactorsOf[k]
  BY StreamingAssumption
<1>2. PICK t \in Traces : t = trace[k]
  BY DEF IInv, StreamingTypeOK
<1>3. PICK d \in Nat : d = Len(matrices[k])
  BY DEF IInv, StreamingTypeOK
<1>4. /\ at[k] = "generating" /\ Underway(k, t, matrices[k]) /\ factorIndex[k] = d /\ d < n
      /\ Len(t.events) = 5 * d + 1
  BY <1>1, <1>2, <1>3 DEF IInv, ConstructionInv, Generate
<1>5. /\ t.status = "failure" /\ t.stage = "none" /\ t.count = n /\ t.cleanup = <<>>
      /\ IsLifecyclePrefix(n, t.events) /\ EvidenceAgrees(t, "matrix")
      /\ d <= n /\ OwnFactors(k, t.factors, matrices[k])
  BY <1>1, <1>3, <1>4 DEF Underway
<1>6. /\ "FactorGenerated" \in Codes /\ d \in Int /\ Nothing \in Payloads
      /\ "FactorGenerated" = ExpectedCode(n, Len(t.events) + 1)
      /\ d = ExpectedIndex(n, Len(t.events) + 1) /\ Len(t.events) < 5 * n + 3
      /\ Nothing # Nothing <=> "FactorGenerated" \in {"NumericDigested", "EncodedDigested"}
  <2>1. d \in 0 .. n /\ Len(t.events) + 1 = 5 * d + 2 /\ Len(t.events) < 5 * n + 3
    BY <1>4
  <2>2. ExpectedCode(n, 5 * d + 2) = "FactorGenerated" /\ ExpectedIndex(n, 5 * d + 2) = d
    BY <1>4, <2>1, NextEvents
  <2> QED BY <2>1, <2>2 DEF Codes, Payloads
<1>7. PICK u : u = AddEvent(t, "FactorGenerated", d, Nothing)
  OBVIOUS
<1>8. LET r == AddEvent(t, "FactorGenerated", d, Nothing) IN
      /\ r \in Traces /\ IsLifecyclePrefix(n, r.events) /\ EvidenceAgrees(r, "matrix")
      /\ Len(r.events) = Len(t.events) + 1
  <2>1. IsNext(n, t, "FactorGenerated", d, Nothing)
    BY <1>6 DEF IsNext
  <2>2. Along(n, t, "matrix", Len(t.events))
    BY <1>5 DEF Along
  <2>3. Along(n, AddEvent(t, "FactorGenerated", d, Nothing), "matrix", Len(t.events) + 1)
    BY <2>1, <2>2, GoesOn, Zenon
  <2> QED BY <2>3 DEF Along
<1>9. /\ u \in Traces /\ IsLifecyclePrefix(n, u.events) /\ EvidenceAgrees(u, "matrix")
      /\ Len(u.events) = 5 * d + 2
      /\ u.status = "failure" /\ u.stage = "none" /\ u.count = n /\ u.cleanup = <<>>
      /\ u.factors = t.factors
  BY <1>4, <1>5, <1>6, <1>7, <1>8, AddEventType
<1>10. PICK v : v = [u EXCEPT !.attempted = Len(u.events) + 1]
  OBVIOUS
<1>11. /\ v \in Traces /\ v.events = u.events /\ v.attempted = Len(v.events) + 1
       /\ v.status = "failure" /\ v.stage = "none" /\ v.count = n /\ v.cleanup = <<>>
       /\ v.factors = t.factors
  <2>1. PICK z \in Int : z = Len(u.events) + 1
    BY <1>9
  <2> QED BY <1>9, <1>10, <2>1 DEF Traces
<1>12. EvidenceAgrees(v, "matrix")
  BY <1>9, <1>11 DEF EvidenceAgrees
<1>13. Underway(k, v, matrices[k])
  BY <1>1, <1>3, <1>5, <1>9, <1>11, <1>12 DEF Underway
<1>14. trace' = [trace EXCEPT ![k] = v]
  BY <1>2, <1>4, <1>7, <1>10 DEF Generate
<1>15. PICK m \in Nat : m = d + 1
  OBVIOUS
<1>16. factorIndex' = [factorIndex EXCEPT ![k] = m] /\ at' = [at EXCEPT ![k] = "consuming"]
  BY <1>4, <1>15 DEF Generate
<1>17. UNCHANGED <<matrices, result, encoded, product>>
  BY DEF Generate
<1>18. m = Len(matrices[k]) + 1 /\ m <= FactorsOf[k] /\ Len(v.events) = 5 * Len(matrices[k]) + 2
  BY <1>1, <1>3, <1>4, <1>9, <1>11, <1>15
<1> QED BY <1>4, <1>11, <1>13, <1>14, <1>16, <1>17, <1>18, TraceKeeps

LEMMA SealKeeps ==
  ASSUME IInv, NEW k \in Constructions, NEW t \in Transformations, Seal(k, t)
  PROVE  IInv'
<1>1. StreamingTypeOK /\ HolderInv(t)
  BY DEF IInv
<1>2. /\ encoded[t] /\ encoded' = [encoded EXCEPT ![t] = FALSE]
      /\ product' = [product EXCEPT ![t] =
           [invocation |-> Invocation(k), available |-> TRUE, transferred |-> FALSE]]
      /\ UNCHANGED <<at, trace, factorIndex, matrices, result>>
  BY DEF Seal
<1>3. StreamingTypeOK'
  <2>1. Invocation(k) \in Invocations
    <3>1. factorIndex[k] - 1 \in Int
      BY <1>1 DEF StreamingTypeOK
    <3> QED BY <3>1 DEF Invocation, Invocations
  <2>2. product' \in [Transformations -> [invocation : Invocations \cup {Nothing},
                                          available : BOOLEAN, transferred : BOOLEAN]]
    BY <1>1, <1>2, <2>1 DEF StreamingTypeOK
  <2>3. encoded' \in [Transformations -> BOOLEAN]
    BY <1>1, <1>2 DEF StreamingTypeOK
  <2> QED BY <1>1, <1>2, <2>2, <2>3 DEF StreamingTypeOK
<1>4. ASSUME NEW j \in Constructions PROVE ConstructionInv(j)'
  BY <1>2 DEF IInv, ConstructionInv
<1>5. \A x \in Transformations, j \in Constructions, i \in Nat : HeldAt(x, j, i)' <=> HeldAt(x, j, i)
  BY <1>2 DEF HeldAt, Holding
<1>6. ASSUME NEW x \in Transformations PROVE HolderInv(x)'
  <2>1. HolderInv(x)
    BY DEF IInv
  <2>2. CASE x = t
    <3>1. encoded'[x] = FALSE
      BY <1>1, <1>2, <2>2 DEF StreamingTypeOK
    <3>2. \A j \in Constructions, i \in Nat : ~HeldAt(x, j, i)
      BY <1>2, <2>1, <2>2 DEF HolderInv
    <3> QED BY <1>5, <3>1, <3>2 DEF HolderInv
  <2>3. CASE x # t
    <3>1. encoded'[x] = encoded[x] /\ product'[x] = product[x]
      BY <1>1, <1>2, <2>3 DEF StreamingTypeOK
    <3> QED BY <1>5, <2>1, <3>1 DEF HolderInv
  <2> QED BY <2>2, <2>3
<1> QED BY <1>3, <1>4, <1>6 DEF IInv

(* After d of its n factors, k is about to take p. *)
Taking(k, t, ms, n, d, p) ==
  /\ FactorsOf[k] = n /\ Nothing \notin Transformations /\ Len(ms) = d /\ d < n /\ Underway(k, t, ms)
  /\ Len(t.events) = 5 * d + 2 /\ <<k, d>> \in FitOf[p]

(* The trace of one more factor: four events, and its evidence between them. *)
AfterTaking(k, t, d, p) ==
  LET a == AddEvent(t, "NumericDigested", d, p)
      b == AddEvent(a, "FactorEncoded", d, Nothing)
      c == AddEvent(b, "EncodedDigested", d, p)
      f == [c EXCEPT !.factors = Append(@, [by |-> <<k, d>>, of |-> p, ownership |-> "matrix"])]
  IN AddEvent(f, "NumericReferenceDropped", d, Nothing)

LEMMA TakenTrace ==
  ASSUME NEW k \in Constructions, NEW t \in Traces, NEW ms \in Seq(Transformations),
         NEW n \in {2, 3}, NEW d \in Nat, NEW p \in Transformations,
         Taking(k, t, ms, n, d, p)
  PROVE  /\ AfterTaking(k, t, d, p) \in Traces /\ Underway(k, AfterTaking(k, t, d, p), Append(ms, p))
         /\ Len(AfterTaking(k, t, d, p).events) = 5 * (d + 1) + 1
<1>1. /\ t.status = "failure" /\ t.stage = "none" /\ t.count = n /\ t.cleanup = <<>>
      /\ IsLifecyclePrefix(n, t.events) /\ EvidenceAgrees(t, "matrix") /\ Len(t.factors) = d
      /\ OwnFactors(k, t.factors, ms) /\ Len(t.events) = 5 * d + 2 /\ d < n
  BY DEF Underway, OwnFactors, Taking
<1>2. /\ ExpectedCode(n, 5 * d + 3) = "NumericDigested" /\ ExpectedIndex(n, 5 * d + 3) = d
      /\ ExpectedCode(n, 5 * d + 4) = "FactorEncoded" /\ ExpectedIndex(n, 5 * d + 4) = d
      /\ ExpectedCode(n, 5 * d + 5) = "EncodedDigested" /\ ExpectedIndex(n, 5 * d + 5) = d
      /\ ExpectedCode(n, 5 * d + 6) = "NumericReferenceDropped" /\ ExpectedIndex(n, 5 * d + 6) = d
  <2>1. d \in 0 .. n /\ d < n
    BY <1>1
  <2>2. d < n =>
          /\ ExpectedCode(n, 5 * d + 3) = "NumericDigested" /\ ExpectedIndex(n, 5 * d + 3) = d
          /\ ExpectedCode(n, 5 * d + 4) = "FactorEncoded" /\ ExpectedIndex(n, 5 * d + 4) = d
          /\ ExpectedCode(n, 5 * d + 5) = "EncodedDigested" /\ ExpectedIndex(n, 5 * d + 5) = d
          /\ ExpectedCode(n, 5 * d + 6) = "NumericReferenceDropped"
          /\ ExpectedIndex(n, 5 * d + 6) = d
    BY <2>1, NextEvents, SMTT(30)
  <2> QED BY <2>1, <2>2
<1>3. /\ "NumericDigested" \in Codes /\ "FactorEncoded" \in Codes /\ "EncodedDigested" \in Codes
      /\ "NumericReferenceDropped" \in Codes /\ d \in Int
      /\ p \in Payloads /\ Nothing \in Payloads /\ p # Nothing
  BY DEF Codes, Payloads, Taking
<1>4. PICK a : a = AddEvent(t, "NumericDigested", d, p)
  OBVIOUS
<1>5. /\ a \in Traces /\ IsLifecyclePrefix(n, a.events) /\ EvidenceAgrees(a, "matrix")
      /\ Len(a.events) = 5 * d + 3 /\ a.events[5 * d + 3].payload = p
  <2>1. /\ "NumericDigested" = ExpectedCode(n, Len(t.events) + 1)
        /\ d = ExpectedIndex(n, Len(t.events) + 1) /\ Len(t.events) < 5 * n + 3
        /\ p # Nothing <=> "NumericDigested" \in {"NumericDigested", "EncodedDigested"}
    <3>1. Len(t.events) + 1 = 5 * d + 3 /\ Len(t.events) < 5 * n + 3
      BY <1>1
    <3> QED BY <1>2, <1>3, <3>1
  <2>2. LET r == AddEvent(t, "NumericDigested", d, p) IN
        /\ r \in Traces /\ IsLifecyclePrefix(n, r.events) /\ EvidenceAgrees(r, "matrix")
        /\ Len(r.events) = Len(t.events) + 1
        /\ r.events[Len(r.events)] = Event("NumericDigested", d, p)
    <3>1. IsLifecyclePrefix(n, t.events) /\ EvidenceAgrees(t, "matrix")
      BY <1>1
    <3>2. "NumericDigested" \in Codes /\ d \in Int /\ p \in Payloads
      BY <1>3
    <3>3. IsNext(n, t, "NumericDigested", d, p)
      BY <3>2, <2>1 DEF IsNext
    <3> QED BY <3>1, <3>2, <3>3, Goes
  <2> QED BY <1>4, <1>1, <2>2 DEF Event
<1>6. PICK b : b = AddEvent(a, "FactorEncoded", d, Nothing)
  OBVIOUS
<1>7. /\ b \in Traces /\ IsLifecyclePrefix(n, b.events) /\ EvidenceAgrees(b, "matrix")
      /\ Len(b.events) = 5 * d + 4 /\ b.events[5 * d + 3].payload = p
  <2>1. /\ "FactorEncoded" = ExpectedCode(n, Len(a.events) + 1)
        /\ d = ExpectedIndex(n, Len(a.events) + 1) /\ Len(a.events) < 5 * n + 3
        /\ Nothing # Nothing <=> "FactorEncoded" \in {"NumericDigested", "EncodedDigested"}
    <3>1. Len(a.events) + 1 = 5 * d + 4 /\ Len(a.events) < 5 * n + 3
      BY <1>1, <1>5
    <3> QED BY <1>2, <3>1
  <2>2. LET r == AddEvent(a, "FactorEncoded", d, Nothing) IN
        /\ r \in Traces /\ IsLifecyclePrefix(n, r.events) /\ EvidenceAgrees(r, "matrix")
        /\ Len(r.events) = Len(a.events) + 1
        /\ \A s \in 1 .. Len(a.events) : r.events[s] = a.events[s]
    <3>1. a \in Traces /\ IsLifecyclePrefix(n, a.events) /\ EvidenceAgrees(a, "matrix")
      BY <1>5
    <3>2. "FactorEncoded" \in Codes /\ d \in Int /\ Nothing \in Payloads
      BY <1>3
    <3>3. IsNext(n, a, "FactorEncoded", d, Nothing)
      BY <3>2, <2>1 DEF IsNext
    <3> QED BY <3>1, <3>2, <3>3, Goes
  <2>3. b \in Traces /\ IsLifecyclePrefix(n, b.events) /\ EvidenceAgrees(b, "matrix")
    BY <1>6, <2>2
  <2>4. Len(b.events) = 5 * d + 4
    BY <1>5, <1>6, <2>2
  <2>5. 5 * d + 3 \in 1 .. Len(a.events)
    BY <1>5
  <2>6. b.events[5 * d + 3].payload = p
    BY <1>5, <1>6, <2>2, <2>5
  <2> QED BY <2>3, <2>4, <2>6
<1>8. PICK c : c = AddEvent(b, "EncodedDigested", d, p)
  OBVIOUS
<1>9. /\ c \in Traces /\ IsLifecyclePrefix(n, c.events) /\ EvidenceAgrees(c, "matrix")
      /\ Len(c.events) = 5 * d + 5 /\ c.events[5 * d + 3].payload = p
      /\ c.events[5 * d + 5].payload = p
  <2>1. /\ "EncodedDigested" = ExpectedCode(n, Len(b.events) + 1)
        /\ d = ExpectedIndex(n, Len(b.events) + 1) /\ Len(b.events) < 5 * n + 3
        /\ p # Nothing <=> "EncodedDigested" \in {"NumericDigested", "EncodedDigested"}
    <3>1. Len(b.events) + 1 = 5 * d + 5 /\ Len(b.events) < 5 * n + 3
      BY <1>1, <1>7
    <3> QED BY <1>2, <1>3, <3>1
  <2>2. LET r == AddEvent(b, "EncodedDigested", d, p) IN
        /\ r \in Traces /\ IsLifecyclePrefix(n, r.events) /\ EvidenceAgrees(r, "matrix")
        /\ Len(r.events) = Len(b.events) + 1
        /\ r.events[Len(r.events)] = Event("EncodedDigested", d, p)
        /\ \A s \in 1 .. Len(b.events) : r.events[s] = b.events[s]
    <3>1. b \in Traces /\ IsLifecyclePrefix(n, b.events) /\ EvidenceAgrees(b, "matrix")
      BY <1>7
    <3>2. "EncodedDigested" \in Codes /\ d \in Int /\ p \in Payloads
      BY <1>3
    <3>3. IsNext(n, b, "EncodedDigested", d, p)
      BY <3>2, <2>1 DEF IsNext
    <3> QED BY <3>1, <3>2, <3>3, Goes
  <2>3. c \in Traces /\ IsLifecyclePrefix(n, c.events) /\ EvidenceAgrees(c, "matrix")
    BY <1>8, <2>2
  <2>4. Len(c.events) = 5 * d + 5
    BY <1>7, <1>8, <2>2
  <2>5. c.events[5 * d + 5].payload = p
    BY <1>8, <2>2, <2>4 DEF Event
  <2>6. 5 * d + 3 \in 1 .. Len(b.events)
    BY <1>7
  <2>7. c.events[5 * d + 3].payload = p
    BY <1>7, <1>8, <2>2, <2>6
  <2> QED BY <2>3, <2>4, <2>5, <2>7
<1>10. /\ c.status = "failure" /\ c.stage = "none" /\ c.count = n /\ c.cleanup = <<>>
       /\ c.factors = t.factors
  <2>1. /\ a.status = t.status /\ a.stage = t.stage /\ a.count = t.count
        /\ a.cleanup = t.cleanup /\ a.factors = t.factors
    BY <1>3, <1>4, AddEventType
  <2>2. /\ b.status = a.status /\ b.stage = a.stage /\ b.count = a.count
        /\ b.cleanup = a.cleanup /\ b.factors = a.factors
    BY <1>3, <1>5, <1>6, AddEventType
  <2>3. /\ c.status = b.status /\ c.stage = b.stage /\ c.count = b.count
        /\ c.cleanup = b.cleanup /\ c.factors = b.factors
    BY <1>3, <1>7, <1>8, AddEventType
  <2> QED BY <1>1, <2>1, <2>2, <2>3, Zenon
<1>11. PICK e : e = [by |-> <<k, d>>, of |-> p, ownership |-> "matrix"]
  OBVIOUS
<1>12. e \in Evidence /\ e.by = <<k, d>> /\ e.of = p /\ e.ownership = "matrix"
  BY <1>3, <1>11 DEF Evidence, Invocations
<1>13. PICK fs \in Seq(Evidence) : fs = Append(t.factors, e)
  <2>1. t.factors \in Seq(Evidence)
    BY DEF Traces
  <2>2. e \in Evidence
    BY <1>12
  <2>3. Append(t.factors, e) \in Seq(Evidence)
    BY <2>1, <2>2, AppendProperties
  <2> QED BY <2>3, Zenon
<1>14. /\ Len(fs) = d + 1 /\ fs[d + 1] = e
       /\ \A i \in 1 .. d : fs[i] = t.factors[i]
  <2>1. t.factors \in Seq(Evidence) /\ Len(t.factors) = d
    BY <1>1 DEF Traces
  <2>2. e \in Evidence
    BY <1>12
  <2> QED BY <1>13, <2>1, <2>2
<1>15. PICK f : f = [c EXCEPT !.factors = fs]
  OBVIOUS
<1>16. /\ f \in Traces /\ f.events = c.events /\ f.factors = fs
       /\ f.status = "failure" /\ f.stage = "none" /\ f.count = n /\ f.cleanup = <<>>
  BY <1>9, <1>10, <1>15 DEF Traces
<1>17. EvidenceAgrees(f, "matrix")
  <2> SUFFICES ASSUME NEW i \in 1 .. d + 1
               PROVE  /\ fs[i].by[2] = i - 1 /\ fs[i].ownership = "matrix"
                      /\ 5 * i <= Len(c.events)
                      /\ c.events[5 * i - 2].payload = fs[i].of
                      /\ c.events[5 * i].payload = fs[i].of
    BY <1>14, <1>16 DEF EvidenceAgrees
  <2>1. CASE i = d + 1
    BY <1>9, <1>12, <1>14, <2>1
  <2>2. CASE i \in 1 .. d
    <3>1. i \in 1 .. Len(c.factors) /\ fs[i] = c.factors[i]
      BY <1>1, <1>10, <1>14, <2>2
    <3> QED BY <1>9, <3>1 DEF EvidenceAgrees
  <2> QED BY <2>1, <2>2
<1>18. PICK u : u = AddEvent(f, "NumericReferenceDropped", d, Nothing)
  OBVIOUS
<1>19. /\ u \in Traces /\ IsLifecyclePrefix(n, u.events) /\ EvidenceAgrees(u, "matrix")
       /\ Len(u.events) = 5 * d + 6
  <2>1. /\ "NumericReferenceDropped" = ExpectedCode(n, Len(f.events) + 1)
        /\ d = ExpectedIndex(n, Len(f.events) + 1) /\ Len(f.events) < 5 * n + 3
        /\ Nothing # Nothing <=> "NumericReferenceDropped" \in {"NumericDigested", "EncodedDigested"}
    <3>1. Len(f.events) + 1 = 5 * d + 6 /\ Len(f.events) < 5 * n + 3
      BY <1>1, <1>9, <1>16
    <3> QED BY <1>2, <3>1
  <2>2. IsLifecyclePrefix(n, f.events)
    BY <1>9, <1>16
  <2>3. LET r == AddEvent(f, "NumericReferenceDropped", d, Nothing) IN
        /\ r \in Traces /\ IsLifecyclePrefix(n, r.events) /\ EvidenceAgrees(r, "matrix")
        /\ Len(r.events) = Len(f.events) + 1
    <3>1. f \in Traces
      BY <1>16
    <3>2. "NumericReferenceDropped" \in Codes /\ d \in Int /\ Nothing \in Payloads
      BY <1>3
    <3>3. IsNext(n, f, "NumericReferenceDropped", d, Nothing)
      BY <2>1, <3>2 DEF IsNext
    <3> QED BY <1>17, <2>2, <3>1, <3>2, <3>3, Goes
  <2>4. Len(f.events) = 5 * d + 5
    BY <1>9, <1>16
  <2> QED BY <1>18, <2>3, <2>4
<1>20. /\ u.status = "failure" /\ u.stage = "none" /\ u.count = n /\ u.cleanup = <<>>
       /\ u.factors = fs
  BY <1>3, <1>16, <1>18, AddEventType
<1>21. /\ Len(Append(ms, p)) = d + 1 /\ Append(ms, p)[d + 1] = p
       /\ \A i \in 1 .. d : Append(ms, p)[i] = ms[i]
       /\ FactorsOf[k] = n /\ <<k, d>> \in FitOf[p] /\ Len(ms) = d
  BY DEF Taking
<1>22. OwnFactors(k, fs, Append(ms, p))
  <2> SUFFICES ASSUME NEW i \in 1 .. d + 1
               PROVE  /\ fs[i].by = <<k, i - 1>> /\ fs[i].of = Append(ms, p)[i]
                      /\ <<k, i - 1>> \in FitOf[Append(ms, p)[i]]
    BY <1>14, <1>21 DEF OwnFactors
  <2>1. CASE i = d + 1
    BY <1>12, <1>14, <1>21, <2>1
  <2>2. CASE i \in 1 .. d
    BY <1>1, <1>14, <1>21, <2>2 DEF OwnFactors
  <2>3. i = d + 1 \/ i \in 1 .. d
    OBVIOUS
  <2> QED BY <2>1, <2>2, <2>3, Zenon
<1>23. Underway(k, u, Append(ms, p))
  BY <1>1, <1>19, <1>20, <1>21, <1>22 DEF Underway
<1>24. Len(u.events) = 5 * (d + 1) + 1
  BY <1>19
<1>25. f = [c EXCEPT !.factors = Append(@, [by |-> <<k, d>>, of |-> p, ownership |-> "matrix"])]
  BY <1>9, <1>10, <1>11, <1>13, <1>15 DEF Traces
<1>26. u = AfterTaking(k, t, d, p)
  BY <1>4, <1>6, <1>8, <1>18, <1>25, Zenon DEF AfterTaking
<1> QED BY <1>19, <1>23, <1>24, <1>26, Zenon

LEMMA AcceptKeeps ==
  ASSUME IInv, NEW k \in Constructions, NEW p \in Transformations, Accept(k, p)
  PROVE  IInv'
<1>0. StreamingTypeOK /\ ConstructionInv(k) /\ HolderInv(p)
  BY DEF IInv
<1>1. PICK n \in {2, 3} : n = FactorsOf[k]
  BY StreamingAssumption
<1>2. PICK t \in Traces : t = trace[k]
  BY <1>0 DEF StreamingTypeOK
<1>3. PICK ms \in Seq(Transformations) : ms = matrices[k]
  BY <1>0 DEF StreamingTypeOK
<1>4. PICK d \in Nat : d = Len(ms)
  OBVIOUS
<1>5. /\ at[k] = "consuming" /\ Underway(k, t, ms) /\ factorIndex[k] = d + 1
      /\ Len(t.events) = 5 * d + 2
  BY <1>0, <1>2, <1>3, <1>4 DEF ConstructionInv, Accept
<1>6. d < n
  <2>1. factorIndex[k] <= FactorsOf[k]
    BY <1>0, <1>5 DEF ConstructionInv
  <2> QED BY <1>1, <1>5, <2>1
<1>7. /\ product[p].available /\ product[p].invocation = <<k, d>> /\ <<k, d>> \in FitOf[p]
      /\ Invocation(k) = <<k, d>> /\ factorIndex[k] - 1 = d /\ p # Nothing
  <2>1. factorIndex[k] - 1 = d
    BY <1>5
  <2>2. Takes(k, p) /\ Invocation(k) \in FitOf[p]
    BY DEF Accept
  <2>3. Invocation(k) = <<k, d>>
    BY <2>1 DEF Invocation
  <2> QED BY <2>1, <2>2, <2>3, Zenon DEF Takes
<1>8. Taking(k, t, ms, n, d, p)
  BY <1>1, <1>4, <1>5, <1>6, <1>7, StreamingAssumption DEF Taking
<1>9. PICK u : u = AfterTaking(k, t, d, p)
  OBVIOUS
<1>10. u \in Traces /\ Underway(k, u, Append(ms, p)) /\ Len(u.events) = 5 * (d + 1) + 1
  BY <1>8, <1>9, TakenTrace
<1>11. trace' = [trace EXCEPT ![k] = u]
  BY <1>2, <1>7, <1>9, Zenon DEF Accept, AfterTaking
<1>12. PICK new \in Seq(Transformations) : new = Append(ms, p)
  BY AppendProperties
<1>13. /\ Len(new) = d + 1 /\ new[d + 1] = p
       /\ \A i \in 1 .. d : new[i] = ms[i]
  BY <1>4, <1>12, AppendProperties
<1>14. /\ matrices' = [matrices EXCEPT ![k] = new]
       /\ at' = [at EXCEPT ![k] = "generating"]
       /\ UNCHANGED <<factorIndex, result, encoded>>
  BY <1>3, <1>12 DEF Accept
<1>15. PICK z : z = [Zeroed EXCEPT !.transferred = TRUE]
  OBVIOUS
<1>16. /\ z \in [invocation : Invocations \cup {Nothing}, available : BOOLEAN, transferred : BOOLEAN]
       /\ z.available = FALSE
  BY <1>15 DEF Zeroed
<1>17. product' = [product EXCEPT ![p] = z]
  <2>1. product' = ProductsAfter(k, p, FALSE) /\ Takes(k, p) /\ Invocation(k) \in FitOf[p]
    BY DEF Accept
  <2> QED BY <1>7, <1>15, <2>1, Zenon DEF ProductsAfter
<1>18. StreamingTypeOK'
  <2>1. trace' \in [Constructions -> Traces]
    BY <1>0, <1>10, <1>11 DEF StreamingTypeOK
  <2>2. /\ matrices' \in [Constructions -> Seq(Transformations)]
        /\ at' \in [Constructions -> {"idle", "generating", "consuming", "returned"}]
    BY <1>0, <1>14 DEF StreamingTypeOK
  <2>3. product' \in [Transformations -> [invocation : Invocations \cup {Nothing},
                                          available : BOOLEAN, transferred : BOOLEAN]]
    BY <1>0, <1>16, <1>17 DEF StreamingTypeOK
  <2> QED BY <1>0, <1>14, <2>1, <2>2, <2>3 DEF StreamingTypeOK
<1>19. Aside(k)
  BY <1>0, <1>11, <1>14 DEF Aside, StreamingTypeOK
<1>20. ConstructionInv(k)'
  <2>1. at'[k] = "generating" /\ matrices'[k] = new /\ trace'[k] = u
    BY <1>0, <1>11, <1>14 DEF StreamingTypeOK
  <2>2. factorIndex'[k] = d + 1 /\ result'[k] = <<>>
    BY <1>0, <1>5, <1>14 DEF ConstructionInv
  <2>3. Underway(k, u, new) /\ Len(u.events) = 5 * Len(new) + 1 /\ d + 1 = Len(new)
    BY <1>10, <1>12, <1>13
  <2> QED BY <2>1, <2>2, <2>3 DEF ConstructionInv
<1>21. \A j \in Constructions : ConstructionInv(j)'
  BY <1>19, <1>20, ConstructionsAside
<1>22. \A x \in Transformations, i \in Nat :
         HeldAt(x, k, i)' => HeldAt(x, k, i) \/ (x = p /\ i = d + 1)
  <2> SUFFICES ASSUME NEW x \in Transformations, NEW i \in Nat, HeldAt(x, k, i)'
               PROVE  HeldAt(x, k, i) \/ (x = p /\ i = d + 1)
    OBVIOUS
  <2>1. Holding(k)' = new
    <3>1. at'[k] = "generating" /\ matrices'[k] = new
      BY <1>0, <1>14 DEF StreamingTypeOK
    <3> QED BY <3>1 DEF Holding
  <2>2. Holding(k) = ms
    BY <1>3, <1>5 DEF Holding
  <2>3. i \in DOMAIN new /\ new[i] = x
    BY <2>1 DEF HeldAt
  <2>4. i \in 1 .. d + 1
    BY <1>13, <2>3
  <2>5. CASE i = d + 1
    BY <1>13, <2>3, <2>5
  <2>6. CASE i \in 1 .. d
    BY <1>4, <1>13, <2>2, <2>3, <2>6 DEF HeldAt
  <2>7. i = d + 1 \/ i \in 1 .. d
    BY <2>4
  <2> QED BY <2>5, <2>6, <2>7
<1>23. \A x \in Transformations, j \in Constructions, i \in Nat :
         HeldAt(x, j, i)' => HeldAt(x, j, i) \/ (x = p /\ j = k /\ i = d + 1)
  <2> SUFFICES ASSUME NEW x \in Transformations, NEW j \in Constructions, NEW i \in Nat,
                      HeldAt(x, j, i)'
               PROVE  HeldAt(x, j, i) \/ (x = p /\ j = k /\ i = d + 1)
    OBVIOUS
  <2>1. CASE j = k
    BY <1>22, <2>1
  <2>2. CASE j # k
    BY <1>19, <2>2 DEF HeldAt, Holding, Aside
  <2> QED BY <2>1, <2>2
<1>24. \A j \in Constructions, i \in Nat : ~HeldAt(p, j, i)
  BY <1>0, <1>7 DEF HolderInv
<1>25. ASSUME NEW x \in Transformations PROVE HolderInv(x)'
  <2>1. HolderInv(x)
    BY DEF IInv
  <2>2. CASE x = p
    <3>1. \A j \in Constructions, i \in Nat : HeldAt(x, j, i)' => j = k /\ i = d + 1
      BY <1>23, <1>24, <2>2
    <3>2. product'[x].available = FALSE
      BY <1>0, <1>16, <1>17, <2>2 DEF StreamingTypeOK
    <3>3. ~encoded'[x]
      BY <1>7, <1>14, <2>1, <2>2 DEF HolderInv
    <3> QED BY <3>1, <3>2, <3>3 DEF HolderInv
  <2>3. CASE x # p
    <3>1. product'[x] = product[x] /\ encoded'[x] = encoded[x]
      BY <1>0, <1>14, <1>17, <2>3 DEF StreamingTypeOK
    <3>2. \A j \in Constructions, i \in Nat : HeldAt(x, j, i)' => HeldAt(x, j, i)
      BY <1>23, <2>3
    <3> QED BY <2>1, <3>1, <3>2 DEF HolderInv
  <2> QED BY <2>2, <2>3
<1> QED BY <1>18, <1>21, <1>25 DEF IInv

(* Discarding a product fills none. *)
LEMMA ProductsFewer ==
  ASSUME StreamingTypeOK, NEW k \in Constructions, NEW p \in Transformations \cup {Nothing},
         NEW failed \in BOOLEAN, product' = ProductsAfter(k, p, failed)
  PROVE  /\ product' \in [Transformations -> [invocation : Invocations \cup {Nothing},
                                              available : BOOLEAN, transferred : BOOLEAN]]
         /\ \A x \in Transformations : product'[x].available => product[x].available
<1>1. CASE p = Nothing
  BY <1>1 DEF ProductsAfter, StreamingTypeOK
<1>2. CASE p # Nothing
  <2>1. PICK z : z = IF ~failed /\ Takes(k, p) /\ Invocation(k) \in FitOf[p]
                     THEN [Zeroed EXCEPT !.transferred = TRUE] ELSE Zeroed
    OBVIOUS
  <2>2. product' = [product EXCEPT ![p] = z]
    BY <1>2, <2>1, Zenon DEF ProductsAfter
  <2>3. /\ z \in [invocation : Invocations \cup {Nothing}, available : BOOLEAN, transferred : BOOLEAN]
        /\ z.available = FALSE
    <3>1. CASE z = Zeroed
      BY <3>1 DEF Zeroed
    <3>2. CASE z = [Zeroed EXCEPT !.transferred = TRUE]
      BY <3>2 DEF Zeroed
    <3> QED BY <2>1, <3>1, <3>2, Zenon
  <2>4. product' \in [Transformations -> [invocation : Invocations \cup {Nothing},
                                          available : BOOLEAN, transferred : BOOLEAN]]
    BY <1>2, <2>2, <2>3 DEF StreamingTypeOK
  <2>5. ASSUME NEW x \in Transformations, product'[x].available PROVE product[x].available
    BY <1>2, <2>2, <2>3, <2>5 DEF StreamingTypeOK
  <2> QED BY <2>4, <2>5
<1> QED BY <1>1, <1>2

LEMMA TwoCleanups ==
  ASSUME NEW x \in Cleanups, NEW y \in Cleanups
  PROVE  /\ <<x, y>> \in Seq(Cleanups) /\ <<y>> \in Seq(Cleanups)
         /\ Append(<<x>>, y) = <<x, y>>
<1>1. ASSUME NEW c \in Cleanups PROVE <<c>> \in Seq(Cleanups)
  <2>1. PICK e \in Seq(Cleanups) : e = <<>>
    BY EmptySeq, Zenon
  <2>2. Append(e, c) \in Seq(Cleanups)
    BY AppendProperties
  <2>3. Append(e, c) = <<c>>
    BY <2>1
  <2> QED BY <2>2, <2>3, Zenon
<1>2. Append(<<x>>, y) = <<x, y>>
  <2>1. PICK e \in Seq(Cleanups) : e = <<x>>
    BY <1>1
  <2>2. Len(e) = 1 /\ e[1] = x
    BY <2>1
  <2>3. PICK u \in Seq(Cleanups) : u = Append(e, y)
    BY AppendProperties
  <2>4. Len(u) = 2 /\ u[1] = x /\ u[2] = y
    <3>1. /\ Len(Append(e, y)) = Len(e) + 1 /\ Append(e, y)[Len(e) + 1] = y
          /\ \A i \in 1 .. Len(e) : Append(e, y)[i] = e[i]
      OBVIOUS
    <3>2. 1 \in 1 .. Len(e)
      BY <2>2
    <3> QED BY <2>2, <2>3, <3>1, <3>2
  <2>5. u = <<u[1], u[2]>>
    BY <2>4
  <2> QED BY <2>1, <2>3, <2>4, <2>5, Zenon
<1>3. Append(<<x>>, y) \in Seq(Cleanups)
  BY <1>1, AppendProperties
<1> QED BY <1>1, <1>2, <1>3, Zenon

(* What a rejected product and the dropped factor leave in the ledger. *)
LEMMA LedgerTrace ==
  ASSUME NEW t \in Traces, NEW d \in Nat, NEW k \in Constructions, factorIndex[k] = d + 1,
         NEW p \in Transformations \cup {Nothing}, t.cleanup = <<>>
  PROVE  LET u == LedgerOf(k, p, t) IN
         /\ u \in Traces
         /\ u.status = t.status /\ u.stage = t.stage /\ u.count = t.count
         /\ u.attempted = t.attempted /\ u.events = t.events /\ u.factors = t.factors
         /\ u.cleanup \in {<<Cleanup("FactorReferenceCleared", d)>>,
                           <<Cleanup("ProductDiscarded", d), Cleanup("FactorReferenceCleared", d)>>}
<1>1. factorIndex[k] - 1 = d
  OBVIOUS
<1>2. PICK x \in Cleanups : x = Cleanup("ProductDiscarded", d)
  BY CleanupTypes
<1>3. PICK y \in Cleanups : y = Cleanup("FactorReferenceCleared", d)
  BY CleanupTypes
<1>4. PICK c \in Seq(Cleanups) :
        /\ c \in {<<y>>, <<x, y>>}
        /\ LedgerOf(k, p, t) = [t EXCEPT !.cleanup = c]
  <2>1. CASE p = Nothing
    <3>1. LedgerOf(k, p, t) = [t EXCEPT !.cleanup = Append(t.cleanup, y)]
      BY <1>1, <1>3, <2>1 DEF LedgerOf, AddCleanup
    <3>2. Append(t.cleanup, y) = <<y>>
      OBVIOUS
    <3>3. <<y>> \in Seq(Cleanups)
      OBVIOUS
    <3> QED BY <3>1, <3>2, <3>3, Zenon
  <2>2. CASE p # Nothing
    <3>1. PICK v : v = AddCleanup(t, "ProductDiscarded", d)
      OBVIOUS
    <3>2. v = [t EXCEPT !.cleanup = <<x>>]
      BY <1>2, <3>1 DEF AddCleanup
    <3>3. PICK w \in Seq(Cleanups) : w = <<x, y>>
      BY TwoCleanups, Zenon
    <3>4. LedgerOf(k, p, t) = AddCleanup(v, "FactorReferenceCleared", d)
      BY <1>1, <2>2, <3>1, Zenon DEF LedgerOf
    <3>5. AddCleanup(v, "FactorReferenceCleared", d) = [v EXCEPT !.cleanup = <<x, y>>]
      <4>1. v.cleanup = <<x>>
        BY <3>2 DEF Traces
      <4>2. Append(<<x>>, y) = <<x, y>>
        BY TwoCleanups, Zenon
      <4> QED BY <1>3, <4>1, <4>2, Zenon DEF AddCleanup
    <3>6. [v EXCEPT !.cleanup = w] = [t EXCEPT !.cleanup = w]
      BY <3>2 DEF Traces
    <3> QED BY <3>3, <3>4, <3>5, <3>6, Zenon
  <2> QED BY <2>1, <2>2
<1>5. PICK u : u = [t EXCEPT !.cleanup = c]
  OBVIOUS
<1>6. /\ u \in Traces
      /\ u.status = t.status /\ u.stage = t.stage /\ u.count = t.count
      /\ u.attempted = t.attempted /\ u.events = t.events /\ u.factors = t.factors
      /\ u.cleanup = c
  BY <1>5 DEF Traces
<1> QED BY <1>2, <1>3, <1>4, <1>5, <1>6, Zenon

LEMMA RejectKeeps ==
  ASSUME IInv, NEW k \in Constructions, NEW p \in Transformations \cup {Nothing},
         NEW failed \in BOOLEAN, Reject(k, p, failed)
  PROVE  IInv'
<1>0. StreamingTypeOK /\ ConstructionInv(k)
  BY DEF IInv
<1>1. PICK n \in {2, 3} : n = FactorsOf[k]
  BY StreamingAssumption
<1>2. PICK s \in Traces : s = trace[k]
  BY <1>0 DEF StreamingTypeOK
<1>3. PICK d \in Nat : d = Len(matrices[k])
  BY <1>0 DEF StreamingTypeOK
<1>4. /\ at[k] = "consuming" /\ Underway(k, s, matrices[k]) /\ factorIndex[k] = d + 1 /\ d < n
      /\ Len(s.events) = 5 * d + 2 /\ s.attempted = Len(s.events) + 1
  <2>1. at[k] = "consuming"
    BY DEF Reject
  <2>2. /\ Underway(k, s, matrices[k]) /\ factorIndex[k] = d + 1 /\ factorIndex[k] <= n
        /\ Len(s.events) = 5 * d + 2 /\ s.attempted = Len(s.events) + 1
    BY <1>0, <1>1, <1>2, <1>3, <2>1 DEF ConstructionInv
  <2> QED BY <2>1, <2>2
<1>5. /\ s.status = "failure" /\ s.count = n /\ s.cleanup = <<>> /\ Len(s.factors) = d
      /\ IsLifecyclePrefix(n, s.events) /\ EvidenceAgrees(s, "matrix")
  BY <1>1, <1>3, <1>4 DEF Underway, OwnFactors
<1>6. PICK g \in {"consumer", "product"} : g = IF failed THEN "consumer" ELSE "product"
  OBVIOUS
<1>7. PICK t : t = [s EXCEPT !.stage = g]
  OBVIOUS
<1>8. /\ t \in Traces /\ t.status = "failure" /\ t.stage = g /\ t.count = n /\ t.cleanup = <<>>
      /\ t.attempted = s.attempted /\ t.events = s.events /\ t.factors = s.factors
  BY <1>5, <1>7 DEF Traces, Stages
<1>9. PICK l : l = LedgerOf(k, p, t)
  OBVIOUS
<1>10. /\ l \in Traces /\ l.status = t.status /\ l.stage = t.stage /\ l.count = t.count
       /\ l.attempted = t.attempted /\ l.events = t.events /\ l.factors = t.factors
       /\ l.cleanup \in {<<Cleanup("FactorReferenceCleared", d)>>,
                         <<Cleanup("ProductDiscarded", d), Cleanup("FactorReferenceCleared", d)>>}
  BY <1>4, <1>8, <1>9, LedgerTrace
<1>11. EvidenceAgrees(l, "matrix")
  BY <1>5, <1>8, <1>10 DEF EvidenceAgrees
<1>12. PICK u : u = Sealed(Discarded(l))
  OBVIOUS
<1>13. Validates(n, u)
  <2>1. /\ l.status = "failure" /\ l.stage \in {"consumer", "product"} /\ l.count = FactorsOf[k]
        /\ Len(l.factors) = d /\ Len(l.events) = 5 * d + 2 /\ l.attempted = Len(l.events) + 1
        /\ IsLifecyclePrefix(FactorsOf[k], l.events)
    BY <1>1, <1>4, <1>5, <1>6, <1>8, <1>10
  <2>2. FactorsOf[k] \in {2, 3} /\ d < FactorsOf[k]
    BY <1>1, <1>4
  <2>3. Validates(FactorsOf[k], Sealed(Discarded(l)))
    BY <1>10, <1>11, <2>1, <2>2, FailureValidates
  <2> QED BY <1>1, <1>12, <2>3
<1>14. u \in Traces /\ u.status = "failure" /\ u.count = n
  <2>1. LET v == Sealed(Discarded(l)) IN v \in Traces /\ v.status = l.status /\ v.count = l.count
    BY <1>10, DiscardedType
  <2> QED BY <1>8, <1>10, <1>12, <2>1
<1>15. AfterGenerator(l, FALSE) = u
  <2>1. l.stage # "none"
    BY <1>6, <1>8, <1>10
  <2> QED BY <1>12, <2>1, Zenon DEF AfterGenerator
<1>16. Deliver(k, u)
  <2>1. t = [trace[k] EXCEPT !.stage = IF failed THEN "consumer" ELSE "product"]
    BY <1>2, <1>6, <1>7, Zenon
  <2>2. Deliver(k, AfterGenerator(LedgerOf(k, p, t), FALSE))
    BY <2>1, Zenon DEF Reject
  <2> QED BY <1>9, <1>15, <2>2, Zenon
<1>17. encoded' = encoded /\ factorIndex' = factorIndex /\ product' = ProductsAfter(k, p, failed)
  BY DEF Reject
<1>18. /\ product' \in [Transformations -> [invocation : Invocations \cup {Nothing},
                                            available : BOOLEAN, transferred : BOOLEAN]]
       /\ \A x \in Transformations : product'[x].available => product[x].available
  BY <1>0, <1>17, ProductsFewer
<1>19. u.status # "success" /\ at[k] # "returned" /\ Validates(u.count, u)
  BY <1>4, <1>13, <1>14
<1> QED BY <1>14, <1>16, <1>17, <1>18, <1>19, ReturnKeeps

LEMMA FinishKeeps ==
  ASSUME IInv, NEW k \in Constructions, Complete(k)
  PROVE  IInv'
<1>0. StreamingTypeOK /\ ConstructionInv(k)
  BY DEF IInv
<1>1. PICK t \in Traces : t = trace[k]
  BY <1>0 DEF StreamingTypeOK
<1>2. PICK ms \in Seq(Transformations) : ms = matrices[k]
  BY <1>0 DEF StreamingTypeOK
<1>3. /\ at[k] = "generating" /\ Underway(k, t, ms) /\ Len(ms) = FactorsOf[k]
      /\ Len(t.events) = 5 * Len(ms) + 1
  BY <1>0, <1>1, <1>2 DEF ConstructionInv, Complete
<1>4. PICK u : u = AfterGenerator(t, TRUE)
  OBVIOUS
<1>5. /\ u \in Traces /\ u.count = FactorsOf[k] /\ u.factors = t.factors
      /\ Validates(FactorsOf[k], u)
  <2>1. FactorsOf[k] \in {2, 3} /\ Nothing \notin Transformations
    BY StreamingAssumption
  <2>2. LET v == AfterGenerator(t, TRUE) IN
        /\ v \in Traces /\ v.status = "success" /\ v.count = FactorsOf[k] /\ v.factors = t.factors
        /\ Validates(FactorsOf[k], v)
    <3>1. Whole(k, t, ms)
      BY <1>3, <2>1 DEF Whole
    <3> QED BY <3>1, SuccessValidates
  <2> QED BY <1>4, <2>2
<1>6. Deliver(k, u)
  <2>1. (Len(matrices[k]) = FactorsOf[k]) = TRUE
    BY <1>2, <1>3
  <2>2. Deliver(k, AfterGenerator(trace[k], Len(matrices[k]) = FactorsOf[k]))
    BY DEF Complete
  <2> QED BY <1>1, <1>4, <2>1, <2>2, Zenon
<1>7. OwnFactors(k, u.factors, matrices[k]) /\ Len(matrices[k]) = FactorsOf[k]
  BY <1>2, <1>3, <1>5 DEF Underway
<1>8. encoded' = encoded /\ factorIndex' = factorIndex /\ product' = product
  BY DEF Complete
<1>9. /\ product' \in [Transformations -> [invocation : Invocations \cup {Nothing},
                                           available : BOOLEAN, transferred : BOOLEAN]]
      /\ \A x \in Transformations : product'[x].available => product[x].available
  BY <1>0, <1>8 DEF StreamingTypeOK
<1>10. at[k] # "returned" /\ Validates(u.count, u)
  BY <1>3, <1>5
<1> QED BY <1>5, <1>6, <1>7, <1>8, <1>9, <1>10, ReturnKeeps

-----------------------------------------------------------------------------
(* The theorems. *)

LEMMA InitHolds ==
  ASSUME StreamingInit
  PROVE  IInv
<1>1. StreamingTypeOK
  <2>1. trace \in [Constructions -> Traces]
    <3>1. NoTrace \in Traces
      <4>1. 0 \in Int
        OBVIOUS
      <4> QED BY <4>1, NoTraceType
    <3> QED BY <3>1 DEF StreamingInit
  <2>2. <<>> \in Seq(Transformations)
    BY EmptySeq
  <2>3. /\ matrices \in [Constructions -> Seq(Transformations)]
        /\ result \in [Constructions -> Seq(Transformations)]
    BY <2>2 DEF StreamingInit
  <2>4. product \in [Transformations -> [invocation : Invocations \cup {Nothing},
                                         available : BOOLEAN, transferred : BOOLEAN]]
    BY DEF StreamingInit, Zeroed
  <2>5. /\ at \in [Constructions -> {"idle", "generating", "consuming", "returned"}]
        /\ factorIndex \in [Constructions -> Nat] /\ encoded \in [Transformations -> BOOLEAN]
    BY DEF StreamingInit
  <2> QED BY <2>1, <2>3, <2>4, <2>5 DEF StreamingTypeOK
<1>2. ASSUME NEW k \in Constructions PROVE ConstructionInv(k)
  <2>1. at[k] = "idle" /\ factorIndex[k] = 0 /\ matrices[k] = <<>> /\ result[k] = <<>>
    BY DEF StreamingInit
  <2> QED BY <2>1 DEF ConstructionInv
<1>3. ASSUME NEW t \in Transformations PROVE HolderInv(t)
  <2>1. ~product[t].available
    BY DEF StreamingInit, Zeroed
  <2>2. \A k \in Constructions, i \in Nat : ~HeldAt(t, k, i)
    <3> SUFFICES ASSUME NEW k \in Constructions, NEW i \in Nat PROVE ~HeldAt(t, k, i)
      OBVIOUS
    <3>1. Holding(k) = <<>>
      BY DEF StreamingInit, Holding
    <3>2. DOMAIN <<>> = {}
      OBVIOUS
    <3> QED BY <3>1, <3>2 DEF HeldAt
  <2> QED BY <2>1, <2>2 DEF HolderInv
<1> QED BY <1>1, <1>2, <1>3 DEF IInv

LEMMA StutterKeeps ==
  ASSUME IInv, UNCHANGED streamingVars
  PROVE  IInv'
<1>1. /\ at' = at /\ trace' = trace /\ factorIndex' = factorIndex /\ matrices' = matrices
      /\ result' = result /\ encoded' = encoded /\ product' = product
  BY DEF streamingVars
<1>2. StreamingTypeOK'
  BY <1>1 DEF IInv, StreamingTypeOK
<1>3. ASSUME NEW k \in Constructions PROVE ConstructionInv(k)'
  BY <1>1 DEF IInv, ConstructionInv
<1>4. ASSUME NEW t \in Transformations PROVE HolderInv(t)'
  BY <1>1 DEF IInv, HolderInv, HeldAt, Holding
<1> QED BY <1>2, <1>3, <1>4 DEF IInv

LEMMA StepKeeps ==
  ASSUME IInv, [StreamingNext]_streamingVars
  PROVE  IInv'
<1>1. ASSUME NEW k \in Constructions, Refuse(k) PROVE IInv'
  BY <1>1, RefuseKeeps
<1>2. ASSUME NEW k \in Constructions, Start(k) PROVE IInv'
  BY <1>2, StartKeeps
<1>3. ASSUME NEW k \in Constructions, Generate(k) PROVE IInv'
  BY <1>3, GenerateKeeps
<1>4. ASSUME NEW k \in Constructions, Complete(k) PROVE IInv'
  BY <1>4, FinishKeeps
<1>5. ASSUME NEW k \in Constructions, NEW t \in Transformations, Seal(k, t) PROVE IInv'
  BY <1>5, SealKeeps
<1>6. ASSUME NEW k \in Constructions, NEW t \in Transformations, Accept(k, t) PROVE IInv'
  BY <1>6, AcceptKeeps
<1>7. ASSUME NEW k \in Constructions, NEW p \in Transformations \cup {Nothing}, NEW failed \in BOOLEAN,
             Reject(k, p, failed)
      PROVE  IInv'
  BY <1>7, RejectKeeps
<1>8. CASE UNCHANGED streamingVars
  BY <1>8, StutterKeeps
<1> QED BY <1>1, <1>2, <1>3, <1>4, <1>5, <1>6, <1>7, <1>8, Zenon DEF StreamingNext

(* The invariant: the validator's predicates hold of every trace under
   construction, the factors a construction holds are its own, and every
   transformation has at most one holder (observed_streaming.go:510). *)
THEOREM Streaming == StreamingSpec => []IInv
<1>1. StreamingInit => IInv
  BY InitHolds
<1>2. IInv /\ [StreamingNext]_streamingVars => IInv'
  BY StepKeeps
<1> QED BY <1>1, <1>2, PTL DEF StreamingSpec

(* The places that hold a transformation: its variable, its product, or a
   construction's factor. *)
LEMMA PlaceKinds ==
  ASSUME IInv, NEW t \in Transformations, NEW z \in Places(t)
  PROVE  \/ z = <<"variable">> /\ encoded[t]
         \/ z = <<"product">> /\ product[t].available
         \/ \E k \in Constructions, i \in Nat :
              /\ HeldAt(t, k, i)
              /\ z = <<IF at[k] = "returned" THEN "returned" ELSE "taken", k, i>>
<1>1. /\ matrices \in [Constructions -> Seq(Transformations)]
      /\ result \in [Constructions -> Seq(Transformations)]
      /\ \A k \in Constructions : ConstructionInv(k)
  BY DEF IInv, StreamingTypeOK
<1>2. ASSUME NEW k \in Constructions, z \in FactorsIn("taken", k, matrices[k], t)
      PROVE  \E i \in Nat : HeldAt(t, k, i) /\ at[k] # "returned" /\ z = <<"taken", k, i>>
  <2>1. PICK ms \in Seq(Transformations) : ms = matrices[k]
    BY <1>1
  <2>2. PICK i \in DOMAIN ms : ms[i] = t /\ z = <<"taken", k, i>>
    BY <1>2, <2>1, Zenon DEF FactorsIn
  <2>3. i \in Nat /\ ms # <<>>
    BY <2>2
  <2>4. at[k] # "returned"
    BY <1>1, <2>1, <2>3 DEF ConstructionInv
  <2>5. HeldAt(t, k, i)
    BY <2>1, <2>2, <2>4, Zenon DEF HeldAt, Holding
  <2> QED BY <2>2, <2>3, <2>4, <2>5, Zenon
<1>3. ASSUME NEW k \in Constructions, z \in FactorsIn("returned", k, result[k], t)
      PROVE  \E i \in Nat : HeldAt(t, k, i) /\ at[k] = "returned" /\ z = <<"returned", k, i>>
  <2>1. PICK ms \in Seq(Transformations) : ms = result[k]
    BY <1>1
  <2>2. PICK i \in DOMAIN ms : ms[i] = t /\ z = <<"returned", k, i>>
    BY <1>3, <2>1, Zenon DEF FactorsIn
  <2>3. i \in Nat /\ ms # <<>>
    BY <2>2
  <2>4. at[k] = "returned"
    BY <1>1, <2>1, <2>3 DEF ConstructionInv
  <2>5. HeldAt(t, k, i)
    BY <2>1, <2>2, <2>4, Zenon DEF HeldAt, Holding
  <2> QED BY <2>2, <2>3, <2>4, <2>5, Zenon
<1>4. \/ z = <<"variable">> /\ encoded[t]
      \/ z = <<"product">> /\ product[t].available
      \/ \E k \in Constructions : z \in FactorsIn("taken", k, matrices[k], t)
      \/ \E k \in Constructions : z \in FactorsIn("returned", k, result[k], t)
  <2>1. \/ z \in {x \in {<<"variable">>} : encoded[t]}
        \/ z \in {x \in {<<"product">>} : product[t].available}
        \/ z \in UNION {FactorsIn("taken", k, matrices[k], t) : k \in Constructions}
        \/ z \in UNION {FactorsIn("returned", k, result[k], t) : k \in Constructions}
    <3>1. z \in InVariable(t) \/ z \in InProduct(t) \/ z \in InMatrix(t) \/ z \in InResult(t)
      BY DEF Places
    <3> QED BY <3>1 DEF InVariable, InProduct, InMatrix, InResult
  <2>2. z \in {x \in {<<"variable">>} : encoded[t]} => z = <<"variable">> /\ encoded[t]
    BY Zenon
  <2>3. z \in {x \in {<<"product">>} : product[t].available}
          => z = <<"product">> /\ product[t].available
    BY Zenon
  <2>4. z \in UNION {FactorsIn("taken", k, matrices[k], t) : k \in Constructions}
          => \E k \in Constructions : z \in FactorsIn("taken", k, matrices[k], t)
    BY Zenon
  <2>5. z \in UNION {FactorsIn("returned", k, result[k], t) : k \in Constructions}
          => \E k \in Constructions : z \in FactorsIn("returned", k, result[k], t)
    BY Zenon
  <2> QED BY <2>1, <2>2, <2>3, <2>4, <2>5, Zenon
<1> QED BY <1>2, <1>3, <1>4, Zenon

(* Two places that hold a transformation are one. *)
LEMMA OnePlace ==
  ASSUME IInv, NEW t \in Transformations, NEW x \in Places(t), NEW y \in Places(t)
  PROVE  x = y
<1>1. HolderInv(t)
  BY DEF IInv
<1>2. /\ \/ x = <<"variable">> /\ encoded[t]
         \/ x = <<"product">> /\ product[t].available
         \/ \E k \in Constructions, i \in Nat :
              /\ HeldAt(t, k, i)
              /\ x = <<IF at[k] = "returned" THEN "returned" ELSE "taken", k, i>>
      /\ \/ y = <<"variable">> /\ encoded[t]
         \/ y = <<"product">> /\ product[t].available
         \/ \E k \in Constructions, i \in Nat :
              /\ HeldAt(t, k, i)
              /\ y = <<IF at[k] = "returned" THEN "returned" ELSE "taken", k, i>>
  BY PlaceKinds
<1>3. CASE \E k \in Constructions, i \in Nat : HeldAt(t, k, i)
  <2>1. ~encoded[t] /\ ~product[t].available
    BY <1>1, <1>3 DEF HolderInv
  <2>2. PICK k \in Constructions, i \in Nat :
          HeldAt(t, k, i) /\ x = <<IF at[k] = "returned" THEN "returned" ELSE "taken", k, i>>
    BY <1>2, <2>1, Zenon
  <2>3. PICK j \in Constructions, l \in Nat :
          HeldAt(t, j, l) /\ y = <<IF at[j] = "returned" THEN "returned" ELSE "taken", j, l>>
    BY <1>2, <2>1, Zenon
  <2>4. k = j /\ i = l
    BY <1>1, <2>2, <2>3 DEF HolderInv
  <2> QED BY <2>2, <2>3, <2>4, Zenon
<1>4. CASE ~\E k \in Constructions, i \in Nat : HeldAt(t, k, i)
  <2>1. encoded[t] => ~product[t].available
    BY <1>1 DEF HolderInv
  <2>2. (x = <<"variable">> /\ encoded[t]) \/ (x = <<"product">> /\ product[t].available)
    BY <1>2, <1>4, Zenon
  <2>3. (y = <<"variable">> /\ encoded[t]) \/ (y = <<"product">> /\ product[t].available)
    BY <1>2, <1>4, Zenon
  <2>4. CASE encoded[t]
    BY <2>1, <2>2, <2>3, <2>4, Zenon
  <2>5. CASE ~encoded[t]
    BY <2>2, <2>3, <2>5, Zenon
  <2> QED BY <2>4, <2>5, Zenon
<1> QED BY <1>3, <1>4

LEMMA InvariantIsSound == IInv => StreamedIsSound
<1> SUFFICES ASSUME IInv PROVE StreamedIsSound
  OBVIOUS
<1>1. \A k \in Constructions : ConstructionInv(k)
  BY DEF IInv
<1>2. TracesValidate
  BY <1>1 DEF TracesValidate, ConstructionInv
<1>3. TransformationMoved
  <2> SUFFICES ASSUME NEW t \in Transformations PROVE Cardinality(Places(t)) <= 1
    BY DEF TransformationMoved
  <2>1. CASE Places(t) = {}
    BY <2>1, FS_EmptySet
  <2>2. CASE Places(t) # {}
    <3>1. PICK x : x \in Places(t)
      BY <2>2
    <3>2. Places(t) = {x}
      BY <3>1, OnePlace
    <3>3. Cardinality({x}) = 1
      BY FS_Singleton
    <3> QED BY <3>2, <3>3
  <2> QED BY <2>1, <2>2
<1>4. MatrixIsOwn
  <2> SUFFICES ASSUME NEW k \in Constructions, result[k] # <<>>
               PROVE  /\ Len(result[k]) = FactorsOf[k]
                      /\ \A i \in DOMAIN result[k] :
                           /\ trace[k].factors[i].by = <<k, i - 1>>
                           /\ trace[k].factors[i].of = result[k][i]
                           /\ <<k, i - 1>> \in FitOf[result[k][i]]
    BY DEF MatrixIsOwn
  <2>1. at[k] = "returned"
    BY <1>1 DEF ConstructionInv
  <2>2. Len(result[k]) = FactorsOf[k] /\ OwnFactors(k, trace[k].factors, result[k])
    BY <1>1, <2>1 DEF ConstructionInv
  <2>3. DOMAIN result[k] = 1 .. Len(result[k])
    BY DEF IInv, StreamingTypeOK
  <2> QED BY <2>2, <2>3 DEF OwnFactors
<1> QED BY <1>2, <1>3, <1>4 DEF StreamedIsSound

(* Whatever the consumers do, the trace of every construction that returned
   validates, no transformation is shared, and a returned matrix is whole and
   its own (observed_streaming.go:228, 351, 510, 660). *)
THEOREM Streamed == StreamingSpec => []StreamedIsSound
<1>1. StreamingSpec => []IInv
  BY Streaming
<1>2. IInv => StreamedIsSound
  BY InvariantIsSound
<1> QED BY <1>1, <1>2, PTL
=============================================================================
