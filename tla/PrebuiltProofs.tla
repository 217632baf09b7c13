--------------------------- MODULE PrebuiltProofs ---------------------------
(***************************************************************************)
(* Safety of the construction counters and of the prebuilt evaluator over  *)
(* them, for any number of goroutines, counters, donors and carriers, and  *)
(* for any maximum at which the counters saturate.                         *)
(*                                                                         *)
(* The counters are exact until they saturate, and each construction that  *)
(* was entered and not noted is inside its increment: so a load lies       *)
(* between what was noted and what was entered when it was made.  A matrix *)
(* is in one place because every step moves it.                            *)
(***************************************************************************)
EXTENDS PrebuiltEvaluator, FiniteSetTheorems, TLAPS

-----------------------------------------------------------------------------
(* The inductive invariant of the counters. *)

Loading == {"load", "cas"}
Bracketing == {"snapshot", "snapshot2", "delta"}

\* Where a caller is that is neither inside an increment nor in a snapshot.
Elsewhere == {"idle", "work", "consume", "assemble", "end", "returned"}

CounterTypes ==
  /\ counter \in [Kinds -> 0 .. MaxCounter]
  /\ pc \in [Callers -> Loading \cup Bracketing \cup Elsewhere]
  /\ kind \in [Callers -> Kinds]
  /\ loaded \in [Callers -> 0 .. MaxCounter]
  /\ pos \in [Callers -> Kinds]
  /\ before \in [Callers -> [Kinds -> 0 .. MaxCounter]]
  /\ after \in [Callers -> [Kinds -> 0 .. MaxCounter]]
  /\ delta \in [Callers -> [status : {"none", "saturated", "nonMonotonic", "accepted"},
                            by : [Kinds -> 0 .. MaxCounter]]]
  /\ entered \in Counts
  /\ counted \in Counts
  /\ mark \in [Callers -> [noted : Counts, begun : Counts, noted2 : Counts, begun2 : Counts]]

\* The constructions of kind k that are entered and not noted yet.
Pending(k) == {c \in Callers : pc[c] \in Loading /\ kind[c] = k}

\* A counter is what has been noted until it saturates, and what has not been
\* noted is under way.
ExactInv ==
  \A k \in Kinds :
    /\ counter[k] <= counted[k]
    /\ counter[k] < MaxCounter => counter[k] = counted[k]
    /\ IsFiniteSet(Pending(k)) /\ entered[k] = counted[k] + Cardinality(Pending(k))

\* A load of the first and of the second snapshot, made before upper was counted.
First(c, k, upper) ==
  /\ before[c][k] <= upper[k]
  /\ before[c][k] < MaxCounter => mark[c].noted[k] <= before[c][k]
Second(c, k, upper) ==
  /\ before[c][k] <= after[c][k] /\ after[c][k] <= upper[k]
  /\ after[c][k] < MaxCounter => mark[c].noted2[k] <= after[c][k]

\* What a caller has loaded so far, and what its difference is worth.
BracketInv(c) ==
  /\ pc[c] \in Bracketing => delta[c] = NoDelta
  /\ pc[c] = "cas" => loaded[c] < MaxCounter
  /\ \A k \in Kinds : /\ mark[c].noted[k] <= counted[k] /\ mark[c].noted2[k] <= counted[k]
                      /\ before[c][k] <= counter[k]
  /\ pc[c] = "snapshot" => \A k \in Kinds : k < pos[c] => First(c, k, entered)
  /\ pc[c] # "snapshot" /\ delta[c] = NoDelta => \A k \in Kinds : First(c, k, mark[c].begun)
  /\ pc[c] = "snapshot2" => \A k \in Kinds : k < pos[c] => Second(c, k, entered)
  /\ pc[c] = "delta" => \A k \in Kinds : Second(c, k, mark[c].begun2)
  /\ delta[c].status # "nonMonotonic"
  /\ delta[c].status = "accepted" =>
       \A k \in Kinds : /\ mark[c].noted2[k] - mark[c].begun[k] <= delta[c].by[k]
                        /\ delta[c].by[k] <= mark[c].begun2[k] - mark[c].noted[k]
                        /\ mark[c].noted2[k] < MaxCounter

CountersInv == CounterTypes /\ ExactInv /\ \A c \in Callers : BracketInv(c)

-----------------------------------------------------------------------------
(* Constructions. *)

LEMMA CounterFacts ==
  /\ KindCount \in Nat \ {0} /\ MaxCounter \in Nat \ {0}
  /\ 1 \in Kinds /\ KindCount \in Kinds /\ 0 \in 0 .. MaxCounter
  /\ \A k \in Kinds : k \in Nat /\ k <= KindCount
  /\ \A k \in Kinds : k < KindCount => k + 1 \in Kinds
  /\ \A k \in Kinds : Zero[k] = 0
  /\ Zero \in [Kinds -> 0 .. MaxCounter] /\ Zero \in Counts
BY CounterAssumption DEF Kinds, Zero, Counts

\* What a step does to an increment, it does not do to a bracket: the counts grow.
LEMMA BracketAside ==
  ASSUME CountersInv, CounterTypes', UNCHANGED <<pos, before, after, delta, mark>>,
         \A k \in Kinds : counter[k] <= counter'[k] /\ counted[k] <= counted'[k]
                                                    /\ entered[k] <= entered'[k],
         NEW c \in Callers,
         \/ pc'[c] = pc[c] /\ loaded'[c] = loaded[c]
         \/ pc[c] \notin Bracketing /\ pc'[c] \notin Bracketing
            /\ (pc'[c] = "cas" => loaded'[c] < MaxCounter)
  PROVE  BracketInv(c)'
<1>1. BracketInv(c) /\ CounterTypes
  BY DEF CountersInv
<1>2. \A k \in Kinds :
        /\ counter[k] \in Nat /\ counter'[k] \in Nat /\ counted[k] \in Nat /\ counted'[k] \in Nat
        /\ entered[k] \in Nat /\ entered'[k] \in Nat
        /\ before[c][k] \in Nat /\ after[c][k] \in Nat
        /\ mark[c].noted[k] \in Nat /\ mark[c].noted2[k] \in Nat
  BY <1>1 DEF CounterTypes, Counts
<1>3. \A k \in Kinds : /\ mark[c].noted[k] <= counted'[k] /\ mark[c].noted2[k] <= counted'[k]
                       /\ before[c][k] <= counter'[k]
  BY <1>1, <1>2 DEF BracketInv
<1>4. \A k \in Kinds : /\ First(c, k, entered) => First(c, k, entered')
                       /\ Second(c, k, entered) => Second(c, k, entered')
  BY <1>2 DEF First, Second
<1> QED BY <1>1, <1>3, <1>4 DEF BracketInv, First, Second, Bracketing

\* Only c's increment changes.
LEMMA PendingAside ==
  ASSUME NEW c \in Callers, NEW k \in Kinds,
         \A d \in Callers : d # c => pc'[d] = pc[d] /\ kind'[d] = kind[d]
  PROVE  Pending(k)' = IF pc'[c] \in Loading /\ kind'[c] = k THEN Pending(k) \cup {c}
                                                            ELSE Pending(k) \ {c}
BY DEF Pending

LEMMA EnterKeeps ==
  ASSUME CountersInv, NEW c \in Callers, NEW k \in Kinds, NEW from \in Elsewhere,
         EnterConstruction(c, k, from)
  PROVE  CountersInv'
<1>1. CounterTypes /\ ExactInv
  BY DEF CountersInv
<1>2. /\ pc[c] = from /\ pc' = [pc EXCEPT ![c] = "load"] /\ kind' = [kind EXCEPT ![c] = k]
      /\ entered' = [entered EXCEPT ![k] = entered[k] + 1]
      /\ UNCHANGED <<counter, loaded, pos, before, after, delta, counted, mark>>
  BY DEF EnterConstruction
<1>3. CounterTypes'
  <2>1. pc' \in [Callers -> Loading \cup Bracketing \cup Elsewhere] /\ kind' \in [Callers -> Kinds]
        /\ entered' \in Counts
    BY <1>1, <1>2 DEF CounterTypes, Loading, Counts
  <2> QED BY <1>1, <1>2, <2>1 DEF CounterTypes
<1>4. /\ \A d \in Callers : d # c => pc'[d] = pc[d] /\ kind'[d] = kind[d]
      /\ pc'[c] = "load" /\ kind'[c] = k
      /\ \A j \in Kinds : entered'[j] = IF j = k THEN entered[k] + 1 ELSE entered[j]
      /\ \A j \in Kinds : entered[j] \in Nat /\ counted[j] \in Nat
  BY <1>1, <1>2 DEF CounterTypes, Counts
<1>5. \A j \in Kinds : c \notin Pending(j)
  BY <1>2 DEF Pending, Loading, Elsewhere
<1>6. ExactInv'
  <2> SUFFICES ASSUME NEW j \in Kinds
               PROVE  IsFiniteSet(Pending(j)') /\ entered'[j] = counted[j] + Cardinality(Pending(j)')
    BY <1>1, <1>2 DEF ExactInv
  <2>1. IsFiniteSet(Pending(j)) /\ entered[j] = counted[j] + Cardinality(Pending(j))
    BY <1>1 DEF ExactInv
  <2>2. Pending(j)' = IF j = k THEN Pending(j) \cup {c} ELSE Pending(j) \ {c}
    BY <1>4, PendingAside DEF Loading
  <2>3. CASE j = k
    <3>1. IsFiniteSet(Pending(j) \cup {c}) /\ Cardinality(Pending(j) \cup {c}) = Cardinality(Pending(j)) + 1
      BY <1>5, <2>1, FS_AddElement
    <3>2. Cardinality(Pending(j)) \in Nat
      BY <2>1, FS_CardinalityType
    <3> QED BY <1>4, <2>1, <2>2, <2>3, <3>1, <3>2
  <2>4. CASE j # k
    <3>1. Pending(j)' = Pending(j)
      BY <1>5, <2>2, <2>4
    <3> QED BY <1>4, <2>1, <2>4, <3>1
  <2> QED BY <2>3, <2>4
<1>7. \A d \in Callers : BracketInv(d)'
  <2>1. pc[c] \notin Bracketing /\ pc'[c] \notin Bracketing /\ pc'[c] # "cas"
    BY <1>2, <1>4 DEF Bracketing, Elsewhere
  <2>2. \A j \in Kinds : /\ counter[j] <= counter'[j] /\ counted[j] <= counted'[j]
                         /\ entered[j] <= entered'[j]
    BY <1>1, <1>2, <1>4 DEF CounterTypes
  <2> QED BY <1>2, <1>3, <1>4, <2>1, <2>2, BracketAside
<1> QED BY <1>3, <1>6, <1>7 DEF CountersInv

\* A construction is noted: it is no longer pending.
LEMMA NotedKeeps ==
  ASSUME CountersInv, NEW c \in Callers, pc[c] \in Loading, NEW to \in Elsewhere,
         pc' = [pc EXCEPT ![c] = to],
         counted' = [counted EXCEPT ![kind[c]] = counted[kind[c]] + 1], Forget(c),
         \/ counter' = counter /\ counter[kind[c]] = MaxCounter
         \/ counter' = [counter EXCEPT ![kind[c]] = counter[kind[c]] + 1] /\ counter[kind[c]] < MaxCounter,
         UNCHANGED <<pos, before, after, delta, entered, mark>>
  PROVE  CountersInv'
<1>1. CounterTypes /\ ExactInv
  BY DEF CountersInv
<1>2. PICK k \in Kinds : k = kind[c]
  BY <1>1 DEF CounterTypes
<1>3. /\ \A d \in Callers : d # c => pc'[d] = pc[d] /\ kind'[d] = kind[d] /\ loaded'[d] = loaded[d]
      /\ pc'[c] = to
      /\ \A j \in Kinds : counted'[j] = IF j = k THEN counted[k] + 1 ELSE counted[j]
      /\ \A j \in Kinds : entered[j] \in Nat /\ counted[j] \in Nat /\ counter[j] \in 0 .. MaxCounter
  BY <1>1, <1>2 DEF CounterTypes, Counts, Forget
<1>4. \A j \in Kinds : j # k => counter'[j] = counter[j]
  BY <1>1, <1>2 DEF CounterTypes
<1>5. \/ counter'[k] = counter[k] /\ counter[k] = MaxCounter
      \/ counter'[k] = counter[k] + 1 /\ counter[k] < MaxCounter
  BY <1>1, <1>2 DEF CounterTypes
<1>6. CounterTypes'
  <2>1. counter' \in [Kinds -> 0 .. MaxCounter]
    <3>1. \A j \in Kinds : counter'[j] \in 0 .. MaxCounter
      BY <1>3, <1>4, <1>5, CounterFacts
    <3>2. counter' = [j \in Kinds |-> counter'[j]]
      BY <1>1 DEF CounterTypes
    <3> QED BY <3>1, <3>2
  <2>2. /\ pc' \in [Callers -> Loading \cup Bracketing \cup Elsewhere] /\ kind' \in [Callers -> Kinds]
        /\ loaded' \in [Callers -> 0 .. MaxCounter] /\ counted' \in Counts
    BY <1>1, <1>2, CounterFacts DEF CounterTypes, Counts, Forget
  <2> QED BY <1>1, <2>1, <2>2 DEF CounterTypes
<1>7. ExactInv'
  <2> SUFFICES ASSUME NEW j \in Kinds
               PROVE  /\ counter'[j] <= counted'[j]
                      /\ counter'[j] < MaxCounter => counter'[j] = counted'[j]
                      /\ IsFiniteSet(Pending(j)') /\ entered[j] = counted'[j] + Cardinality(Pending(j)')
    BY DEF ExactInv
  <2>1. /\ counter[j] <= counted[j] /\ (counter[j] < MaxCounter => counter[j] = counted[j])
        /\ IsFiniteSet(Pending(j)) /\ entered[j] = counted[j] + Cardinality(Pending(j))
    BY <1>1 DEF ExactInv
  <2>2. Pending(j)' = Pending(j) \ {c} /\ (c \in Pending(j) <=> j = k)
    <3>1. pc'[c] \notin Loading
      BY <1>3 DEF Loading, Elsewhere
    <3>2. Pending(j)' = Pending(j) \ {c}
      BY <1>3, <3>1, PendingAside
    <3>3. c \in Pending(j) <=> j = k
      BY <1>2 DEF Pending
    <3> QED BY <3>2, <3>3
  <2>3. /\ IsFiniteSet(Pending(j) \ {c}) /\ Cardinality(Pending(j)) \in Nat
        /\ Cardinality(Pending(j) \ {c}) = IF c \in Pending(j) THEN Cardinality(Pending(j)) - 1
                                                               ELSE Cardinality(Pending(j))
    BY <2>1, FS_RemoveElement, FS_CardinalityType
  <2>4. CASE j = k
    BY <1>3, <1>5, <2>1, <2>2, <2>3, <2>4, CounterFacts
  <2>5. CASE j # k
    BY <1>3, <1>4, <2>1, <2>2, <2>3, <2>5
  <2> QED BY <2>4, <2>5
<1>8. \A d \in Callers : BracketInv(d)'
  <2>1. pc[c] \notin Bracketing /\ pc'[c] \notin Bracketing /\ pc'[c] # "cas"
    BY <1>3 DEF Loading, Bracketing, Elsewhere
  <2>2. \A j \in Kinds : /\ counter[j] <= counter'[j] /\ counted[j] <= counted'[j]
                         /\ entered[j] <= entered'[j]
    BY <1>3, <1>4, <1>5, CounterFacts
  <2> QED BY <1>3, <1>6, <2>1, <2>2, BracketAside
<1> QED BY <1>6, <1>7, <1>8 DEF CountersInv

\* The loop of an increment: a load that finds no maximum, a swap that is lost.
LEMMA LoopKeeps ==
  ASSUME CountersInv, NEW c \in Callers, pc[c] \in Loading,
         \/ pc' = [pc EXCEPT ![c] = "cas"] /\ loaded' = [loaded EXCEPT ![c] = counter[kind[c]]]
            /\ counter[kind[c]] # MaxCounter
         \/ pc' = [pc EXCEPT ![c] = "load"] /\ loaded' = loaded,
         UNCHANGED <<counter, counted, kind, pos, before, after, delta, entered, mark>>
  PROVE  CountersInv'
<1>1. CounterTypes /\ ExactInv
  BY DEF CountersInv
<1>2. /\ \A d \in Callers : d # c => pc'[d] = pc[d] /\ loaded'[d] = loaded[d]
      /\ pc'[c] \in Loading
      /\ pc'[c] = "cas" => loaded'[c] = counter[kind[c]] /\ counter[kind[c]] # MaxCounter
  BY <1>1 DEF CounterTypes, Loading
<1>3. counter[kind[c]] \in 0 .. MaxCounter
  BY <1>1 DEF CounterTypes
<1>4. CounterTypes'
  <2>1. /\ pc' \in [Callers -> Loading \cup Bracketing \cup Elsewhere]
        /\ loaded' \in [Callers -> 0 .. MaxCounter]
    BY <1>1, <1>3 DEF CounterTypes, Loading
  <2> QED BY <1>1, <2>1 DEF CounterTypes
<1>5. ExactInv'
  <2>1. \A k \in Kinds : Pending(k)' = Pending(k)
    BY <1>2 DEF Pending
  <2> QED BY <1>1, <2>1 DEF ExactInv
<1>6. \A d \in Callers : BracketInv(d)'
  <2>1. pc[c] \notin Bracketing /\ pc'[c] \notin Bracketing
        /\ (pc'[c] = "cas" => loaded'[c] < MaxCounter)
    BY <1>2, <1>3, CounterFacts DEF Bracketing, Loading
  <2>2. \A j \in Kinds : /\ counter[j] <= counter'[j] /\ counted[j] <= counted'[j]
                         /\ entered[j] <= entered'[j]
    BY <1>1 DEF CounterTypes, Counts
  <2> QED BY <1>2, <1>4, <2>1, <2>2, BracketAside
<1> QED BY <1>4, <1>5, <1>6 DEF CountersInv

LEMMA IncrementKeeps ==
  ASSUME CountersInv, NEW c \in Callers, NEW to \in Elsewhere, LoadCounter(c, to) \/ SwapCounter(c, to)
  PROVE  CountersInv'
<1>1. CounterTypes /\ BracketInv(c)
  BY DEF CountersInv
<1>2. counter[kind[c]] \in 0 .. MaxCounter
  BY <1>1 DEF CounterTypes
<1>3. CASE LoadCounter(c, to)
  <2>1. CASE counter[kind[c]] = MaxCounter
    BY <1>3, <2>1, NotedKeeps DEF LoadCounter, Loading
  <2>2. CASE counter[kind[c]] # MaxCounter
    BY <1>3, <2>2, LoopKeeps DEF LoadCounter, Loading
  <2> QED BY <2>1, <2>2
<1>4. CASE SwapCounter(c, to)
  <2>1. CASE counter[kind[c]] = loaded[c]
    <3>1. counter[kind[c]] < MaxCounter
      BY <1>1, <1>4, <2>1 DEF SwapCounter, BracketInv
    <3> QED BY <1>4, <2>1, <3>1, NotedKeeps DEF SwapCounter, Loading
  <2>2. CASE counter[kind[c]] # loaded[c]
    BY <1>4, <2>2, LoopKeeps DEF SwapCounter, Loading
  <2> QED BY <2>1, <2>2
<1> QED BY <1>3, <1>4

-----------------------------------------------------------------------------
(* Snapshots. *)

\* A step of a bracket leaves the counters and the other callers alone.
LEMMA BracketOnly ==
  ASSUME CountersInv, NEW c \in Callers, CounterTypes', BracketInv(c)',
         pc[c] \notin Loading, pc'[c] \notin Loading,
         UNCHANGED <<counter, kind, loaded, entered, counted>>,
         \A d \in Callers : d # c => /\ pc'[d] = pc[d] /\ pos'[d] = pos[d] /\ before'[d] = before[d]
                                     /\ after'[d] = after[d] /\ delta'[d] = delta[d]
                                     /\ mark'[d] = mark[d]
  PROVE  CountersInv'
<1>1. \A k \in Kinds : Pending(k)' = Pending(k)
  BY DEF Pending
<1>2. ExactInv'
  BY <1>1 DEF CountersInv, ExactInv
<1>3. \A d \in Callers : d # c => BracketInv(d)'
  BY DEF CountersInv, BracketInv, First, Second
<1> QED BY <1>2, <1>3 DEF CountersInv

\* A counter read now is bounded by what was noted and what was entered.
LEMMA LoadBounds ==
  ASSUME CountersInv, NEW k \in Kinds
  PROVE  /\ counter[k] \in 0 .. MaxCounter /\ counter[k] \in Nat
         /\ counted[k] \in Nat /\ entered[k] \in Nat
         /\ counter[k] <= entered[k] /\ (counter[k] < MaxCounter => counter[k] = counted[k])
<1>1. /\ counter[k] \in 0 .. MaxCounter /\ counter[k] \in Nat
      /\ counted[k] \in Nat /\ entered[k] \in Nat
  BY CounterFacts DEF CountersInv, CounterTypes, Counts
<1>2. /\ counter[k] <= counted[k] /\ (counter[k] < MaxCounter => counter[k] = counted[k])
      /\ entered[k] = counted[k] + Cardinality(Pending(k)) /\ Cardinality(Pending(k)) \in Nat
  BY FS_CardinalityType DEF CountersInv, ExactInv
<1> QED BY <1>1, <1>2

LEMMA BeginKeeps ==
  ASSUME CountersInv, NEW c \in Callers, BeginBracket(c)
  PROVE  CountersInv'
<1>1. CounterTypes /\ BracketInv(c)
  BY DEF CountersInv
<1>2. /\ pc[c] = "idle" /\ delta[c] = NoDelta /\ pc' = [pc EXCEPT ![c] = "snapshot"]
      /\ pos' = [pos EXCEPT ![c] = 1] /\ mark' = [mark EXCEPT ![c].noted = counted]
      /\ UNCHANGED <<counter, kind, loaded, before, after, delta, entered, counted>>
  BY DEF BeginBracket
<1>3. /\ pc' \in [Callers -> Loading \cup Bracketing \cup Elsewhere] /\ pos' \in [Callers -> Kinds]
      /\ \A d \in Callers : d # c => pc'[d] = pc[d] /\ pos'[d] = pos[d]
      /\ pc'[c] = "snapshot" /\ pos'[c] = 1
  BY <1>1, <1>2, CounterFacts DEF CounterTypes, Bracketing
<1>4. /\ mark' \in [Callers -> [noted : Counts, begun : Counts, noted2 : Counts, begun2 : Counts]]
      /\ mark'[c].noted = counted /\ mark'[c].noted2 = mark[c].noted2
      /\ \A d \in Callers : d # c => mark'[d] = mark[d]
  BY <1>1, <1>2 DEF CounterTypes
<1>5. CounterTypes'
  BY <1>1, <1>2, <1>3, <1>4 DEF CounterTypes
<1>6. BracketInv(c)'
  <2>1. \A k \in Kinds : ~(k < pos'[c]) /\ counted[k] <= counted[k]
    BY <1>1, <1>3, CounterFacts DEF Kinds, CounterTypes, Counts
  <2> QED BY <1>1, <1>2, <1>3, <1>4, <2>1 DEF BracketInv, Bracketing, NoDelta, Refused
<1> QED BY <1>2, <1>3, <1>4, <1>5, <1>6, BracketOnly DEF Loading

LEMMA LoadBeforeKeeps ==
  ASSUME CountersInv, NEW c \in Callers, NEW to \in Elsewhere, LoadBefore(c, to)
  PROVE  CountersInv'
<1>1. CounterTypes /\ BracketInv(c)
  BY DEF CountersInv
<1>2. PICK p \in Kinds : p = pos[c]
  BY <1>1 DEF CounterTypes
<1>3. /\ pc[c] = "snapshot" /\ before' = [before EXCEPT ![c][p] = counter[p]]
      /\ UNCHANGED <<counter, kind, loaded, after, delta, entered, counted>>
      /\ \/ p < KindCount /\ pos' = [pos EXCEPT ![c] = p + 1] /\ UNCHANGED <<pc, mark>>
         \/ p = KindCount /\ pc' = [pc EXCEPT ![c] = to]
            /\ mark' = [mark EXCEPT ![c].begun = entered] /\ UNCHANGED pos
  BY <1>2 DEF LoadBefore
<1>4. /\ before' \in [Callers -> [Kinds -> 0 .. MaxCounter]]
      /\ \A k \in Kinds : before'[c][k] = IF k = p THEN counter[p] ELSE before[c][k]
      /\ \A d \in Callers : d # c => before'[d] = before[d]
  BY <1>1, <1>2, <1>3, LoadBounds DEF CounterTypes
<1>5. \A k \in Kinds :
        /\ counter[k] \in 0 .. MaxCounter /\ counter[k] \in Nat /\ counted[k] \in Nat
        /\ entered[k] \in Nat /\ mark[c].noted[k] \in Nat /\ before[c][k] \in Nat
        /\ counter[k] <= entered[k] /\ (counter[k] < MaxCounter => counter[k] = counted[k])
  BY <1>1, LoadBounds DEF CounterTypes, Counts
<1>6. delta[c] = NoDelta
  BY <1>1, <1>3 DEF BracketInv, Bracketing
<1>7. \A k \in Kinds :
        /\ mark[c].noted[k] <= counted[k] /\ mark[c].noted2[k] <= counted[k]
        /\ before'[c][k] <= counter[k]
        /\ k <= p => /\ before'[c][k] <= entered[k]
                     /\ before'[c][k] < MaxCounter => mark[c].noted[k] <= before'[c][k]
  <2> SUFFICES ASSUME NEW k \in Kinds
               PROVE  /\ mark[c].noted[k] <= counted[k] /\ mark[c].noted2[k] <= counted[k]
                      /\ before'[c][k] <= counter[k]
                      /\ k <= p => /\ before'[c][k] <= entered[k]
                                   /\ before'[c][k] < MaxCounter => mark[c].noted[k] <= before'[c][k]
    OBVIOUS
  <2>1. /\ mark[c].noted[k] <= counted[k] /\ mark[c].noted2[k] <= counted[k]
        /\ before[c][k] <= counter[k]
    BY <1>1 DEF BracketInv
  <2>2. CASE k = p
    BY <1>4, <1>5, <2>1, <2>2
  <2>3. CASE k # p
    <3>1. k <= p => First(c, k, entered)
      BY <1>1, <1>2, <1>3, <2>3, CounterFacts DEF BracketInv
    <3> QED BY <1>4, <2>1, <2>3, <3>1 DEF First
  <2> QED BY <2>2, <2>3
<1>8. CASE p < KindCount
  <2>0. pos' = [pos EXCEPT ![c] = p + 1] /\ UNCHANGED <<pc, mark>>
    BY <1>3, <1>8, CounterFacts
  <2>1. /\ pos' \in [Callers -> Kinds] /\ pos'[c] = p + 1
        /\ \A d \in Callers : d # c => pos'[d] = pos[d]
    BY <1>1, <1>2, <1>8, <2>0, CounterFacts DEF CounterTypes
  <2>2. CounterTypes'
    BY <1>1, <1>3, <1>4, <2>0, <2>1 DEF CounterTypes
  <2>3. \A k \in Kinds : k < pos'[c] => First(c, k, entered)'
    BY <1>2, <1>3, <1>7, <2>0, <2>1, CounterFacts DEF First
  <2>4. BracketInv(c)'
    BY <1>3, <1>6, <1>7, <2>0, <2>3 DEF BracketInv, Bracketing, NoDelta, Refused
  <2> QED BY <1>3, <1>4, <2>0, <2>1, <2>2, <2>4, BracketOnly DEF Loading
<1>9. CASE p = KindCount
  <2>0. pc' = [pc EXCEPT ![c] = to] /\ mark' = [mark EXCEPT ![c].begun = entered] /\ UNCHANGED pos
    BY <1>3, <1>9, CounterFacts
  <2>1. /\ pc' \in [Callers -> Loading \cup Bracketing \cup Elsewhere] /\ pc'[c] = to
        /\ \A d \in Callers : d # c => pc'[d] = pc[d]
    BY <1>1, <2>0 DEF CounterTypes
  <2>2. /\ mark' \in [Callers -> [noted : Counts, begun : Counts, noted2 : Counts, begun2 : Counts]]
        /\ mark'[c].begun = entered /\ mark'[c].noted = mark[c].noted /\ mark'[c].noted2 = mark[c].noted2
        /\ \A d \in Callers : d # c => mark'[d] = mark[d]
    BY <1>1, <2>0 DEF CounterTypes
  <2>3. CounterTypes'
    BY <1>1, <1>3, <1>4, <2>0, <2>1, <2>2 DEF CounterTypes
  <2>4. \A k \in Kinds : First(c, k, mark[c].begun)'
    BY <1>7, <1>9, <2>2, CounterFacts DEF First
  <2>5. BracketInv(c)'
    BY <1>3, <1>6, <1>7, <2>1, <2>2, <2>4 DEF BracketInv, Bracketing, Elsewhere, NoDelta, Refused
  <2> QED BY <1>3, <1>4, <2>0, <2>1, <2>2, <2>3, <2>5, BracketOnly DEF Loading, Elsewhere
<1> QED BY <1>3, <1>8, <1>9

LEMMA EndWorkKeeps ==
  ASSUME CountersInv, NEW c \in Callers, NEW from \in Elsewhere, delta[c] = NoDelta, EndWork(c, from)
  PROVE  CountersInv'
<1>1. CounterTypes /\ BracketInv(c)
  BY DEF CountersInv
<1>2. /\ pc[c] = from /\ pc' = [pc EXCEPT ![c] = "snapshot2"]
      /\ pos' = [pos EXCEPT ![c] = 1] /\ mark' = [mark EXCEPT ![c].noted2 = counted]
      /\ UNCHANGED <<counter, kind, loaded, before, after, delta, entered, counted>>
  BY DEF EndWork
<1>3. /\ pc' \in [Callers -> Loading \cup Bracketing \cup Elsewhere] /\ pos' \in [Callers -> Kinds]
      /\ \A d \in Callers : d # c => pc'[d] = pc[d] /\ pos'[d] = pos[d]
      /\ pc'[c] = "snapshot2" /\ pos'[c] = 1
  BY <1>1, <1>2, CounterFacts DEF CounterTypes, Bracketing
<1>4. /\ mark' \in [Callers -> [noted : Counts, begun : Counts, noted2 : Counts, begun2 : Counts]]
      /\ mark'[c].noted2 = counted /\ mark'[c].noted = mark[c].noted /\ mark'[c].begun = mark[c].begun
      /\ \A d \in Callers : d # c => mark'[d] = mark[d]
  BY <1>1, <1>2 DEF CounterTypes
<1>5. CounterTypes'
  BY <1>1, <1>2, <1>3, <1>4 DEF CounterTypes
<1>6. BracketInv(c)'
  <2>1. \A k \in Kinds : ~(k < pos'[c]) /\ counted[k] <= counted[k]
    BY <1>1, <1>3, CounterFacts DEF Kinds, CounterTypes, Counts
  <2>2. \A k \in Kinds : First(c, k, mark[c].begun)'
    BY <1>1, <1>2, <1>4 DEF BracketInv, First, Elsewhere
  <2> QED BY <1>1, <1>2, <1>3, <1>4, <2>1, <2>2 DEF BracketInv, Bracketing, NoDelta, Refused
<1> QED BY <1>2, <1>3, <1>4, <1>5, <1>6, BracketOnly DEF Loading, Elsewhere

LEMMA LoadAfterKeeps ==
  ASSUME CountersInv, NEW c \in Callers, LoadAfter(c)
  PROVE  CountersInv'
<1>1. CounterTypes /\ BracketInv(c)
  BY DEF CountersInv
<1>2. PICK p \in Kinds : p = pos[c]
  BY <1>1 DEF CounterTypes
<1>3. /\ pc[c] = "snapshot2" /\ after' = [after EXCEPT ![c][p] = counter[p]]
      /\ UNCHANGED <<counter, kind, loaded, before, delta, entered, counted>>
      /\ \/ p < KindCount /\ pos' = [pos EXCEPT ![c] = p + 1] /\ UNCHANGED <<pc, mark>>
         \/ p = KindCount /\ pc' = [pc EXCEPT ![c] = "delta"]
            /\ mark' = [mark EXCEPT ![c].begun2 = entered] /\ UNCHANGED pos
  BY <1>2 DEF LoadAfter
<1>4. /\ after' \in [Callers -> [Kinds -> 0 .. MaxCounter]]
      /\ \A k \in Kinds : after'[c][k] = IF k = p THEN counter[p] ELSE after[c][k]
      /\ \A d \in Callers : d # c => after'[d] = after[d]
  BY <1>1, <1>2, <1>3, LoadBounds DEF CounterTypes
<1>5. \A k \in Kinds :
        /\ counter[k] \in 0 .. MaxCounter /\ counter[k] \in Nat /\ counted[k] \in Nat
        /\ entered[k] \in Nat /\ mark[c].noted2[k] \in Nat /\ after[c][k] \in Nat /\ before[c][k] \in Nat
        /\ counter[k] <= entered[k] /\ (counter[k] < MaxCounter => counter[k] = counted[k])
  BY <1>1, LoadBounds DEF CounterTypes, Counts
<1>6. delta[c] = NoDelta /\ \A k \in Kinds : First(c, k, mark[c].begun)
  BY <1>1, <1>3 DEF BracketInv, Bracketing
<1>7. \A k \in Kinds :
        /\ mark[c].noted[k] <= counted[k] /\ mark[c].noted2[k] <= counted[k]
        /\ before[c][k] <= counter[k]
        /\ k <= p => /\ before[c][k] <= after'[c][k] /\ after'[c][k] <= entered[k]
                     /\ after'[c][k] < MaxCounter => mark[c].noted2[k] <= after'[c][k]
  <2> SUFFICES ASSUME NEW k \in Kinds
               PROVE  /\ mark[c].noted[k] <= counted[k] /\ mark[c].noted2[k] <= counted[k]
                      /\ before[c][k] <= counter[k]
                      /\ k <= p => /\ before[c][k] <= after'[c][k] /\ after'[c][k] <= entered[k]
                                   /\ after'[c][k] < MaxCounter => mark[c].noted2[k] <= after'[c][k]
    OBVIOUS
  <2>1. /\ mark[c].noted[k] <= counted[k] /\ mark[c].noted2[k] <= counted[k]
        /\ before[c][k] <= counter[k]
    BY <1>1 DEF BracketInv
  <2>2. CASE k = p
    BY <1>4, <1>5, <2>1, <2>2
  <2>3. CASE k # p
    <3>1. k <= p => Second(c, k, entered)
      BY <1>1, <1>2, <1>3, <2>3, CounterFacts DEF BracketInv
    <3> QED BY <1>4, <2>1, <2>3, <3>1 DEF Second
  <2> QED BY <2>2, <2>3
<1>8. CASE p < KindCount
  <2>0. pos' = [pos EXCEPT ![c] = p + 1] /\ UNCHANGED <<pc, mark>>
    BY <1>3, <1>8, CounterFacts
  <2>1. /\ pos' \in [Callers -> Kinds] /\ pos'[c] = p + 1
        /\ \A d \in Callers : d # c => pos'[d] = pos[d]
    BY <1>1, <1>2, <1>8, <2>0, CounterFacts DEF CounterTypes
  <2>2. CounterTypes'
    BY <1>1, <1>3, <1>4, <2>0, <2>1 DEF CounterTypes
  <2>3. \A k \in Kinds : k < pos'[c] => Second(c, k, entered)'
    BY <1>2, <1>3, <1>7, <2>0, <2>1, CounterFacts DEF Second
  <2>4. \A k \in Kinds : First(c, k, mark[c].begun)'
    BY <1>3, <1>6, <2>0 DEF First
  <2>5. BracketInv(c)'
    BY <1>3, <1>6, <1>7, <2>0, <2>3, <2>4 DEF BracketInv, Bracketing, NoDelta, Refused
  <2> QED BY <1>3, <1>4, <2>0, <2>1, <2>2, <2>5, BracketOnly DEF Loading
<1>9. CASE p = KindCount
  <2>0. pc' = [pc EXCEPT ![c] = "delta"] /\ mark' = [mark EXCEPT ![c].begun2 = entered] /\ UNCHANGED pos
    BY <1>3, <1>9, CounterFacts
  <2>1. /\ pc' \in [Callers -> Loading \cup Bracketing \cup Elsewhere] /\ pc'[c] = "delta"
        /\ \A d \in Callers : d # c => pc'[d] = pc[d]
    BY <1>1, <2>0 DEF CounterTypes, Bracketing
  <2>2. /\ mark' \in [Callers -> [noted : Counts, begun : Counts, noted2 : Counts, begun2 : Counts]]
        /\ mark'[c].begun2 = entered /\ mark'[c].noted = mark[c].noted
        /\ mark'[c].noted2 = mark[c].noted2 /\ mark'[c].begun = mark[c].begun
        /\ \A d \in Callers : d # c => mark'[d] = mark[d]
    BY <1>1, <2>0 DEF CounterTypes
  <2>3. CounterTypes'
    BY <1>1, <1>3, <1>4, <2>0, <2>1, <2>2 DEF CounterTypes
  <2>4. \A k \in Kinds : Second(c, k, mark[c].begun2)' /\ First(c, k, mark[c].begun)'
    BY <1>3, <1>6, <1>7, <1>9, <2>2, CounterFacts DEF First, Second
  <2>5. BracketInv(c)'
    BY <1>3, <1>6, <1>7, <2>1, <2>2, <2>4 DEF BracketInv, Bracketing, NoDelta, Refused
  <2> QED BY <1>3, <1>4, <2>0, <2>1, <2>2, <2>3, <2>5, BracketOnly DEF Loading
<1> QED BY <1>3, <1>8, <1>9

\* What Delta makes of two snapshots taken in order.
LEMMA DeltaOf ==
  ASSUME NEW new \in [Kinds -> 0 .. MaxCounter], NEW old \in [Kinds -> 0 .. MaxCounter],
         \A k \in Kinds : old[k] <= new[k]
  PROVE  /\ Delta(new, old) \in [status : {"none", "saturated", "nonMonotonic", "accepted"},
                                 by : [Kinds -> 0 .. MaxCounter]]
         /\ Delta(new, old).status \in {"saturated", "accepted"}
         /\ Delta(new, old).status = "accepted" =>
              \A k \in Kinds : /\ Delta(new, old).by[k] = new[k] - old[k]
                               /\ new[k] < MaxCounter /\ old[k] < MaxCounter
<1>1. CASE \E k \in Kinds : new[k] = MaxCounter \/ old[k] = MaxCounter
  <2>1. Delta(new, old) = Refused("saturated")
    BY <1>1 DEF Delta
  <2> QED BY <2>1, CounterFacts DEF Refused
<1>2. CASE ~\E k \in Kinds : new[k] = MaxCounter \/ old[k] = MaxCounter
  <2>1. \A k \in Kinds : /\ ~(new[k] < old[k]) /\ new[k] - old[k] \in 0 .. MaxCounter
                         /\ new[k] < MaxCounter /\ old[k] < MaxCounter
    BY <1>2, CounterFacts
  <2>2. Delta(new, old) = Accepted([k \in Kinds |-> new[k] - old[k]])
    BY <1>2, <2>1 DEF Delta
  <2> QED BY <2>1, <2>2 DEF Accepted
<1> QED BY <1>1, <1>2

LEMMA TakeKeeps ==
  ASSUME CountersInv, NEW c \in Callers, NEW to \in Elsewhere, TakeDelta(c, to)
  PROVE  CountersInv'
<1>1. CounterTypes /\ BracketInv(c)
  BY DEF CountersInv
<1>2. /\ pc[c] = "delta" /\ pc' = [pc EXCEPT ![c] = to]
      /\ delta' = [delta EXCEPT ![c] = Delta(after[c], before[c])]
      /\ before' = [before EXCEPT ![c] = Zero] /\ after' = [after EXCEPT ![c] = Zero]
      /\ pos' = [pos EXCEPT ![c] = 1]
      /\ UNCHANGED <<counter, kind, loaded, entered, counted, mark>>
  BY DEF TakeDelta
<1>3. \A k \in Kinds : First(c, k, mark[c].begun) /\ Second(c, k, mark[c].begun2)
  BY <1>1, <1>2 DEF BracketInv, Bracketing
<1>4. /\ Delta(after[c], before[c]) \in [status : {"none", "saturated", "nonMonotonic", "accepted"},
                                         by : [Kinds -> 0 .. MaxCounter]]
      /\ Delta(after[c], before[c]).status \in {"saturated", "accepted"}
      /\ Delta(after[c], before[c]).status = "accepted" =>
           \A k \in Kinds : /\ Delta(after[c], before[c]).by[k] = after[c][k] - before[c][k]
                            /\ after[c][k] < MaxCounter /\ before[c][k] < MaxCounter
  <2>1. after[c] \in [Kinds -> 0 .. MaxCounter] /\ before[c] \in [Kinds -> 0 .. MaxCounter]
    BY <1>1 DEF CounterTypes
  <2>2. \A k \in Kinds : before[c][k] <= after[c][k]
    BY <1>3 DEF Second
  <2> QED BY <2>1, <2>2, DeltaOf
<1>5. /\ pc' \in [Callers -> Loading \cup Bracketing \cup Elsewhere] /\ pos' \in [Callers -> Kinds]
      /\ before' \in [Callers -> [Kinds -> 0 .. MaxCounter]]
      /\ after' \in [Callers -> [Kinds -> 0 .. MaxCounter]]
  BY <1>1, <1>2, CounterFacts DEF CounterTypes
<1>6. delta' \in [Callers -> [status : {"none", "saturated", "nonMonotonic", "accepted"},
                              by : [Kinds -> 0 .. MaxCounter]]]
  BY <1>1, <1>2, <1>4 DEF CounterTypes
<1>7. /\ pc'[c] = to /\ before'[c] = Zero /\ delta'[c] = Delta(after[c], before[c])
      /\ \A d \in Callers : d # c => /\ pc'[d] = pc[d] /\ pos'[d] = pos[d] /\ before'[d] = before[d]
                                     /\ after'[d] = after[d] /\ delta'[d] = delta[d]
  BY <1>1, <1>2 DEF CounterTypes
<1>8. CounterTypes'
  BY <1>1, <1>2, <1>5, <1>6 DEF CounterTypes
<1>9. \A k \in Kinds :
        /\ after[c][k] \in Nat /\ before[c][k] \in Nat /\ counter[k] \in Nat
        /\ mark[c].noted[k] \in Nat /\ mark[c].noted2[k] \in Nat
        /\ mark[c].begun[k] \in Nat /\ mark[c].begun2[k] \in Nat
  BY <1>1 DEF CounterTypes, Counts
<1>10. delta'[c].status = "accepted" =>
         \A k \in Kinds : /\ mark[c].noted2[k] - mark[c].begun[k] <= delta'[c].by[k]
                          /\ delta'[c].by[k] <= mark[c].begun2[k] - mark[c].noted[k]
                          /\ mark[c].noted2[k] < MaxCounter
  BY <1>3, <1>4, <1>7, <1>9, CounterFacts DEF First, Second
<1>11. BracketInv(c)'
  <2>1. delta'[c] # NoDelta /\ delta'[c].status # "nonMonotonic"
    BY <1>4, <1>7 DEF NoDelta, Refused
  <2>2. \A k \in Kinds : before'[c][k] <= counter'[k]
    BY <1>2, <1>7, <1>9, CounterFacts
  <2>3. \A k \in Kinds : mark'[c].noted[k] <= counted'[k] /\ mark'[c].noted2[k] <= counted'[k]
    BY <1>1, <1>2 DEF BracketInv
  <2> QED BY <1>2, <1>7, <1>10, <2>1, <2>2, <2>3 DEF BracketInv, Bracketing, Elsewhere
<1> QED BY <1>2, <1>7, <1>8, <1>11, BracketOnly DEF Loading, Elsewhere

-----------------------------------------------------------------------------
(* The counters on their own. *)

LEMMA InitCounters == Init => CountersInv
<1> SUFFICES ASSUME Init PROVE CountersInv
  OBVIOUS
<1>1. CounterTypes
  BY CounterFacts DEF Init, CounterTypes, NoDelta, Refused, Counts, Elsewhere
<1>2. \A k \in Kinds : Pending(k) = {}
  BY DEF Init, Pending, Loading
<1>3. ExactInv
  <2>1. IsFiniteSet({}) /\ Cardinality({}) = 0
    BY FS_EmptySet
  <2>2. \A k \in Kinds : counter[k] = 0 /\ counted[k] = 0 /\ entered[k] = 0
    BY CounterFacts DEF Init
  <2> QED BY <1>2, <2>1, <2>2 DEF ExactInv
<1>4. ASSUME NEW c \in Callers PROVE BracketInv(c)
  <2>1. /\ pc[c] = "idle" /\ delta[c] = Refused("none") /\ before[c] = Zero /\ counter = Zero
        /\ counted = Zero /\ mark[c].noted = Zero /\ mark[c].noted2 = Zero /\ mark[c].begun = Zero
    BY DEF Init, NoDelta
  <2>2. delta[c].status = "none"
    BY <2>1 DEF Refused
  <2>3. \A k \in Kinds : First(c, k, mark[c].begun)
    BY <2>1, CounterFacts DEF First
  <2>4. \A k \in Kinds : /\ mark[c].noted[k] <= counted[k] /\ mark[c].noted2[k] <= counted[k]
                         /\ before[c][k] <= counter[k]
    BY <2>1, CounterFacts
  <2> QED BY <2>1, <2>2, <2>3, <2>4 DEF BracketInv, Bracketing, NoDelta
<1> QED BY <1>1, <1>3, <1>4 DEF CountersInv

LEMMA CountersStutter == CountersInv /\ UNCHANGED vars => CountersInv'
<1> SUFFICES ASSUME CountersInv, UNCHANGED vars PROVE CountersInv'
  OBVIOUS
<1>1. UNCHANGED <<counter, pc, kind, loaded, pos, before, after, delta, entered, counted, mark>>
  BY DEF vars, counterVars
<1>2. CounterTypes'
  BY <1>1 DEF CountersInv, CounterTypes
<1>3. ExactInv'
  <2>1. \A k \in Kinds : Pending(k)' = Pending(k)
    BY <1>1 DEF Pending
  <2> QED BY <1>1, <2>1 DEF CountersInv, ExactInv
<1>4. \A c \in Callers : BracketInv(c)'
  BY <1>1 DEF CountersInv, BracketInv, First, Second
<1> QED BY <1>2, <1>3, <1>4 DEF CountersInv

LEMMA BoundsHold == CountersInv => DeltaBounds /\ NeverNonMonotonic
BY DEF CountersInv, BracketInv, DeltaBounds, NeverNonMonotonic

\* A goroutine at work has no difference yet.
WorkInv == \A c \in Callers : pc[c] = "work" => delta[c] = NoDelta

LEMMA NextCounters == CountersInv /\ WorkInv /\ [Next]_vars => CountersInv' /\ WorkInv'
<1> SUFFICES ASSUME CountersInv, WorkInv, [Next]_vars PROVE CountersInv' /\ WorkInv'
  OBVIOUS
<1>1. ASSUME NEW c \in Callers, NEW k \in Kinds, EnterConstruction(c, k, "idle")
      PROVE  CountersInv' /\ WorkInv'
  BY <1>1, EnterKeeps DEF WorkInv, EnterConstruction, CountersInv, CounterTypes, Elsewhere
<1>2. ASSUME NEW c \in Callers, LoadCounter(c, "idle") \/ SwapCounter(c, "idle")
      PROVE  CountersInv' /\ WorkInv'
  BY <1>2, IncrementKeeps DEF WorkInv, LoadCounter, SwapCounter, CountersInv, CounterTypes, Elsewhere
<1>3. ASSUME NEW c \in Callers, BeginBracket(c)
      PROVE  CountersInv' /\ WorkInv'
  BY <1>3, BeginKeeps DEF WorkInv, BeginBracket, CountersInv, CounterTypes
<1>4. ASSUME NEW c \in Callers, LoadBefore(c, "work")
      PROVE  CountersInv' /\ WorkInv'
  <2>1. delta' = delta /\ delta[c] = NoDelta /\ \A d \in Callers : d # c => pc'[d] = pc[d]
    BY <1>4 DEF LoadBefore, CountersInv, CounterTypes, BracketInv, Bracketing
  <2> QED BY <1>4, <2>1, LoadBeforeKeeps DEF WorkInv, Elsewhere
<1>5. ASSUME NEW c \in Callers, EndWork(c, "work")
      PROVE  CountersInv' /\ WorkInv'
  <2>1. delta' = delta /\ delta[c] = NoDelta /\ \A d \in Callers : d # c => pc'[d] = pc[d]
    BY <1>5 DEF EndWork, CountersInv, CounterTypes, WorkInv
  <2> QED BY <1>5, <2>1, EndWorkKeeps DEF WorkInv, Elsewhere
<1>6. ASSUME NEW c \in Callers, LoadAfter(c)
      PROVE  CountersInv' /\ WorkInv'
  <2>1. delta' = delta /\ delta[c] = NoDelta /\ \A d \in Callers : d # c => pc'[d] = pc[d]
    BY <1>6 DEF LoadAfter, CountersInv, CounterTypes, BracketInv, Bracketing
  <2> QED BY <1>6, <2>1, LoadAfterKeeps DEF WorkInv
<1>7. ASSUME NEW c \in Callers, TakeDelta(c, "idle")
      PROVE  CountersInv' /\ WorkInv'
  <2>1. pc'[c] = "idle" /\ \A d \in Callers : d # c => pc'[d] = pc[d] /\ delta'[d] = delta[d]
    BY <1>7 DEF TakeDelta, CountersInv, CounterTypes
  <2> QED BY <1>7, <2>1, TakeKeeps DEF WorkInv, Elsewhere
<1>8. CASE UNCHANGED vars
  BY <1>8, CountersStutter DEF WorkInv, vars, counterVars
<1> QED BY <1>1, <1>2, <1>3, <1>4, <1>5, <1>6, <1>7, <1>8 DEF Next

\* The difference of two snapshots counts every construction inside the bracket
\* and none but those that overlap it, although no snapshot is atomic and other
\* goroutines retry their increments meanwhile (construction_counters.go:59).
THEOREM CountersBound == Spec => []DeltaBounds
<1>1. Init => WorkInv
  BY DEF Init, WorkInv
<1>2. Init => CountersInv
  BY InitCounters
<1>3. CountersInv /\ WorkInv /\ [Next]_vars => (CountersInv /\ WorkInv)'
  BY NextCounters
<1>4. CountersInv => DeltaBounds
  BY BoundsHold
<1> QED BY <1>1, <1>2, <1>3, <1>4, PTL DEF Spec

\* Delta never calls two live snapshots, taken in order, non-monotonic
\* (construction_counters.go:71).
THEOREM CountersMonotone == Spec => []NeverNonMonotonic
<1>1. Init => WorkInv
  BY DEF Init, WorkInv
<1>2. Init => CountersInv
  BY InitCounters
<1>3. CountersInv /\ WorkInv /\ [Next]_vars => (CountersInv /\ WorkInv)'
  BY NextCounters
<1>4. CountersInv => NeverNonMonotonic
  BY BoundsHold
<1> QED BY <1>1, <1>2, <1>3, <1>4, PTL DEF Spec

-----------------------------------------------------------------------------
(* The inductive invariant of the calls. *)

\* Where a call is; a construction it enters on the way brings it back there.
At(c) == IF pc[c] \in Loading THEN Resume(c) ELSE pc[c]

\* Nothing of the call's inputs is left to try again.
Consumed(c) ==
  /\ keys[c] = "empty"
  /\ call[c].carrier # None => ~cell[call[c].carrier].pair.held

Checked(a, e) ==
  /\ a.sealed /\ e.keys = "complete"
  /\ a.hostile \/ (e.pair.c2s \in EncodeOf /\ e.pair.s2c \in DecodeOf)

CallInv(c) ==
  /\ At(c) \in {"idle", "snapshot", "consume", "returned"} => eval[c] = NoEvaluator
  /\ At(c) = "assemble" => eval[c].keys # "empty" /\ eval[c].pair = NoPair
  /\ At(c) # "assemble" => pair[c] = NoPair
  /\ At(c) # "returned" => given[c] = NoEvaluator /\ delta[c] = NoDelta
  /\ At(c) \notin {"idle", "snapshot", "consume"} => Consumed(c)
  /\ At(c) \in {"end", "snapshot2", "delta"} /\ ~err[c] => Checked(call[c], eval[c])
  /\ given[c] # NoEvaluator => /\ Checked(call[c], given[c])
                               /\ delta[c].status = "accepted" /\ delta[c].by = Zero
  /\ call[c].carrier # None => cell[call[c].carrier].issued
  /\ pc[c] # "work"

\* Where the matrix m may be.
InDonor(m, d) == donor[d] = m
InCell(m, x)  == InPair(m, cell[x].pair)
InCall(m, c)  == InPair(m, pair[c]) \/ InPair(m, eval[c].pair)
InGiven(m, c) == InPair(m, given[c].pair)

\* It is in one of these places and in no other.
Sole(m) ==
  /\ \A d \in Donors : InDonor(m, d) =>
       /\ \A e \in Donors : InDonor(m, e) => e = d
       /\ \A x \in Cells : ~InCell(m, x)
       /\ \A c \in Callers : ~InCall(m, c) /\ ~InGiven(m, c)
  /\ \A x \in Cells : InCell(m, x) =>
       /\ \A y \in Cells : InCell(m, y) => y = x
       /\ \A c \in Callers : ~InCall(m, c) /\ ~InGiven(m, c)
  /\ \A c \in Callers : InCall(m, c) =>
       \A d \in Callers : (InCall(m, d) => d = c) /\ ~InGiven(m, d)
  /\ \A c, d \in Callers : InGiven(m, c) /\ InGiven(m, d) => c = d

IInv ==
  /\ CountersInv
  /\ PrebuiltTypeOK
  /\ \A c \in Callers : CallInv(c)
  /\ \A m \in Donors : Sole(m)

-----------------------------------------------------------------------------
(* What a step leaves alone. *)

\* A matrix is no empty variable.
LEMMA Nowhere ==
  ASSUME NEW m \in Donors
  PROVE  m # None /\ ~InPair(m, NoPair) /\ ~InPair(m, NoEvaluator.pair)
BY PrebuiltAssumption DEF InPair, NoPair, NoEvaluator

LEMMA SoleAside ==
  ASSUME NEW m, Sole(m), UNCHANGED <<donor, cell, pair, eval, given>>
  PROVE  Sole(m)'
BY DEF Sole, InDonor, InCell, InCall, InGiven

\* Cells are issued and emptied for good.
CellsMove == \A x \in Cells : cell[x].issued => /\ cell'[x].issued
                                                /\ cell'[x].pair.held => cell[x].pair.held

LEMMA CallAside ==
  ASSUME PrebuiltTypeOK, NEW c \in Callers, CallInv(c), CellsMove, At(c)' = At(c), pc'[c] # "work",
         delta'[c] = delta[c], call'[c] = call[c], keys'[c] = keys[c], pair'[c] = pair[c],
         eval'[c] = eval[c], err'[c] = err[c], given'[c] = given[c]
  PROVE  CallInv(c)'
<1>1. call[c].carrier # None =>
        /\ call[c].carrier \in Cells /\ cell'[call[c].carrier].issued
        /\ cell'[call[c].carrier].pair.held => cell[call[c].carrier].pair.held
  BY DEF PrebuiltTypeOK, CallInv, CellsMove
<1>2. Consumed(c) => Consumed(c)'
  BY <1>1 DEF Consumed
<1> QED BY <1>1, <1>2 DEF CallInv, Checked

\* The callers a step is not about.
LEMMA OthersAside ==
  ASSUME IInv, NEW c, CellsMove,
         \A d \in Callers : d # c =>
           /\ pc'[d] = pc[d] /\ delta'[d] = delta[d] /\ call'[d] = call[d] /\ keys'[d] = keys[d]
           /\ pair'[d] = pair[d] /\ eval'[d] = eval[d] /\ err'[d] = err[d] /\ given'[d] = given[d]
  PROVE  \A d \in Callers : d # c => CallInv(d)'
<1> SUFFICES ASSUME NEW d \in Callers, d # c PROVE CallInv(d)'
  OBVIOUS
<1>1. At(d)' = At(d)
  BY DEF At, Resume
<1>2. CallInv(d) /\ PrebuiltTypeOK
  BY DEF IInv
<1>3. pc[d] # "work"
  BY <1>2 DEF CallInv
<1> QED BY <1>1, <1>2, <1>3, CallAside

\* A call goes from one place to another beside the counters.
LEMMA PlaceKeeps ==
  ASSUME CountersInv, NEW c \in Callers, pc[c] \in Elsewhere, NEW to \in Elsewhere,
         pc' = [pc EXCEPT ![c] = to], UNCHANGED counterVars
  PROVE  CountersInv'
<1>1. CounterTypes /\ BracketInv(c)
  BY DEF CountersInv
<1>2. UNCHANGED <<counter, kind, loaded, pos, before, after, delta, entered, counted, mark>>
  BY DEF counterVars
<1>3. pc'[c] = to /\ \A d \in Callers : d # c => pc'[d] = pc[d]
  BY <1>1 DEF CounterTypes
<1>4. CounterTypes'
  BY <1>1, <1>2 DEF CounterTypes
<1>5. BracketInv(c)'
  BY <1>1, <1>2, <1>3 DEF BracketInv, First, Second, Bracketing, Elsewhere
<1> QED BY <1>2, <1>3, <1>4, <1>5, BracketOnly DEF Loading, Elsewhere

\* The types of what the counters have.
LEMMA PlaceTypes ==
  ASSUME CountersInv
  PROVE  /\ counter \in [Kinds -> 0 .. MaxCounter]
         /\ pc \in [Callers -> Location \cup {"consume", "assemble", "end", "returned"}]
BY DEF CountersInv, CounterTypes, Location, Loading, Bracketing, Elsewhere

LEMMA PlaceTypesNext ==
  CountersInv' => /\ counter' \in [Kinds -> 0 .. MaxCounter]
                  /\ pc' \in [Callers -> Location \cup {"consume", "assemble", "end", "returned"}]
BY DEF CountersInv, CounterTypes, Location, Loading, Bracketing, Elsewhere

\* A step on the counters and the places only.
LEMMA CountersOnly ==
  ASSUME IInv, CountersInv', UNCHANGED <<prebuiltVars, delta>>, NEW c \in Callers,
         \A d \in Callers : d # c => pc'[d] = pc[d], CallInv(c)'
  PROVE  IInv'
<1>1. UNCHANGED <<donor, cell, call, keys, pair, eval, err, given, delta>>
  BY DEF prebuiltVars
<1>2. PrebuiltTypeOK'
  BY <1>1, PlaceTypesNext DEF IInv, PrebuiltTypeOK
<1>3. \A m \in Donors : Sole(m)'
  BY <1>1, SoleAside DEF IInv
<1>4. CellsMove
  BY <1>1 DEF CellsMove
<1>5. \A d \in Callers : d # c => CallInv(d)'
  BY <1>1, <1>4, OthersAside
<1> QED BY <1>2, <1>3, <1>5 DEF IInv

-----------------------------------------------------------------------------
(* The steps of a call. *)

\* A construction entered by the source of a call or beside it.
LEMMA ConstructionKeeps ==
  ASSUME IInv, NEW c \in Callers,
         \/ \E k \in Kinds : SourceConstructs(c, k) \/ OtherConstruction(c, k)
         \/ NoteLoad(c) \/ NoteSwap(c)
  PROVE  IInv'
<1>1. CountersInv /\ CounterTypes /\ PrebuiltTypeOK /\ CallInv(c)
  BY DEF IInv, CountersInv
<1>2. UNCHANGED <<prebuiltVars, delta>>
  BY DEF SourceConstructs, OtherConstruction, NoteLoad, NoteSwap, EnterConstruction, LoadCounter,
         SwapCounter
<1>3. UNCHANGED <<donor, cell, call, keys, pair, eval, err, given, delta>>
  BY <1>2 DEF prebuiltVars
<1>4. /\ CountersInv' /\ At(c)' = At(c) /\ pc'[c] # "work"
      /\ \A d \in Callers : d # c => pc'[d] = pc[d]
  <2>1. ASSUME NEW k \in Kinds, SourceConstructs(c, k) \/ OtherConstruction(c, k)
        PROVE  /\ CountersInv' /\ At(c)' = At(c) /\ pc'[c] # "work"
               /\ \A d \in Callers : d # c => pc'[d] = pc[d]
    <3>1. PICK from \in {"assemble", "idle"} : EnterConstruction(c, k, from)
      BY <2>1 DEF SourceConstructs, OtherConstruction
    <3>2. CountersInv'
      BY <1>1, <3>1, EnterKeeps DEF Elsewhere
    <3>3. pc[c] = from /\ pc'[c] = "load" /\ \A d \in Callers : d # c => pc'[d] = pc[d]
      BY <1>1, <3>1 DEF EnterConstruction, CounterTypes
    <3>4. At(c) = from
      BY <3>3 DEF At, Loading
    <3>5. Resume(c) = from
      BY <1>1, <3>4 DEF CallInv, Resume, NoEvaluator
    <3>6. At(c)' = Resume(c)
      BY <1>3, <3>3 DEF At, Loading, Resume
    <3> QED BY <3>2, <3>3, <3>4, <3>5, <3>6
  <2>2. CASE NoteLoad(c) \/ NoteSwap(c)
    <3>1. LoadCounter(c, Resume(c)) \/ SwapCounter(c, Resume(c))
      BY <2>2 DEF NoteLoad, NoteSwap
    <3>2. Resume(c) \in Elsewhere \cap {"idle", "assemble"}
      BY DEF Resume, Elsewhere
    <3>3. CountersInv'
      BY <1>1, <3>1, <3>2, IncrementKeeps
    <3>4. /\ pc[c] \in Loading /\ pc'[c] \in Loading \cup {Resume(c)}
          /\ \A d \in Callers : d # c => pc'[d] = pc[d]
      BY <1>1, <3>1 DEF LoadCounter, SwapCounter, CounterTypes, Loading
    <3>5. At(c) = Resume(c) /\ Resume(c)' = Resume(c)
      BY <1>3, <3>4 DEF At, Resume
    <3>6. At(c)' = Resume(c)
      BY <3>4, <3>5 DEF At
    <3> QED BY <3>2, <3>3, <3>4, <3>5, <3>6 DEF Loading
  <2> QED BY <2>1, <2>2
<1>5. CellsMove
  BY <1>3 DEF CellsMove
<1>6. CallInv(c)'
  BY <1>1, <1>3, <1>4, <1>5, CallAside
<1> QED BY <1>2, <1>4, <1>6, CountersOnly

\* The two snapshots of a call.
LEMMA SnapshotKeeps ==
  ASSUME IInv, NEW c \in Callers, LoadFirst(c) \/ FinishBegins(c) \/ LoadSecond(c)
  PROVE  IInv'
<1>1. CountersInv /\ CounterTypes /\ CallInv(c)
  BY DEF IInv, CountersInv
<1>2. UNCHANGED <<prebuiltVars, delta>>
  BY DEF LoadFirst, FinishBegins, LoadSecond, LoadBefore, EndWork, LoadAfter
<1>3. UNCHANGED <<donor, cell, call, keys, pair, eval, err, given, delta>>
  BY <1>2 DEF prebuiltVars
<1>4. CountersInv' /\ \A d \in Callers : d # c => pc'[d] = pc[d]
  <2>1. CASE LoadFirst(c)
    BY <1>1, <2>1, LoadBeforeKeeps DEF LoadFirst, LoadBefore, CounterTypes, Elsewhere
  <2>2. CASE FinishBegins(c)
    <3>1. pc[c] = "end" /\ EndWork(c, "end")
      BY <2>2 DEF FinishBegins, EndWork
    <3>2. delta[c] = NoDelta
      BY <1>1, <3>1 DEF CallInv, At, Loading
    <3>3. CountersInv'
      BY <1>1, <3>1, <3>2, EndWorkKeeps DEF Elsewhere
    <3> QED BY <1>1, <3>1, <3>3 DEF EndWork, CounterTypes
  <2>3. CASE LoadSecond(c)
    BY <1>1, <2>3, LoadAfterKeeps DEF LoadSecond, LoadAfter, CounterTypes
  <2> QED BY <2>1, <2>2, <2>3
<1>5. \/ pc[c] = "snapshot" /\ pc'[c] \in {"snapshot", "consume"}
      \/ pc[c] \in {"end", "snapshot2"} /\ pc'[c] \in {"snapshot2", "delta"}
  BY <1>1 DEF LoadFirst, FinishBegins, LoadSecond, LoadBefore, EndWork, LoadAfter, CounterTypes
<1>6. At(c) = pc[c] /\ At(c)' = pc'[c]
  BY <1>5 DEF At, Loading
<1>7. CallInv(c)'
  BY <1>1, <1>3, <1>5, <1>6 DEF CallInv, Consumed
<1> QED BY <1>2, <1>4, <1>7, CountersOnly

\* A call begins with arguments of the caller's.
LEMMA CallNewKeeps ==
  ASSUME IInv, NEW c \in Callers, CallNew(c)
  PROVE  IInv'
<1>1. CountersInv /\ CounterTypes /\ PrebuiltTypeOK /\ CallInv(c) /\ BeginBracket(c)
  BY DEF IInv, CountersInv, CallNew
<1>2. CountersInv'
  BY <1>1, BeginKeeps
<1>3. PICK a \in Arguments, k \in Keys : /\ call' = [call EXCEPT ![c] = a]
                                         /\ keys' = [keys EXCEPT ![c] = k]
  BY DEF CallNew
<1>4. UNCHANGED <<donor, cell, pair, eval, err, given, delta>>
  BY <1>1 DEF CallNew, BeginBracket
<1>5. /\ a \in [carrier : Cells \cup {None}, sealed : BOOLEAN, hostile : BOOLEAN]
      /\ a.carrier # None => cell[a.carrier].issued
  BY DEF Arguments
<1>6. PrebuiltTypeOK'
  <2>1. /\ call' \in [Callers -> [carrier : Cells \cup {None}, sealed : BOOLEAN, hostile : BOOLEAN]]
        /\ keys' \in [Callers -> Keys]
    BY <1>1, <1>3, <1>5 DEF PrebuiltTypeOK
  <2> QED BY <1>1, <1>2, <1>4, <2>1, PlaceTypesNext DEF PrebuiltTypeOK
<1>7. /\ pc[c] = "idle" /\ pc'[c] = "snapshot" /\ call'[c] = a
      /\ \A d \in Callers : d # c => pc'[d] = pc[d] /\ call'[d] = call[d] /\ keys'[d] = keys[d]
  BY <1>1, <1>3 DEF BeginBracket, CounterTypes, PrebuiltTypeOK
<1>8. At(c) = "idle" /\ At(c)' = "snapshot"
  BY <1>7 DEF At, Loading
<1>9. CallInv(c)'
  BY <1>1, <1>4, <1>5, <1>7, <1>8 DEF CallInv
<1>10. CellsMove
  BY <1>4 DEF CellsMove
<1>11. \A d \in Callers : d # c => CallInv(d)'
  BY <1>4, <1>7, <1>10, OthersAside
<1>12. \A m \in Donors : Sole(m)'
  BY <1>4, SoleAside DEF IInv
<1> QED BY <1>2, <1>6, <1>9, <1>11, <1>12 DEF IInv

\* The pairs of cells, calls and evaluators have their type.
LEMMA PairFacts ==
  /\ NoPair \in PairType /\ NoEvaluator \in EvaluatorType /\ ~NoPair.held
  /\ NoEvaluator.pair = NoPair /\ NoEvaluator.keys = "empty"
  /\ \A m, n \in Matrix : Pair(m, n) \in PairType
BY DEF NoPair, NoEvaluator, PairType, EvaluatorType, Keys, Matrix, Pair

\* A new carrier: what the donors held is in its cell, or nowhere.
LEMMA NewCarrierKeeps ==
  ASSUME IInv, NEW d1 \in Matrix, NEW d2 \in Matrix, NewCarrier(d1, d2)
  PROVE  IInv'
<1>1. CountersInv /\ PrebuiltTypeOK
  BY DEF IInv
<1>2. /\ donor' = [d \in Donors |-> IF d \in {d1, d2} THEN None ELSE donor[d]]
      /\ UNCHANGED <<vars, call, keys, pair, eval, err, given>>
  BY DEF NewCarrier
<1>3. UNCHANGED <<pc, delta, call, keys, pair, eval, err, given>>
  BY <1>2 DEF vars, counterVars
<1>4. CountersInv'
  BY <1>1, <1>2, CountersStutter
<1>5. \/ cell' = cell
      \/ /\ d1 \in Donors /\ d2 \in Donors /\ d1 # d2
         /\ \E x \in Cells :
              /\ ~cell[x].issued
              /\ cell' = [cell EXCEPT ![x] = [issued |-> TRUE, pair |-> Pair(donor[d1], donor[d2])]]
  BY DEF NewCarrier, Matrix
<1>6. /\ cell' \in [Cells -> [issued : BOOLEAN, pair : PairType]]
      /\ donor' \in [Donors -> Matrix]
      /\ CellsMove
      /\ \A m \in Donors : Sole(m)'
  <2>0. donor' \in [Donors -> Matrix]
    BY <1>1, <1>2 DEF PrebuiltTypeOK, Matrix
  <2>d. /\ \A d \in Donors : d \in {d1, d2} => donor'[d] = None
        /\ \A d \in Donors : d \notin {d1, d2} => donor'[d] = donor[d]
    BY <1>2
  <2>1. CASE cell' = cell
    <3>1. ASSUME NEW m \in Donors PROVE Sole(m)'
      <4>1. Sole(m) /\ m # None
        BY Nowhere DEF IInv
      <4>2. \A d \in Donors : InDonor(m, d)' => InDonor(m, d)
        BY <2>d, <4>1 DEF InDonor
      <4> QED BY <1>3, <2>1, <4>1, <4>2 DEF Sole, InCell, InCall, InGiven
    <3> QED BY <1>1, <2>0, <2>1, <3>1 DEF PrebuiltTypeOK, CellsMove
  <2>2. ASSUME d1 \in Donors, d2 \in Donors, d1 # d2, NEW x \in Cells, ~cell[x].issued,
               cell' = [cell EXCEPT ![x] = [issued |-> TRUE, pair |-> Pair(donor[d1], donor[d2])]]
        PROVE  /\ cell' \in [Cells -> [issued : BOOLEAN, pair : PairType]]
               /\ CellsMove
               /\ \A m \in Donors : Sole(m)'
    <3>1. Pair(donor[d1], donor[d2]) \in PairType
      BY <1>1, <2>2, PairFacts DEF PrebuiltTypeOK
    <3>2. /\ cell' \in [Cells -> [issued : BOOLEAN, pair : PairType]]
          /\ cell'[x].pair = Pair(donor[d1], donor[d2])
          /\ \A y \in Cells : y # x => cell'[y] = cell[y]
      BY <1>1, <2>2, <3>1 DEF PrebuiltTypeOK
    <3>3. CellsMove
      BY <2>2, <3>2 DEF CellsMove
    <3>4. ASSUME NEW m \in Donors PROVE Sole(m)'
      <4>1. Sole(m) /\ m # None
        BY Nowhere DEF IInv
      <4>2. \A d \in Donors : InDonor(m, d)' => InDonor(m, d) /\ d \notin {d1, d2}
        BY <2>d, <4>1 DEF InDonor
      <4>3. InCell(m, x)' => InDonor(m, d1) \/ InDonor(m, d2)
        BY <3>2 DEF InCell, InPair, Pair, InDonor
      <4>4. \A y \in Cells : y # x => InCell(m, y)' = InCell(m, y)
        BY <3>2 DEF InCell
      <4>5. \A c \in Callers : InCall(m, c)' = InCall(m, c) /\ InGiven(m, c)' = InGiven(m, c)
        BY <1>3 DEF InCall, InGiven
      <4>6. CASE InDonor(m, d1) \/ InDonor(m, d2)
        <5>1. /\ \A d \in Donors : ~InDonor(m, d)'
              /\ \A y \in Cells : InCell(m, y)' => y = x
              /\ \A c \in Callers : ~InCall(m, c)' /\ ~InGiven(m, c)'
          BY <2>2, <4>1, <4>2, <4>4, <4>5, <4>6 DEF Sole
        <5> QED BY <5>1 DEF Sole
      <4>7. CASE ~(InDonor(m, d1) \/ InDonor(m, d2))
        <5>1. \A y \in Cells : InCell(m, y)' => InCell(m, y)
          BY <4>3, <4>4, <4>7
        <5> QED BY <4>1, <4>2, <4>5, <5>1 DEF Sole
      <4> QED BY <4>6, <4>7
    <3> QED BY <3>2, <3>3, <3>4
  <2> QED BY <1>5, <2>0, <2>1, <2>2
<1>7. PrebuiltTypeOK'
  BY <1>1, <1>3, <1>4, <1>6, PlaceTypesNext DEF PrebuiltTypeOK
<1>8. ASSUME NEW c \in Callers PROVE CallInv(c)'
  <2>1. At(c)' = At(c) /\ CallInv(c) /\ pc'[c] # "work"
    BY <1>3 DEF At, Resume, IInv, CallInv
  <2> QED BY <1>1, <1>3, <1>6, <2>1, CallAside
<1> QED BY <1>4, <1>6, <1>7, <1>8 DEF IInv

\* What a swap takes out of a cell.
LEMMA TakenFacts ==
  ASSUME PrebuiltTypeOK, NEW c \in Callers, CallInv(c), cell' = CellAfter(c)
  PROVE  /\ cell' \in [Cells -> [issued : BOOLEAN, pair : PairType]]
         /\ CellsMove /\ Taken(c) \in PairType
         /\ call[c].carrier # None => ~cell'[call[c].carrier].pair.held
         /\ \A m \in Donors : InPair(m, Taken(c)) =>
              call[c].carrier \in Cells /\ InCell(m, call[c].carrier)
         /\ \A m \in Donors, x \in Cells :
              InCell(m, x)' => InCell(m, x) /\ x # call[c].carrier
<1>1. CASE call[c].carrier = None
  <2>1. cell' = cell /\ Taken(c) = NoPair
    BY <1>1 DEF CellAfter, Taken
  <2> QED BY <1>1, <2>1, Nowhere, PairFacts, PrebuiltAssumption DEF PrebuiltTypeOK, CellsMove, InCell
<1>2. CASE call[c].carrier # None
  <2>1. PICK x \in Cells : x = call[c].carrier
    BY <1>2 DEF PrebuiltTypeOK
  <2>2. Taken(c) = cell[x].pair /\ cell' = [cell EXCEPT ![x].pair = NoPair]
    BY <1>2, <2>1 DEF CellAfter, Taken
  <2>3. /\ cell' \in [Cells -> [issued : BOOLEAN, pair : PairType]] /\ Taken(c) \in PairType
        /\ cell'[x].pair = NoPair /\ cell'[x].issued = cell[x].issued
        /\ \A y \in Cells : y # x => cell'[y] = cell[y]
    BY <2>2, PairFacts DEF PrebuiltTypeOK
  <2>4. CellsMove /\ ~cell'[x].pair.held
    BY <2>3, PairFacts DEF CellsMove
  <2>5. \A m \in Donors, y \in Cells : InCell(m, y)' => InCell(m, y) /\ y # x
    BY <2>3, Nowhere DEF InCell
  <2> QED BY <2>1, <2>2, <2>3, <2>4, <2>5 DEF InCell
<1> QED BY <1>1, <1>2

\* The call takes its carrier's pair and its keys, whatever it finds of them.
LEMMA ConsumeKeeps ==
  ASSUME IInv, NEW c \in Callers, Consume(c)
  PROVE  IInv'
<1>1. CountersInv /\ CounterTypes /\ PrebuiltTypeOK /\ CallInv(c)
  BY DEF IInv, CountersInv
<1>2. /\ pc[c] = "consume" /\ cell' = CellAfter(c) /\ keys' = [keys EXCEPT ![c] = "empty"]
      /\ UNCHANGED <<counterVars, donor, call, given>>
  BY DEF Consume
<1>3. delta' = delta
  BY <1>2 DEF counterVars
<1>4. /\ cell' \in [Cells -> [issued : BOOLEAN, pair : PairType]]
      /\ CellsMove /\ Taken(c) \in PairType
      /\ call[c].carrier # None => ~cell'[call[c].carrier].pair.held
      /\ \A m \in Donors : InPair(m, Taken(c)) =>
           call[c].carrier \in Cells /\ InCell(m, call[c].carrier)
      /\ \A m \in Donors, x \in Cells : InCell(m, x)' => InCell(m, x) /\ x # call[c].carrier
  BY <1>1, <1>2, TakenFacts
<1>5. /\ At(c) = "consume" /\ eval[c] = NoEvaluator /\ pair[c] = NoPair
      /\ given[c] = NoEvaluator /\ delta[c] = NoDelta
  BY <1>1, <1>2 DEF CallInv, At, Loading
<1>6. /\ keys' \in [Callers -> Keys] /\ keys'[c] = "empty"
      /\ \A d \in Callers : d # c => keys'[d] = keys[d]
  BY <1>1, <1>2 DEF PrebuiltTypeOK, Keys
<1>7. Consumed(c)'
  BY <1>2, <1>4, <1>6 DEF Consumed
<1>8. call[c].carrier # None => cell'[call[c].carrier].issued
  BY <1>1, <1>4 DEF CallInv, CellsMove, PrebuiltTypeOK
<1>9. CASE /\ err' = [err EXCEPT ![c] = TRUE] /\ pc' = [pc EXCEPT ![c] = "end"]
           /\ UNCHANGED <<pair, eval>>
  <2>1. CountersInv'
    BY <1>1, <1>2, <1>9, PlaceKeeps DEF Elsewhere
  <2>2. /\ err' \in [Callers -> BOOLEAN] /\ err'[c]
        /\ pc'[c] = "end" /\ \A d \in Callers : d # c => pc'[d] = pc[d] /\ err'[d] = err[d]
    BY <1>1, <1>9 DEF PrebuiltTypeOK, CounterTypes
  <2>3. PrebuiltTypeOK'
    BY <1>1, <1>2, <1>4, <1>6, <1>9, <2>1, <2>2, PlaceTypesNext DEF PrebuiltTypeOK
  <2>4. At(c)' = "end"
    BY <2>2 DEF At, Loading
  <2>5. CallInv(c)'
    BY <1>2, <1>3, <1>5, <1>7, <1>8, <1>9, <2>2, <2>4 DEF CallInv
  <2>6. \A d \in Callers : d # c => CallInv(d)'
    BY <1>2, <1>3, <1>4, <1>6, <1>9, <2>2, OthersAside
  <2>7. ASSUME NEW m \in Donors PROVE Sole(m)'
    <3>1. Sole(m) /\ \A x \in Cells : InCell(m, x)' => InCell(m, x)
      BY <1>4 DEF IInv
    <3> QED BY <1>2, <1>9, <3>1 DEF Sole, InDonor, InCall, InGiven
  <2> QED BY <2>1, <2>3, <2>5, <2>6, <2>7 DEF IInv
<1>10. CASE /\ HasKeys(c) /\ Taken(c).held
            /\ pair' = [pair EXCEPT ![c] = Taken(c)]
            /\ eval' = [eval EXCEPT ![c].keys = keys[c]]
            /\ pc' = [pc EXCEPT ![c] = "assemble"]
            /\ UNCHANGED err
  <2>1. CountersInv'
    BY <1>1, <1>2, <1>10, PlaceKeeps DEF Elsewhere
  <2>2. /\ pair' \in [Callers -> PairType] /\ pair'[c] = Taken(c)
        /\ pc'[c] = "assemble"
        /\ \A d \in Callers : d # c => pc'[d] = pc[d] /\ pair'[d] = pair[d]
    BY <1>1, <1>4, <1>10 DEF PrebuiltTypeOK, CounterTypes
  <2>3. /\ eval' \in [Callers -> EvaluatorType]
        /\ eval'[c].keys = keys[c] /\ eval'[c].pair = NoPair
        /\ \A d \in Callers : d # c => eval'[d] = eval[d]
    <3>1. keys[c] \in Keys /\ eval \in [Callers -> EvaluatorType]
      BY <1>1 DEF PrebuiltTypeOK
    <3> QED BY <1>5, <1>10, <3>1, PairFacts DEF EvaluatorType
  <2>4. PrebuiltTypeOK'
    BY <1>1, <1>2, <1>4, <1>6, <1>10, <2>1, <2>2, <2>3, PlaceTypesNext DEF PrebuiltTypeOK
  <2>5. At(c)' = "assemble"
    BY <2>2 DEF At, Loading
  <2>6. CallInv(c)'
    BY <1>2, <1>3, <1>5, <1>7, <1>8, <1>10, <2>2, <2>3, <2>5 DEF CallInv, HasKeys
  <2>7. \A d \in Callers : d # c => CallInv(d)'
    BY <1>2, <1>3, <1>4, <1>6, <1>10, <2>2, <2>3, OthersAside
  <2>8. ASSUME NEW m \in Donors PROVE Sole(m)'
    <3>1. Sole(m) /\ ~InPair(m, NoPair)
      BY Nowhere DEF IInv
    <3>2. /\ InCall(m, c)' <=> InPair(m, Taken(c))
          /\ ~InCall(m, c)
          /\ \A d \in Callers : d # c => InCall(m, d)' = InCall(m, d)
      BY <1>5, <2>2, <2>3, <3>1, PairFacts DEF InCall
    <3>3. /\ \A d \in Donors : InDonor(m, d)' = InDonor(m, d)
          /\ \A d \in Callers : InGiven(m, d)' = InGiven(m, d)
      BY <1>2 DEF InDonor, InGiven
    <3>4. CASE InPair(m, Taken(c))
      <4>1. PICK x \in Cells : x = call[c].carrier /\ InCell(m, x)
        BY <1>4, <3>4
      <4>2. /\ \A d \in Donors : ~InDonor(m, d)
            /\ \A y \in Cells : ~InCell(m, y)'
            /\ \A d \in Callers : ~InCall(m, d) /\ ~InGiven(m, d)
        BY <1>4, <3>1, <4>1 DEF Sole
      <4> QED BY <3>2, <3>3, <4>2 DEF Sole
    <3>5. CASE ~InPair(m, Taken(c))
      <4>1. \A x \in Cells : InCell(m, x)' => InCell(m, x)
        BY <1>4
      <4>2. \A d \in Callers : InCall(m, d)' => InCall(m, d)
        BY <3>2, <3>5
      <4> QED BY <3>1, <3>3, <4>1, <4>2 DEF Sole
    <3> QED BY <3>4, <3>5
  <2> QED BY <2>1, <2>4, <2>6, <2>7, <2>8 DEF IInv
<1> QED BY <1>9, <1>10 DEF Consume

\* The pair goes into the evaluator or is dropped, and an assembly without an
\* error has checked what it was given.
LEMMA AssembleKeeps ==
  ASSUME IInv, NEW c \in Callers, Assemble(c) \/ AssemblePanics(c)
  PROVE  IInv'
<1>1. CountersInv /\ CounterTypes /\ PrebuiltTypeOK /\ CallInv(c)
  BY DEF IInv, CountersInv
<1>2. /\ pc[c] = "assemble" /\ pc' = [pc EXCEPT ![c] = "end"] /\ pair' = [pair EXCEPT ![c] = NoPair]
      /\ UNCHANGED <<counterVars, donor, cell, call, keys, given>>
  BY DEF Assemble, AssemblePanics
<1>3. delta' = delta
  BY <1>2 DEF counterVars
<1>4. At(c) = "assemble" /\ given[c] = NoEvaluator /\ delta[c] = NoDelta /\ Consumed(c)
  BY <1>1, <1>2 DEF CallInv, At, Loading
<1>5. /\ eval' \in [Callers -> EvaluatorType] /\ err' \in [Callers -> BOOLEAN]
      /\ \A d \in Callers : d # c => eval'[d] = eval[d] /\ err'[d] = err[d]
      /\ eval'[c].pair \in {pair[c], NoPair}
      /\ ~err'[c] => Checked(call[c], eval'[c])
  <2>0. /\ eval \in [Callers -> EvaluatorType] /\ err \in [Callers -> BOOLEAN]
        /\ eval[c] \in EvaluatorType /\ pair[c] \in PairType
        /\ call[c].sealed \in BOOLEAN /\ call[c].hostile \in BOOLEAN
    BY <1>1 DEF PrebuiltTypeOK
  <2>1. CASE AssemblePanics(c)
    BY <2>0, <2>1, PairFacts DEF AssemblePanics
  <2>2. CASE Assemble(c)
    <3> DEFINE built == call[c].sealed /\ Fits(c)
    <3>1. /\ eval' = [eval EXCEPT ![c] = IF built THEN [eval[c] EXCEPT !.pair = pair[c]] ELSE NoEvaluator]
          /\ err' = [err EXCEPT ![c] = ~built \/ eval[c].keys # "complete"]
      BY <2>2 DEF Assemble
    <3>2. built \in BOOLEAN
      BY <2>0 DEF Fits
    <3>3. [eval[c] EXCEPT !.pair = pair[c]] \in EvaluatorType
      BY <2>0 DEF EvaluatorType
    <3>4. CASE built
      <4>1. /\ eval' = [eval EXCEPT ![c] = [eval[c] EXCEPT !.pair = pair[c]]]
            /\ err' = [err EXCEPT ![c] = eval[c].keys # "complete"]
        BY <3>1, <3>4
      <4>2. /\ eval'[c].pair = pair[c] /\ eval'[c].keys = eval[c].keys
            /\ err'[c] <=> eval[c].keys # "complete"
        BY <2>0, <4>1 DEF EvaluatorType
      <4>3. ~err'[c] => Checked(call[c], eval'[c])
        BY <3>4, <4>2 DEF Checked, Fits
      <4> QED BY <2>0, <3>3, <4>1, <4>2, <4>3
    <3>5. CASE ~built
      <4>1. eval' = [eval EXCEPT ![c] = NoEvaluator] /\ err' = [err EXCEPT ![c] = TRUE]
        BY <3>1, <3>5
      <4> QED BY <2>0, <4>1, PairFacts
    <3> QED BY <3>4, <3>5
  <2> QED BY <2>1, <2>2
<1>6. /\ pair' \in [Callers -> PairType] /\ pair'[c] = NoPair
      /\ pc'[c] = "end"
      /\ \A d \in Callers : d # c => pc'[d] = pc[d] /\ pair'[d] = pair[d]
  BY <1>1, <1>2, PairFacts DEF PrebuiltTypeOK, CounterTypes
<1>7. CountersInv'
  BY <1>1, <1>2, PlaceKeeps DEF Elsewhere
<1>8. PrebuiltTypeOK'
  BY <1>1, <1>2, <1>5, <1>6, <1>7, PlaceTypesNext DEF PrebuiltTypeOK
<1>9. At(c)' = "end"
  BY <1>6 DEF At, Loading
<1>10. CallInv(c)'
  BY <1>1, <1>2, <1>3, <1>4, <1>5, <1>6, <1>9 DEF CallInv, Consumed
<1>11. CellsMove
  BY <1>2 DEF CellsMove
<1>12. \A d \in Callers : d # c => CallInv(d)'
  BY <1>2, <1>3, <1>5, <1>6, <1>11, OthersAside
<1>13. ASSUME NEW m \in Donors PROVE Sole(m)'
  <2>1. Sole(m) /\ ~InPair(m, NoPair)
    BY Nowhere DEF IInv
  <2>2. \A d \in Callers : InCall(m, d)' => InCall(m, d)
    BY <1>5, <1>6, <2>1 DEF InCall
  <2> QED BY <1>2, <2>1, <2>2 DEF Sole, InDonor, InCell, InGiven
<1> QED BY <1>7, <1>8, <1>10, <1>12, <1>13 DEF IInv

\* The evaluator is given back, or dropped with its matrices.
LEMMA FinishKeeps ==
  ASSUME IInv, NEW c \in Callers, Finish(c)
  PROVE  IInv'
<1>1. CountersInv /\ CounterTypes /\ PrebuiltTypeOK /\ CallInv(c) /\ TakeDelta(c, "returned")
  BY DEF IInv, CountersInv, Finish
<1>2. CountersInv'
  BY <1>1, TakeKeeps DEF Elsewhere
<1>3. /\ given' = [given EXCEPT ![c] = Given(c, delta'[c])]
      /\ err' = [err EXCEPT ![c] = err[c] \/ Constructed(delta'[c])]
      /\ eval' = [eval EXCEPT ![c] = NoEvaluator]
      /\ UNCHANGED <<donor, cell, call, keys, pair>>
  BY DEF Finish
<1>4. /\ pc[c] = "delta" /\ pc'[c] = "returned"
      /\ \A d \in Callers : d # c => pc'[d] = pc[d] /\ delta'[d] = delta[d]
  BY <1>1 DEF TakeDelta, CounterTypes
<1>5. At(c) = "delta" /\ At(c)' = "returned"
  BY <1>4 DEF At, Loading
<1>6. /\ Given(c, delta'[c]) \in {eval[c], NoEvaluator}
      /\ Given(c, delta'[c]) # NoEvaluator =>
           /\ Given(c, delta'[c]) = eval[c] /\ ~err[c]
           /\ delta'[c].status = "accepted" /\ delta'[c].by = Zero
  BY DEF Given, Constructed
<1>7. /\ given' \in [Callers -> EvaluatorType] /\ given'[c] = Given(c, delta'[c])
      /\ eval' \in [Callers -> EvaluatorType] /\ eval'[c] = NoEvaluator
      /\ err' \in [Callers -> BOOLEAN]
      /\ \A d \in Callers : d # c => given'[d] = given[d] /\ eval'[d] = eval[d] /\ err'[d] = err[d]
  <2>1. err[c] \in BOOLEAN /\ Constructed(delta'[c]) \in BOOLEAN /\ eval[c] \in EvaluatorType
    BY <1>1 DEF PrebuiltTypeOK, Constructed
  <2>2. (err[c] \/ Constructed(delta'[c])) \in BOOLEAN
    OBVIOUS
  <2>3. err' \in [Callers -> BOOLEAN] /\ \A d \in Callers : d # c => err'[d] = err[d]
    BY <1>1, <1>3, <2>2 DEF PrebuiltTypeOK
  <2>4. given' \in [Callers -> EvaluatorType] /\ eval' \in [Callers -> EvaluatorType]
    BY <1>1, <1>3, <1>6, <2>1, PairFacts DEF PrebuiltTypeOK
  <2>5. /\ given'[c] = Given(c, delta'[c]) /\ eval'[c] = NoEvaluator
        /\ \A d \in Callers : d # c => given'[d] = given[d] /\ eval'[d] = eval[d]
    BY <1>1, <1>3 DEF PrebuiltTypeOK
  <2> QED BY <2>3, <2>4, <2>5
<1>8. PrebuiltTypeOK'
  BY <1>1, <1>2, <1>3, <1>7, PlaceTypesNext DEF PrebuiltTypeOK
<1>9. CallInv(c)'
  <2>1. pair[c] = NoPair /\ Consumed(c)' /\ (~err[c] => Checked(call[c], eval[c]))
    BY <1>1, <1>3, <1>5 DEF CallInv, Consumed
  <2>2. given'[c] # NoEvaluator => /\ Checked(call[c], given'[c])
                                   /\ delta'[c].status = "accepted" /\ delta'[c].by = Zero
    BY <1>6, <1>7, <2>1
  <2>3. call'[c].carrier # None => cell'[call'[c].carrier].issued
    BY <1>1, <1>3 DEF CallInv
  <2> QED BY <1>3, <1>4, <1>5, <1>7, <2>1, <2>2, <2>3 DEF CallInv
<1>10. CellsMove
  BY <1>3 DEF CellsMove
<1>11. \A d \in Callers : d # c => CallInv(d)'
  BY <1>3, <1>4, <1>7, <1>10, OthersAside
<1>12. ASSUME NEW m \in Donors PROVE Sole(m)'
  <2>1. Sole(m) /\ ~InPair(m, NoPair)
    BY Nowhere DEF IInv
  <2>2. /\ ~InCall(m, c)'
        /\ InGiven(m, c)' => InCall(m, c)
        /\ \A d \in Callers : d # c => InCall(m, d)' = InCall(m, d) /\ InGiven(m, d)' = InGiven(m, d)
    <3>1. pair[c] = NoPair
      BY <1>1, <1>5 DEF CallInv
    <3> QED BY <1>3, <1>6, <1>7, <2>1, <3>1, PairFacts DEF InCall, InGiven
  <2>3. /\ \A d \in Donors : InDonor(m, d)' = InDonor(m, d)
        /\ \A x \in Cells : InCell(m, x)' = InCell(m, x)
    BY <1>3 DEF InDonor, InCell
  <2> QED BY <2>1, <2>2, <2>3 DEF Sole
<1> QED BY <1>2, <1>8, <1>9, <1>11, <1>12 DEF IInv

-----------------------------------------------------------------------------
(* The prebuilt evaluator. *)

LEMMA InitIInv == PrebuiltInit => IInv
<1> SUFFICES ASSUME PrebuiltInit PROVE IInv
  OBVIOUS
<1>1. CountersInv /\ Init
  BY InitCounters DEF PrebuiltInit
<1>2. PrebuiltTypeOK
  <2>1. Unissued \in [issued : BOOLEAN, pair : PairType]
    BY PairFacts DEF Unissued
  <2>2. NoCall \in [carrier : Cells \cup {None}, sealed : BOOLEAN, hostile : BOOLEAN]
    BY DEF NoCall
  <2> QED BY <1>1, <2>1, <2>2, PairFacts, PlaceTypes DEF PrebuiltInit, PrebuiltTypeOK, Matrix, Keys
<1>3. ASSUME NEW c \in Callers PROVE CallInv(c)
  <2>1. /\ pc[c] = "idle" /\ delta[c] = NoDelta /\ eval[c] = NoEvaluator /\ pair[c] = NoPair
        /\ given[c] = NoEvaluator /\ call[c].carrier = None
    BY <1>1 DEF PrebuiltInit, Init, NoCall
  <2>2. At(c) = "idle"
    BY <2>1 DEF At, Loading
  <2> QED BY <2>1, <2>2 DEF CallInv
<1>4. ASSUME NEW m \in Donors PROVE Sole(m)
  <2>1. /\ \A d \in Donors : InDonor(m, d) => d = m
        /\ \A x \in Cells : ~InCell(m, x)
        /\ \A c \in Callers : ~InCall(m, c) /\ ~InGiven(m, c)
    BY Nowhere, PairFacts DEF PrebuiltInit, InDonor, InCell, InCall, InGiven, Unissued
  <2> QED BY <2>1 DEF Sole
<1> QED BY <1>1, <1>2, <1>3, <1>4 DEF IInv

LEMMA NextIInv == IInv /\ [PrebuiltNext]_allVars => IInv'
<1> SUFFICES ASSUME IInv, [PrebuiltNext]_allVars PROVE IInv'
  OBVIOUS
<1>1. ASSUME NEW d1 \in Matrix, NEW d2 \in Matrix, NewCarrier(d1, d2) PROVE IInv'
  BY <1>1, NewCarrierKeeps
<1>2. ASSUME NEW c \in Callers, CallNew(c) \/ CallStep(c) \/ AssemblePanics(c) PROVE IInv'
  BY <1>2, CallNewKeeps, SnapshotKeeps, ConsumeKeeps, AssembleKeeps, FinishKeeps DEF CallStep
<1>3. ASSUME NEW c \in Callers,
             \/ NoteLoad(c) \/ NoteSwap(c)
             \/ \E k \in Kinds : SourceConstructs(c, k) \/ OtherConstruction(c, k)
      PROVE  IInv'
  BY <1>3, ConstructionKeeps
<1>4. CASE UNCHANGED allVars
  <2>1. UNCHANGED vars /\ UNCHANGED prebuiltVars
    BY <1>4 DEF allVars
  <2>2. UNCHANGED <<counter, pc, delta, donor, cell, call, keys, pair, eval, err, given>>
    BY <2>1 DEF vars, counterVars, prebuiltVars
  <2>3. CountersInv'
    BY <2>1, CountersStutter DEF IInv
  <2>4. PrebuiltTypeOK' /\ \A m \in Donors : Sole(m)'
    BY <2>2, SoleAside DEF IInv, PrebuiltTypeOK
  <2>5. \A c \in Callers : CallInv(c)'
    BY <2>2 DEF IInv, CallInv, At, Resume, Consumed
  <2> QED BY <2>3, <2>4, <2>5 DEF IInv
<1> QED BY <1>1, <1>2, <1>3, <1>4 DEF PrebuiltNext

\* The inductive invariant of the prebuilt evaluator.
THEOREM Prebuilt == PrebuiltSpec => []IInv
BY InitIInv, NextIInv, PTL DEF PrebuiltSpec

\* A set whose members are all the same one has at most one.
LEMMA AtMostOne ==
  ASSUME NEW S, \A x, y \in S : x = y
  PROVE  Cardinality(S) <= 1
<1>1. CASE S = {}
  BY <1>1, FS_EmptySet
<1>2. CASE S # {}
  <2>1. PICK x : x \in S
    BY <1>2
  <2>2. S = {x}
    BY <2>1
  <2> QED BY <2>2, FS_Singleton
<1> QED BY <1>1, <1>2

LEMMA SoleHolder == ASSUME NEW m, Sole(m) PROVE Cardinality(Holders(m)) <= 1
<1> SUFFICES ASSUME NEW g \in Holders(m), NEW h \in Holders(m) PROVE g = h
  BY AtMostOne
<1>1. \A p \in Holders(m) :
        \/ \E d \in Donors : p = <<"donor", d>> /\ InDonor(m, d)
        \/ \E x \in Cells : p = <<"cell", x>> /\ InCell(m, x)
        \/ \E c \in Callers : p = <<"call", c>> /\ InCall(m, c)
        \/ \E c \in Callers : p = <<"given", c>> /\ InGiven(m, c)
  BY DEF Holders, InDonor, InCell, InCall, InGiven
<1>2. CASE \E d \in Donors : g = <<"donor", d>> /\ InDonor(m, d)
  BY <1>1, <1>2 DEF Sole
<1>3. CASE \E x \in Cells : g = <<"cell", x>> /\ InCell(m, x)
  BY <1>1, <1>3 DEF Sole
<1>4. CASE \E c \in Callers : g = <<"call", c>> /\ InCall(m, c)
  BY <1>1, <1>4 DEF Sole
<1>5. CASE \E c \in Callers : g = <<"given", c>> /\ InGiven(m, c)
  BY <1>1, <1>5 DEF Sole
<1> QED BY <1>1, <1>2, <1>3, <1>4, <1>5

\* Whatever copies of whatever carriers any number of calls race with, a matrix
\* has one holder, and a call that returned has used up its carrier and its keys
\* (prebuilt_evaluator.go:15, 63, 105).
THEOREM Moved == PrebuiltSpec => []MovedOnce
<1>1. IInv => MovedOnce
  <2> SUFFICES ASSUME IInv PROVE MovedOnce
    OBVIOUS
  <2>1. OneOwner
    BY SoleHolder DEF IInv, OneOwner
  <2>2. ConsumedOnReturn
    BY DEF IInv, CallInv, At, Loading, Consumed, ConsumedOnReturn
  <2> QED BY <2>1, <2>2 DEF MovedOnce
<1> QED BY Prebuilt, <1>1, PTL

\* An evaluator is given back only checked, and only when nothing was constructed
\* in its bracket, in any goroutine, nor could have been behind a saturated
\* counter (prebuilt_evaluator.go:167, construction_counters.go:59).
THEOREM GivenBack == PrebuiltSpec => []GivenIsSound
<1>1. IInv => GivenIsSound
  <2> SUFFICES ASSUME IInv, NEW c \in Callers, given[c] # NoEvaluator
               PROVE  /\ Checked(call[c], given[c])
                      /\ \A k \in Kinds : /\ mark[c].noted2[k] <= mark[c].begun[k]
                                          /\ mark[c].noted2[k] < MaxCounter
    BY DEF GivenIsSound, GivenIsChecked, NothingConstructed, SaturatedGivesNothing, Checked
  <2>1. Checked(call[c], given[c]) /\ delta[c].status = "accepted" /\ delta[c].by = Zero
    BY DEF IInv, CallInv
  <2>2. \A k \in Kinds : /\ mark[c].noted2[k] - mark[c].begun[k] <= delta[c].by[k]
                         /\ mark[c].noted2[k] < MaxCounter
    BY <2>1 DEF IInv, CountersInv, BracketInv
  <2>3. \A k \in Kinds : mark[c].noted2[k] \in Nat /\ mark[c].begun[k] \in Nat
    BY DEF IInv, CountersInv, CounterTypes, Counts
  <2> QED BY <2>1, <2>2, <2>3, CounterFacts
<1> QED BY Prebuilt, <1>1, PTL

\* The difference a call is judged by is worth what it is worth of two snapshots
\* anywhere (construction_counters.go:59).
THEOREM PrebuiltBound == PrebuiltSpec => []DeltaBounds
<1>1. IInv => DeltaBounds
  BY BoundsHold DEF IInv
<1> QED BY Prebuilt, <1>1, PTL
=============================================================================
