---------------------------- MODULE ConstructionCounters ----------------------------
(***************************************************************************)
(* The process-wide DFT construction counters of                           *)
(* lattigo/circuits/ckks/dft/construction_counters.go.                     *)
(*                                                                         *)
(* Every public construction entry adds one to a saturating atomic counter *)
(* with a load and a compare-and-swap; a caller brackets its work with two *)
(* snapshots, each of which loads the counters one after the other, and    *)
(* asks for the difference.  A snapshot is not atomic: what its difference *)
(* is worth is what DeltaBounds says.                                      *)
(***************************************************************************)
EXTENDS Integers

CONSTANTS
  Callers,     \* goroutines
  KindCount,   \* number of counters; the code has four
  MaxCounter,  \* stands for ^uint64(0), where a counter saturates
  MaxEntries   \* bound of a run: constructions entered of each kind

ASSUME CounterAssumption ==
  /\ KindCount \in Nat \ {0}
  /\ MaxCounter \in Nat \ {0}
  /\ MaxEntries \in [1 .. KindCount -> Nat]

(* The kinds in the order in which a snapshot loads them. *)
Kinds == 1 .. KindCount

VARIABLES
  counter,  \* counter[k]: the atomic counter of kind k
  pc,       \* pc[c]: where caller c is
  kind,     \* kind[c]: the counter a construction of c increments
  loaded,   \* loaded[c]: the value its increment loop has loaded
  pos,      \* pos[c]: the counter its snapshot loads next
  before,   \* before[c]: first snapshot
  after,    \* after[c]: second snapshot
  delta,    \* delta[c]: what Delta returned, NoDelta before
  entered,  \* history: constructions entered, per kind
  counted,  \* history: constructions whose entry has been noted, per kind
  mark      \* history: counts at the ends of the two snapshots of a caller

counterVars == <<counter, kind, loaded, pos, before, after, delta, entered, counted, mark>>
vars == <<pc, counterVars>>

Zero == [k \in Kinds |-> 0]

(* What Delta returns: an error, or the differences. *)
Refused(why) == [status |-> why, by |-> Zero]
Accepted(by) == [status |-> "accepted", by |-> by]
NoDelta == Refused("none")

Init ==
  /\ counter = Zero
  /\ pc = [c \in Callers |-> "idle"]
  /\ kind = [c \in Callers |-> 1]
  /\ loaded = [c \in Callers |-> 0]
  /\ pos = [c \in Callers |-> 1]
  /\ before = [c \in Callers |-> Zero]
  /\ after = [c \in Callers |-> Zero]
  /\ delta = [c \in Callers |-> NoDelta]
  /\ entered = Zero
  /\ counted = Zero
  /\ mark = [c \in Callers |-> [noted |-> Zero, begun |-> Zero, noted2 |-> Zero, begun2 |-> Zero]]

-----------------------------------------------------------------------------
(* A construction entry. *)

(* A public construction entry calls its note function. *)
EnterConstruction(c, k, from) ==
  /\ pc[c] = from
  /\ entered[k] < MaxEntries[k]
  /\ pc' = [pc EXCEPT ![c] = "load"]
  /\ kind' = [kind EXCEPT ![c] = k]
  /\ entered' = [entered EXCEPT ![k] = @ + 1]
  /\ UNCHANGED <<counter, loaded, pos, before, after, delta, counted, mark>>

(* The locals of an increment end with it. *)
Forget(c) == kind' = [kind EXCEPT ![c] = 1] /\ loaded' = [loaded EXCEPT ![c] = 0]

(* Fault: the increment loop does not look for the maximum. *)
FaultLoadCounter(c, to) ==
  /\ pc[c] = "load"
  /\ pc' = [pc EXCEPT ![c] = "cas"]
  /\ loaded' = [loaded EXCEPT ![c] = counter[kind[c]]]
  /\ UNCHANGED <<counter, counted, kind, pos, before, after, delta, entered, mark>>

(* The load of incrementMatrixConstructionCounter; a saturated counter stays. *)
LoadCounter(c, to) ==
  /\ pc[c] = "load"
  /\ \/ /\ counter[kind[c]] = MaxCounter
        /\ pc' = [pc EXCEPT ![c] = to]
        /\ counted' = [counted EXCEPT ![kind[c]] = @ + 1]
        /\ Forget(c)
     \/ /\ counter[kind[c]] # MaxCounter
        /\ pc' = [pc EXCEPT ![c] = "cas"]
        /\ loaded' = [loaded EXCEPT ![c] = counter[kind[c]]]
        /\ UNCHANGED <<counted, kind>>
  /\ UNCHANGED <<counter, pos, before, after, delta, entered, mark>>

(* Fault: the increment stores what it computed without comparing. *)
FaultSwapCounter(c, to) ==
  /\ pc[c] = "cas"
  /\ counter' = [counter EXCEPT ![kind[c]] = loaded[c] + 1]
  /\ counted' = [counted EXCEPT ![kind[c]] = @ + 1]
  /\ pc' = [pc EXCEPT ![c] = to]
  /\ Forget(c)
  /\ UNCHANGED <<pos, before, after, delta, entered, mark>>

(* Fault: a lost compare-and-swap is tried again with the value it lost with. *)
FaultStaleSwap(c, to) ==
  /\ pc[c] = "cas"
  /\ counter[kind[c]] = loaded[c]
  /\ counter' = [counter EXCEPT ![kind[c]] = loaded[c] + 1]
  /\ counted' = [counted EXCEPT ![kind[c]] = @ + 1]
  /\ pc' = [pc EXCEPT ![c] = to]
  /\ Forget(c)
  /\ UNCHANGED <<pos, before, after, delta, entered, mark>>

(* Its compare-and-swap; a lost one loads again. *)
SwapCounter(c, to) ==
  /\ pc[c] = "cas"
  /\ \/ /\ counter[kind[c]] = loaded[c]
        /\ counter' = [counter EXCEPT ![kind[c]] = loaded[c] + 1]
        /\ counted' = [counted EXCEPT ![kind[c]] = @ + 1]
        /\ pc' = [pc EXCEPT ![c] = to]
        /\ Forget(c)
     \/ /\ counter[kind[c]] # loaded[c]
        /\ pc' = [pc EXCEPT ![c] = "load"]
        /\ UNCHANGED <<counter, counted, kind, loaded>>
  /\ UNCHANGED <<pos, before, after, delta, entered, mark>>

-----------------------------------------------------------------------------
(* Snapshots and their difference. *)

(* In a run each caller brackets one piece of work. *)
BeginBracket(c) ==
  /\ pc[c] = "idle"
  /\ delta[c] = NoDelta
  /\ pc' = [pc EXCEPT ![c] = "snapshot"]
  /\ pos' = [pos EXCEPT ![c] = 1]
  /\ mark' = [mark EXCEPT ![c].noted = counted]
  /\ UNCHANGED <<counter, kind, loaded, before, after, delta, entered, counted>>

(* One load of the first snapshot; after the last the caller goes to work. *)
LoadBefore(c, to) ==
  /\ pc[c] = "snapshot"
  /\ before' = [before EXCEPT ![c][pos[c]] = counter[pos[c]]]
  /\ \/ /\ pos[c] < KindCount
        /\ pos' = [pos EXCEPT ![c] = @ + 1]
        /\ UNCHANGED <<pc, mark>>
     \/ /\ pos[c] = KindCount
        /\ pc' = [pc EXCEPT ![c] = to]
        /\ mark' = [mark EXCEPT ![c].begun = entered]
        /\ UNCHANGED pos
  /\ UNCHANGED <<counter, kind, loaded, after, delta, entered, counted>>

EndWork(c, from) ==
  /\ pc[c] = from
  /\ pc' = [pc EXCEPT ![c] = "snapshot2"]
  /\ pos' = [pos EXCEPT ![c] = 1]
  /\ mark' = [mark EXCEPT ![c].noted2 = counted]
  /\ UNCHANGED <<counter, kind, loaded, before, after, delta, entered, counted>>

LoadAfter(c) ==
  /\ pc[c] = "snapshot2"
  /\ after' = [after EXCEPT ![c][pos[c]] = counter[pos[c]]]
  /\ \/ /\ pos[c] < KindCount
        /\ pos' = [pos EXCEPT ![c] = @ + 1]
        /\ UNCHANGED <<pc, mark>>
     \/ /\ pos[c] = KindCount
        /\ pc' = [pc EXCEPT ![c] = "delta"]
        /\ mark' = [mark EXCEPT ![c].begun2 = entered]
        /\ UNCHANGED pos
  /\ UNCHANGED <<counter, kind, loaded, before, delta, entered, counted>>

(* Fault: the guard compares the snapshots the wrong way round. *)
FaultDelta(new, old) ==
  IF \E k \in Kinds : new[k] = MaxCounter \/ old[k] = MaxCounter THEN Refused("saturated")
  ELSE IF \E k \in Kinds : old[k] < new[k] THEN Refused("nonMonotonic")
  ELSE Accepted([k \in Kinds |-> new[k] - old[k]])

(* MatrixConstructionCounters.Delta of a pair of snapshots. *)
Delta(new, old) ==
  IF \E k \in Kinds : new[k] = MaxCounter \/ old[k] = MaxCounter THEN Refused("saturated")
  ELSE IF \E k \in Kinds : new[k] < old[k] THEN Refused("nonMonotonic")
  ELSE Accepted([k \in Kinds |-> new[k] - old[k]])

TakeDelta(c, to) ==
  /\ pc[c] = "delta"
  /\ pc' = [pc EXCEPT ![c] = to]
  /\ delta' = [delta EXCEPT ![c] = Delta(after[c], before[c])]
  /\ before' = [before EXCEPT ![c] = Zero]
  /\ after' = [after EXCEPT ![c] = Zero]
  /\ pos' = [pos EXCEPT ![c] = 1]
  /\ UNCHANGED <<counter, kind, loaded, entered, counted, mark>>

Next ==
  \E c \in Callers :
    \/ \E k \in Kinds : EnterConstruction(c, k, "idle")
    \/ LoadCounter(c, "idle")
    \/ SwapCounter(c, "idle")
    \/ BeginBracket(c)
    \/ LoadBefore(c, "work")
    \/ EndWork(c, "work")
    \/ LoadAfter(c)
    \/ TakeDelta(c, "idle")

(* A goroutine inside the counters' functions keeps running.  The increment
   loop as a whole is lock-free: its fairness is that of each step. *)
Fairness ==
  \A c \in Callers :
    /\ WF_vars(LoadCounter(c, "idle"))
    /\ WF_vars(SwapCounter(c, "idle"))
    /\ WF_vars(LoadBefore(c, "work"))
    /\ WF_vars(EndWork(c, "work"))
    /\ WF_vars(LoadAfter(c))
    /\ WF_vars(TakeDelta(c, "idle"))

Spec == Init /\ [][Next]_vars /\ Fairness

-----------------------------------------------------------------------------
(* Properties. *)

Location == {"idle", "load", "cas", "snapshot", "work", "snapshot2", "delta"}

Counts == [Kinds -> Nat]

(* Every variable has its type and no counter passes its maximum
   (construction_counters.go:101). *)
TypeOK ==
  /\ counter \in [Kinds -> 0 .. MaxCounter]
  /\ pc \in [Callers -> Location]
  /\ kind \in [Callers -> Kinds]
  /\ loaded \in [Callers -> 0 .. MaxCounter]
  /\ pos \in [Callers -> Kinds]
  /\ before \in [Callers -> [Kinds -> 0 .. MaxCounter]]
  /\ after \in [Callers -> [Kinds -> 0 .. MaxCounter]]
  /\ delta \in [Callers -> [status : {"none", "saturated", "nonMonotonic", "accepted"},
                            by : [Kinds -> 0 .. MaxCounter]]]
  /\ entered \in Counts
  /\ counted \in Counts
  /\ mark \in [Callers -> [noted : Counts, begun : Counts, noted2 : Counts, begun2 : Counts]]

(* A pair of snapshots that Delta accepts is worth this much although neither
   snapshot is atomic: each difference counts every construction that was
   entered after the first snapshot and noted before the second began, and none
   but those that overlap the bracket.  A saturated counter, a lost increment
   or snapshots in the wrong order would break it. *)
DeltaBounds ==
  \A c \in Callers : delta[c].status = "accepted" =>
    \A k \in Kinds :
      /\ mark[c].noted2[k] - mark[c].begun[k] <= delta[c].by[k]
      /\ delta[c].by[k] <= mark[c].begun2[k] - mark[c].noted[k]

(* Delta's non-monotonic branch is for snapshots of different provenance: two
   live ones, taken in order, never reach it. *)
NeverNonMonotonic == \A c \in Callers : delta[c].status # "nonMonotonic"

(* The increment loop terminates: a lost compare-and-swap is somebody else's
   increment, of which there are finitely many. *)
EntryReturns == \A c \in Callers : pc[c] = "load" ~> pc[c] = "idle"
=============================================================================
