-------------------------- MODULE GaoFactorStore ---------------------------
(***************************************************************************)
(* gaoFullPackedFactorStore: the encoded DFT factors of one matrix.  The   *)
(* constructor writes one frame per factor into a private temporary        *)
(* directory; a factor becomes resident on its first read, or all of them  *)
(* in PrepareResident, which then removes the directory; Close removes it  *)
(* otherwise.                                                              *)
(*                                                                         *)
(* A store is used by one goroutine at a time.  What happens between its   *)
(* steps is the file system: a frame may be lost, cut short, found to hold *)
(* another factor or other coefficients, and the removal of the directory  *)
(* may fail part of the way.  A read compares the size, the header and the *)
(* shape of a frame; no digest of the coefficients is kept, so a frame in  *)
(* which only they were altered is read as any other.  Indices are 0-based *)
(* as in the code.                                                         *)
(***************************************************************************)
EXTENDS Integers

CONSTANTS
  Store,        \* the factor stores of the process
  FactorCount   \* literal.Depth(false)

ASSUME StoreAssumption == FactorCount \in Nat \ {0}

VARIABLES
  op,          \* what the store is doing
  next,        \* loop index of the constructor and of PrepareResident
  directory,   \* store.directory, factorPaths and factorSizes are set
  exists,      \* the directory is on disk
  frame,       \* frame[s][i]: the factor whose frame is found at path i
  resident,    \* the factor held for index i
  diskLoads,   \* store.diskLoads
  closed,      \* store.closed
  closeResult, \* what the last Close returned
  altered      \* history: the factors altered on disk before they were read

storeVars == <<op, next, directory, exists, frame, resident, diskLoads, closed, closeResult, altered>>

Factor == 0..(FactorCount - 1)

Absent  == -1   \* no frame, no resident factor
Cut     == -2   \* a frame of another size, header or shape
Altered == -3   \* the frame or factor asked for but for its coefficients

TypeOK ==
  /\ op \in [Store -> {"none", "writing", "idle", "preparing", "failed"}]
  /\ next \in [Store -> 0..FactorCount]
  /\ directory \in [Store -> BOOLEAN]
  /\ exists \in [Store -> BOOLEAN]
  /\ frame \in [Store -> [Factor -> Factor \cup {Absent, Cut, Altered}]]
  /\ resident \in [Store -> [Factor -> Factor \cup {Absent, Altered}]]
  /\ diskLoads \in [Store -> [Factor -> Nat]]
  /\ closed \in [Store -> BOOLEAN]
  /\ closeResult \in [Store -> {"none", "nil", "error"}]
  /\ altered \in [Store -> SUBSET Factor]

StoreInit ==
  /\ op = [s \in Store |-> "none"]
  /\ next = [s \in Store |-> 0]
  /\ directory = [s \in Store |-> FALSE]
  /\ exists = [s \in Store |-> FALSE]
  /\ frame = [s \in Store |-> [i \in Factor |-> Absent]]
  /\ resident = [s \in Store |-> [i \in Factor |-> Absent]]
  /\ diskLoads = [s \in Store |-> [i \in Factor |-> 0]]
  /\ closed = [s \in Store |-> FALSE]
  /\ closeResult = [s \in Store |-> "none"]
  /\ altered = [s \in Store |-> {}]

----------------------------------------------------------------------------
(* The file system.                                                        *)

\* os.RemoveAll: everything goes, or an error after some of the frames.
RemoveAll(s) ==
  /\ exists' = [exists EXCEPT ![s] = FALSE]
  /\ frame' = [frame EXCEPT ![s] = [i \in Factor |-> Absent]]

RemoveAllFails(s) ==
  /\ exists[s]
  /\ \E lost \in SUBSET Factor :
       frame' = [frame EXCEPT ![s] = [i \in Factor |-> IF i \in lost THEN Absent ELSE @[i]]]
  /\ UNCHANGED exists

\* A frame that was written is damaged, replaced or lost, at most once.
DiskFault(s) ==
  /\ exists[s]
  /\ \E i \in Factor, found \in Factor \cup {Absent, Cut, Altered} :
       /\ frame[s][i] = i
       /\ frame' = [frame EXCEPT ![s][i] = found]
       /\ altered' = [altered EXCEPT ![s] = IF found = Altered /\ resident[s][i] = Absent
                                           THEN @ \cup {i} ELSE @]
  /\ UNCHANGED <<op, next, directory, exists, resident, diskLoads, closed, closeResult>>

----------------------------------------------------------------------------
(* Construction.                                                           *)

MkdirTemp(s) ==
  /\ op[s] = "none"
  /\ op' = [op EXCEPT ![s] = "writing"]
  /\ directory' = [directory EXCEPT ![s] = TRUE]
  /\ exists' = [exists EXCEPT ![s] = TRUE]
  /\ UNCHANGED <<next, frame, resident, diskLoads, closed, closeResult, altered>>

MkdirTempFails(s) ==
  /\ op[s] = "none"
  /\ op' = [op EXCEPT ![s] = "failed"]
  /\ UNCHANGED <<next, directory, exists, frame, resident, diskLoads, closed, closeResult, altered>>

\* Fault: one factor too many is written.
WriteFactor_OneMore(s) ==
  /\ op[s] = "writing" /\ next[s] <= FactorCount
  /\ frame' = [frame EXCEPT ![s][next[s]] = next[s]]
  /\ next' = [next EXCEPT ![s] = @ + 1]
  /\ UNCHANGED <<op, directory, exists, resident, diskLoads, closed, closeResult, altered>>

WriteFactor(s) ==
  /\ op[s] = "writing" /\ next[s] < FactorCount
  /\ frame' = [frame EXCEPT ![s][next[s]] = next[s]]
  /\ next' = [next EXCEPT ![s] = @ + 1]
  /\ UNCHANGED <<op, directory, exists, resident, diskLoads, closed, closeResult, altered>>

Written(s) ==
  /\ op[s] = "writing" /\ next[s] = FactorCount
  /\ op' = [op EXCEPT ![s] = "idle"]
  /\ next' = [next EXCEPT ![s] = 0]
  /\ UNCHANGED <<directory, exists, frame, resident, diskLoads, closed, closeResult, altered>>

\* The state Close leaves, whatever RemoveAll said: it is asked once.
Closing(s) ==
  /\ closed' = [closed EXCEPT ![s] = TRUE]
  /\ directory' = [directory EXCEPT ![s] = FALSE]
  /\ resident' = [resident EXCEPT ![s] = [i \in Factor |-> Absent]]
  /\ diskLoads' = [diskLoads EXCEPT ![s] = [i \in Factor |-> 0]]
  /\ IF directory[s]
     THEN \/ RemoveAll(s) /\ closeResult' = [closeResult EXCEPT ![s] = "nil"]
          \/ RemoveAllFails(s) /\ closeResult' = [closeResult EXCEPT ![s] = "error"]
     ELSE UNCHANGED <<exists, frame>> /\ closeResult' = [closeResult EXCEPT ![s] = "nil"]

\* Encoding or writing a factor fails or panics: the deferred Close drops the
\* half-built store and its error.
WriteFails(s) ==
  /\ op[s] = "writing"
  /\ Closing(s)
  /\ op' = [op EXCEPT ![s] = "failed"]
  /\ UNCHANGED <<next, altered>>

----------------------------------------------------------------------------
(* Reading.                                                                *)

\* Fault: only the size of a frame is compared.
Accepts_AnyIndex(s, i) == frame[s][i] \in Factor

\* The size recorded when the frame was written, the header's identity, index
\* included, and the shape of the polynomials; not their coefficients.
Accepts(s, i) == frame[s][i] \in {i, Altered}

\* loadResidentFactor of an index that is not resident yet.
Load(s, i) ==
  /\ directory[s] /\ Accepts(s, i)
  /\ resident' = [resident EXCEPT ![s][i] = frame[s][i]]
  /\ diskLoads' = [diskLoads EXCEPT ![s][i] = @ + 1]

LoadFails(s, i) == ~(directory[s] /\ Accepts(s, i))

\* ReadFactor and ReadValidatedFactor before PrepareResident.
Read(s, i) ==
  /\ op[s] = "idle" /\ ~closed[s]
  /\ resident[s][i] = Absent
  /\ Load(s, i)
  /\ UNCHANGED <<op, next, directory, exists, frame, closed, closeResult, altered>>

PrepareResident(s) ==
  /\ op[s] = "idle" /\ ~closed[s]
  /\ op' = [op EXCEPT ![s] = "preparing"]
  /\ next' = [next EXCEPT ![s] = 0]
  /\ UNCHANGED <<directory, exists, frame, resident, diskLoads, closed, closeResult, altered>>

PrepareFactor(s) ==
  /\ op[s] = "preparing" /\ next[s] < FactorCount
  /\ IF resident[s][next[s]] = Absent THEN Load(s, next[s])
                                      ELSE UNCHANGED <<resident, diskLoads>>
  /\ next' = [next EXCEPT ![s] = @ + 1]
  /\ UNCHANGED <<op, directory, exists, frame, closed, closeResult, altered>>

\* Fault: a factor that cannot be loaded is left for later.
PrepareFails_Skips(s) ==
  /\ op[s] = "preparing" /\ next[s] < FactorCount
  /\ resident[s][next[s]] = Absent /\ LoadFails(s, next[s])
  /\ next' = [next EXCEPT ![s] = @ + 1]
  /\ UNCHANGED <<op, directory, exists, frame, resident, diskLoads, closed, closeResult, altered>>

\* The caller may call PrepareResident again: what is resident stays.
PrepareFails(s) ==
  /\ op[s] = "preparing" /\ next[s] < FactorCount
  /\ resident[s][next[s]] = Absent /\ LoadFails(s, next[s])
  /\ op' = [op EXCEPT ![s] = "idle"]
  /\ UNCHANGED <<next, directory, exists, frame, resident, diskLoads, closed, closeResult, altered>>

PrepareRemoves(s) ==
  /\ op[s] = "preparing" /\ next[s] = FactorCount
  /\ IF directory[s] THEN RemoveAll(s) ELSE UNCHANGED <<exists, frame>>
  /\ directory' = [directory EXCEPT ![s] = FALSE]
  /\ op' = [op EXCEPT ![s] = "idle"]
  /\ UNCHANGED <<next, resident, diskLoads, closed, closeResult, altered>>

\* Fault: the path is forgotten before the directory is gone.
RemoveFails_Forgets(s) ==
  /\ op[s] = "preparing" /\ next[s] = FactorCount /\ directory[s]
  /\ RemoveAllFails(s)
  /\ directory' = [directory EXCEPT ![s] = FALSE]
  /\ op' = [op EXCEPT ![s] = "idle"]
  /\ UNCHANGED <<next, resident, diskLoads, closed, closeResult, altered>>

RemoveFails(s) ==
  /\ op[s] = "preparing" /\ next[s] = FactorCount /\ directory[s]
  /\ RemoveAllFails(s)
  /\ op' = [op EXCEPT ![s] = "idle"]
  /\ UNCHANGED <<next, directory, resident, diskLoads, closed, closeResult, altered>>

Close(s) ==
  /\ op[s] = "idle" /\ ~closed[s]
  /\ Closing(s)
  /\ UNCHANGED <<op, next, altered>>

CloseAgain(s) ==
  /\ op[s] = "idle" /\ closed[s]
  /\ closeResult' = [closeResult EXCEPT ![s] = "nil"]
  /\ UNCHANGED <<op, next, directory, exists, frame, resident, diskLoads, closed, altered>>

Constructing(s) == MkdirTemp(s) \/ MkdirTempFails(s) \/ WriteFactor(s) \/ Written(s) \/ WriteFails(s)
Preparing(s)    == PrepareFactor(s) \/ PrepareFails(s) \/ PrepareRemoves(s) \/ RemoveFails(s)

StoreStep(s) ==
  \/ DiskFault(s)
  \/ Constructing(s) \/ Preparing(s)
  \/ \E i \in Factor : Read(s, i)
  \/ PrepareResident(s) \/ Close(s) \/ CloseAgain(s)

StoreNext == \E s \in Store : StoreStep(s)

StoreSpec == StoreInit /\ [][StoreNext]_storeVars

----------------------------------------------------------------------------
(* Properties.                                                             *)

\* No factor is read from disk twice, in any order of reads, failed and
\* repeated PrepareResident calls (gao_full_packed_factor_store.go:188).
LoadedOnce == \A s \in Store, i \in Factor : diskLoads[s][i] <= 1

\* A factor that is served is the one asked for, never another one or a cut one,
\* and has the coefficients that were written unless they were altered on disk
\* before its one read, which nothing in the code notices; what happens to the
\* frame later does not reach it (gao_full_packed_factor_store.go:188, 198, 373).
ResidentIsOwn ==
  \A s \in Store, i \in Factor :
    \/ resident[s][i] \in {i, Absent}
    \/ resident[s][i] = Altered /\ i \in altered[s]

\* An open store can still reach every factor it has not loaded: the backing
\* directory is given up only when nothing depends on it
\* (gao_full_packed_factor_store.go:152).
BackedUntilResident ==
  \A s \in Store, i \in Factor :
    op[s] \in {"idle", "preparing"} /\ ~closed[s] /\ resident[s][i] = Absent => directory[s]

\* Reading is as sound as the checks make it: each factor once, each the one asked
\* for, and none given up before (gao_full_packed_factor_store.go:188).
ReadsAreSound == LoadedOnce /\ ResidentIsOwn /\ BackedUntilResident

\* A directory on disk is one some later call will remove, or one whose removal
\* failed in Close: a failed removal in PrepareResident is tried again.
DirectoryNotForgotten == \A s \in Store : exists[s] => directory[s] \/ closed[s]

\* Close removes the directory: one that returns no error leaves none
\* (comment of Close, gao_full_packed_factor_store.go:223).
CloseRemoves == \A s \in Store : closeResult[s] = "nil" => ~exists[s]
=============================================================================
