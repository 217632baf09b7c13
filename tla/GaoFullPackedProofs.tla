------------------------ MODULE GaoFullPackedProofs -------------------------
(***************************************************************************)
(* Safety of the Gao factor stores for any number of factors, and of the   *)
(* full-packed session over them for any number of callers.                *)
(*                                                                         *)
(* A store is sound because its directory is given up only after the last  *)
(* factor has become resident: the inductive invariant counts how far      *)
(* PrepareResident is.  A factor altered on disk is known as such before   *)
(* its read, because no read follows the first.  The session is sound      *)
(* because its constructor walks through phases that leave behind built,   *)
(* then loaded stores, and because a caller inside a pass or a Close holds *)
(* server.mu.                                                              *)
(***************************************************************************)
EXTENDS GaoFullPackedA2B, TLAPS

----------------------------------------------------------------------------
(* The inductive invariant of a store.                                     *)

\* Each resident factor is the one asked for and was read once; an altered one was
\* altered before that, and an altered frame not read yet is known as such.
FactorInv(s) ==
  \A i \in Factor :
    /\ resident[s][i] \in {i, Absent} \/ (resident[s][i] = Altered /\ i \in altered[s])
    /\ diskLoads[s][i] = IF resident[s][i] = Absent THEN 0 ELSE 1
    /\ ~closed[s] /\ frame[s][i] = Altered /\ resident[s][i] = Absent => i \in altered[s]

\* What the store still depends on.
BackingInv(s) ==
  /\ op[s] = "none" => ~exists[s] /\ ~closed[s]
  /\ op[s] = "writing" => directory[s]
  /\ op[s] \in {"none", "failed"} \/ closed[s] => ~directory[s]
  /\ op[s] = "preparing"
       => ~closed[s] /\ \A i \in Factor : i < next[s] => resident[s][i] # Absent
  /\ op[s] \in {"idle", "preparing"} /\ ~closed[s] /\ ~directory[s]
       => \A i \in Factor : resident[s][i] # Absent
  /\ exists[s] => directory[s] \/ closed[s]

StoreInv(s) == FactorInv(s) /\ BackingInv(s)

\* The other stores are left alone.
Others(s) ==
  \A t \in Store : t # s =>
    /\ op'[t] = op[t] /\ next'[t] = next[t] /\ directory'[t] = directory[t]
    /\ exists'[t] = exists[t] /\ frame'[t] = frame[t] /\ resident'[t] = resident[t]
    /\ diskLoads'[t] = diskLoads[t] /\ closed'[t] = closed[t]
    /\ closeResult'[t] = closeResult[t] /\ altered'[t] = altered[t]

----------------------------------------------------------------------------
(* The inductive invariant of the session.                                 *)

Built(s)  == op[s] = "idle" /\ ~closed[s]
Loaded(s) == /\ Built(s) /\ ~directory[s] /\ ~exists[s]
             /\ \A i \in Factor : resident[s][i] # Absent

\* A directory nobody will remove any more is one whose removal failed.
LeftOver(s) == exists[s] /\ ~directory[s] => closeResult[s] = "error"

\* What the constructor has behind it, and a store whose constructor failed.
PhaseInv ==
  /\ phase = "none" => owned = {} /\ \A s \in Store : op[s] = "none"
  /\ phase = "buildCTS" => op["stc"] = "none" /\ owned = {}
  /\ phase = "buildSTC" => Built("cts") /\ owned = {"cts"}
  /\ phase \in Building /\ op[PhaseStore(phase)] = "idle" => ~closed[PhaseStore(phase)]
  /\ phase \in {"keys", "publish"} \cup Loading => owned = Store
  /\ phase = "keys" => Built("cts") /\ Built("stc")
  /\ phase = "prepareCTS" => Built("stc")
  /\ phase = "prepareSTC" => Loaded("cts")
  /\ phase \in Loading => ~closed[PhaseStore(phase)]
  /\ phase \in {"publish", "open"} => \A s \in Store : Loaded(s)
  /\ phase = "abort" => \A s \in Store : s \notin owned => op[s] \in {"none", "failed"}
  /\ phase = "failed" => \A s \in Store : ~directory[s]
  /\ published <=> phase = "open"

CallerInv ==
  \A c \in Call : /\ pc[c] \in Round \cup {"closing", "return"} => mu = c
                  /\ pc[c] \in Round => published
                  /\ pc[c] = "closing" => phase = "closed"

IInv ==
  /\ SessionTypeOK
  /\ \A s \in Store : StoreInv(s) /\ LeftOver(s)
  /\ PhaseInv
  /\ CallerInv

----------------------------------------------------------------------------
(* The steps of a store.                                                   *)

\* The constants of a frame or of a resident factor are no factors, and a loop
\* index below the number of factors is one.
LEMMA FactorFacts ==
  /\ FactorCount \in Nat \ {0} /\ Absent \notin Factor /\ Cut \notin Factor
  /\ Altered \notin Factor /\ Altered # Absent /\ Altered # Cut
  /\ \A n \in 0..FactorCount : n < FactorCount => n \in Factor /\ n + 1 \in 0..FactorCount
  /\ \A i \in Factor : i \in Nat /\ i < FactorCount
BY StoreAssumption DEF Factor, Absent, Cut, Altered

\* What Close, and the cleanup of a failed constructor, leave.
GivenUp(s) ==
  /\ closed' \in [Store -> BOOLEAN] /\ directory' \in [Store -> BOOLEAN]
  /\ exists' \in [Store -> BOOLEAN]
  /\ frame' \in [Store -> [Factor -> Factor \cup {Absent, Cut, Altered}]]
  /\ resident' \in [Store -> [Factor -> Factor \cup {Absent, Altered}]]
  /\ diskLoads' \in [Store -> [Factor -> Nat]]
  /\ closeResult' \in [Store -> {"none", "nil", "error"}]
  /\ closed'[s] /\ ~directory'[s]
  /\ \A i \in Factor : resident'[s][i] = Absent /\ diskLoads'[s][i] = 0
  /\ directory[s] => ~exists'[s] \/ closeResult'[s] = "error"
  /\ ~directory[s] => exists'[s] = exists[s]
  /\ \A t \in Store : t # s =>
       /\ closed'[t] = closed[t] /\ directory'[t] = directory[t] /\ exists'[t] = exists[t]
       /\ frame'[t] = frame[t] /\ resident'[t] = resident[t]
       /\ diskLoads'[t] = diskLoads[t] /\ closeResult'[t] = closeResult[t]

LEMMA ClosingKeeps ==
  ASSUME TypeOK, NEW s \in Store, Closing(s)
  PROVE  GivenUp(s)
<1>1. /\ closed' = [closed EXCEPT ![s] = TRUE]
      /\ directory' = [directory EXCEPT ![s] = FALSE]
      /\ resident' = [resident EXCEPT ![s] = [i \in Factor |-> Absent]]
      /\ diskLoads' = [diskLoads EXCEPT ![s] = [i \in Factor |-> 0]]
  BY DEF Closing
<1>2. /\ closed' \in [Store -> BOOLEAN] /\ directory' \in [Store -> BOOLEAN]
      /\ closed'[s] /\ ~directory'[s]
      /\ \A t \in Store : t # s => closed'[t] = closed[t] /\ directory'[t] = directory[t]
  BY <1>1 DEF TypeOK
<1>3. /\ resident' \in [Store -> [Factor -> Factor \cup {Absent, Altered}]]
      /\ \A i \in Factor : resident'[s][i] = Absent
      /\ \A t \in Store : t # s => resident'[t] = resident[t]
  BY <1>1 DEF TypeOK
<1>4. /\ diskLoads' \in [Store -> [Factor -> Nat]]
      /\ \A i \in Factor : diskLoads'[s][i] = 0
      /\ \A t \in Store : t # s => diskLoads'[t] = diskLoads[t]
  BY <1>1 DEF TypeOK
<1>5. /\ exists' \in [Store -> BOOLEAN]
      /\ frame' \in [Store -> [Factor -> Factor \cup {Absent, Cut, Altered}]]
      /\ closeResult' \in [Store -> {"none", "nil", "error"}]
      /\ \A t \in Store : t # s => /\ exists'[t] = exists[t] /\ frame'[t] = frame[t]
                                   /\ closeResult'[t] = closeResult[t]
      /\ directory[s] => ~exists'[s] \/ closeResult'[s] = "error"
      /\ ~directory[s] => exists'[s] = exists[s]
  <2>1. CASE directory[s] /\ RemoveAll(s) /\ closeResult' = [closeResult EXCEPT ![s] = "nil"]
    BY <2>1 DEF TypeOK, RemoveAll
  <2>2. CASE directory[s] /\ RemoveAllFails(s) /\ closeResult' = [closeResult EXCEPT ![s] = "error"]
    BY <2>2 DEF TypeOK, RemoveAllFails
  <2>3. CASE ~directory[s] /\ UNCHANGED <<exists, frame>> /\ closeResult' = [closeResult EXCEPT ![s] = "nil"]
    BY <2>3 DEF TypeOK
  <2> QED BY <2>1, <2>2, <2>3 DEF Closing
<1> QED BY <1>2, <1>3, <1>4, <1>5 DEF GivenUp

\* A closed store keeps its invariant.
LEMMA GivenKeeps ==
  ASSUME TypeOK, NEW s \in Store, Closing(s), StoreInv(s), op'[s] \in {"idle", "failed"},
         ~directory[s] => ~exists[s]
  PROVE  StoreInv(s)' /\ LeftOver(s)'
<1>1. GivenUp(s)
  BY ClosingKeeps
<1>2. FactorInv(s)'
  BY <1>1 DEF GivenUp, FactorInv
<1>3. BackingInv(s)'
  BY <1>1 DEF GivenUp, BackingInv
<1>4. LeftOver(s)'
  BY <1>1 DEF GivenUp, LeftOver
<1> QED BY <1>2, <1>3, <1>4 DEF StoreInv

\* A load makes one factor resident, its own.
LEMMA LoadKeeps ==
  ASSUME TypeOK, NEW s \in Store, NEW i \in Factor, FactorInv(s), resident[s][i] = Absent, Load(s, i),
         ~closed[s], UNCHANGED <<closed, frame, altered>>
  PROVE  /\ resident' \in [Store -> [Factor -> Factor \cup {Absent, Altered}]]
         /\ diskLoads' \in [Store -> [Factor -> Nat]]
         /\ \A t \in Store : t # s => resident'[t] = resident[t] /\ diskLoads'[t] = diskLoads[t]
         /\ \A j \in Factor : resident'[s][j] = IF j = i THEN frame[s][i] ELSE resident[s][j]
         /\ resident'[s][i] # Absent
         /\ FactorInv(s)'
<1>0. frame[s][i] \in {i, Altered} /\ frame[s][i] # Absent
  BY FactorFacts DEF Load, Accepts
<1>1. /\ resident' = [resident EXCEPT ![s][i] = frame[s][i]]
      /\ diskLoads' = [diskLoads EXCEPT ![s][i] = diskLoads[s][i] + 1]
  BY DEF Load
<1>2. diskLoads[s][i] = 0
  BY DEF FactorInv
<1>3. \A j \in Factor : /\ resident'[s][j] = IF j = i THEN frame[s][i] ELSE resident[s][j]
                        /\ diskLoads'[s][j] = IF j = i THEN 1 ELSE diskLoads[s][j]
  BY <1>1, <1>2 DEF TypeOK
<1>4. FactorInv(s)'
  BY <1>0, <1>3, FactorFacts DEF FactorInv
<1>5. \A t \in Store : t # s => resident'[t] = resident[t] /\ diskLoads'[t] = diskLoads[t]
  BY <1>1 DEF TypeOK
<1>6. resident' \in [Store -> [Factor -> Factor \cup {Absent, Altered}]]
  BY <1>0, <1>1 DEF TypeOK
<1>7. diskLoads' \in [Store -> [Factor -> Nat]]
  BY <1>1 DEF TypeOK
<1> QED BY <1>0, <1>3, <1>4, <1>5, <1>6, <1>7

\* What a step of one store preserves of it, and that it touches no other.
StepKeeps(s) ==
  TypeOK' /\ Others(s) /\ StoreInv(s)' /\ (LeftOver(s) /\ ~CloseAgain(s) => LeftOver(s)')

\* Damage on the disk.
LEMMA DiskKeeps ==
  ASSUME TypeOK, NEW s \in Store, StoreInv(s), DiskFault(s)
  PROVE  StepKeeps(s) /\ UNCHANGED <<op, next, directory, exists, resident, diskLoads, closed, closeResult>>
<1>0. UNCHANGED <<op, next, directory, exists, resident, diskLoads, closed, closeResult>>
  BY DEF DiskFault
<1>1. PICK i \in Factor, found \in Factor \cup {Absent, Cut, Altered} :
        /\ frame' = [frame EXCEPT ![s][i] = found]
        /\ altered' = [altered EXCEPT ![s] = IF found = Altered /\ resident[s][i] = Absent
                                            THEN altered[s] \cup {i} ELSE altered[s]]
  BY DEF DiskFault
<1>2. /\ frame' \in [Store -> [Factor -> Factor \cup {Absent, Cut, Altered}]]
      /\ \A j \in Factor : frame'[s][j] = IF j = i THEN found ELSE frame[s][j]
      /\ \A t \in Store : t # s => frame'[t] = frame[t]
  BY <1>1 DEF TypeOK
<1>3. /\ altered' \in [Store -> SUBSET Factor]
      /\ altered[s] \subseteq altered'[s]
      /\ found = Altered /\ resident[s][i] = Absent => i \in altered'[s]
      /\ \A t \in Store : t # s => altered'[t] = altered[t]
  BY <1>1 DEF TypeOK
<1>4. TypeOK'
  BY <1>0, <1>2, <1>3 DEF TypeOK
<1>5. Others(s)
  BY <1>0, <1>2, <1>3 DEF Others
<1>6. FactorInv(s)'
  BY <1>0, <1>2, <1>3 DEF StoreInv, FactorInv
<1>7. BackingInv(s)' /\ (LeftOver(s) => LeftOver(s)')
  BY <1>0 DEF StoreInv, BackingInv, LeftOver
<1> QED BY <1>0, <1>4, <1>5, <1>6, <1>7 DEF StepKeeps, StoreInv

\* The store's constructor.
LEMMA ConstructingKeeps ==
  ASSUME TypeOK, NEW s \in Store, StoreInv(s), Constructing(s)
  PROVE  /\ StepKeeps(s)
         /\ op'[s] = "idle" => ~closed'[s]
         /\ op'[s] \in {"writing", "idle", "failed"}
<1> USE DEF StoreInv
<1>1. CASE MkdirTemp(s)
  <2>1. TypeOK'
    BY <1>1 DEF MkdirTemp, TypeOK
  <2>2. Others(s)
    BY <1>1 DEF MkdirTemp, TypeOK, Others
  <2>3. StoreInv(s)' /\ LeftOver(s)' /\ op'[s] = "writing"
    BY <1>1 DEF MkdirTemp, TypeOK, FactorInv, BackingInv, LeftOver
  <2> QED BY <2>1, <2>2, <2>3 DEF StepKeeps
<1>2. CASE MkdirTempFails(s)
  <2>1. TypeOK'
    BY <1>2 DEF MkdirTempFails, TypeOK
  <2>2. Others(s)
    BY <1>2 DEF MkdirTempFails, TypeOK, Others
  <2>3. StoreInv(s)' /\ (LeftOver(s) => LeftOver(s)') /\ op'[s] = "failed"
    BY <1>2 DEF MkdirTempFails, TypeOK, FactorInv, BackingInv, LeftOver
  <2> QED BY <2>1, <2>2, <2>3 DEF StepKeeps
<1>3. CASE WriteFactor(s)
  <2>0. /\ op[s] = "writing" /\ next[s] < FactorCount /\ next[s] \in Factor
        /\ frame' = [frame EXCEPT ![s][next[s]] = next[s]]
        /\ next' = [next EXCEPT ![s] = next[s] + 1] /\ next[s] + 1 \in 0..FactorCount
        /\ UNCHANGED <<op, directory, exists, resident, diskLoads, closed, closeResult, altered>>
    BY <1>3, FactorFacts DEF WriteFactor, TypeOK
  <2>1. TypeOK'
    <3>1. frame' \in [Store -> [Factor -> Factor \cup {Absent, Cut, Altered}]]
      BY <2>0 DEF TypeOK
    <3> QED BY <2>0, <3>1 DEF TypeOK
  <2>2. Others(s)
    BY <2>0 DEF TypeOK, Others
  <2>3. StoreInv(s)' /\ (LeftOver(s) => LeftOver(s)')
    BY <2>0, FactorFacts DEF TypeOK, FactorInv, BackingInv, LeftOver
  <2> QED BY <2>0, <2>1, <2>2, <2>3 DEF StepKeeps
<1>4. CASE Written(s)
  <2>1. TypeOK'
    BY <1>4, FactorFacts DEF Written, TypeOK
  <2>2. Others(s)
    BY <1>4 DEF Written, TypeOK, Others
  <2>3. StoreInv(s)' /\ (LeftOver(s) => LeftOver(s)') /\ op'[s] = "idle" /\ ~closed'[s]
    BY <1>4 DEF Written, TypeOK, FactorInv, BackingInv, LeftOver
  <2> QED BY <2>1, <2>2, <2>3 DEF StepKeeps
<1>5. CASE WriteFails(s)
  <2>0. /\ Closing(s) /\ op' = [op EXCEPT ![s] = "failed"] /\ UNCHANGED <<next, altered>> /\ directory[s]
    BY <1>5 DEF WriteFails, BackingInv
  <2>c. GivenUp(s)
    BY <2>0, ClosingKeeps
  <2>1. TypeOK'
    <3>1. op' \in [Store -> {"none", "writing", "idle", "preparing", "failed"}]
      BY <2>0 DEF TypeOK
    <3> QED BY <2>0, <2>c, <3>1 DEF TypeOK, GivenUp
  <2>2. Others(s)
    BY <2>0, <2>c DEF TypeOK, Others, GivenUp
  <2>f. op'[s] = "failed"
    BY <2>0 DEF TypeOK
  <2>3. StoreInv(s)' /\ LeftOver(s)' /\ op'[s] = "failed"
    BY <2>0, <2>f, GivenKeeps
  <2> QED BY <2>1, <2>2, <2>3 DEF StepKeeps
<1> QED BY <1>1, <1>2, <1>3, <1>4, <1>5 DEF Constructing

\* A read of one factor.
LEMMA ReadKeeps ==
  ASSUME TypeOK, NEW s \in Store, StoreInv(s), NEW i \in Factor, Read(s, i)
  PROVE  StepKeeps(s)
<1>0. /\ Load(s, i) /\ resident[s][i] = Absent /\ ~closed[s]
      /\ UNCHANGED <<op, next, directory, exists, frame, closed, closeResult, altered>>
  BY DEF Read
<1>1. /\ resident' \in [Store -> [Factor -> Factor \cup {Absent, Altered}]]
      /\ diskLoads' \in [Store -> [Factor -> Nat]]
      /\ \A t \in Store : t # s => resident'[t] = resident[t] /\ diskLoads'[t] = diskLoads[t]
      /\ \A j \in Factor : resident[s][j] # Absent => resident'[s][j] # Absent
      /\ FactorInv(s)'
  BY <1>0, LoadKeeps DEF StoreInv
<1>2. TypeOK'
  BY <1>0, <1>1 DEF TypeOK
<1>3. Others(s)
  BY <1>0, <1>1 DEF Others
<1>4. BackingInv(s)' /\ (LeftOver(s) => LeftOver(s)')
  BY <1>0, <1>1 DEF StoreInv, BackingInv, LeftOver
<1> QED BY <1>1, <1>2, <1>3, <1>4 DEF StepKeeps, StoreInv

\* PrepareResident: its start, one factor, and its three ends.
LEMMA PreparingKeeps ==
  ASSUME TypeOK, NEW s \in Store, StoreInv(s), PrepareResident(s) \/ Preparing(s)
  PROVE  /\ StepKeeps(s)
         /\ closed' = closed
         /\ PrepareRemoves(s) => Loaded(s)'
<1> USE DEF StoreInv
<1>1. CASE PrepareResident(s)
  <2>0. op[s] = "idle" /\ op'[s] = "preparing" /\ ~PrepareRemoves(s)
    BY <1>1 DEF PrepareResident, PrepareRemoves, TypeOK
  <2>1. TypeOK'
    BY <1>1, FactorFacts DEF PrepareResident, TypeOK
  <2>2. Others(s)
    BY <1>1 DEF PrepareResident, TypeOK, Others
  <2>3. StoreInv(s)' /\ (LeftOver(s) => LeftOver(s)')
    BY <1>1, FactorFacts DEF PrepareResident, TypeOK, FactorInv, BackingInv, LeftOver
  <2> QED BY <1>1, <2>0, <2>1, <2>2, <2>3 DEF StepKeeps, PrepareResident
<1>2. CASE PrepareFactor(s)
  <2>0. /\ op[s] = "preparing" /\ next[s] \in Factor /\ next[s] + 1 \in 0..FactorCount
        /\ next' = [next EXCEPT ![s] = next[s] + 1]
        /\ UNCHANGED <<op, directory, exists, frame, closed, closeResult, altered>>
        /\ ~PrepareRemoves(s) /\ ~closed[s]
    BY <1>2, FactorFacts DEF PrepareFactor, PrepareRemoves, TypeOK, BackingInv
  <2>1. /\ resident' \in [Store -> [Factor -> Factor \cup {Absent, Altered}]]
        /\ diskLoads' \in [Store -> [Factor -> Nat]]
        /\ \A t \in Store : t # s => resident'[t] = resident[t] /\ diskLoads'[t] = diskLoads[t]
        /\ \A j \in Factor : resident[s][j] # Absent => resident'[s][j] # Absent
        /\ resident'[s][next[s]] # Absent
        /\ FactorInv(s)'
    <3>1. CASE resident[s][next[s]] = Absent
      <4>1. Load(s, next[s])
        BY <1>2, <3>1 DEF PrepareFactor
      <4>2. /\ resident' \in [Store -> [Factor -> Factor \cup {Absent, Altered}]]
            /\ diskLoads' \in [Store -> [Factor -> Nat]]
            /\ \A t \in Store : t # s => resident'[t] = resident[t] /\ diskLoads'[t] = diskLoads[t]
            /\ \A j \in Factor : resident'[s][j] = IF j = next[s] THEN frame[s][next[s]] ELSE resident[s][j]
            /\ resident'[s][next[s]] # Absent
            /\ FactorInv(s)'
        BY <2>0, <3>1, <4>1, LoadKeeps
      <4> QED BY <4>2
    <3>2. CASE resident[s][next[s]] # Absent
      <4>1. resident' = resident /\ diskLoads' = diskLoads
        BY <1>2, <3>2 DEF PrepareFactor
      <4> QED BY <2>0, <3>2, <4>1 DEF TypeOK, FactorInv
    <3> QED BY <3>1, <3>2
  <2>2. TypeOK'
    BY <2>0, <2>1 DEF TypeOK
  <2>3. Others(s)
    BY <2>0, <2>1 DEF TypeOK, Others
  <2>4. next'[s] = next[s] + 1 /\ next[s] \in Nat
    BY <2>0 DEF TypeOK
  <2>5. \A i \in Factor : i < next'[s] => i < next[s] \/ i = next[s]
    BY <2>4, FactorFacts
  <2>6. BackingInv(s)' /\ (LeftOver(s) => LeftOver(s)')
    BY <2>0, <2>1, <2>5 DEF BackingInv, LeftOver
  <2> QED BY <2>0, <2>1, <2>2, <2>3, <2>6 DEF StepKeeps
<1>3. CASE PrepareFails(s) \/ RemoveFails(s)
  <2>0. /\ op[s] = "preparing" /\ op' = [op EXCEPT ![s] = "idle"]
        /\ UNCHANGED <<next, directory, exists, resident, diskLoads, closed, closeResult, altered>>
        /\ ~closed[s]
    BY <1>3 DEF PrepareFails, RemoveFails, RemoveAllFails, BackingInv
  <2>f. /\ \A i \in Factor : frame'[s][i] \in {frame[s][i], Absent}
        /\ frame' \in [Store -> [Factor -> Factor \cup {Absent, Cut, Altered}]]
        /\ \A t \in Store : t # s => frame'[t] = frame[t]
    <3>1. CASE PrepareFails(s)
      BY <3>1 DEF PrepareFails, TypeOK
    <3>2. CASE RemoveFails(s)
      <4>1. PICK lost \in SUBSET Factor :
              frame' = [frame EXCEPT ![s] = [i \in Factor |-> IF i \in lost THEN Absent ELSE frame[s][i]]]
        BY <3>2 DEF RemoveFails, RemoveAllFails
      <4> QED BY <4>1 DEF TypeOK
    <3> QED BY <1>3, <3>1, <3>2
  <2>1. TypeOK'
    BY <2>0, <2>f DEF TypeOK
  <2>2. Others(s)
    BY <2>0, <2>f DEF TypeOK, Others
  <2>3. StoreInv(s)' /\ (LeftOver(s) => LeftOver(s)')
    BY <2>0, <2>f, FactorFacts DEF TypeOK, FactorInv, BackingInv, LeftOver
  <2>4. ~PrepareRemoves(s)
    BY <1>3, <2>0, FactorFacts DEF PrepareFails, RemoveFails, PrepareRemoves, TypeOK
  <2> QED BY <2>0, <2>1, <2>2, <2>3, <2>4 DEF StepKeeps
<1>4. CASE PrepareRemoves(s)
  <2>0. /\ op[s] = "preparing" /\ op' = [op EXCEPT ![s] = "idle"] /\ next[s] = FactorCount
        /\ directory' = [directory EXCEPT ![s] = FALSE]
        /\ UNCHANGED <<next, resident, diskLoads, closed, closeResult, altered>>
        /\ ~closed[s]
    BY <1>4 DEF PrepareRemoves, BackingInv
  <2>1. /\ exists' \in [Store -> BOOLEAN] /\ exists'[s] = FALSE
        /\ frame' \in [Store -> [Factor -> Factor \cup {Absent, Cut, Altered}]]
        /\ \A t \in Store : t # s => exists'[t] = exists[t] /\ frame'[t] = frame[t]
    <3>1. CASE directory[s]
      <4>1. exists' = [exists EXCEPT ![s] = FALSE] /\ frame' = [frame EXCEPT ![s] = [i \in Factor |-> Absent]]
        BY <1>4, <3>1 DEF PrepareRemoves, RemoveAll
      <4> QED BY <4>1 DEF TypeOK
    <3>2. CASE ~directory[s]
      BY <1>4, <2>0, <3>2 DEF PrepareRemoves, TypeOK, BackingInv
    <3> QED BY <3>1, <3>2
  <2>2. \A i \in Factor : resident[s][i] # Absent
    BY <2>0, FactorFacts DEF BackingInv
  <2>3. TypeOK'
    BY <2>0, <2>1 DEF TypeOK
  <2>4. Others(s)
    BY <2>0, <2>1 DEF TypeOK, Others
  <2>5. StoreInv(s)' /\ LeftOver(s)' /\ Loaded(s)'
    BY <2>0, <2>1, <2>2 DEF TypeOK, FactorInv, BackingInv, LeftOver, Loaded, Built
  <2> QED BY <2>0, <2>3, <2>4, <2>5 DEF StepKeeps
<1> QED BY <1>1, <1>2, <1>3, <1>4 DEF Preparing

\* Close, and a second one.
LEMMA CloseKeeps ==
  ASSUME TypeOK, NEW s \in Store, StoreInv(s), Close(s) \/ CloseAgain(s)
  PROVE  StepKeeps(s)
<1> USE DEF StoreInv
<1>1. CASE Close(s)
  <2>0. op[s] = "idle" /\ ~closed[s] /\ Closing(s) /\ UNCHANGED <<op, next, altered>>
    BY <1>1 DEF Close
  <2>c. GivenUp(s)
    BY <2>0, ClosingKeeps
  <2>1. TypeOK'
    BY <2>0, <2>c DEF TypeOK, GivenUp
  <2>2. Others(s)
    BY <2>0, <2>c DEF TypeOK, Others, GivenUp
  <2>3. ~directory[s] => ~exists[s]
    BY <2>0 DEF BackingInv
  <2>4. StoreInv(s)' /\ LeftOver(s)'
    BY <2>0, <2>3, GivenKeeps
  <2> QED BY <2>1, <2>2, <2>4 DEF StepKeeps
<1>2. CASE CloseAgain(s)
  <2>1. TypeOK'
    BY <1>2 DEF CloseAgain, TypeOK
  <2>2. Others(s)
    BY <1>2 DEF CloseAgain, TypeOK, Others
  <2>3. StoreInv(s)'
    BY <1>2 DEF CloseAgain, FactorInv, BackingInv
  <2> QED BY <1>2, <2>1, <2>2, <2>3 DEF StepKeeps
<1> QED BY <1>1, <1>2

\* An untouched store keeps its facts.
LEMMA StoreApart ==
  ASSUME NEW s, NEW t \in Store, t # s, Others(s), StoreInv(t)
  PROVE  StoreInv(t)' /\ (LeftOver(t) => LeftOver(t)') /\ (Built(t) => Built(t)')
                      /\ (Loaded(t) => Loaded(t)')
BY DEF StoreInv, FactorInv, BackingInv, LeftOver, Built, Loaded, Others

\* Every step of a store keeps the invariants of all of them.
LEMMA StoreStepKeeps ==
  ASSUME TypeOK, \A t \in Store : StoreInv(t), NEW s \in Store, StoreStep(s)
  PROVE  TypeOK' /\ \A t \in Store : StoreInv(t)'
<1>1. StepKeeps(s)
  BY DiskKeeps, ConstructingKeeps, ReadKeeps, PreparingKeeps, CloseKeeps DEF StoreStep
<1> QED BY <1>1, StoreApart DEF StepKeeps

\* The initial stores.
LEMMA StoresInit == StoreInit => TypeOK /\ \A s \in Store : StoreInv(s) /\ LeftOver(s)
<1> SUFFICES ASSUME StoreInit PROVE TypeOK /\ \A s \in Store : StoreInv(s) /\ LeftOver(s)
  OBVIOUS
<1>1. TypeOK
  BY FactorFacts DEF StoreInit, TypeOK
<1>2. \A s \in Store : StoreInv(s) /\ LeftOver(s)
  BY FactorFacts DEF StoreInit, StoreInv, FactorInv, BackingInv, LeftOver
<1> QED BY <1>1, <1>2

\* Reading is sound in every state where the stores keep their invariant.
LEMMA ReadsSound == (\A s \in Store : StoreInv(s)) => ReadsAreSound
BY DEF StoreInv, FactorInv, BackingInv, ReadsAreSound, LoadedOnce, ResidentIsOwn,
       BackedUntilResident

\* In whatever order one goroutine reads, prepares, repeats a failed prepare and
\* closes stores of any number of factors, and whatever happens to their frames
\* meanwhile, each factor is read once, is the one asked for with the coefficients
\* on disk at that read, and can be reached until it is resident (gao_full_packed_factor_store.go:188, 198, 152).
THEOREM StoreReads == StoreSpec => []ReadsAreSound
<1>1. StoreInit => TypeOK /\ \A s \in Store : StoreInv(s)
  BY StoresInit
<1>2. (TypeOK /\ \A s \in Store : StoreInv(s)) /\ [StoreNext]_storeVars
        => (TypeOK /\ \A s \in Store : StoreInv(s))'
  <2> SUFFICES ASSUME TypeOK, \A s \in Store : StoreInv(s), [StoreNext]_storeVars
               PROVE  TypeOK' /\ \A s \in Store : StoreInv(s)'
    OBVIOUS
  <2>1. CASE StoreNext
    BY <2>1, StoreStepKeeps DEF StoreNext
  <2>2. CASE UNCHANGED storeVars
    BY <2>2 DEF storeVars, TypeOK, StoreInv, FactorInv, BackingInv
  <2> QED BY <2>1, <2>2
<1>3. (\A s \in Store : StoreInv(s)) => ReadsAreSound
  BY ReadsSound
<1> QED BY <1>1, <1>2, <1>3, PTL DEF StoreSpec

----------------------------------------------------------------------------
(* The session.                                                            *)

\* What the session asks of its stores.
StoresInv == TypeOK /\ \A s \in Store : StoreInv(s) /\ LeftOver(s)

\* The stores' facts are there after a step that leaves the stores alone.
LEMMA FactsAside ==
  ASSUME NEW s \in Store, UNCHANGED storeVars
  PROVE  /\ StoreInv(s) => StoreInv(s)'
         /\ LeftOver(s) => LeftOver(s)'
         /\ Built(s) => Built(s)'
         /\ Loaded(s) => Loaded(s)'
BY DEF StoreInv, FactorInv, BackingInv, LeftOver, Built, Loaded, storeVars

LEMMA StoresAside ==
  ASSUME StoresInv, UNCHANGED storeVars
  PROVE  StoresInv'
<1>1. TypeOK'
  BY DEF StoresInv, TypeOK, storeVars
<1>2. \A s \in Store : StoreInv(s)' /\ LeftOver(s)'
  BY FactsAside DEF StoresInv, storeVars
<1> QED BY <1>1, <1>2 DEF StoresInv

\* Before the session is published and after its construction failed, no caller
\* is inside it.
LEMMA NobodyInside ==
  ASSUME SessionTypeOK, PhaseInv, CallerInv, phase \notin {"open", "closed"},
         NEW c \in Call
  PROVE  pc[c] \notin Round \cup {"closing"}
BY DEF PhaseInv, CallerInv

\* At most one caller is inside.
LEMMA OneInside ==
  ASSUME CallerInv, mu = None, NEW c \in Call
  PROVE  pc[c] \notin Round \cup {"closing", "return"}
BY SessionAssumption DEF CallerInv

\* The constructor between the work on its stores.
LEMMA ConstructAside ==
  ASSUME IInv, Begin \/ BuildEnds \/ Keys \/ AbortEnds \/ Publish
  PROVE  IInv'
<1> USE SessionAssumption
<1>s. StoresInv /\ UNCHANGED storeVars
  BY DEF IInv, SessionTypeOK, StoresInv, Begin, BuildEnds, Keys, AbortEnds, Publish
<1>0. StoresInv'
  BY <1>s, StoresAside
<1>v. /\ UNCHANGED <<op, next, directory, exists, resident, diskLoads, closed, closeResult>>
      /\ \A s \in Store : (Built(s) => Built(s)') /\ (Loaded(s) => Loaded(s)')
  BY <1>s, FactsAside DEF storeVars
<1>u. UNCHANGED <<mu, pc>> /\ phase \notin {"open", "closed"}
  BY DEF Begin, BuildEnds, Keys, AbortEnds, Publish, Building
<1>1. CallerInv'
  <2>1. \A c \in Call : pc[c] \notin Round \cup {"closing"}
    BY <1>u, NobodyInside DEF IInv
  <2> QED BY <1>u, <2>1 DEF IInv, CallerInv
<1>2. SessionTypeOK'
  <2>1. UNCHANGED <<mu, pc>> /\ TypeOK' /\ SessionTypeOK
    BY <1>0, <1>u DEF StoresInv, IInv
  <2>2. owned' \subseteq Store /\ published' \in BOOLEAN
    BY <2>1 DEF SessionTypeOK, Begin, BuildEnds, Keys, AbortEnds, Publish, PhaseStore
  <2>3. phase' \in {"none", "keys", "publish", "abort", "failed", "open", "closed"}
                     \cup Building \cup Loading
    BY DEF Begin, BuildEnds, Keys, AbortEnds, Publish, AfterPhase, Building, Loading
  <2> QED BY <2>1, <2>2, <2>3 DEF SessionTypeOK
<1>3. PhaseInv'
  <2>0. PhaseInv /\ \A s \in Store : op'[s] = op[s] /\ closed'[s] = closed[s] /\ directory'[s] = directory[s]
    BY <1>v DEF IInv
  <2>1. CASE Begin
    <3>1. \A s \in Store : ~directory[s]
      BY <1>s, <2>1 DEF IInv, Begin, PhaseInv, StoresInv, StoreInv, BackingInv
    <3>2. phase' \in {"buildCTS", "failed"} /\ owned' = owned /\ published' = published
      BY <2>1 DEF Begin
    <3> QED BY <1>v, <2>0, <2>1, <3>1, <3>2 DEF Begin, PhaseInv, Building, Loading, PhaseStore
  <2>2. CASE BuildEnds /\ phase = "buildCTS"
    BY <2>0, <1>v, <2>2 DEF BuildEnds, PhaseInv, Building, Loading, PhaseStore, AfterPhase, Built
  <2>3. CASE BuildEnds /\ phase = "buildSTC"
    BY <2>0, <1>v, <2>3 DEF BuildEnds, PhaseInv, Building, Loading, PhaseStore, AfterPhase, Built
  <2>4. CASE Keys
    BY <2>0, <1>v, <2>4 DEF Keys, PhaseInv, Building, Loading, PhaseStore, AfterPhase, Built
  <2>5. CASE AbortEnds
    <3>1. \A s \in Store : ~directory[s]
      BY <1>s, <2>0, <2>5 DEF AbortEnds, PhaseInv, StoresInv, StoreInv, BackingInv
    <3> QED BY <2>0, <2>5, <3>1 DEF AbortEnds, PhaseInv, Building, Loading
  <2>6. CASE Publish
    <3>1. \A s \in Store : Loaded(s)'
      BY <1>v, <2>0, <2>6 DEF Publish, PhaseInv
    <3>2. /\ phase = "publish" /\ UNCHANGED owned
          /\ \/ phase' = "open" /\ published' = TRUE
             \/ phase' = "abort" /\ published' = published
      BY <2>6 DEF Publish
    <3> QED BY <2>0, <3>1, <3>2 DEF PhaseInv, Building, Loading
  <2> QED BY <2>1, <2>2, <2>3, <2>4, <2>5, <2>6 DEF BuildEnds, Building
<1> QED BY <1>0, <1>1, <1>2, <1>3 DEF IInv, StoresInv

\* One store works and the others rest.
LEMMA StoresWork ==
  ASSUME StoresInv, NEW s \in Store, StepKeeps(s), ~CloseAgain(s)
  PROVE  StoresInv'
BY StoreApart DEF StoresInv, StepKeeps

\* The constructor working on a store.
LEMMA ConstructWorks ==
  ASSUME IInv, BuildStep \/ PrepareBegins \/ PrepareStep \/ PrepareEnds \/ PrepareAborts
  PROVE  IInv'
<1> USE SessionAssumption
<1>a. PICK t \in Store : t = PhaseStore(phase)
  BY DEF PhaseStore
<1>b. PICK u \in Store : u # t /\ Store = {t, u}
  BY <1>a
<1>s. StoresInv /\ TypeOK /\ StoreInv(t) /\ StoreInv(u) /\ phase \notin {"open", "closed"}
  BY DEF IInv, SessionTypeOK, StoresInv, BuildStep, PrepareBegins, PrepareStep, PrepareEnds,
         PrepareAborts, Building, Loading
<1>u. UNCHANGED <<owned, published, mu, pc>>
  BY DEF BuildStep, PrepareBegins, PrepareStep, PrepareEnds, PrepareAborts, serverVars
<1>2. CASE BuildStep
  <2>1. Constructing(t) /\ phase \in Building /\ phase' = phase
    BY <1>2, <1>a DEF BuildStep, serverVars
  <2>2. StepKeeps(t) /\ (op'[t] = "idle" => ~closed'[t])
    BY <1>s, <2>1, ConstructingKeeps
  <2>3. ~CloseAgain(t)
    BY <2>1 DEF Constructing, MkdirTemp, MkdirTempFails, WriteFactor, Written, WriteFails, CloseAgain
  <2>4. StoresInv'
    BY <1>s, <2>2, <2>3, StoresWork
  <2>5. (Built(u) => Built(u)') /\ op'[u] = op[u]
    BY <1>b, <1>s, <2>2, StoreApart DEF StepKeeps, Others
  <2>6. PhaseInv'
    BY <1>a, <1>b, <1>u, <2>1, <2>2, <2>5 DEF IInv, PhaseInv, Building, Loading, PhaseStore
  <2>7. SessionTypeOK'
    BY <1>u, <2>1, <2>4 DEF IInv, SessionTypeOK, StoresInv
  <2>8. CallerInv'
    BY <1>u, <2>1 DEF IInv, CallerInv
  <2> QED BY <2>4, <2>6, <2>7, <2>8 DEF IInv, StoresInv
<1>3. CASE PrepareBegins \/ PrepareStep \/ PrepareEnds \/ PrepareAborts
  <2>1. phase \in Loading /\ (PrepareResident(t) \/ Preparing(t))
    BY <1>3, <1>a DEF PrepareBegins, PrepareStep, PrepareEnds, PrepareAborts, Preparing
  <2>2. StepKeeps(t) /\ closed' = closed /\ (PrepareRemoves(t) => Loaded(t)')
    BY <1>s, <2>1, PreparingKeeps
  <2>3. ~CloseAgain(t)
    BY <2>1, <1>a DEF IInv, PhaseInv, CloseAgain
  <2>4. StoresInv'
    BY <1>s, <2>2, <2>3, StoresWork
  <2>5. (Built(u) => Built(u)') /\ (Loaded(u) => Loaded(u)')
    BY <1>b, <1>s, <2>2, StoreApart DEF StepKeeps
  <2>6. phase' \in {phase, "abort"} \/ (phase' = AfterPhase(phase) /\ Loaded(t)')
    BY <1>3, <1>a, <2>2 DEF PrepareBegins, PrepareStep, PrepareEnds, PrepareAborts, serverVars
  <2>7. PhaseInv'
    <3>1. CASE phase = "prepareCTS"
      BY <1>a, <1>b, <1>u, <2>2, <2>5, <2>6, <3>1
         DEF IInv, PhaseInv, Building, Loading, PhaseStore, AfterPhase, Built
    <3>2. CASE phase = "prepareSTC"
      BY <1>a, <1>b, <1>u, <2>2, <2>5, <2>6, <3>2
         DEF IInv, PhaseInv, Building, Loading, PhaseStore, AfterPhase, Built
    <3> QED BY <2>1, <3>1, <3>2 DEF Loading
  <2>8. SessionTypeOK'
    BY <1>u, <2>1, <2>4, <2>6 DEF IInv, SessionTypeOK, StoresInv, Loading, AfterPhase
  <2>9. CallerInv'
    <3>1. \A c \in Call : pc[c] \notin Round \cup {"closing"}
      BY <1>s, NobodyInside DEF IInv
    <3> QED BY <1>u, <3>1 DEF IInv, CallerInv
  <2> QED BY <2>4, <2>7, <2>8, <2>9 DEF IInv, StoresInv
<1> QED BY <1>2, <1>3

\* The deferred cleanup closes a store.
LEMMA AbortKeeps ==
  ASSUME IInv, AbortCloses
  PROVE  IInv'
<1>1. PICK s \in Store : Close(s)
  BY DEF AbortCloses, IInv, SessionTypeOK
<1>2. StoresInv /\ TypeOK /\ StoreInv(s) /\ phase = "abort" /\ UNCHANGED serverVars
  BY DEF IInv, SessionTypeOK, StoresInv, AbortCloses
<1>3. StepKeeps(s) /\ ~CloseAgain(s) /\ op' = op
  BY <1>1, <1>2, CloseKeeps DEF Close, CloseAgain
<1>4. StoresInv'
  BY <1>2, <1>3, StoresWork
<1>5. SessionTypeOK' /\ CallerInv'
  BY <1>2, <1>4 DEF IInv, SessionTypeOK, CallerInv, StoresInv, serverVars
<1>6. PhaseInv'
  BY <1>2, <1>3 DEF IInv, PhaseInv, serverVars, Building, Loading
<1> QED BY <1>4, <1>5, <1>6 DEF IInv, StoresInv

\* The disk touches only frames.
LEMMA DiskKeepsSession ==
  ASSUME IInv, Disk
  PROVE  IInv'
<1>1. PICK s \in Store : DiskFault(s)
  BY DEF Disk
<1>2. StoresInv /\ TypeOK /\ StoreInv(s) /\ UNCHANGED serverVars
  BY DEF IInv, SessionTypeOK, StoresInv, Disk
<1>3. /\ StepKeeps(s)
      /\ UNCHANGED <<op, next, directory, exists, resident, diskLoads, closed, closeResult>>
  BY <1>1, <1>2, DiskKeeps
<1>4. LeftOver(s)'
  BY <1>2, <1>3 DEF StoresInv, LeftOver
<1>5. StoresInv'
  BY <1>2, <1>3, <1>4, StoreApart DEF StoresInv, StepKeeps
<1>6. \A t \in Store : (Built(t) => Built(t)') /\ (Loaded(t) => Loaded(t)')
  BY <1>3 DEF Built, Loaded
<1>7. SessionTypeOK' /\ CallerInv'
  BY <1>2, <1>5 DEF IInv, SessionTypeOK, CallerInv, StoresInv, serverVars
<1>8. PhaseInv'
  BY <1>2, <1>3, <1>6, SessionAssumption DEF IInv, PhaseInv, serverVars
<1> QED BY <1>5, <1>7, <1>8 DEF IInv, StoresInv

\* A caller, or nobody: the stores rest and the constructor has ended or rests.
LEMMA CallKeeps ==
  ASSUME IInv, NEW c \in Call,
         CallServer(c) \/ Locking(c) \/ PassFails(c) \/ Return(c) \/ CloseEnds(c)
  PROVE  IInv'
<1> USE SessionAssumption
<1>1. StoresInv /\ UNCHANGED <<storeVars, owned>>
  BY DEF IInv, SessionTypeOK, StoresInv, CallServer, Locking, Evaluate, Refuse, CloseServer,
         CloseServerAgain, PassFails, Return, CloseEnds
<1>2. StoresInv'
  BY <1>1, StoresAside
<1>3. \A s \in Store : (Built(s) => Built(s)') /\ (Loaded(s) => Loaded(s)')
  BY <1>1, FactsAside DEF storeVars
<1>4. \/ phase' = phase /\ published' = published
      \/ CloseServer(c) /\ phase = "open" /\ phase' = "closed" /\ published' = FALSE
  BY DEF CallServer, Locking, Evaluate, Refuse, CloseServer, CloseServerAgain, PassFails, Return,
         CloseEnds
<1>5. PhaseInv'
  <2>1. CASE phase' = phase /\ published' = published
    BY <1>1, <1>3, <2>1 DEF IInv, PhaseInv, storeVars
  <2>2. CASE phase' = "closed" /\ published' = FALSE
    BY <2>2 DEF PhaseInv, Building, Loading
  <2> QED BY <1>4, <2>1, <2>2
<1>6. /\ \A d \in Call : d # c => pc'[d] = pc[d]
      /\ pc' \in [Call -> {"idle", "evaluate", "close", "closing", "return"} \cup Round]
      /\ mu' \in Call \cup {None}
  BY DEF IInv, SessionTypeOK, CallServer, Locking, Evaluate, Refuse, CloseServer, CloseServerAgain,
         PassFails, Return, CloseEnds, To, Round
<1>7. SessionTypeOK'
  BY <1>1, <1>2, <1>4, <1>6 DEF IInv, SessionTypeOK, StoresInv
<1>8. CallerInv'
  <2>0. CallerInv /\ SessionTypeOK
    BY DEF IInv
  <2>1. CASE Evaluate(c) \/ CloseServer(c)
    <3>1. \A d \in Call : pc[d] \notin Round \cup {"closing", "return"}
      BY <2>0, <2>1, OneInside DEF Evaluate, CloseServer
    <3>2. /\ mu' = c
          /\ \/ pc'[c] = "stc0" /\ published'
             \/ pc'[c] = "closing" /\ phase' = "closed"
      BY <2>0, <2>1 DEF Evaluate, CloseServer, To, SessionTypeOK
    <3> QED BY <1>6, <3>1, <3>2 DEF CallerInv, Round
  <2>2. CASE CallServer(c) \/ Refuse(c) \/ CloseServerAgain(c)
    <3>1. /\ UNCHANGED <<mu, phase, published>>
          /\ pc'[c] \in {"idle", "evaluate", "close"}
      BY <2>0, <2>2 DEF CallServer, Refuse, CloseServerAgain, To, SessionTypeOK
    <3> QED BY <1>6, <2>0, <3>1 DEF CallerInv, Round
  <2>3. CASE PassFails(c) \/ CloseEnds(c)
    <3>1. /\ UNCHANGED <<mu, phase, published>>
          /\ pc'[c] = "return" /\ pc[c] \in Round \cup {"closing"}
      BY <2>0, <2>3 DEF PassFails, CloseEnds, To, SessionTypeOK
    <3> QED BY <1>6, <2>0, <3>1 DEF CallerInv, Round
  <2>4. CASE Return(c)
    <3>1. /\ UNCHANGED <<phase, published>>
          /\ pc'[c] = "idle" /\ pc[c] = "return"
      BY <2>0, <2>4 DEF Return, To, SessionTypeOK
    <3>2. \A d \in Call : d # c => pc[d] \notin Round \cup {"closing", "return"}
      BY <2>0, <3>1 DEF CallerInv
    <3> QED BY <1>6, <2>0, <3>1, <3>2 DEF CallerInv, Round
  <2> QED BY <2>1, <2>2, <2>3, <2>4 DEF Locking
<1> QED BY <1>2, <1>5, <1>7, <1>8 DEF IInv, StoresInv

\* A pass finds every factor resident and reads none.
LEMMA PassKeeps ==
  ASSUME IInv, NEW c \in Call, Pass(c)
  PROVE  IInv'
<1> USE SessionAssumption
<1>1. pc[c] \in Round /\ phase = "open" /\ mu = c /\ \A s \in Store : Loaded(s)
  BY DEF IInv, Pass, CallerInv, PhaseInv
<1>2. \A s \in Store, i \in Factor : resident[s][i] # Absent
  BY <1>1, FactorFacts DEF Loaded
<1>3. resident' = resident /\ diskLoads' = diskLoads
  <2>1. PICK s \in Store : s = PassStore(pc[c])
    BY DEF PassStore
  <2>2. {i \in Factor : resident[s][i] = Absent} = {}
    BY <1>2
  <2>3. /\ resident' = [resident EXCEPT ![s] = [i \in Factor |-> resident[s][i]]]
        /\ diskLoads' = [diskLoads EXCEPT ![s] = [i \in Factor |-> diskLoads[s][i]]]
    BY <2>1, <2>2 DEF Pass
  <2>4. resident \in [Store -> [Factor -> Factor \cup {Absent, Altered}]] /\ diskLoads \in [Store -> [Factor -> Nat]]
    BY DEF IInv, SessionTypeOK, TypeOK
  <2>5. /\ resident[s] = [i \in Factor |-> resident[s][i]]
        /\ diskLoads[s] = [i \in Factor |-> diskLoads[s][i]]
    BY <2>4
  <2> QED BY <2>3, <2>4, <2>5
<1>4. UNCHANGED <<storeVars, phase, owned, published, mu>>
  BY <1>3 DEF Pass, storeVars
<1>5. StoresInv'
  BY <1>4, StoresAside DEF IInv, SessionTypeOK, StoresInv
<1>6. PhaseInv'
  <2>1. \A s \in Store : Loaded(s)'
    BY <1>1, <1>4, FactsAside DEF storeVars
  <2> QED BY <1>1, <1>4, <2>1 DEF IInv, PhaseInv, Building, Loading
<1>7. /\ \A d \in Call : d # c => pc'[d] = pc[d]
      /\ pc'[c] \in Round \cup {"return"}
      /\ pc' \in [Call -> {"idle", "evaluate", "close", "closing", "return"} \cup Round]
  BY <1>1 DEF IInv, SessionTypeOK, Pass, To, AfterPass, Round
<1>8. SessionTypeOK'
  BY <1>4, <1>5, <1>7 DEF IInv, SessionTypeOK, StoresInv
<1>9. CallerInv'
  BY <1>1, <1>4, <1>7 DEF IInv, CallerInv, Round
<1> QED BY <1>5, <1>6, <1>8, <1>9 DEF IInv, StoresInv

\* Close of the server closes a store.
LEMMA CloseStoreKeeps ==
  ASSUME IInv, NEW c \in Call, CloseStore(c)
  PROVE  IInv'
<1>1. PICK s \in Store : Close(s)
  BY DEF CloseStore
<1>2. StoresInv /\ TypeOK /\ StoreInv(s) /\ phase = "closed" /\ UNCHANGED serverVars
  BY DEF IInv, SessionTypeOK, StoresInv, CloseStore, CallerInv
<1>3. StepKeeps(s) /\ ~CloseAgain(s)
  BY <1>1, <1>2, CloseKeeps DEF Close, CloseAgain
<1>4. StoresInv'
  BY <1>2, <1>3, StoresWork
<1>5. SessionTypeOK' /\ CallerInv'
  BY <1>2, <1>4 DEF IInv, SessionTypeOK, CallerInv, StoresInv, serverVars
<1>6. PhaseInv'
  BY <1>2 DEF IInv, PhaseInv, serverVars, Building, Loading
<1> QED BY <1>4, <1>5, <1>6 DEF IInv, StoresInv

LEMMA InitIInv == Init => IInv
<1> SUFFICES ASSUME Init PROVE IInv
  OBVIOUS
<1>1. TypeOK /\ \A s \in Store : StoreInv(s) /\ LeftOver(s)
  BY StoresInit DEF Init
<1>2. SessionTypeOK
  BY <1>1 DEF Init, SessionTypeOK
<1>3. PhaseInv /\ CallerInv
  BY DEF Init, StoreInit, PhaseInv, CallerInv, Building, Loading, Round
<1> QED BY <1>1, <1>2, <1>3 DEF IInv

LEMMA NextIInv == IInv /\ [Next]_vars => IInv'
<1> SUFFICES ASSUME IInv, [Next]_vars PROVE IInv'
  OBVIOUS
<1>1. CASE Disk
  BY <1>1, DiskKeepsSession
<1>2. CASE Construct
  BY <1>2, ConstructAside, ConstructWorks, AbortKeeps DEF Construct
<1>3. ASSUME NEW c \in Call, CallServer(c) \/ Locking(c) \/ Working(c) PROVE IInv'
  BY <1>3, CallKeeps, PassKeeps, CloseStoreKeeps DEF Working
<1>4. CASE UNCHANGED vars
  <2>1. UNCHANGED storeVars /\ UNCHANGED serverVars
    BY <1>4 DEF vars, storeVars, serverVars
  <2>2. \A s \in Store : /\ StoreInv(s)' /\ LeftOver(s)'
                         /\ (Built(s) => Built(s)') /\ (Loaded(s) => Loaded(s)')
    BY <2>1, FactsAside DEF IInv, storeVars
  <2>3. SessionTypeOK'
    BY <2>1 DEF IInv, SessionTypeOK, TypeOK, storeVars, serverVars
  <2>4. PhaseInv' /\ CallerInv'
    BY <2>1, <2>2, SessionAssumption DEF IInv, PhaseInv, CallerInv, storeVars, serverVars
  <2> QED BY <2>2, <2>3, <2>4 DEF IInv
<1> QED BY <1>1, <1>2, <1>3, <1>4 DEF Next

\* The session's inductive invariant, for any number of factors and callers.
THEOREM Session == Spec => []IInv
BY InitIInv, NextIInv, PTL DEF Spec

\* The stores under the session's constructor, its passes and its Close are read
\* as soundly as on their own (gao_full_packed_factor_store.go:188, 198, 152).
THEOREM SessionReads == Spec => []ReadsAreSound
<1>1. IInv => ReadsAreSound
  BY ReadsSound DEF IInv
<1> QED BY Session, <1>1, PTL

\* A directory on disk is one that a later call removes or one whose removal
\* failed, after a construction that failed as well
\* (gao_full_packed_factor_store.go:155, gao_full_packed_a2b.go:91).
THEOREM Removed == Spec => []DirectoriesRemoved
<1>1. IInv => DirectoriesRemoved
  <2> SUFFICES ASSUME IInv PROVE DirectoriesRemoved
    OBVIOUS
  <2>1. DirectoryNotForgotten
    BY DEF IInv, StoreInv, BackingInv, DirectoryNotForgotten
  <2>2. FailedLeavesNoStore
    BY DEF IInv, PhaseInv, LeftOver, FailedLeavesNoStore
  <2> QED BY <2>1, <2>2 DEF DirectoriesRemoved
<1> QED BY Session, <1>1, PTL

\* While the session is published every factor is resident and no directory is
\* left, and a pass is alone on the scratch buffers and closed by nobody
\* (gao_full_packed_session.go:365, 485, gao_full_packed_a2b.go:169).
THEOREM Undisturbed == Spec => []OnlineIsUndisturbed
<1>1. IInv => OnlineIsUndisturbed
  <2> SUFFICES ASSUME IInv PROVE OnlineIsUndisturbed
    OBVIOUS
  <2>1. OnlineIsResident
    BY DEF IInv, PhaseInv, Loaded, OnlineIsResident
  <2>2. ScratchIsExclusive
    BY DEF IInv, CallerInv, ScratchIsExclusive
  <2>3. NotClosedDuringPass
    BY DEF IInv, PhaseInv, CallerInv, Loaded, Built, NotClosedDuringPass
  <2> QED BY <2>1, <2>2, <2>3 DEF OnlineIsUndisturbed, PassIsUndisturbed
<1> QED BY Session, <1>1, PTL
=============================================================================
