-------------------------- MODULE LineageLifecycle --------------------------
(***************************************************************************)
(* What the Route-B lineage lifecycle promises, without its calls, locks   *)
(* and compare-and-swaps: every lineage walks one way through its stages,  *)
(* each admitted stage rests on a capacity sample newer than the previous  *)
(* one and not shared with another lineage of the same authority, an       *)
(* installed evaluator is used only after it was handed over, and Failed   *)
(* is final.                                                               *)
(***************************************************************************)
EXTENDS Naturals

CONSTANTS Authority, Lineage, Owner

VARIABLES
  stage,     \* the lineage's state
  evidence,  \* generation of the sample the lineage rests on
  handed     \* the installed evaluator has been returned to its caller

vars == <<stage, evidence, handed>>

InProgress == {"Building", "Readying", "Installing", "Preflighting"}

Init ==
  /\ stage = [l \in Lineage |-> "Zero"]
  /\ evidence = [l \in Lineage |-> 0]
  /\ handed = [l \in Lineage |-> FALSE]

\* A sample that is newer than the lineage's and that no other lineage of the
\* authority rests on.
Admit(l) ==
  /\ evidence'[l] > evidence[l]
  /\ evidence' = [evidence EXCEPT ![l] = evidence'[l]]
  /\ \A m \in Lineage : m # l /\ Owner[m] = Owner[l] => evidence[m] # evidence'[l]

Move(l, from, to) ==
  /\ stage[l] = from
  /\ stage' = [stage EXCEPT ![l] = to]

Mint(l) == Move(l, "Zero", "Authorized") /\ Admit(l) /\ UNCHANGED handed

Begin(l) ==
  /\ \/ Move(l, "Authorized", "Building")
     \/ Move(l, "PrivateUninstalled", "Readying")
     \/ Move(l, "Ready", "Installing")
     \/ handed[l] /\ Move(l, "InstalledUnverified", "Preflighting")
  /\ Admit(l)
  /\ UNCHANGED handed

\* A later operation rests on the sample of the first one.
Resume(l) == Move(l, "Operational", "Preflighting") /\ UNCHANGED <<evidence, handed>>

Finish(l) ==
  /\ \/ Move(l, "Building", "PrivateUninstalled")
     \/ Move(l, "Readying", "Ready")
     \/ Move(l, "Installing", "InstalledUnverified")
     \/ Move(l, "Preflighting", "Operational")
  /\ UNCHANGED <<evidence, handed>>

HandOver(l) ==
  /\ stage[l] = "InstalledUnverified" /\ ~handed[l]
  /\ handed' = [handed EXCEPT ![l] = TRUE]
  /\ UNCHANGED <<stage, evidence>>

\* Work in progress may fail, and so may an installation not yet handed over.
Fail(l) ==
  /\ stage[l] \in InProgress \/ (stage[l] = "InstalledUnverified" /\ ~handed[l])
  /\ stage' = [stage EXCEPT ![l] = "Failed"]
  /\ UNCHANGED <<evidence, handed>>

Next == \E l \in Lineage : Mint(l) \/ Begin(l) \/ Resume(l) \/ Finish(l)
                           \/ HandOver(l) \/ Fail(l)

Spec == Init /\ [][Next]_vars
=============================================================================
