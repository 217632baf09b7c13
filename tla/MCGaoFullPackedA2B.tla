------------------------- MODULE MCGaoFullPackedA2B -------------------------
(* A session with its two stores, or one store in the hands of a caller who  *)
(* does what the session never does: reads before PrepareResident, repeats   *)
(* a PrepareResident that failed, and closes twice.                          *)
EXTENDS GaoFullPackedA2B

VARIABLE alone

BothInit == Init /\ alone \in BOOLEAN

Alone == alone /\ StoreStep("cts") /\ UNCHANGED serverVars
Whole == ~alone /\ Next

BothNext == (Alone \/ Whole) /\ UNCHANGED alone

Both == BothInit /\ [][BothNext]_<<vars, alone>> /\ Fairness
=============================================================================
