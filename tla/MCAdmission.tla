---------------------------- MODULE MCAdmission ----------------------------
(***************************************************************************)
(* The byte numbers of the code in units of 256 bytes, and memories around *)
(* them.  Estimates are whole units; what comes out of a floor (guarded,   *)
(* remaining, excess) is what the code's floors give in units, less than   *)
(* two of them off its bytes.  The memories are the one the peak contract  *)
(* was frozen for, the same bytes under another id, one in which the       *)
(* combined plan projects to exactly the limit, one without an id, and one *)
(* whose limit overflows.                                                  *)
(***************************************************************************)
EXTENDS CapacityAdmission

Contract == [artifactPeak |-> 11593999, peak |-> 27851023, guarded |-> 30636125,
             remaining |-> 10099793, duplicate |-> 10317824, excess |-> 218031]
At(id, total, used) == [id |-> id, total |-> total, available |-> total - used]
Memory ==
  {At("contract", 131319464, 64319653), At("again", 131319464, 64319653),
   At("edge", 131319465, 105055572 - 30636125), At("", 131319464, 0), At("huge", 140000000, 0)}
=============================================================================
