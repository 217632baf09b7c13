--------------------------- MODULE OrderedFloat32 ---------------------------
(***************************************************************************)
(* OrderedFloat32Key of integer/treecompile, and the comparator view of a  *)
(* forest that CompileOrderedForest makes with it: every threshold is      *)
(* replaced by an unsigned key, so that an integer comparator can decide   *)
(* what float32 comparison decided.  A key is wrong only at a boundary:    *)
(* zeros of both signs, the smallest subnormals, the step between          *)
(* exponents, negative numbers.                                            *)
(*                                                                         *)
(* A bit pattern is an integer; a format has ExponentBits and FractionBits *)
(* (8 and 23 in the code).  A caller keys its features with the same       *)
(* function.                                                               *)
(***************************************************************************)
EXTENDS Integers

CONSTANTS ExponentBits, FractionBits

\* What the constants have to be; whoever instantiates this module assumes it.
FormatAssumption == ExponentBits \in Nat \ {0} /\ FractionBits \in Nat

VARIABLES feature, threshold,        \* bit patterns
          featureKey, thresholdKey,  \* their keys, NoKey until made
          status, branch

vars == <<feature, threshold, featureKey, thresholdKey, status, branch>>

-----------------------------------------------------------------------------
\* Bit patterns.

SignBit == 2^(ExponentBits + FractionBits)
Patterns == 0 .. 2 * SignBit - 1
Negative(bits) == bits >= SignBit
Magnitude(bits) == bits % SignBit
Exponent(bits) == Magnitude(bits) \div 2^FractionBits
NonFinite(bits) == Exponent(bits) = 2^ExponentBits - 1

\* The number a finite pattern stands for, in units of the smallest subnormal.
Size(bits) ==
  LET fraction == bits % 2^FractionBits
      e == Exponent(bits)
  IN  IF e = 0 THEN fraction ELSE (2^FractionBits + fraction) * 2^(e - 1)
Number(bits) == IF Negative(bits) THEN -Size(bits) ELSE Size(bits)

-----------------------------------------------------------------------------
NoKey == -1
\* Fault: negative numbers lose their sign bit and keep their order reversed.
FaultKey(bits) ==
  CASE Magnitude(bits) = 0 -> SignBit
    [] Magnitude(bits) # 0 /\ Negative(bits) -> bits - SignBit
    [] OTHER -> bits + SignBit
\* Fault: the zeros keep their own keys.
FaultKeyOfZero(bits) == IF Negative(bits) THEN 2 * SignBit - 1 - bits ELSE bits + SignBit
\* Fault: the sign bit is added to every pattern.
FaultKeyAdded(bits) == bits + SignBit
\* OrderedFloat32Key of a finite pattern.
Key(bits) ==
  CASE Magnitude(bits) = 0 -> SignBit
    [] Magnitude(bits) # 0 /\ Negative(bits) -> 2 * SignBit - 1 - bits
    [] OTHER -> bits + SignBit

Init ==
  /\ feature \in Patterns /\ threshold \in Patterns
  /\ featureKey = NoKey /\ thresholdKey = NoKey
  /\ status = "source" /\ branch = -1

\* CompileOrderedForest: the split's threshold.
CompileThreshold ==
  /\ status = "source"
  /\ IF NonFinite(threshold)
     THEN status' = "refused" /\ UNCHANGED thresholdKey
     ELSE status' = "compiled" /\ thresholdKey' = Key(threshold)
  /\ UNCHANGED <<feature, threshold, featureKey, branch>>

KeyFeature ==
  /\ status = "compiled"
  /\ IF NonFinite(feature)
     THEN status' = "refused" /\ UNCHANGED featureKey
     ELSE status' = "keyed" /\ featureKey' = Key(feature)
  /\ UNCHANGED <<feature, threshold, thresholdKey, branch>>

\* The split of the compiled tree.
Branch ==
  /\ status = "keyed"
  /\ branch' = IF featureKey < thresholdKey THEN 0 ELSE 1
  /\ status' = "decided"
  /\ UNCHANGED <<feature, threshold, featureKey, thresholdKey>>

Next == CompileThreshold \/ KeyFeature \/ Branch

Spec == Init /\ [][Next]_vars

-----------------------------------------------------------------------------
\* TypeOK: keys are unsigned words of the format's width, and the sentinel.
TypeOK ==
  /\ {featureKey, thresholdKey} \subseteq Patterns \union {NoKey}
  /\ status \in {"source", "refused", "compiled", "keyed", "decided"}
  /\ branch \in -1..1

\* The view routes as the source: the integer comparison of the keys decides
\* what the comparison of the numbers decides, for zeros of either sign,
\* subnormals, and across exponents and signs.
BranchIsSource ==
  status = "decided" => (branch = 1 <=> Number(feature) >= Number(threshold))

\* Keys are equal only for equal numbers, so no two thresholds of a tree merge.
KeysDistinguish ==
  status \in {"keyed", "decided"} =>
    (featureKey = thresholdKey <=> Number(feature) = Number(threshold))
=============================================================================
