------------------------- MODULE Functional8Engine -------------------------
(***************************************************************************)
(* The Functional8 engine of the public API: four signed 8-bit words per   *)
(* ciphertext, converted to bits and back, compared with public thresholds *)
(* and routed through a depth-2 tree.  Every value it hands out carries the*)
(* token of the engine that made it; an integer also says whether it is    *)
(* fresh and whether all its words were in the certified feature range.    *)
(* The engine's mutex is held for a whole call, so a call is one step.     *)
(*                                                                         *)
(* A circuit is used as its own evaluation leaves it: what it computes     *)
(* over the words modulo 2^n.  A comparison is the sign bit of a difference*)
(* of that width, so it is only right where the certificate says that the  *)
(* difference does not overflow.  The errors of circuits and encoders are  *)
(* left out; nothing is kept of a call that fails.                         *)
(***************************************************************************)
EXTENDS Z2nRing, Sequences

CONSTANTS
  Engines,
  Ranges,          \* of an engine: featureMin, featureMax, thresholdMin, thresholdMax
  Words,           \* the vectors of signed words that are encrypted, one per lane
  Thresholds,      \* the threshold vectors that are compared with
  Models,          \* the depth-2 models: features, thresholds, leaves
  MaxHandles       \* bound: values handed out



VARIABLES built,     \* the engines that could be constructed
          handles,   \* the values handed out
          answer     \* what the last decryption said

vars == <<built, handles, answer>>

Half == 2^(WordBits - 1)
Fits(k) == k \in -Half .. Half - 1
Signed(w) == IF Bit(w, WordBits - 1) = 1 THEN w - Modulus ELSE w

-----------------------------------------------------------------------------
\* NewSigned8NoOverflowRange
Certifiable(r) ==
  /\ r.featureMin <= r.featureMax /\ r.thresholdMin <= r.thresholdMax
  /\ \A end \in {r.featureMin, r.featureMax, r.thresholdMin, r.thresholdMax} : Fits(end)
  /\ Fits(r.featureMin - r.thresholdMax) /\ Fits(r.featureMax - r.thresholdMin)

InFeatureRange(e, k) == k \in Ranges[e].featureMin .. Ranges[e].featureMax
InThresholdRange(e, k) == k \in Ranges[e].thresholdMin .. Ranges[e].thresholdMax

\* The values, each with what it stands for, which only the properties read.
Int8(e, kind, admissible, words, plain) ==
  [type |-> "int", owner |-> e, kind |-> kind, comparisonAdmissible |-> admissible,
   content |-> words, plain |-> plain]
Other(e, type, content, plain) ==
  [type |-> type, owner |-> e, content |-> content, plain |-> plain]

\* ownsInt and its sisters.
Owns(e, h, type) == h.type = type /\ h.owner = e
OwnsIngress(e, h) == Owns(e, h, "int") /\ h.kind = "ingress"
Comparable(e, h) == OwnsIngress(e, h) /\ h.comparisonAdmissible

-----------------------------------------------------------------------------
\* What the circuits compute on a lane.

\* 1 - b7 of the difference modulo 2^n.
GreaterEqual(x, t) == 1 - Bit((x - t) % Modulus, WordBits - 1)

\* The source prefix: of two words, the one the bit selects, modulo 2^n.
SelectedWord(b, left, right) == (left + b * (right - left)) % Modulus

\* The selected-child circuit: the root's bit selects the feature and the
\* threshold of the one child that is compared, and both bits the leaf.
LeafOf(model, x) ==
  LET t == model.thresholds
      b0 == GreaterEqual(x[1], t[1])
      b1 == GreaterEqual(SelectedWord(b0, x[2], x[3]),
                         SelectedWord(b0, t[2] % Modulus, t[3] % Modulus))
      l == model.leaves
      a == l[1] + b1 * (l[2] - l[1])
      d == (l[3] - l[1]) + b1 * ((l[4] - l[3]) - (l[2] - l[1]))
  IN  a + b0 * d

Lanes(h) == DOMAIN h.content

-----------------------------------------------------------------------------
Init ==
  /\ built = {e \in Engines : Certifiable(Ranges[e])}
  /\ handles = <<>>
  /\ answer = [kind |-> "none"]

HandsOut(accepted, h) ==
  /\ Len(handles) < MaxHandles
  /\ IF accepted
     THEN handles' = Append(handles, h) /\ answer' = [kind |-> "value"]
     ELSE UNCHANGED handles /\ answer' = [kind |-> "refused"]
  /\ UNCHANGED built

Encrypt(e, words) ==
  HandsOut(TRUE,
    Int8(e, "ingress", \A i \in DOMAIN words : InFeatureRange(e, words[i]),
         [i \in DOMAIN words |-> words[i] % Modulus], words))

A2B(e, h) ==
  HandsOut(OwnsIngress(e, h),
    Other(e, "bits", [i \in Lanes(h) |-> A2BBooleanHalves(h.content[i])], h.plain))

\* The result is no fresh ingress: it exits at a lower level.
B2ACall(e, h) ==
  HandsOut(Owns(e, h, "bits"),
    Int8(e, "converted", FALSE, [i \in Lanes(h) |-> B2A(h.content[i])], h.plain))

\* Fault: any fresh value of the engine is compared.
FaultCompareGEPublic(e, h, t) ==
  HandsOut(OwnsIngress(e, h) /\ \A i \in DOMAIN t : InThresholdRange(e, t[i]),
    Other(e, "selector", [i \in Lanes(h) |-> GreaterEqual(h.content[i], t[i])],
          [i \in Lanes(h) |-> IF h.plain[i] >= t[i] THEN 1 ELSE 0]))
CompareGEPublic(e, h, t) ==
  HandsOut(Comparable(e, h) /\ \A i \in DOMAIN t : InThresholdRange(e, t[i]),
    Other(e, "selector", [i \in Lanes(h) |-> GreaterEqual(h.content[i], t[i])],
          [i \in Lanes(h) |-> IF h.plain[i] >= t[i] THEN 1 ELSE 0]))

\* The leaf the plaintext tree routes to.
Routed(model, x) ==
  LET t == model.thresholds
      right == x[1] >= t[1]
      child == IF right THEN x[3] >= t[3] ELSE x[2] >= t[2]
  IN  model.leaves[1 + (IF right THEN 2 ELSE 0) + (IF child THEN 1 ELSE 0)]

\* Only the features the model names are checked, one at a time.
EvaluateDepth2(e, features, model) ==
  LET at == model.features
      Contents(i) == [node \in 1..3 |-> features[at[node] + 1].content[i]]
      Plain(i) == [node \in 1..3 |-> features[at[node] + 1].plain[i]]
      accepted == /\ \A node \in 1..3 : InThresholdRange(e, model.thresholds[node])
                  /\ \A node \in 1..3 : at[node] \in 0 .. Len(features) - 1
                  /\ \A node \in 1..3 : Comparable(e, features[at[node] + 1])
  IN  HandsOut(accepted,
        Other(e, "real", [i \in Lanes(features[1]) |-> LeafOf(model, Contents(i))],
              [i \in Lanes(features[1]) |-> Routed(model, Plain(i))]))

\* Decrypt, DecryptBits, DecryptSelector and DecryptReal: a selector word other
\* than 0 or 1 is refused.
Decrypt(e, h) ==
  /\ UNCHANGED <<built, handles>>
  /\ answer' =
       IF h.owner # e THEN [kind |-> "refused"]
       ELSE [kind |-> h.type, plain |-> h.plain,
             said |-> IF h.type = "int" THEN [i \in Lanes(h) |-> Signed(h.content[i])]
                      ELSE IF h.type = "bits" THEN [i \in Lanes(h) |-> Signed(B2A(h.content[i]))]
                      ELSE h.content]

Made == {handles[i] : i \in DOMAIN handles}

Next ==
  \E e \in built :
    \/ \E words \in Words : Encrypt(e, words)
    \/ \E h \in Made :
         \/ h.type = "int" /\ A2B(e, h)
         \/ h.type = "bits" /\ B2ACall(e, h)
         \/ h.type = "int" /\ \E t \in Thresholds : CompareGEPublic(e, h, t)
         \/ Decrypt(e, h)
    \/ \E i, j \in DOMAIN handles, model \in Models :
         /\ handles[i].type = "int" /\ handles[j].type = "int"
         /\ EvaluateDepth2(e, <<handles[i], handles[j]>>, model)

Spec == Init /\ [][Next]_vars

-----------------------------------------------------------------------------
\* What an engine decrypts is what the plain words, the signed comparison or
\* the plain tree give: the certified range, the admissible flag and the fresh
\* ingress are together what makes the sign bit of a wrapped difference an
\* order, through any sequence of calls and between engines of other ranges.
AnswersAsPlain ==
  answer.kind \in {"int", "bits", "selector", "real"} => answer.said = answer.plain
=============================================================================
