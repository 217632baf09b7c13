------------------------- MODULE TerminalLeafProofs -------------------------
(***************************************************************************)
(* What holds of the terminal leaf circuit for all integer leaves and      *)
(* every selector error: the tables of levels, scales and counts fit one   *)
(* another, the magnitudes stay within the certificate, the output is the  *)
(* chosen leaf up to the certificate's tolerance, and failures are sealed  *)
(* with evidence that authenticates as long as nothing has changed.        *)
(*                                                                         *)
(* The inductive invariant LeafInv names the ciphertext of every stage in  *)
(* closed form: cts is a prefix of Table, whose entries are polynomials in *)
(* the leaves, the bits and the errors.  That a step appends the next      *)
(* entry is computed stage by stage from the operations of Ciphertexts     *)
(* (ComputedStage).  The ledger's recursion is replaced by a table of      *)
(* counts (CompletedIsLedger), so each counted step is arithmetic.  The    *)
(* certificate is then a statement about Table alone: bounds of products   *)
(* of integers, and one polynomial identity for the mux (MuxPolynomial).   *)
(***************************************************************************)
EXTENDS TerminalLeaf, TLAPS

\* Products and quotients of scales are scales.
LEMMA ScaleArithmetic ==
  /\ \A s, t \in Scales : Times(s, t) \in Scales /\ Over(s, t) \in Scales
  /\ \A i \in Factors : Prime(i) \in Scales
BY DEF Times, Over, Scales, Prime, One

\* Every level of the circuit has a prime.
LEMMA LevelsAreFactors == S \in Factors /\ 0..11 \subseteq Factors
BY TerminalAssumption, CiphertextAssumption DEF Factors

\* The scales of deriveSigned8Depth2TerminalScales are scales.
LEMMA TableScales ==
  /\ DefaultScale \in Scales /\ ScaleB1 \in Scales /\ ScaleB0 \in Scales
  /\ ScaleDelta \in Scales /\ ScaleRawA \in Scales /\ ScaleRawY \in Scales
  /\ \A i \in 0..11 : Prime(i) \in Scales
<1>1. DefaultScale \in Scales /\ \A i \in 0..11 : Prime(i) \in Scales
  BY ScaleArithmetic, LevelsAreFactors DEF DefaultScale
<1>2. ScaleB1 \in Scales /\ ScaleB0 \in Scales
  BY <1>1, ScaleArithmetic DEF ScaleB1, ScaleB0, SquaredS
<1>3. ScaleDelta \in Scales
  BY <1>1, <1>2, ScaleArithmetic DEF ScaleDelta
<1> QED BY <1>1, <1>2, <1>3, ScaleArithmetic DEF ScaleRawA, ScaleRawY

\* Dividing by what was multiplied in.
LEMMA Cancels ==
  ASSUME NEW s \in Scales, NEW t \in Scales, NEW u \in Scales
  PROVE  /\ Over(Times(s, Over(Times(t, u), s)), t) = u
         /\ Over(Times(s, t), s) = t
BY DEF Times, Over, Scales

\* Rescaling a branch or the gated difference gives the default scale, exactly: what
\* ScaleDelta is derived for.
LEMMA ScalesRescale ==
  /\ Over(ScaleRawA, Prime(8)) = DefaultScale
  /\ Over(ScaleRawY, Prime(7)) = DefaultScale
<1>1. Over(ScaleRawA, Prime(8)) = DefaultScale
  BY TableScales, Cancels DEF ScaleRawA, ScaleDelta
<1>2. Over(ScaleRawY, Prime(7)) = DefaultScale
  BY TableScales, Cancels DEF ScaleRawY
<1> QED BY <1>1, <1>2

\* A product of two ciphertexts, or of one and a plaintext.
LEMMA ProductOfOperands ==
  ASSUME NEW l, NEW s, NEW n, NEW d, NEW l2, NEW s2, NEW n2, NEW d2
  PROVE  Product(Operand(l, s, n, d), Operand(l2, s2, n2, d2))
           = Operand(Smaller(l, l2), Times(s, s2), n * n2, d + d2)
BY DEF Product, Operand

\* A ciphertext is a function on its five fields.
Fields == {"level", "scale", "num", "den", "exact"}
IsCiphertext(c) == c = [f \in Fields |-> c[f]]
\* Two ciphertexts with the same fields are equal.
LEMMA EqualFields ==
  ASSUME NEW c, NEW d, IsCiphertext(c), IsCiphertext(d),
         c.level = d.level, c.scale = d.scale, c.num = d.num, c.den = d.den,
         c.exact = d.exact
  PROVE  c = d
<1>1. \A f \in Fields : c[f] = d[f]
  BY DEF Fields
<1> QED BY <1>1 DEF IsCiphertext

\* A rescaled ciphertext.
LEMMA RescaledOperand ==
  ASSUME NEW l \in Int, NEW s, NEW n, NEW d
  PROVE  Rescaled(Operand(l, s, n, d)) = Operand(l - 1, Over(s, Prime(l)), n, d)
<1> DEFINE q == Rescaled(Operand(l, s, n, d))
           r == Operand(l - 1, Over(s, Prime(l)), n, d)
<1>1. q.level = l - 1 /\ q.scale = Over(s, Prime(l)) /\ q.num = n /\ q.den = d
        /\ q.exact = TRUE
  BY DEF Rescaled, Operand
<1>2. IsCiphertext(q) /\ IsCiphertext(r)
  BY DEF Rescaled, Operand, IsCiphertext, Fields
<1>3. r.level = l - 1 /\ r.scale = Over(s, Prime(l)) /\ r.num = n /\ r.den = d
        /\ r.exact = TRUE
  BY DEF Operand
<1> HIDE DEF q, r
<1>4. q = r
  BY <1>1, <1>2, <1>3, EqualFields, Zenon
<1> QED BY <1>4 DEF q, r

\* A ciphertext with one level dropped.
LEMMA DroppedOperand ==
  ASSUME NEW l \in Int, NEW s, NEW n, NEW d
  PROVE  Dropped(Operand(l, s, n, d), 1) = Operand(l - 1, s, n, d)
<1> DEFINE q == Dropped(Operand(l, s, n, d), 1)
           r == Operand(l - 1, s, n, d)
<1>1. q.level = l - 1 /\ q.scale = s /\ q.num = n /\ q.den = d /\ q.exact = TRUE
  BY DEF Dropped, Operand
<1>2. IsCiphertext(q) /\ IsCiphertext(r)
  BY DEF Dropped, Operand, IsCiphertext, Fields
<1>3. r.level = l - 1 /\ r.scale = s /\ r.num = n /\ r.den = d /\ r.exact = TRUE
  BY DEF Operand
<1> HIDE DEF q, r
<1>4. q = r
  BY <1>1, <1>2, <1>3, EqualFields, Zenon
<1> QED BY <1>4 DEF q, r

\* A sum of ciphertexts of one scale, whose numerators are brought to one denominator.
LEMMA SumOfOperands ==
  ASSUME NEW l, NEW s, NEW n, NEW d, NEW l2, NEW n2, NEW d2
  PROVE  SumOf(Operand(l, s, n, d), Operand(l2, s, n2, d2))
           = Operand(Smaller(l, l2), s,
                     n * Den^(Larger(d, d2) - d) + n2 * Den^(Larger(d, d2) - d2),
                     Larger(d, d2))
BY DEF SumOf, Operand, Scaled

\* The two sums of the circuit: a product and a cached plaintext, and the two
\* branches of the mux.
LEMMA SumOfProductAndPlain ==
  ASSUME NEW l, NEW s, NEW n \in Int, NEW l2, NEW n2 \in Int
  PROVE  SumOf(Operand(l, s, n, 1), Operand(l2, s, n2, 0))
           = Operand(Smaller(l, l2), s, n + n2 * Den, 1)
<1>1. Larger(1, 0) = 1 /\ 1 - 1 = 0 /\ 1 - 0 = 1
  BY DEF Larger
<1>2. SumOf(Operand(l, s, n, 1), Operand(l2, s, n2, 0))
        = Operand(Smaller(l, l2), s, n * Den^0 + n2 * Den^1, 1)
  BY <1>1, SumOfOperands
<1>3. n * Den^0 + n2 * Den^1 = n + n2 * Den
  BY PowersOfDen
<1> QED BY <1>2, <1>3

\* The sum of the two branches of the mux.
LEMMA SumOfBranches ==
  ASSUME NEW l, NEW s, NEW n \in Int, NEW l2, NEW n2 \in Int
  PROVE  SumOf(Operand(l, s, n, 1), Operand(l2, s, n2, 2))
           = Operand(Smaller(l, l2), s, n * Den + n2, 2)
<1>1. Larger(1, 2) = 2 /\ 2 - 1 = 1 /\ 2 - 2 = 0
  BY DEF Larger
<1>2. SumOf(Operand(l, s, n, 1), Operand(l2, s, n2, 2))
        = Operand(Smaller(l, l2), s, n * Den^1 + n2 * Den^0, 2)
  BY <1>1, SumOfOperands
<1>3. n * Den^1 + n2 * Den^0 = n * Den + n2
  BY PowersOfDen
<1> QED BY <1>2, <1>3

-----------------------------------------------------------------------------
\* The stages by their positions.
LEMMA StageTable ==
  /\ Len(Stages) = 12 /\ DOMAIN Stages = 1..12
  /\ Stages[1] = "DecodedChild" /\ Stages[2] = "RootSelector" /\ Stages[3] = "RawA"
  /\ Stages[4] = "RescaledA" /\ Stages[5] = "AffineA" /\ Stages[6] = "RawD"
  /\ Stages[7] = "RescaledD" /\ Stages[8] = "AffineD" /\ Stages[9] = "RawY"
  /\ Stages[10] = "RescaledY" /\ Stages[11] = "AlignedA" /\ Stages[12] = "Output"
BY DEF Stages

\* No two stages have one name.
LEMMA StageIndexOf == \A i \in 1..12 : StageIndex(Stages[i]) = i
<1> SUFFICES ASSUME NEW i \in 1..12 PROVE StageIndex(Stages[i]) = i
  OBVIOUS
<1>1. \A j \in 1..12 : Stages[j] = Stages[i] => j = i
  BY StageTable
<1> QED BY <1>1, StageTable DEF StageIndex

-----------------------------------------------------------------------------
\* What the stages are, as the leaves, the bits and the errors determine them.
X1 == bits.b1 * Den + error.b1
X0 == bits.b0 * Den + error.b0
NumA == X1 * DeltaL + leaves[1] * Den
NumD == X1 * Cross + DeltaX * Den
Table ==
  <<Operand(8, ScaleB1, X1, 1), Operand(7, ScaleB0, X0, 1),
    Operand(8, ScaleRawA, X1 * DeltaL, 1), Operand(7, DefaultScale, X1 * DeltaL, 1),
    Operand(7, DefaultScale, NumA, 1),
    Operand(8, ScaleRawA, X1 * Cross, 1), Operand(7, DefaultScale, X1 * Cross, 1),
    Operand(7, DefaultScale, NumD, 1),
    Operand(7, ScaleRawY, X0 * NumD, 2), Operand(6, DefaultScale, X0 * NumD, 2),
    Operand(6, DefaultScale, NumA, 1),
    Operand(6, DefaultScale, NumA * Den + X0 * NumD, 2)>>

Drawn ==
  /\ leaves \in [1..4 -> LeafValues]
  /\ bits \in [b0 : 0..1, b1 : 0..1]
  /\ error \in [b0 : {-1, 0, 1}, b1 : {-1, 0, 1}]

\* What the leaves, bits and errors determine are integers.
LEMMA DrawnAreIntegers ==
  ASSUME Drawn
  PROVE  /\ \A i \in 1..4 : leaves[i] \in Int
         /\ X0 \in Int /\ X1 \in Int /\ DeltaL \in Int /\ DeltaR \in Int
         /\ DeltaX \in Int /\ Cross \in Int /\ NumA \in Int /\ NumD \in Int
<1>1. \A i \in 1..4 : leaves[i] \in Int
  BY TerminalAssumption DEF Drawn
<1>2. DeltaL \in Int /\ DeltaR \in Int /\ DeltaX \in Int /\ Cross \in Int
  BY <1>1 DEF DeltaL, DeltaR, DeltaX, Cross
<1>3. X0 \in Int /\ X1 \in Int
  BY CiphertextAssumption DEF Drawn, X0, X1
<1>4. NumA \in Int
  <2>1. X1 * DeltaL \in Int /\ leaves[1] * Den \in Int
    BY <1>1, <1>2, <1>3, CiphertextAssumption
  <2> QED BY <2>1 DEF NumA
<1>5. NumD \in Int
  <2>1. X1 * Cross \in Int /\ DeltaX * Den \in Int
    BY <1>2, <1>3, CiphertextAssumption
  <2> QED BY <2>1 DEF NumD
<1> QED BY <1>1, <1>2, <1>3, <1>4, <1>5

\* The entries of the table by their positions.
LEMMA TableEntries ==
  /\ Len(Table) = 12 /\ DOMAIN Table = 1..12
  /\ Table[1] = Operand(8, ScaleB1, X1, 1) /\ Table[2] = Operand(7, ScaleB0, X0, 1)
  /\ Table[3] = Operand(8, ScaleRawA, X1 * DeltaL, 1)
  /\ Table[4] = Operand(7, DefaultScale, X1 * DeltaL, 1)
  /\ Table[5] = Operand(7, DefaultScale, NumA, 1)
  /\ Table[6] = Operand(8, ScaleRawA, X1 * Cross, 1)
  /\ Table[7] = Operand(7, DefaultScale, X1 * Cross, 1)
  /\ Table[8] = Operand(7, DefaultScale, NumD, 1)
  /\ Table[9] = Operand(7, ScaleRawY, X0 * NumD, 2)
  /\ Table[10] = Operand(6, DefaultScale, X0 * NumD, 2)
  /\ Table[11] = Operand(6, DefaultScale, NumA, 1)
  /\ Table[12] = Operand(6, DefaultScale, NumA * Den + X0 * NumD, 2)
BY DEF Table

\* Every entry of the table has the level and the scale that expectedStates asks for.
LEMMA ExpectedEntries ==
  \A i \in 1..12 : AsExpected(Table[i], i)
<1> SUFFICES ASSUME NEW i \in 1..12 PROVE AsExpected(Table[i], i)
  OBVIOUS
<1>1. i = 1 \/ i = 2 \/ i = 3 \/ i = 4 \/ i = 5 \/ i = 6
      \/ i = 7 \/ i = 8 \/ i = 9 \/ i = 10 \/ i = 11 \/ i = 12
  OBVIOUS
<1> QED BY <1>1, TableEntries DEF AsExpected, ExpectedStates, Expected, Operand

-----------------------------------------------------------------------------
\* the stages made so far
MadeUpTo(n) == cts = [i \in 1..n |-> Table[i]]

\* The ciphertext of a stage that was made.
LEMMA MadeStage ==
  ASSUME NEW n \in 0..12, MadeUpTo(n), NEW i \in 1..n
  PROVE  Made(Stages[i]) = Table[i]
<1>1. StageIndex(Stages[i]) = i
  BY StageIndexOf
<1> QED BY <1>1 DEF Made, MadeUpTo

\* What evaluateNew computes from the stages before is the next entry of the table,
\* whichever stage is next.
LEMMA ComputedStage ==
  ASSUME Drawn, NEW n \in 2..11, MadeUpTo(n)
  PROVE  Computed(Stages[n + 1]) = Table[n + 1]
<1> USE TableEntries, DrawnAreIntegers
<1>m. \A i \in 1..n : Made(Stages[i]) = Table[i]
  BY MadeStage
<1>1. CASE n = 2
  <2>1. Made("DecodedChild") = Operand(8, ScaleB1, X1, 1)
    BY <1>1, <1>m, StageTable
  <2>2. Computed("RawA") = Product(Operand(8, ScaleB1, X1, 1), Operand(8, ScaleDelta, DeltaL, 0))
    BY <2>1 DEF Computed, Cache
  <2>3. Computed("RawA") = Operand(8, ScaleRawA, X1 * DeltaL, 1)
    BY <2>2, ProductOfOperands DEF ScaleRawA, Smaller
  <2> QED BY <1>1, <2>3, StageTable
<1>2. CASE n = 3
  <2>1. Made("RawA") = Operand(8, ScaleRawA, X1 * DeltaL, 1)
    BY <1>2, <1>m, StageTable
  <2>2. Computed("RescaledA") = Rescaled(Operand(8, ScaleRawA, X1 * DeltaL, 1))
    BY <2>1 DEF Computed
  <2>3. Computed("RescaledA") = Operand(7, DefaultScale, X1 * DeltaL, 1)
    BY <2>2, RescaledOperand, ScalesRescale
  <2> QED BY <1>2, <2>3, StageTable
<1>3. CASE n = 4
  <2>1. Made("RescaledA") = Operand(7, DefaultScale, X1 * DeltaL, 1)
    BY <1>3, <1>m, StageTable
  <2>2. Computed("AffineA") = SumOf(Operand(7, DefaultScale, X1 * DeltaL, 1),
                                    Operand(7, DefaultScale, leaves[1], 0))
    BY <2>1 DEF Computed, Cache
  <2>3. X1 * DeltaL \in Int
    OBVIOUS
  <2>4. Computed("AffineA") = Operand(7, DefaultScale, NumA, 1)
    BY <2>2, <2>3, SumOfProductAndPlain DEF Smaller, NumA
  <2> QED BY <1>3, <2>3, <2>4, StageTable
<1>4. CASE n = 5
  <2>1. Made("DecodedChild") = Operand(8, ScaleB1, X1, 1)
    BY <1>4, <1>m, StageTable
  <2>2. Computed("RawD") = Product(Operand(8, ScaleB1, X1, 1), Operand(8, ScaleDelta, Cross, 0))
    BY <2>1 DEF Computed, Cache
  <2>3. Computed("RawD") = Operand(8, ScaleRawA, X1 * Cross, 1)
    BY <2>2, ProductOfOperands DEF ScaleRawA, Smaller
  <2> QED BY <1>4, <2>3, StageTable
<1>5. CASE n = 6
  <2>1. Made("RawD") = Operand(8, ScaleRawA, X1 * Cross, 1)
    BY <1>5, <1>m, StageTable
  <2>2. Computed("RescaledD") = Rescaled(Operand(8, ScaleRawA, X1 * Cross, 1))
    BY <2>1 DEF Computed
  <2>3. Computed("RescaledD") = Operand(7, DefaultScale, X1 * Cross, 1)
    BY <2>2, RescaledOperand, ScalesRescale
  <2> QED BY <1>5, <2>3, StageTable
<1>6. CASE n = 7
  <2>1. Made("RescaledD") = Operand(7, DefaultScale, X1 * Cross, 1)
    BY <1>6, <1>m, StageTable
  <2>2. Computed("AffineD") = SumOf(Operand(7, DefaultScale, X1 * Cross, 1),
                                    Operand(7, DefaultScale, DeltaX, 0))
    BY <2>1 DEF Computed, Cache
  <2>3. X1 * Cross \in Int
    OBVIOUS
  <2>4. Computed("AffineD") = Operand(7, DefaultScale, NumD, 1)
    BY <2>2, <2>3, SumOfProductAndPlain DEF Smaller, NumD
  <2> QED BY <1>6, <2>3, <2>4, StageTable
<1>7. CASE n = 8
  <2>1. Made("RootSelector") = Operand(7, ScaleB0, X0, 1)
        /\ Made("AffineD") = Operand(7, DefaultScale, NumD, 1)
    BY <1>7, <1>m, StageTable
  <2>2. Computed("RawY") = Product(Operand(7, ScaleB0, X0, 1), Operand(7, DefaultScale, NumD, 1))
    BY <2>1 DEF Computed
  <2>3. Computed("RawY") = Operand(7, ScaleRawY, X0 * NumD, 2)
    BY <2>2, ProductOfOperands DEF ScaleRawY, ScaleB0, Smaller
  <2> QED BY <1>7, <2>3, StageTable
<1>8. CASE n = 9
  <2>1. Made("RawY") = Operand(7, ScaleRawY, X0 * NumD, 2)
    BY <1>8, <1>m, StageTable
  <2>2. Computed("RescaledY") = Rescaled(Operand(7, ScaleRawY, X0 * NumD, 2))
    BY <2>1 DEF Computed
  <2>3. Computed("RescaledY") = Operand(6, DefaultScale, X0 * NumD, 2)
    BY <2>2, RescaledOperand, ScalesRescale
  <2> QED BY <1>8, <2>3, StageTable
<1>9. CASE n = 10
  <2>1. Made("AffineA") = Operand(7, DefaultScale, NumA, 1)
    BY <1>9, <1>m, StageTable
  <2>2. Computed("AlignedA") = Dropped(Operand(7, DefaultScale, NumA, 1), 1)
    BY <2>1 DEF Computed
  <2>3. Computed("AlignedA") = Operand(6, DefaultScale, NumA, 1)
    BY <2>2, DroppedOperand
  <2> QED BY <1>9, <2>3, StageTable
<1>10. CASE n = 11
  <2>1. Made("AlignedA") = Operand(6, DefaultScale, NumA, 1)
        /\ Made("RescaledY") = Operand(6, DefaultScale, X0 * NumD, 2)
    BY <1>10, <1>m, StageTable
  <2>2. Computed("Output") = SumOf(Operand(6, DefaultScale, NumA, 1),
                                   Operand(6, DefaultScale, X0 * NumD, 2))
    BY <2>1 DEF Computed
  <2>3. X0 * NumD \in Int
    OBVIOUS
  <2>4. Computed("Output") = Operand(6, DefaultScale, NumA * Den + X0 * NumD, 2)
    BY <2>2, <2>3, SumOfBranches DEF Smaller
  <2> QED BY <1>10, <2>3, <2>4, StageTable
<1> QED BY <1>1, <1>2, <1>3, <1>4, <1>5, <1>6, <1>7, <1>8, <1>9, <1>10

-----------------------------------------------------------------------------
\* The operation ledger of the stages before the i-th, kind by kind: the stages
\* at which a kind is counted are those the schedule names.
After(i, n) == IF i > n THEN 1 ELSE 0
Count(i, k) ==
  IF k = "CTPT" THEN After(i, 3) + After(i, 6)
  ELSE IF k = "Rescale" THEN After(i, 4) + After(i, 7) + After(i, 10)
  ELSE IF k = "PTAdd" THEN After(i, 5) + After(i, 8)
  ELSE IF k = "CTAdd" THEN After(i, 12)
  ELSE IF k = "Drop" THEN After(i, 11)
  ELSE After(i, 9)
Ledger == [i \in 3..13 |-> [k \in Kinds |-> Count(i, k)]]

\* What each operation counts.
LEMMA ReturnTable ==
  /\ OnReturn("RawA") = {"CTPT"} /\ OnReturn("RawD") = {"CTPT"}
  /\ OnReturn("RescaledA") = {"Rescale"} /\ OnReturn("RescaledD") = {"Rescale"}
  /\ OnReturn("RescaledY") = {"Rescale"}
  /\ OnReturn("AffineA") = {"PTAdd"} /\ OnReturn("AffineD") = {"PTAdd"}
  /\ OnReturn("RawY") = {"CTCT", "Relin"}
  /\ OnReturn("AlignedA") = {"Drop"} /\ OnReturn("Output") = {"CTAdd"}
BY DEF OnReturn, OnDispatch

\* An operation that returned has counted what it counted when it was dispatched.
LEMMA DispatchWithinReturn == \A s : OnDispatch(s) \subseteq OnReturn(s)
BY DEF OnReturn

\* From one stage to the next the ledger grows by that stage's operations.
LEMMA LedgerSteps ==
  \A i \in 3..12 : Ledger[i + 1] = Plus(Ledger[i], OnReturn(Stages[i]))
<1> SUFFICES ASSUME NEW i \in 3..12
             PROVE  Ledger[i + 1] = Plus(Ledger[i], OnReturn(Stages[i]))
  OBVIOUS
<1>1. ASSUME NEW k \in Kinds
      PROVE  Count(i + 1, k) = Count(i, k) + IF k \in OnReturn(Stages[i]) THEN 1 ELSE 0
  <2>1. i = 3 \/ i = 4 \/ i = 5 \/ i = 6 \/ i = 7 \/ i = 8 \/ i = 9 \/ i = 10
          \/ i = 11 \/ i = 12
    OBVIOUS
  <2>2. CASE i \in {3, 6}
    BY <2>2, StageTable, ReturnTable DEF Count, After, Kinds
  <2>3. CASE i \in {4, 7, 10}
    BY <2>3, StageTable, ReturnTable DEF Count, After, Kinds
  <2>4. CASE i \in {5, 8}
    BY <2>4, StageTable, ReturnTable DEF Count, After, Kinds
  <2>5. CASE i \in {9, 11, 12}
    BY <2>5, StageTable, ReturnTable DEF Count, After, Kinds
  <2> QED BY <2>1, <2>2, <2>3, <2>4, <2>5
<1>2. Ledger[i + 1] = [k \in Kinds |-> Count(i + 1, k)] /\ Ledger[i] = [k \in Kinds |-> Count(i, k)]
  BY DEF Ledger
<1> QED BY <1>1, <1>2 DEF Plus

\* The ledger starts at zero and ends at the counts of the profile.
LEMMA LedgerEnds == Ledger[3] = NoCounts /\ Ledger[13] = FullCounts
<1>1. Ledger[3] = NoCounts
  <2>1. \A k \in Kinds : Count(3, k) = 0
    BY DEF Count, After
  <2> QED BY <2>1 DEF Ledger, NoCounts
<1>2. Ledger[13] = FullCounts
  <2>1. FullCounts = [k \in Kinds |-> FullCounts[k]]
    BY DEF FullCounts, NoCounts
  <2>2. \A k \in Kinds : FullCounts[k] = Count(13, k)
    BY DEF FullCounts, NoCounts, Count, After, Kinds
  <2> HIDE DEF FullCounts
  <2> QED BY <2>1, <2>2 DEF Ledger
<1> QED BY <1>1, <1>2

\* The recursion of CompletedBefore has a solution, so the function is one.
Unfolds(f) ==
  f = [i \in 3..13 |->
         IF i = 3 THEN NoCounts ELSE Plus(f[i - 1], OnReturn(Stages[i - 1]))]

\* The recursive ledger satisfies its own equation.
LEMMA CompletedUnfolds == Unfolds(CompletedBefore)
<1>1. Unfolds(Ledger)
  <2>1. Ledger = [i \in 3..13 |-> Ledger[i]]
    BY DEF Ledger
  <2>2. ASSUME NEW i \in 3..13
        PROVE  Ledger[i] = IF i = 3 THEN NoCounts
                           ELSE Plus(Ledger[i - 1], OnReturn(Stages[i - 1]))
    <3>1. CASE i = 3
      BY <3>1, LedgerEnds
    <3>2. CASE i # 3
      <4>1. i - 1 \in 3..12 /\ (i - 1) + 1 = i
        BY <3>2
      <4> QED BY <4>1, <3>2, LedgerSteps
    <3> QED BY <3>1, <3>2
  <2> QED BY <2>1, <2>2 DEF Unfolds
<1>2. CompletedBefore = CHOOSE f : Unfolds(f)
  BY DEF CompletedBefore, Unfolds
<1> QED BY <1>1, <1>2

\* The recursive ledger (signed8Depth2TerminalLeafOperationProgressLedger) is the table.
LEMMA CompletedIsLedger == \A i \in 3..13 : CompletedBefore[i] = Ledger[i]
<1>1. CompletedBefore[3] = Ledger[3]
  BY CompletedUnfolds, LedgerEnds DEF Unfolds
<1>2. ASSUME NEW i \in 3..12, CompletedBefore[i] = Ledger[i]
      PROVE  CompletedBefore[i + 1] = Ledger[i + 1]
  <2>1. i + 1 \in 3..13 /\ i + 1 # 3 /\ (i + 1) - 1 = i
    OBVIOUS
  <2>2. CompletedBefore[i + 1] = Plus(CompletedBefore[i], OnReturn(Stages[i]))
    BY <2>1, CompletedUnfolds DEF Unfolds
  <2> QED BY <2>2, <1>2, LedgerSteps
<1>3. CompletedBefore[4] = Ledger[4] /\ CompletedBefore[5] = Ledger[5]
        /\ CompletedBefore[6] = Ledger[6] /\ CompletedBefore[7] = Ledger[7]
        /\ CompletedBefore[8] = Ledger[8]
  BY <1>1, <1>2
<1>4. CompletedBefore[9] = Ledger[9] /\ CompletedBefore[10] = Ledger[10]
        /\ CompletedBefore[11] = Ledger[11] /\ CompletedBefore[12] = Ledger[12]
        /\ CompletedBefore[13] = Ledger[13]
  BY <1>3, <1>2
<1> QED BY <1>1, <1>3, <1>4

\* What the proof of a step needs of the ledger.
LEMMA LedgerOfStages ==
  /\ CompletedBefore[3] = NoCounts /\ CompletedBefore[13] = FullCounts
  /\ \A i \in 3..12 : CompletedBefore[i + 1] = Plus(CompletedBefore[i], OnReturn(Stages[i]))
  /\ \A i \in 3..13 : CompletedBefore[i] \in [Kinds -> 0..3]
  /\ \A i \in 3..12 : Plus(CompletedBefore[i], OnDispatch(Stages[i])) \in [Kinds -> 0..3]
<1>1. CompletedBefore[3] = NoCounts /\ CompletedBefore[13] = FullCounts
  BY CompletedIsLedger, LedgerEnds
<1>2. \A i \in 3..12 : CompletedBefore[i + 1] = Plus(CompletedBefore[i], OnReturn(Stages[i]))
  BY CompletedIsLedger, LedgerSteps
<1>3. \A i \in 3..13 : \A k \in Kinds : Count(i, k) \in 0..3
  BY DEF Count, After
<1>4. \A i \in 3..13 : CompletedBefore[i] \in [Kinds -> 0..3]
  BY <1>3, CompletedIsLedger DEF Ledger
<1>5. ASSUME NEW i \in 3..12
      PROVE  Plus(CompletedBefore[i], OnDispatch(Stages[i])) \in [Kinds -> 0..3]
  <2> DEFINE c == CompletedBefore[i]
             d == CompletedBefore[i + 1]
  <2>1. c \in [Kinds -> 0..3] /\ d \in [Kinds -> 0..3] /\ d = Plus(c, OnReturn(Stages[i]))
    BY <1>2, <1>4
  <2> HIDE DEF c, d
  <2>2. ASSUME NEW k \in Kinds
        PROVE  c[k] + (IF k \in OnDispatch(Stages[i]) THEN 1 ELSE 0) \in 0..3
    <3>1. d[k] = c[k] + IF k \in OnReturn(Stages[i]) THEN 1 ELSE 0
      BY <2>1 DEF Plus
    <3>2. k \in OnDispatch(Stages[i]) => k \in OnReturn(Stages[i])
      BY DispatchWithinReturn
    <3>3. c[k] \in 0..3 /\ d[k] \in 0..3
      BY <2>1
    <3> QED BY <3>1, <3>2, <3>3
  <2> QED BY <2>2 DEF Plus, c
<1> QED BY <1>1, <1>2, <1>4, <1>5

-----------------------------------------------------------------------------
\* The inductive invariant, by the phases of evaluateNew.

Steps == Len(cts)
Chain == Steps \in 0..12 /\ MadeUpTo(Steps)

\* Before the selectors are admitted nothing has been done.
Unstarted ==
  phase \in {"decode", "check", "rejected"} =>
    /\ cts = <<>> /\ states = 0 /\ payloads = 0
    /\ attempted = NoCounts /\ completed = NoCounts
    /\ phase = "check" => decoder \in {"valid", "damaged"}

\* While the operations run, both ledgers are that of the stages made, and the
\* trace holds a prefix of them.
Running ==
  phase = "run" =>
    /\ Steps \in 2..12 /\ states \in 0..Steps /\ payloads = states
    /\ attempted = CompletedBefore[Steps + 1] /\ completed = CompletedBefore[Steps + 1]
    /\ decoder = "valid"

Verdict ==
  /\ phase \in {"decode", "check", "run", "returned"} => fault = "none"
  /\ phase = "returned" => Steps = 12 /\ intact
  /\ CleanRunReturns
  /\ FailureEvidenceAuthenticates

LeafInv == Drawn /\ TypeOK /\ Chain /\ Unstarted /\ Running /\ Verdict

\* The invariant holds before the decoder is called.
LEMMA InitLeafInv == Init => LeafInv
<1> SUFFICES ASSUME Init PROVE LeafInv
  OBVIOUS
<1>1. Drawn
  BY DEF Init, Drawn
<1>2. cts = <<>> /\ Len(cts) = 0
  BY DEF Init
<1>3. Chain
  BY <1>2 DEF Chain, MadeUpTo, Steps
<1>4. NoCounts \in [Kinds -> 0..3]
  BY DEF NoCounts
<1>5. TypeOK
  <2>1. phase = "decode" /\ states = 0 /\ payloads = 0 /\ decoder = "pending"
    BY DEF Init
  <2>2. intact \in BOOLEAN /\ sealed \in BOOLEAN
    BY DEF Init
  <2>3. attempted \in [Kinds -> 0..3] /\ completed \in [Kinds -> 0..3]
    BY <1>4 DEF Init
  <2> QED BY <1>2, <2>1, <2>2, <2>3 DEF TypeOK
<1>6. Unstarted /\ Running /\ Verdict
  BY <1>2 DEF Init, Unstarted, Running, Verdict, CleanRunReturns, Ended, FailureEvidenceAuthenticates
<1> QED BY <1>1, <1>3, <1>5, <1>6 DEF LeafInv

\* What the trace retains of a prefix of the stages has the expected states.
LEMMA RetainedPrefix ==
  ASSUME Chain, NEW n \in 0..Steps
  PROVE  ValidRetainedPrefix(n, n)
BY ExpectedEntries DEF Chain, MadeUpTo, ValidRetainedPrefix

\* A step that leaves the drawn values alone leaves the chain's values alone.
LEMMA TableFrame ==
  ASSUME UNCHANGED <<leaves, bits, error>>
  PROVE  Table' = Table
<1>1. DeltaL' = DeltaL /\ DeltaX' = DeltaX /\ DeltaR' = DeltaR
  BY DEF DeltaL, DeltaX, DeltaR
<1>2. Cross' = Cross
  BY <1>1 DEF Cross
<1>3. X0' = X0 /\ X1' = X1
  BY DEF X0, X1
<1>4. NumA' = NumA /\ NumD' = NumD
  BY <1>1, <1>2, <1>3 DEF NumA, NumD
<1> QED BY <1>1, <1>2, <1>3, <1>4 DEF Table

\* The same of the ciphertexts made so far.
LEMMA ChainFrame ==
  ASSUME UNCHANGED <<leaves, bits, error, cts>>, Chain
  PROVE  Chain'
<1>1. Table' = Table
  BY TableFrame
<1> QED BY <1>1 DEF Chain, MadeUpTo, Steps

\* A prefix of the table and its next entry are a prefix of the table.
LEMMA AppendToTable ==
  ASSUME NEW t, NEW n \in Nat, NEW s, s = [i \in 1..n |-> t[i]]
  PROVE  /\ Len(s) = n
         /\ Append(s, t[n + 1]) = [i \in 1 .. n + 1 |-> t[i]]
         /\ Len(Append(s, t[n + 1])) = n + 1
<1> DEFINE V == {t[i] : i \in 1 .. n + 1}
<1>1. s \in Seq(V)
  OBVIOUS
<1>2. Len(s) = n /\ t[n + 1] \in V /\ \A i \in 1..n : s[i] = t[i]
  OBVIOUS
<1> HIDE DEF V
<1> DEFINE r == Append(s, t[n + 1])
<1>3. r \in Seq(V) /\ Len(r) = n + 1
        /\ \A i \in 1 .. n + 1 : r[i] = IF i = n + 1 THEN t[n + 1] ELSE s[i]
  BY <1>1, <1>2
<1> HIDE DEF r
<1>4. r = [i \in 1 .. n + 1 |-> r[i]]
  BY <1>3
<1>5. ASSUME NEW i \in 1 .. n + 1 PROVE r[i] = t[i]
  <2>1. CASE i = n + 1
    BY <1>3, <2>1
  <2>2. CASE i # n + 1
    <3>1. i \in 1..n
      BY <2>2
    <3> QED BY <1>2, <1>3, <2>2, <3>1
  <2> QED BY <2>1, <2>2
<1>6. r = [i \in 1 .. n + 1 |-> t[i]]
  BY <1>4, <1>5
<1> QED BY <1>2, <1>3, <1>6 DEF r

-----------------------------------------------------------------------------
\* Every way to fail seals the trace it leaves; what remains to be shown of each
\* is that the faults the property lists leave one that authenticates while
\* nothing has changed.  That none does after a change is in Authenticates.
Accountable == {"dispatch", "operand", "state", "graph", "result"}

\* postFailure keeps the invariant, if the failures that are accountable are given a
\* trace that authenticates.
LEMMA FailKeepsLeafInv ==
  ASSUME LeafInv, UNCHANGED <<leaves, bits, error, cts, decoder>>,
         NEW what, NEW stage, NEW n \in 0..Steps, NEW digests \in {n, n - 1},
         NEW done \in [Kinds -> 0..3], NEW tried \in [Kinds -> 0..3],
         Fail(what, stage, n, digests, done, tried),
         what # "none",
         what \in Accountable /\ intact => Authenticates(stage, n, digests, done, tried)
  PROVE  LeafInv'
<1>1. Drawn'
  BY DEF LeafInv, Drawn
<1>2. Chain'
  BY ChainFrame DEF LeafInv
<1>3. phase' = "failed" /\ states' = n /\ payloads' = digests /\ completed' = done
        /\ attempted' = tried /\ intact' = intact /\ fault' = what
  BY DEF Fail
<1>4. Steps' = Steps /\ Steps \in Int /\ Steps <= 12 /\ n <= Steps
  <2>1. Steps' = Steps
    BY DEF Steps
  <2> QED BY <2>1 DEF LeafInv, Chain
<1>5. sealed' = Authenticates(stage, n, digests, done, tried)
  BY DEF Fail
<1>6. sealed' \in BOOLEAN
  BY <1>5 DEF Authenticates
<1>7. TypeOK'
  <2>1. decoder' \in {"pending", "valid", "damaged", "valid partial", "damaged partial"}
    BY DEF LeafInv, TypeOK
  <2>2. Len(cts)' <= 12 /\ states' <= Len(cts)' /\ payloads' \in {states', states' - 1}
    <3>1. Steps' <= 12 /\ states' <= Steps'
      BY <1>3, <1>4
    <3>2. payloads' \in {states', states' - 1}
      BY <1>3
    <3> QED BY <3>1, <3>2 DEF Steps
  <2>3. intact' \in BOOLEAN
    BY <1>3 DEF LeafInv, TypeOK
  <2> QED BY <1>3, <1>6, <2>1, <2>2, <2>3 DEF TypeOK
<1>8. Unstarted' /\ Running'
  BY <1>3 DEF Unstarted, Running
<1>9. Verdict'
  <2>1. what \in Accountable => (sealed' <=> intact')
    <3>1. Authenticates(stage, n, digests, done, tried) => intact
      BY DEF Authenticates
    <3> QED BY <1>3, <1>5, <3>1
  <2> QED BY <1>3, <2>1 DEF Verdict, CleanRunReturns, FailureEvidenceAuthenticates, Ended, Accountable
<1> QED BY <1>1, <1>2, <1>7, <1>8, <1>9 DEF LeafInv

\* A ledger of zeros is a ledger.
LEMMA NoCountsTyped == NoCounts \in [Kinds -> 0..3]
BY DEF NoCounts

\* Refusing the decoder's evidence, the input or a selector keeps the invariant.
LEMMA CheckDecoderStep ==
  ASSUME LeafInv, CheckDecoder
  PROVE  LeafInv'
<1> SUFFICES ASSUME NEW what \in {"decoder", "changed", "state"},
                    NEW stage \in {"DecodedChild", "RootSelector", "Admission"},
                    CheckFails(what, stage),
                    what = "state" => stage # "Admission"
             PROVE  LeafInv'
  BY DEF CheckDecoder
<1>1. Fail(what, stage, 0, 0, NoCounts, NoCounts)
        /\ UNCHANGED <<leaves, bits, error, cts, decoder>>
        /\ (what = "decoder" <=> decoder # "valid")
  BY DEF CheckFails
<1>2. what \in Accountable /\ intact => Authenticates(stage, 0, 0, NoCounts, NoCounts)
  <2> SUFFICES ASSUME what = "state", intact PROVE Authenticates(stage, 0, 0, NoCounts, NoCounts)
    BY DEF Accountable
  <2>1. decoder = "valid" /\ stage \in {"DecodedChild", "RootSelector"}
    BY <1>1
  <2>2. ValidProgress(stage, 0, NoCounts, NoCounts)
    BY <2>1 DEF ValidProgress
  <2>3. ValidRetainedPrefix(0, 0)
    BY DEF ValidRetainedPrefix
  <2> QED BY <2>1, <2>2, <2>3 DEF Authenticates
<1>3. 0 \in 0..Steps
  BY DEF LeafInv, Chain
<1> QED BY <1>1, <1>2, <1>3, NoCountsTyped, FailKeepsLeafInv

\* What happens before the decoder's evidence is checked keeps the invariant.
LEMMA BeforeTheRun ==
  ASSUME LeafInv, RejectedBeforeWork \/ \E evidence \in {"valid", "damaged"} : DecoderReturns(evidence)
  PROVE  LeafInv'
<1>1. UNCHANGED <<leaves, bits, error, cts, states, payloads, attempted, completed, intact,
                  failureStage, sealed>>
  BY DEF RejectedBeforeWork, DecoderReturns
<1>2. Drawn' /\ Chain'
  BY <1>1, ChainFrame DEF LeafInv, Drawn
<1>3. phase = "decode" /\ phase' \in {"rejected", "check"}
  BY DEF RejectedBeforeWork, DecoderReturns
<1>4. decoder' \in {"pending", "valid", "damaged", "valid partial", "damaged partial"}
        /\ (phase' = "check" => decoder' \in {"valid", "damaged"} /\ fault' = fault)
        /\ (phase' = "rejected" => fault' = "rejected")
  BY DEF RejectedBeforeWork, DecoderReturns, LeafInv, TypeOK
<1>5. TypeOK'
  <2>1. intact' \in BOOLEAN /\ sealed' \in BOOLEAN
    BY <1>1 DEF LeafInv, TypeOK
  <2>2. attempted' \in [Kinds -> 0..3] /\ completed' \in [Kinds -> 0..3]
    BY <1>1 DEF LeafInv, TypeOK
  <2>3. Len(cts)' <= 12 /\ states' <= Len(cts)' /\ payloads' \in {states', states' - 1}
    BY <1>1 DEF LeafInv, TypeOK
  <2> QED BY <1>3, <1>4, <2>1, <2>2, <2>3 DEF TypeOK
<1>6. Unstarted'
  BY <1>1, <1>3, <1>4 DEF LeafInv, Unstarted
<1>7. Running' /\ Verdict'
  BY <1>3, <1>4 DEF LeafInv, Running, Verdict, CleanRunReturns, Ended, FailureEvidenceAuthenticates
<1> QED BY <1>2, <1>5, <1>6, <1>7 DEF LeafInv

\* Lifting the decoder's partial trace keeps the invariant.
LEMMA DecoderFailsStep ==
  ASSUME LeafInv, NEW partial \in {"valid partial", "damaged partial"}, DecoderFails(partial)
  PROVE  LeafInv'
<1>1. UNCHANGED <<leaves, bits, error, cts, states, payloads, attempted, completed, intact>>
        /\ phase' = "failed" /\ fault' = "decoder" /\ decoder' = partial
        /\ sealed' = (partial = "valid partial" /\ intact)
  BY DEF DecoderFails
<1>2. Drawn' /\ Chain'
  BY <1>1, ChainFrame DEF LeafInv, Drawn
<1>3. TypeOK'
  <2>1. intact' \in BOOLEAN /\ sealed' \in BOOLEAN
    BY <1>1 DEF LeafInv, TypeOK
  <2>2. attempted' \in [Kinds -> 0..3] /\ completed' \in [Kinds -> 0..3]
    BY <1>1 DEF LeafInv, TypeOK
  <2>3. Len(cts)' <= 12 /\ states' <= Len(cts)' /\ payloads' \in {states', states' - 1}
    BY <1>1 DEF LeafInv, TypeOK
  <2> QED BY <1>1, <2>1, <2>2, <2>3 DEF TypeOK
<1>4. Unstarted' /\ Running' /\ Verdict'
  BY <1>1 DEF Unstarted, Running, Verdict, CleanRunReturns, Ended, FailureEvidenceAuthenticates
<1> QED BY <1>2, <1>3, <1>4 DEF LeafInv

\* The trace, the ledgers and the verdict of the steps that go on with the run.
LEMMA RunContinues ==
  ASSUME LeafInv, phase = "run", phase' = "run", Chain',
         UNCHANGED <<leaves, bits, error, decoder, intact, fault, failureStage, sealed>>,
         Steps' \in 2..12, states' \in 0..Steps', payloads' = states',
         attempted' = CompletedBefore[Steps' + 1], completed' = CompletedBefore[Steps' + 1]
  PROVE  LeafInv'
<1>1. Drawn'
  BY DEF LeafInv, Drawn
<1>2. decoder' = "valid" /\ intact' \in BOOLEAN /\ fault' = "none"
  BY DEF LeafInv, Running, Verdict, TypeOK
<1>3. TypeOK'
  <2>1. attempted' \in [Kinds -> 0..3] /\ completed' \in [Kinds -> 0..3]
    BY LedgerOfStages
  <2>2. Steps' <= 12 /\ states' <= Steps' /\ payloads' \in {states', states' - 1}
    OBVIOUS
  <2>3. sealed' \in BOOLEAN
    BY DEF LeafInv, TypeOK
  <2> QED BY <1>2, <2>1, <2>2, <2>3 DEF TypeOK, Steps
<1>4. Unstarted' /\ Running' /\ Verdict'
  BY <1>2 DEF Unstarted, Running, Verdict, CleanRunReturns, Ended, FailureEvidenceAuthenticates
<1> QED BY <1>1, <1>3, <1>4 DEF LeafInv

\* Admitting the two selectors keeps the invariant: both are in the expected states.
LEMMA AdmitStep ==
  ASSUME LeafInv, Admit
  PROVE  LeafInv'
<1>1. /\ UNCHANGED <<leaves, bits, error, states, payloads, attempted, completed,
                      decoder, intact, fault, failureStage, sealed>>
      /\ phase = "check" /\ phase' = "run" /\ decoder = "valid"
      /\ cts' = <<DecodedChild, RootSelector>>
  BY DEF Admit
<1>2. cts' = [i \in 1..2 |-> Table[i]]
  <2>1. Table[1] = DecodedChild /\ Table[2] = RootSelector
    BY TableEntries DEF DecodedChild, RootSelector, Selector, X0, X1
  <2> QED BY <1>1, <2>1
<1>3. Steps' = 2 /\ Table' = Table
  BY <1>1, TableFrame DEF Steps
<1>4. Chain'
  BY <1>2, <1>3 DEF Chain, MadeUpTo
<1>5. states' = 0 /\ payloads' = 0 /\ attempted' = NoCounts /\ completed' = NoCounts
        /\ intact' \in BOOLEAN /\ fault' = "none"
  BY <1>1 DEF LeafInv, Unstarted, Verdict, TypeOK
<1>6. attempted' = CompletedBefore[3] /\ completed' = CompletedBefore[3]
  BY <1>5, LedgerOfStages
<1>7. Drawn'
  BY <1>1 DEF LeafInv, Drawn
<1>8. TypeOK'
  <2>1. attempted' \in [Kinds -> 0..3] /\ completed' \in [Kinds -> 0..3]
    BY <1>5, NoCountsTyped
  <2>2. Steps' <= 12 /\ states' <= Steps' /\ payloads' \in {states', states' - 1}
    BY <1>3, <1>5
  <2>3. sealed' \in BOOLEAN
    BY <1>1 DEF LeafInv, TypeOK
  <2> QED BY <1>1, <1>5, <2>1, <2>2, <2>3 DEF TypeOK, Steps
<1>9. Unstarted' /\ Running' /\ Verdict'
  <2>1. Running'
    BY <1>1, <1>3, <1>5, <1>6 DEF Running
  <2> QED BY <1>1, <1>5, <2>1 DEF Unstarted, Verdict, CleanRunReturns, Ended, FailureEvidenceAuthenticates
<1> QED BY <1>4, <1>7, <1>8, <1>9 DEF LeafInv

\* Taking the snapshot of a stage keeps the invariant.
LEMMA SnapshotStep ==
  ASSUME LeafInv, Snapshot
  PROVE  LeafInv'
<1>1. /\ UNCHANGED <<leaves, bits, error, phase, cts, attempted, completed, decoder,
                 intact, fault, failureStage, sealed>>
      /\ phase = "run" /\ states < Steps /\ states' = states + 1 /\ payloads' = payloads + 1
  BY DEF Snapshot, Steps
<1>2. Chain' /\ Steps' = Steps
  BY <1>1, ChainFrame DEF LeafInv, Steps
<1>3. Steps \in 2..12 /\ states \in 0..Steps /\ payloads = states
        /\ attempted = CompletedBefore[Steps + 1] /\ completed = CompletedBefore[Steps + 1]
  BY <1>1 DEF LeafInv, Running
<1>4. states' \in 0..Steps' /\ payloads' = states' /\ Steps' \in 2..12
  BY <1>1, <1>2, <1>3
<1>5. attempted' = CompletedBefore[Steps' + 1] /\ completed' = CompletedBefore[Steps' + 1]
  BY <1>1, <1>2, <1>3
<1> QED BY <1>1, <1>2, <1>4, <1>5, RunContinues

\* A snapshot that fails keeps the invariant, with the payload digested or not.
LEMMA SnapshotFailsStep ==
  ASSUME LeafInv, SnapshotFails
  PROVE  LeafInv'
<1>1. PICK n : n = states
  OBVIOUS
<1>2. PICK done : done = completed
  OBVIOUS
<1>3. PICK s : s = Stages[states + 1]
  OBVIOUS
<1>4. PICK digests : digests = payloads
  OBVIOUS
<1>5. Steps \in 2..12 /\ n \in 0..Steps /\ digests = n
        /\ attempted = done /\ n < Steps
  BY <1>1, <1>2, <1>4 DEF SnapshotFails, LeafInv, Running, Steps
<1>6. done \in [Kinds -> 0..3]
  BY <1>2 DEF LeafInv, TypeOK
<1>7. UNCHANGED <<leaves, bits, error, cts, decoder>>
  BY DEF SnapshotFails
<1>8. CASE Fail("snapshot", s, n, n, done, done)
  BY <1>5, <1>6, <1>7, <1>8, FailKeepsLeafInv DEF Accountable
<1>9. CASE Fail("payload", s, n + 1, n, done, done)
  <2>1. n + 1 \in 0..Steps /\ n \in {n + 1, (n + 1) - 1}
    BY <1>5
  <2> QED BY <1>6, <1>7, <1>9, <2>1, FailKeepsLeafInv DEF Accountable
<1>10. Fail("snapshot", s, n, n, done, done) \/ Fail("payload", s, n + 1, n, done, done)
  BY <1>1, <1>2, <1>3, <1>4, <1>5 DEF SnapshotFails
<1> QED BY <1>8, <1>9, <1>10

\* The next stage, its index and its name.
LEMMA ReadyStage ==
  ASSUME LeafInv, Ready
  PROVE  /\ phase = "run" /\ Steps \in 2..11 /\ states = Steps /\ payloads = Steps
         /\ NextStage = Stages[Steps + 1] /\ StageIndex(NextStage) = Steps + 1
         /\ attempted = CompletedBefore[Steps + 1] /\ completed = CompletedBefore[Steps + 1]
         /\ decoder = "valid"
         /\ Plus(completed, OnReturn(NextStage)) = CompletedBefore[Steps + 2]
         /\ Plus(attempted, OnReturn(NextStage)) = CompletedBefore[Steps + 2]
<1>1. phase = "run" /\ Steps \in 2..12 /\ states = Steps /\ payloads = Steps /\ Steps < 12
        /\ attempted = CompletedBefore[Steps + 1] /\ completed = CompletedBefore[Steps + 1]
        /\ decoder = "valid"
  <2>1. phase = "run" /\ states = Steps /\ Steps < 12
    BY StageTable DEF Ready, Steps
  <2> QED BY <2>1 DEF LeafInv, Running
<1>2. NextStage = Stages[Steps + 1]
  BY DEF NextStage, Steps
<1>3. Steps + 1 \in 3..12 /\ (Steps + 1) + 1 = Steps + 2
  BY <1>1
<1>4. StageIndex(NextStage) = Steps + 1
  BY <1>2, <1>3, StageIndexOf
<1>5. CompletedBefore[Steps + 2] = Plus(CompletedBefore[Steps + 1], OnReturn(NextStage))
  BY <1>2, <1>3, LedgerOfStages
<1> QED BY <1>1, <1>2, <1>3, <1>4, <1>5

\* An operation keeps the invariant: what it makes is the next entry of the table, so
\* the check of its level and scale does not refuse it.
LEMMA OperateStep ==
  ASSUME LeafInv, Operate
  PROVE  LeafInv'
<1>1. Ready
  BY DEF Operate
<1>2. Computed(NextStage) = Table[Steps + 1]
  <2>1. MadeUpTo(Steps) /\ Drawn
    BY DEF LeafInv, Chain
  <2> QED BY <1>1, <2>1, ReadyStage, ComputedStage
<1>3. Steps + 1 \in 1..12
  BY <1>1, ReadyStage
<1>4. AsExpected(Computed(NextStage), Steps + 1)
  BY <1>2, <1>3, ExpectedEntries
<1>5. /\ cts' = Append(cts, Table[Steps + 1])
      /\ attempted' = CompletedBefore[Steps + 2] /\ completed' = CompletedBefore[Steps + 2]
      /\ UNCHANGED <<leaves, bits, error, decoder, phase, states, payloads, intact,
                     fault, failureStage, sealed>>
  BY <1>1, <1>2, <1>4, ReadyStage DEF Operate, Steps
<1>6. Table' = Table
  BY <1>5, TableFrame
<1>7. Steps' = Steps + 1 /\ cts' = [i \in 1 .. Steps + 1 |-> Table[i]]
  <2>1. PICK n \in 0..12 : n = Steps
    BY DEF LeafInv, Chain
  <2>2. PICK t : t = Table
    OBVIOUS
  <2>3. cts = [i \in 1..n |-> t[i]]
    BY <2>1, <2>2 DEF LeafInv, Chain, MadeUpTo
  <2>4. PICK s : s = cts
    OBVIOUS
  <2>5. Append(s, t[n + 1]) = [i \in 1 .. n + 1 |-> t[i]] /\ Len(Append(s, t[n + 1])) = n + 1
    BY <2>1, <2>3, <2>4, AppendToTable
  <2>6. cts' = Append(s, t[n + 1])
    BY <1>5, <2>1, <2>2, <2>4
  <2>7. Len(cts') = n + 1
    BY <2>5, <2>6
  <2> QED BY <2>1, <2>2, <2>5, <2>6, <2>7 DEF Steps
<1>8. Chain'
  <2>1. Steps' \in 0..12
    BY <1>3, <1>7
  <2> QED BY <1>6, <1>7, <2>1 DEF Chain, MadeUpTo
<1>9. phase = "run" /\ phase' = "run" /\ Steps' \in 2..12 /\ states' \in 0..Steps'
        /\ payloads' = states'
        /\ attempted' = CompletedBefore[Steps' + 1] /\ completed' = CompletedBefore[Steps' + 1]
  <2>1. phase = "run" /\ Steps \in 2..11 /\ states = Steps /\ payloads = Steps
    BY <1>1, ReadyStage
  <2>2. Steps' + 1 = Steps + 2
    BY <1>7, <2>1
  <2> QED BY <1>5, <1>7, <2>1, <2>2
<1> QED BY <1>5, <1>8, <1>9, RunContinues

\* An operation that returned an error, and one whose result is refused.
LEMMA OperationFailsStep ==
  ASSUME LeafInv, OperationFails \/ \E what \in {"operand", "state"} : OperationCorrupts(what)
  PROVE  LeafInv'
<1>1. Ready /\ UNCHANGED <<leaves, bits, error, cts, decoder>>
  BY DEF OperationFails, OperationCorrupts
<1>2. PICK n \in 2..11 : n = Steps
  BY <1>1, ReadyStage
<1>3. PICK s : s = NextStage
  OBVIOUS
<1>4. s = Stages[n + 1] /\ StageIndex(s) = n + 1 /\ states = n /\ payloads = n
        /\ decoder = "valid" /\ completed = CompletedBefore[n + 1]
        /\ attempted = CompletedBefore[n + 1]
        /\ Plus(completed, OnReturn(s)) = CompletedBefore[n + 2]
        /\ Plus(attempted, OnReturn(s)) = CompletedBefore[n + 2]
  BY <1>1, <1>2, <1>3, ReadyStage
<1>5. n + 1 \in 3..12 /\ n + 2 \in 3..13 /\ n \in 0..Steps /\ n \in {n, n - 1}
  BY <1>2
<1>6. ValidRetainedPrefix(n, n)
  BY <1>5, RetainedPrefix DEF LeafInv
<1>7. s \notin {"DecodedChild", "RootSelector", "Admission", "Preflight"}
  <2>1. n = 2 \/ n = 3 \/ n = 4 \/ n = 5 \/ n = 6 \/ n = 7 \/ n = 8 \/ n = 9 \/ n = 10 \/ n = 11
    BY <1>2
  <2> QED BY <1>4, <2>1, StageTable
<1>8. CASE OperationFails
  <2> DEFINE done == CompletedBefore[n + 1]
             tried == Plus(CompletedBefore[n + 1], OnDispatch(s))
  <2>1. CanReturnError(s) /\ Fail("dispatch", s, n, n, done, tried)
    BY <1>3, <1>4, <1>8 DEF OperationFails
  <2>2. ValidProgress(s, n, done, tried)
    <3>1. n = StageIndex(s) - 1 /\ StageIndex(s) = n + 1
      BY <1>4, <1>5
    <3> QED BY <1>7, <2>1, <3>1 DEF ValidProgress
  <2>3. intact => Authenticates(s, n, n, done, tried)
    BY <1>4, <1>6, <2>2 DEF Authenticates
  <2>4. done \in [Kinds -> 0..3] /\ tried \in [Kinds -> 0..3]
    BY <1>4, <1>5, LedgerOfStages
  <2> HIDE DEF done, tried
  <2> QED BY <1>1, <1>5, <2>1, <2>3, <2>4, FailKeepsLeafInv
<1>9. ASSUME NEW what \in {"operand", "state"}, OperationCorrupts(what)
      PROVE  LeafInv'
  <2> DEFINE done == CompletedBefore[n + 2]
  <2>1. Fail(what, s, n, n, done, done)
    BY <1>3, <1>4, <1>9 DEF OperationCorrupts
  <2>2. ValidProgress(s, n, done, done)
    <3>1. n = StageIndex(s) - 1 /\ StageIndex(s) + 1 = n + 2
      BY <1>4, <1>5
    <3> QED BY <1>7, <3>1 DEF ValidProgress
  <2>3. intact => Authenticates(s, n, n, done, done)
    BY <1>4, <1>6, <2>2 DEF Authenticates
  <2>4. done \in [Kinds -> 0..3]
    BY <1>5, LedgerOfStages
  <2> HIDE DEF done
  <2> QED BY <1>1, <1>5, <2>1, <2>3, <2>4, FailKeepsLeafInv
<1> QED BY <1>8, <1>9

\* When all stages are made the ledgers are those of the profile.
LEMMA FinishingState ==
  ASSUME LeafInv, Finishing
  PROVE  /\ phase = "run" /\ Steps = 12 /\ states = 12 /\ payloads = 12
         /\ attempted = FullCounts /\ completed = FullCounts
         /\ decoder = "valid"
<1>1. phase = "run" /\ states = 12
  BY StageTable DEF Finishing
<1>2. Steps \in 2..12 /\ states \in 0..Steps /\ payloads = states
        /\ attempted = CompletedBefore[Steps + 1] /\ completed = CompletedBefore[Steps + 1]
        /\ decoder = "valid"
  BY <1>1 DEF LeafInv, Running
<1>3. Steps = 12
  BY <1>1, <1>2
<1>4. Steps + 1 = 13
  BY <1>3
<1> QED BY <1>1, <1>2, <1>3, <1>4, LedgerOfStages

\* A failure in the checks at the end keeps the invariant.
LEMMA FailToFinishStep ==
  ASSUME LeafInv, FailToFinish
  PROVE  LeafInv'
<1> SUFFICES ASSUME NEW what \in {"graph", "changed", "result"},
                    NEW stage \in {"Preflight", "Admission", "Output"},
                    FinishFails(what, stage),
                    what # "changed" => stage # "Admission"
             PROVE  LeafInv'
  BY DEF FailToFinish
<1>1. UNCHANGED <<leaves, bits, error, cts, decoder>> /\ Finishing
  BY DEF FinishFails
<1>2. /\ phase = "run" /\ Steps = 12 /\ states = 12 /\ payloads = 12
      /\ attempted = FullCounts /\ completed = FullCounts /\ decoder = "valid"
  BY <1>1, FinishingState
<1>3. Fail(what, stage, 12, 12, FullCounts, FullCounts)
  BY <1>2 DEF FinishFails
<1>4. FullCounts \in [Kinds -> 0..3] /\ FullCounts = CompletedBefore[13]
  BY LedgerOfStages
<1>5. ASSUME intact, stage \in {"Preflight", "Output"}
      PROVE  Authenticates(stage, 12, 12, FullCounts, FullCounts)
  <2>1. ValidRetainedPrefix(12, 12)
    BY <1>2, RetainedPrefix DEF LeafInv
  <2>2. CASE stage = "Preflight"
    <3>1. ValidProgress(stage, 12, FullCounts, FullCounts)
      BY <2>2 DEF ValidProgress
    <3> QED BY <1>2, <1>5, <2>1, <3>1 DEF Authenticates
  <2>3. CASE stage = "Output"
    <3>1. StageIndex(stage) = 12
      BY <2>3, StageTable, StageIndexOf
    <3>2. FullCounts = CompletedBefore[StageIndex(stage) + 1]
      BY <1>4, <3>1
    <3>3. ValidProgress(stage, 12, FullCounts, FullCounts)
      BY <2>3, <3>1, <3>2 DEF ValidProgress
    <3> QED BY <1>2, <1>5, <2>1, <3>3 DEF Authenticates
  <2> QED BY <1>5, <2>2, <2>3
<1>6. what \in Accountable /\ intact => Authenticates(stage, 12, 12, FullCounts, FullCounts)
  BY <1>5 DEF Accountable
<1>7. PICK n \in 0..Steps : n = 12
  BY <1>2
<1>8. PICK full \in [Kinds -> 0..3] : full = FullCounts
  BY <1>4
<1>9. Fail(what, stage, n, n, full, full) /\ n \in {n, n - 1} /\ what # "none"
  BY <1>3, <1>7, <1>8
<1>10. what \in Accountable /\ intact => Authenticates(stage, n, n, full, full)
  BY <1>6, <1>7, <1>8
<1> QED BY <1>1, <1>9, <1>10, FailKeepsLeafInv

\* Returning keeps the invariant: the comparison of the ledgers lets the run through.
LEMMA ReturnStep ==
  ASSUME LeafInv, Return
  PROVE  LeafInv'
<1>1. Finishing /\ UNCHANGED <<leaves, bits, error, cts, decoder>>
  BY DEF Return
<1>2. phase = "run" /\ Steps = 12 /\ attempted = FullCounts /\ completed = FullCounts
  BY <1>1, FinishingState
<1>3. phase' = "returned" /\ intact
        /\ UNCHANGED <<states, payloads, attempted, completed, intact, fault,
                       failureStage, sealed>>
  BY <1>2 DEF Return, LedgerFits
<1>4. Drawn' /\ Chain' /\ Steps' = Steps
  BY <1>1, ChainFrame DEF LeafInv, Drawn, Steps
<1>5. TypeOK'
  <2>1. intact' \in BOOLEAN /\ sealed' \in BOOLEAN
    BY <1>3 DEF LeafInv, TypeOK
  <2>2. attempted' \in [Kinds -> 0..3] /\ completed' \in [Kinds -> 0..3]
    BY <1>3 DEF LeafInv, TypeOK
  <2>3. Len(cts)' <= 12 /\ states' <= Len(cts)' /\ payloads' \in {states', states' - 1}
    BY <1>1, <1>3 DEF LeafInv, TypeOK
  <2>4. decoder' \in {"pending", "valid", "damaged", "valid partial", "damaged partial"}
    BY <1>1 DEF LeafInv, TypeOK
  <2> QED BY <1>3, <2>1, <2>2, <2>3, <2>4 DEF TypeOK
<1>6. Unstarted' /\ Running'
  BY <1>3 DEF Unstarted, Running
<1>7. fault' = "none"
  BY <1>2, <1>3 DEF LeafInv, Verdict
<1>8. Verdict'
  BY <1>2, <1>3, <1>4, <1>7 DEF Verdict, CleanRunReturns, Ended, FailureEvidenceAuthenticates
<1> QED BY <1>4, <1>5, <1>6, <1>8 DEF LeafInv

\* A change of the circuit or the input keeps the invariant: the run has not failed
\* or returned yet, and what it has done so far it has done.
LEMMA ChangesStep ==
  ASSUME LeafInv, Changes
  PROVE  LeafInv'
<1>1. /\ UNCHANGED <<leaves, bits, error, phase, cts, states, payloads, attempted,
                      completed, decoder, fault, failureStage, sealed>>
      /\ phase \in {"decode", "check", "run"} /\ intact' = FALSE
  BY DEF Changes
<1>2. Drawn' /\ Chain' /\ Steps' = Steps
  BY <1>1, ChainFrame DEF LeafInv, Drawn, Steps
<1>3. TypeOK'
  BY <1>1 DEF LeafInv, TypeOK
<1>4. Unstarted'
  BY <1>1 DEF LeafInv, Unstarted
<1>5. Running'
  BY <1>1, <1>2 DEF LeafInv, Running
<1>6. Verdict'
  BY <1>1 DEF LeafInv, Verdict, CleanRunReturns, Ended, FailureEvidenceAuthenticates
<1> QED BY <1>2, <1>3, <1>4, <1>5, <1>6 DEF LeafInv

\* What leaves the evaluation alone keeps the invariant.
LEMMA StutterStep ==
  ASSUME LeafInv, UNCHANGED vars
  PROVE  LeafInv'
<1>1. UNCHANGED <<leaves, bits, error, phase, cts, states, payloads, attempted,
          completed, decoder, intact, fault, failureStage, sealed>>
  BY DEF vars
<1>2. Drawn' /\ Chain' /\ Steps' = Steps
  BY <1>1, ChainFrame DEF LeafInv, Drawn, Steps
<1>3. TypeOK'
  BY <1>1 DEF LeafInv, TypeOK
<1>4. Unstarted'
  BY <1>1 DEF LeafInv, Unstarted
<1>5. Running'
  BY <1>1, <1>2 DEF LeafInv, Running
<1>6. Verdict'
  BY <1>1, <1>2 DEF LeafInv, Verdict, CleanRunReturns, Ended, FailureEvidenceAuthenticates
<1> QED BY <1>2, <1>3, <1>4, <1>5, <1>6 DEF LeafInv

\* Every reachable state of an evaluation has made a prefix of the table, with ledgers
\* that are those of the stages made (evaluateNew, signed8_depth2_terminal_leaf.go).
THEOREM LeafInvariant == Spec => []LeafInv
<1>1. LeafInv /\ [Next]_vars => LeafInv'
  <2> SUFFICES ASSUME LeafInv, [Next]_vars PROVE LeafInv'
    OBVIOUS
  <2>1. CASE RejectedBeforeWork \/ \E evidence \in {"valid", "damaged"} : DecoderReturns(evidence)
    BY <2>1, BeforeTheRun
  <2>2. CASE \E partial \in {"valid partial", "damaged partial"} : DecoderFails(partial)
    BY <2>2, DecoderFailsStep
  <2>3. CASE CheckDecoder
    BY <2>3, CheckDecoderStep
  <2>4. CASE Admit
    BY <2>4, AdmitStep
  <2>5. CASE Snapshot
    BY <2>5, SnapshotStep
  <2>6. CASE SnapshotFails
    BY <2>6, SnapshotFailsStep
  <2>7. CASE Operate
    BY <2>7, OperateStep
  <2>8. CASE OperationFails \/ \E what \in {"operand", "state"} : OperationCorrupts(what)
    BY <2>8, OperationFailsStep
  <2>9. CASE FailToFinish
    BY <2>9, FailToFinishStep
  <2>10. CASE Return
    BY <2>10, ReturnStep
  <2>11. CASE Changes
    BY <2>11, ChangesStep
  <2>12. CASE UNCHANGED vars
    BY <2>12, StutterStep
  <2> QED BY <2>1, <2>2, <2>3, <2>4, <2>5, <2>6, <2>7, <2>8, <2>9, <2>10, <2>11, <2>12 DEF Next
<1> QED BY <1>1, InitLeafInv, PTL DEF Spec

-----------------------------------------------------------------------------
\* The arithmetic of the certificate.
LEMMA AbsOf ==
  ASSUME NEW x \in Int, NEW y \in Int
  PROVE  /\ Abs(x) \in Nat /\ Abs(x) >= x /\ Abs(x) >= -x
         /\ Abs(x + y) <= Abs(x) + Abs(y)
         /\ Abs(x * y) = Abs(x) * Abs(y)
<1>1. CASE x >= 0 /\ y >= 0
  <2>1. x * y >= 0
    BY <1>1
  <2> QED BY <1>1, <2>1 DEF Abs
<1>2. CASE x >= 0 /\ y < 0
  <2>1. x * y <= 0 /\ x * (-y) = -(x * y)
    BY <1>2
  <2> QED BY <1>2, <2>1 DEF Abs
<1>3. CASE x < 0 /\ y >= 0
  <2>1. x * y <= 0 /\ (-x) * y = -(x * y)
    BY <1>3
  <2> QED BY <1>3, <2>1 DEF Abs
<1>4. CASE x < 0 /\ y < 0
  <2>1. x * y >= 0 /\ (-x) * (-y) = x * y
    BY <1>4
  <2> QED BY <1>4, <2>1 DEF Abs
<1> QED BY <1>1, <1>2, <1>3, <1>4

\* Products of bounds are bounds of products.
LEMMA MultiplyBounds ==
  ASSUME NEW x \in Nat, NEW y \in Nat, NEW a \in Nat, NEW b \in Nat, x <= a, y <= b
  PROVE  x * y <= a * b
<1>1. x * y <= a * y /\ a * y <= a * b
  OBVIOUS
<1>2. x * y \in Nat /\ a * y \in Nat /\ a * b \in Nat
  OBVIOUS
<1> QED BY <1>1, <1>2

\* The magnitude of a product of two bounded integers.
LEMMA AbsProduct ==
  ASSUME NEW x \in Int, NEW y \in Int, NEW a \in Nat, NEW b \in Nat, Abs(x) <= a, Abs(y) <= b
  PROVE  Abs(x * y) <= a * b
<1>1. Abs(x) \in Nat /\ Abs(y) \in Nat /\ Abs(x * y) = Abs(x) * Abs(y)
  BY AbsOf
<1> QED BY <1>1, MultiplyBounds

\* The magnitude of a product of which one factor is bounded.
LEMMA AbsTimes ==
  ASSUME NEW x \in Int, NEW y \in Int, NEW a \in Nat, Abs(x) <= a
  PROVE  Abs(x * y) <= a * Abs(y) /\ a * Abs(y) \in Nat /\ x * y \in Int
<1>1. Abs(y) \in Nat /\ Abs(y) <= Abs(y)
  BY DEF Abs
<1>2. a * Abs(y) \in Nat /\ x * y \in Int
  BY <1>1
<1> QED BY <1>1, <1>2, AbsProduct

\* The magnitude in smaller units.
LEMMA AbsTimesDen ==
  ASSUME NEW x \in Int
  PROVE  Abs(x * Den) = Den * Abs(x) /\ Den * Abs(x) \in Nat /\ x * Den \in Int
<1>1. Den \in Int /\ Den >= 0 /\ Abs(Den) = Den
  BY CiphertextAssumption DEF Abs
<1>2. Abs(x) \in Nat /\ Abs(x * Den) = Abs(x) * Abs(Den)
  BY <1>1, AbsOf
<1> QED BY <1>1, <1>2

\* A selector is at most one and the error the certificate assumes.
LEMMA SelectorBounds ==
  ASSUME Drawn
  PROVE  Abs(X0) <= Beta /\ Abs(X1) <= Beta /\ Beta \in Nat
<1>1. bits.b0 \in 0..1 /\ bits.b1 \in 0..1 /\ error.b0 \in {-1, 0, 1} /\ error.b1 \in {-1, 0, 1}
  BY DEF Drawn
<1>2. X0 = bits.b0 * Den + error.b0 /\ X1 = bits.b1 * Den + error.b1
  BY DEF X0, X1
<1>3. (bits.b0 = 0 \/ bits.b0 = 1) /\ (bits.b1 = 0 \/ bits.b1 = 1)
  BY <1>1
<1>4. (X0 = error.b0 \/ X0 = Den + error.b0) /\ (X1 = error.b1 \/ X1 = Den + error.b1)
  BY <1>1, <1>2, <1>3, CiphertextAssumption
<1> QED BY <1>1, <1>4, CiphertextAssumption DEF Abs, Beta

\* The magnitudes of the two affine branches and of the gated difference.
LEMMA BranchBounds ==
  ASSUME Drawn
  PROVE  /\ Abs(X1 * DeltaL) <= Beta * Abs(DeltaL)
         /\ Abs(X1 * Cross) <= Beta * Abs(Cross)
         /\ Abs(NumA) <= Beta * Abs(DeltaL) + Den * Abs(leaves[1])
         /\ Abs(NumD) <= Beta * Abs(Cross) + Den * Abs(DeltaX)
         /\ Abs(X0 * NumD) <= Beta * (Den * Abs(DeltaX) + Beta * Abs(Cross))
<1> DEFINE l == leaves[1]
<1>1. l \in Int /\ X0 \in Int /\ X1 \in Int /\ DeltaL \in Int /\ DeltaX \in Int /\ Cross \in Int
        /\ NumD \in Int
  BY DrawnAreIntegers
<1>2. Abs(X0) <= Beta /\ Abs(X1) <= Beta /\ Beta \in Nat
  BY SelectorBounds
<1>5. /\ Abs(X1 * DeltaL) <= Beta * Abs(DeltaL) /\ Beta * Abs(DeltaL) \in Nat /\ X1 * DeltaL \in Int
      /\ Abs(X1 * Cross) <= Beta * Abs(Cross) /\ Beta * Abs(Cross) \in Nat /\ X1 * Cross \in Int
  BY <1>1, <1>2, AbsTimes
<1>6. NumA = X1 * DeltaL + l * Den /\ NumD = X1 * Cross + DeltaX * Den
  BY DEF NumA, NumD
<1> HIDE DEF l
<1>8. /\ Abs(l * Den) = Den * Abs(l) /\ Den * Abs(l) \in Nat /\ l * Den \in Int
      /\ Abs(DeltaX * Den) = Den * Abs(DeltaX) /\ Den * Abs(DeltaX) \in Nat /\ DeltaX * Den \in Int
  BY <1>1, AbsTimesDen
<1>9. /\ Abs(NumA) <= Abs(X1 * DeltaL) + Abs(l * Den)
      /\ Abs(NumD) <= Abs(X1 * Cross) + Abs(DeltaX * Den)
  BY <1>5, <1>6, <1>8, AbsOf
<1>10. Abs(X1 * DeltaL) \in Nat /\ Abs(X1 * Cross) \in Nat /\ Abs(NumA) \in Nat /\ Abs(NumD) \in Nat
  BY <1>1, <1>5, DrawnAreIntegers, AbsOf
<1>11. Abs(NumA) <= Beta * Abs(DeltaL) + Den * Abs(l) /\ Abs(NumD) <= Beta * Abs(Cross) + Den * Abs(DeltaX)
  BY <1>5, <1>8, <1>9, <1>10
<1>12. Abs(X0 * NumD) <= Beta * (Den * Abs(DeltaX) + Beta * Abs(Cross))
  <2> DEFINE b == Den * Abs(DeltaX) + Beta * Abs(Cross)
  <2>1. b \in Nat /\ Abs(NumD) <= b
    BY <1>5, <1>8, <1>11
  <2> HIDE DEF b
  <2>2. Abs(X0 * NumD) <= Beta * b
    BY <1>1, <1>2, <2>1, AbsProduct
  <2> QED BY <2>2 DEF b
<1> QED BY <1>5, <1>11, <1>12 DEF l

\* WithinCertificate of a chain: every stage's magnitude is within its bound.
LEMMA ChainWithinCertificate ==
  ASSUME Drawn, NEW i \in 1..12
  PROVE  Abs(Scaled(Table[i], 2)) <= Bound(Stages[i])
<1> DEFINE l == leaves[1]
           bL == Beta * Abs(DeltaL)
           bX == Beta * Abs(Cross)
           bA == bL + Den * Abs(l)
           bD == bX + Den * Abs(DeltaX)
           bY == Beta * (Den * Abs(DeltaX) + Beta * Abs(Cross))
<1>1. /\ Abs(X0) <= Beta /\ Abs(X1) <= Beta /\ Abs(X1 * DeltaL) <= bL /\ Abs(X1 * Cross) <= bX
      /\ Abs(NumA) <= bA /\ Abs(NumD) <= bD /\ Abs(X0 * NumD) <= bY
  BY SelectorBounds, BranchBounds
<1>2. /\ l \in Int /\ X0 \in Int /\ X1 \in Int /\ DeltaL \in Int /\ DeltaX \in Int /\ Cross \in Int
      /\ NumA \in Int /\ NumD \in Int /\ Beta \in Nat /\ Den \in Nat
  BY DrawnAreIntegers, SelectorBounds, CiphertextAssumption
<1>3. /\ Abs(l) \in Nat /\ Abs(DeltaL) \in Nat /\ Abs(DeltaX) \in Nat /\ Abs(Cross) \in Nat
      /\ Abs(X1 * DeltaL) \in Nat /\ Abs(X1 * Cross) \in Nat /\ Abs(NumA) \in Nat
      /\ Abs(NumD) \in Nat /\ Abs(X0 * NumD) \in Nat /\ Abs(X0) \in Nat /\ Abs(X1) \in Nat
      /\ X1 * DeltaL \in Int /\ X1 * Cross \in Int /\ X0 * NumD \in Int
  <2>1. X1 * DeltaL \in Int /\ X1 * Cross \in Int /\ X0 * NumD \in Int
    BY <1>2
  <2> QED BY <1>2, <2>1 DEF Abs
<1>4. /\ bL \in Nat /\ bX \in Nat /\ bA \in Nat /\ bD \in Nat /\ bY \in Nat
  BY <1>2, <1>3
\* a bound on a numerator, in units of 1/Den^2
<1>5. ASSUME NEW x \in Int, NEW b \in Nat, Abs(x) <= b
      PROVE  Abs(x * Den) <= Den * b
  <2>1. Abs(x * Den) = Den * Abs(x) /\ Abs(x) \in Nat
    BY AbsTimesDen DEF Abs
  <2> QED BY <1>2, <1>5, <2>1, MultiplyBounds
<1>6. /\ BoundRawA = Den * bL /\ BoundRawD = Den * bX /\ BoundRawY = bY
      /\ BoundA = Den * bA /\ BoundD = Den * bD
  <2>1. Den * (Beta * Abs(DeltaL)) = Den * Beta * Abs(DeltaL)
        /\ Den * (Beta * Abs(Cross)) = Den * Beta * Abs(Cross)
        /\ Den * (Den * Abs(l)) = Den * Den * Abs(l)
        /\ Den * (Den * Abs(DeltaX)) = Den * Den * Abs(DeltaX)
    BY <1>2, <1>3
  <2>2. BoundRawA = Den * bL /\ BoundRawD = Den * bX /\ BoundRawY = bY
    BY <2>1 DEF BoundRawA, BoundRawD, BoundRawY
  <2>3. BoundA = Den * (Den * Abs(l)) + Den * bL /\ BoundD = Den * (Den * Abs(DeltaX)) + Den * bX
    BY <2>1, <2>2 DEF BoundA, BoundD
  <2>4. Den * (bL + Den * Abs(l)) = Den * (Den * Abs(l)) + Den * bL
        /\ Den * (bX + Den * Abs(DeltaX)) = Den * (Den * Abs(DeltaX)) + Den * bX
    <3> HIDE DEF bL, bX
    <3>1. Den * Abs(l) \in Nat /\ Den * Abs(DeltaX) \in Nat
      BY <1>2, <1>3
    <3> QED BY <1>2, <1>4, <3>1
  <2> QED BY <2>2, <2>3, <2>4
<1> HIDE DEF bL, bX, bA, bD, bY, l
<1>7. /\ Abs(X0 * Den) <= Den * Beta /\ Abs(X1 * Den) <= Den * Beta
      /\ Abs(X1 * DeltaL * Den) <= BoundRawA /\ Abs(X1 * Cross * Den) <= BoundRawD
      /\ Abs(NumA * Den) <= BoundA /\ Abs(NumD * Den) <= BoundD /\ Abs(X0 * NumD) <= BoundRawY
  <2>1. Abs(X0 * Den) <= Den * Beta /\ Abs(X1 * Den) <= Den * Beta
    BY <1>1, <1>2, <1>5
  <2>2. Abs(X1 * DeltaL * Den) <= Den * bL /\ Abs(X1 * Cross * Den) <= Den * bX
    BY <1>1, <1>3, <1>4, <1>5
  <2>3. Abs(NumA * Den) <= Den * bA /\ Abs(NumD * Den) <= Den * bD
    BY <1>1, <1>2, <1>4, <1>5
  <2> QED BY <1>1, <1>6, <2>1, <2>2, <2>3
<1>8. Abs(NumA * Den + X0 * NumD) <= BoundY
  <2> DEFINE a == NumA * Den
             y == X0 * NumD
  <2>1. a \in Int /\ y \in Int
    BY <1>2, <1>3
  <2>2. Abs(a) <= BoundA /\ Abs(y) <= BoundRawY
    BY <1>7
  <2>3. BoundA \in Int /\ BoundRawY \in Int
    BY <1>2, <1>4, <1>6
  <2> HIDE DEF a, y
  <2>4. Abs(a + y) <= Abs(a) + Abs(y) /\ Abs(a) \in Nat /\ Abs(y) \in Nat /\ Abs(a + y) \in Int
    BY <2>1, AbsOf DEF Abs
  <2>5. Abs(a + y) <= BoundY
    BY <2>2, <2>3, <2>4 DEF BoundY
  <2> QED BY <2>5 DEF a, y
\* the numerators of the table, in those units
<1>9. \A x \in Int : x * Den^(2 - 1) = x * Den /\ x * Den^(2 - 2) = x
  BY PowersOfDen
<1>10. \A level, scale, x : /\ Scaled(Operand(level, scale, x, 1), 2) = x * Den^(2 - 1)
                            /\ Scaled(Operand(level, scale, x, 2), 2) = x * Den^(2 - 2)
  BY DEF Scaled, Operand
<1>11. NumA * Den + X0 * NumD \in Int
  BY <1>2, <1>3
<1>12. /\ Scaled(Table[1], 2) = X1 * Den /\ Scaled(Table[2], 2) = X0 * Den
       /\ Scaled(Table[3], 2) = X1 * DeltaL * Den /\ Scaled(Table[4], 2) = X1 * DeltaL * Den
       /\ Scaled(Table[5], 2) = NumA * Den /\ Scaled(Table[11], 2) = NumA * Den
       /\ Scaled(Table[6], 2) = X1 * Cross * Den /\ Scaled(Table[7], 2) = X1 * Cross * Den
       /\ Scaled(Table[8], 2) = NumD * Den
  BY <1>2, <1>3, <1>9, <1>10, TableEntries
<1>13. /\ Scaled(Table[9], 2) = X0 * NumD /\ Scaled(Table[10], 2) = X0 * NumD
       /\ Scaled(Table[12], 2) = NumA * Den + X0 * NumD
  BY <1>3, <1>9, <1>10, <1>11, TableEntries
<1>14. i = 1 \/ i = 2 \/ i = 3 \/ i = 4 \/ i = 5 \/ i = 6
       \/ i = 7 \/ i = 8 \/ i = 9 \/ i = 10 \/ i = 11 \/ i = 12
  OBVIOUS
<1>15. CASE i \in {1, 2}
  BY <1>7, <1>12, <1>15, StageTable DEF Bound
<1>16. CASE i \in {3, 4}
  BY <1>7, <1>12, <1>16, StageTable DEF Bound
<1>17. CASE i \in {5, 11}
  BY <1>7, <1>12, <1>17, StageTable DEF Bound
<1>18. CASE i \in {6, 7}
  BY <1>7, <1>12, <1>18, StageTable DEF Bound
<1>19. CASE i = 8
  BY <1>7, <1>12, <1>19, StageTable DEF Bound
<1>20. CASE i \in {9, 10}
  BY <1>7, <1>13, <1>20, StageTable DEF Bound
<1>21. CASE i = 12
  BY <1>8, <1>13, <1>21, StageTable DEF Bound
<1> QED BY <1>14, <1>15, <1>16, <1>17, <1>18, <1>19, <1>20, <1>21

\* The mux as a polynomial: up to terms that hold an error, it is the leaf the
\* bits choose.
LEMMA MuxPolynomial ==
  ASSUME NEW d \in Int, NEW l \in Int, NEW L \in Int, NEW X \in Int, NEW D \in Int,
         NEW b0 \in Int, NEW b1 \in Int, NEW e0 \in Int, NEW e1 \in Int
  PROVE  ((b1 * d + e1) * L + l * d) * d + (b0 * d + e0) * ((b1 * d + e1) * X + D * d)
           - d * d * (l + b1 * L + b0 * D + b0 * b1 * X)
           = d * (e1 * L + e0 * D + b0 * e1 * X + b1 * e0 * X) + e0 * e1 * X
OBVIOUS

\* A bit or an error only makes a number smaller.
LEMMA UnitTimes ==
  ASSUME NEW x \in Int, NEW u \in {-1, 0, 1}
  PROVE  u * x \in Int /\ Abs(u * x) <= Abs(x)
<1>1. u * x = x \/ u * x = 0 \/ u * x = -x
  OBVIOUS
<1> QED BY <1>1 DEF Abs

\* The affine mux of exact bits is the leaf they choose.
LEMMA ChosenLeaf ==
  ASSUME Drawn
  PROVE  Chosen = leaves[1] + bits.b1 * DeltaL + bits.b0 * DeltaX + bits.b0 * bits.b1 * Cross
<1>1. leaves[1] \in Int /\ leaves[2] \in Int /\ leaves[3] \in Int /\ leaves[4] \in Int
  BY DrawnAreIntegers
<1>2. (bits.b0 = 0 \/ bits.b0 = 1) /\ (bits.b1 = 0 \/ bits.b1 = 1)
  BY DEF Drawn
<1>3. DeltaL = leaves[2] - leaves[1] /\ DeltaX = leaves[3] - leaves[1]
        /\ Cross = (leaves[4] - leaves[3]) - (leaves[2] - leaves[1])
  BY DEF DeltaL, DeltaX, DeltaR, Cross
<1>4. CASE bits.b0 = 0 /\ bits.b1 = 0
  BY <1>1, <1>3, <1>4 DEF Chosen
<1>5. CASE bits.b0 = 0 /\ bits.b1 = 1
  BY <1>1, <1>3, <1>5 DEF Chosen
<1>6. CASE bits.b0 = 1 /\ bits.b1 = 0
  BY <1>1, <1>3, <1>6 DEF Chosen
<1>7. CASE bits.b0 = 1 /\ bits.b1 = 1
  BY <1>1, <1>3, <1>7 DEF Chosen
<1> QED BY <1>2, <1>4, <1>5, <1>6, <1>7

\* What the selectors' errors do to the mux is within the certificate's tolerance.
LEMMA MuxError ==
  ASSUME Drawn
  PROVE  Abs((NumA * Den + X0 * NumD) - Den * Den * Chosen) <= SelectorTolerance
<1>1. PICK b0 \in {0, 1}, b1 \in {0, 1}, e0 \in {-1, 0, 1}, e1 \in {-1, 0, 1} :
        b0 = bits.b0 /\ b1 = bits.b1 /\ e0 = error.b0 /\ e1 = error.b1
  BY DEF Drawn
<1>2. PICK l \in Int, L \in Int, X \in Int, D \in Int :
        l = leaves[1] /\ L = DeltaL /\ X = Cross /\ D = DeltaX
  BY DrawnAreIntegers
<1>3. Den \in Nat
  BY CiphertextAssumption
<1>4. X1 = b1 * Den + e1 /\ X0 = b0 * Den + e0
  BY <1>1 DEF X0, X1
<1>5. NumA = (b1 * Den + e1) * L + l * Den /\ NumD = (b1 * Den + e1) * X + D * Den
  BY <1>2, <1>4 DEF NumA, NumD
<1>6. Chosen = l + b1 * L + b0 * D + b0 * b1 * X
  BY <1>1, <1>2, ChosenLeaf
<1> DEFINE E == e1 * L + e0 * D + b0 * e1 * X + b1 * e0 * X
           F == e0 * e1 * X
<1>7. (NumA * Den + X0 * NumD) - Den * Den * Chosen = Den * E + F
  <2>1. b0 \in Int /\ b1 \in Int /\ e0 \in Int /\ e1 \in Int /\ Den \in Int
    BY <1>3
  <2> QED BY <1>4, <1>5, <1>6, <2>1, MuxPolynomial
<1>8. /\ e1 * L \in Int /\ e0 * D \in Int /\ b0 * e1 * X \in Int /\ b1 * e0 * X \in Int /\ F \in Int
      /\ Abs(e1 * L) <= Abs(L) /\ Abs(e0 * D) <= Abs(D) /\ Abs(b0 * e1 * X) <= Abs(X)
      /\ Abs(b1 * e0 * X) <= Abs(X) /\ Abs(F) <= Abs(X)
  <2>1. b0 * e1 \in {-1, 0, 1} /\ b1 * e0 \in {-1, 0, 1} /\ e0 * e1 \in {-1, 0, 1}
    OBVIOUS
  <2> QED BY <2>1, UnitTimes
<1>9. E \in Int /\ Abs(E) <= Abs(L) + Abs(D) + 2 * Abs(X)
  BY <1>8 DEF Abs
<1>10. Abs(Den * E + F) <= Den * (Abs(L) + Abs(D) + 2 * Abs(X)) + Abs(X)
  <2> DEFINE t == Abs(L) + Abs(D) + 2 * Abs(X)
  <2>1. t \in Nat /\ Abs(F) \in Nat /\ Abs(X) \in Nat /\ Abs(E) \in Nat
    BY <1>8, <1>9 DEF Abs
  <2>2. F \in Int /\ E \in Int /\ Abs(E) <= t /\ Abs(F) <= Abs(X)
    BY <1>8, <1>9
  <2> HIDE DEF t, E, F
  <2>3. E * Den = Den * E /\ Den * E \in Int
    BY <1>3, <2>2
  <2>4. Abs(Den * E) = Den * Abs(E)
    BY <2>2, <2>3, AbsTimesDen
  <2>5. Den * Abs(E) <= Den * t /\ Den * Abs(E) \in Nat /\ Den * t \in Nat
    BY <1>3, <2>1, <2>2, MultiplyBounds
  <2>6. Abs(Den * E + F) <= Abs(Den * E) + Abs(F) /\ Abs(Den * E + F) \in Nat
    BY <2>2, <2>3, AbsOf DEF Abs
  <2>7. Abs(Den * E + F) <= Den * t + Abs(X)
    BY <2>1, <2>2, <2>4, <2>5, <2>6
  <2> QED BY <2>7 DEF t
<1>11. SelectorTolerance = Den * (Abs(L) + Abs(D) + 2 * Abs(X)) + Abs(X)
  BY <1>2 DEF SelectorTolerance
<1> QED BY <1>7, <1>10, <1>11

-----------------------------------------------------------------------------
\* The properties of the evaluation.

\* TypeOK (signed8_depth2_terminal_leaf.go, evaluateNew): the trace never holds
\* more states than there are ciphertexts, nor a payload digest without a state,
\* and no counter passes three.
THEOREM LeafTypeCorrect == Spec => []TypeOK
<1>1. LeafInv => TypeOK
  BY DEF LeafInv
<1> QED BY <1>1, LeafInvariant, PTL

\* WithinCertificate: for all leaves the magnitude of every ciphertext the mux
\* makes is within the bound the certificate computes for its stage.
THEOREM CertificateCovers == Spec => []WithinCertificate
<1>1. LeafInv => WithinCertificate
  <2> SUFFICES ASSUME LeafInv, NEW i \in DOMAIN cts
               PROVE  Abs(Scaled(cts[i], 2)) <= Bound(Stages[i])
    BY DEF WithinCertificate
  <2>1. i \in 1..12 /\ cts[i] = Table[i]
    BY DEF LeafInv, Chain, MadeUpTo
  <2> QED BY <2>1, ChainWithinCertificate DEF LeafInv
<1> QED BY <1>1, LeafInvariant, PTL

\* ResultIsLeaf: the returned output is the leaf that the bits choose, up to the
\* tolerance the certificate grants the selectors' errors, whatever the leaves.
THEOREM OutputIsLeaf == Spec => []ResultIsLeaf
<1>1. LeafInv => ResultIsLeaf
  <2> SUFFICES ASSUME LeafInv, phase = "returned"
               PROVE  /\ intact
                      /\ Made("Output").exact
                      /\ Abs(Scaled(Made("Output"), 2) - Den * Den * Chosen) <= SelectorTolerance
    BY DEF ResultIsLeaf
  <2>1. Steps = 12 /\ MadeUpTo(12) /\ intact
    BY DEF LeafInv, Verdict, Chain
  <2>2. Made("Output") = Operand(6, DefaultScale, NumA * Den + X0 * NumD, 2)
    BY <2>1, MadeStage, StageTable, TableEntries
  <2>3. Made("Output").exact = TRUE
    BY <2>2 DEF Operand
  <2>4. Scaled(Made("Output"), 2) = (NumA * Den + X0 * NumD) * Den^(2 - 2)
    BY <2>2 DEF Scaled, Operand
  <2>5. NumA * Den + X0 * NumD \in Int
    BY DrawnAreIntegers, CiphertextAssumption DEF LeafInv
  <2>6. Scaled(Made("Output"), 2) = NumA * Den + X0 * NumD
    BY <2>4, <2>5, PowersOfDen
  <2>7. Abs(Scaled(Made("Output"), 2) - Den * Den * Chosen) <= SelectorTolerance
    <3>1. Abs((NumA * Den + X0 * NumD) - Den * Den * Chosen) <= SelectorTolerance
      BY MuxError DEF LeafInv
    <3> DEFINE v == NumA * Den + X0 * NumD
    <3>2. Scaled(Made("Output"), 2) = v
      BY <2>6
    <3>3. Abs(v - Den * Den * Chosen) <= SelectorTolerance
      BY <3>1
    <3> HIDE DEF v
    <3> QED BY <3>2, <3>3, Zenon
  <2>8. Made("Output").exact
    BY <2>3, Zenon
  <2> QED BY <2>1, <2>7, <2>8
<1> QED BY <1>1, LeafInvariant, PTL

\* CleanRunReturns: the tables of levels, scales and counts fit one another, so
\* an evaluation in which no call fails is never refused by its own checks.
THEOREM CleanRunsAreAccepted == Spec => []CleanRunReturns
<1>1. LeafInv => CleanRunReturns
  BY DEF LeafInv, Verdict
<1> QED BY <1>1, LeafInvariant, PTL

\* FailureEvidenceAuthenticates: the partial trace sealed by a failure in an
\* operation, in its result, in what the evaluator is bound to or in the output is
\* one that validateFailureTrace accepts, at whichever stage it happens, if and
\* only if the circuit and the input have not changed when it is sealed.
THEOREM LeafFailuresAuthenticate == Spec => []FailureEvidenceAuthenticates
<1>1. LeafInv => FailureEvidenceAuthenticates
  BY DEF LeafInv, Verdict
<1> QED BY <1>1, LeafInvariant, PTL
=============================================================================
