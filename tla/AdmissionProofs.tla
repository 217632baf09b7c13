---------------------------- MODULE AdmissionProofs ----------------------------
(***************************************************************************)
(* What holds of admission to memory for every unit of memory, word size,  *)
(* minimum guard, set of snapshots, peak contract and number of changes a  *)
(* caller makes.                                                           *)
(*                                                                         *)
(* AcceptsOnlyOwn rests on the seals: a digest fixes every other field.    *)
(* AdmissionInv says that each value held was evaluated or minted by one   *)
(* plan or spec for one snapshot, or is an alteration of such a value.  No *)
(* alteration equals anything that some plan or spec issues (the Altered   *)
(* lemmas): the decision is that of the assessment, the peak that of the   *)
(* plan named by its digest, and what is foreign is no digest.             *)
(*                                                                         *)
(* AdmittedLeavesRoom rests on the ledger.  A checked sum or product of    *)
(* numbers that may have overflowed is what the exact one would be, capped *)
(* (SumCapped, ProductCapped).  All estimates are multiples of 256 bytes,  *)
(* Units(n), so each term of the ledger and each phase is a literal number *)
(* of them, and no phase exceeds the combined plan.  The rest is the       *)
(* arithmetic of the floors in evaluateReport.                             *)
(***************************************************************************)
EXTENDS CapacityAdmission, TLAPS, FiniteSetTheorems

\* How many units make 256 bytes; n as a word holds it; 256 * n bytes as a word
\* holds them; and a number that is n, or what a word holds of it.
Scale == 256 \div ByteUnit
Capped(n) == IF n <= MaxWord THEN n ELSE Overflow
Units(n) == Capped(n * Scale)
Stands(x, n) == x = n \/ x = Capped(n)
Pos == Nat \ {0}

\* ByteUnit divides 256 bytes.
LEMMA ScaleDivides == Scale \in Pos /\ ByteUnit * Scale = 256
<1>1. ByteUnit \in Nat \ {0} /\ 256 % ByteUnit = 0
  BY LedgerAssumption
<1>2. 256 = ByteUnit * (256 \div ByteUnit) + (256 % ByteUnit) /\ 256 \div ByteUnit \in Int
  BY <1>1
<1>3. ByteUnit * Scale = 256 /\ Scale \in Int
  BY <1>1, <1>2 DEF Scale
<1>4. Scale > 0
  BY <1>1, <1>3
<1> QED BY <1>3, <1>4 DEF Pos

\* A number of 256-byte pages in units (integer division in the ledger is exact).
LEMMA DivideBytes == ASSUME NEW n \in Nat PROVE (256 * n) \div ByteUnit = n * Scale
<1>1. PICK k, b : k = Scale /\ b = ByteUnit /\ k \in Nat /\ b \in Nat /\ b > 0 /\ b * k = 256
  BY ScaleDivides, LedgerAssumption DEF Pos
<1>2. 256 * n = b * (n * k)
  <2>1. b * (n * k) = (b * k) * n
    BY <1>1
  <2> QED BY <2>1, <1>1
<1>3. n * k \in Nat
  BY <1>1
<1>4. \A q \in Nat : (b * q) \div b = q
  BY <1>1
<1> QED BY <1>1, <1>2, <1>3, <1>4

\* checkedUint64Sum of what words hold of two numbers is what a word holds of
\* their sum.
LEMMA SumCapped ==
  ASSUME NEW m \in Nat, NEW n \in Nat, NEW x, NEW y, Stands(x, m), Stands(y, n)
  PROVE  x ++ y = Capped(m + n)
<1> SUFFICES CheckedSum(x, y) = Capped(m + n)
  BY Zenon DEF ++
<1>1. CASE x = Overflow \/ y = Overflow
  <2>1. m + n > MaxWord
    BY <1>1, LedgerAssumption DEF Stands, Capped, Overflow
  <2> QED BY <1>1, <2>1, LedgerAssumption DEF Capped, CheckedSum
<1>2. CASE x # Overflow /\ y # Overflow
  <2>1. x = m /\ y = n
    BY <1>2 DEF Stands, Capped
  <2> QED BY <1>2, <2>1, LedgerAssumption DEF Capped, CheckedSum
<1> QED BY <1>1, <1>2

\* The test that checkedUint64Product makes is the test for overflow.
LEMMA ProductBound ==
  ASSUME NEW m \in Nat, NEW n \in Pos, NEW w \in Nat
  PROVE  m > w \div n <=> m * n > w
<1>1. PICK q \in Nat, r \in Nat : q = w \div n /\ w = n * q + r /\ r < n
  <2>1. w = n * (w \div n) + (w % n) /\ w % n \in 0 .. n - 1 /\ w \div n \in Int
    BY DEF Pos
  <2>2. w \div n >= 0
    BY DEF Pos
  <2> QED BY <2>1, <2>2 DEF Pos
<1>2. CASE m > q
  <2>1. m * n >= (q + 1) * n
    BY <1>2, <1>1 DEF Pos
  <2>2. (q + 1) * n = n * q + n
    BY <1>1 DEF Pos
  <2> QED BY <1>1, <1>2, <2>1, <2>2 DEF Pos
<1>3. CASE m <= q
  <2>1. m * n <= q * n
    BY <1>3, <1>1 DEF Pos
  <2>2. q * n = n * q
    BY <1>1 DEF Pos
  <2> QED BY <1>1, <1>3, <2>1, <2>2 DEF Pos
<1> QED BY <1>1, <1>2, <1>3

\* checkedUint64Product of what words hold of two positive numbers is what a word
\* holds of their product.
LEMMA ProductCapped ==
  ASSUME NEW m \in Pos, NEW n \in Pos, NEW x, NEW y, Stands(x, m), Stands(y, n)
  PROVE  x ** y = Capped(m * n)
<1>1. m * n \in Nat /\ m * n >= m /\ m * n >= n
  BY DEF Pos
<1>2. m > MaxWord \div n <=> m * n > MaxWord
  BY ProductBound, LedgerAssumption DEF Pos
<1>3. PICK k \in Nat : k = m * n
  BY <1>1
<1>4. CASE x = Overflow \/ y = Overflow
  <2>1. m * n > MaxWord
    BY <1>1, <1>4, LedgerAssumption DEF Stands, Capped, Overflow, Pos
  <2> QED BY <1>1, <1>4, <2>1, LedgerAssumption DEF Capped, **, CheckedProduct
<1>5. CASE x # Overflow /\ y # Overflow
  <2>1. x = m /\ y = n
    BY <1>5 DEF Stands, Capped
  <2> QED BY <1>1, <1>2, <1>5, <2>1, LedgerAssumption DEF Capped, **, CheckedProduct, Pos
<1> QED BY <1>4, <1>5

\* Units are capped numbers.
LEMMA UnitsCapped == ASSUME NEW n \in Nat PROVE Units(n) = Capped(n * Scale) /\ n * Scale \in Nat
BY ScaleDivides DEF Units, Pos

\* Units add up.
LEMMA UnitsSum == ASSUME NEW m \in Nat, NEW n \in Nat PROVE Units(m) ++ Units(n) = Units(m + n)
<1>1. Units(m) ++ Units(n) = Capped(m * Scale + n * Scale)
  BY SumCapped, UnitsCapped DEF Stands
<1>2. m * Scale + n * Scale = (m + n) * Scale
  BY ScaleDivides DEF Pos
<1> QED BY <1>1, <1>2 DEF Units

\* A number of pages, taken so many times.
LEMMA UnitsProduct ==
  ASSUME NEW m \in Pos, NEW n \in Pos, NEW x, Stands(x, m)
  PROVE  x ** (n * Scale) = Units(m * n) /\ x ** Units(n) = Units(m * n) /\ Units(n) ** x = Units(m * n)
<1>1. PICK k \in Pos : k = Scale
  BY ScaleDivides
<1>2. n * k \in Pos /\ Units(n) = Capped(n * k)
  BY <1>1 DEF Units, Pos
<1>3. x ** (n * k) = Capped(m * (n * k)) /\ x ** Units(n) = Capped(m * (n * k))
      /\ Units(n) ** x = Capped((n * k) * m)
  BY <1>2, ProductCapped DEF Stands
<1>4. m * (n * k) = (m * n) * k /\ (n * k) * m = (m * n) * k
  BY DEF Pos
<1> QED BY <1>1, <1>3, <1>4 DEF Units

\* The sizes of coefficients, entries and texts that both packings share.
Pages(shape) ==
  /\ shape.ringDegree = 65536 /\ shape.coefficientBytes = 8 /\ shape.entryBytes = 256
  /\ shape.textBytes = 192 /\ shape.textCopies = 2

\* A row of 65536 coefficients of 8 bytes is 2048 pages.
LEMMA RowUnits ==
  ASSUME NEW shape, Pages(shape), NEW d \in Pos, NEW x, Stands(x, d)
  PROVE  /\ RingUnits(shape) = 256 * Scale
         /\ x ** RingUnits(shape) = Units(d * 256)
         /\ Rows(shape, x) = Units(d * 2048)
<1>1. RingUnits(shape) = 256 * Scale
  BY DivideBytes DEF RingUnits, Pages
<1>2. x ** (256 * Scale) = Units(d * 256)
  BY UnitsProduct DEF Pos
<1>3. Units(d * 256) ** 8 = Units(8 * (d * 256))
  BY UnitsProduct DEF Pos, Stands
<1>4. 8 * (d * 256) = d * 2048
  BY DEF Pos
<1> QED BY <1>1, <1>2, <1>3, <1>4 DEF Rows, Pages

\* A level has one limb more than its number, in Q and in P.
LEMMA LimbCount ==
  ASSUME NEW a \in Nat, NEW b \in Nat
  PROVE  Limbs(<<a, b>>) = Capped(a + b + 2)
<1>1. a ++ 1 = Capped(a + 1) /\ b ++ 1 = Capped(b + 1)
  BY SumCapped DEF Stands
<1>2. Limbs(<<a, b>>) = (a ++ 1) ++ (b ++ 1)
  BY DEF Limbs, CheckedLevelCount
<1>3. (a ++ 1) ++ (b ++ 1) = Capped((a + 1) + (b + 1))
  BY <1>1, SumCapped DEF Stands
<1>4. (a + 1) + (b + 1) = a + b + 2
  OBVIOUS
<1> QED BY <1>2, <1>3, <1>4

\* Encoded diagonals: one row for each limb (deriveGaoN16ArtifactEstimates).
LEMMA EncodedUnits ==
  ASSUME NEW shape, Pages(shape), NEW d \in Pos, NEW x, Stands(x, d), NEW a \in Nat, NEW b \in Nat
  PROVE  Encoded(shape, x, <<a, b>>) = Units(d * 2048 * (a + b + 2))
<1>1. Encoded(shape, x, <<a, b>>) = Rows(shape, x) ** Limbs(<<a, b>>)
  BY DEF Encoded, Rows
<1>2. d * 2048 \in Pos /\ a + b + 2 \in Pos /\ Stands(Limbs(<<a, b>>), a + b + 2)
  BY LimbCount DEF Pos, Stands
<1>3. Rows(shape, x) ** Limbs(<<a, b>>) = Units((a + b + 2) * (d * 2048))
  BY <1>2, RowUnits, UnitsProduct
<1>4. (a + b + 2) * (d * 2048) = d * 2048 * (a + b + 2)
  BY DEF Pos
<1> QED BY <1>1, <1>3, <1>4

\* Slot vectors of entries, and their texts (deriveGaoN16ArtifactEstimates).
LEMMA VectorUnits ==
  ASSUME NEW shape, Pages(shape), NEW s \in Pos, shape.slots = 256 * s, NEW d \in Pos, NEW x, Stands(x, d)
  PROVE  /\ SlotUnits(shape) = s * Scale
         /\ x ** SlotUnits(shape) = Units(d * s)
         /\ Numeric(shape, x) = Units(d * s * 256)
         /\ Text(shape, x) = Units(d * s * 384)
<1>1. SlotUnits(shape) = s * Scale
  BY DivideBytes DEF SlotUnits, Pos
<1>2. x ** (s * Scale) = Units(d * s) /\ d * s \in Pos
  BY UnitsProduct DEF Pos
<1>3. PICK u \in Pos : u = d * s
  BY <1>2
<1>4. Units(u) ** 256 = Units(256 * u) /\ Units(u) ** 192 = Units(192 * u) /\ 192 * u \in Pos
  BY UnitsProduct DEF Pos, Stands
<1>5. Units(192 * u) ** 2 = Units(2 * (192 * u))
  BY <1>4, UnitsProduct DEF Pos, Stands
<1>6. 256 * u = u * 256 /\ 2 * (192 * u) = u * 384
  BY DEF Pos
<1> QED BY <1>1, <1>2, <1>3, <1>4, <1>5, <1>6 DEF Numeric, Text, Pages

\* A packing of 256 * s slots with so many diagonals, and its ledger in pages.
LedgerShape(shape, s, stc, cts) ==
  /\ Pages(shape) /\ shape.slots = 256 * s
  /\ StcDiagonals(shape) = Capped(stc) /\ CtsDiagonals(shape) = Capped(cts)
  /\ shape.stcLevels = <<18, 6>> /\ shape.ctsLevels = <<20, 6>>
  /\ shape.transforms = 9 /\ shape.vectors = 4 /\ shape.pairPolynomials = 14
  /\ shape.qCount = 21 /\ shape.pCount = 7 /\ shape.masks = 2 /\ shape.maskLevel = 19
  /\ shape.mappings = 3 /\ shape.coefficients = 79

LedgerOf(s, stc, cts) ==
  [specifications |-> Units(9216 * s), pair |-> Units(802816),
   stcEncoded |-> Units(stc * 53248), ctsEncoded |-> Units(cts * 57344),
   masks |-> Units(81920), polynomials |-> Units(24 * s + 79),
   stcNumeric |-> Units(stc * s * 256), ctsNumeric |-> Units(cts * s * 256),
   stcText |-> Units(stc * s * 384), ctsText |-> Units(cts * s * 384)]

\* The ledger of the artifacts in pages, for a number of slots and of diagonals
\* (deriveGaoN16ArtifactEstimates).
LEMMA TermsAre ==
  ASSUME NEW s \in Pos, NEW stc \in Pos, NEW cts \in Pos, NEW shape, LedgerShape(shape, s, stc, cts)
  PROVE  ArtifactTerms(shape) = LedgerOf(s, stc, cts)
<1> USE DEF Pos
<1>1. Pages(shape) /\ shape.slots = 256 * s
      /\ Stands(StcDiagonals(shape), stc) /\ Stands(CtsDiagonals(shape), cts)
  BY DEF LedgerShape, Stands
<1>2. 9 ** 4 ** SlotUnits(shape) ** shape.entryBytes = Units(9216 * s)
  <2>1. Stands(9 ** 4, 36)
    BY ProductCapped DEF Stands
  <2>2. (9 ** 4) ** SlotUnits(shape) = Units(36 * s)
    BY <1>1, <2>1, VectorUnits
  <2>3. Units(36 * s) ** 256 = Units(256 * (36 * s))
    BY UnitsProduct DEF Stands
  <2>4. 256 * (36 * s) = 9216 * s
    OBVIOUS
  <2> QED BY <1>1, <2>2, <2>3, <2>4 DEF Pages
<1>3. 14 ** RingUnits(shape) ** shape.coefficientBytes ** (21 ++ 7) = Units(802816)
  <2>1. Stands(21 ++ 7, 28)
    BY SumCapped DEF Stands
  <2>2. Rows(shape, 14) = Units(14 * 2048)
    BY <1>1, RowUnits DEF Stands
  <2>3. Units(28672) ** (21 ++ 7) = Units(28 * 28672)
    BY <2>1, UnitsProduct
  <2> QED BY <2>2, <2>3 DEF Rows
<1>4. Encoded(shape, StcDiagonals(shape), shape.stcLevels) = Units(stc * 53248)
  <2>1. Encoded(shape, StcDiagonals(shape), <<18, 6>>) = Units(stc * 2048 * (18 + 6 + 2))
    BY <1>1, EncodedUnits
  <2> QED BY <2>1 DEF LedgerShape
<1>5. Encoded(shape, CtsDiagonals(shape), shape.ctsLevels) = Units(cts * 57344)
  <2>1. Encoded(shape, CtsDiagonals(shape), <<20, 6>>) = Units(cts * 2048 * (20 + 6 + 2))
    BY <1>1, EncodedUnits
  <2> QED BY <2>1 DEF LedgerShape
<1>6. 2 ** RingUnits(shape) ** shape.coefficientBytes ** (19 ++ 1) = Units(81920)
  <2>1. Stands(19 ++ 1, 20)
    BY SumCapped DEF Stands
  <2>2. Rows(shape, 2) = Units(2 * 2048)
    BY <1>1, RowUnits DEF Stands
  <2>3. Units(4096) ** (19 ++ 1) = Units(20 * 4096)
    BY <2>1, UnitsProduct
  <2> QED BY <2>2, <2>3 DEF Rows
<1>7. (3 ** SlotUnits(shape) ** shape.coefficientBytes) ++ (79 ** EntryUnits(shape)) = Units(24 * s + 79)
  <2>1. 3 ** SlotUnits(shape) = Units(3 * s)
    BY <1>1, VectorUnits DEF Stands
  <2>2. Units(3 * s) ** 8 = Units(8 * (3 * s))
    BY UnitsProduct DEF Stands
  <2>3. EntryUnits(shape) = 1 * Scale
    BY <1>1, DivideBytes DEF EntryUnits, Pages
  <2>4. 79 ** (1 * Scale) = Units(79 * 1)
    BY UnitsProduct DEF Stands
  <2>5. Units(8 * (3 * s)) ++ Units(79) = Units(8 * (3 * s) + 79)
    BY UnitsSum
  <2>6. 8 * (3 * s) + 79 = 24 * s + 79
    OBVIOUS
  <2> QED BY <1>1, <2>1, <2>2, <2>3, <2>4, <2>5, <2>6 DEF Pages
<1>8. /\ Numeric(shape, StcDiagonals(shape)) = Units(stc * s * 256)
      /\ Numeric(shape, CtsDiagonals(shape)) = Units(cts * s * 256)
      /\ Text(shape, StcDiagonals(shape)) = Units(stc * s * 384)
      /\ Text(shape, CtsDiagonals(shape)) = Units(cts * s * 384)
  BY <1>1, VectorUnits
<1> QED BY <1>2, <1>3, <1>4, <1>5, <1>6, <1>7, <1>8 DEF ArtifactTerms, LedgerOf, LedgerShape

\* The peak of three stages is the largest, and an overflow if that one is.
LEMMA PeakUnits ==
  ASSUME NEW a \in Nat, NEW b \in Nat, NEW c \in Nat, NEW m \in {a, b, c}, m >= a, m >= b, m >= c
  PROVE  Peak(<<Units(a), Units(b), Units(c)>>) = Units(m)
<1> DEFINE stages == <<Units(a), Units(b), Units(c)>>
<1>1. PICK i, j, k : /\ i = a * Scale /\ j = b * Scale /\ k = c * Scale
                     /\ i \in Nat /\ j \in Nat /\ k \in Nat
                     /\ m * Scale \in {i, j, k} /\ m * Scale >= i /\ m * Scale >= j /\ m * Scale >= k
  BY ScaleDivides DEF Pos
<1>2. PICK u : u = Units(m)
  OBVIOUS
<1>3. CASE m * Scale > MaxWord
  <2>1. u = Overflow /\ \E n \in DOMAIN stages : stages[n] = Overflow
    BY <1>1, <1>2, <1>3, LedgerAssumption DEF Units, Capped
  <2> QED BY <1>2, <2>1 DEF Peak
<1>4. CASE m * Scale <= MaxWord
  <2>1. stages = <<i, j, k>> /\ u = m * Scale
    BY <1>1, <1>2, <1>4, LedgerAssumption DEF Units, Capped
  <2>2. Range(stages) = {i, j, k}
    BY <2>1 DEF Range
  <2>3. \A n \in DOMAIN stages : stages[n] # Overflow /\ stages[n] \in {i, j, k}
    BY <1>1, <2>1 DEF Overflow
  <2>4. u \in Range(stages) /\ \A n \in DOMAIN stages : stages[n] <= u
    BY <1>1, <2>1, <2>2
  <2>5. \A w \in Range(stages) : (\A n \in DOMAIN stages : stages[n] <= w) => w = u
    <3>1. SUFFICES ASSUME NEW w \in {i, j, k}, \A n \in DOMAIN stages : stages[n] <= w PROVE w = u
      BY <2>2
    <3>2. i <= w /\ j <= w /\ k <= w
      BY <2>1, <3>1
    <3> QED BY <1>1, <2>1, <3>1, <3>2
  <2>6. (CHOOSE w \in Range(stages) : \A n \in DOMAIN stages : stages[n] <= w) = u
    BY <2>4, <2>5
  <2>7. Peak(stages) = CHOOSE w \in Range(stages) : \A n \in DOMAIN stages : stages[n] <= w
    BY <2>3 DEF Peak
  <2> QED BY <1>2, <2>6, <2>7
<1>5. m * Scale > MaxWord \/ m * Scale <= MaxWord
  BY <1>1, LedgerAssumption
<1> QED BY <1>3, <1>4, <1>5

\* The full packing.
LEMMA ArtifactNumbers ==
  ASSUME NEW t, t = LedgerOf(128, 511, 158)
  PROVE  Resident(t) = Units(38337615) /\ Peak(ArtifactStages(t)) = Units(71138383)
<1>1. /\ t.specifications = Units(1179648) /\ t.pair = Units(802816) /\ t.stcEncoded = Units(27209728)
      /\ t.ctsEncoded = Units(9060352) /\ t.masks = Units(81920) /\ t.polynomials = Units(3151)
      /\ t.stcNumeric = Units(16744448) /\ t.ctsNumeric = Units(5177344)
      /\ t.stcText = Units(25116672) /\ t.ctsText = Units(7766016)
  BY DEF LedgerOf
<1>2. Resident(t) = Units(38337615)
  <2>1. Units(1179648) ++ Units(802816) = Units(1982464)
    BY UnitsSum
  <2>2. Units(1982464) ++ Units(27209728) = Units(29192192)
    BY UnitsSum
  <2>3. Units(29192192) ++ Units(9060352) = Units(38252544)
    BY UnitsSum
  <2>4. Units(38252544) ++ Units(81920) = Units(38334464)
    BY UnitsSum
  <2>5. Units(38334464) ++ Units(3151) = Units(38337615)
    BY UnitsSum
  <2> QED BY <1>1, <2>1, <2>2, <2>3, <2>4, <2>5 DEF Resident
<1>3. t.specifications ++ t.pair ++ t.masks ++ t.polynomials = Units(2067535)
  <2>1. Units(1179648) ++ Units(802816) = Units(1982464)
    BY UnitsSum
  <2>2. Units(1982464) ++ Units(81920) = Units(2064384)
    BY UnitsSum
  <2>3. Units(2064384) ++ Units(3151) = Units(2067535)
    BY UnitsSum
  <2> QED BY <1>1, <2>1, <2>2, <2>3
<1>4. Units(2067535) ++ t.stcEncoded ++ t.stcNumeric ++ t.stcText = Units(71138383)
  <2>1. Units(2067535) ++ Units(27209728) = Units(29277263)
    BY UnitsSum
  <2>2. Units(29277263) ++ Units(16744448) = Units(46021711)
    BY UnitsSum
  <2>3. Units(46021711) ++ Units(25116672) = Units(71138383)
    BY UnitsSum
  <2> QED BY <1>1, <2>1, <2>2, <2>3
<1>5. Units(2067535) ++ t.stcEncoded ++ t.ctsEncoded ++ t.ctsNumeric ++ t.ctsText = Units(51280975)
  <2>1. Units(2067535) ++ Units(27209728) = Units(29277263)
    BY UnitsSum
  <2>2. Units(29277263) ++ Units(9060352) = Units(38337615)
    BY UnitsSum
  <2>3. Units(38337615) ++ Units(5177344) = Units(43514959)
    BY UnitsSum
  <2>4. Units(43514959) ++ Units(7766016) = Units(51280975)
    BY UnitsSum
  <2> QED BY <1>1, <2>1, <2>2, <2>3, <2>4
<1>6. Resident(t) ++ t.polynomials = Units(38340766)
  <2>1. Units(38337615) ++ Units(3151) = Units(38340766)
    BY UnitsSum
  <2> QED BY <1>1, <1>2, <2>1
<1>7. ArtifactStages(t) = <<Units(71138383), Units(51280975), Units(38340766)>>
  BY <1>3, <1>4, <1>5, <1>6 DEF ArtifactStages
<1>8. Peak(ArtifactStages(t)) = Units(71138383)
  BY <1>7, PeakUnits
<1> QED BY <1>2, <1>8

\* The full packing has 2^15 slots, 511 and 158 diagonals.
LEMMA ArtifactShapeIs == LedgerShape(DefaultArtifactShape, 128, 511, 158)
<1>1. StcDiagonals(DefaultArtifactShape) = Capped(511)
  <2>1. 255 ++ 256 = Capped(511)
    BY SumCapped DEF Stands
  <2> QED BY <2>1 DEF StcDiagonals, DefaultArtifactShape
<1>2. CtsDiagonals(DefaultArtifactShape) = Capped(158)
  <2>1. 32 ++ 63 = Capped(95)
    BY SumCapped DEF Stands
  <2>2. Capped(95) ++ 63 = Capped(158)
    BY SumCapped DEF Stands
  <2> QED BY <2>1, <2>2 DEF CtsDiagonals, DefaultArtifactShape
<1> QED BY <1>1, <1>2 DEF LedgerShape, Pages, DefaultArtifactShape

\* The packing of 2^11 slots.
LEMMA PackingNumbers ==
  ASSUME NEW t, t = LedgerOf(8, 127, 62)
  PROVE  Resident(t) = Units(11276559) /\ Peak(ArtifactStages(t)) = Units(11593999)
<1>1. /\ t.specifications = Units(73728) /\ t.pair = Units(802816) /\ t.stcEncoded = Units(6762496)
      /\ t.ctsEncoded = Units(3555328) /\ t.masks = Units(81920) /\ t.polynomials = Units(271)
      /\ t.stcNumeric = Units(260096) /\ t.ctsNumeric = Units(126976)
      /\ t.stcText = Units(390144) /\ t.ctsText = Units(190464)
  BY DEF LedgerOf
<1>2. Resident(t) = Units(11276559)
  <2>1. Units(73728) ++ Units(802816) = Units(876544)
    BY UnitsSum
  <2>2. Units(876544) ++ Units(6762496) = Units(7639040)
    BY UnitsSum
  <2>3. Units(7639040) ++ Units(3555328) = Units(11194368)
    BY UnitsSum
  <2>4. Units(11194368) ++ Units(81920) = Units(11276288)
    BY UnitsSum
  <2>5. Units(11276288) ++ Units(271) = Units(11276559)
    BY UnitsSum
  <2> QED BY <1>1, <2>1, <2>2, <2>3, <2>4, <2>5 DEF Resident
<1>3. t.specifications ++ t.pair ++ t.masks ++ t.polynomials = Units(958735)
  <2>1. Units(73728) ++ Units(802816) = Units(876544)
    BY UnitsSum
  <2>2. Units(876544) ++ Units(81920) = Units(958464)
    BY UnitsSum
  <2>3. Units(958464) ++ Units(271) = Units(958735)
    BY UnitsSum
  <2> QED BY <1>1, <2>1, <2>2, <2>3
<1>4. Units(958735) ++ t.stcEncoded ++ t.stcNumeric ++ t.stcText = Units(8371471)
  <2>1. Units(958735) ++ Units(6762496) = Units(7721231)
    BY UnitsSum
  <2>2. Units(7721231) ++ Units(260096) = Units(7981327)
    BY UnitsSum
  <2>3. Units(7981327) ++ Units(390144) = Units(8371471)
    BY UnitsSum
  <2> QED BY <1>1, <2>1, <2>2, <2>3
<1>5. Units(958735) ++ t.stcEncoded ++ t.ctsEncoded ++ t.ctsNumeric ++ t.ctsText = Units(11593999)
  <2>1. Units(958735) ++ Units(6762496) = Units(7721231)
    BY UnitsSum
  <2>2. Units(7721231) ++ Units(3555328) = Units(11276559)
    BY UnitsSum
  <2>3. Units(11276559) ++ Units(126976) = Units(11403535)
    BY UnitsSum
  <2>4. Units(11403535) ++ Units(190464) = Units(11593999)
    BY UnitsSum
  <2> QED BY <1>1, <2>1, <2>2, <2>3, <2>4
<1>6. Resident(t) ++ t.polynomials = Units(11276830)
  <2>1. Units(11276559) ++ Units(271) = Units(11276830)
    BY UnitsSum
  <2> QED BY <1>1, <1>2, <2>1
<1>7. ArtifactStages(t) = <<Units(8371471), Units(11593999), Units(11276830)>>
  BY <1>3, <1>4, <1>5, <1>6 DEF ArtifactStages
<1>8. Peak(ArtifactStages(t)) = Units(11593999)
  BY <1>7, PeakUnits
<1> QED BY <1>2, <1>8

\* Only the keys, their count and the digest differ from the literal.
LEMMA PackingShapeFields ==
  \E keys, count, digest :
    DefaultPackingShape = [PackingFields EXCEPT !.keys = keys, !.keyCount = count, !.digest = digest]
<1>1. PICK keys, count :
        ShapeWithKeys(PackingFields) = Sealed([PackingFields EXCEPT !.keys = keys, !.keyCount = count])
  BY Zenon DEF ShapeWithKeys
<1>2. PICK digest :
        DefaultPackingShape = [[PackingFields EXCEPT !.keys = keys, !.keyCount = count] EXCEPT !.digest = digest]
  BY <1>1, Zenon DEF DefaultPackingShape, Sealed
<1>3. DefaultPackingShape = [PackingFields EXCEPT !.keys = keys, !.keyCount = count, !.digest = digest]
  BY <1>2
<1> QED BY <1>3, Zenon

\* The 2^11-slot packing has 127 and 62 diagonals, and the operands the runtime
\* terms are derived from (DefaultGaoN16PackingL11CapacityShape).
LEMMA PackingShapeIs ==
  /\ LedgerShape(DefaultPackingShape, 8, 127, 62)
  /\ DefaultPackingShape.stcDiagonals = <<63, 64>> /\ DefaultPackingShape.ctsDiagonals = <<16, 31, 15>>
  /\ DefaultPackingShape.stcLevels = <<18, 6>> /\ DefaultPackingShape.ctsLevels = <<20, 6>>
  /\ DefaultPackingShape.keyUnits = 344064 * Scale /\ DefaultPackingShape.bufferUnits = 1722368 * Scale
  /\ DefaultPackingShape.fixedKeys = {"relinearization", "dense_to_sparse", "sparse_to_dense"}
  /\ DefaultPackingShape.babySteps = 4 /\ DefaultPackingShape.components = 2
  /\ DefaultPackingShape.babyLevels = <<18, 6>> /\ DefaultPackingShape.scratch = 65536
<1>1. PICK shape : shape = DefaultPackingShape
  OBVIOUS
<1>2. PICK keys, count, digest :
        shape = [PackingFields EXCEPT !.keys = keys, !.keyCount = count, !.digest = digest]
  BY <1>1, PackingShapeFields, Zenon
<1>3. /\ shape.stcDiagonals = <<63, 64>> /\ shape.ctsDiagonals = <<16, 31, 15>>
      /\ shape.stcLevels = <<18, 6>> /\ shape.ctsLevels = <<20, 6>>
      /\ shape.fixedKeys = {"relinearization", "dense_to_sparse", "sparse_to_dense"}
      /\ shape.babySteps = 4 /\ shape.components = 2
      /\ shape.babyLevels = <<18, 6>> /\ shape.scratch = 65536
      /\ shape.keyUnits = 88080384 \div ByteUnit /\ shape.bufferUnits = 440926208 \div ByteUnit
  BY <1>2 DEF PackingFields
<1>4. /\ shape.transforms = 9 /\ shape.vectors = 4 /\ shape.pairPolynomials = 14
      /\ shape.qCount = 21 /\ shape.pCount = 7 /\ shape.masks = 2 /\ shape.maskLevel = 19
      /\ shape.mappings = 3 /\ shape.coefficients = 79 /\ shape.slots = 2048
      /\ Pages(shape)
  BY <1>2 DEF PackingFields, Pages
<1>5. 88080384 \div ByteUnit = 344064 * Scale /\ 440926208 \div ByteUnit = 1722368 * Scale
  BY DivideBytes, 256 * 344064 = 88080384, 256 * 1722368 = 440926208
<1>6. StcDiagonals(shape) = Capped(127)
  <2>1. 63 ++ 64 = Capped(127)
    BY SumCapped DEF Stands
  <2> QED BY <1>3, <2>1 DEF StcDiagonals
<1>7. CtsDiagonals(shape) = Capped(62)
  <2>1. 16 ++ 31 = Capped(47)
    BY SumCapped DEF Stands
  <2>2. Capped(47) ++ 15 = Capped(62)
    BY SumCapped DEF Stands
  <2> QED BY <1>3, <2>1, <2>2 DEF CtsDiagonals
<1>8. LedgerShape(shape, 8, 127, 62)
  BY <1>3, <1>4, <1>6, <1>7 DEF LedgerShape
<1> QED BY <1>1, <1>3, <1>5, <1>8

RuntimeLedger ==
  [rotationKeys |-> Units(13074432), fixedKeys |-> Units(1032192), buffers |-> 1722368 * Scale,
   preRotated |-> Units(425984), scratch |-> Units(2048)]

\* Three keys are not rotations.
LEMMA FixedKeyCount == Cardinality({"relinearization", "dense_to_sparse", "sparse_to_dense"}) = 3
<1>1. Cardinality({}) = 0 /\ IsFiniteSet({})
  BY FS_EmptySet
<1>2. {"relinearization"} = {} \union {"relinearization"}
      /\ {"relinearization", "dense_to_sparse"} = {"relinearization"} \union {"dense_to_sparse"}
      /\ {"relinearization", "dense_to_sparse", "sparse_to_dense"}
           = {"relinearization", "dense_to_sparse"} \union {"sparse_to_dense"}
  OBVIOUS
<1>3. IsFiniteSet({"relinearization"}) /\ Cardinality({"relinearization"}) = 1
  BY <1>1, <1>2, FS_AddElement
<1>4. IsFiniteSet({"relinearization", "dense_to_sparse"}) /\ Cardinality({"relinearization", "dense_to_sparse"}) = 2
  BY <1>2, <1>3, FS_AddElement
<1> QED BY <1>2, <1>4, FS_AddElement

\* The keys, buffers and pre-rotated ciphertexts in pages, if the key schedule is
\* valid, and so has 38 keys (deriveGaoN16PackingL11Capacity).
LEMMA RuntimeTermsAre ==
  ASSUME ValidKeySchedule(DefaultPackingShape)
  PROVE  RuntimeTerms(DefaultPackingShape) = RuntimeLedger
<1> USE DEF Pos
<1>1. PICK shape : shape = DefaultPackingShape
  OBVIOUS
<1>2. Cardinality(shape.keys) = 38
  BY <1>1, Zenon DEF ValidKeySchedule
<1>3. Cardinality(shape.fixedKeys) = 3 /\ Pages(shape)
  BY <1>1, PackingShapeIs, FixedKeyCount DEF LedgerShape
<1>4. 38 ** (344064 * Scale) = Units(13074432) /\ 3 ** (344064 * Scale) = Units(1032192)
  BY UnitsProduct DEF Stands
<1>5. 4 ** 2 ** RingUnits(shape) ** shape.coefficientBytes ** Limbs(<<18, 6>>) = Units(425984)
  <2>1. Stands(4 ** 2, 8)
    BY ProductCapped DEF Stands
  <2>2. Rows(shape, 4 ** 2) = Units(8 * 2048)
    BY <1>3, <2>1, RowUnits
  <2>3. Stands(Limbs(<<18, 6>>), 26)
    BY LimbCount DEF Stands
  <2>4. Units(16384) ** Limbs(<<18, 6>>) = Units(26 * 16384)
    BY <2>3, UnitsProduct
  <2> QED BY <2>2, <2>4 DEF Rows
<1>6. (65536 \div ByteUnit) ** 8 = Units(2048)
  <2>1. 65536 \div ByteUnit = 256 * Scale
    BY DivideBytes, 256 * 256 = 65536
  <2>2. Stands(256 * Scale, 256 * Scale) /\ 256 * Scale \in Pos
    BY ScaleDivides DEF Stands
  <2>3. (256 * Scale) ** 8 = Capped((256 * Scale) * 8)
    BY <2>2, ProductCapped DEF Stands
  <2>4. (256 * Scale) * 8 = 2048 * Scale
    BY ScaleDivides
  <2> QED BY <2>1, <2>3, <2>4 DEF Units
<1> QED BY <1>1, <1>2, <1>3, <1>4, <1>5, <1>6, PackingShapeIs DEF RuntimeTerms, RuntimeLedger, Pages

\* What the combined plan projects, in pages.
LEMMA RuntimeSumIs == RuntimeSum(Units(11593999), RuntimeLedger) = Units(27851023)
<1>1. Units(13074432) ++ Units(1032192) = Units(14106624)
  BY UnitsSum
<1>2. Units(11593999) ++ Units(14106624) = Units(25700623)
  BY UnitsSum
<1>3. Units(25700623) ++ (1722368 * Scale) = Units(27422991)
  <2>1. 25700623 * Scale \in Nat /\ 1722368 * Scale \in Nat
        /\ 25700623 * Scale + 1722368 * Scale = 27422991 * Scale
    BY ScaleDivides DEF Pos
  <2> QED BY <2>1, SumCapped DEF Units, Stands
<1>4. Units(27422991) ++ Units(425984) ++ Units(2048) = Units(27851023)
  BY UnitsSum
<1> QED BY <1>1, <1>2, <1>3, <1>4 DEF RuntimeSum, RuntimeLedger

\* The largest factor is the second of the STC transform.
LEMMA MaxFactorIs == MaxFactor(DefaultPackingShape) = Units(3407872)
<1> USE DEF Pos
<1>1. PICK shape : shape = DefaultPackingShape
  OBVIOUS
<1>2. Pages(shape) /\ shape.stcDiagonals = <<63, 64>> /\ shape.ctsDiagonals = <<16, 31, 15>>
      /\ shape.stcLevels = <<18, 6>> /\ shape.ctsLevels = <<20, 6>>
  BY <1>1, PackingShapeIs DEF LedgerShape
<1>3. Encoded(shape, 63, <<18, 6>>) = Units(3354624) /\ Encoded(shape, 64, <<18, 6>>) = Units(3407872)
  BY <1>2, EncodedUnits DEF Stands
<1>4. /\ Encoded(shape, 16, <<20, 6>>) = Units(917504) /\ Encoded(shape, 31, <<20, 6>>) = Units(1777664)
      /\ Encoded(shape, 15, <<20, 6>>) = Units(860160)
  BY <1>2, EncodedUnits DEF Stands
<1> DEFINE sizes == {Encoded(shape, shape.stcDiagonals[i], shape.stcLevels) : i \in DOMAIN shape.stcDiagonals}
                    \union {Encoded(shape, shape.ctsDiagonals[i], shape.ctsLevels) : i \in DOMAIN shape.ctsDiagonals}
<1>5. sizes = {Units(3354624), Units(3407872), Units(917504), Units(1777664), Units(860160)}
  <2>1. {Encoded(shape, shape.stcDiagonals[i], shape.stcLevels) : i \in DOMAIN shape.stcDiagonals}
          = {Units(3354624), Units(3407872)}
    BY <1>2, <1>3
  <2>2. {Encoded(shape, shape.ctsDiagonals[i], shape.ctsLevels) : i \in DOMAIN shape.ctsDiagonals}
          = {Units(917504), Units(1777664), Units(860160)}
    BY <1>2, <1>4
  <2> QED BY <2>1, <2>2
<1>6. PICK u, k : u = Units(3407872) /\ k = Scale /\ k \in Nat
  BY ScaleDivides
<1>7. CASE u = Overflow
  BY <1>1, <1>5, <1>6, <1>7 DEF MaxFactor
<1>8. CASE u # Overflow
  <2>1. u = 3407872 * k /\ u <= MaxWord
    <3>1. u = IF 3407872 * k <= MaxWord THEN 3407872 * k ELSE Overflow
      BY <1>6 DEF Units, Capped
    <3> QED BY <1>8, <3>1
  <2>2. sizes = {3354624 * k, 3407872 * k, 917504 * k, 1777664 * k, 860160 * k}
    BY <1>5, <1>6, <2>1, LedgerAssumption DEF Units, Capped
  <2>3. Overflow \notin sizes
    BY <1>6, <2>2 DEF Overflow
  <2>4. u \in sizes /\ \A c \in sizes : c <= u
    BY <1>6, <2>1, <2>2
  <2>5. \A w \in sizes : (\A c \in sizes : c <= w) => w = u
    <3>1. SUFFICES ASSUME NEW w \in sizes, u <= w PROVE w = u
      BY <2>4
    <3> QED BY <1>6, <2>1, <2>2, <3>1
  <2>6. (CHOOSE b \in sizes : \A c \in sizes : c <= b) = u
    BY <2>4, <2>5
  <2> QED BY <1>1, <1>6, <2>3, <2>6 DEF MaxFactor
<1> QED BY <1>7, <1>8

\* What the memory a plan asks for is made of.
Combined == NewCombinedPlan(NewPackingProfile, DefaultPackingShape, DefaultPolicy)

\* A combined plan that is made has a valid key schedule and no overflow, and keeps
\* its inputs (NewGaoN16PackingL11CapacityPlan).
LEMMA CombinedPlanMade ==
  ASSUME NEW profile, NEW shape, NEW policy, NEW components, NEW maxFactor, NEW artifactPeak, NEW resident,
         NEW peak, NEW p,
         p = CombinedPlanOf(profile, shape, policy, components, maxFactor, artifactPeak, resident, peak),
         p # NoPlan
  PROVE  /\ ValidKeySchedule(shape) /\ peak # Overflow
         /\ p.shape = shape /\ p.policy = policy /\ p.components = components /\ p.maxFactor = maxFactor
         /\ p.artifactPeak = artifactPeak /\ p.resident = resident /\ p.peak = peak
<1>1. ValidShapeSeal(shape) /\ peak \notin {Overflow}
  BY Zenon DEF CombinedPlanOf
<1>2. p = Sealed([kind |-> "combined", phase |-> "", claims |-> profile.claims,
               profile |-> profile, shape |-> shape, policy |-> policy, base |-> NoDigest,
               components |-> components, maxFactor |-> maxFactor,
               artifactPeak |-> artifactPeak, resident |-> resident, peak |-> peak, digest |-> NoDigest])
  BY Zenon DEF CombinedPlanOf
<1>3. /\ p.shape = shape /\ p.policy = policy /\ p.components = components /\ p.maxFactor = maxFactor
      /\ p.artifactPeak = artifactPeak /\ p.resident = resident /\ p.peak = peak
  BY <1>2 DEF Sealed
<1> QED BY <1>1, <1>3 DEF ValidShapeSeal

\* The combined plan in pages.
LEMMA CombinedNumbers ==
  ASSUME NEW p, p = Combined, p # NoPlan
  PROVE  /\ p.shape = DefaultPackingShape /\ p.policy = DefaultPolicy
         /\ p.components = Joined(LedgerOf(8, 127, 62), RuntimeLedger)
         /\ p.maxFactor = Units(3407872) /\ p.artifactPeak = Units(11593999)
         /\ p.resident = Units(11276559) /\ p.peak = Units(27851023) /\ p.peak # Overflow
<1>1. PICK t, r, max, artifactPeak, resident, peak :
        /\ t = ArtifactTerms(DefaultPackingShape) /\ r = RuntimeTerms(DefaultPackingShape)
        /\ max = MaxFactor(DefaultPackingShape) /\ artifactPeak = Peak(ArtifactStages(t))
        /\ resident = Resident(t) /\ peak = RuntimeSum(artifactPeak, r)
  OBVIOUS
<1>2. p = CombinedPlanOf(NewPackingProfile, DefaultPackingShape, DefaultPolicy, Joined(t, r), max, artifactPeak,
                         resident, peak)
  BY <1>1 DEF Combined, NewCombinedPlan, CombinedPlanOn
<1>3. /\ ValidKeySchedule(DefaultPackingShape) /\ peak # Overflow
      /\ p.shape = DefaultPackingShape /\ p.policy = DefaultPolicy /\ p.components = Joined(t, r)
      /\ p.maxFactor = max /\ p.artifactPeak = artifactPeak /\ p.resident = resident /\ p.peak = peak
  BY <1>2, CombinedPlanMade, SMT
<1>6. t = LedgerOf(8, 127, 62)
  BY <1>1, PackingShapeIs, TermsAre DEF Pos
<1>7. resident = Units(11276559) /\ artifactPeak = Units(11593999)
  BY <1>1, <1>6, PackingNumbers
<1>8. r = RuntimeLedger /\ peak = Units(27851023) /\ max = Units(3407872)
  BY <1>1, <1>3, <1>7, RuntimeTermsAre, RuntimeSumIs, MaxFactorIs
<1> QED BY <1>3, <1>6, <1>7, <1>8

\* The bytes a phase adds to what it keeps of the combined ledger.
LEMMA A2BFullIs == A2BFullBytes(DefaultPackingShape) = Units(4506624)
<1> USE DEF Pos
<1>1. PICK shape : shape = DefaultPackingShape
  OBVIOUS
<1>2. Pages(shape) /\ shape.slots = 256 * 8 /\ Stands(StcDiagonals(shape), 127) /\ shape.components = 2
      /\ shape.stcLevels = <<18, 6>>
  BY <1>1, PackingShapeIs DEF LedgerShape, Stands
<1>3. Encoded(shape, StcDiagonals(shape), <<3, shape.stcLevels[2]>>) = Units(2861056)
  <2>1. Encoded(shape, StcDiagonals(shape), <<3, 6>>) = Units(127 * 2048 * (3 + 6 + 2))
    BY <1>2, EncodedUnits
  <2> QED BY <1>2, <2>1
<1>4. Numeric(shape, StcDiagonals(shape)) = Units(260096) /\ Text(shape, StcDiagonals(shape)) = Units(390144)
  BY <1>2, VectorUnits
<1>5. Rows(shape, 5 + 1) = Units(12288)
  BY <1>2, RowUnits DEF Stands
<1>6. Rows(shape, 12 ** shape.components ** (19 + 1)) = Units(983040)
  <2>1. Stands(12 ** 2, 24)
    BY ProductCapped DEF Stands
  <2>2. Stands(12 ** 2 ** 20, 480)
    BY <2>1, ProductCapped DEF Stands
  <2> QED BY <1>2, <2>2, RowUnits
<1>7. Units(2861056) ++ Units(260096) ++ Units(390144) ++ Units(12288) ++ Units(983040) = Units(4506624)
  <2>1. Units(2861056) ++ Units(260096) = Units(3121152)
    BY UnitsSum
  <2>2. Units(3121152) ++ Units(390144) = Units(3511296)
    BY UnitsSum
  <2>3. Units(3511296) ++ Units(12288) = Units(3523584)
    BY UnitsSum
  <2>4. Units(3523584) ++ Units(983040) = Units(4506624)
    BY UnitsSum
  <2> QED BY <2>1, <2>2, <2>3, <2>4
<1> QED BY <1>1, <1>3, <1>4, <1>5, <1>6, <1>7 DEF A2BFullBytes

\* The same of the root tree (gaoN16PackingL11Signed8RootTreeComponents).
LEMMA RootTreeIs == RootTreeBytes(DefaultPackingShape) = Units(276480)
<1> USE DEF Pos
<1>1. PICK shape : shape = DefaultPackingShape
  OBVIOUS
<1>2. Pages(shape) /\ shape.slots = 256 * 8 /\ shape.components = 2
  BY <1>1, PackingShapeIs DEF LedgerShape
<1>3. Numeric(shape, 1) = Units(2048) /\ Numeric(shape, 4) = Units(8192)
  BY <1>2, VectorUnits DEF Stands
<1>4. Rows(shape, 20 + 1) = Units(43008) /\ Rows(shape, 3 + 1) = Units(8192) /\ Rows(shape, 2 + 1) = Units(6144)
  BY <1>2, RowUnits DEF Stands
<1>5. Rows(shape, 4 ** ((4 + 1) + (6 + 1))) = Units(98304)
  <2>1. Stands(4 ** ((4 + 1) + (6 + 1)), 48)
    BY ProductCapped DEF Stands
  <2> QED BY <1>2, <2>1, RowUnits
<1>6. Rows(shape, 5 ** shape.components ** (4 + 1)) = Units(102400)
  <2>1. Stands(5 ** 2, 10)
    BY ProductCapped DEF Stands
  <2>2. Stands(5 ** 2 ** (4 + 1), 50)
    BY <2>1, ProductCapped DEF Stands
  <2> QED BY <1>2, <2>2, RowUnits
<1>7. Units(43008) ++ Units(2048) ++ Units(98304) ++ Units(8192) ++ Units(8192) ++ Units(8192) ++ Units(6144)
        ++ Units(102400) = Units(276480)
  <2>1. Units(43008) ++ Units(2048) = Units(45056)
    BY UnitsSum
  <2>2. Units(45056) ++ Units(98304) = Units(143360)
    BY UnitsSum
  <2>3. Units(143360) ++ Units(8192) = Units(151552)
    BY UnitsSum
  <2>4. Units(151552) ++ Units(8192) = Units(159744)
    BY UnitsSum
  <2>5. Units(159744) ++ Units(8192) = Units(167936)
    BY UnitsSum
  <2>6. Units(167936) ++ Units(6144) = Units(174080)
    BY UnitsSum
  <2>7. Units(174080) ++ Units(102400) = Units(276480)
    BY UnitsSum
  <2> QED BY <2>1, <2>2, <2>3, <2>4, <2>5, <2>6, <2>7
<1> QED BY <1>1, <1>3, <1>4, <1>5, <1>6, <1>7 DEF RootTreeBytes

\* The same of the node batch (gaoN16PackingL11Signed8Depth2NodeBatchComponents).
LEMMA NodeBatchIs == NodeBatchBytes(DefaultPackingShape) = Units(532480)
<1> USE DEF Pos
<1>1. PICK shape : shape = DefaultPackingShape
  OBVIOUS
<1>2. Pages(shape) /\ shape.slots = 256 * 8 /\ shape.components = 2
  BY <1>1, PackingShapeIs DEF LedgerShape
<1>3. Numeric(shape, 1) = Units(2048) /\ Numeric(shape, 4) = Units(8192)
  BY <1>2, VectorUnits DEF Stands
<1>4. /\ Rows(shape, 21) = Units(43008) /\ Rows(shape, 4) = Units(8192)
      /\ Rows(shape, 3) = Units(6144) /\ Rows(shape, 1) = Units(2048)
  BY <1>2, RowUnits DEF Stands
<1>5. Rows(shape, 4 ** 12) = Units(98304) /\ Rows(shape, 3 ** 4) = Units(24576) /\ Rows(shape, 3 ** 2) = Units(12288)
  <2>1. Stands(4 ** 12, 48) /\ Stands(3 ** 4, 12) /\ Stands(3 ** 2, 6)
    BY ProductCapped DEF Stands
  <2> QED BY <1>2, <2>1, RowUnits
<1>6. Rows(shape, 16 ** shape.components ** 5) = Units(327680)
  <2>1. Stands(16 ** 2, 32)
    BY ProductCapped DEF Stands
  <2>2. Stands(16 ** 2 ** 5, 160)
    BY <2>1, ProductCapped DEF Stands
  <2> QED BY <1>2, <2>2, RowUnits
<1>7. Units(43008) ++ Units(2048) ++ Units(98304) ++ Units(8192) ++ Units(8192) ++ Units(6144) ++ Units(24576)
        ++ Units(12288) ++ Units(2048) ++ Units(327680) = Units(532480)
  <2>1. Units(43008) ++ Units(2048) = Units(45056)
    BY UnitsSum
  <2>2. Units(45056) ++ Units(98304) = Units(143360)
    BY UnitsSum
  <2>3. Units(143360) ++ Units(8192) = Units(151552)
    BY UnitsSum
  <2>4. Units(151552) ++ Units(8192) = Units(159744)
    BY UnitsSum
  <2>5. Units(159744) ++ Units(6144) = Units(165888)
    BY UnitsSum
  <2>6. Units(165888) ++ Units(24576) = Units(190464)
    BY UnitsSum
  <2>7. Units(190464) ++ Units(12288) = Units(202752)
    BY UnitsSum
  <2>8. Units(202752) ++ Units(2048) = Units(204800)
    BY UnitsSum
  <2>9. Units(204800) ++ Units(327680) = Units(532480)
    BY UnitsSum
  <2> QED BY <2>1, <2>2, <2>3, <2>4, <2>5, <2>6, <2>7, <2>8, <2>9
<1> QED BY <1>1, <1>3, <1>4, <1>5, <1>6, <1>7 DEF NodeBatchBytes

\* The same of the selected child
\* (gaoN16PackingL11Signed8Depth2SelectedChildComponents).
LEMMA SelectedChildIs == SelectedChildBytes(DefaultPackingShape) = Units(1501184)
<1> USE DEF Pos
<1>1. PICK shape : shape = DefaultPackingShape
  OBVIOUS
<1>2. Pages(shape) /\ shape.slots = 256 * 8 /\ shape.components = 2
  BY <1>1, PackingShapeIs DEF LedgerShape
<1>3. Numeric(shape, 4) = Units(8192)
  BY <1>2, VectorUnits DEF Stands
<1>4. /\ Rows(shape, 21) = Units(43008) /\ Rows(shape, 19) = Units(38912) /\ Rows(shape, 17) = Units(34816)
      /\ Rows(shape, 15) = Units(30720) /\ Rows(shape, 5) = Units(10240) /\ Rows(shape, 14) = Units(28672)
  BY <1>2, RowUnits DEF Stands
<1>5. Rows(shape, 4 ** 12) = Units(98304) /\ Rows(shape, 8 ** 13) = Units(212992)
  <2>1. Stands(4 ** 12, 48) /\ Stands(8 ** 13, 104)
    BY ProductCapped DEF Stands
  <2> QED BY <1>2, <2>1, RowUnits
<1>6. Rows(shape, 3 ** shape.components ** 21) = Units(258048)
  <2>1. Stands(3 ** 2, 6)
    BY ProductCapped DEF Stands
  <2>2. Stands(3 ** 2 ** 21, 126)
    BY <2>1, ProductCapped DEF Stands
  <2> QED BY <1>2, <2>2, RowUnits
<1>7. Rows(shape, 20 ** shape.components ** 9) = Units(737280)
  <2>1. Stands(20 ** 2, 40)
    BY ProductCapped DEF Stands
  <2>2. Stands(20 ** 2 ** 9, 360)
    BY <2>1, ProductCapped DEF Stands
  <2> QED BY <1>2, <2>2, RowUnits
<1>8. Units(258048) ++ Units(43008) ++ Units(98304) ++ Units(8192) ++ Units(38912) ++ Units(34816) ++ Units(30720)
        ++ Units(212992) ++ Units(10240) ++ Units(28672) ++ Units(737280) = Units(1501184)
  <2>1. Units(258048) ++ Units(43008) = Units(301056)
    BY UnitsSum
  <2>2. Units(301056) ++ Units(98304) = Units(399360)
    BY UnitsSum
  <2>3. Units(399360) ++ Units(8192) = Units(407552)
    BY UnitsSum
  <2>4. Units(407552) ++ Units(38912) = Units(446464)
    BY UnitsSum
  <2>5. Units(446464) ++ Units(34816) = Units(481280)
    BY UnitsSum
  <2>6. Units(481280) ++ Units(30720) = Units(512000)
    BY UnitsSum
  <2>7. Units(512000) ++ Units(212992) = Units(724992)
    BY UnitsSum
  <2>8. Units(724992) ++ Units(10240) = Units(735232)
    BY UnitsSum
  <2>9. Units(735232) ++ Units(28672) = Units(763904)
    BY UnitsSum
  <2>10. Units(763904) ++ Units(737280) = Units(1501184)
    BY UnitsSum
  <2> QED BY <2>1, <2>2, <2>3, <2>4, <2>5, <2>6, <2>7, <2>8, <2>9, <2>10
<1> QED BY <1>1, <1>3, <1>4, <1>5, <1>6, <1>7, <1>8 DEF SelectedChildBytes

\* The terms of the combined plan by name.
LEMMA ComponentValues ==
  ASSUME NEW c, c = Joined(LedgerOf(8, 127, 62), RuntimeLedger)
  PROVE  /\ c.specifications = Units(73728) /\ c.pair = Units(802816) /\ c.masks = Units(81920)
         /\ c.polynomials = Units(271) /\ c.rotationKeys = Units(13074432) /\ c.fixedKeys = Units(1032192)
         /\ c.buffers = 1722368 * Scale /\ c.preRotated = Units(425984) /\ c.scratch = Units(2048)
BY DEF Joined, LedgerOf, RuntimeLedger

\* Nothing is no units.
LEMMA UnitsZero == Units(0) = 0
<1>1. 0 * Scale = 0
  BY ScaleDivides DEF Pos
<1> QED BY <1>1, LedgerAssumption DEF Units, Capped

\* At most m units, whether or not a word holds them.
AtMost(x, m) == \E n \in Nat : n <= m /\ x = Units(n)

\* A number of units is at most a larger one.
LEMMA UnitsAtMost == ASSUME NEW n \in Nat, NEW m \in Nat, n <= m PROVE AtMost(Units(n), m)
BY DEF AtMost

\* Bounds add up.
LEMMA SumAtMost ==
  ASSUME NEW x, NEW y, NEW a \in Nat, NEW b \in Nat, AtMost(x, a), AtMost(y, b)
  PROVE  AtMost(x ++ y, a + b)
<1>1. PICK m \in Nat, n \in Nat : m <= a /\ n <= b /\ x = Units(m) /\ y = Units(n)
  BY DEF AtMost
<1>2. x ++ y = Units(m + n) /\ m + n \in Nat /\ m + n <= a + b
  BY <1>1, UnitsSum
<1> QED BY <1>2 DEF AtMost

\* If a word holds the bound, it holds what is bounded.
LEMMA AtMostHeld ==
  ASSUME NEW x, NEW m \in Nat, AtMost(x, m), Units(m) # Overflow
  PROVE  x \in Nat /\ Units(m) \in Nat /\ x <= Units(m)
<1>1. PICK n \in Nat : n <= m /\ x = Units(n)
  BY DEF AtMost
<1>2. PICK k \in Nat : k = Scale
  BY ScaleDivides DEF Pos
<1>3. m * k \in Nat /\ n * k \in Nat /\ n * k <= m * k
  BY <1>1
<1>4. /\ Units(m) = (IF m * k <= MaxWord THEN m * k ELSE Overflow)
      /\ Units(n) = (IF n * k <= MaxWord THEN n * k ELSE Overflow)
  BY <1>2 DEF Units, Capped
<1>5. m * k <= MaxWord /\ Units(m) = m * k
  BY <1>4, Zenon
<1>6. n * k <= MaxWord
  BY <1>3, <1>5, LedgerAssumption
<1> QED BY <1>1, <1>3, <1>4, <1>5, <1>6

\* A phase keeps at most the keys, buffers and scratch of the combined plan
\* (NewGaoN16PackingL11PhaseCapacityPlan).
LEMMA NamedIs ==
  ASSUME NEW p, p = Combined, p # NoPlan, NEW phase \in Phases
  PROVE  AtMost(NamedBytes(p, phase), 16257024)
<1>1. PICK c : c = p.components
  OBVIOUS
<1>2. /\ c.specifications = Units(73728) /\ c.pair = Units(802816) /\ c.masks = Units(81920)
      /\ c.polynomials = Units(271) /\ c.rotationKeys = Units(13074432) /\ c.fixedKeys = Units(1032192)
      /\ c.buffers = 1722368 * Scale /\ c.preRotated = Units(425984) /\ c.scratch = Units(2048)
  BY <1>1, CombinedNumbers, ComponentValues
<1>3. CASE phase = "begin-build"
  <2>1. NamedBytes(p, phase) = Units(11593999)
    BY <1>3, CombinedNumbers DEF NamedBytes
  <2> QED BY <2>1, UnitsAtMost
<1>4. CASE phase = "authorize-ready"
  <2>1. NamedBytes(p, phase) = Units(2048)
    BY <1>1, <1>2, <1>4 DEF NamedBytes
  <2> QED BY <2>1, UnitsAtMost
<1>5. CASE phase = "install"
  <2>1. Units(13074432) ++ Units(1032192) = Units(14106624)
    BY UnitsSum
  <2>2. Units(14106624) ++ (1722368 * Scale) = Units(15828992)
    <3>1. 14106624 * Scale \in Nat /\ 1722368 * Scale \in Nat
          /\ 14106624 * Scale + 1722368 * Scale = 15828992 * Scale
      BY ScaleDivides DEF Pos
    <3> QED BY <3>1, SumCapped DEF Units, Stands
  <2>3. Units(15828992) ++ Units(425984) = Units(16254976)
    BY UnitsSum
  <2>4. Units(16254976) ++ Units(2048) = Units(16257024)
    BY UnitsSum
  <2>5. NamedBytes(p, phase) = c.rotationKeys ++ c.fixedKeys ++ c.buffers ++ c.preRotated ++ c.scratch
    BY <1>1, <1>5 DEF NamedBytes
  <2>6. NamedBytes(p, phase) = Units(16257024)
    BY <1>2, <2>1, <2>2, <2>3, <2>4, <2>5
  <2> QED BY <2>6, UnitsAtMost
<1>6. CASE phase = "preflight"
  <2>1. NamedBytes(p, phase) = c.preRotated ++ c.scratch
    BY <1>1, <1>6 DEF NamedBytes
  <2>2. Units(425984) ++ Units(2048) = Units(428032)
    BY UnitsSum
  <2>3. NamedBytes(p, phase) = Units(428032)
    BY <1>2, <2>1, <2>2
  <2> QED BY <2>3, UnitsAtMost
<1>7. CASE phase \notin {"begin-build", "authorize-ready", "install", "preflight"}
  <2>1. Units(73728) ++ Units(802816) = Units(876544)
    BY UnitsSum
  <2>2. Units(876544) ++ Units(81920) = Units(958464)
    BY UnitsSum
  <2>3. Units(958464) ++ Units(271) = Units(958735)
    BY UnitsSum
  <2>4. Units(958735) ++ Units(425984) = Units(1384719)
    BY UnitsSum
  <2>5. Units(1384719) ++ Units(2048) = Units(1386767)
    BY UnitsSum
  <2>6. NamedBytes(p, phase) = c.specifications ++ c.pair ++ c.masks ++ c.polynomials ++ c.preRotated ++ c.scratch
    BY <1>1, <1>7 DEF NamedBytes
  <2>7. NamedBytes(p, phase) = Units(1386767)
    BY <1>2, <2>1, <2>2, <2>3, <2>4, <2>5, <2>6
  <2> QED BY <2>7, UnitsAtMost
<1> QED BY <1>3, <1>4, <1>5, <1>6, <1>7

\* No phase asks for more than the combined plan.
LEMMA PhaseWithinCombined ==
  ASSUME NEW p, p = Combined, p # NoPlan, NEW phase \in Phases
  PROVE  ComponentSum(PhaseComponents(p, phase)) \in Nat /\ ComponentSum(PhaseComponents(p, phase)) <= p.peak
<1>1. PICK c : c = PhaseComponents(p, phase)
  OBVIOUS
<1>2. AtMost(c.envelope, 3407872)
  <2>1. c.envelope = 0 \/ c.envelope = p.maxFactor
    BY <1>1 DEF PhaseComponents
  <2>2. c.envelope = Units(0) \/ c.envelope = Units(3407872)
    BY <2>1, CombinedNumbers, UnitsZero
  <2> QED BY <2>2, UnitsAtMost
<1>3. AtMost(c.named, 16257024)
  <2>1. c.named = NamedBytes(p, phase)
    BY <1>1 DEF PhaseComponents
  <2> QED BY <2>1, NamedIs
<1>4. AtMost(c.full, 4506624)
  <2>1. c.full = 0 \/ c.full = A2BFullBytes(DefaultPackingShape)
    BY <1>1, CombinedNumbers DEF PhaseComponents
  <2>2. c.full = Units(0) \/ c.full = Units(4506624)
    BY <2>1, A2BFullIs, UnitsZero
  <2> QED BY <2>2, UnitsAtMost
<1>5. AtMost(c.tree, 1501184)
  <2>1. c.tree \in {0, RootTreeBytes(DefaultPackingShape), NodeBatchBytes(DefaultPackingShape),
                    SelectedChildBytes(DefaultPackingShape)}
    BY <1>1, CombinedNumbers DEF PhaseComponents
  <2>2. c.tree = Units(0) \/ c.tree = Units(276480) \/ c.tree = Units(532480) \/ c.tree = Units(1501184)
    BY <2>1, RootTreeIs, NodeBatchIs, SelectedChildIs, UnitsZero
  <2> QED BY <2>2, UnitsAtMost
<1>6. AtMost(ComponentSum(c), 25672704)
  <2>1. AtMost(c.envelope ++ c.named, 19664896)
    BY <1>2, <1>3, SumAtMost
  <2>2. AtMost(c.envelope ++ c.named ++ c.full, 24171520)
    BY <1>4, <2>1, SumAtMost
  <2>3. AtMost(c.envelope ++ c.named ++ c.full ++ c.tree, 25672704)
    BY <1>5, <2>2, SumAtMost
  <2> QED BY <2>3 DEF ComponentSum
<1>7. AtMost(ComponentSum(c), 27851023)
  BY <1>6 DEF AtMost
<1>8. p.peak = Units(27851023) /\ p.peak # Overflow
  BY CombinedNumbers
<1> QED BY <1>1, <1>7, <1>8, AtMostHeld

-----------------------------------------------------------------------------
\* Seals.

\* Two values of one digest agree in every other field.
LEMMA DigestCovers ==
  ASSUME NEW v, NEW w, Digest(v) = Digest(w), NEW f \in DOMAIN v \intersect DOMAIN w, f # "digest"
  PROVE  v[f] = w[f]
<1>1. Digest(v).sha256 = Digest(w).sha256
  OBVIOUS
<1>2. [v EXCEPT !.digest = NoDigest] = [w EXCEPT !.digest = NoDigest]
  BY <1>1 DEF Digest
<1>3. [v EXCEPT !.digest = NoDigest][f] = [w EXCEPT !.digest = NoDigest][f]
  BY <1>2
<1> QED BY <1>3

\* A digest is nothing else.
LEMMA DigestIsDigest == ASSUME NEW v PROVE Digest(v) # NoDigest /\ Digest(v) # Foreign
BY DEF Digest, NoDigest, Foreign

\* Sealing leaves a seal.
LEMMA SealIsIntact ==
  ASSUME NEW v, "digest" \in DOMAIN v
  PROVE  Intact(Sealed(v))
<1>1. Sealed(v).digest = Digest(v)
  BY DEF Sealed
<1>2. [Sealed(v) EXCEPT !.digest = NoDigest] = [v EXCEPT !.digest = NoDigest]
  BY DEF Sealed
<1> QED BY <1>1, <1>2, DigestIsDigest DEF Intact, Digest

-----------------------------------------------------------------------------
\* Plans.
PlanFields == {"kind", "phase", "peak", "digest"}
Kinds == {"artifact", "combined", "phase"}
Made == MadePlans \ {NoPlan}

\* Every plan has a kind, a phase, a peak and a digest.
LEMMA MadeFields ==
  ASSUME NEW p \in Made
  PROVE  PlanFields \subseteq DOMAIN p /\ p.kind \in Kinds /\ (p.kind = "combined" => p.phase = "")
<1>1. CASE p = NewArtifactPlan(Profiled(Candidate), DefaultArtifactShape, DefaultPolicy)
  <2>1. PICK claims, profile, shape, policy, base, components, stages, artifactPeak, resident, peak :
          p = Sealed([kind |-> "artifact", phase |-> "", claims |-> claims,
               profile |-> profile, shape |-> shape, policy |-> policy, base |-> base,
               components |-> components, stages |-> stages, artifactPeak |-> artifactPeak,
               resident |-> resident, peak |-> peak, digest |-> NoDigest])
    BY <1>1 DEF NewArtifactPlan, ArtifactPlanOn, ArtifactPlanOf, Made
  <2> QED BY <2>1 DEF Sealed, Digest, PlanFields, Kinds
<1>2. CASE p = NewCombinedPlan(NewPackingProfile, DefaultPackingShape, DefaultPolicy)
  <2>1. PICK claims, profile, shape, policy, base, components, maxFactor, artifactPeak, resident, peak :
          p = Sealed([kind |-> "combined", phase |-> "", claims |-> claims,
               profile |-> profile, shape |-> shape, policy |-> policy, base |-> base,
               components |-> components, maxFactor |-> maxFactor,
               artifactPeak |-> artifactPeak, resident |-> resident, peak |-> peak, digest |-> NoDigest])
    BY <1>2 DEF NewCombinedPlan, CombinedPlanOn, CombinedPlanOf, Made
  <2> QED BY <2>1 DEF Sealed, Digest, PlanFields, Kinds
<1>3. ASSUME NEW ph \in Phases, p = NewPhasePlan(NewPackingProfile, DefaultPackingShape, DefaultPolicy, ph)
      PROVE  PlanFields \subseteq DOMAIN p /\ p.kind \in Kinds /\ (p.kind = "combined" => p.phase = "")
  <2>1. PICK claims, profile, shape, policy, base, components, maxFactor, artifactPeak, resident, peak :
          p = Sealed([kind |-> "phase", phase |-> ph, claims |-> claims,
               profile |-> profile, shape |-> shape, policy |-> policy, base |-> base,
               components |-> components, maxFactor |-> maxFactor,
               artifactPeak |-> artifactPeak, resident |-> resident, peak |-> peak, digest |-> NoDigest])
    BY <1>3 DEF NewPhasePlan, PhasePlanOn, PhasePlanOf, Made
  <2> QED BY <2>1 DEF Sealed, Digest, PlanFields, Kinds
<1> QED BY <1>1, <1>2, <1>3 DEF Made, MadePlans

\* A valid plan is made, and is the only one of its digest as far as it is looked at.
LEMMA PlanOfDigest ==
  ASSUME NEW p, NEW q, ValidPlan(p), ValidPlan(q), p.digest = q.digest
  PROVE  p.kind = q.kind /\ p.phase = q.phase /\ p.peak = q.peak
<1>1. p \in Made /\ q \in Made /\ Digest(p) = Digest(q)
  BY DEF ValidPlan, Made, Intact
<1>2. PlanFields \subseteq DOMAIN p /\ PlanFields \subseteq DOMAIN q
  BY <1>1, MadeFields
<1>3. \A f \in DOMAIN p \intersect DOMAIN q : f # "digest" => p[f] = q[f]
  BY <1>1, DigestCovers
<1> QED BY <1>2, <1>3 DEF PlanFields

-----------------------------------------------------------------------------
\* What an alteration leaves.
Alterable == {"decision", "peak", "plan", "probe", "report", "spec", "manifest"}

\* One field, and perhaps the seal, is not what was issued.
LEMMA AlteredFields ==
  ASSUME NEW v, NEW w \in Altered(v), "digest" \in DOMAIN v
  PROVE  \E n \in Alterable \intersect DOMAIN v :
           /\ DOMAIN w = DOMAIN v /\ \A f \in DOMAIN v : f \notin {n, "digest"} => w[f] = v[f]
           /\ n \in {"decision", "peak"} => w[n] # v[n]
           /\ n \notin {"decision", "peak"} => w[n] = Foreign
<1> DEFINE other == [n \in Alterable |->
              IF n = "peak" THEN IF v.peak = 0 THEN 1 ELSE 0
              ELSE IF n = "decision" THEN IF v.decision = "ADMITTED" THEN "RESOURCE_BLOCKED" ELSE "ADMITTED"
              ELSE Foreign]
<1>1. PICK n \in Alterable \intersect DOMAIN v :
        w = [v EXCEPT ![n] = other[n]] \/ w = Sealed([v EXCEPT ![n] = other[n]])
  BY DEF Altered, Alterable
<1> DEFINE o == other[n]
<1>a. /\ n \in {"decision", "peak"} => o # v[n]
      /\ n \notin {"decision", "peak"} => o = Foreign
  OBVIOUS
<1> HIDE DEF o, other
<1>2. n # "digest"
  BY DEF Alterable
<1>3. \A f \in DOMAIN v : f # "digest" => w[f] = [v EXCEPT ![n] = o][f]
  BY <1>1 DEF Sealed, o
<1>4. \A f \in DOMAIN v : f \notin {n, "digest"} => w[f] = v[f]
  BY <1>3
<1>5. w[n] = o
  BY <1>2, <1>3
<1>6. DOMAIN w = DOMAIN v
  BY <1>1 DEF Sealed
<1> QED BY <1>a, <1>4, <1>5, <1>6

-----------------------------------------------------------------------------
\* Reports.
ReportFields == {"kind", "claims", "plan", "probe", "snapshot", "assessed", "decision", "peak", "digest"}

\* A report is the sealed assessment of a valid plan (evaluateReport).
LEMMA ReportShape ==
  ASSUME NEW p, NEW at, NEW r, r = Evaluated(p, at).report, r # NoReport
  PROVE  /\ ValidPlan(p) /\ Intact(r) /\ DOMAIN r = ReportFields
         /\ r.plan = p.digest /\ r.snapshot = at /\ r.peak = p.peak
         /\ r.decision = r.assessed.decision /\ r.probe # Foreign
         /\ r.assessed = Assess(p.peak, p.policy, at) /\ ~r.assessed.overflow /\ ValidSnapshot(at)
<1>1. PICK probe :
        /\ r = Report(p, at, probe)
        /\ p.kind \in Kinds => probe \in {ArtifactProbe(p, at), CombinedProbe(p, at), PhaseProbe(p, at)}
  BY DEF Evaluated, Evaluation, Kinds
<1>2. PICK a : a = Assess(p.peak, p.policy, at) /\ r = ReportOf(p, at, probe, a)
  BY <1>1 DEF Report
<1> DEFINE body == [kind |-> p.kind, claims |-> p.claims, plan |-> p.digest, probe |-> probe,
                    snapshot |-> at, assessed |-> a, decision |-> a.decision, peak |-> p.peak,
                    digest |-> NoDigest]
<1>3. ValidPlan(p) /\ ValidSnapshot(at) /\ ~a.overflow /\ r = Sealed(body)
  BY <1>2 DEF ReportOf
<1>4. probe # Foreign
  <2>1. p.kind \in Kinds
    BY <1>3, MadeFields DEF ValidPlan, Made
  <2>2. "policy" \in DOMAIN probe
    BY <1>1, <2>1 DEF ArtifactProbe, CombinedProbe, PhaseProbe
  <2> QED BY <2>2 DEF Foreign
<1>5. /\ DOMAIN r = ReportFields
      /\ r.plan = p.digest /\ r.snapshot = at /\ r.peak = p.peak /\ r.probe = probe
      /\ r.assessed = a /\ r.decision = a.decision
  BY <1>3 DEF Sealed, ReportFields
<1>6. Intact(r)
  BY <1>3, SealIsIntact, "digest" \in DOMAIN body
<1> QED BY <1>2, <1>3, <1>4, <1>5, <1>6

\* Two reports that agree but for their digests.
Agree(w, e) == \A f \in ReportFields : f # "digest" => w[f] = e[f]

\* A report is evaluated of one plan and one snapshot.
LEMMA ReportOfOne ==
  ASSUME NEW p, NEW at, NEW q, NEW bt, NEW r, NEW e,
         r = Evaluated(p, at).report, r # NoReport,
         e = Evaluated(q, bt).report, e # NoReport, Agree(r, e)
  PROVE  Issuer(p, at) = Issuer(q, bt)
<1>1. ValidPlan(p) /\ r.plan = p.digest /\ r.snapshot = at
  BY ReportShape
<1>2. ValidPlan(q) /\ e.plan = q.digest /\ e.snapshot = bt
  BY ReportShape
<1>3. r.plan = e.plan /\ r.snapshot = e.snapshot
  BY DEF Agree, ReportFields
<1>4. p.kind = q.kind /\ p.phase = q.phase
  BY <1>1, <1>2, <1>3, PlanOfDigest
<1> QED BY <1>1, <1>2, <1>3, <1>4 DEF Issuer

\* No altered report is one that some plan evaluates to, of any snapshot.
LEMMA AlteredReport ==
  ASSUME NEW p, NEW at, NEW q, NEW bt, NEW r, NEW w, NEW e,
         r = Evaluated(p, at).report, r # NoReport, w \in Altered(r),
         e = Evaluated(q, bt).report, e # NoReport
  PROVE  ~Agree(w, e)
<1> SUFFICES ASSUME Agree(w, e) PROVE FALSE
  OBVIOUS
<1>1. /\ ValidPlan(p) /\ DOMAIN r = ReportFields /\ r.plan = p.digest /\ r.peak = p.peak
      /\ r.decision = r.assessed.decision
  BY ReportShape
<1>2. /\ ValidPlan(q) /\ e.plan = q.digest /\ e.peak = q.peak
      /\ e.decision = e.assessed.decision /\ e.probe # Foreign
  BY ReportShape
<1>3. /\ w.plan = e.plan /\ w.peak = e.peak /\ w.decision = e.decision
      /\ w.assessed = e.assessed /\ w.probe = e.probe
  BY DEF Agree, ReportFields
<1>4. PICK n \in Alterable \intersect ReportFields :
        /\ \A f \in ReportFields : f \notin {n, "digest"} => w[f] = r[f]
        /\ n \in {"decision", "peak"} => w[n] # r[n]
        /\ n \notin {"decision", "peak"} => w[n] = Foreign
  BY <1>1, AlteredFields DEF ReportFields
<1>5. CASE n = "decision"
  <2>1. w.assessed = r.assessed
    BY <1>4, <1>5 DEF ReportFields
  <2> QED BY <2>1, <1>1, <1>2, <1>3, <1>4, <1>5
<1>6. CASE n = "peak"
  <2>1. w.plan = r.plan
    BY <1>4, <1>6 DEF ReportFields
  <2>2. p.peak = q.peak
    BY <2>1, <1>1, <1>2, <1>3, PlanOfDigest
  <2> QED BY <2>2, <1>1, <1>2, <1>3, <1>4, <1>6
<1>7. CASE n = "plan"
  <2>1. q.digest = Foreign
    BY <1>2, <1>3, <1>4, <1>7
  <2> QED BY <2>1, <1>2, DigestIsDigest DEF ValidPlan, Intact
<1>8. CASE n = "probe"
  BY <1>2, <1>3, <1>4, <1>8
<1> QED BY <1>4, <1>5, <1>6, <1>7, <1>8 DEF Alterable, ReportFields

\* What is accepted agrees with what is expected, for the artifact plan too.
LEMMA AcceptedReport ==
  ASSUME NEW p, NEW at, NEW r, NEW e, e = Evaluated(p, at).report, DOMAIN r = ReportFields,
         ArtifactReportValid(r, e) \/ PackingReportValid(p, at, r)
  PROVE  e # NoReport /\ Agree(r, e)
<1>1. CASE PackingReportValid(p, at, r)
  BY <1>1 DEF PackingReportValid, Agree
<1>2. CASE ArtifactReportValid(r, e)
  <2>1. e # NoReport /\ r.digest = e.digest /\ Intact(r)
    BY <1>2 DEF ArtifactReportValid
  <2>2. DOMAIN e = ReportFields /\ Intact(e)
    BY <2>1, ReportShape
  <2>3. Digest(r) = Digest(e)
    BY <2>1, <2>2 DEF Intact
  <2>4. \A f \in DOMAIN r \intersect DOMAIN e : f # "digest" => r[f] = e[f]
    BY <2>3, DigestCovers
  <2> QED BY <2>1, <2>2, <2>4 DEF Agree
<1> QED BY <1>1, <1>2

-----------------------------------------------------------------------------
\* Permits.
PermitFields == {"kind", "claims", "decision", "plan", "probe", "report", "digest"}

\* A permit is the sealed admission of a report (Evaluate).
LEMMA PermitShape ==
  ASSUME NEW p, NEW at, NEW g, g = Evaluated(p, at).permit, g # NoPermit
  PROVE  /\ Evaluated(p, at).report # NoReport /\ Intact(g) /\ DOMAIN g = PermitFields
         /\ g.plan = p.digest /\ g.report = Evaluated(p, at).report.digest
         /\ g.decision = "ADMITTED" /\ g.probe # Foreign /\ Evaluated(p, at).report.decision = "ADMITTED"
<1>1. PICK r : Evaluated(p, at) = Evaluation(r)
  BY DEF Evaluated
<1>a. r = Evaluated(p, at).report /\ g = PermitOf(r)
  BY <1>1 DEF Evaluation
<1> DEFINE body == [kind |-> r.kind, claims |-> r.claims, decision |-> r.decision, plan |-> r.plan,
                    probe |-> r.probe, report |-> r.digest, digest |-> NoDigest]
<1>2. r # NoReport /\ r.decision = "ADMITTED" /\ g = Sealed(body)
  BY <1>a DEF PermitOf
<1>3. r.plan = p.digest /\ r.probe # Foreign
  BY <1>a, <1>2, ReportShape
<1>4. /\ DOMAIN g = PermitFields /\ g.plan = r.plan /\ g.report = r.digest
      /\ g.decision = r.decision /\ g.probe = r.probe
  BY <1>2 DEF Sealed, PermitFields
<1>5. Intact(g)
  BY <1>2, SealIsIntact, "digest" \in DOMAIN body
<1> QED BY <1>a, <1>2, <1>3, <1>4, <1>5

\* A permit is issued by one plan for one snapshot.
LEMMA PermitOfOne ==
  ASSUME NEW p, NEW at, NEW q, NEW bt,
         Evaluated(p, at).permit = Evaluated(q, bt).permit, Evaluated(p, at).permit # NoPermit
  PROVE  Issuer(p, at) = Issuer(q, bt)
<1>1. PICK r, e : r = Evaluated(p, at).report /\ e = Evaluated(q, bt).report
  OBVIOUS
<1>2. r # NoReport /\ e # NoReport /\ r.digest = e.digest
  BY <1>1, PermitShape
<1>3. DOMAIN r = ReportFields /\ DOMAIN e = ReportFields /\ Digest(r) = Digest(e)
  BY <1>1, <1>2, ReportShape DEF Intact
<1>4. \A f \in DOMAIN r \intersect DOMAIN e : f # "digest" => r[f] = e[f]
  BY <1>3, DigestCovers
<1>5. Agree(r, e)
  BY <1>3, <1>4 DEF Agree
<1> QED BY <1>1, <1>2, <1>5, ReportOfOne

\* No altered permit is one that some plan issues.
LEMMA AlteredPermit ==
  ASSUME NEW p, NEW at, NEW q, NEW bt, NEW g, NEW w,
         g = Evaluated(p, at).permit, g # NoPermit, w \in Altered(g),
         w = Evaluated(q, bt).permit, w # NoPermit
  PROVE  FALSE
<1>1. g.decision = "ADMITTED" /\ DOMAIN g = PermitFields
  BY PermitShape
<1>2. /\ w.decision = "ADMITTED" /\ w.plan = q.digest /\ w.probe # Foreign
      /\ Evaluated(q, bt).report # NoReport /\ w.report = Evaluated(q, bt).report.digest
  BY PermitShape
<1>3. PICK n \in Alterable \intersect PermitFields :
        /\ n \in {"decision", "peak"} => w[n] # g[n]
        /\ n \notin {"decision", "peak"} => w[n] = Foreign
  BY <1>1, AlteredFields DEF PermitFields
<1>4. ValidPlan(q) /\ Intact(Evaluated(q, bt).report)
  BY <1>2, ReportShape
<1>5. w.plan # Foreign /\ w.report # Foreign
  BY <1>2, <1>4, DigestIsDigest DEF ValidPlan, Intact
<1> QED BY <1>1, <1>2, <1>3, <1>5 DEF Alterable, PermitFields

-----------------------------------------------------------------------------
\* Specs and the permits they mint.
ConstructionFields == {"kind", "decision", "spec", "snapshot", "capacity", "manifest", "digest"}

\* A spec that was made: for a combined plan, sealed, with a manifest.
MadeSpec(s) ==
  /\ {"plan", "artifacts", "digest"} \subseteq DOMAIN s
  /\ s.plan.kind = "combined" /\ ValidPlan(s.plan) /\ s.manifest # Foreign /\ Intact(s)

\* A spec that NewGaoN16RouteBConstructionSpec returns is made.
LEMMA SpecShape ==
  ASSUME NEW p, NEW artifacts, NEW semantics, NEW s, s = NewSpec(p, artifacts, semantics), s # NoSpec
  PROVE  MadeSpec(s)
<1> DEFINE body == [schema |-> "spec", plan |-> p, artifacts |-> artifacts, semantics |-> semantics,
                    manifest |-> ArtifactManifest(p, artifacts, semantics), digest |-> NoDigest]
<1>1. p.kind = "combined" /\ ValidPlan(p) /\ s = Sealed(body)
  BY DEF NewSpec
<1>2. {"plan", "artifacts", "digest"} \subseteq DOMAIN s /\ s.plan = p
      /\ s.manifest = ArtifactManifest(p, artifacts, semantics)
  BY <1>1 DEF Sealed
<1>3. ArtifactManifest(p, artifacts, semantics) # Foreign
  BY DEF ArtifactManifest, Sealed, Foreign
<1>4. Intact(s)
  BY <1>1, SealIsIntact, "digest" \in DOMAIN body
<1> QED BY <1>1, <1>2, <1>3, <1>4 DEF MadeSpec

\* Two specs of one digest are for one plan and the same artifacts.
LEMMA SpecOfDigest ==
  ASSUME NEW s, NEW t, MadeSpec(s), MadeSpec(t), s.digest = t.digest
  PROVE  s.plan = t.plan /\ s.artifacts = t.artifacts
<1>1. Digest(s) = Digest(t)
  BY DEF MadeSpec, Intact
<1>2. \A f \in DOMAIN s \intersect DOMAIN t : f # "digest" => s[f] = t[f]
  BY <1>1, DigestCovers
<1> QED BY <1>2 DEF MadeSpec

\* A construction permit names its spec and its snapshot, and was minted from a valid
\* capacity permit within the peak contract (GaoN16RouteBConstructionSpec.Evaluate).
LEMMA MintedShape ==
  ASSUME NEW s, NEW at, NEW g, NEW m, m = Minted(s, at, g), m # NoPermit
  PROVE  /\ s # NoSpec /\ PermitValid(s.plan, at, g)
         /\ DOMAIN m = ConstructionFields
         /\ m.decision = "ADMITTED" /\ m.spec = s.digest /\ m.snapshot = at /\ m.manifest = s.manifest
         /\ PeakAgainstCapacity(s, Evaluated(s.plan, at).report, PeakContract)
<1>1. PICK r : r = Evaluated(s.plan, at).report /\ m = MintedFrom(s, at, g, r)
  BY DEF Minted
<1> DEFINE body == [kind |-> "construction", decision |-> "ADMITTED", spec |-> s.digest, snapshot |-> at,
                    capacity |-> <<r.probe, r.digest, g.digest>>, manifest |-> s.manifest,
                    digest |-> NoDigest]
<1>2. /\ ValidSpec(s) /\ PermitValid(s.plan, at, g) /\ m = Sealed(body)
      /\ PeakAgainstCapacity(s, r, s.semantics.contract)
  BY <1>1 DEF MintedFrom
<1>3. /\ DOMAIN m = ConstructionFields
      /\ m.decision = "ADMITTED" /\ m.spec = s.digest /\ m.snapshot = at /\ m.manifest = s.manifest
  BY <1>2 DEF Sealed, ConstructionFields
<1>4. s.semantics.contract = PeakContract
  BY <1>2 DEF ValidSpec, ValidSemantics, ValidPeakContract
<1> QED BY <1>1, <1>2, <1>3, <1>4 DEF ValidSpec

\* No altered construction permit is one that some spec mints.
LEMMA AlteredConstruction ==
  ASSUME NEW s, NEW at, NEW g, NEW t, NEW bt, NEW h, NEW m, NEW w,
         m = Minted(s, at, g), m # NoPermit, w \in Altered(m),
         w = Minted(t, bt, h), w # NoPermit, MadeSpec(t)
  PROVE  FALSE
<1>1. m.decision = "ADMITTED" /\ DOMAIN m = ConstructionFields
  BY MintedShape
<1>2. w.decision = "ADMITTED" /\ w.spec = t.digest /\ w.manifest = t.manifest
  BY MintedShape
<1>3. PICK n \in Alterable \intersect ConstructionFields :
        /\ n \in {"decision", "peak"} => w[n] # m[n]
        /\ n \notin {"decision", "peak"} => w[n] = Foreign
  BY <1>1, AlteredFields DEF ConstructionFields
<1>4. w.spec # Foreign /\ w.manifest # Foreign
  BY <1>2, DigestIsDigest DEF MadeSpec, Intact
<1> QED BY <1>1, <1>2, <1>3, <1>4 DEF Alterable, ConstructionFields

-----------------------------------------------------------------------------
\* The inductive invariant.

IssuedReport(r, p, at) == r # NoReport /\ r = Evaluated(p, at).report
IssuedPermit(g, p, at) == g # NoPermit /\ g = Evaluated(p, at).permit

\* The report held is one that a plan evaluated to, of some snapshot, or an
\* alteration of one, and issuer.report knows which.
ReportHeld ==
  report # NoReport =>
    \E p, at, r : /\ IssuedReport(r, p, at)
                  /\ \/ report = r /\ issuer.report = Issuer(p, at)
                     \/ report \in Altered(r) /\ issuer.report = Forger

PermitHeld ==
  permit # NoPermit =>
    \E p, at, g : /\ IssuedPermit(g, p, at)
                  /\ \/ permit = g /\ issuer.permit = Issuer(p, at)
                     \/ permit \in Altered(g) /\ issuer.permit = Forger

\* The construction permit was minted by a made spec from a permit of its own plan.
ConstructionHeld ==
  construction # NoPermit =>
    \E s, at, g, m : /\ MadeSpec(s) /\ m # NoPermit /\ m = Minted(s, at, g)
                     /\ \/ construction = m /\ minter = Minter(s, at, Issuer(s.plan, at))
                        \/ construction \in Altered(m) /\ minter = Forger

Held ==
  /\ ReportHeld /\ PermitHeld /\ ConstructionHeld
  /\ spec # NoSpec => MadeSpec(spec)
  /\ DOMAIN issuer = {"report", "permit"}

Answered ==
  /\ AcceptedIsOwn /\ (verdict \in {"report valid", "permit valid"} => plan # NoPlan)
  /\ verdict = "permit valid" => PermitValid(plan, snapshot, permit)
  /\ verdict \in {"built", "stage failed"} => ConstructionValid(construction, Minted(spec, snapshot, permit))

AdmissionInv == Held /\ Answered

-----------------------------------------------------------------------------
\* What is accepted is the caller's own.

\* A report that ValidateReport accepts was issued by the plan for the snapshot.
LEMMA OwnReport ==
  ASSUME ReportHeld, report # NoReport,
         \/ ArtifactReportValid(report, Evaluated(plan, snapshot).report)
         \/ PackingReportValid(plan, snapshot, report)
  PROVE  issuer.report = Issuer(plan, snapshot)
<1>1. PICK p, at, r :
        /\ IssuedReport(r, p, at)
        /\ \/ report = r /\ issuer.report = Issuer(p, at)
           \/ report \in Altered(r) /\ issuer.report = Forger
  BY DEF ReportHeld
<1>2. PICK e : e = Evaluated(plan, snapshot).report
  OBVIOUS
<1>3. DOMAIN r = ReportFields
  BY <1>1, ReportShape DEF IssuedReport
<1>4. DOMAIN report = ReportFields
  BY <1>1, <1>3, AlteredFields, "digest" \in ReportFields DEF ReportFields
<1>5. e # NoReport /\ Agree(report, e)
  BY <1>2, <1>4, AcceptedReport
<1>6. report \notin Altered(r)
  BY <1>1, <1>2, <1>5, AlteredReport DEF IssuedReport
<1>7. Issuer(p, at) = Issuer(plan, snapshot)
  BY <1>1, <1>2, <1>5, <1>6, ReportOfOne DEF IssuedReport
<1> QED BY <1>1, <1>6, <1>7

\* A permit that ValidatePermit accepts was issued by the plan for the snapshot.
LEMMA OwnPermit ==
  ASSUME PermitHeld, NEW q, NEW bt, PermitValid(q, bt, permit)
  PROVE  issuer.permit = Issuer(q, bt)
<1>1. permit # NoPermit /\ permit = Evaluated(q, bt).permit
  BY DEF PermitValid
<1>2. PICK p, at, g :
        /\ IssuedPermit(g, p, at)
        /\ \/ permit = g /\ issuer.permit = Issuer(p, at)
           \/ permit \in Altered(g) /\ issuer.permit = Forger
  BY <1>1 DEF PermitHeld
<1>3. permit \notin Altered(g)
  BY <1>1, <1>2, AlteredPermit DEF IssuedPermit
<1>4. Issuer(p, at) = Issuer(q, bt)
  BY <1>1, <1>2, <1>3, PermitOfOne DEF IssuedPermit
<1> QED BY <1>2, <1>3, <1>4

\* A construction permit that RunAfterValidation accepts was minted by this spec from
\* this permit of the combined plan.
LEMMA OwnConstruction ==
  ASSUME Held, ConstructionValid(construction, Minted(spec, snapshot, permit))
  PROVE  /\ minter = Minter(spec, snapshot, issuer.permit)
         /\ issuer.permit = [by |-> "combined", phase |-> "", snapshot |-> snapshot]
<1>1. PICK c : c = construction /\ c # NoPermit /\ c = Minted(spec, snapshot, permit)
  BY DEF ConstructionValid
<1>2. spec # NoSpec /\ PermitValid(spec.plan, snapshot, permit) /\ c.spec = spec.digest /\ c.snapshot = snapshot
  BY <1>1, MintedShape
<1>3. MadeSpec(spec)
  BY <1>2 DEF Held
<1>4. PICK s, at, g, m :
        /\ MadeSpec(s) /\ m # NoPermit /\ m = Minted(s, at, g)
        /\ \/ c = m /\ minter = Minter(s, at, Issuer(s.plan, at))
           \/ c \in Altered(m) /\ minter = Forger
  BY <1>1 DEF Held, ConstructionHeld
<1>5. c \notin Altered(m)
  BY <1>1, <1>3, <1>4, AlteredConstruction
<1>6. c = m /\ minter = Minter(s, at, Issuer(s.plan, at))
  BY <1>4, <1>5
<1>7. s.digest = spec.digest /\ at = snapshot
  BY <1>2, <1>4, <1>6, MintedShape
<1>8. s.plan = spec.plan /\ s.artifacts = spec.artifacts
  BY <1>3, <1>4, <1>7, SpecOfDigest
<1>9. issuer.permit = Issuer(spec.plan, snapshot)
  BY <1>2, OwnPermit DEF Held
<1>10. spec.plan.kind = "combined" /\ spec.plan.phase = ""
  BY <1>3, MadeFields DEF MadeSpec, ValidPlan, Made
<1> QED BY <1>6, <1>7, <1>8, <1>9, <1>10 DEF Minter, Issuer

\* Nobody issues in the forger's name.
LEMMA IssuerIsNotForger == ASSUME NEW p, NEW at PROVE Issuer(p, at) # Forger
BY DEF Issuer, Forger

-----------------------------------------------------------------------------
\* The initial state and the steps.

\* Nothing is held and nothing has been answered.
LEMMA InitAdmissionInv == AdmissionInit => AdmissionInv
BY DEF AdmissionInit, AdmissionInv, Held, ReportHeld, PermitHeld, ConstructionHeld, Answered, AcceptedIsOwn

\* A step that leaves what is held alone, and the verdict is none of the three.
LEMMA FrameHeld ==
  ASSUME Held, UNCHANGED <<held, building>>
  PROVE  Held'
BY DEF Held, ReportHeld, PermitHeld, ConstructionHeld, held, building

Accepting == {"report valid", "permit valid", "built", "stage failed"}
\* An answer that accepts nothing.
LEMMA NotAccepting == ASSUME verdict' \notin Accepting PROVE Answered'
BY DEF Answered, AcceptedIsOwn, Accepting

\* Making a plan is answered by nothing (NewGaoN16ArtifactCapacityPlan and the others).
LEMMA MakePlanKeeps == ASSUME AdmissionInv, MakePlan PROVE AdmissionInv'
<1>1. Held'
  BY FrameHeld DEF AdmissionInv, MakePlan
<1>2. Answered'
  BY DEF AdmissionInv, MakePlan, Answered, AcceptedIsOwn, held, building
<1> QED BY <1>1, <1>2 DEF AdmissionInv

\* Another plan or another snapshot withdraws the answer.
LEMMA LookAgainKeeps == ASSUME AdmissionInv, UseOtherPlan \/ TakeSnapshot PROVE AdmissionInv'
<1>1. Held'
  BY FrameHeld DEF AdmissionInv, UseOtherPlan, TakeSnapshot
<1>2. Answered'
  BY NotAccepting DEF UseOtherPlan, TakeSnapshot, Accepting
<1> QED BY <1>1, <1>2 DEF AdmissionInv

\* Evaluate issues report and permit.
LEMMA EvaluateKeeps == ASSUME AdmissionInv, Evaluate PROVE AdmissionInv'
<1>1. report' = Evaluated(plan, snapshot).report /\ permit' = Evaluated(plan, snapshot).permit
      /\ issuer' = [report |-> Issuer(plan, snapshot), permit |-> Issuer(plan, snapshot)]
  BY DEF Evaluate
<1>2. ReportHeld'
  BY <1>1 DEF ReportHeld, IssuedReport
<1>3. PermitHeld'
  BY <1>1 DEF PermitHeld, IssuedPermit
<1>4. ConstructionHeld' /\ (spec' # NoSpec => MadeSpec(spec'))
  BY DEF Evaluate, building, AdmissionInv, Held, ConstructionHeld
<1>5. Held'
  BY <1>1, <1>2, <1>3, <1>4 DEF Held
<1>6. Answered'
  BY NotAccepting DEF Evaluate, Accepting
<1> QED BY <1>5, <1>6 DEF AdmissionInv

\* The caller alters what it holds, and the issuer is the forger from then on.
LEMMA AlterKeeps == ASSUME AdmissionInv, Alter PROVE AdmissionInv'
<1>1. Answered'
  BY NotAccepting DEF Alter, Accepting
<1>2. Held
  BY DEF AdmissionInv
<1> SUFFICES Held'
  BY <1>1 DEF AdmissionInv
<1>3. CASE /\ report # NoReport /\ issuer.report # Forger
           /\ report' \in Altered(report) /\ issuer' = [issuer EXCEPT !.report = Forger]
           /\ UNCHANGED <<plan, permit, building>>
  <2>1. PICK p, at : IssuedReport(report, p, at)
    BY <1>2, <1>3 DEF Held, ReportHeld
  <2>2. issuer'.report = Forger /\ issuer'.permit = issuer.permit
        /\ DOMAIN issuer' = {"report", "permit"}
    BY <1>2, <1>3 DEF Held
  <2>3. ReportHeld'
    BY <1>3, <2>1, <2>2 DEF ReportHeld, IssuedReport
  <2>4. PermitHeld'
    BY <1>2, <1>3, <2>2 DEF Held, PermitHeld
  <2> QED BY <1>2, <1>3, <2>2, <2>3, <2>4 DEF Held, ConstructionHeld, building
<1>4. CASE /\ permit # NoPermit /\ issuer.permit # Forger
           /\ permit' \in Altered(permit) /\ issuer' = [issuer EXCEPT !.permit = Forger]
           /\ UNCHANGED <<plan, report, building>>
  <2>1. PICK p, at : IssuedPermit(permit, p, at)
    BY <1>2, <1>4 DEF Held, PermitHeld
  <2>2. issuer'.permit = Forger /\ issuer'.report = issuer.report
        /\ DOMAIN issuer' = {"report", "permit"}
    BY <1>2, <1>4 DEF Held
  <2>3. PermitHeld'
    BY <1>4, <2>1, <2>2 DEF PermitHeld, IssuedPermit
  <2>4. ReportHeld'
    BY <1>2, <1>4, <2>2 DEF Held, ReportHeld
  <2> QED BY <1>2, <1>4, <2>2, <2>3, <2>4 DEF Held, ConstructionHeld, building
<1>5. CASE UNCHANGED <<held, building>>
  BY <1>2, <1>5, FrameHeld
<1>6. CASE /\ construction # NoPermit /\ minter # Forger
           /\ construction' \in Altered(construction) /\ minter' = Forger
           /\ UNCHANGED <<plan, held, spec, called>>
  <2>1. PICK s, at, g : MadeSpec(s) /\ construction = Minted(s, at, g)
    BY <1>2, <1>6 DEF Held, ConstructionHeld
  <2>2. ConstructionHeld'
    BY <1>6, <2>1 DEF ConstructionHeld
  <2>3. UNCHANGED <<report, permit, issuer, spec>>
    BY <1>6 DEF held
  <2>4. ReportHeld' /\ PermitHeld' /\ (spec' # NoSpec => MadeSpec(spec'))
    BY <1>2, <2>3 DEF Held, ReportHeld, PermitHeld
  <2> QED BY <1>2, <2>2, <2>3, <2>4 DEF Held
<1>7. \/ /\ report # NoReport /\ issuer.report # Forger
         /\ report' \in Altered(report) /\ issuer' = [issuer EXCEPT !.report = Forger]
         /\ UNCHANGED <<plan, permit, building>>
      \/ /\ permit # NoPermit /\ issuer.permit # Forger
         /\ permit' \in Altered(permit) /\ issuer' = [issuer EXCEPT !.permit = Forger]
         /\ UNCHANGED <<plan, report, building>>
      \/ UNCHANGED <<held, building>>
      \/ /\ construction # NoPermit /\ minter # Forger
         /\ construction' \in Altered(construction) /\ minter' = Forger
         /\ UNCHANGED <<plan, held, spec, called>>
  BY Zenon DEF Alter
<1> QED BY <1>3, <1>4, <1>5, <1>6, <1>7, Zenon

\* ValidateReport and ValidatePermit accept what is the caller's own.
LEMMA ValidateKeeps == ASSUME AdmissionInv, ValidateReport \/ ValidatePermit PROVE AdmissionInv'
<1>1. Held /\ Held'
  BY FrameHeld DEF AdmissionInv, ValidateReport, ValidatePermit
<1>2. CASE ValidateReport
  <2>1. verdict' = "report valid" => issuer.report = Issuer(plan, snapshot)
    BY <1>1, <1>2, OwnReport DEF ValidateReport, Held
  <2> QED BY <1>1, <1>2, <2>1 DEF ValidateReport, AdmissionInv, Answered, AcceptedIsOwn, held
<1>3. CASE ValidatePermit
  <2>1. verdict' = "permit valid" => issuer.permit = Issuer(plan, snapshot)
    BY <1>1, <1>3, OwnPermit DEF ValidatePermit, Held
  <2> QED BY <1>1, <1>3, <2>1 DEF ValidatePermit, AdmissionInv, Answered, AcceptedIsOwn, held
<1> QED BY <1>2, <1>3

\* NewGaoN16RouteBConstructionSpec makes a spec or none.
LEMMA MakeSpecKeeps == ASSUME AdmissionInv, MakeSpec PROVE AdmissionInv'
<1>1. spec' # NoSpec => MadeSpec(spec')
  BY SpecShape DEF MakeSpec
<1>2. Held'
  BY <1>1 DEF MakeSpec, AdmissionInv, Held, ReportHeld, PermitHeld, ConstructionHeld, held
<1>3. Answered'
  BY NotAccepting DEF MakeSpec, Accepting
<1> QED BY <1>2, <1>3 DEF AdmissionInv

\* GaoN16RouteBConstructionSpec.Evaluate mints from the permit held.
LEMMA MintConstructionKeeps == ASSUME AdmissionInv, MintConstruction PROVE AdmissionInv'
<1>1. construction' = Minted(spec, snapshot, permit) /\ minter' = Minter(spec, snapshot, issuer.permit)
      /\ Held /\ MadeSpec(spec)
  BY DEF MintConstruction, AdmissionInv, Held
<1>2. construction' # NoPermit => issuer.permit = Issuer(spec.plan, snapshot)
  BY <1>1, MintedShape, OwnPermit DEF Held
<1>3. ConstructionHeld'
  BY <1>1, <1>2 DEF ConstructionHeld
<1>4. Held'
  BY <1>1, <1>3 DEF MintConstruction, Held, ReportHeld, PermitHeld, held
<1>5. Answered'
  BY NotAccepting DEF MintConstruction, Accepting
<1> QED BY <1>4, <1>5 DEF AdmissionInv

\* RunAfterValidation calls stages only for its own construction permit.
LEMMA RunKeeps == ASSUME AdmissionInv, RunAfterValidation PROVE AdmissionInv'
<1>1. Held
  BY DEF AdmissionInv
<1>2. UNCHANGED <<held, spec, construction, minter, plan, snapshot>>
  BY DEF RunAfterValidation
<1>3. Held'
  BY <1>1, <1>2 DEF Held, ReportHeld, PermitHeld, ConstructionHeld, held
<1>4. verdict' \in {"built", "stage failed"} => ConstructionValid(construction, Minted(spec, snapshot, permit))
  BY DEF RunAfterValidation
<1>5. verdict' \in {"built", "stage failed", "refused"}
  BY DEF RunAfterValidation
<1>6. Answered'
  BY <1>1, <1>2, <1>4, <1>5, OwnConstruction DEF Answered, AcceptedIsOwn, held
<1> QED BY <1>3, <1>6 DEF AdmissionInv

\* AdmissionInv: each report, permit and construction permit held was issued by one
\* plan or spec for one snapshot, or is an alteration of such a one, and the issuer
\* recorded tells which (Evaluate in gao_n16_packing_l11_phase.go and
\* gao_n16_route_b_construction.go).
THEOREM AdmissionInvariant == AdmissionSpec => []AdmissionInv
<1>1. AdmissionInv /\ [AdmissionNext]_admissionVars => AdmissionInv'
  <2>1. ASSUME AdmissionInv, UNCHANGED admissionVars PROVE AdmissionInv'
    BY <2>1, FrameHeld DEF AdmissionInv, Answered, AcceptedIsOwn, admissionVars, held, building
  <2> QED BY <2>1, MakePlanKeeps, LookAgainKeeps, EvaluateKeeps, AlterKeeps, ValidateKeeps, MakeSpecKeeps,
             MintConstructionKeeps, RunKeeps DEF AdmissionNext
<1> QED BY <1>1, InitAdmissionInv, PTL DEF AdmissionSpec

\* AcceptedIsOwn: ValidateReport, ValidatePermit and RunAfterValidation accept only what
\* this plan or spec issued for this snapshot and nobody has touched since, whatever is
\* sealed again.
THEOREM AcceptsOnlyOwn == AdmissionSpec => []AcceptedIsOwn
<1>1. AdmissionInv => AcceptedIsOwn
  BY DEF AdmissionInv, Answered
<1> QED BY <1>1, AdmissionInvariant, PTL

-----------------------------------------------------------------------------
\* What is admitted fits.

\* An artifact plan that is made has no overflow (NewGaoN16ArtifactCapacityPlan).
LEMMA ArtifactPlanMade ==
  ASSUME NEW profile, NEW shape, NEW policy, NEW t, NEW stages, NEW peak, NEW resident, NEW p,
         p = ArtifactPlanOf(profile, shape, policy, t, stages, peak, resident), p # NoPlan
  PROVE  /\ peak # Overflow /\ p.policy = policy /\ p.kind = "artifact"
         /\ p.artifactPeak = peak /\ p.resident = resident /\ p.peak = peak
<1>1. peak # Overflow
  BY Zenon DEF ArtifactPlanOf
<1>2. p = Sealed([kind |-> "artifact", phase |-> "", claims |-> "artifact_capacity_only_unverified",
               profile |-> profile.digest, shape |-> shape, policy |-> policy, base |-> NoDigest,
               components |-> t, stages |-> stages, artifactPeak |-> peak,
               resident |-> resident, peak |-> peak, digest |-> NoDigest])
  BY Zenon DEF ArtifactPlanOf
<1>3. /\ p.policy = policy /\ p.kind = "artifact"
      /\ p.artifactPeak = peak /\ p.resident = resident /\ p.peak = peak
  BY <1>2 DEF Sealed
<1> QED BY <1>1, <1>3

\* A phase plan is made of a combined plan and has no overflow
\* (NewGaoN16PackingL11PhaseCapacityPlan).
LEMMA PhasePlanMade ==
  ASSUME NEW profile, NEW shape, NEW policy, NEW phase, NEW base, NEW components, NEW peak, NEW p,
         p = PhasePlanOf(profile, shape, policy, phase, base, components, peak), p # NoPlan
  PROVE  /\ phase \in Phases /\ base # NoPlan /\ peak # Overflow /\ p.policy = policy /\ p.kind = "phase"
         /\ p.artifactPeak = base.artifactPeak /\ p.resident = base.resident /\ p.peak = peak
<1>1. phase \in Phases /\ base # NoPlan /\ peak # Overflow
  BY Zenon DEF PhasePlanOf
<1>2. p = Sealed([kind |-> "phase", phase |-> phase, claims |-> "runtime_phase_capacity_only",
               profile |-> profile, shape |-> shape, policy |-> policy, base |-> base.digest,
               components |-> components, maxFactor |-> base.maxFactor,
               artifactPeak |-> base.artifactPeak, resident |-> base.resident,
               peak |-> peak, digest |-> NoDigest])
  BY <1>1, Zenon DEF PhasePlanOf
<1>3. /\ p.policy = policy /\ p.kind = "phase"
      /\ p.artifactPeak = base.artifactPeak /\ p.resident = base.resident /\ p.peak = peak
  BY <1>2 DEF Sealed
<1> QED BY <1>1, <1>3

\* What admission needs of a plan.
PlanFacts(p) ==
  /\ p.policy = DefaultPolicy /\ p.peak \in Nat
  /\ p.artifactPeak \in Nat /\ p.resident \in Nat /\ p.artifactPeak >= p.resident
  /\ p.kind = "combined" => p = Combined

\* The combined plan keeps what it has built within the peak of building it.
LEMMA CombinedFacts == ASSUME NEW p, p = Combined, p # NoPlan PROVE PlanFacts(p)
<1>1. /\ p.policy = DefaultPolicy /\ p.artifactPeak = Units(11593999) /\ p.resident = Units(11276559)
      /\ p.peak = Units(27851023) /\ p.peak # Overflow
  BY CombinedNumbers
<1>2. AtMost(p.artifactPeak, 27851023) /\ AtMost(p.resident, 11593999)
  BY <1>1, UnitsAtMost
<1>3. p.artifactPeak \in Nat /\ p.peak \in Nat
  BY <1>1, <1>2, AtMostHeld
<1>4. p.artifactPeak # Overflow
  BY <1>3 DEF Overflow
<1>5. p.resident \in Nat /\ p.resident <= p.artifactPeak
  BY <1>1, <1>2, <1>4, AtMostHeld
<1> QED BY <1>1, <1>3, <1>5 DEF PlanFacts

\* So does every plan there is.
LEMMA MadeFacts == ASSUME NEW p \in Made PROVE PlanFacts(p)
<1>1. CASE p = NewArtifactPlan(Profiled(Candidate), DefaultArtifactShape, DefaultPolicy)
  <2>1. PICK t, stages, resident, peak :
          /\ t = ArtifactTerms(DefaultArtifactShape) /\ stages = ArtifactStages(t)
          /\ resident = Resident(t) /\ peak = Peak(stages)
          /\ p = ArtifactPlanOf(Profiled(Candidate), DefaultArtifactShape, DefaultPolicy, t, stages, peak, resident)
    BY <1>1 DEF NewArtifactPlan, ArtifactPlanOn
  <2>2. /\ peak # Overflow /\ p.policy = DefaultPolicy /\ p.kind = "artifact"
        /\ p.artifactPeak = peak /\ p.resident = resident /\ p.peak = peak
    BY <2>1, ArtifactPlanMade, SMT DEF Made
  <2>3. t = LedgerOf(128, 511, 158)
    BY <2>1, ArtifactShapeIs, TermsAre DEF Pos
  <2>4. resident = Units(38337615) /\ peak = Units(71138383)
    BY <2>1, <2>3, ArtifactNumbers
  <2>5. AtMost(resident, 71138383)
    BY <2>4, UnitsAtMost
  <2>6. resident \in Nat /\ peak \in Nat /\ resident <= peak
    BY <2>2, <2>4, <2>5, AtMostHeld
  <2> QED BY <2>2, <2>6 DEF PlanFacts
<1>2. CASE p = Combined
  BY <1>2, CombinedFacts DEF Made
<1>3. ASSUME NEW phase \in Phases, p = NewPhasePlan(NewPackingProfile, DefaultPackingShape, DefaultPolicy, phase)
      PROVE  PlanFacts(p)
  <2>1. PICK base, components, peak :
          /\ base = Combined /\ components = PhaseComponents(base, phase) /\ peak = ComponentSum(components)
          /\ p = PhasePlanOf(NewPackingProfile, DefaultPackingShape, DefaultPolicy, phase, base, components, peak)
    BY <1>3 DEF NewPhasePlan, PhasePlanOn, Combined
  <2>2. /\ base # NoPlan /\ p.policy = DefaultPolicy /\ p.kind = "phase"
        /\ p.artifactPeak = base.artifactPeak /\ p.resident = base.resident /\ p.peak = peak
    BY <2>1, PhasePlanMade, SMT DEF Made
  <2>3. PlanFacts(base)
    BY <2>1, <2>2, CombinedFacts
  <2>4. peak \in Nat
    BY <2>1, <2>2, PhaseWithinCombined
  <2> QED BY <2>2, <2>3, <2>4 DEF PlanFacts
<1> QED BY <1>1, <1>2, <1>3 DEF Made, MadePlans, Combined

\* An assessment without overflow is exact.
LEMMA ExactSum == ASSUME NEW x, NEW y, x ++ y # Overflow PROVE x ++ y = x + y
<1> SUFFICES CheckedSum(x, y) # Overflow => CheckedSum(x, y) = x + y
  BY Zenon DEF ++
<1> QED BY Zenon DEF CheckedSum

\* checkedUint64Product without an error is the product.
LEMMA ExactProduct == ASSUME NEW x, NEW y, x ** y # Overflow PROVE x ** y = x * y
<1> SUFFICES CheckedProduct(x, y) # Overflow => CheckedProduct(x, y) = x * y
  BY Zenon DEF **
<1> QED BY Zenon DEF CheckedProduct

GuardOf(peak) == IF peak \div 10 > MinimumGuard THEN peak \div 10 ELSE MinimumGuard
Used(at) == at.total - at.available

\* An assessment without overflow is exact: the guard is a tenth of the peak or the
\* minimum, the projection is the sum, and the limit the floor of four fifths
\* (evaluateReport).
LEMMA AssessmentIs ==
  ASSUME NEW peak \in Nat, NEW at \in Snapshots, NEW a, a = Assess(peak, DefaultPolicy, at), ~a.overflow,
         at.available <= at.total
  PROVE  /\ a.limit = (at.total * 4) \div 5 /\ a.projected = Used(at) + (peak + GuardOf(peak))
         /\ a.decision = "ADMITTED" => a.projected < a.limit
<1>1. /\ DefaultPolicy.limitNumerator = 4 /\ DefaultPolicy.limitDenominator = 5
      /\ DefaultPolicy.minimumGuard = MinimumGuard
      /\ DefaultPolicy.guardNumerator = 1 /\ DefaultPolicy.guardDenominator = 10
  BY DEF DefaultPolicy, Sealed
<1>2. PICK used, product, share, guard, guarded, projected, limit :
        /\ used = at.total - at.available /\ product = at.total ** 4 /\ share = peak ** 1
        /\ guard = Guard(share, DefaultPolicy) /\ guarded = peak ++ guard /\ projected = used ++ guarded
        /\ limit = product \div 5 /\ a = Judged(used, product, share, guard, guarded, projected, limit)
  BY <1>1 DEF Assess, Weighed, Projection
<1>a. a.limit = limit /\ a.projected = projected
  BY <1>2 DEF Judged
<1>b. a.overflow = (Overflow \in {product, share, guarded, projected})
  BY <1>2 DEF Judged
<1>c. a.decision = IF projected >= limit THEN "RESOURCE_BLOCKED" ELSE "ADMITTED"
  BY <1>2 DEF Judged
<1>3. /\ product # Overflow /\ share # Overflow /\ guarded # Overflow /\ projected # Overflow
      /\ a.decision = "ADMITTED" => ~(projected >= limit)
  BY <1>b, <1>c
<1>4. product = at.total * 4 /\ share = peak /\ guarded = peak + guard /\ projected = used + guarded
  BY <1>2, <1>3, ExactSum, ExactProduct
<1>5. guard = GuardOf(peak)
  <2>1. guard = IF peak \div 10 < MinimumGuard THEN MinimumGuard ELSE peak \div 10
    BY <1>1, <1>2, <1>4 DEF Guard
  <2> QED BY <2>1, LedgerAssumption DEF GuardOf
<1>6. guard \in Nat /\ used \in Nat /\ projected \in Nat /\ limit \in Nat
  BY <1>2, <1>4, <1>5, LedgerAssumption, AdmissionAssumption DEF GuardOf
<1> QED BY <1>a, <1>2, <1>3, <1>4, <1>5, <1>6 DEF Used

\* What an admitted plan leaves free of a memory.
Fits(p, at, bytes) == 5 * (Used(at) + bytes + GuardOf(p.peak)) < 4 * at.total
LeavesRoom(p, at) ==
  /\ Fits(p, at, p.peak) /\ p.artifactPeak >= p.resident
  /\ p.kind = "combined" => \A phase \in Phases : Fits(p, at, ComponentSum(PhaseComponents(p, phase)))

\* The floor of four fifths, and what lies on either side of it.
LEMMA FourFifths ==
  ASSUME NEW total \in Nat, NEW limit, limit = (total * 4) \div 5
  PROVE  limit \in Nat /\ 5 * limit <= 4 * total /\ 4 * total < 5 * (limit + 1)
OBVIOUS

\* A projection below the floor is below four fifths.
LEMMA BelowLimit ==
  ASSUME NEW total \in Nat, NEW limit \in Nat, 5 * limit <= 4 * total,
         NEW used \in Nat, NEW peak \in Nat, NEW guard \in Nat, used + (peak + guard) < limit,
         NEW bytes \in Nat, bytes <= peak
  PROVE  5 * (used + bytes + guard) < 4 * total
OBVIOUS

\* A projection above the floor is above four fifths.
LEMMA AboveLimit ==
  ASSUME NEW total \in Nat, NEW limit \in Nat, 4 * total < 5 * (limit + 1),
         NEW used \in Nat, NEW peak \in Nat, NEW guard \in Nat, NEW dup \in Nat,
         (used + (peak + guard)) + dup > limit
  PROVE  ~(5 * (used + (peak + dup) + guard) < 4 * total)
OBVIOUS

\* A valid permit leaves room for the plan and its phases, and one that is above the
\* limit with an excess has no room for it.
LEMMA PermitFits ==
  ASSUME NEW p, NEW at \in Snapshots, NEW g, PermitValid(p, at, g)
  PROVE  /\ LeavesRoom(p, at)
         /\ \A dup \in Nat :
              Evaluated(p, at).report.assessed.projected ++ dup > Evaluated(p, at).report.assessed.limit
                => ~Fits(p, at, p.peak + dup)
<1>1. PICK r : r = Evaluated(p, at).report
  OBVIOUS
<1>2. r # NoReport /\ r.decision = "ADMITTED"
  BY <1>1, PermitShape DEF PermitValid
<1>3. /\ ValidPlan(p) /\ ValidSnapshot(at) /\ r.assessed = Assess(p.peak, p.policy, at) /\ ~r.assessed.overflow
      /\ r.assessed.decision = "ADMITTED"
  BY <1>1, <1>2, ReportShape
<1>4. PlanFacts(p) /\ p # NoPlan
  BY <1>3, MadeFacts DEF ValidPlan, Made
<1>5. PICK peak, total, used, guard :
        /\ peak = p.peak /\ total = at.total /\ used = Used(at) /\ guard = GuardOf(peak)
        /\ peak \in Nat /\ total \in Nat /\ used \in Nat /\ guard \in Nat
  <2>1. p.peak \in Nat /\ GuardOf(p.peak) \in Nat
    BY <1>4, LedgerAssumption DEF PlanFacts, GuardOf
  <2>2. at.total \in Nat /\ at.available \in Nat /\ at.available <= at.total
    BY <1>3, AdmissionAssumption DEF ValidSnapshot
  <2>3. Used(at) \in Nat
    BY <2>2 DEF Used
  <2> QED BY <2>1, <2>2, <2>3
<1>6. PICK limit, projected :
        /\ limit = r.assessed.limit /\ projected = r.assessed.projected
        /\ limit = (total * 4) \div 5 /\ projected = used + (peak + guard) /\ projected < limit
  BY <1>3, <1>4, <1>5, AssessmentIs DEF PlanFacts, ValidSnapshot
<1>7. 5 * limit <= 4 * total /\ 4 * total < 5 * (limit + 1) /\ limit \in Nat
  BY <1>5, <1>6, FourFifths
<1>8. ASSUME NEW bytes \in Nat, bytes <= peak PROVE Fits(p, at, bytes)
  <2>1. 5 * (used + bytes + guard) < 4 * total
    BY <1>5, <1>6, <1>7, <1>8, BelowLimit
  <2> QED BY <1>5, <2>1 DEF Fits
<1>9. ASSUME NEW phase \in Phases, p.kind = "combined"
      PROVE  Fits(p, at, ComponentSum(PhaseComponents(p, phase)))
  BY <1>4, <1>5, <1>8, <1>9, PhaseWithinCombined DEF PlanFacts
<1>10. LeavesRoom(p, at)
  BY <1>4, <1>5, <1>8, <1>9 DEF LeavesRoom, PlanFacts
<1>11. ASSUME NEW dup \in Nat, projected ++ dup > limit PROVE ~Fits(p, at, peak + dup)
  <2>1. projected ++ dup # Overflow
    BY <1>7, <1>11 DEF Overflow
  <2>2. projected + dup > limit
    BY <1>11, <2>1, ExactSum
  <2>3. ~(5 * (used + (peak + dup) + guard) < 4 * total)
    BY <1>5, <1>6, <1>7, <2>2, AboveLimit
  <2> QED BY <1>5, <2>3 DEF Fits
<1> QED BY <1>1, <1>5, <1>6, <1>10, <1>11

\* A construction that runs has room for its plan but none for the constructor its
\* schedule excludes (validatePeakAgainstCapacity).
LEMMA ConstructionFits ==
  ASSUME snapshot \in Snapshots, ConstructionValid(construction, Minted(spec, snapshot, permit))
  PROVE  LeavesRoom(spec.plan, snapshot) /\ ~Fits(spec.plan, snapshot, spec.plan.peak + PeakContract.duplicate)
<1>1. Minted(spec, snapshot, permit) # NoPermit
  BY DEF ConstructionValid
<1>2. /\ PermitValid(spec.plan, snapshot, permit)
      /\ PeakAgainstCapacity(spec, Evaluated(spec.plan, snapshot).report, PeakContract)
  BY <1>1, MintedShape
<1>3. Evaluated(spec.plan, snapshot).report.assessed.projected ++ PeakContract.duplicate
        > Evaluated(spec.plan, snapshot).report.assessed.limit
  BY <1>2 DEF PeakAgainstCapacity
<1> QED BY <1>2, <1>3, PermitFits, AdmissionAssumption

\* The memory looked at is one the caller took.
SnapshotTaken == snapshot \in Snapshots

\* Init and TakeSnapshot take it from the snapshots there are.
LEMMA SnapshotIsTaken == AdmissionSpec => []SnapshotTaken
<1>1. AdmissionInit => SnapshotTaken
  BY DEF AdmissionInit, SnapshotTaken
<1>2. SnapshotTaken /\ [AdmissionNext]_admissionVars => SnapshotTaken'
  <2>1. SUFFICES ASSUME SnapshotTaken, AdmissionNext, ~UNCHANGED snapshot PROVE SnapshotTaken'
    BY DEF admissionVars, SnapshotTaken
  <2>2. TakeSnapshot
    BY <2>1 DEF AdmissionNext, MakePlan, UseOtherPlan, Evaluate, Alter, ValidateReport, ValidatePermit, MakeSpec,
       MintConstruction, RunAfterValidation
  <2> QED BY <2>2 DEF TakeSnapshot, SnapshotTaken
<1> QED BY <1>1, <1>2, PTL DEF AdmissionSpec

\* AdmittedFits: what a valid permit admits, every phase of a combined plan included,
\* stays below four fifths of the memory without any rounding, and a construction that
\* runs has no room for the constructor it excludes (evaluateReport,
\* validatePeakAgainstCapacity).
THEOREM AdmittedLeavesRoom == AdmissionSpec => []AdmittedFits
<1>1. AdmissionInv /\ SnapshotTaken => AdmittedFits
  <2>1. SUFFICES ASSUME AdmissionInv, SnapshotTaken, verdict \in {"permit valid", "built", "stage failed"}
                 PROVE  AdmittedFits
    BY DEF AdmittedFits
  <2>2. CASE verdict = "permit valid"
    <3>1. LeavesRoom(plan, snapshot)
      BY <2>1, <2>2, PermitFits DEF AdmissionInv, Answered, SnapshotTaken
    <3> QED BY <2>2, <3>1 DEF AdmittedFits, LeavesRoom, Fits, Used, GuardOf
  <2>3. CASE verdict # "permit valid"
    <3>1. LeavesRoom(spec.plan, snapshot) /\ ~Fits(spec.plan, snapshot, spec.plan.peak + PeakContract.duplicate)
      BY <2>1, <2>3, ConstructionFits DEF AdmissionInv, Answered, SnapshotTaken
    <3> QED BY <2>3, <3>1 DEF AdmittedFits, LeavesRoom, Fits, Used, GuardOf
  <2> QED BY <2>2, <2>3
<1> QED BY <1>1, AdmissionInvariant, SnapshotIsTaken, PTL
=============================================================================
