-------------------------- MODULE IntegerEvaluator --------------------------
(***************************************************************************)
(* src/integer/evaluator: encrypted vectors of words modulo 2^n.  A Codec  *)
(* encrypts words as Arithmetic values tau^{-1}[m] or as Short values [m], *)
(* adds, subtracts, negates and multiplies them without ever reducing a    *)
(* coefficient, and decrypts with the rounding decoder of z2n.  Every      *)
(* operation checks its operands first and refuses the ones it cannot take.*)
(*                                                                         *)
(* Several codecs share the values: which keys one holds and which bounds  *)
(* it was configured with are constants.  Some are owned by a Context of   *)
(* the public API, which takes none but its own values and has to be given *)
(* another's ciphertext explicitly.  The bounds are checked when words come*)
(* in and when they go out; in between a word wraps modulo 2^n.  The       *)
(* error of the scheme is added when a value is decrypted.  The errors of  *)
(* the evaluator's own calls and of keys that cannot be loaded are left    *)
(* out: they return before anything is made.                               *)
(***************************************************************************)
EXTENDS Z2nRing, Sequences

CONSTANTS
  Codecs,
  Contexts,       \* the codecs a ckksint Context owns
  Keys,           \* of a codec: "encryption", "secret", "relinearization"
  Minimum, Maximum,   \* its bounds on the signed value of a word
  InitialLevel,   \* the level of a fresh value
  Capacity,       \* words that fit the slots of a ciphertext
  Inputs,         \* the word vectors that are encrypted or added in public
  SignedInputs,   \* the vectors of signed integers a Context encrypts
  Noises,         \* errors of a decryption, polynomials in units of 2^-n
  MaxValues       \* bound: values made

EvaluatorAssumption ==
  /\ Z2nAssumption
  /\ Contexts \subseteq Codecs
  /\ Keys \in [Codecs -> SUBSET {"encryption", "secret", "relinearization"}]
  /\ {Minimum, Maximum} \subseteq [Codecs -> -Modulus .. Modulus]
  /\ {InitialLevel, Capacity, MaxValues} \subseteq Nat

C == INSTANCE Ciphertexts WITH TopLevel <- InitialLevel, Den <- 1

VARIABLES values,   \* the values made: codec, mode, level, scale, one polynomial
                    \* per word, and, for the properties, the words they stand for
          answer    \* what the last call returned

vars == <<values, answer>>

-----------------------------------------------------------------------------
\* Words and values.

Residue(k) == k % Modulus
Signed(w) == IF Bit(w, WordBits - 1) = 1 THEN w - Modulus ELSE w
\* validateRawWord, of a two's-complement configuration.
ValidWord(c, w) == w \in 0 .. Modulus - 1 /\ Signed(w) \in Minimum[c] .. Maximum[c]
ValidWords(c, words) == \A i \in DOMAIN words : ValidWord(c, words[i])

Value(c, mode, level, scale, polynomials, words) ==
  [codec |-> c, mode |-> mode, level |-> level, scale |-> scale,
   polynomials |-> polynomials, words |-> words]

EachWord(words, Op(_)) == [i \in DOMAIN words |-> Op(words[i])]
Encoded(words) == EachWord(words, ArithmeticEncode)

\* Codec.Validate: the parameters are equal but for the mode, and the level is
\* one of a value of this codec.
Valid(c, v) ==
  /\ Minimum[v.codec] = Minimum[c] /\ Maximum[v.codec] = Maximum[c]
  /\ Len(v.polynomials) \in 1 .. Capacity
  /\ v.level \in 0 .. InitialLevel
\* Context.owns, before the codec is called.
Owns(c, v) == c \in Contexts => v.codec = c
Usable(c, v) == Owns(c, v) /\ Valid(c, v)
ValidArithmetic(c, v) == Usable(c, v) /\ v.mode = "Arithmetic"

Aligned(u, v) ==
  /\ Len(u.polynomials) = Len(v.polynomials)
  /\ u.level = v.level
  /\ u.scale = v.scale

-----------------------------------------------------------------------------
\* The results of the operations.

Linear(c, v, polynomials, words) ==
  Value(c, "Arithmetic", v.level, v.scale, polynomials, words)

Sum(c, u, v) ==
  Linear(c, u, [i \in DOMAIN u.polynomials |-> Plus(u.polynomials[i], v.polynomials[i])],
         [i \in DOMAIN u.words |-> (u.words[i] + v.words[i]) % Modulus])
Difference(c, u, v) ==
  Linear(c, u, [i \in DOMAIN u.polynomials |-> Minus(u.polynomials[i], v.polynomials[i])],
         [i \in DOMAIN u.words |-> (u.words[i] - v.words[i]) % Modulus])
Negation(c, v) ==
  Linear(c, v, [i \in DOMAIN v.polynomials |-> Minus(Zero, v.polynomials[i])],
         [i \in DOMAIN v.words |-> (-v.words[i]) % Modulus])

\* The public words as the plaintext the value is added to: its level and scale.
Public(c, v, words) == Linear(c, v, Encoded(words), words)

PlainProduct(u, v) == [i \in DOMAIN u.words |-> (u.words[i] * v.words[i]) % Modulus]

\* MulRelin and one rescale.
ScaleAfter(u, v) == C!Over(C!Times(u.scale, v.scale), C!Prime(u.level))
ShortProduct(c, u, v) ==
  Value(c, "Arithmetic", u.level - 1, ScaleAfter(u, v),
        [i \in DOMAIN u.polynomials |-> Mul(u.polynomials[i], v.polynomials[i])],
        PlainProduct(u, v))

\* Fault: the product of two encodings keeps its second tau^{-1}.
FaultFullProduct(c, u, v) ==
  LET first == ScaleAfter(u, v)
  IN  Value(c, "Arithmetic", u.level - 2, C!Over(C!Times(first, first), C!Prime(u.level - 1)),
            [i \in DOMAIN u.polynomials |->
               InUnits(Mul(u.polynomials[i], v.polynomials[i]))],
            PlainProduct(u, v))
\* MulRelin, a rescale, the product with tau encoded at the scale it then has,
\* and another rescale.
FullProduct(c, u, v) ==
  LET first == ScaleAfter(u, v)
  IN  Value(c, "Arithmetic", u.level - 2, C!Over(C!Times(first, first), C!Prime(u.level - 1)),
            [i \in DOMAIN u.polynomials |->
               InUnits(MulTau(Mul(u.polynomials[i], v.polynomials[i])))],
            PlainProduct(u, v))

\* requireMultiplicationResources
CanMultiply(c, v, rescales) == v.level >= rescales /\ "relinearization" \in Keys[c]

\* What the decoder is given for a word of v: a Short value times tau^{-1}.
\* The units of 1 are 2^n, and 2^2n for a Short value.
Recovered(v, i, noise) ==
  IF v.mode = "Arithmetic"
  THEN DecodeArithmetic(Plus(v.polynomials[i], noise), Modulus)
  ELSE LET raw == [j \in Degrees |-> Modulus * v.polynomials[i][j] + noise[j]]
       IN  DecodeArithmetic(Mul(raw, TauInverse), Modulus * Modulus)

-----------------------------------------------------------------------------
\* The calls.

Init == values = <<>> /\ answer = [kind |-> "none"]

Returns(accepted, v) ==
  IF accepted
  THEN values' = Append(values, v) /\ answer' = [kind |-> "value"]
  ELSE UNCHANGED values /\ answer' = [kind |-> "refused"]

Room == Len(values) < MaxValues

\* EncodeEncrypt and EncodeShortEncrypt.
EncodeEncrypt(c, words, mode) ==
  /\ Room
  /\ Returns("encryption" \in Keys[c] /\ Len(words) \in 1 .. Capacity /\ ValidWords(c, words),
             Value(c, mode, InitialLevel, C!DefaultScale,
                   IF mode = "Arithmetic" THEN Encoded(words) ELSE EachWord(words, BinaryEncode),
                   words))

\* Context.EncryptSigned: the residues of integers that fit n bits.
EncryptSigned(c, integers) ==
  LET residues == EachWord(integers, Residue)
      half == 2^(WordBits - 1)
  IN  /\ Room
      /\ c \in Contexts
      /\ Returns(/\ "encryption" \in Keys[c] /\ Len(integers) \in 1 .. Capacity
                 /\ \A i \in DOMAIN integers : integers[i] \in -half .. half - 1
                 /\ ValidWords(c, residues),
                 Value(c, "Arithmetic", InitialLevel, C!DefaultScale, Encoded(residues), residues))

\* Context.ImportTrustedCiphertext: a copy of an arithmetic ciphertext made
\* under the same keys becomes the context's own.
Import(c, v) ==
  /\ Room
  /\ c \in Contexts /\ v.mode = "Arithmetic"
  /\ Returns(Len(v.polynomials) \in 1 .. Capacity /\ v.level \in 0 .. InitialLevel,
             [v EXCEPT !.codec = c])

CombinesLinearly(c, u, v) == ValidArithmetic(c, u) /\ ValidArithmetic(c, v) /\ Aligned(u, v)
Add(c, u, v) == Room /\ Returns(CombinesLinearly(c, u, v), Sum(c, u, v))
Sub(c, u, v) == Room /\ Returns(CombinesLinearly(c, u, v), Difference(c, u, v))
Negate(c, v) == Room /\ Returns(ValidArithmetic(c, v), Negation(c, v))

FitsPublic(c, v, words) ==
  ValidArithmetic(c, v) /\ Len(words) = Len(v.polynomials) /\ ValidWords(c, words)
AddPublic(c, v, words) ==
  Room /\ Returns(FitsPublic(c, v, words), Sum(c, v, Public(c, v, words)))
SubPublic(c, v, words) ==
  Room /\ Returns(FitsPublic(c, v, words), Difference(c, v, Public(c, v, words)))

MultShort(c, u, v) ==
  /\ Room
  /\ Returns(/\ ValidArithmetic(c, u) /\ Usable(c, v) /\ v.mode = "Short"
             /\ Aligned(u, v) /\ CanMultiply(c, u, 1),
             ShortProduct(c, u, v))
MultFull(c, u, v) ==
  Room /\ Returns(CombinesLinearly(c, u, v) /\ CanMultiply(c, u, 2), FullProduct(c, u, v))

\* DecryptDecode and Context.DecryptSigned: the first recovered word out of
\* bounds refuses them all; the others are read as signed integers.
DecryptDecode(c, i, noise) ==
  LET v == values[i]
      words == [k \in DOMAIN v.polynomials |-> Recovered(v, k, noise)]
  IN  /\ UNCHANGED values
      /\ answer' =
           CASE "secret" \notin Keys[c] \/ ~Usable(c, v) -> [kind |-> "refused"]
             [] "secret" \in Keys[c] /\ Usable(c, v) /\ ValidWords(c, words) ->
                  [kind |-> "words", of |-> i, words |-> EachWord(words, Signed)]
             [] OTHER -> [kind |-> "out of bounds", of |-> i, by |-> c]

Made == {values[i] : i \in DOMAIN values}

Next ==
  \E c \in Codecs :
    \/ \E words \in Inputs, mode \in {"Arithmetic", "Short"} : EncodeEncrypt(c, words, mode)
    \/ \E integers \in SignedInputs : EncryptSigned(c, integers)
    \/ \E v \in Made :
         \/ Import(c, v)
         \/ \E u \in Made : \/ Add(c, u, v) \/ Sub(c, u, v)
                            \/ MultShort(c, u, v) \/ MultFull(c, u, v)
         \/ Negate(c, v)
         \/ \E words \in Inputs : AddPublic(c, v, words) \/ SubPublic(c, v, words)
    \/ \E i \in DOMAIN values, noise \in Noises : DecryptDecode(c, i, noise)

Spec == Init /\ [][Next]_vars

-----------------------------------------------------------------------------
\* TypeOK of the codecs.
TypeOK ==
  /\ Len(values) <= MaxValues
  /\ \A v \in Made : /\ v.codec \in Codecs /\ v.mode \in {"Arithmetic", "Short"}
                     /\ v.level \in 0 .. InitialLevel /\ v.scale \in C!Scales
  /\ answer.kind \in {"none", "value", "words", "refused", "out of bounds"}

\* Through any sequence of operations the codecs accept, with coefficients no
\* operation ever reduces, a decryption recovers the words modulo 2^n that the
\* same operations on plain words give, or refuses because one of those is out
\* of the bounds of the codec that decrypts.
DecryptsAsPlain ==
  /\ answer.kind = "words" => EachWord(answer.words, Residue) = values[answer.of].words
  /\ answer.kind = "out of bounds" => ~ValidWords(answer.by, values[answer.of].words)
=============================================================================
