---------------------------- MODULE CircuitSteps ----------------------------
(***************************************************************************)
(* The common shape of the circuits of src/integer/homchain.  Each is a    *)
(* straight line of homomorphic operations written out in an EvaluateNew:  *)
(* call, count the call, require an exact level and scale of what came     *)
(* back, append its state to the trace, go on.  A program is that line as  *)
(* a sequence of steps, beside the constants a constructor seals: encoded  *)
(* operands and the profile of operation counts.                           *)
(*                                                                         *)
(* A ciphertext packs several columns of slots that no operation mixes, so *)
(* a value is that of one column.  An arithmetic word m is the coefficient *)
(* c7 = -m/256.  The others follow from it up to integers, c_j = 2^(7-j) c7*)
(* and c_0 = 127 c7, and the circuits may not depend on those integers: a  *)
(* refresh adds one (the lift) anyway.                                     *)
(* Noise is left out: the values are those the circuits decrypt to while   *)
(* every error stays below what their thresholds round away.               *)
(***************************************************************************)
EXTENDS Ciphertexts, Sequences

Ring == INSTANCE Z2nRing WITH WordBits <- 8
None == <<>>

\* The arithmetic word m, of any integer.
Word(level, scale, m) == Operand(level, scale, -m, 1)
Bit(level, scale, b) == Operand(level, scale, b, 0)

\* A sealed DFT matrix takes the level it was encoded at and consumes its depth.
Matrix(level, depth) == [level |-> level, depth |-> depth]

-----------------------------------------------------------------------------
\* The operations.  c is the first argument, d the second, n a number.

\* A linear transformation or a mask, followed by its rescaling.
Weighted(c, d) == Rescaled(Product(c, d))

Factored(c, matrix) ==
  [c EXCEPT !.level = @ - matrix.depth, !.exact = @ /\ c.level = matrix.level]

\* The streamed transform of Route B leaves the scale off by a fixed drift, and
\* the normalization, metadata only, takes that drift and no other back.
Streamed(c, matrix) == [Factored(c, matrix) EXCEPT !.scale = Times(@, Prime(Drift))]
Normalized(c) == [c EXCEPT !.scale = Over(@, Prime(Drift))]

Difference(c, d) == SumOf(c, Negated(d))

\* ScaleDown lands at level 0 with the default scale; ModUp raises the modulus,
\* which adds an integer to every coefficient.
ScaledDown(c) == [c EXCEPT !.level = 0]
Raised(c, lift) == [c EXCEPT !.level = TopLevel, !.num = @ + lift * Den^c.den]

\* exp(2 pi i x / 4), of which the value is the phase in units of 1/(4 Den^den),
\* and its squares.  Two squarings make the phase an integral multiple of x again.
ExponentialDepth == 6
Exponential(c) == [c EXCEPT !.level = @ - ExponentialDepth]
Squared(c) ==
  LET square == [c EXCEPT !.scale = Times(@, @), !.num = 2 * @] IN Rescaled(square)

\* The tables are indexed by the phase in sixteenths.  Between two of them a
\* polynomial has no meaning.  One of them alone, or ID + i MSB, of which the
\* value is the code still.
TableDepth == 4
Code(c) == ((4 * c.num) \div Den^c.den) % 16
OnGrid(c) == (4 * c.num) % Den^c.den = 0
FromTable(c, num, den) ==
  [level |-> c.level - TableDepth, scale |-> DefaultScale, num |-> num, den |-> den,
   exact |-> c.exact /\ OnGrid(c)]
ID(code) == (Den \div 16) * Ring!A2BTwoLUT(code, 4).ID
MSB(code) == Ring!A2BTwoLUT(code, 4).MSB
Identity(c) == FromTable(c, ID(Code(c)), 1)
SignBit(c) == FromTable(c, MSB(Code(c)), 0)
BothTables(c) == FromTable(c, Code(c), 0)
RealPartOf(c) == [c EXCEPT !.num = ID(@), !.den = 1]
ImaginaryPartOf(c) == [c EXCEPT !.num = MSB(@)]

\* The affine map that takes the root of unity of phase 0 to 0 and that of one
\* times the slot's coefficient of tau^-1, which d holds, to 1.  Its offset is
\* added by a later step; the value here is already the sum.
Decoded(c, d) ==
  LET phase == c.num % (4 * Den)
      one == (4 * d.num) % (4 * Den)
  IN  [level |-> Smaller(c.level, d.level), scale |-> Times(c.scale, d.scale),
       num |-> IF phase = one THEN 1 ELSE 0, den |-> 0,
       exact |-> c.exact /\ c.den = 1 /\ phase \in {0, one}]

Effect(op, n, c, d) ==
  CASE op = "copy" -> c
    [] op = "product" -> Product(c, d)
    [] op = "rescale" -> Rescaled(c)
    [] op = "weigh" -> Weighted(c, d)
    [] op = "sum" -> SumOf(c, d)
    [] op = "difference" -> Difference(c, d)
    [] op = "negate" -> Negated(c)
    [] op = "drop" -> Dropped(c, c.level - n)
    [] op = "dft" -> Factored(c, d)
    [] op = "streamed dft" -> Streamed(c, d)
    [] op = "normalize" -> Normalized(c)
    [] op = "scale down" -> ScaledDown(c)
    [] op = "mod up" -> Raised(c, n)
    [] op = "identity" -> Identity(c)
    [] op = "sign bit" -> SignBit(c)
    [] op = "both tables" -> BothTables(c)
    [] op = "real part" -> RealPartOf(c)
    [] op = "imaginary part" -> ImaginaryPartOf(c)
    [] op = "exponential" -> Exponential(c)
    [] op = "square" -> Squared(c)
    [] op = "decode" -> Decoded(c, d)

-----------------------------------------------------------------------------
\* Steps.

Fits(c, expected) == c.level = expected.level /\ c.scale = expected.scale

\* The step that makes `stage`: what it applies to which ciphertexts or operands,
\* the state it has to leave, what is counted once the call has returned, the
\* counts there may be when it fails (partial), what is claimed as attempted
\* when it begins a group of calls (dispatch), how many states it appends, and
\* what is checked of them on the spot; the rest is compared with the profile at
\* the end.
Step(stage, op, n, of, expected, counts) ==
  [stage |-> stage, op |-> op, n |-> n, of |-> of, expected |-> expected,
   counts |-> counts, partial |-> {None}, dispatch |-> None, states |-> 1,
   checked |-> {"level", "scale"}]

Quiet(step) == [step EXCEPT !.states = 0]
Batch(step, n) == [step EXCEPT !.states = n]
Early(step) == [step EXCEPT !.partial = {step.counts}]
Partly(step, partial) == [step EXCEPT !.partial = partial]
Sure(step) == [step EXCEPT !.partial = {}]
Unchecked(step) == [step EXCEPT !.checked = {}]
LevelOnly(step) == [step EXCEPT !.checked = {"level"}]
Dispatched(step, counts) == [step EXCEPT !.dispatch = counts]

\* A step that evaluates another program whole: its inputs are taken from the
\* ciphertexts `of` names (program.inputs numbers them), its output is `out`.
Call(stage, program, of, out, expected, counts) ==
  [Step(stage, "call", 0, of, expected, counts) EXCEPT !.n = [program |-> program, out |-> out]]

-----------------------------------------------------------------------------
\* Evaluation.

Named(program, made, name) ==
  IF name \in DOMAIN made THEN made[name] ELSE program.operands[name]

With(made, stage, c) ==
  [s \in DOMAIN made \union {stage} |-> IF s = stage THEN c ELSE made[s]]

RECURSIVE Evaluated(_, _)

\* What a step makes of the ciphertexts made before it.
Outcome(program, made, step) ==
  LET arg == [i \in DOMAIN step.of |-> Named(program, made, step.of[i])]
      sub == IF step.op = "call" THEN step.n.program ELSE program
      inner == Evaluated(sub, [s \in DOMAIN sub.inputs |-> arg[sub.inputs[s]]])
  IN  IF step.op = "call"
      THEN [inner[step.n.out] EXCEPT !.exact =
              @ /\ \A i \in DOMAIN sub.steps : Fits(inner[sub.steps[i].stage], sub.steps[i].expected)]
      ELSE Effect(step.op, step.n, arg[1], arg[Len(arg)])

\* All ciphertexts of a program, from what its inputs hold.
Evaluated(program, given) ==
  LET upTo[i \in 0 .. Len(program.steps)] ==
        IF i = 0 THEN given
        ELSE LET before == upTo[i - 1]
                 step == program.steps[i]
             IN  With(before, step.stage, Outcome(program, before, step))
  IN  upTo[Len(program.steps)]

-----------------------------------------------------------------------------
\* A packed program works on all words of a ciphertext at once: what it makes, and
\* its operands, are tuples with a ciphertext for each word, and only a rotation
\* brings a word to the place of another (word i receives word i + n).
IsPacked(program) == "words" \in DOMAIN program
Lanes(program, c) == IF IsPacked(program) THEN c ELSE <<c>>
Lane(all, w) == [s \in DOMAIN all |-> all[s][w]]

Rotated(c, n) == [w \in DOMAIN c |-> c[((w - 1 + n) % Len(c)) + 1]]

Result(program, made, step) ==
  IF ~IsPacked(program) THEN Outcome(program, made, step)
  ELSE IF step.op = "rotate" THEN Rotated(made[step.of[1]], step.n)
  ELSE [w \in 1 .. program.words |->
          Outcome([program EXCEPT !.operands = Lane(@, w)], Lane(made, w), step)]

FitsIn(program, c, expected) ==
  \A w \in DOMAIN Lanes(program, c) : Fits(Lanes(program, c)[w], expected)
\* What is checked on the spot.
Passes(program, c, step) ==
  \A w \in DOMAIN Lanes(program, c), field \in step.checked :
     Lanes(program, c)[w][field] = step.expected[field]

\* A ciphertext that a call left a level too low, or with a scale of another prime.
Amiss(c, field) ==
  IF field = "level" THEN [c EXCEPT !.level = @ - 1]
  ELSE [c EXCEPT !.scale = Times(@, Prime(0))]
AmissIn(program, c, field) ==
  IF IsPacked(program) THEN [w \in DOMAIN c |-> Amiss(c[w], field)] ELSE Amiss(c, field)
=============================================================================
