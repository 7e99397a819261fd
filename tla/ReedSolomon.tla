---------------------------- MODULE ReedSolomon ----------------------------
(***************************************************************************)
(* The error correction of QR codes: arithmetic in the field of 256        *)
(* elements by tables of powers and logarithms, which gfInit fills at the  *)
(* first use, and the remainder that makes a block of bytes a multiple of  *)
(* the generator polynomial.                                               *)
(***************************************************************************)
EXTENDS Integers, Sequences, SequencesExt

VARIABLES gfReady, GFE, GFL

gfVars == <<gfReady, GFE, GFL>>

TablesInit ==
  /\ gfReady = FALSE
  /\ GFE = [i \in 0 .. 511 |-> 0]
  /\ GFL = [x \in 0 .. 255 |-> 0]

\* a ^ b, for numbers of up to sixteen bits.
Xor(a, b) ==
  LET Bit(v, i) == (v \div 2 ^ i) % 2
  IN MapThenSumSet(LAMBDA i : 2 ^ i, {i \in 0 .. 15 : Bit(a, i) # Bit(b, i)})

\* Times x, modulo x^8 + x^4 + x^3 + x^2 + 1.
Doubled(x) == IF 2 * x >= 256 THEN Xor(2 * x, 285) ELSE 2 * x

\* The elements but zero, by their logarithms 0 to 254.
Powers == FoldLeft(LAMBDA p, i : Append(p, Doubled(p[i])),
                   <<1>>, [i \in 1 .. 254 |-> i])

\* GFE holds them twice, so that the sum of two logarithms is an index of it.
gfInit ==
  /\ ~ gfReady
  /\ gfReady' = TRUE
  /\ GFE' = LET p == Powers IN [i \in 0 .. 511 |-> p[1 + (i % 255)]]
  /\ GFL' = LET p == Powers
            IN [x \in 0 .. 255 |->
                  IF x = 0 THEN 0 ELSE CHOOSE i \in 0 .. 254 : p[i + 1] = x]

gfMul(a, b) == IF a = 0 \/ b = 0 THEN 0 ELSE GFE[GFL[a] + GFL[b]]

Scaled(p, factor) == [j \in DOMAIN p |-> gfMul(p[j], factor)]

\* p * (x + root), the leading coefficient first.
TimesFactor(p, root) ==
  LET shifted == Append(p, 0)
      scaled == <<0>> \o Scaled(p, root)
  IN [j \in DOMAIN shifted |-> Xor(shifted[j], scaled[j])]

\* A mutant: the roots begin one power too high.
GeneratorFromOne(ecDeg) ==
  FoldLeft(LAMBDA p, i : TimesFactor(p, GFE[i]), <<1>>,
           [i \in 1 .. ecDeg |-> i])
\* The product of (x + alpha^i) for i below ecDeg.
Generator(ecDeg) ==
  FoldLeft(LAMBDA p, i : TimesFactor(p, GFE[i - 1]), <<1>>,
           [i \in 1 .. ecDeg |-> i])

\* The remainder of data * x^ecDeg, by long division: a step takes away the
\* multiple of the generator that cancels the first coefficient.
rsEc(data, ecDeg) ==
  LET g == Tail(Generator(ecDeg))
      Eliminate(msg, i) ==
        LET rest == Tail(msg)
            multiple == Scaled(g, Head(msg))
        IN [k \in DOMAIN rest |-> IF k <= ecDeg THEN Xor(rest[k], multiple[k])
                                                ELSE rest[k]]
  IN FoldLeft(Eliminate, data \o [k \in 1 .. ecDeg |-> 0],
              [i \in DOMAIN data |-> i])
=============================================================================
