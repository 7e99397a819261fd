------------------------------- MODULE QrCode -------------------------------
(***************************************************************************)
(* QrGen::encode, which turns the address and port of the receiver into    *)
(* the picture that a phone scans.  Its stages are the actions, each of    *)
(* them a few loops over the matrix.                                       *)
(*                                                                         *)
(* A text is a sequence of characters.  A matrix is the set of its dark    *)
(* modules and the set of its function modules (`func'), which the data    *)
(* and the masks leave alone.  A module is a pair <<row, column>>.         *)
(***************************************************************************)
EXTENDS ReedSolomon, FiniteSets

CONSTANT Texts    \* what the user interface has encoded

ASSUME TextAssumption == Texts \subseteq Seq(STRING)

VARIABLES
  text,
  stage,        \* what encode() does next; "idle" when it is not running
  ver,
  interleaved,  \* data bytes; from the stage "finders" on all codewords
  dark, func,   \* the matrix
  mask,         \* the next mask to try
  best,         \* the dark modules of bestMat
  bestPen

callVars == <<text, stage, ver, interleaved, dark, func, mask, best, bestPen>>
vars == <<callVars, gfVars>>

-----------------------------------------------------------------------------
(* The tables *)

Characters ==
  LET digits == <<"0", "1", "2", "3", "4", "5", "6", "7", "8", "9">>
      letters == <<"A", "B", "C", "D", "E", "F", "G", "H", "I", "J", "K", "L",
                   "M", "N", "O", "P", "Q", "R", "S", "T", "U", "V", "W", "X",
                   "Y", "Z">>
      signs == <<" ", "$", "%", "*", "+", "-", ".", "/", ":">>
  IN digits \o letters \o signs

Supported(c) == c \in ToSet(Characters)
\* Lower-case letters, which have the values of the others, are left out.
charVal(c) == (CHOOSE i \in DOMAIN Characters : Characters[i] = c) - 1

ALPHA_MAX == <<20, 38, 70, 101, 131, 163, 211, 259, 302, 360>>

EcInfo(ecPerBlock, blocks1, data1, blocks2, data2) ==
  [ ecPerBlock |-> ecPerBlock,
    sizes |-> [b \in 1 .. blocks1 + blocks2 |->
                 IF b <= blocks1 THEN data1 ELSE data2] ]
EC_M ==
  << EcInfo(10, 1, 16, 0, 0), EcInfo(16, 1, 28, 0, 0), EcInfo(26, 1, 44, 0, 0),
     EcInfo(18, 2, 32, 0, 0), EcInfo(24, 2, 43, 0, 0), EcInfo(16, 4, 27, 0, 0),
     EcInfo(18, 4, 31, 0, 0), EcInfo(22, 2, 38, 2, 39),
     EcInfo(22, 3, 36, 2, 37), EcInfo(26, 4, 43, 1, 44) >>

AP ==
  << {}, {6, 18}, {6, 22}, {6, 26}, {6, 30}, {6, 34}, {6, 22, 38},
     {6, 24, 42}, {6, 26, 46}, {6, 28, 50} >>

\* FMT_M[mask + 1]
FMT_M == <<21522, 20773, 24188, 23371, 17913, 16590, 20375, 19104>>

-----------------------------------------------------------------------------
(* Data and error correction *)

Bits(v, count) == [i \in 1 .. count |-> (v \div 2 ^ (count - i)) % 2]
Zeros(count) == Bits(0, count)
ByteAt(bits, k) ==
  FoldLeft(LAMBDA byte, b : 2 * byte + b, 0, SubSeq(bits, 8 * k - 7, 8 * k))

\* The bits of the bytes, the highest first.
BitsOf(bytes) ==
  [i \in 1 .. 8 * Len(bytes) |->
     (bytes[1 + (i - 1) \div 8] \div 2 ^ (7 - ((i - 1) % 8))) % 2]

SumOf(numbers) == FoldLeft(+, 0, numbers)
Smaller(a, b) == IF a < b THEN a ELSE b

\* A mutant: the last character of an odd text is forgotten.
PairsOnly(vals) ==
  FlattenSeq([i \in 1 .. Len(vals) \div 2 |->
                Bits(45 * vals[2 * i - 1] + vals[2 * i], 11)])
\* Two characters in 11 bits, a last single one in 6.
CharacterBits(vals) ==
  FlattenSeq([i \in 1 .. (Len(vals) + 1) \div 2 |->
                IF 2 * i <= Len(vals)
                  THEN Bits(45 * vals[2 * i - 1] + vals[2 * i], 11)
                  ELSE Bits(vals[2 * i - 1], 6)])

\* Mode and length, characters, terminator, alignment and pad bytes.  A text that
\* ALPHA_MAX lets through but totalData bytes do not hold is cut off here, where
\* push (QrCode.h:264) would write past the end of rawBits: for such a text, and
\* the program has none, this definition stands for nothing.
RawBits(vals, totalData) ==
  LET bits == Bits(2, 4) \o Bits(Len(vals), 9) \o CharacterBits(vals)
      ended == bits \o Zeros(Smaller(4, 8 * totalData - Len(bits)))
      aligned == ended \o Zeros((- Len(ended)) % 8)
      Pad(k) == IF k % 2 = 1 THEN 236 ELSE 17
  IN [k \in 1 .. totalData |->
        IF 8 * k <= Len(aligned) THEN ByteAt(aligned, k) ELSE Pad(k)]

Blocks(data, sizes) ==
  [b \in DOMAIN sizes |->
     LET offset == SumOf(SubSeq(sizes, 1, b - 1))
     IN SubSeq(data, offset + 1, offset + sizes[b])]

\* The first bytes of all blocks, then the second ones, as far as they go.
ByTurns(blocks) ==
  LET depth == Len(Last(blocks))
      Row(i) == LET deep == SelectSeq(blocks, LAMBDA b : Len(b) >= i)
                IN [k \in DOMAIN deep |-> deep[k][i]]
  IN FlattenSeq([i \in 1 .. depth |-> Row(i)])

-----------------------------------------------------------------------------
(* The matrix *)

Size(v) == 4 * v + 17
Grid(n) == (0 .. n - 1) \X (0 .. n - 1)
Magnitude(d) == IF d < 0 THEN - d ELSE d
\* How many rings of modules m is away from the centre c.
Ring(m, c) ==
  LET dr == Magnitude(m[1] - c[1])
      dc == Magnitude(m[2] - c[2])
  IN IF dr > dc THEN dr ELSE dc

\* A finder is seven modules wide, and a light ring separates it.
Finder(n, c) == {m \in Grid(n) : Ring(m, c) <= 4}
FinderDark(n, c) == {m \in Grid(n) : Ring(m, c) \in {0, 1, 3}}
FinderCentres(n) == {<<3, 3>>, <<3, n - 4>>, <<n - 4, 3>>}

Timing(n) == {6} \X (8 .. n - 9) \cup (8 .. n - 9) \X {6}

\* An alignment pattern is five modules wide.
Alignment(n, c) == {m \in Grid(n) : Ring(m, c) <= 2}
AlignmentDark(n, c) == {m \in Grid(n) : Ring(m, c) \in {0, 2}}

\* The modules of the two copies of the format, bit 14 - i of the first one
\* and bit i of the second one at position i + 1.
FormatCopy1 ==
  <<<<0, 8>>, <<1, 8>>, <<2, 8>>, <<3, 8>>, <<4, 8>>, <<5, 8>>, <<7, 8>>,
    <<8, 8>>, <<8, 7>>, <<8, 5>>, <<8, 4>>, <<8, 3>>, <<8, 2>>, <<8, 1>>,
    <<8, 0>>>>
FormatCopy2(n) ==
  [i \in 1 .. 15 |-> IF i <= 8 THEN <<8, n - i>> ELSE <<n - 16 + i, 8>>]
DarkModule(n) == <<n - 8, 8>>
FormatModules(n) ==
  ToSet(FormatCopy1) \cup ToSet(FormatCopy2(n)) \cup {DarkModule(n)}

FormatBit(fmt, i) == (fmt \div 2 ^ i) % 2 = 1
placeFmt(modules, n, fmt) ==
  (modules \ FormatModules(n))
    \cup {FormatCopy1[i + 1] : i \in {j \in 0 .. 14 : FormatBit(fmt, 14 - j)}}
    \cup {FormatCopy2(n)[i + 1] : i \in {j \in 0 .. 14 : FormatBit(fmt, j)}}
    \cup {DarkModule(n)}

\* The modules in the order of the data: pairs of columns from the right,
\* upwards and downwards by turns, without the column of the timing pattern.
Zigzag(n) ==
  [k \in 1 .. n * (n - 1) |->
     LET pair == (k - 1) \div (2 * n)
         right == n - 1 - 2 * pair
         v == ((k - 1) % (2 * n)) \div 2
         row == IF pair % 2 = 0 THEN n - 1 - v ELSE v
         column == (IF right <= 6 THEN right - 1 ELSE right) - ((k - 1) % 2)
     IN <<row, column>>]

maskCondition(k, m) ==
  LET r == m[1]
      c == m[2]
  IN CASE k = 0 -> (r + c) % 2 = 0
       [] k = 1 -> r % 2 = 0
       [] k = 2 -> c % 3 = 0
       [] k = 3 -> (r + c) % 3 = 0
       [] k = 4 -> (r \div 2 + c \div 3) % 2 = 0
       [] k = 5 -> ((r * c) % 2) + ((r * c) % 3) = 0
       [] k = 6 -> (((r * c) % 2) + ((r * c) % 3)) % 2 = 0
       [] k = 7 -> (((r + c) % 2) + ((r * c) % 3)) % 2 = 0

\* A mutant: the mask also inverts the function patterns.
MaskedEverywhere(modules, functions, n, k) ==
  SymDiff(modules, {m \in Grid(n) : maskCondition(k, m)})
\* A mutant: the mask takes rows for columns.
MaskedTransposed(modules, functions, n, k) ==
  SymDiff(modules, {m \in Grid(n) \ functions : maskCondition(k, <<m[2], m[1]>>)})
Masked(modules, functions, n, k) ==
  SymDiff(modules, {m \in Grid(n) \ functions : maskCondition(k, m)})

PAT1 == <<1, 0, 1, 1, 1, 0, 1, 0, 0, 0, 0>>
PAT2 == <<0, 0, 0, 0, 1, 0, 1, 1, 1, 0, 1>>

\* Rows and columns as sequences of 1 for dark and 0 for light.
Rows(modules, n) ==
  [r \in 1 .. n |-> [c \in 1 .. n |-> IF <<r - 1, c - 1>> \in modules THEN 1 ELSE 0]]
Lines(modules, n) ==
  LET rows == Rows(modules, n)
  IN rows \o [c \in 1 .. n |-> [r \in 1 .. n |-> rows[r][c]]]

\* Where a section of so many modules may begin: its line and its place there.
Places(n, length) == (1 .. 2 * n) \X (1 .. n + 1 - length)

\* Five modules of a colour.
Fives(lines, n) ==
  {p \in Places(n, 5) :
     \A k \in 1 .. 4 : lines[p[1]][p[2] + k] = lines[p[1]][p[2]]}
FirstFives(fives) == {p \in fives : <<p[1], p[2] - 1>> \notin fives}

Squares(rows, n) ==
  {m \in (1 .. n - 1) \X (1 .. n - 1) :
     rows[m[1]][m[2]] + rows[m[1]][m[2] + 1]
       + rows[m[1] + 1][m[2]] + rows[m[1] + 1][m[2] + 1] \in {0, 4}}

FinderLike(lines, n) ==
  {p \in Places(n, 11) : SubSeq(lines[p[1]], p[2], p[2] + 10) \in {PAT1, PAT2}}

\* Per cent, in steps of five away from one half.
Imbalance(modules, n) ==
  LET pct == (100 * Cardinality(modules)) \div (n * n)
  IN Magnitude(pct - 50) \div 5

\* A run of L >= 5 modules of a colour scores L - 2: one for each five in a row
\* and two for the first five.
penaltyScore(modules, n) ==
  LET rows == Rows(modules, n)
      lines == Lines(modules, n)
      fives == Fives(lines, n)
  IN Cardinality(fives) + 2 * Cardinality(FirstFives(fives))
       + 3 * Cardinality(Squares(rows, n))
       + 40 * Cardinality(FinderLike(lines, n))
       + 10 * Imbalance(modules, n)

-----------------------------------------------------------------------------
(* encode() *)

INT_MAX == 2147483647

Init ==
  /\ TablesInit
  /\ text = <<>>
  /\ stage = "idle"
  /\ ver = 0
  /\ interleaved = <<>>
  /\ dark = {} /\ func = {}
  /\ mask = 0
  /\ best = {}
  /\ bestPen = INT_MAX

StageGoto(here, there) == stage = here /\ stage' = there

Call(t) ==
  /\ StageGoto("idle", "version")
  /\ text' = t
  /\ UNCHANGED <<ver, interleaved, dark, func, mask, best, bestPen>>

\* The versions whose limit the text keeps.
Fitting == {v \in 1 .. 10 : Len(text) <= ALPHA_MAX[v]}

SelectVersion ==
  /\ StageGoto("version", "bits")
  /\ Fitting # {}
  /\ ver' = Min(Fitting)
  /\ UNCHANGED <<text, interleaved, dark, func, mask, best, bestPen>>

TextTooLong ==
  /\ StageGoto("version", "thrown")
  /\ Fitting = {}
  /\ UNCHANGED <<text, ver, interleaved, dark, func, mask, best, bestPen>>

UnsupportedChar ==
  /\ StageGoto("bits", "thrown")
  /\ \E i \in DOMAIN text : ~ Supported(text[i])
  /\ UNCHANGED <<text, ver, interleaved, dark, func, mask, best, bestPen>>

BuildBits ==
  /\ StageGoto("bits", "ec")
  /\ \A i \in DOMAIN text : Supported(text[i])
  /\ interleaved' = RawBits([i \in DOMAIN text |-> charVal(text[i])],
                            SumOf(EC_M[ver].sizes))
  /\ UNCHANGED <<text, ver, dark, func, mask, best, bestPen>>

\* The first rsEc of the program.
FillTables ==
  /\ stage = "ec"
  /\ gfInit
  /\ UNCHANGED callVars

AddErrorCorrection ==
  /\ StageGoto("ec", "finders")
  /\ gfReady
  /\ interleaved' =
       LET dBlocks == Blocks(interleaved, EC_M[ver].sizes)
           ecBlocks == [b \in DOMAIN dBlocks |->
                          rsEc(dBlocks[b], EC_M[ver].ecPerBlock)]
       IN ByTurns(dBlocks) \o ByTurns(ecBlocks)
  /\ UNCHANGED <<text, ver, dark, func, mask, best, bestPen>>

\* The given modules become function modules; others keep what they are.
Draw(modules, darkOnes) ==
  /\ dark' = dark \cup darkOnes
  /\ func' = func \cup modules
  /\ UNCHANGED <<text, ver, interleaved, mask, best, bestPen>>

DrawFinders ==
  /\ StageGoto("finders", "timing")
  /\ LET n == Size(ver)
     IN Draw(UNION {Finder(n, c) : c \in FinderCentres(n)},
             UNION {FinderDark(n, c) : c \in FinderCentres(n)})

DrawTiming ==
  /\ StageGoto("timing", "alignment")
  /\ LET free == Timing(Size(ver)) \ func
     IN Draw(free, {m \in free : (m[1] + m[2]) % 2 = 0})

\* A pattern is left out where its centre is taken.  The pattern drawn before
\* never touches the centre of the next one.
DrawAlignment ==
  /\ StageGoto("alignment", "format")
  /\ LET n == Size(ver)
         centres == (AP[ver] \X AP[ver]) \ func
     IN Draw(UNION {Alignment(n, c) : c \in centres},
             (UNION {AlignmentDark(n, c) : c \in centres}) \ func)

ReserveFormat ==
  /\ StageGoto("format", "place")
  /\ Draw(FormatModules(Size(ver)), {DarkModule(Size(ver))})

\* A free module takes the bit whose number is its own among the free ones;
\* modules beyond the last bit stay light.
PlaceData ==
  /\ StageGoto("place", "masks")
  /\ dark' =
       LET cells == Zigzag(Size(ver))
           bits == BitsOf(interleaved)
           free == {k \in DOMAIN cells : cells[k] \notin func}
           bit(k) == Cardinality({j \in free : j <= k})
       IN dark \cup {cells[k] : k \in {j \in free : bit(j) <= Len(bits)
                                                     /\ bits[bit(j)] = 1}}
  /\ UNCHANGED <<text, ver, interleaved, func, mask, best, bestPen>>

Candidate(k) ==
  placeFmt(Masked(dark, func, Size(ver), k), Size(ver), FMT_M[k + 1])

NextMask ==
  /\ StageGoto("masks", IF mask = 7 THEN "done" ELSE "masks")
  /\ mask' = mask + 1
  /\ UNCHANGED <<text, ver, interleaved, dark, func>>

\* A mutant: the penalty kept is always that of the last candidate.
TryMaskForgetting ==
  /\ NextMask
  /\ bestPen' = penaltyScore(Candidate(mask), Size(ver))
  /\ best' = IF bestPen' < bestPen THEN Candidate(mask) ELSE best
TryMask ==
  /\ NextMask
  /\ bestPen' = Smaller(penaltyScore(Candidate(mask), Size(ver)), bestPen)
  /\ best' = IF bestPen' < bestPen THEN Candidate(mask) ELSE best

\* The caller takes the matrix, or catches the exception.
Return ==
  /\ stage \in {"done", "thrown"}
  /\ text' = <<>>
  /\ stage' = "idle"
  /\ ver' = 0
  /\ interleaved' = <<>>
  /\ dark' = {} /\ func' = {}
  /\ mask' = 0
  /\ best' = {}
  /\ bestPen' = INT_MAX

Stages ==
  \/ \E t \in Texts : Call(t)
  \/ SelectVersion \/ TextTooLong \/ BuildBits \/ UnsupportedChar
  \/ AddErrorCorrection \/ DrawFinders \/ DrawTiming \/ DrawAlignment
  \/ ReserveFormat \/ PlaceData \/ TryMask \/ Return

Next == (Stages /\ UNCHANGED gfVars) \/ FillTables

Spec == Init /\ [][Next]_vars
=============================================================================
