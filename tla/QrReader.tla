------------------------------ MODULE QrReader ------------------------------
(***************************************************************************)
(* What a phone makes of the picture: the reading side of the QR standard  *)
(* (ISO/IEC 18004), written independently of QrGen::encode, and what is    *)
(* expected of encode() in its terms.  Only the tables of the standard are *)
(* shared: block sizes, alignment centres, characters.                     *)
(***************************************************************************)
EXTENDS QrCode, TLC

Version(n) == (n - 17) \div 4
ValueOf(bits) == FoldLeft(LAMBDA v, b : 2 * v + b, 0, bits)
Color(modules, m) == IF m \in modules THEN 1 ELSE 0

-----------------------------------------------------------------------------
(* The field of 256 elements, by shifting and adding *)

Times(a, b) ==
  LET Shifted(x) == IF x >= 128 THEN Xor(2 * x - 256, 29) ELSE 2 * x
  IN FoldLeft(LAMBDA x, bit : Xor(Shifted(x), bit * a), 0, Bits(b, 8))

\* The value at x of the polynomial with these coefficients.
ValueAt(word, x) ==
  FoldLeft(LAMBDA v, coefficient : IF v = 0 THEN coefficient
                                           ELSE Xor(Times(v, x), coefficient),
           0, word)
Roots(count) == FoldLeft(LAMBDA roots, i : Append(roots, Times(roots[i], 2)),
                         <<1>>, [i \in 1 .. count - 1 |-> i])

-----------------------------------------------------------------------------
(* The format: error correction level and mask, in a BCH code *)

\* The remainder modulo x^10 + x^8 + x^5 + x^4 + x^2 + x + 1.
FormatRemainder(v) ==
  LET Reduced(w, i) ==
        IF (w \div 2 ^ (10 + i)) % 2 = 1 THEN Xor(w, 1335 * 2 ^ i) ELSE w
  IN FoldLeft(Reduced, v, <<4, 3, 2, 1, 0>>)
FormatWord(level, k) ==
  LET v == 1024 * (8 * level + k) IN Xor(v + FormatRemainder(v), 21522)
LevelM == 0

\* The module of bit i, beside the upper left finder and beside the others.
FirstFormatModule(i) ==
  CASE i <= 5 -> <<i, 8>>
    [] i = 6 -> <<7, 8>>
    [] i \in {7, 8} -> <<8, 15 - i>>
    [] i >= 9 -> <<8, 14 - i>>
SecondFormatModule(n, i) == IF i <= 7 THEN <<8, n - 1 - i>> ELSE <<n - 15 + i, 8>>

SecondFormat(modules, n) ==
  ValueOf([k \in 1 .. 15 |-> Color(modules, SecondFormatModule(n, 15 - k))])
MaskRead(modules, n) ==
  CHOOSE k \in 0 .. 7 : FormatWord(LevelM, k) = SecondFormat(modules, n)

Inverted(k, i, j) ==
  LET six == (i * j) % 6
  IN CASE k = 0 -> (i + j) % 2 = 0
       [] k = 1 -> i % 2 = 0
       [] k = 2 -> j % 3 = 0
       [] k = 3 -> (i + j) % 3 = 0
       [] k = 4 -> (i \div 2 + j \div 3) % 2 = 0
       [] k = 5 -> six = 0
       [] k = 6 -> six <= 2
       [] k = 7 -> (i + j) % 2 = 0 <=> six % 3 # 1

-----------------------------------------------------------------------------
(* The codewords *)

Centres(n) ==
  (AP[Version(n)] \X AP[Version(n)]) \ {<<6, 6>>, <<6, n - 7>>, <<n - 7, 6>>}

IsFunction(n, centres, i, j) ==
  \/ i = 6 \/ j = 6
  \/ i <= 8 /\ j <= 8
  \/ i <= 8 /\ j >= n - 8
  \/ i >= n - 8 /\ j <= 8
  \/ n >= 45 /\ i <= 5 /\ j \in n - 11 .. n - 9    \* the version, twice
  \/ n >= 45 /\ j <= 5 /\ i \in n - 11 .. n - 9
  \/ \E c \in centres : i \in c[1] - 2 .. c[1] + 2 /\ j \in c[2] - 2 .. c[2] + 2

\* When the scanner comes to the module in row i and column j.
Rank(n, i, j) ==
  LET left == IF j > 6 THEN n - 1 - j ELSE n - 2 - j
      pair == left \div 2
  IN 2 * (n * pair + (IF pair % 2 = 0 THEN n - 1 - i ELSE i)) + (left % 2)

\* The modules that hold data, and how many of them the scanner has seen with m.
DataModules(n) ==
  LET centres == Centres(n)
  IN {m \in Grid(n) : ~ IsFunction(n, centres, m[1], m[2])}
PlaceOf(m, data, n) ==
  Cardinality({f \in data : Rank(n, f[1], f[2]) <= Rank(n, m[1], m[2])})

Codewords(modules, n) ==
  LET k == MaskRead(modules, n)
      data == DataModules(n)
      all == [p \in 1 .. n * n |-> <<(p - 1) \div n, (p - 1) % n>>]
      free == SelectSeq(all, LAMBDA m : m \in data)
      ranked == SortSeq(free, LAMBDA a, b : Rank(n, a[1], a[2]) < Rank(n, b[1], b[2]))
      bits == [p \in DOMAIN ranked |->
                 IF Inverted(k, ranked[p][1], ranked[p][2])
                   THEN 1 - Color(modules, ranked[p])
                   ELSE Color(modules, ranked[p])]
  IN [w \in 1 .. Len(bits) \div 8 |-> ByteAt(bits, w)]

\* Data and correction of block b, out of the interleaved codewords.
Block(words, v, b) ==
  LET sizes == EC_M[v].sizes
      data == SumOf(sizes)
      Before(i) == SumOf([c \in DOMAIN sizes |-> Smaller(sizes[c], i - 1)])
      Beside(i) == Cardinality({c \in 1 .. b - 1 : sizes[c] >= i})
  IN [i \in 1 .. sizes[b] |-> words[Before(i) + Beside(i) + 1]]
       \o [i \in 1 .. EC_M[v].ecPerBlock |-> words[data + Len(sizes) * (i - 1) + b]]

Text(bits) ==
  LET length == ValueOf(SubSeq(bits, 5, 13))
      Pair(k) == ValueOf(SubSeq(bits, 3 + 11 * k, 13 + 11 * k))
      Value(i) ==
        CASE i % 2 = 0 -> Pair(i \div 2) % 45
          [] i % 2 = 1 /\ i < length -> Pair((i + 1) \div 2) \div 45
          [] OTHER -> ValueOf(SubSeq(bits, 3 + 11 * ((i + 1) \div 2),
                                           8 + 11 * ((i + 1) \div 2)))
  IN [i \in 1 .. length |-> Characters[Value(i) + 1]]

TextRead(modules, n) ==
  LET v == Version(n)
      words == Codewords(modules, n)
      data == FlattenSeq([b \in DOMAIN EC_M[v].sizes |->
                            SubSeq(Block(words, v, b), 1, EC_M[v].sizes[b])])
      bits == BitsOf(data)
  IN IF SubSeq(bits, 1, 4) = <<0, 0, 1, 0>> THEN Text(bits) ELSE <<>>

-----------------------------------------------------------------------------
(* The pictures by which the scanner finds and measures the symbol *)

FinderPicture ==
  << <<1, 1, 1, 1, 1, 1, 1>>,
     <<1, 0, 0, 0, 0, 0, 1>>,
     <<1, 0, 1, 1, 1, 0, 1>>,
     <<1, 0, 1, 1, 1, 0, 1>>,
     <<1, 0, 1, 1, 1, 0, 1>>,
     <<1, 0, 0, 0, 0, 0, 1>>,
     <<1, 1, 1, 1, 1, 1, 1>> >>
AlignmentPicture ==
  << <<1, 1, 1, 1, 1>>,
     <<1, 0, 0, 0, 1>>,
     <<1, 0, 1, 0, 1>>,
     <<1, 0, 0, 0, 1>>,
     <<1, 1, 1, 1, 1>> >>

\* The picture with its upper left corner in row i and column j.
Shows(modules, picture, i, j) ==
  \A r, c \in DOMAIN picture :
    Color(modules, <<i + r - 1, j + c - 1>>) = picture[r][c]

-----------------------------------------------------------------------------
\* The phone connects to the address that the receiver shows: what a scanner
\* reads out of the finished matrix is the text, for texts of even and odd
\* length, up to the limit of a version and over it, and for several blocks.
ScannerReadsText ==
  stage = "done" => TextRead(best, Size(ver)) = text

\* A damaged picture can be repaired: every block of the finished matrix, data
\* and correction, is a codeword, zero at all roots of the generator (rsEc and
\* the interleaving; no reading of an undamaged picture notices a wrong one).
BlocksAreCodewords ==
  stage = "done" =>
    LET words == Codewords(best, Size(ver))
        roots == Roots(EC_M[ver].ecPerBlock)
    IN \A b \in DOMAIN EC_M[ver].sizes :
         \A i \in DOMAIN roots : ValueAt(Block(words, ver, b), roots[i]) = 0

\* Every bit of the codewords arrives at the scanner: of the modules that it
\* takes for data, the one it comes to as the nth shows the nth bit, under the
\* mask that the second copy of the format names, and light beyond the last bit
\* (`func', the scan of PlaceData, maskCondition and placeFmt).
ScannerReadsBits ==
  stage = "done" =>
    LET n == Size(ver)
        bits == BitsOf(interleaved)
        data == DataModules(n)
        Sent(m) == /\ PlaceOf(m, data, n) <= Len(bits)
                   /\ bits[PlaceOf(m, data, n)] = 1
    IN \E k \in 0 .. 7 :
         /\ \A i \in 0 .. 14 :
              SecondFormatModule(n, i) \in best <=> FormatBit(FMT_M[k + 1], i)
         /\ \A m \in data :
              Inverted(k, m[1], m[2]) <=> ~ (m \in best <=> Sent(m))

\* Data, masks and format leave the patterns alone by which a scanner finds the
\* picture: the three finders with their light borders, the alternating timing
\* lines, the alignment patterns and the dark module.
FunctionPatternsStand ==
  stage = "done" =>
    LET n == Size(ver)
    IN /\ \A c \in {<<0, 0>>, <<0, n - 7>>, <<n - 7, 0>>} :
            Shows(best, FinderPicture, c[1], c[2])
       /\ \A k \in 0 .. 7 :
            {<<7, k>>, <<k, 7>>, <<7, n - 8 + k>>, <<k, n - 8>>,
             <<n - 8 + k, 7>>, <<n - 8, k>>} \cap best = {}
       /\ \A k \in 8 .. n - 9 :
            Color(best, <<6, k>>) = (k + 1) % 2 /\ Color(best, <<k, 6>>) = (k + 1) % 2
       /\ \A c \in Centres(n) : Shows(best, AlignmentPicture, c[1] - 2, c[2] - 2)
       /\ <<4 * ver + 9, 8>> \in best

\* Of the eight masks the one that is easiest to scan is kept: the finished
\* matrix is the first candidate of the lowest penalty.
CheapestMaskWins ==
  stage = "done" =>
    LET Score(k) == penaltyScore(Candidate(k), Size(ver))
    IN \E k \in 0 .. 7 :
         /\ best = Candidate(k)
         /\ \A j \in 0 .. 7 : Score(k) <= Score(j)
         /\ \A j \in 0 .. k - 1 : Score(k) < Score(j)

\* "Place format information bits in both canonical positions" (QrCode.h:150):
\* the two copies carry the same word.
FormatCopiesAgree ==
  stage = "done" =>
    \A i \in 0 .. 14 :
      Color(best, FirstFormatModule(i))
        = Color(best, SecondFormatModule(Size(ver), i))
=============================================================================
