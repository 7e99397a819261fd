--------------------------- MODULE QrReaderProofs ---------------------------
(***************************************************************************)
(* Theorems about QrReader, for every set of texts.                        *)
(***************************************************************************)
EXTENDS QrReader, FiniteSetTheorems, TLAPS

-----------------------------------------------------------------------------
(* The penalty of a candidate *)

\* The sections of the rows and the columns of a symbol.
Sheet(n) == (1 .. 2 * n) \X (1 .. n)

LEMMA SquareBound ==
  ASSUME NEW n \in Nat, 1 <= n, n <= 57
  PROVE  n * n \in Nat /\ 1 <= n * n /\ n * n <= 3249
<1>1. n * n \in Nat /\ 1 <= n * n
  BY SMT
<1>2. n * n <= 57 * n
  BY SMT
<1>. QED
  BY <1>1, <1>2, SMT

LEMMA SheetCounts ==
  ASSUME NEW n \in Nat, 1 <= n, n <= 57, NEW S \in SUBSET Sheet(n)
  PROVE  Cardinality(S) \in Nat /\ Cardinality(S) <= 6498
<1>1. /\ IsFiniteSet(1 .. 2 * n) /\ Cardinality(1 .. 2 * n) = 2 * n
      /\ IsFiniteSet(1 .. n) /\ Cardinality(1 .. n) = n
  BY FS_Interval
<1>2. IsFiniteSet(Sheet(n)) /\ Cardinality(Sheet(n)) = (2 * n) * n
  BY <1>1, FS_Product DEF Sheet
<1>3. IsFiniteSet(S) /\ Cardinality(S) <= Cardinality(Sheet(n))
  BY <1>2, FS_Subset
<1>4. Cardinality(S) \in Nat
  BY <1>3, FS_CardinalityType
<1>5. (2 * n) * n \in Nat /\ (2 * n) * n <= 6498
  BY SquareBound, SMT
<1>. QED
  BY <1>2, <1>3, <1>4, <1>5

LEMMA GridCounts ==
  ASSUME NEW n \in Nat, 1 <= n, n <= 57, NEW S \in SUBSET Grid(n)
  PROVE  Cardinality(S) \in Nat /\ Cardinality(S) <= 3249
<1>1. IsFiniteSet(0 .. n - 1) /\ Cardinality(0 .. n - 1) = n
  BY FS_Interval
<1>2. IsFiniteSet(Grid(n)) /\ Cardinality(Grid(n)) = n * n
  BY <1>1, FS_Product DEF Grid
<1>3. IsFiniteSet(S) /\ Cardinality(S) <= Cardinality(Grid(n))
  BY <1>2, FS_Subset
<1>4. Cardinality(S) \in Nat
  BY <1>3, FS_CardinalityType
<1>. QED
  BY <1>2, <1>3, <1>4, SquareBound

LEMMA QuotientBound ==
  ASSUME NEW a \in Nat, NEW b \in Nat, 1 <= b
  PROVE  a \div b \in Nat /\ a \div b <= a
BY SMTT(20)

\* The four rules together stay far below INT_MAX, with which bestPen begins.
LEMMA PenaltyBound ==
  ASSUME NEW n \in Nat, 11 <= n, n <= 57, NEW modules \in SUBSET Grid(n)
  PROVE  penaltyScore(modules, n) \in Nat /\ penaltyScore(modules, n) < INT_MAX
<1>. DEFINE rows == Rows(modules, n)
            lines == Lines(modules, n)
            fives == Fives(lines, n)
            f == Cardinality(fives)
            ff == Cardinality(FirstFives(fives))
            s == Cardinality(Squares(rows, n))
            l == Cardinality(FinderLike(lines, n))
            i == Imbalance(modules, n)
<1>1. fives \subseteq Sheet(n) /\ FinderLike(lines, n) \subseteq Sheet(n)
  BY DEF Fives, FinderLike, Places, Sheet
<1>2. FirstFives(fives) \subseteq Sheet(n)
  BY <1>1 DEF FirstFives
<1>3. Squares(rows, n) \subseteq Sheet(n)
  BY DEF Squares, Sheet
<1>4. /\ f \in Nat /\ f <= 6498 /\ ff \in Nat /\ ff <= 6498
      /\ s \in Nat /\ s <= 6498 /\ l \in Nat /\ l <= 6498
  BY <1>1, <1>2, <1>3, SheetCounts
<1>5. i \in Nat /\ i <= 70000
  <2>. DEFINE c == Cardinality(modules)
              q == n * n
              pct == (100 * c) \div q
  <2>1. q \in Nat /\ 1 <= q
    BY SquareBound
  <2>2. c \in Nat /\ c <= 3249
    BY GridCounts
  <2>3. i = Magnitude(pct - 50) \div 5
    BY DEF Imbalance
  <2>. HIDE DEF c, q
  <2>4. pct \in Nat /\ pct <= 100 * c
    BY <2>1, <2>2, QuotientBound
  <2>. HIDE DEF pct, i
  <2>. QED
    BY <2>2, <2>3, <2>4, SMT DEF Magnitude
<1>6. penaltyScore(modules, n) = f + 2 * ff + 3 * s + 40 * l + 10 * i
  BY DEF penaltyScore
<1>. HIDE DEF f, ff, s, l, i
<1>. QED
  BY <1>4, <1>5, <1>6 DEF INT_MAX

-----------------------------------------------------------------------------
(* Everything is drawn inside the symbol. *)

LEMMA SizeBound ==
  ASSUME NEW v \in 1 .. 10
  PROVE  /\ Size(v) \in Nat /\ 21 <= Size(v) /\ Size(v) <= 57
         /\ Size(v) % 2 = 1
BY DEF Size

LEMMA PatternsInGrid ==
  ASSUME NEW v \in 1 .. 10
  PROVE  /\ \A c : FinderDark(Size(v), c) \subseteq Grid(Size(v))
         /\ \A c : AlignmentDark(Size(v), c) \subseteq Grid(Size(v))
         /\ Timing(Size(v)) \subseteq Grid(Size(v))
         /\ DarkModule(Size(v)) \in Grid(Size(v))
<1>. DEFINE n == Size(v)
<1>1. n \in Nat /\ 21 <= n
  BY SizeBound
<1>. HIDE DEF n
<1>2. Timing(n) \subseteq Grid(n)
  BY <1>1 DEF Timing, Grid
<1>3. DarkModule(n) \in Grid(n)
  BY <1>1 DEF DarkModule, Grid
<1>4. /\ \A c : FinderDark(n, c) \subseteq Grid(n)
      /\ \A c : AlignmentDark(n, c) \subseteq Grid(n)
  BY DEF FinderDark, AlignmentDark
<1>. QED
  BY <1>2, <1>3, <1>4 DEF n

LEMMA FormatInGrid ==
  ASSUME NEW v \in 1 .. 10
  PROVE  /\ DOMAIN FormatCopy1 = 1 .. 15
         /\ DOMAIN FormatCopy2(Size(v)) = 1 .. 15
         /\ \A i \in 1 .. 15 : /\ FormatCopy1[i] \in Grid(Size(v))
                               /\ FormatCopy2(Size(v))[i] \in Grid(Size(v))
         /\ FormatModules(Size(v)) \subseteq Grid(Size(v))
<1>. DEFINE n == Size(v)
<1>1. n \in Nat /\ 21 <= n
  BY SizeBound
<1>. HIDE DEF n
<1>2. DOMAIN FormatCopy1 = 1 .. 15 /\ DOMAIN FormatCopy2(n) = 1 .. 15
  BY DEF FormatCopy1, FormatCopy2
<1>3. ASSUME NEW i \in 1 .. 15
      PROVE  FormatCopy1[i] \in Grid(n) /\ FormatCopy2(n)[i] \in Grid(n)
  <2>1. FormatCopy1[i] \in Grid(n)
    BY <1>1 DEF FormatCopy1, Grid
  <2>2. FormatCopy2(n)[i] = IF i <= 8 THEN <<8, n - i>> ELSE <<n - 16 + i, 8>>
    BY DEF FormatCopy2
  <2>3. FormatCopy2(n)[i] \in Grid(n)
    BY <1>1, <2>2 DEF Grid
  <2>. QED
    BY <2>1, <2>3
<1>4. FormatModules(n) \subseteq Grid(n)
  BY <1>2, <1>3, PatternsInGrid DEF FormatModules, ToSet, n
<1>. QED
  BY <1>2, <1>3, <1>4 DEF n

\* The scan never leaves the symbol, and the timing column takes one column
\* away from it.
LEMMA ZigzagInGrid ==
  ASSUME NEW v \in 1 .. 10, NEW k \in DOMAIN Zigzag(Size(v))
  PROVE  Zigzag(Size(v))[k] \in Grid(Size(v))
<1>. DEFINE n == Size(v)
            pair == (k - 1) \div (2 * n)
            rest == (k - 1) % (2 * n)
            right == n - 1 - 2 * pair
            row == IF pair % 2 = 0 THEN n - 1 - rest \div 2 ELSE rest \div 2
            column == (IF right <= 6 THEN right - 1 ELSE right) - ((k - 1) % 2)
<1>1. n \in Nat /\ 21 <= n /\ n % 2 = 1
  BY SizeBound
<1>2. k \in 1 .. n * (n - 1) /\ Zigzag(n)[k] = <<row, column>>
  BY DEF Zigzag
<1>3. pair \in Nat /\ rest \in Nat /\ rest < 2 * n /\ k - 1 = (2 * n) * pair + rest
  BY <1>1, <1>2, SMTT(20)
<1>. HIDE DEF n, pair, rest
<1>4. 2 * pair < n - 1
  <2>1. SUFFICES ASSUME n - 1 <= 2 * pair PROVE FALSE
    BY <1>1, <1>3
  <2>2. n * (n - 1) <= n * (2 * pair)
    BY <1>1, <1>3, <2>1, SMTT(20)
  <2>3. (2 * n) * pair = n * (2 * pair) /\ n * (n - 1) \in Int /\ n * (2 * pair) \in Int
    BY <1>1, <1>3, SMTT(20)
  <2>. QED
    BY <1>2, <1>3, <2>2, <2>3
<1>5. row \in 0 .. n - 1
  BY <1>1, <1>3
<1>6. column \in 0 .. n - 1
  BY <1>1, <1>2, <1>3, <1>4
<1>. QED
  BY <1>2, <1>5, <1>6 DEF Grid, n

LEMMA UniqueQuotient ==
  ASSUME NEW d \in Nat, NEW q \in Nat, NEW r \in Nat, r < d
  PROVE  (d * q + r) \div d = q /\ (d * q + r) % d = r
<1>. DEFINE a == d * q + r
            p == a \div d
            s == a % d
<1>1. a \in Nat /\ p \in Nat /\ s \in Nat /\ s < d /\ a = d * p + s
  BY SMTT(20)
<1>2. d * q + r = d * p + s
  BY <1>1
<1>. HIDE DEF a, p, s
<1>3. ~ q < p
  <2>1. SUFFICES ASSUME q + 1 <= p PROVE FALSE
    BY <1>1
  <2>2. d * (q + 1) <= d * p /\ d * (q + 1) = d * q + d
    BY <1>1, <2>1, SMTT(20)
  <2>. QED
    BY <1>1, <1>2, <2>2
<1>4. ~ p < q
  <2>1. SUFFICES ASSUME p + 1 <= q PROVE FALSE
    BY <1>1
  <2>2. d * (p + 1) <= d * q /\ d * (p + 1) = d * p + d
    BY <1>1, <2>1, SMTT(20)
  <2>. QED
    BY <1>1, <1>2, <2>2
<1>5. p = q
  BY <1>1, <1>3, <1>4
<1>6. s = r
  BY <1>1, <1>2, <1>5
<1>. QED
  BY <1>5, <1>6 DEF a, p, s

\* encode() and the scanner go through the modules in the same order, and none
\* but those of the timing column is left out.
LEMMA ScanOrder ==
  ASSUME NEW v \in 1 .. 10, NEW k \in DOMAIN Zigzag(Size(v))
  PROVE  LET m == Zigzag(Size(v))[k]
         IN Rank(Size(v), m[1], m[2]) = k - 1 /\ m[2] # 6
<1>. DEFINE n == Size(v)
            pair == (k - 1) \div (2 * n)
            rest == (k - 1) % (2 * n)
            side == (k - 1) % 2
            right == n - 1 - 2 * pair
            row == IF pair % 2 = 0 THEN n - 1 - rest \div 2 ELSE rest \div 2
            column == (IF right <= 6 THEN right - 1 ELSE right) - side
            left == IF column > 6 THEN n - 1 - column ELSE n - 2 - column
<1>1. n \in Nat /\ 21 <= n /\ n % 2 = 1
  BY SizeBound
<1>2. k \in 1 .. n * (n - 1) /\ Zigzag(n)[k] = <<row, column>>
  BY DEF Zigzag
<1>3. /\ pair \in Nat /\ rest \in Nat /\ rest < 2 * n
      /\ k - 1 = (2 * n) * pair + rest
  BY <1>1, <1>2, SMTT(20)
<1>4. (2 * n) * pair = 2 * (n * pair) /\ n * pair \in Nat
  BY <1>1, <1>3, SMTT(20)
<1>. HIDE DEF n, pair, rest
<1>5. side = rest % 2 /\ side \in {0, 1}
  <2>. DEFINE q == n * pair
  <2>1. q \in Nat /\ k - 1 = 2 * q + rest
    BY <1>3, <1>4
  <2>. HIDE DEF q
  <2>. QED
    BY <1>3, <2>1
<1>. HIDE DEF side
<1>6. left = 2 * pair + side /\ column # 6
  BY <1>1, <1>3, <1>5
<1>. HIDE DEF left
<1>7. left \div 2 = pair /\ left % 2 = side
  BY <1>3, <1>5, <1>6
<1>8. (IF pair % 2 = 0 THEN n - 1 - row ELSE row) = rest \div 2
  BY <1>1, <1>3
<1>9. Rank(n, row, column) = 2 * (n * pair + rest \div 2) + side
  BY <1>7, <1>8 DEF Rank, left
<1>10. 2 * (n * pair + rest \div 2) + side = k - 1
  BY <1>3, <1>4, <1>5
<1>. HIDE DEF row, column
<1>. QED
  BY <1>2, <1>6, <1>9, <1>10 DEF n

LEMMA ScanComplete ==
  ASSUME NEW v \in 1 .. 10, NEW m \in Grid(Size(v)), m[2] # 6
  PROVE  LET k == Rank(Size(v), m[1], m[2]) + 1
         IN k \in DOMAIN Zigzag(Size(v)) /\ Zigzag(Size(v))[k] = m
<1>. DEFINE n == Size(v)
            i == m[1]
            j == m[2]
            left == IF j > 6 THEN n - 1 - j ELSE n - 2 - j
            pair == left \div 2
            side == left % 2
            down == IF pair % 2 = 0 THEN n - 1 - i ELSE i
            rest == 2 * down + side
            k == (2 * n) * pair + rest + 1
            right == n - 1 - 2 * pair
<1>1. n \in Nat /\ 21 <= n /\ n % 2 = 1
  BY SizeBound
<1>2. i \in 0 .. n - 1 /\ j \in 0 .. n - 1 /\ m = <<i, j>> /\ j # 6
  BY DEF Grid
<1>. HIDE DEF n, i, j
<1>3. /\ left \in Nat /\ left <= n - 2 /\ pair \in Nat /\ side \in {0, 1}
      /\ left = 2 * pair + side
  BY <1>1, <1>2
<1>. HIDE DEF pair, side
<1>4. down \in 0 .. n - 1
  BY <1>1, <1>2, <1>3
<1>. HIDE DEF down
<1>5. rest \in Nat /\ rest < 2 * n /\ rest \div 2 = down /\ rest % 2 = side
  BY <1>1, <1>3, <1>4
<1>. HIDE DEF rest
<1>6. (2 * n) * pair = 2 * (n * pair) /\ n * pair \in Nat
  BY <1>1, <1>3, SMTT(20)
<1>7. Rank(n, i, j) + 1 = k
  BY <1>1, <1>3, <1>4, <1>5, <1>6 DEF Rank, pair, side, down, rest
<1>8. (k - 1) \div (2 * n) = pair /\ (k - 1) % (2 * n) = rest
  <2>1. 2 * n \in Nat
    BY <1>1
  <2>2. k - 1 = (2 * n) * pair + rest
    BY <1>3, <1>5, <1>6
  <2>. QED
    BY <1>3, <1>5, <2>1, <2>2, UniqueQuotient
<1>9. (k - 1) % 2 = side
  BY <1>5, <1>6
<1>10. k \in 1 .. n * (n - 1)
  <2>1. 2 * pair <= n - 3
    BY <1>1, <1>3
  <2>2. n * (2 * pair) <= n * (n - 3) /\ n * (2 * pair) = 2 * (n * pair)
    BY <1>1, <1>3, <2>1, SMTT(20)
  <2>3. n * (n - 1) = n * (n - 3) + 2 * n /\ n * (n - 3) \in Int
    BY <1>1, SMTT(20)
  <2>. QED
    BY <1>1, <1>5, <1>6, <2>2, <2>3
<1>11. (IF right <= 6 THEN right - 1 ELSE right) - side = j
  BY <1>1, <1>2, <1>3
<1>12. (IF pair % 2 = 0 THEN n - 1 - down ELSE down) = i
  BY <1>1, <1>2, <1>3 DEF down
<1>. HIDE DEF k
<1>13. Zigzag(n)[k] = <<i, j>> /\ k \in DOMAIN Zigzag(n)
  BY <1>5, <1>8, <1>9, <1>10, <1>11, <1>12 DEF Zigzag
<1>. QED
  BY <1>2, <1>7, <1>13 DEF n, i, j

LEMMA CandidateInGrid ==
  ASSUME ver \in 1 .. 10, dark \subseteq Grid(Size(ver)), NEW k
  PROVE  Candidate(k) \subseteq Grid(Size(ver))
<1>. DEFINE n == Size(ver)
<1>1. Masked(dark, func, n, k) \subseteq Grid(n)
  BY DEF Masked, SymDiff
<1>2. /\ DarkModule(n) \in Grid(n)
      /\ \A i \in 0 .. 14 : FormatCopy1[i + 1] \in Grid(n)
                            /\ FormatCopy2(n)[i + 1] \in Grid(n)
  BY PatternsInGrid, FormatInGrid
<1>. HIDE DEF n
<1>3. ASSUME NEW modules \in SUBSET Grid(n), NEW fmt
      PROVE  placeFmt(modules, n, fmt) \subseteq Grid(n)
  BY <1>2 DEF placeFmt
<1>. QED
  BY <1>1, <1>3 DEF Candidate, n

-----------------------------------------------------------------------------
(* The stages of encode() *)

Undrawn == {"version", "bits", "ec", "finders"}
Drawing == {"timing", "alignment", "format", "place"}
Masking == {"masks", "done"}

\* What is known of the variables at every stage.
Staged ==
  /\ text \in Seq(STRING)
  /\ stage \in {"idle", "thrown"} \cup Undrawn \cup Drawing \cup Masking
  /\ stage \notin {"idle", "version", "thrown"} =>
       ver \in 1 .. 10 /\ Len(text) <= ALPHA_MAX[ver]
                       /\ \A v \in 1 .. 10 : Len(text) <= ALPHA_MAX[v] => ver <= v
  /\ stage \in {"idle", "thrown"} \cup Undrawn => dark = {} /\ func = {}
  /\ stage \in Drawing \cup Masking => dark \subseteq Grid(Size(ver))
  /\ stage \notin Masking => mask = 0 /\ bestPen = INT_MAX
  /\ stage = "masks" => mask \in 0 .. 7
  /\ stage = "done" => mask = 8

LEMMA SmallestVersion ==
  ASSUME text \in Seq(STRING), Fitting # {}
  PROVE  /\ Min(Fitting) \in 1 .. 10 /\ Len(text) <= ALPHA_MAX[Min(Fitting)]
         /\ \A v \in 1 .. 10 : Len(text) <= ALPHA_MAX[v] => Min(Fitting) <= v
<1>1. \E x \in Fitting : \A y \in Fitting : x <= y
  <2>1. \A x \in Fitting : x \in 1 .. 10
    BY DEF Fitting
  <2>. HIDE DEF Fitting
  <2>. QED
    BY <2>1
<1>2. Min(Fitting) \in Fitting /\ \A y \in Fitting : Min(Fitting) <= y
  BY <1>1 DEF Min
<1>. QED
  BY <1>2 DEF Fitting

LEMMA StagedInit == Init => Staged
BY DEF Init, Staged, Undrawn, Drawing, Masking

LEMMA StagedStages ==
  ASSUME Staged, Stages
  PROVE  Staged'
<1>. DEFINE n == Size(ver)
<1>. USE DEF Staged, Undrawn, Drawing, Masking, StageGoto
<1>1. ASSUME NEW t \in Texts, Call(t)
      PROVE  Staged'
  BY <1>1, TextAssumption DEF Call
<1>2. CASE SelectVersion
  BY <1>2, SmallestVersion DEF SelectVersion
<1>3. CASE TextTooLong \/ UnsupportedChar \/ BuildBits \/ AddErrorCorrection
  BY <1>3 DEF TextTooLong, UnsupportedChar, BuildBits, AddErrorCorrection
<1>4. CASE DrawFinders
  BY <1>4, PatternsInGrid DEF DrawFinders, Draw
<1>5. CASE DrawTiming
  BY <1>5, PatternsInGrid DEF DrawTiming, Draw
<1>6. CASE DrawAlignment
  BY <1>6, PatternsInGrid DEF DrawAlignment, Draw
<1>7. CASE ReserveFormat
  BY <1>7, PatternsInGrid DEF ReserveFormat, Draw
<1>8. CASE PlaceData
  <2>1. /\ ver \in 1 .. 10 /\ dark \subseteq Grid(n)
        /\ stage = "place" /\ stage' = "masks"
        /\ UNCHANGED <<text, ver, func, mask, bestPen>>
    BY <1>8 DEF PlaceData
  <2>2. dark' \subseteq Grid(n)
    BY <1>8, <2>1, ZigzagInGrid DEF PlaceData
  <2>. QED
    BY <2>1, <2>2
<1>9. CASE TryMask
  BY <1>9 DEF TryMask, NextMask
<1>10. CASE Return
  BY <1>10 DEF Return
<1>. QED
  BY <1>1, <1>2, <1>3, <1>4, <1>5, <1>6, <1>7, <1>8, <1>9, <1>10 DEF Stages

LEMMA StagedNext == Staged /\ [Next]_vars => Staged'
<1>1. ASSUME Staged, FillTables \/ UNCHANGED vars
      PROVE  Staged'
  BY <1>1 DEF Staged, FillTables, vars, callVars
<1>. QED
  BY <1>1, StagedStages DEF Next

\* At every stage encode() draws inside the symbol of the smallest version that
\* takes the text (the loop over ALPHA_MAX), and bestPen is INT_MAX until the
\* first mask is tried.
THEOREM StagedAlways == Spec => []Staged
BY StagedInit, StagedNext, PTL DEF Spec

-----------------------------------------------------------------------------
(* The choice of the mask *)

Score(k) == penaltyScore(Candidate(k), Size(ver))

LEMMA ScoreBound ==
  ASSUME Staged, stage \in Masking, NEW k
  PROVE  Score(k) \in Nat /\ Score(k) < INT_MAX
<1>1. ver \in 1 .. 10 /\ dark \subseteq Grid(Size(ver))
  BY DEF Staged, Masking
<1>. QED
  BY <1>1, SizeBound, CandidateInGrid, PenaltyBound DEF Score

\* Of the masks tried so far the first with the lowest penalty is kept.
CheapestSoFar ==
  \E k \in 0 .. mask - 1 :
    /\ best = Candidate(k) /\ bestPen = Score(k)
    /\ \A j \in 0 .. mask - 1 : Score(k) <= Score(j)
    /\ \A j \in 0 .. k - 1 : Score(k) < Score(j)

MaskInv ==
  stage \in Masking => IF mask = 0 THEN bestPen = INT_MAX ELSE CheapestSoFar

LEMMA MaskTried ==
  ASSUME Staged, MaskInv, TryMask
  PROVE  MaskInv'
<1>. DEFINE s == Score(mask)
<1>1. /\ stage = "masks" /\ mask \in 0 .. 7 /\ mask' = mask + 1
      /\ UNCHANGED <<ver, dark, func>>
  BY DEF TryMask, NextMask, StageGoto, Staged
<1>2. \A k : Score(k) \in Nat /\ Score(k) < INT_MAX
  BY <1>1, ScoreBound DEF Masking
<1>3. \A k : Candidate(k)' = Candidate(k) /\ Score(k)' = Score(k)
  BY <1>1 DEF Candidate, Score
<1>4. /\ bestPen' = IF s < bestPen THEN s ELSE bestPen
      /\ best' = IF bestPen' < bestPen THEN Candidate(mask) ELSE best
  BY DEF TryMask, Smaller, Score
<1>5. CheapestSoFar'
  <2>. SUFFICES
         \E k \in 0 .. mask :
           /\ best' = Candidate(k) /\ bestPen' = Score(k)
           /\ \A j \in 0 .. mask : Score(k) <= Score(j)
           /\ \A j \in 0 .. k - 1 : Score(k) < Score(j)
    BY <1>1, <1>3 DEF CheapestSoFar
  <2>1. CASE mask = 0
    <3>1. bestPen = INT_MAX
      BY <1>1, <2>1 DEF MaskInv, Masking
    <3>2. best' = Candidate(0) /\ bestPen' = Score(0)
      BY <1>2, <1>4, <2>1, <3>1 DEF INT_MAX
    <3>. QED
      BY <1>2, <2>1, <3>2
  <2>2. CASE mask # 0
    <3>1. PICK k \in 0 .. mask - 1 :
            /\ best = Candidate(k) /\ bestPen = Score(k)
            /\ \A j \in 0 .. mask - 1 : Score(k) <= Score(j)
            /\ \A j \in 0 .. k - 1 : Score(k) < Score(j)
      BY <1>1, <2>2 DEF MaskInv, Masking, CheapestSoFar
    <3>2. CASE s < bestPen
      <4>1. best' = Candidate(mask) /\ bestPen' = Score(mask)
        BY <1>4, <3>2
      <4>2. \A j \in 0 .. mask - 1 : Score(mask) < Score(j)
        BY <1>2, <3>1, <3>2
      <4>. QED
        BY <1>1, <1>2, <4>1, <4>2
    <3>3. CASE ~ (s < bestPen)
      <4>1. best' = Candidate(k) /\ bestPen' = Score(k) /\ Score(k) <= Score(mask)
        BY <1>2, <1>4, <3>1, <3>3
      <4>. QED
        BY <1>1, <3>1, <4>1
    <3>. QED
      BY <3>2, <3>3
  <2>. QED
    BY <2>1, <2>2
<1>. QED
  BY <1>1, <1>5 DEF MaskInv

LEMMA MaskNext == Staged /\ MaskInv /\ [Next]_vars => MaskInv'
<1>. SUFFICES ASSUME Staged, MaskInv, [Next]_vars
              PROVE  MaskInv'
  OBVIOUS
<1>1. CASE TryMask
  BY <1>1, MaskTried
<1>2. CASE PlaceData
  BY <1>2 DEF PlaceData, StageGoto, Staged, Masking, MaskInv
<1>3. CASE UNCHANGED callVars
  BY <1>3 DEF callVars, MaskInv, CheapestSoFar, Score, Candidate
<1>4. CASE Stages /\ ~ TryMask /\ ~ PlaceData
  <2>1. stage' \notin Masking
    BY <1>4 DEF Stages, Call, SelectVersion, TextTooLong, UnsupportedChar, BuildBits,
       AddErrorCorrection, DrawFinders, DrawTiming, DrawAlignment,
       ReserveFormat, Return, StageGoto, Masking
  <2>. QED
    BY <2>1 DEF MaskInv
<1>. QED
  BY <1>1, <1>2, <1>3, <1>4 DEF Next, FillTables, vars

LEMMA MaskInvAlways == Spec => []MaskInv
<1>1. Init => MaskInv
  BY DEF Init, MaskInv, Masking
<1>. QED
  BY <1>1, MaskNext, StagedAlways, PTL DEF Spec

\* For every text: the finished matrix is the first candidate of the lowest
\* penalty (the last step of encode(), which keeps bestMat and bestPen).
THEOREM CheapestMaskIsKept == Spec => []CheapestMaskWins
<1>1. Staged /\ MaskInv => CheapestMaskWins
  BY DEF Staged, MaskInv, Masking, CheapestSoFar, CheapestMaskWins, Score
<1>. QED
  BY <1>1, StagedAlways, MaskInvAlways, PTL

-----------------------------------------------------------------------------
(* The patterns *)

FinderArea(n) == UNION {Finder(n, c) : c \in FinderCentres(n)}
FinderMarks(n) == UNION {FinderDark(n, c) : c \in FinderCentres(n)}
TimingMarks(n) == {m \in Timing(n) : (m[1] + m[2]) % 2 = 0}

\* Up to version 6 there is one alignment pattern, from version 2 on.
AlignmentCentres(v) == IF v = 1 THEN {} ELSE {<<Size(v) - 7, Size(v) - 7>>}
AlignmentArea(v) == UNION {Alignment(Size(v), c) : c \in AlignmentCentres(v)}
AlignmentMarks(v) == UNION {AlignmentDark(Size(v), c) : c \in AlignmentCentres(v)}

Patterns(v) ==
  FinderArea(Size(v)) \cup Timing(Size(v)) \cup AlignmentArea(v)
    \cup {DarkModule(Size(v))}
PatternMarks(v) ==
  FinderMarks(Size(v)) \cup TimingMarks(Size(v)) \cup AlignmentMarks(v)
    \cup {DarkModule(Size(v))}

\* In coordinates: module <<i, j>> is at most d rings away from <<a, b>>.
Within(i, j, a, b, d) ==
  i <= a + d /\ a <= i + d /\ j <= b + d /\ b <= j + d

LEMMA RingWithin ==
  ASSUME NEW i \in Int, NEW j \in Int, NEW a \in Int, NEW b \in Int
  PROVE  /\ Ring(<<i, j>>, <<a, b>>) \in Nat
         /\ \A d \in Nat : Ring(<<i, j>>, <<a, b>>) <= d <=> Within(i, j, a, b, d)
<1>. DEFINE dr == Magnitude(i - a)
            dc == Magnitude(j - b)
<1>1. /\ dr \in Nat /\ \A d \in Nat : dr <= d <=> i <= a + d /\ a <= i + d
      /\ dc \in Nat /\ \A d \in Nat : dc <= d <=> j <= b + d /\ b <= j + d
  BY DEF Magnitude
<1>2. Ring(<<i, j>>, <<a, b>>) = IF dr > dc THEN dr ELSE dc
  BY DEF Ring
<1>. HIDE DEF dr, dc
<1>. QED
  BY <1>1, <1>2 DEF Within

InFinder(i, j, a, b) == Within(i, j, a, b, 4)
OnFinder(i, j, a, b) ==
  Within(i, j, a, b, 1) \/ (Within(i, j, a, b, 3) /\ ~ Within(i, j, a, b, 2))
InAlignment(i, j, a, b) == Within(i, j, a, b, 2)
OnAlignment(i, j, a, b) ==
  Within(i, j, a, b, 0) \/ (Within(i, j, a, b, 2) /\ ~ Within(i, j, a, b, 1))

LEMMA InPattern ==
  ASSUME NEW n \in Nat, NEW i \in 0 .. n - 1, NEW j \in 0 .. n - 1,
         NEW a \in Int, NEW b \in Int
  PROVE  /\ <<i, j>> \in Finder(n, <<a, b>>) <=> InFinder(i, j, a, b)
         /\ <<i, j>> \in FinderDark(n, <<a, b>>) <=> OnFinder(i, j, a, b)
         /\ <<i, j>> \in Alignment(n, <<a, b>>) <=> InAlignment(i, j, a, b)
         /\ <<i, j>> \in AlignmentDark(n, <<a, b>>) <=> OnAlignment(i, j, a, b)
<1>. DEFINE r == Ring(<<i, j>>, <<a, b>>)
<1>1. r \in Nat /\ \A d \in Nat : r <= d <=> Within(i, j, a, b, d)
  <2>1. i \in Int /\ j \in Int
    OBVIOUS
  <2>. QED
    BY <2>1, RingWithin
<1>2. <<i, j>> \in Grid(n)
  BY DEF Grid
<1>3. /\ <<i, j>> \in Finder(n, <<a, b>>) <=> r <= 4
      /\ <<i, j>> \in FinderDark(n, <<a, b>>) <=> r \in {0, 1, 3}
      /\ <<i, j>> \in Alignment(n, <<a, b>>) <=> r <= 2
      /\ <<i, j>> \in AlignmentDark(n, <<a, b>>) <=> r \in {0, 2}
  BY <1>2 DEF Finder, FinderDark, Alignment, AlignmentDark
<1>. HIDE DEF r
<1>. QED
  BY <1>1, <1>3 DEF InFinder, OnFinder, InAlignment, OnAlignment

\* The patterns by their coordinates.
InFinders(n, i, j) ==
  InFinder(i, j, 3, 3) \/ InFinder(i, j, 3, n - 4) \/ InFinder(i, j, n - 4, 3)
OnFinders(n, i, j) ==
  OnFinder(i, j, 3, 3) \/ OnFinder(i, j, 3, n - 4) \/ OnFinder(i, j, n - 4, 3)
InTiming(n, i, j) ==
  (i = 6 /\ 8 <= j /\ j <= n - 9) \/ (j = 6 /\ 8 <= i /\ i <= n - 9)

LEMMA InFinderArea ==
  ASSUME NEW n \in Nat, NEW i \in 0 .. n - 1, NEW j \in 0 .. n - 1
  PROVE  /\ <<i, j>> \in FinderArea(n) <=> InFinders(n, i, j)
         /\ <<i, j>> \in FinderMarks(n) <=> OnFinders(n, i, j)
<1>1. /\ <<i, j>> \in FinderArea(n)
           <=> \E c \in FinderCentres(n) : <<i, j>> \in Finder(n, c)
      /\ <<i, j>> \in FinderMarks(n)
           <=> \E c \in FinderCentres(n) : <<i, j>> \in FinderDark(n, c)
  BY DEF FinderArea, FinderMarks
<1>2. FinderCentres(n) = {<<3, 3>>, <<3, n - 4>>, <<n - 4, 3>>}
  BY DEF FinderCentres
<1>3. \A a, b \in Int :
        /\ <<i, j>> \in Finder(n, <<a, b>>) <=> InFinder(i, j, a, b)
        /\ <<i, j>> \in FinderDark(n, <<a, b>>) <=> OnFinder(i, j, a, b)
  BY InPattern
<1>4. /\ <<i, j>> \in Finder(n, <<3, 3>>) <=> InFinder(i, j, 3, 3)
      /\ <<i, j>> \in Finder(n, <<3, n - 4>>) <=> InFinder(i, j, 3, n - 4)
      /\ <<i, j>> \in Finder(n, <<n - 4, 3>>) <=> InFinder(i, j, n - 4, 3)
      /\ <<i, j>> \in FinderDark(n, <<3, 3>>) <=> OnFinder(i, j, 3, 3)
      /\ <<i, j>> \in FinderDark(n, <<3, n - 4>>) <=> OnFinder(i, j, 3, n - 4)
      /\ <<i, j>> \in FinderDark(n, <<n - 4, 3>>) <=> OnFinder(i, j, n - 4, 3)
  BY <1>3
<1>. QED
  BY <1>1, <1>2, <1>4 DEF InFinders, OnFinders

LEMMA InTimingLines ==
  ASSUME NEW n \in Nat, NEW i \in 0 .. n - 1, NEW j \in 0 .. n - 1
  PROVE  /\ <<i, j>> \in Timing(n) <=> InTiming(n, i, j)
         /\ <<i, j>> \in TimingMarks(n) <=> InTiming(n, i, j) /\ (i + j) % 2 = 0
BY DEF Timing, TimingMarks, InTiming

LEMMA InAlignmentArea ==
  ASSUME NEW v \in 1 .. 6, NEW i \in 0 .. Size(v) - 1, NEW j \in 0 .. Size(v) - 1
  PROVE  LET p == Size(v) - 7
         IN /\ <<i, j>> \in AlignmentArea(v) <=> v # 1 /\ InAlignment(i, j, p, p)
            /\ <<i, j>> \in AlignmentMarks(v) <=> v # 1 /\ OnAlignment(i, j, p, p)
<1>. DEFINE n == Size(v)
            p == n - 7
<1>1. n \in Nat /\ p \in Int
  BY SizeBound
<1>2. /\ <<i, j>> \in Alignment(n, <<p, p>>) <=> InAlignment(i, j, p, p)
      /\ <<i, j>> \in AlignmentDark(n, <<p, p>>) <=> OnAlignment(i, j, p, p)
  BY <1>1, InPattern
<1>3. /\ AlignmentArea(v) = IF v = 1 THEN {} ELSE Alignment(n, <<p, p>>)
      /\ AlignmentMarks(v) = IF v = 1 THEN {} ELSE AlignmentDark(n, <<p, p>>)
  BY DEF AlignmentArea, AlignmentMarks, AlignmentCentres
<1>. HIDE DEF n, p
<1>4. /\ <<i, j>> \in AlignmentArea(v) <=> v # 1 /\ InAlignment(i, j, p, p)
      /\ <<i, j>> \in AlignmentMarks(v) <=> v # 1 /\ OnAlignment(i, j, p, p)
  BY <1>2, <1>3
<1>. QED
  BY <1>4 DEF n, p

LEMMA AlignmentTable ==
  ASSUME NEW v \in 1 .. 6
  PROVE  AP[v] = IF v = 1 THEN {} ELSE {6, Size(v) - 7}
<1>1. /\ AP[1] = {} /\ AP[2] = {6, 18} /\ AP[3] = {6, 22}
      /\ AP[4] = {6, 26} /\ AP[5] = {6, 30} /\ AP[6] = {6, 34}
  BY DEF AP
<1>2. /\ Size(2) = 25 /\ Size(3) = 29 /\ Size(4) = 33 /\ Size(5) = 37
      /\ Size(6) = 41
  BY DEF Size
<1>. QED
  BY <1>1, <1>2

LEMMA CoordinatesInGrid ==
  ASSUME NEW n \in Nat, NEW m \in Grid(n)
  PROVE  /\ m = <<m[1], m[2]>>
         /\ m[1] \in 0 .. n - 1 /\ m[2] \in 0 .. n - 1
BY DEF Grid

\* The finders, the timing lines and the alignment pattern keep apart.
LEMMA PatternsApart ==
  ASSUME NEW v \in 1 .. 6
  PROVE  /\ Timing(Size(v)) \cap FinderArea(Size(v)) = {}
         /\ AlignmentArea(v) \cap FinderArea(Size(v)) = {}
         /\ AlignmentArea(v) \cap Timing(Size(v)) = {}
<1>. DEFINE n == Size(v)
<1>1. n \in Nat /\ 21 <= n /\ (v # 1 => 25 <= n)
  BY DEF Size
<1>2. ASSUME NEW m \in Grid(n)
      PROVE  /\ ~ (m \in Timing(n) /\ m \in FinderArea(n))
             /\ ~ (m \in AlignmentArea(v) /\ m \in FinderArea(n))
             /\ ~ (m \in AlignmentArea(v) /\ m \in Timing(n))
  <2>. DEFINE i == m[1]
              j == m[2]
  <2>1. i \in 0 .. n - 1 /\ j \in 0 .. n - 1 /\ m = <<i, j>>
    BY <1>1, CoordinatesInGrid
  <2>. HIDE DEF i, j
  <2>2. /\ m \in Timing(n) <=> InTiming(n, i, j)
        /\ m \in FinderArea(n) <=> InFinders(n, i, j)
        /\ m \in AlignmentArea(v) <=> v # 1 /\ InAlignment(i, j, n - 7, n - 7)
    BY <1>1, <2>1, InTimingLines, InFinderArea, InAlignmentArea
  <2>. HIDE DEF n
  <2>3. /\ ~ (InTiming(n, i, j) /\ InFinders(n, i, j))
        /\ v # 1 => ~ (InAlignment(i, j, n - 7, n - 7) /\ InFinders(n, i, j))
        /\ v # 1 => ~ (InAlignment(i, j, n - 7, n - 7) /\ InTiming(n, i, j))
    BY <1>1, <2>1 DEF InTiming, InFinders, InFinder, InAlignment, Within
  <2>. QED
    BY <2>2, <2>3
<1>3. Timing(n) \subseteq Grid(n) /\ AlignmentArea(v) \subseteq Grid(n)
  BY PatternsInGrid DEF AlignmentArea, Alignment
<1>. QED
  BY <1>2, <1>3

\* Of the centres only that of the alignment pattern is free.
LEMMA FreeCentres ==
  ASSUME NEW v \in 1 .. 6
  PROVE  (AP[v] \X AP[v]) \ (FinderArea(Size(v)) \cup Timing(Size(v)))
           = AlignmentCentres(v)
<1>. DEFINE n == Size(v)
            p == n - 7
<1>1. CASE v = 1
  BY <1>1, AlignmentTable DEF AlignmentCentres
<1>2. CASE v # 1
  <2>1. n \in Nat /\ 25 <= n
    BY <1>2 DEF Size
  <2>2. AP[v] = {6, p} /\ AlignmentCentres(v) = {<<p, p>>}
    BY <1>2, AlignmentTable DEF AlignmentCentres
  <2>. HIDE DEF n
  <2>3. /\ <<6, 6>> \in FinderArea(n) /\ <<6, p>> \in FinderArea(n)
        /\ <<p, 6>> \in FinderArea(n)
        /\ <<p, p>> \notin FinderArea(n) /\ <<p, p>> \notin Timing(n)
    <3>1. 6 \in 0 .. n - 1 /\ p \in 0 .. n - 1
      BY <2>1
    <3>2. /\ InFinders(n, 6, 6) /\ InFinders(n, 6, p) /\ InFinders(n, p, 6)
          /\ ~ InFinders(n, p, p) /\ ~ InTiming(n, p, p)
      BY <2>1 DEF InFinders, InFinder, InTiming, Within
    <3>. QED
      BY <2>1, <3>1, <3>2, InFinderArea, InTimingLines
  <2>4. AP[v] \X AP[v] = {<<6, 6>>, <<6, p>>, <<p, 6>>, <<p, p>>}
    BY <2>2
  <2>. QED
    BY <2>2, <2>3, <2>4 DEF n
<1>. QED
  BY <1>1, <1>2

\* The format lies beside the patterns; only the dark module belongs to both.
LEMMA FormatApart ==
  ASSUME NEW v \in 1 .. 6, NEW i \in 1 .. 15
  PROVE  /\ FormatCopy1[i] \notin Patterns(v)
         /\ FormatCopy2(Size(v))[i] \notin Patterns(v)
<1>. DEFINE n == Size(v)
<1>1. n \in Nat /\ 21 <= n /\ (v # 1 => 25 <= n)
  BY DEF Size
<1>2. ASSUME NEW r \in 0 .. n - 1, NEW c \in 0 .. n - 1,
             \/ c = 8 /\ r <= 8 /\ r # 6
             \/ r = 8 /\ c <= 8 /\ c # 6
             \/ r = 8 /\ c >= n - 8
             \/ c = 8 /\ r >= n - 7
      PROVE  <<r, c>> \notin Patterns(v)
  <2>1. /\ <<r, c>> \in Timing(n) <=> InTiming(n, r, c)
        /\ <<r, c>> \in FinderArea(n) <=> InFinders(n, r, c)
        /\ <<r, c>> \in AlignmentArea(v) <=> v # 1 /\ InAlignment(r, c, n - 7, n - 7)
        /\ <<r, c>> = DarkModule(n) <=> r = n - 8 /\ c = 8
    BY <1>1, InTimingLines, InFinderArea, InAlignmentArea DEF DarkModule
  <2>. HIDE DEF n
  <2>2. /\ ~ InTiming(n, r, c) /\ ~ InFinders(n, r, c) /\ ~ (r = n - 8 /\ c = 8)
        /\ v # 1 => ~ InAlignment(r, c, n - 7, n - 7)
    BY <1>1, <1>2 DEF InTiming, InFinders, InFinder, InAlignment, Within
  <2>. QED
    BY <2>1, <2>2 DEF Patterns, n
<1>3. FormatCopy1[i] \notin Patterns(v)
  <2>1. \E r, c \in 0 .. 8 :
          FormatCopy1[i] = <<r, c>> /\ ((c = 8 /\ r # 6) \/ (r = 8 /\ c # 6))
    BY DEF FormatCopy1
  <2>. QED
    BY <1>1, <1>2, <2>1
<1>4. FormatCopy2(n)[i] \notin Patterns(v)
  <2>1. FormatCopy2(n)[i] = IF i <= 8 THEN <<8, n - i>> ELSE <<n - 16 + i, 8>>
    BY DEF FormatCopy2
  <2>. HIDE DEF n
  <2>. QED
    BY <1>1, <1>2, <2>1
<1>. QED
  BY <1>3, <1>4

LEMMA MarksOfPatterns ==
  ASSUME NEW v \in 1 .. 6
  PROVE  /\ FinderMarks(Size(v)) \subseteq FinderArea(Size(v))
         /\ TimingMarks(Size(v)) \subseteq Timing(Size(v))
         /\ AlignmentMarks(v) \subseteq AlignmentArea(v)
         /\ PatternMarks(v) \subseteq Patterns(v)
<1>1. \A n, c : /\ FinderDark(n, c) \subseteq Finder(n, c)
                /\ AlignmentDark(n, c) \subseteq Alignment(n, c)
  BY DEF FinderDark, Finder, AlignmentDark, Alignment
<1>2. /\ FinderMarks(Size(v)) \subseteq FinderArea(Size(v))
      /\ TimingMarks(Size(v)) \subseteq Timing(Size(v))
      /\ AlignmentMarks(v) \subseteq AlignmentArea(v)
  BY <1>1 DEF FinderMarks, FinderArea, TimingMarks, AlignmentMarks, AlignmentArea
<1>. QED
  BY <1>2 DEF PatternMarks, Patterns

-----------------------------------------------------------------------------
(* The patterns stand from their drawing to the finished matrix. *)

\* How far the drawing has come at each stage.
PatternInv ==
  ver \in 1 .. 6 =>
    LET n == Size(ver)
    IN /\ stage = "timing" => func = FinderArea(n) /\ dark = FinderMarks(n)
       /\ stage = "alignment" =>
            /\ func = FinderArea(n) \cup Timing(n)
            /\ dark = FinderMarks(n) \cup TimingMarks(n)
       /\ stage = "format" =>
            /\ func = FinderArea(n) \cup Timing(n) \cup AlignmentArea(ver)
            /\ dark = FinderMarks(n) \cup TimingMarks(n) \cup AlignmentMarks(ver)
       /\ stage \in {"place", "masks", "done"} =>
            /\ func = Patterns(ver) \cup FormatModules(n)
            /\ dark \cap Patterns(ver) = PatternMarks(ver)
       /\ stage = "place" => dark \subseteq Patterns(ver)

LEMMA PatternDrawn ==
  ASSUME Staged, PatternInv, Stages, ver' \in 1 .. 6
  PROVE  PatternInv'
<1>. DEFINE n == Size(ver)
<1>. USE DEF StageGoto
<1>1. ASSUME NEW t \in Texts, Call(t)
      PROVE  PatternInv'
  BY <1>1 DEF Call, PatternInv
<1>2. CASE SelectVersion \/ TextTooLong \/ UnsupportedChar \/ BuildBits
           \/ AddErrorCorrection \/ Return
  BY <1>2 DEF SelectVersion, TextTooLong, UnsupportedChar, BuildBits,
              AddErrorCorrection, Return, PatternInv
<1>3. CASE DrawFinders
  <2>1. /\ stage' = "timing" /\ ver' = ver /\ dark = {} /\ func = {}
        /\ dark' = dark \cup FinderMarks(n) /\ func' = func \cup FinderArea(n)
    BY <1>3 DEF DrawFinders, Draw, FinderMarks, FinderArea, Staged, Undrawn
  <2>. QED
    BY <2>1 DEF PatternInv
<1>4. CASE DrawTiming
  <2>1. /\ stage' = "alignment" /\ ver' = ver
        /\ func = FinderArea(n) /\ dark = FinderMarks(n)
    BY <1>4 DEF DrawTiming, Draw, PatternInv
  <2>2. Timing(n) \ func = Timing(n)
    BY <2>1, PatternsApart
  <2>3. dark' = dark \cup TimingMarks(n) /\ func' = func \cup Timing(n)
    BY <1>4, <2>2 DEF DrawTiming, Draw, TimingMarks
  <2>. QED
    BY <2>1, <2>3 DEF PatternInv
<1>5. CASE DrawAlignment
  <2>1. /\ stage' = "format" /\ ver' = ver
        /\ func = FinderArea(n) \cup Timing(n)
        /\ dark = FinderMarks(n) \cup TimingMarks(n)
    BY <1>5 DEF DrawAlignment, Draw, PatternInv
  <2>2. (AP[ver] \X AP[ver]) \ func = AlignmentCentres(ver)
    BY <2>1, FreeCentres
  <2>3. AlignmentMarks(ver) \ func = AlignmentMarks(ver)
    BY <2>1, PatternsApart, MarksOfPatterns
  <2>4. /\ dark' = dark \cup AlignmentMarks(ver)
        /\ func' = func \cup AlignmentArea(ver)
    BY <1>5, <2>2, <2>3 DEF DrawAlignment, Draw, AlignmentMarks, AlignmentArea
  <2>. QED
    BY <2>1, <2>4 DEF PatternInv
<1>6. CASE ReserveFormat
  <2>1. /\ stage' = "place" /\ ver' = ver
        /\ func = FinderArea(n) \cup Timing(n) \cup AlignmentArea(ver)
        /\ dark = FinderMarks(n) \cup TimingMarks(n) \cup AlignmentMarks(ver)
    BY <1>6 DEF ReserveFormat, Draw, PatternInv
  <2>2. /\ dark' = dark \cup {DarkModule(n)}
        /\ func' = func \cup FormatModules(n)
    BY <1>6 DEF ReserveFormat, Draw
  <2>3. func' = Patterns(ver) \cup FormatModules(n) /\ dark' = PatternMarks(ver)
    BY <2>1, <2>2 DEF Patterns, PatternMarks, FormatModules
  <2>4. dark' \cap Patterns(ver) = PatternMarks(ver)
    BY <2>1, <2>3, MarksOfPatterns
  <2>. QED
    BY <2>1, <2>3, <2>4, MarksOfPatterns DEF PatternInv
<1>7. CASE PlaceData
  <2>1. /\ stage = "place" /\ stage' = "masks" /\ UNCHANGED <<ver, func>>
    BY <1>7 DEF PlaceData
  <2>2. /\ func = Patterns(ver) \cup FormatModules(n)
        /\ dark \cap Patterns(ver) = PatternMarks(ver)
    BY <2>1 DEF PatternInv
  <2>3. \A m : m \in func => (m \in dark' <=> m \in dark)
    BY <1>7 DEF PlaceData
  <2>4. dark' \cap Patterns(ver) = PatternMarks(ver)
    BY <2>2, <2>3
  <2>. QED
    BY <2>1, <2>2, <2>4 DEF PatternInv
<1>8. CASE TryMask
  BY <1>8 DEF TryMask, NextMask, PatternInv
<1>. QED
  BY <1>1, <1>2, <1>3, <1>4, <1>5, <1>6, <1>7, <1>8 DEF Stages

LEMMA PatternNext == Staged /\ PatternInv /\ [Next]_vars => PatternInv'
<1>1. ASSUME PatternInv, FillTables \/ UNCHANGED vars
      PROVE  PatternInv'
  BY <1>1 DEF FillTables, vars, callVars, PatternInv
<1>2. ASSUME ver' \notin 1 .. 6
      PROVE  PatternInv'
  BY <1>2 DEF PatternInv
<1>. QED
  BY <1>1, <1>2, PatternDrawn DEF Next

LEMMA PatternInvAlways == Spec => []PatternInv
<1>1. Init => PatternInv
  BY DEF Init, PatternInv
<1>. QED
  BY <1>1, PatternNext, StagedAlways, PTL DEF Spec

\* Masks and format leave the patterns as they are.
LEMMA CandidateKeepsPatterns ==
  ASSUME Staged, PatternInv, stage \in Masking, ver \in 1 .. 6, NEW k
  PROVE  Candidate(k) \cap Patterns(ver) = PatternMarks(ver)
<1>. DEFINE n == Size(ver)
            masked == Masked(dark, func, n, k)
<1>1. /\ Patterns(ver) \subseteq func
      /\ dark \cap Patterns(ver) = PatternMarks(ver)
  BY DEF PatternInv, Masking
<1>2. masked \cap Patterns(ver) = PatternMarks(ver)
  BY <1>1 DEF Masked, SymDiff
<1>3. \A i \in 1 .. 15 : /\ FormatCopy1[i] \notin Patterns(ver)
                         /\ FormatCopy2(n)[i] \notin Patterns(ver)
  BY FormatApart
<1>4. FormatModules(n) \cap Patterns(ver) \subseteq {DarkModule(n)}
  <2>1. DOMAIN FormatCopy1 = 1 .. 15 /\ DOMAIN FormatCopy2(n) = 1 .. 15
    BY FormatInGrid
  <2>. HIDE DEF n
  <2>. QED
    BY <1>3, <2>1 DEF FormatModules, ToSet
<1>5. DarkModule(n) \in PatternMarks(ver)
  BY DEF PatternMarks
<1>. HIDE DEF masked, n
<1>6. ASSUME NEW fmt
      PROVE  placeFmt(masked, n, fmt) \cap Patterns(ver) = PatternMarks(ver)
  <2>. DEFINE first == {FormatCopy1[i + 1] : i \in {j \in 0 .. 14 : FormatBit(fmt, 14 - j)}}
              second == {FormatCopy2(n)[i + 1] : i \in {j \in 0 .. 14 : FormatBit(fmt, j)}}
  <2>1. first \cap Patterns(ver) = {} /\ second \cap Patterns(ver) = {}
    <3>1. \A i \in 0 .. 14 : i + 1 \in 1 .. 15
      OBVIOUS
    <3>. QED
      BY <1>3, <3>1
  <2>2. placeFmt(masked, n, fmt)
          = (masked \ FormatModules(n)) \cup first \cup second \cup {DarkModule(n)}
    BY DEF placeFmt
  <2>. HIDE DEF first, second
  <2>3. DarkModule(n) \in Patterns(ver)
    BY <1>5, MarksOfPatterns
  <2>. QED
    BY <1>2, <1>4, <1>5, <2>1, <2>2, <2>3
<1>. QED
  BY <1>6 DEF Candidate, masked, n

-----------------------------------------------------------------------------
(* The pictures of the scanner *)

LEMMA InPatterns ==
  ASSUME NEW v \in 1 .. 6, NEW i \in 0 .. Size(v) - 1, NEW j \in 0 .. Size(v) - 1
  PROVE  LET n == Size(v)
             p == n - 7
             isDarkModule == i = n - 8 /\ j = 8
         IN /\ <<i, j>> \in Patterns(v) <=>
                 \/ InFinders(n, i, j) \/ InTiming(n, i, j)
                 \/ v # 1 /\ InAlignment(i, j, p, p)
                 \/ isDarkModule
            /\ <<i, j>> \in PatternMarks(v) <=>
                 \/ OnFinders(n, i, j) \/ (InTiming(n, i, j) /\ (i + j) % 2 = 0)
                 \/ v # 1 /\ OnAlignment(i, j, p, p)
                 \/ isDarkModule
<1>. DEFINE n == Size(v)
<1>1. n \in Nat /\ (<<i, j>> = DarkModule(n) <=> i = n - 8 /\ j = 8)
  BY SizeBound DEF DarkModule
<1>. QED
  BY <1>1, InFinderArea, InTimingLines, InAlignmentArea DEF Patterns, PatternMarks

LEMMA FinderPictureDrawn ==
  ASSUME NEW r \in 1 .. 7, NEW c \in 1 .. 7
  PROVE  FinderPicture[r][c] = IF OnFinder(r, c, 4, 4) THEN 1 ELSE 0
<1>1. /\ FinderPicture[1] = <<1, 1, 1, 1, 1, 1, 1>>
      /\ FinderPicture[2] = <<1, 0, 0, 0, 0, 0, 1>>
      /\ FinderPicture[3] = <<1, 0, 1, 1, 1, 0, 1>>
      /\ FinderPicture[4] = <<1, 0, 1, 1, 1, 0, 1>>
      /\ FinderPicture[5] = <<1, 0, 1, 1, 1, 0, 1>>
      /\ FinderPicture[6] = <<1, 0, 0, 0, 0, 0, 1>>
      /\ FinderPicture[7] = <<1, 1, 1, 1, 1, 1, 1>>
  BY DEF FinderPicture
<1>2. CASE r \in {1, 7}
  BY <1>1, <1>2 DEF OnFinder, Within
<1>3. CASE r \in {2, 6}
  BY <1>1, <1>3 DEF OnFinder, Within
<1>4. CASE r \in {3, 4, 5}
  BY <1>1, <1>4 DEF OnFinder, Within
<1>. QED
  BY <1>2, <1>3, <1>4

LEMMA AlignmentPictureDrawn ==
  ASSUME NEW r \in 1 .. 5, NEW c \in 1 .. 5
  PROVE  AlignmentPicture[r][c] = IF OnAlignment(r, c, 3, 3) THEN 1 ELSE 0
<1>1. /\ AlignmentPicture[1] = <<1, 1, 1, 1, 1>>
      /\ AlignmentPicture[2] = <<1, 0, 0, 0, 1>>
      /\ AlignmentPicture[3] = <<1, 0, 1, 0, 1>>
      /\ AlignmentPicture[4] = <<1, 0, 0, 0, 1>>
      /\ AlignmentPicture[5] = <<1, 1, 1, 1, 1>>
  BY DEF AlignmentPicture
<1>2. CASE r \in {1, 5}
  BY <1>1, <1>2 DEF OnAlignment, Within
<1>3. CASE r \in {2, 4}
  BY <1>1, <1>3 DEF OnAlignment, Within
<1>4. CASE r = 3
  BY <1>1, <1>4 DEF OnAlignment, Within
<1>. QED
  BY <1>2, <1>3, <1>4

LEMMA CentresOfScanner ==
  ASSUME NEW v \in 1 .. 6
  PROVE  Centres(Size(v)) = AlignmentCentres(v)
<1>. DEFINE p == Size(v) - 7
<1>1. Version(Size(v)) = v /\ (v # 1 => p >= 18)
  BY DEF Version, Size
<1>2. Centres(Size(v)) = (AP[v] \X AP[v]) \ {<<6, 6>>, <<6, p>>, <<p, 6>>}
  BY <1>1 DEF Centres
<1>3. CASE v = 1
  BY <1>2, <1>3, AlignmentTable DEF AlignmentCentres
<1>4. CASE v # 1
  <2>1. AP[v] = {6, p} /\ AlignmentCentres(v) = {<<p, p>>}
    BY <1>4, AlignmentTable DEF AlignmentCentres
  <2>2. AP[v] \X AP[v] = {<<6, 6>>, <<6, p>>, <<p, 6>>, <<p, p>>}
    BY <2>1
  <2>. HIDE DEF p
  <2>. QED
    BY <1>1, <1>2, <1>4, <2>1, <2>2
<1>. QED
  BY <1>3, <1>4

LEMMA PatternsShown ==
  ASSUME NEW v \in 1 .. 6, NEW picture,
         picture \cap Patterns(v) = PatternMarks(v)
  PROVE  LET n == Size(v)
         IN /\ \A c \in {<<0, 0>>, <<0, n - 7>>, <<n - 7, 0>>} :
                 Shows(picture, FinderPicture, c[1], c[2])
            /\ \A k \in 0 .. 7 :
                 {<<7, k>>, <<k, 7>>, <<7, n - 8 + k>>, <<k, n - 8>>,
                  <<n - 8 + k, 7>>, <<n - 8, k>>} \cap picture = {}
            /\ \A k \in 8 .. n - 9 :
                 /\ Color(picture, <<6, k>>) = (k + 1) % 2
                 /\ Color(picture, <<k, 6>>) = (k + 1) % 2
            /\ \A c \in Centres(n) :
                 Shows(picture, AlignmentPicture, c[1] - 2, c[2] - 2)
            /\ <<4 * v + 9, 8>> \in picture
<1>. DEFINE n == Size(v)
            p == n - 7
            In(i, j) ==
              \/ InFinders(n, i, j) \/ InTiming(n, i, j)
              \/ v # 1 /\ InAlignment(i, j, p, p)
              \/ i = n - 8 /\ j = 8
            On(i, j) ==
              \/ OnFinders(n, i, j) \/ (InTiming(n, i, j) /\ (i + j) % 2 = 0)
              \/ v # 1 /\ OnAlignment(i, j, p, p)
              \/ i = n - 8 /\ j = 8
<1>1. n \in Nat /\ n = 4 * v + 17 /\ 21 <= n /\ (v # 1 => 25 <= n)
  BY DEF Size
<1>2. \A i, j \in 0 .. n - 1 : In(i, j) => (<<i, j>> \in picture <=> On(i, j))
  BY InPatterns
<1>. HIDE DEF n
<1>3. ASSUME NEW a \in {0, n - 7}, NEW b \in {0, n - 7}, a = 0 \/ b = 0
      PROVE  Shows(picture, FinderPicture, a, b)
  <2>1. DOMAIN FinderPicture = 1 .. 7
    BY DEF FinderPicture
  <2>2. ASSUME NEW r \in 1 .. 7, NEW c \in 1 .. 7
        PROVE  Color(picture, <<a + r - 1, b + c - 1>>) = FinderPicture[r][c]
    <3>. DEFINE i == a + r - 1
                j == b + c - 1
    <3>1. i \in 0 .. n - 1 /\ j \in 0 .. n - 1
      BY <1>1
    <3>2. In(i, j)
      BY <1>1, <1>3 DEF InFinders, InFinder, Within
    <3>3. On(i, j) <=> OnFinder(r, c, 4, 4)
      BY <1>1, <1>3 DEF OnFinders, OnFinder, InTiming, OnAlignment, Within
    <3>. QED
      BY <1>2, <3>1, <3>2, <3>3, FinderPictureDrawn DEF Color
  <2>. QED
    BY <2>1, <2>2 DEF Shows
<1>4. ASSUME NEW k \in 0 .. 7,
             NEW i \in Int, NEW j \in Int,
             <<i, j>> \in {<<7, k>>, <<k, 7>>, <<7, n - 8 + k>>, <<k, n - 8>>,
                           <<n - 8 + k, 7>>, <<n - 8, k>>}
      PROVE  <<i, j>> \notin picture
  <2>1. i \in 0 .. n - 1 /\ j \in 0 .. n - 1 /\ InFinders(n, i, j)
    BY <1>1, <1>4 DEF InFinders, InFinder, Within
  <2>2. ~ On(i, j)
    BY <1>1, <1>4 DEF OnFinders, OnFinder, InTiming, OnAlignment, Within
  <2>. QED
    BY <1>2, <2>1, <2>2
<1>5. ASSUME NEW k \in 8 .. n - 9
      PROVE  /\ Color(picture, <<6, k>>) = (k + 1) % 2
             /\ Color(picture, <<k, 6>>) = (k + 1) % 2
  <2>1. k \in 0 .. n - 1 /\ 6 \in 0 .. n - 1
    BY <1>1
  <2>2. InTiming(n, 6, k) /\ InTiming(n, k, 6)
    BY <1>1 DEF InTiming
  <2>3. /\ On(6, k) <=> (k + 1) % 2 = 1
        /\ On(k, 6) <=> (k + 1) % 2 = 1
    BY <1>1 DEF OnFinders, OnFinder, InTiming, OnAlignment, Within
  <2>4. /\ <<6, k>> \in picture <=> On(6, k)
        /\ <<k, 6>> \in picture <=> On(k, 6)
    BY <1>2, <2>1, <2>2
  <2>5. (k + 1) % 2 \in {0, 1}
    OBVIOUS
  <2>. QED
    BY <2>3, <2>4, <2>5 DEF Color
<1>6. ASSUME v # 1
      PROVE  Shows(picture, AlignmentPicture, p - 2, p - 2)
  <2>1. DOMAIN AlignmentPicture = 1 .. 5
    BY DEF AlignmentPicture
  <2>2. ASSUME NEW r \in 1 .. 5, NEW c \in 1 .. 5
        PROVE  Color(picture, <<p - 2 + r - 1, p - 2 + c - 1>>)
                 = AlignmentPicture[r][c]
    <3>. DEFINE i == p - 2 + r - 1
                j == p - 2 + c - 1
    <3>1. i \in 0 .. n - 1 /\ j \in 0 .. n - 1
      BY <1>1, <1>6
    <3>2. In(i, j)
      BY <1>1, <1>6 DEF InAlignment, Within
    <3>3. On(i, j) <=> OnAlignment(r, c, 3, 3)
      BY <1>1, <1>6 DEF OnFinders, OnFinder, InTiming, OnAlignment, Within
    <3>. QED
      BY <1>2, <3>1, <3>2, <3>3, AlignmentPictureDrawn DEF Color
  <2>. QED
    BY <2>1, <2>2 DEF Shows
<1>7. <<4 * v + 9, 8>> \in picture
  <2>1. n - 8 \in 0 .. n - 1 /\ 8 \in 0 .. n - 1 /\ n - 8 = 4 * v + 9
    BY <1>1
  <2>. QED
    BY <1>2, <2>1
<1>8. Centres(n) = IF v = 1 THEN {} ELSE {<<p, p>>}
  BY CentresOfScanner DEF AlignmentCentres, n
<1>9. \A c \in {<<0, 0>>, <<0, n - 7>>, <<n - 7, 0>>} :
        Shows(picture, FinderPicture, c[1], c[2])
  BY <1>3
<1>10. \A c \in Centres(n) : Shows(picture, AlignmentPicture, c[1] - 2, c[2] - 2)
  BY <1>6, <1>8
<1>11. \A k \in 0 .. 7 :
         {<<7, k>>, <<k, 7>>, <<7, n - 8 + k>>, <<k, n - 8>>,
          <<n - 8 + k, 7>>, <<n - 8, k>>} \cap picture = {}
  BY <1>1, <1>4
<1>. QED
  BY <1>5, <1>7, <1>9, <1>10, <1>11 DEF n

\* A version above 6 is never chosen for the text of the program, which has at
\* most 21 characters.
LEMMA SmallVersions ==
  ASSUME Staged, stage \in Masking, Len(text) <= ALPHA_MAX[6]
  PROVE  ver \in 1 .. 6
BY DEF Staged, Masking

TextInv == text = <<>> \/ text \in Texts

LEMMA TextInvAlways == Spec => []TextInv
<1>1. Init => TextInv
  BY DEF Init, TextInv
<1>2. TextInv /\ [Next]_vars => TextInv'
  BY DEF TextInv, Next, Stages, FillTables, vars, callVars, Call, SelectVersion,
         TextTooLong, UnsupportedChar, BuildBits, AddErrorCorrection,
         DrawFinders, DrawTiming, DrawAlignment, ReserveFormat, Draw, PlaceData,
         TryMask, NextMask, Return
<1>. QED
  BY <1>1, <1>2, PTL DEF Spec

LEMMA TextsAreSmall ==
  ASSUME \A t \in Texts : Len(t) <= ALPHA_MAX[6] \/ Len(t) > ALPHA_MAX[10],
         Staged, TextInv, stage = "done"
  PROVE  ver \in 1 .. 6
<1>1. ver \in 1 .. 10 /\ Len(text) <= ALPHA_MAX[ver] /\ Len(text) \in Nat
  BY DEF Staged, Undrawn, Drawing
<1>2. Len(text) <= ALPHA_MAX[10] /\ (text = <<>> => Len(text) <= ALPHA_MAX[6])
  BY <1>1 DEF ALPHA_MAX
<1>3. Len(text) <= ALPHA_MAX[6]
  BY <1>1, <1>2 DEF TextInv, ALPHA_MAX
<1>. QED
  BY <1>3, SmallVersions DEF Masking

\* For all texts that versions 1 to 6 take, and for texts that none takes: data,
\* masks and format leave the patterns alone by which a scanner finds the
\* picture (the drawing of the function patterns in encode(), and `func').
THEOREM PatternsStand ==
  ASSUME \A t \in Texts : Len(t) <= ALPHA_MAX[6] \/ Len(t) > ALPHA_MAX[10]
  PROVE  Spec => []FunctionPatternsStand
<1>1. Staged /\ MaskInv /\ PatternInv /\ TextInv => FunctionPatternsStand
  <2>. SUFFICES ASSUME Staged, MaskInv, PatternInv, TextInv, stage = "done"
                PROVE  FunctionPatternsStand
    BY DEF FunctionPatternsStand
  <2>2. ver \in 1 .. 6
    BY TextsAreSmall
  <2>3. \E k : best = Candidate(k)
    BY DEF MaskInv, Masking, CheapestSoFar, Staged
  <2>4. best \cap Patterns(ver) = PatternMarks(ver)
    BY <2>2, <2>3, CandidateKeepsPatterns DEF Masking
  <2>. QED
    BY <2>2, <2>4, PatternsShown DEF FunctionPatternsStand
<1>. QED
  BY <1>1, StagedAlways, MaskInvAlways, PatternInvAlways, TextInvAlways, PTL

-----------------------------------------------------------------------------
(* What the scanner finds in the finished matrix *)

\* In coordinates: the modules of the two copies of the format and the dark one.
InFormat(n, i, j) ==
  \/ j = 8 /\ i <= 8 /\ i # 6
  \/ i = 8 /\ j <= 8 /\ j # 6
  \/ i = 8 /\ j >= n - 8
  \/ j = 8 /\ i >= n - 8

LEMMA InFormatModules ==
  ASSUME NEW n \in Nat, 21 <= n, NEW i \in 0 .. n - 1, NEW j \in 0 .. n - 1
  PROVE  <<i, j>> \in FormatModules(n) <=> InFormat(n, i, j)
<1>1. <<i, j>> \in ToSet(FormatCopy1)
        <=> (j = 8 /\ i <= 8 /\ i # 6) \/ (i = 8 /\ j <= 8 /\ j # 6)
  <2>1. ToSet(FormatCopy1)
          = {<<0, 8>>, <<1, 8>>, <<2, 8>>, <<3, 8>>, <<4, 8>>, <<5, 8>>, <<7, 8>>,
             <<8, 8>>, <<8, 7>>, <<8, 5>>, <<8, 4>>, <<8, 3>>, <<8, 2>>, <<8, 1>>,
             <<8, 0>>}
    BY DEF ToSet, FormatCopy1
  <2>. QED
    BY <2>1
<1>2. <<i, j>> \in ToSet(FormatCopy2(n))
        <=> (i = 8 /\ j >= n - 8) \/ (j = 8 /\ i >= n - 7)
  <2>1. <<i, j>> \in ToSet(FormatCopy2(n))
          <=> \E p \in 1 .. 15 :
                <<i, j>> = IF p <= 8 THEN <<8, n - p>> ELSE <<n - 16 + p, 8>>
    BY DEF ToSet, FormatCopy2
  <2>2. ASSUME i = 8, j >= n - 8
        PROVE  \E p \in 1 .. 8 : <<i, j>> = <<8, n - p>>
    <3>1. n - j \in 1 .. 8 /\ <<i, j>> = <<8, n - (n - j)>>
      BY <2>2
    <3>. QED
      BY <3>1
  <2>3. ASSUME j = 8, i >= n - 7
        PROVE  \E p \in 9 .. 15 : <<i, j>> = <<n - 16 + p, 8>>
    <3>1. i - n + 16 \in 9 .. 15 /\ <<i, j>> = <<n - 16 + (i - n + 16), 8>>
      BY <2>3
    <3>. QED
      BY <3>1
  <2>. QED
    BY <2>1, <2>2, <2>3
<1>3. <<i, j>> = DarkModule(n) <=> i = n - 8 /\ j = 8
  BY DEF DarkModule
<1>. QED
  BY <1>1, <1>2, <1>3 DEF FormatModules, InFormat

\* Up to version 6 the scanner looks for the data where encode() places it.
LEMMA FunctionModules ==
  ASSUME NEW v \in 1 .. 6, NEW i \in 0 .. Size(v) - 1, NEW j \in 0 .. Size(v) - 1
  PROVE  <<i, j>> \in Patterns(v) \cup FormatModules(Size(v))
           <=> IsFunction(Size(v), Centres(Size(v)), i, j)
<1>. DEFINE n == Size(v)
            p == n - 7
<1>1. n \in Nat /\ 21 <= n /\ n < 45 /\ (v # 1 => 25 <= n)
  BY DEF Size
<1>2. /\ <<i, j>> \in Timing(n) <=> InTiming(n, i, j)
      /\ <<i, j>> \in FinderArea(n) <=> InFinders(n, i, j)
      /\ <<i, j>> \in AlignmentArea(v) <=> v # 1 /\ InAlignment(i, j, p, p)
      /\ <<i, j>> \in FormatModules(n) <=> InFormat(n, i, j)
      /\ DarkModule(n) \in FormatModules(n)
  BY <1>1, InTimingLines, InFinderArea, InAlignmentArea, InFormatModules
     DEF FormatModules
<1>3. IsFunction(n, Centres(n), i, j)
        <=> \/ i = 6 \/ j = 6
            \/ i <= 8 /\ j <= 8
            \/ i <= 8 /\ j >= n - 8
            \/ i >= n - 8 /\ j <= 8
            \/ v # 1 /\ i \in p - 2 .. p + 2 /\ j \in p - 2 .. p + 2
  <2>. DEFINE Covers(a, b) == i \in a - 2 .. a + 2 /\ j \in b - 2 .. b + 2
  <2>1. Centres(n) = IF v = 1 THEN {} ELSE {<<p, p>>}
    BY CentresOfScanner DEF AlignmentCentres
  <2>. HIDE DEF n, p, Covers
  <2>2. ASSUME v = 1
        PROVE  ~ \E c \in Centres(n) : Covers(c[1], c[2])
    BY <2>1, <2>2
  <2>3. ASSUME v # 1
        PROVE  (\E c \in Centres(n) : Covers(c[1], c[2])) <=> Covers(p, p)
    <3>1. \A c : c \in Centres(n) <=> c = <<p, p>>
      BY <2>1, <2>3
    <3>2. <<p, p>>[1] = p /\ <<p, p>>[2] = p
      OBVIOUS
    <3>. QED
      BY <3>1, <3>2, Zenon
  <2>. USE DEF n, p, Covers
  <2>. QED
    BY <1>1, <2>2, <2>3 DEF IsFunction
<1>. HIDE DEF n
<1>4. InTiming(n, i, j) \/ InFinders(n, i, j) \/ InFormat(n, i, j)
        <=> \/ i = 6 \/ j = 6
            \/ i <= 8 /\ j <= 8
            \/ i <= 8 /\ j >= n - 8
            \/ i >= n - 8 /\ j <= 8
  BY <1>1 DEF InTiming, InFinders, InFinder, InFormat, Within, n
<1>5. InAlignment(i, j, p, p) <=> i \in p - 2 .. p + 2 /\ j \in p - 2 .. p + 2
  BY <1>1 DEF InAlignment, Within, n
<1>. QED
  BY <1>2, <1>3, <1>4, <1>5 DEF Patterns, n

\* The conditions of the code and those of the standard.
LEMMA RemaindersOfSix ==
  ASSUME NEW x \in Nat
  PROVE  /\ (x % 2) + (x % 3) = 0 <=> x % 6 = 0
         /\ ((x % 2) + (x % 3)) % 2 = 0 <=> x % 6 <= 2
         /\ (x % 6) % 3 = x % 3
BY SMTT(30)

LEMMA MasksOfStandard ==
  ASSUME NEW k \in 0 .. 7, NEW i \in Nat, NEW j \in Nat
  PROVE  Inverted(k, i, j) <=> maskCondition(k, <<i, j>>)
<1>. DEFINE x == i * j
            Same(l) == Inverted(l, i, j) <=> maskCondition(l, <<i, j>>)
<1>1. x \in Nat
  BY SMTT(20)
<1>2. Same(0) /\ Same(1) /\ Same(2) /\ Same(3)
  <2>1. /\ Inverted(0, i, j) <=> (i + j) % 2 = 0
        /\ Inverted(1, i, j) <=> i % 2 = 0
        /\ Inverted(2, i, j) <=> j % 3 = 0
        /\ Inverted(3, i, j) <=> (i + j) % 3 = 0
    BY DEF Inverted
  <2>2. /\ maskCondition(0, <<i, j>>) <=> (i + j) % 2 = 0
        /\ maskCondition(1, <<i, j>>) <=> i % 2 = 0
        /\ maskCondition(2, <<i, j>>) <=> j % 3 = 0
        /\ maskCondition(3, <<i, j>>) <=> (i + j) % 3 = 0
    BY DEF maskCondition
  <2>. QED
    BY <2>1, <2>2
<1>3. Same(4)
  BY DEF Inverted, maskCondition
<1>4. Same(5) /\ Same(6)
  <2>1. /\ Inverted(5, i, j) <=> x % 6 = 0
        /\ Inverted(6, i, j) <=> x % 6 <= 2
    BY DEF Inverted
  <2>2. /\ maskCondition(5, <<i, j>>) <=> (x % 2) + (x % 3) = 0
        /\ maskCondition(6, <<i, j>>) <=> ((x % 2) + (x % 3)) % 2 = 0
    BY DEF maskCondition
  <2>. HIDE DEF x
  <2>. QED
    BY <1>1, <2>1, <2>2, RemaindersOfSix
<1>5. Same(7)
  <2>1. Inverted(7, i, j) <=> (((i + j) % 2 = 0) <=> (x % 6) % 3 # 1)
    BY DEF Inverted
  <2>2. maskCondition(7, <<i, j>>) <=> (((i + j) % 2) + (x % 3)) % 2 = 0
    BY DEF maskCondition
  <2>. HIDE DEF x
  <2>3. (((i + j) % 2) + (x % 3)) % 2 = 0 <=> (((i + j) % 2 = 0) <=> x % 3 # 1)
    BY <1>1
  <2>. QED
    BY <1>1, <2>1, <2>2, <2>3, RemaindersOfSix
<1>6. k \in {0, 1, 2, 3, 4, 5, 6, 7}
  OBVIOUS
<1>. HIDE DEF Same
<1>7. Same(k)
  BY <1>2, <1>3, <1>4, <1>5, <1>6
<1>. QED
  BY <1>7 DEF Same

\* The second copy of the format spells its word, bit by bit.
LEMMA FormatReadBack ==
  ASSUME NEW n \in Nat, 21 <= n, NEW modules, NEW fmt, NEW i \in 0 .. 14
  PROVE  SecondFormatModule(n, i) \in placeFmt(modules, n, fmt) <=> FormatBit(fmt, i)
<1>. DEFINE copy == FormatCopy2(n)
            At(p) == IF p <= 8 THEN <<8, n - p>> ELSE <<n - 16 + p, 8>>
<1>1. DOMAIN copy = 1 .. 15 /\ \A p \in 1 .. 15 : copy[p] = At(p)
  BY DEF FormatCopy2
<1>2. SecondFormatModule(n, i) = At(i + 1)
  BY DEF SecondFormatModule
<1>3. \A p \in 0 .. 14 : At(p + 1) = At(i + 1) => p = i
  OBVIOUS
<1>4. At(i + 1) # DarkModule(n)
  BY DEF DarkModule
<1>5. \A p \in 0 .. 14 : FormatCopy1[p + 1] # At(i + 1)
  <2>1. \A p \in 0 .. 14 :
          \E r, c \in 0 .. 8 : FormatCopy1[p + 1] = <<r, c>>
    BY DEF FormatCopy1
  <2>2. \A r, c \in 0 .. 8 : <<r, c>> # At(i + 1)
    OBVIOUS
  <2>. QED
    BY <2>1, <2>2
<1>6. At(i + 1) \in FormatModules(n)
  BY <1>1 DEF FormatModules, ToSet
<1>. HIDE DEF At
<1>. QED
  BY <1>1, <1>2, <1>3, <1>4, <1>5, <1>6 DEF placeFmt

\* Outside the function modules a candidate shows the data under its mask.
LEMMA CandidateShowsData ==
  ASSUME NEW k, NEW m \in Grid(Size(ver)), m \notin func,
         FormatModules(Size(ver)) \subseteq func,
         ver \in 1 .. 10
  PROVE  m \in Candidate(k) <=> ~ (m \in dark <=> maskCondition(k, m))
<1>. DEFINE n == Size(ver)
            masked == Masked(dark, func, n, k)
<1>1. m \in masked <=> ~ (m \in dark <=> maskCondition(k, m))
  BY DEF Masked, SymDiff
<1>2. DarkModule(n) \in FormatModules(n)
  BY DEF FormatModules
<1>3. \A i \in 0 .. 14 : /\ FormatCopy1[i + 1] \in FormatModules(n)
                         /\ FormatCopy2(n)[i + 1] \in FormatModules(n)
  <2>1. DOMAIN FormatCopy1 = 1 .. 15 /\ DOMAIN FormatCopy2(n) = 1 .. 15
    BY FormatInGrid
  <2>. QED
    BY <2>1 DEF FormatModules, ToSet
<1>. HIDE DEF n, masked
<1>4. \A fmt : m \in placeFmt(masked, n, fmt) <=> m \in masked
  BY <1>2, <1>3 DEF placeFmt, n
<1>. QED
  BY <1>1, <1>4 DEF Candidate, masked, n

\* The modules that hold data are those that no pattern and no format takes.
LEMMA DataModulesFree ==
  ASSUME NEW v \in 1 .. 6
  PROVE  DataModules(Size(v))
           = Grid(Size(v)) \ (Patterns(v) \cup FormatModules(Size(v)))
<1>. DEFINE n == Size(v)
<1>1. n \in Nat
  BY DEF Size
<1>2. ASSUME NEW m \in Grid(n)
      PROVE  m \in Patterns(v) \cup FormatModules(n)
               <=> IsFunction(n, Centres(n), m[1], m[2])
  BY <1>1, CoordinatesInGrid, FunctionModules
<1>. QED
  BY <1>2 DEF DataModules

\* What encode() places in the module m.
Sent(m) ==
  LET place == PlaceOf(m, DataModules(Size(ver)), Size(ver))
  IN place <= Len(BitsOf(interleaved)) /\ BitsOf(interleaved)[place] = 1

\* The number of a free module among the free ones is that of the scanner.
LEMMA NumberIsPlace ==
  ASSUME NEW v \in 1 .. 10, NEW taken,
         NEW k \in {j \in DOMAIN Zigzag(Size(v)) : Zigzag(Size(v))[j] \notin taken},
         \A m \in Grid(Size(v)) \ taken : m[2] # 6
  PROVE  LET n == Size(v)
             free == {j \in DOMAIN Zigzag(n) : Zigzag(n)[j] \notin taken}
         IN Cardinality({j \in free : j <= k})
              = PlaceOf(Zigzag(n)[k], Grid(n) \ taken, n)
<1>. DEFINE n == Size(v)
            cells == Zigzag(n)
            free == {j \in DOMAIN cells : cells[j] \notin taken}
            data == Grid(n) \ taken
            Order(m) == Rank(n, m[1], m[2])
            before == {j \in free : j <= k}
            seen == {m \in data : Order(m) <= Order(cells[k])}
            f == [j \in before |-> cells[j]]
<1>1. DOMAIN cells = 1 .. n * (n - 1) /\ n * (n - 1) \in Int /\ k \in free
  BY SizeBound, SMTT(20) DEF Zigzag
<1>2. \A j \in DOMAIN cells : Order(cells[j]) = j - 1 /\ cells[j] \in Grid(n)
  BY ScanOrder, ZigzagInGrid
<1>3. \A m \in data : Order(m) + 1 \in DOMAIN cells /\ cells[Order(m) + 1] = m
  BY ScanComplete
<1>. HIDE DEF n, cells, Order
<1>4. IsFiniteSet(before)
  <2>1. before \subseteq 1 .. n * (n - 1)
    BY <1>1
  <2>. QED
    BY <1>1, <2>1, FS_Interval, FS_Subset
<1>5. /\ k \in DOMAIN cells /\ \A j \in DOMAIN cells : j \in Int
      /\ \A j : j \in before <=> j \in DOMAIN cells /\ cells[j] \notin taken /\ j <= k
      /\ \A m : m \in seen <=> m \in data /\ Order(m) <= Order(cells[k])
  BY <1>1
<1>6. ASSUME NEW j \in before
      PROVE  f[j] = cells[j] /\ f[j] \in seen /\ Order(f[j]) = j - 1
  BY <1>2, <1>5
<1>7. ASSUME NEW m \in seen
      PROVE  \E j \in before : f[j] = m
  <2>1. Order(m) + 1 \in DOMAIN cells /\ cells[Order(m) + 1] = m
    BY <1>3, <1>5
  <2>2. Order(m) + 1 <= k
    BY <1>2, <1>5, <2>1
  <2>3. Order(m) + 1 \in before
    BY <1>5, <2>1, <2>2
  <2>. QED
    BY <2>1, <2>3
<1>8. f \in Bijection(before, seen)
  <2>1. \A i, j \in before : f[i] = f[j] => i = j
    BY <1>5, <1>6
  <2>2. f \in [before -> seen]
    BY <1>6
  <2>3. \A m \in seen : \E j \in before : f[j] = m
    BY <1>7
  <2>. HIDE DEF f, before, seen
  <2>. QED
    BY <2>1, <2>2, <2>3 DEF Bijection, Injection, Surjection, IsInjective
<1>9. Cardinality(seen) = Cardinality(before)
  BY <1>4, <1>8, FS_Bijection DEF ExistsBijection
<1>. QED
  BY <1>9 DEF PlaceOf, Order, n, cells

\* Data once placed stays: where no function module is, the matrix is what the
\* codewords say.
DataInv ==
  (ver \in 1 .. 6 /\ stage \in Masking) =>
    \A m \in DataModules(Size(ver)) : m \in dark <=> Sent(m)

LEMMA DataPlaced ==
  ASSUME Staged, PatternInv, PlaceData, ver \in 1 .. 6,
         NEW m \in DataModules(Size(ver))
  PROVE  m \in dark' <=> Sent(m)
<1>. DEFINE n == Size(ver)
            cells == Zigzag(n)
            bits == BitsOf(interleaved)
            free == {k \in DOMAIN cells : cells[k] \notin func}
            bit(k) == Cardinality({j \in free : j <= k})
            k0 == Rank(n, m[1], m[2]) + 1
<1>1. /\ stage = "place" /\ func = Patterns(ver) \cup FormatModules(n)
      /\ dark \subseteq func
  BY DEF PlaceData, StageGoto, PatternInv
<1>2. DataModules(n) = Grid(n) \ func
  BY <1>1, DataModulesFree
<1>3. n \in Nat /\ ver \in 1 .. 10
  BY DEF Size
<1>4. \A c \in Grid(n) \ func : c[2] # 6
  BY <1>2 DEF DataModules, IsFunction
<1>5. k0 \in free /\ cells[k0] = m
  BY <1>2, <1>3, <1>4, ScanComplete
<1>6. \A k \in free : cells[k] = m => k = k0
  <2>1. ASSUME NEW k \in free, cells[k] = m
        PROVE  Rank(n, m[1], m[2]) = k - 1 /\ k \in Int
    BY <1>3, <2>1, ScanOrder DEF Zigzag
  <2>. QED
    BY <2>1
<1>7. bit(k0) = PlaceOf(m, DataModules(n), n)
  BY <1>2, <1>3, <1>4, <1>5, NumberIsPlace
<1>8. dark' = dark \cup {cells[k] : k \in {j \in free : bit(j) <= Len(bits)
                                                     /\ bits[bit(j)] = 1}}
  BY DEF PlaceData
<1>9. m \notin dark
  BY <1>1, <1>2
<1>10. m \in dark' <=> bit(k0) <= Len(bits) /\ bits[bit(k0)] = 1
  <2>. HIDE DEF k0, cells, bits, free, bit
  <2>. QED
    BY <1>5, <1>6, <1>8, <1>9
<1>. QED
  BY <1>7, <1>10 DEF Sent

LEMMA DataNext == Staged /\ PatternInv /\ DataInv /\ [Next]_vars => DataInv'
<1>. SUFFICES ASSUME Staged, PatternInv, DataInv, [Next]_vars,
                     ver' \in 1 .. 6, stage' \in Masking
              PROVE  (\A m \in DataModules(Size(ver)) : m \in dark <=> Sent(m))'
  BY DEF DataInv
<1>1. CASE TryMask
  BY <1>1 DEF TryMask, NextMask, StageGoto, Masking, DataInv, Sent
<1>2. CASE PlaceData
  <2>1. UNCHANGED <<ver, interleaved>>
    BY <1>2 DEF PlaceData
  <2>. QED
    BY <1>2, <2>1, DataPlaced DEF Sent
<1>3. CASE UNCHANGED callVars
  BY <1>3 DEF callVars, DataInv, Sent
<1>4. CASE Stages /\ ~ TryMask /\ ~ PlaceData
  BY <1>4 DEF Stages, Call, SelectVersion, TextTooLong, UnsupportedChar, BuildBits,
     AddErrorCorrection, DrawFinders, DrawTiming, DrawAlignment,
     ReserveFormat, Return, StageGoto, Masking
<1>. QED
  BY <1>1, <1>2, <1>3, <1>4 DEF Next, FillTables, vars

LEMMA DataInvAlways == Spec => []DataInv
<1>1. Init => DataInv
  BY DEF Init, DataInv, Masking
<1>. QED
  BY <1>1, DataNext, StagedAlways, PatternInvAlways, PTL DEF Spec

\* For all texts that versions 1 to 6 take, and for texts that none takes: every
\* bit of the codewords arrives at the scanner (the scan that places the data,
\* `func', maskCondition and placeFmt).
THEOREM EveryBitArrives ==
  ASSUME \A t \in Texts : Len(t) <= ALPHA_MAX[6] \/ Len(t) > ALPHA_MAX[10]
  PROVE  Spec => []ScannerReadsBits
<1>1. Staged /\ MaskInv /\ PatternInv /\ TextInv /\ DataInv => ScannerReadsBits
  <2>. SUFFICES ASSUME Staged, MaskInv, PatternInv, TextInv, DataInv, stage = "done"
                PROVE  ScannerReadsBits
    BY DEF ScannerReadsBits
  <2>. DEFINE n == Size(ver)
              data == DataModules(n)
  <2>1. ver \in 1 .. 6
    BY TextsAreSmall
  <2>2. n \in Nat /\ 21 <= n
    BY <2>1 DEF Size
  <2>3. func = Patterns(ver) \cup FormatModules(n)
    BY <2>1 DEF PatternInv
  <2>4. PICK k \in 0 .. 7 : best = Candidate(k)
    BY DEF MaskInv, Masking, CheapestSoFar, Staged
  <2>5. data = Grid(n) \ func
    BY <2>1, <2>3, DataModulesFree
  <2>6. ASSUME NEW i \in 0 .. 14
        PROVE  SecondFormatModule(n, i) \in best <=> FormatBit(FMT_M[k + 1], i)
    BY <2>2, <2>4, FormatReadBack DEF Candidate
  <2>7. ASSUME NEW m \in data
        PROVE  Inverted(k, m[1], m[2]) <=> ~ (m \in best <=> Sent(m))
    <3>1. m = <<m[1], m[2]>> /\ m[1] \in Nat /\ m[2] \in Nat
      BY <2>2, <2>5, CoordinatesInGrid
    <3>2. Inverted(k, m[1], m[2]) <=> maskCondition(k, m)
      BY <3>1, MasksOfStandard
    <3>3. m \in best <=> ~ (m \in dark <=> maskCondition(k, m))
      BY <2>1, <2>3, <2>4, <2>5, CandidateShowsData
    <3>4. m \in dark <=> Sent(m)
      BY <2>1 DEF DataInv, Masking
    <3>. QED
      BY <3>2, <3>3, <3>4
  <2>. QED
    BY <2>6, <2>7 DEF ScannerReadsBits, Sent
<1>. QED
  BY <1>1, StagedAlways, MaskInvAlways, PatternInvAlways, TextInvAlways,
     DataInvAlways, PTL
=============================================================================
