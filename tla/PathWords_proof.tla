--------------------------- MODULE PathWords_proof ---------------------------
(***************************************************************************)
(* Proofs about PathWords, for every image, region, entry, machine setting *)
(* and size of path and buffer: rows stay pairs, in the region and in      *)
(* order, start at the entry, are converted to the nearest 0.1 mm and      *)
(* decode from their words; GO sends what was shown; nothing is extracted  *)
(* beyond the outlines.                                                    *)
(***************************************************************************)
EXTENDS PathWords, GluePath_proof

\* The rows shown are always the stored rows, converted; the words always encode the
\* rows they were made from.
Derived ==
    /\ hmi = Convert(path, used)
    /\ words # NoWords =>
           /\ words = WordsOf(words.from)
           /\ \A i \in Rows(words.from) : words.from.left[i].y = words.from.right[i].y

-----------------------------------------------------------------------------
(* Arithmetic. *)

\* toSignedReg followed by the journal's signed_int16 is saturation to INT16.
LEMMA RegRoundTrip ==
    ASSUME NEW v \in Int
    PROVE  SignedInt16(ToSignedReg(v)) = Saturated(v)
BY DEF SignedInt16, ToSignedReg, Saturated, Lesser, Greater

\* What is written fits the register.
LEMMA RegIsWord == ASSUME NEW v \in Int PROVE ToSignedReg(v) \in Word
BY DEF ToSignedReg, Lesser, Greater, Word

\* The same for a value that is negated afterwards.
LEMMA NegatedRound ==
    ASSUME NEW a \in Int, NEW b \in Nat \ {0}
    PROVE  2 * ((-Round(-a, b)) * b - a) \in -b .. b
<1>1. Round(-a, b) \in Int /\ 2 * (Round(-a, b) * b - (-a)) \in -b .. b
  BY RoundIsNearest
<1>2. (-Round(-a, b)) * b = -(Round(-a, b) * b)
  BY <1>1
<1>3. Round(-a, b) * b \in Int
  BY <1>1
<1> QED BY <1>1, <1>2, <1>3

-----------------------------------------------------------------------------
(* Derived is an invariant: it is stored where its parts are computed. *)

LEMMA DerivedInit == WordsInit => Derived
BY DEF WordsInit, Derived, Convert, Rows, NoPath, NoWords

LEMMA RebuildDerives == \A p : Rebuild(p) => hmi' = Convert(path', used')
BY DEF Rebuild

\* Both sides of a converted row have one height.
LEMMA OneHeight ==
    \A p, m : \A i \in Rows(Convert(p, m)) :
        Convert(p, m).left[i].y = Convert(p, m).right[i].y
BY DEF Convert, Rows, ToHmi

LEMMA DerivedStep == Derived /\ [WordsNext]_wordVars => Derived'
<1> SUFFICES ASSUME Derived, [WordsNext]_wordVars PROVE Derived'
  OBVIOUS
<1>1. CASE ToolPath
  <2>1. PICK s \in SortedByY(Normalize(raw')) : Rebuild(Normalize(Filter(s)))
    BY <1>1 DEF ToolPath
  <2> QED BY <2>1, <1>1, RebuildDerives DEF ToolPath, Derived, WordsOf, Rows
<1>2. CASE ChangeMachine
  BY <1>2 DEF ChangeMachine, Derived, Convert, ToHmi, Rows, WordsOf
<1>3. CASE Go
  <2>1. hmi' = Convert(path', used') /\ words' = WordsOf(hmi')
    BY <1>3, RebuildDerives DEF Go
  <2>2. words'.from = hmi'
    BY <2>1 DEF WordsOf
  <2>3. \A i \in DOMAIN hmi'.right : hmi'.left[i].y = hmi'.right[i].y
    BY <2>1, OneHeight DEF Rows
  <2> QED BY <2>1, <2>2, <2>3 DEF Derived, WordsOf, Rows
<1>4. CASE UNCHANGED wordVars
  BY <1>4 DEF wordVars, Derived, Convert, ToHmi, Rows, WordsOf
<1> QED BY <1>1, <1>2, <1>3, <1>4 DEF WordsNext

-----------------------------------------------------------------------------
(* The words. *)

LEMMA LesserIndex ==
    ASSUME NEW n \in Nat \ {0}, NEW i \in Nat \ {0}
    PROVE  Lesser(i, n) \in 1 .. n
BY DEF Lesser

\* Word i of an axis of n values: the i-th value, or the last one.
LEMMA AxisWord ==
    ASSUME NEW n \in Nat \ {0}, NEW v, v \in [1 .. n -> Int],
           NEW i \in 1 .. BufferPoints
    PROVE  Axis(v)[i] = ToSignedReg(v[Lesser(i, n)])
<1> DEFINE r == [j \in 1 .. n |-> ToSignedReg(v[j])]
<1>1. v \in Seq(Int) /\ Len(v) = n
  BY SeqDef, LenProperties
<1>2. \A j \in 1 .. n : ToSignedReg(v[j]) \in Int
  BY DEF ToSignedReg, Lesser, Greater
<1>3. r \in Seq(Int) /\ Len(r) = n
  <2>1. r \in [1 .. n -> Int]
    BY <1>2
  <2> HIDE DEF r
  <2> QED BY <2>1, SeqDef, LenProperties
<1>4. Axis(v) = Padded(r)
  BY <1>1 DEF Axis
<1>5. i \in Nat \ {0}
  BY SizeAssumption
<1>6. Lesser(i, n) \in 1 .. n
  BY <1>5, LesserIndex
<1>7. Padded(r)[i] = r[Lesser(i, n)]
  BY <1>3 DEF Padded
<1> QED BY <1>4, <1>6, <1>7

\* The words of well-formed rows decode to the rows, saturated.
LEMMA RowsDecode ==
    ASSUME NEW h, h \in Sides, Len(h.left) = Len(h.right), Len(h.right) \in 1 .. MaxPoints,
           NEW i \in 1 .. BufferPoints
    PROVE  LET w == WordsOf(h)
               k == Lesser(i, Len(h.right))
           IN  /\ SignedInt16(w.x1[i]) = Saturated(-h.left[k].x)
               /\ SignedInt16(w.x2[i]) = Saturated(h.right[k].x)
               /\ SignedInt16(w.y[i]) = Saturated(h.left[k].y)
<1> DEFINE n == Len(h.right)
           k == Lesser(i, n)
           x1 == [j \in 1 .. n |-> -h.left[j].x]
           y  == [j \in 1 .. n |-> h.left[j].y]
           x2 == [j \in 1 .. n |-> h.right[j].x]
<1>1. n \in Nat \ {0} /\ i \in Nat \ {0}
  BY GlueAssumption, SizeAssumption
<1>2. \A j \in 1 .. n : h.left[j] \in Point /\ h.right[j] \in Point
  BY DEF Sides
<1>3. k \in 1 .. n
  BY <1>1, LesserIndex
<1>4. x1 \in [1 .. n -> Int] /\ y \in [1 .. n -> Int] /\ x2 \in [1 .. n -> Int]
  BY <1>2 DEF Point
<1>5. Rows(h) = 1 .. n
  BY DEF Rows, Sides
<1>6. /\ WordsOf(h).x1 = Axis(x1)
      /\ WordsOf(h).y = Axis(y)
      /\ WordsOf(h).x2 = Axis(x2)
  BY <1>5 DEF WordsOf
<1>7. x1[k] = -h.left[k].x /\ y[k] = h.left[k].y /\ x2[k] = h.right[k].x
  BY <1>3
<1>8. x1[k] \in Int /\ y[k] \in Int /\ x2[k] \in Int
  BY <1>3, <1>4
<1> HIDE DEF n, x1, y, x2
<1>9. /\ Axis(x1)[i] = ToSignedReg(x1[k])
      /\ Axis(y)[i] = ToSignedReg(y[k])
      /\ Axis(x2)[i] = ToSignedReg(x2[k])
  BY <1>1, <1>4, AxisWord
<1> HIDE DEF k
<1>10. /\ SignedInt16(ToSignedReg(x1[k])) = Saturated(x1[k])
       /\ SignedInt16(ToSignedReg(y[k])) = Saturated(y[k])
       /\ SignedInt16(ToSignedReg(x2[k])) = Saturated(x2[k])
  BY <1>8, RegRoundTrip
<1>11. /\ SignedInt16(WordsOf(h).x1[i]) = Saturated(-h.left[k].x)
       /\ SignedInt16(WordsOf(h).y[i]) = Saturated(h.left[k].y)
       /\ SignedInt16(WordsOf(h).x2[i]) = Saturated(h.right[k].x)
  BY <1>6, <1>7, <1>9, <1>10
<1> QED BY <1>11 DEF k, n

LEMMA WordsStep == Derived /\ WordsTypeOK => WordsDecode
<1> SUFFICES ASSUME Derived, WordsTypeOK, words # NoWords, NEW i \in 1 .. BufferPoints
             PROVE  LET h == words.from
                        k == Lesser(i, Len(h.right))
                    IN  /\ SignedInt16(words.x1[i]) = Saturated(-h.left[k].x)
                        /\ SignedInt16(words.y[i]) = Saturated(h.right[k].y)
                        /\ SignedInt16(words.x2[i]) = Saturated(h.right[k].x)
  BY DEF WordsDecode
<1> DEFINE h == words.from
           k == Lesser(i, Len(h.right))
<1>1. /\ h \in Sides
      /\ Len(h.left) = Len(h.right)
      /\ Len(h.right) \in 1 .. MaxPoints
  BY DEF WordsTypeOK
<1>2. k \in 1 .. Len(h.right)
  <2>1. Len(h.right) \in Nat \ {0} /\ i \in Nat \ {0}
    BY <1>1, GlueAssumption, SizeAssumption
  <2> QED BY <2>1, LesserIndex
<1>3. h.left[k].y = h.right[k].y
  BY <1>1, <1>2 DEF Derived, Rows, Sides
<1>4. words = WordsOf(h)
  BY DEF Derived
<1> HIDE DEF h
<1>5. LET w == WordsOf(h)
      IN  /\ SignedInt16(w.x1[i]) = Saturated(-h.left[k].x)
          /\ SignedInt16(w.x2[i]) = Saturated(h.right[k].x)
          /\ SignedInt16(w.y[i]) = Saturated(h.left[k].y)
  BY <1>1, RowsDecode
<1> QED BY <1>3, <1>4, <1>5 DEF h

-----------------------------------------------------------------------------
(* Rounding. *)

\* A point turned by a quarter and scaled is, turned back, near the point.
LEMMA HmiIsNear ==
    ASSUME NEW p \in Point, NEW m \in Machines
    PROVE  LET c == Cos(m.quarter)
               s == Sin(m.quarter)
               h == ToHmi(p, m)
           IN  /\ Near(h.x * c + h.y * s, p.x - Ref.x * Grain, m)
               /\ Near(h.y * c - h.x * s, p.y - Ref.y * Grain, m)
<1> DEFINE cx == p.x - Ref.x * Grain
           cy == p.y - Ref.y * Grain
           b  == Grain * m.den
<1>1. /\ m.quarter \in 0 .. 3 /\ m.num \in Nat \ {0} /\ m.den \in Nat \ {0}
      /\ Grain \in Nat \ {0}
  BY GlueAssumption, SizeAssumption
<1>2. cx \in Int /\ cy \in Int /\ b \in Nat \ {0}
  <2>1. Ref.x \in Int /\ Ref.y \in Int /\ p.x \in Int /\ p.y \in Int
    BY SizeAssumption DEF Point
  <2> QED BY <1>1, <2>1
<1> HIDE DEF cx, cy, b
<1> DEFINE X == cx * m.num
           Y == cy * m.num
<1>3. X \in Int /\ Y \in Int /\ (-cx) * m.num = -X /\ (-cy) * m.num = -Y
  BY <1>1, <1>2
<1>4. /\ ToHmi(p, m).x = Round((cx * Cos(m.quarter) - cy * Sin(m.quarter)) * m.num, b)
      /\ ToHmi(p, m).y = Round((cx * Sin(m.quarter) + cy * Cos(m.quarter)) * m.num, b)
  BY DEF ToHmi, cx, cy, b
<1>5. \A v : /\ Near(v, cx, m) <=> 2 * (v * Grain * m.den - X) \in -b .. b
             /\ Near(v, cy, m) <=> 2 * (v * Grain * m.den - Y) \in -b .. b
  BY DEF Near, b
<1>6. \A v \in Int : v * Grain * m.den = v * b
  BY <1>1 DEF b
<1>7. \A z \in {X, Y, -X, -Y} :
        /\ Round(z, b) \in Int
        /\ 2 * (Round(z, b) * b - z) \in -b .. b
        /\ 2 * ((-Round(-z, b)) * b - z) \in -b .. b
  BY <1>2, <1>3, RoundIsNearest, NegatedRound
<1>8. CASE m.quarter = 0
  <2>1. ToHmi(p, m).x = Round(X, b) /\ ToHmi(p, m).y = Round(Y, b)
    BY <1>2, <1>3, <1>4, <1>8 DEF Cos, Sin
  <2> QED BY <1>5, <1>6, <1>7, <1>8, <2>1 DEF Cos, Sin, cx, cy
<1>9. CASE m.quarter = 1
  <2>1. ToHmi(p, m).x = Round(-Y, b) /\ ToHmi(p, m).y = Round(X, b)
    BY <1>2, <1>3, <1>4, <1>9 DEF Cos, Sin
  <2> QED BY <1>3, <1>5, <1>6, <1>7, <1>9, <2>1 DEF Cos, Sin, cx, cy
<1>10. CASE m.quarter = 2
  <2>1. ToHmi(p, m).x = Round(-X, b) /\ ToHmi(p, m).y = Round(-Y, b)
    BY <1>2, <1>3, <1>4, <1>10 DEF Cos, Sin
  <2> QED BY <1>3, <1>5, <1>6, <1>7, <1>10, <2>1 DEF Cos, Sin, cx, cy
<1>11. CASE m.quarter = 3
  <2>1. ToHmi(p, m).x = Round(Y, b) /\ ToHmi(p, m).y = Round(-X, b)
    BY <1>2, <1>3, <1>4, <1>11 DEF Cos, Sin
  <2> QED BY <1>3, <1>5, <1>6, <1>7, <1>11, <2>1 DEF Cos, Sin, cx, cy
<1> QED BY <1>1, <1>8, <1>9, <1>10, <1>11

\* Along the X axis of the machine the command is near the point, without turning back.
LEMMA XIsNear ==
    ASSUME NEW p \in Point, NEW m \in Machines
    PROVE  Near(ToHmi(p, m).x, (p.x - Ref.x * Grain) * Cos(m.quarter)
                                   - (p.y - Ref.y * Grain) * Sin(m.quarter), m)
<1> DEFINE e == (p.x - Ref.x * Grain) * Cos(m.quarter) - (p.y - Ref.y * Grain) * Sin(m.quarter)
           b == Grain * m.den
<1>1. /\ m.num \in Nat \ {0} /\ m.den \in Nat \ {0} /\ Grain \in Nat \ {0}
      /\ Ref.x \in Int /\ Ref.y \in Int /\ p.x \in Int /\ p.y \in Int
  BY GlueAssumption, SizeAssumption DEF Point
<1>2. Cos(m.quarter) \in Int /\ Sin(m.quarter) \in Int
  BY DEF Cos, Sin
<1>3. e \in Int
  <2> DEFINE cx == p.x - Ref.x * Grain
             cy == p.y - Ref.y * Grain
  <2>1. cx \in Int /\ cy \in Int
    BY <1>1
  <2> HIDE DEF cx, cy
  <2>2. cx * Cos(m.quarter) - cy * Sin(m.quarter) \in Int
    BY <1>2, <2>1
  <2> QED BY <2>2 DEF cx, cy
<1>4. ToHmi(p, m).x = Round(e * m.num, b)
  BY DEF ToHmi
<1> HIDE DEF e
<1>5. e * m.num \in Int /\ b \in Nat \ {0}
  BY <1>1, <1>3
<1>6. /\ Round(e * m.num, b) \in Int
      /\ 2 * (Round(e * m.num, b) * b - e * m.num) \in -b .. b
  BY <1>5, RoundIsNearest
<1>7. Round(e * m.num, b) * Grain * m.den = Round(e * m.num, b) * b
  BY <1>1, <1>6
<1>8. Near(ToHmi(p, m).x, e, m)
  BY <1>4, <1>6, <1>7 DEF Near
<1> QED BY <1>8 DEF e

LEMMA RoundsStep == Derived /\ WordsTypeOK => RoundsToNearest
<1> SUFFICES ASSUME Derived, WordsTypeOK, NEW i \in Rows(path)
             PROVE  LET c     == Cos(used.quarter)
                        s     == Sin(used.quarter)
                        left  == hmi.left[i]
                        right == hmi.right[i]
                    IN  /\ Near(right.x * c + right.y * s, path.right[i].x - Ref.x * Grain, used)
                        /\ Near(right.y * c - right.x * s, path.right[i].y - Ref.y * Grain, used)
                        /\ Near(left.x, (path.left[i].x - Ref.x * Grain) * c
                                           - (path.left[i].y - Ref.y * Grain) * s, used)
                        /\ left.y = right.y
  BY DEF RoundsToNearest
<1>1. hmi.right[i] = ToHmi(path.right[i], used)
  BY DEF Derived, Convert
<1>2. hmi.left[i] = [ToHmi(path.left[i], used) EXCEPT !.y = hmi.right[i].y]
  BY <1>1 DEF Derived, Convert
<1>3. hmi.left[i].x = ToHmi(path.left[i], used).x /\ hmi.left[i].y = hmi.right[i].y
  BY <1>2 DEF ToHmi
<1>4. path.right[i] \in Point /\ path.left[i] \in Point /\ used \in Machines
  BY DEF WordsTypeOK, Rows, Sides
<1> QED BY <1>1, <1>3, <1>4, HmiIsNear, XIsNear

-----------------------------------------------------------------------------
(* Paths with two sides of equal length. *)

\* Both points of a row are at one height.
LevelSides ==
    {p \in EvenSides : \A i \in 1 .. Len(p.right) : p.left[i].y = p.right[i].y}

LEMMA EvenRows ==
    ASSUME NEW p \in EvenSides
    PROVE  /\ Len(p.right) \in Nat /\ Len(p.right) <= MaxPoints /\ Len(p.left) = Len(p.right)
           /\ p.left \in Seq(Point) /\ p.right \in Seq(Point)
           /\ Rows(p) = 1 .. Len(p.right) /\ DOMAIN p.left = Rows(p)
           /\ p.left \in [Rows(p) -> Point] /\ p.right \in [Rows(p) -> Point]
           /\ \A i \in Rows(p) : /\ p.left[i] \in Point /\ p.right[i] \in Point
                                 /\ p.left[i].x \in Int /\ p.left[i].y \in Int
                                 /\ p.right[i].x \in Int /\ p.right[i].y \in Int
<1>1. /\ p.left \in Seq(Point) /\ p.right \in Seq(Point)
      /\ Len(p.right) <= MaxPoints /\ Len(p.left) = Len(p.right)
  BY DEF EvenSides, Sides
<1>2. /\ Len(p.right) \in Nat /\ Rows(p) = 1 .. Len(p.right)
      /\ DOMAIN p.left = 1 .. Len(p.left)
  BY <1>1, LenProperties DEF Rows
<1>3. p.left \in [1 .. Len(p.left) -> Point] /\ p.right \in [1 .. Len(p.right) -> Point]
  BY <1>1, LenProperties
<1>4. \A i \in Rows(p) : p.left[i] \in Point /\ p.right[i] \in Point
  BY <1>1, <1>2, <1>3
<1> QED BY <1>1, <1>2, <1>3, <1>4 DEF Point

\* A record of two functions on the same rows is a path.
LEMMA MakeEven ==
    ASSUME NEW n \in Nat, n <= MaxPoints, NEW l \in [1 .. n -> Point], NEW r \in [1 .. n -> Point],
           NEW p, p = [left |-> l, right |-> r]
    PROVE  p \in EvenSides /\ Len(p.right) = n /\ Rows(p) = 1 .. n
<1>1. l \in Seq(Point) /\ r \in Seq(Point)
  BY SeqDef
<1>2. Len(l) = n /\ Len(r) = n
  BY <1>1, LenProperties
<1>3. p \in EvenSides /\ Len(p.right) = n
  BY <1>1, <1>2 DEF EvenSides, Sides
<1> QED BY <1>3, EvenRows

LEMMA SamePath ==
    ASSUME NEW p \in EvenSides, NEW q \in EvenSides, Len(p.right) = Len(q.right),
           \A i \in 1 .. Len(p.right) : p.left[i] = q.left[i] /\ p.right[i] = q.right[i]
    PROVE  p = q
<1>1. /\ p.left \in [Rows(p) -> Point] /\ p.right \in [Rows(p) -> Point] /\ Rows(p) = 1 .. Len(p.right)
      /\ q.left \in [Rows(p) -> Point] /\ q.right \in [Rows(p) -> Point]
  BY EvenRows
<1>2. p.left = q.left /\ p.right = q.right
  BY <1>1
<1>3. p \in Sides /\ q \in Sides
  BY DEF EvenSides
<1> QED BY <1>2, <1>3 DEF Sides

\* A side that is long enough is not extended.
LEMMA ExtendKeeps ==
    ASSUME NEW side, Len(side) \in Nat, NEW other, NEW n \in Nat, n <= Len(side)
    PROVE  Extend(side, other, n) = side
<1> DEFINE L == Len(side)
           More(g, k) == Append(g[k - 1], PointAtY(g[k - 1], other[Lesser(k, Len(other))].y))
           Rec(g) == g = [k \in L .. Greater(L, n) |-> IF k = L THEN side ELSE More(g, k)]
           grown  == CHOOSE g : Rec(g)
<1>1. Greater(L, n) = L
  BY DEF Greater
<1>2. Extend(side, other, n) = grown[Greater(L, n)]
  BY Zenon DEF Extend
<1> HIDE DEF L, More
<1>3. \E g : Rec(g)
  <2> DEFINE g == [k \in L .. L |-> side]
  <2>1. \A k \in L .. L : k = L
    BY DEF L
  <2>2. Rec(g)
    BY <1>1, <2>1
  <2> QED BY <2>2
<1>4. Rec(grown)
  BY <1>3
<1> HIDE DEF grown
<1>5. L \in L .. Greater(L, n)
  BY <1>1 DEF L
<1>6. grown[L] = side
  BY <1>4, <1>5
<1> QED BY <1>1, <1>2, <1>6

\* Normalising a path with equal sides puts every left point at the height of its
\* right point, and does nothing more.
LEMMA NormalizeLevels ==
    ASSUME NEW p \in EvenSides
    PROVE  /\ Normalize(p) \in LevelSides
           /\ Len(Normalize(p).right) = Len(p.right)
           /\ \A i \in 1 .. Len(p.right) : /\ Normalize(p).right[i] = p.right[i]
                                           /\ Normalize(p).left[i].x = p.left[i].x
                                           /\ Normalize(p).left[i].y = p.right[i].y
<1> DEFINE n == Len(p.right)
           left  == Extend(p.left, p.right, n)
           right == Extend(p.right, p.left, n)
           level == [i \in 1 .. n |-> [p.left[i] EXCEPT !.y = p.right[i].y]]
           q == Normalize(p)
<1>1. /\ n \in Nat /\ n <= MaxPoints /\ MaxPoints \in Nat /\ Len(p.left) = n
      /\ p.left \in Seq(Point) /\ p.right \in Seq(Point)
      /\ p.right \in [1 .. n -> Point]
      /\ \A i \in 1 .. n : /\ p.left[i] \in Point /\ p.right[i] \in Point
                           /\ p.right[i].y \in Int
  BY EvenRows, GlueAssumption
<1>2. CASE n = 0
  <2>1. p.right = << >>
    BY <1>1, <1>2, EmptySeq
  <2>2. q = NoPath
    BY <2>1 DEF Normalize
  <2>3. q \in EvenSides /\ Len(q.right) = 0
    BY <2>2, NoPathIsEven DEF NoPath
  <2> QED BY <1>2, <2>3 DEF LevelSides
<1>3. CASE n # 0
  <2>1. p.left # << >> /\ p.right # << >>
    BY <1>1, <1>3, EmptySeq
  <2>2. Lesser(MaxPoints, Greater(Len(p.left), Len(p.right))) = n
    BY <1>1 DEF Lesser, Greater
  <2>3. left = p.left /\ right = p.right
    BY <1>1, ExtendKeeps
  <2>4. q = [left  |-> [i \in 1 .. n |-> [p.left[i] EXCEPT !.y = p.right[i].y]],
             right |-> SubSeq(p.right, 1, n)]
    <3>1. q = [left  |-> [i \in 1 .. n |-> [left[i] EXCEPT
                                !.y = Extend(p.right, left, n)[i].y]],
               right |-> SubSeq(Extend(p.right, left, n), 1, n)]
      <4> DEFINE m == Lesser(MaxPoints, Greater(Len(p.left), Len(p.right)))
      <4>1. m = n
        BY <2>2
      <4>2. q = [left  |-> [i \in 1 .. m |-> [Extend(p.left, p.right, m)[i] EXCEPT
                               !.y = Extend(p.right, Extend(p.left, p.right, m), m)[i].y]],
                 right |-> SubSeq(Extend(p.right, Extend(p.left, p.right, m), m), 1, m)]
        BY <2>1, Zenon DEF Normalize
      <4> HIDE DEF m, n, q
      <4> QED BY <4>1, <4>2, Zenon
    <3> HIDE DEF q, n
    <3>2. left = p.left /\ Extend(p.right, left, n) = p.right
      BY <2>3
    <3> QED BY <3>1, <3>2, Zenon
  <2> HIDE DEF q, n
  <2>5. SubSeq(p.right, 1, n) = p.right
    <3>1. /\ SubSeq(p.right, 1, n) \in Seq(Point) /\ Len(SubSeq(p.right, 1, n)) = n - 1 + 1
          /\ \A i \in 1 .. n - 1 + 1 : SubSeq(p.right, 1, n)[i] = p.right[1 + i - 1]
      BY <1>1, <1>3, PartOfSeq DEF n
    <3> DEFINE w == SubSeq(p.right, 1, n)
    <3>2. w \in Seq(Point) /\ Len(w) = n /\ \A i \in 1 .. n : w[i] = p.right[i]
      <4> HIDE DEF w
      <4> SUFFICES /\ n - 1 + 1 = n /\ \A i \in 1 .. n : 1 + i - 1 = i
        BY <3>1 DEF w
      <4> QED BY <1>1
    <3> HIDE DEF w
    <3>3. w \in [1 .. n -> Point]
      BY <3>2, LenProperties
    <3>4. w = p.right
      BY <1>1, <3>2, <3>3
    <3> QED BY <3>4 DEF w
  <2>6. level \in [1 .. n -> Point]
    BY <1>1 DEF Point
  <2>7. \A i \in 1 .. n : level[i].x = p.left[i].x /\ level[i].y = p.right[i].y
    BY <1>1 DEF Point
  <2>8. q = [left |-> level, right |-> p.right]
    BY <2>4, <2>5
  <2> HIDE DEF level
  <2>9. q \in EvenSides /\ Len(q.right) = n
    BY <1>1, <2>6, <2>8, MakeEven
  <2>10. \A i \in 1 .. n : /\ q.right[i] = p.right[i]
                           /\ q.left[i].x = p.left[i].x /\ q.left[i].y = p.right[i].y
    BY <2>7, <2>8
  <2> QED BY <2>9, <2>10 DEF LevelSides, n, q
<1> QED BY <1>2, <1>3

\* Normalising once more changes nothing.
LEMMA NormalizeAgain ==
    ASSUME NEW p \in LevelSides
    PROVE  Normalize(p) = p
<1> DEFINE q == Normalize(p)
           n == Len(p.right)
<1>1. p \in EvenSides /\ \A i \in 1 .. n : p.left[i].y = p.right[i].y
  BY DEF LevelSides
<1>2. /\ q \in EvenSides /\ Len(q.right) = n
      /\ \A i \in 1 .. n : /\ q.right[i] = p.right[i]
                           /\ q.left[i].x = p.left[i].x /\ q.left[i].y = p.right[i].y
  BY <1>1, NormalizeLevels DEF LevelSides
<1> HIDE DEF q, n
<1>3. \A i \in 1 .. n : p.left[i] \in Point /\ q.left[i] \in Point
  BY <1>1, <1>2, EvenRows DEF n
<1>4. \A a, b \in Point : a.x = b.x /\ a.y = b.y => a = b
  BY DEF Point
<1>5. \A i \in 1 .. n : q.left[i] = p.left[i]
  BY <1>1, <1>2, <1>3, <1>4
<1> QED BY <1>1, <1>2, <1>5, SamePath DEF n, q

\* Sorting moves whole rows.
LEMMA SortMovesRows ==
    ASSUME NEW p \in LevelSides, NEW s \in SortedByY(p)
    PROVE  /\ s \in LevelSides
           /\ \A i \in Rows(s) : \E j \in Rows(p) : s.left[i] = p.left[j] /\ s.right[i] = p.right[j]
           /\ \A i, j \in Rows(s) : i < j => s.right[i].y <= s.right[j].y
<1> DEFINE n == Len(p.right)
<1>1. /\ p \in EvenSides /\ n \in Nat /\ n <= MaxPoints /\ Rows(p) = 1 .. n
      /\ \A i \in 1 .. n : /\ p.left[i] \in Point /\ p.right[i] \in Point
                           /\ p.left[i].y \in Int /\ p.right[i].y \in Int
                           /\ p.left[i].y = p.right[i].y
  <2>1. p \in EvenSides /\ \A i \in 1 .. n : p.left[i].y = p.right[i].y
    BY DEF LevelSides
  <2> QED BY <2>1, EvenRows
<1> HIDE DEF n
<1>2. CASE p = NoPath
  <2>1. s = p
    BY <1>2 DEF SortedByY
  <2>2. Rows(p) = {}
    BY <1>2 DEF NoPath, Rows
  <2> QED BY <2>1, <2>2
<1>3. CASE p # NoPath
  <2> DEFINE lefts(o)  == [i \in Rows(p) |-> p.left[o[i]]]
             rights(o) == [i \in Rows(p) |-> p.right[o[i]]]
  <2>1. PICK o \in Orders(p) : s = [left |-> lefts(o), right |-> rights(o)]
    BY <1>3 DEF SortedByY
  <2>2. /\ o \in [1 .. n -> 1 .. n]
        /\ \A i, j \in 1 .. n : i < j =>
              p.right[o[i]].y + p.left[o[i]].y <= p.right[o[j]].y + p.left[o[j]].y
    <3>1. o \in Bijection(1 .. n, 1 .. n)
      BY <1>1 DEF Orders
    <3>2. o \in [1 .. n -> 1 .. n]
      BY <3>1, Fun_BijectionProperties
    <3> QED BY <1>1, <3>2 DEF Orders
  <2>3. lefts(o) \in [1 .. n -> Point] /\ rights(o) \in [1 .. n -> Point]
    BY <1>1, <2>2
  <2>4. \A i \in 1 .. n : /\ lefts(o)[i] = p.left[o[i]] /\ rights(o)[i] = p.right[o[i]]
                          /\ o[i] \in 1 .. n
    BY <1>1, <2>2
  <2> HIDE DEF lefts, rights
  <2>5. s \in EvenSides /\ Len(s.right) = n /\ Rows(s) = 1 .. n
    BY <1>1, <2>1, <2>3, MakeEven
  <2>6. \A i \in 1 .. n : /\ s.left[i] = p.left[o[i]] /\ s.right[i] = p.right[o[i]]
                          /\ o[i] \in 1 .. n
    BY <2>1, <2>4
  <2>7. \A i \in 1 .. n : s.left[i].y = s.right[i].y
    BY <1>1, <2>6
  <2>8. s \in LevelSides
    BY <2>5, <2>7 DEF LevelSides
  <2>9. ASSUME NEW i \in 1 .. n, NEW j \in 1 .. n, i < j PROVE s.right[i].y <= s.right[j].y
    <3> DEFINE a == p.right[o[i]].y
               b == p.right[o[j]].y
    <3>1. p.left[o[i]].y = a /\ p.left[o[j]].y = b /\ a \in Int /\ b \in Int
      BY <1>1, <2>6
    <3>2. a + p.left[o[i]].y <= b + p.left[o[j]].y
      BY <2>2, <2>9
    <3>3. s.right[i].y = a /\ s.right[j].y = b
      BY <2>6
    <3> HIDE DEF a, b
    <3>4. a + a <= b + b
      BY <3>1, <3>2
    <3> QED BY <3>1, <3>3, <3>4
  <2> QED BY <1>1, <2>5, <2>6, <2>8, <2>9
<1> QED BY <1>2, <1>3

\* Clipping keeps some rows, in order, all of them inside the region.
LEMMA FilterKeepsRows ==
    ASSUME NEW p \in LevelSides, \A i, j \in Rows(p) : i < j => p.right[i].y <= p.right[j].y
    PROVE  LET q == Filter(p)
           IN  /\ q \in LevelSides
               /\ \A i \in Rows(q) : \E j \in Rows(p) : q.left[i] = p.left[j] /\ q.right[i] = p.right[j]
               /\ \A i \in Rows(q) : InsideRoi(q.left[i]) /\ InsideRoi(q.right[i])
               /\ \A i, j \in Rows(q) : i < j => q.right[i].y <= q.right[j].y
<1> DEFINE rows == {i \in Rows(p) : InsideRoi(p.right[i]) /\ InsideRoi(p.left[i])}
           kept == Ascending(rows)
           m    == Cardinality(rows)
           n    == Lesser(MaxPoints, Len(kept))
           l    == [i \in 1 .. n |-> p.left[kept[i]]]
           r    == [i \in 1 .. n |-> p.right[kept[i]]]
           q    == Filter(p)
<1> SUFFICES /\ q \in LevelSides
             /\ \A i \in Rows(q) : \E j \in Rows(p) : q.left[i] = p.left[j] /\ q.right[i] = p.right[j]
             /\ \A i \in Rows(q) : InsideRoi(q.left[i]) /\ InsideRoi(q.right[i])
             /\ \A i, j \in Rows(q) : i < j => q.right[i].y <= q.right[j].y
  OBVIOUS
<1>1. /\ p \in EvenSides /\ p.right \in Seq(Point) /\ Rows(p) = DOMAIN p.right
      /\ Rows(p) = 1 .. Len(p.right) /\ Len(p.right) \in Nat
      /\ \A i \in Rows(p) : /\ p.left[i] \in Point /\ p.right[i] \in Point
                            /\ p.left[i].y = p.right[i].y
  <2>1. p \in EvenSides /\ \A i \in 1 .. Len(p.right) : p.left[i].y = p.right[i].y
    BY DEF LevelSides
  <2> QED BY <2>1, EvenRows DEF Rows
<1>2. q = [left |-> l, right |-> r]
  BY Zenon DEF Filter, KeepRows
<1>3. \A i \in rows : i \in Rows(p) /\ InsideRoi(p.right[i]) /\ InsideRoi(p.left[i])
  OBVIOUS
<1> HIDE DEF rows, q
<1>4. /\ kept \in [1 .. m -> rows] /\ m \in Nat
      /\ \A i, j \in 1 .. m : i < j => kept[i] < kept[j]
  <2>1. rows \subseteq DOMAIN p.right
    BY <1>1, <1>3
  <2>2. m \in 0 .. Len(p.right)
    BY <1>1, <2>1, PickProperties
  <2> QED BY <1>1, <2>1, <2>2, PickProperties
<1> HIDE DEF m, kept
<1>5. Len(kept) = m
  <2>1. kept \in Seq(rows)
    BY <1>4, SeqDef
  <2> QED BY <1>4, <2>1, LenProperties
<1>6. n \in Nat /\ n <= MaxPoints /\ 1 .. n \subseteq 1 .. m
  BY <1>4, <1>5, GlueAssumption DEF Lesser
<1> HIDE DEF n
<1>7. \A i \in 1 .. n : /\ kept[i] \in Rows(p) /\ InsideRoi(p.right[kept[i]])
                        /\ InsideRoi(p.left[kept[i]])
                        /\ l[i] = p.left[kept[i]] /\ r[i] = p.right[kept[i]]
  BY <1>3, <1>4, <1>6
<1> HIDE DEF l, r
<1>8. l \in [1 .. n -> Point] /\ r \in [1 .. n -> Point]
  <2>1. l = [i \in 1 .. n |-> l[i]] /\ r = [i \in 1 .. n |-> r[i]]
    BY DEF l, r
  <2>2. \A i \in 1 .. n : l[i] \in Point /\ r[i] \in Point
    BY <1>1, <1>7
  <2> QED BY <2>1, <2>2
<1>9. q \in EvenSides /\ Len(q.right) = n /\ Rows(q) = 1 .. n
  BY <1>2, <1>6, <1>8, MakeEven
<1>10. q.left = l /\ q.right = r
  BY <1>2
<1>11. q \in LevelSides
  <2>1. \A i \in 1 .. n : q.left[i].y = q.right[i].y
    BY <1>1, <1>7, <1>10
  <2> QED BY <1>9, <2>1 DEF LevelSides
<1>12. ASSUME NEW i \in 1 .. n, NEW j \in 1 .. n, i < j PROVE r[i].y <= r[j].y
  <2>1. kept[i] < kept[j]
    BY <1>4, <1>6, <1>12
  <2>2. kept[i] \in Rows(p) /\ kept[j] \in Rows(p)
    BY <1>7
  <2>3. p.right[kept[i]].y <= p.right[kept[j]].y
    BY <2>1, <2>2
  <2> QED BY <1>7, <2>3
<1> QED BY <1>7, <1>9, <1>10, <1>11, <1>12

-----------------------------------------------------------------------------
(* What is converted and what is sent. *)

LEMMA HmiIsPoint ==
    ASSUME NEW p \in Point, NEW m \in Machines
    PROVE  ToHmi(p, m) \in Point
<1> DEFINE cx == p.x - Ref.x * Grain
           cy == p.y - Ref.y * Grain
           b  == Grain * m.den
           c  == Cos(m.quarter)
           s  == Sin(m.quarter)
<1>1. /\ m.quarter \in 0 .. 3 /\ m.num \in Nat \ {0} /\ m.den \in Nat \ {0}
      /\ Grain \in Nat \ {0}
  BY GlueAssumption, SizeAssumption
<1>2. cx \in Int /\ cy \in Int /\ b \in Nat \ {0}
  <2>1. Ref.x \in Int /\ Ref.y \in Int /\ p.x \in Int /\ p.y \in Int
    BY SizeAssumption DEF Point
  <2> QED BY <1>1, <2>1
<1>3. c \in Int /\ s \in Int
  BY DEF Cos, Sin
<1>4. ToHmi(p, m) = [x |-> Round((cx * c - cy * s) * m.num, b),
                     y |-> Round((cx * s + cy * c) * m.num, b)]
  BY Zenon DEF ToHmi
<1> HIDE DEF cx, cy, b, c, s
<1>5. (cx * c - cy * s) * m.num \in Int /\ (cx * s + cy * c) * m.num \in Int
  BY <1>1, <1>2, <1>3
<1>6. /\ Round((cx * c - cy * s) * m.num, b) \in Int
      /\ Round((cx * s + cy * c) * m.num, b) \in Int
  BY <1>2, <1>5, RoundIsNearest
<1> QED BY <1>4, <1>6 DEF Point

LEMMA ConvertIsLevel ==
    ASSUME NEW p \in EvenSides, NEW m \in Machines
    PROVE  Convert(p, m) \in LevelSides /\ Len(Convert(p, m).right) = Len(p.right)
<1> DEFINE n == Len(p.right)
           right == [i \in Rows(p) |-> ToHmi(p.right[i], m)]
           left  == [i \in Rows(p) |-> [ToHmi(p.left[i], m) EXCEPT !.y = right[i].y]]
           q == Convert(p, m)
<1>1. q = [left |-> left, right |-> right]
  BY Zenon DEF Convert
<1>2. /\ n \in Nat /\ n <= MaxPoints /\ Rows(p) = 1 .. n
      /\ \A i \in 1 .. n : p.left[i] \in Point /\ p.right[i] \in Point
  BY EvenRows
<1> HIDE DEF n, q
<1>3. \A i \in 1 .. n : ToHmi(p.left[i], m) \in Point /\ ToHmi(p.right[i], m) \in Point
  BY <1>2, HmiIsPoint
<1>4. right \in [1 .. n -> Point]
  BY <1>2, <1>3
<1>5. \A i \in 1 .. n : right[i].y \in Int
  BY <1>4 DEF Point
<1>6. \A i \in 1 .. n : left[i] = [ToHmi(p.left[i], m) EXCEPT !.y = right[i].y]
  BY <1>2
<1>7. \A a \in Point : \A v \in Int : [a EXCEPT !.y = v] \in Point /\ [a EXCEPT !.y = v].y = v
  BY DEF Point
<1> HIDE DEF right
<1>8. ASSUME NEW i \in 1 .. n PROVE left[i] \in Point /\ left[i].y = right[i].y
  <2> DEFINE a == ToHmi(p.left[i], m)
             v == right[i].y
  <2>1. a \in Point /\ v \in Int
    BY <1>3, <1>5
  <2>2. left[i] = [a EXCEPT !.y = v]
    BY <1>6
  <2> HIDE DEF a, v, left
  <2>3. [a EXCEPT !.y = v] \in Point /\ [a EXCEPT !.y = v].y = v
    BY <1>7, <2>1
  <2> QED BY <2>2, <2>3 DEF v
<1>9. left \in [1 .. n -> Point]
  <2>1. left = [i \in 1 .. n |-> left[i]]
    BY <1>2
  <2> HIDE DEF left
  <2> QED BY <1>8, <2>1
<1> HIDE DEF left
<1>10. q \in EvenSides /\ Len(q.right) = n
  BY <1>1, <1>2, <1>4, <1>9, MakeEven
<1>11. \A i \in 1 .. n : q.left[i].y = q.right[i].y
  BY <1>1, <1>8
<1> QED BY <1>10, <1>11 DEF LevelSides, n, q

\* The words of well-formed rows fit their registers.
LEMMA WordsFit ==
    ASSUME NEW h \in EvenSides, Len(h.right) \in 1 .. MaxPoints
    PROVE  \A a \in {WordsOf(h).x1, WordsOf(h).y, WordsOf(h).x2} : a \in WordSeqs
<1> DEFINE n  == Len(h.right)
           x1 == [i \in Rows(h) |-> -h.left[i].x]
           y  == [i \in Rows(h) |-> h.left[i].y]
           x2 == [i \in Rows(h) |-> h.right[i].x]
<1>1. /\ n \in Nat \ {0} /\ Rows(h) = 1 .. n
      /\ \A i \in 1 .. n : /\ h.left[i].x \in Int /\ h.left[i].y \in Int
                           /\ h.right[i].x \in Int
  BY EvenRows
<1>2. x1 \in [1 .. n -> Int] /\ y \in [1 .. n -> Int] /\ x2 \in [1 .. n -> Int]
  BY <1>1
<1>3. WordsOf(h).x1 = Axis(x1) /\ WordsOf(h).y = Axis(y) /\ WordsOf(h).x2 = Axis(x2)
  BY DEF WordsOf
<1> HIDE DEF n, x1, y, x2
<1>4. ASSUME NEW v \in [1 .. n -> Int] PROVE Axis(v) \in WordSeqs
  <2>1. \A i \in 1 .. BufferPoints : Axis(v)[i] \in Word
    <3> TAKE i \in 1 .. BufferPoints
    <3>1. Axis(v)[i] = ToSignedReg(v[Lesser(i, n)])
      BY <1>1, AxisWord
    <3>2. Lesser(i, n) \in 1 .. n
      <4>1. i \in Nat \ {0}
        BY SizeAssumption
      <4> QED BY <1>1, <4>1, LesserIndex
    <3> DEFINE z == v[Lesser(i, n)]
    <3>3. z \in Int
      BY <3>2
    <3> HIDE DEF z
    <3>4. ToSignedReg(z) \in Word
      BY <3>3, RegIsWord
    <3> QED BY <3>1, <3>4 DEF z
  <2>2. Axis(v) = [i \in 1 .. BufferPoints |-> Axis(v)[i]]
    BY DEF Axis, Padded
  <2> QED BY <2>1, <2>2 DEF WordSeqs
<1> QED BY <1>2, <1>3, <1>4

-----------------------------------------------------------------------------
(* The invariant. *)

\* No row but the last was extracted above the entry, unless an outline was taken for a
\* scan.
RawFromEntry == Mistaken \/ EntryFirst(raw)

\* The last row has its sides in place, even where it meets the entry, unless an outline
\* was taken for a scan; and so has every row that a scan has found.
BottomMeets == Mistaken \/ LowestMeets(raw)
ScansDoNotCross == scan # NoPath => Uncrossed

\* Where the profiles of the outline do not cross, neither do the sides of the path.
OnlyAsTheOutline == ProfilesApart(trace) => SidesDoNotCross

\* What was extracted has two equal sides, starts at the entry and ends with its sides in
\* place; what is stored comes from it row by row, inside the region and in order; what was sent has rows.
WordsInv ==
    /\ Derived
    /\ image \in Images /\ entryX \in EntryXs
    /\ machine \in Machines /\ used \in Machines
    /\ raw \in EvenSides
    /\ RawFromEntry
    /\ BottomMeets
    /\ ScansDoNotCross
    /\ OnlyAsTheOutline
    /\ path \in LevelSides
    /\ RowsInRoi
    /\ PairsKept
    /\ words # NoWords =>
           words.from \in EvenSides /\ Len(words.from.right) \in 1 .. MaxPoints

LEMMA WordsInvInit == WordsInit => WordsInv
<1> SUFFICES ASSUME WordsInit PROVE WordsInv
  OBVIOUS
<1>1. Derived
  BY DerivedInit
<1>2. NoPath \in EvenSides /\ EntryFirst(NoPath) /\ LowestMeets(NoPath)
  BY NoPathIsEven
<1>3. Len(NoPath.right) = 0 /\ Rows(NoPath) = {}
  BY DEF NoPath, Rows
<1>4. NoPath \in LevelSides
  BY <1>2, <1>3 DEF LevelSides
<1>5. path = NoPath /\ raw = NoPath /\ words = NoWords /\ scan = NoPath
  BY DEF WordsInit
<1>6. RowsInRoi /\ PairsKept
  BY <1>3, <1>5 DEF RowsInRoi, PairsKept
<1>7. RawFromEntry /\ BottomMeets /\ ScansDoNotCross /\ OnlyAsTheOutline
  BY <1>2, <1>3, <1>5 DEF RawFromEntry, BottomMeets, ScansDoNotCross, OnlyAsTheOutline,
                          SidesDoNotCross, Uncrossed, Rows
<1> QED BY <1>1, <1>2, <1>4, <1>5, <1>6, <1>7 DEF WordsInit, WordsInv

LEMMA ToolPathKeeps ==
    ASSUME WordsInv, ToolPath
    PROVE  /\ raw' \in EvenSides
           /\ RawFromEntry' /\ BottomMeets' /\ ScansDoNotCross' /\ OnlyAsTheOutline'
           /\ path' \in LevelSides
           /\ RowsInRoi'
           /\ PairsKept'
<1>1. image \in Seq(Seq(Point)) /\ entryX \in Int
  BY SizeAssumption DEF WordsInv
<1>2. /\ scan' = Scan(image, type, entryX) /\ trace' = Trace(image, scan')
      /\ raw' = Extract(trace', type, entryX) /\ type' = type /\ entryX' = entryX
  BY DEF ToolPath
<1>3. /\ raw' \in EvenSides
      /\ \/ EntryFirst(raw') /\ LowestMeets(raw')
         \/ LooksScanned(trace', type) /\ scan' = NoPath
      /\ \/ NotCrossed(raw', entryX)
         \/ scan' = NoPath /\ (LooksScanned(trace', type) \/ ~ProfilesApart(trace'))
  BY <1>1, <1>2, Extracted
<1>4. RawFromEntry' /\ BottomMeets' /\ ScansDoNotCross' /\ OnlyAsTheOutline'
  <2>1. RawFromEntry' /\ BottomMeets'
    BY <1>2, <1>3 DEF RawFromEntry, BottomMeets, Mistaken, EntryFirst, LowestMeets
  <2>2. Rows(raw') = 1 .. Len(raw'.right)
    BY <1>3, EvenRows
  <2>3. NotCrossed(raw', entryX) => Uncrossed'
    BY <1>2, <2>2 DEF Uncrossed, NotCrossed, Rows
  <2>4. ProfilesApart(trace)' <=> ProfilesApart(trace')
    BY DEF ProfilesApart
  <2>5. ScansDoNotCross' /\ OnlyAsTheOutline'
    BY <1>2, <1>3, <2>3, <2>4 DEF ScansDoNotCross, OnlyAsTheOutline, SidesDoNotCross, Mistaken
  <2> QED BY <2>1, <2>5
<1> DEFINE p == Normalize(raw')
<1>5. PICK s \in SortedByY(p) : Rebuild(Normalize(Filter(s)))
  BY DEF ToolPath
<1>6. /\ p \in LevelSides /\ Len(p.right) = Len(raw'.right)
      /\ \A i \in 1 .. Len(raw'.right) : /\ p.right[i] = raw'.right[i]
                                         /\ p.left[i].x = raw'.left[i].x
  BY <1>3, NormalizeLevels
<1>7. Rows(p) = DOMAIN raw'.right /\ Rows(p) = 1 .. Len(raw'.right)
  <2>1. p \in EvenSides
    BY <1>6 DEF LevelSides
  <2>2. Rows(p) = 1 .. Len(p.right) /\ Rows(raw') = 1 .. Len(raw'.right)
    BY <1>3, <2>1, EvenRows
  <2> QED BY <1>6, <2>2 DEF Rows
<1> HIDE DEF p
<1>8. /\ s \in LevelSides
      /\ \A i \in Rows(s) : \E j \in Rows(p) : s.left[i] = p.left[j] /\ s.right[i] = p.right[j]
      /\ \A i, j \in Rows(s) : i < j => s.right[i].y <= s.right[j].y
  BY <1>5, <1>6, SortMovesRows
<1> DEFINE q == Filter(s)
<1>9. /\ q \in LevelSides
      /\ \A i \in Rows(q) : \E j \in Rows(s) : q.left[i] = s.left[j] /\ q.right[i] = s.right[j]
      /\ \A i \in Rows(q) : InsideRoi(q.left[i]) /\ InsideRoi(q.right[i])
      /\ \A i, j \in Rows(q) : i < j => q.right[i].y <= q.right[j].y
  BY <1>8, FilterKeepsRows
<1> HIDE DEF q
<1>10. path' = q
  <2>1. path' = Normalize(Normalize(q))
    BY <1>5 DEF Rebuild, q
  <2> QED BY <1>9, <2>1, NormalizeAgain
<1>11. RowsInRoi'
  BY <1>9, <1>10 DEF RowsInRoi, Rows
<1>12. ASSUME NEW i \in Rows(q)
       PROVE  \E j \in DOMAIN raw'.right : q.right[i] = raw'.right[j] /\ q.left[i].x = raw'.left[j].x
  <2>1. PICK k \in Rows(s) : q.left[i] = s.left[k] /\ q.right[i] = s.right[k]
    BY <1>9
  <2>2. PICK j \in Rows(p) : s.left[k] = p.left[j] /\ s.right[k] = p.right[j]
    BY <1>8
  <2>3. p.right[j] = raw'.right[j] /\ p.left[j].x = raw'.left[j].x /\ j \in DOMAIN raw'.right
    BY <1>6, <1>7
  <2> QED BY <2>1, <2>2, <2>3
<1>13. PairsKept'
  BY <1>10, <1>12 DEF PairsKept, Rows
<1> QED BY <1>3, <1>4, <1>9, <1>10, <1>11, <1>13

LEMMA GoKeeps ==
    ASSUME WordsInv, Go
    PROVE  path' = path /\ hmi' = Convert(path, machine)
<1>1. path \in LevelSides /\ Rebuild(path)
  BY DEF WordsInv, Go
<1> QED BY <1>1, NormalizeAgain DEF Rebuild

LEMMA WordsInvStep == WordsInv /\ [WordsNext]_wordVars => WordsInv'
<1> SUFFICES ASSUME WordsInv, [WordsNext]_wordVars PROVE WordsInv'
  OBVIOUS
<1>1. Derived'
  BY DerivedStep DEF WordsInv
<1>2. CASE ToolPath
  <2>1. /\ raw' \in EvenSides /\ RawFromEntry' /\ BottomMeets' /\ ScansDoNotCross'
        /\ OnlyAsTheOutline' /\ path' \in LevelSides /\ RowsInRoi' /\ PairsKept'
    BY <1>2, ToolPathKeeps
  <2>2. used' = machine /\ UNCHANGED <<image, entryX, machine, words>>
    <3>1. \E s \in SortedByY(Normalize(raw')) : Rebuild(Normalize(Filter(s)))
      BY <1>2 DEF ToolPath
    <3>2. UNCHANGED <<image, entryX, machine, words>>
      BY <1>2 DEF ToolPath
    <3> QED BY <3>1, <3>2 DEF Rebuild
  <2>3. /\ image' \in Images /\ entryX' \in EntryXs
        /\ machine' \in Machines /\ used' \in Machines
    BY <2>2 DEF WordsInv
  <2> QED BY <1>1, <2>1, <2>2, <2>3 DEF WordsInv
<1>3. CASE ChangeMachine
  <2>1. UNCHANGED <<image, entryX, type, scan, trace, raw, path, used, words>>
    BY <1>3 DEF ChangeMachine
  <2>2. machine' \in Machines
    BY <1>3 DEF ChangeMachine
  <2> QED BY <1>1, <2>1, <2>2 DEF WordsInv, Mistaken, RowsInRoi, PairsKept, Rows,
                                  RawFromEntry, BottomMeets, LowestMeets, ScansDoNotCross, Uncrossed,
                                  OnlyAsTheOutline, SidesDoNotCross, ProfilesApart
<1>4. CASE Go
  <2>1. path' = path /\ hmi' = Convert(path, machine)
    BY <1>4, GoKeeps
  <2>2. UNCHANGED <<image, entryX, type, scan, trace, raw, machine>> /\ used' = machine
    BY <1>4 DEF Go, Rebuild
  <2>3. words'.from = hmi'
    BY <1>4 DEF Go, WordsOf
  <2>4. hmi' \in EvenSides /\ Len(hmi'.right) = Len(path.right)
    <3>1. path \in EvenSides /\ machine \in Machines
      BY DEF WordsInv, LevelSides
    <3> QED BY <2>1, <3>1, ConvertIsLevel DEF LevelSides
  <2>5. Len(path.right) \in 1 .. MaxPoints
    <3>1. path # NoPath /\ path \in EvenSides
      BY <1>4 DEF Go, WordsInv, LevelSides
    <3>2. path.right # << >>
      <4> SUFFICES ASSUME path.right = << >> PROVE FALSE
        OBVIOUS
      <4>1. path \in Sides /\ Len(path.left) = 0
        BY <3>1 DEF EvenSides
      <4>2. path.left = << >>
        BY <4>1, EmptySeq DEF Sides
      <4> QED BY <3>1, <4>1, <4>2 DEF Sides, NoPath
    <3>3. Len(path.right) # 0
      BY <3>1, <3>2, EvenRows, EmptySeq
    <3> QED BY <3>1, <3>3, EvenRows
  <2> QED BY <1>1, <2>1, <2>2, <2>3, <2>4, <2>5
          DEF WordsInv, Mistaken, RowsInRoi, PairsKept, Rows,
              RawFromEntry, BottomMeets, LowestMeets, ScansDoNotCross, Uncrossed,
              OnlyAsTheOutline, SidesDoNotCross, ProfilesApart
<1>5. CASE UNCHANGED wordVars
  BY <1>1, <1>5 DEF wordVars, WordsInv, Mistaken, RowsInRoi, PairsKept, Rows,
                    RawFromEntry, BottomMeets, LowestMeets, ScansDoNotCross, Uncrossed,
                    OnlyAsTheOutline, SidesDoNotCross, ProfilesApart
<1> QED BY <1>2, <1>3, <1>4, <1>5 DEF WordsNext

\* The invariant that the theorems below read their properties from: Tool Path, a change of
\* the machine setting and GO keep it.
THEOREM WordsInvariant == WordsSpec => []WordsInv
BY WordsInvInit, WordsInvStep, PTL DEF WordsSpec

LEMMA WordsInvTypes == WordsInv => WordsTypeOK
<1> SUFFICES ASSUME WordsInv PROVE WordsTypeOK
  OBVIOUS
<1>1. path \in EvenSides /\ used \in Machines /\ machine \in Machines /\ hmi = Convert(path, used)
  BY DEF WordsInv, LevelSides, Derived
<1>2. hmi \in EvenSides
  BY <1>1, ConvertIsLevel DEF LevelSides
<1>3. ASSUME words # NoWords
      PROVE  /\ \A a \in {words.x1, words.y, words.x2} : a \in WordSeqs
             /\ words.from \in EvenSides /\ Len(words.from.right) \in 1 .. MaxPoints
  <2>1. /\ words = WordsOf(words.from)
        /\ words.from \in EvenSides /\ Len(words.from.right) \in 1 .. MaxPoints
    BY <1>3 DEF WordsInv, Derived
  <2> DEFINE h == words.from
  <2>2. \A a \in {WordsOf(h).x1, WordsOf(h).y, WordsOf(h).x2} : a \in WordSeqs
    BY <2>1, WordsFit
  <2>3. words = WordsOf(h)
    BY <2>1
  <2> HIDE DEF h
  <2>4. \A a \in {words.x1, words.y, words.x2} : a \in WordSeqs
    BY <2>2, <2>3
  <2> QED BY <2>1, <2>4
<1> QED BY <1>1, <1>2, <1>3 DEF WordsTypeOK, EvenSides

\* Two sides of equal length throughout, never more rows than are taught, whatever
\* outlines the image has; words that fit their registers.
THEOREM WordsTyped == WordsSpec => []WordsTypeOK
BY WordsInvariant, WordsInvTypes, PTL

\* No row that is stored, and so none that is sent, leaves the region, and heights
\* ascend.
THEOREM StaysInRoi == WordsSpec => []RowsInRoi
<1>1. WordsInv => RowsInRoi
  BY DEF WordsInv
<1> QED BY <1>1, WordsInvariant, PTL

\* Left and right points that were extracted as a pair stay one through sorting,
\* clipping and every normalisation.
THEOREM PairsStay == WordsSpec => []PairsKept
<1>1. WordsInv => PairsKept
  BY DEF WordsInv
<1> QED BY <1>1, WordsInvariant, PTL

\* The sides of a scan do not change places, in any row but the entry: the scan hands its
\* points on as one sequence, which is cut into sides again by its length alone.
THEOREM ScansStayInOrder == WordsSpec => []ScansDoNotCross
<1>1. WordsInv => ScansDoNotCross
  BY DEF WordsInv
<1> QED BY <1>1, WordsInvariant, PTL

\* Cutting at the entry, sampling, interpolating the left side and putting in the bottom row
\* add no crossing of their own: for every image whose outline has profiles that do not cross,
\* the extracted sides do not, however the outline is wound and wherever it is entered.
THEOREM CrossesOnlyAsTheOutline == WordsSpec => [](ProfilesApart(trace) => SidesDoNotCross)
<1>1. WordsInv => (ProfilesApart(trace) => SidesDoNotCross)
  BY DEF WordsInv, OnlyAsTheOutline
<1> QED BY <1>1, WordsInvariant, PTL

\* The bottom row, which is put in from the outline after the path was made, never has its
\* sides the wrong way round, however the outline is wound.
THEOREM BottomRowMeets == WordsSpec => []BottomMeets
<1>1. WordsInv => BottomMeets
  BY DEF WordsInv
<1> QED BY <1>1, WordsInvariant, PTL

LEMMA EntryStep == WordsInv => NothingAboveEntry
<1> SUFFICES ASSUME WordsInv, ~Mistaken, NEW i \in Rows(path)
             PROVE  \/ path.right[i].y >= raw.right[1].y
                    \/ path.right[i] = raw.right[Len(raw.right)]
  BY DEF NothingAboveEntry
<1>1. PICK j \in DOMAIN raw.right : path.right[i] = raw.right[j]
  BY DEF WordsInv, PairsKept
<1>2. EntryFirst(raw)
  BY DEF WordsInv, RawFromEntry
<1>3. j \in 1 .. Len(raw.right) /\ Len(raw.right) \in Nat
  BY EvenRows DEF WordsInv, Rows
<1>4. CASE j = Len(raw.right)
  BY <1>1, <1>4
<1>5. CASE j # Len(raw.right)
  <2>1. j \in 1 .. Len(raw.right) - 1
    BY <1>3, <1>5
  <2> QED BY <1>1, <1>2, <2>1 DEF EntryFirst
<1> QED BY <1>4, <1>5

\* No row from above the entry is stored, but for the bottom row and an outline that is
\* taken for a scan.
THEOREM StartsAtEntry == WordsSpec => []NothingAboveEntry
BY WordsInvariant, EntryStep, PTL

LEMMA GoSendsShown ==
    WordsInv /\ [WordsNext]_wordVars => (words' # words /\ used' = used => words'.from = hmi)
<1> SUFFICES ASSUME WordsInv, [WordsNext]_wordVars, words' # words, used' = used
             PROVE  words'.from = hmi
  OBVIOUS
<1>1. Go
  BY DEF WordsNext, ToolPath, ChangeMachine, wordVars
<1>2. hmi' = Convert(path, machine) /\ words'.from = hmi' /\ used' = machine
  BY <1>1, GoKeeps DEF Go, Rebuild, WordsOf
<1>3. hmi = Convert(path, used)
  BY DEF WordsInv, Derived
<1> QED BY <1>2, <1>3

\* GO sends the rows that Tool Path has shown if the machine setting is the same,
\* although it normalises and converts the stored path once more.
THEOREM SendsWhatIsShown == WordsSpec => GoSendsWhatIsShown
<1>1. WordsInv /\ [WordsNext]_wordVars => [words' # words /\ used' = used => words'.from = hmi]_wordVars
  BY GoSendsShown
<1> QED BY <1>1, WordsInvariant, PTL DEF WordsSpec, GoSendsWhatIsShown

\* Every word GO writes decodes to its command, saturated, whatever the path and the
\* length of the buffer.
THEOREM DecodedWords == WordsSpec => []WordsDecode
<1>1. WordsInv => WordsDecode
  BY WordsInvTypes, WordsStep DEF WordsInv
<1> QED BY <1>1, WordsInvariant, PTL

\* Every command is within half a unit of the extracted position, for every machine
\* setting and every point on either side of the reference.
THEOREM NearestCommands == WordsSpec => []RoundsToNearest
<1>1. WordsInv => RoundsToNearest
  BY WordsInvTypes, RoundsStep DEF WordsInv
<1> QED BY <1>1, WordsInvariant, PTL

-----------------------------------------------------------------------------
(* Within the outline. *)

\* Outlines in the region lose no point to FilterByMask.
LEMMA NothingFiltered ==
    ASSUME NEW c \in Seq(Point), \A i \in DOMAIN c : InsideRoi(c[i])
    PROVE  /\ ToSet(FilterByMask(c)) \subseteq Point /\ IsFiniteSet(ToSet(FilterByMask(c)))
           /\ \A i \in DOMAIN c : c[i] \in ToSet(FilterByMask(c))
<1> DEFINE at == {i \in DOMAIN c : InsideRoi(c[i])}
           d  == Pick(c, at)
<1>1. at = DOMAIN c
  OBVIOUS
<1>2. FilterByMask(c) = d
  BY DEF FilterByMask
<1> HIDE DEF at
<1>3. /\ d \in Seq(Point) /\ Len(d) = Cardinality(at)
      /\ \A a \in at : \E i \in 1 .. Cardinality(at) : Ascending(at)[i] = a
      /\ \A k \in 1 .. Cardinality(at) : d[k] = c[Ascending(at)[k]]
  BY <1>1, PickProperties
<1> HIDE DEF d
<1>4. /\ DOMAIN d = 1 .. Len(d) /\ IsFiniteSet(DOMAIN d)
      /\ \A k \in DOMAIN d : d[k] \in Point
  BY <1>3, SeqDomain
<1>5. ToSet(d) = {d[k] : k \in DOMAIN d}
  BY DEF ToSet
<1>6. IsFiniteSet(ToSet(d)) /\ ToSet(d) \subseteq Point
  BY <1>4, <1>5, ImageFinite
<1>7. ASSUME NEW i \in DOMAIN c PROVE c[i] \in ToSet(d)
  <2>1. PICK k \in 1 .. Cardinality(at) : Ascending(at)[k] = i
    BY <1>1, <1>3
  <2>2. k \in DOMAIN d /\ d[k] = c[i]
    BY <1>3, <1>4, <2>1
  <2> QED BY <1>5, <2>2
<1> QED BY <1>2, <1>6, <1>7

\* The least rectangle around finitely many points.
LEMMA Enclosed ==
    ASSUME NEW P, P \subseteq Point, IsFiniteSet(P), P # {}
    PROVE  LET xs == {p.x : p \in P}
               ys == {p.y : p \in P}
               b  == [x1 |-> Min(xs), x2 |-> Max(xs), y1 |-> Min(ys), y2 |-> Max(ys)]
           IN  b \in Boxes /\ P \subseteq Inside(b)
<1> DEFINE xs == {p.x : p \in P}
           ys == {p.y : p \in P}
           b  == [x1 |-> Min(xs), x2 |-> Max(xs), y1 |-> Min(ys), y2 |-> Max(ys)]
           fx == [p \in P |-> p.x]
           fy == [p \in P |-> p.y]
<1>1. xs = {fx[p] : p \in P} /\ ys = {fy[p] : p \in P}
  OBVIOUS
<1>2. xs \subseteq Int /\ ys \subseteq Int /\ xs # {} /\ ys # {}
  BY DEF Point
<1>3. \A p \in P : p \in Point /\ p.x \in xs /\ p.y \in ys /\ p.x \in Int /\ p.y \in Int
  BY DEF Point
<1> HIDE DEF xs, ys, fx, fy
<1>4. IsFiniteSet(xs) /\ IsFiniteSet(ys)
  BY <1>1, ImageFinite
<1>5. /\ Min(xs) \in xs /\ \A a \in xs : Min(xs) <= a
      /\ Max(xs) \in xs /\ \A a \in xs : Max(xs) >= a
  BY <1>2, <1>4, MinProperties
<1>6. /\ Min(ys) \in ys /\ \A a \in ys : Min(ys) <= a
      /\ Max(ys) \in ys /\ \A a \in ys : Max(ys) >= a
  BY <1>2, <1>4, MinProperties
<1>7. Min(xs) \in Int /\ Max(xs) \in Int /\ Min(ys) \in Int /\ Max(ys) \in Int
  BY <1>2, <1>5, <1>6
<1>8. b \in Boxes
  BY <1>7 DEF Boxes
<1>9. \A p \in P : p \in Inside(b)
  <2> TAKE p \in P
  <2>1. p.x \in b.x1 .. b.x2 /\ p.y \in b.y1 .. b.y2
    BY <1>3, <1>5, <1>6, <1>7
  <2> QED BY <1>3, <2>1 DEF Inside
<1> QED BY <1>8, <1>9 DEF xs, ys

\* WithinOutline, of any sides r, outlines and entry e.
Bounded(r, outlines, e) ==
    LET points == UNION {ToSet(FilterByMask(c)) : c \in ToSet(outlines)}
        xs     == {p.x : p \in points}
        ys     == {p.y : p \in points}
    IN  \A i \in Rows(r) : \A p \in {r.left[i], r.right[i]} :
            /\ p.y >= Min(ys) /\ p.y <= Max(ys)
            /\ p.x = e \/ (p.x >= Min(xs) /\ p.x <= Max(xs))

LEMMA ExtractedWithin ==
    ASSUME NEW outlines \in Images, NEW t, NEW e \in Int
    PROVE  Bounded(Extract(Trace(outlines, Scan(outlines, t, e)), t, e), outlines, e)
<1> DEFINE r      == Extract(Trace(outlines, Scan(outlines, t, e)), t, e)
           parts  == {ToSet(FilterByMask(c)) : c \in ToSet(outlines)}
           points == UNION parts
           xs     == {p.x : p \in points}
           ys     == {p.y : p \in points}
<1> SUFFICES \A i \in DOMAIN r.right : \A p \in {r.left[i], r.right[i]} :
                 /\ p.y >= Min(ys) /\ p.y <= Max(ys)
                 /\ p.x = e \/ (p.x >= Min(xs) /\ p.x <= Max(xs))
  BY DEF Bounded, Rows
<1>1. outlines \in Seq(Seq(Point))
  BY SizeAssumption
<1>2. r \in EvenSides
  BY <1>1, Extracted
<1>3. \A k \in DOMAIN outlines : outlines[k] \in Seq(Point) /\ outlines[k] \in ToSet(outlines)
  BY <1>1, SeqDomain DEF ToSet
<1>4. \A c \in ToSet(outlines) : c \in Seq(Point) /\ \A i \in DOMAIN c : InsideRoi(c[i])
  <2>1. \A c \in ToSet(outlines) : c \in Seq(Point)
    BY <1>3 DEF ToSet
  <2> QED BY <2>1, OutlineAssumption
<1>5. \A c \in ToSet(outlines) :
          /\ ToSet(FilterByMask(c)) \subseteq Point /\ IsFiniteSet(ToSet(FilterByMask(c)))
          /\ \A i \in DOMAIN c : c[i] \in ToSet(FilterByMask(c))
  BY <1>4, NothingFiltered
<1>6. IsFiniteSet(points) /\ points \subseteq Point
  <2> DEFINE f == [c \in ToSet(outlines) |-> ToSet(FilterByMask(c))]
  <2>1. ToSet(outlines) = {outlines[k] : k \in DOMAIN outlines} /\ IsFiniteSet(DOMAIN outlines)
    BY <1>1, SeqDomain DEF ToSet
  <2>2. IsFiniteSet(ToSet(outlines))
    BY <2>1, ImageFinite
  <2>3. parts = {f[c] : c \in ToSet(outlines)}
    OBVIOUS
  <2> HIDE DEF f
  <2>4. IsFiniteSet(parts)
    BY <2>2, <2>3, ImageFinite
  <2>5. \A S \in parts : IsFiniteSet(S) /\ S \subseteq Point
    BY <1>5
  <2> HIDE DEF parts
  <2> QED BY <2>4, <2>5, FS_UNION
<1>7. \A k \in DOMAIN outlines : \A i \in DOMAIN outlines[k] : outlines[k][i] \in points
  BY <1>3, <1>5
<1> HIDE DEF parts, points, r
<1>8. ASSUME NEW b \in Boxes, points \subseteq Inside(b)
      PROVE  \A i \in DOMAIN r.right : r.left[i] \in Inside(b) /\ r.right[i] \in InsideOr(b, e)
  <2>1. \A k \in DOMAIN outlines : outlines[k] \in Seq(Inside(b))
    <3> TAKE k \in DOMAIN outlines
    <3>1. \A i \in DOMAIN outlines[k] : outlines[k][i] \in Inside(b)
      BY <1>7, <1>8
    <3> QED BY <1>3, <3>1, SeqFrom
  <2>2. outlines \in Seq(Seq(Inside(b)))
    BY <1>1, <2>1, SeqFrom
  <2>3. r \in Within(b, e)
    BY <2>2, ExtractedInside DEF r
  <2>4. r.left \in Seq(Inside(b)) /\ r.right \in Seq(InsideOr(b, e))
    BY <2>3 DEF Within
  <2>5. DOMAIN r.left = DOMAIN r.right
    BY <1>2, <2>4, SeqDomain DEF EvenSides
  <2> QED BY <2>4, <2>5, SeqDomain
<1>9. CASE points = {}
  <2> DEFINE b == [x1 |-> 1, x2 |-> 0, y1 |-> 1, y2 |-> 0]
  <2>1. b \in Boxes
    BY DEF Boxes
  <2>2. Inside(b) = {}
    BY DEF Inside, Point
  <2>3. points \subseteq Inside(b)
    BY <1>9
  <2> HIDE DEF b
  <2> QED BY <1>8, <2>1, <2>2, <2>3
<1>10. CASE points # {}
  <2> DEFINE b == [x1 |-> Min(xs), x2 |-> Max(xs), y1 |-> Min(ys), y2 |-> Max(ys)]
  <2>1. b \in Boxes /\ points \subseteq Inside(b)
    BY <1>6, <1>10, Enclosed
  <2> DEFINE x1 == Min(xs)
             x2 == Max(xs)
             y1 == Min(ys)
             y2 == Max(ys)
  <2>2. b.x1 = x1 /\ b.x2 = x2 /\ b.y1 = y1 /\ b.y2 = y2
    OBVIOUS
  <2> HIDE DEF b, x1, x2, y1, y2
  <2>3. x1 \in Int /\ x2 \in Int /\ y1 \in Int /\ y2 \in Int
    BY <2>1, <2>2 DEF Boxes
  <2>4. ASSUME NEW i \in DOMAIN r.right, NEW p \in {r.left[i], r.right[i]}
        PROVE  p.y >= y1 /\ p.y <= y2 /\ (p.x = e \/ (p.x >= x1 /\ p.x <= x2))
    <3>1. p \in Inside(b) \cup InsideOr(b, e)
      BY <1>8, <2>1
    <3>2. p.y \in b.y1 .. b.y2 /\ (p.x = e \/ p.x \in b.x1 .. b.x2)
      BY <3>1 DEF Inside, InsideOr
    <3> QED BY <2>2, <2>3, <3>2
  <2> QED BY <2>4 DEF x1, x2, y1, y2
<1> QED BY <1>9, <1>10

OutlineInv == image \in Images /\ entryX \in EntryXs /\ WithinOutline

LEMMA OutlineInvStep == OutlineInv /\ [WordsNext]_wordVars => OutlineInv'
<1> SUFFICES ASSUME OutlineInv, [WordsNext]_wordVars PROVE OutlineInv'
  OBVIOUS
<1>1. CASE ToolPath
  <2>1. /\ image' = image /\ entryX' = entryX
        /\ raw' = Extract(Trace(image, Scan(image, type, entryX)), type, entryX)
    BY <1>1 DEF ToolPath
  <2>2. image \in Images /\ entryX \in Int
    BY SizeAssumption DEF OutlineInv
  <2> DEFINE r == Extract(Trace(image, Scan(image, type, entryX)), type, entryX)
  <2>3. Bounded(r, image, entryX)
    BY <2>2, ExtractedWithin
  <2> HIDE DEF r
  <2>4. Bounded(raw, image, entryX)'
    BY <2>1, <2>3 DEF r
  <2>5. WithinOutline'
    BY <2>4 DEF WithinOutline, Bounded
  <2> QED BY <2>1, <2>5 DEF OutlineInv
<1>2. CASE UNCHANGED <<image, entryX, raw>>
  BY <1>2 DEF OutlineInv, WithinOutline, Rows
<1> QED BY <1>1, <1>2 DEF WordsNext, ChangeMachine, Go, wordVars

\* No row is made up beyond the outlines, whatever their number and their shape: every
\* point that Tool Path extracts lies between the extremes of what was found in the region,
\* except for the x of the entry.
THEOREM StaysInOutline == WordsSpec => []WithinOutline
<1>1. WordsInit => OutlineInv
  <2> SUFFICES ASSUME WordsInit PROVE OutlineInv
    OBVIOUS
  <2>1. raw = NoPath /\ image \in Images /\ entryX \in EntryXs
    BY DEF WordsInit
  <2>2. Rows(raw) = {}
    BY <2>1 DEF NoPath, Rows
  <2> QED BY <2>1, <2>2 DEF OutlineInv, WithinOutline
<1>2. OutlineInv => WithinOutline
  BY DEF OutlineInv
<1> QED BY <1>1, <1>2, OutlineInvStep, PTL DEF WordsSpec
=============================================================================
