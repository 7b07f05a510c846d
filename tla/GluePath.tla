------------------------------- MODULE GluePath -------------------------------
(***************************************************************************)
(* From the outlines found in an image to the two sides of a glue path:    *)
(* GluePathOptimizer::OptimizePath, and the scan of                        *)
(* GetToolPath_Optimized_Mask that replaces it for ToolPathType 1.         *)
(*                                                                         *)
(* A point is a record of integers in 1/Grain pixel; an outline is a       *)
(* sequence of points around a closed contour; y grows downwards.  What    *)
(* the code interpolates is rounded to 1/Grain pixel here.                 *)
(***************************************************************************)
EXTENDS Integers, SequencesExt

CONSTANTS
    MaxPoints,     \* points per side, 25 in the code
    Grain,         \* steps per pixel
    Roi,           \* effectiveRoiRect, in pixels
    BottomBand,    \* height of the band at the bottom, 3 pixels in the code
    Margin         \* kIntersectionBoundaryMargin, 5 pixels in the code

ASSUME GlueAssumption ==
    /\ MaxPoints \in Nat /\ MaxPoints > 1
    /\ Grain \in Nat \ {0}
    /\ Roi \in [x : Int, y : Int, width : Nat, height : Nat]
    /\ BottomBand \in Nat /\ Margin \in Nat

Point == [x : Int, y : Int]
Sides == [left : Seq(Point), right : Seq(Point)]

NoPath == [left |-> <<>>, right |-> <<>>]

Lesser(a, b)  == IF a <= b THEN a ELSE b
Greater(a, b) == IF a >= b THEN a ELSE b
Abs(v)        == Greater(v, -v)

\* Division for any sign of the divisor.
Divide(a, b) == IF b > 0 THEN a \div b ELSE (-a) \div (-b)

\* A mutant of Round: a cast instead of lround.
Round_Truncates(a, b) == IF a >= 0 THEN a \div b ELSE -((-a) \div b)

\* std::lround: halves away from zero.
Round(a, b) == IF a >= 0 THEN (2 * a + b) \div (2 * b) ELSE -((b - 2 * a) \div (2 * b))

\* cv::Rect semantics: left and top belong to it, right and bottom do not.
InsideRoi(pt) ==
    /\ pt.x >= Roi.x * Grain /\ pt.x < (Roi.x + Roi.width) * Grain
    /\ pt.y >= Roi.y * Grain /\ pt.y < (Roi.y + Roi.height) * Grain

\* The x at height y on the line through p and q.
XAt(p, q, y) == p.x + Divide((y - p.y) * (q.x - p.x), q.y - p.y)

\* The elements of a finite set in ascending order of their keys.  This and Pick
\* stand where the library has SortSeq and SelectSeq, which no prover can expand.
InOrder(S, key) ==
    [k \in 1 .. Cardinality(S) |->
        CHOOSE a \in S : Cardinality({b \in S : key[b] < key[a]}) = k - 1]
Ascending(S)    == InOrder(S, [v \in S |-> v])

\* The elements of s at some of its indices.
Pick(s, at) == LET order == Ascending(at) IN [k \in DOMAIN order |-> s[order[k]]]

-----------------------------------------------------------------------------
(* SplitByCenter. *)

FilterByMask(c) == Pick(c, {i \in DOMAIN c : InsideRoi(c[i])})

\* The first of the leftmost points of the top and of the bottom.
TopOf(c) ==
    CHOOSE i \in DOMAIN c : \A j \in DOMAIN c :
        \/ c[i].y < c[j].y
        \/ c[i].y = c[j].y /\ (c[i].x < c[j].x \/ (c[i].x = c[j].x /\ i <= j))
BottomOf(c) ==
    CHOOSE i \in DOMAIN c : \A j \in DOMAIN c :
        \/ c[i].y > c[j].y
        \/ c[i].y = c[j].y /\ (c[i].x < c[j].x \/ (c[i].x = c[j].x /\ i <= j))

\* Both ways around from the top to the bottom, end points included.
Onward(c)   == [k \in 1 .. ((BottomOf(c) - TopOf(c)) % Len(c)) + 1 |->
                   c[((TopOf(c) + k - 2) % Len(c)) + 1]]
Backward(c) == [k \in 1 .. ((TopOf(c) - BottomOf(c)) % Len(c)) + 1 |->
                   c[((TopOf(c) - k) % Len(c)) + 1]]

SumX(chain) == FoldFunction(LAMBDA a, b : a + b, 0, [i \in DOMAIN chain |-> chain[i].x])

\* A mutant of MoreRight: the sums are compared instead of the means.
MoreRight_Sums(a, b) == SumX(a) >= SumX(b)

\* The chain whose points lie further right on average is the right one.
MoreRight(a, b) == SumX(a) * Len(b) >= SumX(b) * Len(a)

\* A mutant of SplitByCenter, and the split OptimizeGluePath_Analysis.md describes:
\* by the middle of the region.
SplitByCenter_AtCenter(c) ==
    LET center == ((2 * Roi.x + Roi.width) * Grain) \div 2
    IN  [left  |-> Pick(c, {i \in DOMAIN c : c[i].x < center}),
         right |-> Pick(c, {i \in DOMAIN c : c[i].x >= center})]

SplitByCenter(c) ==
    IF Len(c) = 1
    THEN [left |-> <<>>, right |-> c]
    ELSE LET a == Onward(c)
             b == Backward(c)
         IN  IF MoreRight(a, b) THEN [left |-> b, right |-> a]
                                ELSE [left |-> a, right |-> b]

-----------------------------------------------------------------------------
(* The profile of a side, where it is entered, and its sampling. *)

\* BuildSideProfileByY: per height the outermost point, from top to bottom.
Outermost(chain, Outer(_, _)) ==
    {p \in ToSet(chain) : \A q \in ToSet(chain) : p.y = q.y => Outer(p.x, q.x)}
ByHeight(points)    == InOrder(points, [p \in points |-> p.y])
RightProfile(chain) == ByHeight(Outermost(chain, LAMBDA x, z : x >= z))
LeftProfile(chain)  == ByHeight(Outermost(chain, LAMBDA x, z : x <= z))

\* FindEntryPointOnProfile: the first place where the profile crosses x = e; if
\* there is none, the height of the point that comes closest.
Entry(profile, e) ==
    LET crossed == {i \in 2 .. Len(profile) :
                       (profile[i - 1].x - e) * (profile[i].x - e) <= 0}
        closest == CHOOSE i \in DOMAIN profile : \A j \in DOMAIN profile :
                       LET d(k) == Abs(profile[k].x - e)
                       IN  d(i) < d(j) \/ (d(i) = d(j) /\ i <= j)
        i == Min(crossed)
        p == profile[i - 1]
        q == profile[i]
    IN  [x |-> e,
         y |-> IF crossed = {} THEN profile[closest].y
               ELSE IF p.x = e THEN p.y
               ELSE p.y + Divide((e - p.x) * (q.y - p.y), q.x - p.x)]

\* A mutant of FromEntry: what lies above the entry is not cut off.
FromEntry_KeepsAbove(profile, entry) ==
    <<entry>> \o Pick(profile, {i \in DOMAIN profile : profile[i].y # entry.y})

\* BuildProfileFromEntry.
FromEntry(profile, entry) ==
    <<entry>> \o Pick(profile, {i \in DOMAIN profile : profile[i].y > entry.y})

\* SampleProfilePoints: evenly by index, both ends included.
Sample(profile) ==
    IF Len(profile) <= MaxPoints
    THEN profile
    ELSE [i \in 1 .. MaxPoints |->
             profile[Round((i - 1) * (Len(profile) - 1), MaxPoints - 1) + 1]]

\* InterpolateProfileAtY: on the segment at that height, else on the first or the
\* last one prolonged.
ProfileAt(profile, y) ==
    LET n == Len(profile)
        i == Min({k \in 2 .. n : profile[k].y >= y} \cup {n})
    IN  [x |-> IF n = 1 THEN profile[1].x ELSE XAt(profile[i - 1], profile[i], y),
         y |-> y]

-----------------------------------------------------------------------------
(* ApplyLegacyBottomPoints. *)

\* FindBottomSidePoint: the outermost point of a chain near its lower end, 3 pixels
\* or 3 % of its height.
BottomSide(chain, Outer(_, _)) ==
    LET ys   == {p.y : p \in ToSet(chain)}
        near == {i \in DOMAIN chain :
                    \/ chain[i].y >= Max(ys) - BottomBand * Grain
                    \/ 100 * chain[i].y >= 100 * Max(ys) - 3 * (Max(ys) - Min(ys))}
    IN  chain[CHOOSE i \in near : \A j \in near :
                  \/ Outer(chain[i].x, chain[j].x)
                  \/ chain[i].x = chain[j].x /\ i <= j]

\* The last row is replaced; the right point gives its height.
LegacyBottom(path, sides) ==
    LET n  == Len(path.right)
        rb == BottomSide(sides.right, LAMBDA x, z : x > z)
        lb == BottomSide(sides.left, LAMBDA x, z : x < z)
    IN  IF sides.left = <<>> \/ sides.right = <<>>
        THEN path
        ELSE [left  |-> [path.left EXCEPT ![n] = [x |-> lb.x, y |-> rb.y]],
              right |-> [path.right EXCEPT ![n] = rb]]

-----------------------------------------------------------------------------

\* OptimizePath, entered at x = e.
OptimizePath(c, e) ==
    LET sides == SplitByCenter(FilterByMask(c))
        prof  == RightProfile(sides.right)
        right == Sample(FromEntry(prof, Entry(prof, e)))
        lprof == LeftProfile(sides.left)
        left  == [i \in DOMAIN right |-> ProfileAt(lprof, right[i].y)]
    IN  IF FilterByMask(c) = <<>> \/ sides.left = <<>> \/ sides.right = <<>>
        THEN NoPath
        ELSE LegacyBottom([left |-> left, right |-> right], sides)

-----------------------------------------------------------------------------
(* GetToolPath_Optimized_Mask, from the outline on. *)

\* Where the outline meets the horizontal line at height y.
Crossings(c, y) ==
    UNION {LET p == c[i]
               q == c[(i % Len(c)) + 1]
           IN  IF y < Lesser(p.y, q.y) \/ y > Greater(p.y, q.y) THEN {}
               ELSE IF p.y = q.y THEN {p.x, q.x}
               ELSE {XAt(p, q, y)} : i \in DOMAIN c}

\* Crossings at the border of the region are artificial.
SafeCrossings(c, y) ==
    {x \in Crossings(c, y) :
        LET px == Round(x, Grain)
            py == Round(y, Grain)
        IN  /\ px >= Roi.x + Margin /\ px < Roi.x + Roi.width - Margin
            /\ py >= Roi.y + Margin /\ py < Roi.y + Roi.height - Margin}

TwoSides(xs) == Cardinality(xs) > 1

\* The scan lines with two sides, from top to bottom.
ScanRows(c) ==
    LET ys == {p.y \div Grain : p \in ToSet(c)}
    IN  Ascending({y \in Min(ys) .. Max(ys) : TwoSides(SafeCrossings(c, y * Grain))})

\* The height at which the right side passes x = e between two neighbouring lines;
\* if it never does, that of the line that comes closest.
ScanEntry(c, rows, e) ==
    LET rx(i)   == Max(SafeCrossings(c, rows[i] * Grain))
        crossed == {i \in 2 .. Len(rows) : /\ rows[i] = rows[i - 1] + 1
                                           /\ (rx(i - 1) - e) * (rx(i) - e) <= 0}
        closest == CHOOSE i \in DOMAIN rows : \A j \in DOMAIN rows :
                       LET d(k) == Abs(rx(k) - e)
                       IN  d(i) < d(j) \/ (d(i) = d(j) /\ i <= j)
        i  == Min(crossed)
        dx == rx(i) - rx(i - 1)
    IN  IF crossed = {}
        THEN [found |-> FALSE, y |-> rows[closest] * Grain]
        ELSE [found |-> TRUE,
              y |-> rows[i - 1] * Grain
                       + IF dx = 0 THEN 0 ELSE Divide((e - rx(i - 1)) * Grain, dx)]

\* MaxPoints lines from the entry to the bottom line of the region, or to the last
\* line with two sides; NoPath if one of them has not got two.
Synchronized(c, e) ==
    LET rows   == ScanRows(c)
        entry  == ScanEntry(c, rows, e)
        line   == (Roi.y + Roi.height - 1) * Grain
        onLine == TwoSides(Crossings(c, line))
        bottom == IF onLine THEN line ELSE rows[Len(rows)] * Grain
        y(i)   == entry.y + ((bottom - entry.y) * (i - 1)) \div (MaxPoints - 1)
        xs(i)  == IF i = MaxPoints /\ onLine THEN Crossings(c, line)
                                             ELSE SafeCrossings(c, y(i))
        path   == [left  |-> [i \in 1 .. MaxPoints |-> [x |-> Min(xs(i)), y |-> y(i)]],
                   right |-> [i \in 1 .. MaxPoints |->
                                 [x |-> IF i = 1 /\ entry.found THEN e ELSE Max(xs(i)),
                                  y |-> y(i)]]]
    IN  IF \/ Len(c) < 3
           \/ Len(rows) < MaxPoints
           \/ Lesser(line, bottom) <= entry.y
           \/ \E i \in 1 .. MaxPoints : ~TwoSides(xs(i))
        THEN NoPath
        ELSE LegacyBottom(path, SplitByCenter(c))

-----------------------------------------------------------------------------

\* Twice the area of an outline, for std::max_element over contourArea.
Area(c) ==
    Abs(FoldFunction(LAMBDA a, b : a + b, 0,
            [i \in DOMAIN c |-> LET q == c[(i % Len(c)) + 1]
                                IN  c[i].x * q.y - q.x * c[i].y]))

\* The largest outline.
Largest(outlines) ==
    outlines[CHOOSE i \in DOMAIN outlines : \A j \in DOMAIN outlines :
                 \/ Area(outlines[i]) > Area(outlines[j])
                 \/ Area(outlines[i]) = Area(outlines[j]) /\ i <= j]

\* GenerateToolPathByType: type 1 scans the largest outline.
Scan(outlines, type, e) ==
    IF type = 1 /\ outlines # <<>> THEN Synchronized(Largest(outlines), e) ELSE NoPath

\* A scan is stored as its right side downwards, then its left side upwards.  The
\* other types, and a failed scan, string the outlines together.
Trace(outlines, scan) ==
    IF scan # NoPath
    THEN scan.right \o Reverse(scan.left)
    ELSE FlattenSeq(Pick(outlines, {i \in DOMAIN outlines : Len(outlines[i]) > 2}))

\* Tool Path recognises a scan by the number of its points.
LooksScanned(trace, type) == type = 1 /\ Len(trace) = 2 * MaxPoints

\* What it makes of the trace; entered at x = e.
Extract(trace, type, e) ==
    IF trace = <<>> THEN NoPath
    ELSE IF LooksScanned(trace, type)
         THEN [left  |-> Reverse(SubSeq(trace, MaxPoints + 1, 2 * MaxPoints)),
               right |-> SubSeq(trace, 1, MaxPoints)]
         ELSE OptimizePath(trace, e)
=============================================================================
