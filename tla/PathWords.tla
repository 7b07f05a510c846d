------------------------------ MODULE PathWords ------------------------------
(***************************************************************************)
(* What happens to the numbers of a glue path: WorkTab::                   *)
(* OnBnClickedIdcWorkToolPath from the extracted outlines on (GluePath,    *)
(* then pairing, sorting, clipping), ConvertToMachineCoordinates, and the  *)
(* register words GO writes.                                               *)
(*                                                                         *)
(* A path is a pair of point sequences, left and right; row i is the pair  *)
(* of points i.  The camera angle is a multiple of 90 degrees, where the   *)
(* rotation is exact.                                                      *)
(***************************************************************************)
EXTENDS GluePath

CONSTANTS
    BufferPoints,  \* kHmiAxisBufferPoints, 30 in the code
    Ref,           \* the effective reference point, in pixels
    Machines,      \* settings of angle (quarter turns) and scale (num / den units
                   \* of 0.1 mm per pixel)
    Images,        \* what findContours may return: sequences of outlines
    EntryXs,       \* where the path may be entered (ROIMask.EntryPointX)
    Types          \* values of ToolPathType

ASSUME SizeAssumption ==
    /\ BufferPoints \in Nat /\ BufferPoints >= MaxPoints
    /\ Ref \in Point
    /\ Machines \subseteq [quarter : 0 .. 3, num : Nat \ {0}, den : Nat \ {0}]
    /\ Images \subseteq Seq(Seq(Point))
    /\ EntryXs \subseteq Int /\ Types \subseteq 0 .. 2

\* findContours is given what BuildShoeInsetMask has cut to the region.  Only
\* WithinOutline rests on it.
ASSUME OutlineAssumption ==
    \A outlines \in Images : \A c \in ToSet(outlines) : \A i \in DOMAIN c : InsideRoi(c[i])

VARIABLES
    image,    \* the outlines in the image at hand
    entryX,   \* EntryPointX
    type,     \* ToolPathType
    scan,     \* history: what the scan of ToolPathType 1 found
    trace,    \* toolPath.Path
    raw,      \* finalPath as the last Tool Path extracted it
    path,     \* m_OptimizedGluePath
    machine,  \* register 186 (CameraToMachineAngle) and TransferFactor
    used,     \* history: the machine setting hmi was computed with
    hmi,      \* m_HMIGluePath
    words     \* x1Regs, yRegs and x2Regs of the last GO, and the hmi they encode

wordVars == <<image, entryX, type, scan, trace, raw, path, machine, used, hmi, words>>

Rows(p) == DOMAIN p.right
-----------------------------------------------------------------------------
(* NormalizeGluePathPairCount. *)

\* A point at height y on the side's first or last segment, prolonged.
PointAtY(side, y) ==
    LET n  == Len(side)
        k  == IF n > 1 /\ y < side[1].y THEN 1 ELSE n - 1
        dy == side[k + 1].y - side[k].y
    IN  IF n = 1
        THEN [x |-> side[1].x, y |-> y]
        ELSE [x |-> IF dy = 0
                    THEN side[k + 1].x
                    ELSE side[k].x + Divide((side[k + 1].x - side[k].x)
                                               * (y - side[k].y), dy),
              y |-> y]

\* The shorter side gets a point for every row of the other that it lacks.
Extend(side, other, n) ==
    LET grown[k \in Len(side) .. Greater(Len(side), n)] ==
            IF k = Len(side)
            THEN side
            ELSE Append(grown[k - 1],
                        PointAtY(grown[k - 1], other[Lesser(k, Len(other))].y))
    IN  grown[Greater(Len(side), n)]

Normalize(p) ==
    IF p.left = <<>> \/ p.right = <<>>
    THEN NoPath
    ELSE LET n     == Lesser(MaxPoints, Greater(Len(p.left), Len(p.right)))
             left  == Extend(p.left, p.right, n)
             right == Extend(p.right, left, n)
         IN  [left  |-> [i \in 1 .. n |-> [left[i] EXCEPT !.y = right[i].y]],
              right |-> SubSeq(right, 1, n)]

-----------------------------------------------------------------------------
(* SortGluePathByAscendingY and FilterGluePathByRoiAndLimit. *)

\* The ways in which the rows of a path can be in ascending order of height.
\* std::sort is not stable: rows of equal height may come out in any order.
Orders(p) ==
    LET height(i) == p.right[i].y + p.left[i].y
    IN  {o \in Bijection(Rows(p), Rows(p)) :
            \A i, j \in Rows(p) : i < j => height(o[i]) <= height(o[j])}

\* A mutant of SortedByY: only one of the two vectors is written back.
SortedByY_RightOnly(p) ==
    IF p = NoPath
    THEN {p}
    ELSE {[p EXCEPT !.right = [i \in Rows(p) |-> p.right[o[i]]]] : o \in Orders(p)}

\* Whole rows are moved; both sides have the same length here.
SortedByY(p) ==
    IF p = NoPath
    THEN {p}
    ELSE {[left  |-> [i \in Rows(p) |-> p.left[o[i]]],
           right |-> [i \in Rows(p) |-> p.right[o[i]]]] : o \in Orders(p)}

\* Some of the rows, in order, at most MaxPoints of them.
KeepRows(p, rows) ==
    LET kept  == Ascending(rows)
        n     == Lesser(MaxPoints, Len(kept))
    IN  [left  |-> [i \in 1 .. n |-> p.left[kept[i]]],
         right |-> [i \in 1 .. n |-> p.right[kept[i]]]]

\* A mutant of Filter: the right point of a row is not looked at.
Filter_LeftOnly(p) == KeepRows(p, {i \in Rows(p) : InsideRoi(p.left[i])})

\* A row is kept if both of its points are inside the ROI.
Filter(p) ==
    KeepRows(p, {i \in Rows(p) : InsideRoi(p.right[i]) /\ InsideRoi(p.left[i])})

-----------------------------------------------------------------------------
(* ConvertToMachineCoordinates. *)

Cos(quarter) == CASE quarter = 0 -> 1 [] quarter = 2 -> -1 [] OTHER -> 0
Sin(quarter) == CASE quarter = 1 -> 1 [] quarter = 3 -> -1 [] OTHER -> 0

\* One point, rotated around the reference point and scaled to 0.1 mm.
ToHmi(pt, m) ==
    LET cx == pt.x - Ref.x * Grain
        cy == pt.y - Ref.y * Grain
        scale(v) == Round(v * m.num, Grain * m.den)
    IN  [x |-> scale(cx * Cos(m.quarter) - cy * Sin(m.quarter)),
         y |-> scale(cx * Sin(m.quarter) + cy * Cos(m.quarter))]

\* Both sides of a row share one Y axis: the right side commands it.
Convert(p, m) ==
    LET right == [i \in Rows(p) |-> ToHmi(p.right[i], m)]
    IN  [left  |-> [i \in Rows(p) |-> [ToHmi(p.left[i], m) EXCEPT !.y = right[i].y]],
         right |-> right]

\* A mutant of Rebuild: the derived paths are not cleared first.
Rebuild_Accumulates(p) ==
    LET new == Convert(Normalize(p), machine)
    IN  /\ path' = Normalize(p)
        /\ hmi' = [left |-> hmi.left \o new.left, right |-> hmi.right \o new.right]
        /\ used' = machine

\* The conversion normalises m_OptimizedGluePath itself, then rebuilds the rest.
Rebuild(p) ==
    /\ path' = Normalize(p)
    /\ hmi' = Convert(Normalize(p), machine)
    /\ used' = machine

-----------------------------------------------------------------------------
(* GO's register buffers. *)

\* A mutant of ToSignedReg: the value is not reinterpreted as unsigned.
ToSignedReg_NoCast(v) == Lesser(Greater(v, -32768), 32767)

\* A mutant of ToSignedReg: the value is cut to 16 bits without clamping.
ToSignedReg_Wraps(v) == v % 65536

\* toSignedReg: clamped to INT16, then its two's complement bit pattern.
ToSignedReg(v) == Lesser(Greater(v, -32768), 32767) % 65536

\* The words after the last point repeat it.
Padded(axis) == [i \in 1 .. BufferPoints |-> axis[Lesser(i, Len(axis))]]

\* X1 counts to the left, X2 to the right; the left side carries the common Y.
Axis(v) == Padded([i \in 1 .. Len(v) |-> ToSignedReg(v[i])])

WordsOf(h) ==
    [x1   |-> Axis([i \in Rows(h) |-> -h.left[i].x]),
     y    |-> Axis([i \in Rows(h) |-> h.left[i].y]),
     x2   |-> Axis([i \in Rows(h) |-> h.right[i].x]),
     from |-> h]

NoWords == [x1 |-> <<>>, y |-> <<>>, x2 |-> <<>>, from |-> NoPath]

-----------------------------------------------------------------------------

WordsInit ==
    /\ image \in Images
    /\ entryX \in EntryXs
    /\ type \in Types
    /\ scan = NoPath /\ trace = <<>> /\ raw = NoPath
    /\ path = NoPath
    /\ machine \in Machines
    /\ used = machine
    /\ hmi = NoPath
    /\ words = NoWords

\* Tool Path: what is extracted is paired, sorted, clipped and paired again.
ToolPath ==
    /\ scan' = Scan(image, type, entryX)
    /\ trace' = Trace(image, scan')
    /\ raw' = Extract(trace', type, entryX)
    /\ \E s \in SortedByY(Normalize(raw')) : Rebuild(Normalize(Filter(s)))
    /\ UNCHANGED <<image, entryX, type, machine, words>>

\* The HMI turns the camera, or a calibration sets another factor.
ChangeMachine ==
    /\ machine' \in Machines
    /\ UNCHANGED <<image, entryX, type, scan, trace, raw, path, used, hmi, words>>

\* GO rebuilds the derived paths with the angle it has just read.
Go ==
    /\ path # NoPath
    /\ Rebuild(path)
    /\ words' = WordsOf(hmi')
    /\ UNCHANGED <<image, entryX, type, scan, trace, raw, machine>>

WordsNext == ToolPath \/ ChangeMachine \/ Go

WordsSpec == WordsInit /\ [][WordsNext]_wordVars

-----------------------------------------------------------------------------
(* Properties. *)

Word     == {w \in Nat : w < 65536}
WordSeqs == [1 .. BufferPoints -> Word]

\* Two sides of equal length throughout, never more rows than are taught, and words
\* that fit their registers.
WordsTypeOK ==
    /\ machine \in Machines /\ used \in Machines
    /\ path \in Sides /\ hmi \in Sides
    /\ Len(path.left) = Len(path.right) /\ Len(path.right) <= MaxPoints
    /\ words # NoWords =>
           /\ \A a \in {words.x1, words.y, words.x2} : a \in WordSeqs
           /\ words.from \in Sides
           /\ Len(words.from.left) = Len(words.from.right)
           /\ Len(words.from.right) \in 1 .. MaxPoints

\* No row is made up beyond the outline: the left side is interpolated at heights
\* taken from the right one, and both reach from the top to the bottom of what was
\* found; only the entry is put where the parameter says.
WithinOutline ==
    LET points == UNION {ToSet(FilterByMask(c)) : c \in ToSet(image)}
        xs     == {p.x : p \in points}
        ys     == {p.y : p \in points}
    IN  \A i \in Rows(raw) : \A p \in {raw.left[i], raw.right[i]} :
            /\ p.y >= Min(ys) /\ p.y <= Max(ys)
            /\ p.x = entryX \/ (p.x >= Min(xs) /\ p.x <= Max(xs))

\* An outline of 2 * MaxPoints points that could not be scanned is taken for a scan.
Mistaken == LooksScanned(trace, type) /\ scan = NoPath

\* The sides do not change places, in any row but the entry.
Uncrossed ==
    \A i \in Rows(raw) : raw.left[i].x <= raw.right[i].x \/ raw.right[i].x = entryX

\* Whichever way an outline is wound and wherever it starts, and although the scan
\* hands its points on as one sequence, what is taken as the right side lies right
\* of the left side, unless an outline is taken for a scan.
SidesDoNotCross == Mistaken \/ Uncrossed

\* The machine never gets a row from above the entry, although the bottom row is
\* put in after the profile was cut and everything is sorted once more; only the
\* bottom row itself may lie above an entry that is close to the bottom.
NothingAboveEntry ==
    \/ Mistaken
    \/ \A i \in Rows(path) : \/ path.right[i].y >= raw.right[1].y
                             \/ path.right[i] = raw.right[Len(raw.right)]

\* For ToolPathType 1 the points come as the comment in Tool Path says: the right side
\* from the entry to the end, then the left side back.
ScanOrder == type = 1 => Uncrossed

\* The machine is never given a row that leaves the ROI, not even one that was
\* made up to complete the shorter side, and it moves in one direction only.
RowsInRoi ==
    \A i \in Rows(path) :
        /\ InsideRoi(path.left[i]) /\ InsideRoi(path.right[i])
        /\ \A j \in Rows(path) : i < j => path.right[i].y <= path.right[j].y

\* Left and right points that were extracted as a pair stay one, through the
\* sort, the clipping and every later normalisation: glue is never laid between
\* points of different rows.
PairsKept ==
    \A i \in Rows(path) : \E j \in DOMAIN raw.right :
        /\ path.right[i] = raw.right[j]
        /\ path.left[i].x = raw.left[j].x

\* Every command is a position of the extracted path to the nearest 0.1 mm: X2 and the
\* common Y turned back give the right point in the image with at most half a unit of
\* error, and X1 is where the left point lies along the same machine axis as X2.
Near(v, exact, m) == 2 * (v * Grain * m.den - exact * m.num) \in
                        -(Grain * m.den) .. Grain * m.den

RoundsToNearest ==
    \A i \in Rows(path) :
        LET c     == Cos(used.quarter)
            s     == Sin(used.quarter)
            left  == hmi.left[i]
            right == hmi.right[i]
        IN  /\ Near(right.x * c + right.y * s, path.right[i].x - Ref.x * Grain, used)
            /\ Near(right.y * c - right.x * s, path.right[i].y - Ref.y * Grain, used)
            /\ Near(left.x, (path.left[i].x - Ref.x * Grain) * c
                               - (path.left[i].y - Ref.y * Grain) * s, used)
            /\ left.y = right.y

\* GO sends what Tool Path has shown if the machine setting is the same, although
\* it normalises and converts the stored path once more.
GoSendsWhatIsShown ==
    [][words' # words /\ used' = used => words'.from = hmi]_wordVars

\* signed_int16 of the journal.
SignedInt16(w) == IF w < 32768 THEN w ELSE w - 65536

Saturated(v) == Lesser(Greater(v, -32768), 32767)

\* What the PLC and the journal read from the 30 words of each axis is the
\* command, saturated, and beyond the last point the last point: the axis never
\* jumps to the other end of its range nor back to the origin.
WordsDecode ==
    words # NoWords =>
        \A i \in 1 .. BufferPoints :
            LET h == words.from
                k == Lesser(i, Len(h.right))
            IN  /\ SignedInt16(words.x1[i]) = Saturated(-h.left[k].x)
                /\ SignedInt16(words.y[i]) = Saturated(h.right[k].y)
                /\ SignedInt16(words.x2[i]) = Saturated(h.right[k].x)
=============================================================================
