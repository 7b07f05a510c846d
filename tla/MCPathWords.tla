----------------------------- MODULE MCPathWords -----------------------------
(***************************************************************************)
(* Instance of PathWords, in half pixels.  An image has an outline of 3    *)
(* heights, wound either way, or of 4, or two outlines when the erosion    *)
(* has cut a piece off.  Outlines lie inside the region                    *)
(* (BuildShoeInsetMask); the last two of 4 heights are within 3 pixels of  *)
(* each other and of the bottom line. The entry lies on a corner, on an    *)
(* edge or outside the region.  The reference point is at x = 100: right   *)
(* points at 4000 saturate INT16 at the fallback factor of 1 mm per pixel  *)
(* (10 units).                                                             *)
(***************************************************************************)
EXTENDS PathWords

P(x, y) == [x |-> x * Grain, y |-> y * Grain]

\* Down the right side, up the left side.
Around(h, l, r) ==
    [i \in DOMAIN h |-> P(r[i], h[i])] \o Reverse([i \in DOMAIN h |-> P(l[i], h[i])])

Shapes(h) ==
    {Around(h, l, r) : l \in [DOMAIN h -> {10, 2000}], r \in [DOMAIN h -> {2010, 4000}]}

Piece == <<P(2050, 2), P(2060, 2), P(2055, 4)>>

\* A left side with more points than the right one.
Uneven == <<P(2005, 8), P(2010, 14), P(2005, 20), P(2000, 18), P(2000, 14), P(2000, 10)>>

McImages   == UNION {{<<c>>, <<Reverse(c)>>} : c \in Shapes(<<8, 14, 20>>)}
                 \cup {<<c>> : c \in Shapes(<<1, 14, 22, 24>>)}
                 \cup UNION {{<<c, Piece>>, <<Piece, c>>} : c \in Shapes(<<8, 14, 24>>)}
                 \cup {<<>>, <<Uneven>>, <<Reverse(Uneven)>>}
McRoi      == [x |-> 0, y |-> 1, width |-> 4096, height |-> 24]
McRef      == [x |-> 100, y |-> 12]
McEntryXs  == {2 * 4000, 2 * 3000, 2 * 5000}
McMachines == {[quarter |-> 0, num |-> 1, den |-> 2],
               [quarter |-> 1, num |-> 10, den |-> 1]}
=============================================================================
