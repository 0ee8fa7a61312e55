--------------------------- MODULE MCOutputServer ---------------------------
(***************************************************************************)
(* Instances of OutputServer for TLC: grids of one column and two rows   *)
(* (a newline scrolls), two glyphs, two frontbuf addresses so that a      *)
(* destroyed handle can be reused.                                         *)
(***************************************************************************)
EXTENDS OutputServer, TLC

CONSTANTS d1, d2, h1, h2

MCHandles == {h1, h2}
MCGlyphs == {"blank", "x"}
MCCursors == {"c0", "c1"}
MCTopRows == {0, 1}

\* Devices of equal size; d2 is two columns wide in MCWideCols.
MCCols == [d \in {d1, d2} |-> 1]
MCWideCols == (d1 :> 1) @@ (d2 :> 2)
MCRows == [d \in {d1, d2} |-> 2]
MCCaps == (d1 :> {"style", "indexed"}) @@ (d2 :> {"style", "rgb"})

\* Rectangles inside the 1 x 2 grid, and one that reaches past its column.
MCRects == {<<0, 0, 1, 2>>, <<0, 1, 1, 1>>}
MCWideRects == MCRects \cup {<<0, 1, 2, 1>>}
=============================================================================
