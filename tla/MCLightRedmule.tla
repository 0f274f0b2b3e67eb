--------------------------- MODULE MCLightRedmule ---------------------------
(* Operations of several tiles in every direction, cut and whole, for an     *)
(* engine with tiles of 2 x 2 and accesses of two elements, or four short    *)
(* ones.                                                                     *)
EXTENDS LightRedmule

Shape(mm, nn, kk) == [m |-> mm, n |-> nn, k |-> kk]

\* Less than a tile; tiles cut in every direction; whole tiles.
SmallShapes == {Shape(1, 1, 1), Shape(3, 5, 3), Shape(5, 2, 4)}
=============================================================================
