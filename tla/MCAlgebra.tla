------------------------------ MODULE MCAlgebra ------------------------------
(***************************************************************************)
(* Small instances of Algebra: the axes and two triples of vectors in      *)
(* general position; a rotation, a shear that may work in place, and a     *)
(* matrix that is affine and may work in place when it is transposed.      *)
(***************************************************************************)
EXTENDS Algebra

Triple(x, y, z) == [i \in Coord |-> <<x, y, z>>[i + 1]]
Columns(s) == [col \in Index |-> [lin \in Index |-> s[4 * col + lin + 1]]]

MCVecStarts ==
  {[u |-> vec_x, v |-> vec_y, w |-> Triple(2, -1, 3)],
   [u |-> Triple(1, 2, -1), v |-> Triple(0, 3, 1), w |-> Triple(-2, 1, 1)]}

Turned == Columns(<<0, 1, 0, 0,  -1, 0, 0, 0,  0, 0, 1, 0,  2, 3, -1, 1>>)
Sheared == Columns(<<2, 0, 0, 0,  1, 1, 0, 0,  0, -3, 1, 0,  1, -2, 1, 1>>)
Transposed == Columns(<<1, 0, 2, 3,  0, 1, -1, 1,  0, 0, 1, -2,  0, 0, 0, 1>>)

MCMatStarts == {[m1 |-> Turned, m2 |-> Sheared, m3 |-> Transposed],
                [m1 |-> Sheared, m2 |-> Transposed, m3 |-> Sheared]}
MCRatio == {-2}
=============================================================================
