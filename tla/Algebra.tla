------------------------------ MODULE Algebra ------------------------------
(***************************************************************************)
(* The operations of lib/cnt/vec.c and lib/cnt/matrix.c that have a loop   *)
(* over the coordinates of their result: one call of one of them, a step   *)
(* for each coordinate.  What it is given may be what it writes to, so     *)
(* that a step may read what an earlier one wrote.                         *)
(*                                                                         *)
(* Coordinates are integers: doubles are exact on small ones.  Left out    *)
(* are their rounding, and what has a square root in it (Vec_norm,         *)
(* Vec_normalize, Vec_dist).                                               *)
(***************************************************************************)
EXTENDS Integers, Functions

CONSTANTS Vector, Matrix,       \* the variables of the program
          VecStarts, MatStarts, \* what may be in them at the call
          Ratio

Coord == 0 .. 2
Index == 0 .. 3

ASSUME AlgebraAssumption ==
  /\ VecStarts \subseteq [Vector -> [Coord -> Int]]
  /\ MatStarts \subseteq [Matrix -> [Index -> [Index -> Int]]]
  /\ Ratio \subseteq Int

VARIABLES
  vec, given,   \* the vectors, now and at the call
  mat,          \* the matrices: c[column][line]
  call,         \* the function with its arguments: f(dest, a, b, ratio)
  done          \* the coordinates written

algebraVars == <<vec, given, mat, call, done>>

-----------------------------------------------------------------------------
vec_x == [i \in Coord |-> IF i = 0 THEN 1 ELSE 0]
vec_y == [i \in Coord |-> IF i = 1 THEN 1 ELSE 0]
vec_z == [i \in Coord |-> IF i = 2 THEN 1 ELSE 0]

\* Vec_scale3, Vec_add, Vec_add3, ...: coordinate i of the result.
Scale3(x, ratio, i) == x[i] * ratio
Add(this, that, i) == this[i] + that[i]
Sub(this, that, i) == this[i] - that[i]
Add3(v1, v2, i) == v1[i] + v2[i]
Sub3(v1, v2, i) == v1[i] - v2[i]
AddScale(this, ratio, that, i) == this[i] + ratio * that[i]
AddScale3(v1, ratio, v2, i) == v1[i] + ratio * v2[i]

\* Mutant: the same two coordinates are multiplied twice.
ProductSquare(v1, v2, i) ==
  LET j == (i + 1) % 3  k == (i + 2) % 3 IN v1[j] * v2[k] - v1[j] * v2[k]

Product(v1, v2, i) ==
  LET j == (i + 1) % 3  k == (i + 2) % 3 IN v1[j] * v2[k] - v1[k] * v2[j]

Scalar(v1, v2) == SumFunction([i \in Coord |-> v1[i] * v2[i]])
Norm2(v) == Scalar(v, v)

\* Matrix_mul_vec and Matrix_mulT_vec: line lin of the result, for a vector
\* with a fourth coordinate of 1.
MulVec(m, v, lin) == m[3][lin] + SumFunction([k \in Coord |-> m[k][lin] * v[k]])
MulTVec(m, v, lin) == m[lin][3] + SumFunction([k \in Coord |-> m[lin][k] * v[k]])

\* Matrix_mul, and Matrix_mulT and Matrix_Tmul with one of them transposed.
Mul(m1, m2, col, lin) == SumFunction([k \in Index |-> m1[k][lin] * m2[col][k]])
MulT(m1, m2, col, lin) == SumFunction([k \in Index |-> m1[k][lin] * m2[k][col]])

\* Mutant: neither is transposed.
TmulPlain(m1, m2, col, lin) == Mul(m1, m2, col, lin)

Tmul(m1, m2, col, lin) == SumFunction([k \in Index |-> m1[lin][k] * m2[col][k]])

-----------------------------------------------------------------------------
VecByVec == {"scale3", "add", "sub", "add3", "sub3",
             "add_scale", "add_scale3", "product"}
VecByMat == {"mul_vec", "mulT_vec"}
MatByMat == {"mul", "mulT", "Tmul"}

\* What the functions are called with; the first operand of an update is its
\* destination.
Calls ==
  LET Args(fs, D, A, B) == [f : fs, dest : D, a : A, b : B, ratio : Ratio]
      updates == {"add", "sub", "add_scale"}
      onVec == Args(VecByVec, Vector, Vector, Vector)
  IN  {c \in onVec : c.f \in updates => c.a = c.dest}
        \cup Args(VecByMat, Vector, Matrix, Vector)
        \cup Args(MatByMat, Matrix, Matrix, Matrix)

\* Coordinate i of the vector that a call gives when the vectors are v.
VecResult(v, i) ==
  LET x == v[call.a]
      y == v[call.b]
      r == call.ratio
      m == mat[call.a]
  IN  CASE call.f = "scale3" -> Scale3(x, r, i)
        [] call.f = "add" -> Add(x, y, i)
        [] call.f = "sub" -> Sub(x, y, i)
        [] call.f = "add3" -> Add3(x, y, i)
        [] call.f = "sub3" -> Sub3(x, y, i)
        [] call.f = "add_scale" -> AddScale(x, r, y, i)
        [] call.f = "add_scale3" -> AddScale3(x, r, y, i)
        [] call.f = "product" -> Product(x, y, i)
        [] call.f = "mul_vec" -> MulVec(m, y, i)
        [] call.f = "mulT_vec" -> MulTVec(m, y, i)

MatResult(col, lin) ==
  LET m1 == mat[call.a]
      m2 == mat[call.b]
  IN  CASE call.f = "mul" -> Mul(m1, m2, col, lin)
        [] call.f = "mulT" -> MulT(m1, m2, col, lin)
        [] call.f = "Tmul" -> Tmul(m1, m2, col, lin)

\* Mutant: the assert of Vec_product does not look at its operands.
ApartNot(c) == TRUE

\* Vec_product asserts that it does not write to an operand (line 180).
Apart(c) == c.dest \notin {c.a, c.b}

\* The product of a matrix and a vector may replace the vector if no line
\* needs a coordinate before its own.
InPlace(c) ==
  \A lin \in Coord : \A k \in 0 .. lin - 1 :
    (IF c.f = "mul_vec" THEN mat[c.a][k][lin] ELSE mat[c.a][lin][k]) = 0

\* What the client keeps to: of the operations on vectors, only the product
\* needs its result apart; matrix.c asserts nothing.
Careful(c) ==
  /\ c.f \in MatByMat \cup {"product"} => Apart(c)
  /\ c.f \in VecByMat => c.dest # c.b \/ InPlace(c)

AlgebraInit ==
  /\ vec \in VecStarts /\ mat \in MatStarts /\ given = vec /\ done = 0
  /\ call \in {c \in Calls : Careful(c)}

VecStep ==
  /\ call.f \notin MatByMat /\ done < 3
  /\ vec' = [vec EXCEPT ![call.dest][done] = VecResult(vec, done)]
  /\ done' = done + 1
  /\ UNCHANGED <<given, mat, call>>

\* One round of the two outer loops, with all of the inner one: what it reads
\* is apart from what it writes.
MatStep ==
  /\ call.f \in MatByMat /\ done < 16
  /\ LET col == done \div 4
         lin == done % 4
     IN  mat' = [mat EXCEPT ![call.dest][col][lin] = MatResult(col, lin)]
  /\ done' = done + 1
  /\ UNCHANGED <<vec, given, call>>

AlgebraNext == VecStep \/ MatStep

AlgebraSpec == AlgebraInit /\ [][AlgebraNext]_algebraVars

-----------------------------------------------------------------------------
Returns(fs) == call.f \in fs /\ done = (IF call.f \in MatByMat THEN 16 ELSE 3)

\* What is written is what copies of the operands would have given, although
\* they may be the destination, both of them too.
AliasFree ==
  Returns(VecByVec \cup VecByMat) =>
    \A i \in Coord : vec[call.dest][i] = VecResult(given, i)

\* The vector product is orthogonal to its operands, as long as it should be
\* and on the right side.
ProductNormal ==
  Returns({"product"}) =>
    LET v1 == vec[call.a]
        v2 == vec[call.b]
        p == vec[call.dest]
    IN  /\ Scalar(p, v1) = 0 /\ Scalar(p, v2) = 0
        /\ Norm2(p) = Norm2(v1) * Norm2(v2) - Scalar(v1, v2) * Scalar(v1, v2)
        /\ v1 = vec_x /\ v2 = vec_y => p = vec_z

\* The product of two matrices does to a vector what the two do in turn, those
\* transposed that the code says are, and Matrix_mul_vec, which leaves out the
\* fourth line, agrees on it if the one applied first is affine.
ActsInTurn ==
  Returns(MatByMat) =>
    \A v \in {vec[n] : n \in Vector} :
      LET Times(m, w) == [lin \in Coord |-> MulVec(m, w, lin)]
          TimesT(m, w) == [lin \in Coord |-> MulTVec(m, w, lin)]
          m1 == mat[call.a]
          m2 == mat[call.b]
          affine == \A k \in Index : m2[k][3] = (IF k = 3 THEN 1 ELSE 0)
          affineT == \A k \in Index : m2[3][k] = (IF k = 3 THEN 1 ELSE 0)
          p == Times(mat[call.dest], v)
      IN  /\ call.f = "mul" /\ affine => p = Times(m1, Times(m2, v))
          /\ call.f = "mulT" /\ affineT => p = Times(m1, TimesT(m2, v))
          /\ call.f = "Tmul" /\ affine => p = TimesT(m1, Times(m2, v))
=============================================================================
