---------------------------- MODULE MCTransforms ----------------------------
(* Bounds for TLC.                                                              *)
EXTENDS Transforms

CONSTANTS Full, Half    \* the swing of the waves and of the corners

\* One quantizer for all, and a table that is not symmetric.
FlatTable == [v \in 0 .. 7 |-> [u \in 0 .. 7 |-> 1]]
RampTable == [v \in 0 .. 7 |-> [u \in 0 .. 7 |-> 12 + u + 3 * v]]
MCTables == {FlatTable, RampTable}

Block(sz, light(_, _), swing) ==
  [r \in 0 .. sz[2] - 1 |-> [c \in 0 .. sz[1] - 1 |->
     IF light(r, c) THEN swing ELSE -swing - 1]]

\* The sign pattern of a basis function, the block on which its coefficient is largest.
Wave(sz, u, v) ==
  Block(sz, LAMBDA r, c : Basis(sz[1], u, c) * Basis(sz[2], v, r) >= 0, Full)

\* All of them for 8 x 8 and 16 x 16, the sizes of the program; the diagonal of others.
Waves(sz) ==
  {wave \in (0 .. AtMost8(sz[1]) - 1) \X (0 .. AtMost8(sz[2]) - 1) :
     sz \in {<<8, 8>>, <<16, 16>>} \/ wave[1] = wave[2]}

\* A light corner on the diagonal of a dark block, as big as k of n steps: the rows
\* and the columns of the corners span all rows and columns.
Corner(sz, k, n) ==
  Block(sz, LAMBDA r, c : c <= (k * sz[1]) \div n /\ r <= (k * sz[2]) \div n, Half)

MCBlocks(sz) ==
  LET n == IF sz[1] < sz[2] THEN sz[2] ELSE sz[1]
  IN  {Wave(sz, wave[1], wave[2]) : wave \in Waves(sz)}
        \cup {Corner(sz, k, n) : k \in 0 .. n - 1}

\* Every size but those whose first pass is a 12-point or a 14-point one.
MostSizes == {sz \in ScaledSizes : sz[1] \notin {12, 14}}
TwelveAndFourteen == ScaledSizes \ MostSizes
====
