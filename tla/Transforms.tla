----------------------------- MODULE Transforms -----------------------------
(* One block of a component on its way through the compressor, the            *)
(* decompressor and the compressor again: src/jpeg-8d/jcdctmgr.c forward_DCT  *)
(* and src/jpeg-8d/jddctmgr.c, with every transform of jfdctint.c and         *)
(* jidctint.c they choose from.  A picture of the program takes the first     *)
(* step (8 x 8 for luminance, 16 x 16 for chrominance); its viewer the        *)
(* second; a tool that edits the picture all three.                           *)
EXTENDS DctManager

CONSTANTS Sizes,         \* the scaled sizes of a component, <<width, height>>
          Tables,        \* the quantization tables, [v][u]
          Blocks(_)      \* the blocks of centred samples of a size, [row][column]
ASSUME SizesAssumption == Sizes \subseteq ScaledSizes
\* jpeg_add_quant_table makes a quantizer of 0 a 1.
ASSUME TablesAssumption == Tables \subseteq [0 .. 7 -> [0 .. 7 -> Nat \ {0}]]
ASSUME BlocksAssumption ==
  \A sz \in Sizes :
    Blocks(sz) \subseteq [0 .. sz[2] - 1 -> [0 .. sz[1] - 1 -> -128 .. 127]]

VARIABLES stage,      \* "raw", "coded", "shown", "recoded"
          size, quant,
          samples,    \* the block, centred at 0
          workspace,  \* the transform's output, scaled up by 8
          coefs       \* what the entropy coder is given
vars == <<stage, size, quant, samples, workspace, coefs>>

Zero8x8 == [v \in 0 .. 7 |-> [u \in 0 .. 7 |-> 0]]

Init ==
  /\ stage = "raw"
  /\ size \in Sizes
  /\ quant \in Tables
  /\ samples \in Blocks(size)
  /\ workspace = Zero8x8
  /\ coefs = Zero8x8

Encode(from, to) ==
  /\ stage = from
  /\ workspace' = Forward(do_dct(size), samples)
  /\ coefs' = forward_DCT(workspace', quant)
  /\ stage' = to
  /\ UNCHANGED <<size, quant, samples>>

Compress == Encode("raw", "coded")

\* The samples leave range limiting as 0 .. 255.
Decompress ==
  /\ stage = "coded"
  /\ LET shown == Inverse(inverse_DCT(size), coefs, quant)
     IN  samples' = [r \in DOMAIN shown |-> [c \in DOMAIN shown[r] |-> shown[r][c] - 128]]
  /\ stage' = "shown"
  /\ UNCHANGED <<size, quant, workspace, coefs>>

Recompress == Encode("shown", "recoded")

Next == Compress \/ Decompress \/ Recompress

Spec == Init /\ [][Next]_vars
-----------------------------------------------------------------------------
(* The reference: the DCT by its definition, in integers of 12 fraction bits. *)

\* RootTwoCos[n][k+1] is the square root of 2 times cos(k * pi / 2n), times 2^12.
RootTwoCos ==
  <<
     << 5793, 0 >>,
     << 5793, 4096, 0 >>,
     << 5793, 5017, 2896, 0 >>,
     << 5793, 5352, 4096, 2217, 0 >>,
     << 5793, 5509, 4686, 3405, 1790, 0 >>,
     << 5793, 5595, 5017, 4096, 2896, 1499, 0 >>,
     << 5793, 5647, 5219, 4529, 3612, 2513, 1289, 0 >>,
     << 5793, 5681, 5352, 4816, 4096, 3218, 2217, 1130, 0 >>,
     << 5793, 5705, 5443, 5017, 4437, 3723, 2896, 1981, 1006, 0 >>,
     << 5793, 5721, 5509, 5161, 4686, 4096, 3405, 2630, 1790, 906, 0 >>,
     << 5793, 5734, 5558, 5269, 4873, 4378, 3793, 3132, 2406, 1632, 824, 0
        >>,
     << 5793, 5743, 5595, 5352, 5017, 4596, 4096, 3526, 2896, 2217, 1499,
        756, 0 >>,
     << 5793, 5750, 5624, 5416, 5129, 4767, 4336, 3841, 3291, 2692, 2054,
        1386, 698, 0 >>,
     << 5793, 5756, 5647, 5468, 5219, 4905, 4529, 4096, 3612, 3082, 2513,
        1913, 1289, 649, 0 >>,
     << 5793, 5761, 5666, 5509, 5292, 5017, 4686, 4305, 3876, 3405, 2896,
        2356, 1790, 1204, 605, 0 >>,
     << 5793, 5765, 5681, 5543, 5352, 5109, 4816, 4478, 4096, 3675, 3218,
        2731, 2217, 1682, 1130, 568, 0 >> >>

Cosine(n, k) ==
  LET m == k % (4 * n)
      a == IF m > 2 * n THEN 4 * n - m ELSE m
  IN  IF a > n THEN -RootTwoCos[n][2 * n - a + 1] ELSE RootTwoCos[n][a + 1]

\* Basis function u of n points, at point j.
Basis(n, u, j) == IF u = 0 THEN 4096 ELSE Cosine(n, (2 * j + 1) * u)

BasisRow(n, u) == [k \in 1 .. n |-> Basis(n, u, k - 1)]

\* The component of n points along basis function u, summed up in pairs of pairs.
Component(n, u, x) ==
  LET t(j) == IF j < n THEN x[j] * BasisRow(n, u)[j + 1] ELSE 0
      four(j) == (t(j) + t(j + 1)) + (t(j + 2) + t(j + 3))
  IN  (four(0) + four(4)) + (four(8) + four(12))

\* 8 times the coefficients of a w x h block, normalized as for 8 x 8 samples.
Dct(w, h, s) ==
  LET Row(r) == ListOf(AtMost8(w), LAMBDA u : DESCALE(Component(w, u, s[r]), 10))
      rows == ListOf(h, Row)
      InColumn(u) == [r \in 0 .. h - 1 |-> rows[r + 1][u + 1]]
  IN  [v \in 0 .. AtMost8(h) - 1 |-> [u \in 0 .. AtMost8(w) - 1 |->
         DESCALE(Component(h, v, InColumn(u)) \div (w * h), 8)]]

Distance(a, b) == IF a < b THEN b - a ELSE a - b
-----------------------------------------------------------------------------
\* What the transform leaves in the workspace is the DCT of the samples, within
\* one unit of a coefficient, as the head of each jpeg_fdct function says it is
\* ("Perform the forward DCT on a ... sample block").
ForwardIsDct ==
  stage = "coded" =>
    LET d == Dct(size[1], size[2], samples)
    IN  \A v \in DOMAIN d : \A u \in DOMAIN d[v] : Distance(workspace[v][u], d[v][u]) <= 8

\* The entropy coder can code what it is given: encode_one_block raises
\* JERR_BAD_DCT_COEF for an AC coefficient of more than MAX_COEF_BITS = 10 bits and
\* for a DC difference of more than 11.
CoefficientsEncodable ==
  stage \in {"coded", "recoded"} =>
    /\ coefs[0][0] \in -1024 .. 1023
    /\ \A v, u \in 0 .. 7 : <<v, u>> # <<0, 0>> => coefs[v][u] \in -1023 .. 1023

\* No sample had to be clamped to 0 .. 255.
Unclamped == \A r \in DOMAIN samples : \A c \in DOMAIN samples[r] : samples[r][c] \in -127 .. 126

\* A picture that is shown unclamped and compressed again with the same tables is
\* the same picture.  The rounding of 64 samples, half a unit each, is worth at most
\* 4 units of an 8 x 8 coefficient, so no step of a quantizer above 4.
RecodingKeepsPicture ==
  [][ stage = "shown" /\ Unclamped =>
        \A v, u \in 0 .. 7 : Distance(coefs'[v][u], coefs[v][u]) * quant[v][u] <= 4 ]_vars
====
