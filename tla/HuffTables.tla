----------------------------- MODULE HuffTables -----------------------------
(* The Huffman tables of libjpeg (src/jpeg-8d/jcparam.c, jchuff.c, jdhuff.c):*)
(* the standard ones, the optimal ones made from symbol counts, and what the *)
(* encoder and the decoder derive from a table.                              *)
(*                                                                           *)
(* A table is [bits, huffval]: how many codes have each length 1..16, and    *)
(* the symbols in the order of their codes. BadTable stands for the error    *)
(* exit of a table that is no Huffman table.                                 *)
EXTENDS Integers, Sequences, FiniteSets, Lists

CONSTANT MaxCodeLength  \* longest code an optimal table may have: 16

ASSUME MaxCodeLengthAssumption == MaxCodeLength \in 2 .. 16

MAX_CLEN == 32
PseudoSymbol == 256

BadTable == [bits |-> << >>, huffval |-> << >>]

Ascending(S) == SelectSeq([i \in 1 .. 256 |-> i - 1], LAMBDA s : s \in S)

\* The table of a standard AC code: its first symbols are listed, the others
\* follow in ascending order.
AcSymbols == {0, \hF0} \cup {16 * r + s : r \in 0 .. 15, s \in 1 .. 10}
WithTheRest(first) == first \o Ascending(AcSymbols \ ToSet(first))

std_dc(tbl) ==
  [bits |-> IF tbl = 0 THEN <<0, 1, 5, 1, 1, 1, 1, 1, 1, 0, 0, 0, 0, 0, 0, 0>>
                       ELSE <<0, 3, 1, 1, 1, 1, 1, 1, 1, 1, 1, 0, 0, 0, 0, 0>>,
   huffval |-> [i \in 1 .. 12 |-> i - 1]]

std_ac_luminance ==
  [bits |-> <<0, 2, 1, 3, 3, 2, 4, 3, 5, 5, 4, 4, 0, 0, 1, \h7d>>,
   huffval |-> WithTheRest(
     << \h01, \h02, \h03, \h00, \h04, \h11, \h05, \h12, \h21, \h31, \h41, \h06,
        \h13, \h51, \h61, \h07, \h22, \h71, \h14, \h32, \h81, \h91, \ha1, \h08,
        \h23, \h42, \hb1, \hc1, \h15, \h52, \hd1, \hf0, \h24, \h33, \h62, \h72,
        \h82 >>)]

std_ac_chrominance ==
  [bits |-> <<0, 2, 1, 2, 4, 4, 3, 4, 7, 5, 4, 4, 0, 1, 2, \h77>>,
   huffval |-> WithTheRest(
     << \h00, \h01, \h02, \h03, \h11, \h04, \h05, \h21, \h31, \h06, \h12, \h41,
        \h51, \h07, \h61, \h71, \h13, \h22, \h32, \h81, \h08, \h14, \h42, \h91,
        \ha1, \hb1, \hc1, \h09, \h23, \h33, \h52, \hf0, \h15, \h62, \h72, \hd1,
        \h0a, \h16, \h24, \h34, \he1, \h25, \hf1 >>)]

\* The tables jpeg_set_defaults installs, by component kind.
std_huff_tables ==
  [dc |-> <<std_dc(0), std_dc(1)>>, ac |-> <<std_ac_luminance, std_ac_chrominance>>]

-----------------------------------------------------------------------------
\* Making the optimal table for the counts of freq, a function on the symbols
\* that occur, as section K.2 of the standard does it.

\* Of the trees [head, count, leaves], the one with the smallest count; among
\* equals the one whose head is the larger symbol.
Smallest(trees) ==
  CHOOSE t \in trees : \A u \in trees :
    t.count < u.count \/ (t.count = u.count /\ t.head >= u.head)

\* The trees of w with the two smallest merged, whose codes become longer.
MergeSmallest(w) ==
  LET c1 == Smallest(w.trees)
      c2 == Smallest(w.trees \ {c1})
      both == c1.leaves \cup c2.leaves
  IN  [trees |-> (w.trees \ {c1, c2})
                   \cup {[head |-> c1.head, count |-> c1.count + c2.count, leaves |-> both]},
       codesize |-> [s \in DOMAIN w.codesize |->
                       IF s \in both THEN w.codesize[s] + 1 ELSE w.codesize[s]]]

\* Code length of each leaf once all trees are merged in one.
MergeTrees(trees, leaves) ==
  InOrder(LAMBDA w, n : MergeSmallest(w),
          [trees |-> trees, codesize |-> [s \in leaves |-> 0]],
          [n \in 1 .. Cardinality(trees) - 1 |-> n]).codesize

\* A pair of codes of length i becomes one of length i - 1, and a shorter code
\* becomes the prefix of two.
ShortenPair(bits, i) ==
  LET j == Max({l \in 1 .. i - 2 : bits[l] > 0})
      one == [bits EXCEPT ![i] = @ - 2, ![i - 1] = @ + 1]
  IN  [one EXCEPT ![j + 1] = @ + 2, ![j] = @ - 1]

\* The counts of code lengths when none may exceed MaxCodeLength; the longest
\* codes come in pairs.
LimitLengths(bits) ==
  LET Shortened(b, i) ==
        InOrder(LAMBDA some, n : ShortenPair(some, i), b, [n \in 1 .. b[i] \div 2 |-> n])
  IN  InOrder(Shortened, bits,
              [n \in 1 .. MAX_CLEN - MaxCodeLength |-> MAX_CLEN + 1 - n])

jpeg_gen_optimal_table(freq) ==
  LET leaves == DOMAIN freq \cup {PseudoSymbol}
      count(s) == IF s = PseudoSymbol THEN 1 ELSE freq[s]
      codesize == MergeTrees({[head |-> s, count |-> count(s), leaves |-> {s}] :
                                s \in leaves}, leaves)
      lengths == LimitLengths(
                   [l \in 1 .. MAX_CLEN |->
                      Cardinality({s \in leaves : codesize[s] = l})])
      longest == Max({l \in 1 .. MaxCodeLength : lengths[l] > 0})
      OfLength(l) == Ascending({s \in DOMAIN freq : codesize[s] = l})
  IN  [bits |-> [l \in 1 .. 16 |-> IF l = longest THEN lengths[l] - 1 ELSE lengths[l]],
       huffval |-> FlattenSeq([l \in 1 .. MAX_CLEN |-> OfLength(l)])]

-----------------------------------------------------------------------------
\* Length of the p-th code of a table.
HuffSizes(tbl) == FlattenSeq([l \in 1 .. 16 |-> [i \in 1 .. tbl.bits[l] |-> l]])

\* The p-th code, as a number: codes of one length are consecutive, and a
\* longer one continues after all shorter ones.
HuffCodes(sizes) ==
  LET OfLength(l) == {p \in DOMAIN sizes : sizes[p] = l}
      first[l \in 0 .. 16] ==
        IF l = 0 THEN 0 ELSE 2 * (first[l - 1] + Cardinality(OfLength(l - 1)))
  IN  [p \in DOMAIN sizes |->
         first[sizes[p]] + Cardinality({q \in OfLength(sizes[p]) : q < p})]

\* The codes fit their length and none is all ones; no symbol twice, and a DC
\* symbol below 16 (the decoder does not look for symbols met twice).
TableOk(tbl, sizes, codes, isDC) ==
  /\ \A p \in DOMAIN sizes :
       p = Len(sizes) \/ sizes[p + 1] # sizes[p] => codes[p] + 1 < 2 ^ sizes[p]
  /\ \A p \in DOMAIN sizes : tbl.huffval[p] \in 0 .. (IF isDC THEN 15 ELSE 255)

\* What the encoder derives: the code of each symbol that has one, <<code,
\* length>>; << >> for a bad table.
jpeg_make_c_derived_tbl(isDC, tbl) ==
  LET sizes == SubSeq(HuffSizes(tbl), 1, Len(tbl.huffval))
      codes == HuffCodes(sizes)
      Position(s) == CHOOSE p \in DOMAIN sizes : tbl.huffval[p] = s
  IN  IF /\ tbl # BadTable /\ Len(HuffSizes(tbl)) = Len(tbl.huffval)
         /\ TableOk(tbl, sizes, codes, isDC) /\ IsInjective(tbl.huffval)
      THEN [s \in ToSet(tbl.huffval) |-> <<codes[Position(s)], sizes[Position(s)]>>]
      ELSE << >>

\* What the decoder derives: for each length the largest code (-1 when there
\* is none) and what to add to a code to find its symbol. The table of the
\* next eight bits, a faster way to the same symbol, is left out.
jpeg_make_d_derived_tbl(isDC, tbl) ==
  LET sizes == SubSeq(HuffSizes(tbl), 1, Len(tbl.huffval))
      codes == HuffCodes(sizes)
      At(l) == {p \in DOMAIN sizes : sizes[p] = l}
      used == {l \in 1 .. 16 : At(l) # {}}
  IN  IF tbl # BadTable /\ TableOk(tbl, sizes, codes, isDC)
      THEN [maxcode |-> SubSeq([l \in 1 .. 16 |->
                          IF l \in used THEN codes[Max(At(l))] ELSE -1], 1, 16),
            valoffset |-> SubSeq([l \in 1 .. 16 |->
                          IF l \in used THEN Min(At(l)) - codes[Min(At(l))] ELSE 0],
                          1, 16),
            huffval |-> tbl.huffval]
      ELSE [maxcode |-> << >>, valoffset |-> << >>, huffval |-> << >>]
=============================================================================
