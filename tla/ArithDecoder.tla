---------------------------- MODULE ArithDecoder ----------------------------
(* Arithmetic entropy decoding of MCUs (src/jpeg-8d/jdarith.c). This decoder *)
(* cannot wait for data: the source delivers or the decompression ends.      *)
(*                                                                           *)
(* A decoder is a MarkerReader's reader with [c, a, ct, stats, last, ctx,    *)
(* togo]: the interval and the bits read ahead, the count of these bits (-1  *)
(* after an error, until the next restart), the statistics, the last DC      *)
(* value and the conditioning category of each component, and the MCUs left  *)
(* in the segment. Within a call it also has sym, the decision or the value  *)
(* decoded last, and block.                                                  *)
EXTENDS ArithTable, Scans, MarkerReader, Lists

\* Reads a byte into the interval; zeros where the marker is reached.
NextByte(d, data) ==
  LET more == d.pos < d.mark
      f == [d EXCEPT !.c = @ * 256 + (IF more THEN data[d.pos] ELSE 0),
                     !.pos = IF more THEN @ + 1 ELSE @]
  IN  CASE d.ct >= -8 /\ d.ct < 0 /\ d.a = 0 -> [f EXCEPT !.ct = 0, !.a = \h8000]
        [] d.ct < -8 /\ d.a = 0              -> [f EXCEPT !.ct = @ + 8]
        [] OTHER                             -> [f EXCEPT !.ct = @ + 7]

\* More bits of precision: as many as are needed and there, or those of another
\* byte, the first of which is taken at once.
Renormalized(d, data) ==
  LET needed == CHOOSE n \in 1 .. 15 : d.a * 2 ^ n \in \h8000 .. \hFFFF
      n == IF needed < d.ct THEN needed ELSE d.ct
  IN  IF d.ct <= 0 THEN [NextByte(d, data) EXCEPT !.a = 2 * @]
      ELSE [d EXCEPT !.a = @ * 2 ^ n, !.ct = @ - n]

\* The decision of a bin in state st, when a is left of the interval for the
\* more probable one: exchanged when that is the smaller part.
Outcome(d, bin, st, a) ==
  LET lower == d.c < a * 2 ^ d.ct
      exchanged == a < Qe(st)
      likely == [d EXCEPT !.a = a, !.sym = st[2]]
      part == IF lower THEN likely
              ELSE [likely EXCEPT !.a = Qe(st), !.c = @ - a * 2 ^ d.ct]
  IN  CASE lower /\ a >= \h8000 -> part
        [] lower # exchanged /\ ~(lower /\ a >= \h8000)
             -> [part EXCEPT !.stats[bin[1]][bin[2]][bin[3]] = Estimate_after_MPS(st)]
        [] lower = exchanged /\ ~(lower /\ a >= \h8000)
             -> [part EXCEPT !.stats[bin[1]][bin[2]][bin[3]] = Estimate_after_LPS(st),
                             !.sym = 1 - @]

InState(d, bin, st) == Outcome(d, bin, st, d.a - Qe(st))
InBin(d, bin) == InState(d, bin, BinState(d.stats, bin))

\* Decodes one decision of a bin, once the interval has 16 bits: two bytes and
\* the bits around them are enough.
arith_decode(d, data, bin) ==
  LET Wide(x) == x.a >= \h8000
      walk[n \in 0 .. 5] ==
        IF n = 0 THEN d
        ELSE LET x == walk[n - 1] IN IF Wide(x) THEN x ELSE Renormalized(x, data)
  IN  IF Wide(d) THEN InBin(d, bin) ELSE InBin(walk[5], bin)

\* Nothing more can be decoded in this segment.
BadCode(d) == [d EXCEPT !.ct = -1, !.warned = TRUE]
Bad(d) == d.ct = -1

-----------------------------------------------------------------------------
\* Values. m is the magnitude category, a power of two, or 0.

\* The steps of a value are operators of their own, each on the decoder that the
\* step before has left; band is [data, tbl, Se, Al].

\* The bins of the category of a DC value (k = 0) or of coefficient k.
CategoryBin(tbl, k, j) == IF k = 0 THEN DcCategory(tbl, j) ELSE AcCategory(tbl, k, j)

\* The category goes up as long as the bins say so.
Counted(d, m) == [d EXCEPT !.m = m]
DecodeCategory(d, band, k) ==
  LET Next(x, j) ==
        IF x.sym = 0 THEN x
        ELSE Counted(arith_decode(x, band.data, CategoryBin(band.tbl, k, j)), j)
      last == InOrder(Next, [d EXCEPT !.sym = 1], Numbers(0, 14))
  IN  IF last.sym = 1 THEN BadCode(last) ELSE [last EXCEPT !.sym = last.m]

\* n bits below the highest bit of a magnitude.
DecodePattern(d, data, bin, n) ==
  LET WithBit(x) == [x EXCEPT !.m = 2 * @ + x.sym]
      walk[j \in 0 .. n] ==
        IF j = 0 THEN Counted(d, 1) ELSE WithBit(arith_decode(walk[j - 1], data, bin))
      last == walk[n]
  IN  [last EXCEPT !.sym = last.m]

\* A magnitude less one; st is the bin that tells whether it is zero.
Pattern(d, band, k) ==
  IF Bad(d) THEN d
  ELSE DecodePattern(d, band.data, PatternBin(CategoryBin(band.tbl, k, d.sym)), d.sym)
NotZero(d, band, k) ==
  IF d.sym = 0 THEN d ELSE Pattern(DecodeCategory(d, band, k), band, k)
DecodeMagnitude(d, band, st, k) == NotZero(arith_decode(d, band.data, st), band, k)

Signed(negative, w) == IF negative = 1 THEN -(w + 1) ELSE w + 1

\* The highest power of two in w, 0 for none: the category of magnitude w + 1.
CategoryOf(w) == IF w = 0 THEN 0 ELSE CHOOSE m \in {2 ^ n : n \in 0 .. 14} : m <= w /\ w < 2 * m

\* The DC value of component i of the scan.
DcValue(d, negative, i) ==
  IF Bad(d) THEN d
  ELSE [d EXCEPT !.ctx[i] = dc_context(negative = 1, CategoryOf(d.sym)),
                 !.last[i] = @ + Signed(negative, d.sym)]
DcMagnitude(d, band, i) ==
  DcValue(DecodeMagnitude(d, band, DcBin(band.tbl, d.ctx[i] + 2 + d.sym), 0), d.sym, i)
DcSign(d, band, i) ==
  IF d.sym = 0 THEN [d EXCEPT !.ctx[i] = 0]
  ELSE DcMagnitude(arith_decode(d, band.data, DcBin(band.tbl, d.ctx[i] + 1)), band, i)
DecodeDc(d, band, i) ==
  DcSign(arith_decode(d, band.data, DcBin(band.tbl, d.ctx[i])), band, i)

\* A band is gone through position by position. Before one the end of the block
\* may be met (ended), though not behind a zero (inRun).
Unless(d, Goes(_)) == IF d.sym = 1 THEN [d EXCEPT !.ended = TRUE] ELSE Goes(d)
EndBin(band, k) == AcBin(band.tbl, 3 * (k - 1))

\* The coefficient at position k.
AcValue(d, band, negative, k) ==
  IF Bad(d) THEN d
  ELSE [d EXCEPT !.block[k + 1] = Signed(negative, d.sym) * 2 ^ band.Al, !.inRun = FALSE]
AcMagnitude(d, band, k) ==
  AcValue(DecodeMagnitude(d, band, AcBin(band.tbl, 3 * (k - 1) + 2), k), band, d.sym, k)
AcNonzero(d, band, k) ==
  IF d.sym = 0 THEN [d EXCEPT !.inRun = TRUE]
  ELSE AcMagnitude(arith_decode(d, band.data, fixed_bin), band, k)
AcBit(d, band, k) ==
  AcNonzero(arith_decode(d, band.data, AcBin(band.tbl, 3 * (k - 1) + 1)), band, k)
AcAt(d, band, k) ==
  CASE Bad(d) \/ d.ended                   -> d
    [] ~(Bad(d) \/ d.ended) /\ d.inRun     -> AcBit(d, band, k)
    [] ~(Bad(d) \/ d.ended) /\ ~d.inRun    ->
         Unless(arith_decode(d, band.data, EndBin(band, k)), LAMBDA x : AcBit(x, band, k))

\* The AC coefficients from position Ss on. A run must not go on to their end.
Finished(d) == IF d.inRun THEN BadCode(d) ELSE d
DecodeAc(d, band, Ss) ==
  Finished(InOrder(LAMBDA x, k : AcAt(x, band, k), [d EXCEPT !.inRun = FALSE, !.ended = FALSE],
                   Numbers(Ss, band.Se)))

\* The refinement of the coefficient at position k. kex is the last one that
\* was nonzero before: the end of the block is in question only after it.
Away(v, Al) == IF v < 0 THEN v - 2 ^ Al ELSE v + 2 ^ Al
NewValue(d, band, k) ==
  [d EXCEPT !.block[k + 1] = IF d.sym = 1 THEN -(2 ^ band.Al) ELSE 2 ^ band.Al,
            !.inRun = FALSE]
Refined(d, band, k) ==
  CASE d.block[k + 1] # 0 /\ d.sym = 1 ->
         [d EXCEPT !.block[k + 1] = Away(@, band.Al), !.inRun = FALSE]
    [] d.block[k + 1] # 0 /\ d.sym = 0 -> [d EXCEPT !.inRun = FALSE]
    [] d.block[k + 1] = 0 /\ d.sym = 0 -> [d EXCEPT !.inRun = TRUE]
    [] d.block[k + 1] = 0 /\ d.sym = 1 -> NewValue(arith_decode(d, band.data, fixed_bin), band, k)
RefineBit(d, band, k) ==
  Refined(arith_decode(d, band.data,
                       AcBin(band.tbl, 3 * (k - 1) + (IF d.block[k + 1] # 0 THEN 2 ELSE 1))),
          band, k)
RefineAt(d, band, k, kex) ==
  CASE d.ended                                -> d
    [] ~d.ended /\ (k <= kex \/ d.inRun)      -> RefineBit(d, band, k)
    [] ~d.ended /\ ~(k <= kex \/ d.inRun)     ->
         Unless(arith_decode(d, band.data, EndBin(band, k)), LAMBDA x : RefineBit(x, band, k))

Refine(d, band, Ss, kex) ==
  Finished(InOrder(LAMBDA x, k : RefineAt(x, band, k, kex),
                   [d EXCEPT !.inRun = FALSE, !.ended = FALSE], Numbers(Ss, band.Se)))

-----------------------------------------------------------------------------
\* The MCU routines: from the working state and the MCU, a sequence of
\* [i, tbl, block], to the working state and the blocks as they are left.

EachBlock(d, mcu, Decode(_, _)) ==
  LET One(x, b) == IF Bad(x) THEN x ELSE Decode(x, b)
      Done(x) == [x EXCEPT !.blocks = Append(@, x.block)]
      walk[m \in 0 .. Len(mcu)] ==
        IF m = 0 THEN d ELSE Done(One([walk[m - 1] EXCEPT !.block = mcu[m].block], mcu[m]))
  IN  walk[Len(mcu)]

Band(data, b, Se, Al) == [data |-> data, tbl |-> b.tbl, Se |-> Se, Al |-> Al]

\* Stores the DC value, then decodes the AC coefficients up to Se, if any.
AfterDc(d, band, i) ==
  IF Bad(d) THEN d
  ELSE DecodeAc([d EXCEPT !.block[1] = d.last[i] * 2 ^ band.Al], band, 1)

decode_mcu(d, data, mcu, scan) ==
  LET band(b) == Band(data, b, scan.lim_Se, 0)
  IN  EachBlock(d, mcu, LAMBDA x, b : AfterDc(DecodeDc(x, band(b), b.i), band(b), b.i))

decode_mcu_DC_first(d, data, mcu, scan) ==
  LET band(b) == Band(data, b, 0, scan.Al)
  IN  EachBlock(d, mcu, LAMBDA x, b : AfterDc(DecodeDc(x, band(b), b.i), band(b), b.i))

decode_mcu_AC_first(d, data, mcu, scan) ==
  EachBlock(d, mcu, LAMBDA x, b :
                      DecodeAc(x, Band(data, b, scan.Se, scan.Al), scan.Ss))

\* The bit of a DC value: it is clear, the values sent before end above it.
SetBit(d, Al) ==
  IF d.sym = 1 /\ (d.block[1] \div 2 ^ Al) % 2 = 0
  THEN [d EXCEPT !.block[1] = @ + 2 ^ Al] ELSE d

decode_mcu_DC_refine(d, data, mcu, scan) ==
  EachBlock(d, mcu, LAMBDA x, b : SetBit(arith_decode(x, data, fixed_bin), scan.Al))

\* The last position up to Se of a coefficient that is not zero, 0 for none.
EndOfBlockBefore(block, Se) ==
  LET old == SelectSeq([k \in 1 .. Se |-> k], LAMBDA k : block[k + 1] # 0)
  IN  IF old = << >> THEN 0 ELSE Last(old)

decode_mcu_AC_refine(d, data, mcu, scan) ==
  EachBlock(d, mcu, LAMBDA x, b : Refine(x, Band(data, b, scan.Se, scan.Al), scan.Ss,
                                         EndOfBlockBefore(b.block, scan.Se)))

-----------------------------------------------------------------------------
start_pass(scan, data, interval) ==
  [pos |-> 1, mark |-> next_marker(data, 1), unread |-> FALSE, next |-> 0,
   warned |-> FALSE, c |-> 0, a |-> 0, ct |-> -16, stats |-> NoStats,
   last |-> [i \in DOMAIN scan.comps |-> 0], ctx |-> [i \in DOMAIN scan.comps |-> 0],
   togo |-> interval]

\* Bytes that were not used are worth a warning.
process_restart(d, data, interval) ==
  LET r == read_restart_marker([d EXCEPT !.warned = @ \/ d.pos < d.mark], data)
  IN  [r EXCEPT !.stats = NoStats, !.last = [i \in DOMAIN @ |-> 0],
                !.ctx = [i \in DOMAIN @ |-> 0], !.c = 0, !.a = 0, !.ct = -16,
                !.togo = interval]

\* The decode_mcu routine of the scan.
DecodeWork(w, data, mcu, scan, progressive) ==
  CASE ~progressive                    -> decode_mcu(w, data, mcu, scan)
    [] progressive /\ scan.Ss = 0 /\ scan.Ah = 0 -> decode_mcu_DC_first(w, data, mcu, scan)
    [] progressive /\ scan.Ss # 0 /\ scan.Ah = 0 -> decode_mcu_AC_first(w, data, mcu, scan)
    [] progressive /\ scan.Ss = 0 /\ scan.Ah # 0 -> decode_mcu_DC_refine(w, data, mcu, scan)
    [] progressive /\ scan.Ss # 0 /\ scan.Ah # 0 -> decode_mcu_AC_refine(w, data, mcu, scan)

\* The decoder at work on an MCU.
AtWork(d) ==
  [pos |-> d.pos, mark |-> d.mark, unread |-> d.unread, next |-> d.next,
   warned |-> d.warned, c |-> d.c, a |-> d.a, ct |-> d.ct, stats |-> d.stats,
   last |-> d.last, ctx |-> d.ctx, togo |-> d.togo, sym |-> 0, m |-> 0,
   inRun |-> FALSE, ended |-> FALSE, block |-> << >>, blocks |-> << >>]

\* One call of decode_mcu: [d, blocks, ok]. It is never given up.
decode_next_mcu(d, data, mcu, scan, progressive, interval) ==
  LET Ready == IF interval # 0 /\ d.togo = 0 THEN process_restart(d, data, interval) ELSE d
      Result(w) ==
        [ok |-> TRUE, blocks |-> w.blocks,
         d |-> [f \in DOMAIN d |-> IF f = "togo" /\ interval # 0 THEN w.togo - 1 ELSE w[f]]]
  IN  Result(DecodeWork(AtWork(Ready), data, mcu, scan, progressive))
=============================================================================
