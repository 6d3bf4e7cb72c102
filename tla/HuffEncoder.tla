---------------------------- MODULE HuffEncoder ----------------------------
(* Huffman entropy encoding of MCUs (src/jpeg-8d/jchuff.c), sequential and   *)
(* progressive.                                                              *)
(*                                                                           *)
(* An encoder is [last, EOBRUN, BE, togo, next, high, out]: the last DC      *)
(* value of each component of the scan, the run of bands that ended and is   *)
(* not written yet, the correction bits that go with it, restarts_to_go,     *)
(* next_restart_num, the fullest bit_buffer has been, and what the current   *)
(* call emits. Emissions are                                                 *)
(*   <<"dc", t, s>>, <<"ac", t, s>>  symbol s of DC or AC table t            *)
(*   <<"bits", n, v>>                the low n bits of v                     *)
(*   <<"restart", n>>                padding and marker RSTn                 *)
(*   <<"error", 0>>                  the coefficient is out of range         *)
(* A gathering pass counts the symbols of an emission, an output pass writes *)
(* it; the two modes of emit_*_symbol and emit_bits are the two uses of out. *)
(* A block is the sequence of its coefficients in coding order, coefficient  *)
(* k at k + 1; an MCU is a sequence of [i, tbl, block].                      *)
EXTENDS HuffTables, Scans

CONSTANTS MaxEobRun,      \* EOBRUN at which a run is written out: 0x7FFF
          MAX_CORR_BITS   \* size of bit_buffer: 1000

ASSUME HuffEncoderAssumption ==
  /\ MaxEobRun \in 1 .. \h7FFF
  /\ MAX_CORR_BITS \in Nat /\ MAX_CORR_BITS >= DCTSIZE2

MAX_COEF_BITS == 10
JPEG_RST0 == 256 + \hD0

Magnitude(v) == IF v < 0 THEN -v ELSE v

\* Bits of a magnitude.
nbits(v) == IF v = 0 THEN 0 ELSE CHOOSE n \in 1 .. 15 : 2 ^ (n - 1) <= v /\ v < 2 ^ n

\* The n bits that tell v from the other values of n bits: v itself, or the
\* complement of its magnitude.
ValueBits(v, n) == <<"bits", n, IF v < 0 THEN v + 2 ^ n - 1 ELSE v>>

\* The point transforms: DC values shift, AC values divide towards zero.
DcPoint(v, Al) == v \div 2 ^ Al
AcMagnitude(v, Al) == Magnitude(v) \div 2 ^ Al

\* The places of a band where a predicate holds, in order.
Where(Ss, Se, P(_)) == SelectSeq([i \in 1 .. Se - Ss + 1 |-> Ss + i - 1], P)

ZRL(tbl) == <<"ac", tbl, \hF0>>

\* A difference of DC values.
DcDiff(diff, tbl) ==
  LET n == nbits(Magnitude(diff))
  IN  IF n > MAX_COEF_BITS + 1 THEN <<<<"error", 0>>>>
      ELSE IF n = 0 THEN <<<<"dc", tbl, 0>>>>
      ELSE <<<<"dc", tbl, n>>, ValueBits(diff, n)>>

\* An AC value v of magnitude m after run zeros.
AcValue(tbl, run, v, m) ==
  LET n == nbits(m)
  IN  IF n > MAX_COEF_BITS THEN <<<<"error", 0>>>>
      ELSE [z \in 1 .. run \div 16 |-> ZRL(tbl)]
           \o <<<<"ac", tbl, 16 * (run % 16) + n>>,
                ValueBits(IF v < 0 THEN -m ELSE m, n)>>

-----------------------------------------------------------------------------
\* Sequential mode.

encode_one_block(block, last_dc_val, tbl, Se) ==
  LET nonzero == Where(1, Se, LAMBDA k : block[k + 1] # 0)
      before(j) == IF j = 1 THEN 0 ELSE nonzero[j - 1]
      coef(j) == block[nonzero[j] + 1]
  IN  DcDiff(block[1] - last_dc_val, tbl)
      \o FlattenSeq([j \in DOMAIN nonzero |->
           AcValue(tbl, nonzero[j] - before(j) - 1, coef(j), Magnitude(coef(j)))])
      \o (IF Se > (IF nonzero = << >> THEN 0 ELSE Last(nonzero))
          THEN <<<<"ac", tbl, 0>>>> ELSE << >>)

\* The symbols the trial encoding counts for a block. It is code of its own
\* and has to count what encode_one_block emits.
htest_one_block(block, last_dc_val, tbl, Se) ==
  LET nonzero == Where(1, Se, LAMBDA k : block[k + 1] # 0)
      run(j) == nonzero[j] - (IF j = 1 THEN 0 ELSE nonzero[j - 1]) - 1
      size(j) == nbits(Magnitude(block[nonzero[j] + 1]))
      Counted(j) == [z \in 1 .. run(j) \div 16 |-> ZRL(tbl)]
                    \o <<<<"ac", tbl, 16 * (run(j) % 16) + size(j)>>>>
  IN  <<<<"dc", tbl, nbits(Magnitude(block[1] - last_dc_val))>>>>
      \o FlattenSeq([j \in DOMAIN nonzero |-> Counted(j)])
      \o (IF (nonzero = << >> /\ Se > 0) \/ (nonzero # << >> /\ Last(nonzero) < Se)
          THEN <<<<"ac", tbl, 0>>>> ELSE << >>)

\* The last DC value each block of an MCU is coded against, and the one its
\* component is left with.
LastBefore(e, mcu, b, Al) ==
  LET same == {c \in 1 .. b - 1 : mcu[c].i = mcu[b].i}
  IN  IF same = {} THEN e.last[mcu[b].i] ELSE DcPoint(mcu[Max(same)].block[1], Al)

LastAfter(e, mcu, Al) ==
  [i \in DOMAIN e.last |->
     LET own == {c \in DOMAIN mcu : mcu[c].i = i}
     IN  IF own = {} THEN e.last[i] ELSE DcPoint(mcu[Max(own)].block[1], Al)]

\* Counts down to the next restart marker.
CountRestart(e, interval) ==
  IF interval = 0 THEN e
  ELSE IF e.togo = 0
       THEN [e EXCEPT !.togo = interval - 1, !.next = (@ + 1) % 8]
       ELSE [e EXCEPT !.togo = @ - 1]

emit_restart_s(e) ==
  [e EXCEPT !.out = @ \o <<<<"restart", e.next>>>>,
            !.last = [i \in DOMAIN @ |-> 0]]

encode_mcu_huff(e, mcu, Se) ==
  LET coded(b) == encode_one_block(mcu[b].block, LastBefore(e, mcu, b, 0),
                                   mcu[b].tbl, Se)
  IN  [e EXCEPT !.out = @ \o FlattenSeq([b \in DOMAIN mcu |-> coded(b)]),
                !.last = LastAfter(e, mcu, 0)]

encode_mcu_gather(e, mcu, Se) ==
  LET counted(b) == htest_one_block(mcu[b].block, LastBefore(e, mcu, b, 0),
                                    mcu[b].tbl, Se)
  IN  [e EXCEPT !.out = @ \o FlattenSeq([b \in DOMAIN mcu |-> counted(b)]),
                !.last = LastAfter(e, mcu, 0)]

-----------------------------------------------------------------------------
\* Progressive mode.

CorrectionBits(bits) == [b \in DOMAIN bits |-> <<"bits", 1, bits[b]>>]

\* Writes the pending run of ended bands and its correction bits.
emit_eobrun(e, tbl) ==
  IF e.EOBRUN = 0 THEN e
  ELSE LET n == nbits(e.EOBRUN) - 1
           run == IF n = 0 THEN << >> ELSE <<<<"bits", n, e.EOBRUN - 2 ^ n>>>>
       IN  [e EXCEPT !.out = @ \o (IF n > 14 THEN <<<<"error", 0>>>>
                                   ELSE <<<<"ac", tbl, 16 * n>>>>)
                               \o run \o CorrectionBits(e.BE),
                     !.EOBRUN = 0, !.BE = << >>]

emit_restart_e(e, tbl, Ss) ==
  LET f == emit_eobrun(e, tbl)
      g == [f EXCEPT !.out = @ \o <<<<"restart", e.next>>>>]
  IN  IF Ss = 0 THEN [g EXCEPT !.last = [i \in DOMAIN @ |-> 0]]
      ELSE [g EXCEPT !.EOBRUN = 0, !.BE = << >>]

encode_mcu_DC_first(e, mcu, Al) ==
  LET diff(b) == DcPoint(mcu[b].block[1], Al) - LastBefore(e, mcu, b, Al)
  IN  [e EXCEPT !.out = @ \o FlattenSeq([b \in DOMAIN mcu |->
                                           DcDiff(diff(b), mcu[b].tbl)]),
                !.last = LastAfter(e, mcu, Al)]

\* A band that ends before Se is one more of the run.
EndBand(e, tbl) ==
  LET f == [e EXCEPT !.EOBRUN = @ + 1]
  IN  IF f.EOBRUN = MaxEobRun THEN emit_eobrun(f, tbl) ELSE f

encode_mcu_AC_first(e, mcu, scan) ==
  LET block == mcu[1].block
      tbl == mcu[1].tbl
      nonzero == Where(scan.Ss, scan.Se,
                           LAMBDA k : AcMagnitude(block[k + 1], scan.Al) # 0)
      before(j) == IF j = 1 THEN scan.Ss - 1 ELSE nonzero[j - 1]
      coef(j) == block[nonzero[j] + 1]
      coded == FlattenSeq([j \in DOMAIN nonzero |->
                 AcValue(tbl, nonzero[j] - before(j) - 1, coef(j),
                         AcMagnitude(coef(j), scan.Al))])
      f == IF nonzero = << >> THEN e ELSE emit_eobrun(e, tbl)
      g == [f EXCEPT !.out = @ \o coded]
  IN  IF nonzero = << >> \/ Last(nonzero) < scan.Se THEN EndBand(g, tbl) ELSE g

encode_mcu_DC_refine(e, mcu, Al) ==
  [e EXCEPT !.out = @ \o [b \in DOMAIN mcu |->
                            <<"bits", 1, DcPoint(mcu[b].block[1], Al) % 2>>]]

\* One position k of a refinement. The walk w is [e, r, BR]: the encoder, and the
\* zeros and the correction bits since the last symbol.
RefineAt(w, k, block, tbl, Al, EOB) ==
  LET m == AcMagnitude(block[k + 1], Al)
      \* zero runs of sixteen, unless the end-of-band code will cover them
      zrls == IF k <= EOB THEN w.r \div 16 ELSE 0
      e1 == IF zrls = 0 THEN w.e
            ELSE LET f == emit_eobrun(w.e, tbl)
                 IN  [f EXCEPT !.out = @ \o <<ZRL(tbl)>> \o CorrectionBits(w.BR)
                                         \o [z \in 1 .. zrls - 1 |-> ZRL(tbl)]]
      BR == IF zrls = 0 THEN w.BR ELSE << >>
      left == w.r - 16 * zrls
      fill == Len(e1.BE) + Len(BR) + 1
      e2 == emit_eobrun(e1, tbl)
      sign == IF block[k + 1] < 0 THEN 0 ELSE 1
  IN  IF m = 0 THEN [w EXCEPT !.r = @ + 1]
      ELSE IF m > 1
      THEN [e |-> [e1 EXCEPT !.high = IF fill > @ THEN fill ELSE @],
            r |-> left, BR |-> Append(BR, m % 2)]
      ELSE [e |-> [e2 EXCEPT !.out = @ \o <<<<"ac", tbl, 16 * left + 1>>,
                                            <<"bits", 1, sign>>>>
                                       \o CorrectionBits(BR)],
            r |-> 0, BR |-> << >>]

\* All positions of the band, EOB the last that becomes nonzero.
RefineBand(e, block, tbl, scan, EOB) ==
  LET walk[k \in scan.Ss - 1 .. scan.Se] ==
        IF k = scan.Ss - 1 THEN [e |-> e, r |-> 0, BR |-> << >>]
        ELSE RefineAt(walk[k - 1], k, block, tbl, scan.Al, EOB)
  IN  walk[scan.Se]

\* MUTANT: the run goes on until the buffer is full, whatever the next block needs.
BufferIsFull(e) == Len(e.BE) >= MAX_CORR_BITS

\* Whether the pending correction bits leave no room for those of a block.
BufferMayOverflow(e) == Len(e.BE) > MAX_CORR_BITS - DCTSIZE2 + 1

encode_mcu_AC_refine(e, mcu, scan) ==
  LET block == mcu[1].block
      tbl == mcu[1].tbl
      new == {k \in scan.Ss .. scan.Se : AcMagnitude(block[k + 1], scan.Al) = 1}
      w == RefineBand(e, block, tbl, scan, IF new = {} THEN 0 ELSE Max(new))
      ended == EndBand([w.e EXCEPT !.BE = @ \o w.BR], tbl)
  IN  IF w.r = 0 /\ w.BR = << >> THEN w.e
      ELSE IF BufferMayOverflow(ended) THEN emit_eobrun(ended, tbl) ELSE ended

-----------------------------------------------------------------------------
\* A pass.

\* The encoder at the start of a pass over a scan.
start_pass_huff(scan, interval) ==
  [last |-> [i \in DOMAIN scan.comps |-> 0], EOBRUN |-> 0, BE |-> << >>,
   togo |-> interval, next |-> 0, high |-> 0, out |-> << >>]

\* The tables an output pass derives, by kind and number; << >> for one the
\* scan has no use for.
DerivedTables(scan, tables) ==
  [dc |-> [t \in 1 .. 2 |-> IF scan.Ss = 0 /\ scan.Ah = 0
                            THEN jpeg_make_c_derived_tbl(TRUE, tables.dc[t]) ELSE << >>],
   ac |-> [t \in 1 .. 2 |-> IF scan.Se # 0
                            THEN jpeg_make_c_derived_tbl(FALSE, tables.ac[t]) ELSE << >>]]

\* One call of encode_mcu: the restart marker when it is due, then the routine
\* the pass and the scan select.
encode_mcu(e0, mcu, scan, progressive, gather, interval) ==
  LET e == [e0 EXCEPT !.out = << >>]
      due == interval # 0 /\ e.togo = 0
      s == IF ~due THEN e
           ELSE IF progressive THEN emit_restart_e(e, mcu[1].tbl, scan.Ss)
           ELSE emit_restart_s(e)
  IN  CountRestart(
        CASE ~progressive /\ gather     -> encode_mcu_gather(s, mcu, scan.Se)
          [] ~progressive /\ ~gather    -> encode_mcu_huff(s, mcu, scan.Se)
          [] progressive /\ scan.Ss = 0 /\ scan.Ah = 0
                                        -> encode_mcu_DC_first(s, mcu, scan.Al)
          [] progressive /\ scan.Ss # 0 /\ scan.Ah = 0
                                        -> encode_mcu_AC_first(s, mcu, scan)
          [] progressive /\ scan.Ss = 0 /\ scan.Ah # 0
                                        -> encode_mcu_DC_refine(s, mcu, scan.Al)
          [] progressive /\ scan.Ss # 0 /\ scan.Ah # 0
                                        -> encode_mcu_AC_refine(s, mcu, scan),
        interval)

\* Counting symbols: counts is [dc, ac], each a function on table numbers of
\* functions on the symbols met.
NoCounts == [dc |-> << << >>, << >> >>, ac |-> << << >>, << >> >>]

CountSymbols(counts, out) ==
  LET Of(kind, t) == {n \in DOMAIN out : out[n][1] = kind /\ out[n][2] = t}
      Count(f, met) ==
        [s \in DOMAIN f \cup {out[n][3] : n \in met} |->
           (IF s \in DOMAIN f THEN f[s] ELSE 0) + Cardinality({n \in met : out[n][3] = s})]
  IN  [dc |-> [t \in 1 .. 2 |-> Count(counts.dc[t], Of("dc", t))],
       ac |-> [t \in 1 .. 2 |-> Count(counts.ac[t], Of("ac", t))]]

\* The end of a pass: the pending run goes out. The table of an AC scan is that
\* of its component, tbl.
finish_pass_huff(e, tbl, progressive) ==
  LET f == [e EXCEPT !.out = << >>] IN IF progressive THEN emit_eobrun(f, tbl) ELSE f

\* The tables after a gathering pass: one is made for each kind the scan uses.
finish_pass_gather(tables, counts, scan) ==
  LET Made(table, freq, used) ==
        IF used /\ freq # << >> THEN jpeg_gen_optimal_table(freq) ELSE table
  IN  [dc |-> [t \in 1 .. 2 |-> Made(tables.dc[t], counts.dc[t],
                                     scan.Ss = 0 /\ scan.Ah = 0)],
       ac |-> [t \in 1 .. 2 |-> Made(tables.ac[t], counts.ac[t], scan.Se # 0)]]

-----------------------------------------------------------------------------
\* The bytes written, as a sequence of bits and of markers (256 and above); a
\* zero byte stuffed after an FF byte is left out, the decoder drops it.
IsMarker(x) == x >= 256

\* The low n bits of v, high bit first.
BitsOf(v, n) == [b \in 1 .. n |-> (v \div 2 ^ (n - b)) % 2]

\* Fills the last byte with ones.
flush_bits(stream) ==
  LET markers == {p \in DOMAIN stream : IsMarker(stream[p])}
      n == Len(stream) - (IF markers = {} THEN 0 ELSE Max(markers))
  IN  stream \o [b \in 1 .. (8 - (n % 8)) % 8 |-> 1]

\* A symbol without a code ends the file with an error.
ErrorMark == 511

emit_bits(stream, em, derived) ==
  LET Coded(codes) == IF em[3] \in DOMAIN codes
                      THEN BitsOf(codes[em[3]][1], codes[em[3]][2]) ELSE <<ErrorMark>>
  IN  CASE em[1] = "dc"      -> stream \o Coded(derived.dc[em[2]])
        [] em[1] = "ac"      -> stream \o Coded(derived.ac[em[2]])
        [] em[1] = "bits"    -> stream \o BitsOf(em[3], em[2])
        [] em[1] = "restart" -> Append(flush_bits(stream), JPEG_RST0 + em[2])
        [] em[1] = "error"   -> Append(stream, ErrorMark)

\* All of out, in order.
emit_all(stream, out, derived) ==
  InOrder(LAMBDA s, em : emit_bits(s, em, derived), stream, out)
=============================================================================
