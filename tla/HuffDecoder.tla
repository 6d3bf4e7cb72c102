---------------------------- MODULE HuffDecoder ----------------------------
(* Huffman entropy decoding of MCUs (src/jpeg-8d/jdhuff.c), sequential and   *)
(* progressive, from a source that may have nothing more to give for now.    *)
(*                                                                           *)
(* A decoder is a MarkerReader's reader with [insufficient, EOBRUN, last,    *)
(* togo]. Within a call it also has ok, FALSE once the call has to be given  *)
(* up because the data is not there, and sym, the value read last. in is     *)
(* [data, cut]: the scan and how much of it the source has delivered. The    *)
(* code reads ahead of the bits it needs, so that it may give up sooner than *)
(* the bits run out; that is a smaller cut.                                  *)
EXTENDS HuffTables, Scans, MarkerReader

-----------------------------------------------------------------------------
\* Reading bits.

\* The number with the bits of a stretch of the data.
BitsValue(data, first, last) ==
  LET value[q \in first - 1 .. last] ==
        IF q < first THEN 0 ELSE 2 * value[q - 1] + data[q]
  IN  value[last]

\* The next n bits. Zeros are stuffed where the marker is reached.
PEEK_BITS(data, w, n) ==
  IF w.pos + n <= w.mark THEN BitsValue(data, w.pos, w.pos + n - 1)
  ELSE BitsValue(data, w.pos, w.mark - 1) * 2 ^ (n - (w.mark - w.pos))

\* Takes them, with a warning for zeros stuffed for the first time in a segment
\* (jpeg_fill_bit_buffer).
GET_BITS(in, w, n) ==
  LET short == w.pos + n > w.mark
      end == IF short THEN w.mark ELSE w.pos + n
  IN  IF ~w.ok \/ (IF short THEN end ELSE end - 1) > in.cut THEN [w EXCEPT !.ok = FALSE]
      ELSE [w EXCEPT !.sym = PEEK_BITS(in.data, w, n), !.pos = end,
                     !.insufficient = @ \/ short,
                     !.warned = @ \/ (short /\ ~w.insufficient)]

HUFF_EXTEND(x, s) == IF x < 2 ^ (s - 1) THEN x - (2 ^ s - 1) ELSE x

\* A value of s bits, 0 for none.
ExtendedBits(w, s) == [w EXCEPT !.sym = HUFF_EXTEND(@, s)]
Extended(in, w, s) ==
  IF s = 0 THEN [w EXCEPT !.sym = 0] ELSE ExtendedBits(GET_BITS(in, w, s), s)

\* Collects a code until its length has it; garbage of 17 bits is taken as symbol
\* 0, with a warning.
jpeg_huff_decode(in, w, tbl, l) ==
  LET x == GET_BITS(in, w, l)
  IN  CASE ~x.ok            -> x
        [] x.ok /\ l > 16   -> [x EXCEPT !.sym = 0, !.warned = TRUE]
        [] x.ok /\ l <= 16  -> [x EXCEPT !.sym = tbl.huffval[@ + tbl.valoffset[l]]]

HUFF_DECODE(in, w, tbl) ==
  LET Long(l) == l <= 16 => PEEK_BITS(in.data, w, l) > tbl.maxcode[l]
      first == CHOOSE l \in 1 .. 17 : (l = 17 \/ ~Long(l)) /\ \A m \in 1 .. l - 1 : Long(m)
  IN  jpeg_huff_decode(in, w, tbl, first)

\* Stores coefficient k. The extra entries of natural_order send a k past the
\* block to its last coefficient, or out of a block smaller than eight by eight.
Store(block, k, v, lim_Se) ==
  IF k <= lim_Se THEN [block EXCEPT ![k + 1] = v]
  ELSE IF lim_Se = DCTSIZE2 - 1 THEN [block EXCEPT ![DCTSIZE2] = v] ELSE block

-----------------------------------------------------------------------------
\* The bodies of the MCU routines. block is part of the working state w while
\* it is decoded. The steps of a value are operators of their own, each on the
\* working state that the step before has left.

\* The DC difference and the value it gives to component i of the scan.
AddDc(w, i) == IF w.ok THEN [w EXCEPT !.last[i] = @ + w.sym] ELSE w
DecodeDc(in, w, tbl, i) ==
  LET Difference(h) == AddDc(Extended(in, h, h.sym), i)
  IN  Difference(HUFF_DECODE(in, w, tbl))

\* The next AC coefficient of a sequential block, whose place is at w.k or after;
\* one met at or after limit is read and dropped. A symbol is a run and a size.
StoreAc(w, k, limit, Se) ==
  IF ~w.ok THEN w
  ELSE [w EXCEPT !.k = k + 1,
                 !.block = IF w.k < limit THEN Store(@, k, w.sym, Se) ELSE @]
AcSymbol(in, w, limit, Se) ==
  CASE ~w.ok                             -> w
    [] w.ok /\ w.sym % 16 # 0            ->
         StoreAc(Extended(in, w, w.sym % 16), w.k + w.sym \div 16, limit, Se)
    [] w.ok /\ w.sym = \hF0              -> [w EXCEPT !.k = @ + 16]
    [] w.ok /\ w.sym % 16 = 0 /\ w.sym # \hF0 -> [w EXCEPT !.k = Se + 1]
NextAc(in, w, tbl, limit, Se) ==
  IF ~w.ok \/ w.k > Se THEN w ELSE AcSymbol(in, HUFF_DECODE(in, w, tbl), limit, Se)

\* All of them.
DecodeAc(in, w, tbl, limit, Se) ==
  InOrder(LAMBDA x, n : NextAc(in, x, tbl, limit, Se), [w EXCEPT !.k = 1], Numbers(1, Se))

\* One block of a sequential MCU. A component nobody needs has limit 0: its DC
\* difference is read and dropped too.
StoreDc(w, b, before) ==
  CASE ~w.ok                  -> w
    [] w.ok /\ b.limit = 0    -> [w EXCEPT !.last = before]
    [] w.ok /\ b.limit # 0    -> [w EXCEPT !.block[1] = w.last[b.i]]
DecodeBlock(in, w, b, tables, Se) ==
  LET Coefficients(x) ==
        DecodeAc(in, x, tables.ac[b.tbl], b.limit, Se)
  IN  Coefficients(StoreDc(DecodeDc(in, w, tables.dc[b.tbl], b.i), b, w.last))

\* The same for the first scan of a band, where a symbol may also tell how many
\* bands end.
RunStarts(w, r, Se) ==
  IF w.ok THEN [w EXCEPT !.EOBRUN = 2 ^ r + w.sym - 1, !.k = Se + 1]
  ELSE w
StoreFirst(w, k, scan) ==
  IF w.ok THEN [w EXCEPT !.k = k + 1, !.block = Store(@, k, w.sym * 2 ^ scan.Al, scan.lim_Se)]
  ELSE w
AcFirstSymbol(in, w, scan) ==
  LET r == w.sym \div 16
      s == w.sym % 16
  IN  CASE ~w.ok                         -> w
        [] w.ok /\ s # 0                 -> StoreFirst(Extended(in, w, s), w.k + r, scan)
        [] w.ok /\ s = 0 /\ r = 15       -> [w EXCEPT !.k = @ + 16]
        [] w.ok /\ s = 0 /\ r \in 1 .. 14 -> RunStarts(GET_BITS(in, w, r), r, scan.Se)
        [] w.ok /\ s = 0 /\ r = 0        -> RunStarts(w, 0, scan.Se)
NextAcFirst(in, w, tbl, scan) ==
  IF ~w.ok \/ w.k > scan.Se THEN w ELSE AcFirstSymbol(in, HUFF_DECODE(in, w, tbl), scan)

DecodeAcFirst(in, w, tbl, scan) ==
  InOrder(LAMBDA x, n : NextAcFirst(in, x, tbl, scan), [w EXCEPT !.k = scan.Ss],
          Numbers(scan.Ss, scan.Se))

\* A correction bit for coefficient k, which is not zero. The bit may have
\* been applied by a call that was given up.
CorrectBy(w, k, Al) ==
  LET v == w.block[k + 1]
  IN  IF w.ok /\ w.sym = 1 /\ (v \div 2 ^ Al) % 2 = 0
      THEN [w EXCEPT !.block[k + 1] = IF v >= 0 THEN v + 2 ^ Al ELSE v - 2 ^ Al]
      ELSE w
Correct(in, w, k, Al) == CorrectBy(GET_BITS(in, w, 1), k, Al)

\* Passes over the nonzero coefficients and w.r zero ones, and stops at the zero
\* one after them.
PassOver(in, w, scan) ==
  CASE ~w.ok \/ w.k > scan.Se                            -> w
    [] w.ok /\ w.k <= scan.Se /\ w.block[w.k + 1] # 0    ->
         [Correct(in, w, w.k, scan.Al) EXCEPT !.k = @ + 1]
    [] w.ok /\ w.k <= scan.Se /\ w.block[w.k + 1] = 0    ->
         IF w.r = 0 THEN w ELSE [w EXCEPT !.k = @ + 1, !.r = @ - 1]
AdvanceOver(in, w, scan) ==
  InOrder(LAMBDA x, n : PassOver(in, x, scan), w, Numbers(scan.Ss, scan.Se))

\* The coefficients after the end of the band: correction bits only. One block
\* of the run is done then.
CorrectRest(in, w, scan) ==
  LET One(x, k) == IF k >= w.k /\ x.ok /\ x.block[k + 1] # 0 THEN Correct(in, x, k, scan.Al)
                   ELSE x
      done == InOrder(One, w, Numbers(scan.Ss, scan.Se))
  IN  IF done.ok THEN [done EXCEPT !.EOBRUN = @ - 1, !.k = scan.Se + 1] ELSE done

\* new is the value of the next newly nonzero coefficient, 0 for none.
SignOf(w, Al) == [w EXCEPT !.new = IF w.sym = 1 THEN 2 ^ Al ELSE -(2 ^ Al)]
EndRun(w, r) == IF w.ok THEN [w EXCEPT !.EOBRUN = 2 ^ r + w.sym] ELSE w
StoreNew(w, lim_Se) ==
  CASE ~w.ok               -> w
    [] w.ok /\ w.new = 0   -> [w EXCEPT !.k = @ + 1]
    [] w.ok /\ w.new # 0   -> [w EXCEPT !.block = Store(@, w.k, w.new, lim_Se),
                                        !.newnz = @ \cup {w.k}, !.k = @ + 1]
RefineSymbol(in, w, scan) ==
  LET r == w.sym \div 16
      s == w.sym % 16
      Stop(x) == StoreNew(AdvanceOver(in, [x EXCEPT !.r = r], scan), scan.lim_Se)
  IN  CASE ~w.ok                         -> w
        [] w.ok /\ s # 0                 ->
             Stop(SignOf(GET_BITS(in, [w EXCEPT !.warned = @ \/ s > 1], 1), scan.Al))
        [] w.ok /\ s = 0 /\ r = 15       -> Stop([w EXCEPT !.new = 0])
        [] w.ok /\ s = 0 /\ r \in 1 .. 14 -> CorrectRest(in, EndRun(GET_BITS(in, w, r), r), scan)
        [] w.ok /\ s = 0 /\ r = 0        -> CorrectRest(in, EndRun(w, 0), scan)
NextRefined(in, w, tbl, scan) ==
  IF ~w.ok \/ w.k > scan.Se THEN w ELSE RefineSymbol(in, HUFF_DECODE(in, w, tbl), scan)

Refine(in, w, tbl, scan) ==
  InOrder(LAMBDA x, n : NextRefined(in, x, tbl, scan), w, Numbers(scan.Ss, scan.Se))

\* MUTANT: what a call given up has made nonzero stays.
UndoNothing(w) == w

\* A call that is given up undoes the coefficients it made nonzero.
undoit(w) ==
  IF w.ok THEN w
  ELSE [w EXCEPT !.block = [k \in DOMAIN @ |-> IF k - 1 \in w.newnz THEN 0 ELSE @[k]]]

-----------------------------------------------------------------------------
\* The MCU routines: from the working state and the MCU, a sequence of
\* [i, tbl, limit, block], to the working state and the blocks as they are left.

EachBlock(w, mcu, Decode(_, _)) ==
  LET One(x, b) == IF x.ok THEN Decode(x, b) ELSE x
      Done(x) == [x EXCEPT !.blocks = Append(@, x.block)]
      walk[m \in 0 .. Len(mcu)] ==
        IF m = 0 THEN w ELSE Done(One([walk[m - 1] EXCEPT !.block = mcu[m].block], mcu[m]))
  IN  walk[Len(mcu)]

\* The blocks as they are: no data, or none that is there.
LeftAlone(w, mcu) == EachBlock(w, mcu, LAMBDA x, b : x)

\* Blocks of eight by eight.
decode_mcu(in, w, mcu, tables) ==
  EachBlock(w, mcu, LAMBDA x, b : DecodeBlock(in, x, b, tables, DCTSIZE2 - 1))

\* Smaller blocks.
decode_mcu_sub(in, w, mcu, tables, scan) ==
  EachBlock(w, mcu, LAMBDA x, b : DecodeBlock(in, x, b, tables, scan.lim_Se))

decode_mcu_DC_first(in, w, mcu, tables, scan) ==
  LET Shifted(x, b) ==
        IF x.ok THEN [x EXCEPT !.block[1] = x.last[b.i] * 2 ^ scan.Al] ELSE x
  IN  EachBlock(w, mcu, LAMBDA x, b : Shifted(DecodeDc(in, x, tables.dc[b.tbl], b.i), b))

decode_mcu_AC_first(in, w, mcu, tables, scan) ==
  EachBlock(w, mcu, LAMBDA x, b :
    IF x.EOBRUN > 0 THEN [x EXCEPT !.EOBRUN = @ - 1]
    ELSE DecodeAcFirst(in, x, tables.ac[b.tbl], scan))

\* Zeros change nothing here, and it is not looked at whether the data has run out.
decode_mcu_DC_refine(in, w, mcu, scan) ==
  LET SetBit(x) ==
        IF x.ok /\ x.sym = 1 /\ (x.block[1] \div 2 ^ scan.Al) % 2 = 0
        THEN [x EXCEPT !.block[1] = @ + 2 ^ scan.Al] ELSE x
  IN  EachBlock(w, mcu, LAMBDA x, b : SetBit(GET_BITS(in, x, 1)))

decode_mcu_AC_refine(in, w, mcu, tables, scan) ==
  EachBlock(w, mcu, LAMBDA x, b :
    LET y == [x EXCEPT !.k = scan.Ss]
    IN  undoit(IF x.EOBRUN > 0 THEN CorrectRest(in, y, scan)
               ELSE Refine(in, y, tables.ac[b.tbl], scan)))

-----------------------------------------------------------------------------
\* A scan.

start_pass_huff_decoder(scan, data, interval) ==
  [pos |-> 1, mark |-> next_marker(data, 1), unread |-> FALSE, next |-> 0, warned |-> FALSE,
   insufficient |-> FALSE, EOBRUN |-> 0, last |-> [i \in DOMAIN scan.comps |-> 0],
   togo |-> interval]

\* The number of the coefficient in a row and a column (from 0) of a block of
\* n by n: the diagonals go up and down in turn.
jpeg_zigzag_order(n, row, col) ==
  LET Diagonal(p) == p[1] + p[2]
      Before(p, q) ==
        \/ Diagonal(p) < Diagonal(q)
        \/ Diagonal(p) = Diagonal(q) /\ (IF Diagonal(p) % 2 = 1 THEN p[1] < q[1]
                                         ELSE p[1] > q[1])
  IN  Cardinality({p \in (0 .. n - 1) \X (0 .. n - 1) : Before(p, <<row, col>>)})

\* How many coefficients of a component matter to the inverse DCT.
coef_limit(comp, lim_Se) ==
  LET n == CHOOSE x \in 1 .. 8 : x * x = lim_Se + 1
      Within(x) == IF x \in 1 .. n THEN x ELSE n
  IN  IF ~comp.needed THEN 0
      ELSE 1 + jpeg_zigzag_order(n, Within(comp.size[1]) - 1, Within(comp.size[2]) - 1)

\* The tables derived for a scan.
DerivedForDecoding(scan, tables, progressive) ==
  [dc |-> [t \in 1 .. 2 |-> IF scan.Ss = 0 /\ scan.Ah = 0
                            THEN jpeg_make_d_derived_tbl(TRUE, tables.dc[t]) ELSE << >>],
   ac |-> [t \in 1 .. 2 |-> IF (progressive /\ scan.Ss # 0)
                               \/ (~progressive /\ scan.lim_Se # 0)
                            THEN jpeg_make_d_derived_tbl(FALSE, tables.ac[t]) ELSE << >>]]

\* The parameters of a progressive scan are possible ones.
ProgressionOk(scan) ==
  /\ IF scan.Ss = 0 THEN scan.Se = 0
     ELSE scan.Se \in scan.Ss .. scan.lim_Se /\ Len(scan.comps) = 1
  /\ scan.Ah # 0 => scan.Al = scan.Ah - 1
  /\ scan.Al <= 13

\* The last scan of a list comes in an order that makes sense after the others.
\* LastBitpos is what the code keeps in coef_bits.
ProgressionExpected(scans) ==
  LET scan == scans[Len(scans)]
      coef_bits(ci, k) == LastBitpos(scans, Len(scans), ci, k)
  IN  \A ci \in InScan(scan) :
        /\ scan.Ss # 0 => coef_bits(ci, 0) >= 0
        /\ \A k \in scan.Ss .. scan.Se :
             scan.Ah = (IF coef_bits(ci, k) < 0 THEN 0 ELSE coef_bits(ci, k))

\* Starts the next segment: whole bytes that were not used are worth a
\* warning, predictions start anew, and the flag for missing data stays only
\* if the marker is still to come.
process_restart(d, in, interval) ==
  LET r == read_restart_marker([d EXCEPT !.warned = @ \/ d.mark - d.pos >= 8], in.data)
  IN  IF (IF r.unread THEN r.mark ELSE r.pos - 1) > in.cut
      THEN [d EXCEPT !.ok = FALSE]
      ELSE [r EXCEPT !.last = [i \in DOMAIN @ |-> 0], !.EOBRUN = 0, !.togo = interval,
                     !.insufficient = @ /\ r.unread]

\* The routine the scan selects.
DecodeWork(in, w, mcu, tables, scan, progressive) ==
  CASE ~w.ok \/ (w.insufficient /\ ~(progressive /\ scan.Ss = 0 /\ scan.Ah # 0))
         -> LeftAlone(w, mcu)
    [] w.ok /\ progressive /\ scan.Ss = 0 /\ scan.Ah # 0
         -> decode_mcu_DC_refine(in, w, mcu, scan)
    [] w.ok /\ ~w.insufficient /\ progressive /\ scan.Ss = 0 /\ scan.Ah = 0
         -> decode_mcu_DC_first(in, w, mcu, tables, scan)
    [] w.ok /\ ~w.insufficient /\ progressive /\ scan.Ss # 0 /\ scan.Ah = 0
         -> decode_mcu_AC_first(in, w, mcu, tables, scan)
    [] w.ok /\ ~w.insufficient /\ progressive /\ scan.Ss # 0 /\ scan.Ah # 0
         -> decode_mcu_AC_refine(in, w, mcu, tables, scan)
    [] w.ok /\ ~w.insufficient /\ ~progressive /\ scan.lim_Se = DCTSIZE2 - 1
         -> decode_mcu(in, w, mcu, tables)
    [] w.ok /\ ~w.insufficient /\ ~progressive /\ scan.lim_Se < DCTSIZE2 - 1
         -> decode_mcu_sub(in, w, mcu, tables, scan)

\* The decoder at work on an MCU.
AtWork(d) ==
  [pos |-> d.pos, mark |-> d.mark, unread |-> d.unread, next |-> d.next,
   warned |-> d.warned, insufficient |-> d.insufficient, EOBRUN |-> d.EOBRUN,
   last |-> d.last, togo |-> d.togo, ok |-> TRUE, sym |-> 0, k |-> 0, r |-> 0,
   new |-> 0, newnz |-> {}, block |-> << >>, blocks |-> << >>]

\* One call of decode_mcu: [d, blocks, ok]. A call that is given up leaves the
\* decoder as it was, but for a restart already processed.
decode_next_mcu(d, in, mcu, tables, scan, progressive, interval) ==
  LET Ready(w) == IF interval # 0 /\ w.togo = 0 THEN process_restart(w, in, interval) ELSE w
      Result(r, w) ==
        LET kept == [f \in DOMAIN d |-> IF w.ok THEN w[f] ELSE r[f]]
        IN  [ok |-> w.ok, blocks |-> w.blocks,
             d |-> IF w.ok /\ interval # 0 THEN [kept EXCEPT !.togo = @ - 1] ELSE kept]
      After(r) == Result(r, DecodeWork(in, r, mcu, tables, scan, progressive))
  IN  After(Ready(AtWork(d)))
=============================================================================
