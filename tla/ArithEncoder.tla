---------------------------- MODULE ArithEncoder ----------------------------
(* Arithmetic entropy encoding of MCUs (src/jpeg-8d/jcarith.c). A routine    *)
(* for an MCU determines binary decisions <<kind, table, bin number, value>> *)
(* in terms of ArithTable's bins; arith_encode codes one.                    *)
(*                                                                           *)
(* An encoder is [c, a, sc, zc, ct, buffer, stats, last, ctx, togo, next,    *)
(* out]: the interval [c, c + a), the counts of stacked FF and of pending 00 *)
(* bytes, the shifts until a byte is ready, the byte that may still take a   *)
(* carry (-1 none), the statistics, the last DC value and the conditioning   *)
(* category of each component of the scan, the restart counters, and the     *)
(* bytes and markers written by the current call. The 00 stuffed after an FF *)
(* byte is left out, the decoder drops it.                                   *)
EXTENDS ArithTable, Scans, Lists

\* emit_byte, after the pending zero bytes.
Put(e, byte) ==
  [e EXCEPT !.out = @ \o [z \in 1 .. e.zc |-> 0] \o <<byte>>, !.zc = 0]

\* The stacked FF bytes, after the pending zero bytes.
PutStacked(e) ==
  IF e.sc = 0 THEN e
  ELSE [e EXCEPT !.out = @ \o [z \in 1 .. e.zc |-> 0] \o [f \in 1 .. e.sc |-> 255],
                 !.zc = 0, !.sc = 0]

\* A carry goes into the byte kept for it and turns stacked FF into 00 bytes.
Carry(e) ==
  LET f == IF e.buffer >= 0 THEN Put(e, e.buffer + 1) ELSE e
  IN  [f EXCEPT !.zc = @ + e.sc, !.sc = 0]

NoCarry(e) ==
  PutStacked(CASE e.buffer = 0 -> [e EXCEPT !.zc = @ + 1]
               [] e.buffer > 0 -> Put(e, e.buffer)
               [] OTHER        -> e)

\* A byte is ready.
ByteReady(e) ==
  LET temp == e.c \div 2 ^ 19
      f == CASE temp > 255 -> [Carry(e) EXCEPT !.buffer = temp % 256]
             [] temp = 255 -> [e EXCEPT !.sc = @ + 1]
             [] OTHER      -> [NoCarry(e) EXCEPT !.buffer = temp]
  IN  [f EXCEPT !.c = @ % 2 ^ 19, !.ct = 8]

\* The interval doubles until it is above 2^15 again, at least once.
Shift(e) ==
  LET f == [e EXCEPT !.a = 2 * @, !.c = 2 * @, !.ct = @ - 1]
  IN  IF f.ct = 0 THEN ByteReady(f) ELSE f
Renormalize(e) ==
  LET n == CHOOSE k \in 1 .. 16 : e.a * 2 ^ k >= \h8000 /\ (k > 1 => e.a * 2 ^ (k - 1) < \h8000)
      shifted[k \in 0 .. n] == IF k = 0 THEN e ELSE Shift(shifted[k - 1])
  IN  shifted[n]

arith_encode(e, decision) ==
  LET bin == SubSeq(decision, 1, 3)
      st == BinState(e.stats, bin)
      qe == Qe(st)
      a == e.a - qe
      exchange == [e EXCEPT !.c = @ + a, !.a = qe]
      keep == [e EXCEPT !.a = a]
      Learn(f, s) == Renormalize([f EXCEPT !.stats[bin[1]][bin[2]][bin[3]] = s])
  IN  IF decision[4] # st[2]
      THEN Learn(IF a >= qe THEN exchange ELSE keep, Estimate_after_LPS(st))
      ELSE IF a >= \h8000 THEN keep
      ELSE Learn(IF a < qe THEN exchange ELSE keep, Estimate_after_MPS(st))

\* All decisions of a list, in order.
encode_all(e, list) == InOrder(arith_encode, e, list)

\* Ends a segment with the value of the interval that has the most trailing
\* zeros; final zero bytes are not written.
finish_pass(e) ==
  LET temp == ((e.a - 1 + e.c) \div 65536) * 65536
      c == (IF temp < e.c THEN temp + \h8000 ELSE temp) * 2 ^ e.ct
      f == IF c >= 2 ^ 27 THEN Carry(e) ELSE NoCarry(e)
      low == c % 2 ^ 27
      g == Put(f, low \div 2 ^ 19)
  IN  IF low \div 2 ^ 11 = 0 THEN f
      ELSE IF (low \div 2 ^ 11) % 256 = 0 THEN g
      ELSE Put(g, (low \div 2 ^ 11) % 256)

-----------------------------------------------------------------------------
\* The decisions.

Abs(v) == IF v < 0 THEN -v ELSE v
Bit(b) == IF b THEN 1 ELSE 0

\* Exponent of the largest power of two that is not above w.
Log(w) == CHOOSE n \in 0 .. 15 : 2 ^ n <= w /\ w < 2 ^ (n + 1)

\* A magnitude w + 1: whether w is zero, at bin st; its category, at the bins
\* of Category; the bits below its highest one.
MagnitudeDecisions(w, st, Category(_)) ==
  IF w = 0 THEN <<st \o <<0>>>>
  ELSE LET n == Log(w)
           below == PatternBin(Category(n))
       IN  <<st \o <<1>>>>
           \o [j \in 1 .. n |-> Category(j - 1) \o <<1>>]
           \o <<Category(n) \o <<0>>>>
           \o [b \in 1 .. n |-> below \o <<(w \div 2 ^ (n - b)) % 2>>]

\* A difference of DC values in conditioning category S0.
DcDecisions(v, tbl, S0) ==
  IF v = 0 THEN <<DcBin(tbl, S0) \o <<0>>>>
  ELSE << DcBin(tbl, S0) \o <<1>>, DcBin(tbl, S0 + 1) \o <<Bit(v < 0)>> >>
       \o MagnitudeDecisions(Abs(v) - 1, DcBin(tbl, S0 + (IF v < 0 THEN 3 ELSE 2)),
                             LAMBDA j : DcCategory(tbl, j))

\* The category the difference leaves behind.
ContextAfter(v) ==
  IF v = 0 THEN 0
  ELSE dc_context(v < 0, IF Abs(v) = 1 THEN 0 ELSE 2 ^ Log(Abs(v) - 1))

\* The value of k, and "not yet" for the positions after p before it.
ZerosBefore(p, k, tbl) ==
  [z \in 1 .. k - p - 1 |-> AcBin(tbl, 3 * (p + z - 1) + 1) \o <<0>>]
NewlyNonzero(v, k, tbl) ==
  << AcBin(tbl, 3 * (k - 1) + 1) \o <<1>>, fixed_bin \o <<Bit(v < 0)>> >>
EndOfBlock(p, tbl, end) == <<AcBin(tbl, 3 * p) \o <<Bit(end)>>>>

\* Positions of the band that are not zero after the point transform.
CodedAt(block, Ss, Se, Al) ==
  SelectSeq([i \in 1 .. Se - Ss + 1 |-> Ss + i - 1],
            LAMBDA k : Abs(block[k + 1]) \div 2 ^ Al # 0)

AcDecisions(block, tbl, Ss, Se, Al) ==
  LET coded == CodedAt(block, Ss, Se, Al)
      before(j) == IF j = 1 THEN Ss - 1 ELSE coded[j - 1]
      One(j) ==
        LET k == coded[j]
        IN  EndOfBlock(before(j), tbl, FALSE) \o ZerosBefore(before(j), k, tbl)
            \o NewlyNonzero(block[k + 1], k, tbl)
            \o MagnitudeDecisions((Abs(block[k + 1]) \div 2 ^ Al) - 1,
                                  AcBin(tbl, 3 * (k - 1) + 2),
                                  LAMBDA i : AcCategory(tbl, k, i))
      ke == IF coded = << >> THEN Ss - 1 ELSE Last(coded)
  IN  FlattenSeq([j \in DOMAIN coded |-> One(j)])
      \o (IF ke < Se THEN EndOfBlock(ke, tbl, TRUE) ELSE << >>)

\* The refinement of a band: the end of the block is in question only after
\* the last coefficient kex that was nonzero before.
RefineDecisions(block, tbl, scan) ==
  LET coded == CodedAt(block, scan.Ss, scan.Se, scan.Al)
      old == CodedAt(block, scan.Ss, scan.Se, scan.Ah)
      kex == IF old = << >> THEN 0 ELSE Last(old)
      before(j) == IF j = 1 THEN scan.Ss - 1 ELSE coded[j - 1]
      One(j) ==
        LET k == coded[j]
            p == before(j)
            v == Abs(block[k + 1]) \div 2 ^ scan.Al
        IN  (IF p + 1 > kex THEN EndOfBlock(p, tbl, FALSE) ELSE << >>)
            \o ZerosBefore(p, k, tbl)
            \o (IF v > 1 THEN <<AcBin(tbl, 3 * (k - 1) + 2) \o <<v % 2>>>>
                ELSE NewlyNonzero(block[k + 1], k, tbl))
      ke == IF coded = << >> THEN scan.Ss - 1 ELSE Last(coded)
  IN  FlattenSeq([j \in DOMAIN coded |-> One(j)])
      \o (IF ke < scan.Se THEN EndOfBlock(ke, tbl, TRUE) ELSE << >>)

-----------------------------------------------------------------------------
\* The MCU routines: [list, last, ctx] of an MCU.

\* Adds the decisions of a block's DC value.
WithDc(w, b, Al) ==
  LET m == b.block[1] \div 2 ^ Al
      v == m - w.last[b.i]
  IN  [list |-> w.list \o DcDecisions(v, b.tbl, w.ctx[b.i]),
       last |-> [w.last EXCEPT ![b.i] = m], ctx |-> [w.ctx EXCEPT ![b.i] = ContextAfter(v)]]

encode_mcu(w, mcu, scan) ==
  FoldLeft(LAMBDA x, b :
             LET y == WithDc(x, b, 0)
             IN  [y EXCEPT !.list = @ \o AcDecisions(b.block, b.tbl, 1, scan.Se, 0)],
           w, mcu)

encode_mcu_DC_first(w, mcu, scan) ==
  FoldLeft(LAMBDA x, b : WithDc(x, b, scan.Al), w, mcu)

encode_mcu_AC_first(w, mcu, scan) ==
  [w EXCEPT !.list = AcDecisions(mcu[1].block, mcu[1].tbl, scan.Ss, scan.Se, scan.Al)]

encode_mcu_DC_refine(w, mcu, scan) ==
  [w EXCEPT !.list = [b \in DOMAIN mcu |->
                        fixed_bin \o <<(mcu[b].block[1] \div 2 ^ scan.Al) % 2>>]]

encode_mcu_AC_refine(w, mcu, scan) ==
  [w EXCEPT !.list = RefineDecisions(mcu[1].block, mcu[1].tbl, scan)]

\* The coder of an empty segment.
Fresh(out, scan, togo, next) ==
  [c |-> 0, a |-> 65536, sc |-> 0, zc |-> 0, ct |-> 11, buffer |-> -1,
   stats |-> NoStats, last |-> [i \in DOMAIN scan.comps |-> 0],
   ctx |-> [i \in DOMAIN scan.comps |-> 0], togo |-> togo, next |-> next, out |-> out]

start_pass(scan, interval) == Fresh(<< >>, scan, interval, 0)

emit_restart(e, scan, interval) ==
  Fresh(finish_pass(e).out \o <<256 + \hD0 + e.next>>, scan, interval, (e.next + 1) % 8)

\* One call of the routine the scan selects.
encode_next_mcu(e0, mcu, scan, progressive, interval) ==
  LET e1 == [e0 EXCEPT !.out = << >>]
      e == IF interval # 0 /\ e1.togo = 0 THEN emit_restart(e1, scan, interval) ELSE e1
      w0 == [list |-> << >>, last |-> e.last, ctx |-> e.ctx]
      w == CASE ~progressive -> encode_mcu(w0, mcu, scan)
             [] progressive /\ scan.Ss = 0 /\ scan.Ah = 0
                  -> encode_mcu_DC_first(w0, mcu, scan)
             [] progressive /\ scan.Ss # 0 /\ scan.Ah = 0
                  -> encode_mcu_AC_first(w0, mcu, scan)
             [] progressive /\ scan.Ss = 0 /\ scan.Ah # 0
                  -> encode_mcu_DC_refine(w0, mcu, scan)
             [] progressive /\ scan.Ss # 0 /\ scan.Ah # 0
                  -> encode_mcu_AC_refine(w0, mcu, scan)
  IN  [encode_all(e, w.list) EXCEPT
         !.last = w.last, !.ctx = w.ctx, !.togo = IF interval = 0 THEN @ ELSE @ - 1]
=============================================================================
