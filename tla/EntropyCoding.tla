---------------------------- MODULE EntropyCoding ----------------------------
(* From coefficients to a JPEG file and back: the compressor, the damage its *)
(* entropy-coded data may suffer on the way, and the scans of the            *)
(* decompressor (src/jpeg-8d/jdinput.c, jdcoefct.c), whose source may have   *)
(* no more data for now.                                                     *)
(*                                                                           *)
(* Of a Compressor's job, waits is how many units of data the source may     *)
(* deliver before it makes the decoder wait, and damage whether the data may *)
(* be damaged.                                                               *)
EXTENDS Compressor, HuffDecoder

ArithDec == INSTANCE ArithDecoder

VARIABLES
  input,     \* [state, scan, started]: "reading", "done", or "failed" for an
             \* error exit; the scan being read, and whether its MCUs are being
             \* decoded
  dmcu,      \* MCUs of that scan that are done
  decoder,   \* the entropy decoder's state
  dtables,   \* its derived Huffman tables
  coefs,     \* the decompressor's blocks of each component
  damage     \* what happened to the data: [kind, first, last], a stretch of it

decompressor == << input, dmcu, decoder, dtables, coefs >>
codingVars == << compressor, decompressor, damage >>

NoDamage == [kind |-> "none", first |-> 0, last |-> 0]

\* The blocks of MCU m of a scan, and how many coefficients of each are asked for.
McuToDecode(scan, m) ==
  LET blocks == McuOf(scan, m, coefs)
      setup == per_scan_setup(J.comps, scan, m)
  IN  [b \in DOMAIN blocks |->
         [i |-> blocks[b].i, tbl |-> blocks[b].tbl, block |-> blocks[b].block,
          limit |-> coef_limit(J.comps[setup[b][2]], J.lim_Se)]]

CodingInit ==
  /\ CompressInit
  /\ input = [state |-> "reading", scan |-> 1, started |-> FALSE]
  /\ dmcu = 0 /\ decoder = << >> /\ dtables = NoTables
  /\ coefs = [ci \in 1 .. num_components |->
                [b \in 1 .. J.comps[ci].width |-> [k \in 1 .. J.lim_Se + 1 |-> 0]]]
  /\ damage = NoDamage

\* The file is written before it is read.
CompressStep == CompressNext /\ UNCHANGED << decompressor, damage >>
Reading == phase = "written" /\ input.state = "reading"

-----------------------------------------------------------------------------
\* The way of the data. A stretch of it gets lost or comes twice; the stretch
\* starts and ends between two bytes.
ByteStarts(data) ==
  LET Aligned(p) ==
        LET markers == {q \in 1 .. p - 1 : IsMarker(data[q])}
        IN  (p - 1 - (IF markers = {} THEN 0 ELSE Max(markers))) % 8 = 0
  IN  IF J.arith THEN DOMAIN data
      ELSE {p \in DOMAIN data : IsMarker(data[p]) \/ Aligned(p)}

\* The data of a scan as it arrives; only the first scan is damaged.
Data(n) ==
  LET data == file[n].data
  IN  CASE n # 1 \/ damage.kind = "none" -> data
        [] n = 1 /\ damage.kind = "lost" ->
             SubSeq(data, 1, damage.first - 1) \o SubSeq(data, damage.last + 1, Len(data))
        [] n = 1 /\ damage.kind = "repeated" ->
             SubSeq(data, 1, damage.last) \o SubSeq(data, damage.first, Len(data))

DamageData ==
  /\ J.damage /\ Reading /\ ~input.started /\ damage = NoDamage
  /\ \E kind \in {"lost", "repeated"}, first, end \in ByteStarts(file[1].data) :
       /\ first < end
       /\ Cardinality({p \in first .. end - 1 : IsMarker(file[1].data[p])}) <= 2
       /\ damage' = [kind |-> kind, first |-> first, last |-> end - 1]
  /\ UNCHANGED << compressor, decompressor >>

-----------------------------------------------------------------------------
\* The scans whose headers were read when that of the n-th was.
ScansUpTo(n) == [m \in 1 .. n |-> file[m].scan]

\* The entropy decoder at the start of a scan.
StartOfScan(n) ==
  IF J.arith THEN ArithDec!start_pass(file[n].scan, Data(n), J.interval)
  ELSE start_pass_huff_decoder(file[n].scan, Data(n), J.interval)

\* A scan's header was read: start_input_pass and the entropy decoder's
\* start_pass.
start_input_pass ==
  /\ Reading /\ ~input.started
  /\ LET s == file[input.scan]
         bogus == progressive_mode /\ ~ProgressionExpected(ScansUpTo(input.scan))
     IN  /\ decoder' = [StartOfScan(input.scan) EXCEPT !.warned = bogus]
         /\ dtables' = IF J.arith THEN NoTables
                       ELSE DerivedForDecoding(s.scan, s.tables, progressive_mode)
         /\ input' = [input EXCEPT !.started = TRUE,
                        !.state = IF progressive_mode /\ ~ProgressionOk(s.scan)
                                  THEN "failed" ELSE @]
  /\ dmcu' = 0
  /\ UNCHANGED << compressor, coefs, damage >>

\* The decompressor asks for one MCU. The blocks of a call that is given up are
\* kept when they are in the image's arrays; a file of one scan has them in a
\* buffer that the next call clears.
Decoded(r, setup) ==
  LET At(ci, b) == {x \in DOMAIN setup : setup[x][2] = ci /\ setup[x][3] = b}
  IN  /\ decoder' = r.d
      /\ coefs' = IF ~r.ok /\ num_scans(J) = 1 THEN coefs
                  ELSE [ci \in DOMAIN coefs |-> [b \in DOMAIN coefs[ci] |->
                          IF At(ci, b) = {} THEN coefs[ci][b] ELSE r.blocks[Max(At(ci, b))]]]
      /\ dmcu' = IF r.ok THEN dmcu + 1 ELSE dmcu

\* The call; the data up to cut is there.
McuDecoded(scan, data, blocks, cut) ==
  IF J.arith
  THEN ArithDec!decode_next_mcu(decoder, data, blocks, scan, progressive_mode, J.interval)
  ELSE decode_next_mcu(decoder, [data |-> data, cut |-> cut], blocks, dtables, scan,
                       progressive_mode, J.interval)

DecodeMcu ==
  LET scan == file[input.scan].scan
      data == Data(input.scan)
      Cuts == {Len(data)} \cup {c \in {decoder.pos - 1 + w : w \in J.waits} : c < Len(data)}
  IN  /\ Reading /\ input.started /\ dmcu < MCUs_per_row(J.comps, scan)
      /\ \E cut \in Cuts :
           Decoded(McuDecoded(scan, data, McuToDecode(scan, dmcu), cut),
                   per_scan_setup(J.comps, scan, dmcu))
  /\ UNCHANGED << compressor, input, dtables, damage >>

\* Unused whole bytes of a scan.
Unused == (decoder.mark - decoder.pos) \div (IF J.arith THEN 1 ELSE 8)

\* A scan's MCUs are decoded.
ScanRead ==
  Reading /\ input.started /\ dmcu = MCUs_per_row(J.comps, file[input.scan].scan)

finish_input_pass ==
  /\ ScanRead
  /\ input' = IF input.scan = Len(file) THEN [input EXCEPT !.state = "done"]
              ELSE [input EXCEPT !.scan = @ + 1, !.started = FALSE]
  /\ UNCHANGED << compressor, dmcu, decoder, dtables, coefs, damage >>

CodingNext ==
  \/ CompressStep
  \/ DamageData
  \/ start_input_pass \/ DecodeMcu \/ finish_input_pass

CodingSpec == CodingInit /\ [][CodingNext]_codingVars

-----------------------------------------------------------------------------
\* What holds between the steps.

\* Nothing is read before the file is complete. Then its scans are read in
\* order, to the last one, and none of them ends in an error exit.
PlaceInv ==
  /\ DOMAIN input = {"state", "scan", "started"}
  /\ input.state \in {"reading", "done"} /\ input.started \in BOOLEAN
  /\ input.scan \in 1 .. num_scans(J) /\ dmcu \in Nat
  /\ phase # "written" =>
       input.state = "reading" /\ input.scan = 1 /\ ~input.started /\ damage = NoDamage
  /\ input.state = "done" => input.scan = num_scans(J)

\* The scans of a script that validate_script has accepted, as reduce_script
\* leaves them, are those the decompressor takes and expects: coef_bits, which it
\* keeps of its own, goes through the same values as the last_bitpos of the
\* validation (jcmaster.c against jdhuff.c).
ProgressionInv ==
  progressive_mode =>
    \A n \in 1 .. Len(file) :
      ProgressionOk(file[n].scan) /\ ProgressionExpected(ScansUpTo(n))

\* Until the first MCU of a scan is complete, the decoder is as it was at the
\* start of the scan, however often a call was given up; and there was nothing
\* to warn of then (jdhuff.c).
FreshInv ==
  Reading /\ input.started /\ dmcu = 0 => decoder = StartOfScan(input.scan)

\* All that is known of the compressor, and this.
CodingInv == CompressorInv /\ PlaceInv /\ ProgressionInv /\ FreshInv

-----------------------------------------------------------------------------
\* What the decompressor holds at a scan's end.

\* The part of a coefficient that the scans up to the current one have sent.
Sent(ci, k, v) ==
  LET Al == LastBitpos(ScansUpTo(input.scan), input.scan + 1, ci, k)
  IN  CASE Al < 0             -> 0
        [] Al >= 0 /\ k = 0   -> DcPoint(v, Al) * 2 ^ Al
        [] Al >= 0 /\ k # 0   -> (IF v < 0 THEN -1 ELSE 1) * AcMagnitude(v, Al) * 2 ^ Al

\* How many coefficients of a component the decompressor is asked for; only the
\* sequential Huffman decoder leaves the others out.
Asked(ci) ==
  IF progressive_mode \/ J.arith THEN J.lim_Se + 1 ELSE coef_limit(J.comps[ci], J.lim_Se)

BlockAsSent(ci, b) ==
  \A k \in 0 .. Asked(ci) - 1 : coefs[ci][b][k + 1] = Sent(ci, k, J.picture[ci][b][k + 1])

\* Once a scan is read, every block holds the coefficients of the picture with
\* the precision sent so far, whatever the coder, the script, the tables and the
\* restart interval are, and wherever the source made the decoder wait and start
\* the MCU again (jchuff.c and jcarith.c against jdhuff.c and jdarith.c).
PrecisionReached ==
  ScanRead /\ damage = NoDamage =>
    \A ci \in DOMAIN coefs : \A b \in DOMAIN coefs[ci] : BlockAsSent(ci, b)

\* The data of a scan ends in EOI, and its other markers are restart markers,
\* numbered in their order from RST0 to RST7 and again; no mark of an error is
\* among them.
RestartsInOrder(data) ==
  /\ data \in Seq(Nat) /\ data # << >> /\ data[Len(data)] = JPEG_EOI
  /\ \A p \in DOMAIN data : p # Len(data) /\ IsMarker(data[p]) =>
       data[p] = JPEG_RST0 + (Cardinality({q \in 1 .. p - 1 : IsMarker(data[q])}) % 8)

\* No coefficient and no symbol is met that cannot be coded, no script that was
\* accepted ends in an error, and a file that arrived undamaged gives no warning
\* and is used to its last byte.
CodedWithoutError ==
  /\ phase # "failed" /\ input.state # "failed"
  /\ \A n \in DOMAIN file : damage = NoDamage => RestartsInOrder(file[n].data)
  /\ Reading /\ input.started /\ damage = NoDamage => ~decoder.warned
  /\ ScanRead /\ damage = NoDamage => Unused = 0

\* The restart segments a stretch of damaged data belongs to; a marker belongs
\* to the segment it starts. What follows the data of a segment matters to the
\* arithmetic decoder, which takes the zeros not written from there.
SegmentAt(data, p) == Cardinality({q \in 1 .. p : IsMarker(data[q])})
Touched ==
  LET data == file[1].data
      lost == {SegmentAt(data, p) : p \in damage.first .. damage.last}
      Starts(p) == IsMarker(data[p])
  IN  CASE damage.kind = "lost" /\ ~J.arith -> lost
        [] damage.kind = "lost" /\ J.arith  ->
             lost \cup {SegmentAt(data, p) - 1 :
                          p \in {q \in damage.first .. damage.last : Starts(q)}}
        [] damage.kind = "repeated" ->
             IF Starts(damage.first) /\ Starts(damage.last + 1) THEN {}
             ELSE {SegmentAt(data, damage.last)}

\* Data lost or repeated harms only the restart segments it belongs to, as long
\* as no more than two restart markers are in it: the blocks of the others are
\* those of the picture (jpeg_resync_to_restart).
DamageContained ==
  input.state = "done" /\ damage # NoDamage =>
    \A ci \in DOMAIN coefs : \A b \in DOMAIN coefs[ci] :
      LET scan == file[1].scan
          m == IF Len(scan.comps) = 1 THEN b - 1 ELSE (b - 1) \div J.comps[ci].h
      IN  (m \div J.interval) \notin Touched => BlockAsSent(ci, b)
=============================================================================
