----------------------------- MODULE Compressor -----------------------------
(* From coefficients to the scans of a JPEG file: the passes of the          *)
(* compressor (src/jpeg-8d/jcmaster.c), each of which takes the MCUs of a    *)
(* scan through an entropy coder, to count symbols or to write data.         *)
(*                                                                           *)
(* A job is [comps, picture, arith, optimize, script, interval, lim_Se,      *)
(* waits, damage]: the components, the blocks of each, the coder, whether    *)
(* Huffman tables are to be made for the image, the scan script or << >>,    *)
(* the MCUs between restart markers or 0, the last coefficient of a block;   *)
(* the last two are for those who read the file.                             *)
EXTENDS HuffEncoder

ArithEnc == INSTANCE ArithEncoder

CONSTANT Jobs    \* a sequence of jobs

\* jpeg_scan_info.
ScanInfo == [comps : Seq(Nat), Ss : Int, Se : Int, Ah : Int, Al : Int]
ASSUME JobsAssumption ==
  \A j \in DOMAIN Jobs :
    /\ Jobs[j].comps # << >>
    /\ Jobs[j].script \in Seq(ScanInfo)
    /\ Jobs[j].lim_Se \in 0 .. DCTSIZE2 - 1
    /\ Jobs[j].arith \in BOOLEAN /\ Jobs[j].optimize \in BOOLEAN

VARIABLES
  job,       \* the job, an index of Jobs
  phase,     \* "encode", "written", or "failed" for an error exit
  master,    \* the pass: [type, scan_number, pass_number, gather, last, ready];
             \* ready while its MCUs are being coded
  mcu,       \* MCUs of the pass that are done
  entropy,   \* the entropy coder's state
  derived,   \* its derived Huffman tables
  huff,      \* the Huffman tables of the image
  counts,    \* symbol counts of a gathering pass
  segment,   \* data of the scan being written
  file       \* the scans written: [scan, tables, data]

compressor ==
  << job, phase, master, mcu, entropy, derived, huff, counts, segment, file >>

JPEG_EOI == 256 + \hD9

NoTables == [dc |-> << << >>, << >> >>, ac |-> << << >>, << >> >>]

J == Jobs[job]
num_components == Len(J.comps)
progressive_mode == IsProgressive(J.script)

\* The script as the master control leaves it, and what else it derives.
script(j) ==
  IF j.script # << >> /\ j.lim_Se < DCTSIZE2 - 1
  THEN reduce_script(j.script, j.lim_Se) ELSE j.script
optimize_coding(j) ==
  \/ j.optimize
  \/ ~j.arith /\ (IsProgressive(j.script) \/ j.lim_Se < DCTSIZE2 - 1)
num_scans(j) == IF j.script = << >> THEN 1 ELSE Len(script(j))
total_passes(j) == IF optimize_coding(j) THEN 2 * num_scans(j) ELSE num_scans(j)

ScanParameters(number) ==
  LET scan == select_scan_parameters(script(J), number, num_components, J.lim_Se)
  IN  [comps |-> scan.comps, Ss |-> scan.Ss, Se |-> scan.Se, Ah |-> scan.Ah,
       Al |-> scan.Al, lim_Se |-> J.lim_Se]

\* The blocks of MCU m of a scan, as the coders take them.
McuOf(scan, m, blocks) ==
  LET setup == per_scan_setup(J.comps, scan, m)
  IN  [b \in DOMAIN setup |->
         [i     |-> setup[b][1],
          tbl   |-> J.comps[setup[b][2]].tbl,
          block |-> blocks[setup[b][2]][setup[b][3]]]]

-----------------------------------------------------------------------------
\* jinit_c_master_control. A script that is not valid is refused, and so are
\* too many blocks in an MCU.
AcceptedJobs ==
  {j \in DOMAIN Jobs :
     Jobs[j].script # << >> => validate_script(Jobs[j].script, Len(Jobs[j].comps))}

CompressInit ==
  /\ job \in AcceptedJobs
  /\ phase = "encode"
  /\ master = [type |-> "main_pass", scan_number |-> 0, pass_number |-> 0,
               gather |-> FALSE, last |-> FALSE, ready |-> FALSE]
  /\ mcu = 0 /\ entropy = << >> /\ derived = NoTables
  /\ huff = std_huff_tables /\ counts = NoCounts
  /\ segment = << >> /\ file = << >>

\* Sets up the next pass. The table-making pass is skipped for a DC refinement,
\* which needs no table.
prepare_for_pass ==
  /\ phase = "encode" /\ ~master.ready
  /\ LET scan == ScanParameters(master.scan_number)
         skip == master.type = "huff_opt_pass" /\ scan.Ss = 0 /\ scan.Ah # 0
         type == IF skip THEN "output_pass" ELSE master.type
         number == master.pass_number + (IF skip THEN 1 ELSE 0)
         gather == type # "output_pass" /\ optimize_coding(J)
     IN  /\ phase' = IF McuSizeOk(J.comps, scan) /\ ~(J.arith /\ gather) THEN phase
                     ELSE "failed"
         /\ master' = [master EXCEPT !.type = type, !.pass_number = number,
                         !.gather = gather, !.ready = TRUE,
                         !.last = number = total_passes(J) - 1]
         /\ entropy' = IF J.arith THEN ArithEnc!start_pass(scan, J.interval)
                       ELSE start_pass_huff(scan, J.interval)
         /\ derived' = IF J.arith \/ gather THEN NoTables ELSE DerivedTables(scan, huff)
  /\ mcu' = 0 /\ counts' = NoCounts /\ segment' = << >>
  /\ UNCHANGED << job, huff, file >>

\* One MCU goes through the entropy coder.
Encoded(e) ==
  /\ entropy' = e
  /\ counts' = IF master.gather THEN CountSymbols(counts, e.out) ELSE counts
  /\ segment' = IF master.gather THEN segment
               ELSE IF J.arith THEN segment \o e.out ELSE emit_all(segment, e.out, derived)

McuEncoded(blocks, scan) ==
  IF J.arith
  THEN ArithEnc!encode_next_mcu(entropy, blocks, scan, progressive_mode, J.interval)
  ELSE encode_mcu(entropy, blocks, scan, progressive_mode, master.gather, J.interval)

EncodeMcu ==
  LET scan == ScanParameters(master.scan_number)
  IN  /\ phase = "encode" /\ master.ready /\ mcu < MCUs_per_row(J.comps, scan)
      /\ Encoded(McuEncoded(McuOf(scan, mcu, J.picture), scan))
      /\ mcu' = mcu + 1
      /\ UNCHANGED << job, phase, master, derived, huff, file >>

\* The data of the scan is complete, or its tables are.
finish_pass_master ==
  LET scan == ScanParameters(master.scan_number)
      tbl == J.comps[scan.comps[1]].tbl
      e == IF J.arith THEN ArithEnc!finish_pass([entropy EXCEPT !.out = << >>])
           ELSE finish_pass_huff(entropy, tbl, progressive_mode)
      data == IF J.arith THEN segment \o e.out
              ELSE flush_bits(emit_all(segment, e.out, derived))
      next == CASE master.type = "main_pass" \/ master.type = "huff_opt_pass"
                     -> "output_pass"
                [] master.type = "output_pass"
                     -> IF optimize_coding(J) THEN "huff_opt_pass" ELSE "output_pass"
  IN  /\ phase = "encode" /\ master.ready /\ mcu = MCUs_per_row(J.comps, scan)
      /\ huff' = IF master.gather
                 THEN finish_pass_gather(huff, CountSymbols(counts, e.out), scan) ELSE huff
      /\ file' = IF master.gather THEN file
                 ELSE Append(file, [scan |-> scan, tables |-> huff,
                                    data |-> Append(data, JPEG_EOI)])
      /\ master' = [master EXCEPT !.type = next, !.ready = FALSE,
                      !.scan_number = IF master.gather THEN @ ELSE @ + 1,
                      !.pass_number = @ + 1]
      /\ phase' = IF master.last THEN "written" ELSE "encode"
      /\ entropy' = e /\ segment' = << >>
      /\ UNCHANGED << job, mcu, derived, counts >>

CompressNext == prepare_for_pass \/ EncodeMcu \/ finish_pass_master

CompressSpec == CompressInit /\ [][CompressNext]_compressor

-----------------------------------------------------------------------------
\* What holds between the steps.

IsList(s) == s \in Seq({s[n] : n \in DOMAIN s})

\* The passes go through the scans in the order of the script, each of them
\* once or, when tables are made for the image, twice: pass_number tells both
\* the scan and the kind of the pass (jcmaster.c).
PassInv ==
  /\ job \in AcceptedJobs
  /\ phase \in {"encode", "written", "failed"}
  /\ DOMAIN master = {"type", "scan_number", "pass_number", "gather", "last", "ready"}
  /\ master.ready \in BOOLEAN /\ master.gather \in BOOLEAN /\ master.last \in BOOLEAN
  /\ master.type \in {"main_pass", "huff_opt_pass", "output_pass"}
  /\ phase = "encode" =>
       /\ master.scan_number \in 0 .. num_scans(J) - 1
       /\ master.pass_number =
            IF ~optimize_coding(J) THEN master.scan_number
            ELSE 2 * master.scan_number + (IF master.type = "output_pass" THEN 1 ELSE 0)
       /\ master.type = "huff_opt_pass" => optimize_coding(J)
       /\ master.ready =>
            /\ master.gather <=> master.type # "output_pass" /\ optimize_coding(J)
            /\ master.last <=> master.pass_number = total_passes(J) - 1

\* The file holds the scans that are done, with the parameters the script gives
\* them, and all of them once the compressor has come to its end.
FileInv ==
  /\ IsList(file) /\ Len(file) = master.scan_number
  /\ \A n \in 1 .. Len(file) : file[n].scan = ScanParameters(n - 1)
  /\ phase = "written" => master.scan_number = num_scans(J)

\* The correction bits kept for the band that ends later, with those of the
\* current block, fit in bit_buffer (jchuff.c).
CorrectionBitsFit ==
  phase = "encode" /\ master.ready /\ ~J.arith => entropy.high <= MAX_CORR_BITS

\* Between two MCUs bit_buffer has room for the correction bits of a whole
\* block, the run of ended bands is short of the value that writes it out, and
\* no correction bit is kept without a run it goes with (jchuff.c).
CoderOk(e) ==
  /\ DOMAIN e = {"last", "EOBRUN", "BE", "togo", "next", "high", "out"}
  /\ IsList(e.BE) /\ Len(e.BE) <= MAX_CORR_BITS - DCTSIZE2 + 1
  /\ e.EOBRUN \in 0 .. MaxEobRun - 1
  /\ e.BE # << >> => e.EOBRUN > 0
  /\ e.high \in Nat
CoderInv == phase = "encode" /\ master.ready /\ ~J.arith => CoderOk(entropy)

CompressorInv == PassInv /\ FileInv /\ CoderInv /\ CorrectionBitsFit
=============================================================================
