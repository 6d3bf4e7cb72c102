------------------------------- MODULE Scans -------------------------------
(* The scans of a JPEG file (src/jpeg-8d/jcmaster.c, jcparam.c): the script  *)
(* an application may give, its validation and its reduction to small        *)
(* blocks, the script jpeg_simple_progression writes, and the blocks of each *)
(* MCU of a scan.                                                            *)
(*                                                                           *)
(* A scan is [comps, Ss, Se, Ah, Al]: the components it holds (in 1..n), the *)
(* band of coefficients Ss..Se and the bit positions of the successive       *)
(* approximation: bits above Ah were sent before, this scan sends those      *)
(* above Al. Coefficients are numbered in the order they are coded, so       *)
(* natural_order is the identity here.                                       *)
(*                                                                           *)
(* A component is [h, width, tbl, needed, size]: its blocks in an            *)
(* interleaved MCU, its blocks in a row, the number of its Huffman and       *)
(* arithmetic tables, whether the decompressor is asked for it, and the rows *)
(* and columns the inverse DCT makes of a block. The image is one row of     *)
(* MCUs high and a whole number of MCUs wide.                                *)
EXTENDS Integers, Sequences, FiniteSets, SequencesExt

DCTSIZE2 == 64
MAX_COMPS_IN_SCAN == 4
MAX_AH_AL == 10
C_MAX_BLOCKS_IN_MCU == 10

InScan(scan) == {scan.comps[i] : i \in DOMAIN scan.comps}

Covers(scan, ci, k) == ci \in InScan(scan) /\ k \in scan.Ss .. scan.Se

\* Al of the last scan before the n-th that sent coefficient k of component
\* ci, -1 when none did.
LastBitpos(script, n, ci, k) ==
  LET before == {m \in 1 .. n - 1 : Covers(script[m], ci, k)}
  IN  IF before = {} THEN -1 ELSE script[Max(before)].Al

\* The components of a scan exist and are in the order of the frame.
ComponentsOk(scan, num) ==
  /\ Len(scan.comps) \in 1 .. MAX_COMPS_IN_SCAN
  /\ InScan(scan) \subseteq 1 .. num
  /\ \A i \in 2 .. Len(scan.comps) : scan.comps[i] > scan.comps[i - 1]

IsProgressive(script) ==
  script # << >> /\ ~(script[1].Ss = 0 /\ script[1].Se = DCTSIZE2 - 1)

ProgressiveOk(script, n) ==
  LET scan == script[n]
      Continues(ci, k) ==
        LET last == LastBitpos(script, n, ci, k)
        IN  IF last < 0 THEN scan.Ah = 0
            ELSE scan.Ah = last /\ scan.Al = scan.Ah - 1
  IN  /\ scan.Ss \in 0 .. DCTSIZE2 - 1 /\ scan.Se \in scan.Ss .. DCTSIZE2 - 1
      /\ {scan.Ah, scan.Al} \subseteq 0 .. MAX_AH_AL
      /\ IF scan.Ss = 0 THEN scan.Se = 0 ELSE Len(scan.comps) = 1
      /\ \A ci \in InScan(scan) :
           /\ scan.Ss # 0 => LastBitpos(script, n, ci, 0) >= 0
           /\ \A k \in scan.Ss .. scan.Se : Continues(ci, k)

SequentialOk(script, n) ==
  LET scan == script[n]
  IN  /\ <<scan.Ss, scan.Se, scan.Ah, scan.Al>> = <<0, DCTSIZE2 - 1, 0, 0>>
      /\ \A m \in 1 .. n - 1 : InScan(scan) \cap InScan(script[m]) = {}

\* Whether the script of an image of num components is accepted; the errors
\* of the code are one error here.
validate_script(script, num) ==
  /\ script # << >>
  /\ \A n \in DOMAIN script :
       /\ ComponentsOk(script[n], num)
       /\ IF IsProgressive(script) THEN ProgressiveOk(script, n)
          ELSE SequentialOk(script, n)
  /\ \A ci \in 1 .. num : \E n \in DOMAIN script : Covers(script[n], ci, 0)

\* The script for blocks whose last coefficient is lim_Se: scans out of range
\* are left out.
UpTo(scan, lim_Se) == [scan EXCEPT !.Se = IF @ > lim_Se THEN lim_Se ELSE @]
reduce_script(script, lim_Se) ==
  LET kept[n \in 0 .. Len(script)] ==
        IF n = 0 THEN << >>
        ELSE IF script[n].Ss > lim_Se THEN kept[n - 1]
        ELSE Append(kept[n - 1], UpTo(script[n], lim_Se))
  IN  kept[Len(script)]

-----------------------------------------------------------------------------
fill_a_scan(ci, Ss, Se, Ah, Al) ==
  [comps |-> <<ci>>, Ss |-> Ss, Se |-> Se, Ah |-> Ah, Al |-> Al]

fill_scans(num, Ss, Se, Ah, Al) ==
  [ci \in 1 .. num |-> fill_a_scan(ci, Ss, Se, Ah, Al)]

fill_dc_scans(num, Ah, Al) ==
  IF num <= MAX_COMPS_IN_SCAN
  THEN <<[comps |-> [ci \in 1 .. num |-> ci], Ss |-> 0, Se |-> 0,
          Ah |-> Ah, Al |-> Al]>>
  ELSE fill_scans(num, 0, 0, Ah, Al)

jpeg_simple_progression(num, isYCbCr) ==
  IF num = 3 /\ isYCbCr
  THEN fill_dc_scans(num, 0, 1)
       \o << fill_a_scan(1, 1, 5, 0, 2), fill_a_scan(3, 1, 63, 0, 1),
             fill_a_scan(2, 1, 63, 0, 1), fill_a_scan(1, 6, 63, 0, 2),
             fill_a_scan(1, 1, 63, 2, 1) >>
       \o fill_dc_scans(num, 1, 0)
       \o << fill_a_scan(3, 1, 63, 1, 0), fill_a_scan(2, 1, 63, 1, 0),
             fill_a_scan(1, 1, 63, 1, 0) >>
  ELSE fill_dc_scans(num, 0, 1)
       \o fill_scans(num, 1, 5, 0, 2)
       \o fill_scans(num, 6, 63, 0, 2)
       \o fill_scans(num, 1, 63, 2, 1)
       \o fill_dc_scans(num, 1, 0)
       \o fill_scans(num, 1, 63, 1, 0)

-----------------------------------------------------------------------------
\* The parameters of the scan with index scan_number (from 0); a sequential
\* scan takes the whole block whatever its entry says.
select_scan_parameters(script, scan_number, num, lim_Se) ==
  IF script # << >> /\ IsProgressive(script)
  THEN script[scan_number + 1]
  ELSE [comps |-> IF script # << >> THEN script[scan_number + 1].comps
                  ELSE [ci \in 1 .. num |-> ci],
        Ss |-> 0, Se |-> lim_Se, Ah |-> 0, Al |-> 0]

\* The blocks of MCU number m (from 0) of a scan, each <<position of its
\* component in the scan, component, block>>: one block when the scan holds a
\* single component, else h of each component in turn.
per_scan_setup(comps, scan, m) ==
  IF Len(scan.comps) = 1
  THEN <<<<1, scan.comps[1], m + 1>>>>
  ELSE LET membership(i, ci) ==
             [x \in 1 .. comps[ci].h |-> <<i, ci, m * comps[ci].h + x>>]
       IN  FlattenSeq([i \in DOMAIN scan.comps |-> membership(i, scan.comps[i])])

MCUs_per_row(comps, scan) ==
  LET ci == scan.comps[1]
  IN  IF Len(scan.comps) = 1 THEN comps[ci].width
      ELSE comps[ci].width \div comps[ci].h

\* per_scan_setup accepts the interleaving.
McuSizeOk(comps, scan) ==
  Len(per_scan_setup(comps, scan, 0)) <= C_MAX_BLOCKS_IN_MCU
=============================================================================
