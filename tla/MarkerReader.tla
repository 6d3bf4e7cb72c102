---------------------------- MODULE MarkerReader ----------------------------
(* Finding the restart markers of a scan (src/jpeg-8d/jdmarker.c). The data  *)
(* of a scan is a sequence of data units below 256 and of markers, 256 +     *)
(* 0xMM for marker FFMM; the scan ends at the first marker that is not RSTn. *)
(*                                                                           *)
(* A reader is [pos, mark, unread, next, warned]: the next unit to read, the *)
(* first marker at or after it (which decoders do not read past), whether    *)
(* unread_marker still holds that marker after a restart was processed, the  *)
(* number of the restart marker expected, and whether a warning was given.   *)
EXTENDS Integers, Sequences, SequencesExt

M_SOF0 == 256 + \hC0
M_RST0 == 256 + \hD0
M_RST7 == 256 + \hD7
M_EOI  == 256 + \hD9

\* Where the first marker at or after p is.
next_marker(data, p) == Min({q \in p .. Len(data) : data[q] >= 256})

\* MUTANT: only one lost marker is made up for.
ResyncToNextOnly(marker, desired) ==
  IF marker < M_SOF0 THEN 2
  ELSE IF marker \notin M_RST0 .. M_RST7 THEN 3
  ELSE CASE marker - M_RST0 = (desired + 1) % 8 -> 3
         [] marker - M_RST0 \in {(desired - 1) % 8, (desired - 2) % 8} -> 2
         [] OTHER -> 1

\* What resync_to_restart does with the marker it finds: 1 discard it and go
\* on, 2 skip to the next one, 3 leave it and take the segment as empty.
ResyncAction(marker, desired) ==
  IF marker < M_SOF0 THEN 2
  ELSE IF marker \notin M_RST0 .. M_RST7 THEN 3
  ELSE CASE marker - M_RST0 \in {(desired + 1) % 8, (desired + 2) % 8} -> 3
         [] marker - M_RST0 \in {(desired - 1) % 8, (desired - 2) % 8} -> 2
         [] OTHER -> 1

\* The reader after a marker at p was found that is not the one expected.
jpeg_resync_to_restart(r, data, p) ==
  LET at == Min({q \in p .. Len(data) : data[q] >= 256 /\ ResyncAction(data[q], r.next) # 2})
  IN  IF ResyncAction(data[at], r.next) = 1
      THEN [r EXCEPT !.pos = at + 1, !.mark = next_marker(data, at + 1),
                     !.unread = FALSE, !.warned = TRUE]
      ELSE [r EXCEPT !.pos = at, !.mark = at, !.unread = TRUE, !.warned = TRUE]

\* MUTANT: the number expected next does not start again after RST7.
ReadMarkerWithoutWrap(r, data) ==
  LET found == IF data[r.mark] = M_RST0 + r.next
               THEN [r EXCEPT !.pos = r.mark + 1, !.unread = FALSE,
                              !.mark = next_marker(data, r.mark + 1)]
               ELSE jpeg_resync_to_restart(r, data, r.mark)
  IN  [found EXCEPT !.next = @ + 1]

\* The reader with the next segment at its start.
read_restart_marker(r, data) ==
  LET found == IF data[r.mark] = M_RST0 + r.next
               THEN [r EXCEPT !.pos = r.mark + 1, !.unread = FALSE,
                              !.mark = next_marker(data, r.mark + 1)]
               ELSE jpeg_resync_to_restart(r, data, r.mark)
  IN  [found EXCEPT !.next = (@ + 1) % 8]
=============================================================================
