----------------------------- MODULE PictureFeed -----------------------------
(***************************************************************************)
(* What the picture port (8888) promises the client it is serving: the     *)
(* bytes of one connection are whole frames, one after the other, without  *)
(* a gap, a repetition or a skipped frame; only the last frame may be cut  *)
(* short, by the loss of the connection.  A new connection starts at the   *)
(* first byte of a frame that no earlier connection was sent.              *)
(***************************************************************************)
EXTENDS Integers

CONSTANTS
  Lens,        \* the lengths a frame (header and JPEG data) can have
  LastFrame    \* frames are numbered 0 .. LastFrame, then again from 0

FrameIds == 0 .. LastFrame

NextFrame(f) == IF f = LastFrame THEN 0 ELSE f + 1

VARIABLES
  link,  \* "idle", "open", "lost" or "down" (the process has ended)
  seg    \* the last run of bytes the connection took:
         \* bytes from .. to - 1 of a frame of len bytes

feedVars == <<link, seg>>

\* Nothing sent yet on a connection; f is the newest frame already captured.
NoBytes(f) == [frame |-> f, from |-> 0, to |-> 0, len |-> 0]

Init == link = "idle" /\ \E f \in FrameIds : seg = NoBytes(f)

\* Between two clients at most one captured frame is never sent to anyone.
Open ==
  /\ link = "idle"
  /\ link' \in {"open", "lost"}
  /\ seg' \in {NoBytes(seg.frame), NoBytes(NextFrame(seg.frame))}

\* The next run of bytes of the frame in progress.
Continue ==
  /\ seg.to < seg.len
  /\ \E k \in 1 .. seg.len - seg.to :
       seg' = [frame |-> seg.frame, from |-> seg.to, to |-> seg.to + k,
               len |-> seg.len]

\* A new frame, only after the last byte of the previous one.
Start ==
  /\ seg.to = seg.len
  /\ \E l \in Lens : \E k \in 1 .. l :
       seg' = [frame |-> NextFrame(seg.frame), from |-> 0, to |-> k, len |-> l]

Deliver ==
  /\ link = "open"
  /\ link' \in {"open", "lost"}
  /\ Continue \/ Start

Lose == link = "open" /\ link' = "lost" /\ UNCHANGED seg

Close == link = "lost" /\ link' = "idle" /\ UNCHANGED seg

Stop == link # "down" /\ link' = "down" /\ UNCHANGED seg

Next == Open \/ Deliver \/ Lose \/ Close \/ Stop

\* The safety part: what a client may observe.
Safety == Init /\ [][Next]_feedVars

\* A lost connection is eventually given up, for the next client's sake.
Fairness == WF_feedVars(Close \/ (link = "lost" /\ Stop))

Spec == Safety /\ Fairness

=============================================================================
