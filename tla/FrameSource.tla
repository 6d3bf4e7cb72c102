------------------------------ MODULE FrameSource ------------------------------
(***************************************************************************)
(* The camera as the picture thread may think of it: a line of at most     *)
(* MaxBuffers pictures, taken in the order they were captured, none twice  *)
(* and none left out.  A picture that finds the line full is never taken   *)
(* into it, so after a pause the first pictures shown are old ones.        *)
(***************************************************************************)
EXTENDS Naturals, Sequences

CONSTANTS
  MaxBuffers,
  LastPicture    \* pictures are numbered 0 .. LastPicture, then again from 0

VARIABLES
  line,    \* the pictures captured and not yet shown, oldest first
  shown    \* the picture in send_buffer; LastPicture also before the first

sourceVars == <<line, shown>>

After(p) == IF p = LastPicture THEN 0 ELSE p + 1

Newest == IF line = <<>> THEN shown ELSE line[Len(line)]

Init == line = <<>> /\ shown = LastPicture

Capture ==
  /\ Len(line) < MaxBuffers
  /\ line' = Append(line, After(Newest))
  /\ UNCHANGED shown

Show ==
  /\ line # <<>>
  /\ shown' = Head(line)
  /\ line' = Tail(line)

Next == Capture \/ Show

Safety == Init /\ [][Next]_sourceVars

=============================================================================
