------------------------------- MODULE ByteSink -------------------------------
(***************************************************************************)
(* What libjpeg expects of a destination: the bytes of one picture, in the *)
(* order they were put, and nothing of the picture before it, whatever the *)
(* size of the buffer between the two.                                     *)
(***************************************************************************)
EXTENDS Naturals, Sequences

CONSTANT Pictures

VARIABLES
  stream,   \* the bytes put so far; once sealed, those the picture has
  sealed    \* is the picture complete?

sinkVars == <<stream, sealed>>

Init == stream = <<>> /\ sealed = TRUE

Open == sealed /\ sealed' = FALSE /\ stream' = <<>>

Put ==
  /\ ~sealed
  /\ \E p \in Pictures :
       /\ stream # <<>> => p = stream[1][1]
       /\ stream' = Append(stream, <<p, Len(stream)>>)
  /\ UNCHANGED sealed

Seal == ~sealed /\ sealed' = TRUE /\ UNCHANGED stream

Next == Open \/ Put \/ Seal

Safety == Init /\ [][Next]_sinkVars

=============================================================================
