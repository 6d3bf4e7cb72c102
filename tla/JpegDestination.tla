---------------------------- MODULE JpegDestination ----------------------------
(***************************************************************************)
(* The destination manager of camera.c and the two ways libjpeg writes     *)
(* through it: the marker writer moves next_output_byte and free_in_buffer *)
(* themselves (jcmarker.c), the entropy coder moves copies of them while   *)
(* it encodes an MCU and stores them back at its end (jchuff.c).  A byte   *)
(* is the picture it belongs to and its place in it.  The capacity of      *)
(* dest_jpeg is not looked at by the code: pictures that fit are assumed.  *)
(***************************************************************************)
EXTENDS Naturals, Sequences

CONSTANTS
  OUTPUT_BUF_SIZE,
  Capacity,          \* bytes of dest_jpeg, and bound on the bytes of a picture
  Pictures

ASSUME DestinationAssumption ==
  /\ OUTPUT_BUF_SIZE \in Nat \ {0}
  /\ Capacity \in Nat

VARIABLES
  coding,      \* "off", "marker" or "mcu": who writes
  picture,     \* history: the picture being encoded
  emitted,     \* history: how many of its bytes libjpeg has put
  pub,         \* next_output_byte (an offset in buffer) and free_in_buffer
  work,        \* the copies the entropy coder moves
  buffer,
  outbuffer,   \* dest_jpeg
  cursor,      \* outbuffer_cursor, as an offset
  written

destVars == <<coding, picture, emitted, pub, work, buffer, outbuffer, cursor,
              written>>

Offsets == 0 .. OUTPUT_BUF_SIZE - 1
Empty == [next |-> 0, free |-> OUTPUT_BUF_SIZE]
Byte(i) == <<picture, i>>

DestInit ==
  /\ coding = "off"
  /\ picture \in Pictures
  /\ emitted = 0
  /\ pub = Empty /\ work = Empty
  /\ buffer = [i \in Offsets |-> <<picture, 0>>]
  /\ outbuffer = [i \in 0 .. Capacity - 1 |-> <<picture, 0>>]
  /\ cursor = 0
  /\ written = 0

\* dest_jpeg once n bytes of b were copied to the cursor.
Copied(b, n) ==
  [i \in 0 .. Capacity - 1 |->
     IF i \in cursor .. cursor + n - 1 THEN b[i - cursor] ELSE outbuffer[i]]

-----------------------------------------------------------------------------

\* dest_buffer, and init_destination, which jpeg_start_compress calls.  What the
\* fresh buffer holds does not matter.
InitDestination(p) ==
  /\ coding = "off"
  /\ coding' = "marker"
  /\ picture' = p
  /\ emitted' = 0
  /\ pub' = Empty
  /\ cursor' = 0
  /\ written' = 0
  /\ UNCHANGED <<work, buffer, outbuffer>>

\* MUTANT: the part of the buffer libjpeg says is in use, as in term_destination.
EmptyOutputBuffer_InUse(b) ==
  /\ outbuffer' = Copied(b, OUTPUT_BUF_SIZE - pub.free)
  /\ cursor' = cursor + OUTPUT_BUF_SIZE - pub.free
  /\ written' = written + OUTPUT_BUF_SIZE - pub.free
  /\ pub' = Empty

\* empty_output_buffer: all of the buffer, whatever free_in_buffer says, since
\* the entropy coder has moved copies and left pub behind.
EmptyOutputBuffer(b) ==
  /\ outbuffer' = Copied(b, OUTPUT_BUF_SIZE)
  /\ cursor' = cursor + OUTPUT_BUF_SIZE
  /\ written' = written + OUTPUT_BUF_SIZE
  /\ pub' = Empty

\* Emit the next byte at position at: the new buffer, and whether it is full.
Filled(at) == [buffer EXCEPT ![at.next] = Byte(emitted)]
Advance(at) == [next |-> at.next + 1, free |-> at.free - 1]

\* emit_byte of the marker writer.
EmitByte ==
  /\ coding = "marker"
  /\ emitted < Capacity
  /\ emitted' = emitted + 1
  /\ buffer' = Filled(pub)
  /\ \/ /\ pub.free = 1
        /\ EmptyOutputBuffer(buffer')
     \/ /\ pub.free # 1
        /\ pub' = Advance(pub)
        /\ UNCHANGED <<outbuffer, cursor, written>>
  /\ UNCHANGED <<coding, picture, work>>

\* encode_mcu_huff loads the working state; the file header was written before.
EnterMCU ==
  /\ coding = "marker"
  /\ emitted > 0
  /\ coding' = "mcu"
  /\ work' = pub
  /\ UNCHANGED <<picture, emitted, pub, buffer, outbuffer, cursor, written>>

\* emit_byte_s and dump_buffer_s, which takes over the buffer it gets back.
EmitByteS ==
  /\ coding = "mcu"
  /\ emitted < Capacity
  /\ emitted' = emitted + 1
  /\ buffer' = Filled(work)
  /\ \/ /\ work.free = 1
        /\ EmptyOutputBuffer(buffer')
        /\ work' = pub'
     \/ /\ work.free # 1
        /\ work' = Advance(work)
        /\ UNCHANGED <<pub, outbuffer, cursor, written>>
  /\ UNCHANGED <<coding, picture>>

\* The end of encode_mcu_huff: the working state is stored back.
LeaveMCU ==
  /\ coding = "mcu"
  /\ coding' = "marker"
  /\ pub' = work
  /\ UNCHANGED <<picture, emitted, work, buffer, outbuffer, cursor, written>>

\* MUTANT: the bytes still in the buffer are left there.
TermDestination_Forgets ==
  /\ coding = "marker"
  /\ emitted > 0
  /\ coding' = "off"
  /\ UNCHANGED <<picture, emitted, pub, work, buffer, outbuffer, cursor, written>>

\* term_destination: the bytes still in the buffer.
TermDestination ==
  /\ coding = "marker"
  /\ emitted > 0
  /\ coding' = "off"
  /\ LET datacount == OUTPUT_BUF_SIZE - pub.free
     IN  /\ outbuffer' = Copied(buffer, datacount)
         /\ cursor' = cursor + datacount
         /\ written' = written + datacount
  /\ UNCHANGED <<picture, emitted, pub, work, buffer>>

Encode == EmitByte \/ EnterMCU \/ EmitByteS \/ LeaveMCU

DestNext == TermDestination \/ Encode \/ \E p \in Pictures : InitDestination(p)

DestSpec == DestInit /\ [][DestNext]_destVars

-----------------------------------------------------------------------------
(* Properties *)

Positions == [next : Offsets, free : 1 .. OUTPUT_BUF_SIZE]

\* The position that counts: the entropy coder's while it is encoding an MCU.
At == IF coding = "mcu" THEN work ELSE pub

DestTypeOK ==
  /\ coding \in {"off", "marker", "mcu"}
  /\ picture \in Pictures
  /\ emitted \in 0 .. Capacity
  /\ pub \in Positions /\ work \in Positions
  /\ buffer \in [Offsets -> Pictures \X Nat]
  /\ outbuffer \in [0 .. Capacity - 1 -> Pictures \X Nat]
  /\ cursor \in 0 .. Capacity /\ written \in 0 .. Capacity

\* The bytes put so far are those before the cursor and those before the position
\* in the buffer; no byte of an earlier picture is among them, and dest_jpeg and
\* *written agree on the first ones.
Accounted ==
  /\ written = cursor
  /\ At.next + At.free = OUTPUT_BUF_SIZE
  /\ \A i \in 0 .. cursor - 1 : outbuffer[i] = Byte(i)
  /\ coding = "off" => emitted = cursor
  /\ coding # "off" =>
       /\ emitted = cursor + At.next
       /\ \A i \in 0 .. At.next - 1 : buffer[i] = Byte(cursor + i)

\* The inductive invariant of the destination manager.
DestInv == DestTypeOK /\ Accounted

\* The picture as the caller of libjpeg finds it: written bytes of dest_jpeg.
stream ==
  IF coding = "off" THEN [i \in 1 .. written |-> outbuffer[i - 1]]
  ELSE [i \in 1 .. cursor + At.next |->
          IF i <= cursor THEN outbuffer[i - 1] ELSE buffer[i - 1 - cursor]]

\* The destination manager is a byte sink (camera.c:55-81), whatever the size of
\* its buffer and wherever in an MCU the buffer fills up.
Sink == INSTANCE ByteSink WITH
  Pictures <- Pictures, stream <- stream, sealed <- (coding = "off")
SinkSafety == Sink!Safety

=============================================================================
