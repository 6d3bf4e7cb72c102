-------------------------------- MODULE Camera --------------------------------
(***************************************************************************)
(* The camera of camera.c, as the picture thread drives it: the V4L2       *)
(* buffers that go round between the driver and get_send_buffer, the copy  *)
(* into src_jpeg, the compression through the destination manager, and the *)
(* packet header and picture put together in send_buffer.  The driver      *)
(* (external) fills the buffers it was given in turn, and drops what it    *)
(* captures while it has none.                                             *)
(***************************************************************************)
EXTENDS JpegDestination

CONSTANTS
  MaxBuffers,    \* v4l2_reqbuf.count as it is asked for
  LastPicture    \* pictures are numbered 0 .. LastPicture, then again from 0

ASSUME CameraAssumption ==
  /\ MaxBuffers \in Nat \ {0}
  /\ LastPicture \in Nat /\ LastPicture > MaxBuffers
  /\ Pictures = 0 .. LastPicture

VARIABLES
  stage,         \* where the picture thread is
  reqbuf_count,  \* v4l2_reqbuf.count as the driver grants it; 0 before
  queued,        \* buffers given to the driver, oldest first
  filling,       \* the buffer it is writing, or 0
  done,          \* buffers it has filled, oldest first
  memory,        \* the picture in each buffer, or Torn
  newest,        \* history: the last picture captured; LastPicture before
  held,          \* v4l2_buf.index and current_buffer, or 0
  src_jpeg,      \* the picture copied from the buffer
  send_buffer    \* the length its header states, and the bytes after it

driverVars == <<reqbuf_count, queued, filling, done, memory, newest>>
cameraThread == <<stage, held, src_jpeg, send_buffer>>
cameraVars == <<destVars, driverVars, cameraThread>>

Stages == {"setup", "idle", "select", "dequeue", "copy", "convert", "compress",
        "frame", "requeue", "exited", "aborted"}

Buffers == 1 .. MaxBuffers
After(p) == IF p = LastPicture THEN 0 ELSE p + 1
Torn == LastPicture + 1

CameraInit ==
  /\ DestInit
  /\ picture = 0
  /\ stage = "setup"
  /\ reqbuf_count = 0
  /\ queued = <<>> /\ done = <<>>
  /\ filling = 0 /\ held = 0
  /\ memory = [b \in Buffers |-> Torn]
  /\ newest = LastPicture
  /\ src_jpeg = Torn
  /\ send_buffer = [head |-> 0, body |-> <<>>]

-----------------------------------------------------------------------------
(* The picture thread *)

\* A call to the driver fails, or memory is short at the start: the process ends.
Fail ==
  /\ stage \in {"setup", "select", "dequeue", "requeue"}
  /\ stage' = "exited"
  /\ UNCHANGED <<destVars, driverVars, held, src_jpeg, send_buffer>>

\* No memory for a line, or an error of libjpeg: the process ends with a picture
\* in its hands that nobody will see.
CompressFails ==
  /\ stage \in {"convert", "compress"}
  /\ stage' = "aborted"
  /\ UNCHANGED <<destVars, driverVars, held, src_jpeg, send_buffer>>

\* init_video_device and ready_for_capture: the driver may grant fewer buffers,
\* all of them are queued, and capture begins.
InitVideoDevice ==
  /\ stage = "setup"
  /\ reqbuf_count' \in Buffers
  /\ queued' = [i \in 1 .. reqbuf_count' |-> i]
  /\ stage' = "idle"
  /\ UNCHANGED <<destVars, filling, done, memory, newest, held, src_jpeg,
                 send_buffer>>

GetSendBuffer ==
  /\ stage = "idle"
  /\ stage' = "select"
  /\ UNCHANGED <<destVars, driverVars, held, src_jpeg, send_buffer>>

\* select() returns with a picture or after two seconds without: both are taken
\* for the same.
Select ==
  /\ stage = "select"
  /\ stage' = "dequeue"
  /\ UNCHANGED <<destVars, driverVars, held, src_jpeg, send_buffer>>

\* MUTANT: the buffer is given back before it is copied.
Dequeue_GivesBack ==
  /\ stage = "dequeue"
  /\ done # <<>>
  /\ held' = Head(done)
  /\ done' = Tail(done)
  /\ queued' = Append(queued, held')
  /\ stage' = "copy"
  /\ UNCHANGED <<destVars, reqbuf_count, filling, memory, newest, src_jpeg,
                 send_buffer>>

\* VIDIOC_DQBUF waits for a filled buffer.
Dequeue ==
  /\ stage = "dequeue"
  /\ done # <<>>
  /\ held' = Head(done)
  /\ done' = Tail(done)
  /\ stage' = "copy"
  /\ UNCHANGED <<destVars, reqbuf_count, queued, filling, memory, newest, src_jpeg,
                 send_buffer>>

\* memcpy(src_jpeg, current_buffer.start, current_buffer.length).
CopyPicture ==
  /\ stage = "copy"
  /\ src_jpeg' = memory[held]
  /\ stage' = "convert"
  /\ UNCHANGED <<destVars, driverVars, held, send_buffer>>

\* dest_buffer and jpeg_start_compress.
StartCompress ==
  /\ stage = "convert"
  /\ InitDestination(src_jpeg)
  /\ stage' = "compress"
  /\ UNCHANGED <<driverVars, held, src_jpeg, send_buffer>>

\* The scan lines converted and encoded, as far as the destination sees them.
Compress ==
  /\ stage = "compress"
  /\ Encode
  /\ UNCHANGED <<driverVars, cameraThread>>

FinishCompress ==
  /\ stage = "compress"
  /\ TermDestination
  /\ stage' = "frame"
  /\ UNCHANGED <<driverVars, held, src_jpeg, send_buffer>>

\* The header and the picture; more than 9999999 bytes, which line 162 refuses,
\* do not fit dest_jpeg in the first place.
Frame ==
  /\ stage = "frame"
  /\ send_buffer' = [head |-> written,
                     body |-> [i \in 1 .. written |-> outbuffer[i - 1]]]
  /\ stage' = "requeue"
  /\ UNCHANGED <<destVars, driverVars, held, src_jpeg>>

\* MUTANT: the buffer is not given back.
Requeue_Forgets ==
  /\ stage = "requeue"
  /\ held' = 0
  /\ stage' = "idle"
  /\ UNCHANGED <<destVars, driverVars, src_jpeg, send_buffer>>

\* MUTANT: v4l2_buf was cleared in between, and names the first buffer.
Requeue_First ==
  /\ stage = "requeue"
  /\ queued' = Append(queued, 1)
  /\ held' = 0
  /\ stage' = "idle"
  /\ UNCHANGED <<destVars, reqbuf_count, filling, done, memory, newest, src_jpeg,
                 send_buffer>>

\* VIDIOC_QBUF of the same buffer.
Requeue ==
  /\ stage = "requeue"
  /\ queued' = Append(queued, held)
  /\ held' = 0
  /\ stage' = "idle"
  /\ UNCHANGED <<destVars, reqbuf_count, filling, done, memory, newest, src_jpeg,
                 send_buffer>>

Work == Select \/ Dequeue \/ CopyPicture \/ StartCompress \/ Compress
          \/ FinishCompress \/ Frame \/ Requeue

CameraThread == InitVideoDevice \/ GetSendBuffer \/ Work \/ Fail
                  \/ CompressFails

-----------------------------------------------------------------------------
(* The driver *)

FillBegin ==
  /\ filling = 0
  /\ queued # <<>>
  /\ filling' = Head(queued)
  /\ queued' = Tail(queued)
  /\ memory' = [memory EXCEPT ![filling'] = Torn]
  /\ UNCHANGED <<destVars, cameraThread, reqbuf_count, done, newest>>

FillEnd ==
  /\ filling # 0
  /\ newest' = After(newest)
  /\ memory' = [memory EXCEPT ![filling] = newest']
  /\ done' = Append(done, filling)
  /\ filling' = 0
  /\ UNCHANGED <<destVars, cameraThread, reqbuf_count, queued>>

Driver == stage \notin {"exited", "aborted"} /\ (FillBegin \/ FillEnd)

CameraNext == CameraThread \/ Driver

CameraSpec == CameraInit /\ [][CameraNext]_cameraVars

\* The thread is scheduled, the camera streams, and a picture has finitely many
\* MCUs, so that its last one comes.
CameraFairSpec == CameraSpec /\ WF_cameraVars(Work) /\ WF_cameraVars(Driver) /\ SF_cameraVars(FinishCompress)

-----------------------------------------------------------------------------
(* Properties *)

Photos == 0 .. LastPicture

CameraTypeOK ==
  /\ stage \in Stages
  /\ reqbuf_count \in 0 .. MaxBuffers
  /\ queued \in Seq(Buffers) /\ done \in Seq(Buffers)
  /\ filling \in 0 .. MaxBuffers /\ held \in 0 .. MaxBuffers
  /\ memory \in [Buffers -> Photos \cup {Torn}]
  /\ newest \in Photos
  /\ src_jpeg \in Photos \cup {Torn}

HoldsBuffer ==
  stage \in {"copy", "convert", "compress", "frame", "requeue", "aborted"}

\* Every buffer is in one place: with the driver to be filled, with it filled, or with the
\* thread, which gives back the very buffer it took (camera.c:317-328).
BuffersGoRound ==
  /\ \A i, j \in 1 .. Len(queued) : queued[i] = queued[j] => i = j
  /\ \A i, j \in 1 .. Len(done) : done[i] = done[j] => i = j
  /\ \A i \in 1 .. Len(queued), j \in 1 .. Len(done) : queued[i] # done[j]
  /\ \A i \in 1 .. Len(queued) : queued[i] # filling /\ queued[i] # held
  /\ \A i \in 1 .. Len(done) : done[i] # filling /\ done[i] # held
  /\ filling # 0 => filling # held
  /\ HoldsBuffer => held # 0
  /\ stage \in {"setup", "idle", "select", "dequeue"} => held = 0

\* As many buffers are in those places as the driver granted: none is made up and
\* none is lost, and there is one at least once capture has begun.
InPlace == Len(queued) + Len(done) + (IF filling = 0 THEN 0 ELSE 1)
             + (IF held = 0 THEN 0 ELSE 1)
BuffersConserved ==
  /\ InPlace = reqbuf_count
  /\ stage = "setup" => reqbuf_count = 0
  /\ stage \notin {"setup", "exited"} => reqbuf_count > 0

\* No picture the thread may still look at is being written by the driver, and the
\* picture being encoded is the one in src_jpeg.
PicturesWhole ==
  /\ \A i \in 1 .. Len(done) : memory[done[i]] # Torn
  /\ stage = "copy" => memory[held] # Torn
  /\ stage \in {"convert", "compress", "frame"} => src_jpeg # Torn
  /\ stage = "compress" => coding # "off"
  /\ coding # "off" => stage \in {"compress", "aborted"}
  /\ stage \in {"compress", "frame"} => picture = src_jpeg
  /\ stage = "frame" => written > 0

\* The pictures captured and not yet in send_buffer, oldest first: the one the
\* thread is working on, or was when the process ended, and those in the filled
\* buffers.
Working ==
  CASE stage = "copy" -> <<memory[held]>>
    [] stage \in {"convert", "compress", "frame", "aborted"} -> <<src_jpeg>>
    [] OTHER -> <<>>
line == Working \o [i \in 1 .. Len(done) |-> memory[done[i]]]

\* What the client will be shown: the picture every byte of send_buffer is of,
\* where the header states how many there are.
shown ==
  IF send_buffer.body = <<>> THEN LastPicture
  ELSE LET p == send_buffer.body[1][1]
       IN  IF send_buffer = [head |-> Len(send_buffer.body),
                             body |-> [i \in 1 .. send_buffer.head |-> <<p, i - 1>>]]
           THEN p ELSE Torn

\* The newest picture is the last of the line, or the one shown.
NewestLast == newest = IF line = <<>> THEN shown ELSE line[Len(line)]

\* The inductive invariant of the camera.
CameraInv == CameraTypeOK /\ DestInv /\ BuffersGoRound /\ BuffersConserved
               /\ PicturesWhole /\ NewestLast

\* get_send_buffer is a frame source: whole pictures, in the order of capture, none
\* skipped or shown twice, at most MaxBuffers of them old; so no buffer is read while
\* the driver writes it and no byte of an earlier picture is left in dest_jpeg.
Source == INSTANCE FrameSource WITH
  MaxBuffers <- MaxBuffers, LastPicture <- LastPicture, line <- line,
  shown <- shown
SourceSafety == Source!Safety

\* A call of get_send_buffer returns or the program ends: a buffer is always with the driver
\* while the thread waits for one, however many were granted.
CallReturns == (stage = "select") ~> (stage \in {"idle", "exited", "aborted"})

=============================================================================
