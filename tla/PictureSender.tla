---------------------------- MODULE PictureSender ----------------------------
(***************************************************************************)
(* The picture thread: socket_send of tcpserver.c, run by picture_send of  *)
(* main.c.  It serves one client at a time on port 8888: while cFlag is 0  *)
(* it takes a frame from the camera and sends it in packets of PACKET      *)
(* bytes.  cFlag is written by the console thread and read here without a  *)
(* lock.  The camera is reduced to the number and length of the frame it   *)
(* leaves in send_buffer; a socket to what send() may return.              *)
(***************************************************************************)
EXTENDS Integers

CONSTANTS
  PACKET,      \* bytes per send() of a frame that is longer
  Lens,        \* the values send_buffer.length can have
  LastFrame,   \* frames are numbered 0 .. LastFrame, then again from 0
  MaxBacklog,  \* bound: connections waiting to be accepted
  Console,     \* the keys the operator may press, among "s" and "r"
  Interrupts   \* may a stop signal cut a send() short on a live connection?

ASSUME SenderAssumption ==
  /\ PACKET \in Nat \ {0}
  /\ Lens \subseteq Nat \ {0}
  /\ LastFrame \in Nat
  /\ MaxBacklog \in Nat
  /\ Console \subseteq {"s", "r"}
  /\ Interrupts \in BOOLEAN

VARIABLES
  pc,                  \* where the thread is
  cFlag,               \* 0: frames may be sent
  hoisted,             \* does this build read cFlag only once while it waits?
  flag_peer_shutdown,
  frame,               \* the frame in send_buffer
  length,              \* p_jpeg->length
  wait,
  sended,
  peer,                \* the accepted connection: "none", "up" or "down"
  backlog,             \* clients connected but not yet accepted
  seg,                 \* history: the last run of bytes the connection took
  late                 \* history: frames captured since cFlag became 1

threadVars == <<flag_peer_shutdown, frame, length, wait, sended>>
vars == <<pc, cFlag, hoisted, threadVars, peer, backlog, seg, late>>

PCs == {"start", "accept", "poll", "spin", "grab", "packets", "rest", "close",
        "exited"}

FrameIds == 0 .. LastFrame
NextFrame(f) == IF f = LastFrame THEN 0 ELSE f + 1

-----------------------------------------------------------------------------
(***************************************************************************)
(* The socket.  A send() of n bytes on a live connection takes them all,   *)
(* or takes the first k and finds the connection broken (or, with          *)
(* Interrupts, is stopped by a signal); on a broken one it returns -1.     *)
(***************************************************************************)
SendOutcomes(n) ==
  IF peer = "down"
  THEN {[ret |-> -1, peer |-> "down"]}
  ELSE {[ret |-> n, peer |-> "up"]}
         \cup [ret : 1 .. n - 1, peer : IF Interrupts THEN {"up", "down"}
                                                      ELSE {"down"}]

\* What the connection has taken once ret bytes from p_jpeg->start + sended
\* are accepted.
Accepted(ret) == [frame |-> frame, from |-> sended, to |-> sended + ret,
                  len |-> length]

Init ==
  /\ pc = "start"
  /\ cFlag = 0
  /\ hoisted \in BOOLEAN
  /\ flag_peer_shutdown = 1
  /\ frame = 0 /\ length = 0 /\ wait = 0 /\ sended = 0
  /\ peer = "none"
  /\ backlog = 0
  /\ seg = [frame |-> 0, from |-> 0, to |-> 0, len |-> 0]
  /\ late = 0

-----------------------------------------------------------------------------
(* The thread *)

\* init_video_device, ready_for_capture, socket, bind and listen: any of them
\* may fail and end the process.
Setup ==
  /\ pc = "start"
  /\ pc' \in {"accept", "exited"}
  /\ UNCHANGED <<cFlag, hoisted, threadVars, peer, backlog, seg, late>>

\* accept() returns the oldest waiting connection, which its client may have
\* left by now; an error ends the process.
Accept ==
  /\ pc = "accept"
  /\ \/ /\ backlog > 0
        /\ backlog' = backlog - 1
        /\ peer' \in {"up", "down"}
        /\ flag_peer_shutdown' = 0
        /\ seg' = [frame |-> frame, from |-> 0, to |-> 0, len |-> 0]
        /\ pc' = "poll"
     \/ /\ pc' = "exited"
        /\ UNCHANGED <<backlog, peer, flag_peer_shutdown, seg>>
  /\ UNCHANGED <<cFlag, hoisted, frame, length, wait, sended, late>>

\* MUTANT: the sense of the flag is inverted.
Poll_Inverted ==
  /\ pc = "poll"
  /\ cFlag = 1 /\ pc' = "grab"
  /\ UNCHANGED <<cFlag, hoisted, threadVars, peer, backlog, seg, late>>

\* if (cFlag == 0).  Nothing in the loop writes cFlag and nothing else is in
\* the loop while it is not 0, so an optimised build may keep the value it
\* read first and spin on it; one that does not reads it again.
Poll ==
  /\ pc = "poll"
  /\ \/ cFlag = 0 /\ pc' = "grab"
     \/ cFlag # 0 /\ hoisted /\ pc' = "spin"
  /\ UNCHANGED <<cFlag, hoisted, threadVars, peer, backlog, seg, late>>

\* while (wait > PACKET): is there a whole packet and more to send?
LoopHead(w) == IF w > PACKET THEN "packets" ELSE "rest"

\* MUTANT: the offset of the last frame is kept for the next one.
Grab_KeepsOffset ==
  /\ pc = "grab"
  /\ frame' = NextFrame(frame)
  /\ length' \in Lens
  /\ pc' = LoopHead(length')
  /\ wait' = length'
  /\ late' = IF cFlag = 1 /\ late < 2 THEN late + 1 ELSE late
  /\ UNCHANGED <<cFlag, hoisted, flag_peer_shutdown, sended, peer, backlog, seg>>

\* get_send_buffer: a new frame in send_buffer, or the end of the process.
Grab ==
  /\ pc = "grab"
  /\ \/ /\ frame' = NextFrame(frame)
        /\ length' \in Lens
        /\ pc' = LoopHead(length')
        /\ wait' = length'
        /\ sended' = 0
        /\ late' = IF cFlag = 1 /\ late < 2 THEN late + 1 ELSE late
     \/ /\ pc' = "exited"
        /\ UNCHANGED <<frame, length, wait, sended, late>>
  /\ UNCHANGED <<cFlag, hoisted, flag_peer_shutdown, peer, backlog, seg>>

\* MUTANT: a full packet is counted whatever send() took.
SendPacket_CountsPacket ==
  /\ pc = "packets"
  /\ \E r \in SendOutcomes(PACKET) :
       /\ peer' = r.peer
       /\ \/ /\ r.ret = -1
             /\ flag_peer_shutdown' = 1
             /\ pc' = "rest"
             /\ UNCHANGED <<wait, sended, seg>>
          \/ /\ r.ret # -1
             /\ sended' = sended + r.ret
             /\ wait' = wait - PACKET
             /\ seg' = Accepted(r.ret)
             /\ pc' = LoopHead(wait')
             /\ UNCHANGED flag_peer_shutdown
  /\ UNCHANGED <<cFlag, hoisted, frame, length, backlog, late>>

\* One round of while (wait > PACKET); a failed send() leaves the loop.
SendPacket ==
  /\ pc = "packets"
  /\ \E r \in SendOutcomes(PACKET) :
       /\ peer' = r.peer
       /\ \/ /\ r.ret = -1
             /\ flag_peer_shutdown' = 1
             /\ pc' = "rest"
             /\ UNCHANGED <<wait, sended, seg>>
          \/ /\ r.ret # -1
             /\ sended' = sended + r.ret
             /\ wait' = wait - r.ret
             /\ seg' = Accepted(r.ret)
             /\ pc' = LoopHead(wait')
             /\ UNCHANGED flag_peer_shutdown
  /\ UNCHANGED <<cFlag, hoisted, frame, length, backlog, late>>

\* if (1 == flag_peer_shutdown) break, after the packets.
GiveUp ==
  /\ pc = "rest"
  /\ flag_peer_shutdown = 1
  /\ pc' = "close"
  /\ UNCHANGED <<cFlag, hoisted, threadVars, peer, backlog, seg, late>>

\* MUTANT: cFlag is not read again after a frame.
SendRest_NoPoll ==
  /\ pc = "rest"
  /\ flag_peer_shutdown # 1
  /\ \E r \in SendOutcomes(wait) :
       /\ peer' = r.peer
       /\ \/ r.ret = -1 /\ flag_peer_shutdown' = 1 /\ pc' = "close" /\ UNCHANGED seg
          \/ /\ r.ret # -1 /\ seg' = Accepted(r.ret) /\ pc' = "grab"
             /\ UNCHANGED flag_peer_shutdown
  /\ UNCHANGED <<cFlag, hoisted, frame, length, wait, sended, backlog, late>>

\* MUTANT: a failed send() of the rest does not end the connection.
SendRest_IgnoresError ==
  /\ pc = "rest"
  /\ flag_peer_shutdown # 1
  /\ \E r \in SendOutcomes(wait) :
       /\ peer' = r.peer
       /\ seg' = IF r.ret = -1 THEN seg ELSE Accepted(r.ret)
  /\ pc' = "poll"
  /\ UNCHANGED <<cFlag, hoisted, flag_peer_shutdown, frame, length, wait, sended,
                 backlog, late>>

\* The rest of the frame, and the 50 ms nap before cFlag is read again.  The
\* number of bytes taken is not looked at, only whether it is -1.
SendRest ==
  /\ pc = "rest"
  /\ flag_peer_shutdown # 1
  /\ \E r \in SendOutcomes(wait) :
       /\ peer' = r.peer
       /\ \/ /\ r.ret = -1
             /\ flag_peer_shutdown' = 1
             /\ pc' = "close"
             /\ UNCHANGED seg
          \/ /\ r.ret # -1
             /\ seg' = Accepted(r.ret)
             /\ pc' = "poll"
             /\ UNCHANGED flag_peer_shutdown
  /\ UNCHANGED <<cFlag, hoisted, frame, length, wait, sended, backlog, late>>

CloseConnection ==
  /\ pc = "close"
  /\ peer' = "none"
  /\ pc' = "accept"
  /\ UNCHANGED <<cFlag, hoisted, threadVars, backlog, seg, late>>

Thread == Setup \/ Accept \/ Poll \/ Grab \/ SendPacket \/ GiveUp
            \/ SendRest \/ CloseConnection

-----------------------------------------------------------------------------
(* Its surroundings: the console thread and the clients *)

\* Key 's': stop the pictures.
ConsoleStop ==
  /\ "s" \in Console
  /\ pc # "exited"
  /\ cFlag' = 1
  /\ late' = IF cFlag = 0 THEN 0 ELSE late
  /\ UNCHANGED <<pc, hoisted, threadVars, peer, backlog, seg>>

\* Key 'r': let them flow again.
ConsoleStart ==
  /\ "r" \in Console
  /\ pc # "exited"
  /\ cFlag' = 0
  /\ UNCHANGED <<pc, hoisted, threadVars, peer, backlog, seg, late>>

Connect ==
  /\ pc \notin {"start", "exited"}
  /\ backlog < MaxBacklog
  /\ backlog' = backlog + 1
  /\ UNCHANGED <<pc, cFlag, hoisted, threadVars, peer, seg, late>>

\* The client being served goes away, and the socket has learnt of it.
PeerLeaves ==
  /\ peer = "up"
  /\ pc # "exited"
  /\ peer' = "down"
  /\ UNCHANGED <<pc, cFlag, hoisted, threadVars, backlog, seg, late>>

Environment == ConsoleStop \/ ConsoleStart \/ Connect \/ PeerLeaves

Next == Thread \/ Environment

Spec == Init /\ [][Next]_vars

\* The thread is scheduled.  A send() that has to wait returns when the client
\* reads or goes away, and a camera that streams delivers a frame: neither
\* the operator nor a client owes anybody anything else.
FairSpec == Spec /\ WF_vars(Thread)

-----------------------------------------------------------------------------
(* Properties *)

TypeOK ==
  /\ pc \in PCs
  /\ cFlag \in {0, 1}
  /\ hoisted \in BOOLEAN
  /\ flag_peer_shutdown \in {0, 1}
  /\ frame \in FrameIds
  /\ length \in Lens \cup {0}
  /\ wait \in Nat /\ sended \in Nat
  /\ peer \in {"none", "up", "down"}
  /\ backlog \in 0 .. MaxBacklog
  /\ seg \in [frame : FrameIds, from : Nat, to : Nat, len : Lens \cup {0}]
  /\ late \in 0 .. 2

\* Pausing takes effect within one frame: after the operator sets cFlag to 1 at
\* most the one frame is still captured that was decided on before
\* (tcpserver.c:206 reads the flag before every frame, and only there).
PauseWithinOneFrame == cFlag = 1 => late <= 1

\* While a frame is being sent, the bytes before sended and the wait bytes after
\* it are the whole frame, and the loop leaves at least one byte for the rest:
\* the two updates of tcpserver.c:221-222 and the strict bound of line 214.
FrameAccounting ==
  pc \in {"packets", "rest"} =>
    /\ length \in Lens
    /\ sended + wait = length
    /\ wait > 0
    /\ pc = "packets" => wait > PACKET
    /\ pc = "rest" /\ flag_peer_shutdown # 1 => wait <= PACKET

\* Between frames the frame in send_buffer is the last one the connection took
\* bytes of; while one is sent it is that one, or the next if none were taken.
FramePosition ==
  /\ pc \in {"start", "poll", "spin", "grab"} => frame = seg.frame
  /\ pc \in {"packets", "rest"} =>
       frame = IF sended = 0 THEN NextFrame(seg.frame) ELSE seg.frame
  /\ frame \in {seg.frame, NextFrame(seg.frame)}

\* A live connection is at a frame boundary between frames, and at sended
\* within one.
StreamPosition ==
  peer = "up" =>
    /\ pc \in {"poll", "spin", "grab"} => seg.to = seg.len
    /\ pc \in {"packets", "rest"} =>
         IF sended = 0 THEN seg.to = seg.len
                       ELSE seg.to = sended /\ seg.len = length

\* A connection is held exactly while the thread serves it, and is known to be
\* broken whenever flag_peer_shutdown says so.
ConnectionHeld ==
  /\ pc \in {"start", "accept"} => peer = "none"
  /\ pc \in {"poll", "spin", "grab", "packets", "rest", "close"} => peer # "none"
  /\ pc = "close" \/ (pc = "rest" /\ flag_peer_shutdown = 1) => peer = "down"
  /\ pc \in {"poll", "spin", "grab", "packets"} => flag_peer_shutdown = 0

\* A frame decided on before the pause is still to come only if none came yet.
PausePosition == cFlag = 1 => late <= (IF pc = "grab" THEN 0 ELSE 1)

\* The inductive invariant behind PauseWithinOneFrame and FeedSafety: the
\* position in the buffer, in the stream and in the numbering of the frames
\* agree at every step of socket_send.
SenderInv == TypeOK /\ FrameAccounting /\ FramePosition /\ StreamPosition
               /\ ConnectionHeld /\ PausePosition

\* The connection as its client sees it.
link == CASE pc = "exited" -> "down"
          [] peer = "up" -> "open"
          [] peer = "down" -> "lost"
          [] OTHER -> "idle"

\* socket_send keeps the promise of the picture port: whole frames in order on
\* every connection, whatever the packet and frame lengths, and however
\* connections break in the middle of a packet.
Feed == INSTANCE PictureFeed WITH
  Lens <- Lens, LastFrame <- LastFrame, link <- link, seg <- seg
FeedSafety == Feed!Safety

\* Nobody holds the pictures back any more.
Released == cFlag = 0 /\ pc # "spin"

\* Once pictures are allowed for good, a client that is gone is given up, in
\* whatever part of a frame it went (tcpserver.c:216-219, :226 and :229-232).
FeedLiveness == <>[]Released => Feed!Fairness

\* Once pictures are allowed for good, frames keep being captured for a client
\* that stays (tcpserver.c:206-208).
FramesFlow ==
  <>[](Released /\ peer = "up" /\ pc # "exited") => []<>(pc = "grab")

=============================================================================
