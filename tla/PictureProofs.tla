---------------------------- MODULE PictureProofs ----------------------------
(***************************************************************************)
(* Theorems about the pictures on their way from the camera to a client:   *)
(* the picture thread, for every packet size, every set of frame lengths   *)
(* and any number of waiting clients; JpegDestination and Camera, for      *)
(* every size of the output buffer, of a picture and of the ring of        *)
(* capture buffers: the destination manager by itself, then the ring, then *)
(* the whole camera as a frame source.                                     *)
(***************************************************************************)
EXTENDS PictureSender, Camera, SequenceTheorems, FiniteSetTheorems, TLAPS

(***************************************************************************)
(* What a send() may return: at most what it was given and, when nothing   *)
(* interrupts it, fewer bytes only if the connection breaks.               *)
(***************************************************************************)
LEMMA SendOutcomeBounds ==
  ASSUME NEW n \in Nat \ {0}, NEW r \in SendOutcomes(n),
         peer \in {"none", "up", "down"}
  PROVE  /\ r.ret \in Int
         /\ r.peer \in {"up", "down"}
         /\ r.ret # -1 => peer # "down" /\ r.ret \in 1 .. n
         /\ r.ret = -1 => peer = "down" /\ r.peer = "down"
         /\ ~Interrupts /\ r.peer = "up" => r.ret = n
  BY SenderAssumption DEF SendOutcomes

(***************************************************************************)
(* The position after the first bytes of a frame.                          *)
(***************************************************************************)
LEMMA ZeroPlus ==
  ASSUME NEW n \in Nat
  PROVE  0 + n = n
  OBVIOUS

(***************************************************************************)
(* The number of the next frame is a frame number.                         *)
(***************************************************************************)
LEMMA NextFrameType ==
  ASSUME NEW f \in FrameIds
  PROVE  NextFrame(f) \in FrameIds
  BY SenderAssumption DEF FrameIds, NextFrame

(***************************************************************************)
(* The invariant of socket_send holds initially.                           *)
(***************************************************************************)
LEMMA SenderInvInit == Init => SenderInv
  BY SenderAssumption
  DEF Init, SenderInv, TypeOK, PCs, FrameIds, NextFrame, FrameAccounting,
      FramePosition, StreamPosition, ConnectionHeld, PausePosition

(***************************************************************************)
(* The invariant is kept by every step.  The parts about the stream need   *)
(* sends that nothing interrupts, hence the assumption; it is only used    *)
(* where SendRest records its bytes.                                       *)
(***************************************************************************)
LEMMA SenderInvStep ==
  ASSUME ~Interrupts, SenderInv, [Next]_vars
  PROVE  SenderInv'
<1> USE SenderAssumption
    DEF SenderInv, TypeOK, PCs, FrameAccounting, FramePosition, StreamPosition,
        ConnectionHeld, PausePosition
<1>0. seg.frame \in FrameIds /\ NextFrame(frame) \in FrameIds
        /\ NextFrame(seg.frame) \in FrameIds
  BY NextFrameType
<1>1. CASE Setup
  BY <1>1 DEF Setup, threadVars
<1>2. CASE Accept
  BY <1>2 DEF Accept
<1>3. CASE Poll
  BY <1>3 DEF Poll, threadVars
<1>4. CASE Grab
  <2>1. CASE pc' = "exited"
    BY <1>4, <2>1, <1>0 DEF Grab, LoopHead
  <2>2. CASE pc' # "exited"
    <3>1. /\ pc = "grab"
          /\ frame' = NextFrame(frame)
          /\ length' \in Lens
          /\ pc' = LoopHead(length')
          /\ wait' = length'
          /\ sended' = 0
          /\ late' = IF cFlag = 1 /\ late < 2 THEN late + 1 ELSE late
          /\ UNCHANGED <<cFlag, hoisted, flag_peer_shutdown, peer, backlog, seg>>
      BY <1>4, <2>2 DEF Grab
    <3>2. /\ length' \in Nat \ {0}
          /\ pc' \in {"packets", "rest"}
          /\ pc' = "packets" <=> wait' > PACKET
      BY <3>1 DEF LoopHead
    <3>3. TypeOK'
      BY <1>0, <3>1, <3>2
    <3>4. FramePosition' /\ StreamPosition'
      BY <1>0, <3>1, <3>2
    <3>5. FrameAccounting'
      <4>1. sended' + wait' = length'
        BY <3>1, <3>2, ZeroPlus
      <4>2. length' \in Lens /\ wait' > 0
        BY <3>1, <3>2
      <4>3. pc' = "rest" => wait' <= PACKET
        BY <3>1, <3>2
      <4> QED
        BY <3>2, <4>1, <4>2, <4>3
    <3>6. ConnectionHeld'
      BY <3>1, <3>2
    <3>7. PausePosition'
      BY <3>1, <3>2
    <3> QED
      BY <3>3, <3>4, <3>5, <3>6, <3>7
  <2> QED
    BY <2>1, <2>2
<1>5. CASE SendPacket
  <2>1. PICK r \in SendOutcomes(PACKET) :
          /\ peer' = r.peer
          /\ \/ /\ r.ret = -1
                /\ flag_peer_shutdown' = 1
                /\ pc' = "rest"
                /\ UNCHANGED <<wait, sended, seg>>
             \/ /\ r.ret # -1
                /\ sended' = sended + r.ret
                /\ wait' = wait - r.ret
                /\ seg' = Accepted(r.ret)
                /\ pc' = LoopHead(wait')
                /\ UNCHANGED flag_peer_shutdown
    BY <1>5 DEF SendPacket
  <2>2. /\ pc = "packets"
        /\ UNCHANGED <<cFlag, hoisted, frame, length, backlog, late>>
    BY <1>5 DEF SendPacket
  <2>3. /\ r.peer \in {"up", "down"}
        /\ r.ret # -1 => peer # "down" /\ r.ret \in 1 .. PACKET
        /\ r.ret = -1 => peer = "down" /\ r.peer = "down"
        /\ r.peer = "up" => r.ret = PACKET
    BY SendOutcomeBounds
  <2>4. CASE r.ret = -1
    BY <2>1, <2>2, <2>3, <2>4
  <2>5. CASE r.ret # -1
    BY <1>0, <2>1, <2>2, <2>3, <2>5 DEF Accepted, LoopHead
  <2> QED
    BY <2>4, <2>5
<1>6. CASE GiveUp
  BY <1>0, <1>6 DEF GiveUp, threadVars
<1>7. CASE SendRest
  <2>1. PICK r \in SendOutcomes(wait) :
          /\ peer' = r.peer
          /\ \/ /\ r.ret = -1
                /\ flag_peer_shutdown' = 1
                /\ pc' = "close"
                /\ UNCHANGED seg
             \/ /\ r.ret # -1
                /\ seg' = Accepted(r.ret)
                /\ pc' = "poll"
                /\ UNCHANGED flag_peer_shutdown
    BY <1>7 DEF SendRest
  <2>2. /\ pc = "rest"
        /\ flag_peer_shutdown # 1
        /\ UNCHANGED <<cFlag, hoisted, frame, length, wait, sended, backlog, late>>
    BY <1>7 DEF SendRest
  <2>3. /\ r.peer \in {"up", "down"}
        /\ r.ret # -1 => peer # "down" /\ r.ret \in 1 .. wait
        /\ r.ret = -1 => peer = "down" /\ r.peer = "down"
        /\ r.peer = "up" => r.ret = wait
    BY <2>2, SendOutcomeBounds
  <2>4. CASE r.ret = -1
    BY <1>0, <2>1, <2>2, <2>3, <2>4
  <2>5. CASE r.ret # -1
    BY <1>0, <2>1, <2>2, <2>3, <2>5 DEF Accepted
  <2> QED
    BY <2>4, <2>5
<1>8. CASE CloseConnection
  BY <1>8 DEF CloseConnection, threadVars
<1>9. CASE ConsoleStop
  BY <1>9 DEF ConsoleStop, threadVars
<1>10. CASE ConsoleStart
  BY <1>10 DEF ConsoleStart, threadVars
<1>11. CASE Connect
  BY <1>11 DEF Connect, threadVars
<1>12. CASE PeerLeaves
  BY <1>12 DEF PeerLeaves, threadVars
<1>13. CASE UNCHANGED vars
  BY <1>13 DEF vars, threadVars
<1> QED
  BY <1>1, <1>2, <1>3, <1>4, <1>5, <1>6, <1>7, <1>8, <1>9, <1>10, <1>11, <1>12,
     <1>13
  DEF Next, Thread, Environment

(***************************************************************************)
(* The position in the buffer, in the stream and in the numbering of the   *)
(* frames agree in every reachable state of socket_send.                   *)
(***************************************************************************)
THEOREM SenderInvariant ==
  ASSUME ~Interrupts
  PROVE  Spec => []SenderInv
<1>1. SenderInv /\ [Next]_vars => SenderInv'
  BY SenderInvStep
<1> QED
  BY SenderInvInit, <1>1, PTL DEF Spec

(***************************************************************************)
(* A pause lets at most the frame already decided on go out                *)
(* (tcpserver.c:206), however the console and the thread interleave.       *)
(***************************************************************************)
THEOREM PauseTakesEffect ==
  ASSUME ~Interrupts
  PROVE  Spec => []PauseWithinOneFrame
<1>1. SenderInv => PauseWithinOneFrame
  BY DEF SenderInv, TypeOK, PausePosition, PauseWithinOneFrame
<1> QED
  BY SenderInvariant, <1>1, PTL

-----------------------------------------------------------------------------
(***************************************************************************)
(* Bytes a live connection takes from send_buffer go on with the frame the *)
(* feed is in, or start the next one at a frame boundary.                  *)
(***************************************************************************)
LEMMA FeedDelivers ==
  ASSUME SenderInv, peer = "up", pc \in {"packets", "rest"},
         NEW k \in 1 .. wait,
         seg' = Accepted(k)
  PROVE  Feed!Continue \/ Feed!Start
<1> USE SenderAssumption DEF SenderInv, TypeOK, FrameAccounting, FramePosition,
        StreamPosition
<1>1. /\ length \in Lens /\ length \in Nat /\ wait \in Nat /\ sended \in Nat
      /\ sended + wait = length
      /\ k \in 1 .. length - sended
  OBVIOUS
<1>3. CASE sended = 0
  <2>1. seg.to = seg.len /\ frame = NextFrame(seg.frame)
    BY <1>3
  <2>2. seg' = [frame |-> NextFrame(seg.frame), from |-> 0, to |-> k, len |-> length]
    BY <1>1, <1>3, <2>1, ZeroPlus DEF Accepted
  <2>3. k \in 1 .. length
    BY <1>1, <1>3
  <2> QED
    BY <1>1, <2>1, <2>2, <2>3 DEF Feed!Start, Feed!NextFrame, NextFrame
<1>4. CASE sended # 0
  <2>1. seg.to = sended /\ seg.len = length /\ frame = seg.frame
    BY <1>4
  <2>2. seg' = [frame |-> seg.frame, from |-> seg.to, to |-> seg.to + k,
                len |-> seg.len]
    BY <2>1 DEF Accepted
  <2>3. seg.to < seg.len /\ k \in 1 .. seg.len - seg.to
    BY <1>1, <2>1
  <2> QED
    BY <2>2, <2>3 DEF Feed!Continue
<1> QED
  BY <1>3, <1>4

(***************************************************************************)
(* Every step of the picture thread, of the operator or of a client is a   *)
(* step of PictureFeed or leaves its variables alone.                      *)
(***************************************************************************)
LEMMA FeedStep ==
  ASSUME SenderInv, [Next]_vars
  PROVE  [Feed!Next]_(Feed!feedVars)
<1> USE DEF Feed!feedVars, link
<1>0. /\ pc \in PCs /\ peer \in {"none", "up", "down"}
      /\ pc \in {"start", "accept"} => peer = "none"
      /\ pc \in {"poll", "spin", "grab", "packets", "rest", "close"} => peer # "none"
      /\ pc = "close" => peer = "down"
      /\ frame \in {seg.frame, NextFrame(seg.frame)}
  BY DEF SenderInv, TypeOK, ConnectionHeld, FramePosition
<1>1. CASE Setup
  BY <1>0, <1>1 DEF Setup, threadVars, Feed!Next, Feed!Stop
<1>2. CASE Accept
  <2>1. CASE pc' = "exited"
    BY <1>0, <1>2, <2>1 DEF Accept, Feed!Next, Feed!Stop
  <2>2. CASE pc' # "exited"
    BY <1>0, <1>2, <2>2
    DEF Accept, Feed!Next, Feed!Open, Feed!NoBytes, Feed!NextFrame, NextFrame
  <2> QED
    BY <2>1, <2>2
<1>3. CASE Poll
  BY <1>0, <1>3 DEF Poll, threadVars
<1>4. CASE Grab
  BY <1>0, <1>4 DEF Grab, LoopHead, Feed!Next, Feed!Stop
<1>5. CASE SendPacket
  <2>1. PICK r \in SendOutcomes(PACKET) :
          /\ peer' = r.peer
          /\ \/ r.ret = -1 /\ pc' = "rest" /\ UNCHANGED seg
             \/ r.ret # -1 /\ seg' = Accepted(r.ret) /\ pc' = LoopHead(wait')
    BY <1>5 DEF SendPacket
  <2>2. pc = "packets" /\ PACKET < wait
    BY <1>5, SenderAssumption DEF SendPacket, SenderInv, TypeOK, FrameAccounting
  <2>3. /\ r.ret \in Int /\ r.peer \in {"up", "down"}
        /\ r.ret # -1 => peer # "down" /\ r.ret \in 1 .. PACKET
        /\ r.ret = -1 => peer = "down" /\ r.peer = "down"
    BY <1>0, SendOutcomeBounds, SenderAssumption
  <2>4. CASE r.ret = -1
    BY <2>1, <2>2, <2>3, <2>4
  <2>5. CASE r.ret # -1
    <3>1. peer = "up" /\ r.ret \in 1 .. wait
      BY <1>0, <2>2, <2>3, <2>5, SenderAssumption DEF SenderInv, TypeOK
    <3>2. Feed!Continue \/ Feed!Start
      BY <2>1, <2>2, <2>5, <3>1, FeedDelivers
    <3>3. pc' # "exited"
      BY <2>1, <2>5 DEF LoopHead
    <3> QED
      BY <2>1, <2>2, <2>3, <3>1, <3>2, <3>3 DEF Feed!Next, Feed!Deliver
  <2> QED
    BY <2>4, <2>5
<1>6. CASE GiveUp
  BY <1>0, <1>6 DEF GiveUp, threadVars
<1>7. CASE SendRest
  <2>1. PICK r \in SendOutcomes(wait) :
          /\ peer' = r.peer
          /\ \/ r.ret = -1 /\ pc' = "close" /\ UNCHANGED seg
             \/ r.ret # -1 /\ seg' = Accepted(r.ret) /\ pc' = "poll"
    BY <1>7 DEF SendRest
  <2>2. pc = "rest" /\ wait \in Nat \ {0}
    BY <1>7, SenderAssumption DEF SendRest, SenderInv, TypeOK, FrameAccounting
  <2>3. /\ r.ret \in Int /\ r.peer \in {"up", "down"}
        /\ r.ret # -1 => peer # "down" /\ r.ret \in 1 .. wait
        /\ r.ret = -1 => peer = "down" /\ r.peer = "down"
    BY <1>0, <2>2, SendOutcomeBounds
  <2>4. CASE r.ret = -1
    BY <2>1, <2>2, <2>3, <2>4
  <2>5. CASE r.ret # -1
    <3>1. peer = "up"
      BY <1>0, <2>2, <2>3, <2>5
    <3>2. Feed!Continue \/ Feed!Start
      BY <2>1, <2>2, <2>3, <2>5, <3>1, FeedDelivers
    <3> QED
      BY <2>1, <2>2, <2>3, <2>5, <3>1, <3>2 DEF Feed!Next, Feed!Deliver
  <2> QED
    BY <2>4, <2>5
<1>8. CASE CloseConnection
  BY <1>0, <1>8 DEF CloseConnection, threadVars, Feed!Next, Feed!Close
<1>9. CASE ConsoleStop
  BY <1>9 DEF ConsoleStop, threadVars
<1>10. CASE ConsoleStart
  BY <1>10 DEF ConsoleStart, threadVars
<1>11. CASE Connect
  BY <1>11 DEF Connect, threadVars
<1>12. CASE PeerLeaves
  BY <1>12 DEF PeerLeaves, threadVars, Feed!Next, Feed!Lose
<1>13. CASE UNCHANGED vars
  BY <1>13 DEF vars, threadVars
<1> QED
  BY <1>1, <1>2, <1>3, <1>4, <1>5, <1>6, <1>7, <1>8, <1>9, <1>10, <1>11, <1>12,
     <1>13
  DEF Next, Thread, Environment

(***************************************************************************)
(* socket_send implements the safety part of PictureFeed: on every         *)
(* connection whole frames in order, cut short only by its loss, for every *)
(* packet size and every set of frame lengths.                             *)
(***************************************************************************)
THEOREM SenderImplementsFeed ==
  ASSUME ~Interrupts
  PROVE  Spec => FeedSafety
<1>1. Init => Feed!Init
  BY SenderAssumption
  DEF Init, Feed!Init, Feed!FrameIds, Feed!NoBytes, link
<1>2. SenderInv /\ [Next]_vars => [Feed!Next]_(Feed!feedVars)
  BY FeedStep
<1> QED
  BY SenderInvariant, <1>1, <1>2, PTL DEF Spec, FeedSafety, Feed!Safety

-----------------------------------------------------------------------------
USE DestinationAssumption

-----------------------------------------------------------------------------
(* The destination manager *)

\* What the positions and the counters are once the next byte is put at position at.
LEMMA DestInitial == DestInit => DestInv
BY SMT DEF DestInit, DestInv, DestTypeOK, Accounted, Positions, Empty, Offsets, At

LEMMA PositionTypes ==
  ASSUME DestInv
  PROVE  /\ At \in Positions
         /\ At.next \in Nat /\ At.free \in Nat
         /\ At.next + At.free = OUTPUT_BUF_SIZE /\ At.free > 0
<1>1. At \in Positions
  BY DEF DestInv, DestTypeOK, At
<1>2. At.next + At.free = OUTPUT_BUF_SIZE
  BY DEF DestInv, Accounted
<1> QED BY <1>1, <1>2 DEF Positions, Offsets

LEMMA ByteTypes ==
  ASSUME DestInv, NEW i \in Nat
  PROVE  Byte(i) \in Pictures \X Nat
BY DEF DestInv, DestTypeOK, Byte

\* One byte more in the buffer: the bytes before it stay.
LEMMA PutKeeps ==
  ASSUME DestInv, coding # "off", emitted < Capacity, buffer' = Filled(At)
  PROVE  /\ buffer' \in [Offsets -> Pictures \X Nat]
         /\ \A i \in 0 .. At.next : buffer'[i] = Byte(cursor + i)
<1>1. /\ emitted \in Nat /\ cursor \in Nat /\ emitted = cursor + At.next
      /\ \A i \in 0 .. At.next - 1 : buffer[i] = Byte(cursor + i)
  BY DEF DestInv, DestTypeOK, Accounted
<1>6. \A i \in 0 .. At.next : i \in Offsets
  BY PositionTypes DEF Offsets
<1>2. Byte(emitted) \in Pictures \X Nat
  BY <1>1, ByteTypes
<1>3. /\ buffer \in [Offsets -> Pictures \X Nat]
      /\ buffer' = [buffer EXCEPT ![At.next] = Byte(emitted)]
  BY DEF DestInv, DestTypeOK, Filled
<1> HIDE DEF Offsets, Byte
<1>4. buffer' \in [Offsets -> Pictures \X Nat]
  BY <1>1, <1>2, <1>3, <1>6, PositionTypes
<1>5. ASSUME NEW i \in 0 .. At.next PROVE buffer'[i] = Byte(cursor + i)
  <2>1. CASE i = At.next
    BY <1>1, <1>3, <1>6, <2>1
  <2>2. CASE i # At.next
    <3>1. i \in 0 .. At.next - 1
      BY <1>1, <2>2, PositionTypes
    <3>2. i \in Offsets /\ buffer[i] = Byte(cursor + i)
      BY <1>1, <1>6, <3>1
    <3> QED BY <1>3, <2>2, <3>2
  <2> QED BY <2>1, <2>2
<1> QED BY <1>4, <1>5

\* Copying n bytes of the picture behind those already in dest_jpeg.
LEMMA CopyKeeps ==
  ASSUME DestInv, NEW n \in 0 .. OUTPUT_BUF_SIZE, cursor + n <= Capacity,
         NEW b \in [Offsets -> Pictures \X Nat],
         \A i \in 0 .. n - 1 : b[i] = Byte(cursor + i)
  PROVE  /\ Copied(b, n) \in [0 .. Capacity - 1 -> Pictures \X Nat]
         /\ \A i \in 0 .. cursor + n - 1 : Copied(b, n)[i] = Byte(i)
<1>1. /\ cursor \in Nat /\ outbuffer \in [0 .. Capacity - 1 -> Pictures \X Nat]
      /\ \A i \in 0 .. cursor - 1 : outbuffer[i] = Byte(i)
  BY DEF DestInv, DestTypeOK, Accounted
<1>2. ASSUME NEW i \in cursor .. cursor + n - 1
      PROVE  i - cursor \in Offsets /\ b[i - cursor] = Byte(i)
  <2>1. i - cursor \in 0 .. n - 1 /\ cursor + (i - cursor) = i
    BY <1>1
  <2> QED BY <2>1 DEF Offsets
<1> HIDE DEF Byte
<1>3. Copied(b, n) \in [0 .. Capacity - 1 -> Pictures \X Nat]
  BY <1>1, <1>2 DEF Copied
<1>4. ASSUME NEW i \in 0 .. cursor + n - 1 PROVE Copied(b, n)[i] = Byte(i)
  <2>1. i \in 0 .. Capacity - 1
    BY <1>1
  <2>2. CASE i < cursor
    BY <1>1, <2>1, <2>2 DEF Copied
  <2>3. CASE i >= cursor
    <3>1. i \in cursor .. cursor + n - 1
      BY <1>1, <2>3
    <3> QED BY <1>2, <2>1, <3>1 DEF Copied
  <2> QED BY <1>1, <2>2, <2>3
<1> QED BY <1>3, <1>4

\* A buffer that the next byte fills goes to dest_jpeg whole.
LEMMA EmptyKeeps ==
  ASSUME DestInv, coding # "off", emitted < Capacity, At.free = 1,
         buffer' = Filled(At), EmptyOutputBuffer(buffer')
  PROVE  /\ outbuffer' \in [0 .. Capacity - 1 -> Pictures \X Nat]
         /\ cursor' = emitted + 1 /\ written' = emitted + 1
         /\ \A i \in 0 .. emitted : outbuffer'[i] = Byte(i)
<1>1. /\ At.next = OUTPUT_BUF_SIZE - 1
      /\ emitted = cursor + OUTPUT_BUF_SIZE - 1
      /\ cursor \in Nat /\ written = cursor /\ emitted \in Nat
  <2>1. /\ emitted = cursor + At.next /\ written = cursor
        /\ cursor \in Nat /\ emitted \in Nat
    BY DEF DestInv, DestTypeOK, Accounted
  <2> QED BY <2>1, PositionTypes
<1>2. /\ cursor' = cursor + OUTPUT_BUF_SIZE /\ written' = written + OUTPUT_BUF_SIZE
      /\ outbuffer' = Copied(buffer', OUTPUT_BUF_SIZE)
  BY DEF EmptyOutputBuffer
<1>3. /\ buffer' \in [Offsets -> Pictures \X Nat]
      /\ \A i \in 0 .. OUTPUT_BUF_SIZE - 1 : buffer'[i] = Byte(cursor + i)
  BY <1>1, PutKeeps
<1>4. /\ OUTPUT_BUF_SIZE \in 0 .. OUTPUT_BUF_SIZE
      /\ cursor + OUTPUT_BUF_SIZE <= Capacity
  BY <1>1
<1> HIDE DEF Byte, Copied, Offsets
<1>5. /\ Copied(buffer', OUTPUT_BUF_SIZE) \in [0 .. Capacity - 1 -> Pictures \X Nat]
      /\ \A i \in 0 .. cursor + OUTPUT_BUF_SIZE - 1 :
           Copied(buffer', OUTPUT_BUF_SIZE)[i] = Byte(i)
  BY <1>3, <1>4, CopyKeeps
<1> QED BY <1>1, <1>2, <1>5

\* The invariant after a step within a picture, from what the step does to the
\* place that counts.
LEMMA Regained ==
  ASSUME DestInv, coding # "off", emitted < Capacity, picture' = picture,
         emitted' = emitted + 1, coding' = coding,
         NEW old \in Positions, NEW new \in Positions, At = old, At' = new,
         pub' \in Positions, work' \in Positions, buffer' = Filled(old),
         \/ new = Empty /\ old.free = 1 /\ EmptyOutputBuffer(buffer')
         \/ /\ new = Advance(old) /\ old.free # 1
            /\ outbuffer' = outbuffer /\ cursor' = cursor /\ written' = written
  PROVE  DestInv'
<1>0. \A i \in Nat : Byte(i)' = Byte(i)
  BY DEF Byte
<1>1. /\ emitted \in Nat /\ cursor \in Nat /\ written = cursor
      /\ emitted = cursor + old.next
  BY DEF DestInv, DestTypeOK, Accounted
<1>6. /\ picture \in Pictures /\ coding \in {"marker", "mcu"}
      /\ outbuffer \in [0 .. Capacity - 1 -> Pictures \X Nat]
  BY DEF DestInv, DestTypeOK, Accounted
<1>7. \A i \in 0 .. cursor - 1 : outbuffer[i] = Byte(i)
  BY DEF DestInv, Accounted
<1>2. /\ old.next \in Nat /\ old.free \in Nat
      /\ old.next + old.free = OUTPUT_BUF_SIZE
  BY PositionTypes
<1>3. /\ buffer' \in [Offsets -> Pictures \X Nat]
      /\ \A i \in 0 .. old.next : buffer'[i] = Byte(cursor + i)
  BY PutKeeps
<1>4. CASE new = Empty /\ old.free = 1 /\ EmptyOutputBuffer(buffer')
  <2>1. /\ new.next = 0 /\ new.free = OUTPUT_BUF_SIZE
    BY <1>4 DEF Empty
  <2>2. /\ outbuffer' \in [0 .. Capacity - 1 -> Pictures \X Nat]
        /\ cursor' = emitted + 1 /\ written' = emitted + 1
        /\ \A i \in 0 .. emitted : outbuffer'[i] = Byte(i)
    BY <1>4, EmptyKeeps
  <2>3. /\ emitted' \in 0 .. Capacity /\ cursor' \in 0 .. Capacity
        /\ written' \in 0 .. Capacity
    BY <1>1, <2>2
  <2>4. DestTypeOK'
    BY <1>3, <1>6, <2>2, <2>3 DEF DestTypeOK
  <2>5. \A i \in 0 .. cursor' - 1 : outbuffer'[i] = Byte(i)'
    BY <1>0, <1>1, <2>2
  <2>6. \A i \in 0 .. At'.next - 1 : buffer'[i] = Byte(cursor + i)'
    BY <2>1
  <2>7. Accounted'
    BY <1>6, <2>1, <2>2, <2>5, <2>6 DEF Accounted
  <2> QED BY <2>4, <2>7 DEF DestInv
<1>5. CASE /\ new = Advance(old) /\ old.free # 1
           /\ outbuffer' = outbuffer /\ cursor' = cursor /\ written' = written
  <2>1. new.next = old.next + 1 /\ new.free = old.free - 1
    BY <1>5 DEF Advance
  <2>2. \A i \in 0 .. new.next - 1 : buffer'[i] = Byte(cursor + i)
    BY <1>2, <1>3, <2>1
  <2>3. emitted' \in 0 .. Capacity /\ cursor' \in 0 .. Capacity
          /\ written' \in 0 .. Capacity
    BY <1>1, <1>2, <1>5
  <2>4. DestTypeOK'
    BY <1>3, <1>5, <1>6, <2>3 DEF DestTypeOK
  <2>5. new.next + new.free = OUTPUT_BUF_SIZE /\ emitted' = cursor' + new.next
    BY <1>1, <1>2, <1>5, <2>1
  <2>6. ASSUME NEW i \in 0 .. cursor' - 1 PROVE outbuffer'[i] = Byte(i)'
    <3>1. i \in 0 .. cursor - 1 /\ i \in Nat
      BY <1>1, <1>5
    <3>2. outbuffer'[i] = outbuffer[i] /\ outbuffer[i] = Byte(i)
      BY <1>5, <1>7, <3>1
    <3> QED BY <1>0, <3>1, <3>2
  <2>7. \A i \in 0 .. new.next - 1 : buffer'[i] = Byte(cursor + i)'
    <3> SUFFICES ASSUME NEW i \in 0 .. new.next - 1
                 PROVE  buffer'[i] = Byte(cursor + i)'
      OBVIOUS
    <3>1. i \in Nat /\ cursor + i \in Nat
      BY <1>1, <1>2, <2>1
    <3> QED BY <1>0, <1>5, <2>2, <3>1 DEF Byte
  <2>8. Accounted'
    <3>1. coding' # "off" /\ written' = cursor'
      BY <1>1, <1>5
    <3>2. \A i \in 0 .. cursor' - 1 : outbuffer'[i] = Byte(i)'
      BY <2>6
    <3>3. At'.next + At'.free = OUTPUT_BUF_SIZE /\ emitted' = cursor' + At'.next
      BY <2>5
    <3>4. \A i \in 0 .. At'.next - 1 : buffer'[i] = Byte(cursor + i)'
      BY <2>7
    <3> QED BY <3>1, <3>2, <3>3, <3>4 DEF Accounted
  <2> QED BY <2>4, <2>8 DEF DestInv
<1> QED BY <1>4, <1>5

LEMMA DestStep == DestInv /\ [DestNext]_destVars => DestInv'
<1> SUFFICES ASSUME DestInv, [DestNext]_destVars PROVE DestInv'
  OBVIOUS
<1>0. /\ DestTypeOK /\ Accounted /\ pub \in Positions /\ work \in Positions
      /\ At \in Positions
  BY DEF DestInv, DestTypeOK, At
<1>1. ASSUME NEW p \in Pictures, InitDestination(p) PROVE DestInv'
  BY <1>0, <1>1, SMTT(30) DEF InitDestination, DestInv, DestTypeOK, Accounted, Positions,
     Empty, Offsets, At
<1>2. CASE EmitByte
  <2>1. /\ coding = "marker" /\ coding' = coding /\ work' = work
        /\ At = pub /\ At' = pub' /\ buffer' = Filled(At)
    BY <1>2 DEF EmitByte, At
  <2>2. CASE pub.free = 1 /\ EmptyOutputBuffer(buffer')
    <3>1. pub' = Empty /\ pub' \in Positions
      BY <2>2 DEF EmptyOutputBuffer, Empty, Positions, Offsets
    <3> QED BY <1>0, <1>2, <2>1, <2>2, <3>1, PutKeeps, Regained DEF EmitByte
  <2>3. CASE pub.free # 1 /\ pub' = Advance(pub)
               /\ UNCHANGED <<outbuffer, cursor, written>>
    <3>1. pub' \in Positions
      BY <2>1, <2>3, PositionTypes DEF Advance, Positions, Offsets
    <3> QED BY <1>0, <1>2, <2>1, <2>3, <3>1, PutKeeps, Regained DEF EmitByte
  <2> QED BY <1>2, <2>2, <2>3 DEF EmitByte
<1>3. CASE EnterMCU
  BY <1>0, <1>3 DEF EnterMCU, DestInv, DestTypeOK, Accounted, At, Byte
<1>4. CASE EmitByteS
  <2>1. /\ coding = "mcu" /\ coding' = coding
        /\ At = work /\ At' = work' /\ buffer' = Filled(At)
    BY <1>4 DEF EmitByteS, At
  <2>2. CASE work.free = 1 /\ EmptyOutputBuffer(buffer') /\ work' = pub'
    <3>1. pub' = Empty /\ work' = Empty /\ Empty \in Positions
      BY <2>2 DEF EmptyOutputBuffer, Empty, Positions, Offsets
    <3> QED BY <1>0, <1>4, <2>1, <2>2, <3>1, PutKeeps, Regained DEF EmitByteS
  <2>3. CASE work.free # 1 /\ work' = Advance(work)
               /\ UNCHANGED <<pub, outbuffer, cursor, written>>
    <3>1. work' \in Positions
      BY <2>1, <2>3, PositionTypes DEF Advance, Positions, Offsets
    <3> QED BY <1>0, <1>4, <2>1, <2>3, <3>1, PutKeeps, Regained DEF EmitByteS
  <2> QED BY <1>4, <2>2, <2>3 DEF EmitByteS
<1>5. CASE LeaveMCU
  BY <1>0, <1>5 DEF LeaveMCU, DestInv, DestTypeOK, Accounted, At, Byte
<1>6. CASE TermDestination
  <2>1. /\ coding = "marker" /\ coding' = "off" /\ emitted' = emitted
        /\ picture' = picture /\ buffer' = buffer /\ pub' = pub /\ work' = work
        /\ At = pub /\ At' = pub /\ OUTPUT_BUF_SIZE - pub.free = pub.next
    BY <1>0, <1>6, PositionTypes DEF TermDestination, At
  <2>2. /\ emitted = cursor + pub.next /\ emitted \in 0 .. Capacity
        /\ pub.next \in 0 .. OUTPUT_BUF_SIZE /\ written = cursor
        /\ buffer \in [Offsets -> Pictures \X Nat]
        /\ \A i \in 0 .. pub.next - 1 : buffer[i] = Byte(cursor + i)
    BY <1>0, <2>1, PositionTypes, SMTT(30) DEF DestTypeOK, Accounted
  <2>3. /\ cursor' = emitted /\ written' = emitted
        /\ outbuffer' = Copied(buffer, pub.next)
    BY <1>6, <2>1, <2>2, SMTT(30) DEF TermDestination
  <2>4. /\ Copied(buffer, pub.next) \in [0 .. Capacity - 1 -> Pictures \X Nat]
        /\ \A i \in 0 .. cursor + pub.next - 1 : Copied(buffer, pub.next)[i] = Byte(i)
    BY <2>2, CopyKeeps
  <2>5. DestTypeOK'
    BY <1>0, <2>1, <2>2, <2>3, <2>4, SMTT(30) DEF DestTypeOK
  <2>6. \A i \in Nat : Byte(i)' = Byte(i)
    BY <2>1 DEF Byte
  <2>7. Accounted'
    <3>1. ASSUME NEW i \in 0 .. cursor' - 1 PROVE outbuffer'[i] = Byte(i)'
      <4>1. i \in 0 .. emitted - 1 /\ i \in Nat
        <5>1. cursor' = emitted /\ emitted \in Nat
          BY <2>2, <2>3
        <5> QED BY <5>1
      <4>2. \A j \in 0 .. emitted - 1 : Copied(buffer, pub.next)[j] = Byte(j)
        <5>1. /\ emitted = cursor + pub.next /\ emitted \in Nat
              /\ cursor \in Nat /\ pub.next \in Nat
          BY <1>0, <2>2 DEF DestTypeOK
        <5>2. ASSUME NEW j \in 0 .. emitted - 1
              PROVE  j \in 0 .. cursor + pub.next - 1
          BY <5>1
        <5> QED BY <2>4, <5>2
      <4> QED BY <2>3, <2>6, <4>1, <4>2
    <3>2. At'.next + At'.free = OUTPUT_BUF_SIZE
      BY <2>1, PositionTypes
    <3> QED BY <2>1, <2>3, <3>1, <3>2 DEF Accounted
  <2> QED BY <2>5, <2>7 DEF DestInv
<1>7. CASE UNCHANGED destVars
  BY <1>0, <1>7 DEF destVars, DestInv, DestTypeOK, Accounted, At, Byte
<1> QED BY <1>1, <1>2, <1>3, <1>4, <1>5, <1>6, <1>7 DEF DestNext, Encode

\* The bytes libjpeg put are accounted for at every step: none is lost, repeated
\* or left over from an earlier picture, whatever the size of the buffer.
THEOREM DestinationAccounts == DestSpec => []DestInv
BY DestInitial, DestStep, PTL DEF DestSpec

-----------------------------------------------------------------------------
(* It implements a byte sink *)

\* The first n bytes of picture p.
First(p, n) == [i \in 1 .. n |-> <<p, i - 1>>]

LEMMA FirstBytes ==
  ASSUME NEW p, NEW n \in Nat
  PROVE  /\ Len(First(p, n)) = n
         /\ First(p, 0) = <<>>
         /\ n > 0 => First(p, n) # <<>> /\ First(p, n)[1][1] = p
         /\ First(p, n + 1) = Append(First(p, n), <<p, n>>)
<1> DEFINE S == {p} \X Nat
<1>1. ASSUME NEW m \in Nat
      PROVE  /\ First(p, m) \in Seq(S) /\ Len(First(p, m)) = m
             /\ \A i \in 1 .. m : First(p, m)[i] = <<p, i - 1>>
  <2>1. First(p, m) \in [1 .. m -> S] /\ DOMAIN First(p, m) = 1 .. m
    BY DEF First
  <2>2. First(p, m) \in Seq(S)
    BY <2>1, SeqDef
  <2> HIDE DEF S
  <2>3. Len(First(p, m)) = m
    BY <2>1, <2>2, LenProperties
  <2> QED BY <2>2, <2>3 DEF First
<1>2. First(p, 0) = <<>>
  BY <1>1, EmptySeq
<1>3. ASSUME n > 0 PROVE First(p, n) # <<>> /\ First(p, n)[1][1] = p
  <2>1. 1 \in 1 .. n
    BY <1>3
  <2>2. First(p, n)[1] = <<p, 1 - 1>> /\ Len(First(p, n)) = n
    BY <1>1, <2>1
  <2> HIDE DEF First
  <2> QED BY <1>3, <2>2, EmptySeq
<1>4. First(p, n + 1) = Append(First(p, n), <<p, n>>)
  <2>1. <<p, n>> \in S
    OBVIOUS
  <2> HIDE DEF S, First
  <2>2. /\ Append(First(p, n), <<p, n>>) \in Seq(S)
        /\ Len(Append(First(p, n), <<p, n>>)) = n + 1
        /\ \A i \in 1 .. n : Append(First(p, n), <<p, n>>)[i] = First(p, n)[i]
        /\ Append(First(p, n), <<p, n>>)[n + 1] = <<p, n>>
    <3> DEFINE f == First(p, n)
    <3>1. f \in Seq(S) /\ Len(f) = n
      BY <1>1
    <3> HIDE DEF f
    <3>2. /\ Append(f, <<p, n>>) \in Seq(S) /\ Len(Append(f, <<p, n>>)) = n + 1
          /\ \A i \in 1 .. n : Append(f, <<p, n>>)[i] = f[i]
          /\ Append(f, <<p, n>>)[n + 1] = <<p, n>>
      BY <2>1, <3>1, AppendProperties
    <3> QED BY <3>2 DEF f
  <2>3. /\ First(p, n + 1) \in Seq(S) /\ Len(First(p, n + 1)) = n + 1
    BY <1>1
  <2>4. ASSUME NEW i \in 1 .. n + 1
        PROVE  First(p, n + 1)[i] = Append(First(p, n), <<p, n>>)[i]
    <3>0. First(p, n + 1)[i] = <<p, i - 1>>
      BY DEF First
    <3>1. CASE i = n + 1
      BY <2>2, <3>0, <3>1
    <3>2. CASE i # n + 1
      <4>1. i \in 1 .. n
        BY <3>2
      <4>2. First(p, n)[i] = <<p, i - 1>>
        BY <1>1, <4>1
      <4> QED BY <2>2, <3>0, <4>1, <4>2
    <3> QED BY <3>1, <3>2
  <2> QED BY <2>2, <2>3, <2>4, SeqEqual
<1> QED BY <1>1, <1>2, <1>3, <1>4

\* What the caller of libjpeg would find is what libjpeg has put.
LEMMA StreamIs == DestInv => stream = First(picture, emitted)
<1> SUFFICES ASSUME DestInv PROVE stream = First(picture, emitted)
  OBVIOUS
<1>1. /\ cursor \in Nat /\ written = cursor /\ emitted \in Nat
      /\ coding = "off" => emitted = cursor
      /\ coding # "off" => emitted = cursor + At.next
  BY DEF DestInv, DestTypeOK, Accounted
<1>2. \A i \in 1 .. cursor : outbuffer[i - 1] = <<picture, i - 1>>
  BY <1>1 DEF DestInv, Accounted, Byte
<1>3. CASE coding = "off"
  BY <1>1, <1>2, <1>3 DEF stream, First
<1>4. CASE coding # "off"
  <2>1. \A i \in 0 .. At.next - 1 : buffer[i] = <<picture, cursor + i>>
    BY <1>4 DEF DestInv, Accounted, Byte
  <2>2. At.next \in Nat
    BY PositionTypes
  <2>3. ASSUME NEW i \in 1 .. emitted
        PROVE  (IF i <= cursor THEN outbuffer[i - 1] ELSE buffer[i - 1 - cursor])
                 = <<picture, i - 1>>
    <3>1. CASE i <= cursor
      BY <1>2, <3>1
    <3>2. CASE ~ (i <= cursor)
      <4>1. i - 1 - cursor \in 0 .. At.next - 1 /\ cursor + (i - 1 - cursor) = i - 1
        BY <1>1, <1>4, <2>2, <3>2
      <4> QED BY <2>1, <3>2, <4>1
    <3> QED BY <3>1, <3>2
  <2> QED BY <1>1, <1>4, <2>3 DEF stream, First
<1> QED BY <1>3, <1>4

LEMMA StreamIsNext == (DestInv => stream = First(picture, emitted))'
BY StreamIs, PTL

\* What a step does to the picture and to the number of its bytes.
LEMMA DestMoves ==
  ASSUME DestInv, [DestNext]_destVars
  PROVE  \/ coding = "off" /\ coding' # "off" /\ emitted' = 0
         \/ /\ coding # "off" /\ coding' # "off"
            /\ picture' = picture /\ emitted' = emitted + 1
         \/ coding # "off" /\ coding' = "off" /\ UNCHANGED <<picture, emitted>>
         \/ /\ (coding = "off") = (coding' = "off")
            /\ UNCHANGED <<picture, emitted>>
BY DEF DestNext, Encode, InitDestination, EmitByte, EnterMCU, EmitByteS, LeaveMCU,
   TermDestination, destVars

\* The destination manager implements a byte sink, for every size of its buffer.
THEOREM DestinationIsSink == DestSpec => SinkSafety
<1>1. DestInit => Sink!Init
  <2> SUFFICES ASSUME DestInit PROVE Sink!Init
    OBVIOUS
  <2>1. stream = First(picture, 0) /\ coding = "off"
    BY DestInitial, StreamIs DEF DestInit
  <2> QED BY <2>1, FirstBytes DEF Sink!Init
<1>2. DestInv /\ DestInv' /\ [DestNext]_destVars => [Sink!Next]_(Sink!sinkVars)
  <2> SUFFICES ASSUME DestInv, DestInv', [DestNext]_destVars
               PROVE  [Sink!Next]_(Sink!sinkVars)
    OBVIOUS
  <2>1. stream = First(picture, emitted) /\ stream' = First(picture', emitted')
    BY StreamIs, StreamIsNext
  <2>2. emitted \in Nat /\ picture \in Pictures
    BY DEF DestInv, DestTypeOK
  <2>3. CASE coding = "off" /\ coding' # "off" /\ emitted' = 0
    <3>1. stream' = <<>>
      BY <2>1, <2>3, FirstBytes
    <3> QED BY <2>3, <3>1 DEF Sink!Next, Sink!Open
  <2>4. CASE /\ coding # "off" /\ coding' # "off"
             /\ picture' = picture /\ emitted' = emitted + 1
    <3>1. /\ stream' = Append(stream, <<picture, Len(stream)>>)
          /\ stream # <<>> => picture = stream[1][1]
      <4>1. stream' = Append(stream, <<picture, Len(stream)>>)
        BY <2>1, <2>2, <2>4, FirstBytes
      <4>2. CASE emitted = 0
        BY <2>1, <4>1, <4>2, FirstBytes
      <4>3. CASE emitted > 0
        BY <2>1, <2>2, <4>1, <4>3, FirstBytes
      <4> QED BY <2>2, <4>2, <4>3
    <3> QED BY <2>2, <2>4, <3>1 DEF Sink!Next, Sink!Put
  <2>5. CASE coding # "off" /\ coding' = "off" /\ UNCHANGED <<picture, emitted>>
    BY <2>1, <2>5 DEF Sink!Next, Sink!Seal
  <2>6. CASE /\ (coding = "off") = (coding' = "off")
             /\ UNCHANGED <<picture, emitted>>
    BY <2>1, <2>6 DEF Sink!sinkVars
  <2> QED BY <2>3, <2>4, <2>5, <2>6, DestMoves
<1> QED BY DestinationAccounts, <1>1, <1>2, PTL DEF DestSpec, SinkSafety, Sink!Safety

-----------------------------------------------------------------------------
(* The ring of capture buffers *)

Ring == CameraTypeOK /\ BuffersGoRound /\ BuffersConserved

\* Taking the oldest element of a sequence, and adding a new one.
LEMMA TakeOldest ==
  ASSUME NEW S, NEW s \in Seq(S), s # <<>>
  PROVE  /\ Tail(s) \in Seq(S) /\ Len(Tail(s)) = Len(s) - 1 /\ Len(s) \in Nat
         /\ Len(s) > 0 /\ s[1] = Head(s) /\ Head(s) \in S
         /\ \A i \in 1 .. Len(s) - 1 : Tail(s)[i] = s[i + 1]
BY HeadTailProperties, EmptySeq, LenProperties

LEMMA AddNewest ==
  ASSUME NEW S, NEW s \in Seq(S), NEW e \in S
  PROVE  /\ Append(s, e) \in Seq(S) /\ Len(Append(s, e)) = Len(s) + 1
         /\ Len(s) \in Nat
         /\ \A i \in 1 .. Len(s) : Append(s, e)[i] = s[i]
         /\ Append(s, e)[Len(s) + 1] = e
BY AppendProperties, LenProperties

LEMMA RingInitial == CameraInit => Ring
BY CameraAssumption, EmptySeq
   DEF CameraInit, Ring, CameraTypeOK, BuffersGoRound, BuffersConserved, InPlace,
       HoldsBuffer, Stages, Photos, Torn, Buffers

LEMMA RingStep == Ring /\ [CameraNext]_cameraVars => Ring'
<1> SUFFICES ASSUME Ring, [CameraNext]_cameraVars PROVE Ring'
  OBVIOUS
<1> USE CameraAssumption
<1>0. /\ CameraTypeOK /\ BuffersGoRound /\ BuffersConserved
      /\ queued \in Seq(Buffers) /\ done \in Seq(Buffers)
      /\ Len(queued) \in Nat /\ Len(done) \in Nat
  BY LenProperties DEF Ring, CameraTypeOK
<1>1. CASE Fail \/ CompressFails
  BY <1>0, <1>1 DEF Fail, CompressFails, driverVars, Ring, CameraTypeOK, BuffersGoRound,
     BuffersConserved, InPlace, HoldsBuffer, Stages
<1>2. CASE InitVideoDevice
  <2>1. PICK count \in Buffers :
          reqbuf_count' = count /\ queued' = [i \in 1 .. count |-> i]
    BY <1>2 DEF InitVideoDevice
  <2>2. /\ queued' \in Seq(Buffers) /\ Len(queued') = count
        /\ \A i \in 1 .. count : queued'[i] = i
    <3>1. queued' \in [1 .. count -> Buffers] /\ count \in Nat
      BY <2>1 DEF Buffers
    <3>2. queued' \in Seq(Buffers) /\ DOMAIN queued' = 1 .. count
      BY <3>1, SeqDef
    <3>3. Len(queued') = count
      BY <3>1, <3>2, LenProperties
    <3> QED BY <2>1, <3>2, <3>3
  <2>3. /\ stage = "setup" /\ stage' = "idle" /\ done' = done /\ filling' = filling
        /\ held' = held /\ memory' = memory /\ newest' = newest
        /\ src_jpeg' = src_jpeg
    BY <1>2 DEF InitVideoDevice
  <2>4. Len(done) = 0 /\ filling = 0 /\ held = 0
    BY <1>0, <2>3 DEF BuffersConserved, InPlace
  <2>5. CameraTypeOK'
    BY <1>0, <2>1, <2>2, <2>3 DEF CameraTypeOK, Stages, Buffers
  <2>6. BuffersGoRound'
    BY <2>2, <2>3, <2>4 DEF BuffersGoRound, HoldsBuffer, Buffers
  <2>7. BuffersConserved'
    BY <2>1, <2>2, <2>3, <2>4 DEF BuffersConserved, InPlace, Buffers
  <2> QED BY <2>5, <2>6, <2>7 DEF Ring
<1>3. CASE GetSendBuffer \/ Select
  BY <1>0, <1>3 DEF GetSendBuffer, Select, driverVars, Ring, CameraTypeOK,
     BuffersGoRound, BuffersConserved, InPlace, HoldsBuffer, Stages
<1>4. CASE Dequeue
  <2>1. /\ stage = "dequeue" /\ done # <<>> /\ held' = Head(done)
        /\ done' = Tail(done) /\ stage' = "copy"
        /\ UNCHANGED <<reqbuf_count, queued, filling, memory, newest, src_jpeg>>
    BY <1>4 DEF Dequeue
  <2>2. /\ done' \in Seq(Buffers) /\ Len(done') = Len(done) - 1 /\ Len(done) > 0
        /\ done[1] = held' /\ held' \in Buffers
        /\ \A i \in 1 .. Len(done) - 1 : done'[i] = done[i + 1]
    BY <1>0, <2>1, TakeOldest
  <2>3. held = 0
    BY <1>0, <2>1 DEF BuffersGoRound
  <2>4. CameraTypeOK'
    BY <1>0, <2>1, <2>2 DEF CameraTypeOK, Stages, Buffers
  <2>5. BuffersGoRound'
    <3>1. held' # 0 /\ held' # filling
      BY <1>0, <2>2 DEF BuffersGoRound, Buffers
    <3>2. \A i \in 1 .. Len(done') : i + 1 \in 1 .. Len(done) /\ done'[i] = done[i + 1]
      BY <1>0, <2>2
    <3>3. 1 \in 1 .. Len(done)
      BY <1>0, <2>2
    <3>4. \A i \in 1 .. Len(done') : done'[i] # held' /\ done'[i] # filling
      BY <1>0, <2>2, <3>2, <3>3 DEF BuffersGoRound
    <3>5. \A i, j \in 1 .. Len(done') : done'[i] = done'[j] => i = j
      BY <1>0, <2>2, <3>2 DEF BuffersGoRound
    <3>6. \A i \in 1 .. Len(queued) :
             /\ queued[i] # held' /\ queued[i] # filling
             /\ \A j \in 1 .. Len(done') : queued[i] # done'[j]
      BY <1>0, <2>2, <3>2, <3>3 DEF BuffersGoRound
    <3>7. \A i, j \in 1 .. Len(queued) : queued[i] = queued[j] => i = j
      BY <1>0 DEF BuffersGoRound
    <3> QED BY <2>1, <3>1, <3>4, <3>5, <3>6, <3>7 DEF BuffersGoRound, HoldsBuffer
  <2>6. BuffersConserved'
    <3>1. held' # 0
      BY <2>2 DEF Buffers
    <3>2. InPlace' = InPlace
      BY <1>0, <2>1, <2>2, <2>3, <3>1 DEF InPlace
    <3> QED BY <1>0, <2>1, <3>2 DEF BuffersConserved
  <2> QED BY <2>4, <2>5, <2>6 DEF Ring
<1>5. CASE CopyPicture
  <2>1. held \in Buffers
    BY <1>0, <1>5 DEF CopyPicture, BuffersGoRound, HoldsBuffer, CameraTypeOK, Buffers
  <2>2. memory[held] \in Photos \cup {Torn}
    BY <1>0, <2>1 DEF CameraTypeOK
  <2> QED BY <1>0, <1>5, <2>2 DEF CopyPicture, driverVars, Ring, CameraTypeOK,
          BuffersGoRound, BuffersConserved, InPlace, HoldsBuffer, Stages
<1>6. CASE StartCompress \/ Compress \/ FinishCompress \/ Frame
  <2>1. /\ UNCHANGED <<driverVars, held, src_jpeg>>
        /\ stage \in {"convert", "compress", "frame"}
        /\ stage' \in {"compress", "frame", "requeue"}
    BY <1>6 DEF StartCompress, Compress, FinishCompress, Frame, cameraThread
  <2> QED BY <1>0, <2>1 DEF driverVars, Ring, CameraTypeOK, BuffersGoRound,
          BuffersConserved, InPlace, HoldsBuffer, Stages
<1>7. CASE Requeue
  <2>1. /\ stage = "requeue" /\ queued' = Append(queued, held) /\ held' = 0
        /\ stage' = "idle"
        /\ UNCHANGED <<reqbuf_count, filling, done, memory, newest, src_jpeg>>
    BY <1>7 DEF Requeue
  <2>2. held # 0 /\ held \in Buffers
    BY <1>0, <2>1 DEF BuffersGoRound, HoldsBuffer, CameraTypeOK, Buffers
  <2>3. /\ queued' \in Seq(Buffers) /\ Len(queued') = Len(queued) + 1
        /\ \A i \in 1 .. Len(queued) : queued'[i] = queued[i]
        /\ queued'[Len(queued) + 1] = held
    BY <1>0, <2>1, <2>2, AddNewest
  <2>4. CameraTypeOK'
    BY <1>0, <2>1, <2>3 DEF CameraTypeOK, Stages
  <2>5. BuffersGoRound'
    <3>1. \A i \in 1 .. Len(queued') :
            \/ i \in 1 .. Len(queued) /\ queued'[i] = queued[i]
            \/ i = Len(queued) + 1 /\ queued'[i] = held
      BY <1>0, <2>3
    <3>2. \A i \in 1 .. Len(queued') :
            queued'[i] \in Buffers /\ queued'[i] # filling
      BY <1>0, <2>2, <3>1, ElementOfSeq DEF BuffersGoRound
    <3>3. \A i, j \in 1 .. Len(queued') : queued'[i] = queued'[j] => i = j
      BY <1>0, <3>1 DEF BuffersGoRound
    <3>4. \A i \in 1 .. Len(queued'), j \in 1 .. Len(done) : queued'[i] # done[j]
      BY <1>0, <3>1 DEF BuffersGoRound
    <3>5. \A i \in 1 .. Len(done) :
             done[i] \in Buffers /\ done[i] # filling
      BY <1>0, ElementOfSeq DEF BuffersGoRound
    <3>6. \A i, j \in 1 .. Len(done) : done[i] = done[j] => i = j
      BY <1>0 DEF BuffersGoRound
    <3> QED BY <2>1, <3>2, <3>3, <3>4, <3>5, <3>6
            DEF BuffersGoRound, HoldsBuffer, Buffers
  <2>6. BuffersConserved'
    <3>1. InPlace' = InPlace
      BY <1>0, <2>1, <2>2, <2>3 DEF InPlace
    <3> QED BY <1>0, <2>1, <3>1 DEF BuffersConserved
  <2> QED BY <2>4, <2>5, <2>6 DEF Ring
<1>8. CASE Driver /\ FillBegin
  <2>1. /\ stage \notin {"exited", "aborted"} /\ filling = 0 /\ queued # <<>>
        /\ filling' = Head(queued) /\ queued' = Tail(queued)
        /\ memory' = [memory EXCEPT ![filling'] = Torn]
        /\ UNCHANGED <<stage, reqbuf_count, held, src_jpeg, done, newest>>
    BY <1>8 DEF Driver, FillBegin, cameraThread
  <2>2. /\ queued' \in Seq(Buffers) /\ Len(queued') = Len(queued) - 1
        /\ Len(queued) > 0 /\ queued[1] = filling' /\ filling' \in Buffers
        /\ \A i \in 1 .. Len(queued) - 1 : queued'[i] = queued[i + 1]
    BY <1>0, <2>1, TakeOldest
  <2>3. CameraTypeOK'
    BY <1>0, <2>1, <2>2 DEF CameraTypeOK, Buffers
  <2>4. BuffersGoRound'
    <3>1. 1 \in 1 .. Len(queued) /\ filling' # 0
      BY <1>0, <2>2 DEF Buffers
    <3>2. \A i \in 1 .. Len(queued') :
             i + 1 \in 1 .. Len(queued) /\ queued'[i] = queued[i + 1]
      BY <1>0, <2>2
    <3>3. \A i \in 1 .. Len(queued') : queued'[i] # held /\ queued'[i] # filling'
      BY <1>0, <2>2, <3>1, <3>2 DEF BuffersGoRound
    <3>4. \A i, j \in 1 .. Len(queued') : queued'[i] = queued'[j] => i = j
      BY <1>0, <2>2, <3>2 DEF BuffersGoRound
    <3>5. \A i \in 1 .. Len(queued'), j \in 1 .. Len(done) : queued'[i] # done[j]
      BY <1>0, <3>2 DEF BuffersGoRound
    <3>6. \A i \in 1 .. Len(done) : done[i] # held /\ done[i] # filling'
      BY <1>0, <2>2, <3>1 DEF BuffersGoRound
    <3>7. filling' # held
      BY <1>0, <2>2, <3>1 DEF BuffersGoRound
    <3>8. \A i, j \in 1 .. Len(done) : done[i] = done[j] => i = j
      BY <1>0 DEF BuffersGoRound
    <3>9. /\ HoldsBuffer => held # 0
          /\ stage \in {"setup", "idle", "select", "dequeue"} => held = 0
      BY <1>0 DEF BuffersGoRound
    <3> QED BY <2>1, <3>3, <3>4, <3>5, <3>6, <3>7, <3>8, <3>9
            DEF BuffersGoRound, HoldsBuffer
  <2>5. BuffersConserved'
    <3>1. InPlace' = InPlace
      <4>1. /\ filling = 0 /\ filling' # 0 /\ Len(queued') = Len(queued) - 1
            /\ done' = done /\ held' = held
        BY <2>1, <2>2 DEF Buffers
      <4> QED BY <1>0, <4>1 DEF InPlace
    <3> QED BY <1>0, <2>1, <3>1 DEF BuffersConserved
  <2> QED BY <2>3, <2>4, <2>5 DEF Ring
<1>9. CASE Driver /\ FillEnd
  <2>1. /\ stage \notin {"exited", "aborted"} /\ filling # 0 /\ newest' = After(newest)
        /\ memory' = [memory EXCEPT ![filling] = newest']
        /\ done' = Append(done, filling) /\ filling' = 0
        /\ UNCHANGED <<stage, reqbuf_count, held, src_jpeg, queued>>
    BY <1>9 DEF Driver, FillEnd, cameraThread
  <2>2. filling \in Buffers /\ newest' \in Photos
    BY <1>0, <2>1 DEF CameraTypeOK, Buffers, Photos, After
  <2>3. /\ done' \in Seq(Buffers) /\ Len(done') = Len(done) + 1
        /\ \A i \in 1 .. Len(done) : done'[i] = done[i]
        /\ done'[Len(done) + 1] = filling
    BY <1>0, <2>1, <2>2, AddNewest
  <2>4. CameraTypeOK'
    BY <1>0, <2>1, <2>2, <2>3 DEF CameraTypeOK
  <2>5. BuffersGoRound'
    <3>1. \A i \in 1 .. Len(done') :
            \/ i \in 1 .. Len(done) /\ done'[i] = done[i]
            \/ i = Len(done) + 1 /\ done'[i] = filling
      BY <1>0, <2>3
    <3>2. \A i \in 1 .. Len(done') : done'[i] \in Buffers /\ done'[i] # held
      BY <1>0, <2>1, <2>2, <3>1, ElementOfSeq DEF BuffersGoRound
    <3>3. \A i, j \in 1 .. Len(done') : done'[i] = done'[j] => i = j
      BY <1>0, <3>1 DEF BuffersGoRound
    <3>4. \A i \in 1 .. Len(queued), j \in 1 .. Len(done') : queued[i] # done'[j]
      BY <1>0, <3>1 DEF BuffersGoRound
    <3>5. \A i \in 1 .. Len(queued) : queued[i] \in Buffers /\ queued[i] # held
      BY <1>0, ElementOfSeq DEF BuffersGoRound
    <3>6. \A i, j \in 1 .. Len(queued) : queued[i] = queued[j] => i = j
      BY <1>0 DEF BuffersGoRound
    <3>7. /\ HoldsBuffer => held # 0
          /\ stage \in {"setup", "idle", "select", "dequeue"} => held = 0
      BY <1>0 DEF BuffersGoRound
    <3> QED BY <2>1, <3>2, <3>3, <3>4, <3>5, <3>6, <3>7
            DEF BuffersGoRound, HoldsBuffer, Buffers
  <2>6. BuffersConserved'
    <3>1. InPlace' = InPlace
      BY <1>0, <2>1, <2>3 DEF InPlace
    <3> QED BY <1>0, <2>1, <3>1 DEF BuffersConserved
  <2> QED BY <2>4, <2>5, <2>6 DEF Ring
<1>10. CASE UNCHANGED cameraVars
  BY <1>0, <1>10 DEF cameraVars, cameraThread, driverVars, Ring, CameraTypeOK,
     BuffersGoRound, BuffersConserved, InPlace, HoldsBuffer
<1> QED BY <1>1, <1>2, <1>3, <1>4, <1>5, <1>6, <1>7, <1>8, <1>9, <1>10
        DEF CameraNext, CameraThread, Work, Driver

-----------------------------------------------------------------------------
(* The pictures in the ring, and the one being encoded *)

\* Every step of the camera is one of the destination manager, or leaves it alone:
\* what is encoded is a picture, never a torn one.
LEMMA CameraDrivesDestination ==
  Ring /\ PicturesWhole /\ [CameraNext]_cameraVars => [DestNext]_destVars
<1> SUFFICES ASSUME Ring, PicturesWhole, [CameraNext]_cameraVars PROVE [DestNext]_destVars
  OBVIOUS
<1>1. CASE StartCompress
  <2>1. src_jpeg \in Pictures
    BY <1>1, CameraAssumption
       DEF StartCompress, Ring, CameraTypeOK, PicturesWhole, Photos
  <2> QED BY <1>1, <2>1 DEF StartCompress, DestNext
<1>2. CASE Compress \/ FinishCompress
  BY <1>2 DEF Compress, FinishCompress, DestNext
<1>3. CASE UNCHANGED destVars
  BY <1>3
<1> QED BY <1>1, <1>2, <1>3
        DEF CameraNext, CameraThread, Work, Driver, cameraVars, Fail, CompressFails,
            InitVideoDevice, GetSendBuffer, Select, Dequeue, CopyPicture, Frame,
            Requeue, FillBegin, FillEnd

LEMMA PicturesStep ==
  Ring /\ DestInv /\ DestInv' /\ PicturesWhole /\ [CameraNext]_cameraVars => PicturesWhole'
<1> SUFFICES ASSUME Ring, DestInv, DestInv', PicturesWhole, [CameraNext]_cameraVars
             PROVE  PicturesWhole'
  OBVIOUS
<1> USE CameraAssumption
<1>0. /\ CameraTypeOK /\ BuffersGoRound
      /\ queued \in Seq(Buffers) /\ done \in Seq(Buffers)
      /\ Len(queued) \in Nat /\ Len(done) \in Nat
      /\ memory \in [Buffers -> Photos \cup {Torn}]
  BY LenProperties DEF Ring, CameraTypeOK
<1>1. CASE /\ \/ Fail \/ CompressFails \/ InitVideoDevice \/ GetSendBuffer \/ Select \/ Requeue
              \/ UNCHANGED cameraVars
  BY <1>1 DEF Fail, CompressFails, InitVideoDevice, GetSendBuffer, Select, Requeue,
     cameraVars, cameraThread, driverVars, destVars, PicturesWhole
<1>2. CASE Dequeue
  <2>1. /\ stage = "dequeue" /\ done # <<>> /\ held' = Head(done)
        /\ done' = Tail(done) /\ stage' = "copy"
        /\ UNCHANGED <<memory, src_jpeg, destVars>>
    BY <1>2 DEF Dequeue
  <2>2. /\ Len(done') = Len(done) - 1 /\ Len(done) > 0 /\ done[1] = held'
        /\ \A i \in 1 .. Len(done) - 1 : done'[i] = done[i + 1]
    BY <1>0, <2>1, TakeOldest
  <2>3. \A i \in 1 .. Len(done') : i + 1 \in 1 .. Len(done) /\ done'[i] = done[i + 1]
    BY <1>0, <2>2
  <2>4. 1 \in 1 .. Len(done)
    BY <1>0, <2>2
  <2>5. \A i \in 1 .. Len(done') : memory[done'[i]] # Torn
    BY <2>3 DEF PicturesWhole
  <2>6. memory[held'] # Torn
    BY <2>2, <2>4 DEF PicturesWhole
  <2>7. coding = "off"
    BY <2>1 DEF PicturesWhole
  <2> QED BY <2>1, <2>5, <2>6, <2>7 DEF PicturesWhole, destVars, Torn
<1>3. CASE CopyPicture
  BY <1>3 DEF CopyPicture, PicturesWhole, driverVars, destVars, Torn
<1>4. CASE StartCompress
  BY <1>4 DEF StartCompress, InitDestination, PicturesWhole, driverVars, Torn
<1>5. CASE Compress
  <2>1. coding' # "off" /\ picture' = picture
    BY <1>5 DEF Compress, Encode, EmitByte, EnterMCU, EmitByteS, LeaveMCU
  <2> QED BY <1>5, <2>1 DEF Compress, PicturesWhole, driverVars, cameraThread, Torn
<1>6. CASE FinishCompress
  <2>1. coding' = "off" /\ picture' = picture /\ emitted' > 0
    BY <1>6 DEF FinishCompress, TermDestination
  <2>2. written' > 0
    BY <2>1 DEF DestInv, Accounted
  <2> QED BY <1>6, <2>1, <2>2 DEF FinishCompress, PicturesWhole, driverVars, Torn
<1>7. CASE Frame
  BY <1>7 DEF Frame, PicturesWhole, driverVars, destVars, Torn
<1>8. CASE FillBegin
  <2>1. /\ queued # <<>> /\ filling' = Head(queued)
        /\ memory' = [memory EXCEPT ![filling'] = Torn]
        /\ UNCHANGED <<stage, held, src_jpeg, done, destVars>>
    BY <1>8 DEF FillBegin, cameraThread
  <2>2. filling' = queued[1] /\ 1 \in 1 .. Len(queued)
    BY <1>0, <2>1, TakeOldest
  <2>3. \A i \in 1 .. Len(done) : done[i] \in Buffers /\ done[i] # filling'
    BY <1>0, <2>2, ElementOfSeq DEF BuffersGoRound
  <2>4. \A i \in 1 .. Len(done') : memory'[done'[i]] # Torn
    BY <1>0, <2>1, <2>3 DEF PicturesWhole
  <2>5. stage = "copy" => held \in Buffers /\ held # filling'
    BY <1>0, <2>2 DEF BuffersGoRound, HoldsBuffer, CameraTypeOK, Buffers
  <2>6. stage' = "copy" => memory'[held'] # Torn
    BY <1>0, <2>1, <2>5 DEF PicturesWhole
  <2> QED BY <2>1, <2>4, <2>6 DEF PicturesWhole, destVars, Torn
<1>9. CASE FillEnd
  <2>1. /\ filling # 0 /\ newest' = After(newest)
        /\ memory' = [memory EXCEPT ![filling] = newest']
        /\ done' = Append(done, filling)
        /\ UNCHANGED <<stage, held, src_jpeg, destVars>>
    BY <1>9 DEF FillEnd, cameraThread
  <2>2. filling \in Buffers /\ newest' # Torn
    BY <1>0, <2>1 DEF CameraTypeOK, Buffers, Photos, After, Torn
  <2>3. \A i \in 1 .. Len(done') :
          \/ i \in 1 .. Len(done) /\ done'[i] = done[i]
          \/ done'[i] = filling
    BY <1>0, <2>1, <2>2, AddNewest
  <2>4. \A i \in 1 .. Len(done) : done[i] \in Buffers
    BY <1>0, ElementOfSeq
  <2>5. \A i \in 1 .. Len(done') : memory'[done'[i]] # Torn
    BY <1>0, <2>1, <2>2, <2>3, <2>4 DEF PicturesWhole
  <2>6. stage' = "copy" => memory'[held'] # Torn
    <3>1. stage = "copy" => held \in Buffers
      BY <1>0 DEF BuffersGoRound, HoldsBuffer, CameraTypeOK, Buffers
    <3> QED BY <1>0, <2>1, <2>2, <3>1 DEF PicturesWhole
  <2> QED BY <2>1, <2>5, <2>6 DEF PicturesWhole, destVars, Torn
<1> QED BY <1>1, <1>2, <1>3, <1>4, <1>5, <1>6, <1>7, <1>8, <1>9
        DEF CameraNext, CameraThread, Work, Driver

-----------------------------------------------------------------------------
(* It is a frame source *)

\* The pictures in the buffers of s.
Pics(s, m) == [i \in 1 .. Len(s) |-> m[s[i]]]

LEMMA PicsSeq ==
  ASSUME NEW B, NEW s \in Seq(B), NEW m \in [B -> Nat]
  PROVE  /\ Pics(s, m) \in Seq(Nat) /\ Len(Pics(s, m)) = Len(s) /\ Len(s) \in Nat
         /\ \A i \in 1 .. Len(s) : Pics(s, m)[i] = m[s[i]] /\ s[i] \in B
<1>1. Len(s) \in Nat /\ \A i \in 1 .. Len(s) : s[i] \in B
  BY LenProperties, ElementOfSeq
<1>2. Pics(s, m) \in [1 .. Len(s) -> Nat] /\ DOMAIN Pics(s, m) = 1 .. Len(s)
  BY <1>1 DEF Pics
<1>3. Pics(s, m) \in Seq(Nat)
  BY <1>1, <1>2, SeqDef
<1>4. Len(Pics(s, m)) = Len(s)
  BY <1>1, <1>2, <1>3, LenProperties
<1> QED BY <1>1, <1>3, <1>4 DEF Pics

\* The pictures of the buffers of s, where the oldest is in hand.
LEMMA PicsTake ==
  ASSUME NEW B, NEW s \in Seq(B), NEW m \in [B -> Nat], s # <<>>
  PROVE  <<>> \o Pics(s, m) = <<m[Head(s)]>> \o Pics(Tail(s), m)
<1>1. /\ Tail(s) \in Seq(B) /\ Len(Tail(s)) = Len(s) - 1 /\ Len(s) > 0
      /\ s[1] = Head(s) /\ Head(s) \in B
      /\ \A i \in 1 .. Len(s) - 1 : Tail(s)[i] = s[i + 1]
  BY TakeOldest
<1>2. /\ Pics(s, m) \in Seq(Nat) /\ Len(Pics(s, m)) = Len(s) /\ Len(s) \in Nat
      /\ \A i \in 1 .. Len(s) : Pics(s, m)[i] = m[s[i]]
  BY PicsSeq
<1>3. /\ Pics(Tail(s), m) \in Seq(Nat) /\ Len(Pics(Tail(s), m)) = Len(s) - 1
      /\ \A i \in 1 .. Len(s) - 1 : Pics(Tail(s), m)[i] = m[s[i + 1]]
  <2> DEFINE t == Tail(s)
  <2>1. /\ t \in Seq(B) /\ Len(t) = Len(s) - 1
        /\ \A i \in 1 .. Len(s) - 1 : t[i] = s[i + 1]
    BY <1>1, Zenon
  <2> HIDE DEF t
  <2>2. /\ Pics(t, m) \in Seq(Nat) /\ Len(Pics(t, m)) = Len(t)
        /\ \A i \in 1 .. Len(t) : Pics(t, m)[i] = m[t[i]]
    <3>1. t \in Seq(B)
      BY <2>1
    <3> QED BY <3>1, PicsSeq
  <2> HIDE DEF Pics
  <2>3. Len(Pics(t, m)) = Len(s) - 1
    BY <2>1, <2>2
  <2>4. \A i \in 1 .. Len(s) - 1 : Pics(t, m)[i] = m[t[i]] /\ t[i] = s[i + 1]
    BY <2>1, <2>2
  <2>5. \A i \in 1 .. Len(s) - 1 : Pics(t, m)[i] = m[s[i + 1]]
    BY ONLY <2>4
  <2> QED BY <2>2, <2>3, <2>5 DEF t
<1>4. <<>> \o Pics(s, m) = Pics(s, m)
  BY <1>2, ConcatEmptySeq
<1> DEFINE t == <<m[Head(s)]>> \o Pics(Tail(s), m)
<1>5. /\ t \in Seq(Nat) /\ Len(t) = Len(s)
      /\ \A i \in 1 .. Len(s) :
           t[i] = IF i = 1 THEN m[Head(s)] ELSE Pics(Tail(s), m)[i - 1]
  <2>1. <<m[Head(s)]>> \in Seq(Nat) /\ Len(<<m[Head(s)]>>) = 1
        /\ <<m[Head(s)]>>[1] = m[Head(s)]
    BY <1>1
  <2> HIDE DEF Pics
  <2>2. /\ t \in Seq(Nat) /\ Len(t) = 1 + (Len(s) - 1)
        /\ \A i \in 1 .. 1 + (Len(s) - 1) :
             t[i] = IF i <= 1 THEN <<m[Head(s)]>>[i] ELSE Pics(Tail(s), m)[i - 1]
    BY <1>3, <2>1, ConcatProperties
  <2> HIDE DEF t
  <2> QED BY <1>2, <2>1, <2>2
<1> HIDE DEF t, Pics
<1>6. ASSUME NEW i \in 1 .. Len(s) PROVE Pics(s, m)[i] = t[i]
  <2>1. CASE i = 1
    BY <1>1, <1>2, <1>5, <2>1
  <2>2. CASE i # 1
    <3>1. i - 1 \in 1 .. Len(s) - 1 /\ (i - 1) + 1 = i
      BY <1>2, <2>2
    <3>2. Pics(Tail(s), m)[i - 1] = m[s[i]]
      BY <1>3, <3>1
    <3> QED BY <1>2, <1>5, <2>2, <3>2
  <2> QED BY <2>1, <2>2
<1>7. Pics(s, m) = t
  BY <1>2, <1>5, <1>6, SeqEqual
<1> QED BY <1>4, <1>7 DEF t

\* A buffer filled behind those of s.
LEMMA PicsAdd ==
  ASSUME NEW B, NEW s \in Seq(B), NEW n \in [B -> Nat], NEW e \in B
  PROVE  Pics(Append(s, e), n) = Append(Pics(s, n), n[e])
<1>1. /\ Append(s, e) \in Seq(B) /\ Len(Append(s, e)) = Len(s) + 1 /\ Len(s) \in Nat
      /\ \A i \in 1 .. Len(s) : Append(s, e)[i] = s[i]
      /\ Append(s, e)[Len(s) + 1] = e
  BY AddNewest
<1>2. /\ Pics(s, n) \in Seq(Nat) /\ Len(Pics(s, n)) = Len(s)
      /\ \A i \in 1 .. Len(s) : Pics(s, n)[i] = n[s[i]]
  BY PicsSeq
<1>3. /\ Pics(Append(s, e), n) \in Seq(Nat)
      /\ Len(Pics(Append(s, e), n)) = Len(s) + 1
      /\ \A i \in 1 .. Len(s) + 1 : Pics(Append(s, e), n)[i] = n[Append(s, e)[i]]
  <2> DEFINE t == Append(s, e)
  <2>1. t \in Seq(B) /\ Len(t) = Len(s) + 1
    BY <1>1
  <2> HIDE DEF t
  <2>2. /\ Pics(t, n) \in Seq(Nat) /\ Len(Pics(t, n)) = Len(t)
        /\ \A i \in 1 .. Len(t) : Pics(t, n)[i] = n[t[i]]
    BY <2>1, PicsSeq
  <2> QED BY <2>1, <2>2 DEF t
<1>4. n[e] \in Nat
  OBVIOUS
<1> HIDE DEF Pics
<1>5. Pics(Append(s, e), n) = Append(Pics(s, n), n[e])
  <2>1. /\ Append(Pics(s, n), n[e]) \in Seq(Nat)
        /\ Len(Append(Pics(s, n), n[e])) = Len(s) + 1
        /\ \A i \in 1 .. Len(s) : Append(Pics(s, n), n[e])[i] = Pics(s, n)[i]
        /\ Append(Pics(s, n), n[e])[Len(s) + 1] = n[e]
    <3> DEFINE f == Pics(s, n)
               x == n[e]
    <3>1. f \in Seq(Nat) /\ x \in Nat /\ Len(f) = Len(s)
      BY <1>2, <1>4
    <3> HIDE DEF f, x
    <3>2. /\ Append(f, x) \in Seq(Nat) /\ Len(Append(f, x)) = Len(f) + 1
          /\ \A i \in 1 .. Len(f) : Append(f, x)[i] = f[i]
          /\ Append(f, x)[Len(f) + 1] = x
      BY <3>1, AddNewest
    <3> QED BY <3>1, <3>2 DEF f, x
  <2>2. ASSUME NEW i \in 1 .. Len(s) + 1
        PROVE  Pics(Append(s, e), n)[i] = Append(Pics(s, n), n[e])[i]
    <3>0. Pics(Append(s, e), n)[i] = n[Append(s, e)[i]]
      BY <1>3
    <3>1. CASE i \in 1 .. Len(s)
      <4>1. Append(s, e)[i] = s[i]
        BY <1>1, <3>1
      <4>2. Append(Pics(s, n), n[e])[i] = n[s[i]]
        BY <1>2, <2>1, <3>1
      <4> QED BY <3>0, <4>1, <4>2
    <3>2. CASE i = Len(s) + 1
      BY <1>1, <2>1, <3>0, <3>2
    <3>3. Len(s) \in Nat
      BY <1>1
    <3>4. i \in 1 .. Len(s) \/ i = Len(s) + 1
      BY <3>3
    <3> QED BY <3>1, <3>2, <3>4, Zenon
  <2> QED BY <1>3, <2>1, <2>2, SeqEqual
<1> QED BY <1>5

\* Adding behind what stands in front.
LEMMA AddBehind ==
  ASSUME NEW w \in Seq(Nat), NEW p \in Seq(Nat), NEW x \in Nat
  PROVE  w \o Append(p, x) = Append(w \o p, x)
<1>1. Len(p) \in Nat /\ Len(w) \in Nat
  BY LenProperties
<1>2. /\ Append(p, x) \in Seq(Nat) /\ Len(Append(p, x)) = Len(p) + 1
      /\ \A i \in 1 .. Len(p) : Append(p, x)[i] = p[i]
      /\ Append(p, x)[Len(p) + 1] = x
  BY <1>1, AddNewest
<1>3. /\ w \o p \in Seq(Nat) /\ Len(w \o p) = Len(w) + Len(p)
      /\ \A i \in 1 .. Len(w) + Len(p) :
           (w \o p)[i] = IF i <= Len(w) THEN w[i] ELSE p[i - Len(w)]
  BY <1>1, ConcatProperties
<1>4. /\ w \o Append(p, x) \in Seq(Nat)
      /\ Len(w \o Append(p, x)) = Len(w) + (Len(p) + 1)
      /\ \A i \in 1 .. Len(w) + (Len(p) + 1) :
           (w \o Append(p, x))[i] =
             IF i <= Len(w) THEN w[i] ELSE Append(p, x)[i - Len(w)]
  <2> DEFINE q == Append(p, x)
  <2>1. q \in Seq(Nat) /\ Len(q) = Len(p) + 1
    BY <1>2
  <2> HIDE DEF q
  <2>2. /\ w \o q \in Seq(Nat) /\ Len(w \o q) = Len(w) + Len(q)
        /\ \A i \in 1 .. Len(w) + Len(q) :
             (w \o q)[i] = IF i <= Len(w) THEN w[i] ELSE q[i - Len(w)]
    BY <2>1, ConcatProperties
  <2> QED BY <2>1, <2>2 DEF q
<1>5. /\ Append(w \o p, x) \in Seq(Nat)
      /\ Len(Append(w \o p, x)) = Len(w) + Len(p) + 1
      /\ \A i \in 1 .. Len(w) + Len(p) : Append(w \o p, x)[i] = (w \o p)[i]
      /\ Append(w \o p, x)[Len(w) + Len(p) + 1] = x
  BY <1>1, <1>3, AddNewest
<1>6. ASSUME NEW i \in 1 .. Len(w) + Len(p) + 1
      PROVE  (w \o Append(p, x))[i] = Append(w \o p, x)[i]
  <2>1. CASE i <= Len(w)
    BY <1>1, <1>3, <1>4, <1>5, <2>1
  <2>2. CASE i > Len(w) /\ i <= Len(w) + Len(p)
    <3>1. i - Len(w) \in 1 .. Len(p) /\ i \in 1 .. Len(w) + Len(p)
      BY <1>1, <2>2
    <3> QED BY <1>1, <1>2, <1>3, <1>4, <1>5, <2>2, <3>1
  <2>3. CASE i = Len(w) + Len(p) + 1
    <3>1. i - Len(w) = Len(p) + 1 /\ ~ (i <= Len(w))
      BY <1>1, <2>3
    <3> QED BY <1>1, <1>2, <1>4, <1>5, <2>3, <3>1
  <2> QED BY <1>1, <2>1, <2>2, <2>3
<1>7. Len(w \o Append(p, x)) = Len(Append(w \o p, x))
  BY <1>1, <1>4, <1>5
<1>8. w \o Append(p, x) = Append(w \o p, x)
  BY <1>1, <1>4, <1>5, <1>6, <1>7, SeqEqual
<1> QED BY <1>8

\* Only the pictures of the buffers of s matter.
LEMMA PicsSame ==
  ASSUME NEW s, NEW m, NEW n, \A i \in 1 .. Len(s) : n[s[i]] = m[s[i]]
  PROVE  Pics(s, n) = Pics(s, m)
BY DEF Pics

\* The picture in hand is the head of the line.
LEMMA InHand ==
  ASSUME NEW x \in Nat, NEW s \in Seq(Nat)
  PROVE  /\ <<x>> \o s # <<>> /\ Head(<<x>> \o s) = x
         /\ Tail(<<x>> \o s) = <<>> \o s
<1>1. /\ <<x>> \in Seq(Nat) /\ Len(<<x>>) = 1 /\ <<x>>[1] = x /\ Len(s) \in Nat
  BY LenProperties
<1>2. /\ <<x>> \o s \in Seq(Nat) /\ Len(<<x>> \o s) = 1 + Len(s)
      /\ \A i \in 1 .. 1 + Len(s) :
           (<<x>> \o s)[i] = IF i <= 1 THEN <<x>>[i] ELSE s[i - 1]
  BY <1>1, ConcatProperties
<1>3. <<x>> \o s # <<>>
  BY <1>1, <1>2, EmptySeq
<1>4. /\ Tail(<<x>> \o s) \in Seq(Nat) /\ Len(Tail(<<x>> \o s)) = Len(s)
      /\ \A i \in 1 .. Len(s) : Tail(<<x>> \o s)[i] = (<<x>> \o s)[i + 1]
      /\ Head(<<x>> \o s) = (<<x>> \o s)[1]
  BY <1>1, <1>2, <1>3, TakeOldest
<1>5. (<<x>> \o s)[1] = x
  BY <1>1, <1>2
<1>6. ASSUME NEW i \in 1 .. Len(s) PROVE Tail(<<x>> \o s)[i] = s[i]
  <2>1. i + 1 \in 1 .. 1 + Len(s) /\ ~ (i + 1 <= 1) /\ (i + 1) - 1 = i
    BY <1>1
  <2> QED BY <1>2, <1>4, <2>1
<1>7. Tail(<<x>> \o s) = s
  BY <1>4, <1>6, SeqEqual
<1>8. <<>> \o s = s
  BY ConcatEmptySeq
<1> QED BY <1>3, <1>4, <1>5, <1>7, <1>8

\* The types the pictures need.
LEMMA RingTypes ==
  ASSUME Ring
  PROVE  /\ done \in Seq(Buffers) /\ memory \in [Buffers -> Nat] /\ src_jpeg \in Nat
         /\ newest \in Nat /\ Len(done) \in Nat /\ Len(queued) \in Nat
         /\ \A i \in 1 .. Len(done) : done[i] \in Buffers
         /\ HoldsBuffer => held \in Buffers
<1>1. /\ done \in Seq(Buffers) /\ queued \in Seq(Buffers)
      /\ memory \in [Buffers -> Photos \cup {Torn}]
      /\ newest \in Photos /\ src_jpeg \in Photos \cup {Torn}
      /\ held \in 0 .. MaxBuffers
      /\ HoldsBuffer => held # 0
  BY DEF Ring, CameraTypeOK, BuffersGoRound
<1>2. Photos \cup {Torn} \subseteq Nat /\ Photos \subseteq Nat
  BY CameraAssumption DEF Photos, Torn
<1>3. ASSUME HoldsBuffer PROVE held \in Buffers
  <2>1. held # 0
    BY <1>1, <1>3, Zenon
  <2>2. held \in 0 .. MaxBuffers /\ MaxBuffers \in Nat
    BY CameraAssumption DEF Ring, CameraTypeOK
  <2> QED BY <2>1, <2>2 DEF Buffers
<1> HIDE DEF Photos, Torn, Buffers
<1>4. memory \in [Buffers -> Nat] /\ src_jpeg \in Nat /\ newest \in Nat
  BY <1>1, <1>2
<1>5. /\ Len(done) \in Nat /\ Len(queued) \in Nat
      /\ \A i \in 1 .. Len(done) : done[i] \in Buffers
  BY <1>1, LenProperties, ElementOfSeq
<1> QED BY <1>1, <1>3, <1>4, <1>5

LEMMA RingTypesNext ==
  (Ring => /\ done \in Seq(Buffers) /\ memory \in [Buffers -> Nat]
           /\ src_jpeg \in Nat)'
<1>1. Ring => /\ done \in Seq(Buffers) /\ memory \in [Buffers -> Nat]
              /\ src_jpeg \in Nat
  BY RingTypes
<1> QED BY <1>1, PTL

\* The picture the thread has, if any, and those waiting in the ring.
LEMMA LineTypes ==
  ASSUME Ring
  PROVE  /\ Working \in Seq(Nat) /\ Len(Working) \in {0, 1}
         /\ Len(Working) = 1 => held # 0
         /\ Pics(done, memory) \in Seq(Nat)
         /\ line = Working \o Pics(done, memory)
         /\ line \in Seq(Nat) /\ Len(line) = Len(Working) + Len(done)
<1>1. /\ Working \in Seq(Nat) /\ Len(Working) \in {0, 1}
      /\ Len(Working) = 1 => HoldsBuffer
  <2>1. CASE stage = "copy"
    <3>1. Working = <<memory[held]>> /\ memory[held] \in Nat /\ HoldsBuffer
      BY <2>1, RingTypes DEF Working, HoldsBuffer
    <3> QED BY <3>1
  <2>2. CASE stage \in {"convert", "compress", "frame", "aborted"}
    <3>1. Working = <<src_jpeg>> /\ src_jpeg \in Nat /\ HoldsBuffer
      BY <2>2, RingTypes DEF Working, HoldsBuffer
    <3> QED BY <3>1
  <2>3. CASE stage \notin {"copy", "convert", "compress", "frame", "aborted"}
    <3>1. Working = <<>>
      BY <2>3 DEF Working
    <3> QED BY <3>1
  <2> QED BY <2>1, <2>2, <2>3
<1>2. HoldsBuffer => held # 0
  BY DEF Ring, BuffersGoRound
<1>3. Pics(done, memory) \in Seq(Nat) /\ Len(Pics(done, memory)) = Len(done)
  BY RingTypes, PicsSeq
<1>4. line = Working \o Pics(done, memory)
  BY DEF line, Pics
<1>5. line \in Seq(Nat) /\ Len(line) = Len(Working) + Len(done)
  <2> DEFINE w == Working
             p == Pics(done, memory)
  <2>1. w \in Seq(Nat) /\ p \in Seq(Nat) /\ Len(p) = Len(done)
    BY <1>1, <1>3
  <2> HIDE DEF w, p
  <2>2. w \o p \in Seq(Nat) /\ Len(w \o p) = Len(w) + Len(p)
    BY <2>1, ConcatProperties
  <2>3. line = w \o p
    BY <1>4 DEF w, p
  <2>4. Len(line) = Len(w) + Len(done)
    BY <2>1, <2>2, <2>3
  <2> QED BY <2>2, <2>3, <2>4 DEF w
<1> QED BY <1>1, <1>2, <1>3, <1>4, <1>5

LEMMA LineTypesNext == (Ring => line = Working \o Pics(done, memory))'
<1>1. Ring => line = Working \o Pics(done, memory)
  BY LineTypes
<1> QED BY <1>1, PTL

\* What a step does to the line: nothing, a picture captured behind the others, or
\* the first one put into send_buffer.
LineStep ==
  \/ UNCHANGED <<line, shown, newest>>
  \/ /\ Len(line) < MaxBuffers
     /\ newest' = After(newest)
     /\ line' = Append(line, newest')
     /\ UNCHANGED shown
  \/ /\ line # <<>>
     /\ shown' = Head(line)
     /\ line' = Tail(line)
     /\ UNCHANGED newest

LEMMA LineMoves ==
  Ring /\ Ring' /\ DestInv /\ PicturesWhole /\ [CameraNext]_cameraVars => LineStep
<1> SUFFICES ASSUME Ring, Ring', DestInv, PicturesWhole, [CameraNext]_cameraVars PROVE LineStep
  OBVIOUS
<1>0. /\ line = Working \o Pics(done, memory)
      /\ line' = Working' \o Pics(done', memory')
      /\ Pics(done, memory) \in Seq(Nat) /\ Working \in Seq(Nat)
      /\ done \in Seq(Buffers) /\ memory \in [Buffers -> Nat] /\ src_jpeg \in Nat
      /\ done' \in Seq(Buffers) /\ memory' \in [Buffers -> Nat]
  BY LineTypes, LineTypesNext, RingTypes, RingTypesNext
<1>1. CASE \/ Fail \/ CompressFails \/ InitVideoDevice \/ GetSendBuffer \/ Select \/ Requeue
           \/ StartCompress \/ Compress \/ FinishCompress \/ UNCHANGED cameraVars
  <2>1. UNCHANGED <<done, memory, src_jpeg, held, newest, send_buffer>> \/ Requeue
    BY <1>1 DEF Fail, CompressFails, InitVideoDevice, GetSendBuffer, Select,
       StartCompress, Compress, FinishCompress, cameraVars, driverVars, cameraThread
  <2>2. \/ stage = stage'
        \/ /\ stage \in {"setup", "idle", "select", "dequeue", "requeue"}
           /\ stage' \in {"exited", "idle", "select", "dequeue"}
        \/ /\ stage \in {"convert", "compress"}
           /\ stage' \in {"compress", "frame", "aborted"}
    BY <1>1 DEF Fail, CompressFails, InitVideoDevice, GetSendBuffer, Select, Requeue,
       StartCompress, Compress, FinishCompress, cameraVars, cameraThread
  <2>3. /\ UNCHANGED <<done, memory, src_jpeg, newest, send_buffer>>
        /\ stage \in {"copy"} => UNCHANGED held
    BY <2>1 DEF Requeue
  <2>4. Working' = Working
    BY <2>2, <2>3 DEF Working
  <2>5. line' = line
    BY <1>0, <2>3, <2>4
  <2>6. shown' = shown
    BY <2>3 DEF shown
  <2> QED BY <2>3, <2>5, <2>6 DEF LineStep
<1>2. CASE Dequeue
  <2>1. /\ stage = "dequeue" /\ stage' = "copy" /\ done # <<>> /\ held' = Head(done)
        /\ done' = Tail(done) /\ UNCHANGED <<memory, newest, send_buffer>>
    BY <1>2 DEF Dequeue
  <2>2. Working = <<>> /\ Working' = <<memory[Head(done)]>>
    BY <2>1 DEF Working
  <2>3. <<>> \o Pics(done, memory) = <<memory[Head(done)]>> \o Pics(Tail(done), memory)
    BY <1>0, <2>1, PicsTake
  <2>4. line' = line
    BY <1>0, <2>1, <2>2, <2>3
  <2>5. shown' = shown
    BY <2>1 DEF shown
  <2> QED BY <2>1, <2>4, <2>5 DEF LineStep
<1>3. CASE CopyPicture
  <2>1. /\ stage = "copy" /\ stage' = "convert" /\ src_jpeg' = memory[held]
        /\ UNCHANGED <<done, memory, newest, send_buffer>>
    BY <1>3 DEF CopyPicture, driverVars
  <2>2. Working = <<memory[held]>> /\ Working' = <<memory[held]>>
    BY <2>1 DEF Working
  <2>3. line' = line
    BY <1>0, <2>1, <2>2
  <2>4. shown' = shown
    BY <2>1 DEF shown
  <2> QED BY <2>1, <2>3, <2>4 DEF LineStep
<1>4. CASE Frame
  <2>1. /\ stage = "frame" /\ stage' = "requeue" /\ UNCHANGED <<done, memory, newest>>
        /\ send_buffer' = [head |-> written,
                           body |-> [i \in 1 .. written |-> outbuffer[i - 1]]]
    BY <1>4 DEF Frame, driverVars
  <2>2. Working = <<src_jpeg>> /\ Working' = <<>>
    BY <2>1 DEF Working
  <2>3. coding = "off" /\ picture = src_jpeg /\ written > 0 /\ written \in Nat
    BY <2>1 DEF PicturesWhole, DestInv, DestTypeOK
  <2>4. [i \in 1 .. written |-> outbuffer[i - 1]] = First(src_jpeg, written)
    <3>1. written = cursor /\ \A i \in 0 .. cursor - 1 : outbuffer[i] = <<picture, i>>
      BY DEF DestInv, Accounted, Byte
    <3>2. \A i \in 1 .. written : outbuffer[i - 1] = <<src_jpeg, i - 1>>
      BY <2>3, <3>1
    <3> QED BY <3>2 DEF First
  <2>5. shown' = src_jpeg
    <3> DEFINE f == First(src_jpeg, written)
    <3>1. f # <<>> /\ f[1][1] = src_jpeg /\ Len(f) = written
      BY <2>3, FirstBytes
    <3>2. f = [i \in 1 .. written |-> <<src_jpeg, i - 1>>]
      BY DEF First
    <3> HIDE DEF f
    <3>3. send_buffer' = [head |-> written, body |-> f]
      BY <2>1, <2>4 DEF f
    <3>4. send_buffer'.body = f /\ send_buffer'.head = written
      BY <3>3
    <3>5. send_buffer' = [head |-> Len(f),
                          body |-> [i \in 1 .. written |-> <<src_jpeg, i - 1>>]]
      BY <3>1, <3>2, <3>3
    <3> QED BY <3>1, <3>4, <3>5 DEF shown
  <2>6. /\ <<src_jpeg>> \o Pics(done, memory) # <<>>
        /\ Head(<<src_jpeg>> \o Pics(done, memory)) = src_jpeg
        /\ Tail(<<src_jpeg>> \o Pics(done, memory)) = <<>> \o Pics(done, memory)
    BY <1>0, InHand
  <2>7. line # <<>> /\ Head(line) = src_jpeg /\ line' = Tail(line)
    BY <1>0, <2>1, <2>2, <2>6
  <2> QED BY <2>1, <2>5, <2>7 DEF LineStep
<1>5. CASE FillBegin
  <2>1. /\ queued # <<>> /\ filling' = Head(queued)
        /\ memory' = [memory EXCEPT ![filling'] = Torn]
        /\ UNCHANGED <<stage, held, src_jpeg, done, newest, send_buffer>>
    BY <1>5 DEF FillBegin, cameraThread
  <2>2. filling' = queued[1] /\ 1 \in 1 .. Len(queued)
    <3>1. queued \in Seq(Buffers)
      BY DEF Ring, CameraTypeOK
    <3> QED BY <2>1, <3>1, TakeOldest
  <2>3. /\ \A i \in 1 .. Len(done) : done[i] # filling'
        /\ held # filling'
    BY <2>2 DEF Ring, BuffersGoRound
  <2>4. \A i \in 1 .. Len(done) : memory'[done[i]] = memory[done[i]]
    BY <1>0, <2>1, <2>3, RingTypes
  <2>5. Working' = Working
    <3>1. CASE stage = "copy"
      <4>1. memory'[held] = memory[held]
        BY <1>0, <2>1, <2>3, <3>1, RingTypes DEF HoldsBuffer
      <4> QED BY <2>1, <3>1, <4>1 DEF Working
    <3>2. CASE stage # "copy"
      BY <2>1, <3>2 DEF Working
    <3> QED BY <3>1, <3>2
  <2>6. Pics(done, memory') = Pics(done, memory)
    BY <2>4, PicsSame
  <2>7. line' = line
    BY <1>0, <2>1, <2>5, <2>6
  <2>8. shown' = shown
    BY <2>1 DEF shown
  <2> QED BY <2>1, <2>7, <2>8 DEF LineStep
<1>6. CASE FillEnd
  <2>1. /\ filling # 0 /\ newest' = After(newest)
        /\ memory' = [memory EXCEPT ![filling] = newest']
        /\ done' = Append(done, filling)
        /\ UNCHANGED <<stage, held, src_jpeg, send_buffer>>
    BY <1>6 DEF FillEnd, cameraThread
  <2>2. filling \in Buffers
    <3>1. filling \in 0 .. MaxBuffers /\ MaxBuffers \in Nat
      BY CameraAssumption DEF Ring, CameraTypeOK
    <3> QED BY <2>1, <3>1 DEF Buffers
  <2>3. /\ \A i \in 1 .. Len(done) : done[i] # filling
        /\ held # filling
    BY <2>1 DEF Ring, BuffersGoRound
  <2>4. \A i \in 1 .. Len(done) : memory'[done[i]] = memory[done[i]]
    BY <1>0, <2>1, <2>3, RingTypes
  <2>5. Working' = Working
    <3>1. CASE stage = "copy"
      <4>1. memory'[held] = memory[held]
        BY <1>0, <2>1, <2>3, <3>1, RingTypes DEF HoldsBuffer
      <4> QED BY <2>1, <3>1, <4>1 DEF Working
    <3>2. CASE stage # "copy"
      BY <2>1, <3>2 DEF Working
    <3> QED BY <3>1, <3>2
  <2>6. memory'[filling] = newest'
    BY <1>0, <2>1, <2>2
  <2>7. Working \o Pics(Append(done, filling), memory')
          = Append(Working \o Pics(done, memory), memory'[filling])
    <3> DEFINE n == memory'
               p == Pics(done, memory)
               x == n[filling]
    <3>1. n \in [Buffers -> Nat] /\ x \in Nat /\ p \in Seq(Nat)
      BY <1>0, <2>2
    <3>0. \A i \in 1 .. Len(done) : n[done[i]] = memory[done[i]]
      BY <2>4
    <3> HIDE DEF n
    <3>2. Pics(Append(done, filling), n) = Append(Pics(done, memory), n[filling])
      <4>1. Pics(Append(done, filling), n) = Append(Pics(done, n), n[filling])
        <5>1. done \in Seq(Buffers)
          BY <1>0
        <5> HIDE DEF p, x
        <5> QED BY ONLY <2>2, <3>1, <5>1, PicsAdd
      <4>2. Pics(done, n) = Pics(done, memory)
        BY <3>0, PicsSame
      <4> QED BY <4>1, <4>2
    <3> HIDE DEF p, x
    <3>3. Working \o Append(p, x) = Append(Working \o p, x)
      BY <1>0, <3>1, AddBehind
    <3> QED BY <3>2, <3>3 DEF n, p, x
  <2>8. line' = Append(line, newest')
    BY <1>0, <2>1, <2>5, <2>6, <2>7
  <2>9. Len(line) < MaxBuffers
    <3>1. /\ Len(line) = Len(Working) + Len(done)
          /\ Len(Working) = 0 \/ (Len(Working) = 1 /\ held # 0)
      BY LineTypes
    <3>2. InPlace <= MaxBuffers
      BY CameraAssumption DEF Ring, BuffersConserved, CameraTypeOK
    <3>3. Len(done) \in Nat /\ Len(queued) \in Nat /\ MaxBuffers \in Nat
      BY RingTypes, CameraAssumption
    <3>4. CASE held = 0
      <4>1. InPlace = Len(queued) + Len(done) + 1
        BY <2>1, <3>3, <3>4 DEF InPlace
      <4> QED BY <3>1, <3>2, <3>3, <3>4, <4>1
    <3>5. CASE held # 0
      <4>1. InPlace = Len(queued) + Len(done) + 2
        BY <2>1, <3>3, <3>5 DEF InPlace
      <4>2. Len(done) + 2 <= MaxBuffers
        BY <3>2, <3>3, <4>1
      <4>3. Len(line) = Len(done) \/ Len(line) = 1 + Len(done)
        <5>1. CASE Len(Working) = 0
          BY <3>1, <3>3, <5>1
        <5>2. CASE Len(Working) = 1
          BY <3>1, <3>3, <5>2
        <5> QED BY <3>1, <5>1, <5>2
      <4> QED BY <3>3, <4>2, <4>3
    <3> QED BY <3>4, <3>5
  <2>10. shown' = shown
    BY <2>1 DEF shown
  <2> QED BY <2>1, <2>8, <2>9, <2>10 DEF LineStep
<1> QED BY <1>1, <1>2, <1>3, <1>4, <1>5, <1>6 DEF CameraNext, CameraThread, Work, Driver

LEMMA ShownInitially == CameraInit => line = <<>> /\ shown = LastPicture
<1> SUFFICES ASSUME CameraInit PROVE line = <<>> /\ shown = LastPicture
  OBVIOUS
<1>1. Working = <<>> /\ done = <<>>
  BY DEF CameraInit, Working
<1>2. Pics(done, memory) \in Seq(Nat) /\ line = Working \o Pics(done, memory)
      /\ Len(line) = Len(Working) + Len(done) /\ line \in Seq(Nat)
  BY RingInitial, LineTypes
<1>3. Len(Working) = 0 /\ Len(done) = 0
  BY <1>1
<1>4. line = <<>>
  BY <1>2, <1>3, EmptySeq
<1>5. shown = LastPicture
  BY DEF CameraInit, shown
<1> QED BY <1>4, <1>5

\* The newest picture stays the last of the line.
LEMMA NewestStep == Ring /\ NewestLast /\ LineStep => NewestLast'
<1> SUFFICES ASSUME Ring, NewestLast, LineStep PROVE NewestLast'
  OBVIOUS
<1>0. line \in Seq(Nat) /\ newest \in Nat /\ After(newest) \in Nat
  <2>1. line \in Seq(Nat) /\ newest \in Nat
    BY LineTypes, RingTypes
  <2> QED BY <2>1 DEF After
<1>1. CASE UNCHANGED <<line, shown, newest>>
  BY <1>1 DEF NewestLast
<1>2. CASE newest' = After(newest) /\ line' = Append(line, newest')
  <2>1. newest' \in Nat
    BY <1>0, <1>2
  <2>2. line' \in Seq(Nat) /\ Len(line') = Len(line) + 1 /\ Len(line) \in Nat
        /\ line'[Len(line) + 1] = newest'
    BY <1>0, <1>2, <2>1, AddNewest
  <2>3. line' # <<>>
    BY <2>2, EmptySeq
  <2> QED BY <2>2, <2>3 DEF NewestLast
<1>3. CASE /\ line # <<>> /\ shown' = Head(line) /\ line' = Tail(line)
           /\ newest' = newest
  <2>1. /\ line' \in Seq(Nat) /\ Len(line') = Len(line) - 1 /\ Len(line) \in Nat
        /\ Len(line) > 0 /\ line[1] = shown'
        /\ \A i \in 1 .. Len(line) - 1 : line'[i] = line[i + 1]
    BY <1>0, <1>3, TakeOldest
  <2>2. newest' = line[Len(line)]
    BY <1>3 DEF NewestLast
  <2>3. CASE Len(line) = 1
    <3>1. line' = <<>>
      BY <2>1, <2>3, EmptySeq
    <3> QED BY <2>1, <2>2, <2>3, <3>1 DEF NewestLast
  <2>4. CASE Len(line) > 1
    <3>1. line' # <<>>
      BY <2>1, <2>4, EmptySeq
    <3>2. Len(line') \in 1 .. Len(line) - 1 /\ Len(line') + 1 = Len(line)
      BY <2>1, <2>4
    <3>3. line'[Len(line')] = line[Len(line)]
      BY <2>1, <3>2
    <3> QED BY <2>2, <3>1, <3>3 DEF NewestLast
  <2> QED BY <2>1, <2>3, <2>4
<1> QED BY <1>1, <1>2, <1>3 DEF LineStep

LEMMA CameraInitial == CameraInit => CameraInv
<1> SUFFICES ASSUME CameraInit PROVE CameraInv
  OBVIOUS
<1>1. Ring /\ DestInv
  BY RingInitial, DestInitial DEF CameraInit
<1>2. NewestLast
  BY ShownInitially DEF CameraInit, NewestLast
<1>3. PicturesWhole
  BY DEF CameraInit, DestInit, PicturesWhole
<1> QED BY <1>1, <1>2, <1>3 DEF CameraInv, Ring

LEMMA CameraStep == CameraInv /\ [CameraNext]_cameraVars => CameraInv' /\ LineStep
<1> SUFFICES ASSUME CameraInv, [CameraNext]_cameraVars PROVE CameraInv' /\ LineStep
  OBVIOUS
<1>1. Ring /\ DestInv /\ PicturesWhole /\ NewestLast
  BY DEF CameraInv, Ring
<1>2. Ring'
  BY <1>1, RingStep
<1>3. DestInv'
  BY <1>1, CameraDrivesDestination, DestStep
<1>4. PicturesWhole'
  BY <1>1, <1>3, PicturesStep
<1>5. LineStep
  BY <1>1, <1>2, LineMoves
<1>6. NewestLast'
  BY <1>1, <1>5, NewestStep
<1> QED BY <1>2, <1>3, <1>4, <1>5, <1>6 DEF CameraInv, Ring

\* The buffers go round, the pictures in the thread's hands are whole, and the
\* destination accounts for every byte, for every number of buffers.
THEOREM CameraInvariant == CameraSpec => []CameraInv
<1>1. CameraInv /\ [CameraNext]_cameraVars => CameraInv'
  BY CameraStep
<1> QED BY CameraInitial, <1>1, PTL DEF CameraSpec

\* get_send_buffer implements a frame source, for every number of buffers the
\* driver grants and every size of the output buffer.
THEOREM CameraIsSource == CameraSpec => SourceSafety
<1>1. CameraInit => Source!Init
  BY ShownInitially DEF Source!Init
<1>2. CameraInv /\ [CameraNext]_cameraVars => [Source!Next]_(Source!sourceVars)
  <2> SUFFICES ASSUME CameraInv, [CameraNext]_cameraVars
               PROVE  [Source!Next]_(Source!sourceVars)
    OBVIOUS
  <2>1. LineStep
    BY CameraStep
  <2>2. newest = Source!Newest
    BY DEF CameraInv, NewestLast, Source!Newest
  <2>3. After(newest) = Source!After(newest)
    BY DEF After, Source!After
  <2>4. CASE UNCHANGED <<line, shown, newest>>
    BY <2>4 DEF Source!sourceVars
  <2>5. CASE /\ Len(line) < MaxBuffers /\ newest' = After(newest)
             /\ line' = Append(line, newest') /\ UNCHANGED shown
    BY <2>2, <2>3, <2>5 DEF Source!Next, Source!Capture
  <2>6. CASE line # <<>> /\ shown' = Head(line) /\ line' = Tail(line)
    BY <2>6 DEF Source!Next, Source!Show
  <2> QED BY <2>1, <2>4, <2>5, <2>6 DEF LineStep
<1>3. CameraInv /\ [CameraNext]_cameraVars => CameraInv'
  BY CameraStep
<1> QED BY CameraInitial, <1>1, <1>2, <1>3, PTL DEF CameraSpec, SourceSafety, Source!Safety

=============================================================================
