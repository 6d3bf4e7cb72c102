----------------------------- MODULE AlarmProofs -----------------------------
(***************************************************************************)
(* Theorems about the alarm thread of alarm.c, with a sensor that may or   *)
(* may not fail.                                                           *)
(***************************************************************************)
EXTENDS Alarm, TLAPS

(***************************************************************************)
(* The invariant of the thread holds in every initial state.               *)
(***************************************************************************)
LEMMA AlarmInvInit == Init => AlarmInv
  BY DEF Init, AlarmInv, TypeOK, ArmedTogether, DarkAfterHotRound, UnarmedIsDark,
         ArmedByCoolRound, Treated, Devices, Temps

(***************************************************************************)
(* Every step of the thread, of the room and of the other threads keeps    *)
(* it.                                                                     *)
(***************************************************************************)
LEMMA AlarmInvStep ==
  ASSUME AlarmInv, [Next]_vars
  PROVE  AlarmInv'
<1> USE DEF AlarmInv, TypeOK, ArmedTogether, DarkAfterHotRound, UnarmedIsDark,
            ArmedByCoolRound, Treated, Devices, Temps, localVars
<1>1. CASE Setup
  BY <1>1 DEF Setup
<1>2. CASE Read
  BY <1>2 DEF Read
<1>3. CASE Sound
  BY <1>3 DEF Sound, Tell
<1>4. CASE Silence
  BY <1>4 DEF Silence, Tell, Done
<1>5. CASE ReadRequest
  BY <1>5 DEF ReadRequest
<1>6. CASE Apply
  BY <1>6 DEF Apply, Tell, Done
<1>7. CASE Disarmed
  <2>1. CASE temp = "cool"
    <3>1. armed' = [armed EXCEPT ![at] = TRUE]
      BY <1>7, <2>1, Zenon DEF Disarmed
    <3>2. /\ pc = "device" /\ ~armed[at]
          /\ Tell("off") /\ Done
          /\ UNCHANGED <<data, temp, want, room, on_flag, flag_alarm>>
      BY <1>7 DEF Disarmed
    <3>3. armed'[at] /\ \A d \in Devices : d # at => armed'[d] = armed[d]
      BY <3>1
    <3>4. armed' \in [Devices -> BOOLEAN]
      BY <3>1
    <3> QED
      BY <2>1, <3>2, <3>3, <3>4 DEF Tell, Done
  <2>2. CASE temp = "hot"
    BY <1>7, <2>2 DEF Disarmed, Tell, Done
  <2> QED
    BY <2>1, <2>2
<1>8. CASE Check
  BY <1>8 DEF Check
<1>9. CASE RoomChanges
  BY <1>9 DEF RoomChanges
<1>10. CASE Ask
  BY <1>10 DEF Ask
<1>11. CASE Quit
  BY <1>11 DEF Quit
<1>12. CASE UNCHANGED vars
  BY <1>12 DEF vars
<1> QED
  BY <1>1, <1>2, <1>3, <1>4, <1>5, <1>6, <1>7, <1>8, <1>9, <1>10, <1>11, <1>12
  DEF Next, Thread

(***************************************************************************)
(* The alarm thread keeps its invariant.                                   *)
(***************************************************************************)
THEOREM AlarmInvariant == Spec => []AlarmInv
<1>1. AlarmInv /\ [Next]_vars => AlarmInv'
  BY AlarmInvStep
<1> QED
  BY AlarmInvInit, <1>1, PTL DEF Spec

(***************************************************************************)
(* The LED and the buzzer are armed by the same reading, and a round whose *)
(* reading was hot leaves both of them dark.                               *)
(***************************************************************************)
THEOREM DevicesAgree == Spec => [](ArmedTogether /\ DarkAfterHotRound)
<1>1. AlarmInv => ArmedTogether /\ DarkAfterHotRound
  BY DEF AlarmInv
<1> QED
  BY AlarmInvariant, <1>1, PTL

(***************************************************************************)
(* What is done to one device is a step of the panel.                      *)
(***************************************************************************)
LEMMA PanelMoves ==
  ASSUME NEW d \in Devices
  PROVE  /\ Panel!Intend(d) => Panel!Next
         /\ Panel!Light(d) => Panel!Next
         /\ Panel!Darken(d) => Panel!Next
  BY DEF Panel!Next

(***************************************************************************)
(* Every step of the thread is one the panel allows, or none of its        *)
(* business.                                                               *)
(***************************************************************************)
LEMMA PanelStep ==
  ASSUME AlarmInv, [Next]_vars
  PROVE  [Panel!Next]_(Panel!vars)
<1> USE DEF AlarmInv, TypeOK, UnarmedIsDark, Devices, Temps, localVars,
            intent, life, Panel!vars
<1>0. PICK d \in Devices : d = at
  OBVIOUS
<1>1. CASE Setup
  BY <1>1 DEF Setup, Panel!Next, Panel!Open
<1>2. CASE Read
  BY <1>2 DEF Read, Panel!Next, Panel!Feel
<1>3. CASE Sound
  <2>1. Panel!Light(d)
    BY <1>0, <1>3 DEF Sound, Tell, Panel!Light
  <2> QED
    BY <1>0, <2>1, PanelMoves
<1>4. CASE Silence
  <2>1. Panel!Darken(d)
    BY <1>0, <1>4 DEF Silence, Tell, Done, Panel!Darken
  <2> QED
    BY <1>0, <2>1, PanelMoves
<1>5. CASE ReadRequest
  <2>1. CASE on_flag[at] = 1
    <3>1. Panel!Intend(d)
      BY <1>0, <1>5, <2>1 DEF ReadRequest, Panel!Intend
    <3> QED
      BY <1>0, <3>1, PanelMoves
  <2>2. CASE on_flag[at] # 1
    BY <1>5, <2>2 DEF ReadRequest
  <2> QED
    BY <2>1, <2>2
<1>6. CASE Apply
  <2>1. CASE want = 1
    <3>1. Panel!Light(d)
      BY <1>0, <1>6, <2>1 DEF Apply, Tell, Done, Panel!Light
    <3> QED
      BY <1>0, <3>1, PanelMoves
  <2>2. CASE want # 1
    <3>1. Panel!Darken(d)
      BY <1>0, <1>6, <2>2 DEF Apply, Tell, Done, Panel!Darken
    <3> QED
      BY <1>0, <3>1, PanelMoves
  <2> QED
    BY <2>1, <2>2
<1>7. CASE Disarmed
  <2>1. Panel!Darken(d)
    BY <1>0, <1>7 DEF Disarmed, Tell, Done, Panel!Darken
  <2> QED
    BY <1>0, <2>1, PanelMoves
<1>8. CASE Check
  BY <1>8 DEF Check, Panel!Next, Panel!Close
<1>9. CASE RoomChanges
  BY <1>9 DEF RoomChanges
<1>10. CASE Ask
  BY <1>10 DEF Ask, Panel!Next, Panel!Others
<1>11. CASE Quit
  BY <1>11 DEF Quit, Panel!Next, Panel!Others
<1>12. CASE UNCHANGED vars
  BY <1>12 DEF vars
<1> QED
  BY <1>1, <1>2, <1>3, <1>4, <1>5, <1>6, <1>7, <1>8, <1>9, <1>10, <1>11, <1>12
  DEF Next, Thread

(***************************************************************************)
(* alarm.c keeps the safety part of the panel's promise.                   *)
(***************************************************************************)
THEOREM AlarmImplementsPanel == Spec => PanelSafety
<1>1. Init => Panel!Init
  BY DEF Init, Panel!Init, intent, life
<1>2. AlarmInv /\ [Next]_vars => [Panel!Next]_(Panel!vars)
  BY PanelStep
<1> QED
  BY AlarmInvariant, <1>1, <1>2, PTL DEF Spec, PanelSafety, Panel!Safety

=============================================================================
