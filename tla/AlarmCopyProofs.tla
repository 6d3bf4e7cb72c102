--------------------------- MODULE AlarmCopyProofs ---------------------------
(***************************************************************************)
(* Theorems about the alarm thread of alarm_copy.c, with a sensor that may *)
(* or may not fail.                                                        *)
(***************************************************************************)
EXTENDS AlarmCopy, TLAPS

(***************************************************************************)
(* The invariant of the thread holds in every initial state.               *)
(***************************************************************************)
LEMMA CopyInvInit == Init => CopyInv
  BY DEF Init, CopyInv, TypeOK, DarkAfterEachRound, Treated, Devices, Temps

(***************************************************************************)
(* Every step of the thread, of the room and of the other threads keeps    *)
(* it.                                                                     *)
(***************************************************************************)
LEMMA CopyInvStep ==
  ASSUME CopyInv, [Next]_vars
  PROVE  CopyInv'
<1> USE DEF CopyInv, TypeOK, DarkAfterEachRound, Treated, Devices, Temps, localVars
<1>1. CASE Setup
  BY <1>1 DEF Setup
<1>2. CASE Read
  BY <1>2 DEF Read
<1>3. CASE Decide
  BY <1>3 DEF Decide
<1>4. CASE Apply
  BY <1>4 DEF Apply, Tell, Done
<1>5. CASE Silence
  BY <1>5 DEF Silence, Tell, Done
<1>6. CASE Check
  BY <1>6 DEF Check
<1>7. CASE RoomChanges
  BY <1>7 DEF RoomChanges
<1>8. CASE Ask
  BY <1>8 DEF Ask
<1>9. CASE Quit
  BY <1>9 DEF Quit
<1>10. CASE UNCHANGED vars
  BY <1>10 DEF vars
<1> QED
  BY <1>1, <1>2, <1>3, <1>4, <1>5, <1>6, <1>7, <1>8, <1>9, <1>10 DEF Next, Thread

(***************************************************************************)
(* Every round, the last one too, leaves the devices dark.                 *)
(***************************************************************************)
THEOREM CopyInvariant == Spec => [](CopyInv /\ DarkAfterEachRound)
<1>1. CopyInv /\ [Next]_vars => CopyInv'
  BY CopyInvStep
<1>2. CopyInv => DarkAfterEachRound
  BY DEF CopyInv
<1> QED
  BY CopyInvInit, <1>1, <1>2, PTL DEF Spec

(***************************************************************************)
(* What is done to one device is a step of the panel.                      *)
(***************************************************************************)
LEMMA PanelMoves ==
  ASSUME NEW d \in Devices
  PROVE  /\ Panel!Intend(d) => Panel!Next
         /\ Panel!Light(d) => Panel!Next
         /\ Panel!Darken(d) => Panel!Next
  BY DEF Panel!Next

(***************************************************************************)
(* Every step of the thread is one the panel allows, or none of its        *)
(* business.                                                               *)
(***************************************************************************)
LEMMA PanelStep ==
  ASSUME CopyInv, [Next]_vars
  PROVE  [Panel!Next]_(Panel!vars)
<1> USE DEF CopyInv, TypeOK, Devices, Temps, localVars, intent, life, Panel!vars
<1>0. PICK d \in Devices : d = at
  OBVIOUS
<1>1. CASE Setup
  BY <1>1 DEF Setup, Panel!Next, Panel!Open
<1>2. CASE Read
  BY <1>2 DEF Read, Panel!Next, Panel!Feel
<1>3. CASE Decide
  <2>1. CASE temp = "hot" \/ on_flag[at] = 1
    <3>1. Panel!Intend(d)
      BY <1>0, <1>3, <2>1 DEF Decide, Panel!Intend
    <3> QED
      BY <1>0, <3>1, PanelMoves
  <2>2. CASE ~(temp = "hot" \/ on_flag[at] = 1)
    BY <1>3, <2>2 DEF Decide
  <2> QED
    BY <2>1, <2>2
<1>4. CASE Apply
  <2>1. CASE state[at] = "on"
    <3>1. Panel!Light(d)
      BY <1>0, <1>4, <2>1 DEF Apply, Tell, Panel!Light
    <3> QED
      BY <1>0, <3>1, PanelMoves
  <2>2. CASE state[at] = "off"
    <3>1. Panel!Darken(d)
      BY <1>0, <1>4, <2>2 DEF Apply, Tell, Done, Panel!Darken
    <3> QED
      BY <1>0, <3>1, PanelMoves
  <2> QED
    BY <2>1, <2>2
<1>5. CASE Silence
  <2>1. Panel!Darken(d)
    BY <1>0, <1>5 DEF Silence, Tell, Done, Panel!Darken
  <2> QED
    BY <1>0, <2>1, PanelMoves
<1>6. CASE Check
  BY <1>6 DEF Check, Panel!Next, Panel!Close
<1>7. CASE RoomChanges
  BY <1>7 DEF RoomChanges
<1>8. CASE Ask
  BY <1>8 DEF Ask, Panel!Next, Panel!Others
<1>9. CASE Quit
  BY <1>9 DEF Quit, Panel!Next, Panel!Others
<1>10. CASE UNCHANGED vars
  BY <1>10 DEF vars
<1> QED
  BY <1>1, <1>2, <1>3, <1>4, <1>5, <1>6, <1>7, <1>8, <1>9, <1>10 DEF Next, Thread

(***************************************************************************)
(* alarm_copy.c keeps the safety part of the panel's promise, the same one *)
(* as alarm.c.                                                             *)
(***************************************************************************)
THEOREM CopyImplementsPanel == Spec => PanelSafety
<1>1. Init => Panel!Init
  BY DEF Init, Panel!Init, intent, life, Devices
<1>2. CopyInv /\ [Next]_vars => [Panel!Next]_(Panel!vars)
  BY PanelStep
<1> QED
  BY CopyInvariant, <1>1, <1>2, PTL DEF Spec, PanelSafety, Panel!Safety

=============================================================================
