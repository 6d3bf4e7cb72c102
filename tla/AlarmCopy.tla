------------------------------ MODULE AlarmCopy ------------------------------
(***************************************************************************)
(* The alarm thread: func_lm75a of alarm_copy.c, the other definition in   *)
(* libalarm.a.  It has no arming.  In each round a device blinks once if   *)
(* the reading is hot or its on-flag is 1, and is off otherwise.           *)
(***************************************************************************)

CONSTANT
  SensorFails  \* may read() of the sensor fail?

ASSUME SensorAssumption == SensorFails \in BOOLEAN

Devices == {"led", "beep"}
Temps == {"cool", "hot"}   \* below TEMP_VAL, or not

VARIABLES
  pc,          \* where the thread is
  at,          \* the device it is treating
  room,        \* the temperature the sensor measures
  data,        \* the last value read() left, or "garbage" before there is one
  temp,        \* what the thread takes the temperature to be
  state,       \* led_state and beep_state
  dev,         \* what each device was last told
  on_flag,     \* led_on_flag and beep_on_flag
  flag_alarm

localVars == <<at, data, temp, state>>
vars == <<pc, localVars, room, dev, on_flag, flag_alarm>>

\* The driver keeps a device as the last program to use it left it.
Init ==
  /\ pc = "start" /\ at = "led"
  /\ room \in Temps
  /\ data = "garbage" /\ temp = "cool"
  /\ state = [d \in Devices |-> "off"]
  /\ dev \in [Devices -> {"on", "off"}]
  /\ on_flag = [d \in Devices |-> 0]
  /\ flag_alarm = 0

-----------------------------------------------------------------------------
(* The thread *)

\* Opening the sensor, the LED and the buzzer; a failure ends the process.
Setup ==
  /\ pc = "start"
  /\ pc' \in {"read", "exited"}
  /\ UNCHANGED <<localVars, room, dev, on_flag, flag_alarm>>

\* The result of read() is not looked at: after a failure data is what it was,
\* and nothing at all in the first round.
Read ==
  /\ pc = "read"
  /\ \/ /\ data' = room /\ temp' = room
     \/ /\ SensorFails
        /\ temp' \in IF data = "garbage" THEN Temps ELSE {data}
        /\ UNCHANGED data
  /\ at' = "led"
  /\ pc' = "device"
  /\ UNCHANGED <<state, room, dev, on_flag, flag_alarm>>

\* After the LED comes the buzzer, and after the buzzer the end of the round.
Done ==
  IF at = "led" THEN at' = "beep" /\ pc' = "device"
                ELSE at' = at /\ pc' = "check"

Tell(s) == dev' = [dev EXCEPT ![at] = s]

\* MUTANT: the state is set and never reset.
Decide_Sticky ==
  /\ pc = "device"
  /\ state' = IF temp = "hot" \/ on_flag[at] = 1
              THEN [state EXCEPT ![at] = "on"] ELSE state
  /\ pc' = "apply"
  /\ UNCHANGED <<at, data, temp, room, dev, on_flag, flag_alarm>>

\* MUTANT: the on-flag is not looked at.
Decide_HotOnly ==
  /\ pc = "device"
  /\ state' = [state EXCEPT ![at] = IF temp = "hot" THEN "on" ELSE "off"]
  /\ pc' = "apply"
  /\ UNCHANGED <<at, data, temp, room, dev, on_flag, flag_alarm>>

\* MUTANT: the reading is not looked at.
Decide_AskedOnly ==
  /\ pc = "device"
  /\ state' = [state EXCEPT ![at] = IF on_flag[at] = 1 THEN "on" ELSE "off"]
  /\ pc' = "apply"
  /\ UNCHANGED <<at, data, temp, room, dev, on_flag, flag_alarm>>

\* The reading and, without a lock, the on-flag are tested ...
Decide ==
  /\ pc = "device"
  /\ state' = [state EXCEPT ![at] =
                 IF temp = "hot" \/ on_flag[at] = 1 THEN "on" ELSE "off"]
  /\ pc' = "apply"
  /\ UNCHANGED <<at, data, temp, room, dev, on_flag, flag_alarm>>

\* ... and the device is told: on for 50 ms, or off.
Apply ==
  /\ pc = "apply"
  /\ Tell(state[at])
  /\ IF state[at] = "on" THEN pc' = "blink" /\ UNCHANGED at ELSE Done
  /\ UNCHANGED <<data, temp, state, room, on_flag, flag_alarm>>

\* MUTANT: the blink has no second half.
Silence_StaysOn ==
  /\ pc = "blink"
  /\ Done
  /\ UNCHANGED <<data, temp, state, room, dev, on_flag, flag_alarm>>

\* Off for 50 ms.
Silence ==
  /\ pc = "blink"
  /\ Tell("off")
  /\ Done
  /\ UNCHANGED <<data, temp, state, room, on_flag, flag_alarm>>

\* MUTANT: the round is left for another one whatever flag_alarm says.
Check_NeverStops ==
  /\ pc = "check"
  /\ pc' = "read"
  /\ UNCHANGED <<localVars, room, dev, on_flag, flag_alarm>>

\* The end of the round: another one, or the three close() calls.
Check ==
  /\ pc = "check"
  /\ pc' = IF flag_alarm = 1 THEN "closed" ELSE "read"
  /\ UNCHANGED <<localVars, room, dev, on_flag, flag_alarm>>

Thread == Setup \/ Read \/ Decide \/ Apply \/ Silence \/ Check

-----------------------------------------------------------------------------
(* Its surroundings *)

Running == pc \notin {"closed", "exited"}

RoomChanges ==
  /\ Running
  /\ room' \in Temps
  /\ UNCHANGED <<pc, localVars, dev, on_flag, flag_alarm>>

\* The command thread or the console writes led_on_flag or beep_on_flag.
Ask ==
  /\ Running
  /\ \E d \in Devices, v \in {0, 1} : on_flag' = [on_flag EXCEPT ![d] = v]
  /\ UNCHANGED <<pc, localVars, room, dev, flag_alarm>>

\* Key 'q'.
Quit ==
  /\ Running
  /\ flag_alarm' = 1
  /\ UNCHANGED <<pc, localVars, room, dev, on_flag>>

Next == Thread \/ RoomChanges \/ Ask \/ Quit

Spec == Init /\ [][Next]_vars

\* The thread is scheduled, its naps end and the drivers answer.
FairSpec == Spec /\ WF_vars(Thread)

-----------------------------------------------------------------------------
(* Properties *)

TypeOK ==
  /\ pc \in {"start", "read", "device", "apply", "blink", "check", "closed",
             "exited"}
  /\ at \in Devices
  /\ room \in Temps
  /\ data \in Temps \cup {"garbage"} /\ temp \in Temps
  /\ state \in [Devices -> {"on", "off"}]
  /\ dev \in [Devices -> {"on", "off"}]
  /\ on_flag \in [Devices -> {0, 1}]
  /\ flag_alarm \in {0, 1}

Treated(d) ==
  \/ pc \in {"check", "closed"}
  \/ pc \in {"device", "apply", "blink"} /\ at = "beep" /\ d = "led"

\* Every round leaves the devices it has treated dark, whatever it was asked and
\* whatever it read: however the thread is stopped nothing stays lit
\* (alarm_copy.c:53, :57, :71, :74 all come before the next reading).
DarkAfterEachRound == \A d \in Devices : Treated(d) => dev[d] = "off"

\* The inductive invariant of the thread.
CopyInv ==
  /\ TypeOK
  /\ DarkAfterEachRound
  /\ pc = "blink" => state[at] = "on"

\* The promise both definitions of func_lm75a keep.
intent == [d \in Devices |-> pc = "apply" /\ at = d /\ state[d] = "on"]
life == CASE pc = "start" -> "opening"
          [] pc = "closed" -> "closed"
          [] pc = "exited" -> "aborted"
          [] OTHER -> "open"

\* Every device is lit for a reason, and left alone once the thread has closed
\* it, in spite of the gap between the test of a flag and the ioctl() after it.
Panel == INSTANCE AlarmPanel WITH
  Devices <- Devices, dev <- dev, temp <- temp, on_flag <- on_flag,
  flag_alarm <- flag_alarm, intent <- intent, life <- life
PanelSafety == Panel!Safety

\* A device nobody wants goes dark, and quitting closes the devices.
PanelLiveness == Panel!Liveness

\* A device somebody wants on blinks for as long as they do
\* (alarm_copy.c:44-55 and :61-72).
RequestBlinks ==
  \A d \in Devices :
    <>[](on_flag[d] = 1 /\ flag_alarm = 0 /\ pc # "exited") =>
      []<>(dev[d] = "on") /\ []<>(dev[d] = "off")

\* Both devices are lit again and again while readings are hot (the if of
\* alarm_copy.c:44 and of :61), from the first round on.
HotRaisesAlarm ==
  \A d \in Devices :
    <>[](temp = "hot" /\ flag_alarm = 0 /\ pc # "exited") => []<>(dev[d] = "on")

=============================================================================
