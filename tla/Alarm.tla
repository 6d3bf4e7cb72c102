-------------------------------- MODULE Alarm --------------------------------
(***************************************************************************)
(* The alarm thread: func_lm75a of alarm.c.  In each round it reads the    *)
(* temperature, then treats the LED and after it the buzzer, then looks at *)
(* flag_alarm.  A device is armed by a reading below TEMP_VAL; once armed  *)
(* it blinks while it is hot and follows its on-flag while it is cool.     *)
(* The on-flags and flag_alarm are written by other threads at any time.   *)
(***************************************************************************)

CONSTANT
  SensorFails  \* may read() of the sensor fail?

ASSUME SensorAssumption == SensorFails \in BOOLEAN

Devices == {"led", "beep"}
Temps == {"cool", "hot"}   \* below TEMP_VAL, or not

VARIABLES
  pc,          \* where the thread is
  at,          \* the device it is treating
  room,        \* the temperature the sensor measures
  data,        \* the last value read() left, or "garbage" before there is one
  temp,        \* what the thread takes the temperature to be
  armed,       \* led_flag and beep_flag: which devices are armed
  want,        \* the on-flag, between its test and the ioctl() it decides
  dev,         \* what each device was last told
  on_flag,     \* led_on_flag and beep_on_flag
  flag_alarm

localVars == <<at, data, temp, armed, want>>
vars == <<pc, localVars, room, dev, on_flag, flag_alarm>>

\* The driver keeps a device as the last program to use it left it.
Init ==
  /\ pc = "start" /\ at = "led"
  /\ room \in Temps
  /\ data = "garbage" /\ temp = "cool"
  /\ armed = [d \in Devices |-> FALSE]
  /\ want = 0
  /\ dev \in [Devices -> {"on", "off"}]
  /\ on_flag = [d \in Devices |-> 0]
  /\ flag_alarm = 0

-----------------------------------------------------------------------------
(* The thread *)

\* Opening the sensor, the LED and the buzzer; a failure ends the process.
Setup ==
  /\ pc = "start"
  /\ pc' \in {"read", "exited"}
  /\ UNCHANGED <<localVars, room, dev, on_flag, flag_alarm>>

\* The result of read() is not looked at: after a failure data is what it was,
\* and nothing at all in the first round.
Read ==
  /\ pc = "read"
  /\ \/ /\ data' = room /\ temp' = room
     \/ /\ SensorFails
        /\ temp' \in IF data = "garbage" THEN Temps ELSE {data}
        /\ UNCHANGED data
  /\ at' = "led"
  /\ pc' = "device"
  /\ UNCHANGED <<armed, want, room, dev, on_flag, flag_alarm>>

\* After the LED comes the buzzer, and after the buzzer the end of the round.
Done ==
  IF at = "led" THEN at' = "beep" /\ pc' = "device"
                ELSE at' = at /\ pc' = "check"

Tell(s) == dev' = [dev EXCEPT ![at] = s]

\* Armed and hot: the device goes on for 50 ms ...
Sound ==
  /\ pc = "device"
  /\ armed[at] /\ temp = "hot"
  /\ Tell("on")
  /\ pc' = "blink"
  /\ UNCHANGED <<localVars, room, on_flag, flag_alarm>>

\* MUTANT: the blink has no second half.
Silence_StaysOn ==
  /\ pc = "blink"
  /\ Done
  /\ UNCHANGED <<data, temp, armed, want, room, dev, on_flag, flag_alarm>>

\* ... and off for 50 ms.
Silence ==
  /\ pc = "blink"
  /\ Tell("off")
  /\ Done
  /\ UNCHANGED <<data, temp, armed, want, room, on_flag, flag_alarm>>

\* MUTANT: the on-flag of the LED decides for both devices.
ReadRequest_WrongFlag ==
  /\ pc = "device"
  /\ armed[at] /\ temp = "cool"
  /\ want' = on_flag["led"]
  /\ pc' = "apply"
  /\ UNCHANGED <<at, data, temp, armed, room, dev, on_flag, flag_alarm>>

\* Armed and cool: the thread tests the on-flag, without a lock ...
ReadRequest ==
  /\ pc = "device"
  /\ armed[at] /\ temp = "cool"
  /\ want' = on_flag[at]
  /\ pc' = "apply"
  /\ UNCHANGED <<at, data, temp, armed, room, dev, on_flag, flag_alarm>>

\* MUTANT: the branch that turns the device off is missing.
Apply_OnlyOn ==
  /\ pc = "apply"
  /\ IF want = 1 THEN Tell("on") ELSE UNCHANGED dev
  /\ Done
  /\ UNCHANGED <<data, temp, armed, want, room, on_flag, flag_alarm>>

\* ... and tells the device what the flag was.
Apply ==
  /\ pc = "apply"
  /\ Tell(IF want = 1 THEN "on" ELSE "off")
  /\ Done
  /\ UNCHANGED <<data, temp, armed, want, room, on_flag, flag_alarm>>

\* MUTANT: only the LED is armed by a cool reading.
Disarmed_LedOnly ==
  /\ pc = "device"
  /\ ~armed[at]
  /\ Tell("off")
  /\ armed' = [armed EXCEPT !["led"] = (temp = "cool")]
  /\ Done
  /\ UNCHANGED <<data, temp, want, room, on_flag, flag_alarm>>

\* MUTANT: a device that is not armed is not told to be off.
Disarmed_NotTold ==
  /\ pc = "device"
  /\ ~armed[at]
  /\ armed' = [armed EXCEPT ![at] = (temp = "cool")]
  /\ Done
  /\ UNCHANGED <<data, temp, want, room, dev, on_flag, flag_alarm>>

\* Not yet armed: the device is off, and a cool reading arms it.
Disarmed ==
  /\ pc = "device"
  /\ ~armed[at]
  /\ Tell("off")
  /\ armed' = [armed EXCEPT ![at] = (temp = "cool")]
  /\ Done
  /\ UNCHANGED <<data, temp, want, room, on_flag, flag_alarm>>

\* MUTANT: the round is left for another one whatever flag_alarm says.
Check_NeverStops ==
  /\ pc = "check"
  /\ pc' = "read"
  /\ UNCHANGED <<localVars, room, dev, on_flag, flag_alarm>>

\* The end of the round: another one, or the three close() calls.
Check ==
  /\ pc = "check"
  /\ pc' = IF flag_alarm = 1 THEN "closed" ELSE "read"
  /\ UNCHANGED <<localVars, room, dev, on_flag, flag_alarm>>

Thread == Setup \/ Read \/ Sound \/ Silence \/ ReadRequest \/ Apply
            \/ Disarmed \/ Check

-----------------------------------------------------------------------------
(* Its surroundings *)

Running == pc \notin {"closed", "exited"}

RoomChanges ==
  /\ Running
  /\ room' \in Temps
  /\ UNCHANGED <<pc, localVars, dev, on_flag, flag_alarm>>

\* The command thread or the console writes led_on_flag or beep_on_flag.
Ask ==
  /\ Running
  /\ \E d \in Devices, v \in {0, 1} : on_flag' = [on_flag EXCEPT ![d] = v]
  /\ UNCHANGED <<pc, localVars, room, dev, flag_alarm>>

\* Key 'q'.
Quit ==
  /\ Running
  /\ flag_alarm' = 1
  /\ UNCHANGED <<pc, localVars, room, dev, on_flag>>

Next == Thread \/ RoomChanges \/ Ask \/ Quit

Spec == Init /\ [][Next]_vars

\* The thread is scheduled, its naps end and the drivers answer.
FairSpec == Spec /\ WF_vars(Thread)

-----------------------------------------------------------------------------
(* Properties *)

TypeOK ==
  /\ pc \in {"start", "read", "device", "blink", "apply", "check", "closed",
             "exited"}
  /\ at \in Devices
  /\ room \in Temps
  /\ data \in Temps \cup {"garbage"} /\ temp \in Temps
  /\ armed \in [Devices -> BOOLEAN]
  /\ want \in {0, 1}
  /\ dev \in [Devices -> {"on", "off"}]
  /\ on_flag \in [Devices -> {0, 1}]
  /\ flag_alarm \in {0, 1}

\* Which devices have been treated in the present round.
Treated(d) ==
  \/ pc \in {"check", "closed"}
  \/ pc \in {"device", "blink", "apply"} /\ at = "beep" /\ d = "led"

\* The two devices are armed by the same reading: never one of them alone but
\* between the two halves of the round in which a cool reading arms them
\* (alarm.c:65 and :88 test the same temp).
ArmedTogether ==
  armed["led"] # armed["beep"] =>
    /\ armed["led"] /\ temp = "cool"
    /\ pc = "device" /\ at = "beep"

\* Once a device has been treated in a round whose reading was hot it is dark,
\* whatever the on-flags say and said: the alarm ends every blink it begins, and
\* a device lit on request does not stay lit through it (alarm.c:45-51, :63).
\* So the program, when it stops in the heat, leaves nothing sounding.
DarkAfterHotRound ==
  \A d \in Devices : temp = "hot" /\ Treated(d) => dev[d] = "off"

\* A device that is not armed is dark once it was treated, so whatever an earlier
\* run left on is off; and no blink or request is under way for it.
UnarmedIsDark ==
  /\ \A d \in Devices : ~armed[d] /\ Treated(d) => dev[d] = "off"
  /\ pc \in {"blink", "apply"} => armed[at]
  /\ pc = "blink" => temp = "hot"
  /\ pc = "apply" => temp = "cool"

\* A round whose reading was cool leaves every device it treated armed.
ArmedByCoolRound ==
  \A d \in Devices : temp = "cool" /\ Treated(d) => armed[d]

\* The inductive invariant of the thread.
AlarmInv == TypeOK /\ ArmedTogether /\ DarkAfterHotRound /\ UnarmedIsDark
              /\ ArmedByCoolRound

\* What the thread promises whichever definition of it is linked.
intent == [d \in Devices |-> pc = "apply" /\ at = d /\ want = 1]
life == CASE pc = "start" -> "opening"
          [] pc = "closed" -> "closed"
          [] pc = "exited" -> "aborted"
          [] OTHER -> "open"

\* Every device is lit for a reason, and left alone once the thread has closed
\* it, in spite of the gap between the test of a flag and the ioctl() after it.
Panel == INSTANCE AlarmPanel WITH
  Devices <- Devices, dev <- dev, temp <- temp, on_flag <- on_flag,
  flag_alarm <- flag_alarm, intent <- intent, life <- life
PanelSafety == Panel!Safety

\* A device nobody wants goes dark, and quitting closes the devices.
PanelLiveness == Panel!Liveness

\* As long as readings are cool a device comes to follow its on-flag for good, whatever state the
\* devices and the arming were in (alarm.c:53-59 and :77-83).
RequestHonoured ==
  \A d \in Devices, v \in {0, 1} :
    <>[](temp = "cool" /\ on_flag[d] = v /\ flag_alarm = 0 /\ pc # "exited") =>
      <>[](dev[d] = IF v = 1 THEN "on" ELSE "off")

\* Once armed, a device blinks for as long as readings are hot, whatever its
\* on-flag says (alarm.c:45-51 and :70-76).
ArmedAlarmBlinks ==
  \A d \in Devices :
    <>[](temp = "hot" /\ armed[d] /\ flag_alarm = 0 /\ pc # "exited") =>
      []<>(dev[d] = "on") /\ []<>(dev[d] = "off")

\* Above the alarm temperature the LED is lit and the buzzer is on (the comments
\* of alarm.c:45 and :70), whether or not it was ever cooler.
HotRaisesAlarm ==
  \A d \in Devices :
    <>[](room = "hot" /\ flag_alarm = 0 /\ pc # "exited") => []<>(dev[d] = "on")

=============================================================================
