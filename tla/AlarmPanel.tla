------------------------------ MODULE AlarmPanel ------------------------------
(***************************************************************************)
(* What the other threads may expect of func_lm75a.  The repository has    *)
(* two definitions of it, in alarm.c and in alarm_copy.c, and the archive  *)
(* libalarm.a holds both; this is the part of their behaviour that does    *)
(* not depend on which one is linked.                                      *)
(***************************************************************************)

CONSTANT Devices

VARIABLES
  dev,         \* is each device "on" or "off"?
  temp,        \* the last reading, "cool" or "hot"
  on_flag,     \* 1 for each device somebody wants on
  flag_alarm,  \* 1 once the operator has quit
  intent,      \* has the thread seen on_flag at 1 and not yet acted on it?
  life         \* "opening", "open", "closed" or "aborted"

vars == <<dev, temp, on_flag, flag_alarm, intent, life>>

Init ==
  /\ dev \in [Devices -> {"on", "off"}]
  /\ temp = "cool"
  /\ on_flag = [d \in Devices |-> 0]
  /\ flag_alarm = 0
  /\ intent = [d \in Devices |-> FALSE]
  /\ life = "opening"

Open ==
  /\ life = "opening"
  /\ life' \in {"open", "aborted"}
  /\ UNCHANGED <<dev, temp, on_flag, flag_alarm, intent>>

Feel ==
  /\ life = "open"
  /\ temp' \in {"cool", "hot"}
  /\ UNCHANGED <<dev, on_flag, flag_alarm, intent, life>>

Intend(d) ==
  /\ life = "open"
  /\ on_flag[d] = 1 \/ temp = "hot"
  /\ intent' = [intent EXCEPT ![d] = TRUE]
  /\ UNCHANGED <<dev, temp, on_flag, flag_alarm, life>>

\* A device is lit because it is hot or because somebody asked for it.
Light(d) ==
  /\ life = "open"
  /\ intent[d] \/ temp = "hot"
  /\ dev' = [dev EXCEPT ![d] = "on"]
  /\ intent' = [intent EXCEPT ![d] = FALSE]
  /\ UNCHANGED <<temp, on_flag, flag_alarm, life>>

\* It may go dark for a while whatever was asked for.
Darken(d) ==
  /\ life = "open"
  /\ ~intent[d]
  /\ dev' = [dev EXCEPT ![d] = "off"]
  /\ UNCHANGED <<temp, on_flag, flag_alarm, intent, life>>

\* The devices are left as they are, and no intention is left half done.
Close ==
  /\ life = "open" /\ flag_alarm = 1
  /\ \A d \in Devices : ~intent[d]
  /\ life' = "closed"
  /\ UNCHANGED <<dev, temp, on_flag, flag_alarm, intent>>

Others ==
  /\ \/ /\ \E d \in Devices, v \in {0, 1} : on_flag' = [on_flag EXCEPT ![d] = v]
        /\ UNCHANGED flag_alarm
     \/ flag_alarm' = 1 /\ UNCHANGED on_flag
  /\ UNCHANGED <<dev, temp, intent, life>>

Next ==
  \/ Open \/ Feel \/ Close \/ Others
  \/ \E d \in Devices : Intend(d) \/ Light(d) \/ Darken(d)

Safety == Init /\ [][Next]_vars

\* No reason is left for the device to be lit.
NoReason(d) ==
  dev[d] = "on" /\ temp = "cool" /\ on_flag[d] = 0

\* Quitting closes the panel, with no half-done intention in the way.
ClosesWhenTold == life = "open" /\ flag_alarm = 1 ~> life = "closed"

\* A device that nothing asks for goes dark, and quitting closes the panel.
Liveness ==
  /\ \A d \in Devices : WF_vars(NoReason(d) /\ Darken(d))
  /\ ClosesWhenTold

Spec == Safety /\ Liveness

=============================================================================
