------------------------------- MODULE Program -------------------------------
(***************************************************************************)
(* The whole process as main.c runs it: main creates four threads and      *)
(* joins them, the console thread obeys keys, and the threads meet in the  *)
(* global flags.  The alarm thread is the one AlarmPanel describes, so     *)
(* what holds here holds with either definition of func_lm75a; of the      *)
(* picture and command threads only that they never return and what they   *)
(* may do to the process and to the flags.                                 *)
(***************************************************************************)
EXTENDS Integers, Sequences

CONSTANT
  CreateFails  \* may pthread_create fail for want of resources?

ASSUME ProgramAssumption == CreateFails \in BOOLEAN

Devices == {"led", "beep"}

Creations == <<"cmd", "sender", "recv", "lm75a">>
Joins == <<"lm75a", "cmd", "sender", "recv">>
Threads == {"cmd", "sender", "recv", "lm75a"}

VARIABLES
  step,        \* main: the next of its 4 creations and 4 joins; 9, it returned
  thread,      \* each thread: "none", "running", "failed" or "ended"
  process,     \* "up", or "exited"
  console,     \* the console thread is in "getchar", in "gprs", or past "quit"
  cFlag,
  dev, temp, on_flag, flag_alarm, intent, life   \* see AlarmPanel

mainVars == <<step, thread, process>>
panelVars == <<dev, temp, intent, life>>
vars == <<mainVars, console, cFlag, panelVars, on_flag, flag_alarm>>

Panel == INSTANCE AlarmPanel WITH
  Devices <- Devices, dev <- dev, temp <- temp, on_flag <- on_flag,
  flag_alarm <- flag_alarm, intent <- intent, life <- life

Init ==
  /\ step = 1
  /\ thread = [t \in Threads |-> "none"]
  /\ process = "up"
  /\ console = "getchar"
  /\ cFlag = 0
  /\ Panel!Init

Runs(t) == process = "up" /\ thread[t] = "running"

-----------------------------------------------------------------------------
(* main *)

\* The result is compared with -1, but a failure is a positive number: main goes
\* on to the next creation in any case.
Create ==
  /\ process = "up" /\ step \in 1 .. 4
  /\ thread' \in {[thread EXCEPT ![Creations[step]] = s] :
                    s \in {"running"} \cup IF CreateFails THEN {"failed"} ELSE {}}
  /\ step' = step + 1
  /\ UNCHANGED <<process, console, cFlag, panelVars, on_flag, flag_alarm>>

\* MUTANT: main does not wait for the thread.
Join_NoWait ==
  /\ process = "up" /\ step \in 5 .. 8
  /\ step' = step + 1
  /\ process' = IF step' = 9 THEN "exited" ELSE "up"
  /\ UNCHANGED <<thread, console, cFlag, panelVars, on_flag, flag_alarm>>

\* MUTANT: the threads are joined in the order they were made in.
Join_ServersFirst ==
  /\ process = "up" /\ step \in 5 .. 8
  /\ thread[Creations[step - 4]] = "ended"
  /\ step' = step + 1
  /\ process' = IF step' = 9 THEN "exited" ELSE "up"
  /\ UNCHANGED <<thread, console, cFlag, panelVars, on_flag, flag_alarm>>

\* pthread_join of a thread that was never made is given an uninitialised id: it
\* returns at once or brings the process down.  After the last join main
\* returns, which ends the process and every thread with it.
Join ==
  /\ process = "up" /\ step \in 5 .. 8
  /\ LET t == Joins[step - 4] IN
       \/ /\ thread[t] \in {"ended", "failed"}
          /\ step' = step + 1
          /\ process' = IF step' = 9 THEN "exited" ELSE "up"
       \/ /\ thread[t] = "failed"
          /\ process' = "exited"
          /\ UNCHANGED step
  /\ UNCHANGED <<thread, console, cFlag, panelVars, on_flag, flag_alarm>>

-----------------------------------------------------------------------------
(* The console thread: one action per group of keys.  Other keys, and the    *)
(* end of the input, which getchar() then returns for ever, change nothing.  *)

AtKeys == Runs("cmd") /\ console = "getchar"

\* 's' and 'r'.
KeyPictures ==
  /\ AtKeys
  /\ cFlag' \in {0, 1}
  /\ UNCHANGED <<mainVars, console, panelVars, on_flag, flag_alarm>>

\* 'o' and 'x' for the buzzer, 'l' and 'k' for the LED.
KeyDevice ==
  /\ AtKeys
  /\ \E d \in Devices, v \in {0, 1} : on_flag' = [on_flag EXCEPT ![d] = v]
  /\ UNCHANGED <<mainVars, console, cFlag, panelVars, flag_alarm>>

\* 'g'.
KeyGprs ==
  /\ AtKeys
  /\ console' = "gprs"
  /\ UNCHANGED <<mainVars, cFlag, panelVars, on_flag, flag_alarm>>

\* gprs() comes back, or ends the process when the modem cannot be opened.
GprsReturns ==
  /\ Runs("cmd") /\ console = "gprs"
  /\ console' = "getchar"
  /\ process' \in {"up", "exited"}
  /\ UNCHANGED <<step, thread, cFlag, panelVars, on_flag, flag_alarm>>

\* 'q': flag_alarm is set, and no key is read any more.
KeyQuit ==
  /\ AtKeys
  /\ flag_alarm' = 1
  /\ console' = "quit"
  /\ UNCHANGED <<mainVars, cFlag, panelVars, on_flag>>

\* pthread_exit; the exit(1) that follows it is never reached.
ConsoleExits ==
  /\ Runs("cmd") /\ console = "quit"
  /\ thread' = [thread EXCEPT !["cmd"] = "ended"]
  /\ UNCHANGED <<step, process, console, cFlag, panelVars, on_flag, flag_alarm>>

-----------------------------------------------------------------------------
(* The other threads *)

\* A command from the network: 'S', 's', 'B' or 'b'.
RecvCommand ==
  /\ Runs("recv")
  /\ \E d \in Devices, v \in {0, 1} : on_flag' = [on_flag EXCEPT ![d] = v]
  /\ UNCHANGED <<mainVars, console, cFlag, panelVars, flag_alarm>>

\* A call of the picture or the command thread fails that ends the process when
\* it does: the camera, a socket, accept(), the modem.
ServerFails ==
  /\ Runs("sender") \/ Runs("recv")
  /\ process' = "exited"
  /\ UNCHANGED <<step, thread, console, cFlag, panelVars, on_flag, flag_alarm>>

\* The alarm thread opens its devices, or ends the process.
AlarmOpens ==
  /\ Runs("lm75a")
  /\ Panel!Open
  /\ process' = IF life' = "aborted" THEN "exited" ELSE "up"
  /\ UNCHANGED <<step, thread, console, cFlag>>

AlarmWorks ==
  /\ Runs("lm75a")
  /\ \/ Panel!Feel
     \/ \E d \in Devices : Panel!Intend(d) \/ Panel!Light(d) \/ Panel!Darken(d)
  /\ UNCHANGED <<mainVars, console, cFlag>>

\* MUTANT: the thread goes on after it has closed its devices.
AlarmCloses_Returns ==
  /\ Runs("lm75a")
  /\ Panel!Close
  /\ UNCHANGED <<mainVars, console, cFlag>>

\* It finds flag_alarm at 1, closes its devices and ends.
AlarmCloses ==
  /\ Runs("lm75a")
  /\ Panel!Close
  /\ thread' = [thread EXCEPT !["lm75a"] = "ended"]
  /\ UNCHANGED <<step, process, console, cFlag>>

Main == Create \/ Join
Console == KeyPictures \/ KeyDevice \/ KeyGprs \/ GprsReturns \/ KeyQuit
             \/ ConsoleExits
Others == RecvCommand \/ ServerFails \/ AlarmOpens \/ AlarmWorks \/ AlarmCloses

Next == Main \/ Console \/ Others

Spec == Init /\ [][Next]_vars

\* While the process is up its threads are scheduled, and the alarm thread closes
\* its devices when it is told to (what PanelLiveness of Alarm and of AlarmCopy
\* says of it).  No key and no command is owed.
FairSpec ==
  /\ Spec
  /\ WF_vars(Main) /\ WF_vars(ConsoleExits) /\ WF_vars(AlarmOpens)
  /\ (process = "up" /\ life = "open" /\ flag_alarm = 1)
       ~> (process = "exited" \/ life = "closed")

-----------------------------------------------------------------------------
(* Properties *)

TypeOK ==
  /\ step \in 1 .. 9
  /\ thread \in [Threads -> {"none", "running", "failed", "ended"}]
  /\ process \in {"up", "exited"}
  /\ console \in {"getchar", "gprs", "quit"}
  /\ cFlag \in {0, 1}
  /\ dev \in [Devices -> {"on", "off"}]
  /\ temp \in {"cool", "hot"}
  /\ on_flag \in [Devices -> {0, 1}]
  /\ flag_alarm \in {0, 1}
  /\ intent \in [Devices -> BOOLEAN]
  /\ life \in {"opening", "open", "closed", "aborted"}

\* main is as far as it has created threads, and has joined those that are over.
CreatedInOrder == \A i \in 1 .. 4 : step > i <=> thread[Creations[i]] # "none"
JoinedAreOver ==
  \A i \in 1 .. 4 : step > i + 4 => thread[Joins[i]] \in {"ended", "failed"}

\* The key that ends the console thread is what stops the alarm thread, and nothing
\* else does either, the alarm thread ends once it has closed its devices, having been told to,
\* and the servers never end.
LivesAgree ==
  /\ flag_alarm = 1 <=> console = "quit"
  /\ thread["cmd"] = "ended" => console = "quit"
  /\ console = "quit" => thread["cmd"] \in {"running", "ended"}
  /\ console = "gprs" => thread["cmd"] = "running"
  /\ thread["lm75a"] = "ended" <=> life = "closed"
  /\ life \in {"open", "aborted"} => thread["lm75a"] = "running"
  /\ life = "closed" => flag_alarm = 1 /\ \A d \in Devices : ~intent[d]
  /\ thread["sender"] # "ended" /\ thread["recv"] # "ended"

\* The inductive invariant of the process: what main, the console and the alarm
\* thread know of each other without ever asking (main.c:101-107, :119-163).  An
\* alarm thread that could not open its devices has taken the process with it.
ProgramInv ==
  /\ TypeOK
  /\ CreatedInOrder /\ JoinedAreOver /\ LivesAgree
  /\ step = 9 \/ life = "aborted" => process = "exited"

\* main returns, and so cuts off whatever still runs, only when no thread does:
\* it joins all four, whichever of them failed to start (main.c:155-159).
NoThreadCutOff == step = 9 => \A t \in Threads : thread[t] \in {"ended", "failed"}

\* Once the operator quits, whenever that is and whichever threads failed to start,
\* main does not stop at a join for want of anybody who would let it go on: the
\* process ends, or a server that runs is all it waits for (main.c:105, :156-159).
QuitReachesServers ==
  flag_alarm = 1 ~>
    \/ process = "exited"
    \/ step \in {7, 8} /\ thread[Joins[step - 4]] = "running"

=============================================================================
