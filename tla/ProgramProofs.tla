---------------------------- MODULE ProgramProofs ----------------------------
(***************************************************************************)
(* Theorems about the process as main.c runs it.                           *)
(***************************************************************************)
EXTENDS Program, TLAPS

(***************************************************************************)
(* The invariant holds before the first creation.                          *)
(***************************************************************************)
LEMMA ProgramInvInit == Init => ProgramInv
<1> SUFFICES ASSUME Init PROVE ProgramInv
  OBVIOUS
<1>1. /\ step = 1 /\ thread = [t \in Threads |-> "none"] /\ process = "up"
      /\ console = "getchar" /\ cFlag = 0
      /\ dev \in [Devices -> {"on", "off"}] /\ temp = "cool"
      /\ on_flag = [d \in Devices |-> 0] /\ flag_alarm = 0
      /\ intent = [d \in Devices |-> FALSE] /\ life = "opening"
  BY DEF Init, Panel!Init
<1>2. intent \in [Devices -> BOOLEAN]
  BY <1>1
<1>3. TypeOK
  BY <1>1, <1>2 DEF TypeOK
<1>4. CreatedInOrder /\ JoinedAreOver
  BY <1>1 DEF CreatedInOrder, JoinedAreOver, Creations, Threads
<1>5. LivesAgree
  BY <1>1 DEF LivesAgree, Threads
<1> QED
  BY <1>1, <1>3, <1>4, <1>5 DEF ProgramInv

(***************************************************************************)
(* main creates the next thread, or fails to.                              *)
(***************************************************************************)
LEMMA CreateStep ==
  ASSUME ProgramInv, Create
  PROVE  ProgramInv'
<1>i. TypeOK /\ CreatedInOrder /\ JoinedAreOver /\ LivesAgree
  BY DEF ProgramInv
<1>1. /\ step \in 1 .. 4 /\ step' = step + 1 /\ process = "up"
      /\ UNCHANGED <<process, console, cFlag, dev, temp, intent, life, on_flag, flag_alarm>>
  BY DEF Create, panelVars
<1>2. PICK s \in {"running", "failed"} : thread' = [thread EXCEPT ![Creations[step]] = s]
  BY DEF Create
<1>3. thread \in [Threads -> {"none", "running", "failed", "ended"}] /\ Creations[step] \in Threads
  BY <1>i, <1>1 DEF TypeOK, Creations, Threads
<1>4. thread[Creations[step]] = "none"
  BY <1>i, <1>1 DEF CreatedInOrder
<1>5. /\ thread' \in [Threads -> {"none", "running", "failed", "ended"}]
      /\ \A t \in Threads : thread'[t] = IF t = Creations[step] THEN s ELSE thread[t]
  BY <1>2, <1>3
<1>6. intent' \in [Devices -> BOOLEAN]
  BY <1>i, <1>1 DEF TypeOK
<1>7. TypeOK'
  BY <1>i, <1>1, <1>5, <1>6 DEF TypeOK
<1>8. CreatedInOrder'
  <2>1. \A i \in 1 .. 4 : Creations[i] \in Threads /\ (Creations[i] = Creations[step] <=> i = step)
    BY <1>1 DEF Creations, Threads
  <2>2. \A i \in 1 .. 4 : step + 1 > i <=> step > i \/ i = step
    BY <1>1
  <2> QED
    BY <1>i, <1>1, <1>5, <2>1, <2>2 DEF CreatedInOrder
<1>9. JoinedAreOver'
  BY <1>1 DEF JoinedAreOver
<1>10. LivesAgree'
  BY <1>i, <1>1, <1>4, <1>5 DEF LivesAgree, Threads
<1> QED
  BY <1>1, <1>7, <1>8, <1>9, <1>10 DEF ProgramInv

(***************************************************************************)
(* main goes on when a thread is over, returns, or is brought down.        *)
(***************************************************************************)
LEMMA JoinStep ==
  ASSUME ProgramInv, Join
  PROVE  ProgramInv'
<1>i. TypeOK /\ CreatedInOrder /\ JoinedAreOver /\ LivesAgree
  BY DEF ProgramInv
<1>1. /\ step \in 5 .. 8 /\ process = "up"
      /\ UNCHANGED <<thread, console, cFlag, dev, temp, intent, life, on_flag, flag_alarm>>
      /\ \/ /\ thread[Joins[step - 4]] \in {"ended", "failed"} /\ step' = step + 1
            /\ process' = IF step' = 9 THEN "exited" ELSE "up"
         \/ step' = step /\ process' = "exited"
  BY DEF Join, panelVars
<1>2. intent' \in [Devices -> BOOLEAN]
  BY <1>i, <1>1 DEF TypeOK
<1>3. TypeOK'
  <2>1. step' \in 1 .. 9 /\ process' \in {"up", "exited"}
    BY <1>1
  <2> QED
    BY <1>i, <1>1, <1>2, <2>1 DEF TypeOK
<1>4. CreatedInOrder'
  BY <1>i, <1>1 DEF CreatedInOrder
<1>5. JoinedAreOver'
  BY <1>i, <1>1 DEF JoinedAreOver
<1>6. LivesAgree'
  BY <1>i, <1>1 DEF LivesAgree
<1>7. step' = 9 \/ life' = "aborted" => process' = "exited"
  BY <1>1 DEF ProgramInv
<1> QED
  BY <1>3, <1>4, <1>5, <1>6, <1>7 DEF ProgramInv

(***************************************************************************)
(* Steps that leave the threads and what they know of each other alone.    *)
(***************************************************************************)
LEMMA WorkSteps ==
  ASSUME ProgramInv, UNCHANGED <<step, thread, life, flag_alarm>>,
         process' \in {process, "exited"}, console' \in {"getchar", "gprs", "quit"},
         console' = "quit" <=> console = "quit",
         console' = "gprs" => thread["cmd"] = "running",
         life = "closed" => intent' = intent,
         cFlag' \in {0, 1}, dev' \in [Devices -> {"on", "off"}],
         temp' \in {"cool", "hot"}, on_flag' \in [Devices -> {0, 1}],
         intent' \in [Devices -> BOOLEAN]
  PROVE  ProgramInv'
<1>i. TypeOK /\ CreatedInOrder /\ JoinedAreOver /\ LivesAgree
  BY DEF ProgramInv
<1>1. process' \in {"up", "exited"}
  BY <1>i DEF TypeOK
<1>2. TypeOK'
  BY <1>i, <1>1 DEF TypeOK
<1>3. CreatedInOrder' /\ JoinedAreOver'
  BY <1>i DEF CreatedInOrder, JoinedAreOver
<1>4. LivesAgree'
  BY <1>i DEF LivesAgree
<1>5. step' = 9 \/ life' = "aborted" => process' = "exited"
  BY DEF ProgramInv
<1> QED
  BY <1>2, <1>3, <1>4, <1>5 DEF ProgramInv

(***************************************************************************)
(* Key q raises the flag and leaves the console thread with its exit.      *)
(***************************************************************************)
LEMMA QuitStep ==
  ASSUME ProgramInv, KeyQuit
  PROVE  ProgramInv'
<1>i. TypeOK /\ CreatedInOrder /\ JoinedAreOver /\ LivesAgree
  BY DEF ProgramInv
<1>1. /\ process = "up" /\ thread["cmd"] = "running" /\ console = "getchar"
      /\ flag_alarm' = 1 /\ console' = "quit"
      /\ UNCHANGED <<step, thread, process, cFlag, dev, temp, intent, life, on_flag>>
  BY DEF KeyQuit, AtKeys, Runs, mainVars, panelVars
<1>2. intent' \in [Devices -> BOOLEAN]
  BY <1>i, <1>1 DEF TypeOK
<1>3. TypeOK'
  BY <1>i, <1>1, <1>2 DEF TypeOK
<1>4. CreatedInOrder' /\ JoinedAreOver'
  BY <1>i, <1>1 DEF CreatedInOrder, JoinedAreOver
<1>5. LivesAgree'
  BY <1>i, <1>1 DEF LivesAgree
<1> QED
  BY <1>1, <1>3, <1>4, <1>5 DEF ProgramInv

(***************************************************************************)
(* The console thread ends, with the flag raised before.                   *)
(***************************************************************************)
LEMMA ExitStep ==
  ASSUME ProgramInv, ConsoleExits
  PROVE  ProgramInv'
<1>i. TypeOK /\ CreatedInOrder /\ JoinedAreOver /\ LivesAgree
  BY DEF ProgramInv
<1>1. /\ process = "up" /\ thread["cmd"] = "running" /\ console = "quit"
      /\ thread' = [thread EXCEPT !["cmd"] = "ended"]
      /\ UNCHANGED <<step, process, console, cFlag, dev, temp, intent, life, on_flag, flag_alarm>>
  BY DEF ConsoleExits, Runs, panelVars
<1>2. /\ thread' \in [Threads -> {"none", "running", "failed", "ended"}]
      /\ \A t \in Threads : thread'[t] = IF t = "cmd" THEN "ended" ELSE thread[t]
  BY <1>i, <1>1 DEF TypeOK
<1>3. intent' \in [Devices -> BOOLEAN]
  BY <1>i, <1>1 DEF TypeOK
<1>4. TypeOK'
  BY <1>i, <1>1, <1>2, <1>3 DEF TypeOK
<1>5. CreatedInOrder' /\ JoinedAreOver'
  <2>1. \A i \in 1 .. 4 : Creations[i] \in Threads /\ Joins[i] \in Threads
    BY DEF Creations, Joins, Threads
  <2> QED
    BY <1>i, <1>1, <1>2, <2>1 DEF CreatedInOrder, JoinedAreOver
<1>6. LivesAgree'
  BY <1>i, <1>1, <1>2 DEF LivesAgree, Threads
<1> QED
  BY <1>1, <1>4, <1>5, <1>6 DEF ProgramInv

(***************************************************************************)
(* The alarm thread opens its devices or takes the process with it.        *)
(***************************************************************************)
LEMMA OpensStep ==
  ASSUME ProgramInv, AlarmOpens
  PROVE  ProgramInv'
<1>i. TypeOK /\ CreatedInOrder /\ JoinedAreOver /\ LivesAgree
  BY DEF ProgramInv
<1>1. /\ process = "up" /\ thread["lm75a"] = "running" /\ life = "opening"
      /\ life' \in {"open", "aborted"}
      /\ process' = IF life' = "aborted" THEN "exited" ELSE "up"
      /\ UNCHANGED <<step, thread, console, cFlag, dev, temp, intent, on_flag, flag_alarm>>
  BY DEF AlarmOpens, Runs, Panel!Open
<1>2. intent' \in [Devices -> BOOLEAN]
  BY <1>i, <1>1 DEF TypeOK
<1>3. TypeOK'
  BY <1>i, <1>1, <1>2 DEF TypeOK
<1>4. CreatedInOrder' /\ JoinedAreOver'
  BY <1>i, <1>1 DEF CreatedInOrder, JoinedAreOver
<1>5. LivesAgree'
  BY <1>i, <1>1 DEF LivesAgree
<1> QED
  BY <1>1, <1>3, <1>4, <1>5 DEF ProgramInv

(***************************************************************************)
(* The alarm thread closes its devices and ends, with nothing half done.   *)
(***************************************************************************)
LEMMA ClosesStep ==
  ASSUME ProgramInv, AlarmCloses
  PROVE  ProgramInv'
<1>i. TypeOK /\ CreatedInOrder /\ JoinedAreOver /\ LivesAgree
  BY DEF ProgramInv
<1>1. /\ process = "up" /\ life = "open" /\ life' = "closed" /\ flag_alarm = 1
      /\ thread' = [thread EXCEPT !["lm75a"] = "ended"] /\ thread["lm75a"] = "running"
      /\ UNCHANGED <<step, process, console, cFlag, dev, temp, intent, on_flag, flag_alarm>>
  BY DEF AlarmCloses, Runs, Panel!Close
<1>2. \A d \in Devices : ~intent[d]
  BY DEF AlarmCloses, Panel!Close
<1>3. /\ thread' \in [Threads -> {"none", "running", "failed", "ended"}]
      /\ \A t \in Threads : thread'[t] = IF t = "lm75a" THEN "ended" ELSE thread[t]
  BY <1>i, <1>1 DEF TypeOK
<1>4. intent' \in [Devices -> BOOLEAN]
  BY <1>i, <1>1 DEF TypeOK
<1>5. TypeOK'
  BY <1>i, <1>1, <1>3, <1>4 DEF TypeOK
<1>6. CreatedInOrder' /\ JoinedAreOver'
  <2>1. \A i \in 1 .. 4 : Creations[i] \in Threads /\ Joins[i] \in Threads
    BY DEF Creations, Joins, Threads
  <2> QED
    BY <1>i, <1>1, <1>3, <2>1 DEF CreatedInOrder, JoinedAreOver
<1>7. \A d \in Devices : ~intent'[d]
  BY <1>1, <1>2
<1>8. LivesAgree'
  BY <1>i, <1>1, <1>3, <1>7 DEF LivesAgree, Threads
<1>9. ~(step' = 9)
  BY <1>1 DEF ProgramInv
<1> QED
  BY <1>1, <1>5, <1>6, <1>8, <1>9 DEF ProgramInv

(***************************************************************************)
(* Every step of the process keeps the invariant.                          *)
(***************************************************************************)
LEMMA ProgramInvStep == ProgramInv /\ [Next]_vars => ProgramInv'
<1> SUFFICES ASSUME ProgramInv, [Next]_vars PROVE ProgramInv'
  OBVIOUS
<1>i. /\ console \in {"getchar", "gprs", "quit"} /\ cFlag \in {0, 1}
      /\ dev \in [Devices -> {"on", "off"}] /\ temp \in {"cool", "hot"}
      /\ on_flag \in [Devices -> {0, 1}]
      /\ console = "gprs" => thread["cmd"] = "running"
  BY DEF ProgramInv, TypeOK, LivesAgree
<1>b. intent \in [Devices -> BOOLEAN]
  BY DEF ProgramInv, TypeOK
<1>1. CASE KeyPictures
  BY <1>i, <1>b, <1>1, WorkSteps DEF KeyPictures, AtKeys, mainVars, panelVars
<1>2. CASE KeyDevice \/ RecvCommand
  <2>1. PICK d \in Devices, v \in {0, 1} : on_flag' = [on_flag EXCEPT ![d] = v]
    BY <1>2 DEF KeyDevice, RecvCommand
  <2>2. on_flag' \in [Devices -> {0, 1}]
    BY <1>i, <2>1
  <2>3. UNCHANGED <<step, thread, process, console, cFlag, dev, temp, intent, life, flag_alarm>>
    BY <1>2 DEF KeyDevice, RecvCommand, mainVars, panelVars
  <2> QED
    BY <1>i, <1>b, <2>2, <2>3, WorkSteps
<1>3. CASE KeyGprs
  BY <1>i, <1>b, <1>3, WorkSteps DEF KeyGprs, AtKeys, Runs, mainVars, panelVars
<1>4. CASE GprsReturns
  <2>1. /\ process = "up" /\ process' \in {"up", "exited"} /\ console = "gprs" /\ console' = "getchar"
        /\ UNCHANGED <<step, thread, cFlag, dev, temp, intent, life, on_flag, flag_alarm>>
    BY <1>4 DEF GprsReturns, Runs, panelVars
  <2> QED
    BY <1>i, <1>b, <2>1, WorkSteps
<1>5. CASE ServerFails
  BY <1>i, <1>b, <1>5, WorkSteps DEF ServerFails, panelVars
<1>6. CASE AlarmWorks
  <2>1. UNCHANGED <<step, thread, process, console, cFlag>>
    BY <1>6 DEF AlarmWorks, mainVars
  <2>2. CASE Panel!Feel
    BY <1>i, <1>b, <2>1, <2>2, WorkSteps DEF Panel!Feel
  <2>3. ASSUME NEW d \in Devices, Panel!Intend(d) \/ Panel!Light(d) \/ Panel!Darken(d)
        PROVE  ProgramInv'
    <3>1. /\ life = "open" /\ UNCHANGED <<temp, on_flag, flag_alarm, life>>
          /\ dev' \in {dev, [dev EXCEPT ![d] = "on"], [dev EXCEPT ![d] = "off"]}
      BY <2>3 DEF Panel!Intend, Panel!Light, Panel!Darken
    <3>2. intent' = intent \/ intent' = [intent EXCEPT ![d] = TRUE]
            \/ intent' = [intent EXCEPT ![d] = FALSE]
      BY <2>3 DEF Panel!Intend, Panel!Light, Panel!Darken
    <3>3. dev' \in [Devices -> {"on", "off"}]
      BY <1>i, <3>1
    <3>4. intent' \in [Devices -> BOOLEAN]
      BY <1>b, <3>2
    <3> QED
      BY <1>i, <2>1, <3>1, <3>3, <3>4, WorkSteps
  <2> QED
    BY <1>6, <2>2, <2>3 DEF AlarmWorks
<1>7. CASE UNCHANGED vars
  BY <1>i, <1>b, <1>7, WorkSteps DEF vars, mainVars, panelVars
<1> QED
  BY <1>1, <1>2, <1>3, <1>4, <1>5, <1>6, <1>7, CreateStep, JoinStep, QuitStep,
     ExitStep, OpensStep, ClosesStep
  DEF Next, Main, Console, Others

(***************************************************************************)
(* What main, the console and the alarm thread may conclude about each     *)
(* other, whichever threads could not be created.                          *)
(***************************************************************************)
THEOREM ProgramInvariant == Spec => []ProgramInv
<1> QED
  BY ProgramInvInit, ProgramInvStep, PTL DEF Spec

(***************************************************************************)
(* main returns, and ends the process, only when none of its threads runs, *)
(* whichever of them could not be created.                                 *)
(***************************************************************************)
THEOREM NothingCutOff == Spec => []NoThreadCutOff
<1>1. ProgramInv => NoThreadCutOff
  <2> SUFFICES ASSUME ProgramInv, step = 9, NEW t \in Threads
               PROVE  thread[t] \in {"ended", "failed"}
    BY DEF NoThreadCutOff
  <2>1. PICK i \in 1 .. 4 : t = Joins[i]
    BY DEF Threads, Joins
  <2> QED
    BY <2>1 DEF ProgramInv, JoinedAreOver
<1> QED
  BY <1>1, ProgramInvariant, PTL

=============================================================================
