--------------------------------- MODULE Gprs ---------------------------------
(***************************************************************************)
(* gprs() of gprs.c: a text message by way of a modem on a serial line.    *)
(* It is called by the console thread (key 'g') and by the command thread  *)
(* (command 'B'), which share the line and the modem and exclude each      *)
(* other by nothing.  Each call opens the line, sets it up, and writes     *)
(* "AT", "AT+CMGF=1", "AT+CMGS=<number>" and the text, whose last          *)
(* character ends it.  What the modem makes of them is external.           *)
(***************************************************************************)
EXTENDS Integers, FiniteSets

CONSTANTS
  Callers,   \* the threads that call gprs()
  MaxCalls,  \* bound: calls in all
  Faults     \* may setting up the line and a write() to it fail?

ASSUME GprsAssumption ==
  /\ IsFiniteSet(Callers)
  /\ MaxCalls \in Nat
  /\ Faults \in BOOLEAN

Writes == {"AT", "CMGF", "CMGS", "TEXT"}

VARIABLES
  pc,        \* each caller: "idle", "init", the next of its Writes, or "finish"
  process,   \* "up", or "exited"
  calls,     \* calls begun
  line,      \* has the serial line been set up?
  mode,      \* the modem: "command", or "prompt" while it takes a text
  textmode,  \* has it been told AT+CMGF=1?
  garbled,   \* has the text it is taking more in it than one caller's message?
  clean,     \* history: messages sent as they were meant
  dirty,     \* history: messages sent with something else in them
  lost,      \* history: texts the modem took for a bad command
  success,   \* history: times "message send success !" was printed
  faulty,    \* history: did anything fail?
  overlap    \* history: did two calls overlap?

modemVars == <<line, mode, textmode, garbled, clean, dirty, lost>>
vars == <<pc, process, calls, modemVars, success, faulty, overlap>>

Init ==
  /\ pc = [c \in Callers |-> "idle"]
  /\ process = "up" /\ calls = 0
  /\ line = FALSE /\ mode = "command" /\ textmode = FALSE /\ garbled = FALSE
  /\ clean = 0 /\ dirty = 0 /\ lost = 0 /\ success = 0
  /\ faulty = FALSE /\ overlap = FALSE

At(c, where) == process = "up" /\ pc[c] = where
Goto(c, where) == pc' = [pc EXCEPT ![c] = where]

-----------------------------------------------------------------------------
(* The modem (external) *)

\* A command in command mode, and in the middle of a text.
TakeCommand(w) ==
  \/ /\ mode = "command"
     /\ textmode' = (textmode \/ w = "CMGF")
     /\ mode' = IF w = "CMGS" /\ textmode THEN "prompt" ELSE "command"
     /\ garbled' = FALSE
     /\ UNCHANGED <<clean, dirty, lost>>
  \/ /\ mode = "prompt"
     /\ garbled' = TRUE
     /\ UNCHANGED <<mode, textmode, clean, dirty, lost>>

\* A text, with the character that ends it.
TakeText ==
  /\ mode' = "command"
  /\ clean' = IF mode = "prompt" /\ ~garbled THEN clean + 1 ELSE clean
  /\ dirty' = IF mode = "prompt" /\ garbled THEN dirty + 1 ELSE dirty
  /\ lost' = IF mode = "command" THEN lost + 1 ELSE lost
  /\ UNCHANGED <<textmode, garbled>>

\* What arrives on a line that is not set up makes no sense.
Take(w) ==
  /\ IF line THEN IF w = "TEXT" THEN TakeText ELSE TakeCommand(w)
             ELSE UNCHANGED <<mode, textmode, garbled, clean, dirty, lost>>
  /\ UNCHANGED line

-----------------------------------------------------------------------------
(* gprs() *)

\* open() of the line: its failure ends the process.
Open(c) ==
  /\ At(c, "idle")
  /\ calls < MaxCalls
  /\ calls' = calls + 1
  /\ \/ Goto(c, "init") /\ UNCHANGED process
     \/ process' = "exited" /\ UNCHANGED pc
  /\ overlap' = (overlap \/ \E d \in Callers : pc[d] # "idle")
  /\ UNCHANGED <<modemVars, success, faulty>>

\* MUTANT: the attributes are made up and never given to the line.
SerialInit_NotActivated(c) ==
  /\ At(c, "init")
  /\ Goto(c, "AT")
  /\ UNCHANGED <<process, calls, modemVars, success, faulty, overlap>>

\* serial_init: a failure is printed and nothing more.
SerialInit(c) ==
  /\ At(c, "init")
  /\ \/ line' = TRUE /\ UNCHANGED faulty
     \/ Faults /\ faulty' = TRUE /\ UNCHANGED line
  /\ Goto(c, "AT")
  /\ UNCHANGED <<process, calls, mode, textmode, garbled, clean, dirty, lost,
                 success, overlap>>

After(w) == CASE w = "AT" -> "CMGF" [] w = "CMGF" -> "CMGS"
              [] w = "CMGS" -> "TEXT" [] w = "TEXT" -> "finish"

\* MUTANT: the text is handed over without the character that ends it.
Write_NoCtrlZ(c, w) ==
  /\ At(c, w)
  /\ IF w = "TEXT" THEN UNCHANGED modemVars ELSE Take(w)
  /\ Goto(c, After(w))
  /\ UNCHANGED <<process, calls, success, faulty, overlap>>

\* MUTANT: the dialogue begins with a text left over from the last one.
Write_TextFirst(c, w) ==
  /\ At(c, w)
  /\ IF w = "AT" THEN Take("TEXT") ELSE Take(w)
  /\ Goto(c, After(w))
  /\ UNCHANGED <<process, calls, success, faulty, overlap>>

\* send_gprs: one write() after the other.  The modem's answers are not read and
\* nwrite is not looked at: what a write() that failed was to say is never said.
Write(c, w) ==
  /\ At(c, w)
  /\ \/ Take(w) /\ UNCHANGED faulty
     \/ Faults /\ faulty' = TRUE /\ UNCHANGED modemVars
  /\ Goto(c, After(w))
  /\ UNCHANGED <<process, calls, success, overlap>>

\* MUTANT: both send_en_message and gprs() report.
Finish_Twice(c) ==
  /\ At(c, "finish")
  /\ success' = success + 2
  /\ Goto(c, "idle")
  /\ UNCHANGED <<process, calls, modemVars, faulty, overlap>>

\* send_en_message prints that the message was sent, and gprs() closes the line.
Finish(c) ==
  /\ At(c, "finish")
  /\ success' = success + 1
  /\ Goto(c, "idle")
  /\ UNCHANGED <<process, calls, modemVars, faulty, overlap>>

Next == \E c \in Callers :
  \/ Open(c) \/ SerialInit(c) \/ Finish(c)
  \/ \E w \in Writes : Write(c, w)

Spec == Init /\ [][Next]_vars

-----------------------------------------------------------------------------
(* Properties *)

TypeOK ==
  /\ pc \in [Callers -> {"idle", "init", "finish"} \cup Writes]
  /\ process \in {"up", "exited"}
  /\ calls \in 0 .. MaxCalls
  /\ line \in BOOLEAN /\ mode \in {"command", "prompt"}
  /\ textmode \in BOOLEAN /\ garbled \in BOOLEAN
  /\ faulty \in BOOLEAN /\ overlap \in BOOLEAN
  /\ {clean, dirty, lost, success} \subseteq 0 .. MaxCalls

\* The calls are over.
Quiet == process = "up" /\ \A c \in Callers : pc[c] = "idle"

\* When nothing fails and no two calls overlap, a message is sent as it was meant
\* for every "message send success !" (gprs.c:157): nothing one call leaves in
\* the modem or on the line spoils the next.
SuccessMeansSentAlone == ~faulty /\ ~overlap => success <= clean

\* However two calls interleave, once every call is over the modem takes commands
\* again: the character that ends a text is in every call's last write()
\* (gprs.c:152, :133-135).
ModemNotLeftInText == ~faulty /\ Quiet => mode = "command"

\* However the calls interleave, every text is accounted for, and for those that
\* are lost somebody received a garbled message with the lost ones' numbers in it:
\* of the two callers of this program, one for each that is lost.
LossLeavesTrace ==
  ~faulty /\ Quiet => /\ success = clean + dirty + lost
                      /\ lost <= (Cardinality(Callers) - 1) * dirty

\* A message is sent, as it was meant, for every "message send success !".
SuccessMeansSent == success <= clean

\* A call sends its message at most once, whatever fails and whoever else calls:
\* nothing in send_gprs or above it tries again.
NoMessageTwice == clean + dirty + lost <= calls

Doing(where) == {c \in Callers : pc[c] \in where}
Unsent == Cardinality(Doing({"init"} \cup Writes))
Sent == Cardinality(Doing({"finish"}))
AtText == Cardinality(Doing({"TEXT"}))

\* Each call is in progress, or over, or failed at open(); what the modem made of
\* the texts adds up to the calls that have written theirs.
Counted ==
  /\ clean + dirty + lost + Unsent <= calls
  /\ success + Sent + Unsent <= calls
  /\ ~faulty => success + Sent = clean + dirty + lost

\* The line is set up before the first write(), text mode is on before a text is
\* asked for, and the modem waits for a text only while some caller has it.
Dialogue ==
  /\ \A c \in Callers : pc[c] \in Writes => line
  /\ \A c \in Callers : pc[c] \in {"CMGS", "TEXT"} => textmode
  /\ mode = "prompt" => textmode /\ \E c \in Callers : pc[c] = "TEXT"

\* Each garbled message pays for the texts of all the other callers; the text the
\* modem waits for needs no one to pay for it.
Paid ==
  /\ lost <= (Cardinality(Callers) - 1) * dirty
  /\ mode = "command" => lost + AtText <= (Cardinality(Callers) - 1) * dirty
  /\ mode = "prompt" /\ ~garbled =>
       lost + AtText <= (Cardinality(Callers) - 1) * dirty + 1

\* A caller that has the line for itself finds the modem as it left it.
Alone ==
  /\ dirty = 0 /\ lost = 0
  /\ \A c, d \in Callers : pc[c] # "idle" /\ pc[d] # "idle" => c = d
  /\ \A c \in Callers : pc[c] = "TEXT" => mode = "prompt" /\ ~garbled

\* The inductive invariant of any number of callers on one line (gprs.c:81-157).
GprsInv ==
  /\ TypeOK
  /\ Counted
  /\ ~faulty => Dialogue
  /\ ~faulty => Paid
  /\ ~faulty /\ ~overlap => Alone

=============================================================================
