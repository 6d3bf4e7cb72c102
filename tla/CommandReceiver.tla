--------------------------- MODULE CommandReceiver ---------------------------
(***************************************************************************)
(* The command thread: socket_recv of tcpserver.c, run by server_recv of   *)
(* main.c.  It serves one client at a time on port 8889.  In each round it *)
(* waits up to a second in select(), then calls recv() whatever select()   *)
(* said, and obeys the first byte it got only if select() had found the    *)
(* socket readable.                                                        *)
(***************************************************************************)
EXTENDS Integers, Sequences, FiniteSets

CONSTANTS
  BUFFLEN,    \* the most bytes one recv() returns
  MaxSends,   \* bound: bytes the clients send in all
  MaxClients  \* bound: clients that ever connect

ASSUME ReceiverAssumption ==
  /\ BUFFLEN \in Nat \ {0}
  /\ MaxSends \in Nat
  /\ MaxClients \in Nat

\* The bytes the code tells apart; "?" is any other one.
Cmds == {"S", "s", "B", "b"}
Bytes == Cmds \cup {"?"}

VARIABLES
  pc,             \* where the thread is
  err,            \* what select() returned: -1, 0 or 1
  scanfd,         \* is newfd_recv still in the set after select()?
  n,              \* what recv() returned: bytes, 0 or -1
  buff,           \* the first byte in buff, with its number
  led_on_flag,
  beep_on_flag,
  peer,           \* the connection: "none", "up", "fin" or "rst"
  inbox,          \* bytes received by the kernel and not yet read
  clients,        \* clients that have connected so far
  backlog,        \* clients connected but not yet accepted
  sends,          \* bytes sent so far; a byte's number is its place among them
  applied,        \* history: the numbers of the bytes obeyed, in that order
  ignored,        \* history: commands that headed a read and were not obeyed
  silences        \* history: rounds in which select() found nothing to read

localVars == <<pc, err, scanfd, n, buff>>
flagVars == <<led_on_flag, beep_on_flag>>
netVars == <<peer, inbox, clients, backlog, sends>>
histVars == <<applied, ignored, silences>>
vars == <<localVars, flagVars, netVars, histVars>>

Nul == [byte |-> "?", no |-> 0]

Init ==
  /\ pc = "start"
  /\ err = 0 /\ scanfd = FALSE /\ n = 0 /\ buff = Nul
  /\ led_on_flag = 0 /\ beep_on_flag = 0
  /\ peer = "none" /\ inbox = <<>>
  /\ clients = 0 /\ backlog = 0 /\ sends = 0
  /\ applied = <<>> /\ ignored = {} /\ silences = 0

-----------------------------------------------------------------------------
(* The thread *)

\* socket, bind and listen: any of them may fail and end the process.
Setup ==
  /\ pc = "start"
  /\ pc' \in {"accept", "exited"}
  /\ UNCHANGED <<err, scanfd, n, buff, flagVars, netVars, histVars>>

Accept ==
  /\ pc = "accept"
  /\ \/ /\ backlog > 0
        /\ backlog' = backlog - 1
        /\ peer' = "up"
        /\ pc' = "select"
     \/ /\ pc' = "exited"
        /\ UNCHANGED <<backlog, peer>>
  /\ UNCHANGED <<err, scanfd, n, buff, flagVars, inbox, clients, sends, histVars>>

Readable == inbox # <<>> \/ peer \in {"fin", "rst"}

\* MUTANT: the set is filled once per connection and not in every round.
Select_SetNotRemade ==
  /\ pc = "select"
  /\ \/ Readable /\ err' = 1 /\ UNCHANGED <<scanfd, silences>>
     \/ ~Readable /\ err' = 0 /\ scanfd' = FALSE /\ silences' = silences + 1
  /\ pc' = "recv"
  /\ UNCHANGED <<n, buff, flagVars, netVars, applied, ignored>>

\* The set is made anew in every round.  select() finds the socket readable, or
\* lets the second pass and empties the set, or fails and leaves it alone.
Select ==
  /\ pc = "select"
  /\ \/ Readable /\ err' = 1 /\ scanfd' = TRUE /\ UNCHANGED silences
     \/ ~Readable /\ err' = 0 /\ scanfd' = FALSE /\ silences' = silences + 1
     \/ err' = -1 /\ scanfd' = TRUE /\ silences' = silences + 1
  /\ pc' = "recv"
  /\ UNCHANGED <<n, buff, flagVars, netVars, applied, ignored>>

\* MUTANT: the end of the stream is not told from other results.
Recv_NoEndOfStream ==
  /\ pc = "recv"
  /\ \/ /\ inbox # <<>>
        /\ n' = IF Len(inbox) < BUFFLEN THEN Len(inbox) ELSE BUFFLEN
        /\ buff' = Head(inbox)
        /\ inbox' = SubSeq(inbox, n' + 1, Len(inbox))
     \/ inbox = <<>> /\ peer # "up" /\ n' = 0 /\ UNCHANGED <<buff, inbox>>
  /\ pc' = "switch"
  /\ UNCHANGED <<err, scanfd, flagVars, peer, clients, backlog, sends, histVars>>

\* MUTANT: the buffer is read one byte past what it can hold.
Recv_OnePastBuffer ==
  /\ pc = "recv"
  /\ inbox # <<>>
  /\ n' = IF Len(inbox) <= BUFFLEN THEN Len(inbox) ELSE BUFFLEN + 1
  /\ buff' = Head(inbox)
  /\ inbox' = SubSeq(inbox, n' + 1, Len(inbox))
  /\ pc' = "switch"
  /\ UNCHANGED <<err, scanfd, flagVars, peer, clients, backlog, sends, histVars>>

\* recv() waits until there is something: the bytes at hand, the end of the
\* stream (0, which ends the round with a break), or once the error of a reset.
Recv ==
  /\ pc = "recv"
  /\ \/ /\ inbox # <<>>
        /\ n' = IF Len(inbox) < BUFFLEN THEN Len(inbox) ELSE BUFFLEN
        /\ buff' = Head(inbox)
        /\ inbox' = SubSeq(inbox, n' + 1, Len(inbox))
        /\ pc' = "switch"
        /\ UNCHANGED peer
     \/ /\ inbox = <<>> /\ peer = "fin"
        /\ n' = 0
        /\ pc' = "close"
        /\ UNCHANGED <<buff, inbox, peer>>
     \/ /\ inbox = <<>> /\ peer = "rst"
        /\ n' = -1
        /\ peer' = "fin"
        /\ pc' = "switch"
        /\ UNCHANGED <<buff, inbox>>
  /\ UNCHANGED <<err, scanfd, flagVars, clients, backlog, sends, histVars>>

\* MUTANT: the number of bytes received is not looked at.
Obeyed_AnyCount == err # -1 /\ scanfd /\ buff.byte \in Cmds

\* Is the first byte in buff obeyed?
Obeyed == err # -1 /\ scanfd /\ n > 0 /\ buff.byte \in Cmds

\* switch (err) and the comparisons of the first byte.  Each flag is written
\* under a mutex no other thread knows; 'B' goes on to send a text message.
Switch ==
  /\ pc = "switch"
  /\ \/ /\ Obeyed
        /\ led_on_flag' = CASE buff.byte = "S" -> 1
                            [] buff.byte = "s" -> 0
                            [] OTHER -> led_on_flag
        /\ beep_on_flag' = CASE buff.byte = "B" -> 1
                             [] buff.byte = "b" -> 0
                             [] OTHER -> beep_on_flag
        /\ pc' = IF buff.byte = "B" THEN "gprs" ELSE "select"
        /\ buff' = Nul
        /\ applied' = Append(applied, buff.no)
        /\ UNCHANGED ignored
     \/ /\ ~Obeyed
        /\ pc' = "select"
        /\ ignored' = IF n > 0 /\ buff.byte \in Cmds
                      THEN ignored \cup {buff.no} ELSE ignored
        /\ UNCHANGED <<buff, flagVars, applied>>
  /\ UNCHANGED <<err, scanfd, n, netVars, silences>>

\* gprs() returns, or ends the process when the modem cannot be opened.
Gprs ==
  /\ pc = "gprs"
  /\ pc' \in {"select", "exited"}
  /\ UNCHANGED <<err, scanfd, n, buff, flagVars, netVars, histVars>>

\* close(newfd_recv), after the last byte has been read.
CloseConnection ==
  /\ pc = "close"
  /\ peer' = "none"
  /\ pc' = "accept"
  /\ UNCHANGED <<err, scanfd, n, buff, flagVars, inbox, clients, backlog, sends,
                 histVars>>

Thread == Setup \/ Accept \/ Select \/ Recv \/ Switch \/ Gprs
            \/ CloseConnection

-----------------------------------------------------------------------------
(* The clients *)

Connect ==
  /\ pc \notin {"start", "exited"}
  /\ clients < MaxClients
  /\ clients' = clients + 1
  /\ backlog' = backlog + 1
  /\ UNCHANGED <<localVars, flagVars, peer, inbox, sends, histVars>>

Send ==
  /\ peer = "up" /\ pc # "exited"
  /\ sends < MaxSends
  /\ sends' = sends + 1
  /\ \E b \in Bytes : inbox' = Append(inbox, [byte |-> b, no |-> sends'])
  /\ UNCHANGED <<localVars, flagVars, peer, clients, backlog, histVars>>

\* The client closes its end, or its connection is reset.
Leave ==
  /\ peer = "up" /\ pc # "exited"
  /\ peer' \in {"fin", "rst"}
  /\ UNCHANGED <<localVars, flagVars, inbox, clients, backlog, sends, histVars>>

Next == Thread \/ Connect \/ Send \/ Leave

Spec == Init /\ [][Next]_vars

\* The thread is scheduled and gprs() comes back; clients owe nothing.
FairSpec == Spec /\ WF_vars(Thread)

-----------------------------------------------------------------------------
(* Properties *)

TypeOK ==
  /\ pc \in {"start", "accept", "select", "recv", "switch", "gprs", "close",
             "exited"}
  /\ err \in {-1, 0, 1} /\ scanfd \in BOOLEAN
  /\ n \in -1 .. BUFFLEN
  /\ buff \in [byte : Bytes, no : Nat]
  /\ led_on_flag \in {0, 1} /\ beep_on_flag \in {0, 1}
  /\ peer \in {"none", "up", "fin", "rst"}
  /\ inbox \in Seq([byte : Bytes, no : Nat])
  /\ clients \in 0 .. MaxClients /\ backlog \in 0 .. MaxClients
  /\ sends \in 0 .. MaxSends
  /\ applied \in Seq(Nat) /\ ignored \subseteq Nat /\ silences \in Nat

\* A byte is obeyed at most once, commands in the order they were sent, and a
\* command that was ignored is not obeyed later: a recv() that brings nothing
\* does not act on what an earlier one left in buff (the n > 0 of
\* tcpserver.c:106-123; buff is cleared only after a command is obeyed).
ObeyedOnceInOrder ==
  /\ \A i, j \in DOMAIN applied : i < j => applied[i] < applied[j]
  /\ \A i \in DOMAIN applied : applied[i] \notin ignored

\* A command that heads a read is ignored only if the client let a second pass
\* (or select() failed) before it: one silence costs at most one command
\* (the set of tcpserver.c:74-78 is made anew in every round).
IgnoredOnlyAfterSilence == Cardinality(ignored) <= silences

\* Commands that were obeyed or ignored.
Handled == {applied[i] : i \in DOMAIN applied} \cup ignored

\* The first byte in buff is one that the last recv() brought.
Fresh == pc = "switch" /\ n > 0

\* Bytes wait in the order they were sent, all of them after what has been
\* handled; the one that is about to be handled is between the two.
InOrder ==
  /\ \A h \in Handled : h <= sends
  /\ \A h \in Handled : \A j \in DOMAIN inbox : h < inbox[j].no
  /\ \A j \in DOMAIN inbox : inbox[j].no <= sends
  /\ \A i, j \in DOMAIN inbox : i < j => inbox[i].no < inbox[j].no

FreshInOrder ==
  Fresh => /\ buff.no <= sends
           /\ \A h \in Handled : h < buff.no
           /\ \A j \in DOMAIN inbox : buff.no < inbox[j].no

\* A round that will not obey its command has its silence to show for it.
SilenceAhead ==
  /\ IsFiniteSet(ignored)
  /\ Cardinality(ignored) <= silences
  /\ pc \in {"recv", "switch"} /\ (err = -1 \/ ~scanfd) =>
       Cardinality(ignored) < silences

\* The inductive invariant of the thread: nothing but the order of the bytes in
\* the kernel, in buff and among those handled, over any number of clients,
\* keeps a stale byte of buff from being obeyed again (tcpserver.c:90-134).
ReceiverInv ==
  /\ TypeOK
  /\ backlog <= clients
  /\ InOrder
  /\ FreshInOrder
  /\ ObeyedOnceInOrder
  /\ SilenceAhead

\* A client that closed or was reset makes room for the next one: the thread
\* comes back to accept() (tcpserver.c:92, set-up for a client that reconnects).
ReconnectServed == peer \in {"fin", "rst"} ~> pc \in {"accept", "exited"}

=============================================================================
