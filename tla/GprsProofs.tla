------------------------------ MODULE GprsProofs ------------------------------
(***************************************************************************)
(* Theorems about gprs(), for any number of callers and of calls, with and *)
(* without failures of the line.                                           *)
(***************************************************************************)
EXTENDS Gprs, FiniteSetTheorems, TLAPS

Places == {"idle", "init", "finish"} \cup Writes

(***************************************************************************)
(* How many callers are at given places, before and after one has moved.   *)
(***************************************************************************)
LEMMA Moved ==
  ASSUME TypeOK, NEW c \in Callers, NEW CONSTANT to, Goto(c, to), NEW CONSTANT X
  PROVE  /\ Cardinality(Doing(X)) \in Nat /\ Cardinality(Doing(X))' \in Nat
         /\ (pc[c] \in X <=> to \in X) => Cardinality(Doing(X))' = Cardinality(Doing(X))
         /\ pc[c] \notin X /\ to \in X => Cardinality(Doing(X))' = Cardinality(Doing(X)) + 1
         /\ pc[c] \in X /\ to \notin X => Cardinality(Doing(X))' = Cardinality(Doing(X)) - 1
<1>1. pc \in [Callers -> Places] /\ pc' = [pc EXCEPT ![c] = to]
  BY DEF TypeOK, Goto, Places
<1>2. IsFiniteSet(Callers) /\ Doing(X) \in SUBSET Callers
  BY GprsAssumption DEF GprsAssumption, Doing
<1>3. IsFiniteSet(Doing(X)) /\ Cardinality(Doing(X)) \in Nat
  BY <1>2, FS_Subset, FS_CardinalityType
<1>4. \A d \in Callers : pc'[d] = IF d = c THEN to ELSE pc[d]
  BY <1>1
<1>5. (pc[c] \in X <=> to \in X) => Doing(X)' = Doing(X)
  BY <1>4 DEF Doing
<1>6. pc[c] \notin X /\ to \in X => c \notin Doing(X) /\ Doing(X)' = Doing(X) \cup {c}
  BY <1>4 DEF Doing
<1>7. pc[c] \in X /\ to \notin X => c \in Doing(X) /\ Doing(X)' = Doing(X) \ {c}
  BY <1>4 DEF Doing
<1>8. CASE pc[c] \in X <=> to \in X
  BY <1>3, <1>5, <1>8
<1>9. CASE pc[c] \notin X /\ to \in X
  <2>1. Cardinality(Doing(X))' = Cardinality(Doing(X)) + 1
    BY <1>3, <1>6, <1>9, FS_AddElement
  <2> QED
    BY <1>3, <1>9, <2>1
<1>10. CASE pc[c] \in X /\ to \notin X
  <2>1. /\ Cardinality(Doing(X))' = Cardinality(Doing(X)) - 1
        /\ Cardinality(Doing(X))' \in Nat
    BY <1>3, <1>7, <1>10, FS_RemoveElement, FS_CardinalityType
  <2> QED
    BY <1>3, <1>10, <2>1
<1> QED
  BY <1>8, <1>9, <1>10

(***************************************************************************)
(* The callers whose text is not written, written, and about to be written *)
(* before and after a move.                                                *)
(***************************************************************************)
LEMMA Counts ==
  ASSUME TypeOK
  PROVE  Unsent \in Nat /\ Sent \in Nat /\ AtText \in Nat
<1>1. ASSUME NEW CONSTANT X
      PROVE  Cardinality(Doing(X)) \in Nat
  <2>1. IsFiniteSet(Callers) /\ Doing(X) \in SUBSET Callers
    BY GprsAssumption DEF GprsAssumption, Doing
  <2> QED
    BY <2>1, FS_Subset, FS_CardinalityType
<1> QED
  BY <1>1 DEF Unsent, Sent, AtText

(***************************************************************************)
(* A product grows by its first factor when the second grows by one.       *)
(***************************************************************************)
LEMMA OneMore ==
  ASSUME NEW m \in Int, NEW k \in Nat
  PROVE  m * k \in Int /\ m * (k + 1) = m * k + m
OBVIOUS

(***************************************************************************)
(* The others, and what a number of garbled messages pays for.             *)
(***************************************************************************)
LEMMA Others ==
  ASSUME TypeOK
  PROVE  /\ Cardinality(Callers) - 1 \in Int
         /\ (Cardinality(Callers) - 1) * dirty \in Int
         /\ (Cardinality(Callers) - 1) * (dirty + 1)
              = (Cardinality(Callers) - 1) * dirty + (Cardinality(Callers) - 1)
         /\ AtText <= Cardinality(Callers)
<1>1. Cardinality(Callers) - 1 \in Int
  BY FS_CardinalityType, GprsAssumption DEF GprsAssumption
<1>2. dirty \in Nat
  BY GprsAssumption DEF TypeOK, GprsAssumption
<1>3. Doing({"TEXT"}) \in SUBSET Callers
  BY DEF Doing
<1>4. AtText <= Cardinality(Callers)
  BY <1>3, FS_Subset, GprsAssumption DEF AtText, GprsAssumption
<1> QED
  BY <1>1, <1>2, <1>4, OneMore

(***************************************************************************)
(* The invariant holds in every initial state.                             *)
(***************************************************************************)
LEMMA GprsInvInit == Init => GprsInv
<1> SUFFICES ASSUME Init PROVE GprsInv
  OBVIOUS
<1>1. TypeOK
  <2>1. calls \in 0 .. MaxCalls /\ {clean, dirty, lost, success} \subseteq 0 .. MaxCalls
    BY GprsAssumption DEF Init, GprsAssumption
  <2>2. pc \in [Callers -> {"idle", "init", "finish"} \cup Writes]
    BY DEF Init
  <2>3. line \in BOOLEAN /\ textmode \in BOOLEAN /\ garbled \in BOOLEAN
        /\ faulty \in BOOLEAN /\ overlap \in BOOLEAN
    BY DEF Init
  <2> QED
    BY <2>1, <2>2, <2>3 DEF Init, TypeOK
<1>2. Unsent = 0 /\ Sent = 0 /\ AtText = 0
  <2>1. /\ Doing({"init"} \cup Writes) = {}
        /\ Doing({"finish"}) = {} /\ Doing({"TEXT"}) = {}
    BY DEF Init, Doing, Writes
  <2> QED
    BY <2>1, FS_EmptySet DEF Unsent, Sent, AtText
<1>3. Counted
  BY <1>2 DEF Init, Counted
<1>4. Dialogue
  BY DEF Init, Dialogue, Writes
<1>5. Alone
  BY DEF Init, Alone
<1>6. Paid
  <2>1. Cardinality(Callers) - 1 \in Int
    BY <1>1, Others
  <2>2. (Cardinality(Callers) - 1) * 0 = 0
    BY <2>1
  <2> QED
    BY <1>2, <2>2 DEF Init, Paid
<1> QED
  BY <1>1, <1>3, <1>4, <1>5, <1>6 DEF GprsInv

(***************************************************************************)
(* open() begins a call, or ends the process.                              *)
(***************************************************************************)
LEMMA OpenStep ==
  ASSUME GprsInv, NEW c \in Callers, Open(c)
  PROVE  GprsInv'
<1>i. TypeOK /\ Counted
  BY DEF GprsInv
<1>0. /\ pc[c] = "idle" /\ process = "up" /\ calls < MaxCalls /\ calls' = calls + 1
      /\ overlap' = (overlap \/ \E d \in Callers : pc[d] # "idle")
      /\ UNCHANGED <<line, mode, textmode, garbled, clean, dirty, lost, success, faulty>>
  BY DEF Open, At, modemVars
<1>1. /\ calls \in Nat /\ calls' \in 0 .. MaxCalls /\ {clean, dirty, lost, success} \subseteq Nat
      /\ Unsent \in Nat /\ Sent \in Nat /\ AtText \in Nat
  BY <1>i, <1>0, Counts, GprsAssumption DEF TypeOK, GprsAssumption
<1>o. ~overlap' => ~overlap /\ \A d \in Callers : pc[d] = "idle"
  BY <1>0
<1>f. overlap' \in BOOLEAN /\ line' \in BOOLEAN /\ textmode' \in BOOLEAN /\ garbled' \in BOOLEAN
      /\ faulty' \in BOOLEAN
  BY <1>i, <1>0 DEF TypeOK
<1>2. CASE Goto(c, "init") /\ process' = process
  <2>1. pc' = [pc EXCEPT ![c] = "init"] /\ pc \in [Callers -> Places]
    BY <1>2, <1>i DEF Goto, TypeOK, Places
  <2>2. pc' \in [Callers -> Places]
    BY <2>1 DEF Places
  <2>t. TypeOK'
    BY <1>i, <1>0, <1>1, <1>2, <1>f, <2>2 DEF TypeOK, Places
  <2>3. Unsent' = Unsent + 1
    BY <1>i, <1>0, <1>2, Moved DEF Unsent, Writes
  <2>4. Sent' = Sent
    BY <1>i, <1>0, <1>2, Moved DEF Sent
  <2>5. AtText' = AtText
    BY <1>i, <1>0, <1>2, Moved DEF AtText
  <2>6. Counted'
    BY <1>i, <1>0, <1>1, <2>3, <2>4 DEF Counted
  <2>7. \A d \in Callers : pc'[d] = IF d = c THEN "init" ELSE pc[d]
    BY <2>1
  <2>8. ~faulty' => Dialogue'
    BY <1>0, <2>7 DEF GprsInv, Dialogue, Writes
  <2>9. ~faulty' => Paid'
    BY <1>0, <2>5 DEF GprsInv, Paid
  <2>10. ~faulty' /\ ~overlap' => Alone'
    BY <1>0, <1>o, <2>7 DEF GprsInv, Alone
  <2> QED
    BY <2>t, <2>6, <2>8, <2>9, <2>10 DEF GprsInv
<1>3. CASE process' = "exited" /\ pc' = pc
  <2>t. TypeOK'
    BY <1>i, <1>0, <1>1, <1>3, <1>f DEF TypeOK
  <2>1. Unsent' = Unsent /\ Sent' = Sent /\ AtText' = AtText
    BY <1>3 DEF Unsent, Sent, AtText, Doing
  <2>2. Counted'
    BY <1>i, <1>0, <1>1, <2>1 DEF Counted
  <2>3. (~faulty' => Dialogue') /\ (~faulty' => Paid')
    BY <1>0, <1>3, <2>1 DEF GprsInv, Dialogue, Paid
  <2>4. ~faulty' /\ ~overlap' => Alone'
    BY <1>0, <1>3, <1>o DEF GprsInv, Alone
  <2> QED
    BY <2>t, <2>2, <2>3, <2>4 DEF GprsInv
<1> QED
  BY <1>2, <1>3 DEF Open

(***************************************************************************)
(* serial_init sets up the line, or fails.                                 *)
(***************************************************************************)
LEMMA SerialInitStep ==
  ASSUME GprsInv, NEW c \in Callers, SerialInit(c)
  PROVE  GprsInv'
<1>i. TypeOK /\ Counted
  BY DEF GprsInv
<1>0. /\ pc[c] = "init" /\ Goto(c, "AT")
      /\ (line' = TRUE /\ faulty' = faulty) \/ (faulty' = TRUE /\ line' = line)
      /\ UNCHANGED <<process, calls, mode, textmode, garbled, clean, dirty, lost,
                     success, overlap>>
  BY DEF SerialInit, At
<1>1. pc' = [pc EXCEPT ![c] = "AT"] /\ pc \in [Callers -> Places]
  BY <1>0, <1>i DEF Goto, TypeOK, Places
<1>2. pc' \in [Callers -> Places]
  BY <1>1 DEF Places, Writes
<1>f. overlap' \in BOOLEAN /\ line' \in BOOLEAN /\ textmode' \in BOOLEAN /\ garbled' \in BOOLEAN
      /\ faulty' \in BOOLEAN
  BY <1>i, <1>0 DEF TypeOK
<1>t. TypeOK'
  BY <1>i, <1>0, <1>2, <1>f DEF TypeOK, Places
<1>3. Unsent' = Unsent
  BY <1>i, <1>0, Moved DEF Unsent, Writes
<1>4. Sent' = Sent
  BY <1>i, <1>0, Moved DEF Sent
<1>5. AtText' = AtText
  BY <1>i, <1>0, Moved DEF AtText
<1>6. Counted'
  BY <1>i, <1>0, <1>3, <1>4 DEF Counted
<1>7. \A d \in Callers : pc'[d] = IF d = c THEN "AT" ELSE pc[d]
  BY <1>1
<1>8. ~faulty' => Dialogue'
  BY <1>0, <1>7 DEF GprsInv, Dialogue, Writes
<1>9. ~faulty' => Paid'
  BY <1>0, <1>5 DEF GprsInv, Paid
<1>10. ~faulty' /\ ~overlap' => Alone'
  BY <1>0, <1>7 DEF GprsInv, Alone
<1> QED
  BY <1>t, <1>6, <1>8, <1>9, <1>10 DEF GprsInv

(***************************************************************************)
(* A call reports its message and is over.                                 *)
(***************************************************************************)
LEMMA FinishStep ==
  ASSUME GprsInv, NEW c \in Callers, Finish(c)
  PROVE  GprsInv'
<1>i. TypeOK /\ Counted
  BY DEF GprsInv
<1>0. /\ pc[c] = "finish" /\ Goto(c, "idle") /\ success' = success + 1
      /\ UNCHANGED <<process, calls, line, mode, textmode, garbled, clean, dirty, lost,
                     faulty, overlap>>
  BY DEF Finish, At, modemVars
<1>1. pc' = [pc EXCEPT ![c] = "idle"] /\ pc \in [Callers -> Places]
  BY <1>0, <1>i DEF Goto, TypeOK, Places
<1>2. pc' \in [Callers -> Places]
  BY <1>1 DEF Places
<1>3. Unsent' = Unsent
  BY <1>i, <1>0, Moved DEF Unsent, Writes
<1>4. Sent' = Sent - 1 /\ Sent' \in Nat
  BY <1>i, <1>0, Moved DEF Sent
<1>5. AtText' = AtText
  BY <1>i, <1>0, Moved DEF AtText
<1>6. /\ calls \in Nat /\ calls <= MaxCalls /\ MaxCalls \in Nat
      /\ {clean, dirty, lost, success} \subseteq Nat
      /\ Unsent \in Nat /\ Sent \in Nat
  BY <1>i, Counts, GprsAssumption DEF TypeOK, GprsAssumption
<1>7. Counted' /\ success' \in 0 .. MaxCalls
  BY <1>i, <1>0, <1>3, <1>4, <1>6 DEF Counted
<1>f. overlap' \in BOOLEAN /\ line' \in BOOLEAN /\ textmode' \in BOOLEAN /\ garbled' \in BOOLEAN
      /\ faulty' \in BOOLEAN
  BY <1>i, <1>0 DEF TypeOK
<1>t. TypeOK'
  BY <1>i, <1>0, <1>2, <1>7, <1>f DEF TypeOK, Places
<1>8. \A d \in Callers : pc'[d] = IF d = c THEN "idle" ELSE pc[d]
  BY <1>1
<1>9. ~faulty' => Dialogue'
  BY <1>0, <1>8 DEF GprsInv, Dialogue, Writes
<1>10. ~faulty' => Paid'
  BY <1>0, <1>5 DEF GprsInv, Paid
<1>11. ~faulty' /\ ~overlap' => Alone'
  BY <1>0, <1>8 DEF GprsInv, Alone
<1> QED
  BY <1>t, <1>7, <1>9, <1>10, <1>11 DEF GprsInv

(***************************************************************************)
(* What every write() does to the places of the callers.                   *)
(***************************************************************************)
LEMMA WriteMoves ==
  ASSUME TypeOK, NEW c \in Callers, NEW w \in Writes, pc[c] = w, Goto(c, After(w))
  PROVE  /\ pc' \in [Callers -> Places]
         /\ \A d \in Callers : pc'[d] = IF d = c THEN After(w) ELSE pc[d]
         /\ After(w) \in {"CMGF", "CMGS", "TEXT", "finish"}
         /\ w # "TEXT" => Unsent' = Unsent /\ Sent' = Sent
         /\ w = "TEXT" => /\ Unsent' = Unsent - 1 /\ Unsent' \in Nat
                          /\ Sent' = Sent + 1
                          /\ AtText' = AtText - 1 /\ AtText' \in Nat
         /\ w = "CMGS" => AtText' = AtText + 1
         /\ w \in {"AT", "CMGF"} => AtText' = AtText
<1>1. pc \in [Callers -> Places] /\ pc' = [pc EXCEPT ![c] = After(w)]
  BY DEF TypeOK, Goto, Places
<1>2. /\ w \in {"AT", "CMGF", "CMGS", "TEXT"}
      /\ w = "AT" => After(w) = "CMGF"
      /\ w = "CMGF" => After(w) = "CMGS"
      /\ w = "CMGS" => After(w) = "TEXT"
      /\ w = "TEXT" => After(w) = "finish"
  BY DEF After, Writes
<1>3. After(w) \in Places
  BY <1>2 DEF Places, Writes
<1>4. pc' \in [Callers -> Places] /\ \A d \in Callers : pc'[d] = IF d = c THEN After(w) ELSE pc[d]
  BY <1>1, <1>3
<1>5. /\ w # "TEXT" => Unsent' = Unsent
      /\ w = "TEXT" => Unsent' = Unsent - 1 /\ Unsent' \in Nat
  BY <1>2, Moved DEF Unsent, Writes
<1>6. /\ w # "TEXT" => Sent' = Sent
      /\ w = "TEXT" => Sent' = Sent + 1
  BY <1>2, Moved DEF Sent
<1>7. /\ w = "TEXT" => AtText' = AtText - 1 /\ AtText' \in Nat
      /\ w = "CMGS" => AtText' = AtText + 1
      /\ w \in {"AT", "CMGF"} => AtText' = AtText
  BY <1>2, Moved DEF AtText
<1>8. After(w) \in {"CMGF", "CMGS", "TEXT", "finish"}
  BY <1>2
<1> QED
  BY <1>4, <1>5, <1>6, <1>7, <1>8

(***************************************************************************)
(* A call that goes from the ones that have not sent (u) to those that     *)
(* have (v) leaves the sums within the calls (m).                          *)
(***************************************************************************)
LEMMA HandOver ==
  ASSUME NEW t \in Nat, NEW k \in Nat, NEW u \in Nat, NEW v \in Nat, NEW m \in Nat,
         NEW u1 \in Nat, NEW v1 \in Nat,
         u1 <= u, u1 + v1 = u + v, t + u <= m, k + v + u <= m
  PROVE  t + u1 <= m /\ k + v1 + u1 <= m
OBVIOUS

(***************************************************************************)
(* A write() that fails says nothing; the call goes on.                    *)
(***************************************************************************)
LEMMA WriteFails ==
  ASSUME GprsInv, NEW c \in Callers, NEW w \in Writes, pc[c] = w, Goto(c, After(w)),
         faulty' = TRUE,
         UNCHANGED <<process, calls, success, overlap, line, mode, textmode, garbled,
                     clean, dirty, lost>>
  PROVE  GprsInv'
<1>i. TypeOK /\ Counted
  BY DEF GprsInv
<1>1. /\ calls \in Nat /\ {clean, dirty, lost, success} \subseteq Nat
      /\ Unsent \in Nat /\ Sent \in Nat
  BY <1>i, Counts, GprsAssumption DEF TypeOK, GprsAssumption
<1>2. pc' \in [Callers -> Places]
  BY <1>i, WriteMoves
<1>f. overlap' \in BOOLEAN /\ line' \in BOOLEAN /\ textmode' \in BOOLEAN /\ garbled' \in BOOLEAN
      /\ faulty' \in BOOLEAN
  BY <1>i DEF TypeOK
<1>t. TypeOK'
  BY <1>i, <1>2, <1>f DEF TypeOK, Places
<1>3. Unsent' \in Nat /\ Unsent' <= Unsent /\ Unsent' + Sent' = Unsent + Sent /\ Sent' \in Nat
  BY <1>i, <1>1, WriteMoves
<1>4. Counted'
  <2>1. /\ clean \in Nat /\ dirty \in Nat /\ lost \in Nat /\ success \in Nat
        /\ clean + dirty + lost + Unsent <= calls /\ success + Sent + Unsent <= calls
    BY <1>i, <1>1 DEF Counted
  <2>3. clean + dirty + lost + Unsent' <= calls /\ success + Sent' + Unsent' <= calls
    <3>1. clean + dirty + lost \in Nat
      BY <2>1
    <3> QED
      BY ONLY <1>1, <1>3, <2>1, <3>1, HandOver
  <2>2. faulty'
    OBVIOUS
  <2> QED
    BY <2>2, <2>3 DEF Counted
<1>5. faulty'
  OBVIOUS
<1> QED
  BY <1>t, <1>4, <1>5 DEF GprsInv

(***************************************************************************)
(* "AT", "AT+CMGF=1" or "AT+CMGS=": a command, or part of another caller's *)
(* text.                                                                   *)
(***************************************************************************)
LEMMA CommandStep ==
  ASSUME GprsInv, NEW c \in Callers, NEW w \in Writes, w # "TEXT", pc[c] = w,
         Goto(c, After(w)), Take(w), UNCHANGED <<process, calls, success, overlap, faulty>>
  PROVE  GprsInv'
<1>i. TypeOK /\ Counted
  BY DEF GprsInv
<1>0. /\ UNCHANGED <<line, clean, dirty, lost>>
      /\ (line /\ TakeCommand(w)) \/ (~line /\ UNCHANGED <<mode, textmode, garbled>>)
  BY <1>i DEF Take, TakeCommand, TypeOK
<1>1. /\ pc' \in [Callers -> Places]
      /\ \A d \in Callers : pc'[d] = IF d = c THEN After(w) ELSE pc[d]
      /\ Unsent' = Unsent /\ Sent' = Sent
      /\ w = "CMGS" => AtText' = AtText + 1
      /\ w \in {"AT", "CMGF"} => AtText' = AtText
      /\ w \in {"AT", "CMGF", "CMGS"}
      /\ w = "AT" => After(w) = "CMGF"
      /\ w = "CMGF" => After(w) = "CMGS"
      /\ w = "CMGS" => After(w) = "TEXT"
  BY <1>i, WriteMoves DEF Writes, After
<1>f. overlap' \in BOOLEAN /\ line' \in BOOLEAN /\ faulty' \in BOOLEAN
  BY <1>i, <1>0 DEF TypeOK
<1>g. textmode' \in BOOLEAN /\ garbled' \in BOOLEAN
  BY <1>i, <1>0 DEF TypeOK, TakeCommand
<1>m. mode' \in {"command", "prompt"}
  BY <1>i, <1>0 DEF TypeOK, TakeCommand
<1>t. TypeOK'
  BY <1>i, <1>0, <1>1, <1>f, <1>g, <1>m DEF TypeOK, Places
<1>2. Counted'
  BY <1>i, <1>0, <1>1 DEF Counted
<1>3. ASSUME ~faulty PROVE Dialogue /\ Paid /\ line /\ (w = "CMGS" => textmode)
  <2>1. Dialogue /\ Paid
    BY <1>3 DEF GprsInv
  <2> QED
    BY <2>1 DEF Dialogue
<1>4. ASSUME ~faulty
      PROVE  \/ /\ mode = "command"
                /\ textmode' = (textmode \/ w = "CMGF")
                /\ mode' = IF w = "CMGS" THEN "prompt" ELSE "command"
                /\ garbled' = FALSE
             \/ /\ mode = "prompt" /\ garbled' = TRUE /\ mode' = "prompt"
                /\ textmode' = textmode /\ textmode
  <2>1. TakeCommand(w) /\ (w = "CMGS" => textmode) /\ (mode = "prompt" => textmode)
    BY <1>0, <1>3, <1>4 DEF Dialogue
  <2> QED
    BY <2>1 DEF TakeCommand
<1>5. ASSUME ~faulty PROVE Dialogue'
  <2>1. \A d \in Callers : pc'[d] \in Writes => line'
    BY <1>0, <1>3, <1>5
  <2>2. \A d \in Callers : pc'[d] \in {"CMGS", "TEXT"} => textmode'
    BY <1>1, <1>3, <1>4, <1>5 DEF Dialogue
  <2>3. mode' = "prompt" => textmode' /\ \E d \in Callers : pc'[d] = "TEXT"
    <3>1. CASE mode = "command"
      BY <1>1, <1>3, <1>4, <1>5, <3>1
    <3>2. CASE mode = "prompt"
      <4>1. PICK d \in Callers : pc[d] = "TEXT"
        BY <1>3, <1>5, <3>2 DEF Dialogue
      <4>2. pc'[d] = "TEXT"
        BY <1>1, <4>1
      <4> QED
        BY <1>4, <1>5, <3>2, <4>2
    <3> QED
      BY <1>i, <3>1, <3>2 DEF TypeOK
  <2> QED
    BY <2>1, <2>2, <2>3 DEF Dialogue
<1>6. ASSUME ~faulty PROVE Paid'
  <2> DEFINE paid == (Cardinality(Callers) - 1) * dirty
  <2>1. /\ lost <= paid
        /\ mode = "command" => lost + AtText <= paid
        /\ mode = "prompt" /\ ~garbled => lost + AtText <= paid + 1
    BY <1>3, <1>6 DEF Paid
  <2>2. paid' = paid /\ paid \in Int /\ AtText \in Nat /\ lost \in Nat
    BY <1>i, <1>0, Others, Counts, GprsAssumption DEF TypeOK, GprsAssumption
  <2> HIDE DEF paid
  <2>3. /\ mode' = "command" => lost' + AtText' <= paid
        /\ mode' = "prompt" /\ ~garbled' => lost' + AtText' <= paid + 1
    <3>1. CASE mode = "command" /\ w = "CMGS"
      <4>1. mode' = "prompt" /\ AtText' = AtText + 1 /\ lost' = lost
        BY <1>0, <1>1, <1>4, <1>6, <3>1
      <4> QED
        BY <2>1, <2>2, <3>1, <4>1
    <3>2. CASE mode = "command" /\ w # "CMGS"
      <4>1. mode' = "command" /\ AtText' = AtText /\ lost' = lost
        BY <1>0, <1>1, <1>4, <1>6, <3>2
      <4> QED
        BY <2>1, <2>2, <3>2, <4>1
    <3>3. CASE mode = "prompt"
      <4>1. mode' = "prompt" /\ garbled'
        BY <1>4, <1>6, <3>3
      <4> QED
        BY <4>1
    <3> QED
      BY <1>i, <3>1, <3>2, <3>3 DEF TypeOK
  <2>4. lost' <= paid
    BY <1>0, <2>1
  <2>5. /\ lost' <= paid'
        /\ mode' = "command" => lost' + AtText' <= paid'
        /\ mode' = "prompt" /\ ~garbled' => lost' + AtText' <= paid' + 1
    BY <2>2, <2>3, <2>4
  <2> QED
    BY <2>5 DEF Paid, paid
<1>7. ASSUME ~faulty, ~overlap PROVE Alone'
  <2>1. Alone
    BY <1>7 DEF GprsInv
  <2>2. mode = "command"
    <3> SUFFICES ASSUME mode = "prompt" PROVE FALSE
      BY <1>i DEF TypeOK
    <3>1. PICK d \in Callers : pc[d] = "TEXT"
      BY <1>3, <1>7 DEF Dialogue
    <3>2. d = c
      BY <1>1, <2>1, <3>1 DEF Alone
    <3> QED
      BY <3>1, <3>2
  <2>3. \A d \in Callers : pc'[d] # "idle" => pc[d] # "idle"
    BY <1>1
  <2>4. \A d, e \in Callers : pc'[d] # "idle" /\ pc'[e] # "idle" => d = e
    BY <2>1, <2>3 DEF Alone
  <2>5. \A d \in Callers : pc[d] # "TEXT"
    BY <2>1, <2>2 DEF Alone
  <2>6. \A d \in Callers : pc'[d] = "TEXT" => w = "CMGS"
    BY <1>1, <2>5
  <2>7. \A d \in Callers : pc'[d] = "TEXT" => mode' = "prompt" /\ ~garbled'
    BY <1>4, <1>7, <2>2, <2>6
  <2> QED
    BY <1>0, <2>1, <2>4, <2>7 DEF Alone
<1> QED
  BY <1>t, <1>2, <1>5, <1>6, <1>7 DEF GprsInv

(***************************************************************************)
(* A part of a sum is within its bound.                                    *)
(***************************************************************************)
LEMMA PartOfSum ==
  ASSUME NEW x \in Nat, NEW y \in Nat, NEW z \in Nat, NEW u \in Nat, NEW m \in Nat,
         NEW b \in Nat, m <= b, x + y + z + u <= m
  PROVE  x <= b /\ y <= b /\ z <= b
OBVIOUS

(***************************************************************************)
(* The text: sent as it was meant, sent with something else in it, lost,   *)
(* or nothing when the line is not set up.                                 *)
(***************************************************************************)
LEMMA TextStep ==
  ASSUME GprsInv, NEW c \in Callers, pc[c] = "TEXT", Goto(c, "finish"), Take("TEXT"),
         UNCHANGED <<process, calls, success, overlap, faulty>>
  PROVE  GprsInv'
<1>i. TypeOK /\ Counted
  BY DEF GprsInv
<1>0. /\ line' = line
      /\ (line /\ TakeText) \/ (~line /\ UNCHANGED <<mode, textmode, garbled, clean, dirty, lost>>)
  BY <1>i DEF Take, TypeOK
<1>1. /\ pc' \in [Callers -> Places]
      /\ \A d \in Callers : pc'[d] = IF d = c THEN "finish" ELSE pc[d]
      /\ Unsent' = Unsent - 1 /\ Unsent' \in Nat
      /\ Sent' = Sent + 1
      /\ AtText' = AtText - 1 /\ AtText' \in Nat
  <2>1. After("TEXT") = "finish" /\ "TEXT" \in Writes
    BY DEF After, Writes
  <2> QED
    BY <1>i, <2>1, WriteMoves
<1>2. /\ calls \in Nat /\ calls <= MaxCalls /\ MaxCalls \in Nat
      /\ clean \in Nat /\ dirty \in Nat /\ lost \in Nat /\ success \in Nat
      /\ Unsent \in Nat /\ Sent \in Nat /\ AtText \in Nat
  BY <1>i, Counts, GprsAssumption DEF TypeOK, GprsAssumption
<1>x. /\ overlap' \in BOOLEAN /\ line' \in BOOLEAN /\ faulty' \in BOOLEAN
      /\ textmode' \in BOOLEAN /\ garbled' \in BOOLEAN
  BY <1>i, <1>0 DEF TypeOK, TakeText
<1>m. mode' \in {"command", "prompt"}
  BY <1>i, <1>0 DEF TypeOK, TakeText
<1>3. CASE line
  <2>0. /\ mode' = "command"
        /\ \/ /\ mode = "prompt" /\ ~garbled
              /\ clean' = clean + 1 /\ dirty' = dirty /\ lost' = lost
           \/ /\ mode = "prompt" /\ garbled
              /\ clean' = clean /\ dirty' = dirty + 1 /\ lost' = lost
           \/ /\ mode = "command"
              /\ clean' = clean /\ dirty' = dirty /\ lost' = lost + 1
        /\ textmode' = textmode
    BY <1>i, <1>0, <1>3 DEF TakeText, TypeOK
  <2>1. clean' \in Nat /\ dirty' \in Nat /\ lost' \in Nat
        /\ clean' + dirty' + lost' = clean + dirty + lost + 1
    BY <1>2, <2>0
  <2>2. Counted'
    <3>1. /\ clean + dirty + lost + Unsent <= calls /\ success + Sent + Unsent <= calls
          /\ ~faulty => success + Sent = clean + dirty + lost
      BY <1>i DEF Counted
    <3> DEFINE sum == clean + dirty + lost
    <3>2. sum \in Nat /\ sum' = sum + 1 /\ success' = success
      <4>1. sum \in Nat
        BY <1>2
      <4>2. sum' = sum + 1
        BY <2>1
      <4>3. success' = success
        OBVIOUS
      <4> QED
        BY <4>1, <4>2, <4>3
    <3>3. sum + Unsent <= calls /\ (~faulty' => success + Sent = sum)
      BY <3>1
    <3> HIDE DEF sum
    <3>4. sum' + Unsent' <= calls /\ success' + Sent' + Unsent' <= calls
      BY <1>1, <1>2, <3>1, <3>2, <3>3
    <3>5. ~faulty' => success' + Sent' = sum'
      <4> SUFFICES ASSUME ~faulty' PROVE success' + Sent' = sum'
        OBVIOUS
      <4>1. success + Sent = sum
        BY <3>3
      <4>2. success + (Sent + 1) = sum + 1
        BY ONLY <1>2, <3>2, <4>1
      <4> QED
        BY ONLY <1>1, <3>2, <4>2
    <3> QED
      BY <3>4, <3>5 DEF Counted, sum
  <2>3. {clean', dirty', lost', success'} \subseteq 0 .. MaxCalls
    <3>1. clean' <= MaxCalls /\ dirty' <= MaxCalls /\ lost' <= MaxCalls
      <4>1. clean' + dirty' + lost' + Unsent' <= calls /\ Unsent' \in Nat
        BY <1>1, <2>2 DEF Counted
      <4> QED
        BY ONLY <1>2, <2>1, <4>1, PartOfSum
    <3> QED
      BY <1>i, <1>2, <2>1, <3>1 DEF TypeOK
  <2>t. TypeOK'
    BY <1>i, <1>1, <1>x, <1>m, <2>3 DEF TypeOK, Places
  <2>4. ASSUME ~faulty PROVE Dialogue'
    <3>1. Dialogue
      BY <2>4 DEF GprsInv
    <3>2. \A d \in Callers : pc'[d] \in Writes => line'
      BY <1>0, <1>3
    <3>3. \A d \in Callers : pc'[d] \in {"CMGS", "TEXT"} => pc[d] \in {"CMGS", "TEXT"}
      BY <1>1
    <3>4. \A d \in Callers : pc'[d] \in {"CMGS", "TEXT"} => textmode'
      BY <2>0, <3>1, <3>3 DEF Dialogue
    <3> QED
      BY <2>0, <3>2, <3>4 DEF Dialogue
  <2>5. ASSUME ~faulty PROVE Paid'
    <3> DEFINE others == Cardinality(Callers) - 1
               paid == others * dirty
    <3>1. /\ lost <= paid
          /\ mode = "command" => lost + AtText <= paid
          /\ mode = "prompt" /\ ~garbled => lost + AtText <= paid + 1
      BY <2>5 DEF GprsInv, Paid
    <3>2. /\ others \in Int /\ paid \in Int /\ others * (dirty + 1) = paid + others
          /\ AtText <= others + 1
      <4>1. Cardinality(Callers) \in Nat
        BY FS_CardinalityType, GprsAssumption DEF GprsAssumption
      <4> QED
        BY <1>i, <1>2, <4>1, Others
    <3>3. dirty' = dirty => paid' = paid
      OBVIOUS
    <3>4. dirty' = dirty + 1 => paid' = paid + others
      BY <3>2
    <3> HIDE DEF others, paid
    <3>5. lost' + AtText' <= paid'
      <4>1. CASE mode = "prompt" /\ ~garbled
        <5>1. dirty' = dirty /\ lost' = lost
          BY <2>0, <4>1
        <5>2. lost + AtText <= paid + 1 /\ paid' = paid
          BY <3>1, <3>3, <4>1, <5>1
        <5> QED
          BY <1>1, <1>2, <3>2, <5>1, <5>2
      <4>2. CASE mode = "prompt" /\ garbled
        <5>1. dirty' = dirty + 1 /\ lost' = lost
          BY <2>0, <4>2
        <5> QED
          BY <1>1, <1>2, <3>1, <3>2, <3>4, <5>1
      <4>3. CASE mode = "command"
        <5>1. dirty' = dirty /\ lost' = lost + 1
          BY <2>0, <4>3
        <5>2. lost + AtText <= paid /\ paid' = paid
          BY <3>1, <3>3, <4>3, <5>1
        <5> QED
          BY <1>1, <1>2, <3>2, <5>1, <5>2
      <4> QED
        BY <1>i, <4>1, <4>2, <4>3 DEF TypeOK
    <3>6. paid' \in Int
      BY <2>0, <3>2, <3>3, <3>4
    <3>7. lost' <= paid'
      BY <1>1, <2>1, <3>5, <3>6
    <3> QED
      BY <2>0, <3>5, <3>7 DEF Paid, paid, others
  <2>6. ASSUME ~faulty, ~overlap PROVE Alone'
    <3>1. Alone
      BY <2>6 DEF GprsInv
    <3>2. mode = "prompt" /\ ~garbled
      BY <3>1 DEF Alone
    <3>3. dirty' = 0 /\ lost' = 0
      BY <2>0, <3>1, <3>2 DEF Alone
    <3>4. \A d \in Callers : pc'[d] # "idle" => pc[d] # "idle"
      BY <1>1
    <3>5. \A d, e \in Callers : pc'[d] # "idle" /\ pc'[e] # "idle" => d = e
      BY <3>1, <3>4 DEF Alone
    <3>6. \A d \in Callers : pc'[d] # "TEXT"
      <4> SUFFICES ASSUME NEW d \in Callers, pc'[d] = "TEXT" PROVE FALSE
        OBVIOUS
      <4>1. d # c /\ pc[d] = "TEXT"
        BY <1>1
      <4> QED
        BY <3>1, <4>1 DEF Alone
    <3> QED
      BY <3>3, <3>5, <3>6 DEF Alone
  <2> QED
    BY <2>t, <2>2, <2>4, <2>5, <2>6 DEF GprsInv
<1>4. CASE ~line
  <2>0. UNCHANGED <<mode, textmode, garbled, clean, dirty, lost>>
    BY <1>0, <1>4
  <2>1. faulty
    <3>1. ~faulty => Dialogue
      BY DEF GprsInv
    <3> QED
      BY <1>4, <3>1 DEF Dialogue, Writes
  <2>2. Counted'
    <3>1. clean + dirty + lost + Unsent <= calls /\ success + Sent + Unsent <= calls
      BY <1>i DEF Counted
    <3>2. clean + dirty + lost + Unsent' <= calls /\ success + Sent' + Unsent' <= calls
      BY <1>1, <1>2, <3>1
    <3> QED
      BY <2>0, <2>1, <3>2 DEF Counted
  <2>t. TypeOK'
    BY <1>i, <1>1, <1>x, <1>m, <2>0 DEF TypeOK, Places
  <2> QED
    BY <2>t, <2>1, <2>2 DEF GprsInv
<1> QED
  BY <1>3, <1>4

(***************************************************************************)
(* Every step of every caller keeps the invariant.                         *)
(***************************************************************************)
LEMMA GprsInvStep == GprsInv /\ [Next]_vars => GprsInv'
<1> SUFFICES ASSUME GprsInv, [Next]_vars PROVE GprsInv'
  OBVIOUS
<1>1. ASSUME NEW c \in Callers, NEW w \in Writes, Write(c, w)
      PROVE  GprsInv'
  <2>0. /\ pc[c] = w /\ Goto(c, After(w)) /\ UNCHANGED <<process, calls, success, overlap>>
        /\ (Take(w) /\ faulty' = faulty) \/ (faulty' = TRUE /\ UNCHANGED modemVars)
    BY <1>1 DEF Write, At
  <2>1. CASE faulty' = TRUE /\ UNCHANGED modemVars
    BY <2>0, <2>1, WriteFails DEF modemVars
  <2>2. CASE Take(w) /\ faulty' = faulty /\ w # "TEXT"
    BY <2>0, <2>2, CommandStep
  <2>3. CASE Take(w) /\ faulty' = faulty /\ w = "TEXT"
    <3>1. After("TEXT") = "finish"
      BY DEF After
    <3> QED
      BY <2>0, <2>3, <3>1, TextStep
  <2> QED
    BY <2>0, <2>1, <2>2, <2>3
<1>2. CASE UNCHANGED vars
  <2>1. Unsent' = Unsent /\ Sent' = Sent /\ AtText' = AtText
    BY <1>2 DEF vars, Unsent, Sent, AtText, Doing
  <2> USE <1>2, <2>1 DEF vars, modemVars, GprsInv
  <2>2. TypeOK' /\ Counted'
    BY DEF TypeOK, Counted
  <2>3. (~faulty => Dialogue)' /\ (~faulty => Paid)' /\ (~faulty /\ ~overlap => Alone)'
    BY DEF Dialogue, Paid, Alone
  <2> QED
    BY <2>2, <2>3
<1> QED
  BY <1>1, <1>2, OpenStep, SerialInitStep, FinishStep DEF Next

(***************************************************************************)
(* What any number of callers make of one line, and of the modem.          *)
(***************************************************************************)
THEOREM GprsInvariant == Spec => []GprsInv
<1> QED
  BY GprsInvInit, GprsInvStep, PTL DEF Spec

(***************************************************************************)
(* A call sends its message at most once, whatever fails and whoever else  *)
(* calls.                                                                  *)
(***************************************************************************)
THEOREM NeverTwice == Spec => []NoMessageTwice
<1>1. GprsInv => NoMessageTwice
  <2> SUFFICES ASSUME GprsInv PROVE NoMessageTwice
    OBVIOUS
  <2>1. TypeOK /\ Counted
    BY DEF GprsInv
  <2>2. /\ calls \in Nat /\ clean \in Nat /\ dirty \in Nat /\ lost \in Nat /\ Unsent \in Nat
    BY <2>1, Counts, GprsAssumption DEF TypeOK, GprsAssumption
  <2>3. clean + dirty + lost + Unsent <= calls
    BY <2>1 DEF Counted
  <2>4. clean + dirty + lost <= calls
    BY <2>2, <2>3
  <2> QED
    BY <2>4 DEF NoMessageTwice
<1> QED
  BY <1>1, GprsInvariant, PTL

(***************************************************************************)
(* Once every call is over the modem takes commands again, if nothing      *)
(* failed.                                                                 *)
(***************************************************************************)
THEOREM ModemBackToCommands == Spec => []ModemNotLeftInText
<1>1. GprsInv => ModemNotLeftInText
  BY DEF GprsInv, TypeOK, Dialogue, ModemNotLeftInText, Quiet
<1> QED
  BY <1>1, GprsInvariant, PTL

(***************************************************************************)
(* A call that had the line for itself sent the message it reports.        *)
(***************************************************************************)
THEOREM AloneIsSent == Spec => []SuccessMeansSentAlone
<1>1. GprsInv => SuccessMeansSentAlone
  <2> SUFFICES ASSUME GprsInv, ~faulty, ~overlap PROVE success <= clean
    BY DEF SuccessMeansSentAlone
  <2>1. TypeOK /\ Counted /\ Alone
    BY DEF GprsInv
  <2>2. success \in Nat /\ clean \in Nat /\ Sent \in Nat
    BY <2>1, Counts, GprsAssumption DEF TypeOK, GprsAssumption
  <2>3. success + Sent = clean + 0 + 0
    BY <2>1 DEF Counted, Alone
  <2> QED
    BY <2>2, <2>3
<1> QED
  BY <1>1, GprsInvariant, PTL

(***************************************************************************)
(* Every text is accounted for, and the garbled messages are a trace of    *)
(* the lost ones, for any number of callers.                               *)
(***************************************************************************)
THEOREM LostNotUnseen == Spec => []LossLeavesTrace
<1>1. GprsInv => LossLeavesTrace
  <2> SUFFICES ASSUME GprsInv, ~faulty, Quiet
               PROVE  /\ success = clean + dirty + lost
                      /\ lost <= (Cardinality(Callers) - 1) * dirty
    BY DEF LossLeavesTrace
  <2>1. TypeOK /\ Counted /\ Paid
    BY DEF GprsInv
  <2>2. Sent = 0
    <3>1. Doing({"finish"}) = {}
      BY DEF Quiet, Doing
    <3> QED
      BY <3>1, FS_EmptySet DEF Sent
  <2>3. success + 0 = clean + dirty + lost
    BY <2>1, <2>2 DEF Counted
  <2>4. success \in Nat
    BY <2>1, GprsAssumption DEF TypeOK, GprsAssumption
  <2>5. success = clean + dirty + lost
    BY <2>3, <2>4
  <2> QED
    BY <2>1, <2>5 DEF Paid
<1> QED
  BY <1>1, GprsInvariant, PTL

=============================================================================
