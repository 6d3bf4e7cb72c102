------------------------ MODULE CommandReceiverProofs ------------------------
(***************************************************************************)
(* Theorems about the command thread, for every length of the buffer and   *)
(* any number of clients and of bytes they send.                           *)
(***************************************************************************)
EXTENDS CommandReceiver, SequenceTheorems, FiniteSetTheorems, TLAPS

Item == [byte : Bytes, no : Nat]

(***************************************************************************)
(* What is left of a sequence after its first k elements.                  *)
(***************************************************************************)
LEMMA Dropped ==
  ASSUME NEW S, NEW s \in Seq(S), NEW k \in 1 .. Len(s)
  PROVE  /\ SubSeq(s, k + 1, Len(s)) \in Seq(S)
         /\ DOMAIN SubSeq(s, k + 1, Len(s)) = 1 .. Len(s) - k
         /\ \A i \in 1 .. Len(s) - k : SubSeq(s, k + 1, Len(s))[i] = s[i + k]
<1>1. Len(s) \in Nat /\ k \in Nat /\ k >= 1 /\ k <= Len(s) /\ DOMAIN s = 1 .. Len(s)
  BY LenProperties
<1>2. \A i \in k + 1 .. Len(s) : s[i] \in S
  BY <1>1, ElementOfSeq
<1> QED
  BY <1>1, <1>2, SubSeqProperties

(***************************************************************************)
(* Where the elements that are left were before.                           *)
(***************************************************************************)
LEMMA Shift ==
  ASSUME NEW L \in Nat, NEW k \in 1 .. L
  PROVE  \A i \in 1 .. L - k : i \in Nat /\ i + k \in 1 .. L /\ 1 < i + k
OBVIOUS

(***************************************************************************)
(* An index of a sequence that grew by one is an old one or the last.      *)
(***************************************************************************)
LEMMA LastOne ==
  ASSUME NEW L \in Nat
  PROVE  \A i \in 1 .. L + 1 : i \in 1 .. L \/ i = L + 1
OBVIOUS

(***************************************************************************)
(* A finite set grows by at most one when one element is added.            *)
(***************************************************************************)
LEMMA AddOne ==
  ASSUME NEW S, IsFiniteSet(S), NEW x
  PROVE  /\ IsFiniteSet(S \cup {x})
         /\ Cardinality(S \cup {x}) \in Nat
         /\ Cardinality(S \cup {x}) <= Cardinality(S) + 1
<1>1. IsFiniteSet(S \cup {x}) /\ Cardinality(S \cup {x}) \in Nat /\ Cardinality(S) \in Nat
  BY FS_AddElement, FS_CardinalityType
<1>2. Cardinality(S \cup {x}) = Cardinality(S) \/ Cardinality(S \cup {x}) = Cardinality(S) + 1
  BY FS_AddElement
<1> QED
  BY <1>1, <1>2

(***************************************************************************)
(* The invariant holds in every initial state.                             *)
(***************************************************************************)
LEMMA ReceiverInvInit == Init => ReceiverInv
<1> SUFFICES ASSUME Init PROVE ReceiverInv
  OBVIOUS
<1>0. inbox \in Seq(Item) /\ applied \in Seq(Nat) /\ buff \in Item
  BY DEF Init, Nul, Item, Bytes
<1>n. n \in -1 .. BUFFLEN /\ clients \in 0 .. MaxClients /\ backlog \in 0 .. MaxClients
      /\ sends \in 0 .. MaxSends
  BY ReceiverAssumption DEF Init, ReceiverAssumption
<1>b. scanfd \in BOOLEAN /\ buff \in [byte : Bytes, no : Nat]
      /\ inbox \in Seq([byte : Bytes, no : Nat])
  BY <1>0 DEF Init, Item
<1>1. TypeOK /\ backlog <= clients
  BY <1>0, <1>n, <1>b DEF Init, TypeOK
<1>2. Handled = {} /\ DOMAIN inbox = {} /\ DOMAIN applied = {}
  BY DEF Init, Handled
<1>3. InOrder /\ FreshInOrder /\ ObeyedOnceInOrder
  BY <1>2 DEF Init, InOrder, FreshInOrder, Fresh, ObeyedOnceInOrder
<1>4. SilenceAhead
  BY FS_EmptySet DEF Init, SilenceAhead
<1> QED
  BY <1>1, <1>3, <1>4 DEF ReceiverInv

(***************************************************************************)
(* The steps that neither read nor send nor handle anything.               *)
(***************************************************************************)
LEMMA OtherSteps ==
  ASSUME ReceiverInv, UNCHANGED <<inbox, sends, applied, ignored, silences>>,
         pc' \notin {"recv", "switch"} \/ UNCHANGED localVars,
         TypeOK', backlog' <= clients'
  PROVE  ReceiverInv'
<1> USE DEF ReceiverInv, localVars
<1>1. InOrder' /\ ObeyedOnceInOrder'
  BY DEF InOrder, ObeyedOnceInOrder, Handled
<1>2. FreshInOrder'
  BY DEF FreshInOrder, Fresh, Handled
<1>3. SilenceAhead'
  BY DEF SilenceAhead
<1> QED
  BY <1>1, <1>2, <1>3

(***************************************************************************)
(* select() accounts for the silence before the command it may cost.       *)
(***************************************************************************)
LEMMA SelectStep ==
  ASSUME ReceiverInv, Select
  PROVE  ReceiverInv'
<1> USE DEF ReceiverInv, Select, netVars, flagVars
<1>1. TypeOK'
  <2>1. /\ pc' \in {"recv"} /\ err' \in {-1, 0, 1} /\ scanfd' \in BOOLEAN
    BY DEF TypeOK
  <2>2. silences' \in Nat
    BY DEF TypeOK
  <2> QED
    BY <2>1, <2>2 DEF TypeOK
<1>2. InOrder' /\ ObeyedOnceInOrder' /\ FreshInOrder'
  BY DEF InOrder, ObeyedOnceInOrder, FreshInOrder, Fresh, Handled
<1>3. Cardinality(ignored) \in Nat /\ silences \in Nat
  BY FS_CardinalityType DEF SilenceAhead, TypeOK
<1>4. SilenceAhead'
  BY <1>3 DEF SilenceAhead
<1> QED
  BY <1>1, <1>2, <1>4

(***************************************************************************)
(* recv() brings the oldest bytes, or leaves buff with what is no longer   *)
(* looked at.                                                              *)
(***************************************************************************)
LEMMA RecvStep ==
  ASSUME ReceiverInv, Recv
  PROVE  ReceiverInv'
<1> DEFINE took == IF Len(inbox) < BUFFLEN THEN Len(inbox) ELSE BUFFLEN
<1>i. TypeOK /\ backlog <= clients /\ InOrder /\ FreshInOrder /\ ObeyedOnceInOrder
      /\ SilenceAhead
  BY DEF ReceiverInv
<1>b. BUFFLEN \in Nat /\ BUFFLEN > 0
  BY ReceiverAssumption DEF ReceiverAssumption
<1>0. inbox \in Seq(Item) /\ Len(inbox) \in Nat /\ DOMAIN inbox = 1 .. Len(inbox)
  BY <1>i, LenProperties DEF TypeOK, Item
<1>s. /\ pc = "recv" /\ pc' \in {"switch", "close"}
      /\ UNCHANGED <<err, scanfd, led_on_flag, beep_on_flag, clients, backlog, sends,
                     applied, ignored, silences>>
  BY DEF Recv, flagVars, histVars
<1>1. SilenceAhead' /\ ObeyedOnceInOrder' /\ Handled' = Handled /\ backlog' <= clients'
  BY <1>i, <1>s DEF SilenceAhead, ObeyedOnceInOrder, Handled
<1>t. ASSUME n' \in -1 .. BUFFLEN, buff' \in Item, inbox' \in Seq(Item),
             peer' \in {"up", "fin", "rst", "none"}
      PROVE  TypeOK'
  BY <1>i, <1>s, <1>t DEF TypeOK, Item
<1>2. CASE inbox # <<>>
  <2>0. /\ n' = took /\ buff' = Head(inbox) /\ pc' = "switch" /\ peer' = peer
        /\ inbox' = SubSeq(inbox, n' + 1, Len(inbox))
    BY <1>2 DEF Recv
  <2>1. took \in 1 .. Len(inbox) /\ took <= BUFFLEN
    BY <1>0, <1>2, <1>b, EmptySeq
  <2>2. PICK k \in 1 .. Len(inbox) : k = n' /\ k <= BUFFLEN /\ k \in Nat /\ k >= 1
    BY <2>0, <2>1
  <2>3. buff' = inbox[1] /\ 1 \in DOMAIN inbox /\ buff' \in Item
    <3>1. inbox[1] \in Item /\ 1 \in DOMAIN inbox
      BY <1>0, <2>2, ElementOfSeq
    <3> QED
      BY <1>0, <1>2, <2>0, <3>1
  <2>4. inbox' = SubSeq(inbox, k + 1, Len(inbox))
    BY <2>0, <2>2
  <2>5. /\ inbox' \in Seq(Item)
        /\ DOMAIN inbox' = 1 .. Len(inbox) - k
        /\ \A i \in 1 .. Len(inbox) - k : inbox'[i] = inbox[i + k]
    BY <1>0, <2>4, Dropped
  <2>6. TypeOK'
    <3>1. n' \in -1 .. BUFFLEN
      BY <1>b, <2>2
    <3>2. peer' \in {"up", "fin", "rst", "none"}
      BY <1>i, <2>0 DEF TypeOK
    <3> QED
      BY ONLY <1>t, <2>3, <2>5, <3>1, <3>2
  <2>7. \A i \in DOMAIN inbox' : i \in Nat /\ i + k \in DOMAIN inbox /\ 1 < i + k
                                  /\ inbox'[i] = inbox[i + k]
    <3>1. \A i \in 1 .. Len(inbox) - k : i \in Nat /\ i + k \in 1 .. Len(inbox) /\ 1 < i + k
      BY <1>0, Shift
    <3> QED
      BY <1>0, <2>5, <3>1 DEF Item
  <2>8. \A i, j \in DOMAIN inbox' : i < j => i + k < j + k
    BY <2>2, <2>7
  <2>9. InOrder'
    BY <1>i, <1>s, <1>1, <2>7, <2>8 DEF InOrder
  <2>10. FreshInOrder'
    BY <1>i, <1>s, <1>1, <2>3, <2>7 DEF InOrder, FreshInOrder
  <2> QED
    BY <1>1, <2>6, <2>9, <2>10 DEF ReceiverInv
<1>3. CASE inbox = <<>>
  <2>1. /\ n' \in {0, -1} /\ UNCHANGED <<buff, inbox>> /\ peer' = "fin"
    BY <1>3 DEF Recv
  <2>2. TypeOK' /\ ~Fresh'
    BY <1>b, <1>i, <1>0, <1>t, <2>1 DEF TypeOK, Fresh, Item
  <2>3. InOrder' /\ FreshInOrder'
    BY <1>i, <1>s, <1>1, <2>1, <2>2 DEF InOrder, FreshInOrder
  <2> QED
    BY <1>1, <2>2, <2>3 DEF ReceiverInv
<1> QED
  BY <1>2, <1>3

(***************************************************************************)
(* Handling the command at the head of buff adds its number, the highest   *)
(* yet, either to those obeyed or to those ignored.                        *)
(***************************************************************************)
LEMMA SwitchStep ==
  ASSUME ReceiverInv, Switch
  PROVE  ReceiverInv'
<1>i. TypeOK /\ backlog <= clients /\ InOrder /\ FreshInOrder /\ ObeyedOnceInOrder
      /\ SilenceAhead
  BY DEF ReceiverInv
<1>s. /\ pc = "switch" /\ pc' \in {"select", "gprs"}
      /\ UNCHANGED <<err, scanfd, n, peer, inbox, clients, backlog, sends, silences>>
  BY DEF Switch, netVars
<1>0. /\ applied \in Seq(Nat) /\ Len(applied) \in Nat /\ DOMAIN applied = 1 .. Len(applied)
      /\ buff.no \in Nat /\ ignored \subseteq Nat /\ IsFiniteSet(ignored)
      /\ Cardinality(ignored) \in Nat /\ silences \in Nat
  BY <1>i, LenProperties, FS_CardinalityType DEF TypeOK, SilenceAhead
<1>n. buff.no \in Nat /\ Handled \subseteq Nat
  <2>1. \A i \in DOMAIN applied : applied[i] \in Nat
    BY <1>0, ElementOfSeq
  <2> QED
    BY <1>0, <2>1 DEF Handled
<1>1. ~Fresh' /\ FreshInOrder' /\ backlog' <= clients'
  BY <1>i, <1>s DEF Fresh, FreshInOrder
<1>t. ASSUME led_on_flag' \in {0, 1}, beep_on_flag' \in {0, 1}, buff' \in Item,
             applied' \in Seq(Nat), ignored' \subseteq Nat
      PROVE  TypeOK'
  <2>1. scanfd' \in BOOLEAN
    BY <1>i, <1>s DEF TypeOK
  <2> QED
    BY <1>i, <1>s, <1>t, <2>1 DEF TypeOK, Item
<1>o. ASSUME Fresh, Handled' \subseteq Handled \cup {buff.no}
      PROVE  InOrder'
  <2>1. buff.no <= sends /\ \A j \in DOMAIN inbox : buff.no < inbox[j].no
    BY <1>i, <1>o DEF FreshInOrder
  <2> QED
    BY <1>i, <1>s, <1>o, <2>1 DEF InOrder
<1>2. CASE Obeyed
  <2>0. /\ led_on_flag' = CASE buff.byte = "S" -> 1
                             [] buff.byte = "s" -> 0
                             [] OTHER -> led_on_flag
        /\ beep_on_flag' = CASE buff.byte = "B" -> 1
                              [] buff.byte = "b" -> 0
                              [] OTHER -> beep_on_flag
        /\ buff' = Nul /\ applied' = Append(applied, buff.no) /\ ignored' = ignored
    BY <1>2 DEF Switch
  <2>1. Fresh /\ \A h \in Handled : h < buff.no
    BY <1>i, <1>s, <1>2 DEF Obeyed, Fresh, FreshInOrder
  <2>2. /\ applied' \in Seq(Nat) /\ DOMAIN applied' = 1 .. Len(applied) + 1
        /\ applied'[Len(applied) + 1] = buff.no
        /\ \A i \in 1 .. Len(applied) : applied'[i] = applied[i]
    BY <1>0, <2>0, AppendProperties
  <2>3. TypeOK'
    <3>1. led_on_flag' \in {0, 1} /\ beep_on_flag' \in {0, 1}
      BY <1>i, <2>0 DEF TypeOK
    <3>2. buff' \in Item
      BY <2>0 DEF Nul, Item, Bytes
    <3> QED
      BY <1>0, <1>t, <2>0, <2>2, <3>1, <3>2
  <2>4. \A i \in DOMAIN applied' : \/ i \in DOMAIN applied /\ applied'[i] = applied[i]
                                   \/ i = Len(applied) + 1 /\ applied'[i] = buff.no
    <3>1. \A i \in 1 .. Len(applied) + 1 : i \in 1 .. Len(applied) \/ i = Len(applied) + 1
      BY <1>0, LastOne
    <3> QED
      BY <1>0, <2>2, <3>1
  <2>5. Handled' \subseteq Handled \cup {buff.no}
    BY <2>0, <2>4 DEF Handled
  <2>6. InOrder'
    BY <1>o, <2>1, <2>5
  <2>7. ObeyedOnceInOrder'
    <3>1. \A i, j \in DOMAIN applied' : i < j => applied'[i] < applied'[j]
      <4> SUFFICES ASSUME NEW i \in DOMAIN applied', NEW j \in DOMAIN applied', i < j
                   PROVE  applied'[i] < applied'[j]
        OBVIOUS
      <4>1. i \in DOMAIN applied /\ applied'[i] = applied[i]
        <5>1. i # Len(applied) + 1
          <6>1. i \in Nat /\ j \in Nat /\ j <= Len(applied) + 1
            BY <1>0, <2>2
          <6> QED
            BY <1>0, <6>1
        <5> QED
          BY <2>4, <5>1
      <4>2. CASE j \in DOMAIN applied /\ applied'[j] = applied[j]
        BY <1>i, <4>1, <4>2 DEF ObeyedOnceInOrder
      <4>3. CASE applied'[j] = buff.no
        BY <2>1, <4>1, <4>3 DEF Handled
      <4> QED
        BY <2>4, <4>2, <4>3
    <3>2. buff.no \notin ignored
      <4>1. buff.no \notin Handled
        BY <1>n, <2>1
      <4> QED
        BY <4>1 DEF Handled
    <3>3. \A i \in DOMAIN applied' : applied'[i] \notin ignored'
      BY <1>i, <2>0, <2>4, <3>2 DEF ObeyedOnceInOrder
    <3> QED
      BY <3>1, <3>3 DEF ObeyedOnceInOrder
  <2>8. SilenceAhead'
    BY <1>i, <1>s, <2>0 DEF SilenceAhead
  <2> QED
    BY <1>1, <2>3, <2>6, <2>7, <2>8 DEF ReceiverInv
<1>3. CASE ~Obeyed
  <2>0. /\ UNCHANGED <<buff, led_on_flag, beep_on_flag, applied>> /\ pc' = "select"
        /\ ignored' = IF n > 0 /\ buff.byte \in Cmds
                      THEN ignored \cup {buff.no} ELSE ignored
    BY <1>3 DEF Switch, flagVars
  <2>1. TypeOK'
    <3>1. buff' \in Item /\ led_on_flag' \in {0, 1} /\ beep_on_flag' \in {0, 1}
      BY <1>i, <2>0 DEF TypeOK, Item
    <3>2. ignored' \subseteq Nat
      BY <1>0, <2>0
    <3> QED
      BY <1>0, <1>t, <2>0, <3>1, <3>2
  <2>2. CASE n > 0 /\ buff.byte \in Cmds
    <3>0. Fresh /\ ignored' = ignored \cup {buff.no} /\ applied' = applied
      BY <1>s, <2>0, <2>2 DEF Fresh
    <3>1. \A h \in Handled : h < buff.no
      BY <1>i, <3>0 DEF FreshInOrder
    <3>2. Handled' \subseteq Handled \cup {buff.no}
      BY <3>0 DEF Handled
    <3>3. InOrder'
      BY <1>o, <3>0, <3>2
    <3>4. ObeyedOnceInOrder'
      <4>1. \A i \in DOMAIN applied : applied[i] # buff.no
        BY <1>n, <3>1 DEF Handled
      <4> QED
        BY <1>i, <3>0, <4>1 DEF ObeyedOnceInOrder
    <3>5. SilenceAhead'
      <4>1. Cardinality(ignored) < silences
        BY <1>i, <1>s, <1>3, <2>2 DEF SilenceAhead, Obeyed
      <4>2. IsFiniteSet(ignored') /\ Cardinality(ignored') <= Cardinality(ignored) + 1
            /\ Cardinality(ignored') \in Nat
        BY <1>0, <3>0, AddOne
      <4>3. Cardinality(ignored') <= silences'
        BY <1>0, <1>s, <4>1, <4>2
      <4> QED
        BY <2>0, <4>2, <4>3 DEF SilenceAhead
    <3> QED
      BY <1>1, <2>1, <3>3, <3>4, <3>5 DEF ReceiverInv
  <2>3. CASE ~(n > 0 /\ buff.byte \in Cmds)
    <3>0. UNCHANGED <<ignored, applied>>
      BY <2>0, <2>3
    <3>1. InOrder' /\ ObeyedOnceInOrder' /\ SilenceAhead'
      BY <1>i, <1>s, <2>0, <3>0 DEF InOrder, ObeyedOnceInOrder, SilenceAhead, Handled
    <3> QED
      BY <1>1, <2>1, <3>1 DEF ReceiverInv
  <2> QED
    BY <2>2, <2>3
<1> QED
  BY <1>2, <1>3

(***************************************************************************)
(* A byte that is sent has the highest number yet.                         *)
(***************************************************************************)
LEMMA SendStep ==
  ASSUME ReceiverInv, Send
  PROVE  ReceiverInv'
<1>i. TypeOK /\ backlog <= clients /\ InOrder /\ FreshInOrder /\ ObeyedOnceInOrder
      /\ SilenceAhead
  BY DEF ReceiverInv
<1>s. /\ sends < MaxSends /\ sends' = sends + 1
      /\ UNCHANGED <<pc, err, scanfd, n, buff, led_on_flag, beep_on_flag, peer, clients,
                     backlog, applied, ignored, silences>>
  BY DEF Send, localVars, flagVars, histVars
<1>b. PICK b \in Bytes : inbox' = Append(inbox, [byte |-> b, no |-> sends'])
  BY DEF Send
<1>0. /\ inbox \in Seq(Item) /\ Len(inbox) \in Nat /\ DOMAIN inbox = 1 .. Len(inbox)
      /\ sends \in Nat /\ sends' \in 0 .. MaxSends /\ sends' \in Nat /\ sends < sends'
      /\ buff.no \in Nat
  BY <1>i, <1>s, LenProperties, ReceiverAssumption DEF TypeOK, Item, ReceiverAssumption
<1>1. /\ inbox' \in Seq(Item) /\ DOMAIN inbox' = 1 .. Len(inbox) + 1
      /\ inbox'[Len(inbox) + 1] = [byte |-> b, no |-> sends']
      /\ \A i \in 1 .. Len(inbox) : inbox'[i] = inbox[i]
  <2>1. [byte |-> b, no |-> sends'] \in Item
    BY <1>0 DEF Item
  <2> QED
    BY <1>0, <1>b, <2>1, AppendProperties
<1>2. TypeOK' /\ backlog' <= clients'
  <2>1. scanfd' \in BOOLEAN
    BY <1>i, <1>s DEF TypeOK
  <2> QED
    BY <1>i, <1>s, <1>0, <1>1, <2>1 DEF TypeOK, Item
<1>3. Handled' = Handled /\ ObeyedOnceInOrder' /\ SilenceAhead'
  BY <1>i, <1>s DEF Handled, ObeyedOnceInOrder, SilenceAhead
<1>4. \A i \in DOMAIN inbox' : \/ i \in DOMAIN inbox /\ inbox'[i] = inbox[i]
                               \/ i = Len(inbox) + 1 /\ inbox'[i].no = sends'
  <2>1. \A i \in 1 .. Len(inbox) + 1 : i \in 1 .. Len(inbox) \/ i = Len(inbox) + 1
    BY <1>0, LastOne
  <2> QED
    BY <1>0, <1>1, <2>1
<1>n. /\ \A j \in DOMAIN inbox : inbox[j].no \in Nat
      /\ Handled \subseteq Nat
  <2>1. \A j \in DOMAIN inbox : inbox[j] \in Item
    BY <1>0, ElementOfSeq
  <2>2. \A i \in DOMAIN applied : applied[i] \in Nat
    BY <1>i, ElementOfSeq DEF TypeOK
  <2>3. Handled \subseteq Nat
    BY <1>i, <2>2 DEF TypeOK, Handled
  <2> QED
    BY <2>1, <2>3 DEF Item
<1>5. InOrder'
  <2>1. /\ \A h \in Handled' : h <= sends'
        /\ \A h \in Handled' : \A j \in DOMAIN inbox' : h < inbox'[j].no
    BY <1>i, <1>0, <1>3, <1>4, <1>n DEF InOrder
  <2>2. \A j \in DOMAIN inbox' : inbox'[j].no <= sends'
    BY <1>i, <1>0, <1>4, <1>n DEF InOrder
  <2>3. \A i, j \in DOMAIN inbox' : i < j => inbox'[i].no < inbox'[j].no
    <3> SUFFICES ASSUME NEW i \in DOMAIN inbox', NEW j \in DOMAIN inbox', i < j
                 PROVE  inbox'[i].no < inbox'[j].no
      OBVIOUS
    <3>1. i \in DOMAIN inbox /\ inbox'[i] = inbox[i]
      <4>1. i \in Nat /\ j \in Nat /\ j <= Len(inbox) + 1
        BY <1>0, <1>1
      <4>2. i # Len(inbox) + 1
        BY <1>0, <4>1
      <4> QED
        BY <1>4, <4>2
    <3>2. CASE j \in DOMAIN inbox /\ inbox'[j] = inbox[j]
      BY <1>i, <3>1, <3>2 DEF InOrder
    <3>3. CASE inbox'[j].no = sends'
      <4>1. inbox[i].no <= sends /\ inbox[i].no \in Nat
        BY <1>i, <1>n, <3>1 DEF InOrder
      <4> QED
        BY <1>0, <3>1, <3>3, <4>1
    <3> QED
      BY <1>4, <3>2, <3>3
  <2> QED
    BY <2>1, <2>2, <2>3 DEF InOrder
<1>6. FreshInOrder'
  <2>1. CASE Fresh
    <3>1. /\ buff.no <= sends /\ \A h \in Handled : h < buff.no
          /\ \A j \in DOMAIN inbox : buff.no < inbox[j].no
      BY <1>i, <2>1 DEF FreshInOrder
    <3>2. buff.no < sends'
      BY <1>0, <3>1
    <3> QED
      BY <1>0, <1>s, <1>3, <1>4, <3>1, <3>2 DEF FreshInOrder
  <2>2. CASE ~Fresh
    BY <1>s, <2>2 DEF Fresh, FreshInOrder
  <2> QED
    BY <2>1, <2>2
<1> QED
  BY <1>2, <1>3, <1>5, <1>6 DEF ReceiverInv

(***************************************************************************)
(* Every step of the thread and of the clients keeps the invariant.        *)
(***************************************************************************)
LEMMA ReceiverInvStep == ReceiverInv /\ [Next]_vars => ReceiverInv'
<1> SUFFICES ASSUME ReceiverInv, [Next]_vars PROVE ReceiverInv'
  OBVIOUS
<1>i. TypeOK /\ backlog <= clients
  BY DEF ReceiverInv
<1>m. MaxClients \in Nat
  BY ReceiverAssumption DEF ReceiverAssumption
<1>t. ASSUME UNCHANGED <<err, n, buff, led_on_flag, beep_on_flag, inbox, sends, applied,
                        ignored, silences>>,
             scanfd' = scanfd,
             pc' \in {"accept", "exited", "select", "recv", "switch", "gprs", "close", "start"},
             peer' \in {"none", "up", "fin", "rst"},
             clients' \in 0 .. MaxClients, backlog' \in 0 .. MaxClients
      PROVE  TypeOK'
  <2>1. scanfd' \in BOOLEAN
    BY <1>i, <1>t DEF TypeOK
  <2> QED
    BY <1>i, <1>t, <2>1 DEF TypeOK
<1>1. CASE Setup \/ Gprs \/ CloseConnection
  <2>1. /\ UNCHANGED <<err, scanfd, n, buff, flagVars, inbox, clients, backlog, sends, histVars>>
        /\ pc' \in {"accept", "exited", "select"} /\ peer' \in {peer, "none"}
    BY <1>1 DEF Setup, Gprs, CloseConnection, netVars
  <2>2. peer' \in {"none", "up", "fin", "rst"}
    BY <1>i, <2>1 DEF TypeOK
  <2>3. TypeOK' /\ backlog' <= clients'
    BY <1>i, <1>t, <2>1, <2>2 DEF TypeOK, flagVars, histVars
  <2> QED
    BY <2>1, <2>3, OtherSteps DEF histVars
<1>2. CASE Accept
  <2>1. /\ UNCHANGED <<err, scanfd, n, buff, flagVars, inbox, clients, sends, histVars>>
        /\ pc' \in {"exited", "select"} /\ peer' \in {peer, "up"}
        /\ backlog' = backlog \/ (backlog > 0 /\ backlog' = backlog - 1)
    BY <1>2 DEF Accept
  <2>2. clients \in 0 .. MaxClients /\ backlog \in 0 .. MaxClients
    BY <1>i DEF TypeOK
  <2>3. backlog' \in 0 .. MaxClients /\ backlog' <= clients' /\ clients' = clients
    BY <1>i, <1>m, <2>1, <2>2
  <2>4. peer' \in {"none", "up", "fin", "rst"}
    BY <1>i, <2>1 DEF TypeOK
  <2>5. TypeOK'
    BY <1>i, <1>t, <2>1, <2>2, <2>3, <2>4 DEF TypeOK, flagVars, histVars
  <2> QED
    BY <2>1, <2>3, <2>5, OtherSteps DEF histVars
<1>3. CASE Connect
  <2>1. /\ UNCHANGED <<localVars, flagVars, peer, inbox, sends, histVars>>
        /\ clients < MaxClients /\ clients' = clients + 1 /\ backlog' = backlog + 1
    BY <1>3 DEF Connect
  <2>2. clients \in 0 .. MaxClients /\ backlog \in 0 .. MaxClients
    BY <1>i DEF TypeOK
  <2>3. clients' \in 0 .. MaxClients /\ backlog' \in 0 .. MaxClients /\ backlog' <= clients'
    BY <1>i, <1>m, <2>1, <2>2
  <2>4. TypeOK'
    BY <1>i, <1>t, <2>1, <2>3 DEF TypeOK, localVars, flagVars, histVars
  <2> QED
    BY <2>1, <2>3, <2>4, OtherSteps DEF histVars
<1>4. CASE Leave
  <2>1. UNCHANGED <<localVars, flagVars, inbox, clients, backlog, sends, histVars>>
        /\ peer' \in {"fin", "rst"}
    BY <1>4 DEF Leave
  <2>2. TypeOK'
    BY <1>i, <1>t, <2>1 DEF TypeOK, localVars, flagVars, histVars
  <2> QED
    BY <1>i, <2>1, <2>2, OtherSteps DEF histVars
<1>5. CASE UNCHANGED vars
  <2>1. UNCHANGED <<localVars, flagVars, netVars, histVars>>
    BY <1>5 DEF vars
  <2>2. TypeOK'
    BY <1>i, <1>t, <2>1 DEF TypeOK, localVars, flagVars, netVars, histVars
  <2> QED
    BY <1>i, <2>1, <2>2, OtherSteps DEF netVars, histVars
<1> QED
  BY <1>1, <1>2, <1>3, <1>4, <1>5, SelectStep, RecvStep, SwitchStep, SendStep DEF Next, Thread

(***************************************************************************)
(* The bytes in the kernel, in buff and among those handled stay in the    *)
(* order they were sent, over any number of clients and whatever select()  *)
(* and recv() return.                                                      *)
(***************************************************************************)
THEOREM ReceiverInvariant == Spec => []ReceiverInv
<1> QED
  BY ReceiverInvInit, ReceiverInvStep, PTL DEF Spec

(***************************************************************************)
(* A byte is obeyed at most once and commands in the order they were sent; *)
(* one that was ignored is not obeyed later.                               *)
(***************************************************************************)
THEOREM CommandsObeyedOnce == Spec => []ObeyedOnceInOrder
<1>1. ReceiverInv => ObeyedOnceInOrder
  BY DEF ReceiverInv
<1> QED
  BY <1>1, ReceiverInvariant, PTL

(***************************************************************************)
(* A command that heads a read is ignored only when a second of silence,   *)
(* or a select() that failed, came before it, and one of them costs at     *)
(* most one command.                                                       *)
(***************************************************************************)
THEOREM SilencePaysForIgnored == Spec => []IgnoredOnlyAfterSilence
<1>1. ReceiverInv => IgnoredOnlyAfterSilence
  BY DEF ReceiverInv, SilenceAhead, IgnoredOnlyAfterSilence
<1> QED
  BY <1>1, ReceiverInvariant, PTL

=============================================================================
