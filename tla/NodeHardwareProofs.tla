------------------------- MODULE NodeHardwareProofs -------------------------
(***************************************************************************)
(* Proofs about what lies beneath the node's protocol, for every value of  *)
(* the constants: the serial driver, whose two rings implement queues and  *)
(* never refuse a byte; the counter, whose bytewise accesses implement     *)
(* atomic ones; and the power, where the XBee and the processor are awake  *)
(* at the same time when one of them relies on the other.                  *)
(***************************************************************************)
EXTENDS SerialDriver, NodePower, SharedCounter, TLAPS, WellFoundedInduction
-----------------------------------------------------------------------------
(* The serial driver.                                                      *)

Index == 0..(Size - 1)

Successor(i) == IF i + 1 = Size THEN 0 ELSE i + 1

(* The bytes of ring s between tail t and head h, and their number.        *)
Held(h, t) == IF t <= h THEN h - t ELSE h + Size - t

Window(s, h, t) == [i \in 1..Held(h, t) |-> s[(t + i) % Size]]

-----------------------------------------------------------------------------
(* The ring as a sequence.                                                 *)

LEMMA SuccessorType == ASSUME NEW i \in Index PROVE Successor(i) \in Index
BY SizeAssumption DEF Index, Successor

LEMMA SuccessorMoves == ASSUME NEW i \in Index PROVE Successor(i) # i
BY SizeAssumption DEF Index, Successor

LEMMA HeldType ==
    ASSUME NEW h \in Index, NEW t \in Index
    PROVE  /\ Held(h, t) \in Index /\ Held(h, t) \in Nat /\ Held(h, t) < Size
           /\ Held(h, t) = 0 <=> h = t
BY SizeAssumption DEF Index, Held

(* A successor that is not the tail is one byte more.                      *)
LEMMA HeldMore ==
    ASSUME NEW h \in Index, NEW t \in Index
    PROVE  IF Successor(h) = t THEN Held(h, t) = Size - 1
                               ELSE Held(Successor(h), t) = Held(h, t) + 1
BY SizeAssumption DEF Index, Held, Successor

LEMMA HeldFewer ==
    ASSUME NEW h \in Index, NEW t \in Index, h # t
    PROVE  Held(h, Successor(t)) = Held(h, t) - 1
BY SizeAssumption DEF Index, Held, Successor

LEMMA ModRing ==
    ASSUME NEW x \in 0..(2 * Size - 1)
    PROVE  /\ x < Size => x % Size = x
           /\ Size <= x => x % Size = x - Size
BY SizeAssumption

(* The slot of the i-th byte after the tail.                               *)
SlotAt(t, i) == IF t + i < Size THEN t + i ELSE t + i - Size

LEMMA SlotIsMod ==
    ASSUME NEW t \in Index, NEW i \in 0..Size
    PROVE  (t + i) % Size = SlotAt(t, i)
<1>1. t + i \in 0..(2 * Size - 1)
  BY SizeAssumption DEF Index
<1>2. CASE t + i < Size
  BY <1>1, <1>2, ModRing DEF SlotAt
<1>3. CASE Size <= t + i
  BY <1>1, <1>3, ModRing, SizeAssumption DEF SlotAt, Index
<1> QED BY <1>2, <1>3, SizeAssumption DEF Index

(* None is the slot after the head, nor the tail.                          *)
LEMMA SlotOf ==
    ASSUME NEW h \in Index, NEW t \in Index, NEW i \in 1..Held(h, t)
    PROVE  /\ i \in 0..Size
           /\ SlotAt(t, i) \in Index
           /\ Successor(h) # t => SlotAt(t, i) # Successor(h)
           /\ SlotAt(t, i) # t
BY SizeAssumption DEF Index, Held, Successor, SlotAt

LEMMA SlotOfLast ==
    ASSUME NEW h \in Index, NEW t \in Index, Successor(h) # t
    PROVE  Held(h, t) + 1 \in 0..Size /\ SlotAt(t, Held(h, t) + 1) = Successor(h)
BY SizeAssumption DEF Index, Held, Successor, SlotAt

LEMMA SlotOfNext ==
    ASSUME NEW t \in Index, NEW i \in 0..(Size - 1)
    PROVE  SlotAt(Successor(t), i) = SlotAt(t, i + 1)
BY SizeAssumption DEF Index, Successor, SlotAt

(* Each byte of the window is the one in its slot.                         *)
LEMMA WindowAt ==
    ASSUME NEW s, NEW h \in Index, NEW t \in Index, NEW i \in 1..Held(h, t)
    PROVE  Window(s, h, t)[i] = s[SlotAt(t, i)]
<1>1. Window(s, h, t)[i] = s[(t + i) % Size]
  BY DEF Window
<1>2. (t + i) % Size = SlotAt(t, i)
  BY SlotOf, SlotIsMod
<1> QED BY <1>1, <1>2

LEMMA WindowType ==
    ASSUME NEW s \in [Index -> Byte], NEW h \in Index, NEW t \in Index
    PROVE  /\ Window(s, h, t) \in Seq(Byte)
           /\ Len(Window(s, h, t)) = Held(h, t)
           /\ Window(s, h, t) = <<>> <=> h = t
<1>1. Held(h, t) \in Nat
  BY HeldType
<1>2. ASSUME NEW i \in 1..Held(h, t) PROVE s[(t + i) % Size] \in Byte
  BY SlotOf, SlotIsMod
<1>3. Window(s, h, t) \in Seq(Byte) /\ Len(Window(s, h, t)) = Held(h, t)
  BY <1>1, <1>2 DEF Window
<1> QED BY <1>3, HeldType

(* buffer_put is Append.                                                   *)
LEMMA WindowPut ==
    ASSUME NEW s \in [Index -> Byte], NEW h \in Index, NEW t \in Index, NEW b \in Byte,
           Successor(h) # t
    PROVE  Window([s EXCEPT ![Successor(h)] = b], Successor(h), t)
               = Append(Window(s, h, t), b)
<1> DEFINE r == [s EXCEPT ![Successor(h)] = b]
           n == Held(h, t)
<1>1. r \in [Index -> Byte] /\ Successor(h) \in Index /\ n \in Nat
  BY SuccessorType, HeldType
<1>2. Held(Successor(h), t) = n + 1
  BY HeldMore
<1>r. /\ r[Successor(h)] = b
      /\ \A j \in Index : j # Successor(h) => r[j] = s[j]
  BY <1>1
<1> HIDE DEF r
<1>3. Window(r, Successor(h), t) \in Seq(Byte) /\ Len(Window(r, Successor(h), t)) = n + 1
  BY <1>1, <1>2, WindowType
<1>4. Append(Window(s, h, t), b) \in Seq(Byte) /\ Len(Append(Window(s, h, t), b)) = n + 1
  BY WindowType
<1>5. ASSUME NEW i \in 1..(n + 1)
      PROVE  Window(r, Successor(h), t)[i] = Append(Window(s, h, t), b)[i]
  <2>1. Window(r, Successor(h), t)[i] = r[SlotAt(t, i)]
    BY <1>1, <1>2, WindowAt
  <2>2. CASE i = n + 1
    <3>1. r[SlotAt(t, i)] = b
      BY <2>2, <1>r, SlotOfLast
    <3>2. Append(Window(s, h, t), b)[i] = b
      BY <2>2, WindowType
    <3> QED BY <3>1, <3>2, <2>1
  <2>3. CASE i # n + 1
    <3>1. i \in 1..n
      BY <2>3, <1>1
    <3>2. r[SlotAt(t, i)] = s[SlotAt(t, i)]
      BY <3>1, <1>r, SlotOf
    <3>3. Append(Window(s, h, t), b)[i] = Window(s, h, t)[i]
      BY <3>1, WindowType
    <3>4. Window(s, h, t)[i] = s[SlotAt(t, i)]
      BY <3>1, WindowAt
    <3> QED BY <2>1, <3>2, <3>3, <3>4
  <2> QED BY <2>2, <2>3
<1>6. Window(r, Successor(h), t) = Append(Window(s, h, t), b)
  BY <1>1, <1>3, <1>4, <1>5
<1> QED BY <1>6 DEF r

(* buffer_get is Head and Tail.                                            *)
LEMMA WindowGet ==
    ASSUME NEW s \in [Index -> Byte], NEW h \in Index, NEW t \in Index, h # t
    PROVE  /\ Window(s, h, t) # <<>>
           /\ s[Successor(t)] = Head(Window(s, h, t))
           /\ Window(s, h, Successor(t)) = Tail(Window(s, h, t))
<1> DEFINE w == Window(s, h, t)
           v == Window(s, h, Successor(t))
<1>1. Successor(t) \in Index /\ Held(h, t) \in Nat \ {0}
  BY SuccessorType, HeldType
<1>2. w \in Seq(Byte) /\ Len(w) = Held(h, t) /\ w # <<>>
  BY WindowType
<1>3. v \in Seq(Byte) /\ Len(v) = Held(h, t) - 1
  BY <1>1, WindowType, HeldFewer
<1>4. SlotAt(t, 1) = Successor(t)
  BY SizeAssumption DEF Index, Successor, SlotAt
<1>5. w[1] = s[Successor(t)]
  BY <1>1, <1>4, WindowAt
<1>6. ASSUME NEW i \in 1..(Held(h, t) - 1)
      PROVE  v[i] = w[i + 1]
  <2>1. v[i] = s[SlotAt(Successor(t), i)]
    BY <1>1, HeldFewer, WindowAt
  <2>2. i + 1 \in 1..Held(h, t)
    BY <1>1
  <2>3. w[i + 1] = s[SlotAt(t, i + 1)]
    BY <2>2, WindowAt
  <2>4. i \in 0..(Size - 1)
    BY HeldType, SizeAssumption
  <2> QED BY <2>1, <2>3, <2>4, SlotOfNext
<1> HIDE DEF w, v
<1>7. Tail(w) \in Seq(Byte) /\ Len(Tail(w)) = Held(h, t) - 1
      /\ \A i \in 1..(Held(h, t) - 1) : Tail(w)[i] = w[i + 1]
  BY <1>1, <1>2
<1>8. v = Tail(w)
  BY <1>3, <1>6, <1>7
<1> QED BY <1>2, <1>5, <1>8 DEF w, v

-----------------------------------------------------------------------------
(* Where main and the interrupts can be.                                   *)

RxTypes == /\ rxSlot \in [Index -> Byte] /\ rxHead \in Index /\ rxTail \in Index
           /\ rxPc \in {"idle", "taken", "head"}
           /\ rxCh \in Byte \cup {NoData}

TxTypes == /\ txSlot \in [Index -> Byte] /\ txHead \in Index /\ txTail \in Index
           /\ txPc \in {"idle", "check", "head", "data", "enable", "init"}
           /\ txCh \in Byte /\ sent \in Byte \cup {NoData}

FlagTypes == /\ rxAccepted \in BOOLEAN /\ txAccepted \in BOOLEAN
             /\ enabled \in BOOLEAN /\ returned \in BOOLEAN /\ stepped \in BOOLEAN

(* One thread: main is in getch, in sendch or in uartInit.                 *)
OneCall == rxPc = "idle" \/ txPc = "idle"

(* While the receive buffer is initialised its tail still lies ahead of    *)
(* the bytes that come in, or is already where it shall be.                *)
Clearing == rxPc = "head" => rxTail = 0 \/ rxHead < rxTail

(* The bytes sendch has put and the interrupt has not taken.               *)
Pending == Held(txHead, txTail)

(* With the interrupt enabled main is at most one step ahead of it, so it  *)
(* does not come to move the head before the interrupt has found nothing.  *)
Ahead == /\ stepped => ~returned
         /\ Pending = 0 \/ Pending = 1
         /\ Pending = 1 => txPc = "idle" \/ (txPc = "check" /\ stepped)
         /\ Pending = 0 => txPc \in {"idle", "check"} \/ (txPc = "head" /\ stepped)

(* With the interrupt disabled main has at most the byte it is putting.    *)
Alone == /\ txPc \in {"idle", "check", "head"} => Pending = 0
         /\ txPc \in {"data", "enable"} => Pending = 1
         /\ txPc = "init" => txHead = 0

Lockstep == IF enabled THEN Ahead ELSE Alone

SInv == RxTypes /\ TxTypes /\ FlagTypes /\ OneCall /\ Clearing /\ Lockstep

(* The instances' names for the ring are those of this module.             *)
LEMMA RingNames ==
    /\ Receive!Index = Index /\ Transmit!Index = Index
    /\ \A i : Receive!Successor(i) = Successor(i) /\ Transmit!Successor(i) = Successor(i)
    /\ \A h, t : /\ Receive!Contents(h, t) = Window(rxSlot, h, t)
                 /\ Transmit!Contents(h, t) = Window(txSlot, h, t)
BY DEF Receive!Index, Transmit!Index, Index, Receive!Successor, Transmit!Successor, Successor,
       Receive!Contents, Transmit!Contents, Receive!Count, Transmit!Count, Window, Held

LEMMA SerialInit == Init => SInv
<1> SUFFICES ASSUME Init PROVE SInv
  OBVIOUS
<1> USE SizeAssumption, RingNames DEF Init, Receive!Init, Transmit!Init,
        Receive!BufferInit, Transmit!BufferInit
<1>1. RxTypes
  BY DEF RxTypes, Index
<1>2. TxTypes
  BY DEF TxTypes, Index
<1>3. FlagTypes
  BY DEF FlagTypes
<1>4. OneCall /\ Clearing /\ Lockstep
  BY DEF OneCall, Clearing, Lockstep, Alone, Pending, Held
<1> QED BY <1>1, <1>2, <1>3, <1>4 DEF SInv

(* What main does with the receive buffer.                                 *)
LEMMA ReceiveStep ==
    ASSUME SInv, Receive!MainStep \/ \E b \in Byte : Receive!ReceiveISR(b)
    PROVE  RxTypes' /\ Clearing' /\ rxAccepted' \in BOOLEAN
<1> USE RingNames DEF SInv, RxTypes, FlagTypes, Clearing, Receive!bufferVars
<1>1. CASE Receive!GetNothing
  BY <1>1 DEF Receive!GetNothing
<1>2. CASE Receive!GetTail
  BY <1>2, SuccessorType DEF Receive!GetTail
<1>3. CASE Receive!GetByte
  BY <1>3 DEF Receive!GetByte
<1>4. CASE Receive!InitHead
  BY <1>4, SizeAssumption DEF Receive!InitHead, Index
<1>5. CASE Receive!InitTail
  BY <1>5, SizeAssumption DEF Receive!InitTail, Index
<1>6. ASSUME NEW b \in Byte, Receive!ReceiveISR(b)
      PROVE  RxTypes' /\ Clearing' /\ rxAccepted' \in BOOLEAN
  <2>1. CASE Receive!Full
    BY <1>6, <2>1 DEF Receive!ReceiveISR
  <2>2. CASE ~Receive!Full
    <3>1. /\ rxHead' = Successor(rxHead) /\ Successor(rxHead) # rxTail
          /\ rxSlot' = [rxSlot EXCEPT ![Successor(rxHead)] = b]
          /\ rxAccepted' = TRUE /\ UNCHANGED <<rxTail, rxPc, rxCh>>
      BY <1>6, <2>2 DEF Receive!ReceiveISR, Receive!Full
    <3>2. Clearing'
      BY <3>1, SizeAssumption DEF Index, Successor
    <3> QED BY <3>1, <3>2, SuccessorType
  <2> QED BY <2>1, <2>2
<1> QED BY <1>1, <1>2, <1>3, <1>4, <1>5, <1>6 DEF Receive!MainStep

(* The types a step of sendch, of uartInit or of the transmit interrupt    *)
(* keeps.                                                                  *)
LEMMA TransmitTypes ==
    ASSUME SInv, Transmit!MainStep \/ Transmit!TransmitISR
    PROVE  /\ TxTypes'
           /\ txAccepted' \in BOOLEAN /\ enabled' \in BOOLEAN /\ returned' \in BOOLEAN
<1> USE RingNames DEF SInv, TxTypes, FlagTypes, Transmit!bufferVars, Transmit!Main
<1>0. 0 \in Index
  BY SizeAssumption DEF Index
<1>1. ASSUME NEW b \in Byte, Transmit!SendCh(b)
      PROVE  /\ TxTypes'
             /\ txAccepted' \in BOOLEAN /\ enabled' \in BOOLEAN /\ returned' \in BOOLEAN
  BY <1>1 DEF Transmit!SendCh
<1>2. CASE Transmit!PutCheck
  <2>1. TxTypes'
    BY <1>2 DEF Transmit!PutCheck
  <2>2. txAccepted' \in BOOLEAN /\ enabled' \in BOOLEAN /\ returned' \in BOOLEAN
    BY <1>2 DEF Transmit!PutCheck
  <2> QED BY <2>1, <2>2
<1>3. CASE Transmit!PutHead
  BY <1>3, SuccessorType DEF Transmit!PutHead
<1>4. CASE Transmit!PutData
  BY <1>4 DEF Transmit!PutData
<1>5. CASE Transmit!EnableInterrupt
  BY <1>5 DEF Transmit!EnableInterrupt
<1>6. CASE Transmit!TransmitISR
  BY <1>6, SuccessorType DEF Transmit!TransmitISR
<1>7. CASE Transmit!InitHead
  BY <1>7, <1>0 DEF Transmit!InitHead
<1>8. CASE Transmit!InitTail
  BY <1>8, <1>0 DEF Transmit!InitTail
<1> QED BY <1>1, <1>2, <1>3, <1>4, <1>5, <1>6, <1>7, <1>8
           DEF Transmit!MainStep, Transmit!Working

(* Main's step keeps the lockstep: with the interrupt enabled main can     *)
(* only enter sendch, or check while nothing is pending.                   *)
LEMMA MainInLockstep ==
    ASSUME SInv, Transmit!MainStep, stepped' = enabled
    PROVE  Lockstep'
<1> USE RingNames DEF SInv, TxTypes, FlagTypes, Lockstep, Pending, Transmit!bufferVars,
        Transmit!Main, Transmit!MainRuns
<1>h. Held(txHead, txTail) \in Nat /\ (Held(txHead, txTail) = 0 <=> txHead = txTail)
  BY HeldType
<1>1. ASSUME NEW b \in Byte, Transmit!SendCh(b) PROVE Lockstep'
  BY <1>1 DEF Transmit!SendCh, Ahead, Alone
<1>2. CASE Transmit!PutCheck
  <2>1. Held(txHead, txTail) = 0 /\ ~Transmit!Full
    <3>1. Held(txHead, txTail) = 0
      BY <1>2 DEF Transmit!PutCheck, Ahead, Alone
    <3>2. Successor(txHead) # txTail
      BY <3>1, <1>h, SuccessorMoves
    <3> QED BY <3>1, <3>2 DEF Transmit!Full
  <2> QED BY <1>2, <2>1 DEF Transmit!PutCheck, Ahead, Alone
<1>3. CASE Transmit!PutHead
  <2>1. ~enabled /\ Held(txHead, txTail) = 0
    BY <1>3 DEF Transmit!PutHead, Ahead, Alone
  <2>2. Held(Successor(txHead), txTail) = 1
    BY <2>1, <1>h, SizeAssumption DEF Successor, Index, Held
  <2> QED BY <1>3, <2>1, <2>2 DEF Transmit!PutHead, Alone
<1>4. CASE Transmit!PutData
  BY <1>4 DEF Transmit!PutData, Ahead, Alone
<1>5. CASE Transmit!EnableInterrupt
  <2>1. ~enabled /\ Held(txHead, txTail) = 1
    BY <1>5 DEF Transmit!EnableInterrupt, Ahead, Alone
  <2> QED BY <1>5, <2>1 DEF Transmit!EnableInterrupt, Ahead
<1>6. CASE Transmit!InitHead
  BY <1>6 DEF Transmit!InitHead, Alone
<1>7. CASE Transmit!InitTail
  <2>1. ~enabled /\ txHead = 0
    BY <1>7 DEF Transmit!InitTail, Ahead, Alone
  <2> QED BY <1>7, <2>1, SizeAssumption DEF Transmit!InitTail, Alone, Held
<1> QED BY <1>1, <1>2, <1>3, <1>4, <1>5, <1>6, <1>7 DEF Transmit!MainStep, Transmit!Working

LEMMA InterruptInLockstep ==
    ASSUME SInv, Transmit!TransmitISR, stepped' = FALSE
    PROVE  Lockstep'
<1> USE RingNames DEF SInv, TxTypes, FlagTypes, Lockstep, Pending, Transmit!TransmitISR,
        Transmit!Empty
<1>h. Held(txHead, txTail) \in Nat /\ (Held(txHead, txTail) = 0 <=> txHead = txTail)
  BY HeldType
<1>1. CASE txHead = txTail
  BY <1>1, <1>h DEF Ahead, Alone
<1>2. CASE txHead # txTail
  <2>1. Held(txHead, txTail) = 1 /\ Held(txHead, Successor(txTail)) = 0
    BY <1>2, <1>h, HeldFewer DEF Ahead
  <2> QED BY <1>2, <2>1 DEF Ahead
<1> QED BY <1>1, <1>2

LEMMA SerialStep == SInv /\ [Next]_vars => SInv'
<1> SUFFICES ASSUME SInv, [Next]_vars PROVE SInv'
  OBVIOUS
<1> USE DEF SInv, OneCall
<1>1. CASE MainReceives
  <2>1. RxTypes' /\ Clearing' /\ rxAccepted' \in BOOLEAN
    BY <1>1, ReceiveStep DEF MainReceives
  <2>2. TxTypes' /\ FlagTypes'
    BY <1>1, <2>1 DEF MainReceives, txRing, TxTypes, FlagTypes
  <2>3. Lockstep'
    BY <1>1 DEF MainReceives, txRing, Transmit!MainRuns, Lockstep, Ahead, Alone, Pending,
                FlagTypes
  <2> QED BY <1>1, <2>1, <2>2, <2>3 DEF MainReceives, txRing
<1>2. CASE MainSends
  <2>1. TxTypes' /\ Lockstep'
        /\ txAccepted' \in BOOLEAN /\ enabled' \in BOOLEAN /\ returned' \in BOOLEAN
    BY <1>2, TransmitTypes, MainInLockstep DEF MainSends
  <2>2. RxTypes' /\ FlagTypes' /\ Clearing'
    BY <1>2, <2>1 DEF MainSends, rxVars, RxTypes, FlagTypes, Clearing
  <2> QED BY <1>2, <2>1, <2>2 DEF MainSends, rxVars
<1>3. CASE ReceiveInterrupt
  <2>1. RxTypes' /\ Clearing' /\ rxAccepted' \in BOOLEAN
    BY <1>3, ReceiveStep DEF ReceiveInterrupt
  <2>2. TxTypes' /\ FlagTypes'
    BY <1>3, <2>1 DEF ReceiveInterrupt, txRing, TxTypes, FlagTypes
  <2>3. Lockstep'
    BY <1>3 DEF ReceiveInterrupt, txRing, Lockstep, Ahead, Alone, Pending, FlagTypes
  <2>4. OneCall'
    BY <1>3 DEF ReceiveInterrupt, Receive!ReceiveISR, txRing
  <2> QED BY <2>1, <2>2, <2>3, <2>4
<1>4. CASE TransmitInterrupt
  <2>1. TxTypes' /\ Lockstep'
        /\ txAccepted' \in BOOLEAN /\ enabled' \in BOOLEAN /\ returned' \in BOOLEAN
    BY <1>4, TransmitTypes, InterruptInLockstep DEF TransmitInterrupt
  <2>2. RxTypes' /\ FlagTypes' /\ Clearing'
    BY <1>4, <2>1 DEF TransmitInterrupt, rxVars, RxTypes, FlagTypes, Clearing
  <2>3. OneCall'
    BY <1>4 DEF TransmitInterrupt, Transmit!TransmitISR, rxVars
  <2> QED BY <2>1, <2>2, <2>3
<1>5. CASE UNCHANGED vars
  BY <1>5 DEF vars, rxVars, txRing, RxTypes, TxTypes, FlagTypes, Clearing, Lockstep, Ahead,
              Alone, Pending
<1> QED BY <1>1, <1>2, <1>3, <1>4, <1>5 DEF Next

(* Head and tail of each ring, how far main is in a call and what the      *)
(* interrupts have done since agree at every step.                         *)
THEOREM SerialInvariant == Spec => []SInv
<1> QED BY SerialInit, SerialStep, PTL DEF Spec

(* Every variable of the driver keeps its type, and main is never in two   *)
(* calls at once.                                                          *)
THEOREM SerialTypes == Spec => []TypeOK
<1>1. SInv => TypeOK
  <2>1. SInv => Receive!TypeOK /\ Transmit!TypeOK
    BY RingNames DEF SInv, RxTypes, TxTypes, FlagTypes, Receive!TypeOK, Transmit!TypeOK,
       Receive!BufferTypeOK, Transmit!BufferTypeOK
  <2> QED BY <2>1 DEF SInv, FlagTypes, OneCall, TypeOK
<1> QED BY <1>1, SerialInvariant, PTL

(* A frame of any length, sent while any bytes come in, never meets a full *)
(* transmit buffer; with two slots, one of them free, it would.            *)
THEOREM NeverRefused ==
    ASSUME Size > 2
    PROVE  Spec => []NothingRefused
<1>1. ASSUME SInv PROVE NothingRefused
  <2>1. CASE txPc # "check"
    BY <2>1 DEF NothingRefused, Transmit!NothingRefused
  <2>2. CASE txPc = "check"
    <3>1. Held(txHead, txTail) = 0 \/ Held(txHead, txTail) = 1
      BY <1>1, <2>2 DEF SInv, Lockstep, Ahead, Alone, Pending
    <3>2. txHead \in Index /\ txTail \in Index
      BY <1>1 DEF SInv, TxTypes
    <3>3. Successor(txHead) # txTail
      BY <3>1, <3>2, HeldMore, SizeAssumption, Size > 2
    <3> QED BY <3>3, RingNames DEF NothingRefused, Transmit!NothingRefused, Transmit!Full
  <2> QED BY <2>1, <2>2
<1> QED BY <1>1, SerialInvariant, PTL

-----------------------------------------------------------------------------
(* The receive buffer implements the queue.                                *)

RxQueue == Window(rxSlot, rxHead, IF rxPc = "head" THEN 0 ELSE rxTail)
RxOut == IF rxPc = "taken" THEN rxSlot[rxTail] ELSE rxCh
RxClearing == rxPc = "head"
rxQueueVars == <<RxQueue, RxOut, rxAccepted, RxClearing>>

RxPut(b) == /\ Len(RxQueue) < Size - 1
            /\ RxQueue' = Append(RxQueue, b)
            /\ rxAccepted' = TRUE
            /\ UNCHANGED <<RxOut, RxClearing>>

RxRefuse == /\ Len(RxQueue) = Size - 1 \/ RxClearing
            /\ rxAccepted' = FALSE
            /\ UNCHANGED <<RxQueue, RxOut, RxClearing>>

LEMMA InterruptPuts ==
    ASSUME SInv, NEW b \in Byte, Receive!ReceiveISR(b)
    PROVE  RxPut(b) \/ RxRefuse
<1> DEFINE t == IF rxPc = "head" THEN 0 ELSE rxTail
<1>1. /\ rxSlot \in [Index -> Byte] /\ rxHead \in Index /\ rxTail \in Index
      /\ t \in Index /\ UNCHANGED <<rxTail, rxPc, rxCh>>
  BY SizeAssumption DEF SInv, RxTypes, Receive!ReceiveISR, Index
<1>2. UNCHANGED RxClearing
  BY <1>1 DEF RxClearing
<1>3. Len(RxQueue) = Held(rxHead, t)
  BY <1>1, WindowType DEF RxQueue
<1>4. CASE Receive!Full
  <2>1. UNCHANGED <<rxSlot, rxHead>> /\ rxAccepted' = FALSE
    BY <1>4 DEF Receive!ReceiveISR
  <2>2. UNCHANGED <<RxQueue, RxOut>>
    BY <1>1, <2>1 DEF RxQueue, RxOut
  <2>3. Successor(rxHead) = rxTail
    BY <1>4, RingNames DEF Receive!Full
  <2>4. RxClearing \/ Len(RxQueue) = Size - 1
    BY <1>1, <1>3, <2>3, HeldMore DEF RxClearing
  <2> QED BY <1>2, <2>1, <2>2, <2>4 DEF RxRefuse
<1>5. CASE ~Receive!Full
  <2>1. /\ Successor(rxHead) # rxTail /\ rxHead' = Successor(rxHead)
        /\ rxSlot' = [rxSlot EXCEPT ![Successor(rxHead)] = b]
        /\ rxAccepted' = TRUE
    BY <1>5, RingNames DEF Receive!ReceiveISR, Receive!Full
  <2>2. Successor(rxHead) # t
    <3>1. CASE rxPc = "head"
      <4>1. rxTail = 0 \/ rxHead < rxTail
        BY <3>1 DEF SInv, Clearing
      <4> QED BY <1>1, <2>1, <3>1, <4>1, SizeAssumption DEF Successor, Index
    <3> QED BY <2>1, <3>1
  <2>3. Len(RxQueue) < Size - 1
    <3>1. Held(Successor(rxHead), t) = Held(rxHead, t) + 1
      BY <1>1, <2>2, HeldMore
    <3>2. Held(rxHead, t) \in Nat /\ Held(Successor(rxHead), t) < Size
      BY <1>1, SuccessorType, HeldType
    <3> QED BY <1>3, <3>1, <3>2, SizeAssumption
  <2>4. RxQueue' = Append(RxQueue, b)
    BY <1>1, <2>1, <2>2, WindowPut DEF RxQueue
  <2>5. UNCHANGED RxOut
    <3>1. CASE rxPc = "taken"
      BY <1>1, <2>1, <3>1 DEF RxOut
    <3> QED BY <1>1, <3>1 DEF RxOut
  <2> QED BY <1>2, <2>1, <2>3, <2>4, <2>5 DEF RxPut
<1> QED BY <1>4, <1>5

RxTake == /\ RxQueue # <<>> /\ ~RxClearing
          /\ RxOut' = Head(RxQueue)
          /\ RxQueue' = Tail(RxQueue)
          /\ UNCHANGED <<rxAccepted, RxClearing>>

RxMiss == /\ RxQueue = <<>> /\ ~RxClearing
          /\ RxOut' = NoData
          /\ UNCHANGED <<RxQueue, rxAccepted, RxClearing>>

RxBeginClear == RxQueue' = <<>> /\ RxClearing' = TRUE /\ UNCHANGED <<RxOut, rxAccepted>>

RxEndClear == RxClearing' = FALSE /\ UNCHANGED <<RxQueue, RxOut, rxAccepted>>

LEMMA MainTakes ==
    ASSUME SInv, Receive!MainStep
    PROVE  RxTake \/ RxMiss \/ RxBeginClear \/ RxEndClear \/ UNCHANGED rxQueueVars
<1> USE DEF Receive!bufferVars, RxClearing
<1>1. rxSlot \in [Index -> Byte] /\ rxHead \in Index /\ rxTail \in Index /\ 0 \in Index
  BY SizeAssumption DEF SInv, RxTypes, Index
<1>2. CASE Receive!GetNothing
  BY <1>1, <1>2, WindowType DEF Receive!GetNothing, Receive!Empty, RxMiss, RxQueue, RxOut
<1>3. CASE Receive!GetTail
  <2>1. /\ rxPc = "idle" /\ rxHead # rxTail /\ rxTail' = Successor(rxTail) /\ rxPc' = "taken"
        /\ UNCHANGED <<rxSlot, rxHead, rxCh, rxAccepted>>
    BY <1>3, RingNames DEF Receive!GetTail, Receive!Empty
  <2>2. /\ RxQueue = Window(rxSlot, rxHead, rxTail)
        /\ RxQueue' = Window(rxSlot, rxHead, Successor(rxTail))
        /\ RxOut' = rxSlot[Successor(rxTail)]
    BY <2>1 DEF RxQueue, RxOut
  <2> QED BY <1>1, <2>1, <2>2, WindowGet DEF RxTake
<1>4. CASE Receive!GetByte
  BY <1>4 DEF Receive!GetByte, rxQueueVars, RxQueue, RxOut
<1>5. CASE Receive!InitHead
  BY <1>1, <1>5, WindowType DEF Receive!InitHead, RxBeginClear, RxQueue, RxOut
<1>6. CASE Receive!InitTail
  BY <1>6 DEF Receive!InitTail, RxEndClear, RxQueue, RxOut
<1> QED BY <1>2, <1>3, <1>4, <1>5, <1>6 DEF Receive!MainStep

(* Every step of the driver is, for the bytes received, one step of the    *)
(* queue or none.                                                          *)
LEMMA ReceiveSimulates ==
    SInv /\ [Next]_vars =>
        \/ \E b \in Byte : RxPut(b)
        \/ RxRefuse \/ RxTake \/ RxMiss \/ RxBeginClear \/ RxEndClear
        \/ UNCHANGED rxQueueVars
<1> SUFFICES ASSUME SInv, [Next]_vars
             PROVE  \/ \E b \in Byte : RxPut(b)
                    \/ RxRefuse \/ RxTake \/ RxMiss \/ RxBeginClear \/ RxEndClear
                    \/ UNCHANGED rxQueueVars
  OBVIOUS
<1>1. CASE MainReceives
  BY <1>1, MainTakes DEF MainReceives
<1>2. CASE ReceiveInterrupt
  BY <1>2, InterruptPuts DEF ReceiveInterrupt
<1>3. CASE MainSends \/ TransmitInterrupt \/ UNCHANGED vars
  <2>1. UNCHANGED rxVars
    BY <1>3 DEF MainSends, TransmitInterrupt, vars
  <2> QED BY <2>1 DEF rxVars, rxQueueVars, RxQueue, RxOut, RxClearing
<1> QED BY <1>1, <1>2, <1>3 DEF Next

(* What getch returns is what the UART delivered, once, in order and       *)
(* undamaged, except the bytes that came when the buffer was full or being *)
(* initialised: the receive buffer implements a bounded queue.             *)
THEOREM ReceiveImplementsQueue == Spec => ReceiveIsQueue
<1> DEFINE Q == Receive!Contents(rxHead, IF rxPc = "head" THEN 0 ELSE rxTail)
           O == IF rxPc = "taken" THEN rxSlot[rxTail] ELSE rxCh
<1>1. Init => Receive!Queue!Init
  <2>1. Init => Q = <<>>
    BY RingNames, WindowType, SerialInit DEF Init, Receive!Init, Receive!BufferInit, SInv, RxTypes
  <2> QED BY <2>1 DEF Receive!Queue!Init, Init, Receive!Init
<1>2. SInv /\ [Next]_vars => [Receive!Queue!Next]_<<Q, O, rxAccepted, rxPc = "head">>
  <2> SUFFICES ASSUME SInv, [Next]_vars
               PROVE  [Receive!Queue!Next]_<<Q, O, rxAccepted, rxPc = "head">>
    OBVIOUS
  <2>1. Q = RxQueue /\ O = RxOut /\ (rxPc = "head") = RxClearing
    BY DEF RxQueue, RxOut, RxClearing, Receive!Contents, Receive!Count, Window, Held
  <2>2. Q' = RxQueue' /\ O' = RxOut' /\ (rxPc = "head")' = RxClearing'
    BY DEF RxQueue, RxOut, RxClearing, Receive!Contents, Receive!Count, Window, Held
  <2>3. ASSUME NEW b \in Byte, RxPut(b) PROVE Receive!Queue!Put(b)
    BY <2>1, <2>2, <2>3 DEF RxPut, Receive!Queue!Put
  <2>4. CASE RxRefuse
    BY <2>1, <2>2, <2>4 DEF RxRefuse, Receive!Queue!Refuse, Receive!Queue!Next
  <2>5. CASE RxTake
    BY <2>1, <2>2, <2>5 DEF RxTake, Receive!Queue!Take, Receive!Queue!Next
  <2>6. CASE RxMiss
    BY <2>1, <2>2, <2>6 DEF RxMiss, Receive!Queue!Miss, Receive!Queue!Next
  <2>7. CASE RxBeginClear
    BY <2>1, <2>2, <2>7 DEF RxBeginClear, Receive!Queue!BeginClear, Receive!Queue!Next
  <2>8. CASE RxEndClear
    BY <2>1, <2>2, <2>8 DEF RxEndClear, Receive!Queue!EndClear, Receive!Queue!Next
  <2>9. CASE UNCHANGED rxQueueVars
    BY <2>1, <2>2, <2>9 DEF rxQueueVars
  <2> QED BY <2>3, <2>4, <2>5, <2>6, <2>7, <2>8, <2>9, ReceiveSimulates DEF Receive!Queue!Next
<1> QED BY <1>1, <1>2, SerialInvariant, PTL DEF Spec, ReceiveIsQueue, Receive!ReceiveIsQueue,
           Receive!Queue!Spec

-----------------------------------------------------------------------------
(* The transmit buffer implements the queue.                               *)

TxQueue == IF txPc = "init" THEN <<>>
           ELSE Window(txSlot, IF txPc = "data" THEN (txHead + Size - 1) % Size ELSE txHead, txTail)
txQueueVars == <<TxQueue, sent, txAccepted>>

TxPut(b) == /\ Len(TxQueue) < Size - 1
            /\ TxQueue' = Append(TxQueue, b)
            /\ txAccepted' = TRUE
            /\ UNCHANGED sent

TxTake == /\ TxQueue # <<>>
          /\ sent' = Head(TxQueue)
          /\ TxQueue' = Tail(TxQueue)
          /\ UNCHANGED txAccepted

LEMMA Predecessor ==
    ASSUME NEW h \in Index
    PROVE  /\ (h + Size - 1) % Size \in Index
           /\ Successor((h + Size - 1) % Size) = h
           /\ (Successor(h) + Size - 1) % Size = h
<1>1. CASE h = 0
  BY <1>1, SizeAssumption DEF Index, Successor
<1>2. CASE h # 0
  <2>1. h + Size - 1 \in 0..(2 * Size - 1) /\ Size <= h + Size - 1
    BY <1>2, SizeAssumption DEF Index
  <2>2. (h + Size - 1) % Size = h - 1
    BY <2>1, ModRing, SizeAssumption DEF Index
  <2>3. h - 1 \in Index /\ Successor(h - 1) = h
    BY <1>2, SizeAssumption DEF Index, Successor
  <2>4. (Successor(h) + Size - 1) % Size = h
    <3>1. CASE h + 1 = Size
      <4>1. Successor(h) + Size - 1 = h /\ h \in 0..(2 * Size - 1) /\ h < Size
        BY <3>1, SizeAssumption DEF Successor, Index
      <4> QED BY <4>1, ModRing
    <3>2. CASE h + 1 # Size
      <4> DEFINE y == Successor(h) + Size - 1
      <4>1. y \in 0..(2 * Size - 1) /\ Size <= y /\ y - Size = h
        BY <3>2, SizeAssumption DEF Successor, Index
      <4> HIDE DEF y
      <4>2. y % Size = h
        BY <4>1, ModRing
      <4> QED BY <4>2 DEF y
    <3> QED BY <3>1, <3>2
  <2> QED BY <2>2, <2>3, <2>4
<1> QED BY <1>1, <1>2

(* sendch is for the queue the one step in which it writes the byte.       *)
LEMMA MainPuts ==
    ASSUME SInv, Transmit!MainStep
    PROVE  (\E b \in Byte : TxPut(b)) \/ UNCHANGED txQueueVars
<1> USE DEF Transmit!Main, Transmit!bufferVars
<1>1. /\ txSlot \in [Index -> Byte] /\ txHead \in Index /\ txTail \in Index /\ 0 \in Index
      /\ txCh \in Byte /\ txAccepted \in BOOLEAN
  BY SizeAssumption DEF SInv, TxTypes, FlagTypes, Index
<1>2. ASSUME NEW b \in Byte, Transmit!SendCh(b) PROVE UNCHANGED txQueueVars
  BY <1>2 DEF Transmit!SendCh, txQueueVars, TxQueue
<1>3. CASE Transmit!PutCheck
  <2>1. Held(txHead, txTail) = 0
    BY <1>3 DEF Transmit!PutCheck, Transmit!MainRuns, SInv, FlagTypes, Lockstep, Ahead, Alone, Pending
  <2>2. ~Transmit!Full
    <3>1. txHead = txTail
      BY <1>1, <2>1, HeldType
    <3>2. Successor(txHead) # txHead
      BY <1>1, SizeAssumption DEF Successor, Index
    <3> QED BY <3>1, <3>2, RingNames DEF Transmit!Full
  <2>3. UNCHANGED txAccepted
    BY <1>1, <1>3, <2>2, Zenon DEF Transmit!PutCheck
  <2> QED BY <1>3, <2>2, <2>3 DEF Transmit!PutCheck, txQueueVars, TxQueue
<1>4. CASE Transmit!PutHead
  <2>1. /\ txPc = "head" /\ txPc' = "data" /\ txHead' = Successor(txHead)
        /\ UNCHANGED <<txSlot, txTail, sent, txAccepted>>
    BY <1>4, RingNames DEF Transmit!PutHead
  <2> QED BY <1>1, <2>1, Predecessor DEF txQueueVars, TxQueue
<1>5. CASE Transmit!PutData
  <2> DEFINE p == (txHead + Size - 1) % Size
  <2>1. /\ txPc = "data" /\ txPc' = "enable" /\ txSlot' = [txSlot EXCEPT ![txHead] = txCh]
        /\ txAccepted' = TRUE /\ UNCHANGED <<txHead, txTail, sent>>
    BY <1>5 DEF Transmit!PutData
  <2>2. Held(txHead, txTail) = 1
    BY <2>1 DEF SInv, FlagTypes, Lockstep, Ahead, Alone, Pending
  <2>3. p \in Index /\ Successor(p) = txHead
    BY <1>1, Predecessor
  <2>4. TxQueue = Window(txSlot, p, txTail) /\ TxQueue' = Window(txSlot', Successor(p), txTail)
    BY <2>1, <2>3 DEF TxQueue
  <2> HIDE DEF p
  <2>5. Successor(p) # txTail
    BY <1>1, <2>2, <2>3, HeldType
  <2>6. Held(p, txTail) = 0
    <3>1. Held(p, txTail) \in Nat /\ Held(Successor(p), txTail) = Held(p, txTail) + 1
      BY <1>1, <2>3, <2>5, HeldMore, HeldType
    <3> QED BY <2>2, <2>3, <3>1
  <2>7. Len(TxQueue) < Size - 1
    BY <1>1, <2>3, <2>4, <2>6, WindowType, SizeAssumption
  <2>8. TxQueue' = Append(TxQueue, txCh)
    BY <1>1, <2>1, <2>3, <2>4, <2>5, WindowPut
  <2> QED BY <1>1, <2>1, <2>7, <2>8 DEF TxPut
<1>6. CASE Transmit!EnableInterrupt
  BY <1>6 DEF Transmit!EnableInterrupt, txQueueVars, TxQueue
<1>7. CASE Transmit!InitHead
  <2>1. txHead = txTail
    BY <1>1, <1>7, HeldType DEF Transmit!InitHead, SInv, Lockstep, Alone, Pending
  <2>2. TxQueue = <<>>
    BY <1>1, <1>7, <2>1, WindowType DEF Transmit!InitHead, TxQueue
  <2> QED BY <1>7, <2>2 DEF Transmit!InitHead, txQueueVars, TxQueue
<1>8. CASE Transmit!InitTail
  <2>1. txHead = 0
    BY <1>8 DEF Transmit!InitTail, SInv, FlagTypes, Lockstep, Ahead, Alone, Pending
  <2>2. TxQueue' = <<>>
    BY <1>1, <1>8, <2>1, WindowType DEF Transmit!InitTail, TxQueue
  <2> QED BY <1>8, <2>2 DEF Transmit!InitTail, txQueueVars, TxQueue
<1> QED BY <1>2, <1>3, <1>4, <1>5, <1>6, <1>7, <1>8 DEF Transmit!MainStep, Transmit!Working

(* The interrupt takes the oldest byte or finds none.                      *)
LEMMA InterruptTakes ==
    ASSUME SInv, Transmit!TransmitISR
    PROVE  TxTake \/ UNCHANGED txQueueVars
<1>1. /\ txSlot \in [Index -> Byte] /\ txHead \in Index /\ txTail \in Index
      /\ txPc # "data" /\ txPc # "init"
      /\ UNCHANGED <<txSlot, txHead, txPc, txAccepted>>
  BY DEF SInv, TxTypes, FlagTypes, Lockstep, Ahead, Pending, Transmit!TransmitISR
<1>2. CASE Transmit!Empty
  BY <1>1, <1>2 DEF Transmit!TransmitISR, txQueueVars, TxQueue
<1>3. CASE ~Transmit!Empty
  <2>1. /\ txHead # txTail /\ txTail' = Successor(txTail) /\ sent' = txSlot[Successor(txTail)]
    BY <1>3, RingNames DEF Transmit!TransmitISR, Transmit!Empty
  <2>2. TxQueue = Window(txSlot, txHead, txTail) /\ TxQueue' = Window(txSlot, txHead, Successor(txTail))
    BY <1>1, <2>1 DEF TxQueue
  <2> QED BY <1>1, <2>1, <2>2, WindowGet DEF TxTake
<1> QED BY <1>2, <1>3

LEMMA TransmitSimulates ==
    SInv /\ [Next]_vars => (\E b \in Byte : TxPut(b)) \/ TxTake \/ UNCHANGED txQueueVars
<1> SUFFICES ASSUME SInv, [Next]_vars
             PROVE  (\E b \in Byte : TxPut(b)) \/ TxTake \/ UNCHANGED txQueueVars
  OBVIOUS
<1>1. CASE MainSends
  BY <1>1, MainPuts DEF MainSends
<1>2. CASE TransmitInterrupt
  BY <1>2, InterruptTakes DEF TransmitInterrupt
<1>3. CASE MainReceives \/ ReceiveInterrupt \/ UNCHANGED vars
  <2>1. UNCHANGED txRing
    BY <1>3 DEF MainReceives, ReceiveInterrupt, vars
  <2> QED BY <2>1 DEF txRing, txQueueVars, TxQueue
<1> QED BY <1>1, <1>2, <1>3 DEF Next

(* The UART is given the bytes sendch was called with, each once and in    *)
(* their order, and never a slot whose head has moved but that is not      *)
(* written: the transmit buffer implements a bounded queue.                *)
THEOREM TransmitImplementsQueue == Spec => TransmitIsQueue
<1> DEFINE Q == IF txPc = "init" THEN <<>>
                ELSE Transmit!Contents(IF txPc = "data" THEN (txHead + Size - 1) % Size ELSE txHead,
                                       txTail)
<1>1. Init => Transmit!Queue!Init
  <2>1. Init => Transmit!Contents(txHead, txTail) = <<>>
    BY RingNames, WindowType, SerialInit DEF Init, Transmit!Init, Transmit!BufferInit, SInv, TxTypes
  <2> QED BY <2>1 DEF Transmit!Queue!Init, Init, Transmit!Init
<1>2. SInv /\ [Next]_vars => [Transmit!Queue!Next]_<<Q, sent, txAccepted, FALSE>>
  <2> SUFFICES ASSUME SInv, [Next]_vars
               PROVE  [Transmit!Queue!Next]_<<Q, sent, txAccepted, FALSE>>
    OBVIOUS
  <2>1. Q = TxQueue /\ Q' = TxQueue'
    BY DEF TxQueue, Transmit!Contents, Transmit!Count, Window, Held
  <2>2. ASSUME NEW b \in Byte, TxPut(b) PROVE Transmit!Queue!Put(b)
    BY <2>1, <2>2 DEF TxPut, Transmit!Queue!Put
  <2>3. CASE TxTake
    BY <2>1, <2>3 DEF TxTake, Transmit!Queue!Take, Transmit!Queue!Next
  <2>4. CASE UNCHANGED txQueueVars
    BY <2>1, <2>4 DEF txQueueVars
  <2> QED BY <2>2, <2>3, <2>4, TransmitSimulates DEF Transmit!Queue!Next
<1> QED BY <1>1, <1>2, SerialInvariant, PTL DEF Spec, TransmitIsQueue, Transmit!TransmitIsQueue,
           Transmit!Queue!Spec

-----------------------------------------------------------------------------
(* The power of the node and of its XBee.                                  *)
PC == {"res", "wakeBoot", "blink", "top", "pass", "poll", "wakeCycle", "cycle",
       "settle", "sleep", "asleep", "associate"}

Counters == /\ program \in {"node", "test"} /\ pc \in PC
            /\ elapsed \in Nat /\ clock \in 0..Period
            /\ wdtCounter \in Nat /\ wakeInterval \in Nat \ {0}
            /\ sleepDelay \in Nat /\ events \in 0..MaxEvents

Flags == /\ wdie \in BOOLEAN /\ transmitMessage \in BOOLEAN /\ stayAwake \in BOOLEAN
         /\ fresh \in BOOLEAN /\ sleepRq \in BOOLEAN /\ uartOn \in BOOLEAN
         /\ radioOn \in BOOLEAN /\ stuck \in BOOLEAN /\ held \in BOOLEAN

PowerTypeOK == Counters /\ Flags

(* Where main is while it holds the XBee awake.                            *)
Awake == {"wakeBoot", "blink", "wakeCycle", "cycle", "associate"}

(* The port is without power only from the time the processor has gone to  *)
(* sleep, and the XBee with it, to the next cycle or reset; and an XBee    *)
(* that has come up stays up while its pin is low.                         *)
PowerInOrder == /\ pc \in Awake => ~sleepRq /\ uartOn
                /\ pc \in {"blink", "cycle"} => radioOn
                /\ ~uartOn => sleepRq

PInv == PowerTypeOK /\ PowerInOrder

-----------------------------------------------------------------------------
LEMMA PowerStarts == PowerInit => PInv
<1> USE PowerAssumption DEF PowerInit, PowerTypeOK, PowerInOrder, PC, Awake
<1>1. PowerInit => Counters
  BY DEF Counters
<1>2. PowerInit => Flags
  BY DEF Flags
<1>3. PowerInit => PowerInOrder
  OBVIOUS
<1> QED BY <1>1, <1>2, <1>3 DEF PInv

LEMMA CountersStep == PInv /\ [PowerNext]_powerVars => Counters'
<1> SUFFICES ASSUME PInv, [PowerNext]_powerVars PROVE Counters'
  OBVIOUS
<1> USE PowerAssumption DEF PInv, PowerTypeOK, Counters, PC, timer, settings, power, radio, At, Goto
<1>1. CASE HardwareInit
  BY <1>1 DEF HardwareInit, resetXBee
<1>2. CASE RadioAwake
  BY <1>2 DEF RadioAwake, AwaitRadio
<1>3. CASE EnterLoop
  BY <1>3 DEF EnterLoop
<1>4. CASE Top
  BY <1>4 DEF Top
<1>5. CASE BeginPoll
  BY <1>5 DEF BeginPoll, NoteCount
<1>6. CASE BeginCycle
  BY <1>6 DEF BeginCycle, NoteCount, PowerUp, WakeRadio
<1>7. CASE EndPoll
  BY <1>7 DEF EndPoll
<1>8. CASE Settle
  BY <1>8 DEF Settle
<1>9. CASE Sleep
  BY <1>9 DEF Sleep
<1>10. CASE TestInit
  BY <1>10 DEF TestInit, testHardwareInit, testWdtInit
<1>11. CASE TestIdle
  BY <1>11 DEF TestIdle
<1>12. CASE BeginTest
  BY <1>12 DEF BeginTest, PowerUp, WakeRadio
<1>13. CASE EndCycle
  BY <1>13 DEF EndCycle
<1>14. CASE Abandon
  BY <1>14 DEF Abandon
<1>15. CASE Associated
  BY <1>15 DEF Associated
<1>16. CASE EndTest
  BY <1>16 DEF EndTest
<1>17. CASE HearCommand
  BY <1>17 DEF HearCommand, Happens, stringToHex
<1>18. CASE CountISR
  BY <1>18 DEF CountISR, Happens, WakeUp
<1>19. CASE WdtISR
  BY <1>19 DEF WdtISR, TimedOut, TestDue, WakeUp
<1>20. CASE WatchdogReset
  BY <1>20 DEF WatchdogReset, TimedOut
<1>21. CASE Elapse
  BY <1>21 DEF Elapse, Counted, Waking
<1>22. CASE RadioFollows
  BY <1>22 DEF RadioFollows
<1>23. CASE RadioHangs
  BY <1>23 DEF RadioHangs, Happens
<1>24. CASE TruncatedFrame
  BY <1>24 DEF TruncatedFrame, Happens
<1>25. CASE UNCHANGED powerVars
  BY <1>25 DEF powerVars
<1> QED
  BY <1>1, <1>2, <1>3, <1>4, <1>5, <1>6, <1>7, <1>8, <1>9, <1>10, <1>11, <1>12,
     <1>13, <1>14, <1>15, <1>16, <1>17, <1>18, <1>19, <1>20, <1>21, <1>22, <1>23, <1>24,
     <1>25
  DEF PowerNext, Proceed, Timeout

LEMMA FlagsStep == PInv /\ [PowerNext]_powerVars => Flags'
<1> SUFFICES ASSUME PInv, [PowerNext]_powerVars PROVE Flags'
  OBVIOUS
<1> USE DEF PInv, PowerTypeOK, Flags, timer, settings, power, radio
<1>1. CASE HardwareInit
  BY <1>1 DEF HardwareInit, resetXBee
<1>2. CASE RadioAwake
  BY <1>2 DEF RadioAwake, AwaitRadio
<1>3. CASE EnterLoop
  BY <1>3 DEF EnterLoop
<1>4. CASE Top
  BY <1>4 DEF Top
<1>5. CASE BeginPoll
  BY <1>5 DEF BeginPoll, NoteCount
<1>6. CASE BeginCycle
  BY <1>6 DEF BeginCycle, NoteCount, PowerUp, WakeRadio
<1>7. CASE EndPoll
  BY <1>7 DEF EndPoll
<1>8. CASE Settle
  BY <1>8 DEF Settle
<1>9. CASE Sleep
  BY <1>9 DEF Sleep
<1>10. CASE TestInit
  BY <1>10 DEF TestInit, testHardwareInit, testWdtInit
<1>11. CASE TestIdle
  BY <1>11 DEF TestIdle
<1>12. CASE BeginTest
  BY <1>12 DEF BeginTest, PowerUp, WakeRadio
<1>13. CASE EndCycle
  BY <1>13 DEF EndCycle
<1>14. CASE Abandon
  BY <1>14 DEF Abandon
<1>15. CASE Associated
  BY <1>15 DEF Associated
<1>16. CASE EndTest
  BY <1>16 DEF EndTest
<1>17. CASE HearCommand
  BY <1>17 DEF HearCommand, Happens, stringToHex
<1>18. CASE CountISR
  BY <1>18 DEF CountISR, Happens, WakeUp
<1>19. CASE WdtISR
  BY <1>19 DEF WdtISR, TimedOut, TestDue, WakeUp
<1>20. CASE WatchdogReset
  BY <1>20 DEF WatchdogReset, TimedOut
<1>21. CASE Elapse
  BY <1>21 DEF Elapse, Counted, Waking
<1>22. CASE RadioFollows
  BY <1>22 DEF RadioFollows
<1>23. CASE RadioHangs
  BY <1>23 DEF RadioHangs, Happens
<1>24. CASE TruncatedFrame
  BY <1>24 DEF TruncatedFrame, Happens
<1>25. CASE UNCHANGED powerVars
  BY <1>25 DEF powerVars
<1> QED
  BY <1>1, <1>2, <1>3, <1>4, <1>5, <1>6, <1>7, <1>8, <1>9, <1>10, <1>11, <1>12,
     <1>13, <1>14, <1>15, <1>16, <1>17, <1>18, <1>19, <1>20, <1>21, <1>22, <1>23, <1>24,
     <1>25
  DEF PowerNext, Proceed, Timeout

LEMMA OrderStep == PInv /\ [PowerNext]_powerVars => PowerInOrder'
<1> SUFFICES ASSUME PInv, [PowerNext]_powerVars PROVE PowerInOrder'
  OBVIOUS
<1> USE DEF PInv, PowerTypeOK, Flags, PowerInOrder, Awake, timer, settings, power, radio, At, Goto
<1>1. CASE HardwareInit
  BY <1>1 DEF HardwareInit, resetXBee
<1>2. CASE RadioAwake
  BY <1>2 DEF RadioAwake, AwaitRadio
<1>3. CASE EnterLoop
  BY <1>3 DEF EnterLoop
<1>4. CASE Top
  BY <1>4 DEF Top
<1>5. CASE BeginPoll
  BY <1>5 DEF BeginPoll, NoteCount
<1>6. CASE BeginCycle
  BY <1>6 DEF BeginCycle, NoteCount, PowerUp, WakeRadio
<1>7. CASE EndPoll
  BY <1>7 DEF EndPoll
<1>8. CASE Settle
  BY <1>8 DEF Settle
<1>9. CASE Sleep
  BY <1>9 DEF Sleep
<1>10. CASE TestInit
  BY <1>10 DEF TestInit, testHardwareInit, testWdtInit
<1>11. CASE TestIdle
  BY <1>11 DEF TestIdle
<1>12. CASE BeginTest
  BY <1>12 DEF BeginTest, PowerUp, WakeRadio
<1>13. CASE EndCycle
  BY <1>13 DEF EndCycle
<1>14. CASE Abandon
  BY <1>14 DEF Abandon
<1>15. CASE Associated
  BY <1>15 DEF Associated
<1>16. CASE EndTest
  BY <1>16 DEF EndTest
<1>17. CASE HearCommand
  BY <1>17 DEF HearCommand, Happens, stringToHex
<1>18. CASE CountISR
  BY <1>18 DEF CountISR, Happens, WakeUp
<1>19. CASE WdtISR
  BY <1>19 DEF WdtISR, TimedOut, TestDue, WakeUp
<1>20. CASE WatchdogReset
  BY <1>20 DEF WatchdogReset, TimedOut
<1>21. CASE Elapse
  BY <1>21 DEF Elapse, Counted, Waking
<1>22. CASE RadioFollows
  BY <1>22 DEF RadioFollows
<1>23. CASE RadioHangs
  BY <1>23 DEF RadioHangs, Happens
<1>24. CASE TruncatedFrame
  BY <1>24 DEF TruncatedFrame, Happens
<1>25. CASE UNCHANGED powerVars
  BY <1>25 DEF powerVars
<1> QED
  BY <1>1, <1>2, <1>3, <1>4, <1>5, <1>6, <1>7, <1>8, <1>9, <1>10, <1>11, <1>12,
     <1>13, <1>14, <1>15, <1>16, <1>17, <1>18, <1>19, <1>20, <1>21, <1>22, <1>23, <1>24,
     <1>25
  DEF PowerNext, Proceed, Timeout

LEMMA PowerInvariant == PowerSpec => []PInv
BY PowerStarts, CountersStep, FlagsStep, OrderStep, PTL DEF PowerSpec, PInv, PowerTypeOK

(* The wake interval is never zero and the watchdog's clock never passes   *)
(* its period, whatever operators send.                                    *)
THEOREM PowerTypes == PowerSpec => []PowerTypeOK
<1>1. PInv => PowerTypeOK
  BY DEF PInv
<1> QED BY <1>1, PowerInvariant, PTL

(* The serial port has power whenever the XBee is kept awake, for every    *)
(* order of sleeping, waking, cycles, commands and watchdog resets.        *)
THEOREM Listens == PowerSpec => []ListensWhenAwake
<1>1. PInv => ListensWhenAwake
  BY DEF PInv, PowerTypeOK, PowerInOrder, ListensWhenAwake
<1> QED BY <1>1, PowerInvariant, PTL

(* A cycle runs only with an XBee that is awake and is kept awake.         *)
THEOREM Speaks == PowerSpec => []SpeaksToAwake
<1>1. PInv => SpeaksToAwake
  BY DEF PInv, PowerInOrder, SpeaksToAwake, At, Awake
<1> QED BY <1>1, PowerInvariant, PTL

-----------------------------------------------------------------------------
(* The counter.  Below one byte its other bytes are zero.                  *)

LEMMA LeastElement ==
    ASSUME NEW T \in SUBSET Nat, T # {}
    PROVE  \E x \in T : \A y \in T : x <= y
<1>1. PICK x \in T : \A y \in T : ~(<<y, x>> \in OpToRel(<, Nat))
  BY WFMin, NatLessThanWellFounded
<1>2. \A y \in T : ~(y < x)
  BY <1>1 DEF OpToRel
<1> QED BY <1>2

(* The weights of the bytes, up to n.                                      *)
Weighs(g, n) == g = [k \in 0..n |-> IF k = 0 THEN 1 ELSE g[k - 1] * Radix]

LEMMA WeighsOne ==
    ASSUME NEW n \in Nat, NEW g, Weighs(g, n)
    PROVE  \E h : Weighs(h, n + 1)
<1> DEFINE h == [k \in 0..(n + 1) |-> IF k = n + 1 THEN g[n] * Radix ELSE g[k]]
<1>1. ASSUME NEW k \in 0..(n + 1)
      PROVE  h[k] = IF k = 0 THEN 1 ELSE h[k - 1] * Radix
  <2>1. CASE k = n + 1
    <3>1. k # 0 /\ k - 1 = n /\ h[n] = g[n]
      BY <2>1
    <3>2. h[k] = g[n] * Radix
      BY <2>1
    <3> HIDE DEF h
    <3> QED BY <2>1, <3>1, <3>2
  <2>2. CASE k # n + 1
    <3>1. k \in 0..n /\ h[k] = g[k]
      BY <2>2
    <3>2. g[k] = IF k = 0 THEN 1 ELSE g[k - 1] * Radix
      BY <3>1 DEF Weighs
    <3>3. k # 0 => h[k - 1] = g[k - 1]
      BY <3>1
    <3> HIDE DEF h
    <3> QED BY <3>1, <3>2, <3>3
  <2> QED BY <2>1, <2>2
<1>2. h = [k \in 0..(n + 1) |-> h[k]]
  OBVIOUS
<1> HIDE DEF h
<1> QED BY <1>1, <1>2 DEF Weighs

LEMMA WeightExists ==
    ASSUME NEW n \in Nat
    PROVE  \E g : Weighs(g, n)
<1> DEFINE T == {k \in Nat : ~\E g : Weighs(g, k)}
<1> SUFFICES ASSUME n \in T PROVE FALSE
  OBVIOUS
<1>1. PICK x \in T : \A y \in T : x <= y
  <2>1. T \in SUBSET Nat /\ T # {}
    OBVIOUS
  <2> HIDE DEF T
  <2> QED BY <2>1, LeastElement
<1>2. x # 0
  <2> SUFFICES \E g : Weighs(g, 0)
    OBVIOUS
  <2> DEFINE g == [k \in 0..0 |-> 1]
  <2>1. g = [k \in 0..0 |-> IF k = 0 THEN 1 ELSE g[k - 1] * Radix]
    OBVIOUS
  <2> HIDE DEF g
  <2> QED BY <2>1 DEF Weighs
<1>3. x - 1 \in Nat /\ x - 1 \notin T /\ x - 1 + 1 = x
  BY <1>1, <1>2
<1>4. PICK g : Weighs(g, x - 1)
  BY <1>3
<1>5. \E h : Weighs(h, x)
  BY <1>3, <1>4, WeighsOne
<1> QED BY <1>5

(* The lowest byte stands for ones, every other for a byte's values.       *)
LEMMA WeightValue ==
    ASSUME NEW i \in 0..Width
    PROVE  Weight[i] \in Nat /\ (IF i = 0 THEN Weight[i] = 1 ELSE Radix <= Weight[i])
<1> DEFINE Good(k) == Weight[k] \in Nat
                      /\ (IF k = 0 THEN Weight[k] = 1 ELSE Radix <= Weight[k])
           T == {k \in 0..Width : ~Good(k)}
<1> SUFFICES ASSUME i \in T PROVE FALSE
  OBVIOUS
<1>1. Weighs(Weight, Width)
  <2>1. \E g : Weighs(g, Width)
    BY WeightExists, SharedAssumption
  <2> QED BY Zenon, <2>1 DEF Weighs, Weight
<1>2. PICK x \in T : \A y \in T : x <= y
  <2>1. T \in SUBSET Nat /\ T # {}
    OBVIOUS
  <2> HIDE DEF T
  <2> QED BY <2>1, LeastElement
<1>3. ASSUME NEW k \in 0..Width PROVE Weight[k] = IF k = 0 THEN 1 ELSE Weight[k - 1] * Radix
  BY <1>1, <1>3 DEF Weighs
<1>4. x # 0
  BY <1>3
<1>5. Good(x - 1) /\ Weight[x] = Weight[x - 1] * Radix /\ x - 1 \in Nat
  <2>1. x \in 0..Width /\ x - 1 \in 0..Width /\ x - 1 \notin T
    <3> HIDE DEF Good
    <3> QED BY <1>2, <1>4, SharedAssumption
  <2> QED BY <1>3, <1>4, <2>1
<1>6. PICK w \in Nat : w = Weight[x - 1] /\ w >= 1
  BY <1>5, SharedAssumption
<1>7. w * Radix \in Nat /\ Radix <= w * Radix
  BY <1>6, SharedAssumption
<1>8. Good(x)
  BY <1>4, <1>5, <1>6, <1>7
<1> QED BY <1>8

(* What is below one byte is in the lowest one.                            *)
LEMMA LowDigit ==
    ASSUME NEW v \in 0..(Radix - 1), NEW i \in Bytes
    PROVE  Digit(v, i) = IF i = 0 THEN v ELSE 0
<1>1. i \in 0..Width
  BY SharedAssumption DEF Bytes
<1>2. PICK w \in Nat : w = Weight[i] /\ (IF i = 0 THEN w = 1 ELSE Radix <= w)
  BY <1>1, WeightValue
<1>3. CASE i = 0
  <2>1. (v \div w) = v /\ v % Radix = v
    BY <1>2, <1>3, SharedAssumption
  <2> QED BY <1>2, <1>3, <2>1 DEF Digit
<1>4. CASE i # 0
  <2>1. v < w
    BY <1>2, <1>4, SharedAssumption
  <2>2. (v \div w) = 0 /\ 0 % Radix = 0
    BY <2>1, SharedAssumption
  <2> QED BY <1>2, <1>4, <2>2 DEF Digit
<1> QED BY <1>3, <1>4

LEMMA LowPatch ==
    ASSUME NEW v \in 0..(Radix - 1), NEW s \in 0..(Radix - 1), NEW i \in Bytes
    PROVE  Patched(v, i, s) = IF i = 0 THEN s ELSE v
<1>1. Weight[i] \in Nat /\ (i = 0 => Weight[i] = 1)
  <2>1. i \in 0..Width
    BY SharedAssumption DEF Bytes
  <2> QED BY <2>1, WeightValue
<1>2. PICK w \in Nat : w = Weight[i]
  BY <1>1
<1>3. Patched(v, i, s) = v - Digit(v, i) * w + Digit(s, i) * w
  BY <1>2 DEF Patched
<1>4. CASE i = 0
  <2>1. Digit(v, i) = v /\ Digit(s, i) = s /\ w = 1
    BY <1>1, <1>2, <1>4, LowDigit
  <2> QED BY <1>3, <1>4, <2>1
<1>5. CASE i # 0
  <2>1. Digit(v, i) = 0 /\ Digit(s, i) = 0
    BY <1>5, LowDigit
  <2> QED BY <1>3, <1>5, <2>1
<1> QED BY <1>4, <1>5

LEMMA PartBelow == ASSUME NEW a \in Nat, NEW b \in Nat, NEW d \in Nat, a + b <= d PROVE a <= d
OBVIOUS

LEMMA LowRest ==
    ASSUME NEW v \in 0..(Radix - 1)
    PROVE  v % Weight[Width] = v
<1>1. PICK w \in Nat : w = Weight[Width] /\ Radix <= w
  BY WeightValue, SharedAssumption
<1>2. v % w = v
  BY <1>1, SharedAssumption
<1> QED BY <1>1, <1>2

-----------------------------------------------------------------------------
(* How far an access has come, while the pulses fit one byte: before it    *)
(* has reached the lowest byte its registers are empty, afterwards they    *)
(* hold what counter was then.                                             *)

CounterTypes == /\ counter \in Nat /\ lastCount \in Nat /\ copy \in Nat
                /\ pulses \in 0..MaxPulses
                /\ access \in {"idle", "note", "load", "store"} /\ todo \subseteq Bytes
                /\ access = "idle" <=> todo = {}

Within == counter <= pulses /\ lastCount <= pulses /\ copy <= pulses

NoteProgress == access = "note" => IF Reached THEN copy <= counter ELSE copy = 0

LoadProgress == access = "load" => IF Reached THEN lastCount <= copy /\ copy <= counter
                                              ELSE copy = 0

StoreProgress == access = "store" => IF Reached THEN copy <= counter
                                                ELSE copy + lastCount <= counter

Taken == access # "store" => lastCount <= counter

CounterInv == CounterTypes /\ Within /\ NoteProgress /\ LoadProgress /\ StoreProgress /\ Taken

(* What main sees in AtomicCounter.                                        *)
AtomicLast == IF access = "note" /\ Reached THEN Digit(copy, 0)
              ELSE IF Stored THEN 0 ELSE lastCount

AtomicRegister == IF access = "load" /\ Reached THEN Digit(copy, 0)
                  ELSE IF access = "store" /\ ~Stored THEN copy + lastCount ELSE 0

atomicVars == <<counter, AtomicLast, AtomicRegister>>

AtomicStep ==
    \/ counter' = counter + 1 /\ AtomicLast' = AtomicLast /\ AtomicRegister' = AtomicRegister
    \/ AtomicLast' = counter /\ counter' = counter /\ AtomicRegister' = AtomicRegister
    \/ AtomicRegister' = counter /\ counter' = counter /\ AtomicLast' = AtomicLast
    \/ counter' = AtomicRegister - AtomicLast /\ AtomicLast' = 0 /\ AtomicRegister' = 0
    \/ counter' = counter /\ AtomicLast' = AtomicLast /\ AtomicRegister' = AtomicRegister

(* Below one byte, the lowest digit of the registers is all of them.       *)
AtomicNames ==
    /\ AtomicLast = IF access = "note" /\ Reached THEN copy
                    ELSE IF Stored THEN 0 ELSE lastCount
    /\ AtomicRegister = IF access = "load" /\ Reached THEN copy
                        ELSE IF access = "store" /\ ~Stored THEN copy + lastCount ELSE 0

LEMMA NamesHold ==
    ASSUME MaxPulses < Radix, CounterInv
    PROVE  AtomicNames
<1>1. copy \in 0..(Radix - 1) /\ 0 \in Bytes
  BY SharedAssumption DEF CounterInv, CounterTypes, Within, Bytes
<1>2. Digit(copy, 0) = copy
  BY <1>1, LowDigit
<1> QED BY <1>2 DEF AtomicNames, AtomicLast, AtomicRegister

LEMMA NamesHoldNext ==
    ASSUME MaxPulses < Radix, CounterInv'
    PROVE  AtomicNames'
<1>1. copy' \in 0..(Radix - 1) /\ 0 \in Bytes
  BY SharedAssumption DEF CounterInv, CounterTypes, Within, Bytes
<1>2. PICK c \in 0..(Radix - 1) : c = copy'
  BY <1>1
<1>3. Digit(c, 0) = c
  BY <1>1, LowDigit
<1> QED BY <1>2, <1>3 DEF AtomicNames, AtomicLast, AtomicRegister, Digit

LEMMA CounterStarts ==
    ASSUME SharedInit
    PROVE  CounterInv /\ counter = 0 /\ AtomicLast = 0 /\ AtomicRegister = 0
BY SharedAssumption
DEF SharedInit, CounterInv, CounterTypes, Within, NoteProgress, LoadProgress, StoreProgress,
    Taken, AtomicLast, AtomicRegister, Reached, Stored

LEMMA CounterStep ==
    ASSUME MaxPulses < Radix, CounterInv, [SharedNext]_sharedVars
    PROVE  CounterInv' /\ (AtomicNames /\ AtomicNames' => AtomicStep)
<1> USE DEF CounterInv, CounterTypes, Within, NoteProgress, LoadProgress, StoreProgress, Taken,
            Reached
<1>0. 0 \in Bytes /\ Bytes # {}
  BY SharedAssumption DEF Bytes
<1>b. /\ counter \in 0..(Radix - 1) /\ copy \in 0..(Radix - 1)
      /\ Radix \in Nat /\ MaxPulses \in Nat
  BY SharedAssumption
<1>1. CASE COUNT_ISR
  <2>1. counter' = counter + 1
    <3>1. counter + 1 \in 0..(Radix - 1)
      BY <1>1, <1>b DEF COUNT_ISR
    <3>2. (counter + 1) % Weight[Width] = counter + 1
      BY <3>1, LowRest
    <3> QED BY <1>1, <3>2 DEF COUNT_ISR
  <2>2. pulses' = pulses + 1 /\ pulses' <= MaxPulses /\ UNCHANGED <<lastCount, copy, access, todo>>
    BY <1>1, <1>b DEF COUNT_ISR
  <2>3. CounterInv'
    BY <2>1, <2>2, <1>b
  <2>4. AtomicNames /\ AtomicNames' => AtomicStep
    BY <2>1, <2>2 DEF AtomicNames, AtomicStep, Stored
  <2> QED BY <2>3, <2>4
<1>2. CASE BeginNote \/ BeginSubtract
  <2>1. /\ access = "idle" /\ access' \in {"note", "load"} /\ todo' = Bytes /\ copy' = 0
        /\ UNCHANGED <<counter, lastCount, pulses>>
    BY <1>2 DEF BeginNote, BeginSubtract, Begin
  <2>2. CounterInv'
    BY <2>1, <1>0
  <2>3. AtomicNames /\ AtomicNames' => AtomicStep
    BY <2>1, <1>0 DEF AtomicNames, AtomicStep, Stored
  <2> QED BY <2>2, <2>3
<1>3. ASSUME NEW i \in Bytes, NoteByte(i)
      PROVE  CounterInv' /\ (AtomicNames /\ AtomicNames' => AtomicStep)
  <2>1. copy' = IF i = 0 THEN counter ELSE copy
    BY <1>3, <1>b, LowPatch DEF NoteByte
  <2>2. /\ access = "note" /\ i \in todo /\ todo' = todo \ {i}
        /\ IF todo' = {} THEN access' = "idle" /\ lastCount' = copy'
                         ELSE access' = access /\ lastCount' = lastCount
        /\ UNCHANGED <<counter, pulses>>
    BY <1>3 DEF NoteByte
  <2>3. CounterInv'
    BY <2>1, <2>2
  <2>4. AtomicNames /\ AtomicNames' => AtomicStep
    BY <2>1, <2>2 DEF AtomicNames, AtomicStep, Stored
  <2> QED BY <2>3, <2>4
<1>4. ASSUME NEW i \in Bytes, LoadByte(i)
      PROVE  CounterInv' /\ (AtomicNames /\ AtomicNames' => AtomicStep)
  <2> DEFINE loaded == IF i = 0 THEN counter ELSE copy
  <2>1. loaded = Patched(copy, i, counter)
    BY <1>b, LowPatch
  <2>2. /\ access = "load" /\ i \in todo
        /\ UNCHANGED <<counter, lastCount, pulses>>
    BY <1>4 DEF LoadByte
  <2>3. CASE todo = {i}
    <3>1. loaded \in 0..(Radix - 1) /\ lastCount <= loaded /\ loaded <= counter
      BY <2>2, <2>3, <1>b
    <3>2. copy' = loaded - lastCount
      <4>1. PICK w \in Nat : w = Weight[Width] /\ Radix <= w
        BY WeightValue, SharedAssumption
      <4>2. PICK v \in 0..(Radix - 1) : v = loaded - lastCount
        BY <3>1, <1>b
      <4>3. loaded + w - lastCount = v + w
        <5> HIDE DEF loaded
        <5> QED BY <3>1, <4>1, <4>2
      <4>4. v < w
        BY <4>1, <4>2, <1>b
      <4>5. (v + w) % w = v
        BY <4>1, <4>4
      <4>6. copy' = (loaded + w - lastCount) % w
        BY <1>4, <2>1, <2>3, <4>1 DEF LoadByte
      <4> QED BY <4>2, <4>3, <4>5, <4>6
    <3>3. access' = "store" /\ todo' = Bytes
      BY <1>4, <2>3 DEF LoadByte
    <3>4. copy' \in Nat /\ copy' + lastCount = loaded
      BY <3>1, <3>2
    <3> HIDE DEF loaded
    <3>5. CounterInv'
      <4>1. copy' \in Nat /\ copy' <= counter /\ copy' + lastCount <= counter
        <5>1. counter \in Nat /\ lastCount \in Nat
          OBVIOUS
        <5> HIDE DEF CounterInv
        <5>2. loaded <= counter
          BY <3>1
        <5>3. PICK c \in Nat : c = copy' /\ c + lastCount <= counter
          BY <3>4, <5>2
        <5>4. c <= counter
          BY <5>1, <5>3, PartBelow
        <5> QED BY <5>3, <5>4
      <4>2. CounterTypes' /\ Within'
        BY <1>0, <2>2, <3>3, <4>1, <1>b
      <4>3. NoteProgress' /\ LoadProgress' /\ StoreProgress' /\ Taken'
        BY <1>0, <2>2, <3>3, <4>1
      <4> QED BY <4>2, <4>3
    <3>6. AtomicNames => AtomicRegister = (IF i = 0 THEN 0 ELSE loaded) /\ AtomicLast = lastCount
      BY <2>2, <2>3 DEF AtomicNames, Stored, loaded
    <3>7. AtomicNames' => AtomicRegister' = loaded /\ AtomicLast' = lastCount
      BY <1>0, <2>2, <3>3, <3>4 DEF AtomicNames, Stored
    <3>8. i = 0 => loaded = counter
      BY DEF loaded
    <3> QED BY <2>2, <3>5, <3>6, <3>7, <3>8 DEF AtomicStep
  <2>4. CASE todo # {i}
    <3>1. copy' = loaded /\ todo' = todo \ {i} /\ access' = access
      BY <1>4, <2>1, <2>4 DEF LoadByte
    <3>2. CounterInv'
      BY <2>2, <2>4, <3>1
    <3>3. AtomicNames /\ AtomicNames' => AtomicStep
      BY <2>2, <3>1 DEF AtomicNames, AtomicStep, Stored
    <3> QED BY <3>2, <3>3
  <2> QED BY <2>3, <2>4
<1>5. ASSUME NEW i \in Bytes, StoreByte(i)
      PROVE  CounterInv' /\ (AtomicNames /\ AtomicNames' => AtomicStep)
  <2>1. counter' = IF i = 0 THEN copy ELSE counter
    BY <1>5, <1>b, LowPatch DEF StoreByte
  <2>2. /\ access = "store" /\ i \in todo /\ todo' = todo \ {i}
        /\ IF todo' = {} THEN access' = "idle" /\ lastCount' = 0
                         ELSE access' = access /\ lastCount' = lastCount
        /\ UNCHANGED <<copy, pulses>>
    BY <1>5 DEF StoreByte
  <2>3. CounterInv'
    <3>1. CASE i = 0
      BY <2>1, <2>2, <3>1
    <3>2. CASE i # 0
      BY <2>1, <2>2, <3>2
    <3> QED BY <3>1, <3>2
  <2>4. AtomicNames /\ AtomicNames' => AtomicStep
    <3>1. ASSUME AtomicNames, AtomicNames', i = 0 PROVE AtomicStep
      <4>1. AtomicRegister = copy + lastCount /\ AtomicLast = lastCount
        BY <2>2, <3>1 DEF AtomicNames, Stored
      <4>2. AtomicRegister' = 0 /\ AtomicLast' = 0
        BY <2>2, <3>1 DEF AtomicNames, Stored
      <4> QED BY <2>1, <3>1, <4>1, <4>2 DEF AtomicStep
    <3>2. ASSUME AtomicNames, AtomicNames', i # 0 PROVE AtomicStep
      BY <2>1, <2>2, <3>2 DEF AtomicNames, AtomicStep, Stored
    <3> QED BY <3>1, <3>2
  <2> QED BY <2>3, <2>4
<1>6. CASE UNCHANGED sharedVars
  <2>1. UNCHANGED <<counter, lastCount, copy, access, todo, pulses>>
    BY <1>6 DEF sharedVars
  <2>2. CounterInv'
    BY <2>1
  <2>3. AtomicNames /\ AtomicNames' => AtomicStep
    BY <2>1 DEF AtomicNames, AtomicStep, Stored
  <2> QED BY <2>2, <2>3
<1> QED BY <1>1, <1>2, <1>3, <1>4, <1>5, <1>6 DEF SharedNext

(* As long as the pulses fit one byte, notes, loads and stores that main   *)
(* makes byte by byte, in any order, with the interrupt between any two of *)
(* them, implement those of AtomicCounter, for every width.                *)
THEOREM BytewiseIsAtomic == ASSUME MaxPulses < Radix PROVE SharedSpec => AtomicInOneByte
<1> DEFINE L == IF access = "note" /\ Reached THEN Digit(copy, 0)
                ELSE IF Stored THEN 0 ELSE lastCount
           R == IF access = "load" /\ Reached THEN Digit(copy, 0)
                ELSE IF access = "store" /\ ~Stored THEN copy + lastCount ELSE 0
<1>1. SharedInit => CounterInv /\ Counter!Init
  BY CounterStarts DEF Counter!Init, AtomicLast, AtomicRegister
<1>2. CounterInv /\ [SharedNext]_sharedVars => CounterInv'
  BY CounterStep
<1>3. CounterInv /\ CounterInv' /\ [SharedNext]_sharedVars => [Counter!Next]_<<counter, L, R>>
  <2> SUFFICES ASSUME CounterInv, CounterInv', [SharedNext]_sharedVars
               PROVE  [Counter!Next]_<<counter, L, R>>
    OBVIOUS
  <2>1. AtomicNames
    BY NamesHold
  <2>2. AtomicNames'
    BY NamesHoldNext
  <2>3. AtomicStep
    BY <2>1, <2>2, CounterStep
  <2>4. L = AtomicLast /\ R = AtomicRegister /\ L' = AtomicLast' /\ R' = AtomicRegister'
    BY DEF AtomicLast, AtomicRegister
  <2>5. \/ Counter!Pulse \/ Counter!Note \/ Counter!Load \/ Counter!Store
        \/ UNCHANGED <<counter, L, R>>
    BY <2>3, <2>4 DEF AtomicStep, Counter!Pulse, Counter!Note, Counter!Load, Counter!Store
  <2> QED BY <2>5 DEF Counter!Next
<1> QED BY <1>1, <1>2, <1>3, PTL DEF SharedSpec, AtomicInOneByte, Counter!Spec

=============================================================================
