------------------------- MODULE FirmwareUploadProofs -------------------------
(***************************************************************************)
(* Proofs about FirmwareUpload for every file, every size of a page and of *)
(* the flash, and every number of faults: where an upload leaves the node, *)
(* that the bootloader does not write over itself, and that the file is in *)
(* the flash after an upload without a failure.                            *)
(***************************************************************************)
EXTENDS FirmwareUpload, WellFoundedInduction, TLAPS

Name == Pin \cup SleepMode \cup {"erase", "line", "string"}

GuiPC == Pin \cup SleepMode \cup {"erase", "erasing", "line", "polling", "done"}

Message == [name : Name, line : Nat]

-----------------------------------------------------------------------------
(* The six pin commands have an order; the others have none.               *)
Rank(name) == CASE name = "P1 low" -> 1 [] name = "P2 low" -> 2 [] name = "P2 high" -> 3
                [] name = "P1 high" -> 4 [] name = "P2 down" -> 5 [] name = "P2 up" -> 6
                [] OTHER -> 0

RankOf(q, i) == Rank(q[i].name)

(* How many the GUI has sent.  An end device that does not answer gets     *)
(* none.                                                                   *)
PinsSent(m) == \/ m = 0 /\ pc \in {"SM pin", "P1 low", "done"}
               \/ m = 1 /\ pc = "P2 low"
               \/ m = 2 /\ pc = "P2 high"
               \/ m = 3 /\ pc \in {"erase", "erasing", "line", "polling", "P1 high"}
               \/ m = 4 /\ pc = "P2 down"
               \/ m = 5 /\ pc = "P2 up"
               \/ m = 6 /\ pc \in {"SM back", "done"}

(* What the node is once it has taken k of them.                           *)
NodeAfter(k) == \/ k = 0 /\ ~bootPin /\ mode = "application"
                \/ k = 1 /\ bootPin /\ mode = "application"
                \/ k = 2 /\ bootPin /\ mode = "held"
                \/ k = 3 /\ bootPin /\ mode # "held"
                \/ k = 4 /\ ~bootPin /\ mode # "held"
                \/ k = 5 /\ ~bootPin /\ mode = "held"
                \/ k = 6 /\ mode = "application"

(* The others are on their way, in their order.                            *)
OnTheWay(q, k, m) ==
    /\ \A i \in 1..Len(q) : RankOf(q, i) # 0 => RankOf(q, i) \in (k + 1)..m
    /\ \A i, j \in 1..Len(q) :
          i < j /\ RankOf(q, i) # 0 /\ RankOf(q, j) # 0 => RankOf(q, i) < RankOf(q, j)
    /\ \A rank \in (k + 1)..m : \E i \in 1..Len(q) : RankOf(q, i) = rank

InStep == \E k, m \in 0..6 : k <= m /\ PinsSent(m) /\ NodeAfter(k) /\ OnTheWay(toNode, k, m)

UploadTypes == /\ pc \in GuiPC /\ lineNo \in Nat
               /\ toNode \in Seq(Message)
               /\ bootPin \in BOOLEAN /\ mode \in {"application", "held", "bootloader"}

PinInv == UploadTypes /\ (commandLost \cap Pin = {} => InStep)

LEMMA NamesOfPins ==
    /\ Pin = {"P1 low", "P2 low", "P2 high", "P1 high", "P2 down", "P2 up"}
    /\ \A name \in Pin : Rank(name) \in 1..6
    /\ \A name \in Name \ Pin : Rank(name) = 0
<1>1. Pin = {"P1 low", "P2 low", "P2 high", "P1 high", "P2 down", "P2 up"}
  BY DEF Pin, After
<1>2. ASSUME NEW name \in Pin PROVE Rank(name) \in 1..6
  <2>1. \/ name = "P1 low" \/ name = "P2 low" \/ name = "P2 high"
        \/ name = "P1 high" \/ name = "P2 down" \/ name = "P2 up"
    BY <1>1
  <2>2. \/ Rank(name) = 1 \/ Rank(name) = 2 \/ Rank(name) = 3
        \/ Rank(name) = 4 \/ Rank(name) = 5 \/ Rank(name) = 6
    BY <2>1 DEF Rank
  <2> QED BY <2>2
<1>3. ASSUME NEW name \in Name \ Pin PROVE Rank(name) = 0
  <2>1. \/ name = "SM pin" \/ name = "SM back" \/ name = "erase" \/ name = "line"
        \/ name = "string"
    BY DEF Name, SleepMode
  <2> QED BY <2>1 DEF Rank
<1> QED BY <1>1, <1>2, <1>3

LEMMA RankType == ASSUME NEW q \in Seq(Message), NEW i \in 1..Len(q) PROVE RankOf(q, i) \in 0..6
<1>1. PICK name : name = q[i].name
  OBVIOUS
<1>2. q[i] \in Message
  OBVIOUS
<1>3. name \in Name
  BY <1>1, <1>2 DEF Message
<1>4. Rank(name) \in 1..6 \/ Rank(name) = 0
  BY <1>3, NamesOfPins
<1>5. Rank(name) \in 0..6
  BY <1>4
<1> QED BY <1>1, <1>5 DEF RankOf

LEMMA PlainSent ==
    ASSUME NEW q \in Seq(Message), NEW msg \in Message, Rank(msg.name) = 0,
           NEW k \in Nat, NEW m \in Nat, OnTheWay(q, k, m)
    PROVE  OnTheWay(Append(q, msg), k, m)
<1> DEFINE r == Append(q, msg)
<1>1. /\ Len(q) \in Nat /\ Len(r) = Len(q) + 1 /\ RankOf(r, Len(q) + 1) = 0
      /\ \A i \in 1..Len(q) : RankOf(r, i) = RankOf(q, i) /\ i \in 1..Len(r)
      /\ \A i \in 1..Len(r) : i # Len(q) + 1 => i \in 1..Len(q)
  BY DEF RankOf
<1> HIDE DEF r
<1> USE DEF OnTheWay
<1>2. ASSUME NEW i \in 1..Len(r), RankOf(r, i) # 0 PROVE i \in 1..Len(q) /\ RankOf(r, i) = RankOf(q, i)
  BY <1>1, <1>2
<1>3. \A i \in 1..Len(r) : RankOf(r, i) # 0 => RankOf(r, i) \in (k + 1)..m
  BY <1>2
<1>4. \A i, j \in 1..Len(r) : i < j /\ RankOf(r, i) # 0 /\ RankOf(r, j) # 0 =>
                                  RankOf(r, i) < RankOf(r, j)
  BY <1>2
<1>5. \A rank \in (k + 1)..m : \E i \in 1..Len(r) : RankOf(r, i) = rank
  BY <1>1
<1> QED BY <1>3, <1>4, <1>5 DEF r

LEMMA PinSent ==
    ASSUME NEW q \in Seq(Message), NEW msg \in Message, NEW k \in Nat, NEW m \in Nat,
           Rank(msg.name) = m + 1, k <= m, OnTheWay(q, k, m)
    PROVE  OnTheWay(Append(q, msg), k, m + 1)
<1> DEFINE r == Append(q, msg)
<1>1. /\ Len(q) \in Nat /\ Len(r) = Len(q) + 1 /\ RankOf(r, Len(q) + 1) = m + 1
      /\ \A i \in 1..Len(q) : RankOf(r, i) = RankOf(q, i) /\ i \in 1..Len(r)
      /\ \A i \in 1..Len(r) : i # Len(q) + 1 => i \in 1..Len(q)
  BY DEF RankOf
<1>2. \A i \in 1..Len(q) : RankOf(q, i) \in 0..6 /\ (RankOf(q, i) # 0 => RankOf(q, i) \in (k + 1)..m)
  BY RankType DEF OnTheWay
<1> HIDE DEF r
<1> USE DEF OnTheWay
<1>3. ASSUME NEW i \in 1..Len(r), RankOf(r, i) # 0 PROVE RankOf(r, i) \in (k + 1)..(m + 1)
  <2>1. CASE i = Len(q) + 1
    BY <1>1, <2>1
  <2>2. CASE i # Len(q) + 1
    BY <1>1, <1>2, <1>3, <2>2
  <2> QED BY <2>1, <2>2
<1>4. ASSUME NEW i \in 1..Len(r), NEW j \in 1..Len(r), i < j, RankOf(r, i) # 0, RankOf(r, j) # 0
      PROVE  RankOf(r, i) < RankOf(r, j)
  <2>1. i \in 1..Len(q) /\ RankOf(r, i) = RankOf(q, i) /\ RankOf(q, i) \in (k + 1)..m
    BY <1>1, <1>2, <1>4
  <2>2. CASE j = Len(q) + 1
    BY <1>1, <2>1, <2>2
  <2>3. CASE j # Len(q) + 1
    BY <1>1, <1>4, <2>1, <2>3
  <2> QED BY <2>2, <2>3
<1>5. ASSUME NEW rank \in (k + 1)..(m + 1) PROVE \E i \in 1..Len(r) : RankOf(r, i) = rank
  <2>1. CASE rank = m + 1
    <3>1. Len(q) + 1 \in 1..Len(r)
      BY <1>1
    <3> QED BY <1>1, <2>1, <3>1
  <2>2. CASE rank # m + 1
    <3>1. rank \in (k + 1)..m
      BY <2>2
    <3> QED BY <1>1, <3>1
  <2> QED BY <2>1, <2>2
<1> QED BY <1>3, <1>4, <1>5 DEF r

LEMMA PlainTaken ==
    ASSUME NEW q \in Seq(Message), q # <<>>, Rank(Head(q).name) = 0,
           NEW k \in Nat, NEW m \in Nat, OnTheWay(q, k, m)
    PROVE  OnTheWay(Tail(q), k, m)
<1> DEFINE r == Tail(q)
<1>1. /\ Len(q) \in Nat /\ Len(r) = Len(q) - 1 /\ RankOf(q, 1) = 0
      /\ \A i \in 1..Len(r) : RankOf(r, i) = RankOf(q, i + 1) /\ i + 1 \in 1..Len(q)
  BY DEF RankOf
<1> HIDE DEF r
<1>2. \A i \in 1..Len(r) : RankOf(r, i) # 0 => RankOf(r, i) \in (k + 1)..m
  BY <1>1 DEF OnTheWay
<1>3. ASSUME NEW i \in 1..Len(r), NEW j \in 1..Len(r), i < j, RankOf(r, i) # 0, RankOf(r, j) # 0
      PROVE  RankOf(r, i) < RankOf(r, j)
  <2>1. i + 1 < j + 1
    BY <1>1, <1>3
  <2> QED BY <1>1, <1>3, <2>1 DEF OnTheWay
<1>4. ASSUME NEW rank \in (k + 1)..m PROVE \E i \in 1..Len(r) : RankOf(r, i) = rank
  <2>1. PICK j \in 1..Len(q) : RankOf(q, j) = rank
    BY DEF OnTheWay
  <2>2. j # 1
    BY <1>1, <2>1
  <2>3. j - 1 \in 1..Len(r) /\ j - 1 + 1 = j
    BY <1>1, <2>2
  <2>4. RankOf(r, j - 1) = rank
    BY <1>1, <2>1, <2>3
  <2> QED BY <2>3, <2>4
<1> QED BY <1>2, <1>3, <1>4 DEF OnTheWay, r

(* The first pin command on its way is the next one the node is to take.   *)
LEMMA PinTaken ==
    ASSUME NEW q \in Seq(Message), q # <<>>, Rank(Head(q).name) # 0,
           NEW k \in Nat, NEW m \in Nat, OnTheWay(q, k, m)
    PROVE  k < m /\ Rank(Head(q).name) = k + 1 /\ OnTheWay(Tail(q), k + 1, m)
<1> DEFINE r == Tail(q)
<1>1. /\ Len(q) \in Nat /\ Len(r) = Len(q) - 1 /\ RankOf(q, 1) = Rank(Head(q).name)
      /\ RankOf(q, 1) # 0 /\ 1 \in 1..Len(q)
      /\ \A i \in 1..Len(r) : RankOf(r, i) = RankOf(q, i + 1) /\ i + 1 \in 1..Len(q)
  BY DEF RankOf
<1> HIDE DEF r
<1>2. RankOf(q, 1) \in (k + 1)..m
  BY <1>1 DEF OnTheWay
<1>3. k < m /\ k + 1 \in (k + 1)..m
  BY <1>2
<1>4. PICK j \in 1..Len(q) : RankOf(q, j) = k + 1
  BY <1>3 DEF OnTheWay
<1>5. RankOf(q, 1) = k + 1
  <2>1. CASE j = 1
    BY <1>4, <2>1
  <2>2. CASE j # 1
    <3>1. 1 < j /\ RankOf(q, j) # 0
      BY <1>4, <2>2
    <3>2. RankOf(q, 1) < RankOf(q, j)
      BY <1>1, <3>1 DEF OnTheWay
    <3> QED BY <1>2, <1>4, <3>2
  <2> QED BY <2>1, <2>2
<1>6. ASSUME NEW i \in 1..Len(r), RankOf(r, i) # 0 PROVE RankOf(r, i) \in (k + 1 + 1)..m
  <2>1. 1 < i + 1 /\ i + 1 \in 1..Len(q) /\ RankOf(q, i + 1) # 0
    BY <1>1, <1>6
  <2>2. RankOf(q, 1) < RankOf(q, i + 1) /\ RankOf(q, i + 1) \in (k + 1)..m
    BY <1>1, <2>1 DEF OnTheWay
  <2> QED BY <1>1, <1>5, <2>2
<1>7. ASSUME NEW i \in 1..Len(r), NEW j2 \in 1..Len(r), i < j2, RankOf(r, i) # 0, RankOf(r, j2) # 0
      PROVE  RankOf(r, i) < RankOf(r, j2)
  <2>1. i + 1 < j2 + 1
    BY <1>1, <1>7
  <2> QED BY <1>1, <1>7, <2>1 DEF OnTheWay
<1>8. ASSUME NEW rank \in (k + 1 + 1)..m PROVE \E i \in 1..Len(r) : RankOf(r, i) = rank
  <2>1. rank \in (k + 1)..m /\ rank # k + 1
    OBVIOUS
  <2>2. PICK l \in 1..Len(q) : RankOf(q, l) = rank
    BY <2>1 DEF OnTheWay
  <2>3. l # 1
    BY <1>5, <2>1, <2>2
  <2>4. l - 1 \in 1..Len(r) /\ l - 1 + 1 = l
    BY <1>1, <2>3
  <2>5. RankOf(r, l - 1) = rank
    BY <1>1, <2>2, <2>4
  <2> QED BY <2>4, <2>5
<1> QED BY <1>1, <1>3, <1>5, <1>6, <1>7, <1>8 DEF OnTheWay, r

-----------------------------------------------------------------------------
LEMMA InitPinInv == Init => PinInv
<1> SUFFICES ASSUME Init PROVE PinInv
  OBVIOUS
<1>1. UploadTypes
  <2>1. pc \in GuiPC
    BY NamesOfPins DEF Init, GuiPC, SleepMode
  <2>2. toNode \in Seq(Message)
    <3>1. toNode = <<>>
      BY DEF Init
    <3>2. <<>> \in Seq(Message)
      OBVIOUS
    <3> QED BY <3>1, <3>2
  <2> QED BY <2>1, <2>2 DEF Init, UploadTypes
<1>2. PinsSent(0) /\ NodeAfter(0)
  BY DEF Init, PinsSent, NodeAfter
<1>3. OnTheWay(toNode, 0, 0)
  <2>1. Len(toNode) = 0
    BY DEF Init
  <2> QED BY <2>1 DEF OnTheWay
<1> QED BY <1>1, <1>2, <1>3 DEF PinInv, InStep

(* Sending: a command that does not arrive is one that was lost.           *)
LEMMA SendsTypes ==
    ASSUME UploadTypes, NEW name \in Name, NEW line \in Nat, NEW ok \in BOOLEAN,
           Sends(name, line, ok)
    PROVE  /\ toNode' \in Seq(Message) /\ commandLost \subseteq commandLost'
           /\ \/ toNode' = Append(toNode, [name |-> name, line |-> line])
              \/ toNode' = toNode /\ name \in commandLost'
<1>1. [name |-> name, line |-> line] \in Message
  BY DEF Message
<1> QED BY <1>1 DEF Sends, UploadTypes

LEMMA PlainSends ==
    ASSUME UploadTypes, NEW name \in Name \ Pin, NEW line \in Nat, NEW ok \in BOOLEAN,
           Sends(name, line, ok), NEW k \in Nat, NEW m \in Nat, OnTheWay(toNode, k, m)
    PROVE  OnTheWay(toNode', k, m)
<1>1. [name |-> name, line |-> line] \in Message /\ Rank(name) = 0
  BY NamesOfPins DEF Message
<1> DEFINE msg == [name |-> name, line |-> line]
<1>2. msg \in Message /\ Rank(msg.name) = 0
  BY <1>1
<1>3. toNode' = Append(toNode, msg) \/ toNode' = toNode
  BY SendsTypes
<1> HIDE DEF msg
<1>4. toNode \in Seq(Message)
  BY DEF UploadTypes
<1>5. OnTheWay(Append(toNode, msg), k, m)
  BY <1>2, <1>4, PlainSent
<1> QED BY <1>3, <1>5

LEMMA PinSends ==
    ASSUME UploadTypes, NEW name \in Pin, NEW ok \in BOOLEAN, Sends(name, 0, ok),
           commandLost' \cap Pin = {},
           NEW k \in Nat, NEW m \in Nat, k <= m, Rank(name) = m + 1, OnTheWay(toNode, k, m)
    PROVE  OnTheWay(toNode', k, m + 1)
<1> DEFINE msg == [name |-> name, line |-> 0]
<1>1. name \in Name
  BY DEF Name
<1>2. msg \in Message /\ Rank(msg.name) = m + 1
  BY <1>1 DEF Message
<1>3. toNode' = Append(toNode, msg)
  BY <1>1, SendsTypes
<1> HIDE DEF msg
<1>4. toNode \in Seq(Message)
  BY DEF UploadTypes
<1>5. OnTheWay(Append(toNode, msg), k, m + 1)
  BY <1>2, <1>4, PinSent
<1> QED BY <1>3, <1>5

-----------------------------------------------------------------------------
(* The steps that leave the queue and the node as they are.                *)
LEMMA QuietStep ==
    ASSUME PinInv, UploadTypes', commandLost \subseteq commandLost',
           UNCHANGED <<bootPin, mode>>,
           commandLost' \cap Pin = {} =>
             \A k, m \in 0..6 : PinsSent(m) /\ k <= m /\ OnTheWay(toNode, k, m) =>
                 \E n \in 0..6 : m <= n /\ PinsSent(n)' /\ OnTheWay(toNode', k, n)
    PROVE  PinInv'
<1> SUFFICES ASSUME commandLost' \cap Pin = {} PROVE InStep'
  BY DEF PinInv
<1>1. InStep
  BY DEF PinInv
<1>2. PICK k, m \in 0..6 : k <= m /\ PinsSent(m) /\ NodeAfter(k) /\ OnTheWay(toNode, k, m)
  BY <1>1 DEF InStep
<1>3. PICK n \in 0..6 : m <= n /\ PinsSent(n)' /\ OnTheWay(toNode', k, n)
  BY <1>2
<1>4. NodeAfter(k)'
  BY <1>2 DEF NodeAfter
<1>5. k <= n
  BY <1>2, <1>3
<1> QED BY <1>3, <1>4, <1>5 DEF InStep

LEMMA SetSleepModeKeeps == PinInv /\ SetSleepMode => PinInv'
<1> SUFFICES ASSUME PinInv, SetSleepMode PROVE PinInv'
  OBVIOUS
<1> USE DEF Elsewhere, nodeVars
<1>1. PICK ok \in BOOLEAN : Sends(pc, 0, ok)
                            /\ pc' = IF ok /\ pc = "SM pin" THEN "P1 low" ELSE "done"
  BY DEF SetSleepMode
<1>2. UploadTypes /\ pc \in Name \ Pin
  BY NamesOfPins DEF SetSleepMode, SleepMode, Name, PinInv
<1>3. toNode' \in Seq(Message) /\ commandLost \subseteq commandLost'
  BY <1>1, <1>2, SendsTypes
<1>4. UploadTypes'
  BY <1>1, <1>2, <1>3, NamesOfPins DEF UploadTypes, SetSleepMode, GuiPC
<1>5. ASSUME NEW k \in 0..6, NEW m \in 0..6, PinsSent(m), k <= m, OnTheWay(toNode, k, m)
      PROVE  PinsSent(m)' /\ OnTheWay(toNode', k, m)
  <2>1. PICK name \in Name \ Pin : name = pc
    BY <1>2
  <2>2. Sends(name, 0, ok)
    BY <1>1, <2>1
  <2>3. OnTheWay(toNode', k, m)
    BY <1>2, <1>5, <2>2, PlainSends
  <2>4. PinsSent(m)'
    BY <1>1, <1>5 DEF PinsSent, SetSleepMode, SleepMode
  <2> QED BY <2>3, <2>4
<1>6. UNCHANGED <<bootPin, mode>>
  BY DEF SetSleepMode
<1> QED BY <1>3, <1>4, <1>5, <1>6, QuietStep

LEMMA SetPinKeeps == PinInv /\ SetPin => PinInv'
<1> SUFFICES ASSUME PinInv, SetPin PROVE PinInv'
  OBVIOUS
<1> USE DEF Elsewhere, nodeVars
<1>1. PICK ok \in BOOLEAN : Sends(pc, 0, ok)
  BY DEF SetPin
<1>2. UploadTypes /\ pc \in Pin /\ pc \in Name /\ pc' = After[pc]
  BY DEF SetPin, Name, PinInv
<1>3. toNode' \in Seq(Message) /\ commandLost \subseteq commandLost'
  BY <1>1, <1>2, SendsTypes
<1>4. /\ pc = "P1 low" => Rank(pc) = 1 /\ pc' = "P2 low"
      /\ pc = "P2 low" => Rank(pc) = 2 /\ pc' = "P2 high"
      /\ pc = "P2 high" => Rank(pc) = 3 /\ pc' = "erase"
      /\ pc = "P1 high" => Rank(pc) = 4 /\ pc' = "P2 down"
      /\ pc = "P2 down" => Rank(pc) = 5 /\ pc' = "P2 up"
      /\ pc = "P2 up" => Rank(pc) = 6 /\ pc' \in {"SM back", "done"}
  BY <1>2 DEF After, Rank
<1>5. pc' \in GuiPC
  BY <1>2, <1>4, NamesOfPins DEF GuiPC, SleepMode
<1>6. UploadTypes'
  BY <1>2, <1>3, <1>5 DEF UploadTypes, SetPin
<1>7. ASSUME commandLost' \cap Pin = {},
             NEW k \in 0..6, NEW m \in 0..6, PinsSent(m), k <= m, OnTheWay(toNode, k, m)
      PROVE  \E n \in 0..6 : m <= n /\ PinsSent(n)' /\ OnTheWay(toNode', k, n)
  <2>1. \/ m = 0 /\ pc = "P1 low"
        \/ m = 1 /\ pc = "P2 low"
        \/ m = 2 /\ pc = "P2 high"
        \/ m = 3 /\ pc = "P1 high"
        \/ m = 4 /\ pc = "P2 down"
        \/ m = 5 /\ pc = "P2 up"
    BY <1>2, <1>7, NamesOfPins DEF PinsSent
  <2>2. PICK n \in 1..6 : n = m + 1
    <3>1. m = 0 \/ m = 1 \/ m = 2 \/ m = 3 \/ m = 4 \/ m = 5
      BY <2>1
    <3>2. m + 1 \in 1..6
      BY <3>1
    <3> QED BY <3>2
  <2>3. Rank(pc) = n /\ PinsSent(n)'
    <3>1. CASE m = 0
      <4>1. n = 1
        BY <2>2, <3>1
      <4> QED BY <1>4, <2>1, <3>1, <4>1 DEF PinsSent
    <3>2. CASE m = 1
      <4>1. n = 2
        BY <2>2, <3>2
      <4> QED BY <1>4, <2>1, <3>2, <4>1 DEF PinsSent
    <3>3. CASE m = 2
      <4>1. n = 3
        BY <2>2, <3>3
      <4> QED BY <1>4, <2>1, <3>3, <4>1 DEF PinsSent
    <3>4. CASE m = 3
      <4>1. n = 4
        BY <2>2, <3>4
      <4> QED BY <1>4, <2>1, <3>4, <4>1 DEF PinsSent
    <3>5. CASE m = 4
      <4>1. n = 5
        BY <2>2, <3>5
      <4> QED BY <1>4, <2>1, <3>5, <4>1 DEF PinsSent
    <3>6. CASE m = 5
      <4>1. n = 6
        BY <2>2, <3>6
      <4> QED BY <1>4, <2>1, <3>6, <4>1 DEF PinsSent
    <3> QED BY <2>1, <3>1, <3>2, <3>3, <3>4, <3>5, <3>6
  <2>4. OnTheWay(toNode', k, m + 1)
    BY <1>1, <1>2, <1>7, <2>2, <2>3, PinSends
  <2>5. OnTheWay(toNode', k, n)
    BY <2>2, <2>4
  <2>6. m <= n /\ n \in 0..6
    BY <2>2
  <2> QED BY <2>3, <2>5, <2>6
<1>8. UNCHANGED <<bootPin, mode>>
  BY DEF SetPin
<1> QED BY <1>3, <1>6, <1>7, <1>8, QuietStep

(* Between the two resets.                                                 *)
LEMMA UploadKeeps ==
    ASSUME PinInv, SendErase \/ PollErase \/ SendLine \/ PollLine
    PROVE  PinInv'
<1> DEFINE Between == {"erase", "erasing", "line", "polling", "P1 high"}
<1> USE DEF Elsewhere, nodeVars
<1>1. UploadTypes
  BY DEF PinInv
<1>2. pc \in Between \ {"P1 high"} /\ pc' \in Between /\ UNCHANGED <<bootPin, mode>>
  BY DEF SendErase, PollErase, SendLine, PollLine, Polled
<1>3. lineNo' \in Nat
  <2>1. lineNo' = lineNo \/ lineNo' = lineNo + 1
    BY DEF SendErase, PollErase, SendLine, PollLine
  <2> QED BY <1>1, <2>1 DEF UploadTypes
<1>4. \/ UNCHANGED <<toNode, commandLost>>
      \/ \E name \in {"erase", "line"}, line \in Nat, ok \in BOOLEAN : Sends(name, line, ok)
  <2>1. CASE SendErase
    BY <2>1 DEF SendErase
  <2>2. CASE PollErase
    BY <2>2 DEF PollErase, Polled
  <2>3. CASE SendLine
    <3>1. lineNo \in Nat
      BY <1>1 DEF UploadTypes
    <3> QED BY <2>3, <3>1 DEF SendLine
  <2>4. CASE PollLine
    BY <2>4 DEF PollLine, Polled
  <2> QED BY <2>1, <2>2, <2>3, <2>4
<1>5. {"erase", "line"} \subseteq Name \ Pin
  BY NamesOfPins DEF Name
<1>6. toNode' \in Seq(Message) /\ commandLost \subseteq commandLost'
  <2>1. CASE UNCHANGED <<toNode, commandLost>>
    BY <1>1, <2>1 DEF UploadTypes
  <2>2. ASSUME NEW name \in {"erase", "line"}, NEW line \in Nat, NEW ok \in BOOLEAN,
               Sends(name, line, ok)
        PROVE  toNode' \in Seq(Message) /\ commandLost \subseteq commandLost'
    <3>1. name \in Name
      BY <1>5
    <3> QED BY <1>1, <2>2, <3>1, SendsTypes
  <2> QED BY <1>4, <2>1, <2>2
<1>7. UploadTypes'
  BY <1>1, <1>2, <1>3, <1>6, NamesOfPins DEF UploadTypes, GuiPC
<1>8. ASSUME NEW k \in 0..6, NEW m \in 0..6, PinsSent(m), k <= m, OnTheWay(toNode, k, m)
      PROVE  PinsSent(m)' /\ OnTheWay(toNode', k, m)
  <2>1. PinsSent(m)'
    BY <1>2, <1>8 DEF PinsSent
  <2>2. CASE UNCHANGED <<toNode, commandLost>>
    BY <1>8, <2>1, <2>2
  <2>3. ASSUME NEW name \in {"erase", "line"}, NEW line \in Nat, NEW ok \in BOOLEAN,
               Sends(name, line, ok)
        PROVE  OnTheWay(toNode', k, m)
    <3>1. name \in Name \ Pin
      BY <1>5
    <3> QED BY <1>1, <1>8, <2>3, <3>1, PlainSends
  <2> QED BY <1>4, <2>1, <2>2, <2>3
<1>9. UNCHANGED <<bootPin, mode>>
  BY <1>2
<1> QED BY <1>6, <1>7, <1>8, <1>9, QuietStep

LEMMA OperatorSendsKeeps == PinInv /\ OperatorSends => PinInv'
<1> SUFFICES ASSUME PinInv, OperatorSends PROVE PinInv'
  OBVIOUS
<1> DEFINE msg == [name |-> "string", line |-> 0]
<1>1. "string" \in Name \ Pin
  BY NamesOfPins DEF Name
<1>2. msg \in Message /\ Rank(msg.name) = 0
  BY <1>1, NamesOfPins DEF Message
<1>3. toNode' = Append(toNode, msg) /\ UNCHANGED <<pc, lineNo, commandLost, bootPin, mode>>
  BY DEF OperatorSends, Elsewhere, guiVars, nodeVars
<1>4. UploadTypes
  BY DEF PinInv
<1> HIDE DEF msg
<1>5. UploadTypes'
  BY <1>2, <1>3, <1>4 DEF UploadTypes
<1>6. ASSUME NEW k \in 0..6, NEW m \in 0..6, PinsSent(m), k <= m, OnTheWay(toNode, k, m)
      PROVE  PinsSent(m)' /\ OnTheWay(toNode', k, m)
  <2>1. toNode \in Seq(Message)
    BY <1>4 DEF UploadTypes
  <2>2. OnTheWay(Append(toNode, msg), k, m)
    BY <1>2, <1>6, <2>1, PlainSent
  <2>3. PinsSent(m)'
    BY <1>3, <1>6 DEF PinsSent
  <2> QED BY <1>3, <2>2, <2>3
<1> QED BY <1>3, <1>5, <1>6, QuietStep

LEMMA LoseCommandKeeps == PinInv /\ LoseCommand => PinInv'
<1> SUFFICES ASSUME PinInv, LoseCommand PROVE PinInv'
  OBVIOUS
<1>1. /\ toNode # <<>> /\ toNode' = Tail(toNode)
      /\ commandLost' = commandLost \cup {Head(toNode).name}
      /\ UNCHANGED <<pc, lineNo, bootPin, mode>>
  BY DEF LoseCommand, Elsewhere, guiVars, nodeVars
<1>2. UploadTypes /\ toNode \in Seq(Message)
  BY DEF PinInv, UploadTypes
<1>3. UploadTypes'
  BY <1>1, <1>2 DEF UploadTypes
<1>4. Head(toNode) \in Message
  BY <1>1, <1>2
<1>5. PICK name : name = Head(toNode).name
  OBVIOUS
<1>6. name \in Name
  BY <1>4, <1>5 DEF Message
<1>7. ASSUME commandLost' \cap Pin = {},
             NEW k \in 0..6, NEW m \in 0..6, PinsSent(m), k <= m, OnTheWay(toNode, k, m)
      PROVE  PinsSent(m)' /\ OnTheWay(toNode', k, m)
  <2>1. name \notin Pin
    BY <1>1, <1>5, <1>7
  <2>2. Rank(name) = 0
    BY <1>6, <2>1, NamesOfPins
  <2>3. OnTheWay(Tail(toNode), k, m)
    BY <1>1, <1>2, <1>5, <1>7, <2>2, PlainTaken
  <2>4. PinsSent(m)'
    BY <1>1, <1>7 DEF PinsSent
  <2> QED BY <1>1, <2>3, <2>4
<1> QED BY <1>1, <1>3, <1>7, QuietStep

LEMMA PinOrder ==
    ASSUME NEW k \in 0..5, NEW n \in 1..6, n = k + 1, NEW pin \in Pin, Rank(pin) = n
    PROVE  \/ k = 0 /\ n = 1 /\ pin = "P1 low"
           \/ k = 1 /\ n = 2 /\ pin = "P2 low"
           \/ k = 2 /\ n = 3 /\ pin = "P2 high"
           \/ k = 3 /\ n = 4 /\ pin = "P1 high"
           \/ k = 4 /\ n = 5 /\ pin = "P2 down"
           \/ k = 5 /\ n = 6 /\ pin = "P2 up"
<1>1. /\ Rank("P1 low") = 1 /\ Rank("P2 low") = 2 /\ Rank("P2 high") = 3
      /\ Rank("P1 high") = 4 /\ Rank("P2 down") = 5 /\ Rank("P2 up") = 6
  BY DEF Rank
<1>2. CASE pin = "P1 low"
  <2>1. Rank(pin) = 1
    BY Zenon, <1>1, <1>2
  <2>2. k = 0 /\ n = 1
    BY <2>1
  <2> QED BY Zenon, <1>2, <2>2
<1>3. CASE pin = "P2 low"
  <2>1. Rank(pin) = 2
    BY Zenon, <1>1, <1>3
  <2>2. k = 1 /\ n = 2
    BY <2>1
  <2> QED BY Zenon, <1>3, <2>2
<1>4. CASE pin = "P2 high"
  <2>1. Rank(pin) = 3
    BY Zenon, <1>1, <1>4
  <2>2. k = 2 /\ n = 3
    BY <2>1
  <2> QED BY Zenon, <1>4, <2>2
<1>5. CASE pin = "P1 high"
  <2>1. Rank(pin) = 4
    BY Zenon, <1>1, <1>5
  <2>2. k = 3 /\ n = 4
    BY <2>1
  <2> QED BY Zenon, <1>5, <2>2
<1>6. CASE pin = "P2 down"
  <2>1. Rank(pin) = 5
    BY Zenon, <1>1, <1>6
  <2>2. k = 4 /\ n = 5
    BY <2>1
  <2> QED BY Zenon, <1>6, <2>2
<1>7. CASE pin = "P2 up"
  <2>1. Rank(pin) = 6
    BY Zenon, <1>1, <1>7
  <2>2. k = 5 /\ n = 6
    BY <2>1
  <2> QED BY Zenon, <1>7, <2>2
<1> QED BY <1>2, <1>3, <1>4, <1>5, <1>6, <1>7, NamesOfPins

(* A pin command moves the node on to its next stage.                      *)
LEMMA PinSetMoves ==
    ASSUME NEW k \in 0..5, NEW n \in 1..6, n = k + 1, NEW pin \in Pin, Rank(pin) = n,
           NodeAfter(k), PinSet(pin)
    PROVE  NodeAfter(n)'
<1>1. \/ k = 0 /\ n = 1 /\ pin = "P1 low"
      \/ k = 1 /\ n = 2 /\ pin = "P2 low"
      \/ k = 2 /\ n = 3 /\ pin = "P2 high"
      \/ k = 3 /\ n = 4 /\ pin = "P1 high"
      \/ k = 4 /\ n = 5 /\ pin = "P2 down"
      \/ k = 5 /\ n = 6 /\ pin = "P2 up"
  BY PinOrder
<1>2. CASE k = 0 /\ n = 1 /\ pin = "P1 low"
  <2>1. bootPin' /\ mode' = mode
    BY Zenon, <1>2 DEF PinSet
  <2>2. k = 0 /\ n = 1
    BY <1>2
  <2> QED BY <2>1, <2>2 DEF NodeAfter
<1>3. CASE k = 1 /\ n = 2 /\ pin = "P2 low"
  <2>1. bootPin' = bootPin /\ mode' = "held"
    BY Zenon, <1>3 DEF PinSet
  <2>2. k = 1 /\ n = 2
    BY <1>3
  <2> QED BY <2>1, <2>2 DEF NodeAfter
<1>4. CASE k = 2 /\ n = 3 /\ pin = "P2 high"
  <2>1. bootPin' = bootPin /\ (mode = "held" /\ bootPin => mode' = "bootloader")
    BY Zenon, <1>4 DEF PinSet
  <2>2. k = 2 /\ n = 3
    BY <1>4
  <2> QED BY <2>1, <2>2 DEF NodeAfter
<1>5. CASE k = 3 /\ n = 4 /\ pin = "P1 high"
  <2>1. ~bootPin' /\ mode' = mode
    BY Zenon, <1>5 DEF PinSet
  <2>2. k = 3 /\ n = 4
    BY <1>5
  <2> QED BY <2>1, <2>2 DEF NodeAfter
<1>6. CASE k = 4 /\ n = 5 /\ pin = "P2 down"
  <2>1. bootPin' = bootPin /\ mode' = "held"
    BY Zenon, <1>6 DEF PinSet
  <2>2. k = 4 /\ n = 5
    BY <1>6
  <2> QED BY <2>1, <2>2 DEF NodeAfter
<1>7. CASE k = 5 /\ n = 6 /\ pin = "P2 up"
  <2>1. mode = "held" /\ ~bootPin => mode' = "application"
    BY Zenon, <1>7 DEF PinSet
  <2>2. k = 5 /\ n = 6
    BY <1>7
  <2> QED BY <2>1, <2>2 DEF NodeAfter
<1> QED BY <1>1, <1>2, <1>3, <1>4, <1>5, <1>6, <1>7

LEMMA NodeTakesKeeps == PinInv /\ NodeTakes => PinInv'
<1> SUFFICES ASSUME PinInv, NodeTakes PROVE PinInv'
  OBVIOUS
<1>1. /\ toNode # <<>> /\ toNode' = Tail(toNode)
      /\ UNCHANGED <<pc, lineNo, commandLost>>
  BY DEF NodeTakes, guiVars
<1>2. UploadTypes /\ toNode \in Seq(Message)
  BY DEF PinInv, UploadTypes
<1>3. Head(toNode) \in Message
  BY <1>1, <1>2
<1>4. PICK name : name = Head(toNode).name
  OBVIOUS
<1>5. name \in Name
  BY <1>3, <1>4 DEF Message
<1>6. toNode' \in Seq(Message)
  BY <1>1, <1>2
<1>7. CASE name \in Pin
  <2>1. PinSet(name)
    BY <1>4, <1>7 DEF NodeTakes
  <2>2. UploadTypes'
    BY <1>1, <1>2, <1>6, <1>7, <2>1 DEF UploadTypes, PinSet
  <2>3. ASSUME commandLost' \cap Pin = {} PROVE InStep'
    <3>1. InStep
      BY <1>1, <2>3 DEF PinInv
    <3>2. PICK k, m \in 0..6 : k <= m /\ PinsSent(m) /\ NodeAfter(k) /\ OnTheWay(toNode, k, m)
      BY <3>1 DEF InStep
    <3>3. Rank(Head(toNode).name) # 0
      <4>1. Rank(name) \in 1..6
        BY <1>7, NamesOfPins
      <4> QED BY <1>4, <4>1
    <3>4. k < m /\ Rank(name) = k + 1 /\ OnTheWay(Tail(toNode), k + 1, m)
      BY <1>1, <1>2, <1>4, <3>2, <3>3, PinTaken
    <3>5. k \in 0..5 /\ bootPin \in BOOLEAN
      BY <1>2, <3>2, <3>4 DEF UploadTypes
    <3>6. PICK n \in 1..6 : n = k + 1
      BY <3>5
    <3>7. NodeAfter(n)'
      BY <1>7, <2>1, <3>2, <3>4, <3>5, <3>6, PinSetMoves
    <3>8. PinsSent(m)'
      BY <1>1, <3>2 DEF PinsSent
    <3>9. n \in 0..6 /\ n <= m /\ OnTheWay(toNode', n, m)
      BY <1>1, <3>2, <3>4, <3>6
    <3> QED BY <3>7, <3>8, <3>9 DEF InStep
  <2> QED BY <2>2, <2>3 DEF PinInv
<1>8. CASE name \notin Pin
  <2>1. /\ bootPin' = bootPin
        /\ mode' = mode \/ (mode = "bootloader" /\ mode' = "application")
    <3>1. CASE mode # "bootloader" \/ name \in SleepMode
      BY <1>4, <1>8, <3>1 DEF NodeTakes, nodeVars
    <3>2. CASE mode = "bootloader" /\ name \notin SleepMode
      <4>1. name = "erase" \/ name = "line" \/ name = "string"
        BY <1>5, <1>8, <3>2 DEF Name
      <4>2. /\ bootPin' = bootPin
            /\ \/ EraseAll
               \/ ProgramLine(File[Head(toNode).line])
               \/ UNCHANGED <<flash, boot, mode>>
        BY <1>4, <1>8, <3>2, <4>1 DEF NodeTakes
      <4>3. mode' = mode \/ mode' = "application"
        BY <4>2 DEF EraseAll, ProgramLine
      <4> QED BY <3>2, <4>2, <4>3
    <3> QED BY <3>1, <3>2
  <2>2. UploadTypes'
    BY <1>1, <1>2, <1>6, <2>1 DEF UploadTypes
  <2>3. ASSUME commandLost' \cap Pin = {} PROVE InStep'
    <3>1. InStep
      BY <1>1, <2>3 DEF PinInv
    <3>2. PICK k, m \in 0..6 : k <= m /\ PinsSent(m) /\ NodeAfter(k) /\ OnTheWay(toNode, k, m)
      BY <3>1 DEF InStep
    <3>3. Rank(Head(toNode).name) = 0
      BY <1>4, <1>5, <1>8, NamesOfPins
    <3>4. OnTheWay(Tail(toNode), k, m)
      BY <1>1, <1>2, <3>2, <3>3, PlainTaken
    <3>5. NodeAfter(k)'
      BY <2>1, <3>2 DEF NodeAfter
    <3>6. PinsSent(m)'
      BY <1>1, <3>2 DEF PinsSent
    <3> QED BY <1>1, <3>2, <3>4, <3>5, <3>6 DEF InStep
  <2> QED BY <2>2, <2>3 DEF PinInv
<1> QED BY <1>7, <1>8

LEMMA NextPinInv == PinInv /\ [Next]_vars => PinInv'
<1> SUFFICES ASSUME PinInv, [Next]_vars PROVE PinInv'
  OBVIOUS
<1>1. CASE UNCHANGED <<pc, lineNo, toNode, bootPin, mode, commandLost>>
  <2>1. UploadTypes'
    BY <1>1 DEF PinInv, UploadTypes
  <2>2. \A m \in 0..6 : PinsSent(m) => PinsSent(m)'
    BY <1>1 DEF PinsSent
  <2>3. \A k, m \in 0..6 : OnTheWay(toNode, k, m) => OnTheWay(toNode', k, m)
    BY <1>1
  <2> QED BY <1>1, <2>1, <2>2, <2>3, QuietStep
<1>2. CASE GUI
  BY <1>2, SetSleepModeKeeps, SetPinKeeps, UploadKeeps DEF GUI
<1>3. CASE NodeTakes
  BY <1>3, NodeTakesKeeps
<1>4. CASE LoseCommand
  BY <1>4, LoseCommandKeeps
<1>5. CASE OperatorSends
  BY <1>5, OperatorSendsKeeps
<1>6. ASSUME NEW kept \in BOOLEAN, AnswerComes(kept) PROVE PinInv'
  <2>1. UNCHANGED <<pc, lineNo, toNode, bootPin, mode, commandLost>>
    BY <1>6 DEF AnswerComes, guiVars, nodeVars
  <2> QED BY <1>1, <2>1
<1>7. CASE UNCHANGED vars
  BY <1>1, <1>7 DEF vars, guiVars, nodeVars
<1> QED BY <1>2, <1>3, <1>4, <1>5, <1>6, <1>7 DEF Next

(* Where nothing is on its way, the node has taken all that was sent.      *)
LEMMA PinsDone == PinInv => NodeReturns
<1> SUFFICES ASSUME PinInv, Ended, commandLost \cap Pin = {} PROVE mode = "application"
  BY DEF NodeReturns
<1>1. PICK k, m \in 0..6 : k <= m /\ PinsSent(m) /\ NodeAfter(k) /\ OnTheWay(toNode, k, m)
  BY DEF PinInv, InStep
<1>2. Len(toNode) = 0
  BY DEF Ended
<1>3. k = m
  <2> SUFFICES ASSUME k < m PROVE FALSE
    BY <1>1
  <2>1. m \in (k + 1)..m
    OBVIOUS
  <2> QED BY <1>1, <1>2, <2>1 DEF OnTheWay
<1>4. m = 0 \/ m = 6
  BY <1>1 DEF PinsSent, Ended
<1> QED BY <1>1, <1>3, <1>4 DEF NodeAfter

(* "Node will enter application mode", for every file, with and without a  *)
(* sleeping XBee, whatever else was lost, came late or was sent by the     *)
(* operator in between: an upload whose pin commands have reached the node *)
(* leaves it in its application.  The node is always as far through the    *)
(* six of them as the ones on their way say.                               *)
THEOREM NodeComesBack == Spec => []NodeReturns
<1>1. Spec => []PinInv
  BY InitPinInv, NextPinInv, PTL DEF Spec
<1> QED BY <1>1, PinsDone, PTL

-----------------------------------------------------------------------------
(* What the bootloader works on, and when it has left itself alone: a page *)
(* that is being filled begins below it.                                   *)
Buffer == [0..(PageSize - 1) -> Int]

BootType == [filling : BOOLEAN, base : Nat, buffer : Buffer, erased : SUBSET Nat]

Intact(f) == \A w \in Word : w >= AppEnd => f[w] = Old

Sound(s) == /\ s \in [flash : [Word -> Int], boot : BootType, ok : BOOLEAN]
            /\ Intact(s.flash) /\ (s.boot.filling => s.boot.base < AppEnd)

LEMMA Quotients ==
    ASSUME NEW p \in Nat \ {0}, NEW limit \in Nat, limit % p = 0,
           NEW w \in Nat, w >= limit, NEW below \in Nat, below < limit
    PROVE  w \div p # below \div p
OBVIOUS

LEMMA Quotient ==
    ASSUME NEW p \in Nat \ {0}, NEW w \in Nat
    PROVE  /\ w \div p \in Nat /\ (w \div p) * p \in Nat /\ (w \div p) * p <= w
           /\ w % p \in 0..(p - 1)
OBVIOUS

(* A page is the application's or the bootloader's, and a buffer holds one *)
(* page.                                                                   *)
LEMMA PageBelow ==
    ASSUME NEW w \in Nat, w >= AppEnd, NEW below \in Nat, below < AppEnd
    PROVE  Page(w) # Page(below)
<1>1. PageSize \in Nat \ {0} /\ AppEnd \in Nat /\ AppEnd % PageSize = 0
  BY UploadAssumption
<1> QED BY <1>1, Quotients DEF Page

LEMMA PageBegins ==
    ASSUME NEW w \in Nat
    PROVE  /\ Page(w) \in Nat /\ Page(w) * PageSize \in Nat /\ Page(w) * PageSize <= w
           /\ w % PageSize \in 0..(PageSize - 1)
<1>1. PageSize \in Nat \ {0}
  BY UploadAssumption
<1> QED BY <1>1, Quotient DEF Page

LEMMA WordIsNat == ASSUME NEW w \in Word PROVE w \in Nat
BY UploadAssumption DEF Word

LEMMA EraseKeeps ==
    ASSUME NEW f \in [Word -> Int], Intact(f), NEW below \in Nat, below < AppEnd
    PROVE  ErasePage(f, Page(below)) \in [Word -> Int] /\ Intact(ErasePage(f, Page(below)))
<1>1. ErasePage(f, Page(below)) \in [Word -> Int]
  BY DEF ErasePage, Blank
<1>2. ASSUME NEW w \in Word, w >= AppEnd PROVE ErasePage(f, Page(below))[w] = Old
  <2>1. Page(w) # Page(below)
    BY <1>2, WordIsNat, PageBelow
  <2> QED BY <1>2, <2>1 DEF ErasePage, Intact
<1> QED BY <1>1, <1>2 DEF Intact

LEMMA ProgrammedKeeps ==
    ASSUME NEW f \in [Word -> Int], Intact(f), NEW base \in Nat, base < AppEnd,
           NEW buffer \in Buffer
    PROVE  Programmed(f, base, buffer) \in [Word -> Int] /\ Intact(Programmed(f, base, buffer))
<1>1. Programmed(f, base, buffer) \in [Word -> Int]
  <2>1. ASSUME NEW w \in Word PROVE buffer[w % PageSize] \in Int
    BY <2>1, WordIsNat, PageBegins DEF Buffer
  <2> QED BY <2>1 DEF Programmed, Mixed
<1>2. ASSUME NEW w \in Word, w >= AppEnd PROVE Programmed(f, base, buffer)[w] = Old
  <2>1. Page(w) # Page(base)
    BY <1>2, WordIsNat, PageBelow
  <2> QED BY <1>2, <2>1 DEF Programmed, Intact
<1> QED BY <1>1, <1>2 DEF Intact

LEMMA WriteKeeps ==
    ASSUME NEW s, Sound(s), s.boot.base < AppEnd
    PROVE  Sound(WritePage(s))
<1> DEFINE f == Programmed(s.flash, s.boot.base, s.boot.buffer)
           b == [s.boot EXCEPT !.filling = FALSE, !.buffer = Empty]
           t == [s EXCEPT !.flash = f, !.boot = b]
<1>1. s.flash \in [Word -> Int] /\ s.boot \in BootType /\ s.ok \in BOOLEAN /\ Intact(s.flash)
  BY DEF Sound
<1>2. f \in [Word -> Int] /\ Intact(f)
  BY <1>1, ProgrammedKeeps DEF BootType
<1>3. Empty \in Buffer
  BY DEF Empty, Buffer, Blank
<1>4. b \in BootType /\ b.filling = FALSE
  BY <1>1, <1>3 DEF BootType
<1> HIDE DEF f, b
<1>5. /\ t.flash = f /\ t.boot = b
      /\ t \in [flash : [Word -> Int], boot : BootType, ok : BOOLEAN]
  BY <1>1, <1>2, <1>4 DEF Sound
<1>6. Sound(t)
  BY <1>2, <1>4, <1>5 DEF Sound
<1> QED BY <1>6 DEF WritePage, f, b

LEMMA BeginKeeps ==
    ASSUME NEW s, Sound(s), NEW w \in Nat, w < AppEnd
    PROVE  Sound(BeginPage(s, w)) /\ BeginPage(s, w).boot.base < AppEnd
<1>1. CASE s.boot.filling
  BY <1>1 DEF BeginPage, Sound
<1>2. CASE ~s.boot.filling
  <2> DEFINE f == IF NotErased(s.boot, Page(w)) THEN ErasePage(s.flash, Page(w)) ELSE s.flash
             b == [s.boot EXCEPT !.base = Page(w) * PageSize,
                                 !.erased = s.boot.erased \cup {Page(w)}]
             t == [s EXCEPT !.flash = f, !.boot = b]
  <2>1. s.flash \in [Word -> Int] /\ s.boot \in BootType /\ s.ok \in BOOLEAN /\ Intact(s.flash)
    BY DEF Sound
  <2>2. f \in [Word -> Int] /\ Intact(f)
    BY <2>1, EraseKeeps
  <2>3. Page(w) \in Nat /\ Page(w) * PageSize \in Nat /\ Page(w) * PageSize < AppEnd
    <3>1. PICK base : base = Page(w) * PageSize
      OBVIOUS
    <3>2. Page(w) \in Nat /\ base \in Nat /\ base <= w
      BY <3>1, PageBegins
    <3>3. AppEnd \in Nat
      BY UploadAssumption
    <3>4. base < AppEnd
      BY <3>2, <3>3
    <3> QED BY <3>1, <3>2, <3>4
  <2>4. b \in BootType /\ b.base < AppEnd
    BY <2>1, <2>3 DEF BootType
  <2>5. BeginPage(s, w) = t
    <3>1. BeginPage(s, w) = [s EXCEPT !.flash = f, !.boot.base = Page(w) * PageSize,
                                      !.boot.erased = @ \cup {Page(w)}]
      BY Zenon, <1>2 DEF BeginPage
    <3> QED BY <3>1
  <2> HIDE DEF f, b
  <2>6. /\ t.flash = f /\ t.boot = b
        /\ t \in [flash : [Word -> Int], boot : BootType, ok : BOOLEAN]
    BY <2>1, <2>2, <2>4 DEF Sound
  <2>7. Sound(t) /\ t.boot.base < AppEnd
    BY <2>2, <2>4, <2>6 DEF Sound
  <2> QED BY <2>5, <2>7
<1> QED BY <1>1, <1>2

LEMMA FillWordKeeps ==
    ASSUME NEW s, Sound(s), NEW w \in Nat
    PROVE  Sound(FillWord(s, w))
<1>1. CASE ~s.ok \/ Outside(w)
  <2> DEFINE t == [s EXCEPT !.ok = FALSE]
  <2>1. Sound(t)
    BY DEF Sound
  <2> QED BY <1>1, <2>1 DEF FillWord
<1>2. CASE ~(~s.ok \/ Outside(w))
  <2> DEFINE begun == BeginPage(s, w)
             b == [begun.boot EXCEPT !.filling = TRUE, !.buffer[w % PageSize] = w]
             filled == [begun EXCEPT !.boot = b]
  <2>1. w < AppEnd
    BY <1>2, UploadAssumption DEF Outside
  <2>2. Sound(begun) /\ begun.boot.base < AppEnd
    BY <2>1, BeginKeeps
  <2>3. FillWord(s, w) = IF (w + 1) % PageSize = 0 THEN WritePage(filled) ELSE filled
    BY <1>2 DEF FillWord
  <2> HIDE DEF begun
  <2>4. begun.boot \in BootType /\ w % PageSize \in 0..(PageSize - 1)
    BY <2>2, PageBegins DEF Sound
  <2>5. b \in BootType /\ b.base = begun.boot.base
    <3>1. PICK i \in 0..(PageSize - 1) : i = w % PageSize
      BY <2>4
    <3> DEFINE c == [begun.boot.buffer EXCEPT ![i] = w]
    <3>2. begun.boot.buffer \in Buffer
      BY <2>4 DEF BootType
    <3>3. c \in Buffer
      BY <3>2 DEF Buffer
    <3>4. b = [begun.boot EXCEPT !.filling = TRUE, !.buffer = c]
      BY <3>1
    <3> HIDE DEF b, c
    <3> QED BY <2>4, <3>3, <3>4 DEF BootType
  <2> HIDE DEF b
  <2>6. /\ filled.flash = begun.flash /\ filled.boot = b
        /\ filled \in [flash : [Word -> Int], boot : BootType, ok : BOOLEAN]
    BY <2>2, <2>5 DEF Sound
  <2>7. Sound(filled) /\ filled.boot.base < AppEnd
    BY <2>2, <2>5, <2>6 DEF Sound
  <2> HIDE DEF filled
  <2> QED BY <2>3, <2>7, WriteKeeps
<1> QED BY <1>1, <1>2

-----------------------------------------------------------------------------
(* A line is as many words as it has, one after the other.                 *)
LEMMA LeastElement ==
    ASSUME NEW T \in SUBSET Nat, T # {}
    PROVE  \E x \in T : \A y \in T : x <= y
<1>1. PICK x \in T : \A y \in T : ~(<<y, x>> \in OpToRel(<, Nat))
  BY WFMin, NatLessThanWellFounded
<1>2. \A y \in T : ~(y < x)
  BY <1>1 DEF OpToRel
<1> QED BY <1>2

(* The states of the bootloader from s on, after each of the words.        *)
Fill(g, s, first, n) ==
    g = [k \in 0..n |-> IF k = 0 THEN s ELSE FillWord(g[k - 1], first + k - 1)]

LEMMA FillOne ==
    ASSUME NEW s, NEW first, NEW n \in Nat, NEW g, Fill(g, s, first, n)
    PROVE  \E h : Fill(h, s, first, n + 1)
<1> DEFINE h == [k \in 0..(n + 1) |-> IF k = n + 1 THEN FillWord(g[n], first + (n + 1) - 1)
                                      ELSE g[k]]
<1>1. ASSUME NEW k \in 0..(n + 1)
      PROVE  h[k] = IF k = 0 THEN s ELSE FillWord(h[k - 1], first + k - 1)
  <2>1. CASE k = n + 1
    <3>1. k # 0 /\ k - 1 = n /\ h[n] = g[n]
      BY <2>1
    <3>2. h[k] = FillWord(g[n], first + (n + 1) - 1)
      BY <2>1
    <3> HIDE DEF h
    <3> QED BY <2>1, <3>1, <3>2
  <2>2. CASE k # n + 1
    <3>1. k \in 0..n /\ h[k] = g[k]
      BY <2>2
    <3>2. g[k] = IF k = 0 THEN s ELSE FillWord(g[k - 1], first + k - 1)
      BY <3>1 DEF Fill
    <3>3. k # 0 => h[k - 1] = g[k - 1]
      BY <3>1
    <3> HIDE DEF h
    <3> QED BY <3>1, <3>2, <3>3
  <2> QED BY <2>1, <2>2
<1>2. h = [k \in 0..(n + 1) |-> IF k = 0 THEN s ELSE FillWord(h[k - 1], first + k - 1)]
  <2>1. h = [k \in 0..(n + 1) |-> h[k]]
    OBVIOUS
  <2> HIDE DEF h
  <2> QED BY <1>1, <2>1
<1> HIDE DEF h
<1> QED BY <1>2 DEF Fill

LEMMA FillExists ==
    ASSUME NEW s, NEW first, NEW n \in Nat
    PROVE  \E g : Fill(g, s, first, n)
<1> DEFINE T == {k \in Nat : ~\E g : Fill(g, s, first, k)}
<1> SUFFICES ASSUME n \in T PROVE FALSE
  OBVIOUS
<1>1. PICK x \in T : \A y \in T : x <= y
  <2>1. T \in SUBSET Nat /\ T # {}
    OBVIOUS
  <2> HIDE DEF T
  <2> QED BY <2>1, LeastElement
<1>2. x # 0
  <2> SUFFICES \E g : Fill(g, s, first, 0)
    OBVIOUS
  <2> DEFINE g == [k \in 0..0 |-> s]
  <2>1. g = [k \in 0..0 |-> IF k = 0 THEN s ELSE FillWord(g[k - 1], first + k - 1)]
    OBVIOUS
  <2> HIDE DEF g
  <2> QED BY <2>1 DEF Fill
<1>3. x - 1 \in Nat /\ x - 1 \notin T /\ x - 1 + 1 = x
  BY <1>1, <1>2
<1>4. PICK g : Fill(g, s, first, x - 1)
  BY <1>3
<1>5. \E h : Fill(h, s, first, x)
  BY <1>3, <1>4, FillOne
<1> QED BY <1>5

LEMMA FillKeeps ==
    ASSUME NEW s, Sound(s), NEW first \in Nat, NEW n \in Nat, NEW g, Fill(g, s, first, n),
           NEW m \in 0..n
    PROVE  Sound(g[m])
<1> DEFINE T == {k \in 0..n : ~Sound(g[k])}
<1> SUFFICES ASSUME m \in T PROVE FALSE
  OBVIOUS
<1>1. PICK x \in T : \A y \in T : x <= y
  <2>1. T \in SUBSET Nat /\ T # {}
    OBVIOUS
  <2> HIDE DEF T
  <2> QED BY <2>1, LeastElement
<1>2. g[0] = s
  BY DEF Fill
<1>3. x \in 0..n /\ x # 0 /\ x - 1 \in 0..n /\ first + x - 1 \in Nat
  BY <1>2
<1>4. Sound(g[x - 1])
  <2>1. x - 1 \notin T
    BY <1>1, <1>3
  <2> QED BY <1>3, <2>1
<1>5. g[x] = FillWord(g[x - 1], first + x - 1)
  BY <1>3 DEF Fill
<1>6. Sound(g[x])
  BY <1>3, <1>4, <1>5, FillWordKeeps
<1> QED BY <1>6

LEMMA FilledKeeps ==
    ASSUME NEW line \in [first : Nat, words : Nat, last : BOOLEAN],
           Sound([flash |-> flash, boot |-> boot, ok |-> TRUE])
    PROVE  Sound(Filled(line))
<1> DEFINE s == [flash |-> flash, boot |-> boot, ok |-> TRUE]
           h == CHOOSE g : g = [n \in 0..line.words |->
                                  IF n = 0 THEN s ELSE FillWord(g[n - 1], line.first + n - 1)]
<1>1. Filled(line) = h[line.words]
  BY Zenon DEF Filled
<1>2. \E g : Fill(g, s, line.first, line.words)
  BY FillExists
<1>3. Fill(h, s, line.first, line.words)
  BY Zenon, <1>2 DEF Fill
<1> HIDE DEF h, s
<1>4. line.first \in Nat /\ line.words \in Nat /\ line.words \in 0..line.words
  OBVIOUS
<1>5. Sound(s)
  BY DEF s
<1> QED BY <1>1, <1>3, <1>4, <1>5, FillKeeps

-----------------------------------------------------------------------------
(* What goes out as a line is one of the file.                             *)
LinesOfFile ==
    /\ lineNo \in Nat \ {0}
    /\ toNode \in Seq({msg \in Message : msg.name = "line" => msg.line \in DOMAIN File})

FlashInv == Sound([flash |-> flash, boot |-> boot, ok |-> TRUE])

LEMMA InitFlashInv == Init => LinesOfFile /\ FlashInv
<1> SUFFICES ASSUME Init PROVE LinesOfFile /\ FlashInv
  OBVIOUS
<1>1. LinesOfFile
  <2>1. toNode = <<>> /\ lineNo = 1
    BY DEF Init
  <2> QED BY <2>1 DEF LinesOfFile
<1>2. flash = [w \in Word |-> Old] /\ boot = Fresh
  BY DEF Init
<1>3. Fresh \in BootType /\ Fresh.filling = FALSE
  BY DEF Fresh, BootType, Buffer, Empty, Blank
<1>4. flash \in [Word -> Int] /\ Intact(flash)
  BY <1>2 DEF Intact, Old
<1> DEFINE s == [flash |-> flash, boot |-> boot, ok |-> TRUE]
<1>5. s.flash = flash /\ s.boot = boot
      /\ s \in [flash : [Word -> Int], boot : BootType, ok : BOOLEAN]
  BY <1>2, <1>3, <1>4
<1> HIDE DEF s
<1>6. Sound(s)
  BY <1>2, <1>3, <1>4, <1>5 DEF Sound
<1> QED BY <1>1, <1>6 DEF FlashInv, s

LEMMA SoundParts ==
    ASSUME NEW f, NEW b
    PROVE  Sound([flash |-> f, boot |-> b, ok |-> TRUE])
           <=> /\ f \in [Word -> Int] /\ b \in BootType
               /\ Intact(f) /\ (b.filling => b.base < AppEnd)
BY DEF Sound

LEMMA NextLinesOfFile == LinesOfFile /\ [Next]_vars => LinesOfFile'
<1> SUFFICES ASSUME LinesOfFile, [Next]_vars PROVE LinesOfFile'
  OBVIOUS
<1> DEFINE Lines == {msg \in Message : msg.name = "line" => msg.line \in DOMAIN File}
<1> USE DEF Elsewhere, guiVars
<1>1. lineNo \in Nat \ {0} /\ toNode \in Seq(Lines)
  BY DEF LinesOfFile
<1>2. lineNo' = lineNo \/ lineNo' = lineNo + 1
  BY DEF Next, GUI, SetSleepMode, SetPin, SendErase, PollErase, SendLine, PollLine, NodeTakes,
         LoseCommand, OperatorSends, AnswerComes, vars
<1>3. \/ toNode' = toNode
      \/ toNode # <<>> /\ toNode' = Tail(toNode)
      \/ \E name \in Name \ {"line"} : toNode' = Append(toNode, [name |-> name, line |-> 0])
      \/ ~NoMore /\ toNode' = Append(toNode, [name |-> "line", line |-> lineNo])
  <2>1. {"erase", "string"} \cup Pin \cup SleepMode \subseteq Name \ {"line"}
    BY NamesOfPins DEF Name, SleepMode
  <2>2. CASE SetSleepMode
    BY <2>1, <2>2 DEF SetSleepMode, Sends
  <2>3. CASE SetPin
    BY <2>1, <2>3 DEF SetPin, Sends
  <2>4. CASE SendErase
    BY <2>1, <2>4 DEF SendErase, Sends
  <2>5. CASE PollErase
    BY <2>5 DEF PollErase, Polled
  <2>6. CASE SendLine
    BY <2>6 DEF SendLine, Sends
  <2>7. CASE PollLine
    BY <2>7 DEF PollLine, Polled
  <2>8. CASE NodeTakes
    BY <2>8 DEF NodeTakes
  <2>9. CASE LoseCommand
    BY <2>9 DEF LoseCommand
  <2>10. CASE OperatorSends
    BY <2>1, <2>10 DEF OperatorSends
  <2>11. CASE UNCHANGED toNode
    BY <2>11
  <2> QED BY <2>2, <2>3, <2>4, <2>5, <2>6, <2>7, <2>8, <2>9, <2>10, <2>11
          DEF Next, GUI, AnswerComes, vars
<1>4. toNode' \in Seq(Lines)
  <2>1. CASE toNode' = toNode \/ (toNode # <<>> /\ toNode' = Tail(toNode))
    <3> HIDE DEF Lines
    <3> QED BY <1>1, <2>1
  <2>2. ASSUME NEW name \in Name \ {"line"},
               toNode' = Append(toNode, [name |-> name, line |-> 0])
        PROVE  toNode' \in Seq(Lines)
    <3>1. [name |-> name, line |-> 0] \in Lines
      BY DEF Message
    <3> HIDE DEF Lines
    <3> QED BY <1>1, <2>2, <3>1
  <2>3. CASE ~NoMore /\ toNode' = Append(toNode, [name |-> "line", line |-> lineNo])
    <3>1. Len(File) \in Nat /\ DOMAIN File = 1..Len(File)
      BY UploadAssumption
    <3>2. lineNo \in DOMAIN File
      BY <1>1, <2>3, <3>1 DEF NoMore
    <3>3. [name |-> "line", line |-> lineNo] \in Lines
      BY <1>1, <3>2 DEF Message, Name
    <3> HIDE DEF Lines
    <3> QED BY <1>1, <2>3, <3>3
  <2> QED BY <1>3, <2>1, <2>2, <2>3
<1> QED BY <1>1, <1>2, <1>4 DEF LinesOfFile

LEMMA NextFlashInv == LinesOfFile /\ FlashInv /\ [Next]_vars => FlashInv'
<1> SUFFICES ASSUME LinesOfFile, FlashInv, [Next]_vars PROVE FlashInv'
  OBVIOUS
<1> USE DEF Elsewhere, nodeVars
<1>1. /\ flash \in [Word -> Int] /\ boot \in BootType
      /\ Intact(flash) /\ (boot.filling => boot.base < AppEnd)
  BY SoundParts DEF FlashInv
<1>2. SUFFICES /\ flash' \in [Word -> Int] /\ boot' \in BootType
               /\ Intact(flash') /\ (boot'.filling => boot'.base < AppEnd)
  BY SoundParts DEF FlashInv
<1>3. CASE UNCHANGED <<flash, boot>>
  BY <1>1, <1>3
<1>4. CASE NodeTakes
  <2>1. PICK msg : msg = Head(toNode)
    OBVIOUS
  <2>2. \/ UNCHANGED <<flash, boot>>
        \/ PinSet(msg.name)
        \/ EraseAll
        \/ msg.name = "line" /\ ProgramLine(File[msg.line])
    <3>1. CASE msg.name \in Pin
      BY <1>4, <2>1, <3>1 DEF NodeTakes
    <3>2. CASE msg.name \notin Pin /\ (mode # "bootloader" \/ msg.name \in SleepMode)
      BY <1>4, <2>1, <3>2 DEF NodeTakes
    <3>3. CASE msg.name \notin Pin /\ ~(mode # "bootloader" \/ msg.name \in SleepMode)
      <4>1. msg \in Message
        BY <1>4, <2>1 DEF NodeTakes, LinesOfFile
      <4>2. msg.name = "erase" \/ msg.name = "line" \/ msg.name = "string"
        BY <3>3, <4>1 DEF Message, Name
      <4> QED BY <1>4, <2>1, <3>3, <4>2 DEF NodeTakes
    <3> QED BY <3>1, <3>2, <3>3
  <2>3. CASE PinSet(msg.name)
    <3>1. flash' = flash /\ (boot' = Fresh \/ boot' = boot)
      BY Zenon, <2>3 DEF PinSet
    <3>2. Fresh \in BootType /\ Fresh.filling = FALSE
      BY DEF Fresh, BootType, Buffer, Empty, Blank
    <3> QED BY <1>1, <3>1, <3>2
  <2>4. CASE EraseAll
    <3>1. boot' \in BootType /\ boot'.filling = boot.filling /\ boot'.base = boot.base
      <4> DEFINE pages == {Page(w) : w \in 0..(AppEnd - 1)}
      <4>1. pages \subseteq Nat
        BY PageBegins, UploadAssumption
      <4>2. boot' = [boot EXCEPT !.erased = boot.erased \cup pages]
        BY <2>4 DEF EraseAll
      <4> HIDE DEF pages
      <4> QED BY <1>1, <4>1, <4>2 DEF BootType
    <3>2. flash' = [w \in Word |-> IF w < AppEnd /\ Page(w) \notin boot.erased
                                   THEN Blank ELSE flash[w]]
      BY <2>4 DEF EraseAll
    <3>3. flash' \in [Word -> Int]
      BY <1>1, <3>2 DEF Blank
    <3>4. ASSUME NEW w \in Word, w >= AppEnd PROVE flash'[w] = Old
      <4>1. ~(w < AppEnd)
        BY <3>4, WordIsNat, UploadAssumption
      <4> QED BY <1>1, <3>2, <3>4, <4>1 DEF Intact
    <3>5. Intact(flash')
      BY <3>4 DEF Intact
    <3> QED BY <1>1, <3>1, <3>3, <3>5
  <2>5. CASE msg.name = "line" /\ ProgramLine(File[msg.line])
    <3>1. msg.line \in DOMAIN File
      BY <1>4, <2>1, <2>5 DEF NodeTakes, LinesOfFile
    <3>2. PICK line \in [first : Nat, words : Nat, last : BOOLEAN] : line = File[msg.line]
      <4> DEFINE Lines == [first : Nat, words : Nat, last : BOOLEAN]
      <4>1. File \in Seq(Lines)
        BY UploadAssumption
      <4> HIDE DEF Lines
      <4>2. PICK i \in DOMAIN File : i = msg.line
        BY <3>1
      <4>3. File[i] \in Lines
        BY <4>1
      <4>4. \E line \in Lines : line = File[msg.line]
        BY <4>2, <4>3
      <4> QED BY <4>4 DEF Lines
    <3>3. Sound(Filled(line))
      BY FilledKeeps DEF FlashInv
    <3>4. Sound(Finished(Filled(line)))
      BY <3>3, WriteKeeps DEF Finished, Sound
    <3>5. PICK t : Sound(t) /\ flash' = t.flash /\ boot' = t.boot
      BY <2>5, <3>2, <3>3, <3>4 DEF ProgramLine
    <3> QED BY <3>5 DEF Sound
  <2> QED BY <1>3, <2>2, <2>3, <2>4, <2>5
<1> QED BY <1>3, <1>4 DEF Next, GUI, SetSleepMode, SetPin, SendErase, PollErase, Polled, SendLine,
           PollLine, LoseCommand, OperatorSends, AnswerComes, vars

(* For every file, whatever addresses it names, in every order its lines   *)
(* may come and however often: the bootloader never programs or erases a   *)
(* word of itself.  It refuses the words beyond the application, so that a *)
(* page it is filling begins in the application, which ends with a page.   *)
THEOREM BootloaderStays == Spec => []BootloaderIntact
<1>1. Spec => [](LinesOfFile /\ FlashInv)
  BY InitFlashInv, NextLinesOfFile, NextFlashInv, PTL DEF Spec
<1>2. LinesOfFile /\ FlashInv => BootloaderIntact
  BY SoundParts DEF FlashInv, Intact, BootloaderIntact
<1> QED BY <1>1, <1>2, PTL

-----------------------------------------------------------------------------
(* Pages by their first words.                                            *)
Base(w) == Page(w) * PageSize

LEMMA Division ==
    ASSUME NEW p \in Nat \ {0}, NEW w \in Nat
    PROVE  /\ (w \div p) * p <= w /\ w < (w \div p) * p + p
           /\ w % p = w - (w \div p) * p
OBVIOUS

LEMMA SameQuotient ==
    ASSUME NEW p \in Nat \ {0}, NEW w \in Nat, NEW v \in Nat
    PROVE  v \div p = w \div p <=> (w \div p) * p <= v /\ v < (w \div p) * p + p
<1> DEFINE a == v \div p
           b == w \div p
<1>1. a \in Nat /\ b \in Nat /\ a * p <= v /\ v < a * p + p /\ b * p <= w /\ w < b * p + p
  BY Quotient, Division
<1> HIDE DEF a, b
<1>2. ASSUME b * p <= v, v < b * p + p PROVE a = b
  <2>1. CASE a < b
    <3>1. (a + 1) * p <= b * p
      BY <1>1, <2>1
    <3>2. (a + 1) * p = a * p + p
      BY <1>1
    <3> QED BY <1>1, <1>2, <3>1, <3>2
  <2>2. CASE b < a
    <3>1. (b + 1) * p <= a * p
      BY <1>1, <2>2
    <3>2. (b + 1) * p = b * p + p
      BY <1>1
    <3> QED BY <1>1, <1>2, <3>1, <3>2
  <2> QED BY <1>1, <2>1, <2>2
<1>3. a = b => b * p <= v /\ v < b * p + p
  BY <1>1
<1> QED BY <1>2, <1>3 DEF a, b

LEMMA Remainder ==
    ASSUME NEW p \in Nat \ {0}, NEW b \in Nat, NEW n \in Nat, b % p = 0, n % p = 0, b < n
    PROVE  b + p <= n
<1> DEFINE x == b \div p
           y == n \div p
<1>1. x \in Nat /\ y \in Nat /\ x * p = b /\ y * p = n
  BY Quotient, Division
<1> HIDE DEF x, y
<1>2. x < y
  BY <1>1
<1>3. (x + 1) * p <= y * p
  BY <1>1, <1>2
<1>4. (x + 1) * p = x * p + p
  BY <1>1
<1> QED BY <1>1, <1>3, <1>4

LEMMA MultipleOf ==
    ASSUME NEW p \in Nat \ {0}, NEW x \in Nat, NEW w \in Nat, w = x * p
    PROVE  w % p = 0
<1> DEFINE y == w \div p
<1>1. y \in Nat /\ y * p <= w /\ w < y * p + p /\ w % p = w - y * p
  BY Quotient, Division
<1> HIDE DEF y
<1>2. y = x
  <2>1. CASE y < x
    <3>1. (y + 1) * p <= x * p
      BY <1>1, <2>1
    <3>2. (y + 1) * p = y * p + p
      BY <1>1
    <3> QED BY <1>1, <3>1, <3>2
  <2>2. CASE x < y
    <3>1. (x + 1) * p <= y * p
      BY <1>1, <2>2
    <3>2. (x + 1) * p = x * p + p
      OBVIOUS
    <3> QED BY <1>1, <3>1, <3>2
  <2> QED BY <1>1, <2>1, <2>2
<1> QED BY <1>1, <1>2

(* A page by its first word: everything else about pages follows without   *)
(* a product.                                                              *)
LEMMA PageFacts ==
    ASSUME NEW w \in Nat
    PROVE  /\ Base(w) \in Nat /\ Base(w) <= w /\ w < Base(w) + PageSize
           /\ w % PageSize = w - Base(w)
           /\ \A v \in Nat : Page(v) = Page(w) <=> Base(w) <= v /\ v < Base(w) + PageSize
           /\ w < AppEnd => Base(w) + PageSize <= AppEnd
           /\ Page(w) \in Nat
<1>1. PageSize \in Nat \ {0} /\ AppEnd \in Nat /\ AppEnd % PageSize = 0
  BY UploadAssumption
<1>2. Base(w) \in Nat /\ Base(w) <= w /\ w < Base(w) + PageSize /\ w % PageSize = w - Base(w)
      /\ Page(w) \in Nat
  BY <1>1, Quotient, Division DEF Base, Page
<1>3. \A v \in Nat : Page(v) = Page(w) <=> Base(w) <= v /\ v < Base(w) + PageSize
  BY <1>1, SameQuotient DEF Base, Page
<1>4. ASSUME w < AppEnd PROVE Base(w) + PageSize <= AppEnd
  <2>1. PICK b \in Nat : b = Base(w)
    BY <1>2
  <2>2. b % PageSize = 0
    BY <1>1, <1>2, <2>1, MultipleOf DEF Base
  <2>3. b < AppEnd
    BY <1>1, <1>2, <1>4, <2>1
  <2>4. b + PageSize <= AppEnd
    BY <1>1, <2>2, <2>3, Remainder
  <2> QED BY <2>1, <2>4
<1> QED BY <1>2, <1>3, <1>4

LEMMA NextPage ==
    ASSUME NEW w \in Nat
    PROVE  /\ (w + 1) % PageSize = 0 <=> w + 1 = Base(w) + PageSize
           /\ (w + 1) % PageSize # 0 => Base(w + 1) = Base(w) /\ Page(w + 1) = Page(w)
           /\ w % PageSize = 0 <=> Base(w) = w
<1>1. PICK u \in Nat : u = w + 1
  OBVIOUS
<1>2. /\ Base(w) \in Nat /\ Base(w) <= w /\ w < Base(w) + PageSize
      /\ w % PageSize = w - Base(w)
      /\ Page(u) = Page(w) <=> Base(w) <= u /\ u < Base(w) + PageSize
  BY PageFacts
<1>3. /\ Base(u) \in Nat /\ Base(u) <= u /\ u < Base(u) + PageSize
      /\ u % PageSize = u - Base(u)
      /\ Page(w) = Page(u) <=> Base(u) <= w /\ w < Base(u) + PageSize
  BY PageFacts
<1>4. Page(u) = Page(w) => Base(u) = Base(w)
  BY DEF Base
<1>5. PageSize \in Nat \ {0}
  BY UploadAssumption
<1>6. /\ u % PageSize = 0 <=> u = Base(w) + PageSize
      /\ u % PageSize # 0 => Base(u) = Base(w) /\ Page(u) = Page(w)
      /\ w % PageSize = 0 <=> Base(w) = w
  BY <1>1, <1>2, <1>3, <1>4, <1>5
<1> QED BY <1>1, <1>6

(* What a word does to the bootloader, part by part.                       *)
BegunFlash(s, w) == IF s.boot.filling \/ Page(w) \in s.boot.erased THEN s.flash
                    ELSE ErasePage(s.flash, Page(w))
BegunBase(s, w) == IF s.boot.filling THEN s.boot.base ELSE Base(w)
BegunErased(s, w) == IF s.boot.filling THEN s.boot.erased ELSE s.boot.erased \cup {Page(w)}
BegunBuffer(s, w) == [s.boot.buffer EXCEPT ![w % PageSize] = w]

LEMMA Begun ==
    ASSUME NEW s, Sound(s), NEW w \in Nat
    PROVE  /\ BeginPage(s, w).flash = BegunFlash(s, w)
           /\ BeginPage(s, w).boot.base = BegunBase(s, w)
           /\ BeginPage(s, w).boot.erased = BegunErased(s, w)
           /\ BeginPage(s, w).boot.buffer = s.boot.buffer
           /\ BeginPage(s, w).ok = s.ok
<1> USE DEF BegunFlash, BegunBase, BegunErased
<1>1. CASE s.boot.filling
  BY <1>1 DEF BeginPage
<1>2. CASE ~s.boot.filling
  <2> DEFINE f == IF NotErased(s.boot, Page(w)) THEN ErasePage(s.flash, Page(w)) ELSE s.flash
             b == [s.boot EXCEPT !.base = Base(w), !.erased = s.boot.erased \cup {Page(w)}]
             t == [s EXCEPT !.flash = f, !.boot = b]
  <2>1. s \in [flash : [Word -> Int], boot : BootType, ok : BOOLEAN] /\ s.boot \in BootType
    BY DEF Sound
  <2>2. BeginPage(s, w) = t
    <3>1. BeginPage(s, w) = [s EXCEPT !.flash = f, !.boot.base = Page(w) * PageSize,
                                      !.boot.erased = @ \cup {Page(w)}]
      BY Zenon, <1>2 DEF BeginPage
    <3> QED BY <3>1 DEF Base
  <2>3. b.base = Base(w) /\ b.erased = s.boot.erased \cup {Page(w)} /\ b.buffer = s.boot.buffer
    BY <2>1 DEF BootType
  <2>4. f = BegunFlash(s, w)
    BY <1>2 DEF NotErased
  <2> HIDE DEF f, b
  <2>5. t.flash = f /\ t.boot = b /\ t.ok = s.ok
    BY <2>1
  <2> QED BY <1>2, <2>2, <2>3, <2>4, <2>5
<1> QED BY <1>1, <1>2

LEMMA WordFilled ==
    ASSUME NEW s, Sound(s), s.ok, NEW w \in Nat, w < AppEnd, NEW t, t = FillWord(s, w)
    PROVE  /\ t.ok /\ t.boot.base = BegunBase(s, w) /\ t.boot.erased = BegunErased(s, w)
           /\ (w + 1) % PageSize # 0 =>
                 t.boot.filling /\ t.boot.buffer = BegunBuffer(s, w) /\ t.flash = BegunFlash(s, w)
           /\ (w + 1) % PageSize = 0 =>
                 /\ ~t.boot.filling /\ t.boot.buffer = Empty
                 /\ t.flash = Programmed(BegunFlash(s, w), BegunBase(s, w), BegunBuffer(s, w))
<1> DEFINE begun == BeginPage(s, w)
           b == [begun.boot EXCEPT !.filling = TRUE, !.buffer[w % PageSize] = w]
           filled == [begun EXCEPT !.boot = b]
<1>1. t = IF (w + 1) % PageSize = 0 THEN WritePage(filled) ELSE filled
  <2>1. ~(~s.ok \/ Outside(w))
    BY UploadAssumption DEF Outside
  <2> QED BY <2>1 DEF FillWord
<1>2. /\ begun \in [flash : [Word -> Int], boot : BootType, ok : BOOLEAN] /\ begun.boot \in BootType
      /\ begun.flash = BegunFlash(s, w) /\ begun.boot.base = BegunBase(s, w)
      /\ begun.boot.erased = BegunErased(s, w) /\ begun.boot.buffer = s.boot.buffer /\ begun.ok
  <2>1. Sound(begun)
    BY BeginKeeps
  <2>2. begun \in [flash : [Word -> Int], boot : BootType, ok : BOOLEAN] /\ begun.boot \in BootType
    BY <2>1 DEF Sound
  <2> HIDE DEF begun
  <2> QED BY <2>2, Begun DEF begun
<1> HIDE DEF begun
<1>3. /\ b.filling = TRUE /\ b.base = BegunBase(s, w) /\ b.erased = BegunErased(s, w)
      /\ b.buffer = BegunBuffer(s, w) /\ b \in [filling : BOOLEAN, base : Nat, buffer : {BegunBuffer(s, w)}, erased : SUBSET Nat]
  <2>1. b = [begun.boot EXCEPT !.filling = TRUE, !.buffer = BegunBuffer(s, w)]
    BY <1>2 DEF BegunBuffer
  <2> HIDE DEF b
  <2> QED BY <1>2, <2>1 DEF BootType
<1> HIDE DEF b
<1>4. filled.flash = BegunFlash(s, w) /\ filled.boot = b /\ filled.ok
      /\ filled \in [flash : {BegunFlash(s, w)}, boot : {b}, ok : {TRUE}]
  BY <1>2
<1> HIDE DEF filled
<1>5. CASE (w + 1) % PageSize # 0
  BY <1>1, <1>3, <1>4, <1>5
<1>6. CASE (w + 1) % PageSize = 0
  <2> DEFINE f2 == Programmed(BegunFlash(s, w), BegunBase(s, w), BegunBuffer(s, w))
             b2 == [b EXCEPT !.filling = FALSE, !.buffer = Empty]
  <2>1. t = [filled EXCEPT !.flash = f2, !.boot = b2]
    BY <1>1, <1>3, <1>4, <1>6 DEF WritePage
  <2>2. b2.filling = FALSE /\ b2.buffer = Empty /\ b2.base = b.base /\ b2.erased = b.erased
    BY <1>3
  <2> HIDE DEF f2, b2
  <2>3. t.flash = f2 /\ t.boot = b2 /\ t.ok
    BY <1>4, <2>1
  <2> QED BY <1>3, <1>6, <2>2, <2>3 DEF f2
<1> QED BY <1>5, <1>6

-----------------------------------------------------------------------------
(* How much of the file the bootloader has, as one invariant of the flash  *)
(* and the bootloader, and that a word more keeps it.                      *)

Start == File[1].first

(* The words of the file from Start up to P are programmed; those of the   *)
(* page P is in wait in the buffer.                                        *)
Covers(P, w) == Start <= w /\ w < P

FlashState(f, b, P) ==
    /\ \A w \in 0..(AppEnd - 1) :
          IF Covers(P, w) THEN /\ Page(w) \in b.erased
                               /\ f[w] = IF b.filling /\ Page(w) = Page(P) THEN Blank ELSE w
          ELSE Page(w) \in b.erased => f[w] = Blank
    /\ b.filling <=> (Start < P /\ P < AppEnd /\ P % PageSize # 0)
    /\ b.filling => b.base = Base(P)
    /\ \A i \in 0..(PageSize - 1) :
          b.buffer[i] = IF b.filling /\ Covers(P, Base(P) + i) THEN Base(P) + i ELSE Blank

(* Once the word P has been put into its page, before that may be complete *)
Begins(f, base, erased, buffer, P) ==
    /\ \A w \in 0..(AppEnd - 1) :
          IF Page(w) = Page(P) THEN f[w] = Blank
          ELSE IF Covers(P, w) THEN Page(w) \in erased /\ f[w] = w
          ELSE Page(w) \in erased => f[w] = Blank
    /\ Page(P) \in erased /\ base = Base(P)
    /\ \A i \in 0..(PageSize - 1) :
          buffer[i] = IF Covers(P + 1, Base(P) + i) THEN Base(P) + i ELSE Blank

LEMMA PutIntoBuffer ==
    ASSUME NEW s, Sound(s), NEW P \in Nat
    PROVE  /\ BegunBuffer(s, P) \in Buffer
           /\ \A i \in 0..(PageSize - 1) :
                 BegunBuffer(s, P)[i] = IF i = P - Base(P) THEN P ELSE s.boot.buffer[i]
<1>1. s.boot.buffer \in Buffer
  BY DEF Sound, BootType
<1>2. PICK k \in 0..(PageSize - 1) : k = P % PageSize /\ k = P - Base(P)
  <2>1. P % PageSize = P - Base(P) /\ P % PageSize \in 0..(PageSize - 1)
    BY PageFacts, PageBegins
  <2> QED BY <2>1
<1>3. BegunBuffer(s, P) = [s.boot.buffer EXCEPT ![k] = P]
  BY <1>2 DEF BegunBuffer
<1>4. PICK b \in Buffer : b = s.boot.buffer
  BY <1>1
<1>5. [b EXCEPT ![k] = P] \in Buffer
      /\ \A i \in 0..(PageSize - 1) : [b EXCEPT ![k] = P][i] = IF i = k THEN P ELSE b[i]
  BY DEF Buffer
<1> QED BY <1>2, <1>3, <1>4, <1>5

LEMMA PutIntoPage ==
    ASSUME NEW s, Sound(s), NEW P \in Nat, Start \in Nat, Start <= P, P < AppEnd,
           FlashState(s.flash, s.boot, P)
    PROVE  Begins(BegunFlash(s, P), BegunBase(s, P), BegunErased(s, P), BegunBuffer(s, P), P)
<1> DEFINE B == Base(P)
<1>0. /\ s.boot.filling \in BOOLEAN /\ s.flash \in [Word -> Int] /\ s.boot.buffer \in Buffer
      /\ PageSize \in Nat \ {0} /\ AppEnd \in Nat /\ FlashEnd \in Nat /\ AppEnd <= FlashEnd
  BY UploadAssumption DEF Sound, BootType
<1>1. /\ B \in Nat /\ B <= P /\ P < B + PageSize /\ P % PageSize = P - B
      /\ \A v \in Nat : Page(v) = Page(P) <=> B <= v /\ v < B + PageSize
      /\ P % PageSize = 0 <=> B = P
  BY PageFacts, NextPage
<1> HIDE DEF B
<1>2. \A w \in 0..(AppEnd - 1) : w \in Word /\ w \in Nat
  BY <1>0 DEF Word
<1>3. CASE s.boot.filling
  <2>1. Start < P /\ P % PageSize # 0 /\ s.boot.base = B
    BY <1>3 DEF FlashState, B
  <2>2. P - 1 \in 0..(AppEnd - 1) /\ Page(P - 1) = Page(P) /\ Covers(P, P - 1)
    BY <1>0, <1>1, <2>1 DEF Covers
  <2>3. Page(P) \in s.boot.erased
    BY <2>2 DEF FlashState
  <2>4. ASSUME NEW w \in 0..(AppEnd - 1)
        PROVE  IF Page(w) = Page(P) THEN s.flash[w] = Blank
               ELSE IF Covers(P, w) THEN Page(w) \in s.boot.erased /\ s.flash[w] = w
               ELSE Page(w) \in s.boot.erased => s.flash[w] = Blank
    BY <1>3, <2>3 DEF FlashState
  <2>5. ASSUME NEW i \in 0..(PageSize - 1)
        PROVE  BegunBuffer(s, P)[i] = IF Covers(P + 1, B + i) THEN B + i ELSE Blank
    <3>1. s.boot.buffer[i] = IF Covers(P, B + i) THEN B + i ELSE Blank
      BY <1>3 DEF FlashState, B
    <3>2. BegunBuffer(s, P)[i] = IF i = P - B THEN P ELSE s.boot.buffer[i]
      BY PutIntoBuffer DEF B
    <3>3. i = P - B => B + i = P
      BY <1>1
    <3>4. i # P - B => (Covers(P + 1, B + i) <=> Covers(P, B + i))
      BY <1>1 DEF Covers
    <3>5. Covers(P + 1, P)
      BY <2>1 DEF Covers
    <3> QED BY <3>1, <3>2, <3>3, <3>4, <3>5
  <2> QED BY <1>3, <2>1, <2>3, <2>4, <2>5 DEF Begins, BegunFlash, BegunBase, BegunErased, B
<1>4. CASE ~s.boot.filling
  <2>1. P = Start \/ P = B
    BY <1>1, <1>4 DEF FlashState
  <2>2. ASSUME NEW w \in 0..(AppEnd - 1), Page(w) = Page(P) PROVE ~Covers(P, w)
    BY <1>1, <1>2, <2>1, <2>2 DEF Covers
  <2>3. ASSUME NEW w \in 0..(AppEnd - 1), Page(w) # Page(P)
        PROVE  /\ BegunFlash(s, P)[w] = s.flash[w]
               /\ Page(w) \in BegunErased(s, P) <=> Page(w) \in s.boot.erased
    BY <1>2, <1>4, <2>3 DEF BegunFlash, BegunErased, ErasePage
  <2>4. ASSUME NEW w \in 0..(AppEnd - 1), Page(w) = Page(P) PROVE BegunFlash(s, P)[w] = Blank
    <3>1. CASE Page(P) \in s.boot.erased
      BY <1>4, <2>2, <2>4, <3>1 DEF BegunFlash, FlashState
    <3>2. CASE Page(P) \notin s.boot.erased
      BY <1>2, <1>4, <2>4, <3>2 DEF BegunFlash, ErasePage
    <3> QED BY <3>1, <3>2
  <2>5. ASSUME NEW w \in 0..(AppEnd - 1), Page(w) # Page(P)
        PROVE  IF Covers(P, w) THEN Page(w) \in s.boot.erased /\ s.flash[w] = w
               ELSE Page(w) \in s.boot.erased => s.flash[w] = Blank
    BY <2>5, <1>4 DEF FlashState
  <2>6. ASSUME NEW i \in 0..(PageSize - 1)
        PROVE  BegunBuffer(s, P)[i] = IF Covers(P + 1, B + i) THEN B + i ELSE Blank
    <3>1. s.boot.buffer[i] = Blank
      BY <1>4 DEF FlashState
    <3>2. BegunBuffer(s, P)[i] = IF i = P - B THEN P ELSE s.boot.buffer[i]
      BY PutIntoBuffer DEF B
    <3> QED BY <1>1, <2>1, <3>1, <3>2 DEF Covers
  <2>7. Page(P) \in BegunErased(s, P) /\ BegunBase(s, P) = B
    BY <1>4 DEF BegunErased, BegunBase, B
  <2> QED BY <2>3, <2>4, <2>5, <2>6, <2>7 DEF Begins, B
<1> QED BY <1>0, <1>3, <1>4

(* A page that is complete is programmed over words that are blank.        *)
LEMMA Programs ==
    ASSUME NEW f \in [Word -> Int], NEW buffer \in Buffer, NEW P \in Nat, P < AppEnd,
           NEW w \in 0..(AppEnd - 1), Page(w) = Page(P), f[w] = Blank
    PROVE  Programmed(f, Base(P), buffer)[w] = buffer[w - Base(P)]
<1>1. w \in Word /\ w \in Nat /\ w % PageSize = w - Base(P) /\ Page(w) = Page(Base(P))
  <2>1. /\ Base(P) \in Nat /\ Base(P) <= P /\ P < Base(P) + PageSize
        /\ \A v \in Nat : Page(v) = Page(P) <=> Base(P) <= v /\ v < Base(P) + PageSize
    BY PageFacts
  <2>2. w \in Nat /\ w % PageSize = w - Base(w)
    BY PageFacts, UploadAssumption
  <2>3. Base(w) = Base(P)
    BY DEF Base
  <2>4. PageSize \in Nat \ {0}
    BY UploadAssumption
  <2>5. w \in Word
    BY UploadAssumption DEF Word
  <2>6. Page(Base(P)) = Page(P)
    BY <2>1, <2>4
  <2> QED BY <2>2, <2>3, <2>5, <2>6
<1>2. Programmed(f, Base(P), buffer)[w] =
        IF Page(w) # Page(Base(P)) \/ buffer[w % PageSize] \in {Blank, f[w]} THEN f[w]
        ELSE IF f[w] = Blank THEN buffer[w % PageSize] ELSE Mixed
  BY <1>1 DEF Programmed
<1> QED BY <1>1, <1>2

LEMMA ProgramsPage ==
    ASSUME NEW f \in [Word -> Int], NEW base \in Nat, NEW buffer, NEW w \in Word, Page(w) # Page(base)
    PROVE  Programmed(f, base, buffer)[w] = f[w]
BY DEF Programmed

LEMMA FillAdvances ==
    ASSUME NEW s, Sound(s), NEW P \in Nat, Start \in Nat, Start <= P, P < AppEnd, s.ok,
           FlashState(s.flash, s.boot, P), NEW t, t = FillWord(s, P)
    PROVE  t.ok /\ FlashState(t.flash, t.boot, P + 1)
<1> DEFINE B == Base(P)
           f == BegunFlash(s, P)
           e == BegunErased(s, P)
           b == BegunBuffer(s, P)
<1>0. /\ PageSize \in Nat \ {0} /\ AppEnd \in Nat /\ FlashEnd \in Nat /\ AppEnd <= FlashEnd
  BY UploadAssumption
<1>1. /\ B \in Nat /\ B <= P /\ P < B + PageSize /\ P % PageSize = P - B
      /\ B + PageSize <= AppEnd
      /\ \A v \in Nat : Page(v) = Page(P) <=> B <= v /\ v < B + PageSize
      /\ (P + 1) % PageSize = 0 <=> P + 1 = B + PageSize
      /\ (P + 1) % PageSize # 0 => Base(P + 1) = B /\ Page(P + 1) = Page(P)
  BY PageFacts, NextPage
<1>2. Begins(f, B, e, b, P) /\ BegunBase(s, P) = B
  BY PutIntoPage DEF Begins
<1>3. /\ t.ok /\ t.boot.base = B /\ t.boot.erased = e
      /\ (P + 1) % PageSize # 0 => t.boot.filling /\ t.boot.buffer = b /\ t.flash = f
      /\ (P + 1) % PageSize = 0 => /\ ~t.boot.filling /\ t.boot.buffer = Empty
                                   /\ t.flash = Programmed(f, B, b)
  BY <1>2, WordFilled
<1>4. f \in [Word -> Int] /\ b \in Buffer
  <2>1. s.flash \in [Word -> Int]
    BY DEF Sound
  <2>2. f \in [Word -> Int]
    BY <2>1 DEF BegunFlash, ErasePage, Blank
  <2> QED BY <2>2, PutIntoBuffer
<1> HIDE DEF f, e, b, B
<1>5. \A w \in 0..(AppEnd - 1) : w \in Word /\ w \in Nat
  BY <1>0 DEF Word
<1>6. ASSUME NEW w \in 0..(AppEnd - 1), Page(w) # Page(P) PROVE Covers(P + 1, w) <=> Covers(P, w)
  BY <1>5, <1>6 DEF Covers
<1>7. CASE (P + 1) % PageSize # 0
  <2>1. t.boot.filling /\ t.boot.buffer = b /\ t.flash = f /\ Base(P + 1) = B /\ Page(P + 1) = Page(P)
    BY <1>1, <1>3, <1>7
  <2>2. Start < P + 1 /\ P + 1 < AppEnd
    BY <1>0, <1>1, <1>7
  <2>3. ASSUME NEW w \in 0..(AppEnd - 1)
        PROVE  IF Covers(P + 1, w)
               THEN Page(w) \in e /\ f[w] = IF Page(w) = Page(P) THEN Blank ELSE w
               ELSE Page(w) \in e => f[w] = Blank
    BY <1>2, <1>6 DEF Begins
  <2>4. ASSUME NEW i \in 0..(PageSize - 1)
        PROVE  b[i] = IF Covers(P + 1, B + i) THEN B + i ELSE Blank
    BY <1>2 DEF Begins, B
  <2> QED BY <1>3, <1>7, <2>1, <2>2, <2>3, <2>4 DEF FlashState
<1>8. CASE (P + 1) % PageSize = 0
  <2>1. ~t.boot.filling /\ t.boot.buffer = Empty /\ t.flash = Programmed(f, B, b)
    BY <1>3, <1>8
  <2>2. ASSUME NEW w \in 0..(AppEnd - 1), Page(w) = Page(P)
        PROVE  t.flash[w] = IF Covers(P + 1, w) THEN w ELSE Blank
    <3>1. f[w] = Blank
      BY <1>2, <2>2 DEF Begins
    <3>2. t.flash[w] = b[w - B]
      BY <1>4, <2>1, <2>2, <3>1, Programs DEF B
    <3>3. w - B \in 0..(PageSize - 1) /\ B + (w - B) = w
      BY <1>0, <1>1, <1>5, <2>2
    <3>4. PICK i \in 0..(PageSize - 1) : i = w - B
      BY <3>3
    <3>5. b[i] = IF Covers(P + 1, B + i) THEN B + i ELSE Blank
      BY <1>2 DEF Begins, B
    <3>6. B + i = w
      BY <3>3, <3>4
    <3> QED BY <3>2, <3>4, <3>5, <3>6
  <2>3. ASSUME NEW w \in 0..(AppEnd - 1), Page(w) # Page(P) PROVE t.flash[w] = f[w]
    <3>1. Page(w) # Page(B)
      BY <1>0, <1>1, <2>3
    <3> QED BY <1>1, <1>4, <1>5, <2>1, <3>1, ProgramsPage
  <2>4. ASSUME NEW w \in 0..(AppEnd - 1)
        PROVE  IF Covers(P + 1, w) THEN Page(w) \in e /\ t.flash[w] = w
               ELSE Page(w) \in e => t.flash[w] = Blank
    <3>1. CASE Page(w) = Page(P)
      BY <1>2, <2>2, <3>1 DEF Begins
    <3>2. CASE Page(w) # Page(P)
      BY <1>2, <1>6, <2>3, <3>2 DEF Begins
    <3> QED BY <3>1, <3>2
  <2>5. \A i \in 0..(PageSize - 1) : t.boot.buffer[i] = Blank
    BY <2>1 DEF Empty
  <2> QED BY <1>3, <1>8, <2>1, <2>4, <2>5 DEF FlashState
<1> QED BY <1>3, <1>7, <1>8

LEMMA FillBeyond ==
    ASSUME NEW s, Sound(s), NEW w \in Nat, AppEnd <= w, NEW t, t = FillWord(s, w)
    PROVE  ~t.ok /\ t.flash = s.flash /\ t.boot = s.boot
<1>1. t = [s EXCEPT !.ok = FALSE]
  BY DEF FillWord, Outside
<1> QED BY <1>1 DEF Sound

LEMMA CoversBeyond ==
    ASSUME NEW f, NEW b, NEW P \in Nat, Start \in Nat, AppEnd <= P, FlashState(f, b, P)
    PROVE  FlashState(f, b, P + 1)
<1>1. AppEnd \in Nat
  BY UploadAssumption
<1>2. b.filling = FALSE \/ ~b.filling
  BY <1>1 DEF FlashState
<1>3. \A w \in 0..(AppEnd - 1) : Covers(P + 1, w) <=> Covers(P, w)
  BY <1>1 DEF Covers
<1>4. ~b.filling
  BY <1>1 DEF FlashState
<1>5. ~(P + 1 < AppEnd)
  BY <1>1
<1>6. \A i \in 0..(PageSize - 1) : b.buffer[i] = Blank
  BY <1>4 DEF FlashState
<1>7. ASSUME NEW w \in 0..(AppEnd - 1)
      PROVE  IF Covers(P + 1, w) THEN Page(w) \in b.erased /\ f[w] = w
             ELSE Page(w) \in b.erased => f[w] = Blank
  BY <1>3, <1>4 DEF FlashState
<1> QED BY <1>4, <1>5, <1>6, <1>7 DEF FlashState

(* A line, word by word.  It fails when the application ends.              *)
Grown(s, P) == Sound(s) /\ FlashState(s.flash, s.boot, P) /\ (s.ok \/ AppEnd <= P)

LEMMA WordGrows ==
    ASSUME NEW s, NEW P \in Nat, Start \in Nat, Start <= P, Grown(s, P)
    PROVE  Grown(FillWord(s, P), P + 1)
<1> DEFINE t == FillWord(s, P)
<1>1. Sound(t)
  BY FillWordKeeps DEF Grown
<1>2. AppEnd \in Nat
  BY UploadAssumption
<1>3. CASE P < AppEnd
  <2>1. t.ok /\ FlashState(t.flash, t.boot, P + 1)
    BY <1>2, <1>3, FillAdvances DEF Grown
  <2> QED BY <1>1, <2>1 DEF Grown
<1>4. CASE AppEnd <= P
  <2>1. t.flash = s.flash /\ t.boot = s.boot
    BY <1>4, FillBeyond DEF Grown
  <2>2. FlashState(s.flash, s.boot, P + 1)
    BY <1>4, CoversBeyond DEF Grown
  <2> QED BY <1>1, <1>2, <1>4, <2>1, <2>2 DEF Grown
<1> QED BY <1>2, <1>3, <1>4

LEMMA WordsGrow ==
    ASSUME NEW s, NEW first \in Nat, Start \in Nat, Start <= first, Grown(s, first),
           NEW n \in Nat, NEW g, Fill(g, s, first, n), NEW m \in 0..n
    PROVE  Grown(g[m], first + m)
<1> DEFINE T == {k \in 0..n : ~Grown(g[k], first + k)}
<1> SUFFICES ASSUME m \in T PROVE FALSE
  OBVIOUS
<1>1. PICK x \in T : \A y \in T : x <= y
  <2>1. T \in SUBSET Nat /\ T # {}
    OBVIOUS
  <2> HIDE DEF T
  <2> QED BY <2>1, LeastElement
<1>2. g[0] = s /\ first + 0 = first
  BY DEF Fill
<1>3. x \in 0..n /\ x # 0 /\ x - 1 \in 0..n
  BY <1>2
<1>4. PICK w \in Nat : w = first + (x - 1) /\ Start <= w /\ w + 1 = first + x /\ w = first + x - 1
  BY <1>3
<1>5. Grown(g[x - 1], w)
  <2>1. x - 1 \notin T
    BY <1>1, <1>3
  <2> QED BY <1>3, <1>4, <2>1
<1>6. g[x] = FillWord(g[x - 1], w)
  BY <1>3, <1>4 DEF Fill
<1>7. Grown(g[x], first + x)
  BY <1>4, <1>5, <1>6, WordGrows
<1> QED BY <1>7

LEMMA FilledIs ==
    ASSUME NEW line \in [first : Nat, words : Nat, last : BOOLEAN]
    PROVE  \E g : /\ Fill(g, [flash |-> flash, boot |-> boot, ok |-> TRUE], line.first, line.words)
                  /\ Filled(line) = g[line.words]
<1> DEFINE s == [flash |-> flash, boot |-> boot, ok |-> TRUE]
           h == CHOOSE g : g = [n \in 0..line.words |->
                                  IF n = 0 THEN s ELSE FillWord(g[n - 1], line.first + n - 1)]
<1>1. Filled(line) = h[line.words]
  BY Zenon DEF Filled
<1>2. \E g : Fill(g, s, line.first, line.words)
  BY FillExists
<1>3. Fill(h, s, line.first, line.words)
  BY Zenon, <1>2 DEF Fill
<1> HIDE DEF h
<1> QED BY <1>1, <1>3

LEMMA LineGrows ==
    ASSUME NEW line \in [first : Nat, words : Nat, last : BOOLEAN], FlashInv,
           Start \in Nat, Start <= line.first, FlashState(flash, boot, line.first)
    PROVE  Grown(Filled(line), line.first + line.words)
<1> DEFINE s == [flash |-> flash, boot |-> boot, ok |-> TRUE]
<1>1. PICK g : Fill(g, s, line.first, line.words) /\ Filled(line) = g[line.words]
  BY FilledIs
<1>2. Grown(s, line.first)
  <2>1. s.flash = flash /\ s.boot = boot /\ s.ok
    OBVIOUS
  <2> HIDE DEF s
  <2>2. Sound(s)
    BY DEF FlashInv, s
  <2> QED BY <2>1, <2>2 DEF Grown
<1> HIDE DEF s
<1>3. line.words \in 0..line.words /\ line.words \in Nat /\ line.first \in Nat
  OBVIOUS
<1> QED BY <1>1, <1>2, <1>3, WordsGrow

-----------------------------------------------------------------------------
(* A line that comes once more, its words F..P-1 of one page.  When the    *)
(* page is complete, it is filled again from there, and programmed with    *)
(* what it holds.                                                          *)
Refilling(s, F, P, w) ==
    /\ \A v \in 0..(AppEnd - 1) :
          IF Covers(P, v) THEN Page(v) \in s.boot.erased /\ s.flash[v] = v
          ELSE Page(v) \in s.boot.erased => s.flash[v] = Blank
    /\ s.boot.filling /\ s.boot.base = Base(F)
    /\ \A i \in 0..(PageSize - 1) :
          s.boot.buffer[i] = IF F <= Base(F) + i /\ Base(F) + i < w THEN Base(F) + i ELSE Blank

Again(s, F, P, w) ==
    /\ Sound(s) /\ (F < AppEnd => s.ok)
    /\ IF F < w /\ w < P /\ P % PageSize = 0 /\ F < AppEnd THEN Refilling(s, F, P, w)
       ELSE FlashState(s.flash, s.boot, P)

LEMMA SameState ==
    ASSUME NEW f, NEW b, NEW c, NEW P, FlashState(f, b, P), b.erased = c.erased,
           b.filling <=> c.filling, b.base = c.base,
           \A i \in 0..(PageSize - 1) : c.buffer[i] = b.buffer[i]
    PROVE  FlashState(f, c, P)
BY DEF FlashState

LEMMA WordAgain ==
    ASSUME NEW F \in Nat, NEW P \in Nat, NEW w \in Nat, Start \in Nat, Start <= F, F <= w, w < P,
           Page(F) = Page(P - 1), NEW s, Again(s, F, P, w)
    PROVE  Again(FillWord(s, w), F, P, w + 1)
<1> DEFINE t == FillWord(s, w)
           B == Base(F)
<1>0. /\ PageSize \in Nat \ {0} /\ AppEnd \in Nat /\ FlashEnd \in Nat /\ AppEnd <= FlashEnd
  BY UploadAssumption
<1>1. Sound(s) /\ Sound(t)
  BY FillWordKeeps DEF Again
<1>2. CASE AppEnd <= F
  <2>1. t.flash = s.flash /\ t.boot = s.boot
    BY <1>0, <1>1, <1>2, FillBeyond
  <2>2. FlashState(s.flash, s.boot, P)
    BY <1>0, <1>2 DEF Again
  <2> QED BY <1>0, <1>1, <1>2, <2>1, <2>2 DEF Again
<1>3. CASE F < AppEnd
  <2>1. /\ B \in Nat /\ B <= F /\ P <= B + PageSize /\ B + PageSize <= AppEnd
        /\ \A v \in Nat : Page(v) = Page(F) <=> B <= v /\ v < B + PageSize
    <3>1. /\ B \in Nat /\ B <= F /\ B + PageSize <= AppEnd
          /\ \A v \in Nat : Page(v) = Page(F) <=> B <= v /\ v < B + PageSize
      BY <1>3, PageFacts
    <3>2. PICK u \in Nat : u = P - 1 /\ P = u + 1
      OBVIOUS
    <3>3. u < B + PageSize
      BY <3>1, <3>2
    <3> HIDE DEF B
    <3> QED BY <1>0, <3>1, <3>2, <3>3
  <2>2. w < AppEnd /\ Page(w) = Page(F) /\ Base(w) = B
    <3>1. Base(F) <= w /\ w < Base(F) + PageSize /\ w < AppEnd
      <4> HIDE DEF B
      <4>1. B <= w /\ w < B + PageSize /\ w < AppEnd
        BY <1>0, <2>1
      <4> QED BY <4>1 DEF B
    <3>2. Page(w) = Page(F)
      BY <2>1, <3>1
    <3> QED BY <3>1, <3>2 DEF Base
  <2>3. /\ (w + 1) % PageSize = 0 <=> w + 1 = B + PageSize
        /\ w % PageSize = w - B
    BY <2>2, PageFacts, NextPage
  <2>4. s.ok
    BY <1>3 DEF Again
  <2>5. /\ t.ok /\ t.boot.base = BegunBase(s, w) /\ t.boot.erased = BegunErased(s, w)
        /\ (w + 1) % PageSize # 0 =>
             t.boot.filling /\ t.boot.buffer = BegunBuffer(s, w) /\ t.flash = BegunFlash(s, w)
        /\ (w + 1) % PageSize = 0 =>
             /\ ~t.boot.filling /\ t.boot.buffer = Empty
             /\ t.flash = Programmed(BegunFlash(s, w), BegunBase(s, w), BegunBuffer(s, w))
    BY <1>1, <2>2, <2>4, WordFilled
  <2>6. /\ BegunBuffer(s, w) \in Buffer
        /\ \A i \in 0..(PageSize - 1) :
              BegunBuffer(s, w)[i] = IF i = w - B THEN w ELSE s.boot.buffer[i]
    BY <1>1, <2>2, PutIntoBuffer
  <2>7. P % PageSize = 0 <=> P = B + PageSize
    <3>1. PICK v \in Nat : v = P - 1 /\ v + 1 = P
      OBVIOUS
    <3>2. Base(v) = B
      BY <3>1 DEF Base
    <3> QED BY <3>1, <3>2, NextPage
  <2> HIDE DEF t, B
  <2>8. CASE P % PageSize # 0
    <3>1. FlashState(s.flash, s.boot, P) /\ (w + 1) % PageSize # 0
      BY <2>1, <2>3, <2>7, <2>8 DEF Again
    <3>2. P < AppEnd /\ Start < P /\ Base(P) = B
      <4>1. P < B + PageSize /\ B <= P
        BY <1>0, <2>1, <2>7, <2>8
      <4>2. Page(P) = Page(F)
        BY <2>1, <4>1
      <4> QED BY <1>0, <2>1, <4>1, <4>2 DEF Base, B
    <3>3. s.boot.filling /\ s.boot.base = B
      BY <2>8, <3>1, <3>2 DEF FlashState
    <3>4. t.flash = s.flash /\ t.boot.base = s.boot.base /\ t.boot.erased = s.boot.erased
      BY <2>5, <3>1, <3>3 DEF BegunFlash, BegunBase, BegunErased
    <3>5. ASSUME NEW i \in 0..(PageSize - 1) PROVE t.boot.buffer[i] = s.boot.buffer[i]
      <4>1. s.boot.buffer[i] = IF Covers(P, B + i) THEN B + i ELSE Blank
        BY <3>1, <3>2, <3>3 DEF FlashState
      <4>2. i = w - B => B + i = w /\ Covers(P, w)
        BY <2>1 DEF Covers
      <4> QED BY <2>5, <2>6, <3>1, <4>1, <4>2
    <3>6. FlashState(t.flash, t.boot, P)
      BY <2>5, <3>1, <3>3, <3>4, <3>5, SameState
    <3> QED BY <1>1, <2>5, <2>8, <3>6 DEF Again, t
  <2>9. CASE P % PageSize = 0
    <3>1. P = B + PageSize
      BY <2>7, <2>9
    <3>2. /\ \A v \in 0..(AppEnd - 1) :
                IF Covers(P, v) THEN Page(v) \in s.boot.erased /\ s.flash[v] = v
                ELSE Page(v) \in s.boot.erased => s.flash[v] = Blank
          /\ s.boot.filling => s.boot.base = B
          /\ \A i \in 0..(PageSize - 1) :
               s.boot.buffer[i] = IF F <= B + i /\ B + i < w THEN B + i ELSE Blank
      <4>1. CASE F < w
        BY <1>3, <2>9, <4>1 DEF Again, Refilling, B
      <4>2. CASE F = w
        <5>1. FlashState(s.flash, s.boot, P) /\ ~s.boot.filling
          BY <2>9, <4>2 DEF Again, FlashState
        <5>2. \A i \in 0..(PageSize - 1) : ~(F <= B + i /\ B + i < w)
          BY <2>1, <4>2
        <5> QED BY <5>1, <5>2 DEF FlashState
      <4> QED BY <4>1, <4>2
    <3>3. Page(w) \in s.boot.erased
      <4>1. w \in 0..(AppEnd - 1) /\ Covers(P, w)
        BY <1>0, <2>2 DEF Covers
      <4> QED BY <3>2, <4>1
    <3>4. BegunFlash(s, w) = s.flash /\ BegunBase(s, w) = B /\ BegunErased(s, w) = s.boot.erased
      BY <2>2, <3>2, <3>3 DEF BegunFlash, BegunBase, BegunErased
    <3>5. ASSUME NEW i \in 0..(PageSize - 1)
          PROVE  BegunBuffer(s, w)[i] = IF F <= B + i /\ B + i < w + 1 THEN B + i ELSE Blank
      <4>1. i = w - B => B + i = w
        BY <2>1
      <4>2. i # w - B => (B + i < w + 1 <=> B + i < w)
        BY <2>1
      <4> QED BY <2>1, <2>6, <3>2, <4>1, <4>2
    <3>6. CASE w + 1 # P
      <4>1. t.boot.filling /\ t.boot.buffer = BegunBuffer(s, w) /\ t.flash = s.flash
        BY <2>3, <2>5, <3>1, <3>4, <3>6
      <4>2. Refilling(t, F, P, w + 1)
        BY <2>5, <3>2, <3>4, <3>5, <4>1 DEF Refilling, B
      <4> QED BY <1>1, <1>3, <2>5, <2>9, <3>6, <4>2 DEF Again, t
    <3>7. CASE w + 1 = P
      <4>1. /\ ~t.boot.filling /\ t.boot.buffer = Empty
            /\ t.flash = Programmed(s.flash, B, BegunBuffer(s, w))
        BY <2>3, <2>5, <3>1, <3>4, <3>7
      <4>2. ASSUME NEW v \in 0..(AppEnd - 1) PROVE t.flash[v] = s.flash[v]
        <5>1. v \in Word /\ v \in Nat
          BY <1>0 DEF Word
        <5>2. t.flash[v] = IF Page(v) # Page(B) \/ BegunBuffer(s, w)[v % PageSize] \in {Blank, s.flash[v]}
                           THEN s.flash[v]
                           ELSE IF s.flash[v] = Blank THEN BegunBuffer(s, w)[v % PageSize] ELSE Mixed
          BY <4>1, <5>1 DEF Programmed
        <5>3. CASE Page(v) = Page(B)
          <6>1. Page(v) = Page(F)
            BY <1>0, <2>1, <5>3
          <6>2. v % PageSize = v - B
            BY <5>1, <6>1, PageFacts DEF Base, B
          <6>3. PICK i \in 0..(PageSize - 1) : i = v - B /\ B + i = v
            BY <1>0, <2>1, <5>1, <6>1
          <6>4. BegunBuffer(s, w)[i] = IF F <= v /\ v < w + 1 THEN v ELSE Blank
            BY <3>5, <6>3
          <6>5. F <= v /\ v < w + 1 => s.flash[v] = v
            <7>1. F <= v /\ v < w + 1 => Covers(P, v)
              BY <3>7, <5>1 DEF Covers
            <7> QED BY <3>2, <7>1
          <6> QED BY <5>2, <6>2, <6>3, <6>4, <6>5
        <5> QED BY <5>2, <5>3
      <4>3. \A i \in 0..(PageSize - 1) : t.boot.buffer[i] = Blank
        BY <4>1 DEF Empty
      <4>4. ASSUME NEW v \in 0..(AppEnd - 1)
            PROVE  IF Covers(P, v) THEN Page(v) \in t.boot.erased /\ t.flash[v] = v
                   ELSE Page(v) \in t.boot.erased => t.flash[v] = Blank
        BY <2>5, <3>2, <3>4, <4>2
      <4>5. FlashState(t.flash, t.boot, P)
        BY <2>9, <4>1, <4>3, <4>4 DEF FlashState
      <4> QED BY <1>1, <2>5, <3>7, <4>5 DEF Again, t
    <3> QED BY <3>6, <3>7
  <2> QED BY <2>8, <2>9
<1> QED BY <1>0, <1>2, <1>3

LEMMA WordsAgain ==
    ASSUME NEW s, NEW F \in Nat, NEW P \in Nat, Start \in Nat, Start <= F, F < P,
           Page(F) = Page(P - 1), Again(s, F, P, F),
           NEW g, Fill(g, s, F, P - F), NEW m \in 0..(P - F)
    PROVE  Again(g[m], F, P, F + m)
<1> DEFINE T == {k \in 0..(P - F) : ~Again(g[k], F, P, F + k)}
<1> SUFFICES ASSUME m \in T PROVE FALSE
  OBVIOUS
<1>1. PICK x \in T : \A y \in T : x <= y
  <2>1. T \in SUBSET Nat /\ T # {}
    OBVIOUS
  <2> HIDE DEF T
  <2> QED BY <2>1, LeastElement
<1>2. g[0] = s /\ F + 0 = F
  BY DEF Fill
<1>3. x \in 0..(P - F) /\ x # 0 /\ x - 1 \in 0..(P - F)
  BY <1>2
<1>4. PICK w \in Nat : w = F + (x - 1) /\ F <= w /\ w < P /\ w + 1 = F + x /\ w = F + x - 1
  BY <1>3
<1>5. Again(g[x - 1], F, P, w)
  <2>1. x - 1 \notin T
    BY <1>1, <1>3
  <2> QED BY <1>3, <1>4, <2>1
<1>6. g[x] = FillWord(g[x - 1], w)
  BY <1>3, <1>4 DEF Fill
<1>7. Again(g[x], F, P, F + x)
  BY <1>4, <1>5, <1>6, WordAgain
<1> QED BY <1>7

(* A line within one page may come as often as it likes.                   *)
LEMMA LineAgain ==
    ASSUME NEW line \in [first : Nat, words : Nat, last : BOOLEAN], FlashInv, ~CrossesPage(line),
           Start \in Nat, Start <= line.first,
           FlashState(flash, boot, line.first + line.words)
    PROVE  FlashState(Filled(line).flash, Filled(line).boot, line.first + line.words)
<1> DEFINE s == [flash |-> flash, boot |-> boot, ok |-> TRUE]
<1>1. PICK g : Fill(g, s, line.first, line.words) /\ Filled(line) = g[line.words]
  BY FilledIs
<1>2. PICK F \in Nat, n \in Nat : F = line.first /\ n = line.words
  OBVIOUS
<1>3. PICK P \in Nat : P = F + n
  OBVIOUS
<1>4. s.flash = flash /\ s.boot = boot /\ s.ok
  OBVIOUS
<1>5. Sound(s)
  BY DEF FlashInv
<1> HIDE DEF s
<1>6. CASE n = 0
  <2>1. g[0] = s
    BY <1>1, <1>2, <1>6 DEF Fill
  <2> QED BY <1>1, <1>2, <1>4, <1>6, <2>1
<1>7. CASE n # 0
  <2>1. F < P /\ n = P - F /\ n \in 0..(P - F) /\ F + n = P
    BY <1>3, <1>7
  <2>2. Page(F) = Page(P - 1)
    BY <1>2, <1>3, <1>7 DEF CrossesPage
  <2>3. Again(s, F, P, F)
    BY <1>2, <1>3, <1>4, <1>5 DEF Again
  <2>4. Again(g[n], F, P, P)
    BY <1>1, <1>2, <2>1, <2>2, <2>3, WordsAgain
  <2>5. FlashState(g[n].flash, g[n].boot, P)
    BY <2>4 DEF Again
  <2> QED BY <1>1, <1>2, <1>3, <2>5
<1> QED BY <1>6, <1>7

-----------------------------------------------------------------------------
(* The lines of the file, one after the other.                             *)
EndOf(k) == IF k = 0 THEN Start ELSE File[k].first + File[k].words

LEMMA FileLine ==
    ASSUME NEW i \in DOMAIN File
    PROVE  /\ File[i] \in [first : Nat, words : Nat, last : BOOLEAN]
           /\ File[i].first \in Nat /\ File[i].words \in Nat
<1> DEFINE Lines == [first : Nat, words : Nat, last : BOOLEAN]
<1>1. File \in Seq(Lines)
  BY UploadAssumption
<1>2. File[i] \in Lines
  <2> HIDE DEF Lines
  <2> QED BY <1>1
<1> QED BY <1>2

LEMMA FileSize ==
    ASSUME FileInOrder
    PROVE  /\ Len(File) \in Nat \ {0} /\ DOMAIN File = 1..Len(File)
           /\ File[Len(File)].words = 0 /\ Start \in Nat
<1> DEFINE Lines == [first : Nat, words : Nat, last : BOOLEAN]
<1>1. File \in Seq(Lines) /\ File # <<>>
  BY UploadAssumption DEF FileInOrder
<1>2. Len(File) \in Nat \ {0} /\ DOMAIN File = 1..Len(File)
  <2> HIDE DEF Lines
  <2> QED BY <1>1
<1>3. 1 \in DOMAIN File
  BY <1>2
<1> QED BY <1>2, <1>3, FileLine DEF Start, FileInOrder

LEMMA LineCount ==
    ASSUME FileInOrder, NEW k \in 0..Len(File)
    PROVE  /\ k \in Nat /\ (k < Len(File) \/ k = Len(File))
           /\ k # 0 => k \in DOMAIN File
           /\ k < Len(File) => k # Len(File) /\ k + 1 \in DOMAIN File /\ k + 1 \in 0..Len(File)
           /\ k + 1 < Len(File) => k + 1 # Len(File)
           /\ \A l \in DOMAIN File : l \in Nat \ {0} /\ l <= Len(File) /\ l \in 0..Len(File)
<1>1. PICK n \in Nat \ {0} : n = Len(File) /\ DOMAIN File = 1..n
  BY FileSize
<1>2. /\ k \in Nat /\ (k < n \/ k = n)
      /\ k # 0 => k \in 1..n
      /\ k < n => k # n /\ k + 1 \in 1..n /\ k + 1 \in 0..n
      /\ k + 1 < n => k + 1 # n
      /\ \A l \in 1..n : l \in Nat \ {0} /\ l <= n /\ l \in 0..n
  BY <1>1
<1> QED BY Zenon, <1>1, <1>2

LEMMA EndType ==
    ASSUME FileInOrder, NEW k \in 0..Len(File)
    PROVE  EndOf(k) \in Nat
<1>1. k # 0 => k \in DOMAIN File
  BY FileSize
<1> QED BY <1>1, FileSize, FileLine DEF EndOf

LEMMA NextLine ==
    ASSUME FileInOrder, NEW k \in Nat, k + 1 < Len(File)
    PROVE  /\ File[k + 1].first = EndOf(k) /\ EndOf(k + 1) = EndOf(k) + File[k + 1].words
           /\ EndOf(k) \in Nat /\ File[k + 1].words \in Nat
<1>1. k \in 0..Len(File) /\ k + 1 \in DOMAIN File /\ (k # 0 => k \in DOMAIN File)
  BY FileSize
<1>2. File[k + 1].first = EndOf(k)
  BY <1>1 DEF EndOf, Start, FileInOrder
<1>3. EndOf(k + 1) = File[k + 1].first + File[k + 1].words
  BY DEF EndOf
<1> QED BY <1>1, <1>2, <1>3, EndType, FileLine

LEMMA Ascends ==
    ASSUME FileInOrder, NEW j \in Nat, j < Len(File), NEW i \in 0..j
    PROVE  EndOf(i) <= EndOf(j)
<1> DEFINE T == {x \in i..j : ~(EndOf(i) <= EndOf(x))}
<1> SUFFICES ASSUME j \in T PROVE FALSE
  OBVIOUS
<1>0. Len(File) \in Nat
  BY FileSize
<1>1. PICK x \in T : \A y \in T : x <= y
  <2>1. T \in SUBSET Nat /\ T # {}
    OBVIOUS
  <2> HIDE DEF T
  <2> QED BY <2>1, LeastElement
<1>2. EndOf(i) \in Nat
  <2>1. i \in 0..Len(File)
    BY <1>0
  <2> QED BY <2>1, EndType
<1>3. x # i
  BY <1>2
<1>4. PICK k \in Nat : k + 1 = x /\ k + 1 < Len(File) /\ k \in i..j /\ k < x
  <2>1. x - 1 \in Nat /\ x - 1 + 1 = x /\ x < Len(File) /\ x - 1 \in i..j /\ x - 1 < x
    BY <1>0, <1>3
  <2> QED BY <2>1
<1>5. /\ EndOf(k + 1) = EndOf(k) + File[k + 1].words
      /\ File[k + 1].words \in Nat /\ EndOf(k) \in Nat
  BY <1>4, NextLine
<1>6. EndOf(i) <= EndOf(k)
  <2>1. k \notin T
    BY <1>1, <1>4
  <2> QED BY <1>4, <2>1
<1>7. EndOf(i) <= EndOf(k + 1)
  BY <1>2, <1>5, <1>6
<1>8. EndOf(k + 1) = EndOf(x)
  BY <1>4
<1>9. EndOf(i) <= EndOf(x)
  BY <1>7, <1>8
<1> QED BY <1>9

LEMMA WrittenCovered ==
    ASSUME FileInOrder, NEW w \in Written
    PROVE  w \in Nat /\ Covers(EndOf(Len(File) - 1), w)
<1>1. PICK i \in DOMAIN File : w \in File[i].first..(File[i].first + File[i].words - 1)
  BY DEF Written
<1>2. /\ Len(File) \in Nat \ {0} /\ DOMAIN File = 1..Len(File) /\ File[Len(File)].words = 0
      /\ File[i].first \in Nat /\ File[i].words \in Nat
  BY FileSize, FileLine
<1>3. i # Len(File)
  <2>1. File[i].words # 0
    BY <1>1, <1>2
  <2> QED BY <1>2, <2>1
<1>4. PICK j \in Nat : j = Len(File) - 1 /\ j < Len(File)
  <2>1. Len(File) - 1 \in Nat /\ Len(File) - 1 < Len(File)
    BY <1>2
  <2> QED BY <2>1
<1>5. PICK k \in Nat : k + 1 = i /\ k + 1 < Len(File) /\ k + 1 \in 0..j /\ k \in 0..j /\ 0 \in 0..k
                       /\ k < Len(File) /\ 0 \in 0..j
  <2>1. /\ i - 1 \in Nat /\ i - 1 + 1 = i /\ i < Len(File) /\ i \in 0..j /\ i - 1 \in 0..j
        /\ 0 \in 0..(i - 1) /\ i - 1 < Len(File) /\ 0 \in 0..j
    BY <1>2, <1>3, <1>4
  <2> QED BY <2>1
<1>6. /\ File[i].first = EndOf(k) /\ EndOf(i) = EndOf(k) + File[i].words
      /\ EndOf(k) \in Nat
  BY <1>5, NextLine
<1>7. EndOf(i) <= EndOf(j)
  BY <1>4, <1>5, Ascends
<1>8. EndOf(0) <= EndOf(k)
  BY <1>5, Ascends
<1>9. EndOf(0) = Start /\ Start \in Nat
  BY FileSize DEF EndOf
<1>10. EndOf(j) \in Nat
  <2>1. j \in 0..Len(File)
    BY <1>2, <1>4
  <2> QED BY <2>1, EndType
<1>11. Start <= w /\ w < EndOf(j) /\ w \in Nat
  BY <1>1, <1>2, <1>6, <1>7, <1>8, <1>9, <1>10
<1> QED BY <1>4, <1>11 DEF Covers

Complete(f) == \A w \in Written : w < AppEnd => f[w] = w

(* The last line: what is in the buffer is programmed.                     *)
LEMMA Completes ==
    ASSUME FileInOrder, NEW s, Sound(s), FlashState(s.flash, s.boot, EndOf(Len(File) - 1))
    PROVE  Complete(Finished(s).flash)
<1>1. PICK P \in Nat : P = EndOf(Len(File) - 1)
  <2>1. Len(File) - 1 \in 0..Len(File)
    BY FileSize
  <2> QED BY <2>1, EndType
<1>2. SUFFICES ASSUME NEW w \in Nat, w < AppEnd, Covers(P, w) PROVE Finished(s).flash[w] = w
  BY <1>1, WrittenCovered DEF Complete
<1>3. w \in 0..(AppEnd - 1) /\ w \in Word
  BY <1>2, UploadAssumption DEF Word
<1>4. /\ s.flash \in [Word -> Int] /\ s.boot \in BootType /\ s.boot.buffer \in Buffer
      /\ s \in [flash : [Word -> Int], boot : BootType, ok : BOOLEAN]
  BY DEF Sound, BootType
<1>5. FlashState(s.flash, s.boot, P)
  BY <1>1
<1>6. s.flash[w] = IF s.boot.filling /\ Page(w) = Page(P) THEN Blank ELSE w
  BY <1>2, <1>3, <1>5 DEF FlashState
<1>7. CASE ~s.boot.filling
  BY <1>6, <1>7 DEF Finished
<1>8. CASE s.boot.filling
  <2>1. s.boot.base = Base(P) /\ P < AppEnd
    BY <1>5, <1>8 DEF FlashState
  <2> DEFINE f == Programmed(s.flash, s.boot.base, s.boot.buffer)
             b == [s.boot EXCEPT !.filling = FALSE, !.buffer = Empty]
             t == [s EXCEPT !.flash = f, !.boot = b]
  <2>2. Finished(s) = t
    BY <1>8 DEF Finished, WritePage
  <2> HIDE DEF f, b
  <2>3. t.flash = f
    BY <1>4
  <2> HIDE DEF t
  <2>4. /\ Base(P) \in Nat /\ Base(P) <= P /\ P < Base(P) + PageSize
        /\ \A v \in Nat : Page(v) = Page(P) <=> Base(P) <= v /\ v < Base(P) + PageSize
    BY PageFacts
  <2>5. CASE Page(w) = Page(P)
    <3>1. s.flash[w] = Blank
      BY <1>6, <1>8, <2>5
    <3>2. f[w] = s.boot.buffer[w - Base(P)]
      BY <1>3, <1>4, <2>1, <2>5, <3>1, Programs DEF f
    <3>3. PICK i \in 0..(PageSize - 1) : i = w - Base(P) /\ Base(P) + i = w
      BY <2>4, <2>5, UploadAssumption
    <3>4. s.boot.buffer[i] = w
      BY <1>2, <1>5, <1>8, <3>3 DEF FlashState
    <3> QED BY <2>2, <2>3, <3>2, <3>3, <3>4
  <2>6. CASE Page(w) # Page(P)
    <3>1. Page(Base(P)) = Page(P)
      <4>1. PageSize \in Nat \ {0}
        BY UploadAssumption
      <4>2. Base(P) <= Base(P) /\ Base(P) < Base(P) + PageSize
        BY <2>4, <4>1
      <4> QED BY <2>4, <4>2
    <3>2. f[w] = s.flash[w]
      BY <1>3, <1>4, <2>1, <2>4, <2>6, <3>1, ProgramsPage DEF f
    <3> QED BY <1>6, <2>2, <2>3, <2>6, <3>2
  <2> QED BY <2>5, <2>6
<1> QED BY <1>4, <1>7, <1>8 DEF BootType

LEMMA FreshState ==
    ASSUME NEW f, Start \in Nat
    PROVE  FlashState(f, Fresh, Start)
<1>1. Fresh.filling = FALSE /\ Fresh.buffer = Empty /\ Fresh.erased = {}
  BY DEF Fresh
<1>2. \A w \in Int : ~Covers(Start, w)
  BY DEF Covers
<1>3. \A i \in 0..(PageSize - 1) : Empty[i] = Blank
  BY DEF Empty
<1> QED BY <1>1, <1>2, <1>3 DEF FlashState

LEMMA EraseState ==
    ASSUME FlashInv, Start \in Nat, FlashState(flash, boot, Start), EraseAll
    PROVE  FlashState(flash', boot', Start)
<1>1. boot \in BootType
  BY SoundParts DEF FlashInv
<1>2. /\ boot'.filling = boot.filling /\ boot'.base = boot.base /\ boot'.buffer = boot.buffer
      /\ boot.erased \subseteq boot'.erased
  <2> DEFINE pages == {Page(w) : w \in 0..(AppEnd - 1)}
  <2>1. boot' = [boot EXCEPT !.erased = boot.erased \cup pages]
    BY DEF EraseAll
  <2> HIDE DEF pages
  <2> QED BY <1>1, <2>1 DEF BootType
<1>3. \A w \in Int : ~Covers(Start, w)
  BY DEF Covers
<1>4. ~boot.filling
  BY DEF FlashState
<1>5. ASSUME NEW w \in 0..(AppEnd - 1) PROVE flash'[w] = Blank
  <2>1. w \in Word /\ w < AppEnd
    BY UploadAssumption DEF Word
  <2>2. flash'[w] = IF Page(w) \notin boot.erased THEN Blank ELSE flash[w]
    BY <2>1 DEF EraseAll
  <2>3. Page(w) \in boot.erased => flash[w] = Blank
    BY <1>3 DEF FlashState
  <2> QED BY <2>2, <2>3
<1>6. \A i \in 0..(PageSize - 1) : boot'.buffer[i] = Blank
  BY <1>2, <1>4 DEF FlashState
<1> QED BY <1>2, <1>3, <1>4, <1>5, <1>6 DEF FlashState

-----------------------------------------------------------------------------
(* The order in which messages are sent and taken.                         *)

LineMsg == {msg \in Message : msg.name = "line" => msg.line \in DOMAIN File}

(* The turn of a message: the commands go out in an order, and a line has  *)
(* its place in it by its number.  A string of the operator has none.      *)
Turn(msg) ==
    IF msg.name \in Pin
    THEN IF Rank(msg.name) <= 3 THEN Rank(msg.name) ELSE Len(File) + 1 + Rank(msg.name)
    ELSE IF msg.name = "erase" THEN 4 ELSE IF msg.name = "line" THEN 4 + msg.line ELSE 0

(* The last turn the GUI has had.                                          *)
Early == {"SM pin", "P1 low", "P2 low", "P2 high", "erase", "erasing"}

Sent == IF pc \in {"SM pin", "P1 low"} THEN 0
        ELSE IF pc = "P2 low" THEN 1
        ELSE IF pc = "P2 high" THEN 2
        ELSE IF pc = "erase" THEN 3
        ELSE IF pc = "erasing" THEN 4
        ELSE IF pc \in {"line", "polling"} THEN 4 + IF NoMore THEN Len(File) ELSE lineNo
        ELSE IF pc = "P1 high" THEN 4 + Len(File)
        ELSE IF pc = "P2 down" THEN 5 + Len(File)
        ELSE IF pc = "P2 up" THEN 6 + Len(File)
        ELSE 7 + Len(File)

SentLines == IF pc \in Early THEN 0 ELSE IF pc = "line" THEN lineNo - 1
             ELSE IF pc = "polling" THEN lineNo ELSE Len(File)

LEMMA TurnOf ==
    ASSUME NEW msg \in LineMsg, Len(File) \in Nat, DOMAIN File = 1..Len(File)
    PROVE  \/ msg.name \in Pin /\ msg.name \notin {"erase", "line"} /\ Rank(msg.name) \in 1..6
              /\ Turn(msg) = IF Rank(msg.name) <= 3 THEN Rank(msg.name) ELSE Len(File) + 1 + Rank(msg.name)
           \/ msg.name = "erase" /\ msg.name \notin Pin /\ Turn(msg) = 4
           \/ msg.name = "line" /\ msg.name \notin Pin /\ msg.line \in 1..Len(File) /\ Turn(msg) = 4 + msg.line
           \/ msg.name \in SleepMode \cup {"string"} /\ msg.name \notin Pin /\ Turn(msg) = 0
<1>1. PICK name : name = msg.name
  OBVIOUS
<1>2. name \in Name /\ (name = "line" => msg.line \in 1..Len(File))
  BY <1>1 DEF LineMsg, Message
<1>3. name \in Pin => name \notin {"erase", "line"} \cup SleepMode
  BY Zenon, NamesOfPins DEF SleepMode
<1>4. CASE name \in Pin
  BY <1>1, <1>3, <1>4, NamesOfPins DEF Turn
<1>5. CASE name \notin Pin /\ name = "erase"
  BY <1>1, <1>5 DEF Turn
<1>6. CASE name \notin Pin /\ name = "line"
  BY <1>1, <1>2, <1>6 DEF Turn
<1>7. CASE name \notin Pin /\ name # "erase" /\ name # "line"
  <2>1. name \in SleepMode \cup {"string"}
    BY <1>2, <1>7 DEF Name
  <2> QED BY <1>1, <1>7, <2>1 DEF Turn
<1> QED BY <1>4, <1>5, <1>6, <1>7

LEMMA SentAt ==
    /\ pc \in {"SM pin", "P1 low"} => Sent = 0
    /\ pc = "P2 low" => Sent = 1
    /\ pc = "P2 high" => Sent = 2
    /\ pc = "erase" => Sent = 3
    /\ pc = "erasing" => Sent = 4
    /\ pc \in {"line", "polling"} => Sent = 4 + IF NoMore THEN Len(File) ELSE lineNo
    /\ pc = "P1 high" => Sent = 4 + Len(File)
    /\ pc = "P2 down" => Sent = 5 + Len(File)
    /\ pc = "P2 up" => Sent = 6 + Len(File)
    /\ pc \in {"SM back", "done"} => Sent = 7 + Len(File)
    /\ pc \in Early => SentLines = 0
    /\ pc = "line" => SentLines = lineNo - 1
    /\ pc = "polling" => SentLines = lineNo
    /\ pc \in {"P1 high", "P2 down", "P2 up", "SM back", "done"} => SentLines = Len(File)
BY Zenon DEF Sent, SentLines, Early

LEMMA SentAtNext ==
    /\ pc' \in {"SM pin", "P1 low"} => Sent' = 0
    /\ pc' = "P2 low" => Sent' = 1
    /\ pc' = "P2 high" => Sent' = 2
    /\ pc' = "erase" => Sent' = 3
    /\ pc' = "erasing" => Sent' = 4
    /\ pc' \in {"line", "polling"} => Sent' = 4 + IF NoMore' THEN Len(File) ELSE lineNo'
    /\ pc' = "P1 high" => Sent' = 4 + Len(File)
    /\ pc' = "P2 down" => Sent' = 5 + Len(File)
    /\ pc' = "P2 up" => Sent' = 6 + Len(File)
    /\ pc' \in {"SM back", "done"} => Sent' = 7 + Len(File)
    /\ pc' \in Early => SentLines' = 0
    /\ pc' = "line" => SentLines' = lineNo' - 1
    /\ pc' = "polling" => SentLines' = lineNo'
    /\ pc' \in {"P1 high", "P2 down", "P2 up", "SM back", "done"} => SentLines' = Len(File)
BY Zenon DEF Sent, SentLines, Early

(* A queue in order: two messages with a turn are of different turns, or   *)
(* the same line twice.                                                    *)
Before(a, b) == a < b \/ (a = b /\ 4 < a)

Ordered(q) == \A i, j \in 1..Len(q) :
                 i < j /\ Turn(q[i]) # 0 /\ Turn(q[j]) # 0 => Before(Turn(q[i]), Turn(q[j]))

Within(q, n) == \A i \in 1..Len(q) : Turn(q[i]) <= n

Ahead(q, n) == \A i \in 1..Len(q) : Turn(q[i]) # 0 => n <= Turn(q[i])

(* The lines after k up to n are on their way.                             *)
Coming(q, k, n) == \A l \in DOMAIN File : k < l /\ l <= n => \E i \in 1..Len(q) : Turn(q[i]) = 4 + l

LEMMA TurnType ==
    ASSUME NEW msg \in LineMsg, Len(File) \in Nat, DOMAIN File = 1..Len(File)
    PROVE  Turn(msg) \in 0..(Len(File) + 7)
<1>1. PICK n : n = Rank(msg.name)
  OBVIOUS
<1> QED BY <1>1, TurnOf

LEMMA TurnsType ==
    ASSUME NEW q \in Seq(LineMsg), Len(File) \in Nat, DOMAIN File = 1..Len(File),
           NEW i \in 1..Len(q)
    PROVE  Turn(q[i]) \in Nat
<1>1. q[i] \in LineMsg
  OBVIOUS
<1>2. Turn(q[i]) \in 0..(Len(File) + 7)
  BY <1>1, TurnType
<1> QED BY <1>2

(* What is sent next is of the next turn, or the last line again.          *)
LEMMA OrderSent ==
    ASSUME NEW q \in Seq(LineMsg), NEW msg \in LineMsg, Len(File) \in Nat, DOMAIN File = 1..Len(File),
           NEW n \in Nat, Ordered(q), Within(q, n),
           Turn(msg) = 0 \/ Turn(msg) = n + 1 \/ (Turn(msg) = n /\ 4 < n), NEW r, r = Append(q, msg)
    PROVE  /\ Ordered(r)
           /\ \A m \in Nat : n <= m /\ Turn(msg) <= m => Within(r, m)
           /\ \A m \in Nat : Ahead(q, m) /\ (Turn(msg) = 0 \/ m <= Turn(msg)) => Ahead(r, m)
           /\ \A k, m \in Nat : Coming(q, k, m) => Coming(r, k, m)
           /\ \A k, m \in Nat : Coming(q, k, m) /\ Turn(msg) = 4 + (m + 1) => Coming(r, k, m + 1)
<1>1. /\ Len(q) \in Nat /\ Len(r) = Len(q) + 1 /\ r[Len(q) + 1] = msg
      /\ \A i \in 1..Len(q) : r[i] = q[i] /\ i \in 1..Len(r)
      /\ \A i \in 1..Len(r) : i # Len(q) + 1 => i \in 1..Len(q)
      /\ Len(q) + 1 \in 1..Len(r)
  OBVIOUS
<1>2. Turn(msg) \in Nat /\ \A i \in 1..Len(q) : Turn(q[i]) \in Nat /\ Turn(q[i]) <= n
  BY TurnType, TurnsType DEF Within
<1>3. ASSUME NEW i \in 1..Len(r), NEW j \in 1..Len(r), i < j, Turn(r[i]) # 0, Turn(r[j]) # 0
      PROVE  Before(Turn(r[i]), Turn(r[j]))
  <2>1. i \in 1..Len(q) /\ r[i] = q[i]
    BY <1>1, <1>3
  <2>2. CASE j = Len(q) + 1
    <3>1. Turn(q[i]) \in Nat /\ Turn(q[i]) <= n /\ r[j] = msg /\ Turn(msg) # 0
      BY <1>1, <1>2, <1>3, <2>1, <2>2
    <3> QED BY <1>2, <2>1, <3>1 DEF Before
  <2>3. CASE j # Len(q) + 1
    <3>1. j \in 1..Len(q) /\ r[j] = q[j]
      BY <1>1, <2>3
    <3> QED BY <1>3, <2>1, <3>1 DEF Ordered
  <2> QED BY <2>2, <2>3
<1>4. ASSUME NEW m \in Nat, n <= m, Turn(msg) <= m, NEW i \in 1..Len(r) PROVE Turn(r[i]) <= m
  <2>1. i # Len(q) + 1 => Turn(r[i]) \in Nat /\ Turn(r[i]) <= n
    BY <1>1, <1>2
  <2> QED BY <1>1, <1>4, <2>1
<1>5. ASSUME NEW m \in Nat, Ahead(q, m), Turn(msg) = 0 \/ m <= Turn(msg),
             NEW i \in 1..Len(r), Turn(r[i]) # 0
      PROVE  m <= Turn(r[i])
  BY <1>1, <1>5 DEF Ahead
<1>6. ASSUME NEW k \in Nat, NEW m \in Nat, Coming(q, k, m), NEW l \in DOMAIN File, k < l, l <= m
      PROVE  \E i \in 1..Len(r) : Turn(r[i]) = 4 + l
  <2>1. PICK i \in 1..Len(q) : Turn(q[i]) = 4 + l
    BY <1>6 DEF Coming
  <2> QED BY <1>1, <2>1
<1>7. ASSUME NEW k \in Nat, NEW m \in Nat, Coming(q, k, m), Turn(msg) = 4 + (m + 1),
             NEW l \in DOMAIN File, k < l, l <= m + 1
      PROVE  \E i \in 1..Len(r) : Turn(r[i]) = 4 + l
  <2>1. CASE l = m + 1
    BY <1>1, <1>7, <2>1
  <2>2. CASE l # m + 1
    <3>1. l <= m
      BY <1>7, <2>2
    <3> QED BY <1>6, <1>7, <3>1
  <2> QED BY <2>1, <2>2
<1>8. Ordered(r)
  BY <1>3 DEF Ordered
<1>9. \A m \in Nat : n <= m /\ Turn(msg) <= m => Within(r, m)
  BY <1>4 DEF Within
<1>10. \A m \in Nat : Ahead(q, m) /\ (Turn(msg) = 0 \/ m <= Turn(msg)) => Ahead(r, m)
  BY <1>5 DEF Ahead
<1>11. \A k, m \in Nat : Coming(q, k, m) => Coming(r, k, m)
  BY <1>6 DEF Coming
<1>12. \A k, m \in Nat : Coming(q, k, m) /\ Turn(msg) = 4 + (m + 1) => Coming(r, k, m + 1)
  BY <1>7 DEF Coming
<1> QED BY <1>8, <1>9, <1>10, <1>11, <1>12

(* What is left when the first has been taken.                             *)
LEMMA OrderTaken ==
    ASSUME NEW q \in Seq(LineMsg), q # <<>>, Len(File) \in Nat, DOMAIN File = 1..Len(File),
           Ordered(q), NEW r, r = Tail(q), NEW msg, msg = Head(q)
    PROVE  /\ msg \in LineMsg /\ r \in Seq(LineMsg) /\ Ordered(r)
           /\ \A m \in Nat : Within(q, m) => Within(r, m) /\ Turn(msg) <= m
           /\ \A m \in Nat : Ahead(q, m) => Ahead(r, m) /\ (Turn(msg) # 0 => m <= Turn(msg))
           /\ \A i \in 1..Len(r) : Turn(msg) # 0 /\ Turn(r[i]) # 0 => Before(Turn(msg), Turn(r[i]))
           /\ \A k, m \in Nat : Coming(q, k, m) /\ Turn(msg) \notin (4 + k + 1)..(4 + Len(File)) => Coming(r, k, m)
           /\ \A k, m \in Nat : Coming(q, k, m) /\ Turn(msg) = 4 + (k + 1) => Coming(r, k + 1, m)
           /\ \A l \in DOMAIN File : (\E i \in 1..Len(q) : Turn(q[i]) = 4 + l) =>
                 Turn(msg) = 0 \/ Before(Turn(msg), 4 + l) \/ Turn(msg) = 4 + l
<1>1. /\ Len(q) \in Nat /\ Len(r) = Len(q) - 1 /\ q[1] = msg /\ 1 \in 1..Len(q)
      /\ \A i \in 1..Len(r) : r[i] = q[i + 1] /\ i + 1 \in 1..Len(q) /\ 1 < i + 1
      /\ \A i \in 1..Len(q) : i # 1 => i - 1 \in 1..Len(r) /\ r[i - 1] = q[i] /\ 1 < i
      /\ msg \in LineMsg /\ r \in Seq(LineMsg)
  OBVIOUS
<1>2. Turn(msg) \in Nat
  BY <1>1, TurnType
<1>3. ASSUME NEW i \in 1..Len(r), NEW j \in 1..Len(r), i < j, Turn(r[i]) # 0, Turn(r[j]) # 0
      PROVE  Before(Turn(r[i]), Turn(r[j]))
  <2>1. i + 1 < j + 1
    BY <1>1, <1>3
  <2> QED BY <1>1, <1>3, <2>1 DEF Ordered
<1>4. \A m \in Nat : Within(q, m) => Within(r, m) /\ Turn(msg) <= m
  BY <1>1 DEF Within
<1>5. \A m \in Nat : Ahead(q, m) => Ahead(r, m) /\ (Turn(msg) # 0 => m <= Turn(msg))
  BY <1>1 DEF Ahead
<1>6. \A i \in 1..Len(r) : Turn(msg) # 0 /\ Turn(r[i]) # 0 => Before(Turn(msg), Turn(r[i]))
  BY <1>1 DEF Ordered
<1>7. ASSUME NEW l \in DOMAIN File, NEW j \in 1..Len(q), Turn(q[j]) = 4 + l, Turn(msg) # 4 + l
      PROVE  \E i \in 1..Len(r) : Turn(r[i]) = 4 + l
  <2>1. j # 1
    BY <1>1, <1>7
  <2>2. j - 1 \in 1..Len(r) /\ r[j - 1] = q[j]
    BY <1>1, <2>1
  <2> QED BY <1>7, <2>2
<1>8. ASSUME NEW k \in Nat, NEW m \in Nat, Coming(q, k, m),
             Turn(msg) \notin (4 + k + 1)..(4 + Len(File))
      PROVE  Coming(r, k, m)
  <2>1. \A l \in DOMAIN File : k < l => Turn(msg) # 4 + l
    BY <1>8
  <2> QED BY <1>7, <1>8, <2>1 DEF Coming
<1>9. ASSUME NEW k \in Nat, NEW m \in Nat, Coming(q, k, m), Turn(msg) = 4 + (k + 1)
      PROVE  Coming(r, k + 1, m)
  <2>1. \A l \in DOMAIN File : k + 1 < l => Turn(msg) # 4 + l /\ k < l
    BY <1>9
  <2> QED BY <1>7, <1>9, <2>1 DEF Coming
<1>10. ASSUME NEW l \in DOMAIN File, NEW i \in 1..Len(q), Turn(q[i]) = 4 + l
       PROVE  Turn(msg) = 0 \/ Before(Turn(msg), 4 + l) \/ Turn(msg) = 4 + l
  <2>1. CASE i = 1
    BY <1>1, <1>10, <2>1
  <2>2. CASE i # 1
    <3>1. 1 < i /\ Turn(q[i]) # 0
      BY <1>1, <1>10, <2>2
    <3> QED BY <1>1, <1>10, <3>1 DEF Ordered
  <2> QED BY <2>1, <2>2
<1>11. Ordered(r)
  BY <1>3 DEF Ordered
<1> QED BY <1>1, <1>4, <1>5, <1>6, <1>8, <1>9, <1>10, <1>11

-----------------------------------------------------------------------------
(* The invariant of an upload: the lines up to k have been taken, the rest *)
(* of what was sent is on its way.                                         *)

QueueInv ==
    /\ Ordered(toNode) /\ Within(toNode, Sent)
    /\ mode = "bootloader" => 3 <= Sent /\ Ahead(toNode, 4)
    /\ \A l \in DOMAIN File : taken[l] >= 1 => 4 + l <= Sent /\ Ahead(toNode, 4 + l)

NoLines(q) == \A i \in 1..Len(q) : Turn(q[i]) \notin 5..(4 + Len(File))

Excused == \/ failPoint # 0 \/ "line" \in commandLost
           \/ \E i \in DOMAIN File : CrossesPage(File[i]) /\ taken[i] > 1

Progress(k) ==
    /\ \A l \in DOMAIN File : taken[l] >= 1 <=> l <= k
    /\ Coming(toNode, k, SentLines)
    /\ k < Len(File) => /\ pc \notin Early => mode = "bootloader"
                        /\ FlashState(flash, boot, EndOf(k))
    /\ k = Len(File) => /\ Complete(flash)
                        /\ mode = "bootloader" => 5 + Len(File) <= Sent /\ NoLines(toNode)

MoreTypes == /\ answers \in Nat /\ dataResponseRcvd \in BOOLEAN
             /\ taken \in [DOMAIN File -> 0..2]
             /\ pc \in Early => lineNo = 1

Types == UploadTypes /\ LinesOfFile /\ FlashInv /\ MoreTypes

(* What a step of the GUI does to the queue and to the lines sent.         *)
GuiMove ==
    /\ UNCHANGED <<answers, nodeVars, taken>>
    /\ dataResponseRcvd' \in BOOLEAN /\ (dataResponseRcvd' => dataResponseRcvd)
    /\ Sent' \in Nat /\ Sent <= Sent'
    /\ \/ toNode' = toNode
       \/ \E msg \in LineMsg :
             /\ toNode' = Append(toNode, msg) /\ Turn(msg) <= Sent'
             /\ Turn(msg) = 0 \/ Turn(msg) = Sent + 1 \/ (Turn(msg) = Sent /\ 4 < Sent)
    /\ \/ Excused' \/ SentLines' <= SentLines
       \/ /\ SentLines' = SentLines + 1
          /\ \E msg \in LineMsg : toNode' = Append(toNode, msg) /\ Turn(msg) = 4 + SentLines'
    /\ pc' \in Early => pc \in Early /\ lineNo' = lineNo
    /\ Excused' \/ pc' \in Early \/ pc \notin Early \/ dataResponseRcvd

LEMMA SentType ==
    ASSUME Types, FileInOrder
    PROVE  /\ Len(File) \in Nat \ {0} /\ DOMAIN File = 1..Len(File)
           /\ lineNo \in Nat \ {0} /\ toNode \in Seq(LineMsg)
           /\ Sent \in Nat /\ SentLines \in Nat
<1>1. Len(File) \in Nat \ {0} /\ DOMAIN File = 1..Len(File)
  BY FileSize
<1>2. lineNo \in Nat \ {0} /\ toNode \in Seq(LineMsg)
  BY DEF Types, LinesOfFile, LineMsg
<1>3. PICK p : p = pc
  OBVIOUS
<1>4. \/ Sent = 0 \/ Sent = 1 \/ Sent = 2 \/ Sent = 3 \/ Sent = 4
      \/ Sent = 4 + IF NoMore THEN Len(File) ELSE lineNo
      \/ Sent = 4 + Len(File) \/ Sent = 5 + Len(File) \/ Sent = 6 + Len(File) \/ Sent = 7 + Len(File)
  BY Zenon DEF Sent
<1>5. SentLines = 0 \/ SentLines = lineNo - 1 \/ SentLines = lineNo \/ SentLines = Len(File)
  BY Zenon DEF SentLines
<1> QED BY <1>1, <1>2, <1>4, <1>5

LEMMA SendsMsg ==
    ASSUME Types, FileInOrder, NEW name \in Name, NEW line \in Nat, NEW ok \in BOOLEAN,
           name = "line" => line \in DOMAIN File, Sends(name, line, ok)
    PROVE  \E msg \in LineMsg : /\ msg.name = name /\ msg.line = line
                                /\ toNode' = toNode \/ toNode' = Append(toNode, msg)
                                /\ toNode' # Append(toNode, msg) => name \in commandLost'
<1> DEFINE msg == [name |-> name, line |-> line]
<1>1. msg \in LineMsg /\ msg.name = name /\ msg.line = line
  BY DEF LineMsg, Message
<1>2. toNode' = Append(toNode, msg) \/ (toNode' = toNode /\ name \in commandLost')
  BY DEF Sends
<1> QED BY <1>1, <1>2

LEMMA SetSleepModeMoves == Types /\ FileInOrder /\ SetSleepMode => GuiMove
<1> SUFFICES ASSUME Types, FileInOrder, SetSleepMode PROVE GuiMove
  OBVIOUS
<1>1. PICK ok \in BOOLEAN : /\ Sends(pc, 0, ok) /\ Fails(ok \/ pc = "SM back", 3)
                            /\ pc' = IF ok /\ pc = "SM pin" THEN "P1 low" ELSE "done"
  BY DEF SetSleepMode
<1>2. pc \in SleepMode /\ UNCHANGED <<lineNo, answers, dataResponseRcvd, nodeVars, taken>>
  BY DEF SetSleepMode, Elsewhere
<1>3. PICK name \in Name : name = pc /\ name # "line" /\ name \notin Pin /\ name # "erase"
  <2>1. pc \in Name /\ pc # "line" /\ pc \notin Pin /\ pc # "erase"
    BY Zenon, <1>2, NamesOfPins DEF SleepMode, Name
  <2> QED BY <2>1
<1>4. PICK msg \in LineMsg : msg.name = name /\ (toNode' = toNode \/ toNode' = Append(toNode, msg))
  BY <1>1, <1>3, SendsMsg
<1>5. Turn(msg) = 0
  BY <1>3, <1>4 DEF Turn
<1>6. \/ Sent = 0 /\ Sent' = 0 /\ SentLines = 0 /\ SentLines' = 0 /\ pc \in Early /\ pc' \in Early
      \/ Sent = 0 /\ Sent' = 7 + Len(File) /\ SentLines = 0 /\ pc' \notin Early /\ failPoint' = 3
      \/ /\ Sent = 7 + Len(File) /\ Sent' = 7 + Len(File) /\ SentLines = Len(File)
         /\ SentLines' = Len(File) /\ pc \notin Early /\ pc' \notin Early
  <2>1. CASE pc = "SM pin" /\ ok
    <3>1. pc' = "P1 low"
      BY Zenon, <1>1, <2>1
    <3> QED BY Zenon, <2>1, <3>1, SentAt, SentAtNext DEF Early
  <2>2. CASE pc = "SM pin" /\ ~ok
    <3>1. pc' = "done" /\ failPoint' = 3
      BY Zenon, <1>1, <2>2 DEF Fails
    <3> QED BY Zenon, <2>2, <3>1, SentAt, SentAtNext DEF Early
  <2>3. CASE pc = "SM back"
    <3>1. pc' = "done"
      BY Zenon, <1>1, <2>3
    <3> QED BY Zenon, <2>3, <3>1, SentAt, SentAtNext DEF Early
  <2> QED BY <1>2, <2>1, <2>2, <2>3 DEF SleepMode
<1>7. Len(File) \in Nat
  BY SentType
<1>8. dataResponseRcvd' \in BOOLEAN
  BY <1>2 DEF Types, MoreTypes
<1>9. failPoint' = 3 => Excused'
  BY DEF Excused
<1> QED BY <1>2, <1>4, <1>5, <1>6, <1>7, <1>8, <1>9 DEF GuiMove

LEMMA SetPinMoves == Types /\ FileInOrder /\ SetPin => GuiMove
<1> SUFFICES ASSUME Types, FileInOrder, SetPin PROVE GuiMove
  OBVIOUS
<1>1. PICK ok \in BOOLEAN : Sends(pc, 0, ok)
  BY DEF SetPin
<1>2. pc \in Pin /\ pc' = After[pc] /\ UNCHANGED <<lineNo, answers, dataResponseRcvd, nodeVars, taken>>
  BY DEF SetPin, Elsewhere
<1>3. PICK name \in Name : name = pc /\ name # "line" /\ name \in Pin
  <2>1. pc \in Name /\ pc # "line"
    BY Zenon, <1>2, NamesOfPins DEF Name
  <2> QED BY <1>2, <2>1
<1>4. PICK msg \in LineMsg : msg.name = name /\ (toNode' = toNode \/ toNode' = Append(toNode, msg))
  BY <1>1, <1>3, SendsMsg
<1>5. Turn(msg) = IF Rank(name) <= 3 THEN Rank(name) ELSE Len(File) + 1 + Rank(name)
  BY <1>3, <1>4 DEF Turn
<1>6. \/ Rank(pc) = 1 /\ Sent = 0 /\ Sent' = 1 /\ SentLines = 0 /\ SentLines' = 0 /\ pc \in Early /\ pc' \in Early
      \/ Rank(pc) = 2 /\ Sent = 1 /\ Sent' = 2 /\ SentLines = 0 /\ SentLines' = 0 /\ pc \in Early /\ pc' \in Early
      \/ Rank(pc) = 3 /\ Sent = 2 /\ Sent' = 3 /\ SentLines = 0 /\ SentLines' = 0 /\ pc \in Early /\ pc' \in Early
      \/ /\ pc \notin Early /\ pc' \notin Early /\ SentLines = Len(File) /\ SentLines' = Len(File)
         /\ \/ Rank(pc) = 4 /\ Sent = 4 + Len(File) /\ Sent' = 5 + Len(File)
            \/ Rank(pc) = 5 /\ Sent = 5 + Len(File) /\ Sent' = 6 + Len(File)
            \/ Rank(pc) = 6 /\ Sent = 6 + Len(File) /\ Sent' = 7 + Len(File)
  <2>1. CASE pc = "P1 low"
    <3>1. pc' = "P2 low" /\ Rank(pc) = 1
      BY <1>2, <2>1 DEF After, Rank
    <3> QED BY Zenon, <2>1, <3>1, SentAt, SentAtNext DEF Early
  <2>2. CASE pc = "P2 low"
    <3>1. pc' = "P2 high" /\ Rank(pc) = 2
      BY <1>2, <2>2 DEF After, Rank
    <3> QED BY Zenon, <2>2, <3>1, SentAt, SentAtNext DEF Early
  <2>3. CASE pc = "P2 high"
    <3>1. pc' = "erase" /\ Rank(pc) = 3
      BY <1>2, <2>3 DEF After, Rank
    <3> QED BY Zenon, <2>3, <3>1, SentAt, SentAtNext DEF Early
  <2>4. CASE pc = "P1 high"
    <3>1. pc' = "P2 down" /\ Rank(pc) = 4
      BY <1>2, <2>4 DEF After, Rank
    <3> QED BY Zenon, <2>4, <3>1, SentAt, SentAtNext DEF Early
  <2>5. CASE pc = "P2 down"
    <3>1. pc' = "P2 up" /\ Rank(pc) = 5
      BY <1>2, <2>5 DEF After, Rank
    <3> QED BY Zenon, <2>5, <3>1, SentAt, SentAtNext DEF Early
  <2>6. CASE pc = "P2 up"
    <3>1. pc' \in {"SM back", "done"} /\ Rank(pc) = 6
      BY <1>2, <2>6 DEF After, Rank
    <3> QED BY Zenon, <2>6, <3>1, SentAt, SentAtNext DEF Early
  <2> QED BY <1>2, <2>1, <2>2, <2>3, <2>4, <2>5, <2>6, NamesOfPins
<1>7. Len(File) \in Nat
  BY SentType
<1>8. dataResponseRcvd' \in BOOLEAN
  BY <1>2 DEF Types, MoreTypes
<1>9. /\ Sent' \in Nat /\ Sent <= Sent' /\ Turn(msg) = Sent + 1 /\ Turn(msg) <= Sent'
      /\ SentLines' <= SentLines
  BY <1>3, <1>5, <1>6, <1>7
<1> QED BY <1>2, <1>4, <1>6, <1>8, <1>9 DEF GuiMove

-----------------------------------------------------------------------------
(* The GUI's steps.                                                        *)
LEMMA SendEraseMoves == Types /\ FileInOrder /\ SendErase => GuiMove
<1> SUFFICES ASSUME Types, FileInOrder, SendErase PROVE GuiMove
  OBVIOUS
<1>1. PICK ok \in BOOLEAN : Sends("erase", 0, ok)
  BY DEF SendErase
<1>2. /\ pc = "erase" /\ pc' = "erasing"
      /\ UNCHANGED <<lineNo, answers, dataResponseRcvd, nodeVars, taken>>
  BY DEF SendErase, Elsewhere
<1>3. PICK name \in Name : name = "erase" /\ name # "line" /\ name \notin Pin
  <2>1. "erase" \in Name /\ "erase" # "line" /\ "erase" \notin Pin
    BY Zenon, NamesOfPins DEF Name
  <2> QED BY <2>1
<1>4. PICK msg \in LineMsg : msg.name = name /\ (toNode' = toNode \/ toNode' = Append(toNode, msg))
  BY <1>1, <1>3, SendsMsg
<1>5. Turn(msg) = 4
  BY <1>3, <1>4 DEF Turn
<1>6. Sent = 3 /\ Sent' = 4 /\ SentLines = 0 /\ SentLines' = 0 /\ pc \in Early /\ pc' \in Early
  BY Zenon, <1>2, SentAt, SentAtNext DEF Early
<1>7. dataResponseRcvd' \in BOOLEAN
  BY <1>2 DEF Types, MoreTypes
<1> QED BY <1>2, <1>4, <1>5, <1>6, <1>7 DEF GuiMove

LEMMA PollEraseMoves == Types /\ FileInOrder /\ PollErase => GuiMove
<1> SUFFICES ASSUME Types, FileInOrder, PollErase PROVE GuiMove
  OBVIOUS
<1> USE DEF Elsewhere, Polled, nodeVars
<1>1. pc = "erasing" /\ UNCHANGED <<lineNo, toNode, answers, nodeVars, taken>>
  BY DEF PollErase
<1>2. dataResponseRcvd \in BOOLEAN /\ dataResponseRcvd' \in BOOLEAN /\ (dataResponseRcvd' => dataResponseRcvd)
  BY DEF PollErase, Types, MoreTypes
<1>3. Sent = 4 /\ SentLines = 0 /\ pc \in Early
  BY Zenon, <1>1, SentAt DEF Early
<1>4. lineNo = 1 /\ Len(File) \in Nat \ {0} /\ lineNo' = 1
  BY <1>1, <1>3, SentType DEF Types, MoreTypes
<1>5. CASE pc' = "erasing"
  <2>1. Sent' = 4 /\ SentLines' = 0 /\ pc' \in Early
    BY Zenon, <1>5, SentAtNext DEF Early
  <2> QED BY <1>1, <1>2, <1>3, <2>1 DEF GuiMove
<1>6. CASE pc' = "line" /\ dataResponseRcvd
  <2>1. /\ Sent' = 4 + IF NoMore' THEN Len(File) ELSE lineNo'
        /\ SentLines' = lineNo' - 1 /\ pc' \notin Early
    BY Zenon, <1>6, SentAtNext DEF Early
  <2>2. Sent' \in Nat /\ Sent <= Sent' /\ SentLines' <= SentLines
    BY <1>3, <1>4, <2>1
  <2> QED BY <1>1, <1>2, <1>6, <2>1, <2>2 DEF GuiMove
<1>7. CASE pc' = "P1 high" /\ failPoint' # 0
  <2>1. Sent' = 4 + Len(File) /\ pc' \notin Early
    BY Zenon, <1>7, SentAtNext DEF Early
  <2>2. Sent' \in Nat /\ Sent <= Sent'
    BY <1>3, <1>4, <2>1
  <2>3. Excused'
    BY <1>7 DEF Excused
  <2> QED BY <1>1, <1>2, <2>1, <2>2, <2>3 DEF GuiMove
<1>8. \/ pc' = "erasing" \/ (pc' = "line" /\ dataResponseRcvd)
      \/ (pc' = "P1 high" /\ failPoint' # 0)
  <2>1. CASE count > ErasePolls
    <3>1. failPoint' = 5 /\ pc' = "P1 high"
      BY Zenon, <2>1 DEF PollErase
    <3>2. failPoint' = 5
      BY <3>1
    <3>3. failPoint' # 0
      BY <3>2
    <3> QED BY Zenon, <3>1, <3>3
  <2>2. CASE ~(count > ErasePolls)
    <3>1. pc' = IF ~dataResponseRcvd THEN pc ELSE IF failPoint = 0 THEN "line" ELSE "P1 high"
      BY <2>2 DEF PollErase
    <3>2. failPoint' = failPoint
      BY <2>2 DEF PollErase
    <3> QED BY Zenon, <1>1, <3>1, <3>2
  <2> QED BY <2>1, <2>2
<1> QED BY <1>5, <1>6, <1>7, <1>8

LEMMA SendLineMoves == Types /\ FileInOrder /\ SendLine => GuiMove
<1> SUFFICES ASSUME Types, FileInOrder, SendLine PROVE GuiMove
  OBVIOUS
<1> USE DEF Elsewhere, nodeVars
<1>1. pc = "line" /\ UNCHANGED <<lineNo, answers, dataResponseRcvd, nodeVars, taken>>
  BY DEF SendLine
<1>2. dataResponseRcvd' \in BOOLEAN
  BY <1>1 DEF Types, MoreTypes
<1>3. Sent = 4 + (IF NoMore THEN Len(File) ELSE lineNo) /\ SentLines = lineNo - 1 /\ pc \notin Early
  BY Zenon, <1>1, SentAt DEF Early
<1>4. lineNo \in Nat \ {0} /\ Len(File) \in Nat \ {0} /\ DOMAIN File = 1..Len(File) /\ lineNo' = lineNo
  BY <1>1, SentType
<1>5. CASE NoMore
  <2>1. pc' = "P1 high" /\ toNode' = toNode
    BY <1>5 DEF SendLine
  <2>2. Sent' = 4 + Len(File) /\ SentLines' = Len(File) /\ pc' \notin Early
    BY Zenon, <2>1, SentAtNext DEF Early
  <2>3. Sent' \in Nat /\ Sent <= Sent' /\ SentLines' <= SentLines
    BY <1>3, <1>4, <1>5, <2>2 DEF NoMore
  <2> QED BY <1>1, <1>2, <1>3, <2>1, <2>2, <2>3 DEF GuiMove
<1>6. CASE ~NoMore
  <2>1. PICK ok \in BOOLEAN : /\ Sends("line", lineNo, ok) /\ Fails(ok, 6)
                              /\ pc' = IF ok THEN "polling" ELSE "P1 high"
    BY <1>6 DEF SendLine
  <2>2. lineNo \in DOMAIN File /\ lineNo \in Nat
    BY <1>4, <1>6 DEF NoMore
  <2>3. PICK name \in Name : name = "line" /\ name \notin Pin /\ name # "erase"
    <3>1. "line" \in Name /\ "line" \notin Pin /\ "line" # "erase"
      BY Zenon, NamesOfPins DEF Name
    <3> QED BY <3>1
  <2>4. PICK msg \in LineMsg : /\ msg.name = name /\ msg.line = lineNo
                               /\ toNode' = toNode \/ toNode' = Append(toNode, msg)
                               /\ toNode' # Append(toNode, msg) => name \in commandLost'
    <3>1. Sends(name, lineNo, ok)
      BY <2>1, <2>3
    <3> QED BY <2>2, <3>1, SendsMsg
  <2>5. Turn(msg) = 4 + lineNo
    BY <2>3, <2>4 DEF Turn
  <2>6. Turn(msg) = Sent /\ 4 < Sent /\ Sent = 4 + lineNo /\ lineNo <= Len(File)
    <3>1. Sent = 4 + lineNo
      BY <1>3, <1>6
    <3> QED BY <1>4, <2>2, <2>5, <3>1
  <2>7. pc' \notin Early
    BY Zenon, <2>1 DEF Early
  <2>8. CASE ok
    <3>1. pc' = "polling"
      BY <2>1, <2>8
    <3>2. Sent' = 4 + (IF NoMore' THEN Len(File) ELSE lineNo') /\ SentLines' = lineNo'
      BY Zenon, <3>1, SentAtNext
    <3>3. NoMore' <=> NoMore
      BY <1>4 DEF NoMore
    <3>4. Sent' = Sent /\ Sent \in Nat /\ SentLines' = SentLines + 1 /\ Turn(msg) = 4 + SentLines'
      BY <1>3, <1>4, <1>6, <2>6, <3>2, <3>3
    <3>5. toNode' = Append(toNode, msg) \/ Excused'
      BY <2>3, <2>4 DEF Excused
    <3>6. Sent' \in Nat /\ Sent <= Sent' /\ Turn(msg) <= Sent'
      BY <2>6, <3>4
    <3>7. \/ toNode' = toNode
          \/ \E m \in LineMsg :
                /\ toNode' = Append(toNode, m) /\ Turn(m) <= Sent'
                /\ Turn(m) = 0 \/ Turn(m) = Sent + 1 \/ (Turn(m) = Sent /\ 4 < Sent)
      BY <2>4, <2>6, <3>6
    <3>8. \/ Excused'
          \/ /\ SentLines' = SentLines + 1
             /\ \E m \in LineMsg : toNode' = Append(toNode, m) /\ Turn(m) = 4 + SentLines'
      BY <3>4, <3>5
    <3> QED BY <1>1, <1>2, <1>3, <2>7, <3>6, <3>7, <3>8 DEF GuiMove
  <2>9. CASE ~ok
    <3>1. pc' = "P1 high" /\ failPoint' = 6
      BY <2>1, <2>9 DEF Fails
    <3>2. Sent' = 4 + Len(File)
      BY Zenon, <3>1, SentAtNext
    <3>3. Excused'
      <4>1. failPoint' = 6
        BY <3>1
      <4>2. failPoint' # 0
        BY <4>1
      <4> QED BY Zenon, <4>2 DEF Excused
    <3>4. Sent' \in Nat /\ Sent <= Sent' /\ Turn(msg) <= Sent'
      BY <1>4, <2>6, <3>2
    <3>5. \/ toNode' = toNode
          \/ \E m \in LineMsg :
                /\ toNode' = Append(toNode, m) /\ Turn(m) <= Sent'
                /\ Turn(m) = 0 \/ Turn(m) = Sent + 1 \/ (Turn(m) = Sent /\ 4 < Sent)
      BY <2>4, <2>6, <3>4
    <3> QED BY <1>1, <1>2, <1>3, <2>7, <3>3, <3>4, <3>5 DEF GuiMove
  <2> QED BY <2>8, <2>9
<1> QED BY <1>5, <1>6

LEMMA PollLineMoves == Types /\ FileInOrder /\ PollLine => GuiMove
<1> SUFFICES ASSUME Types, FileInOrder, PollLine PROVE GuiMove
  OBVIOUS
<1> USE DEF Polled, nodeVars
<1>1. pc = "polling" /\ UNCHANGED <<toNode, answers, nodeVars, taken>>
  BY DEF PollLine
<1>2. dataResponseRcvd' \in BOOLEAN /\ (dataResponseRcvd' => dataResponseRcvd)
  BY DEF PollLine
<1>3. Sent = 4 + (IF NoMore THEN Len(File) ELSE lineNo) /\ SentLines = lineNo /\ pc \notin Early
  BY Zenon, <1>1, SentAt DEF Early
<1>4. lineNo \in Nat \ {0} /\ Len(File) \in Nat \ {0}
  BY SentType
<1>5. \/ pc' = "polling" /\ lineNo' = lineNo
      \/ pc' = "line" /\ (lineNo' = lineNo \/ lineNo' = lineNo + 1)
      \/ pc' = "P1 high" /\ failPoint' = 7
  BY <1>1 DEF PollLine
<1>6. NoMore' <=> lineNo' > Len(File)
  BY DEF NoMore
<1>7. CASE pc' = "polling" /\ lineNo' = lineNo
  <2>1. Sent' = 4 + (IF NoMore' THEN Len(File) ELSE lineNo') /\ SentLines' = lineNo' /\ pc' \notin Early
    BY Zenon, <1>7, SentAtNext DEF Early
  <2>2. Sent' \in Nat /\ Sent <= Sent' /\ SentLines' <= SentLines
    BY <1>3, <1>4, <1>6, <1>7, <2>1 DEF NoMore
  <2> QED BY <1>1, <1>2, <1>3, <2>1, <2>2 DEF GuiMove
<1>8. CASE pc' = "line" /\ (lineNo' = lineNo \/ lineNo' = lineNo + 1)
  <2>1. Sent' = 4 + (IF NoMore' THEN Len(File) ELSE lineNo') /\ SentLines' = lineNo' - 1 /\ pc' \notin Early
    BY Zenon, <1>8, SentAtNext DEF Early
  <2>2. Sent' \in Nat /\ Sent <= Sent' /\ SentLines' <= SentLines
    BY <1>3, <1>4, <1>6, <1>8, <2>1 DEF NoMore
  <2> QED BY <1>1, <1>2, <1>3, <2>1, <2>2 DEF GuiMove
<1>9. CASE pc' = "P1 high" /\ failPoint' = 7
  <2>1. Sent' = 4 + Len(File) /\ pc' \notin Early
    BY Zenon, <1>9, SentAtNext DEF Early
  <2>2. Sent' \in Nat /\ Sent <= Sent'
    <3>1. CASE NoMore
      BY <1>3, <1>4, <2>1, <3>1
    <3>2. CASE ~NoMore
      <4>1. Sent = 4 + lineNo /\ lineNo <= Len(File)
        BY <1>3, <1>4, <3>2 DEF NoMore
      <4> QED BY <1>4, <2>1, <4>1
    <3> QED BY <3>1, <3>2
  <2>3. Excused'
    <3>1. failPoint' = 7
      BY <1>9
    <3>2. failPoint' # 0
      BY <3>1
    <3> QED BY Zenon, <3>2 DEF Excused
  <2> QED BY <1>1, <1>2, <1>3, <2>1, <2>2, <2>3 DEF GuiMove
<1> QED BY <1>5, <1>7, <1>8, <1>9

LEMMA GuiMoves == Types /\ FileInOrder /\ GUI => GuiMove
BY SetSleepModeMoves, SetPinMoves, SendEraseMoves, PollEraseMoves, SendLineMoves, PollLineMoves DEF GUI

UploadInv ==
    /\ QueueInv
    /\ pc \in Early /\ (answers > 0 \/ dataResponseRcvd) => mode = "bootloader"
    /\ mode = "held" => boot = Fresh
    /\ Excused \/ \E k \in 0..Len(File) : Progress(k)

LEMMA SentBounds ==
    ASSUME Types, FileInOrder
    PROVE  /\ pc \in Early => Sent <= 4 /\ SentLines = 0
           /\ pc \notin Early => Sent <= 5 + SentLines \/ SentLines = Len(File)
           /\ 5 + Len(File) <= Sent => SentLines = Len(File)
           /\ Sent >= 3 \/ Sent \in 0..2
<1>1. Len(File) \in Nat \ {0} /\ lineNo \in Nat \ {0} /\ Sent \in Nat /\ SentLines \in Nat
  BY SentType
<1>2. \/ pc \in Early /\ SentLines = 0 /\ (Sent = 0 \/ Sent = 1 \/ Sent = 2 \/ Sent = 3 \/ Sent = 4)
      \/ pc \notin Early /\ SentLines = lineNo - 1 /\ Sent = 4 + IF NoMore THEN Len(File) ELSE lineNo
      \/ pc \notin Early /\ SentLines = lineNo /\ Sent = 4 + IF NoMore THEN Len(File) ELSE lineNo
      \/ pc \notin Early /\ SentLines = Len(File)
  <2>1. \/ pc \in {"SM pin", "P1 low"} \/ pc = "P2 low" \/ pc = "P2 high" \/ pc = "erase"
        \/ pc = "erasing" \/ pc = "line" \/ pc = "polling"
        \/ pc \in {"P1 high", "P2 down", "P2 up", "SM back", "done"}
    BY Zenon, NamesOfPins DEF Types, UploadTypes, GuiPC, SleepMode
  <2> QED BY Zenon, <2>1, SentAt DEF Early
<1>3. CASE pc \in Early
  <2>1. SentLines = 0 /\ (Sent = 0 \/ Sent = 1 \/ Sent = 2 \/ Sent = 3 \/ Sent = 4)
    BY Zenon, <1>2, <1>3, SentAt DEF Early
  <2> QED BY <1>1, <1>3, <2>1
<1>4. CASE pc \notin Early
  <2>1. \/ SentLines = lineNo - 1 /\ Sent = 4 + IF NoMore THEN Len(File) ELSE lineNo
        \/ SentLines = lineNo /\ Sent = 4 + IF NoMore THEN Len(File) ELSE lineNo
        \/ SentLines = Len(File)
    BY <1>2, <1>4
  <2>2. CASE NoMore
    <3>1. lineNo > Len(File)
      BY <2>2 DEF NoMore
    <3> QED BY <1>1, <1>4, <2>1, <2>2, <3>1
  <2>3. CASE ~NoMore
    <3>1. lineNo <= Len(File)
      BY <1>1, <2>3 DEF NoMore
    <3> QED BY <1>1, <1>4, <2>1, <2>3, <3>1
  <2> QED BY <2>2, <2>3
<1> QED BY <1>3, <1>4

(* An upload that is excused remains so.                                   *)
LEMMA ExcusedStays ==
    ASSUME Types, FileInOrder, Excused, [Next]_vars
    PROVE  Excused'
<1>1. failPoint # 0 => failPoint' # 0
  <2> SUFFICES ASSUME failPoint # 0, failPoint' # failPoint PROVE failPoint' # 0
    BY Zenon
  <2>1. \/ failPoint' = 3 \/ failPoint' = 4 \/ failPoint' = 5 \/ failPoint' = 6 \/ failPoint' = 7
        \/ SetPin /\ failPoint' = Failure(pc)
    BY DEF Next, GUI, SetSleepMode, SetPin, SendErase, PollErase, SendLine, PollLine, Fails,
           NodeTakes, LoseCommand, OperatorSends, AnswerComes, vars, guiVars
  <2>2. CASE SetPin /\ failPoint' = Failure(pc)
    <3>1. \/ failPoint' = 1 \/ failPoint' = 2 \/ failPoint' = 3 \/ failPoint' = 6 \/ failPoint' = 7
          \/ failPoint' = 8
      BY Zenon, <2>2, NamesOfPins DEF SetPin, Failure
    <3> QED BY <3>1
  <2> QED BY <2>1, <2>2
<1>2. commandLost \subseteq commandLost'
  BY Zenon DEF Next, GUI, SetSleepMode, SetPin, SendErase, PollErase, SendLine, PollLine, Sends, Polled,
         NodeTakes, LoseCommand, OperatorSends, AnswerComes, vars
<1>3. ASSUME NEW i \in DOMAIN File, taken[i] > 1 PROVE taken'[i] > 1
  <2>1. CASE taken' = taken
    BY <1>3, <2>1
  <2>2. CASE taken' # taken
    <3>1. PICK l : taken' = [taken EXCEPT ![l] = IF taken[l] < 2 THEN taken[l] + 1 ELSE taken[l]]
      <4>1. NodeTakes
        BY Zenon, <2>2 DEF Next, GUI, SetSleepMode, SetPin, SendErase, PollErase, SendLine, PollLine,
               Elsewhere, Polled, LoseCommand, OperatorSends, AnswerComes, vars
      <4> QED BY Zenon, <2>2, <4>1 DEF NodeTakes
    <3>2. taken \in [DOMAIN File -> 0..2]
      BY DEF Types, MoreTypes
    <3> QED BY <1>3, <3>1, <3>2
  <2> QED BY <2>1, <2>2
<1> QED BY Zenon, <1>1, <1>2, <1>3 DEF Excused

LEMMA GuiKeepsQueue ==
    ASSUME Types, FileInOrder, QueueInv, GuiMove
    PROVE  QueueInv'
<1>1. /\ Len(File) \in Nat \ {0} /\ DOMAIN File = 1..Len(File)
      /\ toNode \in Seq(LineMsg) /\ Sent \in Nat
  BY SentType
<1>2. Sent' \in Nat /\ Sent <= Sent' /\ mode' = mode /\ taken' = taken
  BY DEF GuiMove, nodeVars
<1>3. /\ Ordered(toNode) /\ Within(toNode, Sent)
      /\ mode = "bootloader" => 3 <= Sent /\ Ahead(toNode, 4)
      /\ \A l \in DOMAIN File : taken[l] >= 1 => 4 + l <= Sent /\ Ahead(toNode, 4 + l)
  BY DEF QueueInv
<1>4. /\ Ordered(toNode') /\ Within(toNode', Sent')
      /\ 3 <= Sent /\ Ahead(toNode, 4) => Ahead(toNode', 4)
      /\ \A l \in DOMAIN File : 4 + l <= Sent /\ Ahead(toNode, 4 + l) => Ahead(toNode', 4 + l)
  <2>1. CASE toNode' = toNode
    <3>1. Within(toNode, Sent')
      <4>1. \A i \in 1..Len(toNode) : Turn(toNode[i]) \in Nat
        BY <1>1, TurnsType
      <4> QED BY <1>1, <1>2, <1>3, <4>1 DEF Within
    <3> QED BY <1>3, <2>1, <3>1
  <2>2. CASE \E msg \in LineMsg :
                /\ toNode' = Append(toNode, msg) /\ Turn(msg) <= Sent'
                /\ Turn(msg) = 0 \/ Turn(msg) = Sent + 1 \/ (Turn(msg) = Sent /\ 4 < Sent)
    <3>1. PICK msg \in LineMsg :
                /\ toNode' = Append(toNode, msg) /\ Turn(msg) <= Sent'
                /\ Turn(msg) = 0 \/ Turn(msg) = Sent + 1 \/ (Turn(msg) = Sent /\ 4 < Sent)
      BY <2>2
    <3>2. PICK r : r = toNode'
      OBVIOUS
    <3>3. /\ Ordered(r)
          /\ \A m \in Nat : Sent <= m /\ Turn(msg) <= m => Within(r, m)
          /\ \A m \in Nat : Ahead(toNode, m) /\ (Turn(msg) = 0 \/ m <= Turn(msg)) => Ahead(r, m)
      BY <1>1, <1>3, <3>1, <3>2, OrderSent
    <3>4. Within(r, Sent')
      BY <1>2, <3>1, <3>3
    <3>5. 3 <= Sent => Turn(msg) = 0 \/ 4 <= Turn(msg)
      BY <1>1, <3>1
    <3>6. \A l \in DOMAIN File : 4 + l \in Nat /\ (4 + l <= Sent => Turn(msg) = 0 \/ 4 + l <= Turn(msg))
      BY <1>1, <3>1
    <3> QED BY <3>2, <3>3, <3>4, <3>5, <3>6
  <2> QED BY <2>1, <2>2 DEF GuiMove
<1>5. mode' = "bootloader" => 3 <= Sent' /\ Ahead(toNode', 4)
  BY <1>1, <1>2, <1>3, <1>4
<1>6. ASSUME NEW l \in DOMAIN File, taken'[l] >= 1 PROVE 4 + l <= Sent' /\ Ahead(toNode', 4 + l)
  <2>1. 4 + l <= Sent /\ Ahead(toNode, 4 + l)
    BY <1>2, <1>3, <1>6
  <2> QED BY <1>1, <1>2, <1>4, <2>1
<1> QED BY <1>4, <1>5, <1>6 DEF QueueInv

LEMMA GuiKeepsProgress ==
    ASSUME Types, FileInOrder, UploadInv, GuiMove, Types', ~Excused', Excused => Excused'
    PROVE  \E k \in 0..Len(File) : Progress(k)'
<1>1. /\ Len(File) \in Nat \ {0} /\ DOMAIN File = 1..Len(File)
      /\ toNode \in Seq(LineMsg) /\ Sent \in Nat /\ SentLines \in Nat
  BY SentType
<1>2. /\ Sent' \in Nat /\ Sent <= Sent'
      /\ mode' = mode /\ taken' = taken /\ flash' = flash /\ boot' = boot
  BY DEF GuiMove, nodeVars
<1>3. PICK k \in 0..Len(File) : Progress(k)
  BY DEF UploadInv
<1>4. /\ \A l \in DOMAIN File : taken[l] >= 1 <=> l <= k
      /\ Coming(toNode, k, SentLines)
      /\ k < Len(File) => (pc \notin Early => mode = "bootloader") /\ FlashState(flash, boot, EndOf(k))
      /\ k = Len(File) => Complete(flash)
      /\ k = Len(File) /\ mode = "bootloader" => 5 + Len(File) <= Sent /\ NoLines(toNode)
  BY <1>3 DEF Progress
<1>5. Ordered(toNode) /\ Within(toNode, Sent)
  BY DEF UploadInv, QueueInv
<1>6. /\ Coming(toNode', k, SentLines)
      /\ 5 + Len(File) <= Sent /\ NoLines(toNode) => NoLines(toNode')
      /\ ~(SentLines' <= SentLines) => Coming(toNode', k, SentLines + 1)
  <2>1. CASE toNode' = toNode /\ SentLines' <= SentLines
    BY <1>4, <2>1
  <2>2. ASSUME NEW msg \in LineMsg, toNode' = Append(toNode, msg),
               Turn(msg) = 0 \/ Turn(msg) = Sent + 1 \/ (Turn(msg) = Sent /\ 4 < Sent),
               SentLines' <= SentLines \/ Turn(msg) = 4 + (SentLines + 1)
        PROVE  /\ Coming(toNode', k, SentLines)
               /\ 5 + Len(File) <= Sent /\ NoLines(toNode) => NoLines(toNode')
               /\ ~(SentLines' <= SentLines) => Coming(toNode', k, SentLines + 1)
    <3>1. PICK r : r = toNode'
      OBVIOUS
    <3>2. /\ \A n, m \in Nat : Coming(toNode, n, m) => Coming(r, n, m)
          /\ \A n, m \in Nat : Coming(toNode, n, m) /\ Turn(msg) = 4 + (m + 1) => Coming(r, n, m + 1)
      BY <1>1, <1>5, <2>2, <3>1, OrderSent
    <3>3. k \in Nat
      OBVIOUS
    <3>4. ASSUME 5 + Len(File) <= Sent, NoLines(toNode) PROVE NoLines(r)
      <4>1. Turn(msg) \notin 5..(4 + Len(File))
        BY <1>1, <2>2, <3>4
      <4>2. \A i \in 1..Len(r) : r[i] = msg \/ (i \in 1..Len(toNode) /\ r[i] = toNode[i])
        BY <1>1, <2>2, <3>1
      <4> QED BY <3>4, <4>1, <4>2 DEF NoLines
    <3>5. Coming(r, k, SentLines)
      BY <1>1, <1>4, <3>2, <3>3
    <3>6. Turn(msg) = 4 + (SentLines + 1) => Coming(r, k, SentLines + 1)
      BY <1>1, <1>4, <3>2, <3>3
    <3> QED BY <2>2, <3>1, <3>4, <3>5, <3>6
  <2>3. ~(SentLines' <= SentLines) =>
          /\ SentLines' = SentLines + 1
          /\ \E msg \in LineMsg : toNode' = Append(toNode, msg) /\ Turn(msg) = 4 + SentLines'
    BY DEF GuiMove
  <2>4. \/ toNode' = toNode
        \/ \E msg \in LineMsg :
             /\ toNode' = Append(toNode, msg)
             /\ Turn(msg) = 0 \/ Turn(msg) = Sent + 1 \/ (Turn(msg) = Sent /\ 4 < Sent)
    BY DEF GuiMove
  <2>5. CASE SentLines' <= SentLines
    BY <2>1, <2>2, <2>4, <2>5
  <2>6. CASE ~(SentLines' <= SentLines)
    <3>1. PICK msg \in LineMsg : toNode' = Append(toNode, msg) /\ Turn(msg) = 4 + (SentLines + 1)
      BY <2>3, <2>6
    <3>2. toNode' # toNode
      BY <1>1, <3>1
    <3>3. PICK m \in LineMsg :
             /\ toNode' = Append(toNode, m)
             /\ Turn(m) = 0 \/ Turn(m) = Sent + 1 \/ (Turn(m) = Sent /\ 4 < Sent)
      BY <2>4, <3>2
    <3>4. m = msg
      <4>1. Append(toNode, m)[Len(toNode) + 1] = m /\ Append(toNode, msg)[Len(toNode) + 1] = msg
        BY <1>1
      <4> QED BY <3>1, <3>3, <4>1
    <3> QED BY <2>2, <3>1, <3>3, <3>4
  <2> QED BY <2>5, <2>6
<1>7. SentLines' \in Int
  <2>1. SentLines' = 0 \/ SentLines' = lineNo' - 1 \/ SentLines' = lineNo' \/ SentLines' = Len(File)
    BY Zenon DEF SentLines
  <2>2. lineNo' \in Nat
    BY DEF Types, LinesOfFile
  <2> QED BY <1>1, <2>1, <2>2
<1>8. Coming(toNode', k, SentLines')
  <2>1. CASE SentLines' <= SentLines
    BY <1>1, <1>6, <1>7, <2>1 DEF Coming
  <2>2. CASE ~(SentLines' <= SentLines)
    <3>1. SentLines' = SentLines + 1
      BY <2>2 DEF GuiMove
    <3> QED BY <1>6, <2>2, <3>1
  <2> QED BY <2>1, <2>2
<1>9. k < Len(File) => (pc' \notin Early => mode' = "bootloader") /\ FlashState(flash', boot', EndOf(k))
  <2>1. pc' \notin Early => pc \notin Early \/ dataResponseRcvd
    BY DEF GuiMove
  <2>2. pc \in Early /\ dataResponseRcvd => mode = "bootloader"
    BY DEF UploadInv
  <2> QED BY <1>2, <1>4, <2>1, <2>2
<1>10. k = Len(File) => Complete(flash')
  BY <1>2, <1>4
<1>11. k = Len(File) /\ mode' = "bootloader" => 5 + Len(File) <= Sent' /\ NoLines(toNode')
  BY <1>1, <1>2, <1>4, <1>6
<1>12. \A l \in DOMAIN File : taken'[l] >= 1 <=> l <= k
  BY <1>2, <1>4
<1>13. Progress(k)'
  BY <1>8, <1>9, <1>10, <1>11, <1>12 DEF Progress
<1> QED BY <1>13

LEMMA GuiKeeps ==
    ASSUME Types, FileInOrder, UploadInv, GuiMove, Types', Excused => Excused'
    PROVE  UploadInv'
<1>1. QueueInv'
  BY GuiKeepsQueue DEF UploadInv
<1>2. pc' \in Early /\ (answers' > 0 \/ dataResponseRcvd') => mode' = "bootloader"
  BY DEF UploadInv, GuiMove, nodeVars
<1>3. mode' = "held" => boot' = Fresh
  BY DEF UploadInv, GuiMove, nodeVars
<1>4. Excused' \/ \E k \in 0..Len(File) : Progress(k)'
  BY GuiKeepsProgress
<1> QED BY <1>1, <1>2, <1>3, <1>4 DEF UploadInv, Fresh, Empty

-----------------------------------------------------------------------------
(* What is taken from the queue, lost or heard by the node.                *)

LEMMA SentSame ==
    ASSUME UNCHANGED <<pc, lineNo>>
    PROVE  Sent' = Sent /\ SentLines' = SentLines
BY Zenon DEF Sent, SentLines, NoMore

LEMMA TakesQueue ==
    ASSUME Types, FileInOrder, QueueInv, toNode # <<>>, toNode' = Tail(toNode),
           UNCHANGED <<pc, lineNo>>,
           NEW msg, msg = Head(toNode),
           mode' = "bootloader" => mode = "bootloader" \/ Turn(msg) \in {3, 7 + Len(File)},
           \A l \in DOMAIN File : taken'[l] >= 1 => taken[l] >= 1 \/ Turn(msg) = 4 + l
    PROVE  QueueInv'
<1>1. /\ Len(File) \in Nat \ {0} /\ DOMAIN File = 1..Len(File)
      /\ toNode \in Seq(LineMsg) /\ Sent \in Nat /\ Sent' = Sent
  BY SentType, SentSame
<1>2. /\ Ordered(toNode) /\ Within(toNode, Sent)
      /\ mode = "bootloader" => 3 <= Sent /\ Ahead(toNode, 4)
      /\ \A l \in DOMAIN File : taken[l] >= 1 => 4 + l <= Sent /\ Ahead(toNode, 4 + l)
  BY DEF QueueInv
<1>3. PICK r : r = toNode'
  OBVIOUS
<1>4. /\ msg \in LineMsg /\ r \in Seq(LineMsg) /\ Ordered(r)
      /\ \A m \in Nat : Within(toNode, m) => Within(r, m) /\ Turn(msg) <= m
      /\ \A m \in Nat : Ahead(toNode, m) => Ahead(r, m) /\ (Turn(msg) # 0 => m <= Turn(msg))
      /\ \A i \in 1..Len(r) : Turn(msg) # 0 /\ Turn(r[i]) # 0 => Before(Turn(msg), Turn(r[i]))
  BY <1>1, <1>2, <1>3, OrderTaken
<1>5. Turn(msg) \in Nat /\ \A i \in 1..Len(r) : Turn(r[i]) \in Nat
  BY <1>1, <1>4, TurnType, TurnsType
<1>6. Within(r, Sent) /\ Turn(msg) <= Sent
  BY <1>1, <1>2, <1>4
<1>7. ASSUME mode' = "bootloader" PROVE 3 <= Sent /\ Ahead(r, 4)
  <2>1. CASE mode = "bootloader"
    BY <1>2, <1>4, <2>1
  <2>2. CASE Turn(msg) \in {3, 7 + Len(File)}
    <3>1. 3 <= Sent
      BY <1>1, <1>5, <1>6, <2>2
    <3>2. ASSUME NEW i \in 1..Len(r), Turn(r[i]) # 0 PROVE 4 <= Turn(r[i])
      <4>1. Before(Turn(msg), Turn(r[i])) /\ Turn(r[i]) \in Nat
        BY <1>1, <1>4, <1>5, <2>2, <3>2
      <4> QED BY <1>1, <2>2, <4>1 DEF Before
    <3> QED BY <3>1, <3>2 DEF Ahead
  <2> QED BY <1>7, <2>1, <2>2
<1>8. ASSUME NEW l \in DOMAIN File, taken'[l] >= 1 PROVE 4 + l <= Sent /\ Ahead(r, 4 + l)
  <2>1. CASE taken[l] >= 1
    <3>1. 4 + l \in Nat
      BY <1>1
    <3> QED BY <1>2, <1>4, <2>1, <3>1
  <2>2. CASE Turn(msg) = 4 + l
    <3>1. ASSUME NEW i \in 1..Len(r), Turn(r[i]) # 0 PROVE 4 + l <= Turn(r[i])
      <4>1. Before(Turn(msg), Turn(r[i])) /\ Turn(r[i]) \in Nat
        BY <1>1, <1>4, <1>5, <2>2, <3>1
      <4> QED BY <1>1, <2>2, <4>1 DEF Before
    <3> QED BY <1>6, <2>2, <3>1 DEF Ahead
  <2> QED BY <1>8, <2>1, <2>2
<1> QED BY <1>1, <1>3, <1>4, <1>6, <1>7, <1>8 DEF QueueInv

(* A message that takes the upload no further: what it does to the         *)
(* bootloader leaves the lines where they are.                             *)
PassedBy(k, msg) ==
    /\ k < Len(File) => /\ Turn(msg) \notin 5..(4 + Len(File))
                        /\ pc \notin Early => mode' = "bootloader"
                        /\ FlashState(flash', boot', EndOf(k))
    /\ k = Len(File) => flash' = flash
    /\ mode' = "bootloader" => mode = "bootloader" \/ Turn(msg) = 7 + Len(File) \/ k < Len(File)

LEMMA PassesBy ==
    ASSUME Types, FileInOrder, QueueInv, NEW k \in 0..Len(File), Progress(k),
           toNode # <<>>, toNode' = Tail(toNode), UNCHANGED <<pc, lineNo, taken>>,
           NEW msg, msg = Head(toNode), PassedBy(k, msg)
    PROVE  Progress(k)'
<1>1. /\ Len(File) \in Nat \ {0} /\ DOMAIN File = 1..Len(File)
      /\ toNode \in Seq(LineMsg) /\ Sent \in Nat /\ SentLines \in Nat
      /\ Sent' = Sent /\ SentLines' = SentLines /\ k \in Nat
  BY SentType, SentSame
<1>2. PICK r : r = toNode'
  OBVIOUS
<1>3. /\ msg \in LineMsg /\ r \in Seq(LineMsg)
      /\ \A m \in Nat : Within(toNode, m) => Within(r, m) /\ Turn(msg) <= m
      /\ \A i \in 1..Len(r) : Turn(msg) # 0 /\ Turn(r[i]) # 0 => Before(Turn(msg), Turn(r[i]))
      /\ \A n, m \in Nat : Coming(toNode, n, m) /\ Turn(msg) \notin (4 + n + 1)..(4 + Len(File))
                              => Coming(r, n, m)
  <2>1. Ordered(toNode)
    BY DEF QueueInv
  <2> QED BY <1>1, <1>2, <2>1, OrderTaken
<1>4. /\ \A l \in DOMAIN File : taken[l] >= 1 <=> l <= k
      /\ Coming(toNode, k, SentLines)
      /\ k = Len(File) => Complete(flash)
      /\ k = Len(File) /\ mode = "bootloader" => 5 + Len(File) <= Sent /\ NoLines(toNode)
  BY DEF Progress
<1>5. Coming(r, k, SentLines)
  <2>1. CASE k < Len(File)
    <3>1. Turn(msg) \notin (4 + k + 1)..(4 + Len(File))
      <4>1. Turn(msg) \notin 5..(4 + Len(File))
        BY <2>1 DEF PassedBy
      <4> QED BY <1>1, <4>1
    <3> QED BY <1>1, <1>3, <1>4, <3>1
  <2>2. CASE k = Len(File)
    <3>1. PICK n \in Nat : n = Len(File) /\ DOMAIN File = 1..n
      BY <1>1
    <3>2. \A l \in 1..n : ~(n < l)
      OBVIOUS
    <3>3. \A l \in DOMAIN File : ~(k < l)
      BY Zenon, <2>2, <3>1, <3>2
    <3> QED BY Zenon, <3>3 DEF Coming
  <2>3. k < Len(File) \/ k = Len(File)
    BY LineCount
  <2> QED BY Zenon, <2>1, <2>2, <2>3
<1>6. ASSUME k = Len(File), mode' = "bootloader" PROVE 5 + Len(File) <= Sent /\ NoLines(r)
  <2>1. CASE mode = "bootloader"
    <3>1. \A i \in 1..Len(r) : i + 1 \in 1..Len(toNode) /\ r[i] = toNode[i + 1]
      BY <1>1, <1>2
    <3> QED BY <1>4, <1>6, <2>1, <3>1 DEF NoLines
  <2>2. CASE Turn(msg) = 7 + Len(File)
    <3>1. 7 + Len(File) <= Sent
      <4>1. Within(toNode, Sent)
        BY DEF QueueInv
      <4> QED BY <1>1, <1>3, <2>2, <4>1
    <3>2. ASSUME NEW i \in 1..Len(r) PROVE Turn(r[i]) \notin 5..(4 + Len(File))
      <4>1. Turn(r[i]) \in Nat
        BY <1>1, <1>3, TurnsType
      <4>2. Turn(r[i]) # 0 => Before(7 + Len(File), Turn(r[i]))
        BY <1>1, <1>3, <2>2
      <4> QED BY <1>1, <4>1, <4>2 DEF Before
    <3> QED BY <1>1, <3>1, <3>2 DEF NoLines
  <2> QED BY <1>6, <2>1, <2>2 DEF PassedBy
<1>7. k < Len(File) => (pc \notin Early => mode' = "bootloader") /\ FlashState(flash', boot', EndOf(k))
  BY DEF PassedBy
<1>8. k = Len(File) => flash' = flash
  BY DEF PassedBy
<1> QED BY <1>1, <1>2, <1>4, <1>5, <1>6, <1>7, <1>8 DEF Progress

LEMMA LoseKeeps ==
    ASSUME Types, FileInOrder, UploadInv, LoseCommand, Excused => Excused'
    PROVE  UploadInv'
<1> USE DEF Elsewhere, guiVars, nodeVars
<1>1. PICK msg : msg = Head(toNode)
  OBVIOUS
<1>2. /\ toNode # <<>> /\ toNode' = Tail(toNode)
      /\ UNCHANGED <<pc, lineNo, mode, flash, boot, taken, answers, dataResponseRcvd>>
      /\ msg.name \in commandLost'
  BY <1>1 DEF LoseCommand
<1>3. /\ Len(File) \in Nat \ {0} /\ DOMAIN File = 1..Len(File) /\ toNode \in Seq(LineMsg)
      /\ msg \in LineMsg
  BY <1>1, <1>2, SentType
<1>4. QueueInv'
  BY <1>1, <1>2, TakesQueue DEF UploadInv
<1>5. ~Excused' => Turn(msg) \notin 5..(4 + Len(File))
  <2> SUFFICES ASSUME ~Excused' PROVE Turn(msg) \notin 5..(4 + Len(File))
    OBVIOUS
  <2>1. msg.name # "line"
    BY <1>2 DEF Excused
  <2>2. PICK n : n = Rank(msg.name)
    OBVIOUS
  <2>3. \/ n \in 1..6 /\ Turn(msg) = IF n <= 3 THEN n ELSE Len(File) + 1 + n
        \/ Turn(msg) = 4 \/ Turn(msg) = 0
    BY <1>3, <2>1, <2>2, TurnOf
  <2> QED BY <1>3, <2>3
<1>6. ASSUME ~Excused' PROVE \E k \in 0..Len(File) : Progress(k)'
  <2>1. PICK k \in 0..Len(File) : Progress(k)
    BY <1>6 DEF UploadInv
  <2>2. k < Len(File) => /\ pc \notin Early => mode' = "bootloader"
                         /\ FlashState(flash', boot', EndOf(k))
    BY <1>2, <2>1 DEF Progress
  <2>3. Progress(k)'
    <3>1. PassedBy(k, msg)
      BY <1>2, <1>5, <1>6, <2>2 DEF PassedBy
    <3> QED BY <1>1, <1>2, <2>1, <3>1, PassesBy DEF UploadInv
  <2> QED BY <2>3
<1> QED BY <1>2, <1>4, <1>6 DEF UploadInv, Fresh, Empty

(* Nothing but an answer changes.                                          *)
LEMMA AnswerKeeps ==
    ASSUME Types, FileInOrder, UploadInv, Excused => Excused',
           UNCHANGED <<pc, lineNo, toNode, mode, flash, boot, taken>>,
           answers' > 0 \/ dataResponseRcvd' => answers > 0 \/ dataResponseRcvd
    PROVE  UploadInv'
<1>1. Sent' = Sent /\ SentLines' = SentLines
  BY SentSame
<1>2. QueueInv'
  BY <1>1 DEF UploadInv, QueueInv
<1>3. ASSUME NEW k \in 0..Len(File), Progress(k) PROVE Progress(k)'
  BY <1>1, <1>3 DEF Progress
<1> QED BY <1>2, <1>3 DEF UploadInv, Fresh, Empty

LEMMA OperatorKeeps ==
    ASSUME Types, FileInOrder, UploadInv, OperatorSends, Types', Excused => Excused'
    PROVE  UploadInv'
<1> USE DEF Elsewhere, guiVars, nodeVars
<1>1. GuiMove
  <2>1. /\ UNCHANGED <<pc, lineNo, mode, flash, boot, bootPin, taken, answers, dataResponseRcvd>>
        /\ toNode' = Append(toNode, [name |-> "string", line |-> 0])
    BY DEF OperatorSends
  <2>2. PICK msg \in LineMsg : msg = [name |-> "string", line |-> 0] /\ Turn(msg) = 0
    <3>1. [name |-> "string", line |-> 0] \in LineMsg
      BY DEF LineMsg, Message, Name
    <3>2. "string" \notin Pin /\ "string" # "erase" /\ "string" # "line"
      BY Zenon, NamesOfPins
    <3> QED BY <3>1, <3>2 DEF Turn
  <2>3. Sent' = Sent /\ SentLines' = SentLines /\ Sent \in Nat /\ SentLines \in Nat
    BY <2>1, SentSame, SentType
  <2>4. dataResponseRcvd \in BOOLEAN
    BY DEF Types, MoreTypes
  <2> QED BY <2>1, <2>2, <2>3, <2>4 DEF GuiMove
<1> QED BY <1>1, GuiKeeps

LEMMA PinTurn ==
    ASSUME NEW msg \in LineMsg, Len(File) \in Nat, DOMAIN File = 1..Len(File), msg.name \in Pin
    PROVE  /\ Turn(msg) \in 1..3 \/ Turn(msg) \in (5 + Len(File))..(7 + Len(File))
           /\ msg.name = "P2 high" => Turn(msg) = 3
           /\ msg.name = "P2 up" => Turn(msg) = 7 + Len(File)
<1>1. PICK name \in Pin : name = msg.name
  OBVIOUS
<1>2. PICK n \in 1..6 : n = Rank(name)
  BY NamesOfPins
<1>3. Turn(msg) = IF n <= 3 THEN n ELSE Len(File) + 1 + n
  BY <1>1, <1>2 DEF Turn
<1>4. name = "P2 high" => n = 3
  BY <1>2 DEF Rank
<1>5. name = "P2 up" => n = 6
  BY <1>2 DEF Rank
<1>6. Turn(msg) \in 1..3 \/ Turn(msg) \in (5 + Len(File))..(7 + Len(File))
  BY <1>2, <1>3
<1>7. n = 3 => Turn(msg) = 3
  BY <1>3
<1>8. n = 6 => Turn(msg) = 7 + Len(File)
  BY <1>2, <1>3
<1> QED BY <1>1, <1>4, <1>5, <1>6, <1>7, <1>8

(* Before all lines have been taken, no pin comes but those that bring the *)
(* node into its bootloader.                                               *)
LEMMA PinEarly ==
    ASSUME Types, FileInOrder, QueueInv, NEW k \in 0..Len(File), Progress(k), k < Len(File),
           toNode # <<>>, NEW msg, msg = Head(toNode), msg.name \in Pin
    PROVE  pc \in Early /\ k = 0
<1>1. /\ Len(File) \in Nat \ {0} /\ DOMAIN File = 1..Len(File)
      /\ toNode \in Seq(LineMsg) /\ Sent \in Nat /\ SentLines \in Nat /\ k \in Nat
  BY SentType
<1>2. Ordered(toNode) /\ Within(toNode, Sent)
      /\ (mode = "bootloader" => Ahead(toNode, 4))
  BY DEF QueueInv
<1>3. /\ msg \in LineMsg /\ Turn(msg) <= Sent
      /\ Ahead(toNode, 4) /\ Turn(msg) # 0 => 4 <= Turn(msg)
      /\ \A l \in DOMAIN File : (\E i \in 1..Len(toNode) : Turn(toNode[i]) = 4 + l) =>
            Turn(msg) = 0 \/ Before(Turn(msg), 4 + l) \/ Turn(msg) = 4 + l
  <2>1. PICK r : r = Tail(toNode)
    OBVIOUS
  <2> QED BY <1>1, <1>2, <2>1, OrderTaken
<1>4. Turn(msg) \in 1..3 \/ Turn(msg) \in (5 + Len(File))..(7 + Len(File))
  BY <1>1, <1>3, PinTurn
<1>5. pc \in Early
  <2> SUFFICES ASSUME pc \notin Early PROVE FALSE
    OBVIOUS
  <2>1. mode = "bootloader"
    BY DEF Progress
  <2>2. 5 + Len(File) <= Turn(msg)
    BY <1>1, <1>2, <1>3, <1>4, <2>1
  <2>3. SentLines = Len(File)
    <3>1. 5 + Len(File) <= Sent
      BY <1>1, <1>3, <1>4, <2>2
    <3> QED BY <3>1, SentBounds
  <2>4. PICK l \in DOMAIN File : l = k + 1 /\ k < l /\ l <= Len(File)
    <3>1. PICK n \in Nat : n = Len(File) /\ DOMAIN File = 1..n
      BY <1>1
    <3>2. k + 1 \in 1..n /\ k < k + 1 /\ k + 1 <= n
      BY <1>1, <3>1
    <3> QED BY <3>1, <3>2
  <2>5. \E i \in 1..Len(toNode) : Turn(toNode[i]) = 4 + l
    <3>1. Coming(toNode, k, Len(File))
      BY <2>3 DEF Progress
    <3> QED BY <2>4, <3>1 DEF Coming
  <2> QED BY <1>1, <1>3, <1>4, <2>2, <2>4, <2>5 DEF Before
<1>6. k = 0
  <2> SUFFICES ASSUME k # 0 PROVE FALSE
    OBVIOUS
  <2>1. k \in DOMAIN File /\ taken[k] >= 1
    <3>1. PICK n \in Nat : n = Len(File) /\ DOMAIN File = 1..n
      BY <1>1
    <3>2. k \in 1..n /\ k <= k
      BY <1>1, <3>1
    <3> QED BY <3>1, <3>2 DEF Progress
  <2>2. 4 + k <= Sent
    BY <2>1 DEF QueueInv
  <2>3. Sent <= 4
    BY <1>5, SentBounds
  <2> QED BY <1>1, <2>2, <2>3
<1> QED BY <1>5, <1>6

LEMMA PinKeeps ==
    ASSUME Types, FileInOrder, UploadInv, toNode # <<>>, toNode' = Tail(toNode),
           UNCHANGED <<pc, lineNo, taken, answers, dataResponseRcvd>>, Excused => Excused',
           NEW msg, msg = Head(toNode), msg.name \in Pin, PinSet(msg.name)
    PROVE  UploadInv'
<1>1. /\ Len(File) \in Nat \ {0} /\ DOMAIN File = 1..Len(File) /\ Start \in Nat
      /\ toNode \in Seq(LineMsg) /\ msg \in LineMsg /\ Sent \in Nat
  BY SentType, FileSize
<1>2. flash' = flash /\ boot' = (IF mode' = "held" THEN Fresh ELSE boot)
  BY Zenon DEF PinSet
<1>3. mode' = "bootloader" => mode = "bootloader" \/ (mode = "held" /\ msg.name \in {"P2 high", "P2 up"})
  BY Zenon DEF PinSet
<1>4. Turn(msg) \in 1..3 \/ Turn(msg) \in (5 + Len(File))..(7 + Len(File))
  BY <1>1, PinTurn
<1>5. mode' = "bootloader" => mode = "bootloader" \/ Turn(msg) = 3 \/ Turn(msg) = 7 + Len(File)
  BY Zenon, <1>1, <1>3, PinTurn
<1>6. QueueInv /\ QueueInv'
  <2>1. mode' = "bootloader" => mode = "bootloader" \/ Turn(msg) \in {3, 7 + Len(File)}
    BY <1>5
  <2> QED BY <2>1, TakesQueue DEF UploadInv
<1>7. Within(toNode, Sent) /\ Ordered(toNode) /\ (mode = "bootloader" => Ahead(toNode, 4))
      /\ (\A l \in DOMAIN File : taken[l] >= 1 => Ahead(toNode, 4 + l))
  BY <1>6 DEF QueueInv
<1>8. /\ Turn(msg) <= Sent
      /\ \A m \in Nat : Ahead(toNode, m) /\ Turn(msg) # 0 => m <= Turn(msg)
  <2>1. PICK r : r = Tail(toNode)
    OBVIOUS
  <2>2. /\ \A m \in Nat : Within(toNode, m) => Turn(msg) <= m
        /\ \A m \in Nat : Ahead(toNode, m) => (Turn(msg) # 0 => m <= Turn(msg))
    BY <1>1, <1>7, <2>1, OrderTaken
  <2> QED BY <1>1, <1>7, <2>2
<1>9. ASSUME pc \in Early, answers > 0 \/ dataResponseRcvd PROVE FALSE
  <2>1. mode = "bootloader"
    BY <1>9 DEF UploadInv
  <2>2. 4 <= Turn(msg)
    BY <1>4, <1>7, <1>8, <1>1, <2>1
  <2>3. Sent <= 4
    BY <1>9, SentBounds
  <2> QED BY <1>1, <1>4, <1>8, <2>2, <2>3
<1>10. ASSUME ~Excused' PROVE \E k \in 0..Len(File) : Progress(k)'
  <2>1. PICK k \in 0..Len(File) : Progress(k)
    BY <1>10 DEF UploadInv
  <2>2. ASSUME k < Len(File)
        PROVE  /\ Turn(msg) \notin 5..(4 + Len(File))
               /\ pc \notin Early => mode' = "bootloader"
               /\ FlashState(flash', boot', EndOf(k))
    <3>1. pc \in Early /\ k = 0
      BY <1>6, <2>1, <2>2, PinEarly
    <3>2. EndOf(k) = Start
      BY <3>1 DEF EndOf
    <3>3. FlashState(flash, boot, EndOf(k))
      BY <2>1, <2>2 DEF Progress
    <3>4. FlashState(flash', boot', EndOf(k))
      BY <1>1, <1>2, <3>2, <3>3, FreshState
    <3>5. Turn(msg) \notin 5..(4 + Len(File))
      BY <1>1, <1>4
    <3> QED BY <3>1, <3>4, <3>5
  <2>3. mode' = "bootloader" => mode = "bootloader" \/ Turn(msg) = 7 + Len(File) \/ k < Len(File)
    <3> SUFFICES ASSUME mode' = "bootloader", mode # "bootloader", Turn(msg) # 7 + Len(File), ~(k < Len(File))
                 PROVE  FALSE
      OBVIOUS
    <3>1. Turn(msg) = 3 /\ k = Len(File)
      <4>1. Turn(msg) = 3
        BY <1>5
      <4>2. k = Len(File)
        BY LineCount
      <4> QED BY <4>1, <4>2
    <3>2. Len(File) \in DOMAIN File /\ taken[Len(File)] >= 1
      <4>1. PICK n \in Nat \ {0} : n = Len(File) /\ DOMAIN File = 1..n
        BY <1>1
      <4>2. n \in 1..n /\ n <= n
        OBVIOUS
      <4> QED BY <2>1, <3>1, <4>1, <4>2 DEF Progress
    <3>3. Ahead(toNode, 4 + Len(File)) /\ 4 + Len(File) \in Nat
      BY <1>1, <1>7, <3>2
    <3>4. 4 + Len(File) <= Turn(msg)
      BY <1>8, <3>1, <3>3
    <3> QED BY <1>1, <3>1, <3>4
  <2>4. Progress(k)'
    <3>1. PassedBy(k, msg)
      BY <1>2, <2>2, <2>3 DEF PassedBy
    <3> QED BY <1>6, <2>1, <3>1, PassesBy
  <2> QED BY <2>4
<1> QED BY <1>2, <1>6, <1>9, <1>10 DEF UploadInv, Fresh, Empty

(* What comes to a node that is not in its bootloader, or concerns its XBee *)
(* only, or is a string.                                                    *)
LEMMA PlainKeeps ==
    ASSUME Types, FileInOrder, UploadInv, toNode # <<>>, toNode' = Tail(toNode),
           UNCHANGED <<pc, lineNo, taken, flash, boot, mode, dataResponseRcvd>>, Excused => Excused',
           NEW msg, msg = Head(toNode), mode # "bootloader" \/ Turn(msg) = 0,
           answers' = answers \/ mode = "bootloader"
    PROVE  UploadInv'
<1>1. QueueInv /\ QueueInv'
  BY TakesQueue DEF UploadInv
<1>2. Turn(msg) <= Sent
  <2>1. Ordered(toNode) /\ Within(toNode, Sent)
    BY <1>1 DEF QueueInv
  <2>2. PICK r : r = Tail(toNode)
    OBVIOUS
  <2> QED BY <2>1, <2>2, SentType, OrderTaken
<1>3. ASSUME NEW k \in 0..Len(File), Progress(k) PROVE Progress(k)'
  <2>1. ASSUME k < Len(File)
        PROVE  /\ Turn(msg) \notin 5..(4 + Len(File))
               /\ pc \notin Early => mode' = "bootloader"
               /\ FlashState(flash', boot', EndOf(k))
    <3>1. (pc \notin Early => mode = "bootloader") /\ FlashState(flash, boot, EndOf(k))
      BY <1>3, <2>1 DEF Progress
    <3>2. pc \in Early \/ Turn(msg) = 0
      BY <3>1
    <3>3. Turn(msg) \notin 5..(4 + Len(File))
      <4>1. CASE Turn(msg) = 0
        BY <4>1
      <4>2. CASE pc \in Early
        <5>1. Sent <= 4 /\ Sent \in Nat
          BY <4>2, SentBounds, SentType
        <5> QED BY <1>2, <5>1
      <4> QED BY <3>2, <4>1, <4>2
    <3> QED BY <3>1, <3>3
  <2>2. PassedBy(k, msg)
    BY <2>1 DEF PassedBy
  <2> QED BY <1>1, <1>3, <2>2, PassesBy
<1>4. ASSUME pc' \in Early, answers' > 0 \/ dataResponseRcvd' PROVE mode' = "bootloader"
  BY <1>4 DEF UploadInv
<1>5. mode' = "held" => boot' = Fresh
  BY DEF UploadInv
<1>6. Excused' \/ \E k \in 0..Len(File) : Progress(k)'
  BY <1>3 DEF UploadInv
<1> QED BY <1>1, <1>4, <1>5, <1>6 DEF UploadInv, Fresh, Empty

(* The erase comes before every line.                                      *)
LEMMA EraseHeard ==
    ASSUME Types, FileInOrder, UploadInv, toNode # <<>>, toNode' = Tail(toNode),
           UNCHANGED <<pc, lineNo, taken>>, Excused => Excused',
           NEW msg, msg = Head(toNode), msg.name = "erase", mode = "bootloader", EraseAll
    PROVE  UploadInv'
<1>1. mode' = mode
  BY DEF EraseAll
<1>2. QueueInv /\ QueueInv'
  BY <1>1, TakesQueue DEF UploadInv
<1>3. Turn(msg) = 4
  <2>1. "erase" \notin Pin
    BY Zenon, NamesOfPins
  <2> QED BY <2>1 DEF Turn
<1>4. ASSUME NEW k \in 0..Len(File), Progress(k) PROVE k = 0
  <2> SUFFICES ASSUME k # 0 PROVE FALSE
    OBVIOUS
  <2>1. k \in DOMAIN File /\ taken[k] >= 1 /\ k \in Nat /\ 4 + k \in Nat
    <3>1. k \in Nat /\ k \in DOMAIN File
      BY LineCount
    <3>2. k <= k /\ 4 + k \in Nat
      BY <3>1
    <3> QED BY <1>4, <3>1, <3>2 DEF Progress
  <2>2. Ordered(toNode) /\ Ahead(toNode, 4 + k)
    BY <1>2, <2>1 DEF QueueInv
  <2>3. PICK r : r = Tail(toNode)
    OBVIOUS
  <2>4. 4 + k <= Turn(msg)
    BY <1>3, <2>1, <2>2, <2>3, SentType, OrderTaken
  <2> QED BY <1>3, <2>1, <2>4
<1>5. ASSUME NEW k \in 0..Len(File), Progress(k) PROVE Progress(k)'
  <2>1. k = 0 /\ k < Len(File) /\ k # Len(File) /\ EndOf(k) = Start /\ Start \in Nat
    <3>1. k = 0
      BY <1>4, <1>5
    <3>2. 0 < Len(File)
      BY FileSize
    <3> QED BY <3>1, <3>2, FileSize DEF EndOf
  <2>2. FlashState(flash, boot, Start)
    BY <1>5, <2>1 DEF Progress
  <2>3. FlashState(flash', boot', EndOf(k))
    BY <2>1, <2>2, EraseState DEF Types
  <2>4. Turn(msg) \notin 5..(4 + Len(File))
    BY <1>3
  <2>5. PassedBy(k, msg)
    BY <1>1, <2>1, <2>3, <2>4 DEF PassedBy
  <2> QED BY <1>2, <1>5, <2>5, PassesBy
<1>6. Excused' \/ \E k \in 0..Len(File) : Progress(k)'
  BY <1>5 DEF UploadInv
<1>7. mode' = "bootloader" /\ mode' # "held"
  BY <1>1
<1> QED BY <1>2, <1>6, <1>7 DEF UploadInv, Fresh, Empty

(* A line the bootloader hears.                                            *)
TakesLine(msg) ==
    /\ toNode # <<>> /\ msg = Head(toNode) /\ toNode' = Tail(toNode)
    /\ UNCHANGED <<pc, lineNo>>
    /\ msg.name = "line" /\ mode = "bootloader"
    /\ taken' = [taken EXCEPT ![msg.line] = IF @ < 2 THEN @ + 1 ELSE @]
    /\ ProgramLine(File[msg.line])

LEMMA LineTurn ==
    ASSUME Types, FileInOrder, QueueInv, NEW msg, TakesLine(msg)
    PROVE  /\ msg \in LineMsg /\ msg.line \in DOMAIN File /\ msg.line \in Nat /\ Turn(msg) = 4 + msg.line
           /\ Turn(msg) <= Sent
           /\ \A k, m \in Nat : Coming(toNode, k, m) /\ Turn(msg) \notin (4 + k + 1)..(4 + Len(File))
                                   => Coming(toNode', k, m)
           /\ \A k, m \in Nat : Coming(toNode, k, m) /\ Turn(msg) = 4 + (k + 1) => Coming(toNode', k + 1, m)
           /\ \A l \in DOMAIN File : (\E i \in 1..Len(toNode) : Turn(toNode[i]) = 4 + l) =>
                 Turn(msg) = 0 \/ Before(Turn(msg), 4 + l) \/ Turn(msg) = 4 + l
           /\ \A m \in Nat : Ahead(toNode, m) => (Turn(msg) # 0 => m <= Turn(msg))
<1>1. /\ toNode # <<>> /\ msg = Head(toNode) /\ toNode' = Tail(toNode) /\ msg.name = "line"
  BY DEF TakesLine
<1>2. Ordered(toNode) /\ Within(toNode, Sent)
  BY DEF QueueInv
<1>3. PICK r : r = toNode'
  OBVIOUS
<1>4. /\ msg \in LineMsg
      /\ \A m \in Nat : Within(toNode, m) => Turn(msg) <= m
      /\ \A k, m \in Nat : Coming(toNode, k, m) /\ Turn(msg) \notin (4 + k + 1)..(4 + Len(File))
                                   => Coming(r, k, m)
      /\ \A k, m \in Nat : Coming(toNode, k, m) /\ Turn(msg) = 4 + (k + 1) => Coming(r, k + 1, m)
      /\ \A l \in DOMAIN File : (\E i \in 1..Len(toNode) : Turn(toNode[i]) = 4 + l) =>
            Turn(msg) = 0 \/ Before(Turn(msg), 4 + l) \/ Turn(msg) = 4 + l
      /\ \A m \in Nat : Ahead(toNode, m) => (Turn(msg) # 0 => m <= Turn(msg))
  BY <1>1, <1>2, <1>3, SentType, OrderTaken
<1>5. msg.line \in DOMAIN File
  BY <1>1, <1>4 DEF LineMsg
<1>6. Turn(msg) = 4 + msg.line
  <2>1. "line" \notin Pin
    BY Zenon, NamesOfPins
  <2> QED BY <1>1, <2>1 DEF Turn
<1>7. msg.line \in Nat
  <2>1. 0 \in 0..Len(File)
    BY FileSize
  <2> QED BY <1>5, <2>1, LineCount
<1>8. Turn(msg) <= Sent
  BY <1>2, <1>4, SentType
<1> QED BY <1>3, <1>4, <1>5, <1>6, <1>7, <1>8

LEMMA LineEffect ==
    ASSUME NEW line, ProgramLine(line), NEW s, s = Filled(line)
    PROVE  /\ ~(s.ok /\ line.last) => flash' = s.flash /\ boot' = s.boot /\ mode' = mode
           /\ s.ok /\ line.last => flash' = Finished(s).flash /\ mode' = "application"
BY Zenon DEF ProgramLine

(* It is the next one, or the last that was taken once more.               *)
LEMMA NextOrAgain ==
    ASSUME Types, FileInOrder, QueueInv, NEW msg, TakesLine(msg), NEW k \in 0..Len(File), Progress(k)
    PROVE  k < Len(File) /\ pc \notin Early /\ (msg.line = k \/ msg.line = k + 1)
<1> DEFINE h == msg.line
<1>1. /\ msg \in LineMsg /\ h \in DOMAIN File /\ h \in Nat /\ Turn(msg) = 4 + h /\ Turn(msg) <= Sent
      /\ \A l \in DOMAIN File : (\E i \in 1..Len(toNode) : Turn(toNode[i]) = 4 + l) =>
            Turn(msg) = 0 \/ Before(Turn(msg), 4 + l) \/ Turn(msg) = 4 + l
      /\ \A m \in Nat : Ahead(toNode, m) => (Turn(msg) # 0 => m <= Turn(msg))
  BY LineTurn
<1> HIDE DEF h
<1>2. k \in Nat /\ h \in Nat \ {0} /\ h <= Len(File) /\ Len(File) \in Nat
  <2>1. 0 \in 0..Len(File)
    BY FileSize
  <2> QED BY <1>1, <2>1, LineCount, FileSize
<1>3. pc \notin Early
  <2> SUFFICES ASSUME pc \in Early PROVE FALSE
    OBVIOUS
  <2>1. Sent <= 4 /\ Sent \in Nat
    BY SentBounds, SentType
  <2> QED BY <1>1, <1>2, <2>1
<1>4. k < Len(File)
  <2> SUFFICES ASSUME k = Len(File) PROVE FALSE
    BY LineCount
  <2>1. NoLines(toNode)
    BY DEF Progress, TakesLine
  <2>2. 1 \in 1..Len(toNode) /\ toNode[1] = msg
    <3>1. toNode \in Seq(LineMsg) /\ toNode # <<>> /\ msg = Head(toNode)
      BY SentType DEF TakesLine
    <3> QED BY <3>1
  <2>3. Turn(msg) \notin 5..(4 + Len(File))
    BY <2>1, <2>2 DEF NoLines
  <2> QED BY <1>1, <1>2, <2>3
<1>5. k <= h
  <2> SUFFICES ASSUME k # 0 PROVE k <= h
    BY <1>2
  <2>1. k \in DOMAIN File /\ taken[k] >= 1
    <3>1. k \in DOMAIN File /\ k <= k
      BY <1>2, LineCount
    <3> QED BY <3>1 DEF Progress
  <2>2. Ahead(toNode, 4 + k) /\ 4 + k \in Nat
    BY <1>2, <2>1 DEF QueueInv
  <2>3. 4 + k <= Turn(msg)
    BY <1>1, <1>2, <2>2
  <2> QED BY <1>1, <1>2, <2>3
<1>6. h <= k + 1
  <2> SUFFICES ASSUME k + 1 < h PROVE FALSE
    BY <1>2
  <2>1. k + 1 <= SentLines
    <3>1. Sent <= 5 + SentLines \/ SentLines = Len(File)
      BY <1>3, SentBounds
    <3>2. Sent \in Nat /\ SentLines \in Nat
      BY SentType
    <3> QED BY <1>1, <1>2, <3>1, <3>2
  <2>2. PICK l \in DOMAIN File : l = k + 1 /\ k < l
    <3>1. k + 1 \in DOMAIN File /\ k < k + 1
      BY <1>2, <1>4, LineCount
    <3> QED BY <3>1
  <2>3. \E i \in 1..Len(toNode) : Turn(toNode[i]) = 4 + l
    <3>1. Coming(toNode, k, SentLines)
      BY DEF Progress
    <3> QED BY <2>1, <2>2, <3>1 DEF Coming
  <2>4. Turn(msg) = 0 \/ Before(Turn(msg), 4 + l) \/ Turn(msg) = 4 + l
    BY <1>1, <2>3
  <2>5. l = k + 1 /\ Turn(msg) = 4 + h
    BY <1>1, <2>2
  <2> QED BY <1>2, <2>4, <2>5 DEF Before
<1>7. h = k \/ h = k + 1
  BY <1>2, <1>5, <1>6
<1> QED BY <1>3, <1>4, <1>7 DEF h

LEMMA TakenNext ==
    ASSUME Types, NEW msg, TakesLine(msg), msg.line \in DOMAIN File
    PROVE  \A l \in DOMAIN File :
              IF l = msg.line THEN taken'[l] >= 1 /\ (taken[l] >= 1 => taken'[l] > 1)
              ELSE taken'[l] = taken[l]
<1>1. PICK h \in DOMAIN File : h = msg.line
  OBVIOUS
<1>2. taken \in [DOMAIN File -> 0..2]
  BY DEF Types, MoreTypes
<1>3. taken' = [taken EXCEPT ![h] = IF taken[h] < 2 THEN taken[h] + 1 ELSE taken[h]]
  BY <1>1 DEF TakesLine
<1>4. taken[h] \in 0..2
  BY <1>2
<1>5. taken'[h] = IF taken[h] < 2 THEN taken[h] + 1 ELSE taken[h]
  BY <1>2, <1>3
<1>6. taken'[h] >= 1 /\ (taken[h] >= 1 => taken'[h] > 1)
  BY <1>4, <1>5
<1>7. ASSUME NEW l \in DOMAIN File, l # h PROVE taken'[l] = taken[l]
  BY <1>2, <1>3, <1>7
<1> QED BY <1>1, <1>6, <1>7

LEMMA StartOf ==
    ASSUME FileInOrder, NEW k \in Nat, k < Len(File)
    PROVE  Start \in Nat /\ EndOf(k) \in Nat /\ Start <= EndOf(k) /\ k \in 0..Len(File)
<1>1. Len(File) \in Nat /\ Start \in Nat
  BY FileSize
<1>2. k \in 0..Len(File) /\ 0 \in 0..k
  BY <1>1
<1>3. EndOf(0) = Start
  BY DEF EndOf
<1> QED BY <1>1, <1>2, <1>3, Ascends, EndType

(* The lines up to the next have been taken.                               *)
LEMMA OneMore ==
    ASSUME Types, FileInOrder, QueueInv, NEW msg, TakesLine(msg), NEW k \in 0..Len(File), Progress(k),
           k < Len(File), msg.line = k + 1,
           k + 1 < Len(File) => mode' = mode /\ FlashState(flash', boot', EndOf(k + 1)),
           k + 1 = Len(File) => mode' = "application" /\ Complete(flash')
    PROVE  Progress(k + 1)'
<1>1. k \in Nat /\ k + 1 \in DOMAIN File /\ \A l \in DOMAIN File : l \in Nat
  BY LineCount
<1>2. SentLines \in Nat /\ SentLines' = SentLines /\ pc' = pc /\ mode = "bootloader"
  BY SentType, SentSame DEF TakesLine
<1>3. Coming(toNode', k + 1, SentLines')
  <2>1. Coming(toNode, k, SentLines)
    BY DEF Progress
  <2>2. Turn(msg) = 4 + (k + 1)
    BY LineTurn
  <2> QED BY <1>1, <1>2, <2>1, <2>2, LineTurn
<1>4. \A l \in DOMAIN File : taken'[l] >= 1 <=> l <= k + 1
  <2>1. \A l \in DOMAIN File : taken[l] >= 1 <=> l <= k
    BY DEF Progress
  <2>2. \A l \in DOMAIN File : IF l = k + 1 THEN taken'[l] >= 1 ELSE taken'[l] = taken[l]
    BY <1>1, TakenNext
  <2>3. \A l \in DOMAIN File : l # k + 1 => (l <= k + 1 <=> l <= k)
    BY <1>1
  <2>4. k + 1 <= k + 1
    BY <1>1
  <2>5. ASSUME NEW l \in DOMAIN File PROVE taken'[l] >= 1 <=> l <= k + 1
    <3>1. CASE l = k + 1
      BY Zenon, <2>2, <2>4, <3>1
    <3>2. CASE l # k + 1
      BY Zenon, <2>1, <2>2, <2>3, <3>2
    <3> QED BY <3>1, <3>2
  <2> QED BY <2>5
<1>5. mode' = "application" => mode' # "bootloader"
  OBVIOUS
<1> QED BY Zenon, <1>2, <1>3, <1>4, <1>5 DEF Progress

LEMMA NextLineHeard ==
    ASSUME Types, FileInOrder, QueueInv, NEW msg, TakesLine(msg), NEW k \in 0..Len(File), Progress(k),
           k + 1 < Len(File), k < Len(File), msg.line = k + 1
    PROVE  Progress(k + 1)'
<1>1. PICK line : line = File[k + 1]
  OBVIOUS
<1>2. PICK s : s = Filled(line)
  OBVIOUS
<1>3. /\ k \in Nat /\ k + 1 \in DOMAIN File /\ k + 1 # Len(File)
      /\ line \in [first : Nat, words : Nat, last : BOOLEAN]
  <2>1. k \in Nat /\ k + 1 \in DOMAIN File
    BY LineCount
  <2>2. k + 1 # Len(File)
    BY LineCount
  <2> QED BY <1>1, <2>1, <2>2, FileLine
<1>4. line.first = EndOf(k) /\ EndOf(k + 1) = EndOf(k) + line.words
  BY <1>1, <1>3, NextLine
<1>5. Start \in Nat /\ Start <= EndOf(k) /\ FlashState(flash, boot, EndOf(k))
  BY <1>3, StartOf DEF Progress
<1>6. FlashState(s.flash, s.boot, EndOf(k + 1))
  <2>1. Grown(s, EndOf(k + 1))
    BY <1>2, <1>3, <1>4, <1>5, LineGrows DEF Types
  <2> QED BY <2>1 DEF Grown
<1>7. ~line.last
  BY <1>1, <1>3 DEF FileInOrder
<1>8. flash' = s.flash /\ boot' = s.boot /\ mode' = mode
  BY <1>1, <1>2, <1>7, LineEffect DEF TakesLine
<1> QED BY <1>3, <1>6, <1>8, OneMore

LEMMA LastLineHeard ==
    ASSUME Types, FileInOrder, QueueInv, NEW msg, TakesLine(msg), NEW k \in 0..Len(File), Progress(k),
           k + 1 = Len(File), k < Len(File), msg.line = k + 1
    PROVE  Progress(k + 1)'
<1>1. PICK line : line = File[k + 1]
  OBVIOUS
<1>2. PICK s : s = Filled(line)
  OBVIOUS
<1>3. /\ k \in Nat /\ k + 1 \in DOMAIN File
      /\ line \in [first : Nat, words : Nat, last : BOOLEAN] /\ line.words = 0
  <2>1. k \in Nat /\ k + 1 \in DOMAIN File
    BY LineCount
  <2> QED BY <1>1, <2>1, FileLine, FileSize
<1>4. s.flash = flash /\ s.boot = boot /\ s.ok /\ Sound(s)
  <2> DEFINE z == [flash |-> flash, boot |-> boot, ok |-> TRUE]
  <2>1. PICK g : Fill(g, z, line.first, line.words) /\ s = g[line.words]
    BY <1>2, <1>3, FilledIs
  <2>2. z.flash = flash /\ z.boot = boot /\ z.ok
    OBVIOUS
  <2>3. Sound(z)
    BY DEF Types, FlashInv
  <2> HIDE DEF z
  <2>4. s = z
    BY <1>3, <2>1 DEF Fill
  <2> QED BY <2>2, <2>3, <2>4
<1>5. k = Len(File) - 1
  BY <1>3, FileSize
<1>6. Complete(Finished(s).flash)
  <2>1. FlashState(flash, boot, EndOf(k))
    BY DEF Progress
  <2>2. FlashState(s.flash, s.boot, EndOf(Len(File) - 1))
    BY Zenon, <1>4, <1>5, <2>1
  <2> QED BY <1>4, <2>2, Completes
<1>7. line.last
  BY <1>1, <1>3 DEF FileInOrder
<1>8. flash' = Finished(s).flash /\ mode' = "application"
  BY <1>1, <1>2, <1>4, <1>7, LineEffect DEF TakesLine
<1>9. ~(k + 1 < Len(File))
  BY <1>5, FileSize
<1> QED BY <1>6, <1>8, <1>9, OneMore

LEMMA LineAgainHeard ==
    ASSUME Types, FileInOrder, QueueInv, NEW msg, TakesLine(msg), NEW k \in 0..Len(File), Progress(k),
           k < Len(File), msg.line = k, ~Excused'
    PROVE  Progress(k)'
<1>1. k \in Nat /\ k \in DOMAIN File /\ k # Len(File) /\ \A l \in DOMAIN File : l \in Nat
  <2>1. k \in DOMAIN File
    BY LineTurn
  <2>2. k # Len(File)
    BY LineCount
  <2> QED BY <2>1, <2>2, LineCount
<1>2. PICK line : line = File[k]
  OBVIOUS
<1>3. PICK s : s = Filled(line)
  OBVIOUS
<1>4. taken[k] >= 1 /\ \A l \in DOMAIN File : taken[l] >= 1 <=> l <= k
  <2>1. k <= k
    BY <1>1
  <2> QED BY <1>1, <2>1 DEF Progress
<1>5. taken'[k] > 1 /\ taken'[k] >= 1 /\ \A l \in DOMAIN File : l # k => taken'[l] = taken[l]
  BY <1>1, <1>4, TakenNext
<1>6. ~CrossesPage(line)
  BY <1>1, <1>2, <1>5 DEF Excused
<1>7. ~line.last
  BY <1>1, <1>2 DEF FileInOrder
<1>8. flash' = s.flash /\ boot' = s.boot /\ mode' = mode
  BY <1>2, <1>3, <1>7, LineEffect DEF TakesLine
<1>9. FlashState(flash', boot', EndOf(k))
  <2>1. EndOf(k) = line.first + line.words /\ line \in [first : Nat, words : Nat, last : BOOLEAN]
    <3>1. k # 0
      <4>1. 0 \in 0..Len(File)
        BY FileSize
      <4> QED BY <1>1, <4>1, LineCount
    <3> QED BY <1>1, <1>2, <3>1, FileLine DEF EndOf
  <2>2. Start \in Nat /\ Start <= line.first
    <3>1. PICK j \in Nat : j + 1 = k
      <4>1. k \in Nat \ {0}
        <5>1. 0 \in 0..Len(File)
          BY FileSize
        <5> QED BY <1>1, <5>1, LineCount
      <4>2. k - 1 \in Nat /\ k - 1 + 1 = k
        BY <4>1
      <4> QED BY <4>2
    <3>2. j < Len(File) /\ j + 1 < Len(File)
      BY <3>1, FileSize
    <3>3. line.first = EndOf(j)
      BY <1>2, <3>1, <3>2, NextLine
    <3> QED BY <3>2, <3>3, StartOf
  <2>3. FlashState(flash, boot, line.first + line.words)
    BY <2>1 DEF Progress
  <2> QED BY <1>3, <1>6, <1>8, <2>1, <2>2, <2>3, LineAgain DEF Types
<1>10. SentLines \in Nat /\ SentLines' = SentLines /\ pc' = pc
  BY SentType, SentSame DEF TakesLine
<1>11. Coming(toNode', k, SentLines)
  <2>1. Turn(msg) = 4 + k
    BY LineTurn
  <2>2. Turn(msg) \notin (4 + k + 1)..(4 + Len(File))
    BY <1>1, <2>1
  <2>3. Coming(toNode, k, SentLines)
    BY DEF Progress
  <2> QED BY <1>1, <1>10, <2>2, <2>3, LineTurn
<1>12. \A l \in DOMAIN File : taken'[l] >= 1 <=> l <= k
  BY Zenon, <1>4, <1>5
<1>13. pc \notin Early => mode = "bootloader"
  BY DEF Progress
<1> QED BY Zenon, <1>1, <1>8, <1>9, <1>10, <1>11, <1>12, <1>13 DEF Progress

LEMMA LineHeard ==
    ASSUME Types, FileInOrder, UploadInv, NEW msg, TakesLine(msg), Excused => Excused'
    PROVE  UploadInv'
<1>1. mode' = mode \/ mode' = "application"
  BY Zenon, LineEffect DEF TakesLine
<1>2. QueueInv
  BY DEF UploadInv
<1>3. mode' # "held" /\ (mode' = "bootloader" => mode = "bootloader")
  BY <1>1 DEF TakesLine
<1>4. msg.line \in DOMAIN File /\ Turn(msg) = 4 + msg.line
  BY <1>2, LineTurn
<1>5. \A l \in DOMAIN File : taken'[l] >= 1 => taken[l] >= 1 \/ Turn(msg) = 4 + l
  BY Zenon, <1>4, TakenNext
<1>6. QueueInv'
  BY <1>2, <1>3, <1>5, TakesQueue DEF TakesLine
<1>7. pc' \notin Early
  <2>1. Turn(msg) <= Sent /\ msg.line \in Nat \ {0}
    <3>1. 0 \in 0..Len(File)
      BY FileSize
    <3> QED BY <1>2, <1>4, <3>1, LineTurn, LineCount
  <2>2. pc' = pc
    BY DEF TakesLine
  <2> SUFFICES ASSUME pc \in Early PROVE FALSE
    BY <2>2
  <2>3. Sent <= 4 /\ Sent \in Nat
    BY SentBounds, SentType
  <2> QED BY <1>4, <2>1, <2>3
<1>8. ASSUME ~Excused' PROVE \E k \in 0..Len(File) : Progress(k)'
  <2>1. PICK k \in 0..Len(File) : Progress(k)
    BY <1>8 DEF UploadInv
  <2>2. k < Len(File) /\ (msg.line = k \/ msg.line = k + 1)
    BY <1>2, <2>1, NextOrAgain
  <2>3. k + 1 \in 0..Len(File) /\ (k + 1 < Len(File) \/ k + 1 = Len(File))
    BY <2>2, LineCount
  <2>4. CASE msg.line = k
    <3>1. Progress(k)'
      BY <1>2, <1>8, <2>1, <2>2, <2>4, LineAgainHeard
    <3> QED BY <3>1
  <2>5. CASE msg.line = k + 1
    <3>1. Progress(k + 1)'
      BY <1>2, <2>1, <2>2, <2>3, <2>5, NextLineHeard, LastLineHeard
    <3> QED BY <2>3, <3>1
  <2> QED BY <2>2, <2>4, <2>5
<1> QED BY <1>3, <1>6, <1>7, <1>8 DEF UploadInv, Fresh, Empty

-----------------------------------------------------------------------------
(* A whole step, and the theorem.                                          *)

(* Whatever the node takes does one of these.                              *)
LEMMA NodeTakesIs ==
    ASSUME Types, FileInOrder, NodeTakes, NEW msg, msg = Head(toNode)
    PROVE  /\ toNode # <<>> /\ toNode' = Tail(toNode) /\ msg \in LineMsg
           /\ UNCHANGED <<pc, lineNo, dataResponseRcvd>>
           /\ answers' = answers \/ (answers' = answers + 1 /\ mode = "bootloader")
           /\ \/ msg.name \in Pin /\ PinSet(msg.name) /\ answers' = answers /\ taken' = taken
              \/ (mode # "bootloader" \/ Turn(msg) = 0) /\ UNCHANGED <<taken, flash, boot, mode>>
              \/ msg.name = "erase" /\ mode = "bootloader" /\ EraseAll /\ taken' = taken
              \/ TakesLine(msg)
<1>1. /\ toNode # <<>> /\ toNode' = Tail(toNode) /\ UNCHANGED <<pc, lineNo, dataResponseRcvd>>
  BY DEF NodeTakes, guiVars
<1>2. /\ Len(File) \in Nat /\ DOMAIN File = 1..Len(File) /\ msg \in LineMsg
  <2>1. toNode \in Seq(LineMsg)
    BY SentType
  <2> QED BY <1>1, <2>1, SentType
<1>3. \/ msg.name \in Pin /\ msg.name # "line"
      \/ msg.name = "erase" /\ msg.name \notin Pin \cup SleepMode
      \/ msg.name = "line" /\ msg.name \notin Pin \cup SleepMode
      \/ msg.name = "string" /\ Turn(msg) = 0 /\ msg.name \notin Pin \cup SleepMode
      \/ msg.name \in SleepMode /\ msg.name # "line" /\ Turn(msg) = 0 /\ msg.name \notin Pin
  <2>1. PICK n : n = Turn(msg)
    OBVIOUS
  <2>2. \/ msg.name \in Pin /\ msg.name \notin {"erase", "line"}
        \/ msg.name = "erase" /\ msg.name \notin Pin
        \/ msg.name = "line" /\ msg.name \notin Pin
        \/ msg.name \in SleepMode \cup {"string"} /\ msg.name \notin Pin /\ Turn(msg) = 0
    BY Zenon, <1>2, TurnOf
  <2> QED BY Zenon, <2>2 DEF SleepMode
<1>4. CASE msg.name \in Pin /\ msg.name # "line"
  BY <1>1, <1>2, <1>4 DEF NodeTakes
<1>5. CASE msg.name \notin Pin /\ mode # "bootloader"
  BY <1>1, <1>2, <1>5 DEF NodeTakes, nodeVars
<1>6. CASE msg.name \in SleepMode /\ msg.name # "line" /\ Turn(msg) = 0 /\ msg.name \notin Pin
  BY <1>1, <1>2, <1>6 DEF NodeTakes, nodeVars
<1>7. CASE msg.name = "string" /\ Turn(msg) = 0 /\ msg.name \notin Pin \cup SleepMode /\ mode = "bootloader"
  BY <1>1, <1>2, <1>7 DEF NodeTakes, SendsAnswer
<1>8. CASE msg.name = "erase" /\ msg.name \notin Pin \cup SleepMode /\ mode = "bootloader"
  BY <1>1, <1>2, <1>8 DEF NodeTakes, SendsAnswer
<1>9. CASE msg.name = "line" /\ msg.name \notin Pin \cup SleepMode /\ mode = "bootloader"
  BY <1>1, <1>2, <1>9 DEF NodeTakes, SendsAnswer, TakesLine
<1> QED BY Zenon, <1>3, <1>4, <1>5, <1>6, <1>7, <1>8, <1>9

LEMMA NodeTakesMore ==
    ASSUME Types, FileInOrder, UploadInv, NodeTakes, Excused => Excused'
    PROVE  UploadInv'
<1>1. PICK msg : msg = Head(toNode)
  OBVIOUS
<1>2. /\ toNode # <<>> /\ toNode' = Tail(toNode) /\ msg \in LineMsg
      /\ UNCHANGED <<pc, lineNo, dataResponseRcvd>>
      /\ answers' = answers \/ (answers' = answers + 1 /\ mode = "bootloader")
      /\ \/ msg.name \in Pin /\ PinSet(msg.name) /\ answers' = answers /\ taken' = taken
         \/ (mode # "bootloader" \/ Turn(msg) = 0) /\ UNCHANGED <<taken, flash, boot, mode>>
         \/ msg.name = "erase" /\ mode = "bootloader" /\ EraseAll /\ taken' = taken
         \/ TakesLine(msg)
  BY <1>1, NodeTakesIs
<1>3. CASE msg.name \in Pin /\ PinSet(msg.name) /\ answers' = answers /\ taken' = taken
  BY <1>1, <1>2, <1>3, PinKeeps
<1>4. CASE (mode # "bootloader" \/ Turn(msg) = 0) /\ UNCHANGED <<taken, flash, boot, mode>>
  BY <1>1, <1>2, <1>4, PlainKeeps
<1>5. CASE msg.name = "erase" /\ mode = "bootloader" /\ EraseAll /\ taken' = taken
  BY <1>1, <1>2, <1>5, EraseHeard
<1>6. CASE TakesLine(msg)
  BY <1>6, LineHeard
<1> QED BY <1>2, <1>3, <1>4, <1>5, <1>6

LEMMA AnswerComesMore ==
    ASSUME Types, FileInOrder, UploadInv, NEW kept \in BOOLEAN, AnswerComes(kept), Excused => Excused'
    PROVE  UploadInv'
<1>1. UNCHANGED <<pc, lineNo, toNode, mode, flash, boot, taken>>
  BY DEF AnswerComes, guiVars, nodeVars
<1>2. answers > 0
  BY DEF AnswerComes
<1> QED BY <1>1, <1>2, AnswerKeeps

LEMMA NextUploadInv ==
    ASSUME Types, FileInOrder, UploadInv, [Next]_vars, Types'
    PROVE  UploadInv'
<1>1. Excused => Excused'
  BY ExcusedStays
<1>2. CASE GUI
  BY <1>1, <1>2, GuiMoves, GuiKeeps
<1>3. CASE NodeTakes
  BY <1>1, <1>3, NodeTakesMore
<1>4. CASE LoseCommand
  BY <1>1, <1>4, LoseKeeps
<1>5. CASE OperatorSends
  BY <1>1, <1>5, OperatorKeeps
<1>6. ASSUME NEW kept \in BOOLEAN, AnswerComes(kept) PROVE UploadInv'
  BY <1>1, <1>6, AnswerComesMore
<1>7. CASE UNCHANGED vars
  <2>1. /\ UNCHANGED <<pc, lineNo, toNode, mode, flash, boot, taken>>
        /\ answers' = answers /\ dataResponseRcvd' = dataResponseRcvd
    BY <1>7 DEF vars, guiVars, nodeVars
  <2> QED BY <1>1, <2>1, AnswerKeeps
<1> QED BY <1>2, <1>3, <1>4, <1>5, <1>6, <1>7 DEF Next

LEMMA NextMoreTypes ==
    ASSUME Types, FileInOrder, [Next]_vars
    PROVE  MoreTypes'
<1>1. /\ answers \in Nat /\ dataResponseRcvd \in BOOLEAN /\ taken \in [DOMAIN File -> 0..2]
      /\ pc \in Early => lineNo = 1
  BY DEF Types, MoreTypes
<1> USE DEF Elsewhere, nodeVars, guiVars
<1>2. CASE GUI
  <2>1. GuiMove
    BY <1>2, GuiMoves
  <2>2. /\ answers' = answers /\ taken' = taken /\ dataResponseRcvd' \in BOOLEAN
        /\ pc' \in Early => pc \in Early /\ lineNo' = lineNo
    BY <2>1 DEF GuiMove
  <2> QED BY <1>1, <2>2 DEF MoreTypes, Early
<1>3. CASE NodeTakes
  <2>1. PICK msg : msg = Head(toNode)
    OBVIOUS
  <2>2. /\ UNCHANGED <<pc, lineNo, dataResponseRcvd>> /\ (answers' = answers \/ answers' = answers + 1)
        /\ taken' = taken \/ TakesLine(msg)
    BY <1>3, <2>1, NodeTakesIs
  <2>3. taken' \in [DOMAIN File -> 0..2]
    <3>1. CASE taken' = taken
      BY <1>1, <3>1
    <3>2. CASE TakesLine(msg)
      <4>1. PICK h : taken' = [taken EXCEPT ![h] = IF taken[h] < 2 THEN taken[h] + 1 ELSE taken[h]]
        BY <3>2 DEF TakesLine
      <4>2. PICK n : n = IF taken[h] < 2 THEN taken[h] + 1 ELSE taken[h]
        OBVIOUS
      <4>3. h \in DOMAIN File => n \in 0..2
        <5> SUFFICES ASSUME h \in DOMAIN File PROVE n \in 0..2
          OBVIOUS
        <5>1. taken[h] \in 0..2
          BY <1>1
        <5> QED BY <4>2, <5>1
      <4>4. taken' = [taken EXCEPT ![h] = n]
        BY <4>1, <4>2
      <4> QED BY <1>1, <4>3, <4>4
    <3> QED BY <2>2, <3>1, <3>2
  <2>4. answers' \in Nat
    BY <1>1, <2>2
  <2>5. (pc' \in Early => lineNo' = 1) /\ dataResponseRcvd' \in BOOLEAN
    BY Zenon, <1>1, <2>2 DEF Early
  <2> QED BY Zenon, <2>3, <2>4, <2>5 DEF MoreTypes
<1>4. CASE LoseCommand \/ OperatorSends \/ UNCHANGED vars
  <2>1. UNCHANGED <<pc, lineNo, answers, dataResponseRcvd, taken>>
    BY <1>4 DEF LoseCommand, OperatorSends, vars
  <2> QED BY <1>1, <2>1 DEF MoreTypes, Early
<1>5. ASSUME NEW kept \in BOOLEAN, AnswerComes(kept) PROVE MoreTypes'
  <2>1. UNCHANGED <<pc, lineNo, taken>> /\ answers > 0 /\ answers' = answers - 1
        /\ (dataResponseRcvd' = TRUE \/ dataResponseRcvd' = dataResponseRcvd)
    BY <1>5 DEF AnswerComes
  <2>2. answers' \in Nat
    BY <1>1, <2>1
  <2>3. (pc' \in Early => lineNo' = 1) /\ dataResponseRcvd' \in BOOLEAN
    BY Zenon, <1>1, <2>1 DEF Early
  <2>4. taken' \in [DOMAIN File -> 0..2]
    BY <1>1, <2>1
  <2> QED BY Zenon, <2>2, <2>3, <2>4 DEF MoreTypes
<1> QED BY <1>2, <1>3, <1>4, <1>5 DEF Next

(* Everything that holds on the way.                                       *)
FileInv == PinInv /\ Types /\ UploadInv

LEMMA NextFileInv == FileInOrder /\ FileInv /\ [Next]_vars => FileInv'
<1> SUFFICES ASSUME FileInOrder, FileInv, [Next]_vars PROVE FileInv'
  OBVIOUS
<1>1. PinInv'
  BY NextPinInv DEF FileInv
<1>2. LinesOfFile' /\ FlashInv' /\ MoreTypes'
  BY NextLinesOfFile, NextFlashInv, NextMoreTypes DEF FileInv, Types
<1>3. Types'
  BY <1>1, <1>2 DEF Types, PinInv
<1>4. UploadInv'
  BY <1>3, NextUploadInv DEF FileInv
<1> QED BY <1>1, <1>3, <1>4 DEF FileInv

LEMMA NothingTaken ==
    ASSUME NEW D, NEW f, f = [i \in D |-> 0]
    PROVE  f \in [D -> 0..2] /\ \A l \in D : f[l] = 0 /\ ~(f[l] >= 1)
OBVIOUS

LEMMA InitFileInv == FileInOrder /\ Init => FileInv
<1> SUFFICES ASSUME FileInOrder, Init PROVE FileInv
  OBVIOUS
<1>1. PinInv /\ LinesOfFile /\ FlashInv
  BY InitPinInv, InitFlashInv
<1>2. /\ pc \in {"SM pin", "P1 low"} /\ lineNo = 1 /\ toNode = <<>>
      /\ answers = 0 /\ dataResponseRcvd = FALSE /\ mode = "application" /\ boot = Fresh
      /\ taken = [i \in DOMAIN File |-> 0]
  BY DEF Init
<1>3. Types
  <2>1. taken \in [DOMAIN File -> 0..2]
    BY Zenon, <1>2, NothingTaken
  <2>2. answers \in Nat /\ dataResponseRcvd \in BOOLEAN /\ lineNo = 1
    BY DEF Init
  <2> QED BY Zenon, <1>1, <2>1, <2>2 DEF Types, MoreTypes, PinInv
<1>4. Sent = 0 /\ SentLines = 0
  BY Zenon, <1>2, SentAt DEF Early
<1>5. QueueInv
  <2>1. Len(toNode) = 0
    BY DEF Init
  <2>2. \A l \in DOMAIN File : ~(taken[l] >= 1)
    BY Zenon, <1>2, NothingTaken
  <2>3. Ordered(toNode) /\ Within(toNode, Sent)
    BY <2>1 DEF Ordered, Within
  <2>4. mode # "bootloader"
    BY <1>2
  <2> QED BY Zenon, <2>2, <2>3, <2>4 DEF QueueInv
<1>6. Progress(0)
  <2>1. \A l \in DOMAIN File : taken[l] = 0 /\ l \in Nat \ {0}
    <3>1. 0 \in 0..Len(File)
      BY FileSize
    <3> QED BY <1>2, <3>1, LineCount
  <2>2. \A l \in DOMAIN File : (taken[l] >= 1 <=> l <= 0) /\ ~(0 < l /\ l <= 0)
    BY <2>1
  <2>3. pc \in Early /\ EndOf(0) = Start /\ 0 # Len(File) /\ Start \in Nat
    BY <1>2, FileSize DEF Early, EndOf
  <2>4. FlashState(flash, boot, EndOf(0))
    BY <1>2, <2>3, FreshState
  <2> QED BY <1>4, <2>2, <2>3, <2>4 DEF Progress, Coming
<1>7. 0 \in 0..Len(File)
  BY FileSize
<1>8. UploadInv
  <2>1. ~dataResponseRcvd /\ boot = Fresh
    BY Zenon, <1>2
  <2>2. ~(answers > 0)
    <3>1. answers = 0
      BY Zenon, <1>2
    <3> QED BY <3>1
  <2> QED BY Zenon, <1>5, <1>6, <1>7, <2>1, <2>2 DEF UploadInv
<1> QED BY <1>1, <1>3, <1>8 DEF FileInv

LEMMA FileDone == FileInOrder /\ FileInv => FileInFlash
<1> SUFFICES ASSUME FileInOrder, FileInv, Ended, failPoint = 0, "line" \notin commandLost,
                    \A i \in DOMAIN File : CrossesPage(File[i]) => taken[i] <= 1
             PROVE  \A w \in Written : w < AppEnd => flash[w] = w
  BY DEF FileInFlash
<1>1. ~Excused
  <2>1. ASSUME NEW i \in DOMAIN File, taken[i] <= 1 PROVE ~(taken[i] > 1)
    <3>1. taken[i] \in 0..2
      BY DEF FileInv, Types, MoreTypes
    <3> QED BY <2>1, <3>1
  <2> QED BY <2>1 DEF Excused
<1>2. PICK k \in 0..Len(File) : Progress(k)
  BY <1>1 DEF FileInv, UploadInv
<1>3. k = Len(File)
  <2> SUFFICES ASSUME k < Len(File) PROVE FALSE
    BY LineCount
  <2>1. pc = "done" /\ Len(toNode) = 0
    BY DEF Ended
  <2>2. SentLines = Len(File)
    BY <2>1, SentAt
  <2>3. PICK l \in DOMAIN File : k < l /\ l <= Len(File)
    <3>1. k + 1 \in DOMAIN File /\ k \in Nat
      BY LineCount
    <3>2. k < k + 1 /\ k + 1 <= Len(File)
      BY <3>1, LineCount
    <3> QED BY <3>1, <3>2
  <2>4. \E i \in 1..Len(toNode) : Turn(toNode[i]) = 4 + l
    BY <1>2, <2>2, <2>3 DEF Progress, Coming
  <2> QED BY <2>1, <2>4
<1>4. Complete(flash)
  BY <1>2, <1>3 DEF Progress
<1> QED BY <1>4 DEF Complete

(* For every file in order, of any length and with any pages: an upload    *)
(* that reports no failure, lost no line and repeated no line that crosses *)
(* into a next page has every word of the file in the flash.               *)
THEOREM FileGetsIntoFlash == ASSUME FileInOrder PROVE Spec => []FileInFlash
<1>1. Init => FileInv
  BY InitFileInv
<1>2. FileInv /\ [Next]_vars => FileInv'
  BY NextFileInv
<1>3. FileInv => FileInFlash
  BY FileDone
<1> QED BY <1>1, <1>2, <1>3, PTL DEF Spec

=============================================================================
