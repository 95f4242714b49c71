-------------------------- MODULE CountLedgerProofs --------------------------
(***************************************************************************)
(* Proofs about CountProtocol and CountLedger for every set of nodes and   *)
(* every bound.  First the types of the protocol, and that the subtraction *)
(* of the reported count stays in range (IInv); then that no step invents  *)
(* a pulse (LInv), that whatever a node clears an answer of the base       *)
(* station has earned (EInv), and that what the base station records of a  *)
(* node is never more, and where nothing has interfered exactly, what the  *)
(* node has cleared (AInv).                                                *)
(***************************************************************************)
EXTENDS CountLedger, FiniteSetTheorems, TLAPS

(* The inductive invariant.  SubtractionInRange alone is not inductive: at *)
(* the store, the copy of the counter must not exceed the counter, which   *)
(* interrupts may have advanced since the load.                            *)
CountsInOrder ==
    \A n \in Node : /\ lastCount[n] <= counter[n]
                    /\ At(n, "store") => /\ lastCount[n] <= register[n]
                                         /\ register[n] <= counter[n]

IInv == TypeOK /\ CountsInOrder

-----------------------------------------------------------------------------
(* What the operators on messages, cycles and owed frames return.          *)

LEMMA SendUpType ==
    ASSUME NEW n \in Node, NEW msg \in UpMsg,
           uplink \in [Node -> Seq(UpMsg)], SendUp(n, msg)
    PROVE  uplink' \in [Node -> Seq(UpMsg)]
BY DEF SendUp, Sent

LEMMA SendDownType ==
    ASSUME NEW n \in Node, NEW msg \in DownMsg,
           downlink \in [Node -> Seq(DownMsg)], SendDown(n, msg)
    PROVE  downlink' \in [Node -> Seq(DownMsg)]
BY DEF SendDown, Sent

LEMMA TakeUpType ==
    ASSUME NEW n \in Node, uplink \in [Node -> Seq(UpMsg)],
           Arrived(uplink[n]), TakeUp(n)
    PROVE  uplink' \in [Node -> Seq(UpMsg)]
BY DEF TakeUp, Arrived

LEMMA TakeDownType ==
    ASSUME NEW n \in Node, downlink \in [Node -> Seq(DownMsg)],
           Arrived(downlink[n]), TakeDown(n)
    PROVE  downlink' \in [Node -> Seq(DownMsg)]
BY DEF TakeDown, Arrived

LEMMA InitialCycleType == InitialCycle \in Cycle
BY DEF InitialCycle, Cycle, Stage

LEMMA EnteredType == ASSUME NEW c \in Cycle PROVE Entered(c) \in Cycle
<1>1. PassAssociation(c) \in Cycle
  BY DEF PassAssociation, Cycle, Stage
<1>2. ASSUME NEW d \in Cycle PROVE PassBattery(d) \in Cycle
  BY DEF PassBattery, Cycle, Stage
<1> QED BY <1>1, <1>2 DEF Entered

LEMMA SendingType == ASSUME NEW c \in Cycle PROVE Sending(c) \in Cycle
<1> DEFINE tries == IF c.retryEnable THEN c.retryCount + 1 ELSE c.retryCount
<1>1. tries \in Nat
  BY DEF Cycle
<1> HIDE DEF tries
<1>2. [c EXCEPT !.retryCount = tries, !.retryEnable = TRUE] \in Cycle
  BY <1>1 DEF Cycle
<1> QED BY <1>2 DEF Sending, tries

LEMMA HoldRetryType ==
    ASSUME NEW c \in Cycle, NEW stage PROVE HoldRetry(c, stage) \in Cycle
BY DEF HoldRetry, Cycle

LEMMA JudgedType == ASSUME NEW c \in Cycle, NEW cmd PROVE Judged(c, cmd) \in Cycle
BY HoldRetryType DEF Judged, Cycle, Stage

LEMMA OwedType ==
    ASSUME NEW p \in [LocalFrame -> Nat], NEW f \in LocalFrame
    PROVE  Owed(p, f) \in [LocalFrame -> Nat]
BY DEF Owed

-----------------------------------------------------------------------------
(* Each step of a node keeps the invariant.  Goto keeps pc in PC and, as   *)
(* only LoadCount goes to "store", the other steps have nothing to show of *)
(* the register.                                                           *)

LEMMA WakeUpPC ==
    ASSUME NEW n \in Node, pc \in [Node -> PC], WakeUp(n)
    PROVE  /\ pc' \in [Node -> PC]
           /\ \A m \in Node : pc'[m] = "store" <=> pc[m] = "store"
BY DEF WakeUp, Goto, At, PC

LEMMA CountISRKeeps ==
    ASSUME IInv, NEW n \in Node, CountISR(n), UNCHANGED baseVars PROVE IInv'
<1> USE DEF IInv, TypeOK, NodeTypeOK
<1>1. pc' \in [Node -> PC] /\ \A m \in Node : pc'[m] = "store" <=> pc[m] = "store"
  BY WakeUpPC DEF CountISR
<1>2. counter' \in [Node -> Nat] /\ \A m \in Node : counter[m] <= counter'[m]
  BY DEF CountISR
<1>3. NodeTypeOK'
  BY <1>1, <1>2 DEF CountISR, timerVars
<1>4. LinkTypeOK' /\ BaseTypeOK'
  BY DEF CountISR, linkVars, baseVars, LinkTypeOK, BaseTypeOK
<1>5. CountsInOrder'
  BY <1>1, <1>2 DEF CountISR, CountsInOrder, At
<1> QED BY <1>3, <1>4, <1>5

LEMMA WdtISRKeeps ==
    ASSUME IInv, NEW n \in Node, WdtISR(n), UNCHANGED baseVars PROVE IInv'
<1> USE DEF IInv, TypeOK, NodeTypeOK
<1>1. pc' \in [Node -> PC] /\ \A m \in Node : pc'[m] = "store" <=> pc[m] = "store"
  BY WakeUpPC DEF WdtISR
<1> DEFINE due == Due(wdtCounter[n] + 1, wakeInterval[n])
<1>2. (transmitMessage[n] \/ due) \in BOOLEAN
  OBVIOUS
<1>3. transmitMessage' \in [Node -> BOOLEAN]
  BY <1>2, Zenon DEF WdtISR
<1>4. wdtCounter' \in [Node -> Nat]
  BY DEF WdtISR
<1>5. NodeTypeOK'
  BY <1>1, <1>3, <1>4 DEF WdtISR
<1>6. LinkTypeOK' /\ BaseTypeOK'
  BY DEF WdtISR, linkVars, baseVars, LinkTypeOK, BaseTypeOK
<1>7. CountsInOrder'
  BY <1>1 DEF WdtISR, CountsInOrder, At
<1> QED BY <1>5, <1>6, <1>7

LEMMA BootKeeps ==
    ASSUME IInv, NEW n \in Node, Boot(n), UNCHANGED baseVars PROVE IInv'
<1> USE DEF IInv, TypeOK, NodeTypeOK
<1>3. NodeTypeOK'
  BY DEF Boot, Goto, PC, NothingPending
<1>4. LinkTypeOK' /\ BaseTypeOK'
  BY DEF Boot, linkVars, baseVars, LinkTypeOK, BaseTypeOK
<1>5. CountsInOrder'
  BY DEF Boot, CountsInOrder, At, Goto
<1> QED BY <1>3, <1>4, <1>5

LEMMA TransmitKeeps ==
    ASSUME IInv, NEW n \in Node, Transmit(n), UNCHANGED baseVars PROVE IInv'
<1> USE DEF IInv, TypeOK, NodeTypeOK
<1>1. cycle' \in [Node -> Cycle]
  BY EnteredType, SendingType DEF Transmit
<1>2. pending' \in [Node -> [LocalFrame -> Nat]]
  BY OwedType DEF Transmit, LocalFrame
<1>3. NodeTypeOK'
  BY <1>1, <1>2 DEF Transmit, Goto, PC, timerVars
<1>4. DataWord(n) \in UpMsg
  BY DEF DataWord, UpMsg
<1>5. LinkTypeOK' /\ BaseTypeOK'
  BY <1>4, SendUpType DEF Transmit, baseVars, LinkTypeOK, BaseTypeOK
<1>6. CountsInOrder'
  BY DEF Transmit, CountsInOrder, At, Goto
<1> QED BY <1>3, <1>5, <1>6

LEMMA BeginPollKeeps ==
    ASSUME IInv, NEW n \in Node, BeginPoll(n), UNCHANGED baseVars PROVE IInv'
<1> USE DEF IInv, TypeOK, NodeTypeOK
<1>0. sleepDelay' \in [Node -> Nat] /\ lastCount' \in [Node -> Nat]
  BY DEF BeginPoll, NoteCount
<1>1. NodeTypeOK'
  BY <1>0 DEF BeginPoll, Goto, PC
<1>2. LinkTypeOK' /\ BaseTypeOK'
  BY DEF BeginPoll, linkVars, baseVars, LinkTypeOK, BaseTypeOK
<1>3. CountsInOrder'
  BY DEF BeginPoll, NoteCount, CountsInOrder, At, Goto
<1> QED BY <1>1, <1>2, <1>3

LEMMA BeginCycleKeeps ==
    ASSUME IInv, NEW n \in Node, BeginCycle(n), UNCHANGED baseVars PROVE IInv'
<1> USE DEF IInv, TypeOK, NodeTypeOK
<1>0. sleepDelay' \in [Node -> Nat] /\ lastCount' \in [Node -> Nat]
  BY DEF BeginCycle, NoteCount
<1>a. cycle' \in [Node -> Cycle] /\ transmitMessage' \in [Node -> BOOLEAN]
  BY InitialCycleType DEF BeginCycle
<1>1. NodeTypeOK'
  BY <1>0, <1>a DEF BeginCycle, Goto, PC
<1>2. LinkTypeOK' /\ BaseTypeOK'
  BY DEF BeginCycle, linkVars, baseVars, LinkTypeOK, BaseTypeOK
<1>3. CountsInOrder'
  BY DEF BeginCycle, NoteCount, CountsInOrder, At, Goto
<1> QED BY <1>1, <1>2, <1>3

LEMMA SettleKeeps ==
    ASSUME IInv, NEW n \in Node, Settle(n), UNCHANGED baseVars PROVE IInv'
<1> USE DEF IInv, TypeOK, NodeTypeOK
<1>a. {"top", "sleep"} \subseteq PC
  BY DEF PC
<1>b. \E d \in Nat, p \in {"top", "sleep"} :
         sleepDelay' = [sleepDelay EXCEPT ![n] = d] /\ pc' = [pc EXCEPT ![n] = p]
  <2>1. CASE Unsettled(sleepDelay[n], counter[n], lastCount[n])
    <3>1. sleepDelay[n] + 1 \in Nat
      OBVIOUS
    <3>2. /\ sleepDelay' = [sleepDelay EXCEPT ![n] = sleepDelay[n] + 1]
          /\ pc' = [pc EXCEPT ![n] = "top"]
      BY <2>1 DEF Settle, Goto
    <3> QED BY <3>1, <3>2
  <2>2. CASE ~Unsettled(sleepDelay[n], counter[n], lastCount[n])
    <3>1. (IF stayAwake[n] THEN "top" ELSE "sleep") \in {"top", "sleep"}
      OBVIOUS
    <3>2. /\ sleepDelay' = [sleepDelay EXCEPT ![n] = 0]
          /\ pc' = [pc EXCEPT ![n] = IF stayAwake[n] THEN "top" ELSE "sleep"]
      BY <2>2 DEF Settle, Goto
    <3> QED BY <3>1, <3>2, 0 \in Nat
  <2> QED BY <2>1, <2>2
<1>0. sleepDelay' \in [Node -> Nat] /\ pc' \in [Node -> PC]
  BY <1>a, <1>b
<1>1. NodeTypeOK'
  BY <1>0 DEF Settle
<1>2. LinkTypeOK' /\ BaseTypeOK'
  BY DEF Settle, linkVars, baseVars, LinkTypeOK, BaseTypeOK
<1>3. CountsInOrder'
  BY DEF Settle, CountsInOrder, At, Goto
<1> QED BY <1>1, <1>2, <1>3

LEMMA SleepKeeps ==
    ASSUME IInv, NEW n \in Node, Sleep(n), UNCHANGED baseVars PROVE IInv'
<1> USE DEF IInv, TypeOK, NodeTypeOK
<1>1. NodeTypeOK'
  BY DEF Sleep, Goto, PC, timerVars
<1>2. LinkTypeOK' /\ BaseTypeOK'
  BY DEF Sleep, linkVars, baseVars, LinkTypeOK, BaseTypeOK
<1>3. CountsInOrder'
  BY DEF Sleep, CountsInOrder, At, Goto
<1> QED BY <1>1, <1>2, <1>3

LEMMA QueryKeeps ==
    ASSUME IInv, NEW n \in Node, NEW stage, NEW frame \in LocalFrame,
           Query(n, stage, frame), UNCHANGED baseVars
    PROVE  IInv'
<1> USE DEF IInv, TypeOK, NodeTypeOK
<1>1. cycle' \in [Node -> Cycle]
  BY EnteredType, SendingType DEF Query
<1>2. pending' \in [Node -> [LocalFrame -> Nat]]
  BY OwedType DEF Query
<1>3. NodeTypeOK'
  BY <1>1, <1>2 DEF Query, Goto, PC, timerVars
<1>4. LinkTypeOK' /\ BaseTypeOK'
  BY DEF Query, linkVars, baseVars, LinkTypeOK, BaseTypeOK
<1>5. CountsInOrder'
  BY DEF Query, CountsInOrder, At, Goto
<1> QED BY <1>3, <1>4, <1>5

LEMMA AbandonKeeps ==
    ASSUME IInv, NEW n \in Node, Abandon(n), UNCHANGED baseVars PROVE IInv'
<1> USE DEF IInv, TypeOK, NodeTypeOK
<1>1. NodeTypeOK'
  BY InitialCycleType DEF Abandon, Goto, PC, timerVars
<1>2. LinkTypeOK' /\ BaseTypeOK'
  BY SendUpType DEF Abandon, Reply, UpMsg, baseVars, LinkTypeOK, BaseTypeOK
<1>3. CountsInOrder'
  BY DEF Abandon, CountsInOrder, At, Goto
<1> QED BY <1>1, <1>2, <1>3

LEMMA AcceptKeeps ==
    ASSUME IInv, NEW n \in Node, Accept(n), UNCHANGED baseVars PROVE IInv'
<1> USE DEF IInv, TypeOK, NodeTypeOK
<1>1. cycle' \in [Node -> Cycle]
  BY EnteredType DEF Accept
<1>2. pending' \in [Node -> [LocalFrame -> Nat]]
  BY OwedType DEF Accept, LocalFrame
<1>3. NodeTypeOK'
  BY <1>1, <1>2 DEF Accept, Goto, PC, timerVars
<1>4. LinkTypeOK' /\ BaseTypeOK'
  BY SendUpType DEF Accept, Reply, UpMsg, baseVars, LinkTypeOK, BaseTypeOK
<1>5. CountsInOrder'
  BY DEF Accept, CountsInOrder, At, Goto
<1> QED BY <1>3, <1>4, <1>5

LEMMA LoadCountKeeps ==
    ASSUME IInv, NEW n \in Node, LoadCount(n), UNCHANGED baseVars PROVE IInv'
<1> USE DEF IInv, TypeOK, NodeTypeOK
<1>1. NodeTypeOK'
  BY DEF LoadCount, Goto, PC, timerVars
<1>2. LinkTypeOK' /\ BaseTypeOK'
  BY DEF LoadCount, linkVars, baseVars, LinkTypeOK, BaseTypeOK
<1>3. CountsInOrder'
  BY DEF LoadCount, CountsInOrder, At, Goto
<1> QED BY <1>1, <1>2, <1>3

LEMMA CompletedType == ASSUME NEW c \in Cycle PROVE Completed(c) \in Cycle
BY DEF Completed, Cycle, Stage

LEMMA StoreCountKeeps ==
    ASSUME IInv, NEW n \in Node, StoreCount(n), UNCHANGED baseVars PROVE IInv'
<1> USE DEF IInv, TypeOK, NodeTypeOK
<1>1. cycle' \in [Node -> Cycle]
  BY CompletedType DEF StoreCount
<1>2. register[n] - lastCount[n] \in Nat
  BY DEF StoreCount, CountsInOrder, At
<1>3. NodeTypeOK'
  BY <1>1, <1>2 DEF StoreCount, Goto, PC, timerVars, Remaining
<1>4. LinkTypeOK' /\ BaseTypeOK'
  BY DEF StoreCount, linkVars, baseVars, LinkTypeOK, BaseTypeOK
<1>5. CountsInOrder'
  BY <1>2 DEF StoreCount, CountsInOrder, At, Goto, Remaining
<1> QED BY <1>3, <1>4, <1>5

-----------------------------------------------------------------------------
(* The outcomes of interpretMessage: none of them touches the counts, and  *)
(* main goes on to "stage" or "settle".                                    *)

LEMMA ResumeKeeps ==
    ASSUME IInv, NEW n \in Node, NEW c \in Cycle, Resume(n, c),
           UNCHANGED <<heardVars, baseVars>>,
           wakeInterval' \in [Node -> Nat \ {0}], stayAwake' \in [Node -> BOOLEAN],
           pending' \in [Node -> [LocalFrame -> Nat]], LinkTypeOK'
    PROVE  IInv'
<1> USE DEF IInv, TypeOK, NodeTypeOK
<1>1. cycle' \in [Node -> Cycle]
  BY InitialCycleType DEF Resume
<1>2. pc' \in [Node -> PC] /\ \A m \in Node : pc'[m] = "store" => pc[m] = "store"
  BY DEF Resume, Goto, At, PC
<1>3. NodeTypeOK'
  BY <1>1, <1>2 DEF heardVars
<1>4. BaseTypeOK'
  BY DEF baseVars, BaseTypeOK
<1>5. CountsInOrder'
  BY <1>2 DEF heardVars, CountsInOrder, At
<1> QED BY <1>3, <1>4, <1>5

LEMMA AnsweredType ==
    ASSUME IInv, NEW n \in Node, NEW frame \in LocalFrame, Answered(n, frame)
    PROVE  /\ pending' \in [Node -> [LocalFrame -> Nat]]
           /\ LinkTypeOK'
           /\ wakeInterval' \in [Node -> Nat \ {0}] /\ stayAwake' \in [Node -> BOOLEAN]
           /\ UNCHANGED heardVars
<1> USE DEF IInv, TypeOK, NodeTypeOK
<1>1. pending[n][frame] - 1 \in Nat
  BY DEF Answered
<1>2. pending' \in [Node -> [LocalFrame -> Nat]]
  BY <1>1 DEF Answered
<1> QED BY <1>2 DEF Answered, linkVars, LinkTypeOK

LEMMA HearKeeps ==
    ASSUME IInv, NEW n \in Node, Hear(n), UNCHANGED baseVars PROVE IInv'
<1> USE DEF IInv, TypeOK, NodeTypeOK
<1>c. cycle[n] \in Cycle
  OBVIOUS
<1>1. CASE HearNothing(n)
  <2>1. LinkTypeOK'
    BY <1>1 DEF HearNothing, linkVars, LinkTypeOK
  <2>2. UNCHANGED heardVars /\ Resume(n, cycle[n])
    BY <1>1 DEF HearNothing
  <2>3. /\ wakeInterval' \in [Node -> Nat \ {0}] /\ stayAwake' \in [Node -> BOOLEAN]
        /\ pending' \in [Node -> [LocalFrame -> Nat]]
    BY <1>1 DEF HearNothing
  <2> QED BY <1>c, <2>1, <2>2, <2>3, ResumeKeeps
<1>2. CASE HearAssociation(n)
  <2>1. PICK assoc \in BOOLEAN :
            Resume(n, [HoldRetry(cycle[n], "associationCheck") EXCEPT
                           !.associated = assoc /\ cycle[n].stage = "associationCheck"])
    BY <1>2 DEF HearAssociation
  <2>2. HoldRetry(cycle[n], "associationCheck") \in Cycle
    BY <1>c, HoldRetryType
  <2>3. (assoc /\ cycle[n].stage = "associationCheck") \in BOOLEAN
    OBVIOUS
  <2>4. [HoldRetry(cycle[n], "associationCheck") EXCEPT
             !.associated = assoc /\ cycle[n].stage = "associationCheck"] \in Cycle
    BY <2>2, <2>3 DEF Cycle
  <2> QED BY <1>2, <2>1, <2>4, AnsweredType, ResumeKeeps DEF HearAssociation, LocalFrame
<1>3. CASE HearBattery(n)
  <2> DEFINE ok == cycle[n].stage \in {"associationCheck", "batteryCheck"}
             c == [HoldRetry(cycle[n], "batteryCheck") EXCEPT !.batteryCheckOK = ok]
  <2>1. HoldRetry(cycle[n], "batteryCheck") \in Cycle /\ ok \in BOOLEAN
    BY <1>c, HoldRetryType
  <2>2. c \in Cycle
    BY <2>1 DEF Cycle
  <2>3. Resume(n, c)
    BY <1>3 DEF HearBattery
  <2> QED BY <1>3, <2>2, <2>3, AnsweredType, ResumeKeeps DEF HearBattery, LocalFrame
<1>4. CASE HearTxStatus(n)
  <2>1. [cycle[n] EXCEPT !.retryEnable = FALSE] \in Cycle
    BY <1>c DEF Cycle
  <2>2. Resume(n, [cycle[n] EXCEPT !.retryEnable = FALSE])
    BY <1>4 DEF HearTxStatus
  <2> QED BY <1>4, <2>1, <2>2, AnsweredType, ResumeKeeps DEF HearTxStatus, LocalFrame
<1>5. CASE HearReply(n)
  <2>1. Judged(cycle[n], Head(downlink[n]).cmd) \in Cycle
    BY <1>c, JudgedType
  <2>2. LinkTypeOK'
    BY <1>5, TakeDownType DEF HearReply, LinkTypeOK
  <2>3. /\ wakeInterval' \in [Node -> Nat \ {0}] /\ stayAwake' \in [Node -> BOOLEAN]
        /\ pending' \in [Node -> [LocalFrame -> Nat]]
    BY <1>5 DEF HearReply
  <2> QED BY <1>5, <2>1, <2>2, <2>3, ResumeKeeps DEF HearReply
<1>6. CASE HearCommand(n)
  <2> DEFINE m == Head(downlink[n])
  <2>0. m \in DownMsg
    BY <1>6 DEF HearCommand, Arrived, LinkTypeOK
  <2>1. Judged(cycle[n], m.cmd) \in Cycle
    BY <1>c, JudgedType
  <2>2. LinkTypeOK'
    BY <1>6, TakeDownType, SendUpType DEF HearCommand, LinkTypeOK, Reply, UpMsg
  <2>3. wakeInterval' \in [Node -> Nat \ {0}]
    BY <1>6, <2>0 DEF HearCommand, NewInterval, DownMsg
  <2>4. stayAwake' \in [Node -> BOOLEAN]
    BY <1>6 DEF HearCommand
  <2>5. pending' \in [Node -> [LocalFrame -> Nat]]
    BY <1>6, OwedType DEF HearCommand, LocalFrame
  <2> QED BY <1>6, <2>1, <2>2, <2>3, <2>4, <2>5, ResumeKeeps DEF HearCommand
<1> QED BY <1>1, <1>2, <1>3, <1>4, <1>5, <1>6 DEF Hear

LEMMA HardResetKeeps ==
    ASSUME IInv, NEW n \in Node, HardReset(n), UNCHANGED baseVars PROVE IInv'
<1> USE DEF IInv, TypeOK, NodeTypeOK
<1>1. cycle' \in [Node -> Cycle] /\ pending' \in [Node -> [LocalFrame -> Nat]]
  BY InitialCycleType DEF HardReset, NothingPending
<1>2. resets' \in [Node -> 0..MaxResets]
  BY NodeAssumption DEF HardReset
<1>3. wakeInterval' \in [Node -> Nat \ {0}]
  BY NodeAssumption DEF HardReset
<1>4. NodeTypeOK'
  BY <1>1, <1>2, <1>3 DEF HardReset, Goto, PC
<1>5. LinkTypeOK' /\ BaseTypeOK'
  BY DEF HardReset, linkVars, baseVars, LinkTypeOK, BaseTypeOK
<1>6. CountsInOrder'
  BY DEF HardReset, CountsInOrder, At, Goto
<1> QED BY <1>4, <1>5, <1>6

-----------------------------------------------------------------------------
(* The base station's steps leave the nodes as they are.                   *)

LEMMA NodeUntouched ==
    ASSUME IInv, UNCHANGED nodeVars PROVE NodeTypeOK' /\ CountsInOrder'
BY DEF IInv, TypeOK, NodeTypeOK, CountsInOrder, At, nodeVars, timerVars

LEMMA CallbackKeeps ==
    ASSUME IInv, NEW n \in Node, Callback(n), UNCHANGED nodeVars PROVE IInv'
<1> USE DEF IInv, TypeOK, LinkTypeOK, BaseTypeOK
<1>1. uplink' \in [Node -> Seq(UpMsg)]
  BY TakeUpType DEF Callback, ReceiveDamaged, ReceiveData, ReceiveAcceptance,
                    ReceiveAbandon, ReceiveResponse, ReceiveStrayAck, Packet
<1>2. ASSUME ReceiveDamaged(n) PROVE LinkTypeOK' /\ BaseTypeOK'
  <2>1. Order("N") \in DownMsg
    BY DEF Order, DownMsg
  <2> QED BY <1>1, <1>2, <2>1, SendDownType DEF ReceiveDamaged, SetState
<1>3. ASSUME ReceiveData(n) PROVE LinkTypeOK' /\ BaseTypeOK'
  <2>1. Head(uplink[n]) \in UpMsg
    BY <1>3 DEF ReceiveData, Packet, Arrived
  <2>2. Head(uplink[n]).count \in Nat
    BY <2>1 DEF UpMsg
  <2>3. Order("A") \in DownMsg
    BY DEF Order, DownMsg
  <2>4. LinkTypeOK'
    BY <1>1, <1>3, <2>3, SendDownType DEF ReceiveData
  <2>5. dataField' \in Nat /\ remoteData' \in [Node -> Nat]
    BY <1>3, <2>2 DEF ReceiveData
  <2>6. protocolState' \in [Node -> 0..2] /\ commands' \in 0..MaxCommands
    BY <1>3 DEF ReceiveData, SetState
  <2>7. dataResponseRcvd' \in BOOLEAN
    BY <1>3, Zenon DEF ReceiveData
  <2> QED BY <2>4, <2>5, <2>6, <2>7, Zenon
<1>4. ASSUME ReceiveAcceptance(n) \/ ReceiveAbandon(n) PROVE LinkTypeOK' /\ BaseTypeOK'
  <2>1. /\ protocolState' = [protocolState EXCEPT ![n] = 1]
        /\ UNCHANGED <<remoteData, dataField, dataResponseRcvd, commands, downlink>>
    BY <1>4 DEF ReceiveAcceptance, ReceiveAbandon, SetState
  <2>2. protocolState' \in [Node -> 0..2]
    BY <2>1
  <2> QED BY <1>1, <2>1, <2>2
<1>5. ASSUME ReceiveResponse(n) \/ ReceiveStrayAck(n) PROVE LinkTypeOK' /\ BaseTypeOK'
  <2>1. dataResponseRcvd' = TRUE \/ dataResponseRcvd' = dataResponseRcvd
    BY <1>5 DEF ReceiveResponse, ReceiveStrayAck, baseVars
  <2>2. dataResponseRcvd' \in BOOLEAN
    BY <2>1, Zenon
  <2>3. UNCHANGED <<protocolState, remoteData, dataField, commands, downlink>>
    BY <1>5 DEF ReceiveResponse, ReceiveStrayAck, baseVars
  <2>4. BaseTypeOK'
    BY <2>2, <2>3, Zenon
  <2> QED BY <1>1, <2>3, <2>4
<1> QED BY <1>2, <1>3, <1>4, <1>5, NodeUntouched DEF Callback

LEMMA SendCommandKeeps ==
    ASSUME IInv, NEW n \in Node, SendCommand(n), UNCHANGED nodeVars PROVE IInv'
<1> USE DEF IInv, TypeOK, LinkTypeOK, BaseTypeOK
<1>1. {Order("DXW"), Order("DXS")} \cup [cmd : {"DPW"}, arg : Intervals] \subseteq DownMsg
  <2>1. Order("DXW") \in DownMsg /\ Order("DXS") \in DownMsg
    BY DEF Order, DownMsg
  <2>2. [cmd : {"DPW"}, arg : Intervals] \subseteq DownMsg
    BY BaseAssumption DEF DownMsg
  <2> QED BY <2>1, <2>2
<1>2. LinkTypeOK'
  BY <1>1, SendDownType DEF SendCommand
<1>3. BaseTypeOK'
  BY BaseAssumption DEF SendCommand
<1> QED BY <1>2, <1>3, NodeUntouched

LEMMA FetchResponseKeeps ==
    ASSUME IInv, FetchResponse, UNCHANGED nodeVars PROVE IInv'
BY NodeUntouched DEF IInv, TypeOK, LinkTypeOK, BaseTypeOK, FetchResponse, linkVars

-----------------------------------------------------------------------------
LEMMA InitIInv == Init => IInv
<1> SUFFICES ASSUME Init PROVE IInv
  OBVIOUS
<1>1. LinkTypeOK
  BY DEF Init, LinkInit, LinkTypeOK
<1>2. NodeTypeOK
  BY NodeAssumption, InitialCycleType DEF Init, NodeInit, NodeTypeOK, PC, NothingPending
<1>3. BaseTypeOK
  <2>1. dataResponseRcvd \in BOOLEAN
    BY DEF Init, BaseInit
  <2>2. commands \in 0..MaxCommands
    BY BaseAssumption DEF Init, BaseInit
  <2> QED BY <2>1, <2>2 DEF Init, BaseInit, BaseTypeOK
<1>4. CountsInOrder
  <2> SUFFICES ASSUME NEW n \in Node
               PROVE  lastCount[n] <= counter[n] /\ pc[n] = "boot"
    BY DEF CountsInOrder, At
  <2> QED BY DEF Init, NodeInit
<1> QED BY <1>1, <1>2, <1>3, <1>4 DEF IInv, TypeOK

LEMMA NextIInv == IInv /\ [Next]_vars => IInv'
<1> SUFFICES ASSUME IInv, [Next]_vars PROVE IInv'
  OBVIOUS
<1>1. ASSUME NEW n \in Node, Main(n), UNCHANGED baseVars PROVE IInv'
  BY <1>1, BootKeeps, BeginPollKeeps, BeginCycleKeeps, SettleKeeps, SleepKeeps,
     QueryKeeps, TransmitKeeps, AbandonKeeps, AcceptKeeps, LoadCountKeeps,
     StoreCountKeeps, HearKeeps
     DEF Main, QueryAssociation, QueryBattery, LocalFrame
<1>2. ASSUME NEW n \in Node, Interrupt(n) \/ HardReset(n), UNCHANGED baseVars PROVE IInv'
  BY <1>2, CountISRKeeps, WdtISRKeeps, HardResetKeeps DEF Interrupt
<1>3. ASSUME BaseNext, UNCHANGED nodeVars PROVE IInv'
  BY <1>3, CallbackKeeps, SendCommandKeeps, FetchResponseKeeps DEF BaseNext
<1>4. CASE UNCHANGED vars
  <2>1. UNCHANGED nodeVars /\ UNCHANGED baseVars /\ UNCHANGED linkVars
    BY <1>4 DEF vars
  <2> QED BY <2>1, NodeUntouched
          DEF IInv, TypeOK, LinkTypeOK, BaseTypeOK, linkVars, baseVars
<1> QED BY <1>1, <1>2, <1>3, <1>4 DEF Next, NodeNext

(* The invariant holds in every state the system reaches.                  *)
THEOREM Invariance == Spec => []IInv
<1> QED BY InitIInv, NextIInv, PTL DEF Spec

(* Every variable keeps its type, for all nodes and bounds; among others   *)
(* the counter never wraps below zero and a wake interval is never zero.   *)
THEOREM TypeCorrectness == Spec => []TypeOK
<1>1. IInv => TypeOK
  BY DEF IInv
<1> QED BY <1>1, Invariance, PTL

(* counter -= lastCount always stays in range, wherever the interrupts     *)
(* come and whatever the network and operators do.                         *)
THEOREM SubtractionSafety == Spec => []SubtractionInRange
<1>1. IInv => SubtractionInRange
  BY DEF IInv, CountsInOrder, SubtractionInRange
<1> QED BY <1>1, Invariance, PTL

-----------------------------------------------------------------------------
(* The accounts of the pulses.                                             *)
AccountTypes == pulses \in [Node -> Nat] /\ cleared \in [Node -> Nat]

(* A message on its way carries no more than the node has counted.  With   *)
(* the order of lastCount, register and counter (IInv) this makes the two  *)
(* invariants inductive.                                                   *)
OnTheWayGenuine ==
    \A n \in Node : \A i \in 1..Len(uplink[n]) : uplink[n][i].count <= pulses[n]

LInv == IInv /\ AccountTypes /\ NoPhantomCount /\ OnTheWayGenuine /\ SavedCountGenuine

-----------------------------------------------------------------------------
(* What sending and taking a message leave on its way.                     *)

LEMMA SendUpGenuine ==
    ASSUME uplink \in [Node -> Seq(UpMsg)], OnTheWayGenuine, UNCHANGED pulses,
           NEW n \in Node, NEW msg \in UpMsg, msg.count <= pulses[n], SendUp(n, msg)
    PROVE  OnTheWayGenuine'
<1> SUFFICES ASSUME NEW m \in Node, NEW i \in 1..Len(uplink'[m])
             PROVE  uplink'[m][i].count <= pulses[m]
  BY DEF OnTheWayGenuine
<1>1. CASE uplink'[m] = uplink[m]
  BY <1>1 DEF OnTheWayGenuine
<1>2. CASE m = n /\ uplink'[n] = Append(uplink[n], msg)
  <2>1. CASE i <= Len(uplink[n])
    BY <1>2, <2>1 DEF OnTheWayGenuine
  <2>2. CASE i > Len(uplink[n])
    BY <1>2, <2>2
  <2> QED BY <1>2, <2>1, <2>2
<1> QED BY <1>1, <1>2 DEF SendUp, Sent

LEMMA TakeUpGenuine ==
    ASSUME uplink \in [Node -> Seq(UpMsg)], OnTheWayGenuine, UNCHANGED pulses,
           NEW n \in Node, Arrived(uplink[n]), TakeUp(n)
    PROVE  OnTheWayGenuine'
<1> SUFFICES ASSUME NEW m \in Node, NEW i \in 1..Len(uplink'[m])
             PROVE  uplink'[m][i].count <= pulses[m]
  BY DEF OnTheWayGenuine
<1>1. CASE m = n
  <2>1. uplink'[m][i] = uplink[m][i + 1] /\ i + 1 \in 1..Len(uplink[m])
    BY <1>1 DEF TakeUp, Arrived
  <2> QED BY <2>1 DEF OnTheWayGenuine
<1>2. CASE m # n
  BY <1>2 DEF TakeUp, OnTheWayGenuine
<1> QED BY <1>1, <1>2

LEMMA UpMsgCount == ASSUME NEW msg \in UpMsg PROVE msg.count \in Nat
BY DEF UpMsg

(* A step that touches neither the counts nor what is on its way.          *)
LEMMA AccountsUntouched ==
    ASSUME LInv, UNCHANGED <<counter, pulses, cleared>>
    PROVE  AccountTypes' /\ NoPhantomCount'
BY DEF LInv, AccountTypes, NoPhantomCount

LEMMA ReplyGenuine ==
    ASSUME AccountTypes, NEW n \in Node, NEW c \in {"A", "X", "P"}
    PROVE  Reply(c) \in UpMsg /\ Reply(c).count <= pulses[n]
BY DEF Reply, UpMsg, AccountTypes

-----------------------------------------------------------------------------
(* The steps of a node that the ledger has an entry for.                   *)

LEMMA PulseKeepsLedger ==
    ASSUME LInv, NEW n \in Node, LedgerPulse(n), UNCHANGED baseVars
    PROVE  AccountTypes' /\ NoPhantomCount' /\ OnTheWayGenuine' /\ SavedCountGenuine'
<1>0. /\ pulses \in [Node -> Nat] /\ cleared \in [Node -> Nat]
      /\ counter \in [Node -> Nat] /\ remoteData \in [Node -> Nat]
      /\ uplink \in [Node -> Seq(UpMsg)]
      /\ NoPhantomCount /\ OnTheWayGenuine /\ SavedCountGenuine
  BY DEF LInv, IInv, TypeOK, NodeTypeOK, LinkTypeOK, BaseTypeOK, AccountTypes
<1>1. /\ counter' = [counter EXCEPT ![n] = counter[n] + 1]
      /\ pulses' = [pulses EXCEPT ![n] = pulses[n] + 1]
      /\ UNCHANGED <<cleared, uplink, remoteData>>
  BY DEF LedgerPulse, CountISR, Add, linkVars, baseVars
<1>2. pulses' \in [Node -> Nat] /\ \A m \in Node : pulses[m] <= pulses'[m]
  BY <1>0, <1>1
<1>3. NoPhantomCount'
  BY <1>0, <1>1 DEF NoPhantomCount
<1>4. OnTheWayGenuine'
  <2> SUFFICES ASSUME NEW m \in Node, NEW i \in 1..Len(uplink[m])
               PROVE  uplink[m][i].count <= pulses'[m]
    BY <1>1 DEF OnTheWayGenuine
  <2>1. uplink[m][i] \in UpMsg
    BY <1>0
  <2>2. uplink[m][i].count \in Nat
    BY <2>1, UpMsgCount
  <2>3. uplink[m][i].count <= pulses[m]
    BY <1>0 DEF OnTheWayGenuine
  <2>4. pulses[m] \in Nat /\ pulses'[m] \in Nat /\ pulses[m] <= pulses'[m]
    BY <1>0, <1>2
  <2> HIDE <1>0, <1>1
  <2> QED BY <2>2, <2>3, <2>4
<1>5. SavedCountGenuine'
  BY <1>0, <1>1, <1>2 DEF SavedCountGenuine
<1> QED BY <1>0, <1>1, <1>2, <1>3, <1>4, <1>5 DEF AccountTypes

LEMMA StoreKeepsLedger ==
    ASSUME LInv, NEW n \in Node, LedgerStore(n), UNCHANGED baseVars
    PROVE  AccountTypes' /\ NoPhantomCount' /\ OnTheWayGenuine' /\ SavedCountGenuine'
<1> USE DEF LInv, IInv, TypeOK, NodeTypeOK, AccountTypes
<1>1. /\ counter' = [counter EXCEPT ![n] = register[n] - lastCount[n]]
      /\ cleared' = [cleared EXCEPT ![n] = cleared[n] + lastCount[n]]
      /\ UNCHANGED <<pulses, uplink, remoteData>>
  BY DEF LedgerStore, StoreCount, Remaining, Add, linkVars, baseVars
<1>2. lastCount[n] <= register[n] /\ register[n] <= counter[n]
  BY DEF LedgerStore, StoreCount, CountsInOrder
<1>3. NoPhantomCount'
  BY <1>1, <1>2 DEF NoPhantomCount
<1>4. AccountTypes'
  BY <1>1
<1>5. OnTheWayGenuine' /\ SavedCountGenuine'
  <2>1. OnTheWayGenuine /\ SavedCountGenuine
    OBVIOUS
  <2> HIDE DEF LInv, IInv, TypeOK, NodeTypeOK, AccountTypes
  <2> QED BY <1>1, <2>1 DEF OnTheWayGenuine, SavedCountGenuine
<1> HIDE DEF LInv, IInv, TypeOK, NodeTypeOK, AccountTypes
<1> QED BY <1>3, <1>4, <1>5

LEMMA ResetKeepsLedger ==
    ASSUME LInv, NEW n \in Node, LedgerReset(n), UNCHANGED baseVars
    PROVE  AccountTypes' /\ NoPhantomCount' /\ OnTheWayGenuine' /\ SavedCountGenuine'
<1> USE DEF LInv, IInv, TypeOK, NodeTypeOK, AccountTypes
<1>1. /\ counter' = [counter EXCEPT ![n] = 0]
      /\ UNCHANGED <<pulses, cleared, uplink, remoteData>>
  BY DEF LedgerReset, HardReset, linkVars, baseVars
<1>2. NoPhantomCount'
  BY <1>1 DEF NoPhantomCount
<1>3. AccountTypes'
  BY <1>1
<1>4. OnTheWayGenuine' /\ SavedCountGenuine'
  <2>1. OnTheWayGenuine /\ SavedCountGenuine
    OBVIOUS
  <2> HIDE DEF LInv, IInv, TypeOK, NodeTypeOK, AccountTypes
  <2> QED BY <1>1, <2>1 DEF OnTheWayGenuine, SavedCountGenuine
<1> HIDE DEF LInv, IInv, TypeOK, NodeTypeOK, AccountTypes
<1> QED BY <1>2, <1>3, <1>4

LEMMA TransmitKeepsLedger ==
    ASSUME LInv, NEW n \in Node, LedgerTransmit(n), UNCHANGED baseVars
    PROVE  AccountTypes' /\ NoPhantomCount' /\ OnTheWayGenuine' /\ SavedCountGenuine'
<1> USE DEF LInv
<1>1. UNCHANGED <<counter, pulses, cleared, remoteData>>
  BY DEF LedgerTransmit, Transmit, baseVars
<1>2. DataWord(n) \in UpMsg /\ DataWord(n).count <= pulses[n]
  <2>1. /\ lastCount[n] \in Nat /\ counter[n] \in Nat
        /\ cleared[n] \in Nat /\ pulses[n] \in Nat
    BY DEF IInv, TypeOK, NodeTypeOK, AccountTypes
  <2>2. lastCount[n] <= counter[n] /\ counter[n] + cleared[n] <= pulses[n]
    BY DEF IInv, CountsInOrder, NoPhantomCount
  <2> QED BY <2>1, <2>2 DEF DataWord, UpMsg
<1>3. SendUp(n, DataWord(n)) \/ UNCHANGED uplink
  BY DEF LedgerTransmit, Transmit
<1>4. OnTheWayGenuine'
  BY <1>1, <1>2, <1>3, SendUpGenuine DEF IInv, TypeOK, LinkTypeOK, OnTheWayGenuine
<1> QED BY <1>1, <1>4, AccountsUntouched DEF SavedCountGenuine

(* The steps of a node that send a reply or nothing.                       *)
LEMMA QuietKeepsLedger ==
    ASSUME LInv, NEW n \in Node, UNCHANGED baseVars,
           UNCHANGED <<counter, pulses, cleared>>,
           UNCHANGED uplink \/ \E c \in {"A", "X", "P"} : SendUp(n, Reply(c))
    PROVE  AccountTypes' /\ NoPhantomCount' /\ OnTheWayGenuine' /\ SavedCountGenuine'
<1>1. OnTheWayGenuine'
  BY ReplyGenuine, SendUpGenuine DEF LInv, IInv, TypeOK, LinkTypeOK, OnTheWayGenuine
<1> QED BY <1>1, AccountsUntouched DEF LInv, SavedCountGenuine, baseVars

LEMMA HearIsQuiet ==
    ASSUME NEW n \in Node, Hear(n)
    PROVE  /\ UNCHANGED counter
           /\ UNCHANGED uplink \/ \E c \in {"A", "X", "P"} : SendUp(n, Reply(c))
<1> USE DEF heardVars, linkVars
<1>1. CASE HearNothing(n)
  BY <1>1 DEF HearNothing
<1>2. CASE HearAssociation(n) \/ HearBattery(n) \/ HearTxStatus(n)
  BY <1>2 DEF HearAssociation, HearBattery, HearTxStatus, Answered
<1>3. CASE HearReply(n)
  BY <1>3 DEF HearReply
<1>4. CASE HearCommand(n)
  BY <1>4 DEF HearCommand
<1> QED BY <1>1, <1>2, <1>3, <1>4 DEF Hear

LEMMA UnlistedIsQuiet ==
    ASSUME NEW n \in Node, NodeUnlisted(n)
    PROVE  /\ UNCHANGED counter
           /\ UNCHANGED uplink \/ \E c \in {"A", "X", "P"} : SendUp(n, Reply(c))
<1> USE DEF linkVars
<1>1. CASE Hear(n)
  BY <1>1, HearIsQuiet
<1>2. CASE ~Hear(n)
  BY <1>2 DEF NodeUnlisted, WdtISR, Boot, BeginPoll, Settle, Sleep, QueryAssociation,
              QueryBattery, Query, LoadCount
<1> QED BY <1>1, <1>2

-----------------------------------------------------------------------------
(* The base station's steps.                                               *)

LEMMA BaseKeepsLedger ==
    ASSUME LInv, NEW n \in Node, Callback(n), UNCHANGED nodeVars,
           UNCHANGED <<pulses, cleared>>
    PROVE  AccountTypes' /\ NoPhantomCount' /\ OnTheWayGenuine' /\ SavedCountGenuine'
<1> USE DEF LInv, IInv, TypeOK, LinkTypeOK, BaseTypeOK
<1>1. Arrived(uplink[n]) /\ TakeUp(n)
  BY DEF Callback, ReceiveDamaged, ReceiveData, ReceiveAcceptance, ReceiveAbandon,
         ReceiveResponse, ReceiveStrayAck, Packet
<1>2. OnTheWayGenuine'
  BY <1>1, TakeUpGenuine
<1>3. SavedCountGenuine'
  <2>1. CASE ReceiveData(n)
    <3>1. remoteData' = [remoteData EXCEPT ![n] = uplink[n][1].count] /\ 1 \in 1..Len(uplink[n])
      BY <1>1, <2>1 DEF ReceiveData, Arrived
    <3>2. uplink[n][1].count <= pulses[n]
      BY <3>1 DEF OnTheWayGenuine
    <3> QED BY <3>1, <3>2 DEF SavedCountGenuine
  <2>2. CASE ~ReceiveData(n)
    <3>1. UNCHANGED remoteData
      BY <2>2 DEF Callback, ReceiveDamaged, ReceiveAcceptance, ReceiveAbandon,
                  ReceiveResponse, ReceiveStrayAck, baseVars
    <3> QED BY <3>1 DEF SavedCountGenuine
  <2> QED BY <2>1, <2>2
<1>4. UNCHANGED counter
  BY DEF nodeVars
<1> QED BY <1>2, <1>3, <1>4, AccountsUntouched

-----------------------------------------------------------------------------
LEMMA LedgerStepIsStep == [LedgerNext]_<<vars, ledgerVars>> => [Next]_vars
<1> SUFFICES ASSUME LedgerNext PROVE Next
  BY DEF ledgerVars
<1>1. CASE FetchResponse /\ UNCHANGED <<nodeVars, ledgerVars>>
  BY <1>1 DEF Next, BaseNext
<1>2. ASSUME NEW n \in Node, UNCHANGED baseVars,
             \/ LedgerPulse(n) \/ LedgerBegin(n) \/ LedgerTransmit(n)
             \/ LedgerAbandon(n) \/ LedgerAccept(n) \/ LedgerStore(n) \/ LedgerReset(n)
             \/ NodeUnlisted(n)
      PROVE  Next
  <2>1. Main(n) \/ Interrupt(n) \/ HardReset(n)
    BY <1>2 DEF LedgerPulse, LedgerBegin, LedgerTransmit, LedgerAbandon, LedgerAccept,
                LedgerStore, LedgerReset, NodeUnlisted, Main, Interrupt
  <2> QED BY <1>2, <2>1 DEF Next, NodeNext
<1>3. ASSUME NEW n \in Node, UNCHANGED nodeVars,
             \/ LedgerData(n) \/ LedgerDamaged(n) \/ LedgerRecord(n)
             \/ LedgerCommand(n) \/ BaseUnlisted(n)
      PROVE  Next
  <2>1. Callback(n) \/ SendCommand(n)
    BY <1>3 DEF LedgerData, LedgerDamaged, LedgerRecord, LedgerCommand, BaseUnlisted, Callback
  <2> QED BY <1>3, <2>1 DEF Next, BaseNext
<1> QED BY <1>1, <1>2, <1>3 DEF LedgerNext

LEMMA NodeStepKeepsLedger ==
    ASSUME LInv, NEW n \in Node, UNCHANGED baseVars,
           \/ LedgerPulse(n) \/ LedgerBegin(n) \/ LedgerTransmit(n)
           \/ LedgerAbandon(n) \/ LedgerAccept(n) \/ LedgerStore(n) \/ LedgerReset(n)
           \/ NodeUnlisted(n) /\ UNCHANGED ledgerVars
    PROVE  AccountTypes' /\ NoPhantomCount' /\ OnTheWayGenuine' /\ SavedCountGenuine'
<1>1. CASE LedgerPulse(n) \/ LedgerTransmit(n) \/ LedgerStore(n) \/ LedgerReset(n)
  BY <1>1, PulseKeepsLedger, TransmitKeepsLedger, StoreKeepsLedger, ResetKeepsLedger
<1>2. CASE LedgerBegin(n)
  BY <1>2, QuietKeepsLedger DEF LedgerBegin, BeginCycle, linkVars
<1>3. CASE LedgerAbandon(n) \/ LedgerAccept(n)
  <2>1. UNCHANGED <<counter, pulses, cleared>> /\ \E c \in {"A", "X", "P"} : SendUp(n, Reply(c))
    BY <1>3 DEF LedgerAbandon, LedgerAccept, Abandon, Accept
  <2> QED BY <2>1, QuietKeepsLedger
<1>4. CASE NodeUnlisted(n) /\ UNCHANGED ledgerVars
  BY <1>4, UnlistedIsQuiet, QuietKeepsLedger DEF ledgerVars
<1> QED BY <1>1, <1>2, <1>3, <1>4

LEMMA BaseStepKeepsLedger ==
    ASSUME LInv, NEW n \in Node, UNCHANGED nodeVars,
           \/ LedgerData(n) \/ LedgerDamaged(n) \/ LedgerRecord(n) \/ LedgerCommand(n)
           \/ BaseUnlisted(n) /\ UNCHANGED ledgerVars
    PROVE  AccountTypes' /\ NoPhantomCount' /\ OnTheWayGenuine' /\ SavedCountGenuine'
<1>1. UNCHANGED <<pulses, cleared>>
  BY DEF LedgerData, LedgerDamaged, LedgerRecord, LedgerCommand, ledgerVars
<1>2. CASE LedgerCommand(n)
  <2>1. UNCHANGED <<counter, uplink, remoteData>>
    BY <1>2 DEF LedgerCommand, SendCommand, nodeVars
  <2> QED BY <1>1, <2>1, AccountsUntouched DEF LInv, OnTheWayGenuine, SavedCountGenuine
<1>3. CASE ~LedgerCommand(n)
  <2>1. Callback(n)
    BY <1>3 DEF LedgerData, LedgerDamaged, LedgerRecord, BaseUnlisted, Callback
  <2> QED BY <1>1, <2>1, BaseKeepsLedger
<1> QED BY <1>2, <1>3

LEMMA InitLInv == LedgerInit => LInv
<1> SUFFICES ASSUME LedgerInit PROVE LInv
  OBVIOUS
<1>1. IInv
  BY InitIInv DEF LedgerInit
<1>2. AccountTypes /\ NoPhantomCount /\ SavedCountGenuine
  BY DEF LedgerInit, Init, NodeInit, BaseInit, AccountTypes, NoPhantomCount, SavedCountGenuine
<1>3. OnTheWayGenuine
  BY DEF LedgerInit, Init, LinkInit, OnTheWayGenuine
<1> QED BY <1>1, <1>2, <1>3 DEF LInv

LEMMA NextLInv == LInv /\ [LedgerNext]_<<vars, ledgerVars>> => LInv'
<1> SUFFICES ASSUME LInv, [LedgerNext]_<<vars, ledgerVars>> PROVE LInv'
  OBVIOUS
<1>1. IInv'
  BY LedgerStepIsStep, NextIInv DEF LInv
<1>2. CASE LedgerNext /\ ~(FetchResponse /\ UNCHANGED <<nodeVars, ledgerVars>>)
  BY <1>1, <1>2, NodeStepKeepsLedger, BaseStepKeepsLedger DEF LedgerNext, LInv
<1>3. CASE \/ FetchResponse /\ UNCHANGED <<nodeVars, ledgerVars>>
          \/ UNCHANGED <<vars, ledgerVars>>
  <2>1. UNCHANGED <<counter, pulses, cleared, uplink, remoteData>>
    BY <1>3 DEF FetchResponse, nodeVars, ledgerVars, vars, baseVars, linkVars
  <2> QED BY <1>1, <2>1, AccountsUntouched DEF LInv, OnTheWayGenuine, SavedCountGenuine
<1> QED BY <1>2, <1>3

(* What a node holds and has taken off, each count it has on its way and   *)
(* the one set aside for it stay within the pulses at its input.           *)
THEOREM LedgerInvariance == LedgerSpec => []LInv
<1> QED BY InitLInv, NextLInv, PTL DEF LedgerSpec

(* Whatever the interrupts, the network, operators and resets do, what a   *)
(* node still holds and what it has taken off are pulses it counted.       *)
THEOREM NoPhantom == LedgerSpec => []NoPhantomCount
<1>1. LInv => NoPhantomCount
  BY DEF LInv
<1> QED BY <1>1, LedgerInvariance, PTL

(* The count the base station sets aside for a node was counted there.     *)
THEOREM SavedGenuine == LedgerSpec => []SavedCountGenuine
<1>1. LInv => SavedCountGenuine
  BY DEF LInv
<1> QED BY <1>1, LedgerInvariance, PTL

-----------------------------------------------------------------------------
(* The account of what the base station records.                           *)

OtherTypes == /\ recorded \in [Node -> Nat] /\ earned \in [Node -> Int]
              /\ cycles \in [Node -> Nat] /\ faults \in [Node -> SUBSET Fault]

(* What a node that goes through a cycle is about.                         *)
InCycle(n) == \/ pc[n] \in {"stage", "load", "store"}
              \/ pc[n] = "wait" /\ cycle[n].stage # "complete"

Reporting(n) == pc[n] \in {"stage", "wait"} /\ cycle[n].stage = "transmit"

Holding(n) == Reporting(n) /\ cycle[n].ack

Acks(q) == Cardinality({i \in 1..Len(q) : q[i].cmd = "A"})

(* An ACK that is on its way, or that the node has noted, was not used.    *)
AcksEarned(n) == /\ Acks(downlink[n]) <= earned[n]
                 /\ Holding(n) => Acks(downlink[n]) + 1 <= earned[n]

(* Without commands the network carries only ACKs and NAKs to the node,    *)
(* and unless the node gives up only data and acceptances to the base.     *)
OnlyJudgements(n) == Blameless(n, {"command"}) =>
                        \A i \in 1..Len(downlink[n]) : downlink[n][i].cmd \in {"A", "N"}

OnlyReports(n) == Blameless(n, {"abandoned", "command"}) =>
                     \A i \in 1..Len(uplink[n]) : uplink[n][i].cmd \in {"C", "A"}

(* A forecast of what the base will have recorded, and of what it will     *)
(* then hold to be recorded, after each of the messages that are on their  *)
(* way: at most, for it may find data damaged.                             *)
Forecast(q, l, total, kept, rec, held) ==
    /\ rec \in [Nat -> Nat] /\ held \in [Nat -> Nat]
    /\ total <= rec[0] /\ kept <= held[0]
    /\ \A i \in 1..l :
          IF q[i].cmd = "C" THEN rec[i - 1] <= rec[i] /\ q[i].count <= held[i]
          ELSE rec[i - 1] + held[i - 1] <= rec[i]
    /\ \A i, j \in 0..l : i <= j => rec[i] <= rec[j]

Bounded(q, total, kept, due, promised) ==
    \E rec, held : /\ Forecast(q, Len(q), total, kept, rec, held)
                   /\ rec[Len(q)] <= due /\ rec[Len(q)] + held[Len(q)] <= promised

(* The same if nothing is damaged.                                         *)
Exactly(q, l, total, kept, rec, held) ==
    /\ rec \in [Nat -> Nat] /\ held \in [Nat -> Nat]
    /\ total = rec[0] /\ kept = held[0]
    /\ \A i \in 1..l :
          IF q[i].cmd = "C" THEN rec[i] = rec[i - 1] /\ held[i] = q[i].count
          ELSE rec[i] = rec[i - 1] + held[i - 1] /\ held[i] = 0
    /\ \A i, j \in 0..l :
          i <= j /\ (\A k \in (i + 1)..j : q[k].cmd = "C") => rec[j] = rec[i]

Tallied(q, total, kept, due, last) ==
    \E rec, held : /\ Exactly(q, Len(q), total, kept, rec, held)
                   /\ rec[Len(q)] = due /\ held[Len(q)] \in last

Saved(n) == IF Final(n) THEN remoteData[n] ELSE 0

TakenOff(n) == cleared[n] + (IF Clearing(n) THEN lastCount[n] ELSE 0)

Promised(n) == cleared[n] + (IF InCycle(n) THEN lastCount[n] ELSE 0)

Grave == {"abandoned", "command", "reset"}

BoundKept(n) == Blameless(n, Grave) =>
                   Bounded(uplink[n], recorded[n], Saved(n), TakenOff(n), Promised(n))

TallyKept(n) == Blameless(n, Fault) =>
                   Tallied(uplink[n], recorded[n], Saved(n), TakenOff(n),
                           IF Reporting(n) THEN {lastCount[n]} ELSE Nat)

Account(n) == /\ AcksEarned(n) /\ OnlyJudgements(n) /\ OnlyReports(n)
              /\ BoundKept(n) /\ TallyKept(n)

-----------------------------------------------------------------------------
(* The queues.                                                             *)

LEMMA TailIs ==
    ASSUME NEW S, NEW q \in Seq(S), Arrived(q)
    PROVE  /\ Len(q) \in Nat /\ Len(q) >= 1 /\ Head(q) = q[1] /\ q[1] \in S
           /\ Tail(q) \in Seq(S) /\ Len(Tail(q)) = Len(q) - 1
           /\ \A i \in 1..Len(Tail(q)) : Tail(q)[i] = q[i + 1]
BY DEF Arrived

LEMMA AppendIs ==
    ASSUME NEW S, NEW q \in Seq(S), NEW msg \in S
    PROVE  /\ Append(q, msg) \in Seq(S) /\ Len(q) \in Nat /\ Len(Append(q, msg)) = Len(q) + 1
           /\ Append(q, msg)[Len(q) + 1] = msg
           /\ \A i \in 1..Len(q) : Append(q, msg)[i] = q[i]
OBVIOUS

Joined(q, msg, r) == /\ Len(q) \in Nat /\ Len(r) = Len(q) + 1 /\ r[Len(q) + 1] = msg
                     /\ \A i \in 1..Len(q) : r[i] = q[i]

LEMMA AppendJoins ==
    ASSUME NEW S, NEW q \in Seq(S), NEW msg \in S PROVE Joined(q, msg, Append(q, msg))
BY DEF Joined

LEMMA AcksType == ASSUME NEW S, NEW q \in Seq(S) PROVE Acks(q) \in Nat
<1>1. IsFiniteSet(1..Len(q))
  BY FS_Interval
<1>2. IsFiniteSet({i \in 1..Len(q) : q[i].cmd = "A"})
  BY <1>1, FS_Subset
<1> QED BY <1>2, FS_CardinalityType DEF Acks

LEMMA AcksAppend ==
    ASSUME NEW S, NEW q \in Seq(S), NEW msg \in S
    PROVE  Acks(Append(q, msg)) = IF msg.cmd = "A" THEN Acks(q) + 1 ELSE Acks(q)
<1> DEFINE r == Append(q, msg)
           before == {i \in 1..Len(q) : q[i].cmd = "A"}
           after == {i \in 1..Len(r) : r[i].cmd = "A"}
<1>1. /\ Len(q) \in Nat /\ Len(r) = Len(q) + 1 /\ r[Len(q) + 1] = msg
      /\ \A i \in 1..Len(q) : r[i] = q[i]
  BY AppendIs
<1>2. IsFiniteSet(1..Len(q))
  BY FS_Interval
<1>3. IsFiniteSet(before)
  BY <1>2, FS_Subset
<1> HIDE DEF r
<1>4. Len(q) + 1 \notin before
  BY <1>1
<1>5. after = IF msg.cmd = "A" THEN before \cup {Len(q) + 1} ELSE before
  BY <1>1
<1>6. Cardinality(before \cup {Len(q) + 1}) = Cardinality(before) + 1
  <2> HIDE DEF before
  <2> QED BY <1>3, <1>4, FS_AddElement
<1> QED BY <1>5, <1>6 DEF Acks, r

LEMMA AcksTail ==
    ASSUME NEW S, NEW q \in Seq(S), Arrived(q)
    PROVE  Acks(Tail(q)) = IF Head(q).cmd = "A" THEN Acks(q) - 1 ELSE Acks(q)
<1> DEFINE r == Tail(q)
           before == {i \in 1..Len(q) : q[i].cmd = "A"}
           rest == before \ {1}
           after == {i \in 1..Len(r) : r[i].cmd = "A"}
<1>1. /\ Len(q) \in Nat /\ Len(q) >= 1 /\ Head(q) = q[1] /\ Len(r) = Len(q) - 1
      /\ \A i \in 1..Len(r) : r[i] = q[i + 1]
  BY TailIs
<1>2. IsFiniteSet(1..Len(q))
  BY FS_Interval
<1>3. IsFiniteSet(before)
  BY <1>2, FS_Subset
<1>4. Cardinality(rest) = IF Head(q).cmd = "A" THEN Cardinality(before) - 1 ELSE Cardinality(before)
  <2>1. 1 \in before <=> Head(q).cmd = "A"
    BY <1>1
  <2> HIDE DEF before
  <2> QED BY <1>3, <2>1, FS_RemoveElement
<1> HIDE DEF r
<1>5. Cardinality(after) = Cardinality(rest)
  <2> DEFINE back == [i \in rest |-> i - 1]
  <2>1. \A i \in rest : i - 1 \in after
    BY <1>1
  <2>2. \A i \in after : i \in Int /\ i + 1 \in rest
    BY <1>1
  <2>3. \A i, j \in rest : i - 1 = j - 1 => i = j
    OBVIOUS
  <2>4. IsFiniteSet(rest)
    BY <1>3, FS_Subset
  <2> HIDE DEF rest, after
  <2>5. back \in Bijection(rest, after)
    <3>1. back \in [rest -> after]
      BY <2>1
    <3>2. back \in Injection(rest, after)
      BY <2>3, <3>1 DEF Injection, IsInjective
    <3>3. \A i \in after : back[i + 1] = i
      BY <2>2
    <3>4. \A i \in after : \E j \in rest : back[j] = i
      BY <2>2, <3>3
    <3> HIDE DEF back
    <3>5. back \in Surjection(rest, after)
      BY <3>1, <3>4 DEF Surjection
    <3> QED BY <3>2, <3>5 DEF Bijection
  <2>6. ExistsBijection(rest, after)
    BY <2>5 DEF ExistsBijection
  <2> QED BY <2>4, <2>6, FS_Bijection
<1> QED BY <1>4, <1>5 DEF Acks, r

-----------------------------------------------------------------------------
(* The forecasts.                                                          *)

LEMMA UpMsgIs == ASSUME NEW msg \in UpMsg PROVE msg.count \in Nat /\ msg.cmd \in {"C", "A", "X", "P"}
BY DEF UpMsg

(* A forecast without its first message.                                   *)
Shift(f) == [i \in Nat |-> f[i + 1]]

LEMMA Shifted ==
    ASSUME NEW f \in [Nat -> Nat]
    PROVE  /\ Shift(f) \in [Nat -> Nat] /\ \A i \in Nat : Shift(f)[i] = f[i + 1]
           /\ Shift(f)[0] = f[1]
<1>1. \A i \in Nat : i + 1 \in Nat /\ f[i + 1] \in Nat
  OBVIOUS
<1>2. Shift(f) \in [Nat -> Nat]
  BY <1>1 DEF Shift
<1>3. \A i \in Nat : Shift(f)[i] = f[i + 1]
  BY DEF Shift
<1>4. 0 \in Nat /\ 0 + 1 = 1
  OBVIOUS
<1>5. Shift(f)[0] = f[0 + 1]
  BY <1>3, <1>4
<1> QED BY <1>2, <1>3, <1>4, <1>5

LEMMA BoundedMore ==
    ASSUME NEW q \in Seq(UpMsg), NEW total, NEW kept,
           NEW due \in Nat, NEW promised \in Nat, NEW due2 \in Nat, NEW promised2 \in Nat,
           Bounded(q, total, kept, due, promised), due <= due2, promised <= promised2
    PROVE  Bounded(q, total, kept, due2, promised2)
<1>1. PICK rec, held : /\ Forecast(q, Len(q), total, kept, rec, held)
                       /\ rec[Len(q)] <= due /\ rec[Len(q)] + held[Len(q)] <= promised
  BY DEF Bounded
<1>2. rec[Len(q)] \in Nat /\ held[Len(q)] \in Nat
  BY <1>1 DEF Forecast
<1>3. rec[Len(q)] <= due2 /\ rec[Len(q)] + held[Len(q)] <= promised2
  BY <1>1, <1>2
<1> QED BY <1>1, <1>3 DEF Bounded

LEMMA BoundedNow ==
    ASSUME NEW q \in Seq(UpMsg), NEW total \in Nat, NEW kept, NEW due \in Nat, NEW promised,
           Bounded(q, total, kept, due, promised)
    PROVE  total <= due
<1>1. PICK rec, held : /\ Forecast(q, Len(q), total, kept, rec, held)
                       /\ rec[Len(q)] <= due /\ rec[Len(q)] + held[Len(q)] <= promised
  BY DEF Bounded
<1>2. 0 \in 0..Len(q) /\ Len(q) \in 0..Len(q) /\ rec[0] \in Nat /\ rec[Len(q)] \in Nat
  BY <1>1 DEF Forecast
<1>3. total <= rec[0] /\ rec[0] <= rec[Len(q)]
  BY <1>1, <1>2 DEF Forecast
<1> QED BY <1>1, <1>2, <1>3

(* A message joins the others.                                             *)
LEMMA BoundedSent ==
    ASSUME NEW q, NEW msg, NEW r, Joined(q, msg, r), msg.count \in Nat, NEW total, NEW kept,
           NEW due \in Nat, NEW promised \in Nat, NEW due2 \in Nat, NEW promised2 \in Nat,
           Bounded(q, total, kept, due, promised),
           msg.cmd = "C" => due <= due2 /\ due + msg.count <= promised2,
           msg.cmd # "C" => promised <= due2 /\ promised <= promised2
    PROVE  Bounded(r, total, kept, due2, promised2)
<1>1. PICK rec, held : /\ Forecast(q, Len(q), total, kept, rec, held)
                       /\ rec[Len(q)] <= due /\ rec[Len(q)] + held[Len(q)] <= promised
  BY DEF Bounded
<1>2. PICK l \in Nat : l = Len(q)
  BY DEF Joined
<1>3. Len(r) = l + 1 /\ r[l + 1] = msg /\ \A i \in 1..l : r[i] = q[i]
  BY <1>2 DEF Joined
<1>4. rec \in [Nat -> Nat] /\ held \in [Nat -> Nat] /\ Forecast(q, l, total, kept, rec, held)
  BY <1>1, <1>2 DEF Forecast
<1>5. PICK a \in Nat, b \in Nat, c \in Nat : a = rec[l] /\ b = held[l] /\ c = msg.count
  BY <1>4
<1>6. a <= due /\ a + b <= promised
  BY <1>1, <1>2, <1>5
<1>7. PICK sum \in Nat, rest \in Nat :
         /\ a <= sum /\ IF msg.cmd = "C" THEN c <= rest ELSE a + b <= sum
         /\ sum <= due2 /\ sum + rest <= promised2
  <2>1. CASE msg.cmd = "C"
    <3>1. a <= due2 /\ a + c <= promised2
      BY <1>5, <1>6, <2>1
    <3> QED BY <2>1, <3>1
  <2>2. CASE msg.cmd # "C"
    <3>1. PICK sum \in Nat : sum = a + b
      OBVIOUS
    <3>2. a <= sum /\ a + b <= sum /\ sum <= due2 /\ sum + 0 <= promised2
      BY <1>6, <2>2, <3>1
    <3> QED BY <2>2, <3>2
  <2> QED BY <2>1, <2>2
<1>a. /\ rec \in [Nat -> Nat] /\ held \in [Nat -> Nat]
      /\ l + 1 \in Nat /\ \A i \in 0..l : i \in Nat /\ i # l + 1
  BY <1>4
<1>8. PICK rec2 \in [Nat -> Nat] : rec2[l + 1] = sum /\ \A i \in 0..l : rec2[i] = rec[i]
  <2>1. [rec EXCEPT ![l + 1] = sum] \in [Nat -> Nat]
    BY <1>a
  <2>2. /\ [rec EXCEPT ![l + 1] = sum][l + 1] = sum
        /\ \A i \in 0..l : [rec EXCEPT ![l + 1] = sum][i] = rec[i]
    BY <1>a
  <2> QED BY <2>1, <2>2
<1>9. PICK held2 \in [Nat -> Nat] : held2[l + 1] = rest /\ \A i \in 0..l : held2[i] = held[i]
  <2>1. [held EXCEPT ![l + 1] = rest] \in [Nat -> Nat]
    BY <1>a
  <2>2. /\ [held EXCEPT ![l + 1] = rest][l + 1] = rest
        /\ \A i \in 0..l : [held EXCEPT ![l + 1] = rest][i] = held[i]
    BY <1>a
  <2> QED BY <2>1, <2>2
<1>10. total <= rec2[0] /\ kept <= held2[0]
  BY <1>4, <1>8, <1>9 DEF Forecast
<1>11. ASSUME NEW i \in 1..(l + 1)
       PROVE  IF r[i].cmd = "C" THEN rec2[i - 1] <= rec2[i] /\ r[i].count <= held2[i]
              ELSE rec2[i - 1] + held2[i - 1] <= rec2[i]
  <2>1. CASE i = l + 1
    <3>1. i - 1 = l /\ l \in 0..l
      BY <2>1
    <3>2. /\ rec2[i - 1] = a /\ held2[i - 1] = b /\ rec2[i] = sum /\ held2[i] = rest
          /\ r[i] = msg /\ r[i].count = c
      BY <1>3, <1>5, <1>8, <1>9, <2>1, <3>1
    <3> QED BY <1>7, <3>2
  <2>2. CASE i # l + 1
    <3>1. i \in 1..l /\ i \in 0..l /\ i - 1 \in 0..l
      BY <2>2
    <3> QED BY <1>3, <1>4, <1>8, <1>9, <3>1 DEF Forecast
  <2> QED BY <2>1, <2>2
<1>12. ASSUME NEW i \in 0..(l + 1), NEW j \in 0..(l + 1), i <= j PROVE rec2[i] <= rec2[j]
  <2>1. CASE j # l + 1
    <3>1. i \in 0..l /\ j \in 0..l
      BY <1>12, <2>1
    <3> QED BY <1>4, <1>8, <1>12, <3>1 DEF Forecast
  <2>2. CASE j = l + 1 /\ i # l + 1
    <3>1. i \in 0..l /\ l \in 0..l /\ i <= l /\ i \in Nat
      BY <1>12, <2>2
    <3>2. rec[i] <= a
      BY <1>4, <1>5, <3>1 DEF Forecast
    <3>3. rec[i] \in Nat
      BY <1>4, <3>1
    <3>4. rec2[i] = rec[i] /\ rec2[j] = sum
      BY <1>8, <2>2, <3>1
    <3> QED BY <1>7, <3>2, <3>3, <3>4
  <2>3. CASE j = l + 1 /\ i = l + 1
    BY <1>8, <2>3
  <2> QED BY <2>1, <2>2, <2>3
<1>13. Forecast(r, l + 1, total, kept, rec2, held2)
  BY <1>10, <1>11, <1>12 DEF Forecast
<1> QED BY <1>3, <1>7, <1>8, <1>9, <1>13 DEF Bounded

(* The base takes the first.                                               *)
LEMMA BoundedTaken ==
    ASSUME NEW q \in Seq(UpMsg), Arrived(q), NEW total \in Nat, NEW kept \in Nat,
           NEW due, NEW promised, NEW total2 \in Nat, NEW kept2 \in Nat,
           Bounded(q, total, kept, due, promised),
           IF Head(q).cmd = "C" THEN total2 <= total /\ kept2 <= Head(q).count
           ELSE total2 <= total + kept /\ kept2 = 0
    PROVE  Bounded(Tail(q), total2, kept2, due, promised)
<1>1. PICK rec, held : /\ Forecast(q, Len(q), total, kept, rec, held)
                       /\ rec[Len(q)] <= due /\ rec[Len(q)] + held[Len(q)] <= promised
  BY DEF Bounded
<1> DEFINE r == Tail(q)
           rec2 == Shift(rec)
           held2 == Shift(held)
<1>2. /\ Len(q) \in Nat /\ Len(q) >= 1 /\ Head(q) = q[1] /\ q[1] \in UpMsg
      /\ Len(r) = Len(q) - 1 /\ \A i \in 1..Len(r) : r[i] = q[i + 1]
  BY TailIs
<1>3. rec \in [Nat -> Nat] /\ held \in [Nat -> Nat]
  BY <1>1 DEF Forecast
<1> HIDE DEF r
<1>4. rec2 \in [Nat -> Nat] /\ held2 \in [Nat -> Nat]
  BY <1>3, Shifted
<1>5. /\ rec2[0] = rec[1] /\ held2[0] = held[1]
      /\ \A i \in Nat : rec2[i] = rec[i + 1] /\ held2[i] = held[i + 1]
  BY <1>3, Shifted
<1> HIDE DEF rec2, held2
<1>6. total2 <= rec2[0] /\ kept2 <= held2[0]
  <2>1. /\ total <= rec[0] /\ kept <= held[0] /\ q[1].count \in Nat
        /\ IF q[1].cmd = "C" THEN rec[0] <= rec[1] /\ q[1].count <= held[1]
           ELSE rec[0] + held[0] <= rec[1]
    <3>1. 1 \in 1..Len(q) /\ 1 - 1 = 0
      BY <1>2
    <3> QED BY <1>1, <1>2, <3>1, UpMsgIs DEF Forecast
  <2>2. rec[0] \in Nat /\ rec[1] \in Nat /\ held[0] \in Nat /\ held[1] \in Nat
    BY <1>3
  <2>3. total2 <= rec[1] /\ kept2 <= held[1]
    BY <1>2, <2>1, <2>2
  <2> QED BY <1>5, <2>3
<1>7. ASSUME NEW i \in 1..Len(r)
      PROVE  IF r[i].cmd = "C" THEN rec2[i - 1] <= rec2[i] /\ r[i].count <= held2[i]
             ELSE rec2[i - 1] + held2[i - 1] <= rec2[i]
  <2>1. i + 1 \in 1..Len(q) /\ i \in Nat /\ i - 1 \in Nat /\ i + 1 - 1 = i /\ i - 1 + 1 = i
    BY <1>2
  <2>2. IF q[i + 1].cmd = "C" THEN rec[i] <= rec[i + 1] /\ q[i + 1].count <= held[i + 1]
        ELSE rec[i] + held[i] <= rec[i + 1]
    <3> DEFINE k == i + 1
    <3>1. k \in 1..Len(q) /\ k - 1 = i
      BY <2>1
    <3> HIDE DEF k
    <3>2. IF q[k].cmd = "C" THEN rec[k - 1] <= rec[k] /\ q[k].count <= held[k]
          ELSE rec[k - 1] + held[k - 1] <= rec[k]
      BY <1>1, <3>1 DEF Forecast
    <3> QED BY <3>1, <3>2 DEF k
  <2>3. rec2[i - 1] = rec[i] /\ held2[i - 1] = held[i] /\ rec2[i] = rec[i + 1] /\ held2[i] = held[i + 1]
    BY <1>5, <2>1
  <2> QED BY <1>2, <2>2, <2>3
<1>8. ASSUME NEW i \in 0..Len(r), NEW j \in 0..Len(r), i <= j PROVE rec2[i] <= rec2[j]
  <2>1. i + 1 \in 0..Len(q) /\ j + 1 \in 0..Len(q) /\ i + 1 <= j + 1 /\ i \in Nat /\ j \in Nat
    BY <1>2, <1>8
  <2>2. rec[i + 1] <= rec[j + 1]
    BY <1>1, <2>1 DEF Forecast
  <2> QED BY <1>5, <2>1, <2>2
<1>9. Forecast(r, Len(r), total2, kept2, rec2, held2)
  BY <1>4, <1>6, <1>7, <1>8 DEF Forecast
<1>10. rec2[Len(r)] <= due /\ rec2[Len(r)] + held2[Len(r)] <= promised
  <2>1. Len(r) \in Nat /\ Len(r) + 1 = Len(q)
    BY <1>2
  <2>2. rec2[Len(r)] = rec[Len(q)] /\ held2[Len(r)] = held[Len(q)]
    BY <1>5, <2>1
  <2> QED BY <1>1, <2>2
<1> QED BY <1>9, <1>10 DEF Bounded, r

LEMMA TalliedMore ==
    ASSUME NEW q, NEW total, NEW kept, NEW due, NEW last, NEW last2,
           Tallied(q, total, kept, due, last), last \subseteq last2
    PROVE  Tallied(q, total, kept, due, last2)
BY DEF Tallied

LEMMA TalliedNow ==
    ASSUME NEW q \in Seq(UpMsg), NEW total, NEW kept, NEW due, NEW last,
           Tallied(q, total, kept, due, last), \A i \in 1..Len(q) : q[i].cmd = "C"
    PROVE  total = due
<1>1. PICK rec, held : Exactly(q, Len(q), total, kept, rec, held) /\ rec[Len(q)] = due
  BY DEF Tallied
<1>2. 0 \in 0..Len(q) /\ Len(q) \in 0..Len(q) /\ 0 <= Len(q) /\ 0 + 1 = 1
  OBVIOUS
<1> QED BY <1>1, <1>2 DEF Exactly

LEMMA TalliedSent ==
    ASSUME NEW q, NEW msg, NEW r, Joined(q, msg, r), msg.count \in Nat, NEW total, NEW kept,
           NEW due \in Nat, NEW last, NEW due2, NEW last2,
           Tallied(q, total, kept, due, last),
           msg.cmd = "C" => due2 = due /\ msg.count \in last2,
           msg.cmd # "C" => 0 \in last2 /\ \A h \in last : due2 = due + h
    PROVE  Tallied(r, total, kept, due2, last2)
<1>1. PICK rec, held : /\ Exactly(q, Len(q), total, kept, rec, held)
                       /\ rec[Len(q)] = due /\ held[Len(q)] \in last
  BY DEF Tallied
<1>2. PICK l \in Nat : l = Len(q)
  BY DEF Joined
<1>3. Len(r) = l + 1 /\ r[l + 1] = msg /\ \A i \in 1..l : r[i] = q[i]
  BY <1>2 DEF Joined
<1>4. rec \in [Nat -> Nat] /\ held \in [Nat -> Nat] /\ Exactly(q, l, total, kept, rec, held)
  BY <1>1, <1>2 DEF Exactly
<1>5. PICK b \in Nat, c \in Nat : b = held[l] /\ c = msg.count
  BY <1>4
<1>6. due = rec[l] /\ b \in last
  BY <1>1, <1>2, <1>5
<1>7. PICK sum \in Nat, rest \in Nat :
         /\ IF msg.cmd = "C" THEN sum = due /\ rest = c ELSE sum = due + b /\ rest = 0
         /\ sum = due2 /\ rest \in last2
  <2>1. CASE msg.cmd = "C"
    <3>1. due2 = due /\ c \in last2
      BY <1>5, <2>1
    <3> QED BY <2>1, <3>1
  <2>2. CASE msg.cmd # "C"
    <3>1. due + b \in Nat /\ due2 = due + b /\ 0 \in last2
      BY <1>6, <2>2
    <3> QED BY <2>2, <3>1
  <2> QED BY <2>1, <2>2
<1>a. /\ rec \in [Nat -> Nat] /\ held \in [Nat -> Nat]
      /\ l + 1 \in Nat /\ \A i \in 0..l : i \in Nat /\ i # l + 1
  BY <1>4
<1>8. PICK rec2 \in [Nat -> Nat] : rec2[l + 1] = sum /\ \A i \in 0..l : rec2[i] = rec[i]
  <2>1. [rec EXCEPT ![l + 1] = sum] \in [Nat -> Nat]
    BY <1>a
  <2>2. /\ [rec EXCEPT ![l + 1] = sum][l + 1] = sum
        /\ \A i \in 0..l : [rec EXCEPT ![l + 1] = sum][i] = rec[i]
    BY <1>a
  <2> QED BY <2>1, <2>2
<1>9. PICK held2 \in [Nat -> Nat] : held2[l + 1] = rest /\ \A i \in 0..l : held2[i] = held[i]
  <2>1. [held EXCEPT ![l + 1] = rest] \in [Nat -> Nat]
    BY <1>a
  <2>2. /\ [held EXCEPT ![l + 1] = rest][l + 1] = rest
        /\ \A i \in 0..l : [held EXCEPT ![l + 1] = rest][i] = held[i]
    BY <1>a
  <2> QED BY <2>1, <2>2
<1>10. total = rec2[0] /\ kept = held2[0]
  BY <1>4, <1>8, <1>9 DEF Exactly
<1>11. ASSUME NEW i \in 1..(l + 1)
       PROVE  IF r[i].cmd = "C" THEN rec2[i] = rec2[i - 1] /\ held2[i] = r[i].count
              ELSE rec2[i] = rec2[i - 1] + held2[i - 1] /\ held2[i] = 0
  <2>1. CASE i = l + 1
    <3>1. i - 1 = l /\ l \in 0..l
      BY <2>1
    <3>2. /\ rec2[i - 1] = due /\ held2[i - 1] = b /\ rec2[i] = sum /\ held2[i] = rest
          /\ r[i] = msg /\ r[i].count = c
      BY <1>3, <1>5, <1>6, <1>8, <1>9, <2>1, <3>1
    <3> QED BY <1>7, <3>2
  <2>2. CASE i # l + 1
    <3>1. i \in 1..l /\ i \in 0..l /\ i - 1 \in 0..l
      BY <2>2
    <3> QED BY <1>3, <1>4, <1>8, <1>9, <3>1 DEF Exactly
  <2> QED BY <2>1, <2>2
<1>12. ASSUME NEW i \in 0..(l + 1), NEW j \in 0..(l + 1), i <= j,
              \A k \in (i + 1)..j : r[k].cmd = "C"
       PROVE  rec2[j] = rec2[i]
  <2>1. CASE i = j
    BY <2>1
  <2>2. CASE i # j
    <3>1. i \in 0..l /\ i \in Nat /\ j \in Nat
      BY <1>12, <2>2
    <3>2. CASE j # l + 1
      <4>1. j \in 0..l /\ \A k \in (i + 1)..j : k \in 1..l
        BY <3>1, <3>2
      <4>2. \A k \in (i + 1)..j : q[k].cmd = "C"
        BY <1>3, <1>12, <4>1
      <4> QED BY <1>4, <1>8, <1>12, <3>1, <4>1, <4>2 DEF Exactly
    <3>3. CASE j = l + 1
      <4>1. l \in 0..l /\ i <= l /\ l + 1 \in (i + 1)..j
            /\ \A k \in (i + 1)..l : k \in 1..l /\ k \in (i + 1)..j
        BY <2>2, <3>1, <3>3, <1>12
      <4>2. \A k \in (i + 1)..l : q[k].cmd = "C"
        BY <1>3, <1>12, <4>1
      <4>3. rec[l] = rec[i]
        BY <1>4, <3>1, <4>1, <4>2 DEF Exactly
      <4>4. msg.cmd = "C"
        BY <1>3, <1>12, <4>1
      <4>5. sum = rec[l]
        BY <1>6, <1>7, <4>4
      <4> QED BY <1>8, <3>1, <3>3, <4>3, <4>5
    <3> QED BY <3>2, <3>3
  <2> QED BY <2>1, <2>2
<1>13. Exactly(r, l + 1, total, kept, rec2, held2)
  BY <1>10, <1>11, <1>12 DEF Exactly
<1> QED BY <1>3, <1>7, <1>8, <1>9, <1>13 DEF Tallied

LEMMA TalliedTaken ==
    ASSUME NEW q \in Seq(UpMsg), Arrived(q), NEW total, NEW kept, NEW due, NEW last,
           NEW total2, NEW kept2, Tallied(q, total, kept, due, last),
           IF Head(q).cmd = "C" THEN total2 = total /\ kept2 = Head(q).count
           ELSE total2 = total + kept /\ kept2 = 0
    PROVE  Tallied(Tail(q), total2, kept2, due, last)
<1>1. PICK rec, held : /\ Exactly(q, Len(q), total, kept, rec, held)
                       /\ rec[Len(q)] = due /\ held[Len(q)] \in last
  BY DEF Tallied
<1> DEFINE r == Tail(q)
           rec2 == Shift(rec)
           held2 == Shift(held)
<1>2. /\ Len(q) \in Nat /\ Len(q) >= 1 /\ Head(q) = q[1] /\ q[1] \in UpMsg
      /\ Len(r) = Len(q) - 1 /\ \A i \in 1..Len(r) : r[i] = q[i + 1]
  BY TailIs
<1>3. rec \in [Nat -> Nat] /\ held \in [Nat -> Nat]
  BY <1>1 DEF Exactly
<1> HIDE DEF r
<1>4. rec2 \in [Nat -> Nat] /\ held2 \in [Nat -> Nat]
  BY <1>3, Shifted
<1>5. /\ rec2[0] = rec[1] /\ held2[0] = held[1]
      /\ \A i \in Nat : rec2[i] = rec[i + 1] /\ held2[i] = held[i + 1]
  BY <1>3, Shifted
<1> HIDE DEF rec2, held2
<1>6. total2 = rec2[0] /\ kept2 = held2[0]
  <2>1. 1 \in 1..Len(q) /\ 1 - 1 = 0
    BY <1>2
  <2>2. total2 = rec[1] /\ kept2 = held[1]
    BY <1>1, <1>2, <2>1 DEF Exactly
  <2> QED BY <1>5, <2>2
<1>7. ASSUME NEW i \in 1..Len(r)
      PROVE  IF r[i].cmd = "C" THEN rec2[i] = rec2[i - 1] /\ held2[i] = r[i].count
             ELSE rec2[i] = rec2[i - 1] + held2[i - 1] /\ held2[i] = 0
  <2>1. i + 1 \in 1..Len(q) /\ i \in Nat /\ i - 1 \in Nat /\ i + 1 - 1 = i /\ i - 1 + 1 = i
    BY <1>2
  <2>2. IF q[i + 1].cmd = "C" THEN rec[i + 1] = rec[i] /\ held[i + 1] = q[i + 1].count
        ELSE rec[i + 1] = rec[i] + held[i] /\ held[i + 1] = 0
    <3> DEFINE k == i + 1
    <3>1. k \in 1..Len(q) /\ k - 1 = i
      BY <2>1
    <3> HIDE DEF k
    <3>2. IF q[k].cmd = "C" THEN rec[k] = rec[k - 1] /\ held[k] = q[k].count
          ELSE rec[k] = rec[k - 1] + held[k - 1] /\ held[k] = 0
      BY <1>1, <3>1 DEF Exactly
    <3> QED BY <3>1, <3>2 DEF k
  <2>3. rec2[i - 1] = rec[i] /\ held2[i - 1] = held[i] /\ rec2[i] = rec[i + 1] /\ held2[i] = held[i + 1]
    BY <1>5, <2>1
  <2> QED BY <1>2, <2>2, <2>3
<1>8. ASSUME NEW i \in 0..Len(r), NEW j \in 0..Len(r), i <= j, \A k \in (i + 1)..j : r[k].cmd = "C"
      PROVE  rec2[j] = rec2[i]
  <2>1. i + 1 \in 0..Len(q) /\ j + 1 \in 0..Len(q) /\ i + 1 <= j + 1 /\ i \in Nat /\ j \in Nat
    BY <1>2, <1>8
  <2>2. ASSUME NEW k \in (i + 1 + 1)..(j + 1) PROVE q[k].cmd = "C"
    <3>1. k - 1 \in (i + 1)..j /\ k - 1 \in 1..Len(r) /\ k - 1 + 1 = k
      BY <1>2, <2>1
    <3> QED BY <1>2, <1>8, <3>1
  <2>3. rec[j + 1] = rec[i + 1]
    BY <1>1, <2>1, <2>2 DEF Exactly
  <2> QED BY <1>5, <2>1, <2>3
<1>9. Exactly(r, Len(r), total2, kept2, rec2, held2)
  BY <1>4, <1>6, <1>7, <1>8 DEF Exactly
<1>10. rec2[Len(r)] = due /\ held2[Len(r)] \in last
  <2>1. Len(r) \in Nat /\ Len(r) + 1 = Len(q)
    BY <1>2
  <2>2. rec2[Len(r)] = rec[Len(q)] /\ held2[Len(r)] = held[Len(q)]
    BY <1>5, <2>1
  <2> QED BY <1>1, <2>2
<1> QED BY <1>9, <1>10 DEF Tallied, r

-----------------------------------------------------------------------------
(* What a step leaves of the account of a node.                            *)

Accounts == LInv /\ OtherTypes

LEMMA LocalTypes ==
    ASSUME Accounts, NEW n \in Node
    PROVE  /\ uplink[n] \in Seq(UpMsg) /\ downlink[n] \in Seq(DownMsg) /\ cycle[n] \in Cycle
           /\ pc[n] \in PC /\ lastCount[n] \in Nat /\ cleared[n] \in Nat /\ recorded[n] \in Nat
           /\ remoteData[n] \in Nat /\ earned[n] \in Int /\ faults[n] \in SUBSET Fault
           /\ protocolState[n] \in 0..2
BY DEF Accounts, LInv, IInv, TypeOK, LinkTypeOK, NodeTypeOK, BaseTypeOK, AccountTypes, OtherTypes

LEMMA SumTypes ==
    ASSUME Accounts, NEW n \in Node
    PROVE  /\ TakenOff(n) \in Nat /\ Promised(n) \in Nat /\ Saved(n) \in Nat
           /\ Acks(downlink[n]) \in Nat
<1>1. /\ lastCount[n] \in Nat /\ cleared[n] \in Nat /\ remoteData[n] \in Nat
      /\ downlink[n] \in Seq(DownMsg)
  BY LocalTypes
<1>2. TakenOff(n) \in Nat /\ Promised(n) \in Nat /\ Saved(n) \in Nat
  BY <1>1 DEF TakenOff, Promised, Saved
<1> QED BY <1>1, <1>2, AcksType

LEMMA SumTypesNext ==
    ASSUME Accounts', NEW n \in Node
    PROVE  /\ TakenOff(n)' \in Nat /\ Promised(n)' \in Nat /\ Saved(n)' \in Nat
           /\ Acks(downlink'[n]) \in Nat
<1>1. /\ lastCount'[n] \in Nat /\ cleared'[n] \in Nat /\ remoteData'[n] \in Nat
      /\ downlink'[n] \in Seq(DownMsg)
  BY DEF Accounts, LInv, IInv, TypeOK, LinkTypeOK, NodeTypeOK, BaseTypeOK, AccountTypes
<1>2. TakenOff(n)' \in Nat /\ Promised(n)' \in Nat /\ Saved(n)' \in Nat
  BY <1>1 DEF TakenOff, Promised, Saved
<1> QED BY <1>1, <1>2, AcksType

(* A step that nothing of what the base records depends on.                *)
Steady(n) ==
    /\ uplink'[n] = uplink[n] /\ faults'[n] = faults[n]
    /\ recorded'[n] = recorded[n] /\ Saved(n)' = Saved(n)
    /\ TakenOff(n)' = TakenOff(n) /\ Promised(n) <= Promised(n)'
    /\ Reporting(n)' => Reporting(n) /\ lastCount'[n] = lastCount[n]

(* A step of somebody else, or one that the account takes no notice of.    *)
Quiet(n) == /\ Steady(n)
            /\ downlink'[n] = downlink[n] /\ earned'[n] = earned[n]
            /\ Holding(n)' => Holding(n)

LEMMA QuietKeepsAcks ==
    ASSUME NEW n \in Node, Quiet(n), AcksEarned(n)
    PROVE  AcksEarned(n)'
BY DEF Quiet, AcksEarned

LEMMA SteadyKeepsRecords ==
    ASSUME Accounts, Accounts', NEW n \in Node, Steady(n),
           OnlyReports(n), BoundKept(n), TallyKept(n)
    PROVE  OnlyReports(n)' /\ BoundKept(n)' /\ TallyKept(n)'
<1>1. OnlyReports(n)'
  BY DEF Steady, OnlyReports, Blameless
<1>2. BoundKept(n)'
  <2>1. SUFFICES ASSUME Blameless(n, Grave)'
                 PROVE  Bounded(uplink[n], recorded[n], Saved(n), TakenOff(n), Promised(n)')
    BY DEF BoundKept, Steady
  <2>2. Bounded(uplink[n], recorded[n], Saved(n), TakenOff(n), Promised(n))
    BY <2>1 DEF BoundKept, Steady, Blameless
  <2>3. /\ uplink[n] \in Seq(UpMsg) /\ TakenOff(n) \in Nat /\ Promised(n) \in Nat
        /\ Promised(n)' \in Nat /\ TakenOff(n) <= TakenOff(n) /\ Promised(n) <= Promised(n)'
    BY LocalTypes, SumTypes, SumTypesNext DEF Steady
  <2> QED BY <2>2, <2>3, BoundedMore
<1>3. TallyKept(n)'
  <2> DEFINE last == IF Reporting(n) THEN {lastCount[n]} ELSE Nat
             last2 == IF Reporting(n)' THEN {lastCount'[n]} ELSE Nat
  <2>1. SUFFICES ASSUME Blameless(n, Fault)'
                 PROVE  Tallied(uplink[n], recorded[n], Saved(n), TakenOff(n), last2)
    BY DEF TallyKept, Steady
  <2>2. Tallied(uplink[n], recorded[n], Saved(n), TakenOff(n), last)
    BY <2>1 DEF TallyKept, Steady, Blameless
  <2>3. last \subseteq last2
    <3>1. lastCount[n] \in Nat
      BY LocalTypes
    <3>2. Reporting(n)' => Reporting(n) /\ lastCount'[n] = lastCount[n]
      BY DEF Steady
    <3> QED BY <3>1, <3>2
  <2> HIDE DEF last, last2
  <2> QED BY <2>2, <2>3, TalliedMore
<1> QED BY <1>1, <1>2, <1>3

LEMMA QuietKeepsAccount ==
    ASSUME Accounts, Accounts', NEW n \in Node, Quiet(n), Account(n)
    PROVE  Account(n)'
<1>1. AcksEarned(n)'
  BY QuietKeepsAcks DEF Account
<1>2. OnlyJudgements(n)'
  BY DEF Quiet, Steady, Account, OnlyJudgements, Blameless
<1>3. OnlyReports(n)' /\ BoundKept(n)' /\ TallyKept(n)'
  BY SteadyKeepsRecords DEF Quiet, Account
<1> QED BY <1>1, <1>2, <1>3 DEF Account

-----------------------------------------------------------------------------
(* A step of one node, or for one node, leaves the others.                 *)

SameAt(m) ==
    /\ uplink'[m] = uplink[m] /\ downlink'[m] = downlink[m]
    /\ earned'[m] = earned[m] /\ faults'[m] = faults[m]
    /\ recorded'[m] = recorded[m] /\ cleared'[m] = cleared[m]
    /\ pc'[m] = pc[m] /\ cycle'[m] = cycle[m] /\ lastCount'[m] = lastCount[m]
    /\ protocolState'[m] = protocolState[m] /\ remoteData'[m] = remoteData[m]

LEMMA SameIsQuiet == ASSUME Accounts, NEW m \in Node, SameAt(m) PROVE Quiet(m)
<1>1. TakenOff(m)' = TakenOff(m) /\ Promised(m)' = Promised(m) /\ Saved(m)' = Saved(m)
  BY DEF SameAt, TakenOff, Promised, Saved, Clearing, InCycle, Final
<1>2. Reporting(m)' = Reporting(m) /\ Holding(m)' = Holding(m)
  BY DEF SameAt, Reporting, Holding
<1>3. Promised(m) \in Nat
  BY SumTypes
<1> QED BY <1>1, <1>2, <1>3 DEF SameAt, Steady, Quiet

LEMMA FunctionTypes ==
    ASSUME Accounts
    PROVE  /\ uplink \in [Node -> Seq(UpMsg)] /\ downlink \in [Node -> Seq(DownMsg)]
           /\ earned \in [Node -> Int] /\ faults \in [Node -> SUBSET Fault]
           /\ recorded \in [Node -> Nat] /\ cleared \in [Node -> Nat]
           /\ pc \in [Node -> PC] /\ cycle \in [Node -> Cycle] /\ lastCount \in [Node -> Nat]
           /\ protocolState \in [Node -> 0..2] /\ remoteData \in [Node -> Nat]
BY DEF Accounts, LInv, IInv, TypeOK, LinkTypeOK, NodeTypeOK, BaseTypeOK, AccountTypes, OtherTypes

NodeStep(n) == \/ LedgerPulse(n) \/ LedgerBegin(n) \/ LedgerTransmit(n) \/ LedgerAbandon(n)
               \/ LedgerAccept(n) \/ LedgerStore(n) \/ LedgerReset(n)
               \/ NodeUnlisted(n) /\ UNCHANGED ledgerVars

BaseStep(n) == \/ LedgerData(n) \/ LedgerDamaged(n) \/ LedgerRecord(n) \/ LedgerCommand(n)
               \/ BaseUnlisted(n) /\ UNCHANGED ledgerVars

LEMMA NodeStepFrame ==
    ASSUME Accounts, NEW n \in Node, NodeStep(n), UNCHANGED baseVars, NEW m \in Node, m # n
    PROVE  SameAt(m)
<1> USE FunctionTypes
<1>1. recorded' = recorded /\ protocolState' = protocolState /\ remoteData' = remoteData
  BY DEF NodeStep, baseVars, ledgerVars, LedgerPulse, LedgerBegin, LedgerTransmit, LedgerAbandon,
         LedgerAccept, LedgerStore, LedgerReset
<1>2. earned'[m] = earned[m] /\ cleared'[m] = cleared[m]
  BY DEF NodeStep, ledgerVars, LedgerPulse, LedgerBegin, LedgerTransmit, LedgerAbandon,
         LedgerAccept, LedgerStore, LedgerReset, Add
<1>3. faults'[m] = faults[m]
  BY DEF NodeStep, ledgerVars, LedgerPulse, LedgerBegin, LedgerTransmit, LedgerAbandon,
         LedgerAccept, LedgerStore, LedgerReset, LostUp, Blame
<1>4. /\ uplink'[m] = uplink[m] /\ downlink'[m] = downlink[m]
      /\ pc'[m] = pc[m] /\ cycle'[m] = cycle[m] /\ lastCount'[m] = lastCount[m]
  <2>1. CASE LedgerPulse(n)
    BY <2>1 DEF LedgerPulse, CountISR, WakeUp, Goto, linkVars
  <2>2. CASE LedgerBegin(n)
    BY <2>2 DEF LedgerBegin, BeginCycle, NoteCount, Goto, linkVars
  <2>3. CASE LedgerTransmit(n)
    BY <2>3 DEF LedgerTransmit, Transmit, Goto, SendUp
  <2>4. CASE LedgerAbandon(n)
    BY <2>4 DEF LedgerAbandon, Abandon, Goto, SendUp
  <2>5. CASE LedgerAccept(n)
    BY <2>5 DEF LedgerAccept, Accept, Goto, SendUp
  <2>6. CASE LedgerStore(n)
    BY <2>6 DEF LedgerStore, StoreCount, Goto, linkVars
  <2>7. CASE LedgerReset(n)
    BY <2>7 DEF LedgerReset, HardReset, Goto, linkVars
  <2>8. CASE WdtISR(n) \/ Boot(n) \/ BeginPoll(n) \/ Settle(n) \/ Sleep(n) \/ LoadCount(n)
    BY <2>8 DEF WdtISR, Boot, BeginPoll, NoteCount, Settle, Sleep, LoadCount, WakeUp, Goto, linkVars
  <2>9. CASE QueryAssociation(n) \/ QueryBattery(n)
    BY <2>9 DEF QueryAssociation, QueryBattery, Query, Goto, linkVars
  <2>10. CASE Hear(n)
    <3> USE DEF Resume, Goto, heardVars, linkVars
    <3>1. CASE HearNothing(n)
      BY <3>1 DEF HearNothing
    <3>2. CASE HearAssociation(n) \/ HearBattery(n) \/ HearTxStatus(n)
      BY <3>2 DEF HearAssociation, HearBattery, HearTxStatus, Answered
    <3>3. CASE HearReply(n)
      BY <3>3 DEF HearReply, TakeDown
    <3>4. CASE HearCommand(n)
      BY <3>4 DEF HearCommand, TakeDown, SendUp
    <3> QED BY <2>10, <3>1, <3>2, <3>3, <3>4 DEF Hear
  <2> QED BY <2>1, <2>2, <2>3, <2>4, <2>5, <2>6, <2>7, <2>8, <2>9, <2>10 DEF NodeStep, NodeUnlisted
<1> QED BY <1>1, <1>2, <1>3, <1>4 DEF SameAt

LEMMA BaseStepFrame ==
    ASSUME Accounts, NEW n \in Node, BaseStep(n), UNCHANGED nodeVars, NEW m \in Node, m # n
    PROVE  SameAt(m)
<1> USE FunctionTypes
<1>1. pc' = pc /\ cycle' = cycle /\ lastCount' = lastCount
  BY DEF nodeVars
<1>2. /\ cleared' = cleared /\ earned'[m] = earned[m] /\ faults'[m] = faults[m]
      /\ recorded'[m] = recorded[m]
  BY DEF BaseStep, ledgerVars, LedgerData, LedgerDamaged, LedgerRecord, LedgerCommand, Add, Blame
<1>3. /\ uplink'[m] = uplink[m] /\ downlink'[m] = downlink[m]
      /\ protocolState'[m] = protocolState[m] /\ remoteData'[m] = remoteData[m]
  <2> USE DEF Packet, TakeUp, SendDown, SetState, baseVars
  <2>1. CASE LedgerData(n) \/ LedgerDamaged(n)
    BY <2>1 DEF LedgerData, LedgerDamaged, ReceiveData, ReceiveDamaged
  <2>2. CASE LedgerRecord(n) \/ BaseUnlisted(n)
    BY <2>2 DEF LedgerRecord, ReceiveAcceptance, BaseUnlisted, ReceiveAbandon, ReceiveResponse,
                ReceiveStrayAck
  <2>3. CASE LedgerCommand(n)
    BY <2>3 DEF LedgerCommand, SendCommand
  <2> QED BY <2>1, <2>2, <2>3 DEF BaseStep
<1> QED BY <1>1, <1>2, <1>3 DEF SameAt

-----------------------------------------------------------------------------
(* The steps of a node, for itself.                                        *)

LEMMA EnteredIs ==
    ASSUME NEW c \in Cycle
    PROVE  /\ c.stage \in {"transmit", "complete"} => Entered(c) = c
           /\ Entered(c).stage = "transmit" /\ c.stage # "transmit" =>
                 ~Entered(c).ack /\ Entered(c).retryEnable
           /\ Entered(c) \in Cycle
<1>1. Entered(c) \in Cycle
  BY EnteredType
<1> QED BY <1>1 DEF Entered, PassBattery, PassAssociation, Cycle

LEMMA SendingIs ==
    ASSUME NEW c \in Cycle PROVE Sending(c).stage = c.stage /\ Sending(c).ack = c.ack
BY DEF Sending, Cycle

LEMMA HoldRetryIs ==
    ASSUME NEW c \in Cycle, NEW stage
    PROVE  /\ HoldRetry(c, stage) \in Cycle
           /\ HoldRetry(c, stage).stage = c.stage /\ HoldRetry(c, stage).ack = c.ack
<1>1. HoldRetry(c, stage) \in Cycle
  BY HoldRetryType
<1> QED BY <1>1 DEF HoldRetry, Cycle

LEMMA JudgedIs ==
    ASSUME NEW c \in Cycle, NEW cmd
    PROVE  /\ Judged(c, cmd).stage = c.stage
           /\ Judged(c, cmd).ack => c.ack \/ cmd = "A"
<1> DEFINE h == HoldRetry(c, "transmit")
<1>1. h \in Cycle /\ h.stage = c.stage /\ h.ack = c.ack
  BY HoldRetryIs
<1> HIDE DEF h
<1>2. Judged(c, cmd) = [h EXCEPT !.ack = @ \/ (c.stage = "transmit" /\ cmd = "A")]
  BY DEF Judged, h
<1>3. /\ [h EXCEPT !.ack = @ \/ (c.stage = "transmit" /\ cmd = "A")].stage = h.stage
      /\ [h EXCEPT !.ack = @ \/ (c.stage = "transmit" /\ cmd = "A")].ack
            = (h.ack \/ (c.stage = "transmit" /\ cmd = "A"))
  BY <1>1 DEF Cycle
<1> QED BY <1>1, <1>2, <1>3

(* What main goes on with after hearing anything but a packet.             *)
LEMMA HeardIs ==
    ASSUME NEW n \in Node, cycle[n] \in Cycle,
           HearNothing(n) \/ HearAssociation(n) \/ HearBattery(n) \/ HearTxStatus(n)
    PROVE  \E c : Resume(n, c) /\ c.stage = cycle[n].stage /\ c.ack = cycle[n].ack
<1>1. CASE HearNothing(n)
  BY <1>1 DEF HearNothing
<1>2. CASE HearAssociation(n)
  <2> DEFINE h == HoldRetry(cycle[n], "associationCheck")
  <2>1. PICK assoc \in BOOLEAN :
            Resume(n, [h EXCEPT !.associated = assoc /\ cycle[n].stage = "associationCheck"])
    BY <1>2 DEF HearAssociation
  <2>2. h \in Cycle /\ h.stage = cycle[n].stage /\ h.ack = cycle[n].ack
    BY HoldRetryIs
  <2> HIDE DEF h
  <2> DEFINE c == [h EXCEPT !.associated = assoc /\ cycle[n].stage = "associationCheck"]
  <2>3. c.stage = h.stage /\ c.ack = h.ack
    BY <2>2 DEF Cycle
  <2> QED BY <2>1, <2>2, <2>3
<1>3. CASE HearBattery(n)
  <2> DEFINE h == HoldRetry(cycle[n], "batteryCheck")
             c == [h EXCEPT !.batteryCheckOK =
                       cycle[n].stage \in {"associationCheck", "batteryCheck"}]
  <2>1. h \in Cycle /\ h.stage = cycle[n].stage /\ h.ack = cycle[n].ack
    BY HoldRetryIs
  <2>2. Resume(n, c)
    BY <1>3 DEF HearBattery
  <2> HIDE DEF h
  <2>3. c.stage = h.stage /\ c.ack = h.ack
    BY <2>1 DEF Cycle
  <2> QED BY <2>1, <2>2, <2>3
<1>4. CASE HearTxStatus(n)
  <2> DEFINE c == [cycle[n] EXCEPT !.retryEnable = FALSE]
  <2>1. Resume(n, c)
    BY <1>4 DEF HearTxStatus
  <2>2. c.stage = cycle[n].stage /\ c.ack = cycle[n].ack
    BY DEF Cycle
  <2> QED BY <2>1, <2>2
<1> QED BY <1>1, <1>2, <1>3, <1>4

LEMMA NodeQuiet ==
    ASSUME Accounts, Accounts', NEW n \in Node, UNCHANGED baseVars,
           \/ LedgerPulse(n) \/ LedgerBegin(n) \/ LedgerStore(n)
           \/ NodeUnlisted(n) /\ UNCHANGED ledgerVars /\ ~HearReply(n) /\ ~HearCommand(n)
    PROVE  Quiet(n)
<1>0. /\ pc[n] \in PC /\ cycle[n] \in Cycle /\ lastCount[n] \in Nat /\ cleared[n] \in Nat
      /\ lastCount'[n] \in Nat /\ cycle'[n] \in Cycle
      /\ TakenOff(n) \in Nat /\ Promised(n) \in Nat
  <2>1. lastCount'[n] \in Nat /\ cycle'[n] \in Cycle
    BY DEF Accounts, LInv, IInv, TypeOK, NodeTypeOK
  <2> QED BY <2>1, LocalTypes, SumTypes
<1>1. recorded' = recorded /\ Saved(n)' = Saved(n)
  BY DEF LedgerPulse, LedgerBegin, LedgerStore, ledgerVars, baseVars, Saved, Final
<1>2. uplink' = uplink /\ downlink' = downlink /\ earned' = earned /\ faults' = faults
  BY DEF LedgerPulse, CountISR, LedgerBegin, BeginCycle, LedgerStore, StoreCount, ledgerVars,
         NodeUnlisted, WdtISR, Boot, BeginPoll, Settle, Sleep, QueryAssociation, QueryBattery,
         Query, LoadCount, Hear, HearNothing, HearAssociation, HearBattery, HearTxStatus,
         Answered, linkVars
<1> DEFINE Still == /\ TakenOff(n)' = TakenOff(n) /\ Promised(n) <= Promised(n)'
                    /\ Reporting(n)' => Reporting(n) /\ lastCount'[n] = lastCount[n]
                    /\ Holding(n)' => Holding(n)
<1>3. ASSUME \/ LedgerPulse(n)
             \/ (WdtISR(n) \/ Boot(n) \/ Settle(n) \/ Sleep(n)) /\ UNCHANGED ledgerVars
      PROVE  Still
  <2>1. /\ cleared' = cleared /\ lastCount' = lastCount /\ cycle' = cycle
        /\ pc[n] = pc'[n] \/ {pc[n], pc'[n]} \subseteq {"boot", "top", "settle", "sleep", "asleep"}
    BY <1>3, FunctionTypes DEF LedgerPulse, CountISR, WdtISR, Boot, Settle, Sleep, WakeUp, Goto, At, ledgerVars
  <2>2. TakenOff(n)' = TakenOff(n) /\ Promised(n)' = Promised(n)
    BY <2>1 DEF TakenOff, Promised, Clearing, InCycle
  <2>3. Reporting(n)' = Reporting(n) /\ Holding(n)' = Holding(n)
    BY <2>1 DEF Holding, Reporting
  <2> QED BY <1>0, <2>1, <2>2, <2>3
<1>4. ASSUME (BeginPoll(n) /\ cleared' = cleared) \/ LedgerBegin(n)
      PROVE  Still
  <2>1. cleared' = cleared /\ pc[n] = "top"
    BY <1>4 DEF BeginPoll, LedgerBegin, BeginCycle, NoteCount, At
  <2>a. pc'[n] = "poll" \/ (pc'[n] = "stage" /\ cycle'[n] = InitialCycle)
    <3>1. CASE BeginPoll(n)
      <4>1. pc' = [pc EXCEPT ![n] = "poll"]
        BY <3>1 DEF BeginPoll, Goto
      <4> QED BY <4>1, FunctionTypes
    <3>2. CASE LedgerBegin(n)
      BY <3>2, FunctionTypes DEF LedgerBegin, BeginCycle, Goto
    <3> QED BY <1>4, <3>1, <3>2
  <2>2. TakenOff(n)' = TakenOff(n) /\ Promised(n) <= Promised(n)'
    BY <1>0, <2>1, <2>a DEF TakenOff, Promised, Clearing, InCycle
  <2>3. ~Reporting(n)' /\ ~Holding(n)'
    BY <2>a DEF Holding, Reporting, InitialCycle
  <2> QED BY <2>2, <2>3
<1>5. ASSUME LoadCount(n) /\ cleared' = cleared
      PROVE  Still
  <2>1. cleared' = cleared /\ lastCount' = lastCount /\ pc[n] = "load" /\ pc'[n] = "store"
    BY <1>5, FunctionTypes DEF LoadCount, Goto, At
  <2>2. TakenOff(n)' = TakenOff(n) /\ Promised(n)' = Promised(n) /\ ~Reporting(n)' /\ ~Holding(n)'
    BY <2>1 DEF TakenOff, Promised, Clearing, InCycle, Holding, Reporting
  <2> QED BY <1>0, <2>2
<1>6. ASSUME LedgerStore(n)
      PROVE  Still
  <2>1. /\ cleared'[n] = cleared[n] + lastCount[n] /\ lastCount'[n] = 0
        /\ pc[n] = "store" /\ pc'[n] = "wait" /\ cycle'[n].stage = "complete"
    BY <1>0, <1>6, FunctionTypes DEF LedgerStore, StoreCount, Add, Goto, At, Completed, Cycle
  <2>2. TakenOff(n)' = TakenOff(n) /\ Promised(n)' = Promised(n) /\ ~Reporting(n)' /\ ~Holding(n)'
    BY <1>0, <2>1 DEF TakenOff, Promised, Clearing, InCycle, Holding, Reporting
  <2> QED BY <1>0, <2>2
<1>7. ASSUME (QueryAssociation(n) \/ QueryBattery(n)) /\ cleared' = cleared
      PROVE  Still
  <2> DEFINE c == Entered(cycle[n])
  <2>1. /\ cleared' = cleared /\ lastCount' = lastCount /\ pc[n] = "stage" /\ pc'[n] = "wait"
        /\ cycle'[n] = Sending(c) /\ c.stage \in {"associationCheck", "batteryCheck"}
    BY <1>7, FunctionTypes DEF QueryAssociation, QueryBattery, Query, Goto, At
  <2>2. cycle'[n].stage \in {"associationCheck", "batteryCheck"}
    BY <1>0, <2>1, EnteredIs, SendingIs
  <2>3. TakenOff(n)' = TakenOff(n) /\ Promised(n)' = Promised(n) /\ ~Reporting(n)' /\ ~Holding(n)'
    BY <2>1, <2>2 DEF TakenOff, Promised, Clearing, InCycle, Holding, Reporting
  <2> QED BY <1>0, <2>3
<1>8. ASSUME (HearNothing(n) \/ HearAssociation(n) \/ HearBattery(n) \/ HearTxStatus(n)) /\ cleared' = cleared
      PROVE  Still
  <2>1. PICK c : Resume(n, c) /\ c.stage = cycle[n].stage /\ c.ack = cycle[n].ack
    BY <1>0, <1>8, HeardIs
  <2>2. cleared' = cleared /\ lastCount' = lastCount
    BY <1>8 DEF HearNothing, HearAssociation, HearBattery, HearTxStatus, Answered, heardVars
  <2>3. \/ pc[n] = "poll" /\ pc'[n] = "settle"
        \/ pc[n] = "wait" /\ cycle[n].stage # "complete" /\ pc'[n] = "stage" /\ cycle'[n] = c
        \/ pc[n] = "wait" /\ cycle[n].stage = "complete" /\ pc'[n] = "settle"
    BY <2>1, FunctionTypes DEF Resume, Goto, At
  <2>4. TakenOff(n)' = TakenOff(n) /\ Promised(n)' = Promised(n)
    BY <2>2, <2>3 DEF TakenOff, Promised, Clearing, InCycle
  <2>5. (Reporting(n)' => Reporting(n)) /\ (Holding(n)' => Holding(n))
    BY <2>1, <2>3 DEF Holding, Reporting
  <2> QED BY <1>0, <2>2, <2>4, <2>5
<1> HIDE DEF Still
<1>9. Still
  <2>1. CASE LedgerPulse(n) \/ LedgerBegin(n) \/ LedgerStore(n)
    BY <2>1, <1>3, <1>4, <1>6
  <2>2. CASE NodeUnlisted(n) /\ UNCHANGED ledgerVars /\ ~HearReply(n) /\ ~HearCommand(n)
    <3>1. cleared' = cleared
      BY <2>2 DEF ledgerVars
    <3>2. CASE WdtISR(n) \/ Boot(n) \/ Settle(n) \/ Sleep(n)
      BY <2>2, <3>1, <3>2, <1>3
    <3>3. CASE BeginPoll(n) \/ LoadCount(n)
      BY <3>1, <3>3, <1>4, <1>5
    <3>4. CASE QueryAssociation(n) \/ QueryBattery(n)
      BY <3>1, <3>4, <1>7
    <3>5. CASE Hear(n)
      BY <2>2, <3>1, <3>5, <1>8 DEF Hear
    <3> QED BY <2>2, <3>2, <3>3, <3>4, <3>5 DEF NodeUnlisted
  <2> QED BY <2>1, <2>2
<1> QED BY <1>1, <1>2, <1>9 DEF Steady, Quiet, Still

(* Only a cycle that holds an ACK is accepted.                             *)
LEMMA AcceptHolds ==
    ASSUME Accounts, NEW n \in Node, LedgerAccept(n)
    PROVE  /\ Holding(n) /\ pc[n] = "stage" /\ pc'[n] = "load"
           /\ earned'[n] = earned[n] - 1 /\ downlink' = downlink
           /\ cleared' = cleared /\ lastCount' = lastCount /\ recorded' = recorded
           /\ ~Holding(n)' /\ ~Reporting(n)'
<1>1. /\ pc[n] = "stage" /\ pc' = [pc EXCEPT ![n] = "load"]
      /\ Entered(cycle[n]).stage = "transmit" /\ Entered(cycle[n]).ack
      /\ earned' = [earned EXCEPT ![n] = earned[n] + -1] /\ downlink' = downlink
      /\ cleared' = cleared /\ lastCount' = lastCount /\ recorded' = recorded
  BY DEF LedgerAccept, Accept, At, Goto, Add
<1>2. cycle[n] \in Cycle /\ earned[n] \in Int
  BY LocalTypes
<1>3. cycle[n].stage = "transmit" /\ cycle[n].ack
  BY <1>1, <1>2, EnteredIs
<1>4. pc'[n] = "load" /\ earned'[n] = earned[n] - 1
  BY <1>1, <1>2, FunctionTypes
<1> QED BY <1>1, <1>3, <1>4 DEF Holding, Reporting

(* main takes a packet from the queue; the cycle goes on.                  *)
LEMMA HearPacketIs ==
    ASSUME Accounts, NEW n \in Node, HearReply(n) \/ HearCommand(n), UNCHANGED ledgerVars
    PROVE  /\ Arrived(downlink[n]) /\ downlink'[n] = Tail(downlink[n])
           /\ TakenOff(n)' = TakenOff(n) /\ Promised(n)' = Promised(n)
           /\ lastCount' = lastCount
           /\ Reporting(n)' => Reporting(n)
           /\ Holding(n)' => Holding(n) \/ Head(downlink[n]).cmd = "A"
           /\ HearCommand(n) => Head(downlink[n]).cmd \notin {"A", "N"}
           /\ HearReply(n) => uplink' = uplink
<1>1. /\ Arrived(downlink[n]) /\ downlink' = [downlink EXCEPT ![n] = Tail(downlink[n])]
      /\ Resume(n, Judged(cycle[n], Head(downlink[n]).cmd))
      /\ lastCount' = lastCount
      /\ HearCommand(n) => Head(downlink[n]).cmd \notin {"A", "N"}
      /\ HearReply(n) => uplink' = uplink
  BY DEF HearReply, HearCommand, TakeDown, heardVars
<1>2. downlink'[n] = Tail(downlink[n]) /\ cleared' = cleared
  BY <1>1, FunctionTypes DEF ledgerVars
<1> DEFINE c == Judged(cycle[n], Head(downlink[n]).cmd)
<1>3. c.stage = cycle[n].stage /\ (c.ack => cycle[n].ack \/ Head(downlink[n]).cmd = "A")
  BY LocalTypes, JudgedIs
<1> HIDE DEF c
<1>4. \/ pc[n] = "poll" /\ pc'[n] = "settle"
      \/ pc[n] = "wait" /\ cycle[n].stage # "complete" /\ pc'[n] = "stage" /\ cycle'[n] = c
      \/ pc[n] = "wait" /\ cycle[n].stage = "complete" /\ pc'[n] = "settle"
  BY <1>1, FunctionTypes DEF Resume, Goto, At, c
<1>5. TakenOff(n)' = TakenOff(n) /\ Promised(n)' = Promised(n)
  BY <1>1, <1>2, <1>4 DEF TakenOff, Promised, Clearing, InCycle
<1>6. Reporting(n)' => Reporting(n)
  BY <1>3, <1>4 DEF Reporting
<1>7. Holding(n)' => Holding(n) \/ Head(downlink[n]).cmd = "A"
  BY <1>3, <1>4 DEF Holding, Reporting
<1> QED BY <1>1, <1>2, <1>5, <1>6, <1>7

(* A data message goes out, or the cycle ends otherwise than by an ACK.    *)
LEMMA NoLongerHolds ==
    ASSUME Accounts, NEW n \in Node, LedgerTransmit(n) \/ LedgerAbandon(n) \/ LedgerReset(n)
    PROVE  ~Holding(n)' /\ downlink' = downlink /\ earned' = earned
<1>1. CASE LedgerTransmit(n)
  <2>1. /\ cycle' = [cycle EXCEPT ![n] = Sending(Entered(cycle[n]))]
        /\ ~Entered(cycle[n]).ack /\ downlink' = downlink /\ earned' = earned
    BY <1>1 DEF LedgerTransmit, Transmit
  <2>2. cycle'[n] = Sending(Entered(cycle[n]))
    BY <2>1, FunctionTypes
  <2>3. Sending(Entered(cycle[n])).ack = Entered(cycle[n]).ack
    BY LocalTypes, EnteredIs, SendingIs
  <2> QED BY <2>1, <2>2, <2>3 DEF Holding
<1>2. CASE LedgerAbandon(n) \/ LedgerReset(n)
  <2>1. pc' = [pc EXCEPT ![n] = "boot"] /\ downlink' = downlink /\ earned' = earned
    BY <1>2 DEF LedgerAbandon, Abandon, LedgerReset, HardReset, Goto, linkVars
  <2>2. pc'[n] = "boot"
    BY <2>1, FunctionTypes
  <2> QED BY <2>1, <2>2 DEF Holding, Reporting
<1> QED BY <1>1, <1>2

LEMMA NodeStepAcks ==
    ASSUME Accounts, Accounts', NEW n \in Node, NodeStep(n), UNCHANGED baseVars, AcksEarned(n)
    PROVE  AcksEarned(n)'
<1>1. Acks(downlink[n]) \in Nat /\ earned[n] \in Int /\ downlink[n] \in Seq(DownMsg)
  BY LocalTypes, SumTypes
<1>2. CASE LedgerTransmit(n) \/ LedgerAbandon(n) \/ LedgerReset(n)
  BY <1>2, NoLongerHolds DEF AcksEarned
<1>3. CASE LedgerAccept(n)
  BY <1>1, <1>3, AcceptHolds DEF AcksEarned
<1>4. CASE (HearReply(n) \/ HearCommand(n)) /\ UNCHANGED ledgerVars
  <2>1. /\ Arrived(downlink[n]) /\ downlink'[n] = Tail(downlink[n])
        /\ Holding(n)' => Holding(n) \/ Head(downlink[n]).cmd = "A"
    BY <1>4, HearPacketIs
  <2>2. Acks(downlink'[n]) = IF Head(downlink[n]).cmd = "A" THEN Acks(downlink[n]) - 1
                             ELSE Acks(downlink[n])
    BY <1>1, <2>1, AcksTail
  <2>3. earned'[n] = earned[n]
    BY <1>4 DEF ledgerVars
  <2>4. /\ Acks(downlink[n]) <= earned[n]
        /\ Holding(n) => Acks(downlink[n]) + 1 <= earned[n]
    BY DEF AcksEarned
  <2>5. Acks(downlink'[n]) <= earned'[n] /\ (Holding(n)' => Acks(downlink'[n]) + 1 <= earned'[n])
    BY <1>1, <2>1, <2>2, <2>3, <2>4
  <2> QED BY <2>5 DEF AcksEarned
<1>5. CASE \/ LedgerPulse(n) \/ LedgerBegin(n) \/ LedgerStore(n)
           \/ NodeUnlisted(n) /\ UNCHANGED ledgerVars /\ ~HearReply(n) /\ ~HearCommand(n)
  BY <1>5, NodeQuiet, QuietKeepsAcks
<1> QED BY <1>2, <1>3, <1>4, <1>5 DEF NodeStep

-----------------------------------------------------------------------------
(* The base station's steps, for the node they concern.                    *)

LEMMA SteadyNode ==
    ASSUME NEW n \in Node, UNCHANGED nodeVars, cleared' = cleared
    PROVE  /\ TakenOff(n)' = TakenOff(n) /\ Promised(n)' = Promised(n)
           /\ Reporting(n)' = Reporting(n) /\ Holding(n)' = Holding(n)
           /\ lastCount' = lastCount
<1>1. pc' = pc /\ cycle' = cycle /\ lastCount' = lastCount
  BY DEF nodeVars
<1> QED BY <1>1 DEF TakenOff, Promised, Clearing, InCycle, Reporting, Holding

(* An order that is no ACK leaves the ACKs, an ACK adds at most one.       *)
LEMMA SentAcks ==
    ASSUME Accounts, NEW n \in Node, NEW order \in DownMsg, SendDown(n, order)
    PROVE  Acks(downlink'[n]) <= IF order.cmd = "A" THEN Acks(downlink[n]) + 1
                                 ELSE Acks(downlink[n])
<1>1. downlink[n] \in Seq(DownMsg) /\ Acks(downlink[n]) \in Nat
  BY LocalTypes, SumTypes
<1>2. downlink'[n] = downlink[n] \/ downlink'[n] = Append(downlink[n], order)
  BY FunctionTypes DEF SendDown, Sent
<1> DEFINE before == Acks(downlink[n])
           after == Acks(downlink'[n])
<1>3. after = before \/ after = (IF order.cmd = "A" THEN before + 1 ELSE before)
  BY <1>1, <1>2, AcksAppend
<1>4. before \in Nat
  BY <1>1
<1> HIDE DEF before, after
<1>5. after <= IF order.cmd = "A" THEN before + 1 ELSE before
  BY <1>3, <1>4
<1> QED BY <1>5 DEF before, after

LEMMA OrderIs ==
    /\ Order("A") \in DownMsg /\ Order("A").cmd = "A"
    /\ Order("N") \in DownMsg /\ Order("N").cmd = "N"
    /\ \A order \in {Order("DXW"), Order("DXS")} \cup [cmd : {"DPW"}, arg : Intervals] :
          order \in DownMsg /\ order.cmd \notin {"A", "N"}
<1>1. /\ Order("A") \in DownMsg /\ Order("A").cmd = "A"
      /\ Order("N") \in DownMsg /\ Order("N").cmd = "N"
  BY DEF Order, DownMsg
<1>2. ASSUME NEW order \in {Order("DXW"), Order("DXS")}
      PROVE  order \in DownMsg /\ order.cmd \notin {"A", "N"}
  BY DEF Order, DownMsg
<1>3. ASSUME NEW order \in [cmd : {"DPW"}, arg : Intervals]
      PROVE  order \in DownMsg /\ order.cmd \notin {"A", "N"}
  BY BaseAssumption DEF DownMsg
<1> QED BY <1>1, <1>2, <1>3

LEMMA BaseStepAcks ==
    ASSUME Accounts, Accounts', NEW n \in Node, BaseStep(n), UNCHANGED nodeVars, AcksEarned(n)
    PROVE  AcksEarned(n)'
<1>1. /\ Acks(downlink[n]) \in Nat /\ Acks(downlink'[n]) \in Nat /\ earned[n] \in Int
      /\ Acks(downlink[n]) <= earned[n]
      /\ Holding(n) => Acks(downlink[n]) + 1 <= earned[n]
  BY LocalTypes, SumTypes, SumTypesNext DEF AcksEarned
<1>2. Holding(n)' = Holding(n)
  BY SteadyNode DEF BaseStep, LedgerData, LedgerDamaged, LedgerRecord, LedgerCommand, ledgerVars
<1>3. CASE LedgerData(n)
  <2>1. SendDown(n, Order("A")) /\ earned' = [earned EXCEPT ![n] = earned[n] + 1]
    BY <1>3 DEF LedgerData, ReceiveData, Add
  <2>2. Acks(downlink'[n]) <= Acks(downlink[n]) + 1
    BY <2>1, SentAcks, OrderIs
  <2>3. earned'[n] = earned[n] + 1
    BY <2>1, FunctionTypes
  <2> QED BY <1>1, <1>2, <2>2, <2>3 DEF AcksEarned
<1>4. CASE LedgerDamaged(n) \/ LedgerCommand(n)
  <2>1. earned' = earned
    BY <1>4 DEF LedgerDamaged, LedgerCommand
  <2>2. Acks(downlink'[n]) <= Acks(downlink[n])
    <3>1. CASE LedgerDamaged(n)
      <4>1. SendDown(n, Order("N"))
        BY <3>1 DEF LedgerDamaged, ReceiveDamaged
      <4> QED BY <4>1, SentAcks, OrderIs
    <3>2. CASE LedgerCommand(n)
      <4>1. PICK order \in {Order("DXW"), Order("DXS")} \cup [cmd : {"DPW"}, arg : Intervals] :
                SendDown(n, order)
        BY <3>2 DEF LedgerCommand, SendCommand
      <4> QED BY <4>1, SentAcks, OrderIs
    <3> QED BY <1>4, <3>1, <3>2
  <2> QED BY <1>1, <1>2, <2>1, <2>2 DEF AcksEarned
<1>5. CASE LedgerRecord(n) \/ (BaseUnlisted(n) /\ UNCHANGED ledgerVars)
  <2>1. downlink' = downlink /\ earned' = earned
    BY <1>5 DEF LedgerRecord, ReceiveAcceptance, BaseUnlisted, ReceiveAbandon, ReceiveResponse,
                ReceiveStrayAck, ledgerVars
  <2> QED BY <1>2, <2>1 DEF AcksEarned
<1> QED BY <1>3, <1>4, <1>5 DEF BaseStep

-----------------------------------------------------------------------------
(* The ACKs are earned, and the accounts keep their types, whatever        *)
(* happens.                                                                *)

EInv == Accounts /\ \A n \in Node : AcksEarned(n)

LEMMA BlameType ==
    ASSUME faults \in [Node -> SUBSET Fault], NEW n \in Node, NEW fault \in Fault, Blame(n, fault)
    PROVE  faults' \in [Node -> SUBSET Fault]
<1>1. faults[n] \cup {fault} \in SUBSET Fault
  OBVIOUS
<1>2. [faults EXCEPT ![n] = faults[n] \cup {fault}] \in [Node -> SUBSET Fault]
  BY <1>1
<1> QED BY <1>2 DEF Blame

LEMMA OtherTypesStay ==
    ASSUME Accounts, [LedgerNext]_<<vars, ledgerVars>>
    PROVE  OtherTypes'
<1> USE FunctionTypes
<1>0. cycles \in [Node -> Nat] /\ dataField \in Nat
  BY DEF Accounts, OtherTypes, LInv, IInv, TypeOK, BaseTypeOK
<1>1. CASE UNCHANGED ledgerVars
  BY <1>0, <1>1 DEF OtherTypes, ledgerVars
<1>2. ASSUME NEW n \in Node, NodeStep(n), ~UNCHANGED ledgerVars PROVE OtherTypes'
  <2>1. recorded' = recorded /\ earned' \in [Node -> Int]
    <3>1. recorded' = recorded /\ (earned' = earned \/ earned' = Add(earned, n, -1))
      BY <1>2 DEF NodeStep, LedgerPulse, LedgerBegin, LedgerTransmit, LedgerAbandon,
                  LedgerAccept, LedgerStore, LedgerReset
    <3>2. earned[n] \in Int /\ earned[n] + -1 \in Int
      BY <1>2, LocalTypes
    <3>3. [earned EXCEPT ![n] = earned[n] + -1] \in [Node -> Int]
      BY <3>2
    <3> QED BY <3>1, <3>3 DEF Add
  <2>2. cycles' \in [Node -> Nat]
    <3>1. cycles' = cycles \/ cycles' = Add(cycles, n, 1)
      BY <1>2 DEF NodeStep, LedgerPulse, LedgerBegin, LedgerTransmit, LedgerAbandon,
                  LedgerAccept, LedgerStore, LedgerReset
    <3>2. [cycles EXCEPT ![n] = cycles[n] + 1] \in [Node -> Nat]
      BY <1>0
    <3> QED BY <1>0, <3>1, <3>2 DEF Add
  <2>3. faults' \in [Node -> SUBSET Fault]
    <3>1. faults' = faults \/ \E fault \in Fault : Blame(n, fault)
      BY <1>2 DEF NodeStep, LedgerPulse, LedgerBegin, LedgerTransmit, LedgerAbandon,
                  LedgerAccept, LedgerStore, LedgerReset, LostUp, Fault
    <3> QED BY <3>1, BlameType
  <2> QED BY <2>1, <2>2, <2>3 DEF OtherTypes
<1>3. ASSUME NEW n \in Node, BaseStep(n), ~UNCHANGED ledgerVars PROVE OtherTypes'
  <2>1. cycles' = cycles /\ faults' \in [Node -> SUBSET Fault]
    <3>1. cycles' = cycles /\ (faults' = faults \/ \E fault \in Fault : Blame(n, fault))
      BY <1>3 DEF BaseStep, LedgerData, LedgerDamaged, LedgerRecord, LedgerCommand, Fault
    <3> QED BY <3>1, BlameType
  <2>2. earned' \in [Node -> Int] /\ recorded' \in [Node -> Nat]
    <3>1. /\ earned' = earned \/ earned' = Add(earned, n, 1)
          /\ recorded' = recorded \/ recorded' = Add(recorded, n, dataField)
      BY <1>3 DEF BaseStep, LedgerData, LedgerDamaged, LedgerRecord, LedgerCommand, Recorded
    <3>2. [earned EXCEPT ![n] = earned[n] + 1] \in [Node -> Int]
      OBVIOUS
    <3>3. [recorded EXCEPT ![n] = recorded[n] + dataField] \in [Node -> Nat]
      BY <1>0
    <3> QED BY <3>1, <3>2, <3>3 DEF Add
  <2> QED BY <1>0, <2>1, <2>2 DEF OtherTypes
<1> QED BY <1>1, <1>2, <1>3 DEF LedgerNext, NodeStep, BaseStep, ledgerVars

LEMMA InitEInv == LedgerInit => EInv
<1> SUFFICES ASSUME LedgerInit PROVE EInv
  OBVIOUS
<1>1. Accounts
  BY InitLInv DEF LedgerInit, Accounts, OtherTypes
<1>2. ASSUME NEW n \in Node PROVE AcksEarned(n)
  <2>1. downlink[n] = <<>> /\ earned[n] = 0 /\ pc[n] = "boot"
    BY DEF LedgerInit, Init, LinkInit, NodeInit
  <2>2. {i \in 1..Len(<<>>) : <<>>[i].cmd = "A"} = {}
    OBVIOUS
  <2>3. Acks(downlink[n]) = 0
    BY <2>1, <2>2, FS_EmptySet DEF Acks
  <2> QED BY <2>1, <2>3 DEF AcksEarned, Holding, Reporting
<1> QED BY <1>1, <1>2 DEF EInv

LEMMA NextEInv == EInv /\ [LedgerNext]_<<vars, ledgerVars>> => EInv'
<1> SUFFICES ASSUME EInv, [LedgerNext]_<<vars, ledgerVars>> PROVE EInv'
  OBVIOUS
<1>1. Accounts /\ Accounts'
  BY NextLInv, OtherTypesStay DEF EInv, Accounts
<1> SUFFICES ASSUME NEW m \in Node PROVE AcksEarned(m)'
  BY <1>1 DEF EInv
<1>2. AcksEarned(m)
  BY DEF EInv
<1>3. ASSUME NEW n \in Node, NodeStep(n), UNCHANGED baseVars PROVE AcksEarned(m)'
  BY <1>1, <1>2, <1>3, NodeStepAcks, NodeStepFrame, SameIsQuiet, QuietKeepsAcks
<1>4. ASSUME NEW n \in Node, BaseStep(n), UNCHANGED nodeVars PROVE AcksEarned(m)'
  BY <1>1, <1>2, <1>4, BaseStepAcks, BaseStepFrame, SameIsQuiet, QuietKeepsAcks
<1>5. CASE \/ FetchResponse /\ UNCHANGED <<nodeVars, ledgerVars>>
           \/ UNCHANGED <<vars, ledgerVars>>
  <2>1. SameAt(m)
    BY <1>5 DEF FetchResponse, nodeVars, ledgerVars, vars, baseVars, linkVars, SameAt
  <2> QED BY <1>1, <1>2, <2>1, SameIsQuiet, QuietKeepsAcks
<1> QED BY <1>3, <1>4, <1>5 DEF LedgerNext, NodeStep, BaseStep

(* Every ACK that a node holds, has used or has on its way to it is one    *)
(* that it has earned.                                                     *)
THEOREM EarnedInvariance == LedgerSpec => []EInv
<1> QED BY InitEInv, NextEInv, PTL DEF LedgerSpec

(* The accounts of pulses, counts, ACKs and faults keep their types.       *)
THEOREM LedgerTypes == LedgerSpec => []LedgerTypeOK
<1>1. EInv => LedgerTypeOK
  BY DEF EInv, Accounts, LInv, IInv, AccountTypes, OtherTypes, LedgerTypeOK
<1> QED BY <1>1, EarnedInvariance, PTL

(* A node takes a count off only on an ACK of its own that no earlier      *)
(* cycle has used, whatever the network, operators and resets do.          *)
THEOREM ClearsAreEarned == LedgerSpec => []NoUnearnedClear
<1>1. EInv => NoUnearnedClear
  <2> SUFFICES ASSUME EInv, NEW n \in Node PROVE earned[n] >= 0
    BY DEF NoUnearnedClear
  <2>1. Acks(downlink[n]) \in Nat /\ earned[n] \in Int /\ Acks(downlink[n]) <= earned[n]
    BY LocalTypes, SumTypes DEF EInv, AcksEarned
  <2> QED BY <2>1
<1> QED BY <1>1, EarnedInvariance, PTL

-----------------------------------------------------------------------------
(* What a node does to its own account.                                    *)

LEMMA FaultsGrow ==
    ASSUME Accounts, NEW n \in Node, NodeStep(n) \/ BaseStep(n)
    PROVE  faults[n] \subseteq faults'[n]
<1>1. faults' = faults \/ \E fault \in Fault : Blame(n, fault)
  BY DEF NodeStep, BaseStep, LedgerPulse, LedgerBegin, LedgerTransmit, LedgerAbandon, LedgerAccept,
         LedgerStore, LedgerReset, LedgerData, LedgerDamaged, LedgerRecord, LedgerCommand,
         ledgerVars, LostUp, Fault
<1> QED BY <1>1, FunctionTypes DEF Blame

LEMMA BlamedIs ==
    ASSUME Accounts, NEW n \in Node, NEW fault, Blame(n, fault) PROVE fault \in faults'[n]
BY FunctionTypes DEF Blame

(* Nothing is promised of a node after an operator's command.              *)
LEMMA CommandedAccount ==
    ASSUME NEW n \in Node, "command" \in faults'[n]
    PROVE  OnlyJudgements(n)' /\ OnlyReports(n)' /\ BoundKept(n)' /\ TallyKept(n)'
BY DEF OnlyJudgements, OnlyReports, BoundKept, TallyKept, Blameless, Grave, Fault

LEMMA SameDownlink ==
    ASSUME NEW n \in Node, OnlyJudgements(n), faults[n] \subseteq faults'[n],
           downlink'[n] = downlink[n]
    PROVE  OnlyJudgements(n)'
BY DEF OnlyJudgements, Blameless

LEMMA SameUplink ==
    ASSUME NEW n \in Node, OnlyReports(n), faults[n] \subseteq faults'[n], uplink'[n] = uplink[n]
    PROVE  OnlyReports(n)'
BY DEF OnlyReports, Blameless

LEMMA SendUpIs ==
    ASSUME Accounts, NEW n \in Node, NEW msg \in UpMsg, SendUp(n, msg)
    PROVE  uplink' = uplink \/ Joined(uplink[n], msg, uplink'[n])
<1>1. PICK q \in Sent(uplink[n], msg) : uplink' = [uplink EXCEPT ![n] = q]
  BY DEF SendUp
<1>2. CASE q = uplink[n]
  BY <1>1, <1>2, FunctionTypes
<1>3. CASE q = Append(uplink[n], msg)
  <2>1. uplink'[n] = Append(uplink[n], msg)
    BY <1>1, <1>3, FunctionTypes
  <2> QED BY <2>1, LocalTypes, AppendJoins
<1> QED BY <1>1, <1>2, <1>3 DEF Sent

LEMMA ReportSent ==
    ASSUME NEW n \in Node, OnlyReports(n), faults[n] \subseteq faults'[n],
           NEW msg, msg.cmd \in {"C", "A"}, Joined(uplink[n], msg, uplink'[n])
    PROVE  OnlyReports(n)'
<1> SUFFICES ASSUME Blameless(n, {"abandoned", "command"})', NEW i \in 1..Len(uplink'[n])
             PROVE  uplink'[n][i].cmd \in {"C", "A"}
  BY DEF OnlyReports
<1>1. Blameless(n, {"abandoned", "command"})
  BY DEF Blameless
<1>2. i \in 1..Len(uplink[n]) \/ i = Len(uplink[n]) + 1
  BY DEF Joined
<1> QED BY <1>1, <1>2 DEF OnlyReports, Joined

LEMMA TransmitKeepsRecords ==
    ASSUME Accounts, Accounts', NEW n \in Node, LedgerTransmit(n), UNCHANGED baseVars,
           OnlyReports(n), BoundKept(n), TallyKept(n)
    PROVE  OnlyReports(n)' /\ BoundKept(n)' /\ TallyKept(n)'
<1> DEFINE msg == DataWord(n)
           c == Entered(cycle[n])
<1>1. /\ uplink[n] \in Seq(UpMsg) /\ lastCount[n] \in Nat /\ cycle[n] \in Cycle
      /\ cleared[n] \in Nat /\ TakenOff(n) \in Nat /\ Promised(n) \in Nat
  BY LocalTypes, SumTypes
<1>2. /\ pc[n] = "stage" /\ pc'[n] = "wait" /\ c.stage = "transmit" /\ cycle'[n] = Sending(c)
      /\ cleared' = cleared /\ lastCount' = lastCount /\ recorded' = recorded
      /\ remoteData' = remoteData /\ protocolState' = protocolState
      /\ IF c.retryEnable THEN SendUp(n, msg) ELSE uplink' = uplink
      /\ IF c.retryEnable THEN LostUp(n, "dataLost") ELSE faults' = faults
  BY FunctionTypes DEF LedgerTransmit, Transmit, At, Goto, baseVars
<1>3. c \in Cycle /\ cycle'[n].stage = "transmit"
  BY <1>1, <1>2, EnteredIs, SendingIs
<1>4. ~c.retryEnable => Reporting(n)
  <2>1. ~c.retryEnable => cycle[n].stage = "transmit"
    BY <1>1, <1>2, EnteredIs
  <2> QED BY <1>2, <2>1 DEF Reporting
<1>5. /\ TakenOff(n)' = TakenOff(n) /\ TakenOff(n) = cleared[n] /\ Saved(n)' = Saved(n)
      /\ Promised(n)' = Promised(n) /\ Promised(n) = cleared[n] + lastCount[n] /\ Reporting(n)'
  BY <1>1, <1>2, <1>3 DEF TakenOff, Promised, Saved, Final, Clearing, InCycle, Reporting
<1>6. msg \in UpMsg /\ msg.cmd = "C" /\ msg.count = lastCount[n]
  BY <1>1 DEF DataWord, UpMsg
<1>7. faults[n] \subseteq faults'[n]
  BY FaultsGrow DEF NodeStep
<1> HIDE DEF msg, c
<1>8. \/ Joined(uplink[n], msg, uplink'[n])
      \/ uplink' = uplink /\ (Reporting(n) \/ "dataLost" \in faults'[n])
  BY <1>2, <1>4, <1>6, SendUpIs, BlamedIs DEF LostUp
<1>9. OnlyReports(n)'
  BY <1>6, <1>7, <1>8, ReportSent, SameUplink
<1>10. BoundKept(n)'
  <2>1. SUFFICES ASSUME Blameless(n, Grave)'
                 PROVE  Bounded(uplink'[n], recorded[n], Saved(n), TakenOff(n), Promised(n))
    BY <1>2, <1>5 DEF BoundKept
  <2>2. Bounded(uplink[n], recorded[n], Saved(n), TakenOff(n), Promised(n))
    BY <1>7, <2>1 DEF BoundKept, Blameless
  <2>3. CASE Joined(uplink[n], msg, uplink'[n])
    <3>1. /\ msg.count \in Nat /\ TakenOff(n) <= TakenOff(n)
          /\ TakenOff(n) + msg.count <= Promised(n)
      BY <1>1, <1>5, <1>6
    <3> QED BY <1>1, <1>6, <2>2, <2>3, <3>1, BoundedSent
  <2> QED BY <1>8, <2>2, <2>3
<1>11. TallyKept(n)'
  <2> DEFINE last == IF Reporting(n) THEN {lastCount[n]} ELSE Nat
  <2>1. SUFFICES ASSUME Blameless(n, Fault)'
                 PROVE  Tallied(uplink'[n], recorded[n], Saved(n), TakenOff(n), {lastCount[n]})
    BY <1>2, <1>5 DEF TallyKept
  <2>2. Tallied(uplink[n], recorded[n], Saved(n), TakenOff(n), last)
    BY <1>7, <2>1 DEF TallyKept, Blameless
  <2>3. CASE Joined(uplink[n], msg, uplink'[n])
    <3>1. msg.count \in Nat /\ msg.count \in {lastCount[n]}
      BY <1>1, <1>6
    <3> HIDE DEF last
    <3> QED BY <1>1, <1>6, <2>2, <2>3, <3>1, TalliedSent
  <2>4. CASE uplink' = uplink /\ Reporting(n)
    BY <2>2, <2>4
  <2>5. "dataLost" \notin faults'[n]
    BY <2>1 DEF Blameless, Fault
  <2> QED BY <1>8, <2>3, <2>4, <2>5
<1> QED BY <1>9, <1>10, <1>11

LEMMA AcceptKeepsRecords ==
    ASSUME Accounts, Accounts', NEW n \in Node, LedgerAccept(n), UNCHANGED baseVars,
           OnlyReports(n), BoundKept(n), TallyKept(n)
    PROVE  OnlyReports(n)' /\ BoundKept(n)' /\ TallyKept(n)'
<1> DEFINE msg == Reply("A")
<1>1. /\ uplink[n] \in Seq(UpMsg) /\ lastCount[n] \in Nat /\ cleared[n] \in Nat
      /\ TakenOff(n) \in Nat /\ Promised(n) \in Nat
  BY LocalTypes, SumTypes
<1>2. /\ Reporting(n) /\ ~Reporting(n)' /\ pc[n] = "stage" /\ pc'[n] = "load"
      /\ cleared' = cleared /\ lastCount' = lastCount /\ recorded' = recorded
      /\ remoteData' = remoteData /\ protocolState' = protocolState
  BY AcceptHolds DEF Holding, baseVars
<1>3. SendUp(n, msg) /\ LostUp(n, "confirmLost")
  BY DEF LedgerAccept, Accept
<1>4. /\ TakenOff(n)' = Promised(n) /\ Promised(n)' = Promised(n) /\ Saved(n)' = Saved(n)
      /\ Promised(n) = TakenOff(n) + lastCount[n]
  BY <1>1, <1>2 DEF TakenOff, Promised, Saved, Final, Clearing, InCycle
<1>5. msg \in UpMsg /\ msg.cmd = "A" /\ msg.count \in Nat
  BY DEF Reply, UpMsg
<1>6. faults[n] \subseteq faults'[n]
  BY FaultsGrow DEF NodeStep
<1> HIDE DEF msg
<1>7. \/ Joined(uplink[n], msg, uplink'[n])
      \/ uplink' = uplink /\ "confirmLost" \in faults'[n]
  BY <1>3, <1>5, SendUpIs, BlamedIs DEF LostUp
<1>8. OnlyReports(n)'
  BY <1>5, <1>6, <1>7, ReportSent, SameUplink
<1>9. BoundKept(n)'
  <2>1. SUFFICES ASSUME Blameless(n, Grave)'
                 PROVE  Bounded(uplink'[n], recorded[n], Saved(n), Promised(n), Promised(n))
    BY <1>2, <1>4 DEF BoundKept
  <2>2. Bounded(uplink[n], recorded[n], Saved(n), TakenOff(n), Promised(n))
    BY <1>6, <2>1 DEF BoundKept, Blameless
  <2>3. TakenOff(n) <= Promised(n) /\ Promised(n) <= Promised(n)
    BY <1>1, <1>4
  <2>4. CASE Joined(uplink[n], msg, uplink'[n])
    BY <1>1, <1>5, <2>2, <2>3, <2>4, BoundedSent
  <2>5. CASE uplink' = uplink
    BY <1>1, <2>2, <2>3, <2>5, BoundedMore
  <2> QED BY <1>7, <2>4, <2>5
<1>10. TallyKept(n)'
  <2>1. SUFFICES ASSUME Blameless(n, Fault)'
                 PROVE  Tallied(uplink'[n], recorded[n], Saved(n), Promised(n), Nat)
    BY <1>2, <1>4 DEF TallyKept
  <2>2. Tallied(uplink[n], recorded[n], Saved(n), TakenOff(n), {lastCount[n]})
    BY <1>2, <1>6, <2>1 DEF TallyKept, Blameless
  <2>3. 0 \in Nat /\ \A h \in {lastCount[n]} : Promised(n) = TakenOff(n) + h
    BY <1>4
  <2>4. "confirmLost" \notin faults'[n]
    BY <2>1 DEF Blameless, Fault
  <2> QED BY <1>1, <1>5, <1>7, <2>2, <2>3, <2>4, TalliedSent
<1> QED BY <1>8, <1>9, <1>10

LEMMA NodeStepKeepsAccount ==
    ASSUME Accounts, Accounts', NEW n \in Node, NodeStep(n), UNCHANGED baseVars, Account(n)
    PROVE  Account(n)'
<1>1. /\ AcksEarned(n) /\ OnlyJudgements(n) /\ OnlyReports(n) /\ BoundKept(n) /\ TallyKept(n)
      /\ AcksEarned(n)'
  BY NodeStepAcks DEF Account
<1>2. faults[n] \subseteq faults'[n]
  BY FaultsGrow
<1>3. CASE LedgerTransmit(n)
  BY <1>1, <1>2, <1>3, NoLongerHolds, SameDownlink, TransmitKeepsRecords DEF Account
<1>4. CASE LedgerAccept(n)
  BY <1>1, <1>2, <1>4, AcceptHolds, SameDownlink, AcceptKeepsRecords DEF Account
<1>5. CASE LedgerAbandon(n)
  <2>1. "abandoned" \in faults'[n]
    BY <1>5, BlamedIs DEF LedgerAbandon
  <2>2. OnlyJudgements(n)'
    BY <1>1, <1>2, <1>5, NoLongerHolds, SameDownlink
  <2>3. OnlyReports(n)' /\ BoundKept(n)' /\ TallyKept(n)'
    BY <2>1 DEF OnlyReports, BoundKept, TallyKept, Blameless, Grave, Fault
  <2> QED BY <1>1, <2>2, <2>3 DEF Account
<1>6. CASE LedgerReset(n)
  <2>1. "reset" \in faults'[n] /\ uplink' = uplink
    BY <1>6, BlamedIs DEF LedgerReset, HardReset, linkVars
  <2>2. OnlyJudgements(n)' /\ OnlyReports(n)'
    BY <1>1, <1>2, <1>6, <2>1, NoLongerHolds, SameDownlink, SameUplink
  <2>3. BoundKept(n)' /\ TallyKept(n)'
    BY <2>1 DEF BoundKept, TallyKept, Blameless, Grave, Fault
  <2> QED BY <1>1, <2>2, <2>3 DEF Account
<1>7. CASE (HearReply(n) \/ HearCommand(n)) /\ UNCHANGED ledgerVars
  <2>1. /\ Arrived(downlink[n]) /\ downlink'[n] = Tail(downlink[n])
        /\ TakenOff(n)' = TakenOff(n) /\ Promised(n)' = Promised(n)
        /\ lastCount' = lastCount /\ (Reporting(n)' => Reporting(n))
        /\ HearCommand(n) => Head(downlink[n]).cmd \notin {"A", "N"}
        /\ HearReply(n) => uplink' = uplink
    BY <1>7, HearPacketIs
  <2>2. /\ faults' = faults /\ recorded' = recorded
        /\ remoteData' = remoteData /\ protocolState' = protocolState
    BY <1>7 DEF ledgerVars, baseVars
  <2>3. /\ Len(downlink[n]) \in Nat /\ Len(downlink[n]) >= 1 /\ Head(downlink[n]) = downlink[n][1]
        /\ Len(downlink'[n]) = Len(downlink[n]) - 1
        /\ \A i \in 1..Len(downlink'[n]) : downlink'[n][i] = downlink[n][i + 1]
    BY <2>1, LocalTypes, TailIs
  <2>4. CASE HearReply(n)
    <3>1. OnlyJudgements(n)'
      <4> SUFFICES ASSUME Blameless(n, {"command"})', NEW i \in 1..Len(downlink'[n])
                   PROVE  downlink'[n][i].cmd \in {"A", "N"}
        BY DEF OnlyJudgements
      <4>1. Blameless(n, {"command"}) /\ i + 1 \in 1..Len(downlink[n])
        BY <2>2, <2>3 DEF Blameless
      <4> QED BY <1>1, <2>3, <4>1 DEF OnlyJudgements
    <3>2. Promised(n) <= Promised(n)'
      BY <2>1, SumTypes
    <3>3. Steady(n)
      BY <2>1, <2>2, <2>4, <3>2 DEF Steady, Saved, Final
    <3> QED BY <1>1, <3>1, <3>3, SteadyKeepsRecords DEF Account
  <2>5. CASE HearCommand(n)
    <3>1. 1 \in 1..Len(downlink[n]) /\ downlink[n][1].cmd \notin {"A", "N"}
      BY <2>1, <2>3, <2>5
    <3>2. "command" \in faults'[n]
      BY <1>1, <2>2, <3>1 DEF OnlyJudgements, Blameless
    <3> QED BY <1>1, <3>2, CommandedAccount DEF Account
  <2> QED BY <1>7, <2>4, <2>5
<1>8. CASE \/ LedgerPulse(n) \/ LedgerBegin(n) \/ LedgerStore(n)
           \/ NodeUnlisted(n) /\ UNCHANGED ledgerVars /\ ~HearReply(n) /\ ~HearCommand(n)
  BY <1>8, NodeQuiet, QuietKeepsAccount
<1> QED BY <1>3, <1>4, <1>5, <1>6, <1>7, <1>8 DEF NodeStep

-----------------------------------------------------------------------------
(* What the base station does to the account of a node.                    *)

(* A row in the final state holds a count that is still to be recorded.    *)
LEMMA TakenKeepsRecords ==
    ASSUME Accounts, Accounts', NEW n \in Node, BaseStep(n), UNCHANGED nodeVars,
           OnlyReports(n), BoundKept(n), TallyKept(n),
           Arrived(uplink[n]), TakeUp(n), cleared' = cleared,
           Head(uplink[n]).cmd = "C" =>
              /\ recorded'[n] = recorded[n]
              /\ \/ Saved(n)' = Head(uplink[n]).count
                 \/ Saved(n)' = 0 /\ "damaged" \in faults'[n],
           Head(uplink[n]).cmd # "C" =>
              recorded'[n] = recorded[n] + Saved(n) /\ Saved(n)' = 0
    PROVE  OnlyReports(n)' /\ BoundKept(n)' /\ TallyKept(n)'
<1>1. /\ uplink[n] \in Seq(UpMsg) /\ recorded[n] \in Nat /\ Saved(n) \in Nat
      /\ recorded'[n] \in Nat /\ Saved(n)' \in Nat
  <2>1. recorded'[n] \in Nat
    BY DEF Accounts, OtherTypes
  <2> QED BY <2>1, LocalTypes, SumTypes, SumTypesNext
<1>2. /\ TakenOff(n)' = TakenOff(n) /\ Promised(n)' = Promised(n)
      /\ Reporting(n)' = Reporting(n) /\ lastCount' = lastCount
  BY SteadyNode
<1>3. uplink'[n] = Tail(uplink[n]) /\ faults[n] \subseteq faults'[n]
  BY FunctionTypes, FaultsGrow DEF TakeUp
<1>4. /\ Len(uplink[n]) \in Nat /\ Len(uplink[n]) >= 1 /\ Head(uplink[n]) \in UpMsg
      /\ Len(uplink'[n]) = Len(uplink[n]) - 1
      /\ \A i \in 1..Len(uplink'[n]) : uplink'[n][i] = uplink[n][i + 1]
  BY <1>1, <1>3, TailIs
<1>5. Head(uplink[n]).count \in Nat
  BY <1>4, UpMsgIs
<1>6. OnlyReports(n)'
  <2> SUFFICES ASSUME Blameless(n, {"abandoned", "command"})', NEW i \in 1..Len(uplink'[n])
               PROVE  uplink'[n][i].cmd \in {"C", "A"}
    BY DEF OnlyReports
  <2>1. Blameless(n, {"abandoned", "command"}) /\ i + 1 \in 1..Len(uplink[n])
    BY <1>3, <1>4 DEF Blameless
  <2> QED BY <1>4, <2>1 DEF OnlyReports
<1>7. BoundKept(n)'
  <2>1. SUFFICES ASSUME Blameless(n, Grave)'
                 PROVE  Bounded(Tail(uplink[n]), recorded'[n], Saved(n)', TakenOff(n), Promised(n))
    BY <1>2, <1>3 DEF BoundKept
  <2>2. Bounded(uplink[n], recorded[n], Saved(n), TakenOff(n), Promised(n))
    BY <1>3, <2>1 DEF BoundKept, Blameless
  <2>3. IF Head(uplink[n]).cmd = "C"
        THEN recorded'[n] <= recorded[n] /\ Saved(n)' <= Head(uplink[n]).count
        ELSE recorded'[n] <= recorded[n] + Saved(n) /\ Saved(n)' = 0
    BY <1>1, <1>5
  <2> QED BY <1>1, <2>2, <2>3, BoundedTaken
<1>8. TallyKept(n)'
  <2> DEFINE last == IF Reporting(n) THEN {lastCount[n]} ELSE Nat
  <2>1. SUFFICES ASSUME Blameless(n, Fault)'
                 PROVE  Tallied(Tail(uplink[n]), recorded'[n], Saved(n)', TakenOff(n), last)
    BY <1>2, <1>3 DEF TallyKept
  <2>2. Tallied(uplink[n], recorded[n], Saved(n), TakenOff(n), last)
    BY <1>3, <2>1 DEF TallyKept, Blameless
  <2>3. IF Head(uplink[n]).cmd = "C"
        THEN recorded'[n] = recorded[n] /\ Saved(n)' = Head(uplink[n]).count
        ELSE recorded'[n] = recorded[n] + Saved(n) /\ Saved(n)' = 0
    BY <2>1 DEF Blameless, Fault
  <2> HIDE DEF last
  <2> QED BY <1>1, <2>2, <2>3, TalliedTaken
<1> QED BY <1>6, <1>7, <1>8

LEMMA JudgementSent ==
    ASSUME Accounts, NEW n \in Node, OnlyJudgements(n), faults[n] \subseteq faults'[n],
           NEW order \in DownMsg, order.cmd \in {"A", "N"}, SendDown(n, order)
    PROVE  OnlyJudgements(n)'
<1>1. downlink'[n] = downlink[n] \/ downlink'[n] = Append(downlink[n], order)
  BY FunctionTypes DEF SendDown, Sent
<1>2. Joined(downlink[n], order, Append(downlink[n], order))
  BY LocalTypes, AppendJoins
<1> SUFFICES ASSUME Blameless(n, {"command"})', NEW i \in 1..Len(downlink'[n])
             PROVE  downlink'[n][i].cmd \in {"A", "N"}
  BY DEF OnlyJudgements
<1>3. Blameless(n, {"command"})
  BY DEF Blameless
<1>4. CASE downlink'[n] = downlink[n]
  BY <1>3, <1>4 DEF OnlyJudgements
<1>5. CASE downlink'[n] = Append(downlink[n], order)
  <2>1. Joined(downlink[n], order, downlink'[n])
    BY <1>2, <1>5
  <2>2. i \in 1..Len(downlink[n]) \/ i = Len(downlink[n]) + 1
    BY <2>1 DEF Joined
  <2> QED BY <1>3, <2>1, <2>2 DEF OnlyJudgements, Joined
<1> QED BY <1>1, <1>4, <1>5

OwnCountRecorded == \A n \in Node : ReceiveAcceptance(n) => Recorded(n) = remoteData[n]

LEMMA BaseStepKeepsAccount ==
    ASSUME Accounts, Accounts', NEW n \in Node, BaseStep(n), UNCHANGED nodeVars, Account(n),
           OwnCountRecorded
    PROVE  Account(n)'
<1>1. /\ AcksEarned(n) /\ OnlyJudgements(n) /\ OnlyReports(n) /\ BoundKept(n) /\ TallyKept(n)
      /\ AcksEarned(n)'
  BY BaseStepAcks DEF Account
<1>2. faults[n] \subseteq faults'[n]
  BY FaultsGrow
<1>3. recorded[n] \in Nat /\ remoteData[n] \in Nat /\ protocolState[n] \in 0..2
  BY LocalTypes
<1>4. CASE LedgerData(n)
  <2>1. /\ Arrived(uplink[n]) /\ TakeUp(n) /\ Head(uplink[n]).cmd = "C"
        /\ protocolState'[n] = 2 /\ remoteData'[n] = Head(uplink[n]).count
        /\ recorded' = recorded /\ cleared' = cleared /\ SendDown(n, Order("A"))
    BY <1>4, FunctionTypes DEF LedgerData, ReceiveData, Packet, Incoming, SetState
  <2>2. Saved(n)' = Head(uplink[n]).count
    BY <2>1 DEF Saved, Final
  <2>3. OnlyReports(n)' /\ BoundKept(n)' /\ TallyKept(n)'
    BY <1>1, <2>1, <2>2, TakenKeepsRecords
  <2> QED BY <1>1, <1>2, <2>1, <2>3, JudgementSent, OrderIs DEF Account
<1>5. CASE LedgerDamaged(n)
  <2>1. /\ Arrived(uplink[n]) /\ TakeUp(n) /\ Head(uplink[n]).cmd = "C"
        /\ protocolState'[n] = 1 /\ recorded' = recorded /\ cleared' = cleared
        /\ SendDown(n, Order("N")) /\ "damaged" \in faults'[n]
    BY <1>5, FunctionTypes, BlamedIs DEF LedgerDamaged, ReceiveDamaged, Packet, Incoming, SetState
  <2>2. Saved(n)' = 0
    BY <2>1 DEF Saved, Final
  <2>3. OnlyReports(n)' /\ BoundKept(n)' /\ TallyKept(n)'
    BY <1>1, <2>1, <2>2, TakenKeepsRecords
  <2> QED BY <1>1, <1>2, <2>1, <2>3, JudgementSent, OrderIs DEF Account
<1>6. CASE LedgerRecord(n) \/ (BaseUnlisted(n) /\ UNCHANGED ledgerVars)
  <2>1. /\ Arrived(uplink[n]) /\ TakeUp(n) /\ Head(uplink[n]).cmd # "C"
        /\ downlink' = downlink /\ cleared' = cleared
    BY <1>6 DEF LedgerRecord, ReceiveAcceptance, BaseUnlisted, ReceiveAbandon, ReceiveResponse,
                ReceiveStrayAck, Packet, Incoming, ledgerVars
  <2>2. recorded'[n] = recorded[n] + Saved(n) /\ Saved(n)' = 0
    <3>1. CASE LedgerRecord(n)
      <4>1. /\ Final(n) /\ protocolState'[n] = 1 /\ recorded'[n] = recorded[n] + Recorded(n)
            /\ Recorded(n) = remoteData[n]
        BY <3>1, FunctionTypes DEF LedgerRecord, ReceiveAcceptance, SetState, Add, OwnCountRecorded
      <4> QED BY <4>1 DEF Saved, Final
    <3>2. CASE BaseUnlisted(n) /\ UNCHANGED ledgerVars
      <4>1. /\ ~Final(n) /\ (protocolState'[n] = 1 \/ protocolState' = protocolState)
            /\ recorded' = recorded
        BY <3>2, FunctionTypes DEF BaseUnlisted, ReceiveAbandon, ReceiveResponse, ReceiveStrayAck,
                                   SetState, baseVars, ledgerVars
      <4> QED BY <1>3, <4>1 DEF Saved, Final
    <3> QED BY <1>6, <3>1, <3>2
  <2>3. OnlyReports(n)' /\ BoundKept(n)' /\ TallyKept(n)'
    BY <1>1, <2>1, <2>2, TakenKeepsRecords
  <2> QED BY <1>1, <1>2, <2>1, <2>3, SameDownlink DEF Account
<1>7. CASE LedgerCommand(n)
  <2>1. "command" \in faults'[n]
    BY <1>7, BlamedIs DEF LedgerCommand
  <2> QED BY <1>1, <2>1, CommandedAccount DEF Account
<1> QED BY <1>4, <1>5, <1>6, <1>7 DEF BaseStep

-----------------------------------------------------------------------------
(* The account is kept as long as the base records for a node the count    *)
(* that the node sent.                                                     *)

AInv == Accounts /\ \A n \in Node : Account(n)

LEMMA InitAInv == LedgerInit => AInv
<1> SUFFICES ASSUME LedgerInit PROVE AInv
  OBVIOUS
<1>1. EInv
  BY InitEInv
<1>2. ASSUME NEW n \in Node PROVE Account(n)
  <2> DEFINE zero == [i \in Nat |-> 0]
  <2>1. /\ uplink[n] = <<>> /\ downlink[n] = <<>> /\ pc[n] = "boot"
        /\ cleared[n] = 0 /\ recorded[n] = 0 /\ protocolState[n] = 0
    BY DEF LedgerInit, Init, LinkInit, NodeInit, BaseInit
  <2>2. OnlyJudgements(n) /\ OnlyReports(n)
    BY <2>1 DEF OnlyJudgements, OnlyReports
  <2>3. Saved(n) = 0 /\ TakenOff(n) = 0 /\ Promised(n) = 0 /\ ~Reporting(n)
    BY <2>1 DEF Saved, Final, TakenOff, Promised, Clearing, InCycle, Reporting
  <2>4. zero \in [Nat -> Nat] /\ \A i \in Nat : zero[i] = 0
    OBVIOUS
  <2> HIDE DEF zero
  <2>5. Len(<<>>) = 0 /\ 1..0 = {} /\ 0..0 = {0}
    OBVIOUS
  <2>6. Forecast(<<>>, 0, 0, 0, zero, zero) /\ Exactly(<<>>, 0, 0, 0, zero, zero)
    BY <2>4, <2>5 DEF Forecast, Exactly
  <2>7. Bounded(<<>>, 0, 0, 0, 0) /\ Tallied(<<>>, 0, 0, 0, Nat)
    BY <2>4, <2>5, <2>6 DEF Bounded, Tallied
  <2> QED BY <1>1, <2>1, <2>2, <2>3, <2>7 DEF EInv, Account, BoundKept, TallyKept
<1> QED BY <1>1, <1>2 DEF AInv, EInv

LEMMA NextAInv == AInv /\ [LedgerNext]_<<vars, ledgerVars>> /\ [OwnCountRecorded]_vars => AInv'
<1> SUFFICES ASSUME AInv, [LedgerNext]_<<vars, ledgerVars>>, [OwnCountRecorded]_vars PROVE AInv'
  OBVIOUS
<1>1. Accounts /\ Accounts'
  BY NextLInv, OtherTypesStay DEF AInv, Accounts
<1> SUFFICES ASSUME NEW m \in Node PROVE Account(m)'
  BY <1>1 DEF AInv
<1>2. Account(m)
  BY DEF AInv
<1>3. ASSUME NEW n \in Node, NodeStep(n), UNCHANGED baseVars PROVE Account(m)'
  BY <1>1, <1>2, <1>3, NodeStepKeepsAccount, NodeStepFrame, SameIsQuiet, QuietKeepsAccount
<1>4. ASSUME NEW n \in Node, BaseStep(n), UNCHANGED nodeVars PROVE Account(m)'
  <2>1. OwnCountRecorded
    <3> SUFFICES ASSUME UNCHANGED vars, NEW k \in Node, ReceiveAcceptance(k) PROVE FALSE
      BY DEF OwnCountRecorded
    <3>1. /\ Arrived(uplink[k]) /\ uplink' = [uplink EXCEPT ![k] = Tail(uplink[k])]
          /\ uplink' = uplink
      BY DEF ReceiveAcceptance, Packet, TakeUp, vars, linkVars
    <3>2. Len(Tail(uplink[k])) = Len(uplink[k]) - 1 /\ Len(uplink[k]) \in Nat
      BY <1>1, <3>1, LocalTypes, TailIs
    <3> DEFINE now == Len(uplink[k])
               rest == Len(Tail(uplink[k]))
    <3>3. rest = now
      BY <1>1, <3>1, FunctionTypes
    <3>4. rest = now - 1 /\ now \in Nat
      BY <3>2
    <3> HIDE DEF now, rest
    <3> QED BY <3>3, <3>4
  <2> QED BY <1>1, <1>2, <1>4, <2>1, BaseStepKeepsAccount, BaseStepFrame, SameIsQuiet, QuietKeepsAccount
<1>5. CASE \/ FetchResponse /\ UNCHANGED <<nodeVars, ledgerVars>>
           \/ UNCHANGED <<vars, ledgerVars>>
  <2>1. SameAt(m)
    BY <1>5 DEF FetchResponse, nodeVars, ledgerVars, vars, baseVars, linkVars, SameAt
  <2> QED BY <1>1, <1>2, <2>1, SameIsQuiet, QuietKeepsAccount
<1> QED BY <1>3, <1>4, <1>5 DEF LedgerNext, NodeStep, BaseStep

LEMMA AccountInvariance == LedgerSpec /\ RecordsOwnCount => []AInv
<1> QED BY InitAInv, NextAInv, PTL DEF LedgerSpec, RecordsOwnCount, OwnCountRecorded

LEMMA AccountBounds ==
    ASSUME AInv PROVE RecordedAtMostCleared /\ ExactWhenUndisturbed
<1>1. Accounts /\ \A n \in Node : Account(n)
  BY DEF AInv
<1>2. RecordedAtMostCleared
  <2> SUFFICES ASSUME NEW n \in Node, Blameless(n, Grave) PROVE recorded[n] <= TakenOff(n)
    BY DEF RecordedAtMostCleared, TakenOff, Grave
  <2>1. Bounded(uplink[n], recorded[n], Saved(n), TakenOff(n), Promised(n))
    BY <1>1 DEF Account, BoundKept
  <2> QED BY <1>1, <2>1, LocalTypes, SumTypes, BoundedNow
<1>3. ExactWhenUndisturbed
  <2> SUFFICES ASSUME NEW n \in Node, Blameless(n, Fault), ~Confirming(n), ~Clearing(n)
               PROVE  recorded[n] = cleared[n]
    BY DEF ExactWhenUndisturbed
  <2>1. Tallied(uplink[n], recorded[n], Saved(n), TakenOff(n),
                IF Reporting(n) THEN {lastCount[n]} ELSE Nat)
    BY <1>1 DEF Account, TallyKept
  <2>2. \A i \in 1..Len(uplink[n]) : uplink[n][i].cmd = "C"
    <3>1. Blameless(n, {"abandoned", "command"})
      BY DEF Blameless, Fault
    <3> QED BY <1>1, <3>1 DEF Account, OnlyReports, Confirming
  <2>3. uplink[n] \in Seq(UpMsg) /\ cleared[n] \in Nat
    BY <1>1, LocalTypes
  <2>4. recorded[n] = TakenOff(n)
    BY <2>1, <2>2, <2>3, TalliedNow
  <2> QED BY <2>3, <2>4 DEF TakenOff
<1> QED BY <1>2, <1>3

(* As long as the count the base records for a node is one that this node  *)
(* sent, it never records more than the node took off its counter, unless  *)
(* the node gave up a cycle, took a command or was reset.                  *)
THEOREM RecordsNothingTwice == LedgerSpec /\ RecordsOwnCount => []RecordedAtMostCleared
<1> QED BY AccountInvariance, AccountBounds, PTL

(* Under the same condition, when nothing was lost or damaged on the way   *)
(* up, the file holds exactly what the node took off.                      *)
THEOREM RecordsAll == LedgerSpec /\ RecordsOwnCount => []ExactWhenUndisturbed
<1> QED BY AccountInvariance, AccountBounds, PTL

-----------------------------------------------------------------------------
(* With a single node the base's one dataField is that node's count.       *)

OwnField(x) == remoteData \in [Node -> Nat] /\ dataField = remoteData[x]

LEMMA InitOwnField == ASSUME NEW x \in Node PROVE LedgerInit => OwnField(x)
BY DEF LedgerInit, Init, BaseInit, OwnField

LEMMA NextOwnField ==
    ASSUME NEW x, Node = {x}, LInv, OwnField(x), [LedgerNext]_<<vars, ledgerVars>>
    PROVE  OwnField(x)' /\ [OwnCountRecorded]_vars
<1>1. UNCHANGED <<remoteData, dataField>> \/ ReceiveData(x)
  BY DEF LedgerNext, LedgerData, LedgerDamaged, LedgerRecord, LedgerCommand, BaseUnlisted,
         ReceiveDamaged, ReceiveAcceptance, ReceiveAbandon, ReceiveResponse, ReceiveStrayAck,
         SendCommand, FetchResponse, baseVars, vars
<1>2. OwnField(x)'
  <2>1. CASE UNCHANGED <<remoteData, dataField>>
    BY <2>1 DEF OwnField
  <2>2. CASE ReceiveData(x)
    <3>1. /\ remoteData' = [remoteData EXCEPT ![x] = Head(uplink[x]).count]
          /\ dataField' = Head(uplink[x]).count /\ Arrived(uplink[x])
      BY <2>2 DEF ReceiveData, Packet
    <3>2. uplink[x] \in Seq(UpMsg)
      BY DEF LInv, IInv, TypeOK, LinkTypeOK
    <3>3. Head(uplink[x]).count \in Nat
      BY <3>1, <3>2, TailIs, UpMsgIs
    <3> QED BY <3>1, <3>3 DEF OwnField
  <2> QED BY <1>1, <2>1, <2>2
<1>3. OwnCountRecorded
  BY DEF OwnField, OwnCountRecorded, Recorded
<1> QED BY <1>2, <1>3

LEMMA OneNodeRecordsItsOwn ==
    ASSUME NEW x, Node = {x} PROVE LedgerSpec => RecordsOwnCount
<1>1. LedgerInit => OwnField(x)
  BY InitOwnField
<1>2. /\ LInv /\ OwnField(x) /\ [LedgerNext]_<<vars, ledgerVars>> => OwnField(x)'
      /\ LInv /\ OwnField(x) /\ [LedgerNext]_<<vars, ledgerVars>> => [OwnCountRecorded]_vars
  BY NextOwnField
<1> QED BY <1>1, <1>2, LedgerInvariance, PTL DEF LedgerSpec, RecordsOwnCount, OwnCountRecorded

(* With one node the condition is met: late, repeated, damaged and lost    *)
(* messages and stale ACKs never count a pulse of it twice.                *)
THEOREM OneNodeNothingTwice ==
    ASSUME NEW x, Node = {x} PROVE LedgerSpec => []RecordedAtMostCleared
<1> QED BY OneNodeRecordsItsOwn, RecordsNothingTwice, PTL

(* Nor do they lose one when what the node sent arrived undamaged.         *)
THEOREM OneNodeAll ==
    ASSUME NEW x, Node = {x} PROVE LedgerSpec => []ExactWhenUndisturbed
<1> QED BY OneNodeRecordsItsOwn, RecordsAll, PTL

=============================================================================
