---------------------------- MODULE NodeFirmware ----------------------------
(***************************************************************************)
(* The program of a remote node, XBee-firmware/xbee-firmware.c: main, its  *)
(* message interpreter and its two interrupt service routines.  The main   *)
(* program runs from one blocking point to the next; the interrupts come   *)
(* between any two of its steps, also between the load and the store of    *)
(* the one statement that changes the count outside an interrupt.          *)
(***************************************************************************)
EXTENDS XBeeLink

CONSTANTS AssocTries,     \* 40 in the code: association queries beyond the first
          BatteryTries,   \* 3: battery queries beyond the first
          TxTries,        \* 3: repeats of the data message
          SettleLoops,    \* 10: idle passes before the node sleeps
          ActionCount,    \* ACTION_COUNT, the wake interval at power up
          MaxCount,       \* bound: the pulses a counter holds
          LocalCap,       \* bound: frames the local XBee still owes the MCU
          MaxResets       \* bound: power failures and watchdog resets

(* Below 256 only the lowest byte of counter changes, and the program's    *)
(* accesses to it, four bytes one after the other, cannot be torn by the   *)
(* interrupt; SharedCounter is about what happens above.                   *)
ASSUME NodeAssumption ==
    /\ AssocTries \in Nat /\ BatteryTries \in Nat /\ TxTries \in Nat
    /\ SettleLoops \in Nat /\ ActionCount \in Nat \ {0}
    /\ MaxCount \in 0..255 /\ LocalCap \in Nat \ {0} /\ MaxResets \in Nat

VARIABLES pc,              \* where the main program of each node is
          counter,         \* pulses counted and not yet reported
          register,        \* the copy of counter that main is subtracting from
          lastCount,       \* counter as main last saw it, the value it reports
          sleepDelay, wdtCounter, wakeInterval, transmitMessage, stayAwake,
          cycle,           \* main's variables local to a transmission cycle
          pending,         \* frames the local XBee still owes: AI, IS, TX status
          resets           \* resets of the processor so far

timerVars == <<sleepDelay, wdtCounter, wakeInterval, transmitMessage, stayAwake>>
nodeVars == <<pc, counter, register, lastCount, timerVars, cycle, pending, resets>>

Stage == {"associationCheck", "batteryCheck", "transmit", "complete"}

(* main's packetError, nak and delivery only choose the letter and the     *)
(* status of a repeat (XBeeLink), so they are left out; its cycleComplete  *)
(* is the stage "complete".  associated and batteryCheckOK are FALSE once  *)
(* main no longer reads them.                                              *)
Cycle == [stage : Stage, retryCount : Nat, retryEnable : BOOLEAN,
          associated : BOOLEAN, batteryCheckOK : BOOLEAN, ack : BOOLEAN]

InitialCycle ==
    [stage |-> "associationCheck", retryCount |-> 0, retryEnable |-> TRUE,
     associated |-> FALSE, batteryCheckOK |-> FALSE, ack |-> FALSE]

LocalFrame == {"AI", "IS", "TX"}

NothingPending == [k \in LocalFrame |-> 0]

PC == {"boot", "top", "poll", "stage", "load", "store", "wait",
       "settle", "sleep", "asleep"}

NodeTypeOK ==
    /\ pc \in [Node -> PC]
    /\ counter \in [Node -> Nat] /\ register \in [Node -> Nat]
    /\ lastCount \in [Node -> Nat]
    /\ sleepDelay \in [Node -> Nat] /\ wdtCounter \in [Node -> Nat]
    /\ wakeInterval \in [Node -> Nat \ {0}]
    /\ transmitMessage \in [Node -> BOOLEAN] /\ stayAwake \in [Node -> BOOLEAN]
    /\ cycle \in [Node -> Cycle]
    /\ pending \in [Node -> [LocalFrame -> Nat]]
    /\ resets \in [Node -> 0..MaxResets]

(* Power up: counter and wakeInterval are set before the label RES.        *)
NodeInit ==
    /\ pc = [n \in Node |-> "boot"]
    /\ counter = [n \in Node |-> 0]
    /\ register = [n \in Node |-> 0]
    /\ lastCount = [n \in Node |-> 0]
    /\ sleepDelay = [n \in Node |-> 0]
    /\ wdtCounter = [n \in Node |-> 0]
    /\ wakeInterval = [n \in Node |-> ActionCount]
    /\ transmitMessage = [n \in Node |-> FALSE]
    /\ stayAwake = [n \in Node |-> FALSE]
    /\ cycle = [n \in Node |-> InitialCycle]
    /\ pending = [n \in Node |-> NothingPending]
    /\ resets = [n \in Node |-> 0]

At(n, p) == pc[n] = p
Goto(n, p) == pc' = [pc EXCEPT ![n] = p]

(* The interrupt returns into sleep_mode.                                  *)
WakeUpMissed(n) == Goto(n, pc[n])

(* An interrupt ends sleep_mode; elsewhere main goes on where it was.      *)
WakeUp(n) == Goto(n, IF At(n, "asleep") THEN "top" ELSE pc[n])

-----------------------------------------------------------------------------
(* The interrupt service routines.                                         *)

CountISR(n) ==
    /\ counter[n] < MaxCount
    /\ counter' = [counter EXCEPT ![n] = @ + 1]
    /\ WakeUp(n)
    /\ UNCHANGED <<register, lastCount, timerVars, cycle, pending, resets, linkVars>>

Due(ticks, interval) == ticks >= interval

WdtISR(n) ==
    /\ LET ticks == wdtCounter[n] + 1
           due == Due(ticks, wakeInterval[n])
       IN /\ transmitMessage' = [transmitMessage EXCEPT ![n] = @ \/ due]
          /\ wdtCounter' = [wdtCounter EXCEPT ![n] = IF due THEN 0 ELSE ticks]
    /\ WakeUp(n)
    /\ UNCHANGED <<counter, register, lastCount, sleepDelay, wakeInterval,
                   stayAwake, cycle, pending, resets, linkVars>>

-----------------------------------------------------------------------------
(* The main program outside a cycle.                                       *)

(* From the label RES to the main loop, the XBee having been reset.        *)
Boot(n) ==
    /\ At(n, "boot") /\ Goto(n, "top")
    /\ wdtCounter' = [wdtCounter EXCEPT ![n] = 0]
    /\ stayAwake' = [stayAwake EXCEPT ![n] = FALSE]
    /\ transmitMessage' = [transmitMessage EXCEPT ![n] = FALSE]
    /\ sleepDelay' = [sleepDelay EXCEPT ![n] = 0]
    /\ pending' = [pending EXCEPT ![n] = NothingPending]
    /\ UNCHANGED <<counter, register, lastCount, wakeInterval, cycle, resets, linkVars>>

NoteCount(n) ==
    /\ At(n, "top")
    /\ lastCount' = [lastCount EXCEPT ![n] = counter[n]]
    /\ sleepDelay' = [sleepDelay EXCEPT ![n] = IF @ > SettleLoops THEN 0 ELSE @]

(* No permission to send: one look at what the XBee may have received.     *)
BeginPoll(n) ==
    /\ NoteCount(n)
    /\ ~transmitMessage[n]
    /\ Goto(n, "poll")
    /\ UNCHANGED <<counter, register, wdtCounter, wakeInterval, transmitMessage,
                   stayAwake, cycle, pending, resets, linkVars>>

BeginCycle(n) ==
    /\ NoteCount(n)
    /\ transmitMessage[n]
    /\ transmitMessage' = [transmitMessage EXCEPT ![n] = FALSE]
    /\ wdtCounter' = [wdtCounter EXCEPT ![n] = 0]
    /\ cycle' = [cycle EXCEPT ![n] = InitialCycle]
    /\ Goto(n, "stage")
    /\ UNCHANGED <<counter, register, wakeInterval, stayAwake, pending, resets, linkVars>>

(* The condition that closes the loop: counts still changing, or the node  *)
(* has not been idle long enough.                                          *)
Unsettled(delay, count, last) == delay < SettleLoops \/ count # last

Settle(n) ==
    /\ At(n, "settle")
    /\ IF Unsettled(sleepDelay[n], counter[n], lastCount[n])
       THEN /\ sleepDelay' = [sleepDelay EXCEPT ![n] = @ + 1]
            /\ Goto(n, "top")
       ELSE /\ sleepDelay' = [sleepDelay EXCEPT ![n] = 0]
            /\ Goto(n, IF stayAwake[n] THEN "top" ELSE "sleep")
    /\ UNCHANGED <<counter, register, lastCount, wdtCounter, wakeInterval,
                   transmitMessage, stayAwake, cycle, pending, resets, linkVars>>

(* An interrupt taken just before sleep_mode does not end the sleep.       *)
Sleep(n) ==
    /\ At(n, "sleep") /\ Goto(n, "asleep")
    /\ UNCHANGED <<counter, register, lastCount, timerVars, cycle, pending, resets, linkVars>>

-----------------------------------------------------------------------------
(* A pass through the stages of a cycle, up to interpretMessage.           *)

PassAssociation(c) ==
    IF c.stage = "associationCheck" /\ (c.associated \/ c.retryCount > AssocTries)
    THEN [c EXCEPT !.stage = "batteryCheck", !.retryCount = 0, !.retryEnable = TRUE,
                   !.associated = FALSE]
    ELSE c

PassBattery(c) ==
    IF c.stage = "batteryCheck" /\ (c.batteryCheckOK \/ c.retryCount > BatteryTries)
    THEN [c EXCEPT !.stage = "transmit", !.retryCount = 0, !.retryEnable = TRUE,
                   !.batteryCheckOK = FALSE, !.ack = FALSE]
    ELSE c

Entered(c) == PassBattery(PassAssociation(c))

(* A query or a data message sent without counting the attempt.            *)
SendingUncounted(c) == [c EXCEPT !.retryEnable = TRUE]

Sending(c) == [c EXCEPT !.retryCount = IF c.retryEnable THEN @ + 1 ELSE @,
                        !.retryEnable = TRUE]

Owed(p, frame) == [p EXCEPT ![frame] = IF @ < LocalCap THEN @ + 1 ELSE @]

(* sendATFrame to the local XBee, in the association and battery stages.   *)
Query(n, stage, frame) ==
    LET c == Entered(cycle[n]) IN
    /\ At(n, "stage") /\ c.stage = stage /\ Goto(n, "wait")
    /\ cycle' = [cycle EXCEPT ![n] = Sending(c)]
    /\ pending' = [pending EXCEPT ![n] = IF c.retryEnable THEN Owed(@, frame) ELSE @]
    /\ UNCHANGED <<counter, register, lastCount, timerVars, resets, linkVars>>

QueryAssociation(n) == Query(n, "associationCheck", "AI")
QueryBattery(n) == Query(n, "batteryCheck", "IS")

DataWord(n) == [cmd |-> "C", count |-> lastCount[n]]

GiveUp(c) == c.retryCount > TxTries

Transmit(n) ==
    LET c == Entered(cycle[n]) IN
    /\ At(n, "stage") /\ c.stage = "transmit" /\ ~c.ack /\ ~GiveUp(c)
    /\ Goto(n, "wait")
    /\ cycle' = [cycle EXCEPT ![n] = Sending(c)]
    /\ IF c.retryEnable
       THEN /\ SendUp(n, DataWord(n))
            /\ pending' = [pending EXCEPT ![n] = Owed(@, "TX")]
       ELSE UNCHANGED <<uplink, pending>>
    /\ UNCHANGED <<counter, register, lastCount, timerVars, resets, downlink>>

(* After four unanswered messages: tell the base and restart from RES.     *)
(* The count is kept, the timers are set again by Boot.                    *)
Abandon(n) ==
    LET c == Entered(cycle[n]) IN
    /\ At(n, "stage") /\ c.stage = "transmit" /\ ~c.ack /\ GiveUp(c)
    /\ SendUp(n, Reply("X"))
    /\ Goto(n, "boot")
    /\ cycle' = [cycle EXCEPT ![n] = InitialCycle]
    /\ UNCHANGED <<counter, register, lastCount, timerVars, pending, resets, downlink>>

(* The base has acknowledged: confirm, then take the reported count away,  *)
(* "counter -= lastCount" being a load, a subtraction and a store.         *)
Accept(n) ==
    LET c == Entered(cycle[n]) IN
    /\ At(n, "stage") /\ c.stage = "transmit" /\ c.ack
    /\ SendUp(n, Reply("A"))
    /\ pending' = [pending EXCEPT ![n] = Owed(@, "TX")]
    /\ Goto(n, "load")
    /\ cycle' = [cycle EXCEPT ![n] = c]
    /\ UNCHANGED <<counter, register, lastCount, timerVars, resets, downlink>>

LoadCount(n) ==
    /\ At(n, "load") /\ Goto(n, "store")
    /\ register' = [register EXCEPT ![n] = counter[n]]
    /\ UNCHANGED <<counter, lastCount, timerVars, cycle, pending, resets, linkVars>>

(* The subtraction forgotten.                                              *)
RemainingAll(loaded, reported) == loaded

Remaining(loaded, reported) == loaded - reported

Completed(c) == [c EXCEPT !.retryCount = 0, !.stage = "complete"]

(* lastCount left at the value just reported.                              *)
StoreCountStale(n) ==
    /\ At(n, "store") /\ Goto(n, "wait")
    /\ counter' = [counter EXCEPT ![n] = Remaining(register[n], lastCount[n])]
    /\ register' = [register EXCEPT ![n] = 0]
    /\ cycle' = [cycle EXCEPT ![n] = Completed(@)]
    /\ UNCHANGED <<lastCount, timerVars, pending, resets, linkVars>>

StoreCount(n) ==
    /\ At(n, "store") /\ Goto(n, "wait")
    /\ counter' = [counter EXCEPT ![n] = Remaining(register[n], lastCount[n])]
    /\ lastCount' = [lastCount EXCEPT ![n] = 0]
    /\ register' = [register EXCEPT ![n] = 0]
    /\ cycle' = [cycle EXCEPT ![n] = Completed(@)]
    /\ UNCHANGED <<timerVars, pending, resets, linkVars>>

-----------------------------------------------------------------------------
(* interpretMessage, called once in every pass of a cycle (and once more   *)
(* after the cycle is complete) and once in every pass outside a cycle,    *)
(* where only an operator's command has an effect.                         *)

Resume(n, c) ==
    \/ /\ At(n, "poll") /\ Goto(n, "settle")
       /\ UNCHANGED cycle
    \/ /\ At(n, "wait") /\ cycle[n].stage # "complete" /\ Goto(n, "stage")
       /\ cycle' = [cycle EXCEPT ![n] = c]
    \/ /\ At(n, "wait") /\ cycle[n].stage = "complete" /\ Goto(n, "settle")
       /\ cycle' = [cycle EXCEPT ![n] = InitialCycle]

heardVars == <<counter, register, lastCount, sleepDelay, wdtCounter,
               transmitMessage, resets>>

(* Nothing in time, or nothing usable: a damaged frame, an AT response     *)
(* with an error status, or one of the unsolicited kinds of frame that     *)
(* interpretMessage turns into an error code.                              *)
HearNothing(n) ==
    /\ Resume(n, cycle[n])
    /\ UNCHANGED <<heardVars, wakeInterval, stayAwake, pending, linkVars>>

Answered(n, frame) ==
    /\ pending[n][frame] > 0
    /\ pending' = [pending EXCEPT ![n][frame] = @ - 1]
    /\ UNCHANGED <<heardVars, wakeInterval, stayAwake, linkVars>>

(* A frame that is not the one the stage waits for delays the next repeat. *)
HoldRetry(c, stage) == [c EXCEPT !.retryEnable = @ /\ c.stage = stage]

HearAssociation(n) ==
    /\ Answered(n, "AI")
    /\ \E assoc \in BOOLEAN :
          Resume(n, [HoldRetry(cycle[n], "associationCheck") EXCEPT
                         !.associated = assoc /\ cycle[n].stage = "associationCheck"])

HearBattery(n) ==
    /\ Answered(n, "IS")
    /\ Resume(n, [HoldRetry(cycle[n], "batteryCheck") EXCEPT
                   !.batteryCheckOK = cycle[n].stage \in {"associationCheck", "batteryCheck"}])

HearTxStatus(n) ==
    /\ Answered(n, "TX")
    /\ Resume(n, [cycle[n] EXCEPT !.retryEnable = FALSE])

(* A NAK taken for an ACK.                                                 *)
JudgedAsAck(c, cmd) == [HoldRetry(c, "transmit") EXCEPT
                           !.ack = @ \/ (c.stage = "transmit" /\ cmd \in {"A", "N"})]

(* What main makes of a received packet, by its first character.           *)
Judged(c, cmd) == [HoldRetry(c, "transmit") EXCEPT
                       !.ack = @ \/ (c.stage = "transmit" /\ cmd = "A")]

HearReply(n) ==
    /\ Arrived(downlink[n]) /\ Head(downlink[n]).cmd \in {"A", "N"}
    /\ TakeDown(n)
    /\ Resume(n, Judged(cycle[n], Head(downlink[n]).cmd))
    /\ UNCHANGED <<heardVars, wakeInterval, stayAwake, pending, uplink>>

(* The parameter taken without the check that it is positive.              *)
NewIntervalUnchecked(m, old) == IF m.cmd = "DPW" THEN m.arg ELSE old

NewInterval(m, old) == IF m.cmd = "DPW" /\ m.arg > 0 THEN m.arg ELSE old

(* interpretCommand carries the command out and answers it; back in main   *)
(* the same packet is judged again, as neither ACK nor NAK.                *)
HearCommand(n) ==
    /\ Arrived(downlink[n]) /\ Head(downlink[n]).cmd \in {"DPW", "DXW", "DXS"}
    /\ LET m == Head(downlink[n]) IN
       /\ Resume(n, Judged(cycle[n], m.cmd))
       /\ wakeInterval' = [wakeInterval EXCEPT ![n] = NewInterval(m, @)]
       /\ stayAwake' = [stayAwake EXCEPT ![n] = m.cmd = "DXW" \/ (@ /\ m.cmd # "DXS")]
       /\ SendUp(n, Reply(IF m.cmd = "DPW" THEN "P" ELSE "A"))
    /\ TakeDown(n)
    /\ pending' = [pending EXCEPT ![n] = Owed(@, "TX")]
    /\ UNCHANGED heardVars

-----------------------------------------------------------------------------
(* The processor loses its state: the power fails, or the watchdog resets  *)
(* it in a cycle of more than two ticks.  main sets the counter to zero.   *)
HardReset(n) ==
    /\ resets[n] < MaxResets
    /\ resets' = [resets EXCEPT ![n] = @ + 1]
    /\ Goto(n, "boot")
    /\ counter' = [counter EXCEPT ![n] = 0]
    /\ register' = [register EXCEPT ![n] = 0]
    /\ lastCount' = [lastCount EXCEPT ![n] = 0]
    /\ wakeInterval' = [wakeInterval EXCEPT ![n] = ActionCount]
    /\ wdtCounter' = [wdtCounter EXCEPT ![n] = 0]
    /\ transmitMessage' = [transmitMessage EXCEPT ![n] = FALSE]
    /\ stayAwake' = [stayAwake EXCEPT ![n] = FALSE]
    /\ sleepDelay' = [sleepDelay EXCEPT ![n] = 0]
    /\ cycle' = [cycle EXCEPT ![n] = InitialCycle]
    /\ pending' = [pending EXCEPT ![n] = NothingPending]
    /\ UNCHANGED linkVars

Interrupt(n) == CountISR(n) \/ WdtISR(n)

Hear(n) == \/ HearNothing(n) \/ HearAssociation(n) \/ HearBattery(n)
           \/ HearTxStatus(n) \/ HearReply(n) \/ HearCommand(n)

Main(n) == \/ Boot(n) \/ BeginPoll(n) \/ BeginCycle(n) \/ Settle(n) \/ Sleep(n)
           \/ QueryAssociation(n) \/ QueryBattery(n) \/ Transmit(n) \/ Abandon(n)
           \/ Accept(n) \/ LoadCount(n) \/ StoreCount(n) \/ Hear(n)

NodeNext == \E n \in Node : Main(n) \/ Interrupt(n) \/ HardReset(n)

=============================================================================
