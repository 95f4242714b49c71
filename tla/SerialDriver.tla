---------------------------- MODULE SerialDriver ----------------------------
(***************************************************************************)
(* libs/serial.c as the node runs it: both rings, both interrupts and the  *)
(* one thread of main, which is either in getch, in sendch or in uartInit. *)
(* The receive interrupt is taken ahead of a pending transmit interrupt,   *)
(* and when it returns main too executes an instruction before that one.   *)
(* The UART holds two bytes, so that between two transmit interrupts main  *)
(* has three instructions at most: in the model, at most one step.         *)
(***************************************************************************)
EXTENDS Naturals, Sequences

CONSTANTS Size,     \* slots of each ring: BUFFER_SIZE-3, 29 in the code
          Byte,     \* what a slot holds
          NoData    \* 0x100, what getch returns when there is no byte

ASSUME SizeAssumption == Size \in 2..255 /\ 0 \in Byte /\ NoData \notin Byte

VARIABLES rxSlot, rxHead, rxTail, rxPc, rxCh, rxAccepted,
          txSlot, txHead, txTail, txPc, txCh, enabled, returned, sent, txAccepted,
          stepped     \* main has made its step ahead of a transmit interrupt

rxVars == <<rxSlot, rxHead, rxTail, rxPc, rxCh, rxAccepted>>
txRing == <<txSlot, txHead, txTail, txPc, txCh, enabled, sent, txAccepted>>
vars == <<rxVars, txRing, returned, stepped>>

Receive == INSTANCE SerialReceive WITH
               slot <- rxSlot, head <- rxHead, tail <- rxTail,
               pc <- rxPc, ch <- rxCh, accepted <- rxAccepted

Transmit == INSTANCE SerialTransmit WITH
                slot <- txSlot, head <- txHead, tail <- txTail,
                pc <- txPc, ch <- txCh, accepted <- txAccepted

Init == Receive!Init /\ Transmit!Init /\ stepped = FALSE

(* getch, or the receive part of uartInit.                                 *)
MainReceives == /\ txPc = "idle" /\ Transmit!MainRuns
                /\ Receive!MainStep
                /\ returned' = FALSE /\ stepped' = enabled
                /\ UNCHANGED txRing

(* sendch, or the transmit part of uartInit.                               *)
MainSends == /\ rxPc = "idle"
             /\ Transmit!MainStep
             /\ stepped' = enabled
             /\ UNCHANGED rxVars

ReceiveInterrupt ==
    /\ \E b \in Byte : Receive!ReceiveISR(b)
    /\ returned' = (returned \/ ~stepped)
    /\ UNCHANGED <<txRing, stepped>>

TransmitInterrupt == /\ Transmit!TransmitISR
                     /\ stepped' = FALSE
                     /\ UNCHANGED rxVars

Next == MainReceives \/ MainSends \/ ReceiveInterrupt \/ TransmitInterrupt

(* What main has begun it goes on with.                                    *)
MainProceeds == \/ /\ rxPc # "idle" /\ MainReceives
                \/ /\ MainSends /\ Transmit!Working

(* A pending interrupt is taken, and main runs.                            *)
Spec == /\ Init /\ [][Next]_vars
        /\ WF_vars(TransmitInterrupt) /\ WF_vars(MainProceeds)

-----------------------------------------------------------------------------
TypeOK == /\ Receive!TypeOK /\ Transmit!TypeOK
          /\ stepped \in BOOLEAN
          /\ rxPc = "idle" \/ txPc = "idle"

(* Ignoring the result of buffer_put is safe: however long the frame, and  *)
(* whatever comes in meanwhile, the transmit buffer never fills.           *)
NothingRefused == Transmit!NothingRefused

(* Every byte received is read once, in order and undamaged, or it came    *)
(* when the buffer was full or being initialised.                          *)
ReceiveIsQueue == Receive!ReceiveIsQueue

(* The UART gets the bytes of sendch in order, and never a slot whose head *)
(* has moved but that is not written.                                      *)
TransmitIsQueue == Transmit!TransmitIsQueue

(* Every byte that sendch was called with is sent in the end, also when    *)
(* bytes keep coming in.                                                   *)
AllSent == Transmit!AllSent

=============================================================================
