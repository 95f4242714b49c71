--------------------------- MODULE SerialTransmit ---------------------------
(***************************************************************************)
(* The transmit direction of libs/serial.c with USE_TRANSMIT_BUFFER and    *)
(* USE_TRANSMIT_INTERRUPTS: main puts a byte with sendch and enables the   *)
(* data register empty interrupt; UART_TRANSMIT_ISR takes a byte, waits in *)
(* sendchDirect until it has gone, and disables the interrupt when there   *)
(* is none.  sendch ignores the result of buffer_put, and buffer_put moves *)
(* the head before it writes the byte.                                     *)
(*                                                                         *)
(* When the interrupt is enabled it is pending, for the routine returns    *)
(* only after the transmitter is empty.  The processor then takes it ahead *)
(* of main, except that it executes one instruction of main after the      *)
(* return from an interrupt: in the model, at most one step.               *)
(***************************************************************************)
EXTENDS CircularBuffer

VARIABLES pc,        \* main: "idle", or the next access in sendch
          ch,        \* the byte sendch was called with
          enabled,   \* DATA_REGISTER_EMPTY_IE
          returned,  \* the interrupt has just returned
          sent,      \* the byte given to the UART last
          accepted   \* whether buffer_put had space for the last byte

vars == <<bufferVars, pc, ch, enabled, returned, sent, accepted>>

CONSTANT NoData

Init == /\ BufferInit /\ pc = "idle" /\ ch = 0
        /\ enabled = FALSE /\ returned = FALSE
        /\ sent = NoData /\ accepted = TRUE

(* A sendchDirect that does not wait leaves no interrupt pending.          *)
MainRunsFreely == TRUE

MainRuns == ~enabled \/ returned

Main(from, to) == MainRuns /\ pc = from /\ pc' = to /\ returned' = FALSE

SendCh(b) == /\ Main("idle", "check")
             /\ ch' = b
             /\ UNCHANGED <<bufferVars, enabled, sent, accepted>>

(* A full buffer loses the byte; the interrupt is enabled all the same.    *)
PutCheck == /\ Main("check", IF Full THEN "enable" ELSE "head")
            /\ accepted' = (accepted /\ ~Full)
            /\ UNCHANGED <<bufferVars, ch, enabled, sent>>

PutHead == /\ Main("head", "data")
           /\ head' = Successor(head)
           /\ UNCHANGED <<slot, tail, ch, enabled, sent, accepted>>

PutData == /\ Main("data", "enable")
           /\ slot' = [slot EXCEPT ![head] = ch]
           /\ accepted' = TRUE
           /\ UNCHANGED <<head, tail, ch, enabled, sent>>

(* sendch without the enable of the interrupt.                             *)
EnableForgotten == Main("enable", "idle") /\ UNCHANGED <<bufferVars, ch, enabled, sent, accepted>>

EnableInterrupt == /\ Main("enable", "idle")
                   /\ enabled' = TRUE
                   /\ UNCHANGED <<bufferVars, ch, sent, accepted>>

TransmitISR == /\ enabled
               /\ IF Empty
                  THEN /\ enabled' = FALSE
                       /\ UNCHANGED <<tail, sent>>
                  ELSE /\ tail' = Successor(tail)
                       /\ sent' = slot[Successor(tail)]
                       /\ UNCHANGED enabled
               /\ returned' = TRUE
               /\ UNCHANGED <<slot, head, pc, ch, accepted>>

(* buffer_init, called by uartInit after a soft reset: main has waited     *)
(* 100 ms since its last sendch, and the interrupt is off again.           *)
InitHead == /\ ~enabled /\ Main("idle", "init")
            /\ head' = 0
            /\ UNCHANGED <<slot, tail, ch, enabled, sent, accepted>>

InitTail == /\ Main("init", "idle")
            /\ tail' = 0
            /\ UNCHANGED <<slot, head, ch, enabled, sent, accepted>>

Working == PutCheck \/ PutHead \/ PutData \/ EnableInterrupt \/ InitTail

MainStep == Working \/ InitHead \/ \E b \in Byte : SendCh(b)

Next == MainStep \/ TransmitISR

Spec == Init /\ [][Next]_vars

(* The processor runs: a pending interrupt is taken, sendch and uartInit   *)
(* return.                                                                 *)
FairSpec == Spec /\ WF_vars(TransmitISR) /\ WF_vars(Working)

TypeOK == /\ BufferTypeOK
          /\ pc \in {"idle", "check", "head", "data", "enable", "init"}
          /\ ch \in Byte
          /\ enabled \in BOOLEAN /\ returned \in BOOLEAN
          /\ sent \in Byte \cup {NoData}
          /\ accepted \in BOOLEAN

(* Ignoring the result of buffer_put is safe: however long the frame, the  *)
(* buffer never fills, because each byte is sent before main goes on.      *)
NothingRefused == ~(pc = "check" /\ Full)

(* The transmit buffer is a queue: the UART gets the bytes of sendch in    *)
(* order, and never a slot whose head has moved but that is not written.   *)
Queue == INSTANCE ByteQueue WITH
             Capacity <- Size - 1,
             queue <- IF pc = "init" THEN <<>>
                      ELSE Contents(IF pc = "data" THEN (head + Size - 1) % Size ELSE head, tail),
             out <- sent,
             clearing <- FALSE

TransmitIsQueue == Queue!Spec

(* Every byte that sendch was called with is sent in the end.              *)
AllSent == ~Empty ~> Empty

=============================================================================
