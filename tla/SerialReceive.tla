---------------------------- MODULE SerialReceive ----------------------------
(***************************************************************************)
(* The receive direction of libs/serial.c with USE_RECEIVE_BUFFER and      *)
(* USE_RECEIVE_INTERRUPTS: UART_RECEIVE_ISR puts what the UART delivers,   *)
(* main takes it with getch, and uartInit initialises the buffer again     *)
(* after a soft reset.  The interrupt may come between any two accesses of *)
(* main to the buffer.                                                     *)
(***************************************************************************)
EXTENDS CircularBuffer

CONSTANT NoData      \* 0x100, what getch returns when there is no byte

VARIABLES pc,        \* main: "idle", in buffer_get "taken", in buffer_init "head"
          ch,        \* what getch returned last
          accepted   \* whether buffer_put had space for the last byte received

vars == <<bufferVars, pc, ch, accepted>>

Init == BufferInit /\ pc = "idle" /\ ch = NoData /\ accepted = TRUE

(* buffer_put with interrupts off.  The routine ignores the result.        *)
ReceiveISR(b) ==
    /\ IF Full
       THEN /\ accepted' = FALSE
            /\ UNCHANGED <<head, slot>>
       ELSE /\ head' = Successor(head)
            /\ slot' = [slot EXCEPT ![Successor(head)] = b]
            /\ accepted' = TRUE
    /\ UNCHANGED <<tail, pc, ch>>

GetNothing == /\ pc = "idle" /\ Empty
              /\ ch' = NoData
              /\ UNCHANGED <<bufferVars, pc, accepted>>

(* buffer_get moves the tail first and reads the byte it freed afterwards. *)
GetTail == /\ pc = "idle" /\ ~Empty
           /\ tail' = Successor(tail)
           /\ pc' = "taken"
           /\ UNCHANGED <<slot, head, ch, accepted>>

GetByte == /\ pc = "taken"
           /\ ch' = slot[tail]
           /\ pc' = "idle"
           /\ UNCHANGED <<bufferVars, accepted>>

(* buffer_init, one index after the other, with the interrupt enabled.     *)
InitHead == /\ pc = "idle"
            /\ head' = 0
            /\ pc' = "head"
            /\ UNCHANGED <<slot, tail, ch, accepted>>

InitTail == /\ pc = "head"
            /\ tail' = 0
            /\ pc' = "idle"
            /\ UNCHANGED <<slot, head, ch, accepted>>

MainStep == GetNothing \/ GetTail \/ GetByte \/ InitHead \/ InitTail

Next == MainStep \/ \E b \in Byte : ReceiveISR(b)

Spec == Init /\ [][Next]_vars

TypeOK == /\ BufferTypeOK
          /\ pc \in {"idle", "taken", "head"}
          /\ ch \in Byte \cup {NoData}
          /\ accepted \in BOOLEAN

(* The receive buffer is a bounded queue of Size-1 bytes.  A byte leaves   *)
(* it when the tail moves, although main reads it only later: the slot of  *)
(* a byte being read is never overwritten.                                 *)
Queue == INSTANCE ByteQueue WITH
             Capacity <- Size - 1,
             queue <- Contents(head, IF pc = "head" THEN 0 ELSE tail),
             out <- IF pc = "taken" THEN slot[tail] ELSE ch,
             clearing <- pc = "head"

(* Every byte received is read once, in order and undamaged, or it came    *)
(* when the buffer was full or being initialised.                          *)
ReceiveIsQueue == Queue!Spec

=============================================================================
