---------------------------- MODULE SharedCounter ----------------------------
(***************************************************************************)
(* The accesses of XBee-firmware/xbee-firmware.c to counter on the eight   *)
(* bit processor.  COUNT_ISR runs with interrupts off; main reads and      *)
(* writes the four bytes one after the other with interrupts on, counter   *)
(* being neither volatile nor protected, and the interrupt may come        *)
(* between any two of them.  The order of the bytes is the compiler's.     *)
(***************************************************************************)
EXTENDS Naturals

CONSTANTS Radix,       \* 256: the values of a byte
          Width,       \* 4: the bytes of counter
          MaxPulses    \* bound: pulses at the input

ASSUME SharedAssumption == Radix \in Nat \ {0, 1} /\ Width \in Nat \ {0} /\ MaxPulses \in Nat

VARIABLES counter,     \* the four bytes, as one number
          lastCount,   \* main's copy of it
          copy,        \* the registers of the access under way
          access,      \* "idle", or the access: "note", "load", "store"
          todo,        \* the bytes it has still to access
          pulses       \* pulses so far

sharedVars == <<counter, lastCount, copy, access, todo, pulses>>

Bytes == 0..(Width - 1)

SharedInit == /\ counter = 0 /\ lastCount = 0 /\ copy = 0
              /\ access = "idle" /\ todo = {} /\ pulses = 0

(* What a one in byte i stands for.                                        *)
Weight[i \in 0..Width] == IF i = 0 THEN 1 ELSE Weight[i - 1] * Radix

Digit(value, i) == (value \div Weight[i]) % Radix

(* value with its byte i replaced by that of source.                       *)
Patched(value, i, source) == value - Digit(value, i) * Weight[i] + Digit(source, i) * Weight[i]

COUNT_ISR == /\ pulses < MaxPulses
             /\ pulses' = pulses + 1
             /\ counter' = (counter + 1) % Weight[Width]
             /\ UNCHANGED <<lastCount, copy, access, todo>>

Begin(what) == /\ access = "idle" /\ access' = what
               /\ todo' = Bytes
               /\ UNCHANGED <<counter, lastCount, pulses>>

(* lastCount = counter.                                                    *)
BeginNote == Begin("note") /\ copy' = 0

(* The compiler keeps counter in registers from the note on.               *)
BeginSubtractCached == Begin("store") /\ copy' = 0

(* counter -= lastCount, in a cycle, some time after the note.             *)
BeginSubtract == Begin("load") /\ copy' = 0

NoteByte(i) ==
    /\ access = "note" /\ i \in todo
    /\ copy' = Patched(copy, i, counter)
    /\ todo' = todo \ {i}
    /\ IF todo' = {} THEN access' = "idle" /\ lastCount' = copy'
                     ELSE UNCHANGED <<access, lastCount>>
    /\ UNCHANGED <<counter, pulses>>

LoadByte(i) ==
    /\ access = "load" /\ i \in todo
    /\ LET loaded == Patched(copy, i, counter) IN
       IF todo = {i}
       THEN /\ copy' = (loaded + Weight[Width] - lastCount) % Weight[Width]
            /\ access' = "store" /\ todo' = Bytes
       ELSE /\ copy' = loaded
            /\ todo' = todo \ {i}
            /\ UNCHANGED access
    /\ UNCHANGED <<counter, lastCount, pulses>>

StoreByte(i) ==
    /\ access = "store" /\ i \in todo
    /\ counter' = Patched(counter, i, copy)
    /\ todo' = todo \ {i}
    /\ IF todo' = {} THEN access' = "idle" /\ lastCount' = 0
                     ELSE UNCHANGED <<access, lastCount>>
    /\ UNCHANGED <<copy, pulses>>

SharedNext == \/ COUNT_ISR \/ BeginNote \/ BeginSubtract
              \/ \E i \in Bytes : NoteByte(i) \/ LoadByte(i) \/ StoreByte(i)

SharedSpec == SharedInit /\ [][SharedNext]_sharedVars

-----------------------------------------------------------------------------
(* An access takes effect when it reaches the lowest byte.                 *)
Reached == 0 \notin todo

Stored == access = "store" /\ Reached

Counter == INSTANCE AtomicCounter WITH
    lastCount <- IF access = "note" /\ Reached THEN Digit(copy, 0)
                 ELSE IF Stored THEN 0 ELSE lastCount,
    register <- IF access = "load" /\ Reached THEN Digit(copy, 0)
                ELSE IF access = "store" /\ ~Stored THEN copy + lastCount ELSE 0

(* As long as the pulses fit one byte the accesses of main are as good as  *)
(* atomic: every note, load and store sees or makes one value of counter,  *)
(* in any order of the bytes and wherever the interrupt comes.             *)
AtomicInOneByte == Counter!Spec

=============================================================================
