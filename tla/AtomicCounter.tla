---------------------------- MODULE AtomicCounter ----------------------------
(***************************************************************************)
(* The pulse counter as NodeFirmware has it: main notes it, loads it and   *)
(* stores it in one step each, the interrupt advances it in between.       *)
(***************************************************************************)
EXTENDS Naturals

VARIABLES counter, lastCount, register

Init == counter = 0 /\ lastCount = 0 /\ register = 0

Pulse == counter' = counter + 1 /\ UNCHANGED <<lastCount, register>>

Note == lastCount' = counter /\ UNCHANGED <<counter, register>>

Load == register' = counter /\ UNCHANGED <<counter, lastCount>>

(* The count noted is taken off what was loaded.                           *)
Store == counter' = register - lastCount /\ lastCount' = 0 /\ register' = 0

Next == Pulse \/ Note \/ Load \/ Store

Spec == Init /\ [][Next]_<<counter, lastCount, register>>

=============================================================================
