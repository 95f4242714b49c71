--------------------------- MODULE CircularBuffer ---------------------------
(***************************************************************************)
(* The ring of libs/buffer.c: an array of Size slots, the head where the   *)
(* last byte was put and the tail where the last byte was taken.  One slot *)
(* stays free, so that equal indices mean an empty buffer.                 *)
(***************************************************************************)
EXTENDS Naturals, Sequences

CONSTANTS Size,     \* slots of the ring: BUFFER_SIZE-3, 29 in the code
          Byte      \* what a slot holds

VARIABLES slot, head, tail

bufferVars == <<slot, head, tail>>

Index == 0..(Size - 1)

BufferTypeOK == slot \in [Index -> Byte] /\ head \in Index /\ tail \in Index

(* A static array is zero before buffer_init.                              *)
BufferInit == slot = [i \in Index |-> 0] /\ head = 0 /\ tail = 0

(* Wrapping one slot too late.                                             *)
SuccessorLate(i) == IF i = Size THEN 0 ELSE i + 1

Successor(i) == IF i + 1 = Size THEN 0 ELSE i + 1

(* A buffer_put that does not check for space.                             *)
FullUnchecked == FALSE

Empty == head = tail
Full == Successor(head) = tail

Count(h, t) == IF t <= h THEN h - t ELSE h + Size - t

(* The bytes between tail t and head h, oldest first.                      *)
Contents(h, t) == [i \in 1..Count(h, t) |-> slot[(t + i) % Size]]

=============================================================================
