------------------------------ MODULE ByteQueue ------------------------------
(***************************************************************************)
(* What each direction of the serial port promises: a queue of bounded     *)
(* length.  A byte is refused only when the queue is full, or while it is  *)
(* being cleared; what comes out is what went in, in the same order.       *)
(***************************************************************************)
EXTENDS Naturals, Sequences

CONSTANTS Byte, Capacity, NoData

VARIABLES queue,       \* bytes put and not yet taken
          out,         \* the byte taken last, or NoData
          accepted,    \* whether the last byte offered was put
          clearing     \* the queue is being initialised

Init == queue = <<>> /\ out = NoData /\ accepted = TRUE /\ clearing = FALSE

Put(b) == /\ Len(queue) < Capacity
          /\ queue' = Append(queue, b)
          /\ accepted' = TRUE
          /\ UNCHANGED <<out, clearing>>

Refuse == /\ Len(queue) = Capacity \/ clearing
          /\ accepted' = FALSE
          /\ UNCHANGED <<queue, out, clearing>>

Take == /\ queue # <<>> /\ ~clearing
        /\ out' = Head(queue)
        /\ queue' = Tail(queue)
        /\ UNCHANGED <<accepted, clearing>>

Miss == /\ queue = <<>> /\ ~clearing
        /\ out' = NoData
        /\ UNCHANGED <<queue, accepted, clearing>>

BeginClear == queue' = <<>> /\ clearing' = TRUE /\ UNCHANGED <<out, accepted>>

EndClear == clearing' = FALSE /\ UNCHANGED <<queue, out, accepted>>

Next == \/ \E b \in Byte : Put(b)
        \/ Refuse \/ Take \/ Miss \/ BeginClear \/ EndClear

Spec == Init /\ [][Next]_<<queue, out, accepted, clearing>>

=============================================================================
