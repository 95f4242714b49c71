--------------------------- MODULE MCFrameReceiver ---------------------------
(* FrameReceiver with payloads that contain the start character.           *)
EXTENDS FrameReceiver

MCWanted == {[type |-> 1, data |-> <<>>]}

MCFrames == MCWanted \cup {[type |-> 2, data |-> <<3, 0>>]}

=============================================================================
