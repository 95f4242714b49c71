------------------------------ MODULE XBeeLink ------------------------------
(***************************************************************************)
(* The radio network between the remote nodes and the base station, as the *)
(* programs at its two ends use it: a node calls sendMessage and           *)
(* sendDataCommand, the base calls xbee_conTx, and each reads what arrives *)
(* in the order it was sent.  The ZigBee mesh itself is external.  A       *)
(* message may vanish (out of range, transmit buffer full, receiver busy)  *)
(* or be delayed for any time, a parent holding it for a sleeping child;   *)
(* it is neither duplicated nor overtaken.                                 *)
(***************************************************************************)
EXTENDS Naturals, Sequences

CONSTANTS Node,       \* the remote nodes
          ChanCap     \* bound: messages the network holds in each direction

ASSUME ChanCapAssumption == ChanCap \in Nat \ {0}

VARIABLES uplink,     \* uplink[n]: messages from node n on their way to the base
          downlink    \* downlink[n]: messages from the base on their way to n

linkVars == <<uplink, downlink>>

(* "C" stands for the five commands a data message may carry: C, and for a *)
(* repeat T, N, E or S, which tell the operator what went wrong and which  *)
(* the base treats alike.  The count is the low 16 bits of the data word;  *)
(* the battery voltage and the status in its upper bits are left out.  "A" *)
(* and "X" end a cycle, "A" also answers a DX command, "P" a DP command.   *)
UpMsg == [cmd : {"C"}, count : Nat] \cup [cmd : {"A", "X", "P"}, count : {0}]

Reply(c) == [cmd |-> c, count |-> 0]

(* From the base: ACK, NAK and the operator's commands; only "DPW" has an  *)
(* argument, the wake interval (0 asks for the present one).               *)
DownMsg == [cmd : {"A", "N", "DPW", "DXW", "DXS"}, arg : Nat]

Order(c) == [cmd |-> c, arg |-> 0]

LinkTypeOK == /\ uplink \in [Node -> Seq(UpMsg)]
              /\ downlink \in [Node -> Seq(DownMsg)]

LinkInit == /\ uplink = [n \in Node |-> <<>>]
            /\ downlink = [n \in Node |-> <<>>]

(* What a channel may hold after a send: the message joins it or is lost.  *)
Sent(chan, msg) ==
    {chan} \cup (IF Len(chan) < ChanCap THEN {Append(chan, msg)} ELSE {})

SendUp(n, msg) == \E q \in Sent(uplink[n], msg) : uplink' = [uplink EXCEPT ![n] = q]

SendDown(n, msg) == \E q \in Sent(downlink[n], msg) : downlink' = [downlink EXCEPT ![n] = q]

Arrived(chan) == chan # <<>>

TakeUp(n) == uplink' = [uplink EXCEPT ![n] = Tail(@)]

TakeDown(n) == downlink' = [downlink EXCEPT ![n] = Tail(@)]

=============================================================================
