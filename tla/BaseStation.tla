----------------------------- MODULE BaseStation -----------------------------
(***************************************************************************)
(* The base station's side of the count protocol, from                     *)
(* XBee-acqcontrol/xbee-acqcontrol.cpp: dataCallback, which libxbee calls  *)
(* for each packet a node sends on its data connection, and the operator's *)
(* commands to a node's program, which command_handler sends on the same   *)
(* connection ('S') and whose answer it fetches later ('s').  Every node   *)
(* is already in the node table, with its connections open.                *)
(***************************************************************************)
EXTENDS XBeeLink

CONSTANTS Intervals,      \* the wake intervals an operator asks for (0: none)
          MaxCommands     \* bound: the commands operators send to the nodes

ASSUME BaseAssumption == Intervals \subseteq Nat /\ MaxCommands \in Nat

VARIABLES protocolState,     \* per row: 2 after a data message was accepted
          remoteData,        \* per row: the data "set aside for later recording"
          dataField,         \* one for all rows: the data that is recorded
          dataResponseRcvd,  \* an answer to a DP command has come
          commands           \* commands sent so far

baseVars == <<protocolState, remoteData, dataField, dataResponseRcvd, commands>>

BaseTypeOK == /\ protocolState \in [Node -> 0..2]
              /\ remoteData \in [Node -> Nat]
              /\ dataField \in Nat
              /\ dataResponseRcvd \in BOOLEAN
              /\ commands \in 0..MaxCommands

BaseInit == /\ protocolState = [n \in Node |-> 0]
            /\ remoteData = [n \in Node |-> 0]
            /\ dataField = 0
            /\ dataResponseRcvd = FALSE
            /\ commands = 0

(* The command character of the packet that dataCallback is called with.   *)
Incoming(n) == Head(uplink[n]).cmd

Packet(n, kinds) == Arrived(uplink[n]) /\ Incoming(n) \in kinds /\ TakeUp(n)

Final(n) == protocolState[n] = 2

SetState(n, s) == protocolState' = [protocolState EXCEPT ![n] = s]

(* A data message of the wrong length, with a character that is not hex or *)
(* with a wrong checksum.                                                  *)
ReceiveDamaged(n) ==
    /\ Packet(n, {"C"})
    /\ SetState(n, 1)
    /\ SendDown(n, Order("N"))
    /\ UNCHANGED <<remoteData, dataField, dataResponseRcvd, commands>>

(* The final state never entered.                                          *)
ReceiveDataUnfinal(n) ==
    /\ Packet(n, {"C"})
    /\ SetState(n, 1)
    /\ remoteData' = [remoteData EXCEPT ![n] = Head(uplink[n]).count]
    /\ dataField' = Head(uplink[n]).count
    /\ SendDown(n, Order("A"))
    /\ UNCHANGED <<dataResponseRcvd, commands>>

(* count not set to zero before the digits of a packet are added to it.    *)
ReceiveDataOnTop(n) ==
    /\ Packet(n, {"C"})
    /\ SetState(n, 2)
    /\ remoteData' = [remoteData EXCEPT ![n] = @ + Head(uplink[n]).count]
    /\ dataField' = dataField + Head(uplink[n]).count
    /\ SendDown(n, Order("A"))
    /\ UNCHANGED <<dataResponseRcvd, commands>>

(* A correct data message: keep its data and acknowledge it.               *)
ReceiveData(n) ==
    /\ Packet(n, {"C"})
    /\ SetState(n, 2)
    /\ remoteData' = [remoteData EXCEPT ![n] = Head(uplink[n]).count]
    /\ dataField' = Head(uplink[n]).count
    /\ SendDown(n, Order("A"))
    /\ UNCHANGED <<dataResponseRcvd, commands>>

(* The final state never left.                                             *)
ReceiveAcceptanceAgain(n) ==
    /\ Final(n) /\ Packet(n, {"A", "X", "P"})
    /\ UNCHANGED <<baseVars, downlink>>

(* In the final state anything but a data message is taken for the node's  *)
(* acceptance, and the data is recorded.                                   *)
ReceiveAcceptance(n) ==
    /\ Final(n) /\ Packet(n, {"A", "X", "P"})
    /\ SetState(n, 1)
    /\ UNCHANGED <<remoteData, dataField, dataResponseRcvd, commands, downlink>>

(* What ReceiveAcceptance(n) writes to the data file as the count of n.    *)
Recorded(n) == dataField

ReceiveAbandon(n) ==
    /\ ~Final(n) /\ Packet(n, {"X"})
    /\ SetState(n, 1)
    /\ UNCHANGED <<remoteData, dataField, dataResponseRcvd, commands, downlink>>

ReceiveResponse(n) ==
    /\ ~Final(n) /\ Packet(n, {"P"})
    /\ dataResponseRcvd' = TRUE
    /\ UNCHANGED <<protocolState, remoteData, dataField, commands, downlink>>

(* An 'A' that is not expected changes nothing.                            *)
ReceiveStrayAck(n) ==
    /\ ~Final(n) /\ Packet(n, {"A"})
    /\ UNCHANGED <<baseVars, downlink>>

(* command_handler 'S' and 's'.  The loop that copies the string tests     *)
(* the row byte in place of the first character, so that nothing is sent   *)
(* to row 0: n is the node of another row.                                 *)
SendCommand(n) ==
    /\ commands < MaxCommands
    /\ commands' = commands + 1
    /\ \E order \in {Order("DXW"), Order("DXS")}
                    \cup [cmd : {"DPW"}, arg : Intervals] : SendDown(n, order)
    /\ UNCHANGED <<protocolState, remoteData, dataField, dataResponseRcvd, uplink>>

FetchResponse ==
    /\ dataResponseRcvd
    /\ dataResponseRcvd' = FALSE
    /\ UNCHANGED <<protocolState, remoteData, dataField, commands, linkVars>>

Callback(n) == \/ ReceiveDamaged(n) \/ ReceiveData(n) \/ ReceiveAcceptance(n)
               \/ ReceiveAbandon(n) \/ ReceiveResponse(n) \/ ReceiveStrayAck(n)

BaseNext == FetchResponse \/ \E n \in Node : Callback(n) \/ SendCommand(n)

=============================================================================
