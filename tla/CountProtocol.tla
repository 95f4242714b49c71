---------------------------- MODULE CountProtocol ----------------------------
(***************************************************************************)
(* The nodes, the base station and the network between them: how a count   *)
(* of pulses gets from the node that counted them into the data file.      *)
(***************************************************************************)
EXTENDS NodeFirmware, BaseStation

vars == <<nodeVars, baseVars, linkVars>>

Init == LinkInit /\ NodeInit /\ BaseInit

Next == \/ NodeNext /\ UNCHANGED baseVars
        \/ BaseNext /\ UNCHANGED nodeVars

Spec == Init /\ [][Next]_vars

(* The processor runs, its watchdog timer ticks, and the base station's    *)
(* callbacks are called for what arrives.  The network owes nothing.       *)
Fairness == \A n \in Node : /\ WF_vars(Main(n) /\ UNCHANGED baseVars)
                            /\ WF_vars(WdtISR(n) /\ UNCHANGED baseVars)
                            /\ WF_vars(Callback(n) /\ UNCHANGED nodeVars)

FairSpec == Spec /\ Fairness

-----------------------------------------------------------------------------
TypeOK == LinkTypeOK /\ NodeTypeOK /\ BaseTypeOK

(* counter -= lastCount never wraps below zero: from the start of a cycle  *)
(* to the subtraction lastCount is at most the counter main loads.         *)
SubtractionInRange ==
    \A n \in Node : /\ lastCount[n] <= counter[n]
                    /\ At(n, "store") => lastCount[n] <= register[n]

(* A cycle ends, in success or in a soft reset, whatever the network       *)
(* loses: no answer, late frame or held repeat keeps the node in it.       *)
EveryCycleEnds == \A n \in Node : At(n, "stage") ~> pc[n] \in {"settle", "boot"}

(* Every node keeps starting cycles: no order of watchdog ticks, pulses,   *)
(* commands and resets lets the permission to send be lost for good.       *)
KeepsReporting == \A n \in Node : []<>At(n, "stage")

(* "Store data field aside for later recording": the count recorded for a  *)
(* node is the one it sent.                                                *)
RecordsOwnCount ==
    [][\A n \in Node : ReceiveAcceptance(n) => Recorded(n) = remoteData[n]]_vars

=============================================================================
