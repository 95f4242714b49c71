----------------------------- MODULE CountLedger -----------------------------
(***************************************************************************)
(* CountProtocol with an account of what became of the pulses.  The        *)
(* history variables are written and never read by the system; together    *)
(* with the bound on the number of cycles they relate the count a node     *)
(* clears to the count the base station records, which no single program   *)
(* can see.                                                                *)
(***************************************************************************)
EXTENDS CountProtocol, Integers

CONSTANTS MaxPulses,     \* bound: pulses at each node's input
          MaxCycles      \* bound: transmission cycles of each node

ASSUME LedgerAssumption == MaxPulses \in Nat /\ MaxCycles \in Nat

VARIABLES pulses,        \* pulses the interrupt routine has counted
          cleared,       \* sum of the counts the node took off its counter
          recorded,      \* sum of the counts in the data file for the node
          earned,        \* ACKs the base sent less the cycles they completed
          cycles,        \* cycles the node has begun
          faults         \* what has gone wrong for the node so far

ledgerVars == <<pulses, cleared, recorded, earned, cycles, faults>>

Fault == {"abandoned",   \* the node gave up a cycle and sent an X
          "dataLost",    \* a data message was lost
          "confirmLost", \* the A that ends a cycle was lost
          "damaged",     \* a data message arrived damaged
          "command",     \* an operator sent the node a command
          "reset"}       \* the node lost power or its watchdog reset it

LedgerTypeOK == /\ TypeOK
                /\ pulses \in [Node -> Nat]
                /\ cleared \in [Node -> Nat]
                /\ recorded \in [Node -> Nat]
                /\ earned \in [Node -> Int]
                /\ cycles \in [Node -> Nat]
                /\ faults \in [Node -> SUBSET Fault]

LedgerInit == /\ Init
              /\ pulses = [n \in Node |-> 0]
              /\ cleared = [n \in Node |-> 0]
              /\ recorded = [n \in Node |-> 0]
              /\ earned = [n \in Node |-> 0]
              /\ cycles = [n \in Node |-> 0]
              /\ faults = [n \in Node |-> {}]

Add(account, n, amount) == [account EXCEPT ![n] = @ + amount]

Blame(n, fault) == faults' = [faults EXCEPT ![n] = @ \cup {fault}]

(* The step sent a message that the network lost.                          *)
LostUp(n, fault) == IF uplink' = uplink THEN Blame(n, fault) ELSE UNCHANGED faults

(* The actions the ledger has an entry for; every other one leaves it.     *)
LedgerPulse(n) == /\ CountISR(n) /\ pulses[n] < MaxPulses
                  /\ pulses' = Add(pulses, n, 1)
                  /\ UNCHANGED <<cleared, recorded, earned, cycles, faults>>

LedgerBegin(n) == /\ BeginCycle(n) /\ cycles[n] < MaxCycles
                  /\ cycles' = Add(cycles, n, 1)
                  /\ UNCHANGED <<pulses, cleared, recorded, earned, faults>>

LedgerAbandon(n) == /\ Abandon(n)
                    /\ Blame(n, "abandoned")
                    /\ UNCHANGED <<pulses, cleared, recorded, earned, cycles>>

LedgerAccept(n) == /\ Accept(n)
                   /\ LostUp(n, "confirmLost")
                   /\ earned' = Add(earned, n, -1)
                   /\ UNCHANGED <<pulses, cleared, recorded, cycles>>

LedgerTransmit(n) == /\ Transmit(n)
                     /\ IF Entered(cycle[n]).retryEnable THEN LostUp(n, "dataLost")
                                                        ELSE UNCHANGED faults
                     /\ UNCHANGED <<pulses, cleared, recorded, earned, cycles>>

LedgerStore(n) == /\ StoreCount(n)
                  /\ cleared' = Add(cleared, n, lastCount[n])
                  /\ UNCHANGED <<pulses, recorded, earned, cycles, faults>>

LedgerReset(n) == /\ HardReset(n)
                  /\ Blame(n, "reset")
                  /\ UNCHANGED <<pulses, cleared, recorded, earned, cycles>>

LedgerData(n) == /\ ReceiveData(n)
                 /\ earned' = Add(earned, n, 1)
                 /\ UNCHANGED <<pulses, cleared, recorded, cycles, faults>>

LedgerDamaged(n) == /\ ReceiveDamaged(n)
                    /\ Blame(n, "damaged")
                    /\ UNCHANGED <<pulses, cleared, recorded, earned, cycles>>

LedgerRecord(n) == /\ ReceiveAcceptance(n)
                   /\ recorded' = Add(recorded, n, Recorded(n))
                   /\ UNCHANGED <<pulses, cleared, earned, cycles, faults>>

LedgerCommand(n) == /\ SendCommand(n)
                    /\ Blame(n, "command")
                    /\ UNCHANGED <<pulses, cleared, recorded, earned, cycles>>

NodeUnlisted(n) == \/ WdtISR(n) \/ Boot(n) \/ BeginPoll(n) \/ Settle(n) \/ Sleep(n)
                   \/ QueryAssociation(n) \/ QueryBattery(n)
                   \/ LoadCount(n) \/ Hear(n)

BaseUnlisted(n) == ReceiveAbandon(n) \/ ReceiveResponse(n) \/ ReceiveStrayAck(n)

LedgerNext ==
    \/ \E n \in Node :
          \/ LedgerPulse(n) \/ LedgerBegin(n) \/ LedgerTransmit(n) \/ LedgerAbandon(n)
          \/ LedgerAccept(n) \/ LedgerStore(n) \/ LedgerReset(n)
          \/ NodeUnlisted(n) /\ UNCHANGED ledgerVars
       /\ UNCHANGED baseVars
    \/ \E n \in Node :
          \/ LedgerData(n) \/ LedgerDamaged(n) \/ LedgerRecord(n) \/ LedgerCommand(n)
          \/ BaseUnlisted(n) /\ UNCHANGED ledgerVars
       /\ UNCHANGED nodeVars
    \/ FetchResponse /\ UNCHANGED <<nodeVars, ledgerVars>>

LedgerSpec == LedgerInit /\ [][LedgerNext]_<<vars, ledgerVars>>

-----------------------------------------------------------------------------
Blameless(n, kinds) == faults[n] \cap kinds = {}

(* Between the A a node sends and the end of its subtraction.              *)
Clearing(n) == pc[n] \in {"load", "store"}

(* No pulse is reported or held that was not counted: what the node still  *)
(* holds and what it has taken off never exceed the pulses at its input.   *)
NoPhantomCount == \A n \in Node : counter[n] + cleared[n] <= pulses[n]

(* What the base station set aside as the count of a node was counted by   *)
(* that node, whatever else the network, operators and resets did.         *)
SavedCountGenuine == \A n \in Node : remoteData[n] <= pulses[n]

(* A node takes a count off only on an ACK that no earlier cycle has used: *)
(* NAKs, commands, failed deliveries and frames from its own XBee never    *)
(* pass for one, and one ACK never completes two cycles.                   *)
NoUnearnedClear == \A n \in Node : earned[n] >= 0

(* Unless a node gave up a cycle, took a command or was reset, the base    *)
(* never records more than the node took off its counter: late, repeated,  *)
(* damaged and lost messages and stale ACKs never count a pulse twice.     *)
RecordedAtMostCleared ==
    \A n \in Node :
        Blameless(n, {"abandoned", "command", "reset"}) =>
            recorded[n] <= cleared[n] + (IF Clearing(n) THEN lastCount[n] ELSE 0)

Confirming(n) == \E i \in 1..Len(uplink[n]) : uplink[n][i].cmd = "A"

(* If in addition everything the node sent arrived undamaged, then when no *)
(* A is on its way the file holds exactly what the node took off, however  *)
(* many ACKs and NAKs were lost and however late anything came.            *)
ExactWhenUndisturbed ==
    \A n \in Node :
        Blameless(n, Fault) /\ ~Confirming(n) /\ ~Clearing(n) =>
            recorded[n] = cleared[n]

=============================================================================
