---------------------------- MODULE ConfigDialog ----------------------------
(***************************************************************************)
(* The window that configures the XBee of a node that does not sleep:      *)
(* XBeeConfigWidget of XBee-GUI/xbee-dialog.cpp.  It shows parameters of   *)
(* the XBee, lets the operator edit them, sends those it takes to have     *)
(* changed and has them all saved.                                         *)
(*                                                                         *)
(* Its readXbeeProcess refuses the reply to every query for an answer, so  *)
(* that each of its sendAtCommand ends with a timeout, whatever became of  *)
(* the command: a refresh takes the branches of a failure only, and the    *)
(* write does not look at results.  Each kind of widget is represented by  *)
(* one parameter.                                                          *)
(***************************************************************************)
EXTENDS Integers, SequencesExt

CONSTANTS Values,        \* what an operator can enter, what an index can be
          Numbers,       \* those an operator enters where a number is wanted
          QueueLimit,    \* bound: commands on their way to the node
          MaxFaults      \* bound: commands lost and power failures

ASSUME DialogAssumption == /\ Values \subseteq Nat /\ 0 \in Values /\ Numbers \subseteq Values
                           /\ {QueueLimit, MaxFaults} \subseteq Nat

(* In the order of the write: ID and NI are texts that a failed refresh    *)
(* replaces by "Error"; JV has a check box; SP, SN and WH are texts that a *)
(* failed refresh leaves alone; D0 to D7, P0 to P2 and JN are compared     *)
(* with the index read last; IR with the period read or written last.      *)
Parameters == <<"ID", "JV", "SP", "D0", "IR">>

(* In the order of the refresh, with OP to CH, which are texts that nobody *)
(* edits, and IC and PR, whose check boxes are never written.              *)
Queries == <<"ID", "JV", "SP", "CH", "D0", "IR", "PR">>

Param == Range(Parameters)
Shown == Range(Queries)
Text == {"ID", "SP"}     \* the widgets that a failed refresh does not disable

VARIABLES pc, at,                      \* the window, and where it is in a pass
          shown, modified, cached,     \* its widgets, and the Index variables
          changes,
          toNode, ram, perm,           \* the XBee: its settings and saved ones
          faults,
          sent, clean,                 \* ghosts: of the last write pass
          wants, edited, touched       \* what the operator has entered

windowVars == <<pc, at, shown, modified, cached, changes>>
nodeVars == <<ram, perm>>
ghosts == <<sent, clean, wants, edited, touched>>
vars == <<windowVars, toNode, nodeVars, faults, ghosts>>

Original == -1           \* what the XBee had
Error == -2              \* the text "Error", and what is made of it
None == -3

Init == /\ pc = "closed" /\ at = 1
        /\ shown = [p \in Shown |-> 0] /\ modified = [p \in Text |-> FALSE]
        /\ cached = [p \in Param \ Text |-> 0] /\ changes = FALSE
        /\ toNode = <<>>
        /\ ram = [p \in Param |-> Original] /\ perm = ram
        /\ faults = 0
        /\ sent = [p \in Param |-> None] /\ clean = TRUE
        /\ wants = [p \in Text |-> None] /\ edited = {}
        /\ touched = {}

-----------------------------------------------------------------------------
(* The buttons of the main window that open a window for an XBee, and the  *)
(* signal that it is closed, with which its row can be chosen again.       *)
on_configButton_clicked == pc = "closed" /\ pc' = "refresh"

configDialogDone == pc' = "closed"

(* The constructor: empty widgets, index variables that nobody initialises *)
(* and a refresh.                                                          *)
Open ==
    /\ on_configButton_clicked
    /\ at' = 1
    /\ shown' = [p \in Shown |-> 0] /\ modified' = [p \in Text |-> FALSE]
    /\ cached' \in [Param \ Text -> Values]
    /\ wants' = [p \in Text |-> None]
    /\ UNCHANGED <<changes, toNode, nodeVars, faults, sent, clean, edited, touched>>

(* accept, of a node that does not sleep, only tells the main window.      *)
Close == /\ pc = "idle" /\ configDialogDone
         /\ UNCHANGED <<at, shown, modified, cached, changes, toNode, nodeVars, faults, ghosts>>

(* The operator can type at any time, also while a pass waits.  That the   *)
(* window is not yet shown in its first refresh is not told apart.         *)
Edit(p, v) ==
    /\ pc # "closed" /\ v \in (IF p = "SP" THEN Numbers ELSE Values)
    /\ shown' = [shown EXCEPT ![p] = v]
    /\ modified' = [modified EXCEPT ![p] = TRUE]
    /\ touched' = touched \cup {p}
    /\ wants' = [wants EXCEPT ![p] = v]
    /\ edited' = edited \cup {p}
    /\ UNCHANGED <<pc, at, cached, changes, toNode, nodeVars, faults, sent, clean>>

Begins(pass) == pc = "idle" /\ pc' = pass /\ at' = 1

BeginRefresh == /\ Begins("refresh")
                /\ UNCHANGED <<shown, modified, cached, changes, toNode, nodeVars, faults, ghosts>>

(* Qt's setText clears the mark.                                           *)
AfterError(p) == FALSE

(* The check box is taken as it is before the query, not read before.      *)
VerifyKept == cached["JV"]

Verify == shown["JV"]

(* Check boxes and indices are disabled, and what they show stays.         *)
Failed(p) == IF p \in {"JV", "SP", "D0", "IR", "PR"} THEN shown[p] ELSE Error

(* A query of on_refreshDisplay_clicked, of which no answer is noticed.    *)
Refresh ==
    /\ pc = "refresh" /\ at <= Len(Queries)
    /\ at' = at + 1
    /\ LET p == Queries[at]
       IN  /\ shown' = [shown EXCEPT ![p] = Failed(p)]
           /\ modified' = IF p = "ID" THEN [modified EXCEPT ![p] = AfterError(p)] ELSE modified
           /\ cached' = IF p = "JV" THEN [cached EXCEPT ![p] = Verify] ELSE cached
           /\ wants' = IF p = "ID" THEN [wants EXCEPT ![p] = None] ELSE wants
    /\ UNCHANGED <<pc, changes, toNode, nodeVars, faults, sent, clean, edited, touched>>

BeginWrite ==
    /\ Begins("write")
    /\ changes' = FALSE
    /\ sent' = [p \in Param |-> None] /\ edited' = {} /\ clean' = TRUE
    /\ UNCHANGED <<shown, modified, cached, toNode, nodeVars, faults, wants, touched>>

(* A command gets lost on the way, or waits behind those before it.        *)
Sends(command) ==
    \/ /\ Len(toNode) < QueueLimit
       /\ toNode' = Append(toNode, command)
       /\ UNCHANGED <<faults, clean>>
    \/ /\ faults < MaxFaults /\ faults' = faults + 1
       /\ clean' = (clean /\ pc # "write")
       /\ UNCHANGED toNode

Set(p, v) == [name |-> p, value |-> v]
Plain(name) == [name |-> name, value |-> None]

Differs(p) == IF p \in Text THEN modified[p] ELSE cached[p] # shown[p]

(* The last comparison decides.                                            *)
ChangesLast(p) == Differs(p)

Changes(p) == changes \/ Differs(p)

(* What has been sent is not sent again.                                   *)
AfterSendCleared(p) == FALSE

AfterSend(p) == modified[p]

(* One parameter of on_writeValuesButton_clicked.  The period is taken for *)
(* written before it is sent, an index not even afterwards.                *)
Write ==
    /\ pc = "write" /\ at <= Len(Parameters)
    /\ at' = at + 1
    /\ LET p == Parameters[at]
       IN  /\ changes' = Changes(p)
           /\ IF Differs(p)
              THEN /\ Sends(Set(p, shown[p]))
                   /\ sent' = [sent EXCEPT ![p] = shown[p]]
                   /\ edited' = edited \ {p}
                   /\ modified' = IF p \in Text THEN [modified EXCEPT ![p] = AfterSend(p)]
                                  ELSE modified
                   /\ cached' = IF p = "IR" THEN [cached EXCEPT ![p] = shown[p]] ELSE cached
              ELSE UNCHANGED <<toNode, faults, clean, sent, edited, modified, cached>>
    /\ UNCHANGED <<pc, shown, nodeVars, wants, touched>>

(* Then WR, if there were changes.                                         *)
EndPass ==
    /\ at > IF pc = "refresh" THEN Len(Queries) ELSE Len(Parameters)
    /\ pc \in {"refresh", "write"}
    /\ pc' = "idle" /\ at' = 1
    /\ IF pc = "write" /\ changes THEN Sends(Plain("WR"))
       ELSE UNCHANGED <<toNode, faults, clean>>
    /\ UNCHANGED <<shown, modified, cached, changes, nodeVars, sent, wants, edited, touched>>

(* FR, the button for a software reset.                                    *)
SoftReset == /\ pc = "idle"
             /\ Sends(Plain("FR"))
             /\ UNCHANGED <<windowVars, nodeVars, sent, wants, edited, touched>>

-----------------------------------------------------------------------------
NodeTakes ==
    /\ toNode # <<>>
    /\ toNode' = Tail(toNode)
    /\ LET command == Head(toNode)
       IN  /\ ram' = CASE command.name = "FR" -> perm
                       [] command.name = "WR" -> ram
                       [] OTHER -> [ram EXCEPT ![command.name] = command.value]
           /\ perm' = IF command.name = "WR" THEN ram ELSE perm
    /\ UNCHANGED <<windowVars, faults, ghosts>>

(* It comes back with what it has saved.                                   *)
PowerFails ==
    /\ faults < MaxFaults /\ faults' = faults + 1
    /\ ram' = perm
    /\ clean' = (clean /\ pc # "write" /\ toNode = <<>>)
    /\ UNCHANGED <<windowVars, toNode, perm, sent, wants, edited, touched>>

Next == \/ Open \/ Close \/ BeginRefresh \/ Refresh \/ BeginWrite \/ Write \/ EndPass
        \/ SoftReset \/ NodeTakes \/ PowerFails
        \/ \E p \in Text, v \in Values : Edit(p, v)

Spec == Init /\ [][Next]_vars

-----------------------------------------------------------------------------
AtRest == pc \in {"idle", "closed"} /\ toNode = <<>>

(* "write the new value and set in node permanent memory": once the node   *)
(* has taken the commands of a write, all of them, every value that was    *)
(* sent is the parameter's and is its saved one, also after later resets,  *)
(* refreshes and edits, until the next write.                              *)
Saved == AtRest /\ clean =>
             \A p \in Param : sent[p] # None => ram[p] = sent[p] /\ perm[p] = sent[p]

(* "If an entry widget was modified, write the new value": a write of      *)
(* which nothing gets lost makes good for every earlier one that failed,   *)
(* for what the operator has entered stays marked until a refresh replaces *)
(* it.  Also this one holds after later resets.                            *)
Retried ==
    AtRest /\ clean =>
        \A p \in Text \ edited : wants[p] # None => ram[p] = wants[p] /\ perm[p] = wants[p]

(* A refresh that fails, with "Error" in a widget and a check box that was *)
(* never read, and the write passes after it change no text parameter and  *)
(* no channel verification that the operator has not entered.  It is not   *)
(* so for the indices and the period.                                      *)
OnlyEntered == \A p \in Text \cup {"JV"} :
    LET held == {ram[p], perm[p]}
    IN  IF p \in touched THEN held \subseteq Values \cup {Original} ELSE held = {Original}

=============================================================================
