------------------------------ MODULE NodeTable ------------------------------
(***************************************************************************)
(* The base station's node table, its libxbee connections and its node     *)
(* file, from XBee-acqcontrol/xbee-acqcontrol.cpp, with the clients that   *)
(* work on the table through the TCP port.  nodeIDCallback adds and        *)
(* refreshes rows, command_handler adds, deletes and reconnects them, and  *)
(* a restart reads the table back from the file.  The three connections of *)
(* a row are opened and closed together and stand as one here.  Callbacks  *)
(* run in a thread of libxbee, beside main and without a lock; while main  *)
(* probes for nodes it calls nodeIDCallback itself.  The mark that a row   *)
(* is valid, which data and the command V also change, decides nothing and *)
(* is left out.                                                            *)
(***************************************************************************)
EXTENDS Integers, FiniteSets, SequencesExt

CONSTANTS Address,       \* the serial numbers of the nodes
          None,          \* no address, no connection
          MaxNodes,      \* MAXNODES
          Client,        \* programs connected to the TCP port
          Commands,      \* the commands they send
          MaxMishaps     \* bound: restarts, and what the table suffers from

ASSUME TableAssumption == /\ None \notin Address /\ MaxNodes \in Nat \ {0}
                          /\ Commands \subseteq {"D", "Q", "E", "X"}
                          /\ MaxMishaps \in Nat

VARIABLES nodeInfo,      \* the rows, those above numberNodes included
          numberNodes,   \* rows in use
          nodeFile,      \* the lines of the node file
          serving,       \* main serves the clients; otherwise it probes
          listening,     \* the identify connection is open, with its callback
          found,         \* per thread: the callback, or the command of main,
                         \* that is at work, and its row
          view,          \* per client: the addresses its table shows
          tableLength,   \* per client: the rows it was told of
          outdated,      \* clients whose table is from before a deletion
          blamed,        \* what has happened that the table suffers from
          mishaps        \* what the bound counts

clientVars == <<view, tableLength, outdated>>
mainVars == <<serving, listening>>
vars == <<nodeInfo, numberNodes, nodeFile, mainVars, found, clientVars, blamed, mishaps>>

(* The rows that the code can name.  The array ends with row MaxNodes - 1; *)
(* the two above stand for what lies behind it.                            *)
Rows == 0..(MaxNodes + 1)

(* A node identifier is blank until an operator sets it, and a blank one   *)
(* is written to the file as blanks.                                       *)
Entry == [addr : Address \cup {None}, blank : BOOLEAN,
          con : Address \cup {None}]

Line == [addr : Address \cup {None}, blank : BOOLEAN]

Cleared == [addr |-> None, blank |-> TRUE, con |-> None]

Thread == {"main", "libxbee"}

Idle == [addr |-> None, row |-> 0, kind |-> "none"]

Init == /\ nodeInfo = [r \in Rows |-> Cleared]
        /\ numberNodes = 0
        /\ nodeFile = <<>>
        /\ serving = FALSE /\ listening = FALSE
        /\ found = [t \in Thread |-> Idle]
        /\ view = [c \in Client |-> <<>>]
        /\ tableLength = [c \in Client |-> 0]
        /\ outdated = {} /\ blamed = {}
        /\ mishaps = 0

InUse == 0..(numberNodes - 1)

SetRow(r, entry) == nodeInfo' = [nodeInfo EXCEPT ![r] = entry]

(* The first row of the address, or numberNodes when there is none.        *)
findRowBy64BitAddress(a) ==
    LET Hits == {r \in InUse : nodeInfo[r].addr = a}
    IN  IF Hits = {} THEN IF numberNodes < 0 THEN 0 ELSE numberNodes
                     ELSE CHOOSE r \in Hits : \A s \in Hits : r <= s

Connected(entry, open) == [entry EXCEPT !.con = IF open THEN entry.addr ELSE None]

(* A connection that is there is left alone; opening one can fail.         *)
Opened(entry) == IF entry.con # None THEN {entry}
                 ELSE {Connected(entry, open) : open \in BOOLEAN}

Closed(entry) == [entry EXCEPT !.con = None]

-----------------------------------------------------------------------------
(* "overlapped": a row is looked up while main is within a deletion or the *)
(* making of an entry, or main begins one, or a new instance, while a node *)
(* that has identified itself is being entered; "unwritten": the rewriting *)
(* of the node file failed; "stale": a client named a row by a table from  *)
(* before another client's deletion.                                       *)
Blame(what) == /\ what # {} => mishaps < MaxMishaps
               /\ mishaps' = IF what = {} THEN mishaps ELSE mishaps + 1
               /\ blamed' = blamed \cup what

(* nodeIDCallback: an answer to nodeProbe, or what the node sends by       *)
(* itself, which takes the identify connection.                            *)
Identifies(t) == IF t = "main" THEN ~serving ELSE listening

Changing == found["main"].kind \in {"delete", "enter"}

(* It looks up its row, and uses it afterwards.  It is dropped when the    *)
(* table is full, but the test for that is against MAXNODES, a row that is *)
(* not there.                                                              *)
IdentifyBegin(t, a) ==
    /\ Identifies(t) /\ found[t] = Idle
    /\ findRowBy64BitAddress(a) <= MaxNodes
    /\ found' = [found EXCEPT ![t] = [addr |-> a, row |-> findRowBy64BitAddress(a),
                                      kind |-> "identify"]]
    /\ Blame(IF Changing THEN {"overlapped"} ELSE {})
    /\ UNCHANGED <<nodeInfo, numberNodes, nodeFile, mainVars, clientVars>>

Ends(t, kind) == found[t].kind = kind /\ found' = [found EXCEPT ![t] = Idle]

(* A line that cannot be written is not noticed.                           *)
IdentifyEnd(t) ==
    /\ Ends(t, "identify")
    /\ \E blank \in BOOLEAN :
         LET row == found[t].row
             new == row = numberNodes
             kept == [nodeInfo[row] EXCEPT !.addr = found[t].addr, !.blank = blank]
         IN  /\ \E entry \in Opened(Closed(kept)) : SetRow(row, entry)
             /\ numberNodes' = IF new THEN numberNodes + 1 ELSE numberNodes
             /\ \/ new /\ nodeFile' = Append(nodeFile, [addr |-> found[t].addr, blank |-> blank])
                \/ UNCHANGED nodeFile
    /\ UNCHANGED <<mainVars, clientVars, blamed, mishaps>>

Callback == \E t \in Thread : \/ \E a \in Address : IdentifyBegin(t, a)
                              \/ IdentifyEnd(t)

(* The identify connection is among them; one that it leaves open ends     *)
(* with the instance.                                                      *)
closeGlobalConnections == listening' = FALSE

(* The identify connection is opened before the probe.                     *)
NewInstanceListening == serving' = FALSE /\ listening' = TRUE

(* setupXbeeInstance makes a new instance, without global connections.     *)
(* The remote connections are opened on it, and then main probes.          *)
NewInstance == serving' = FALSE /\ closeGlobalConnections

(* openGlobalConnections, which gives up at the first failure: the base    *)
(* station then hears of no new node until it is started again.            *)
openGlobalConnections ==
    /\ ~serving /\ found["main"] = Idle
    /\ serving' = TRUE
    /\ listening' \in BOOLEAN
    /\ UNCHANGED <<nodeInfo, numberNodes, nodeFile, found, clientVars, blamed, mishaps>>

-----------------------------------------------------------------------------
(* The main thread, one request after the other.                           *)
Free == serving /\ found["main"] = Idle

(* Without the test of the row.                                            *)
AcceptedAny(row) == Free

(* command_handler refuses a row above numberNodes, and nothing else.      *)
Accepted(row) == Free /\ row <= numberNodes

(* 'N': a client begins to refresh its table.                              *)
CommandN(c) ==
    /\ Accepted(0)
    /\ tableLength' = [tableLength EXCEPT ![c] = numberNodes]
    /\ view' = [view EXCEPT ![c] = <<>>]
    /\ outdated' = outdated \ {c}
    /\ UNCHANGED <<nodeInfo, numberNodes, nodeFile, mainVars, found, blamed, mishaps>>

Fetching(c) == Len(view[c]) < tableLength[c]

(* 'I': it asks for the next row; a refused one stays empty.               *)
CommandI(c) ==
    /\ Fetching(c) /\ Free
    /\ LET row == Len(view[c])
       IN  view' = [view EXCEPT ![c] = Append(@,
                        IF Accepted(row) THEN nodeInfo[row].addr ELSE None)]
    /\ UNCHANGED <<nodeInfo, numberNodes, nodeFile, mainVars, found, tableLength, outdated>>
    /\ UNCHANGED <<blamed, mishaps>>

(* A client names the row in which its table shows the node.               *)
Names(c, cmd, row) == /\ cmd \in Commands /\ ~Fetching(c)
                      /\ row + 1 \in DOMAIN view[c] /\ Accepted(row)

Overlapped == IF found["libxbee"] # Idle THEN {"overlapped"} ELSE {}

Stale(c) == IF c \in outdated THEN {"stale"} ELSE {}

Work(kind, row, a) == found' = [found EXCEPT !["main"] = [addr |-> a, row |-> row, kind |-> kind]]

(* The client reads the table again, with 'N' first.                       *)
Resync(c) == /\ view' = [view EXCEPT ![c] = <<>>]
             /\ tableLength' = [tableLength EXCEPT ![c] = 0]
             /\ outdated' = Client \ {c}

(* 'D': deleteNodeTableRow closes the connections of the row and counts it *)
(* off.  The address in found is the one that the client was shown.        *)
CommandD(c, row) ==
    /\ Names(c, "D", row)
    /\ SetRow(row, Closed(nodeInfo[row]))
    /\ numberNodes' = numberNodes - 1
    /\ Work("delete", row, view[c][row + 1])
    /\ Resync(c)
    /\ Blame(Overlapped \cup Stale(c))
    /\ UNCHANGED <<nodeFile, mainVars>>

Shifted(row, r) == IF r >= row /\ r < numberNodes THEN nodeInfo[r + 1] ELSE nodeInfo[r]

(* deleteNodeTableRow with the connection of the defunct row left in it.   *)
CompressedKept(row) == [r \in Rows |-> Shifted(row, r)]

(* deleteNodeTableRow shifting from the row after the one named.           *)
CompressedNext(row) ==
    [r \in Rows |-> IF r = numberNodes THEN [Shifted(row + 1, r) EXCEPT !.con = None]
                                       ELSE Shifted(row + 1, r)]

(* The row above the last one keeps all its fields but the connections.    *)
CompressedFrom(row) ==
    [r \in Rows |-> IF r = numberNodes THEN [Shifted(row, r) EXCEPT !.con = None]
                                       ELSE Shifted(row, r)]

LineOf(entry) == [addr |-> entry.addr, blank |-> entry.blank]

(* The rows in use, of the table as it is after the change.                *)
Written == [i \in 1..numberNodes |-> LineOf(nodeInfo'[i - 1])]

(* The file is left as it is.                                              *)
NoFileWritten == UNCHANGED <<nodeFile, blamed, mishaps>>

(* It gives up when the file cannot be emptied; how much of what it writes *)
(* then gets into the file is not looked at.                               *)
writeNodeFile ==
    \/ /\ \E n \in 0..Len(Written) : nodeFile' = SubSeq(Written, 1, n)
       /\ UNCHANGED <<blamed, mishaps>>
    \/ UNCHANGED nodeFile /\ Blame({"unwritten"})

(* The rest of it: the rows above move down, and the file is written.      *)
deleteNodeTableRow ==
    /\ Ends("main", "delete")
    /\ nodeInfo' = CompressedFrom(found["main"].row)
    /\ writeNodeFile
    /\ UNCHANGED <<numberNodes, mainVars, clientVars>>

(* 'Q': the connections of the row are closed and opened again.            *)
CommandQ(c, row) ==
    /\ Names(c, "Q", row)
    /\ \E entry \in Opened(Closed(nodeInfo[row])) : SetRow(row, entry)
    /\ Blame(Stale(c))
    /\ UNCHANGED <<numberNodes, nodeFile, mainVars, found, clientVars>>

(* 'E': a new entry takes over what the row last held.  The row byte of    *)
(* the command is zero.                                                    *)
CommandE(c, a) ==
    /\ "E" \in Commands /\ ~Fetching(c) /\ Accepted(0)
    /\ findRowBy64BitAddress(a) = numberNodes
    /\ numberNodes <= MaxNodes
    /\ \E entry \in Opened([nodeInfo[numberNodes] EXCEPT !.addr = a]) :
           SetRow(numberNodes, entry)
    /\ Work("enter", numberNodes, a)
    /\ Blame(Overlapped)
    /\ UNCHANGED <<numberNodes, nodeFile, mainVars, clientVars>>

(* Then it counts.                                                         *)
CommandEEnds ==
    /\ Ends("main", "enter")
    /\ numberNodes' = numberNodes + 1
    /\ UNCHANGED <<nodeInfo, nodeFile, mainVars, clientVars, blamed, mishaps>>

(* 'X': every connection is closed, and opened again on a new instance.    *)
CommandX ==
    /\ "X" \in Commands /\ Accepted(0)
    /\ NewInstance
    /\ \E open \in SUBSET InUse :
           nodeInfo' = [r \in Rows |-> IF r \in InUse THEN Connected(nodeInfo[r], r \in open)
                                       ELSE nodeInfo[r]]
    /\ Blame(Overlapped)
    /\ UNCHANGED <<numberNodes, nodeFile, found, clientVars>>

Command(c) ==
    \/ CommandN(c) \/ CommandI(c)
    \/ \E row \in Rows : CommandD(c, row) \/ CommandQ(c, row)
    \/ \E a \in Address : CommandE(c, a)

-----------------------------------------------------------------------------
(* fillNodeTable skips the blanks of a blank identifier and takes the next *)
(* field for it.  Every later field is read one place too early, and the   *)
(* last one from the line that follows, the rest of which is skipped: a    *)
(* line makes a row unless the line before made one and is blank.          *)
RowLines ==
    CHOOSE S \in SUBSET DOMAIN nodeFile :
        \A i \in DOMAIN nodeFile : i \in S <=> ~(i - 1 \in S /\ nodeFile[i - 1].blank)

(* It stops when the table is full, one row too late.                      *)
LinesRead == {i \in RowLines : Cardinality({j \in RowLines : j < i}) <= MaxNodes}

(* The rows are filled in the order of the lines.                          *)
InOrder(S) == {line \in Bijection(0..(Cardinality(S) - 1), S) :
                  \A r, s \in DOMAIN line : r < s => line[r] < line[s]}

(* The process ends and is started again; the clients connect again.       *)
Restart ==
    /\ mishaps < MaxMishaps
    /\ mishaps' = mishaps + 1
    /\ numberNodes' = Cardinality(LinesRead)
    /\ \E line \in InOrder(LinesRead) :
         LET Row(r) == [Cleared EXCEPT !.addr = nodeFile[line[r]].addr, !.blank = FALSE]
         IN  \E open \in SUBSET DOMAIN line :
                 nodeInfo' = [r \in Rows |-> IF r \in DOMAIN line THEN Connected(Row(r), r \in open)
                                             ELSE Cleared]
    /\ NewInstance
    /\ found' = [t \in Thread |-> Idle]
    /\ view' = [c \in Client |-> <<>>] /\ tableLength' = [c \in Client |-> 0]
    /\ outdated' = {}
    /\ UNCHANGED <<nodeFile, blamed>>

Next == \/ Callback \/ openGlobalConnections
        \/ \E c \in Client : Command(c)
        \/ deleteNodeTableRow \/ CommandEEnds \/ CommandX \/ Restart

Spec == Init /\ [][Next]_vars

-----------------------------------------------------------------------------
Deleting == found["main"].kind = "delete"

Registered == {nodeInfo[r].addr : r \in InUse}

Spared(what) == what \cap blamed = {}

(* However callbacks and commands interleave and whatever rows clients     *)
(* name, the count of the rows stays within one of none and two of all,    *)
(* and what is looked up or named is a row of the model.                   *)
TableTypeOK ==
    /\ nodeInfo \in [Rows -> Entry]
    /\ numberNodes \in -1..(MaxNodes + 2)
    /\ nodeFile \in Seq(Line)
    /\ {serving, listening} \subseteq BOOLEAN
    /\ \A t \in Thread : found[t].row \in Rows
    /\ \A c \in Client : /\ view[c] \in Seq(Address \cup {None})
                         /\ tableLength[c] \in 0..(MaxNodes + 2)
                         /\ Len(view[c]) <= tableLength[c]
    /\ outdated \subseteq Client /\ blamed \subseteq {"overlapped", "unwritten", "stale"}
    /\ mishaps \in 0..MaxMishaps

(* "Check if the serial number already exists.  If not, then it is a new   *)
(* node": no node has two rows, in whatever order nodes identify           *)
(* themselves, operators add and delete them and the base restarts, as     *)
(* long as no node is entered in the middle of a command that changes the  *)
(* table, or the other way round, and the file could be written.           *)
DistinctRows ==
    Spared({"overlapped", "unwritten"}) =>
        \A r, s \in InUse : nodeInfo[r].addr = nodeInfo[s].addr => r = s

(* What the base sends to the node of a row goes to that node: a new row   *)
(* never starts with the connection of the node that had it before, unless *)
(* a client worked on a row that was not there any more or a node was      *)
(* entered in the middle of a change.                                      *)
ConnectionOfRow ==
    Spared({"overlapped", "stale"}) =>
        \A r \in InUse : nodeInfo[r].con \in {None, nodeInfo[r].addr}

(* A node that an operator has deleted does not come back with a restart:  *)
(* once the deletion is done, what fillNodeTable would read from the file  *)
(* is in the table, unless the file could not be written or a node was     *)
(* entered in the middle of a change.                                      *)
DeletedForGood ==
    Spared({"overlapped", "unwritten"}) /\ ~Deleting =>
        {nodeFile[i].addr : i \in LinesRead} \subseteq Registered

(* "Delete the selected entry and compress the table": a deletion removes  *)
(* the node that the client saw in the row, and no other, whether or not   *)
(* another client has changed the table, unless it deleted from it.        *)
DeletesNamed ==
    [][deleteNodeTableRow /\ Spared({"overlapped", "stale", "unwritten"}) =>
          Registered' = {nodeInfo[r].addr : r \in 0..numberNodes} \ {found["main"].addr}]_vars

=============================================================================
