--------------------------- MODULE CommandSession ---------------------------
(***************************************************************************)
(* How an operator's command reaches a node and its answer the operator:   *)
(* sendCommand, sendAtCommand, sendString and readXbeeProcess of the three *)
(* windows of XBee-GUI, and command_handler and the callbacks of           *)
(* XBee-acqcontrol, which keep one flag and one buffer per kind of answer  *)
(* for all nodes and clients.  A callback runs in a thread of libxbee and  *)
(* sets the flag before it fills the buffer; main resets the flag before   *)
(* it reads the buffer; neither locks.                                     *)
(*                                                                         *)
(* The GUI has one thread.  While a window waits in sendCommand it handles *)
(* events, so that a click in another window starts that window's command  *)
(* on top of it, and the first goes on only when the second has ended.     *)
(***************************************************************************)
EXTENDS Naturals, SequencesExt

CONSTANTS Window,        \* windows with a connection to the base station
          Strict,        \* those that accept only the echo of their command
          Kind,          \* "R" and "L", AT commands, "S", strings to the MCU
          Patience,      \* timeout: the queries for an answer, 0 for no limit
          MaxCommands,   \* bound: commands of the operator
          MaxMishaps     \* bound: restarts of the base station, and replies
                         \* that the GUI does not wait for

ASSUME SessionAssumption == /\ Strict \subseteq Window
                            /\ Kind \subseteq {"R", "L", "S"}
                            /\ Patience \in Nat /\ MaxCommands \in Nat
                            /\ MaxMishaps \in Nat

VARIABLES rcvd,          \* base, per kind: remoteATResponseRcvd and the others
          data,          \* base, per kind: the command whose answer it holds
          copying,       \* base: answers whose callback has yet to fill it
          answering,     \* base: the query whose answer main has yet to read
          up,            \* base: it listens
          pending,       \* commands on their way to a node, or their answers
          connected,     \* per window: it has a connection to the base
          request,       \* per window: what it has sent to the base
          reply,         \* per window: what the base has sent to it
          window,        \* per window: where it is in sendAtCommand
          stack,         \* the windows at work, the one that runs last
          comStatus,     \* GUI: "sent" or "received", for all windows
          commands, mishaps,  \* what the bounds count
          handed,        \* per command: times its answer was handed over
          blamed         \* what has happened that answers can get lost by

bufferVars == <<rcvd, data, copying, answering>>
baseVars == <<bufferVars, up, pending>>
lineVars == <<connected, request, reply>>
ghostVars == <<commands, mishaps, handed, blamed>>
vars == <<baseVars, lineVars, window, stack, comStatus, ghostVars>>

Id == 1..MaxCommands
NoId == 0

(* What a buffer holds that was never filled.                              *)
Blank == MaxCommands + 1

(* "command": the reply to the command is awaited; "poll": the reply to a  *)
(* query for its answer.  What an idle window holds of its last command    *)
(* is not looked at again.  What goes over a connection has a kind, too,   *)
(* and is a command or, poll, a query for the answer to one.               *)
AtRest == [pc |-> "idle", kind |-> CHOOSE k \in Kind : TRUE, id |-> NoId,
           response |-> NoId, count |-> 0]

Init == /\ rcvd = [k \in Kind |-> FALSE]
        /\ data = [k \in Kind |-> Blank]
        /\ copying = {} /\ answering = {}
        /\ pending = {} /\ up = TRUE
        /\ connected = [w \in Window |-> TRUE]
        /\ request = [w \in Window |-> <<>>]
        /\ reply = [w \in Window |-> <<>>]
        /\ window = [w \in Window |-> AtRest]
        /\ stack = <<>>
        /\ comStatus = "received"
        /\ commands = 0 /\ mishaps = 0
        /\ handed = [i \in Id |-> 0]
        /\ blamed = {}

-----------------------------------------------------------------------------
(* The base station: command_handler, one request after the other.         *)
(* A receiver takes what has come and looks at the first message only.     *)
Rests(queue) == {SubSeq(queue, n + 1, Len(queue)) : n \in 1..Len(queue)}

Pull(w) == \E rest \in Rests(request[w]) : request' = [request EXCEPT ![w] = rest]

Answer(w, item) == reply' = [reply EXCEPT ![w] = Append(@, item)]

(* 'R', 'L', 'S'.  The status that xbee_conTx returns is not looked at.    *)
HandleCommand(w) ==
    /\ answering = {} /\ Pull(w) /\ ~Head(request[w]).poll
    /\ pending' = pending \cup {Head(request[w])}
    /\ Answer(w, [Head(request[w]) EXCEPT !.id = NoId])
    /\ UNCHANGED <<bufferVars, up, connected, window, stack, comStatus, ghostVars>>

(* One flag and one buffer for all kinds.                                  *)
SlotShared(k) == CHOOSE j \in Kind : TRUE

(* Each kind of answer has a flag and a buffer of its own.                 *)
Slot(k) == k

(* 'r', 'l' and 's' without the reset of the flag.                         *)
FlagAfterKept(k) == rcvd[k]

FlagAfterPoll(k) == FALSE

(* The answers that a callback is filling a buffer with.                   *)
Filling(slot) == {item \in copying : Slot(item.kind) = slot}

Query(w) == answering = {} /\ Pull(w) /\ Head(request[w]).poll

Reply(w, k, id) == Answer(w, [poll |-> TRUE, kind |-> k, id |-> id])

(* 'r', 'l', 's' when there is no answer.                                  *)
PollInVain(w) ==
    /\ Query(w)
    /\ LET k == Head(request[w]).kind IN ~rcvd[Slot(k)] /\ Reply(w, k, NoId)
    /\ UNCHANGED <<bufferVars, up, pending, connected, window, stack, comStatus, ghostVars>>

(* When there is one, or a callback has begun to bring it: first the flag  *)
(* is reset.                                                               *)
HandlePoll(w) ==
    /\ Query(w)
    /\ LET k == Head(request[w]).kind
       IN  /\ rcvd[Slot(k)]
           /\ rcvd' = [rcvd EXCEPT ![Slot(k)] = FlagAfterPoll(Slot(k))]
           /\ answering' = {[window |-> w, kind |-> k]}
           /\ blamed' = IF Filling(Slot(k)) # {} THEN blamed \cup {"torn"} ELSE blamed
    /\ UNCHANGED <<data, copying, up, pending, connected, reply, window, stack, comStatus>>
    /\ UNCHANGED <<commands, mishaps, handed>>

(* A buffer that is being filled is read as it was or as it will be; some  *)
(* of each stands as one or the other.                                     *)
Readable(slot) == {data[slot]} \cup {item.id : item \in Filling(slot)}

(* Then the buffer is read, which keeps what it holds.                     *)
HandOver(w) ==
    /\ \E query \in answering, id \in Id \cup {Blank} :
          /\ query.window = w /\ id \in Readable(Slot(query.kind))
          /\ Reply(w, query.kind, id)
          /\ handed' = [i \in Id |-> IF i = id THEN handed[i] + 1 ELSE handed[i]]
    /\ answering' = {}
    /\ UNCHANGED <<rcvd, data, copying, up, pending, connected, request, window, stack, comStatus>>
    /\ UNCHANGED <<commands, mishaps, blamed>>

(* remoteATCallback, localATCallback, and dataCallback on a 'P': first the *)
(* flag is set.                                                            *)
NodeAnswers(item) ==
    /\ item \in pending /\ up
    /\ pending' = pending \ {item}
    /\ copying' = copying \cup {item}
    /\ LET slot == Slot(item.kind)
       IN  /\ rcvd' = [rcvd EXCEPT ![slot] = TRUE]
           /\ blamed' = IF \E query \in answering : Slot(query.kind) = slot
                        THEN blamed \cup {"torn"} ELSE blamed
    /\ UNCHANGED <<data, answering, up, lineVars, window, stack, comStatus>>
    /\ UNCHANGED <<commands, mishaps, handed>>

(* Then the buffer is filled.                                              *)
FillBuffer(item) ==
    /\ item \in copying
    /\ copying' = copying \ {item}
    /\ data' = [data EXCEPT ![Slot(item.kind)] = item.id]
    /\ UNCHANGED <<rcvd, answering, up, pending, lineVars, window, stack, comStatus, ghostVars>>

(* The node does not hear the command, or nobody hears its answer.         *)
NodeSilent(item) ==
    /\ item \in pending
    /\ pending' = pending \ {item}
    /\ UNCHANGED <<bufferVars, up, lineVars, window, stack, comStatus, ghostVars>>

(* The windows hear of it by the error of their socket, and do nothing,    *)
(* the one that waits for a reply included.                                *)
displayError == connected' = [w \in Window |-> FALSE]

(* The base station ends.  What it sent last may still arrive; what it has *)
(* not read is gone, and so are its flags, buffers and connections.        *)
BaseEnds ==
    /\ up /\ mishaps < MaxMishaps
    /\ up' = FALSE /\ displayError
    /\ mishaps' = mishaps + 1
    /\ rcvd' = [k \in Kind |-> FALSE]
    /\ data' = [k \in Kind |-> Blank]
    /\ copying' = {} /\ answering' = {}
    /\ request' = [w \in Window |-> <<>>]
    /\ \E lost \in SUBSET {w \in Window : reply[w] # <<>>} :
           reply' = [w \in Window |-> IF w \in lost THEN <<>> ELSE reply[w]]
    /\ blamed' = blamed \cup {"disturbed"}
    /\ UNCHANGED <<pending, window, stack, comStatus, commands, handed>>

init_socket == /\ ~up /\ up' = TRUE
               /\ UNCHANGED <<bufferVars, pending, lineVars, window, stack, comStatus,
                              ghostVars>>

-----------------------------------------------------------------------------
(* The GUI.                                                                *)
(* What is sent over a connection that is lost is dropped, and the status  *)
(* is set all the same.                                                    *)
Sends(w, item) ==
    /\ request' = IF connected[w] THEN [request EXCEPT ![w] = Append(@, item)]
                  ELSE request
    /\ comStatus' = "sent"
    /\ UNCHANGED <<connected, reply>>

(* The button of the main window; the others are closed and opened again.  *)
Connect(w) ==
    /\ up /\ ~connected[w] /\ window[w].pc = "idle"
    /\ connected' = [connected EXCEPT ![w] = TRUE]
    /\ reply' = [reply EXCEPT ![w] = <<>>]
    /\ UNCHANGED <<baseVars, request, window, stack, comStatus, ghostVars>>

Running(w) == stack # <<>> /\ Last(stack) = w

Polls(w, k) == Sends(w, [poll |-> TRUE, kind |-> k, id |-> NoId])

(* A command of this kind has been sent and its answer not been read.      *)
Outstanding(k) == \/ rcvd[k] \/ \E item \in pending \cup copying : item.kind = k
                  \/ \E w \in Window : window[w].pc # "idle" /\ window[w].kind = k

(* It has sent something to which the reply has not come.                  *)
Expecting(w) == \/ request[w] \o reply[w] # <<>>
                \/ \E query \in answering : query.window = w

(* "hasty": a command was sent while an answer of its kind was outstanding *)
(* or queries of its window's last command were on their way, or one was   *)
(* given up; "torn": a query was served between a flag and its buffer;     *)
(* "disturbed": a window worked on top of another, or the base ended.      *)
Hasty(w, k) == Outstanding(k) \/ Expecting(w)

(* A click, on the desktop or while another window waits.                  *)
Click(w, k) ==
    /\ window[w].pc = "idle" /\ commands < MaxCommands
    /\ commands' = commands + 1
    /\ stack' = Append(stack, w)
    /\ window' = [window EXCEPT ![w] = [@ EXCEPT !.pc = "command", !.kind = k,
                                                 !.id = commands + 1]]
    /\ Sends(w, [poll |-> FALSE, kind |-> k, id |-> commands + 1])
    /\ blamed' = blamed \cup (IF Hasty(w, k) THEN {"hasty"} ELSE {})
                        \cup (IF stack # <<>> THEN {"disturbed"} ELSE {})
    /\ UNCHANGED <<baseVars, mishaps, handed>>

(* No echo of a query is accepted by any window.                           *)
MatchesNoQuery(w, item) == ~item.poll /\ item.kind = window[w].kind

(* The echo has to be that of the command, unless it is a query's.         *)
Matches(w, item) == IF item.poll THEN w \notin Strict
                    ELSE item.kind = window[w].kind

(* What a query brings replaces the response, nothing as well as an        *)
(* answer; what comes sooner BeginPolls discards.                          *)
Noted(w, item) == IF item.poll /\ Matches(w, item) /\ window[w].pc = "poll"
                  THEN [window EXCEPT ![w].response = item.id] ELSE window

(* readXbeeProcess of any window, which the event loop calls.  A reply of  *)
(* another command sets comError, which sendCommand takes for comReceived. *)
readXbeeProcess(w) ==
    /\ \E rest \in Rests(reply[w]) : reply' = [reply EXCEPT ![w] = rest]
    /\ comStatus' = "received"
    /\ window' = Noted(w, Head(reply[w]))
    /\ UNCHANGED <<baseVars, connected, request, stack, ghostVars>>

(* sendAtCommand returns to the click, and that to the window below.       *)
Leave(w, failed) ==
    /\ stack' = Front(stack)
    /\ window' = [window EXCEPT ![w] = AtRest]
    /\ blamed' = IF failed THEN blamed \cup {"hasty"} ELSE blamed
    /\ UNCHANGED <<baseVars, lineVars, comStatus, commands, handed>>

Return(w, failed) == Leave(w, failed) /\ UNCHANGED mishaps

(* sendCommand ends when the status is not "sent" any more, whichever      *)
(* window's reply made it so.                                              *)
Resumed(w, pc) == Running(w) /\ window[w].pc = pc /\ comStatus # "sent"

(* The command went out: ask for the answer.                               *)
BeginPolls(w) ==
    /\ Resumed(w, "command")
    /\ window' = [window EXCEPT ![w].pc = "poll", ![w].response = NoId]
    /\ Polls(w, window[w].kind)
    /\ UNCHANGED <<baseVars, stack, ghostVars>>

(* Queries that go on for ever.                                            *)
ExhaustedNever(w) == FALSE

(* The limit is compared before the query is counted.                      *)
Exhausted(w) == Patience > 0 /\ window[w].count > Patience

PollAgain(w) ==
    /\ Resumed(w, "poll") /\ window[w].response = NoId /\ ~Exhausted(w)
    /\ window' = [window EXCEPT ![w].count = IF @ <= Patience THEN @ + 1 ELSE @]
    /\ Polls(w, window[w].kind)
    /\ UNCHANGED <<baseVars, stack, ghostVars>>

(* Error 4, whether or not the last query brought the answer.              *)
TimesOut(w) == Resumed(w, "poll") /\ Exhausted(w) /\ Return(w, TRUE)

Answered(w) == /\ Resumed(w, "poll") /\ window[w].response # NoId /\ ~Exhausted(w)
               /\ Return(w, FALSE)

(* Replies are on their way to the GUI, or what the base answers with one. *)
RepliesCome == \E w \in Window : Expecting(w)

(* Error 2: sendCommand gives up after 70 turns.  The base is busy, has    *)
(* refused the row and never replies, or is not connected any more.        *)
SendTimesOut(w) ==
    /\ Running(w) /\ comStatus = "sent"
    /\ RepliesCome => mishaps < MaxMishaps
    /\ mishaps' = IF RepliesCome THEN mishaps + 1 ELSE mishaps
    /\ Leave(w, TRUE)

Handle(w) == HandleCommand(w) \/ PollInVain(w) \/ HandlePoll(w) \/ HandOver(w)

Proceed(w) == BeginPolls(w) \/ PollAgain(w) \/ TimesOut(w) \/ Answered(w)

Next == \/ \E w \in Window : \/ Handle(w) \/ readXbeeProcess(w) \/ Proceed(w)
                             \/ SendTimesOut(w) \/ Connect(w)
                             \/ \E k \in Kind : Click(w, k)
        \/ \E item \in pending : NodeAnswers(item) \/ NodeSilent(item)
        \/ \E item \in copying : FillBuffer(item)
        \/ BaseEnds \/ init_socket

Spec == Init /\ [][Next]_vars

(* The base handles requests, Qt delivers replies, and the loop of the     *)
(* window that runs turns, at last to its end if no reply comes.           *)
FairSpec == Spec /\ \A w \in Window : /\ WF_vars(Handle(w))
                                      /\ WF_vars(readXbeeProcess(w))
                                      /\ WF_vars(Proceed(w))
                                      /\ WF_vars(~RepliesCome /\ SendTimesOut(w))

-----------------------------------------------------------------------------
(* No answer is handed out twice: a poll takes the answer away from every  *)
(* other window and every later command, as long as no query is served     *)
(* while a callback of its kind is between flag and buffer.  The buffer    *)
(* keeps an answer that was read, for a query that comes in between.       *)
HandedOnce == "torn" \notin blamed => \A i \in Id : handed[i] <= 1

(* "This should be read before any other remote AT command is sent to any  *)
(* node": as long as no command was sent while an answer of its kind was   *)
(* outstanding, or by a window with queries of its last command still on   *)
(* their way, none was given up, and no query came between flag and        *)
(* buffer, the answer a window gets is the answer to its own command, also *)
(* with several windows at work.                                           *)
OwnAnswer ==
    {"hasty", "torn"} \cap blamed = {} =>
        \A w \in Window : window[w].pc = "poll" =>
            window[w].response \in {NoId, window[w].id}

(* An answer that was handed to a window, which then read all it was sent. *)
Noticed(w) == (/\ window[w].pc = "poll" /\ ~Expecting(w)
               /\ handed[window[w].id] > 0)
              => window[w].response = window[w].id

(* A window that asks for the answer to its command has it once the base   *)
(* has handed it over, as long as no window works on top of another, no    *)
(* command overtakes the answer to the last one, no query comes between    *)
(* flag and buffer, and none was given up.                                 *)
(* It is for the windows that accept the echo of a query.                  *)
AnswerNoticed == blamed = {} => \A w \in Window \ Strict : Noticed(w)

(* With a limit on the queries every click ends, whatever nodes, base and  *)
(* other windows do, so that the window that waits below it goes on.       *)
EveryClickEnds == \A w \in Window : window[w].pc # "idle" ~> window[w].pc = "idle"

=============================================================================
