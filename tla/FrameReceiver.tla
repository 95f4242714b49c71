---------------------------- MODULE FrameReceiver ----------------------------
(***************************************************************************)
(* The API frames between a node's processor and its XBee: sendBaseFrame   *)
(* and receiveMessage of libs/xbee.c, and the four ways in which frames    *)
(* are read.  getIncomingMessage of the firmware assembles one within a    *)
(* time limit; checkAssociated, resetXBeeSoft and readXBeeIO ask the XBee  *)
(* and look for its answer; the bootloaders, that of the larger processors *)
(* and the ATtiny's, wait for the next command as long as it takes.  Each  *)
(* begins anew with its next frame.  The radix of a byte and the width of  *)
(* the state are parameters.                                               *)
(***************************************************************************)
EXTENDS Naturals, SequencesExt

CONSTANTS Radix,        \* 256: the values of a byte
          Sync,         \* 0x7E
          StateRange,   \* 256: the values of messageState
          RingSize,     \* bytes the receive buffer holds
          Patience,     \* timeoutDelay
          Attempts,     \* 10: the limit of the queries' count
          Frames,       \* what the XBee sends
          Wanted,       \* those that are the answer to a query
          MaxFrames,    \* bound: frames the XBee sends
          MaxLost       \* bound: bytes lost on the line

ASSUME FrameAssumption ==
    /\ Radix \in Nat \ {0} /\ Sync \in 0..(Radix - 1)
    /\ Frames \subseteq [type : 0..(Radix - 1), data : Seq(0..(Radix - 1))]
    /\ Wanted \subseteq Frames
    /\ StateRange \in Nat \ {0} /\ \A f \in Frames : Len(f.data) + 5 < StateRange
    /\ {RingSize, Patience, Attempts, MaxFrames, MaxLost} \subseteq Nat

VARIABLES wire,         \* bytes the XBee has still to send
          ring,         \* bytes in the receive buffer
          pc,           \* "idle", "call" in getIncomingMessage, "query",
                        \* "boot" and "tiny" in a bootloader's main loop
          message,      \* rxMessage
          messageState,
          ticks,        \* timeResponse, or count of the queries
          result, got,  \* of the last call, and the frame it returned
          frames, lost, \* what the bounds count
          due,          \* frames sent and not returned yet
          clean         \* nothing has happened that can damage a frame

lineVars == <<wire, ring, frames, lost>>
callVars == <<pc, message, messageState, ticks, result, got>>
vars == <<lineVars, callVars, due, clean>>

Sum(bytes) ==
    LET sum[n \in 0..Len(bytes)] == IF n = 0 THEN 0 ELSE (sum[n - 1] + bytes[n]) % Radix
    IN  sum[Len(bytes)]

(* sendBaseFrame; the XBee's frames have the same form.                    *)
Encoded(f) == LET length == Len(f.data) + 1
                  body == <<f.type>> \o f.data
              IN  <<Sync, length \div Radix, length % Radix>> \o body
                  \o <<(Radix - 1 + Radix - Sum(body)) % Radix>>

NoMessage == [length |-> 0, type |-> 0, data |-> <<>>]

Init == /\ wire = <<>> /\ ring = <<>>
        /\ pc = "idle" /\ message = NoMessage /\ messageState = 0 /\ ticks = 0
        /\ result = "none" /\ got = NoMessage
        /\ frames = 0 /\ lost = 0
        /\ due = <<>> /\ clean = TRUE

-----------------------------------------------------------------------------
XBeeSends(f) == /\ frames < MaxFrames
                /\ frames' = frames + 1
                /\ wire' = wire \o Encoded(f)
                /\ due' = Append(due, f)
                /\ UNCHANGED <<ring, lost, callVars, clean>>

(* The receive interrupt, which drops a byte when the buffer is full.      *)
Receive == /\ wire # <<>>
           /\ wire' = Tail(wire)
           /\ ring' = IF Len(ring) < RingSize THEN Append(ring, Head(wire)) ELSE ring
           /\ clean' = (clean /\ Len(ring) < RingSize)
           /\ UNCHANGED <<frames, lost, callVars, due>>

Lose == /\ wire # <<>> /\ lost < MaxLost
        /\ lost' = lost + 1
        /\ wire' = Tail(wire)
        /\ clean' = FALSE
        /\ UNCHANGED <<ring, frames, callVars, due>>

(* The next state, in eight bits.                                          *)
Next8(state) == (state + 1) % StateRange

(* The sum of all bytes after the length, checksum included, is 0xFF.      *)
Checked(m, b) == IF (Sum(<<m.type>> \o m.data) + b + 1) % Radix = 0
                 THEN "complete" ELSE "checksum_error"

(* What receiveMessage makes of byte b: the new message and state, and     *)
(* what it returns.                                                        *)
Step(b) ==
    LET s == messageState
        m == message
        To(msg, state, status) == [message |-> msg, state |-> state, status |-> status]
    IN  CASE s = 0 -> To([m EXCEPT !.data = <<>>], IF b = Sync THEN 1 ELSE 0, "incomplete")
          [] s = 1 -> To([m EXCEPT !.length = b * Radix], 2, "incomplete")
          [] s = 2 -> To([m EXCEPT !.length = @ + b], 3, "incomplete")
          [] s = 3 -> To([m EXCEPT !.type = b], 4, "incomplete")
          [] s > m.length + 3 -> To(m, s, "frame_error")
          [] s >= 4 /\ s < m.length + 3 ->
                 To([m EXCEPT !.data = Append(@, b)], Next8(s), "incomplete")
          [] s >= 4 /\ s = m.length + 3 -> To(m, 0, Checked(m, b))

(* The bootloader's parseMessage.  Its test for a frame without contents   *)
(* comes after the state has been cleared, and never applies.              *)
parseMessage(b) ==
    LET step == Step(b)
    IN  IF step.status = "frame_error"
        THEN [step EXCEPT !.state = 0, !.status = Checked(message, b)]
        ELSE step

(* A call begins with no frame in progress, whatever the last one left.    *)
StateKept == messageState

StateReset == 0

(* On a line at rest everything that was damaged is past.                  *)
Rest == wire = <<>> /\ ring = <<>>

Begins(kind) == /\ pc = "idle" /\ pc' = kind
                /\ ticks' = 0 /\ messageState' = StateReset
                /\ clean' = (clean \/ Rest)
                /\ due' = IF ~clean /\ Rest THEN <<>> ELSE due
                /\ UNCHANGED <<lineVars, message, result, got>>

(* A call that does not wait returns at once when there is nothing.        *)
Incoming == \E wait \in BOOLEAN : (wait \/ ring # <<>>) /\ Begins("call")

Ask == Begins("query")

(* The bootloader is ready for its next command.                           *)
Boot == Begins("boot") \/ Begins("tiny")

Ends(status) == pc' = "idle" /\ result' = status

(* A frame of which a part has been read is dropped.                       *)
Drops(state) == clean' = (clean /\ state = 0)

Took(step, status) ==
    /\ ring' = Tail(ring)
    /\ message' = step.message
    /\ IF status = "complete"
       THEN got' = step.message /\ due' = SubSeq(due, 2, Len(due))
       ELSE UNCHANGED <<got, due>>

(* A time limit that only holds until the first byte.                      *)
ExpiredWaiting == ticks > Patience /\ messageState = 0

(* The limit is compared before the tick is counted.                       *)
Expired == ticks > Patience

(* Every byte costs a tick, as a millisecond without a byte does.          *)
Tick(state) ==
    IF Expired
    THEN Ends("timeout") /\ Drops(state) /\ UNCHANGED ticks
    ELSE /\ ticks' = IF ticks <= Patience THEN ticks + 1 ELSE ticks
         /\ UNCHANGED <<pc, result, clean>>

CallWaits == /\ pc = "call" /\ ring = <<>>
             /\ Tick(messageState)
             /\ UNCHANGED <<lineVars, message, messageState, got, due>>

(* A byte for the caller, taken by Took.  The bootloader's getch, without  *)
(* a buffer, waits until there is one.                                     *)
getch(caller) == pc = caller /\ ring # <<>>

CallTakes == /\ getch("call")
             /\ LET step == Step(Head(ring))
                IN  /\ Took(step, step.status)
                    /\ messageState' = step.state
                    /\ IF step.status = "incomplete" THEN Tick(step.state)
                       ELSE Ends(step.status) /\ UNCHANGED <<ticks, clean>>
             /\ UNCHANGED <<wire, frames, lost>>

(* The next query, with a new frame, unless the count is above the limit.  *)
AskAgain(state) == /\ IF ticks > Attempts
                      THEN Ends("timeout") /\ UNCHANGED ticks
                      ELSE ticks' = ticks + 1 /\ UNCHANGED <<pc, result>>
                   /\ messageState' = 0 /\ Drops(state)

(* No byte ends the wait for an answer.                                    *)
QueryMisses == /\ pc = "query" /\ ring = <<>>
               /\ AskAgain(messageState)
               /\ UNCHANGED <<lineVars, message, got, due>>

IsWanted(m) == \E f \in Wanted : m.type = f.type /\ m.data = f.data

QueryTakes ==
    /\ getch("query")
    /\ LET step == Step(Head(ring))
       IN  /\ Took(step, step.status)
           /\ CASE step.status = "incomplete" ->
                       messageState' = step.state /\ UNCHANGED <<pc, result, ticks, clean>>
                [] step.status = "complete" /\ IsWanted(step.message) ->
                       /\ Ends("complete")
                       /\ messageState' = step.state /\ UNCHANGED <<ticks, clean>>
                [] OTHER -> AskAgain(step.state)
    /\ UNCHANGED <<wire, frames, lost>>

(* Errors and frames that are not data are passed over.                    *)
BootTakes ==
    /\ getch("boot")
    /\ LET step == parseMessage(Head(ring))
       IN  /\ Took(step, step.status)
           /\ messageState' = step.state
           /\ IF step.status = "complete" /\ \E f \in Wanted : f.type = step.message.type
              THEN Ends("complete")
              ELSE UNCHANGED <<pc, result>>
    /\ UNCHANGED <<wire, frames, lost, ticks, clean>>

(* The ATtiny's loop looks neither at the type of a frame nor, but for the *)
(* character that it answers with, at its checksum.  It does not reset its *)
(* state when the length is damaged, and is then stuck.                    *)
TinyBootTakes ==
    /\ getch("tiny")
    /\ LET step == Step(Head(ring))
       IN  /\ Took(step, step.status)
           /\ messageState' = step.state
           /\ IF step.status \in {"complete", "checksum_error"} THEN Ends(step.status)
              ELSE UNCHANGED <<pc, result>>
    /\ UNCHANGED <<wire, frames, lost, ticks, clean>>

Call == CallWaits \/ CallTakes \/ QueryMisses \/ QueryTakes \/ BootTakes \/ TinyBootTakes

Next == \/ \E f \in Frames : XBeeSends(f)
        \/ Receive \/ Lose \/ Incoming \/ Ask \/ Boot \/ Call

Spec == Init /\ [][Next]_vars /\ WF_vars(Call)

-----------------------------------------------------------------------------
(* As long as the line loses nothing and no frame is given up half read,   *)
(* every call returns the next frame that was sent, undamaged, or nothing: *)
(* also when a payload contains the start character, and again after any   *)
(* damage once the line has been at rest.                                  *)
DeliveredInOrder ==
    [][pc # "idle" /\ pc' = "idle" /\ clean' =>
          \/ result' = "timeout"
          \/ /\ result' = "complete" /\ due # <<>>
             /\ got'.type = Head(due).type /\ got'.data = Head(due).data]_vars

(* Nor is a frame passed over.                                             *)
NothingMissed == clean /\ Rest /\ messageState = 0 => due = <<>>

(* A call of the firmware ends, whatever the line delivers and for however *)
(* long it does so.                                                        *)
EveryCallEnds == pc \in {"call", "query"} ~> pc = "idle"

=============================================================================
