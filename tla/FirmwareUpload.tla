--------------------------- MODULE FirmwareUpload ---------------------------
(***************************************************************************)
(* A firmware upload over the air: loadHexGUI of XBee-GUI/xbee-control.cpp *)
(* resets the node into its bootloader by two pins of its XBee, has the    *)
(* flash erased and sends the lines of a hex file, each until an answer    *)
(* comes; main of the bootloader programs them page by page.  The          *)
(* bootloaders for the ATMega168 and the ATTiny4313 do that by the same    *)
(* code.                                                                   *)
(* Everything that travels can get lost, and answers can come late: the    *)
(* GUI looks at their number only, never at what they say.                 *)
(***************************************************************************)
EXTENDS Integers, SequencesExt

CONSTANTS PageSize,      \* words of a page
          AppEnd,        \* the bootloader begins here
          FlashEnd,      \* words of the flash
          File,          \* lines of the file: their first word, and how many
          ErasePolls,    \* 20: limit of the queries for the end of the erase
          LinePolls,     \* 5: queries for the answer to a line
          Resends,       \* 3: limit of the resend counter
          EndDevice,     \* the node is one, so that its XBee may sleep
          MaxFaults      \* bound: messages lost, commands that time out
                         \* and strings of the operator

ASSUME UploadAssumption ==
    /\ EndDevice \in BOOLEAN
    /\ PageSize \in Nat \ {0} /\ AppEnd \in Nat /\ AppEnd % PageSize = 0
    /\ FlashEnd \in Nat /\ AppEnd <= FlashEnd
    /\ File \in Seq([first : Nat, words : Nat, last : BOOLEAN])
    /\ {ErasePolls, LinePolls, Resends, MaxFaults} \subseteq Nat

VARIABLES pc, lineNo, count, resends, failPoint,     \* loadHexGUI
          toNode, answers, dataResponseRcvd,         \* air and base station
          bootPin, mode,                             \* XBee and processor
          flash, boot,                               \* bootloader
          faults, commandLost, taken                 \* ghosts

guiVars == <<pc, lineNo, count, resends, failPoint>>
nodeVars == <<bootPin, mode, flash, boot>>
vars == <<guiVars, toNode, answers, dataResponseRcvd, nodeVars, faults, commandLost, taken>>

Word == 0..(FlashEnd - 1)

(* What a word of the flash can hold: what was there before the upload,    *)
(* nothing (0xFFFF), a mixture, or a word of the file, by its address.     *)
Old == -1
Mixed == -2
Blank == -3

Empty == [i \in 0..(PageSize - 1) |-> Blank]

(* The bootloader after a reset: programState is pageStart, no page is     *)
(* marked as erased.                                                       *)
Fresh == [filling |-> FALSE, base |-> 0, buffer |-> Empty, erased |-> {}]

Init == /\ pc = IF EndDevice THEN "SM pin" ELSE "P1 low"
        /\ lineNo = 1 /\ count = 0 /\ resends = 0 /\ failPoint = 0
        /\ toNode = <<>> /\ answers = 0 /\ dataResponseRcvd = FALSE
        /\ bootPin = FALSE /\ mode = "application"
        /\ flash = [w \in Word |-> Old] /\ boot = Fresh
        /\ faults = 0 /\ commandLost = {}
        /\ taken = [i \in DOMAIN File |-> 0]

-----------------------------------------------------------------------------
(* The GUI's pin commands, each with what it does next.                    *)
AfterNoReset == [x \in {"P1 low", "P2 low", "P2 high", "P1 high"} |->
                   CASE x = "P1 low" -> "P2 low" [] x = "P2 low" -> "P2 high"
                     [] x = "P2 high" -> "erase" [] x = "P1 high" -> "done"]

After == [x \in {"P1 low", "P2 low", "P2 high", "P1 high", "P2 down", "P2 up"} |->
            CASE x = "P1 low" -> "P2 low" [] x = "P2 low" -> "P2 high"
              [] x = "P2 high" -> "erase" [] x = "P1 high" -> "P2 down"
              [] x = "P2 down" -> "P2 up"
              [] x = "P2 up" -> IF EndDevice THEN "SM back" ELSE "done"]

Pin == DOMAIN After

(* failPoint of each of them.                                              *)
Failure(pin) == CASE pin = "P1 low" -> 1 [] pin = "P2 low" -> 2 [] pin = "P2 high" -> 3
                  [] pin = "P1 high" -> 6 [] pin = "P2 down" -> 7 [] pin = "P2 up" -> 8

SleepMode == {"SM pin", "SM back"}

(* sendCommand.  What it sends has a name, and a line for the upload; if it *)
(* times out it may still reach the node.                                  *)
Sends(name, line, ok) ==
    /\ \E arrives \in {TRUE, ok} :
          /\ toNode' = IF arrives THEN Append(toNode, [name |-> name, line |-> line])
                     ELSE toNode
          /\ commandLost' = IF arrives THEN commandLost ELSE commandLost \cup {name}
    /\ IF ok THEN UNCHANGED faults ELSE faults < MaxFaults /\ faults' = faults + 1

Fails(ok, point) == failPoint' = IF ok THEN failPoint ELSE point

Elsewhere == UNCHANGED <<answers, dataResponseRcvd, nodeVars, taken>>

(* An end device is to stay awake.  If it does not answer, the upload ends *)
(* before it has begun.                                                    *)
SetSleepMode ==
    /\ pc \in SleepMode
    /\ \E ok \in BOOLEAN : /\ Sends(pc, 0, ok)
                            /\ Fails(ok \/ pc = "SM back", 3)
                            /\ pc' = IF ok /\ pc = "SM pin" THEN "P1 low" ELSE "done"
    /\ UNCHANGED <<lineNo, count, resends>> /\ Elsewhere

(* A pin of the XBee is set.  Failing does not end the upload here.        *)
SetPin == /\ pc \in Pin
          /\ \E ok \in BOOLEAN : Sends(pc, 0, ok) /\ Fails(ok, Failure(pc))
          /\ pc' = After[pc]
          /\ UNCHANGED <<lineNo, count, resends>> /\ Elsewhere

SendErase == /\ pc = "erase"
             /\ \E ok \in BOOLEAN : Sends("erase", 0, ok) /\ Fails(ok, 4)
             /\ pc' = "erasing" /\ count' = 0
             /\ UNCHANGED <<lineNo, resends>> /\ Elsewhere

(* An 's' query; the base has an answer or it has not.                     *)
Polled == /\ dataResponseRcvd' = FALSE
          /\ UNCHANGED <<toNode, answers, nodeVars, faults, commandLost, taken>>

(* Any failure up to here leaves out the lines.                            *)
PollErase ==
    /\ pc = "erasing"
    /\ IF count > ErasePolls
       THEN /\ failPoint' = 5 /\ pc' = "P1 high"
            /\ UNCHANGED <<toNode, faults, commandLost>> /\ Elsewhere
       ELSE /\ Polled
            /\ pc' = IF ~dataResponseRcvd THEN pc
                     ELSE IF failPoint = 0 THEN "line" ELSE "P1 high"
            /\ UNCHANGED failPoint
    /\ count' = count + 1
    /\ UNCHANGED <<lineNo, resends>>

NoMore == lineNo > Len(File)

SendLine ==
    /\ pc = "line"
    /\ IF NoMore
       THEN /\ pc' = "P1 high"
            /\ UNCHANGED <<toNode, failPoint, count, faults, commandLost>>
       ELSE \E ok \in BOOLEAN : /\ Sends("line", lineNo, ok) /\ Fails(ok, 6)
                                /\ pc' = IF ok THEN "polling" ELSE "P1 high"
                                /\ count' = 0
    /\ UNCHANGED <<lineNo, resends>> /\ Elsewhere

(* The counter is looked at after every line, answered or not.             *)
ExhaustedNever == FALSE

Exhausted == resends > Resends

(* An answer to the last query comes too late: count has reached its limit *)
(* and the line is sent again.                                             *)
PollLine ==
    /\ pc = "polling"
    /\ Polled
    /\ count' = count + 1
    /\ IF ~dataResponseRcvd /\ count + 1 < LinePolls
       THEN UNCHANGED <<pc, lineNo, resends, failPoint>>
       ELSE LET timeout == count + 1 > LinePolls - 1
            IN  IF Exhausted
                THEN /\ failPoint' = 7 /\ pc' = "P1 high"
                     /\ UNCHANGED <<lineNo, resends>>
                ELSE /\ pc' = "line"
                     /\ lineNo' = IF timeout THEN lineNo ELSE lineNo + 1
                     /\ resends' = IF ~timeout THEN 0
                                   ELSE IF resends <= Resends THEN resends + 1 ELSE resends
                     /\ UNCHANGED failPoint

GUI == SetSleepMode \/ SetPin \/ SendErase \/ PollErase \/ SendLine \/ PollLine

-----------------------------------------------------------------------------
(* The bootloader.                                                         *)
Page(w) == w \div PageSize

ErasePage(f, p) == [w \in Word |-> IF Page(w) = p THEN Blank ELSE f[w]]

(* Programming clears bits and cannot set any.                             *)
Programmed(f, base, buffer) ==
    [w \in Word |->
        IF Page(w) # Page(base) \/ buffer[w % PageSize] \in {Blank, f[w]} THEN f[w]
        ELSE IF f[w] = Blank THEN buffer[w % PageSize] ELSE Mixed]

(* A page written is what ends it.                                         *)
WritePage(s) == [s EXCEPT !.flash = Programmed(@, s.boot.base, s.boot.buffer),
                          !.boot = [@ EXCEPT !.filling = FALSE, !.buffer = Empty]]

(* A page is erased whenever it is begun.                                  *)
NotErasedYet(b, p) == TRUE

NotErased(b, p) == p \notin b.erased

(* The first word of a page has it erased, unless that has been done.      *)
BeginPage(s, w) ==
    IF s.boot.filling THEN s
    ELSE [s EXCEPT !.flash = IF NotErased(s.boot, Page(w)) THEN ErasePage(@, Page(w)) ELSE @,
                   !.boot.base = Page(w) * PageSize,
                   !.boot.erased = @ \cup {Page(w)}]

(* A limit that is tested where a page begins only.                        *)
OutsideAtPage(w) == w >= AppEnd + PageSize

Outside(w) == w >= AppEnd

(* One word: into the buffer, which is programmed when the page ends.      *)
FillWord(s, w) ==
    IF ~s.ok \/ Outside(w) THEN [s EXCEPT !.ok = FALSE]
    ELSE LET begun == BeginPage(s, w)
             filled == [begun EXCEPT !.boot = [@ EXCEPT !.filling = TRUE,
                                                        !.buffer[w % PageSize] = w]]
         IN  IF (w + 1) % PageSize = 0 THEN WritePage(filled) ELSE filled

(* The words of a line, one after the other.                               *)
Filled(line) ==
    LET fill[n \in 0..line.words] ==
            IF n = 0 THEN [flash |-> flash, boot |-> boot, ok |-> TRUE]
            ELSE FillWord(fill[n - 1], line.first + n - 1)
    IN  fill[line.words]

(* The last line has a page that is not complete programmed.               *)
Finished(s) == IF s.boot.filling THEN WritePage(s) ELSE s

(* ':', and after the last line the application is started.                *)
ProgramLine(line) ==
    LET s == Filled(line)
        ends == s.ok /\ line.last
        t == IF ends THEN Finished(s) ELSE s
    IN  /\ flash' = t.flash /\ boot' = t.boot
        /\ mode' = IF ends THEN "application" ELSE mode

(* 'X': every page of the application that has not been erased.            *)
EraseAll == /\ flash' = [w \in Word |-> IF w < AppEnd /\ Page(w) \notin boot.erased
                                        THEN Blank ELSE flash[w]]
            /\ boot' = [boot EXCEPT !.erased = @ \cup {Page(w) : w \in 0..(AppEnd - 1)}]
            /\ UNCHANGED mode

(* The XBee sets its pins; the processor starts when reset is released.    *)
PinSet(pin) ==
    /\ bootPin' = IF pin = "P1 low" THEN TRUE ELSE IF pin = "P1 high" THEN FALSE ELSE bootPin
    /\ mode' = CASE pin \in {"P2 low", "P2 down"} -> "held"
                 [] pin \in {"P2 high", "P2 up"} /\ mode = "held" ->
                        IF bootPin THEN "bootloader" ELSE "application"
                 [] OTHER -> mode
    /\ boot' = IF mode' = "held" THEN Fresh ELSE boot
    /\ UNCHANGED flash

(* sendDataMessageCoordinator; what it says is left out.                   *)
SendsAnswer == answers' = answers + 1

(* From the window for strings to the node's processor, which stays open.  *)
OperatorSends == /\ faults < MaxFaults /\ faults' = faults + 1
                 /\ toNode' = Append(toNode, [name |-> "string", line |-> 0])
                 /\ UNCHANGED <<guiVars, commandLost>> /\ Elsewhere

(* The application ignores what is for the bootloader, which answers to    *)
(* what is not: the GUI takes that for the answer to its own command.      *)
NodeTakes ==
    /\ toNode # <<>>
    /\ toNode' = Tail(toNode)
    /\ LET msg == Head(toNode)
           heard == mode = "bootloader"
       IN  /\ taken' = IF heard /\ msg.name = "line"
                       THEN [taken EXCEPT ![msg.line] = IF @ < 2 THEN @ + 1 ELSE @] ELSE taken
           /\ IF msg.name \in Pin THEN PinSet(msg.name) /\ UNCHANGED answers
              ELSE IF ~heard \/ msg.name \in SleepMode THEN UNCHANGED <<nodeVars, answers>>
              ELSE /\ CASE msg.name = "erase" -> EraseAll
                        [] msg.name = "line" -> ProgramLine(File[msg.line])
                        [] msg.name = "string" -> UNCHANGED <<flash, boot, mode>>
                   /\ SendsAnswer
                   /\ UNCHANGED bootPin
    /\ UNCHANGED <<guiVars, dataResponseRcvd, faults, commandLost>>

LoseCommand == /\ toNode # <<>> /\ faults < MaxFaults
               /\ faults' = faults + 1
               /\ toNode' = Tail(toNode)
               /\ commandLost' = commandLost \cup {Head(toNode).name}
               /\ UNCHANGED guiVars /\ Elsewhere

(* The answer comes to the base, which hands it over at the next query, or *)
(* it is lost, or dropped as every answer but a 'P' is by dataCallback.    *)
AnswerComes(kept) ==
    /\ answers > 0
    /\ answers' = answers - 1
    /\ IF kept THEN dataResponseRcvd' = TRUE /\ UNCHANGED faults
       ELSE faults < MaxFaults /\ faults' = faults + 1 /\ UNCHANGED dataResponseRcvd
    /\ UNCHANGED <<guiVars, toNode, nodeVars, commandLost, taken>>

Next == GUI \/ NodeTakes \/ LoseCommand \/ OperatorSends
        \/ \E kept \in BOOLEAN : AnswerComes(kept)

Spec == Init /\ [][Next]_vars /\ WF_vars(GUI)

-----------------------------------------------------------------------------
Ended == pc = "done" /\ toNode = <<>>

Written == UNION {File[i].first..(File[i].first + File[i].words - 1) : i \in DOMAIN File}

(* A hex file as the linker writes it: its lines follow one another, and   *)
(* the last of them says that it is.                                       *)
FileInOrder ==
    /\ File # <<>> /\ File[Len(File)].words = 0
    /\ \A i \in DOMAIN File :
          /\ File[i].last <=> i = Len(File)
          /\ i + 1 < Len(File) => File[i + 1].first = File[i].first + File[i].words

CrossesPage(line) == line.words > 0 /\ Page(line.first) # Page(line.first + line.words - 1)

(* "0 if OK": an upload that reports no failure has programmed the whole   *)
(* file, with lines sent again, answers lost or late and pages begun twice *)
(* on the way.  It is not so when a line was lost, for the answer to one   *)
(* that was sent twice can stand for the answer to the next; and not when  *)
(* a line that crosses into the next page came twice, for its first words  *)
(* then go into that page.                                                 *)
FileInFlash ==
    (/\ Ended /\ failPoint = 0 /\ "line" \notin commandLost
     /\ \A i \in DOMAIN File : CrossesPage(File[i]) => taken[i] <= 1)
    => \A w \in Written : w < AppEnd => flash[w] = w

(* The bootloader never changes itself, whatever a file contains.          *)
BootloaderIntact == \A w \in Word : w >= AppEnd => flash[w] = Old

(* "Node will enter application mode": however an upload went, afterwards  *)
(* the node runs its application, if the pins were set.                    *)
NodeReturns == Ended /\ commandLost \cap Pin = {} => mode = "application"

(* An upload ends, also when nothing is ever answered.                     *)
UploadEnds == <>(pc = "done")

=============================================================================
