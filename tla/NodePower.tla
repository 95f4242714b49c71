------------------------------ MODULE NodePower ------------------------------
(***************************************************************************)
(* Sleeping and waking in XBee-firmware/xbee-firmware.c, and in the test   *)
(* firmware XBee-node-test-sleep/xbee-node-test-sleep.c: the processor,    *)
(* its serial port, the XBee it puts to sleep, and the watchdog timer,     *)
(* which wakes the processor and resets it when two of its periods pass    *)
(* without main coming back to the top of its loop.  What happens within a *)
(* transmission cycle is left to NodeFirmware: here a cycle takes as long  *)
(* as it likes.  Time passes in units in the states where main waits; what *)
(* takes main some milliseconds takes none.                                *)
(***************************************************************************)
EXTENDS Integers

CONSTANTS Period,        \* of the watchdog timer: 8 seconds
          BootTime,      \* the blinking after a reset: 12.3 seconds
          PollTime,      \* interpretMessage's limit outside a cycle: 2 seconds
          SettleLoops,   \* 10: passes before the processor sleeps
          ActionCount,   \* ACTION_COUNT, the first wakeInterval
          Intervals,     \* the wake intervals an operator sends
          WakeTime,      \* what the XBee takes to wake up: 100ms
          MaxEvents      \* bound: pulses, commands, hangs, truncated frames

ASSUME PowerAssumption ==
    /\ {Period, BootTime, ActionCount} \subseteq Nat \ {0}
    /\ {PollTime, SettleLoops, WakeTime, MaxEvents} \subseteq Nat
    /\ Intervals \subseteq Nat
    /\ WakeTime + BootTime < 2 * Period

VARIABLES program,       \* what is loaded: "node", or "test"
          pc,            \* where main is
          elapsed,       \* time main has waited there
          clock,         \* time since the last timeout of the watchdog
          wdie,          \* the interrupt is enabled; otherwise it resets
          wdtCounter, wakeInterval, transmitMessage, stayAwake,
          sleepDelay,
          fresh,         \* counter # lastCount; in the test firmware, counter # 0
          events,        \* what came from outside so far
          sleepRq,       \* the Sleep_RQ pin, high to let the XBee sleep
          radioOn,       \* the ON/SLEEP pin, high when it is awake
          stuck,         \* it does not wake up until it is reset
          held,          \* a poll has begun on a frame that does not end
          uartOn         \* the serial port has power

timer == <<clock, wdie>>
settings == <<program, wakeInterval, stayAwake>>
power == <<sleepRq, uartOn>>
radio == <<radioOn, stuck, held>>
powerVars == <<pc, elapsed, timer, wdtCounter, settings, transmitMessage,
               sleepDelay, fresh, events, power, radio>>

(* A processor that comes out of a reset.  Its timer starts from zero.     *)
PowerInit == /\ program \in {"node", "test"}
             /\ pc = "res" /\ elapsed = 0
             /\ clock = 0 /\ wdie = FALSE
             /\ wdtCounter = 0 /\ wakeInterval = ActionCount
             /\ transmitMessage = FALSE /\ stayAwake = FALSE
             /\ sleepDelay = 0 /\ fresh = FALSE /\ events = 0
             /\ sleepRq = FALSE /\ uartOn = TRUE /\ radioOn \in BOOLEAN
             /\ stuck = FALSE /\ held = FALSE

Happens == events < MaxEvents /\ events' = events + 1

NotHex == -1

At(p) == pc = p
Goto(p) == pc' = p /\ elapsed' = 0

-----------------------------------------------------------------------------
(* It comes up awake or asleep, and does not hang any more.                *)
resetXBee == radioOn' \in BOOLEAN /\ stuck' = FALSE

(* From the label RES on, with wdtInit.                                    *)
HardwareInit == /\ program = "node" /\ At("res") /\ Goto("wakeBoot")
                /\ sleepRq' = FALSE /\ uartOn' = TRUE
                /\ wdie' = TRUE
                /\ resetXBee
                /\ UNCHANGED <<held, clock, wdtCounter, settings, transmitMessage,
                               sleepDelay, fresh, events>>

(* wakeXBee, which waits for the pin without a limit.                      *)
AwaitRadio(from, to) ==
    /\ At(from) /\ radioOn /\ Goto(to)
    /\ UNCHANGED <<timer, wdtCounter, settings, transmitMessage,
                   sleepDelay, fresh, events, power, radio>>

RadioAwake == AwaitRadio("wakeBoot", "blink") \/ AwaitRadio("wakeCycle", "cycle")

(* The blinking is over: on to the main loop.                              *)
EnterLoop == /\ At("blink") /\ elapsed = BootTime /\ Goto("top")
             /\ wdtCounter' = 0 /\ stayAwake' = FALSE /\ transmitMessage' = FALSE
             /\ sleepRq' = TRUE
             /\ UNCHANGED <<program, timer, wakeInterval, sleepDelay, fresh, events, uartOn, radio>>

Top == /\ At("top") /\ Goto("pass")
       /\ wdie' = TRUE
       /\ sleepDelay' = 0
       /\ UNCHANGED <<clock, wdtCounter, settings, transmitMessage, fresh,
                      events, power, radio>>

(* lastCount = counter.                                                    *)
NoteCount == /\ program = "node" /\ At("pass")
             /\ fresh' = FALSE
             /\ sleepDelay' = IF sleepDelay > SettleLoops THEN 0 ELSE sleepDelay

BeginPoll == /\ NoteCount /\ ~transmitMessage
             /\ Goto("poll")
             /\ UNCHANGED <<timer, wdtCounter, settings, transmitMessage, events,
                            power, radio>>

(* powerUp forgotten.                                                      *)
PowerUpNot == UNCHANGED uartOn

PowerUp == uartOn' = TRUE

(* The pin is not looked at.                                               *)
WakeRadioBlindly == sleepRq' = FALSE /\ Goto("cycle")

WakeRadio == sleepRq' = FALSE /\ Goto("wakeCycle")

BeginCycle == /\ NoteCount /\ transmitMessage
              /\ transmitMessage' = FALSE /\ wdtCounter' = 0
              /\ PowerUp /\ WakeRadio
              /\ UNCHANGED <<timer, settings, events, radio>>

(* Acknowledged: what has been counted meanwhile is left in counter.       *)
EndCycle == /\ program = "node" /\ At("cycle") /\ Goto("settle")
            /\ UNCHANGED <<timer, wdtCounter, settings, transmitMessage,
                           sleepDelay, fresh, events, power, radio>>

(* Given up: goto RES.                                                     *)
Abandon == /\ program = "node" /\ At("cycle") /\ Goto("res")
           /\ UNCHANGED <<timer, wdtCounter, settings, transmitMessage,
                          sleepDelay, fresh, events, power, radio>>

(* stringToHex, which makes zero of what is not a hexadecimal number.      *)
stringToHex(text) == IF text \in Nat THEN text ELSE 0

(* A command of an operator, in a cycle or in a poll.  An interval of zero *)
(* is not taken.                                                           *)
HearCommand == /\ program = "node" /\ pc \in {"cycle", "poll"} /\ radioOn /\ uartOn /\ Happens
               /\ stayAwake' \in BOOLEAN
               /\ \E text \in Intervals \cup {NotHex} :
                     wakeInterval' = IF stringToHex(text) > 0 THEN stringToHex(text)
                                     ELSE wakeInterval
               /\ UNCHANGED <<program, pc, elapsed, timer, wdtCounter, transmitMessage,
                              sleepDelay, fresh, power, radio>>

EndPoll == /\ At("poll") /\ Goto("settle")
           /\ held' = FALSE
           /\ UNCHANGED <<timer, wdtCounter, settings, transmitMessage,
                          sleepDelay, fresh, events, power, radioOn, stuck>>

Settle ==
    /\ At("settle")
    /\ sleepDelay' = sleepDelay + 1
    /\ Goto(IF sleepDelay < SettleLoops \/ fresh THEN "pass"
            ELSE IF stayAwake THEN "top" ELSE "sleep")
    /\ UNCHANGED <<timer, wdtCounter, settings, transmitMessage, fresh, events,
                   power, radio>>

(* sleepXBee, powerDown and sleep_mode.                                    *)
Sleep == /\ At("sleep") /\ Goto("asleep")
         /\ sleepRq' = TRUE /\ uartOn' = FALSE
         /\ UNCHANGED <<timer, wdtCounter, settings, transmitMessage,
                        sleepDelay, fresh, events, radio>>

-----------------------------------------------------------------------------
(* hardwareInit and wdtInit of the test firmware.  It does not reset its   *)
(* XBee.                                                                   *)
testHardwareInit == sleepRq' = FALSE /\ uartOn' = TRUE

testWdtInit == wdie' = TRUE

(* It begins with association, which it does not leave without an answer.  *)
TestInit == /\ program = "test" /\ At("res") /\ Goto("associate")
            /\ testHardwareInit /\ testWdtInit
            /\ wdtCounter' = 0 /\ fresh' = FALSE
            /\ UNCHANGED <<clock, settings, transmitMessage, sleepDelay, events, radio>>

Associated == /\ At("associate") /\ radioOn /\ Goto("top")
              /\ sleepRq' = TRUE /\ transmitMessage' = FALSE
              /\ UNCHANGED <<timer, wdtCounter, settings, sleepDelay, fresh,
                             events, uartOn, radio>>

(* Its pass has no poll and does not wait for the counts to settle.        *)
TestIdle == /\ program = "test" /\ At("pass") /\ ~transmitMessage
            /\ Goto("sleep")
            /\ UNCHANGED <<timer, wdtCounter, settings, transmitMessage, sleepDelay,
                           fresh, events, power, radio>>

BeginTest == /\ program = "test" /\ At("pass") /\ transmitMessage
             /\ transmitMessage' = FALSE
             /\ PowerUp /\ WakeRadio
             /\ UNCHANGED <<timer, wdtCounter, settings, sleepDelay, fresh, events, radio>>

(* If it is associated it sends its count and clears it, whether or not    *)
(* the message arrives.                                                    *)
EndTest == /\ program = "test" /\ At("cycle") /\ Goto("sleep")
           /\ fresh' \in {fresh, FALSE}
           /\ UNCHANGED <<timer, wdtCounter, settings, transmitMessage, sleepDelay,
                          events, power, radio>>

-----------------------------------------------------------------------------
(* An interrupt ends sleep_mode.                                           *)
WakeUp == IF At("asleep") THEN Goto("top") ELSE UNCHANGED <<pc, elapsed>>

(* Either edge of the signal interrupts, and the rising one counts.         *)
CountISR == /\ Happens
            /\ fresh' \in {fresh, TRUE}
            /\ WakeUp
            /\ UNCHANGED <<timer, wdtCounter, settings, transmitMessage,
                           sleepDelay, power, radio>>

TimedOut == clock = Period /\ clock' = 0

(* The test firmware's interrupt waits for one timeout more.               *)
TestDue == wdtCounter + 1 > ActionCount

(* The interrupt disables itself: the next timeout is to be a reset.       *)
WdtISR ==
    /\ TimedOut /\ wdie /\ wdie' = FALSE
    /\ LET due == IF program = "node" THEN wdtCounter + 1 >= wakeInterval ELSE TestDue
       IN  /\ transmitMessage' = (transmitMessage \/ due)
           /\ wdtCounter' = IF due THEN 0 ELSE wdtCounter + 1
    /\ WakeUp
    /\ UNCHANGED <<settings, sleepDelay, fresh, events, power, radio>>

(* The timer was set up without the WDE bit.                               *)
WatchdogOff == /\ TimedOut /\ ~wdie
               /\ UNCHANGED <<pc, elapsed, wdie, wdtCounter, settings, transmitMessage,
                              sleepDelay, fresh, events, power, radio>>

(* wdtInit has set WDE.  The reset costs the node its count.               *)
WatchdogReset ==
    /\ TimedOut /\ ~wdie
    /\ Goto("res")
    /\ wdtCounter' = 0 /\ wakeInterval' = ActionCount
    /\ transmitMessage' = FALSE /\ stayAwake' = FALSE
    /\ sleepDelay' = 0 /\ fresh' = FALSE
    /\ uartOn' = TRUE /\ held' = FALSE
    /\ UNCHANGED <<program, wdie, events, sleepRq, radioOn, stuck>>

Timeout == WdtISR \/ WatchdogReset

(* How long main can stay.  A poll takes a few milliseconds unless a frame *)
(* is cut short, but many of them do take time.                            *)
Waking == pc \in {"wakeBoot", "wakeCycle"}

MayWait == CASE Waking -> ~radioOn /\ (stuck \/ elapsed < WakeTime)
             [] At("blink") -> elapsed < BootTime
             [] At("poll") -> elapsed < IF held THEN PollTime ELSE 1
             [] OTHER -> pc \in {"associate", "cycle", "asleep"}

Counted == pc \in {"blink", "poll"} \/ (Waking /\ ~stuck)

Elapse == /\ clock < Period /\ MayWait
          /\ clock' = clock + 1
          /\ elapsed' = IF Counted THEN elapsed + 1 ELSE elapsed
          /\ UNCHANGED <<pc, wdie, wdtCounter, settings, transmitMessage,
                         sleepDelay, fresh, events, power, radio>>

(* The XBee, in pin hibernate mode, follows the pin, or hangs.             *)
RadioFollows == /\ radioOn # ~sleepRq /\ ~stuck
                /\ radioOn' = ~sleepRq
                /\ UNCHANGED <<pc, elapsed, timer, wdtCounter, settings, transmitMessage,
                               sleepDelay, fresh, events, power, stuck, held>>

RadioHangs == /\ Waking /\ ~radioOn /\ ~stuck /\ Happens
              /\ stuck' = TRUE
              /\ UNCHANGED <<pc, elapsed, timer, wdtCounter, settings, transmitMessage,
                             sleepDelay, fresh, power, radioOn, held>>

(* A frame of which only the beginning arrives.                            *)
TruncatedFrame == /\ At("poll") /\ uartOn /\ radioOn /\ ~held /\ Happens
                  /\ held' = TRUE
                  /\ UNCHANGED <<pc, elapsed, timer, wdtCounter, settings, transmitMessage,
                                 sleepDelay, fresh, power, radioOn, stuck>>

(* What main does without waiting for anything else.                       *)
Proceed == \/ HardwareInit \/ RadioAwake \/ EnterLoop \/ Top
           \/ BeginPoll \/ BeginCycle \/ EndPoll \/ Settle \/ Sleep
           \/ TestInit \/ TestIdle \/ BeginTest

PowerNext == \/ Proceed \/ EndCycle \/ Abandon \/ HearCommand
             \/ Associated \/ EndTest
             \/ CountISR \/ Timeout \/ Elapse \/ RadioFollows \/ RadioHangs
             \/ TruncatedFrame

(* Main runs, time passes, the timer counts, and an XBee that does not     *)
(* hang follows its pin.  Nothing is assumed of a cycle.                   *)
PowerSpec == /\ PowerInit /\ [][PowerNext]_powerVars
             /\ WF_powerVars(Proceed) /\ SF_powerVars(Elapse) /\ WF_powerVars(Timeout)
             /\ WF_powerVars(RadioFollows)

-----------------------------------------------------------------------------
(* Whenever the XBee is kept awake the serial port has power, so that      *)
(* "any extra messages that have arrived while the node was awake" are not *)
(* lost: for all orders of sleeping, waking, cycles, commands and resets.  *)
ListensWhenAwake == ~sleepRq => uartOn

(* Nothing is sent to an XBee that is asleep, and it is not put to sleep   *)
(* under a cycle.                                                          *)
SpeaksToAwake == At("cycle") => radioOn /\ ~sleepRq

(* Whether an XBee wakes up or a cycle ends or not, and whatever operators *)
(* set, the node gets to report again: the watchdog frees it from every    *)
(* wait, and the boot that follows is not cut short for ever.  The test    *)
(* firmware, whose XBee may hang for ever, at least tries to associate.    *)
KeepsCycling == []<>(At("cycle") \/ (program = "test" /\ At("associate")))

=============================================================================
