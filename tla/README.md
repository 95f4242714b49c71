# Verification of XBee-Acquisition

TLA+ models, TLC runs and TLAPS proofs for the XBee acquisition system: battery
powered nodes count pulses (of a water meter) and report their counts through a
ZigBee network to a base station, which writes them to a data file and serves
the operator's GUI.

To check: `tlc -workers 2 -config <run>.cfg <Module>` for the runs of section 3,
`tlapm <Module>.tla` for the eight modules `...Proofs`.
`PROJECT.json` has, for every definition, the lines of the source it stands for,
for every property a mutation of the code that breaks it, and the hazards.

Source paths are abbreviated: FW `XBee-firmware/xbee-firmware.c`, AQ
`XBee-acqcontrol/xbee-acqcontrol.cpp`, GUI `XBee-GUI/xbee-control.cpp`, GL
`XBee-GUI/xbee-gui-libs.cpp`, DI `XBee-GUI/xbee-dialog.cpp`, NC
`XBee-GUI/node-config.cpp`.

## 1. Inventory

| Component | Source | State | Operations | Modelled in |
|---|---|---|---|---|
| Node firmware: protocol | FW | `counter`, `lastCount`, `wdtCounter`, `wakeInterval`, `transmitMessage`, `stayAwake`, the locals of a cycle | main loop, cycle in three stages, `interpretMessage`, `interpretCommand`, count and watchdog interrupts, soft and processor reset | `NodeFirmware` |
| Node firmware: hardware | FW 667-894 | watchdog timer, sleep pins, power of the serial port | sleep, wake, boot, watchdog interrupt and reset | `NodePower` |
| Pulse counter | FW 77, 223, 323, 910 | four bytes of `counter` | read, subtract, interrupt | `SharedCounter` |
| Serial driver | `libs/serial.c`, `libs/buffer.c` | a ring per direction, interrupt enable | `sendch`, `getch`, `uartInit`, both interrupts | `SerialDriver` and its parts |
| XBee frames | `libs/xbee.c`, FW 565-620 | receive state machine | `receiveMessage`, `getIncomingMessage`, the queries, `sendBaseFrame`, `getXBeeADC` | `FrameReceiver`, `DataRecord` |
| Network | external (XBee modules, libxbee) | frames on their way | deliver, delay, lose | `XBeeLink` |
| Base: data callback | AQ 1494-1708 | `protocolState` per row, `remoteData`, `dataField`, `dataResponseRcvd` | answer with ACK or NAK, record, take X, P, A, D | `BaseStation`, `DataRecord` |
| Base: node table | AQ 810-1459, 2000-2208 | `nodeInfo`, `numberNodes`, connections, node file | identify, probe, add, delete and compress, open and close, restart | `NodeTable` |
| Base: command sessions | AQ 379-649, 1730-1772 | a flag and a buffer per kind of answer | `command_handler`, AT callbacks | `CommandSession` |
| Base: sockets, start | AQ 138-332, 678-796 | connections of clients | listen, accept, read, end and start | `CommandSession`, `NodeTable` |
| Base: data file | AQ 1931-1983 | two counters, the open file | write, flush, roll over | `DataRecord` |
| GUI: main window | GUI, GL | table, `comStatus`, upload | refresh, remove, query, AT commands, upload | `NodeTable`, `CommandSession`, `FirmwareUpload` |
| GUI: XBee window | DI | widgets, what was read last | refresh, edit, write, save, reset | `ConfigDialog`, `CommandSession` |
| GUI: string window | NC | response | send, poll | `CommandSession` |
| Bootloaders | `Development/XBee-bootloader-M168`, `-experimental-T4313` | flash, page buffer | read frames, erase, program, start | `FirmwareUpload`, `FrameReceiver` |
| Test firmware that sleeps | `Development/XBee-node-test-sleep` | watchdog timer, sleep pins, counter | associate, sleep, wake, send and clear | `NodePower` |
| Earlier firmware, other test programs, emulators | `Development/` | - | - | not part of the running system |

**Interactions.** A watchdog tick gives main permission to transmit. Main asks
its own XBee for association and battery voltage (AT frames over the serial
port), then sends the count noted at the start of the pass. The base answers A
or N on the node's data connection; on A the node sends a closing A, on which
the base records, and subtracts the noted count from the counter. Four
unanswered messages make it send X and restart from the label `RES`. Operator's
commands travel on the same connection and are answered on it (P or A), so the
answers mix with the protocol's messages. GUI windows each have a TCP connection
to the base; a command is answered at once and its result is polled for. The
counter is shared with an interrupt routine, the rings with two others; at the
base `dataField` and the response flags are shared by all nodes and clients, in
the GUI `comStatus` by all windows.

**What is hard.** Interrupts between any two accesses of main; messages lost or
late by more than a cycle; answers of two protocols on one connection with the
same letters; a closing message that is not acknowledged; resets that keep
different variables; waits that only the watchdog ends; unescaped frames; rows
that move under those who name them by number; windows that run on top of each
other; an upload that repeats what was already done. `PROJECT.json` lists each
hazard at its line.

**What makes each part correct.**
- Firmware: the subtraction stays in range; only an unused ACK of the base clears
  a count; every cycle ends; cycles keep being started, also when the XBee hangs;
  the XBee is not kept awake when it cannot be heard.
- Firmware and base: nothing is invented, and without faults the file equals what
  the nodes took off.
- Rings: each is a queue; the transmit ring never refuses; all is sent.
- Frames: delivered in order or not at all; after damage the receiver finds the
  next frame; a call ends.
- Data record: what is accepted is what was measured; a crash loses few lines.
- Node table: one row per node, connected to that node, the same after a restart;
  a deletion takes the node that was meant.
- Sessions: an answer goes to the command it belongs to, once, and is noticed;
  every click ends.
- Upload: success means the file is in the flash; the bootloader stays intact;
  the node runs afterwards.
- XBee window: what was written is saved; a failure can be made good; nothing is
  written that nobody entered.

## 2. Modules

| Module | Models | Used by |
|---|---|---|
| `XBeeLink` | both directions of a node's connection, lossy FIFO of bounded length (external) | `NodeFirmware`, `BaseStation` |
| `NodeFirmware` | the firmware's protocol; `pc` is where main is, one action per stretch of code between blocking points | `CountProtocol` |
| `BaseStation` | `dataCallback`, one action per branch; 'S' and 's' of `command_handler` | `CountProtocol` |
| `CountProtocol` | all nodes, the base, the network; fairness, liveness | `CountLedger` |
| `MCCountProtocol` | symmetry of the nodes for TLC | - |
| `CountLedger` | history variables: pulses, counts cleared and recorded, ACKs earned, faults | - |
| `AtomicCounter` | abstract: note, load, store in one step each | `SharedCounter` |
| `SharedCounter` | `counter` byte by byte; implements `AtomicCounter` | - |
| `NodePower` | sleep, wake, boot and watchdog in units of time, of the firmware and of a test firmware | - |
| `CircularBuffer`, `ByteQueue` | the ring; abstract: what it promises | the next three |
| `SerialReceive`, `SerialTransmit` | each direction with its interrupt; implement `ByteQueue` | `SerialDriver` |
| `SerialDriver` | both directions, one thread of main | - |
| `FrameReceiver`, `MCFrameReceiver` | bytes to frames, five readers by four ways of reading | - |
| `DataRecord`, `MCDataRecord` | sample, data word, characters, line, results file | - |
| `NodeTable`, `MCNodeTable` | table, connections, node file, clients' copies | - |
| `CommandSession` | three kinds of command, windows, base, restart | - |
| `FirmwareUpload`, `MCFirmwareUpload` | `loadHexGUI`, base, bootloader, flash | - |
| `ConfigDialog` | the XBee window and the XBee's two sets of parameters | - |
| `CountLedgerProofs` | theorems about `CountProtocol` and `CountLedger` | - |
| `NodeHardwareProofs` | theorems about `SerialDriver`, `NodePower` and `SharedCounter` | - |
| `DataRecordProofs`, `FrameReceiverProofs`, `NodeTableProofs`, `CommandSessionProofs`, `FirmwareUploadProofs`, `ConfigDialogProofs` | theorems about the module each is named after | - |

**State and code.** Variables keep the names of the source where it has them.

- `NodeFirmware`: `pc` is `boot` (label RES to the loop), `top` (the note of the
  count), `poll` and `wait` (inside `interpretMessage`, outside and within a
  cycle), `stage` (the stage tests), `load` and `store` (the two ends of `counter
  -= lastCount`), `settle` (the loop condition), `sleep` (before `sleep_mode`,
  where a wake up is lost) and `asleep`. The record `cycle` holds the locals of a
  transmission cycle.
- `NodePower`: the same program with another data: a unit is half a second, the
  watchdog's period 16, a boot 25 (12.3 s of blinking), a poll 4. `wdie` is the
  WDIE bit: with it a timeout interrupts, without it resets. `held` is a frame of
  which only the beginning came, `stuck` an XBee that does not wake. What a cycle
  does is left to `NodeFirmware`; here it may last for ever. `program` is chosen
  once: the test firmware shares the watchdog, the pins and the sleep, but waits
  for association (`associate`) under the watchdog, does not reset its XBee, and
  clears its counter after sending without an answer.
- `SerialDriver`: each direction's `pc` says how far main is in `buffer_get` or
  `buffer_put`; interrupts come between any two accesses. `stepped` says that main
  has made its one instruction since the last interrupt returned: an AVR executes
  one before it takes the next interrupt.
- `FrameReceiver`: `Step` is `receiveMessage`. `ticks` is `timeResponse`, which
  the code counts per byte as well as per empty millisecond, or the queries' count.
  `Sum` is a recursive function over the length of the bytes, as the code's loop.
- `DataRecord`: the word's widths and radix are constants (16, 4 bytes, 2^16,
  2^10, 2^6 in the code); `hexToString`, `Correct` and `Line` are what the code
  computes, over any damaged message. `buffered` is what stdio holds.
- `NodeTable`: `found` says, for main and for the thread of libxbee, which callback
  or command is at work and with which row; another step of either can come between
  the look for a row and its use, between the two halves of a deletion (the row is
  counted off; the others move down and the file is written) and between the making
  and the counting of an entry. `serving` tells main's command loop from the probe,
  in which main itself runs `nodeIDCallback`; `listening` is the identify connection,
  on which the other thread does. `view` and `tableLength` are a client's copy of the
  table, `outdated` the clients whose copy is from before another's deletion.
  `nodeInfo` has two rows more than `MAXNODES`: the code uses them, and they stand for
  what lies behind the array. `LinesRead` are the lines of the node file that a restart
  makes rows of, `InOrder` their sequence; an address that is in the file twice gets
  two rows, and a blank identifier swallows the line behind it. `blamed` is what has
  happened that the table suffers from: a row was looked up or changed in the middle
  of another change ("overlapped"), the file was not rewritten ("unwritten"), a row was
  named by an old copy ("stale").
- `CommandSession`: `stack` is the nesting of `sendAtCommand`s in the GUI's one
  thread, the last running. A query has no identity, an answer the number of the
  command it belongs to. `copying` are the callbacks that have set their flag and not
  yet filled their buffer, `answering` the query for which main has reset the flag and
  not yet read the buffer, which keeps what it holds. `blamed` is what makes the
  properties inapplicable: a command was sent while an answer of its kind was
  outstanding or queries of its window's last command were on their way, or was given
  up ("hasty"); a query was served between a flag and its buffer ("torn"); a window
  worked on top of another, or the base ended ("disturbed").
- `FirmwareUpload`: `pc` is the step of `loadHexGUI`; `flash` holds for each word
  what is in it, by its address in the file.
- `ConfigDialog`: `shown`, `modified`, `cached` are the widgets, Qt's mark of an
  edited line and the `...Index` variables. Five parameters are written, one for
  each kind of widget; seven are queried.

**Abstracted.** The letters T, N, E and S of a repeated data message: the base
treats them as C. `interpretMessage`'s frames of no effect and its error codes are
`HearNothing`. In the protocol model a timeout may come at any time, a tick or a
processor reset at any step; `NodePower` has the times. In the protocol model the
callback of one packet is one step; where a second thread can come between the steps
of a callback or of a command and find another state, in `NodeTable` and
`CommandSession`, they are several. libxbee runs the callbacks of one connection one
at a time. Of a buffer that is read while it is filled, either the old or the new
contents are read. `NodeTable` leaves out the mark of a valid row, which decides
nothing, with the command V, and the data and I/O callbacks, which use a row and
change none of its variables. The rewritten node file may end after any of its lines,
not within one. The three connections of a row
stand as one. Every wait in the GUI is a state; how long it is, is left open.

**External.** The ZigBee network and libxbee, modelled from their use: a frame is
queued in order, or lost; it is neither duplicated nor overtaken, and it may stay
on its way for as long as it likes (a parent holds it for a sleeping node). The
node's XBee, its parameters and samples; the flash memory; Qt's event loop and
its sockets: what is written to a lost connection is dropped.

## 3. Runs

States and times are those of two workers.

| Run | Module | Asks | Distinct states, time |
|---|---|---|---|
| `ledger` | `CountLedger` | is anything invented, does the counter wrap, does the file match what the node took off; with losses, damage, delays, stale ACKs, a command and a reset | 3.6 million, 85 s |
| `liveness` | `CountProtocol` | does every cycle end, is permission to send ever lost for good | 314,000, 70 s |
| `shared_counter` | `SharedCounter` | are bytewise accesses as good as atomic ones below one byte | 2,177 |
| `shared_data_field` | `MCCountProtocol` | is a node's own count the one recorded for it, with two nodes up to symmetry: **violated** | 16 s |
| `serial_driver` | `SerialDriver` | is each ring a queue, is nothing refused, is all sent | seconds |
| `node_power` | `NodePower` | does the node hear and get heard, does it keep beginning cycles; either firmware | 166,000, 9 s |
| `node_frames` | `FrameReceiver` | what do the readers deliver, do their calls end | 1.9 million, 90 s |
| `data_record` | `DataRecord` | is what is accepted genuine, how much can a crash lose, do files end | 214,000, 10 s |
| `node_table` | `NodeTable` | are rows distinct, connected to their node, the same after a restart, and is the right one deleted, with callbacks between the steps of commands, two clients and a failing rewrite | 2.3 million, 75 s |
| `command_session` | `CommandSession` | whose answer is it, is it noticed, does every click end, with flags that are set before their buffers are filled, also when the base restarts | 799,000, 135 s |
| `firmware_upload` | `FirmwareUpload` | what is in the flash after a success, where is the node, does an upload end | 1.7 million, 75 s |
| `config_dialog` | `ConfigDialog` | is what was written saved, are failures made good, is anything written that nobody entered | 7.2 million, 85 s |

All pass but `shared_data_field`: the base keeps the count that it will record in
one variable for all nodes, although its comment says that it is stored aside.

**What the results say together.** A late, repeated or lost message alone never
makes the file show more than was taken off (`RecordedAtMostCleared`), and a
count is never taken off without an ACK of its own (`NoUnearnedClear`). Counting
twice takes an abandoned cycle, an operator's command or a reset; losing a count
takes a lost closing A, or a repeat that arrives damaged or late after the ACK.
The transmit ring is safe only because main makes at most one access to it between
two transmit interrupts. A frame reader is in step again once the line has been at
rest. A session mixes answers up only if a command is sent while an answer of its
kind is outstanding, while queries of the window's last command are still on their
way, after one was given up, or if a query is served between the flag of an answer and
its buffer, which no operator can avoid; a restart of the base leaves the windows
waiting, and they end. An upload leaves the node in its application whatever fails,
if the pins' commands arrive.

**Bounds, and why they are enough.** One node in `ledger` (two for
`shared_data_field`): nodes share only `dataField`, `dataResponseRcvd` and the
command bound, and no property that holds reads those across nodes. Channels of one
message: the base's answer does not depend on the node's state, so that a stale ACK
and a fresh repeat meet (two were checked as well: 10 million states). `TxTries` 0
or 1 for 3, `AssocTries`, `BatteryTries`, `SettleLoops` 0: the code compares them
by `>` and `<` only, and one repeat gives all its branches. Two cycles, so that the
end of one meets the messages of the other. A ring of 3 slots wraps within a few
bytes and is full after 2. A byte of 6 values and 3 bytes in `SharedCounter`.
Frames of radix 4 whose contents hold the start character; a receive ring of three
bytes, shorter than a frame; a limit of 8 ticks that expires within a frame or
not; one byte lost, two frames. `DataRecord`: radix 4, two bytes, so every
single damage of every message is enumerated; flush after 2, end after 4 lines.
`NodeTable`: two addresses, so that a row is freed and taken again and the order of
two matters, for `MaxNodes` 1, so that the table is full and more than full; two
clients, so that one has an old copy; one mishap, which is a restart or one of the
things in `blamed`, each of which is thus followed to every end by itself (the
theorems have any number of everything).
Two windows, one strict about echoes, one not; two commands, so that one meets the
answer to the other; one query before a timeout; one mishap, an impatient timeout or a
restart. Upload: pages of two words, lines that end within, on and across a page
and run into the bootloader, two faults. Dialog: two values, one command in the
queue, one fault. `NodePower`: four events; the times have the real proportions.

**Fairness.** `liveness`: `Main` of a node (every wait in `interpretMessage` has a
time limit, so `Main` is enabled in every state but `asleep`), the watchdog tick
(a free running timer that wakes the node), the base's callbacks for what has
arrived. Nothing of the network, which may lose everything, of pulses or of
operators; no processor resets, without a bound on which nothing need ever end.
`serial_driver`: a pending interrupt is taken, and main goes on with what it has
begun; `sendch` waits for the XBee's CTS line without a limit (`serial.c` 92), which
is part of that: the XBee is assumed to let it go on. `node_power`: main's own steps, the watchdog's timeouts, an XBee that does
not hang follows its pin, and strongly fair time, since time is enabled again and
again; nothing of a cycle. `node_frames`: the caller runs. `command_session`: the
base reads requests, Qt delivers replies, the running window's loop turns, at last
to its 70 turns' end. `firmware_upload`: the GUI's loop only: every one of its waits
is limited, so it ends whatever the node and the network do.

**Deadlock** is checked except in `command_session`, `node_frames` and
`firmware_upload`, which stop when the bounded commands, frames or the upload are
over, as the operator or the XBee may, and in `node_table`: a deletion by an old copy
can take `numberNodes` to -1, and then every command is refused (AQ 392) until a
restart, of which there is one. Elsewhere the watchdog keeps ticking and the
windows, the rings and the files go on.

**Where the code differs from what one might expect.** Besides the finding:

- *Protocol.* An X that follows an accepted message whose ACK was lost is recorded
  and the count reported again (AQ 1649, 1657). A damaged repeat after the ACK
  loses the count (AQ 1562). The answer to a parameter command is taken for the
  closing ACK (AQ 1644). A pulse between the load and the store of `counter -=
  lastCount` is lost, and a read of `counter` above 255 can be torn (FW 323, 223);
  `NodeFirmware` assumes `MaxCount < 256`, and the theorems claim nothing above.
  The last repeat is abandoned with its delivery status, without a wait for its
  answer (FW 329, 144). A node that never associates goes on to transmit (FW 266),
  and an XBee that answers quickly uses up its tries in less than a second.
- *Power.* A tick within the settle window, or a cycle of more than two ticks,
  leaves WDIE clear; the next tick then resets the processor, asleep or not, and
  the count is lost, against the comment at FW 211. The soft reset of FW 333 does
  not restart the watchdog: reached late after a tick it is cut by a reset in the
  boot. After a wake by a pulse the serial port stays without power while main
  polls; the XBee is asleep then, so nothing is lost. An adversary that timed
  pulses and commands to every tick could reset the node for ever: `KeepsCycling`
  is about what follows a bounded number of them. An XBee that takes 3.7 s or more
  to wake at every boot would make it boot for ever (`PowerAssumption`).
  The test firmware waits for association at start with the watchdog running and
  WDIE not set again: without association within two of its periods (16 s) it is
  reset, its count lost, and so on until there is one. An XBee that hangs is not
  reset by it. For it, `KeepsCycling` claims only that it tries again.
- *Frames.* Every byte costs a millisecond at least, so that long frames fill the
  ring at 38400 baud. `messageState` has eight bits and a damaged length is used as
  it is: such frames are left out by `FrameAssumption`. The ATtiny's bootloader
  does not recover from a damaged length of zero, does not look at the frame type
  and processes frames with a wrong checksum.
- *Records.* While no file is open data records are dropped until an I/O packet
  tries to open one (AQ 1699, 1861). A D packet's line shows the word that was
  accepted last (AQ 1685). `getXBeeADC` does not test that its port is enabled; the
  model assumes it is.
- *Table.* Nothing keeps a callback from coming between the steps of a command, or
  the other way round. A node that identifies itself while main deletes a row or makes
  an entry can get two rows, or the row of another (AQ 1396 with 2133-2135 and
  624-627). Of two clients the one that deletes second names a row by a table from
  before the first deletion: it deletes another node, or, by the row just past the
  last node, which is accepted, the last one. `writeNodeFile` gives up when the file
  cannot be emptied (AQ 2158), after the row has gone: the node comes back with the
  next restart, and if it has identified itself meanwhile it has two lines and then two
  rows, because `fillNodeTable` does not look for an address that it has already (AQ
  2065-2112). The properties of `NodeTable` name each of these as what they exclude.
  `openGlobalConnections` gives up at the first failure, and the base hears of no
  new node until a restart or X. The test for a full table is one too late (AQ
  1397, 619, 2081). A blank identifier is read back wrongly from the node file, and
  with it the next line is skipped.
- *Sessions.* The callbacks set their flag before they fill their buffer (AQ
  1736-1739, 1768-1771, 1676-1678), main resets the flag before it reads the buffer, and
  neither locks. A query that is served in between is given the answer to the last
  command once more, as that to the new one, and the new answer is never fetched: two
  commands of one window, however far apart, are enough. `HandedOnce`, `OwnAnswer` and
  `AnswerNoticed` exclude such a query ("torn") and nothing else that an operator has
  no part in. `dataCallback` writes an answer to a string from index 1 of its buffer
  (AQ 1677), and 's' reads it from index 0 up to a zero (AQ 527), which index 0 is: the
  text never arrives, only that there is an answer, which is all that
  `CommandSession` and `FirmwareUpload` follow. With the debug option 3 `dataCallback`
  queries the coordinator by itself (AQ 1503), and the reply looks like one to an
  operator's local command; the model has the option off. A timeout returns error 4 even if the last query brought the answer
  (GUI 735). A timeout of zero polls for ever. Messages that are read together
  count as one, in the base and in the GUI. 'S' to row 0 sends nothing (AQ 499), so
  that strings and uploads never work for row 0; the models take another row. The
  main window's `displayError` tells nobody who waits.
- *Upload.* The base keeps answers that begin with P only (AQ 1674), so with the
  base of this repository an upload ends with a timeout after the erase; the model
  has that among its outcomes, and answers that pass. `loadHexGUI` returns the last
  `errorCode`, not `failPoint`, and its caller makes it a bool. The sleep mode that
  is put back was never asked for (GUI 784). What an answer says is not looked at;
  an answer to a string that the operator sends meanwhile counts as well. A line
  that crosses a page and comes twice writes its first words into the next page:
  `FileInFlash` leaves that case out. A lost command for the boot pin leaves the
  node in its bootloader at the next reset.
- *XBee window.* Each of its queries fails (DI 909), so that it shows "Error", and a
  write compares indices that nobody initialised with what the widgets show:
  `OnlyEntered` holds for texts and check boxes only. Results are ignored; a window
  for an end device returns before its widgets exist. A refresh of the table makes
  the row's check box available again, so that a second window can be opened; the
  model has one.

## 4. Proofs

All hold for every value of the constants that satisfies the assumptions named in
the modules (`NodeAssumption`, `BaseAssumption`, `FrameAssumption` and so on, which
TLC evaluates on every run), and for every bound: the numbers of events, faults,
commands and restarts that the runs fix are parameters here. Where a theorem
assumes more it says so. Each module has one inductive invariant, or a chain of
them, and a lemma per action that keeps it.

**Count protocol and ledger** (`CountLedgerProofs`).

- `IInv` is `TypeOK` and `CountsInOrder`: `lastCount <= counter`, and between the
  load and the store also `lastCount <= register <= counter`. The last inequality
  is what makes it inductive: the store writes `register - lastCount`, which must
  be at least the new `lastCount` (zero) and a natural number, while interrupts may
  have advanced `counter` since. Theorems `TypeCorrectness`, `SubtractionSafety`.
- Every step of the ledger is a step of the protocol (`LedgerStepIsStep`), so `IInv`
  carries over. `LInv` adds that a message on its way carries no more than the
  node's pulses, without which a delivery could not be shown to keep
  `SavedCountGenuine`. Theorems `NoPhantom`, `SavedGenuine`.
- `EInv` counts ACKs: those on their way to a node and the one it holds are at most
  those it has earned and not used. Losses and resets lessen them; no step adds one
  but the base's answer to a data message. `ClearsAreEarned`.
- `AInv` says what each message on its way will make the base record. For a node
  that has not given up a cycle, taken a command or been reset, `Forecast` bounds
  what will be recorded after each message of the channel by what the node has
  taken off or is about to; `Exactly` is the same with equality, for a node whose
  messages arrived undamaged. `RecordsNothingTwice` and `RecordsAll` assume
  `RecordsOwnCount`, which the run `shared_data_field` finds violated with two
  nodes; `OneNodeNothingTwice` and `OneNodeAll` show that with one node it holds.

**Power** (`NodeHardwareProofs`): for each place of main, what the pins, the power of
the serial port and the XBee are there. `PowerTypes`, `Listens`, `Speaks`.

**Serial driver** (`NodeHardwareProofs`). `SInv` relates the two indices of each ring
to how far main is in `buffer_get` or `buffer_put` and to whether it has made its
instruction since the last interrupt (`stepped`). `NeverRefused` assumes `Size > 2`:
with two slots, one of them always free, `sendch` meets a full ring; the build has
29. `ReceiveImplementsQueue` and `TransmitImplementsQueue` are the refinements of
`ByteQueue`: initial states map to initial states and each step to a step or a
stutter, the contents of the ring being the queue.

**Counter** (`NodeHardwareProofs`). `BytewiseIsAtomic` shows the refinement of
`AtomicCounter` for every width and radix under `MaxPulses < Radix`, with which no
carry leaves the lowest byte: every byte above it is zero (`CounterInv`), so that an
access of several bytes takes effect when it reaches the lowest. Beyond that the
interrupt between two bytes tears the value, as it does in the code.

**Data record** (`DataRecordProofs`). `FilesBounded` and `CrashLosesBounded`: `FileInv`
keeps each counter equal to, or ahead of, the lines it stands for. `AcceptedIsMeasured`
is arithmetic: the value of a row of characters by its prefixes; the sum of a
message's bytes as the sum of its pairs of characters; two messages that differ in one
character differ in one pair, by less than a byte, so that their sums differ modulo
one (`SameRest`) and the checksum tells them apart; a message that was cut has too few
characters. What is accepted is therefore the word that was sent (`ExchangeInv`), and
the quotients and rests by which the base takes it apart give back the count, the
voltage and the status (`TakenApart`). `RecordAssumption` says that the ranges of
the three fill the word exactly, as 16, 10 and 6 bits do.

**Frames** (`FrameReceiverProofs`). Whilst nothing has damaged a frame (`clean`),
`Aligned` says that the bytes in the ring and on the line are the rest of the frames
that are due, of whose first `messageState` bytes are past: frame `i` begins behind
byte `at[i]`. `Decoding` says what `receiveMessage` has made of those. A byte that
is taken then is the next of the first frame (`ByteTaken`), so that it either goes
on or completes it with a sum of 0xFF; the eight bits of the state do not overflow by
`FrameAssumption`. `FramesInOrder` follows for each of the five readers and
`NoFrameMissed` because frames without bytes are no frames.

**Node table** (`NodeTableProofs`), for any addresses, clients, size of the table and
number of mishaps, and every interleaving of callbacks with the steps of commands.
Each theorem excludes only what its property names in `blamed`; without that it fails,
as the code does. The invariant comes in three layers.
- *Turns.* As long as nothing has overlapped, a row that was looked up is still what
  it was when it is used: the node's own, or the row past the last if the node has
  none. Without that condition, it is still a row of the model, because the tests for
  a full table and for the row of a command bound `numberNodes` whatever is between
  them and the count. `TypeCorrectness` excludes nothing.
- *Table.* The rows in use are distinct and stay so in the middle of a deletion
  (`DistinctHeld`), the lines a restart would read name different nodes
  (`DistinctLines`), and these are nodes of the table (`LinesFiled`). `RowsDistinct` and
  `DeletedStaysDeleted` follow.
- *Seen.* Rows in use have their own connection or none (`OwnCons`), rows above the last
  one have none (`SpareRows`), or a new node would inherit one; a copy that is not
  outdated shows the table (`ViewShows`), so that the row a client names is the node
  it was shown (`RowNamed`). `RowsOwnConnection` and `DeletesTheNamed`, for any number
  of clients.

**Sessions** (`CommandSessionProofs`), also with callbacks between flag and buffer
and main between the two.
- `Sole`: a command or its answer is in one place: with the base still to read, on its
  way, in the hands of a callback, in a buffer. It stays in the buffer when it is
  handed over, so a further hand over has to be excluded by the flag:
- `Untorn`: as long as no query was served between a flag and its buffer, what main is
  going to read (the flag is set and no callback is filling, or main has begun to
  answer) was not handed over before. `AnswerHandedOnce` follows.
- For `AnswerIsOwn` an answer may be outstanding only for the window that is waiting
  for it, wherever it is, and what a reset flag leaves in its buffer is of no account.
- For `AnswerIsNoticed` there is, for the one window at work, exactly one of a query
  that was sent, one that main is answering and a reply on its way, and the answer is
  in that reply or noted once it was handed over.

**XBee window** (`ConfigDialogProofs`): what is marked or on its way was entered
(`NothingInvented`); what was sent and not lost is in the node's memory or on its way
to it, in order, followed by the command that saves it (`WritesAreSaved`); what is
wanted and not sent is marked (`FailuresMadeGood`).

**Upload** (`FirmwareUploadProofs`). `NodeComesBack`: the six commands for the pins have
a rank each, those on their way have ascending ranks, and the node's pins are those
of the last one that came. `BootloaderStays`: `Sound` says that the page in the
buffer begins in the application area, which ends with a page. A line may fill the
rest of one page and begin the next; what its words do is a recursive function
(`Filled`), which is shown to exist and to keep `Sound` by taking the least word for
which it would not.

`FileGetsIntoFlash` needs the most. It assumes a file in order (`FileInOrder`: each
line begins where the one before it ends, the last has no words), which is what
section 5 restricts the model to; the file of the run is one. Its parts:
- *Turns* (`QueueInv`). Each message has a turn: 1 to 3 the pins that start the
  bootloader, 4 the erase, `4 + i` line `i`, then the other pins. Those on their way
  have ascending turns, a line possibly several times; none is before a line that was
  taken. So a line that is heard is the next one, or the last that was taken again.
- *The flash* (`FlashState`). With the words up to `P` taken, those of complete
  pages are in the flash, those of the page of `P` in the buffer over blank words, and
  a page that is marked as erased has nothing else. A word more keeps that
  (`FillAdvances`), and so a line (`LineGrows`); a line that comes again refills the
  page it completed and programs the same words (`WordAgain`, `LineAgain`), but for a
  line that crosses into the next page.
- *Progress* (`Progress(k)`). The lines up to `k` have been taken, the flash is as far,
  and the rest of what was sent is on its way, unless the upload is excused (it has
  failed, a line was lost, or one that crosses a page came twice). When it ends
  nothing is on its way, so `k` is the last line, which programs what is in the buffer.
- *Answers*. Before the first line, an answer, to whatever it may be, shows that the
  node is in its bootloader; without this conjunct of `UploadInv` lines could be sent
  to a node that does not hear them and yet be taken as answered.

**Only model-checked.**
- Liveness (`EveryCycleEnds`, `KeepsReporting`, `AllSent`, `KeepsCycling`,
  `EveryCallEnds`, `EveryClickEnds`, `UploadEnds`): out of reach of the prover, as
  is ENABLED.
  Every other property that a passing run checks is a theorem.
- The recursive functions (`Sum`, `Filled`, the characters' value) for more than what
  the theorems use of them; there is no induction over data but by a least element.

## 5. Not modelled

- `libs/timer.c`, `project.h`, `defines*.h`: registers and constants.
- The base's options, logging and debug dumps, the GUI's layout, progress bar and
  messages: they keep no state that a property could relate to.
- The commands Q and M of the bootloaders, which no program of the repository
  sends: a string of the operator begins with D, an upload sends X and lines.
- `setNodeAwake` of the GUI, which nothing calls.
- Clicks in a window that itself waits in `sendAtCommand`, and its destruction
  while it waits.
- Hex files whose records are not of type 0 or 1 or have gaps; a line that does
  not begin with ':' ends an upload without an error.
- Undefined behaviour by a damaged length of a frame; what lies behind the array of
  the table, which the model continues by two rows.
- The command V and the mark of a valid row; what data and I/O callbacks do with a
  row that has moved since they looked it up.
- The programs under `Development/` other than the bootloaders and
  `XBee-node-test-sleep`: earlier or simplified firmware, emulators and utilities.

## 6. Plan

1. The data callback's use of a row that has moved: the count protocol over the rows
   of `NodeTable`, with the counts that are then recorded for another node.
2. What of `FileInFlash` holds for files with gaps: a page that is left half filled is
   programmed at the address of the page that was begun.
