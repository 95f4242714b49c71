----------------------------- MODULE DataRecord -----------------------------
(***************************************************************************)
(* The path of one measurement, from the node to the lines of the results  *)
(* file.  getXBeeADC takes the voltage from what the XBee has sampled.     *)
(* sendDataCommand and hexToString of XBee-firmware/xbee-firmware.c pack   *)
(* count, voltage and status in a word and write it with its checksum in   *)
(* hexadecimal; dataCallback of XBee-acqcontrol/xbee-acqcontrol.cpp reads  *)
(* the characters back, takes the word apart and writes a line, and        *)
(* dataFileCheck flushes the file and begins another one.  The radix and   *)
(* the widths are parameters.                                              *)
(***************************************************************************)
EXTENDS Integers, Sequences, FiniteSets, Functions

CONSTANTS Radix,         \* 16: the values of a digit; a byte has two digits
          WordBytes,     \* 4: the bytes of a word
          CountRange,    \* 2^16: the values of the count's part of the word
          VoltageRange,  \* 2^10: those of the voltage's part
          StatusRange,   \* 2^6: those of the status' part
          Measurements,  \* what the node may have to report
          Bad,           \* a character that is not hexadecimal
          FlushLimit,    \* FLUSH_LIMIT
          FileLimit      \* FILE_LIMIT

Byte == Radix * Radix

(* What a one in a digit stands for that has i digits behind it.           *)
Weight[i \in 0..(2 * WordBytes)] == IF i = 0 THEN 1 ELSE Weight[i - 1] * Radix

WordRange == Weight[2 * WordBytes]

ASSUME RecordAssumption ==
    /\ Radix \in Nat \ {0, 1} /\ WordBytes \in Nat \ {0}
    /\ {CountRange, VoltageRange, StatusRange} \subseteq Nat \ {0}
    /\ CountRange * VoltageRange * StatusRange = WordRange
    /\ Measurements \subseteq [count : Nat, voltage : Nat, status : Nat]
    /\ Bad \notin 0..(Radix - 1)
    /\ FlushLimit \in Nat /\ FileLimit \in Nat

VARIABLES measured,     \* what the node reports
          message,      \* the characters on their way to the base
          dataField,    \* the word the base has accepted
          stage,        \* of the exchange: "idle", "sent", "accepted"
          open,         \* fp is not NULL
          flushCount, fileCount,
          buffered,     \* lines written since the last flush
          lines         \* lines written to this file

exchangeVars == <<measured, message, dataField, stage>>
fileVars == <<open, flushCount, fileCount, buffered, lines>>
vars == <<exchangeVars, fileVars>>

Init == /\ measured \in Measurements
        /\ message = <<>> /\ dataField = 0 /\ stage = "idle"
        /\ open = TRUE
        /\ flushCount = 0 /\ fileCount = 0 /\ buffered = 0 /\ lines = 0

-----------------------------------------------------------------------------
(* A checksum of the lower byte only.                                      *)
ByteSumLow(word) == word % Byte

ByteSum(word) ==
    LET sum[n \in 0..WordBytes] ==
            IF n = 0 THEN 0 ELSE sum[n - 1] + ((word \div Weight[2 * (n - 1)]) % Byte)
    IN  sum[WordBytes]

(* What the XBee has sampled: whether there are levels of digital ports,   *)
(* two bytes; and the analogue ports enabled, of each of which there is a  *)
(* reading of two bytes, in their order.                                   *)
Port == 0..4
BatteryPort == 1

Reading(p, voltage) == IF p = BatteryPort THEN <<voltage \div Byte, voltage % Byte>>
                       ELSE <<p, Byte - 1>>

Sample(voltage, digital, analogue) ==
    LET Of(p) == IF p \in analogue THEN Reading(p, voltage) ELSE <<>>
    IN  [digital |-> digital, analogue |-> analogue,
         bytes |-> (IF digital THEN <<0, 1>> ELSE <<>>)
                   \o Of(0) \o Of(1) \o Of(2) \o Of(3) \o Of(4)]

(* The battery's port is one of those that are enabled.                    *)
Samples(voltage) == {Sample(voltage, digital, {BatteryPort} \cup others) :
                        digital \in BOOLEAN, others \in SUBSET Port}

(* It skips the digital levels and the ports before the one it wants.      *)
getXBeeADC(s, port) ==
    LET i == (IF s.digital THEN 2 ELSE 0) + 2 * Cardinality({p \in s.analogue : p < port})
    IN  s.bytes[i + 1] * Byte + s.bytes[i + 2]

(* The word of sendDataCommand: the voltage and the status are cut to      *)
(* their width, the count is not.                                          *)
DataWord(m) == (m.count + (m.voltage % VoltageRange) * CountRange
                + (m.status % StatusRange) * CountRange * VoltageRange) % WordRange

Digits(value, n) == [i \in 1..n |-> (value \div Weight[n - i]) % Radix]

(* hexToString: the checksum comes first, the most significant digit too.  *)
hexToString(word) == Digits((Byte - (ByteSum(word) % Byte)) % Byte, 2)
                     \o Digits(word, 2 * WordBytes)

(* A character that is not hexadecimal counts as zero.                     *)
Value(digits) ==
    LET value[n \in 0..Len(digits)] ==
            IF n = 0 THEN 0
            ELSE value[n - 1] * Radix + (IF digits[n] = Bad THEN 0 ELSE digits[n])
    IN  value[Len(digits)]

Checksum(chars) == Value(SubSeq(chars, 1, 2))

Count(chars) == Value(SubSeq(chars, 3, Len(chars)))

Length == 2 + 2 * WordBytes

Correct(chars) == /\ Len(chars) = Length
                  /\ Bad \notin Range(chars)
                  /\ (Checksum(chars) + ByteSum(Count(chars))) % Byte = 0

(* Damage changes one character or cuts the message short.                 *)
Damaged(chars) ==
    {[chars EXCEPT ![i] = d] : i \in DOMAIN chars, d \in 0..(Radix - 1) \cup {Bad}}
    \cup {SubSeq(chars, 1, n) : n \in 0..(Length - 1)}

Send == /\ stage = "idle"
        /\ \E s \in Samples(measured.voltage) :
              LET m == [measured EXCEPT !.voltage = getXBeeADC(s, BatteryPort)]
                  chars == hexToString(DataWord(m))
              IN  message' \in {chars} \cup Damaged(chars)
        /\ stage' = "sent"
        /\ UNCHANGED <<measured, dataField, fileVars>>

(* The word is set aside and acknowledged.                                 *)
ReceiveCorrect == /\ stage = "sent" /\ Correct(message)
                  /\ dataField' = Count(message)
                  /\ stage' = "accepted" /\ message' = <<>>
                  /\ UNCHANGED <<measured, fileVars>>

(* A NAK; the node sends its word again.                                   *)
ReceiveIncorrect == /\ stage = "sent" /\ ~Correct(message)
                    /\ stage' = "idle" /\ message' = <<>>
                    /\ UNCHANGED <<measured, dataField, fileVars>>

-----------------------------------------------------------------------------
(* The first file is written to for ever.                                  *)
RollsOverNever == FALSE

RollsOver == open /\ fileCount > FileLimit

(* One line later.                                                         *)
FlushesLate == open /\ flushCount > FlushLimit + 1

Flushes == open /\ flushCount > FlushLimit

(* dataFileCheck, after a line that left the file as given.  Both counters *)
(* are compared before they are incremented.  A file that is closed is     *)
(* flushed, and the next one is opened if that succeeds.                   *)
dataFileCheck(line, buffer) ==
    /\ IF RollsOver \/ ~open
       THEN \E success \in BOOLEAN :
                /\ open' = success
                /\ flushCount' = IF success THEN 0 ELSE IF Flushes THEN 0
                                 ELSE IF open THEN flushCount + 1 ELSE flushCount
                /\ fileCount' = 0
                /\ lines' = 0 /\ buffered' = 0
       ELSE /\ flushCount' = IF Flushes THEN 0 ELSE flushCount + 1
            /\ fileCount' = fileCount + 1
            /\ buffered' = IF Flushes THEN 0 ELSE buffer
            /\ lines' = line
            /\ UNCHANGED open

Line == [count   |-> dataField % CountRange,
         voltage |-> (dataField \div CountRange) % VoltageRange,
         status  |-> dataField \div (CountRange * VoltageRange)]

(* The node's acceptance: the line is written if there is a file, and only *)
(* then is the file looked after.                                          *)
Record == /\ stage = "accepted"
          /\ IF open THEN dataFileCheck(lines + 1, buffered + 1)
                     ELSE UNCHANGED fileVars
          /\ stage' = "idle"
          /\ measured' \in Measurements
          /\ UNCHANGED <<message, dataField>>

(* ioCallback writes its line if there is a file, and then looks after the *)
(* file in any case.                                                       *)
RecordIO == /\ dataFileCheck(IF open THEN lines + 1 ELSE lines,
                             IF open THEN buffered + 1 ELSE buffered)
            /\ UNCHANGED exchangeVars

(* A packet of the test firmware: its word goes to a variable that nothing *)
(* is printed from, and the line shows the word that was set aside last.   *)
RecordTest == /\ open
              /\ dataFileCheck(lines + 1, buffered + 1)
              /\ UNCHANGED exchangeVars

(* The base station ends and starts again: stdio's buffer is gone, and the *)
(* program ends if it cannot open a new file.                              *)
Restart == /\ open' = TRUE
           /\ flushCount' = 0 /\ fileCount' = 0 /\ lines' = 0 /\ buffered' = 0
           /\ UNCHANGED exchangeVars

Next == Send \/ ReceiveCorrect \/ ReceiveIncorrect \/ Record \/ RecordIO \/ RecordTest
        \/ Restart

Spec == Init /\ [][Next]_vars

-----------------------------------------------------------------------------
(* Whatever a message has suffered on its way, what dataCallback accepts   *)
(* and will print is what the node measured: count, voltage and status     *)
(* come apart as they were put together.  The count is right modulo its    *)
(* width; beyond it, it is carried into the voltage.                       *)
AcceptedGenuine ==
    stage = "accepted" =>
        /\ Line.count = measured.count % CountRange
        /\ measured.count < CountRange =>
               /\ Line.voltage = measured.voltage % VoltageRange
               /\ Line.status = measured.status % StatusRange

(* "If enough data has been written, flush the buffers to the file": the   *)
(* lines that a crash of the base can lose are bounded, through every      *)
(* change of the file and every failure to open one.                       *)
CrashLosesFew == buffered <= FlushLimit + 1

(* "When the file limit has been reached, close and reopen another file":  *)
(* no file grows beyond the limit, wherever its lines come from.           *)
FilesEnd == open => lines <= FileLimit + 1

=============================================================================
