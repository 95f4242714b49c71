------------------------- MODULE FrameReceiverProofs -------------------------
(***************************************************************************)
(* Proofs about FrameReceiver for every set of frames, every payload,      *)
(* every width of a byte and every bound: as long as nothing has happened  *)
(* that can damage a frame, each of the readers returns what was sent, in  *)
(* order and without a gap.                                                *)
(***************************************************************************)
EXTENDS FrameReceiver, Integers, WellFoundedInduction, TLAPS

Message == [length : Nat, type : Nat, data : Seq(Nat)]

Size(f) == Len(f.data) + 5

(* The bytes s are the rest of the frames q, of whose first one c bytes    *)
(* are past: frame i begins after byte at[i].                              *)
Aligned(q, s, c, at) ==
    /\ at \in [1..(Len(q) + 1) -> Int]
    /\ at[1] + c = 0 /\ at[Len(q) + 1] = Len(s)
    /\ \A i \in 1..Len(q) :
          /\ at[i + 1] = at[i] + Size(q[i]) /\ at[i + 1] <= Len(s)
          /\ \A j \in 1..Size(q[i]) : at[i] + j >= 1 => s[at[i] + j] = Encoded(q[i])[j]

(* What the receiver has made of the first c bytes of f.                   *)
Decoding(f, m, c) ==
    /\ c \in 0..(Len(f.data) + 4)
    /\ c = 2 => m.length = ((Len(f.data) + 1) \div Radix) * Radix
    /\ c >= 3 => m.length = Len(f.data) + 1
    /\ c >= 4 => /\ m.type = f.type /\ Len(m.data) = c - 4
                 /\ \A i \in 1..(c - 4) : m.data[i] = f.data[i]
    /\ c \in 1..3 => m.data = <<>>

InStep == /\ \E at : Aligned(due, ring \o wire, messageState, at)
          /\ messageState # 0 => due # <<>> /\ Decoding(Head(due), message, messageState)
          /\ pc = "idle" => messageState = 0

FrameTypes == /\ wire \in Seq(Nat) /\ ring \in Seq(Nat)
              /\ message \in Message /\ messageState \in Nat
              /\ due \in Seq(Frames) /\ clean \in BOOLEAN

FrameInv == FrameTypes /\ (clean => InStep)

-----------------------------------------------------------------------------
(* Sum is a remainder by Radix.  The recursive function it is defined by   *)
(* exists: the least n for which it does not would not be the least.       *)
LEMMA LeastElement ==
    ASSUME NEW T \in SUBSET Nat, T # {}
    PROVE  \E x \in T : \A y \in T : x <= y
<1>1. PICK x \in T : \A y \in T : ~(<<y, x>> \in OpToRel(<, Nat))
  BY WFMin, NatLessThanWellFounded
<1>2. \A y \in T : ~(y < x)
  BY <1>1 DEF OpToRel
<1> QED BY <1>2

Summed(g, bytes, n) ==
    g = [k \in 0..n |-> IF k = 0 THEN 0 ELSE (g[k - 1] + bytes[k]) % Radix]

LEMMA SumOne ==
    ASSUME NEW bytes, NEW n \in Nat, NEW g, Summed(g, bytes, n)
    PROVE  \E h : Summed(h, bytes, n + 1)
<1> DEFINE h == [k \in 0..(n + 1) |-> IF k = n + 1 THEN (g[n] + bytes[n + 1]) % Radix ELSE g[k]]
<1>1. ASSUME NEW k \in 0..(n + 1)
      PROVE  h[k] = IF k = 0 THEN 0 ELSE (h[k - 1] + bytes[k]) % Radix
  <2>1. CASE k = n + 1
    <3>1. k # 0 /\ k - 1 = n /\ h[n] = g[n]
      BY <2>1
    <3>2. h[k] = (g[n] + bytes[n + 1]) % Radix
      BY <2>1
    <3> HIDE DEF h
    <3> QED BY <2>1, <3>1, <3>2
  <2>2. CASE k # n + 1
    <3>1. k \in 0..n /\ h[k] = g[k]
      BY <2>2
    <3>2. g[k] = IF k = 0 THEN 0 ELSE (g[k - 1] + bytes[k]) % Radix
      BY <3>1 DEF Summed
    <3>3. k # 0 => h[k - 1] = g[k - 1]
      BY <3>1
    <3> HIDE DEF h
    <3> QED BY <3>1, <3>2, <3>3
  <2> QED BY <2>1, <2>2
<1>2. h = [k \in 0..(n + 1) |-> IF k = 0 THEN 0 ELSE (h[k - 1] + bytes[k]) % Radix]
  <2>1. h = [k \in 0..(n + 1) |-> h[k]]
    OBVIOUS
  <2> HIDE DEF h
  <2> QED BY <1>1, <2>1
<1> HIDE DEF h
<1> QED BY <1>2 DEF Summed

LEMMA SumExists ==
    ASSUME NEW bytes, NEW n \in Nat
    PROVE  \E g : Summed(g, bytes, n)
<1> DEFINE T == {k \in Nat : ~\E g : Summed(g, bytes, k)}
<1> SUFFICES ASSUME n \in T PROVE FALSE
  OBVIOUS
<1>1. PICK x \in T : \A y \in T : x <= y
  <2>1. T \in SUBSET Nat /\ T # {}
    OBVIOUS
  <2> HIDE DEF T
  <2> QED BY <2>1, LeastElement
<1>2. x # 0
  <2> SUFFICES \E g : Summed(g, bytes, 0)
    OBVIOUS
  <2> DEFINE g == [k \in 0..0 |-> 0]
  <2>1. g = [k \in 0..0 |-> IF k = 0 THEN 0 ELSE (g[k - 1] + bytes[k]) % Radix]
    OBVIOUS
  <2> HIDE DEF g
  <2> QED BY <2>1 DEF Summed
<1>3. x - 1 \in Nat /\ x - 1 \notin T /\ x - 1 + 1 = x
  BY <1>1, <1>2
<1>4. PICK g : Summed(g, bytes, x - 1)
  BY <1>3
<1>5. \E h : Summed(h, bytes, x)
  BY <1>3, <1>4, SumOne
<1> QED BY <1>5

LEMMA Remainder == ASSUME NEW r \in Nat \ {0}, NEW x \in Nat PROVE x % r \in 0..(r - 1)
OBVIOUS

LEMMA SumInRange == ASSUME NEW bytes \in Seq(Nat) PROVE Sum(bytes) \in 0..(Radix - 1)
<1> DEFINE h == CHOOSE sum : sum = [n \in 0..Len(bytes) |->
                                      IF n = 0 THEN 0 ELSE (sum[n - 1] + bytes[n]) % Radix]
           T == {k \in 0..Len(bytes) : ~(h[k] \in 0..(Radix - 1))}
<1>1. Sum(bytes) = h[Len(bytes)]
  BY Zenon DEF Sum
<1>2. Len(bytes) \in Nat /\ Radix \in Nat \ {0}
  BY FrameAssumption
<1>3. \E g : Summed(g, bytes, Len(bytes))
  BY <1>2, SumExists
<1>4. Summed(h, bytes, Len(bytes))
  BY Zenon, <1>3 DEF Summed
<1> HIDE DEF h
<1> SUFFICES ASSUME T # {} PROVE FALSE
  <2>1. Len(bytes) \notin T
    OBVIOUS
  <2> QED BY <1>1, <1>2, <2>1
<1>5. PICK x \in T : \A y \in T : x <= y
  <2>1. T \in SUBSET Nat
    OBVIOUS
  <2> HIDE DEF T
  <2> QED BY <2>1, LeastElement
<1>6. h[0] = 0 /\ 0 \in 0..(Radix - 1)
  BY <1>2, <1>4 DEF Summed
<1>7. x \in 0..Len(bytes) /\ x # 0 /\ x - 1 \in 0..Len(bytes) /\ x \in 1..Len(bytes)
  BY <1>6
<1>8. h[x - 1] \in Nat /\ bytes[x] \in Nat
  <2>1. x - 1 \notin T
    BY <1>5, <1>7
  <2>2. h[x - 1] \in 0..(Radix - 1)
    BY <1>7, <2>1
  <2> QED BY <1>2, <1>7, <2>2
<1>9. h[x] = (h[x - 1] + bytes[x]) % Radix
  BY <1>4, <1>7 DEF Summed
<1>10. h[x] \in 0..(Radix - 1)
  <2>1. PICK y \in Nat : y = h[x - 1] + bytes[x]
    BY <1>8
  <2> QED BY <1>2, <1>9, <2>1, Remainder
<1> QED BY <1>7, <1>10

-----------------------------------------------------------------------------
(* A frame on the line, byte by byte.                                      *)
LEMMA FrameType ==
    ASSUME NEW f \in Frames
    PROVE  /\ f.type \in Nat /\ f.data \in Seq(Nat) /\ Len(f.data) \in Nat
           /\ Size(f) \in Nat /\ Size(f) >= 5 /\ Size(f) < StateRange
<1>1. Radix \in Nat
  BY FrameAssumption
<1>2. 0..(Radix - 1) \subseteq Nat
  BY <1>1
<1>3. f \in [type : 0..(Radix - 1), data : Seq(0..(Radix - 1))]
  BY FrameAssumption
<1> DEFINE Byte == 0..(Radix - 1)
<1>4. f.type \in Byte /\ f.data \in Seq(Byte)
  BY <1>3
<1> HIDE DEF Byte
<1>5. Byte \subseteq Nat
  BY <1>2 DEF Byte
<1>6. f.type \in Nat /\ f.data \in Seq(Nat) /\ Len(f.data) \in Nat
  <2>1. PICK d \in Seq(Byte) : d = f.data
    BY <1>4
  <2>2. d \in [1..Len(d) -> Byte] /\ Len(d) \in Nat
    OBVIOUS
  <2>3. d \in [1..Len(d) -> Nat]
    BY <1>5, <2>2
  <2>4. d \in Seq(Nat)
    BY <2>2, <2>3
  <2> QED BY <1>4, <1>5, <2>1, <2>2, <2>4
<1>7. Len(f.data) + 5 < StateRange
  BY FrameAssumption
<1> QED BY <1>6, <1>7 DEF Size

LEMMA Complement ==
    ASSUME NEW r \in Nat \ {0}, NEW sum \in 0..(r - 1)
    PROVE  (sum + ((r - 1 + r - sum) % r) + 1) % r = 0
<1>1. (r - 1 + r - sum) % r = r - 1 - sum
  <2>1. r - 1 + r - sum = 1 * r + (r - 1 - sum) /\ r - 1 - sum \in 0..(r - 1)
    OBVIOUS
  <2> QED BY <2>1
<1>2. sum + (r - 1 - sum) + 1 = r
  OBVIOUS
<1>3. r % r = 0
  OBVIOUS
<1> QED BY <1>1, <1>2, <1>3

LEMMA Quotient ==
    ASSUME NEW r \in Nat \ {0}, NEW x \in Nat
    PROVE  x \div r \in Nat /\ x % r \in Nat /\ ((x \div r) * r) + (x % r) = x
OBVIOUS

LEMMA Joined ==
    ASSUME NEW a \in Seq(Nat), NEW b \in Seq(Nat)
    PROVE  /\ a \o b \in Seq(Nat) /\ Len(a \o b) = Len(a) + Len(b)
           /\ \A j \in 1..Len(a) : (a \o b)[j] = a[j]
           /\ \A j \in 1..Len(b) : (a \o b)[j + Len(a)] = b[j]
OBVIOUS

LEMMA EncodedBytes ==
    ASSUME NEW f \in Frames
    PROVE  /\ Encoded(f) \in Seq(Nat) /\ Len(Encoded(f)) = Size(f)
           /\ Encoded(f)[1] = Sync /\ Encoded(f)[2] = (Len(f.data) + 1) \div Radix
           /\ Encoded(f)[3] = (Len(f.data) + 1) % Radix /\ Encoded(f)[4] = f.type
           /\ \A j \in 1..Len(f.data) : Encoded(f)[j + 4] = f.data[j]
           /\ (Sum(<<f.type>> \o f.data) + Encoded(f)[Size(f)] + 1) % Radix = 0
<1>1. f.type \in Nat /\ f.data \in Seq(Nat) /\ Len(f.data) \in Nat
  BY FrameType
<1>2. Radix \in Nat \ {0} /\ Sync \in Nat
  BY FrameAssumption
<1> DEFINE length == Len(f.data) + 1
           body == <<f.type>> \o f.data
           high == length \div Radix
           low == length % Radix
           sum == Sum(body)
           check == (Radix - 1 + Radix - sum) % Radix
<1>3. length \in Nat /\ high \in Nat /\ low \in Nat
  <2>1. length \in Nat
    BY <1>1
  <2> HIDE DEF length
  <2> QED BY <1>2, <2>1, Quotient
<1>4. /\ body \in Seq(Nat) /\ Len(body) = length /\ body[1] = f.type
      /\ \A j \in 1..Len(f.data) : body[j + 1] = f.data[j]
  <2>1. PICK d \in Seq(Nat), t \in Nat : d = f.data /\ t = f.type
    BY <1>1
  <2>2. /\ <<t>> \o d \in Seq(Nat) /\ Len(<<t>> \o d) = Len(d) + 1 /\ (<<t>> \o d)[1] = t
        /\ \A j \in 1..Len(d) : (<<t>> \o d)[j + 1] = d[j]
    OBVIOUS
  <2> QED BY <2>1, <2>2
<1>5. sum \in 0..(Radix - 1)
  BY <1>4, SumInRange
<1>6. check \in Nat /\ (sum + check + 1) % Radix = 0
  <2> HIDE DEF sum
  <2>1. PICK x \in Nat : x = Radix - 1 + Radix - sum
    BY <1>2, <1>5
  <2> QED BY <1>2, <1>5, <2>1, Complement, Remainder
<1>7. Encoded(f) = <<Sync, high, low>> \o body \o <<check>>
  BY Zenon DEF Encoded
<1> HIDE DEF check, body, high, low, sum
<1>8. /\ Encoded(f) \in Seq(Nat) /\ Len(Encoded(f)) = length + 4
      /\ Encoded(f)[1] = Sync /\ Encoded(f)[2] = high /\ Encoded(f)[3] = low
      /\ \A j \in 1..length : Encoded(f)[j + 3] = body[j]
      /\ Encoded(f)[length + 4] = check
  <2> DEFINE start == <<Sync, high, low>>
             most == start \o body
  <2>1. start \in Seq(Nat) /\ Len(start) = 3
        /\ start[1] = Sync /\ start[2] = high /\ start[3] = low
    BY <1>2, <1>3
  <2> HIDE DEF start
  <2>2. /\ most \in Seq(Nat) /\ Len(most) = length + 3
        /\ \A j \in 1..3 : most[j] = start[j]
        /\ \A j \in 1..length : most[j + 3] = body[j]
    <3> HIDE DEF length
    <3>1. /\ most \in Seq(Nat) /\ Len(most) = Len(start) + Len(body)
          /\ \A j \in 1..Len(start) : most[j] = start[j]
          /\ \A j \in 1..Len(body) : most[j + Len(start)] = body[j]
      BY <1>4, <2>1, Joined
    <3> HIDE DEF most
    <3> QED BY <1>3, <1>4, <2>1, <3>1
  <2> HIDE DEF most
  <2>3. /\ most \o <<check>> \in Seq(Nat) /\ Len(most \o <<check>>) = length + 4
        /\ \A j \in 1..(length + 3) : (most \o <<check>>)[j] = most[j]
        /\ (most \o <<check>>)[length + 4] = check
    BY <1>3, <1>6, <2>2
  <2>4. Encoded(f) = most \o <<check>>
    BY <1>7 DEF most, start
  <2> HIDE DEF length
  <2>5. 1 \in 1..3 /\ 2 \in 1..3 /\ 3 \in 1..3 /\ 1..3 \subseteq 1..(length + 3)
        /\ \A j \in 1..length : j + 3 \in 1..(length + 3)
    BY <1>3
  <2> QED BY <2>1, <2>2, <2>3, <2>4, <2>5
<1>9. Encoded(f)[4] = f.type
  <2>1. 1 \in 1..length
    BY <1>3, <1>1
  <2>2. Encoded(f)[1 + 3] = body[1]
    BY <1>8, <2>1
  <2> QED BY <1>4, <2>2
<1>10. ASSUME NEW j \in 1..Len(f.data) PROVE Encoded(f)[j + 4] = f.data[j]
  <2>1. j + 1 \in 1..length /\ (j + 1) + 3 = j + 4
    BY <1>1
  <2>2. Encoded(f)[(j + 1) + 3] = body[j + 1]
    BY <1>8, <2>1
  <2> QED BY <1>4, <2>1, <2>2
<1>11. Size(f) = length + 4
  BY <1>1 DEF Size
<1> QED BY <1>6, <1>8, <1>9, <1>10, <1>11 DEF high, low, sum, body

-----------------------------------------------------------------------------
(* What Step does in each of the states.                                   *)
LEMMA StepCases ==
    ASSUME message \in Message, messageState \in Nat, NEW b \in Nat
    PROVE  /\ messageState = 0 =>
                Step(b) = [message |-> [message EXCEPT !.data = <<>>],
                           state |-> IF b = Sync THEN 1 ELSE 0, status |-> "incomplete"]
           /\ messageState = 1 =>
                Step(b) = [message |-> [message EXCEPT !.length = b * Radix],
                           state |-> 2, status |-> "incomplete"]
           /\ messageState = 2 =>
                Step(b) = [message |-> [message EXCEPT !.length = message.length + b],
                           state |-> 3, status |-> "incomplete"]
           /\ messageState = 3 =>
                Step(b) = [message |-> [message EXCEPT !.type = b],
                           state |-> 4, status |-> "incomplete"]
           /\ messageState >= 4 /\ messageState < message.length + 3 =>
                Step(b) = [message |-> [message EXCEPT !.data = Append(message.data, b)],
                           state |-> Next8(messageState), status |-> "incomplete"]
           /\ messageState >= 4 /\ messageState = message.length + 3 =>
                Step(b) = [message |-> message, state |-> 0, status |-> Checked(message, b)]
           /\ messageState >= 4 /\ messageState > message.length + 3 =>
                Step(b) = [message |-> message, state |-> messageState,
                           status |-> "frame_error"]
<1>1. message.length \in Nat
  BY DEF Message
<1> QED BY <1>1 DEF Step

LEMMA StepType ==
    ASSUME message \in Message, messageState \in Nat, NEW b \in Nat
    PROVE  Step(b).message \in Message /\ Step(b).state \in Nat
<1>1. message.length \in Nat
  BY DEF Message
<1>2. PICK r : r = Radix /\ r \in Nat
  BY FrameAssumption
<1>3. Next8(messageState) \in Nat
  <2>1. PICK w : w = StateRange /\ w \in Nat \ {0}
    BY FrameAssumption
  <2>2. PICK x : x = messageState + 1 /\ x \in Nat
    OBVIOUS
  <2> QED BY <2>1, <2>2, Quotient DEF Next8
<1>4. b * Radix \in Nat
  <2>1. b * r \in Nat
    BY <1>2
  <2> QED BY <1>2, <2>1
<1>5. /\ [message EXCEPT !.data = <<>>] \in Message
      /\ [message EXCEPT !.length = b * Radix] \in Message
      /\ [message EXCEPT !.length = message.length + b] \in Message
      /\ [message EXCEPT !.type = b] \in Message
      /\ [message EXCEPT !.data = Append(message.data, b)] \in Message
  <2>1. message.length + b \in Nat /\ <<>> \in Seq(Nat) /\ Append(message.data, b) \in Seq(Nat)
    BY <1>1 DEF Message
  <2> QED BY <1>4, <2>1 DEF Message
<1>6. \/ messageState = 0 \/ messageState = 1 \/ messageState = 2 \/ messageState = 3
      \/ (messageState >= 4 /\ messageState < message.length + 3)
      \/ (messageState >= 4 /\ messageState = message.length + 3)
      \/ (messageState >= 4 /\ messageState > message.length + 3)
  BY <1>1
<1>7. CASE messageState = 0
  BY <1>5, <1>7, StepCases
<1>8. CASE messageState = 1
  BY <1>5, <1>8, StepCases
<1>9. CASE messageState = 2
  BY <1>5, <1>9, StepCases
<1>10. CASE messageState = 3
  BY <1>5, <1>10, StepCases
<1>11. CASE messageState >= 4 /\ messageState < message.length + 3
  <2>1. PICK m \in Message : m = [message EXCEPT !.data = Append(message.data, b)]
    BY <1>5
  <2>2. Step(b) = [message |-> m, state |-> Next8(messageState), status |-> "incomplete"]
    BY <1>11, <2>1, StepCases
  <2> QED BY <1>3, <2>2
<1>12. CASE messageState >= 4 /\ messageState = message.length + 3
  BY <1>5, <1>12, StepCases
<1>13. CASE messageState >= 4 /\ messageState > message.length + 3
  BY <1>5, <1>13, StepCases
<1> QED BY <1>6, <1>7, <1>8, <1>9, <1>10, <1>11, <1>12, <1>13

(* The next byte of a frame that has been taken so far.                    *)
LEMMA StepDecodes ==
    ASSUME message \in Message, messageState \in Nat, NEW f \in Frames,
           Decoding(f, message, messageState), messageState < Len(f.data) + 4,
           NEW b \in Nat, b = Encoded(f)[messageState + 1]
    PROVE  /\ Step(b).status = "incomplete" /\ Step(b).state = messageState + 1
           /\ Decoding(f, Step(b).message, messageState + 1)
<1>1. PICK size \in Nat : size = Len(f.data)
  BY FrameType
<1>2. PICK c \in Nat : c = messageState
  OBVIOUS
<1>3. Len(f.data) + 5 < StateRange /\ StateRange \in Nat \ {0}
  BY FrameAssumption
<1>4. /\ Encoded(f)[1] = Sync /\ Encoded(f)[2] = (Len(f.data) + 1) \div Radix
       /\ Encoded(f)[3] = (Len(f.data) + 1) % Radix /\ Encoded(f)[4] = f.type
       /\ \A j \in 1..Len(f.data) : Encoded(f)[j + 4] = f.data[j]
  BY EncodedBytes
<1>5. CASE c = 0
  <2>1. b = Sync
    <3>1. messageState + 1 = 1
      BY <1>2, <1>5
    <3> QED BY <1>4, <3>1
  <2>2. Step(b) = [message |-> [message EXCEPT !.data = <<>>], state |-> 1,
                   status |-> "incomplete"]
    BY <1>2, <1>5, <2>1, StepCases
  <2>3. Decoding(f, [message EXCEPT !.data = <<>>], 1)
    BY <1>1 DEF Decoding, Message
  <2> QED BY <1>2, <1>5, <2>2, <2>3
<1>6. CASE c = 1
  <2>1. b = (Len(f.data) + 1) \div Radix
    <3>1. messageState + 1 = 2
      BY <1>2, <1>6
    <3> QED BY <1>4, <3>1
  <2>2. Step(b) = [message |-> [message EXCEPT !.length = b * Radix], state |-> 2,
                   status |-> "incomplete"]
    BY <1>2, <1>6, StepCases
  <2>3. message.data = <<>>
    BY <1>2, <1>6 DEF Decoding
  <2>4. PICK n : n = b * Radix
    OBVIOUS
  <2>5. [message EXCEPT !.length = n].data = message.data
        /\ [message EXCEPT !.length = n].length = n
    BY DEF Message
  <2>6. Decoding(f, [message EXCEPT !.length = n], 2)
    BY <1>1, <2>1, <2>3, <2>4, <2>5 DEF Decoding
  <2>7. messageState + 1 = 2
    BY <1>2, <1>6
  <2> QED BY <2>2, <2>4, <2>6, <2>7
<1>7. CASE c = 2
  <2>1. b = (Len(f.data) + 1) % Radix
    <3>1. messageState + 1 = 3
      BY <1>2, <1>7
    <3> QED BY <1>4, <3>1
  <2>2. Step(b) = [message |-> [message EXCEPT !.length = message.length + b], state |-> 3,
                   status |-> "incomplete"]
    BY <1>2, <1>7, StepCases
  <2>3. message.data = <<>> /\ message.length = ((Len(f.data) + 1) \div Radix) * Radix
    BY <1>2, <1>7 DEF Decoding
  <2>4. message.length + b = size + 1
    <3>1. PICK x \in Nat, r \in Nat \ {0} : x = size + 1 /\ r = Radix
      BY <1>1, FrameAssumption
    <3>2. ((x \div r) * r) + (x % r) = x
      BY <3>1, Quotient
    <3> QED BY <1>1, <2>1, <2>3, <3>1, <3>2
  <2>5. [message EXCEPT !.length = size + 1].data = message.data
        /\ [message EXCEPT !.length = size + 1].length = size + 1
    BY DEF Message
  <2>6. Decoding(f, [message EXCEPT !.length = size + 1], 3)
    BY <1>1, <2>3, <2>5 DEF Decoding
  <2> QED BY <1>2, <1>7, <2>2, <2>4, <2>6
<1>8. CASE c = 3
  <2>1. b = f.type
    <3>1. messageState + 1 = 4
      BY <1>2, <1>8
    <3> QED BY <1>4, <3>1
  <2>2. Step(b) = [message |-> [message EXCEPT !.type = b], state |-> 4,
                   status |-> "incomplete"]
    BY <1>2, <1>8, StepCases
  <2>3. message.data = <<>> /\ message.length = size + 1
    BY <1>1, <1>2, <1>8 DEF Decoding
  <2>4. /\ [message EXCEPT !.type = b].data = message.data
        /\ [message EXCEPT !.type = b].length = message.length
        /\ [message EXCEPT !.type = b].type = b
    BY DEF Message
  <2>5. Decoding(f, [message EXCEPT !.type = b], 4)
    BY <1>1, <2>1, <2>3, <2>4 DEF Decoding
  <2> QED BY <1>2, <1>8, <2>2, <2>5
<1>9. CASE c >= 4
  <2>1. message.length = size + 1 /\ message.type = f.type /\ Len(message.data) = c - 4
        /\ \A i \in 1..(c - 4) : message.data[i] = f.data[i]
    BY <1>1, <1>2, <1>9 DEF Decoding
  <2>2. c - 3 \in 1..size /\ (c - 3) + 4 = c + 1
    BY <1>1, <1>2, <1>9
  <2>3. b = f.data[c - 3]
    BY <1>1, <1>2, <1>4, <2>2
  <2>4. Next8(messageState) = c + 1
    <3>1. PICK w \in Nat : w = StateRange /\ c + 1 < w
      BY <1>1, <1>2, <1>3
    <3>2. (c + 1) % w = c + 1
      BY <3>1
    <3> QED BY <1>2, <3>1, <3>2 DEF Next8
  <2> DEFINE m == [message EXCEPT !.data = Append(message.data, b)]
  <2>5. Step(b) = [message |-> m, state |-> c + 1, status |-> "incomplete"]
    <3>1. messageState >= 4 /\ messageState < message.length + 3
      BY <1>1, <1>2, <1>9, <2>1
    <3> QED BY <2>4, <3>1, StepCases
  <2>6. PICK d \in Seq(Nat) : d = message.data
    BY DEF Message
  <2>7. m.length = message.length /\ m.type = message.type /\ m.data = Append(d, b)
    BY <2>6 DEF Message
  <2> HIDE DEF m
  <2>8. /\ Len(m.data) = c - 3
        /\ \A i \in 1..(c - 3) : m.data[i] = f.data[i]
    BY <1>9, <2>1, <2>3, <2>6, <2>7
  <2>9. Decoding(f, m, c + 1)
    BY <1>1, <1>2, <1>9, <2>1, <2>7, <2>8 DEF Decoding
  <2> QED BY <1>2, <2>5, <2>9
<1>10. c = 0 \/ c = 1 \/ c = 2 \/ c = 3 \/ c >= 4
  OBVIOUS
<1> QED BY <1>5, <1>6, <1>7, <1>8, <1>9, <1>10

LEMMA StepCompletes ==
    ASSUME message \in Message, messageState \in Nat, NEW f \in Frames,
           Decoding(f, message, messageState), messageState = Len(f.data) + 4,
           NEW b \in Nat, b = Encoded(f)[messageState + 1]
    PROVE  /\ Step(b).status = "complete" /\ Step(b).state = 0
           /\ Step(b).message.type = f.type /\ Step(b).message.data = f.data
<1>1. PICK size \in Nat : size = Len(f.data)
  BY FrameType
<1>2. /\ message.length = size + 1 /\ message.type = f.type /\ Len(message.data) = size
      /\ \A i \in 1..size : message.data[i] = f.data[i]
  BY <1>1 DEF Decoding
<1>3. message.data = f.data
  <2>1. PICK d \in Seq(Nat), e \in Seq(Nat) : d = message.data /\ e = f.data
    BY FrameType DEF Message
  <2>2. Len(d) = size /\ Len(e) = size /\ \A i \in 1..size : d[i] = e[i]
    BY <1>1, <1>2, <2>1
  <2>3. d \in [1..size -> Nat] /\ e \in [1..size -> Nat]
    BY <2>2
  <2>4. d = e
    BY <2>2, <2>3
  <2> QED BY <2>1, <2>2
<1>4. Step(b) = [message |-> message, state |-> 0, status |-> Checked(message, b)]
  <2>1. messageState >= 4 /\ messageState = message.length + 3
    BY <1>1, <1>2
  <2> QED BY <2>1, StepCases
<1>5. b = Encoded(f)[Size(f)]
  BY <1>1 DEF Size
<1>6. Checked(message, b) = "complete"
  BY <1>2, <1>3, <1>5, EncodedBytes DEF Checked
<1> QED BY <1>2, <1>3, <1>4, <1>6

-----------------------------------------------------------------------------
(* How the frames on their way and their bytes go together.                *)
LEMMA EncodedType ==
    ASSUME NEW f \in Frames
    PROVE  Encoded(f) \in Seq(Nat) /\ Len(Encoded(f)) = Size(f)
BY EncodedBytes

LEMMA AlignedByte ==
    ASSUME NEW q \in Seq(Frames), NEW s \in Seq(Nat), NEW c \in Nat, NEW at,
           Aligned(q, s, c, at), s # <<>>
    PROVE  /\ q # <<>> /\ q[1] \in Frames /\ Size(q[1]) \in Nat /\ Len(q) \in Nat \ {0}
           /\ c < Size(q[1]) => s[1] = Encoded(q[1])[c + 1]
<1>1. Len(s) \in Nat \ {0} /\ Len(q) \in Nat
  OBVIOUS
<1>2. Len(q) # 0
  BY <1>1 DEF Aligned
<1>3. q # <<>> /\ q[1] \in Frames /\ 1 \in 1..Len(q)
  BY <1>1, <1>2
<1>4. Size(q[1]) \in Nat
  BY <1>3, FrameType
<1>5. ASSUME c < Size(q[1]) PROVE s[1] = Encoded(q[1])[c + 1]
  <2>1. c + 1 \in 1..Size(q[1])
    BY <1>4, <1>5
  <2>2. at[1] + (c + 1) = 1
    <3>1. at[1] + c = 0 /\ 1 \in 1..(Len(q) + 1) /\ at \in [1..(Len(q) + 1) -> Int]
      BY <1>1 DEF Aligned
    <3>2. PICK a \in Int : a = at[1]
      BY <3>1
    <3>3. a + c = 0
      BY <3>1, <3>2
    <3>4. a + (c + 1) = 1
      BY <3>3
    <3> QED BY <3>2, <3>4
  <2>3. at[1] + (c + 1) >= 1 => s[at[1] + (c + 1)] = Encoded(q[1])[c + 1]
    BY <1>3, <2>1 DEF Aligned
  <2> QED BY <2>1, <2>2, <2>3
<1> QED BY <1>1, <1>2, <1>3, <1>4, <1>5

LEMMA AlignedSent ==
    ASSUME NEW q \in Seq(Frames), NEW s \in Seq(Nat), NEW c \in Nat, NEW at,
           Aligned(q, s, c, at), NEW f \in Frames
    PROVE  \E after : Aligned(Append(q, f), s \o Encoded(f), c, after)
<1> DEFINE r == Append(q, f)
           t == s \o Encoded(f)
           after == [i \in 1..(Len(q) + 2) |->
                        IF i = Len(q) + 2 THEN Len(s) + Size(f) ELSE at[i]]
<1>1. /\ Len(q) \in Nat /\ Len(r) = Len(q) + 1 /\ r[Len(q) + 1] = f
      /\ \A i \in 1..Len(q) : r[i] = q[i] /\ q[i] \in Frames
  OBVIOUS
<1>2. /\ Len(s) \in Nat /\ Len(t) = Len(s) + Size(f)
      /\ \A j \in 1..Len(s) : t[j] = s[j]
      /\ \A j \in 1..Size(f) : t[j + Len(s)] = Encoded(f)[j]
  <2>1. /\ t \in Seq(Nat) /\ Len(t) = Len(s) + Len(Encoded(f))
        /\ \A j \in 1..Len(s) : t[j] = s[j]
        /\ \A j \in 1..Len(Encoded(f)) : t[j + Len(s)] = Encoded(f)[j]
    BY EncodedType, Joined
  <2>2. Len(Encoded(f)) = Size(f)
    BY EncodedType
  <2> HIDE DEF t
  <2> QED BY <2>1, <2>2
<1>3. Size(f) \in Nat /\ \A i \in 1..Len(q) : Size(q[i]) \in Nat
  BY <1>1, FrameType
<1>4. /\ at \in [1..(Len(q) + 1) -> Int] /\ at[1] + c = 0 /\ at[Len(q) + 1] = Len(s)
      /\ \A i \in 1..Len(q) :
            /\ at[i + 1] = at[i] + Size(q[i]) /\ at[i + 1] <= Len(s)
            /\ \A j \in 1..Size(q[i]) : at[i] + j >= 1 => s[at[i] + j] = Encoded(q[i])[j]
  BY DEF Aligned
<1> HIDE DEF r, t
<1>5. /\ after \in [1..(Len(q) + 2) -> Int] /\ after[Len(q) + 2] = Len(s) + Size(f)
      /\ \A i \in 1..(Len(q) + 1) : after[i] = at[i]
  BY <1>1, <1>2, <1>3, <1>4
<1> HIDE DEF after
<1>6. ASSUME NEW i \in 1..Len(r)
      PROVE  /\ after[i + 1] = after[i] + Size(r[i]) /\ after[i + 1] <= Len(t)
             /\ \A j \in 1..Size(r[i]) : after[i] + j >= 1 => t[after[i] + j] = Encoded(r[i])[j]
  <2>1. CASE i = Len(q) + 1
    <3>1. r[i] = f /\ after[i] = Len(s) /\ after[i + 1] = Len(s) + Size(f)
      BY <1>1, <1>4, <1>5, <2>1
    <3>2. ASSUME NEW j \in 1..Size(f) PROVE t[Len(s) + j] = Encoded(f)[j]
      <4>1. Len(s) + j = j + Len(s)
        BY <1>2, <1>3
      <4> QED BY <1>2, <4>1
    <3> QED BY <1>2, <1>3, <3>1, <3>2
  <2>2. CASE i # Len(q) + 1
    <3>1. i \in 1..Len(q) /\ i + 1 \in 1..(Len(q) + 1) /\ i \in 1..(Len(q) + 1)
      BY <1>1, <2>2
    <3>2. r[i] = q[i] /\ after[i] = at[i] /\ after[i + 1] = at[i + 1] /\ at[i] \in Int
      BY <1>1, <1>4, <1>5, <3>1
    <3>3. after[i + 1] = after[i] + Size(r[i]) /\ after[i + 1] <= Len(t)
      BY <1>2, <1>3, <1>4, <3>1, <3>2
    <3>4. ASSUME NEW j \in 1..Size(q[i]), at[i] + j >= 1 PROVE t[at[i] + j] = Encoded(q[i])[j]
      <4>1. at[i] + j \in 1..Len(s)
        <5>1. PICK a \in Int, z \in Nat, n \in Nat : a = at[i] /\ z = Size(q[i]) /\ n = Len(s)
          BY <1>2, <1>3, <3>1, <3>2
        <5>2. a + z <= n
          BY <1>4, <3>1, <5>1
        <5>3. a + j \in 1..n
          BY <3>4, <5>1, <5>2
        <5> QED BY <5>1, <5>3
      <4>2. t[at[i] + j] = s[at[i] + j]
        BY <1>2, <4>1
      <4> QED BY <1>4, <3>1, <3>4, <4>2
    <3> QED BY <3>2, <3>3, <3>4
  <2> QED BY <2>1, <2>2
<1>7. Len(r) + 1 = Len(q) + 2 /\ 1 \in 1..(Len(q) + 1)
  BY <1>1
<1>8. Aligned(r, t, c, after)
  BY <1>2, <1>4, <1>5, <1>6, <1>7 DEF Aligned
<1> QED BY <1>8 DEF r, t

LEMMA AlignedTaken ==
    ASSUME NEW q \in Seq(Frames), NEW s \in Seq(Nat), NEW c \in Nat, NEW at,
           Aligned(q, s, c, at), s # <<>>
    PROVE  \E after : Aligned(q, Tail(s), c + 1, after)
<1> DEFINE t == Tail(s)
           after == [i \in 1..(Len(q) + 1) |-> at[i] - 1]
<1>1. /\ Len(s) \in Nat /\ Len(t) = Len(s) - 1 /\ Len(q) \in Nat
      /\ \A j \in 1..Len(t) : t[j] = s[j + 1]
  OBVIOUS
<1>2. \A i \in 1..Len(q) : Size(q[i]) \in Nat
  <2>1. \A i \in 1..Len(q) : q[i] \in Frames
    OBVIOUS
  <2> QED BY <2>1, FrameType
<1>3. /\ at \in [1..(Len(q) + 1) -> Int] /\ at[1] + c = 0 /\ at[Len(q) + 1] = Len(s)
      /\ \A i \in 1..Len(q) :
            /\ at[i + 1] = at[i] + Size(q[i]) /\ at[i + 1] <= Len(s)
            /\ \A j \in 1..Size(q[i]) : at[i] + j >= 1 => s[at[i] + j] = Encoded(q[i])[j]
  BY DEF Aligned
<1>4. /\ after \in [1..(Len(q) + 1) -> Int]
      /\ \A i \in 1..(Len(q) + 1) : after[i] = at[i] - 1 /\ at[i] \in Int
  <2>1. \A i \in 1..(Len(q) + 1) : at[i] \in Int
    BY <1>3
  <2>2. \A i \in 1..(Len(q) + 1) : at[i] - 1 \in Int
    BY <2>1
  <2> QED BY <2>1, <2>2
<1> HIDE DEF after, t
<1>5. after[1] + (c + 1) = 0 /\ after[Len(q) + 1] = Len(t)
  <2>1. 1 \in 1..(Len(q) + 1) /\ Len(q) + 1 \in 1..(Len(q) + 1)
    BY <1>1
  <2>2. after[1] = at[1] - 1 /\ after[Len(q) + 1] = at[Len(q) + 1] - 1
    BY <1>4, <2>1
  <2>3. PICK a \in Int : a = at[1]
    BY <1>3, <2>1
  <2>4. a - 1 + (c + 1) = 0
    BY <1>3, <2>3
  <2> QED BY <1>1, <1>3, <2>2, <2>3, <2>4
<1>6. ASSUME NEW i \in 1..Len(q)
      PROVE  /\ after[i + 1] = after[i] + Size(q[i]) /\ after[i + 1] <= Len(t)
             /\ \A j \in 1..Size(q[i]) : after[i] + j >= 1 => t[after[i] + j] = Encoded(q[i])[j]
  <2>1. i \in 1..(Len(q) + 1) /\ i + 1 \in 1..(Len(q) + 1)
    BY <1>1
  <2>2. PICK a \in Int, z \in Nat, n \in Nat : a = at[i] /\ z = Size(q[i]) /\ n = Len(s)
    BY <1>1, <1>2, <1>4, <2>1
  <2>3. at[i + 1] = a + z /\ a + z <= n
    BY <1>3, <2>2
  <2>4. after[i] = a - 1 /\ after[i + 1] = (a + z) - 1 /\ Len(t) = n - 1
    BY <1>1, <1>4, <2>1, <2>2, <2>3
  <2>5. after[i + 1] = after[i] + Size(q[i]) /\ after[i + 1] <= Len(t)
    <3>1. (a + z) - 1 = (a - 1) + z /\ (a + z) - 1 <= n - 1
      BY <2>3
    <3> QED BY <2>2, <2>4, <3>1
  <2>6. ASSUME NEW j \in 1..Size(q[i]), after[i] + j >= 1
        PROVE  t[after[i] + j] = Encoded(q[i])[j]
    <3>1. PICK k \in Int : k = (a - 1) + j
      BY <2>2
    <3>2. k \in 1..(n - 1) /\ k + 1 = a + j /\ a + j >= 1
      <4>1. j \in 1..z /\ k >= 1
        BY <2>2, <2>4, <2>6, <3>1
      <4> QED BY <2>3, <3>1, <4>1
    <3>3. t[k] = s[k + 1]
      BY <2>4, <3>2, <1>1
    <3>4. s[a + j] = Encoded(q[i])[j]
      BY <1>3, <2>2, <3>2
    <3> QED BY <2>4, <3>1, <3>2, <3>3, <3>4
  <2> QED BY <2>5, <2>6
<1>7. Aligned(q, t, c + 1, after)
  BY <1>4, <1>5, <1>6 DEF Aligned
<1> QED BY <1>7 DEF t

(* The first frame is past with its last byte.                             *)
LEMMA AlignedNext ==
    ASSUME NEW q \in Seq(Frames), q # <<>>, NEW s \in Seq(Nat), NEW c \in Nat, NEW at,
           Aligned(q, s, c, at), c = Size(q[1])
    PROVE  \E after : Aligned(Tail(q), s, 0, after)
<1> DEFINE r == Tail(q)
           after == [i \in 1..Len(q) |-> at[i + 1]]
<1>1. /\ Len(q) \in Nat \ {0} /\ Len(r) = Len(q) - 1
      /\ \A i \in 1..Len(r) : r[i] = q[i + 1]
  OBVIOUS
<1>2. /\ at \in [1..(Len(q) + 1) -> Int] /\ at[1] + c = 0 /\ at[Len(q) + 1] = Len(s)
      /\ \A i \in 1..Len(q) :
            /\ at[i + 1] = at[i] + Size(q[i]) /\ at[i + 1] <= Len(s)
            /\ \A j \in 1..Size(q[i]) : at[i] + j >= 1 => s[at[i] + j] = Encoded(q[i])[j]
  BY DEF Aligned
<1>3. after \in [1..Len(q) -> Int] /\ \A i \in 1..Len(q) : after[i] = at[i + 1]
  BY <1>1, <1>2
<1> HIDE DEF after, r
<1>4. after[1] = 0 /\ after[Len(q)] = Len(s)
  <2>1. at[1 + 1] = at[1] + Size(q[1])
    BY <1>1, <1>2
  <2>2. after[1] = at[1 + 1] /\ after[Len(q)] = at[Len(q) + 1]
    BY <1>1, <1>3
  <2> QED BY <1>2, <2>1, <2>2
<1>5. ASSUME NEW i \in 1..Len(r)
      PROVE  /\ after[i + 1] = after[i] + Size(r[i]) /\ after[i + 1] <= Len(s)
             /\ \A j \in 1..Size(r[i]) : after[i] + j >= 1 => s[after[i] + j] = Encoded(r[i])[j]
  <2>1. i \in 1..Len(q) /\ i + 1 \in 1..Len(q)
    BY <1>1
  <2>2. r[i] = q[i + 1] /\ after[i] = at[i + 1] /\ after[i + 1] = at[(i + 1) + 1]
    BY <1>1, <1>3, <2>1
  <2> QED BY <1>2, <2>1, <2>2
<1>6. Len(r) + 1 = Len(q) /\ 0 + 0 = 0
  <2>1. PICK n \in Nat : n = Len(q)
    BY <1>1
  <2>2. Len(r) = n - 1
    BY <1>1, <2>1
  <2> QED BY <2>1, <2>2
<1>7. Aligned(r, s, 0, after)
  BY <1>3, <1>4, <1>5, <1>6 DEF Aligned
<1> QED BY <1>7 DEF r

(* Where no byte is left no frame is.                                      *)
LEMMA AlignedEmpty ==
    ASSUME NEW q \in Seq(Frames), NEW at, Aligned(q, <<>>, 0, at)
    PROVE  q = <<>>
<1> SUFFICES ASSUME q # <<>> PROVE FALSE
  OBVIOUS
<1>1. Len(q) \in Nat \ {0} /\ 1 \in 1..Len(q) /\ q[1] \in Frames
  OBVIOUS
<1>2. at[1 + 1] = at[1] + Size(q[1]) /\ at[1 + 1] <= Len(<<>>)
        /\ at[1] + 0 = 0 /\ at[1] \in Int
  BY <1>1 DEF Aligned
<1>3. Size(q[1]) \in Nat /\ Size(q[1]) >= 5
  BY <1>1, FrameType
<1> QED BY <1>2, <1>3

-----------------------------------------------------------------------------
LEMMA RestOfFrames ==
    ASSUME NEW q \in Seq(Frames)
    PROVE  /\ SubSeq(q, 2, Len(q)) \in Seq(Frames)
           /\ q # <<>> => SubSeq(q, 2, Len(q)) = Tail(q)
<1>1. CASE q = <<>>
  <2>1. SubSeq(q, 2, Len(q)) = <<>>
    BY <1>1
  <2> QED BY <1>1, <2>1
<1>2. CASE q # <<>>
  <2>1. SubSeq(q, 2, Len(q)) = Tail(q) /\ Tail(q) \in Seq(Frames)
    BY <1>2
  <2> QED BY <2>1
<1> QED BY <1>1, <1>2

LEMMA AlignedNothing ==
    ASSUME NEW q, NEW s, Len(q) = 0, Len(s) = 0
    PROVE  \E at : Aligned(q, s, 0, at)
<1> DEFINE at == [i \in 1..1 |-> 0]
<1>1. at \in [1..(0 + 1) -> Int] /\ at[1] + 0 = 0 /\ at[0 + 1] = 0
  OBVIOUS
<1> HIDE DEF at
<1>2. Aligned(q, s, 0, at)
  BY <1>1 DEF Aligned
<1> QED BY <1>2

LEMMA MovedOn ==
    ASSUME NEW r \in Seq(Nat), NEW w \in Seq(Nat), w # <<>>
    PROVE  Append(r, Head(w)) \o Tail(w) = r \o w
<1>1. /\ Head(w) = w[1] /\ w[1] \in Nat /\ Tail(w) \in Seq(Nat) /\ Len(Tail(w)) = Len(w) - 1
      /\ Len(w) \in Nat \ {0} /\ Len(r) \in Nat
      /\ \A j \in 1..(Len(w) - 1) : Tail(w)[j] = w[j + 1]
  OBVIOUS
<1> DEFINE a == Append(r, Head(w))
           t == Tail(w)
<1>2. a \in Seq(Nat) /\ Len(a) = Len(r) + 1 /\ a[Len(r) + 1] = w[1]
      /\ \A j \in 1..Len(r) : a[j] = r[j]
  BY <1>1
<1>3. /\ a \o t \in Seq(Nat) /\ Len(a \o t) = Len(r) + Len(w)
      /\ \A j \in 1..Len(a) : (a \o t)[j] = a[j]
      /\ \A j \in 1..Len(t) : (a \o t)[j + Len(a)] = t[j]
  <2> HIDE DEF a
  <2>1. t \in Seq(Nat) /\ Len(t) = Len(w) - 1
    BY <1>1
  <2> HIDE DEF t
  <2>2. /\ a \o t \in Seq(Nat) /\ Len(a \o t) = Len(a) + Len(t)
        /\ \A j \in 1..Len(a) : (a \o t)[j] = a[j]
        /\ \A j \in 1..Len(t) : (a \o t)[j + Len(a)] = t[j]
    BY <1>2, <2>1, Joined
  <2>3. PICK n \in Nat, m \in Nat \ {0} : n = Len(r) /\ m = Len(w)
    BY <1>1
  <2>4. Len(a) + Len(t) = Len(r) + Len(w)
    <3>1. (n + 1) + (m - 1) = n + m
      OBVIOUS
    <3> QED BY <1>2, <2>1, <2>3, <3>1
  <2> QED BY <2>2, <2>4
<1>4. /\ r \o w \in Seq(Nat) /\ Len(r \o w) = Len(r) + Len(w)
      /\ \A j \in 1..Len(r) : (r \o w)[j] = r[j]
      /\ \A j \in 1..Len(w) : (r \o w)[j + Len(r)] = w[j]
  BY Joined
<1>5. PICK n \in Nat, m \in Nat \ {0} : n = Len(r) /\ m = Len(w)
  BY <1>1
<1>6. PICK x \in Seq(Nat), y \in Seq(Nat) : x = a \o t /\ y = r \o w
  BY <1>3, <1>4
<1>7. ASSUME NEW j \in 1..(n + m) PROVE x[j] = y[j]
  <2>1. CASE j \in 1..n
    <3>1. x[j] = r[j]
      <4>1. j \in 1..Len(a)
        BY <1>2, <1>5, <2>1
      <4> HIDE DEF a, t
      <4> QED BY <1>2, <1>3, <1>5, <1>6, <2>1, <4>1
    <3>2. y[j] = r[j]
      BY <1>4, <1>5, <1>6, <2>1
    <3> QED BY <3>1, <3>2
  <2>2. CASE j = n + 1
    <3>1. x[j] = w[1]
      <4>1. j \in 1..Len(a) /\ j = Len(r) + 1
        BY <1>2, <1>5, <2>2
      <4> HIDE DEF a, t
      <4> QED BY <1>2, <1>3, <1>6, <4>1
    <3>2. y[j] = w[1]
      <4>1. 1 \in 1..Len(w) /\ j = 1 + Len(r)
        BY <1>5, <2>2
      <4> QED BY <1>4, <1>6, <4>1
    <3> QED BY <3>1, <3>2
  <2>3. CASE j > n + 1
    <3>1. PICK k \in 1..(m - 1) : j = k + (n + 1)
      <4>1. j - (n + 1) \in 1..(m - 1) /\ j = (j - (n + 1)) + (n + 1)
        BY <2>3
      <4> QED BY <4>1
    <3>2. x[j] = w[k + 1]
      <4>1. k \in 1..Len(t) /\ j = k + Len(a) /\ t[k] = w[k + 1]
        BY <1>1, <1>2, <1>5, <3>1
      <4> HIDE DEF a, t
      <4> QED BY <1>3, <1>6, <4>1
    <3>3. y[j] = w[k + 1]
      <4>1. k + 1 \in 1..Len(w) /\ j = (k + 1) + Len(r)
        BY <1>5, <3>1
      <4> QED BY <1>4, <1>6, <4>1
    <3> QED BY <3>2, <3>3
  <2> QED BY <2>1, <2>2, <2>3
<1>8. x = y
  <2>1. Len(x) = n + m /\ Len(y) = n + m
    BY <1>3, <1>4, <1>5, <1>6
  <2> QED BY <1>7, <2>1
<1> QED BY <1>6, <1>8

LEMMA InitFrameInv == Init => FrameInv
<1> SUFFICES ASSUME Init PROVE FrameInv
  OBVIOUS
<1>1. /\ wire = <<>> /\ ring = <<>> /\ due = <<>> /\ messageState = 0 /\ clean = TRUE
      /\ message = NoMessage /\ pc = "idle"
  BY DEF Init
<1>2. NoMessage \in Message
  BY DEF NoMessage, Message
<1>3. FrameTypes
  <2>1. <<>> \in Seq(Nat) /\ <<>> \in Seq(Frames)
    OBVIOUS
  <2> QED BY <1>1, <1>2, <2>1 DEF FrameTypes
<1>4. \E at : Aligned(due, ring \o wire, messageState, at)
  <2>1. Len(due) = 0 /\ Len(ring \o wire) = 0
    BY <1>1
  <2> QED BY <1>1, <2>1, AlignedNothing
<1> QED BY <1>1, <1>3, <1>4 DEF FrameInv, InStep

LEMMA XBeeSendsKeeps == ASSUME FrameInv, NEW f \in Frames, XBeeSends(f) PROVE FrameInv'
<1>1. /\ wire' = wire \o Encoded(f) /\ due' = Append(due, f)
      /\ UNCHANGED <<ring, message, messageState, pc, clean>>
  BY DEF XBeeSends, callVars
<1>2. FrameTypes
  BY DEF FrameInv
<1>3. FrameTypes'
  BY <1>1, <1>2, EncodedType DEF FrameTypes
<1>4. ASSUME clean' PROVE InStep'
  <2>1. InStep
    BY <1>1, <1>4 DEF FrameInv
  <2> DEFINE s == ring \o wire
  <2>2. s \in Seq(Nat) /\ due \in Seq(Frames) /\ messageState \in Nat
    BY <1>2 DEF FrameTypes
  <2>3. PICK at : Aligned(due, s, messageState, at)
    BY <2>1 DEF InStep
  <2>4. ring' \o wire' = s \o Encoded(f)
    <3>1. PICK e \in Seq(Nat) : e = Encoded(f)
      BY EncodedType
    <3>2. ring \o (wire \o e) = (ring \o wire) \o e
      BY <1>2, <3>1 DEF FrameTypes
    <3> QED BY <1>1, <3>1, <3>2
  <2> HIDE DEF s
  <2>5. \E after : Aligned(Append(due, f), s \o Encoded(f), messageState, after)
    BY <2>2, <2>3, AlignedSent
  <2>6. messageState # 0 => due' # <<>> /\ Head(due') = Head(due)
    BY <1>1, <2>1, <2>2 DEF InStep
  <2>7. \E after : Aligned(due', ring' \o wire', messageState', after)
    BY <1>1, <2>4, <2>5
  <2>8. messageState' # 0 => due' # <<>> /\ Decoding(Head(due'), message', messageState')
    BY <1>1, <2>1, <2>6 DEF InStep
  <2>9. pc' = "idle" => messageState' = 0
    BY <1>1, <2>1 DEF InStep
  <2> QED BY <2>7, <2>8, <2>9 DEF InStep
<1> QED BY <1>3, <1>4 DEF FrameInv

LEMMA ReceiveKeeps == FrameInv /\ Receive => FrameInv'
<1> SUFFICES ASSUME FrameInv, Receive PROVE FrameInv'
  OBVIOUS
<1>1. /\ wire # <<>> /\ wire' = Tail(wire)
      /\ ring' = IF Len(ring) < RingSize THEN Append(ring, Head(wire)) ELSE ring
      /\ clean' = (clean /\ Len(ring) < RingSize)
      /\ UNCHANGED <<due, message, messageState, pc>>
  BY DEF Receive, callVars
<1>2. FrameTypes
  BY DEF FrameInv
<1>3. FrameTypes'
  <2>1. wire' \in Seq(Nat) /\ ring' \in Seq(Nat)
    BY <1>1, <1>2 DEF FrameTypes
  <2>2. clean' \in BOOLEAN
    BY <1>1
  <2> QED BY <1>1, <1>2, <2>1, <2>2 DEF FrameTypes
<1>4. ASSUME clean' PROVE InStep'
  <2>1. InStep /\ ring' = Append(ring, Head(wire))
    BY <1>1, <1>4 DEF FrameInv
  <2>2. ring' \o wire' = ring \o wire
    BY <1>1, <1>2, <2>1, MovedOn DEF FrameTypes
  <2>3. \E at : Aligned(due', ring' \o wire', messageState', at)
    BY <1>1, <2>1, <2>2 DEF InStep
  <2> QED BY <1>1, <2>1, <2>3 DEF InStep
<1> QED BY <1>3, <1>4 DEF FrameInv

LEMMA BeginsKeeps == ASSUME FrameInv, NEW kind, Begins(kind) PROVE FrameInv'
<1>1. /\ pc = "idle" /\ messageState' = 0
      /\ clean' = (clean \/ Rest) /\ due' = IF ~clean /\ Rest THEN <<>> ELSE due
      /\ UNCHANGED <<wire, ring, message>>
  BY DEF Begins, StateReset, lineVars
<1>2. FrameTypes
  BY DEF FrameInv
<1>3. FrameTypes'
  <2>1. due' \in Seq(Frames)
    BY <1>1, <1>2 DEF FrameTypes
  <2>2. clean' \in BOOLEAN
    BY <1>1
  <2> QED BY <1>1, <1>2, <2>1, <2>2 DEF FrameTypes
<1>4. CASE clean
  <2>1. InStep /\ due' = due /\ messageState = 0
    BY <1>1, <1>4 DEF FrameInv, InStep
  <2>2. \E at : Aligned(due', ring' \o wire', messageState', at)
    BY <1>1, <2>1 DEF InStep
  <2> QED BY <1>1, <1>3, <2>2 DEF InStep, FrameInv
<1>5. CASE ~clean /\ Rest
  <2>1. due' = <<>> /\ wire' = <<>> /\ ring' = <<>>
    BY <1>1, <1>5 DEF Rest
  <2>2. PICK q, t : q = due' /\ t = ring' \o wire'
    OBVIOUS
  <2>3. Len(q) = 0 /\ Len(t) = 0
    BY <2>1, <2>2
  <2>4. \E at : Aligned(q, t, 0, at)
    BY <2>3, AlignedNothing
  <2>5. \E at : Aligned(due', ring' \o wire', messageState', at)
    BY <1>1, <2>2, <2>4
  <2> QED BY <1>1, <1>3, <2>5 DEF InStep, FrameInv
<1>6. CASE ~clean /\ ~Rest
  BY <1>1, <1>3, <1>6 DEF FrameInv
<1> QED BY <1>4, <1>5, <1>6

LEMMA FirstByte ==
    ASSUME NEW r \in Seq(Nat), NEW w \in Seq(Nat), r # <<>>
    PROVE  /\ Head(r) \in Nat /\ Tail(r) \in Seq(Nat)
           /\ r \o w \in Seq(Nat) /\ r \o w # <<>> /\ (r \o w)[1] = Head(r)
           /\ Tail(r \o w) = Tail(r) \o w
<1>1. Len(r) # 0 /\ Len(r) \in Nat /\ Head(r) = r[1]
  OBVIOUS
<1>2. Head(r) \in Nat
  BY <1>1
<1>3. /\ r \o w \in Seq(Nat) /\ Len(r \o w) = Len(r) + Len(w) /\ Len(w) \in Nat
      /\ (r \o w)[1] = r[1]
  BY <1>1
<1>4. Tail(r \o w) = Tail(r) \o w /\ Tail(r) \in Seq(Nat) /\ r \o w # <<>>
  BY <1>1
<1> QED BY <1>1, <1>2, <1>3, <1>4

(* On a clean line a byte is the next one of the first frame.              *)
LEMMA ByteTaken ==
    ASSUME FrameInv, clean, ring # <<>>
    PROVE  LET step == Step(Head(ring))
           IN  /\ due # <<>>
               /\ \/ /\ step.status = "incomplete" /\ step.state = messageState + 1
                     /\ Decoding(Head(due), step.message, messageState + 1)
                     /\ \E at : Aligned(due, Tail(ring) \o wire, messageState + 1, at)
                  \/ /\ step.status = "complete" /\ step.state = 0
                     /\ step.message.type = Head(due).type
                     /\ step.message.data = Head(due).data
                     /\ \E at : Aligned(Tail(due), Tail(ring) \o wire, 0, at)
<1>1. FrameTypes /\ InStep
  BY DEF FrameInv
<1>2. /\ ring \in Seq(Nat) /\ wire \in Seq(Nat) /\ due \in Seq(Frames)
      /\ message \in Message /\ messageState \in Nat
  BY <1>1 DEF FrameTypes
<1>3. PICK s \in Seq(Nat) : s = ring \o wire
  BY <1>2, FirstByte
<1>4. s # <<>> /\ s[1] = Head(ring) /\ Tail(s) = Tail(ring) \o wire
  BY <1>2, <1>3, FirstByte
<1>5. PICK at : Aligned(due, s, messageState, at)
  BY <1>1, <1>3 DEF InStep
<1>6. due # <<>> /\ due[1] \in Frames
  BY <1>2, <1>4, <1>5, AlignedByte
<1>7. PICK f \in Frames : f = due[1] /\ f = Head(due)
  BY <1>2, <1>6
<1>8. PICK size \in Nat : size = Len(f.data) /\ Size(f) = size + 5
  BY FrameType DEF Size
<1>9. Decoding(f, message, messageState) /\ messageState \in 0..(size + 4)
  <2>1. CASE messageState = 0
    <3>1. messageState \in 0..(size + 4)
      BY <1>8, <2>1
    <3> QED BY <1>8, <2>1, <3>1 DEF Decoding
  <2>2. CASE messageState # 0
    BY <1>1, <1>7, <1>8, <2>2 DEF InStep, Decoding
  <2> QED BY <2>1, <2>2
<1>10. PICK b \in Nat : b = Head(ring)
  <2>1. Head(ring) \in Nat
    BY <1>2, FirstByte
  <2> QED BY <2>1
<1>11. b = Encoded(f)[messageState + 1]
  <2>1. messageState < Size(f)
    BY <1>8, <1>9
  <2>2. s[1] = Encoded(due[1])[messageState + 1]
    BY <1>2, <1>4, <1>5, <1>7, <2>1, AlignedByte
  <2> QED BY <1>4, <1>7, <1>10, <2>2
<1>12. PICK past : Aligned(due, Tail(s), messageState + 1, past)
  BY <1>2, <1>4, <1>5, AlignedTaken
<1>13. CASE messageState < size + 4
  <2>1. /\ Step(b).status = "incomplete" /\ Step(b).state = messageState + 1
        /\ Decoding(f, Step(b).message, messageState + 1)
    BY <1>2, <1>8, <1>9, <1>11, <1>13, StepDecodes
  <2> QED BY <1>4, <1>6, <1>7, <1>10, <1>12, <2>1
<1>14. CASE messageState = size + 4
  <2>1. /\ Step(b).status = "complete" /\ Step(b).state = 0
        /\ Step(b).message.type = f.type /\ Step(b).message.data = f.data
    BY <1>2, <1>8, <1>9, <1>11, <1>14, StepCompletes
  <2>2. messageState + 1 = Size(due[1]) /\ Tail(s) \in Seq(Nat) /\ messageState + 1 \in Nat
    BY <1>2, <1>4, <1>7, <1>8, <1>14
  <2>3. \E after : Aligned(Tail(due), Tail(s), 0, after)
    BY <1>2, <1>6, <1>12, <2>2, AlignedNext
  <2> QED BY <1>4, <1>6, <1>7, <1>10, <2>1, <2>3
<1> QED BY <1>8, <1>9, <1>13, <1>14

LEMMA LoseKeeps == FrameInv /\ Lose => FrameInv'
<1> SUFFICES ASSUME FrameInv, Lose PROVE FrameInv'
  OBVIOUS
<1>1. /\ wire # <<>> /\ wire' = Tail(wire) /\ clean' = FALSE
      /\ UNCHANGED <<ring, due, message, messageState>>
  BY DEF Lose, callVars
<1>2. FrameTypes'
  <2>1. FrameTypes
    BY DEF FrameInv
  <2>2. wire' \in Seq(Nat)
    BY <1>1, <2>1 DEF FrameTypes
  <2> QED BY <1>1, <2>1, <2>2 DEF FrameTypes
<1> QED BY <1>1, <1>2 DEF FrameInv

(* Whoever takes a byte leaves the rest of the frames where they belong,   *)
(* provided that a frame half read is given up only with clean.            *)
LEMMA AfterTake ==
    ASSUME FrameInv, ring # <<>>,
           NEW step, step.message \in Message, clean => step = Step(Head(ring)),
           Took(step, step.status), wire' = wire,
           messageState' \in Nat, clean' \in BOOLEAN,
           clean' => clean /\ messageState' = step.state,
           clean' /\ pc' = "idle" /\ step.status = "incomplete" => step.state = 0
    PROVE  FrameInv'
<1>1. FrameTypes
  BY DEF FrameInv
<1>2. /\ ring' = Tail(ring) /\ message' = step.message
      /\ step.status = "complete" => due' = SubSeq(due, 2, Len(due))
      /\ step.status # "complete" => due' = due
  BY DEF Took
<1>3. FrameTypes'
  <2>1. due' \in Seq(Frames)
    BY <1>1, <1>2, RestOfFrames DEF FrameTypes
  <2>2. ring' \in Seq(Nat)
    BY <1>1, <1>2, FirstByte DEF FrameTypes
  <2> QED BY <1>1, <1>2, <2>1, <2>2 DEF FrameTypes
<1>4. ASSUME clean' PROVE InStep'
  <2>1. clean /\ step = Step(Head(ring)) /\ messageState' = step.state
    BY <1>4
  <2>2. /\ due # <<>>
        /\ \/ /\ step.status = "incomplete" /\ step.state = messageState + 1
              /\ Decoding(Head(due), step.message, messageState + 1)
              /\ \E at : Aligned(due, Tail(ring) \o wire, messageState + 1, at)
           \/ /\ step.status = "complete" /\ step.state = 0
              /\ \E at : Aligned(Tail(due), Tail(ring) \o wire, 0, at)
    BY <2>1, ByteTaken
  <2>3. CASE step.status = "incomplete"
    <3>1. /\ due' = due /\ messageState' = messageState + 1
          /\ Decoding(Head(due'), message', messageState')
      BY <1>2, <2>1, <2>2, <2>3
    <3>2. \E at : Aligned(due', ring' \o wire', messageState', at)
      BY <1>2, <2>2, <2>3, <3>1
    <3>3. pc' = "idle" => messageState' = 0
      BY <1>4, <2>1, <2>3
    <3> QED BY <2>2, <3>1, <3>2, <3>3 DEF InStep
  <2>4. CASE step.status = "complete"
    <3>1. due' = Tail(due) /\ messageState' = 0
      BY <1>1, <1>2, <2>1, <2>2, <2>4, RestOfFrames DEF FrameTypes
    <3>2. \E at : Aligned(due', ring' \o wire', messageState', at)
      BY <1>2, <2>2, <2>4, <3>1
    <3> QED BY <3>1, <3>2 DEF InStep
  <2> QED BY <2>2, <2>3, <2>4
<1> QED BY <1>3, <1>4 DEF FrameInv

(* And what it returns is the first of them.                               *)
LEMMA Delivers ==
    ASSUME FrameInv, clean, ring # <<>>, NEW step, step = Step(Head(ring)),
           Took(step, step.status), step.status # "incomplete"
    PROVE  /\ step.status = "complete" /\ due # <<>>
           /\ got'.type = Head(due).type /\ got'.data = Head(due).data
<1>1. /\ due # <<>> /\ step.status = "complete"
      /\ step.message.type = Head(due).type /\ step.message.data = Head(due).data
  BY ByteTaken
<1>2. got' = step.message
  BY <1>1 DEF Took
<1> QED BY <1>1, <1>2

LEMMA TakenTyped ==
    ASSUME FrameInv, ring # <<>>
    PROVE  Step(Head(ring)).message \in Message /\ Step(Head(ring)).state \in Nat
<1>1. FrameTypes
  BY DEF FrameInv
<1>2. Head(ring) \in Nat
  BY <1>1, FirstByte DEF FrameTypes
<1> QED BY <1>1, <1>2, StepType DEF FrameTypes

(* A call that waits gives nothing up but what it has begun to read.       *)
LEMMA WaitKeeps ==
    ASSUME FrameInv, UNCHANGED <<wire, ring, message, due>>,
           messageState' \in {0, messageState}, clean' \in BOOLEAN,
           clean' => clean /\ messageState' = messageState,
           clean' /\ pc' = "idle" => messageState' = 0
    PROVE  FrameInv'
<1>1. FrameTypes'
  BY DEF FrameInv, FrameTypes
<1>2. ASSUME clean' PROVE InStep'
  <2>1. InStep /\ messageState' = messageState
    BY <1>2 DEF FrameInv
  <2>2. \E at : Aligned(due', ring' \o wire', messageState', at)
    BY <2>1 DEF InStep
  <2> QED BY <1>2, <2>1, <2>2 DEF InStep
<1> QED BY <1>1, <1>2 DEF FrameInv

LEMMA CallWaitsKeeps == FrameInv /\ CallWaits => FrameInv'
<1> SUFFICES ASSUME FrameInv, CallWaits PROVE FrameInv'
  OBVIOUS
<1>1. clean \in BOOLEAN
  BY DEF FrameInv, FrameTypes
<1>2. /\ pc = "call" /\ UNCHANGED <<wire, ring, message, messageState, due>>
      /\ \/ clean' = (clean /\ messageState = 0)
         \/ UNCHANGED <<pc, clean>>
  BY DEF CallWaits, Tick, Drops, lineVars
<1>3. clean' \in BOOLEAN /\ (clean' => clean) /\ (clean' /\ pc' = "idle" => messageState' = 0)
  <2>1. CASE clean' = (clean /\ messageState = 0)
    <3>1. clean' => clean /\ messageState' = 0
      BY <1>2, <2>1
    <3> QED BY <2>1, <3>1
  <2>2. CASE UNCHANGED <<pc, clean>>
    BY <1>1, <1>2, <2>2
  <2> QED BY <1>2, <2>1, <2>2
<1> QED BY <1>2, <1>3, WaitKeeps

LEMMA QueryMissesKeeps == FrameInv /\ QueryMisses => FrameInv'
<1> SUFFICES ASSUME FrameInv, QueryMisses PROVE FrameInv'
  OBVIOUS
<1>1. /\ UNCHANGED <<wire, ring, message, due>>
      /\ messageState' = 0 /\ clean' = (clean /\ messageState = 0)
  BY DEF QueryMisses, AskAgain, Drops, lineVars
<1>2. clean' \in BOOLEAN /\ (clean' => clean /\ messageState' = messageState)
  BY <1>1
<1> QED BY <1>1, <1>2, WaitKeeps

LEMMA CallTakesKeeps == FrameInv /\ CallTakes => FrameInv'
<1> SUFFICES ASSUME FrameInv, CallTakes PROVE FrameInv'
  OBVIOUS
<1>1. clean \in BOOLEAN
  BY DEF FrameInv, FrameTypes
<1>2. PICK step : step = Step(Head(ring))
  OBVIOUS
<1>3. /\ ring # <<>> /\ pc = "call" /\ wire' = wire
      /\ Took(step, step.status) /\ messageState' = step.state
      /\ IF step.status = "incomplete" THEN Tick(step.state)
         ELSE Ends(step.status) /\ UNCHANGED <<ticks, clean>>
  BY <1>2 DEF CallTakes, getch
<1>4. step.message \in Message /\ step.state \in Nat
  BY <1>2, <1>3, TakenTyped
<1>5. /\ clean' \in BOOLEAN /\ (clean' => clean)
      /\ clean' /\ pc' = "idle" /\ step.status = "incomplete" => step.state = 0
  BY <1>1, <1>3 DEF Tick, Drops
<1> QED BY <1>2, <1>3, <1>4, <1>5, AfterTake

LEMMA QueryTakesCases ==
    ASSUME QueryTakes, NEW step, step = Step(Head(ring))
    PROVE  /\ ring # <<>> /\ pc = "query" /\ wire' = wire /\ Took(step, step.status)
           /\ \/ /\ step.status = "incomplete" /\ messageState' = step.state
                 /\ UNCHANGED <<pc, clean>>
              \/ /\ step.status = "complete" /\ Ends("complete")
                 /\ messageState' = step.state /\ UNCHANGED clean
              \/ step.status # "incomplete" /\ AskAgain(step.state)
<1>1. /\ getch("query") /\ wire' = wire /\ Took(step, step.status)
      /\ CASE step.status = "incomplete" ->
                   messageState' = step.state /\ UNCHANGED <<pc, result, ticks, clean>>
           [] step.status = "complete" /\ IsWanted(step.message) ->
                   /\ Ends("complete")
                   /\ messageState' = step.state /\ UNCHANGED <<ticks, clean>>
           [] OTHER -> AskAgain(step.state)
  BY Zenon DEF QueryTakes
<1>2. CASE step.status = "incomplete"
  <2>1. step.status # "complete"
    BY <1>2
  <2>2. messageState' = step.state /\ UNCHANGED <<pc, result, ticks, clean>>
    BY Zenon, <1>1, <1>2, <2>1
  <2> QED BY <1>1, <1>2, <2>2 DEF getch
<1>3. CASE step.status = "complete" /\ IsWanted(step.message)
  <2>1. step.status # "incomplete"
    BY <1>3
  <2>2. Ends("complete") /\ messageState' = step.state /\ UNCHANGED <<ticks, clean>>
    BY Zenon, <1>1, <1>3, <2>1
  <2> QED BY <1>1, <1>3, <2>2 DEF getch
<1>4. CASE step.status # "incomplete" /\ ~(step.status = "complete" /\ IsWanted(step.message))
  <2>1. AskAgain(step.state)
    BY Zenon, <1>1, <1>4
  <2> QED BY <1>1, <1>4, <2>1 DEF getch
<1> QED BY <1>2, <1>3, <1>4

LEMMA QueryTakesKeeps == FrameInv /\ QueryTakes => FrameInv'
<1> SUFFICES ASSUME FrameInv, QueryTakes PROVE FrameInv'
  OBVIOUS
<1>1. clean \in BOOLEAN
  BY DEF FrameInv, FrameTypes
<1>2. PICK step : step = Step(Head(ring))
  OBVIOUS
<1>3. /\ ring # <<>> /\ pc = "query" /\ wire' = wire /\ Took(step, step.status)
      /\ \/ /\ step.status = "incomplete" /\ messageState' = step.state
            /\ UNCHANGED <<pc, clean>>
         \/ /\ step.status = "complete" /\ Ends("complete")
            /\ messageState' = step.state /\ UNCHANGED clean
         \/ step.status # "incomplete" /\ AskAgain(step.state)
  BY <1>2, QueryTakesCases
<1>4. step.message \in Message /\ step.state \in Nat
  BY <1>2, <1>3, TakenTyped
<1>5. /\ messageState' \in Nat /\ clean' \in BOOLEAN
      /\ clean' => clean /\ messageState' = step.state
      /\ ~(pc' = "idle" /\ step.status = "incomplete")
  <2>1. CASE messageState' = step.state /\ clean' = clean
    <3>1. ~(pc' = "idle" /\ step.status = "incomplete")
      BY <1>3
    <3> QED BY <1>1, <1>4, <2>1, <3>1
  <2>2. CASE step.status # "incomplete" /\ AskAgain(step.state)
    <3>1. messageState' = 0 /\ clean' = (clean /\ step.state = 0)
      BY <2>2 DEF AskAgain, Drops
    <3>2. clean' => clean /\ messageState' = step.state
      BY <3>1
    <3> QED BY <2>2, <3>1, <3>2
  <2> QED BY <1>3, <2>1, <2>2
<1> QED BY <1>2, <1>3, <1>4, <1>5, AfterTake

LEMMA ParseIsStep ==
    ASSUME FrameInv, ring # <<>>
    PROVE  /\ clean => parseMessage(Head(ring)) = Step(Head(ring))
           /\ parseMessage(Head(ring)).message \in Message
           /\ parseMessage(Head(ring)).state \in Nat
<1>1. PICK b : b = Head(ring) /\ b \in Nat
  BY FirstByte DEF FrameInv, FrameTypes
<1>2. message \in Message /\ messageState \in Nat /\ message.length \in Nat
  BY DEF FrameInv, FrameTypes, Message
<1>3. CASE Step(b).status # "frame_error"
  <2>1. parseMessage(b) = Step(b)
    BY <1>3 DEF parseMessage
  <2> QED BY <1>1, <2>1, TakenTyped
<1>4. CASE Step(b).status = "frame_error"
  <2>1. ~clean
    BY <1>1, <1>4, ByteTaken
  <2>2. Checked(message, b) # "frame_error"
    BY DEF Checked
  <2>3. messageState >= 4 /\ messageState > message.length + 3
    <3>1. CASE messageState < 4
      <4>1. messageState \in {0, 1, 2, 3}
        BY <1>2, <3>1
      <4> QED BY <1>1, <1>2, <1>4, <4>1, StepCases
    <3>2. CASE messageState >= 4 /\ messageState < message.length + 3
      BY <1>1, <1>2, <1>4, <3>2, StepCases
    <3>3. CASE messageState >= 4 /\ messageState = message.length + 3
      BY <1>1, <1>2, <1>4, <2>2, <3>3, StepCases
    <3> QED BY <1>2, <3>1, <3>2, <3>3
  <2>4. Step(b) = [message |-> message, state |-> messageState, status |-> "frame_error"]
    BY <1>1, <1>2, <2>3, StepCases
  <2>5. parseMessage(b) = [Step(b) EXCEPT !.state = 0, !.status = Checked(message, b)]
    BY <1>4 DEF parseMessage
  <2>6. parseMessage(b).message = message /\ parseMessage(b).state = 0
    BY <2>4, <2>5
  <2> QED BY <1>1, <1>2, <2>1, <2>6
<1> QED BY <1>3, <1>4

LEMMA BootTakesKeeps == FrameInv /\ BootTakes => FrameInv'
<1> SUFFICES ASSUME FrameInv, BootTakes PROVE FrameInv'
  OBVIOUS
<1>1. clean \in BOOLEAN
  BY DEF FrameInv, FrameTypes
<1>2. PICK step : step = parseMessage(Head(ring))
  OBVIOUS
<1>3. /\ ring # <<>> /\ pc = "boot" /\ wire' = wire /\ clean' = clean
      /\ Took(step, step.status) /\ messageState' = step.state
      /\ step.status # "complete" => pc' = pc
  BY <1>2 DEF BootTakes, getch
<1>4. step.message \in Message /\ step.state \in Nat /\ (clean => step = Step(Head(ring)))
  BY <1>2, <1>3, ParseIsStep
<1>5. ~(pc' = "idle" /\ step.status = "incomplete")
  BY <1>3
<1> QED BY <1>1, <1>3, <1>4, <1>5, AfterTake

LEMMA TinyBootTakesKeeps == FrameInv /\ TinyBootTakes => FrameInv'
<1> SUFFICES ASSUME FrameInv, TinyBootTakes PROVE FrameInv'
  OBVIOUS
<1>1. clean \in BOOLEAN
  BY DEF FrameInv, FrameTypes
<1>2. PICK step : step = Step(Head(ring))
  OBVIOUS
<1>3. /\ ring # <<>> /\ pc = "tiny" /\ wire' = wire /\ clean' = clean
      /\ Took(step, step.status) /\ messageState' = step.state
      /\ step.status = "incomplete" => pc' = pc
  BY <1>2 DEF TinyBootTakes, getch
<1>4. step.message \in Message /\ step.state \in Nat
  BY <1>2, <1>3, TakenTyped
<1>5. ~(pc' = "idle" /\ step.status = "incomplete")
  BY <1>3
<1> QED BY <1>1, <1>2, <1>3, <1>4, <1>5, AfterTake

LEMMA NextFrameInv == FrameInv /\ [Next]_vars => FrameInv'
<1> SUFFICES ASSUME FrameInv, [Next]_vars PROVE FrameInv'
  OBVIOUS
<1>1. CASE \E f \in Frames : XBeeSends(f)
  BY <1>1, XBeeSendsKeeps
<1>2. CASE Receive
  BY <1>2, ReceiveKeeps
<1>3. CASE Lose
  BY <1>3, LoseKeeps
<1>4. CASE Incoming \/ Ask \/ Boot
  BY <1>4, BeginsKeeps DEF Incoming, Ask, Boot
<1>5. CASE Call
  BY <1>5, CallWaitsKeeps, CallTakesKeeps, QueryMissesKeeps, QueryTakesKeeps,
     BootTakesKeeps, TinyBootTakesKeeps DEF Call
<1>6. CASE UNCHANGED vars
  <2>1. UNCHANGED <<wire, ring, message, due, messageState, clean, pc>>
    BY <1>6 DEF vars, lineVars, callVars
  <2>2. clean \in BOOLEAN /\ (clean /\ pc = "idle" => messageState = 0)
    BY DEF FrameInv, FrameTypes, InStep
  <2> QED BY <2>1, <2>2, WaitKeeps
<1> QED BY <1>1, <1>2, <1>3, <1>4, <1>5, <1>6 DEF Next

-----------------------------------------------------------------------------
(* The bytes on their way are at every moment the rest of the frames that  *)
(* are due, and the reader has made of the first one what has arrived.     *)
THEOREM FramesAligned == Spec => []FrameInv
<1>1. Init => FrameInv
  BY InitFrameInv
<1>2. FrameInv /\ [Next]_vars => FrameInv'
  BY NextFrameInv
<1> QED BY <1>1, <1>2, PTL DEF Spec

(* When the bytes of all frames have been read and no frame is in          *)
(* progress, every frame has been returned: none is passed over on a line  *)
(* that has lost nothing.                                                  *)
THEOREM NoFrameMissed == Spec => []NothingMissed
<1>1. FrameInv => NothingMissed
  <2> SUFFICES ASSUME FrameInv, clean, Rest, messageState = 0 PROVE due = <<>>
    BY DEF NothingMissed
  <2>1. due \in Seq(Frames) /\ InStep
    BY DEF FrameInv, FrameTypes
  <2>2. ring \o wire = <<>>
    BY DEF Rest
  <2>3. \E at : Aligned(due, <<>>, 0, at)
    BY <2>1, <2>2 DEF InStep
  <2> QED BY <2>1, <2>3, AlignedEmpty
<1> QED BY <1>1, FramesAligned, PTL

(* Whatever the payloads hold, a call returns the oldest frame that has    *)
(* not been returned, undamaged, or it runs into its time limit: of the    *)
(* firmware's reader, its queries and both bootloaders, as long as no byte *)
(* is lost and no frame is given up half read.                             *)
THEOREM FramesInOrder == Spec => DeliveredInOrder
<1> DEFINE Good == \/ result' = "timeout"
                   \/ /\ result' = "complete" /\ due # <<>>
                      /\ got'.type = Head(due).type /\ got'.data = Head(due).data
<1>1. ASSUME FrameInv, Next, pc # "idle", pc' = "idle", clean' PROVE Good
  <2>1. CASE \/ \E f \in Frames : XBeeSends(f)
             \/ Receive \/ Lose \/ Incoming \/ Ask \/ Boot
    BY <1>1, <2>1 DEF XBeeSends, Receive, Lose, Incoming, Ask, Boot, Begins, callVars
  <2>2. CASE CallWaits
    BY <1>1, <2>2 DEF CallWaits, Tick, Ends
  <2>3. CASE QueryMisses
    BY <1>1, <2>3 DEF QueryMisses, AskAgain, Ends
  <2>4. CASE CallTakes
    <3>1. PICK step : step = Step(Head(ring))
      OBVIOUS
    <3>2. /\ ring # <<>> /\ Took(step, step.status)
          /\ IF step.status = "incomplete" THEN Tick(step.state)
             ELSE Ends(step.status) /\ UNCHANGED <<ticks, clean>>
      BY <2>4, <3>1 DEF CallTakes, getch
    <3>3. CASE step.status = "incomplete"
      BY <1>1, <3>2, <3>3 DEF Tick, Ends
    <3>4. CASE step.status # "incomplete"
      <4>1. clean /\ result' = step.status
        BY <1>1, <3>2, <3>4 DEF Ends
      <4> QED BY <1>1, <3>1, <3>2, <3>4, <4>1, Delivers
    <3> QED BY <3>3, <3>4
  <2>5. CASE QueryTakes
    <3>1. PICK step : step = Step(Head(ring))
      OBVIOUS
    <3>2. /\ ring # <<>> /\ pc = "query" /\ Took(step, step.status)
          /\ \/ UNCHANGED <<pc, clean>>
             \/ step.status = "complete" /\ Ends("complete") /\ UNCHANGED clean
             \/ AskAgain(step.state)
      BY <2>5, <3>1, QueryTakesCases
    <3>3. CASE step.status = "complete" /\ Ends("complete") /\ UNCHANGED clean
      <4>1. clean /\ result' = "complete"
        BY <1>1, <3>3 DEF Ends
      <4> QED BY <1>1, <3>1, <3>2, <3>3, <4>1, Delivers
    <3>4. CASE AskAgain(step.state)
      BY <1>1, <3>4 DEF AskAgain, Ends
    <3> QED BY <1>1, <3>2, <3>3, <3>4
  <2>6. CASE BootTakes
    <3>1. PICK step : step = parseMessage(Head(ring))
      OBVIOUS
    <3>2. /\ ring # <<>> /\ Took(step, step.status) /\ clean' = clean
          /\ pc' = pc \/ (step.status = "complete" /\ Ends("complete"))
      BY <2>6, <3>1 DEF BootTakes, getch
    <3>3. step.status = "complete" /\ result' = "complete" /\ clean
      BY <1>1, <3>2 DEF Ends
    <3>4. step = Step(Head(ring))
      BY <1>1, <3>1, <3>2, <3>3, ParseIsStep
    <3> QED BY <1>1, <3>2, <3>3, <3>4, Delivers
  <2>7. CASE TinyBootTakes
    <3>1. PICK step : step = Step(Head(ring))
      OBVIOUS
    <3>2. /\ ring # <<>> /\ Took(step, step.status) /\ clean' = clean
          /\ \/ pc' = pc
             \/ step.status \in {"complete", "checksum_error"} /\ Ends(step.status)
      BY <2>7, <3>1 DEF TinyBootTakes, getch
    <3>3. step.status # "incomplete" /\ result' = step.status /\ clean
      BY <1>1, <3>2 DEF Ends
    <3> QED BY <1>1, <3>1, <3>2, <3>3, Delivers
  <2> QED BY <1>1, <2>1, <2>2, <2>3, <2>4, <2>5, <2>6, <2>7 DEF Next, Call
<1>2. FrameInv /\ [Next]_vars
        => [pc # "idle" /\ pc' = "idle" /\ clean' => Good]_vars
  BY <1>1
<1> HIDE DEF Good
<1>3. Spec => [][pc # "idle" /\ pc' = "idle" /\ clean' => Good]_vars
  BY <1>2, FramesAligned, PTL DEF Spec
<1> QED BY <1>3 DEF DeliveredInOrder, Good

=============================================================================
