-------------------------- MODULE DataRecordProofs --------------------------
(***************************************************************************)
(* Proofs about DataRecord for every radix, width of a word, measurement   *)
(* and limit of the results file: a crash loses few lines, files end, and  *)
(* what the base accepts is what the node measured.                        *)
(***************************************************************************)
EXTENDS DataRecord, TLAPS, WellFoundedInduction, FiniteSetTheorems,
        SequenceTheorems

-----------------------------------------------------------------------------
(* The results file.  No line is written without being counted.            *)

FileInv == /\ open \in BOOLEAN
           /\ flushCount \in Nat /\ fileCount \in Nat /\ buffered \in Nat /\ lines \in Nat
           /\ buffered <= flushCount /\ flushCount <= FlushLimit + 1
           /\ lines <= fileCount /\ fileCount <= FileLimit + 1

LEMMA FileCheckKeeps ==
    ASSUME FileInv, NEW line \in Nat, NEW buffer \in Nat,
           line <= lines + 1, buffer <= buffered + 1, dataFileCheck(line, buffer)
    PROVE  FileInv'
<1> USE RecordAssumption DEF FileInv
<1>1. CASE RollsOver \/ ~open
  <2>1. PICK success \in BOOLEAN :
            /\ open' = success
            /\ flushCount' = IF success THEN 0 ELSE IF Flushes THEN 0
                             ELSE IF open THEN flushCount + 1 ELSE flushCount
            /\ fileCount' = 0 /\ lines' = 0 /\ buffered' = 0
    BY <1>1 DEF dataFileCheck
  <2>2. open /\ ~Flushes => flushCount <= FlushLimit
    BY DEF Flushes
  <2>3. flushCount' \in Nat /\ flushCount' <= FlushLimit + 1
    BY <2>1, <2>2
  <2> QED BY <2>1, <2>3
<1>2. CASE ~(RollsOver \/ ~open)
  <2>1. /\ flushCount' = IF Flushes THEN 0 ELSE flushCount + 1
        /\ fileCount' = fileCount + 1
        /\ buffered' = IF Flushes THEN 0 ELSE buffer
        /\ lines' = line
        /\ open' = open
    BY <1>2 DEF dataFileCheck
  <2>2. fileCount <= FileLimit /\ (~Flushes => flushCount <= FlushLimit)
    BY <1>2 DEF Flushes, RollsOver
  <2> QED BY <2>1, <2>2
<1> QED BY <1>1, <1>2

LEMMA FileStarts == Init => FileInv
BY RecordAssumption DEF Init, FileInv

LEMMA FileStep == FileInv /\ [Next]_vars => FileInv'
<1> SUFFICES ASSUME FileInv, [Next]_vars PROVE FileInv'
  OBVIOUS
<1>1. CASE UNCHANGED fileVars
  BY <1>1 DEF FileInv, fileVars
<1>2. CASE Record \/ RecordIO \/ RecordTest
  <2>1. \/ UNCHANGED fileVars
        \/ dataFileCheck(lines + 1, buffered + 1)
        \/ dataFileCheck(lines, buffered)
    BY <1>2 DEF Record, RecordIO, RecordTest
  <2>2. lines \in Nat /\ buffered \in Nat
    BY DEF FileInv
  <2> QED BY <1>1, <2>1, <2>2, FileCheckKeeps
<1>3. CASE Restart
  BY <1>3, RecordAssumption DEF Restart, FileInv
<1> QED BY <1>1, <1>2, <1>3 DEF Next, Send, ReceiveCorrect, ReceiveIncorrect, vars

(* The lines that a crash of the base can lose are bounded by the limit of *)
(* the flush counter, for every limit and whatever files cannot be opened. *)
THEOREM CrashLosesBounded == Spec => []CrashLosesFew
<1>1. FileInv => CrashLosesFew
  BY RecordAssumption DEF FileInv, CrashLosesFew
<1> QED BY <1>1, FileStarts, FileStep, PTL DEF Spec

(* No file grows beyond its limit, for every limit and whichever of the    *)
(* three writers its lines come from.                                      *)
THEOREM FilesBounded == Spec => []FilesEnd
<1>1. FileInv => FilesEnd
  BY RecordAssumption DEF FileInv, FilesEnd
<1> QED BY <1>1, FileStarts, FileStep, PTL DEF Spec

-----------------------------------------------------------------------------
(* Division with remainder.                                                *)

LEMMA DivisionOf ==
    ASSUME NEW a \in Nat, NEW b \in Nat \ {0}
    PROVE  /\ a \div b \in Nat /\ a % b \in 0..(b - 1)
           /\ a = (a \div b) * b + (a % b)
OBVIOUS

LEMMA DivisionNamed ==
    ASSUME NEW a \in Nat, NEW b \in Nat \ {0}
    PROVE  \E q \in Nat, r \in 0..(b - 1) : a = q * b + r /\ q = a \div b /\ r = a % b
<1>1. PICK q \in Nat : q = a \div b
  BY DivisionOf
<1>2. PICK r \in 0..(b - 1) : r = a % b
  BY DivisionOf
<1>3. a = q * b + r
  BY <1>1, <1>2, DivisionOf
<1> QED BY Zenon, <1>1, <1>2, <1>3

LEMMA DivisionIs ==
    ASSUME NEW q \in Nat, NEW b \in Nat \ {0}, NEW r \in 0..(b - 1)
    PROVE  (q * b + r) \div b = q /\ (q * b + r) % b = r
OBVIOUS

LEMMA DivisionTwice ==
    ASSUME NEW a \in Nat, NEW b \in Nat \ {0}, NEW c \in Nat \ {0}
    PROVE  a \div (b * c) = (a \div b) \div c
OBVIOUS

LEMMA SmallQuotient ==
    ASSUME NEW a \in Nat, NEW b \in Nat \ {0}, NEW c \in Nat \ {0}, a < b * c
    PROVE  a \div b < c
OBVIOUS

LEMMA Regroup ==
    ASSUME NEW b \in Nat, NEW c \in Nat, NEW q \in Nat, NEW u \in Nat, NEW t \in Nat
    PROVE  q * (b * c) + (u * b + t) = (q * c + u) * b + t
OBVIOUS

LEMMA RestOfMultiple ==
    ASSUME NEW a \in Nat, NEW b \in Nat \ {0}, NEW c \in Nat \ {0}
    PROVE  (a % (b * c)) % b = a % b
<1>1. PICK m \in Nat \ {0} : m = b * c
  OBVIOUS
<1>2. PICK q \in Nat, r \in 0..(m - 1) : a = q * m + r /\ r = a % m
  BY DivisionNamed
<1>3. PICK u \in Nat, t \in 0..(b - 1) : r = u * b + t /\ t = r % b
  <2>1. r \in Nat
    BY <1>1
  <2> QED BY <2>1, DivisionNamed
<1>4. PICK p \in Nat : p = q * c + u
  OBVIOUS
<1>5. a = p * b + t
  <2>1. t \in Nat
    OBVIOUS
  <2>2. b \in Nat /\ c \in Nat
    OBVIOUS
  <2>3. q * (b * c) + (u * b + t) = (q * c + u) * b + t
    BY <2>1, <2>2, Regroup
  <2> QED BY Zenon, <1>1, <1>2, <1>3, <1>4, <2>3
<1>6. a % b = t
  BY <1>5, DivisionIs
<1> QED BY <1>1, <1>2, <1>3, <1>6

(* Two numbers less than b apart that leave the same rest are equal.       *)
LEMMA SameRest ==
    ASSUME NEW b \in Nat \ {0}, NEW k \in Nat, NEW x \in 0..(b - 1), NEW y \in 0..(b - 1),
           (k + x) % b = 0, (k + y) % b = 0
    PROVE  x = y
<1>1. PICK u \in Nat : k + x = u * b
  <2>1. \E q \in Nat, r \in 0..(b - 1) : k + x = q * b + r /\ r = 0
    BY DivisionNamed
  <2> QED BY <2>1
<1>2. PICK v \in Nat : k + y = v * b
  <2>1. \E q \in Nat, r \in 0..(b - 1) : k + y = q * b + r /\ r = 0
    BY DivisionNamed
  <2> QED BY <2>1
<1>3. ~(u < v)
  <2>1. u < v => \E d \in Nat : v = u + 1 + d
    <3>1. u < v => v - u - 1 \in Nat /\ v = u + 1 + (v - u - 1)
      OBVIOUS
    <3> QED BY <3>1
  <2>2. ASSUME NEW d \in Nat, v = u + 1 + d PROVE FALSE
    <3>1. v * b = u * b + b + d * b /\ d * b \in Nat
      BY <2>2
    <3> QED BY <1>1, <1>2, <3>1
  <2> QED BY <2>1, <2>2
<1>4. ~(v < u)
  <2>1. v < u => \E d \in Nat : u = v + 1 + d
    <3>1. v < u => u - v - 1 \in Nat /\ u = v + 1 + (u - v - 1)
      OBVIOUS
    <3> QED BY <3>1
  <2>2. ASSUME NEW d \in Nat, u = v + 1 + d PROVE FALSE
    <3>1. u * b = v * b + b + d * b /\ d * b \in Nat
      BY <2>2
    <3> QED BY <1>1, <1>2, <3>1
  <2> QED BY <2>1, <2>2
<1> QED BY <1>1, <1>2, <1>3, <1>4

-----------------------------------------------------------------------------
(* The sums of the model are functions of the number of their terms; they  *)
(* exist, and their values are numbers.                                    *)

LEMMA LeastElement ==
    ASSUME NEW T \in SUBSET Nat, T # {}
    PROVE  \E x \in T : \A y \in T : x <= y
<1>1. PICK x \in T : \A y \in T : ~(<<y, x>> \in OpToRel(<, Nat))
  BY WFMin, NatLessThanWellFounded
<1>2. \A y \in T : ~(y < x)
  BY <1>1 DEF OpToRel
<1> QED BY <1>2

(* g begins with base, and each value is a times the last one and a term.  *)
Recurs(g, base, a, term, n) ==
    g[0] = base /\ \A k \in 1..n : g[k] = g[k - 1] * a + term[k]

LEMMA RecursOne ==
    ASSUME NEW base, NEW a, NEW term, NEW n \in Nat, NEW g, Recurs(g, base, a, term, n)
    PROVE  \E h : h = [k \in 0..(n + 1) |-> h[k]] /\ Recurs(h, base, a, term, n + 1)
<1> DEFINE h == [k \in 0..(n + 1) |-> IF k = n + 1 THEN g[n] * a + term[n + 1] ELSE g[k]]
<1>1. h[0] = base
  BY DEF Recurs
<1>2. ASSUME NEW k \in 1..(n + 1) PROVE h[k] = h[k - 1] * a + term[k]
  <2>1. k - 1 \in 0..n /\ h[k - 1] = g[k - 1]
    OBVIOUS
  <2>2. CASE k = n + 1
    <3>1. h[k] = g[n] * a + term[n + 1]
      BY <2>2
    <3> HIDE DEF h
    <3> QED BY <2>1, <2>2, <3>1
  <2>3. CASE k # n + 1
    <3>1. k \in 1..n /\ h[k] = g[k]
      BY <2>3
    <3> HIDE DEF h
    <3> QED BY <2>1, <3>1 DEF Recurs
  <2> QED BY <2>2, <2>3
<1>3. h = [k \in 0..(n + 1) |-> h[k]]
  OBVIOUS
<1> HIDE DEF h
<1>4. Recurs(h, base, a, term, n + 1)
  BY <1>1, <1>2 DEF Recurs
<1> QED BY <1>3, <1>4

LEMMA RecursExists ==
    ASSUME NEW base, NEW a, NEW term, NEW n \in Nat
    PROVE  \E g : g = [k \in 0..n |-> g[k]] /\ Recurs(g, base, a, term, n)
<1> DEFINE Has(m) == \E g : g = [k \in 0..m |-> g[k]] /\ Recurs(g, base, a, term, m)
           T == {m \in Nat : ~Has(m)}
<1> SUFFICES ASSUME n \in T PROVE FALSE
  OBVIOUS
<1>1. PICK x \in T : \A y \in T : x <= y
  <2>1. T \in SUBSET Nat /\ T # {}
    OBVIOUS
  <2> HIDE DEF T
  <2> QED BY <2>1, LeastElement
<1>2. x # 0
  <2> DEFINE g == [k \in 0..0 |-> base]
  <2>1. g = [k \in 0..0 |-> g[k]] /\ g[0] = base
    OBVIOUS
  <2> HIDE DEF g
  <2>2. Recurs(g, base, a, term, 0)
    BY <2>1 DEF Recurs
  <2>3. Has(0)
    BY <2>1, <2>2
  <2> QED BY <2>3
<1>3. x - 1 \in Nat /\ Has(x - 1) /\ x - 1 + 1 = x
  <2>1. x - 1 \in Nat /\ x - 1 \notin T /\ x - 1 + 1 = x
    <3> HIDE DEF Has
    <3> QED BY <1>1, <1>2
  <2> QED BY <2>1
<1>4. Has(x)
  BY <1>3, RecursOne
<1> QED BY <1>4

LEMMA RecursType ==
    ASSUME NEW base \in Nat, NEW a \in Nat, NEW n \in Nat, NEW term, NEW g,
           \A k \in 1..n : term[k] \in Nat, Recurs(g, base, a, term, n), NEW m \in 0..n
    PROVE  g[m] \in Nat
<1> DEFINE T == {k \in 0..n : g[k] \notin Nat}
<1> SUFFICES ASSUME m \in T PROVE FALSE
  OBVIOUS
<1>1. PICK x \in T : \A y \in T : x <= y
  <2>1. T \in SUBSET Nat /\ T # {}
    OBVIOUS
  <2> HIDE DEF T
  <2> QED BY <2>1, LeastElement
<1>2. x \in 1..n /\ x - 1 \in 0..n
  BY DEF Recurs
<1>3. g[x - 1] \in Nat
  BY <1>1, <1>2
<1>4. g[x] = g[x - 1] * a + term[x] /\ term[x] \in Nat
  BY <1>2 DEF Recurs
<1>5. PICK u \in Nat : u = g[x - 1]
  BY <1>3
<1>6. u * a + term[x] \in Nat
  BY <1>4
<1> QED BY <1>4, <1>5, <1>6

-----------------------------------------------------------------------------
(* The weights of digits.                                                  *)

Places == 2 * WordBytes

LEMMA WeightIs ==
    /\ Weight[0] = 1
    /\ \A k \in 0..Places : Weight[k] \in Nat \ {0}
    /\ \A k \in 1..Places : Weight[k] = Weight[k - 1] * Radix
<1> DEFINE zeros == [k \in 1..Places |-> 0]
<1>1. Places \in Nat /\ Radix \in Nat \ {0}
  BY RecordAssumption DEF Places
<1>2. \E g : g = [i \in 0..(2 * WordBytes) |-> IF i = 0 THEN 1 ELSE g[i - 1] * Radix]
  <2>1. PICK g : g = [k \in 0..Places |-> g[k]] /\ Recurs(g, 1, Radix, zeros, Places)
    BY <1>1, RecursExists
  <2>2. \A k \in 0..Places : g[k] \in Nat
    <3>1. \A k \in 1..Places : zeros[k] \in Nat
      OBVIOUS
    <3> HIDE DEF zeros
    <3> QED BY <1>1, <2>1, <3>1, RecursType
  <2>3. ASSUME NEW i \in 0..Places PROVE g[i] = IF i = 0 THEN 1 ELSE g[i - 1] * Radix
    <3>1. CASE i = 0
      BY <2>1, <3>1 DEF Recurs
    <3>2. CASE i # 0
      <4>1. i \in 1..Places /\ i - 1 \in 0..Places
        BY <1>1, <3>2
      <4>2. g[i] = g[i - 1] * Radix + 0
        BY <2>1, <4>1 DEF Recurs
      <4>3. PICK u \in Nat : u = g[i - 1]
        BY <2>2, <4>1
      <4>4. g[i] = u * Radix
        BY <1>1, <4>2, <4>3
      <4> QED BY <3>2, <4>3, <4>4
    <3> QED BY <3>1, <3>2
  <2>4. g = [i \in 0..Places |-> IF i = 0 THEN 1 ELSE g[i - 1] * Radix]
    BY <2>1, <2>3
  <2> QED BY <2>4 DEF Places
<1>3. Weight = [i \in 0..Places |-> IF i = 0 THEN 1 ELSE Weight[i - 1] * Radix]
  BY Zenon, <1>2 DEF Weight, Places
<1>4. Weight[0] = 1
  BY <1>1, <1>3
<1>5. ASSUME NEW k \in 1..Places PROVE Weight[k] = Weight[k - 1] * Radix
  BY <1>1, <1>3
<1>6. ASSUME NEW m \in 0..Places, Weight[m] \notin Nat \ {0} PROVE FALSE
  <2> DEFINE T == {k \in 0..Places : Weight[k] \notin Nat \ {0}}
  <2>1. PICK x \in T : \A y \in T : x <= y
    <3>1. T \in SUBSET Nat /\ T # {}
      BY <1>6
    <3> HIDE DEF T
    <3> QED BY <3>1, LeastElement
  <2>2. x \in 1..Places /\ x - 1 \in 0..Places
    BY <1>1, <1>4
  <2>3. Weight[x - 1] \in Nat \ {0}
    BY <2>1, <2>2
  <2>4. PICK u \in Nat \ {0} : u = Weight[x - 1]
    BY <2>3
  <2>5. u * Radix \in Nat \ {0}
    BY <1>1
  <2> QED BY <1>5, <2>2, <2>4, <2>5
<1> QED BY <1>4, <1>5, <1>6

-----------------------------------------------------------------------------
(* A sequence of digits and the number it stands for.                      *)

Digit == 0..(Radix - 1)

LEMMA ValueIs ==
    ASSUME NEW n \in Nat, NEW c, c \in [1..n -> Digit]
    PROVE  \E v : /\ Recurs(v, 0, Radix, c, n)
                 /\ Value(c) = v[n]
                 /\ \A k \in 0..n : v[k] \in Nat
<1> DEFINE v == CHOOSE v : v = [k \in 0..Len(c) |->
                                 IF k = 0 THEN 0
                                 ELSE v[k - 1] * Radix + (IF c[k] = Bad THEN 0 ELSE c[k])]
<1>1. Len(c) = n
  OBVIOUS
<1>2. \A k \in 1..n : c[k] \in Digit /\ c[k] # Bad /\ c[k] \in Nat
  BY RecordAssumption DEF Digit
<1>3. \E g : g = [k \in 0..Len(c) |->
                   IF k = 0 THEN 0
                   ELSE g[k - 1] * Radix + (IF c[k] = Bad THEN 0 ELSE c[k])]
  <2>1. PICK g : g = [k \in 0..n |-> g[k]] /\ Recurs(g, 0, Radix, c, n)
    BY RecursExists
  <2>2. ASSUME NEW k \in 0..n
        PROVE  g[k] = IF k = 0 THEN 0 ELSE g[k - 1] * Radix + (IF c[k] = Bad THEN 0 ELSE c[k])
    <3>1. CASE k = 0
      BY <2>1, <3>1 DEF Recurs
    <3>2. CASE k # 0
      <4>1. k \in 1..n
        BY <3>2
      <4> QED BY <1>2, <2>1, <3>2, <4>1 DEF Recurs
    <3> QED BY <3>1, <3>2
  <2>3. g = [k \in 0..n |-> IF k = 0 THEN 0
                           ELSE g[k - 1] * Radix + (IF c[k] = Bad THEN 0 ELSE c[k])]
    BY <2>1, <2>2
  <2> QED BY <1>1, <2>3
<1>4. v = [k \in 0..Len(c) |-> IF k = 0 THEN 0
                              ELSE v[k - 1] * Radix + (IF c[k] = Bad THEN 0 ELSE c[k])]
  BY Zenon, <1>3
<1>5. Value(c) = v[Len(c)]
  BY Zenon DEF Value
<1> HIDE DEF v
<1>6. Recurs(v, 0, Radix, c, n)
  <2>1. v[0] = 0
    BY <1>1, <1>4
  <2>2. ASSUME NEW k \in 1..n PROVE v[k] = v[k - 1] * Radix + c[k]
    <3>1. k \in 0..Len(c) /\ k # 0
      BY <1>1
    <3>2. v[k] = v[k - 1] * Radix + (IF c[k] = Bad THEN 0 ELSE c[k])
      BY <1>4, <3>1
    <3> QED BY <1>2, <3>2
  <2> QED BY <2>1, <2>2 DEF Recurs
<1>7. \A k \in 0..n : v[k] \in Nat
  <2>1. Radix \in Nat /\ 0 \in Nat
    BY RecordAssumption
  <2> QED BY <1>2, <1>6, <2>1, RecursType
<1> QED BY <1>1, <1>5, <1>6, <1>7

(* A number without its last j digits.                                     *)
LEMMA Prefix ==
    ASSUME NEW n \in 0..Places, NEW c \in [1..n -> Digit], NEW v, Recurs(v, 0, Radix, c, n),
           \A k \in 0..n : v[k] \in Nat, NEW m \in 0..n
    PROVE  v[n] \div Weight[m] = v[n - m]
<1> DEFINE T == {j \in 0..n : v[n] \div Weight[j] # v[n - j]}
<1>0. Places \in Nat /\ Radix \in Nat \ {0}
  BY RecordAssumption DEF Places
<1> SUFFICES ASSUME m \in T PROVE FALSE
  OBVIOUS
<1>1. PICK x \in T : \A y \in T : x <= y
  <2>1. T \in SUBSET Nat /\ T # {}
    BY <1>0
  <2> HIDE DEF T
  <2> QED BY <2>1, LeastElement
<1>2. PICK a \in Nat : a = v[n]
  BY <1>0
<1>3. x # 0
  <2>1. a \div 1 = a
    OBVIOUS
  <2>2. n - 0 = n
    BY <1>0
  <2> QED BY <1>2, <2>1, <2>2, WeightIs
<1>4. x - 1 \in 0..n /\ x - 1 \in 0..Places /\ x \in 1..Places /\ x - 1 \notin T
  BY <1>0, <1>1, <1>3
<1>5. PICK q \in Nat : q = v[n - (x - 1)]
  BY <1>0, <1>4
<1>6. PICK z \in Nat : z = v[n - x]
  BY <1>0, <1>4
<1>7. PICK w \in Nat \ {0} : w = Weight[x - 1]
  BY <1>4, WeightIs
<1>8. a \div w = q
  BY <1>2, <1>4, <1>5, <1>7
<1>9. Weight[x] = w * Radix
  BY <1>4, <1>7, WeightIs
<1>10. q = z * Radix + c[n - x + 1] /\ c[n - x + 1] \in 0..(Radix - 1)
  <2>1. n - x + 1 \in 1..n /\ n - (x - 1) = n - x + 1 /\ n - x + 1 - 1 = n - x
    BY <1>0, <1>4
  <2> QED BY <1>5, <1>6, <2>1 DEF Recurs, Digit
<1>11. q \div Radix = z
  BY <1>0, <1>10, DivisionIs
<1>12. a \div (w * Radix) = z
  BY <1>0, <1>8, <1>11, DivisionTwice
<1> QED BY <1>2, <1>6, <1>9, <1>12

(* Two digits of it.                                                       *)
Pair(c, i) == c[Places - 2 * i - 1] * Radix + c[Places - 2 * i]

LEMMA PairValue ==
    ASSUME NEW x \in Digit, NEW y \in Digit
    PROVE  x * Radix + y \in 0..(Byte - 1)
<1>1. PICK r \in Nat \ {0} : r = Radix
  BY RecordAssumption
<1>2. x \in Nat /\ x <= r - 1 /\ y \in Nat /\ y <= r - 1
  BY <1>1 DEF Digit
<1>3. PICK d \in Nat : r = x + 1 + d
  <2>1. r - x - 1 \in Nat /\ r = x + 1 + (r - x - 1)
    BY <1>2
  <2> QED BY <2>1
<1>4. r * r = x * r + r + d * r /\ d * r \in Nat /\ x * r \in Nat
  BY <1>2, <1>3
<1>5. PICK s \in Nat, t \in Nat : s = x * r /\ t = d * r
  BY <1>4
<1>6. s + y \in Nat /\ s + y <= s + r + t - 1
  BY <1>2, <1>5
<1> QED BY <1>1, <1>4, <1>5, <1>6 DEF Byte

LEMMA BytesOf ==
    ASSUME NEW c \in [1..Places -> Digit], NEW i \in 0..(WordBytes - 1)
    PROVE  (Value(c) \div Weight[2 * i]) % Byte = Pair(c, i) /\ Pair(c, i) \in 0..(Byte - 1)
<1>0. Places \in Nat /\ Radix \in Nat \ {0} /\ WordBytes \in Nat /\ i \in Nat
      /\ Places = 2 * WordBytes
  BY RecordAssumption DEF Places
<1>1. PICK v : /\ Recurs(v, 0, Radix, c, Places)
               /\ Value(c) = v[Places]
               /\ \A k \in 0..Places : v[k] \in Nat
  BY <1>0, ValueIs
<1>2. PICK m \in 0..Places : m = Places - 2 * i /\ m >= 2
  <2>1. Places - 2 * i \in 0..Places /\ Places - 2 * i >= 2
    BY <1>0
  <2> QED BY <2>1
<1>3. /\ 2 * i \in 0..Places /\ Places - 2 * i = m
      /\ m \in 1..Places /\ m - 1 \in 1..Places /\ m - 2 \in 0..Places /\ m - 1 - 1 = m - 2
  BY <1>0, <1>2
<1>4. Value(c) \div Weight[2 * i] = v[m]
  <2>1. Places \in 0..Places
    BY <1>0
  <2> QED BY <1>1, <1>3, <2>1, Prefix
<1>5. PICK q \in Nat : q = v[m - 2]
  BY <1>1, <1>3
<1>6. PICK x \in Digit, y \in Digit : x = c[m - 1] /\ y = c[m]
  BY <1>3
<1>7. v[m] = (q * Radix + x) * Radix + y
  BY <1>1, <1>3, <1>5, <1>6 DEF Recurs
<1>8. v[m] = q * Byte + (x * Radix + y)
  <2>1. x \in Nat /\ y \in Nat
    BY <1>0 DEF Digit
  <2>2. (q * Radix + x) * Radix + y = q * (Radix * Radix) + (x * Radix + y)
    BY <1>0, <2>1
  <2> QED BY <1>7, <2>2 DEF Byte
<1>9. Pair(c, i) = x * Radix + y
  BY <1>3, <1>6 DEF Pair
<1>10. Byte \in Nat \ {0}
  BY <1>0 DEF Byte
<1>11. PICK p \in 0..(Byte - 1) : p = x * Radix + y
  BY PairValue
<1>12. (q * Byte + p) % Byte = p
  BY <1>10, DivisionIs
<1> QED BY <1>4, <1>8, <1>9, <1>11, <1>12

(* Two sums that differ in one term.                                       *)
Differ(t, u, j, n) == \A k \in 1..n : /\ t[k] \in Nat /\ u[k] \in Nat
                                      /\ (k # j => t[k] = u[k])

LEMMA SumDiffers ==
    ASSUME NEW n \in Nat, NEW t, NEW u, NEW s, NEW r, NEW j \in 1..n,
           Differ(t, u, j, n), Recurs(s, 0, 1, t, n), Recurs(r, 0, 1, u, n)
    PROVE  \E a \in Nat : s[n] = a + t[j] /\ r[n] = a + u[j]
<1> DEFINE Alike(k) == IF k < j THEN s[k] = r[k]
                       ELSE \E a \in Nat : s[k] = a + t[j] /\ r[k] = a + u[j]
           T == {k \in 0..n : ~Alike(k)}
<1>0. \A k \in 1..n : t[k] \in Nat /\ u[k] \in Nat /\ (k # j => t[k] = u[k])
  BY Zenon DEF Differ
<1>1. \A k \in 0..n : s[k] \in Nat /\ r[k] \in Nat
  <2>1. (\A k \in 1..n : t[k] \in Nat) /\ (\A k \in 1..n : u[k] \in Nat)
    BY <1>0
  <2>2. \A k \in 0..n : s[k] \in Nat
    BY <2>1, RecursType
  <2>3. \A k \in 0..n : r[k] \in Nat
    BY <2>1, RecursType
  <2> QED BY <2>2, <2>3
<1> SUFFICES ASSUME n \in T PROVE FALSE
  OBVIOUS
<1>2. PICK x \in T : \A y \in T : x <= y
  <2>1. T \in SUBSET Nat /\ T # {}
    OBVIOUS
  <2> HIDE DEF T
  <2> QED BY <2>1, LeastElement
<1>3. x # 0
  BY DEF Recurs
<1>4. x \in 1..n /\ x - 1 \in 0..n
  BY <1>3
<1>5. Alike(x - 1)
  <2>1. x - 1 \notin T
    <3> HIDE DEF Alike
    <3> QED BY <1>2, <1>4
  <2> QED BY <1>4, <2>1
<1>6. PICK d \in Nat, e \in Nat : d = s[x - 1] /\ e = r[x - 1]
  BY <1>1, <1>4
<1>7. s[x] = d + t[x] /\ r[x] = e + u[x]
  <2>1. s[x] = d * 1 + t[x] /\ r[x] = e * 1 + u[x]
    BY <1>4, <1>6 DEF Recurs
  <2> QED BY <2>1
<1>8. CASE x < j
  <2>1. d = e /\ t[x] = u[x]
    BY <1>0, <1>4, <1>5, <1>6, <1>8
  <2> QED BY <1>7, <1>8, <2>1
<1>9. CASE x = j
  <2>1. d = e
    BY <1>4, <1>5, <1>6, <1>9
  <2> QED BY <1>7, <1>9, <2>1
<1>10. CASE x > j
  <2>1. t[x] = u[x] /\ t[x] \in Nat /\ t[j] \in Nat /\ u[j] \in Nat
    BY <1>0, <1>4, <1>10
  <2>2. PICK a \in Nat : d = a + t[j] /\ e = a + u[j]
    BY <1>4, <1>5, <1>6, <1>10
  <2>3. s[x] = (a + t[x]) + t[j] /\ r[x] = (a + t[x]) + u[j] /\ a + t[x] \in Nat
    BY <1>7, <2>1, <2>2
  <2>4. Alike(x)
    BY <1>10, <2>3
  <2> QED BY <2>4
<1> QED BY <1>4, <1>8, <1>9, <1>10

LEMMA ByteSumIs ==
    ASSUME NEW word \in Nat
    PROVE  \E s : /\ ByteSum(word) = s[WordBytes]
                 /\ Recurs(s, 0, 1, [n \in 1..WordBytes |->
                              (word \div Weight[2 * (n - 1)]) % Byte], WordBytes)
<1> DEFINE term == [n \in 1..WordBytes |-> (word \div Weight[2 * (n - 1)]) % Byte]
           s == CHOOSE s : s = [n \in 0..WordBytes |->
                                  IF n = 0 THEN 0
                                  ELSE s[n - 1] + ((word \div Weight[2 * (n - 1)]) % Byte)]
<1>0. WordBytes \in Nat
  BY RecordAssumption
<1>1. \A k \in 1..WordBytes : term[k] \in Nat
  <2> SUFFICES ASSUME NEW k \in 1..WordBytes PROVE term[k] \in Nat
    OBVIOUS
  <2>1. 2 * (k - 1) \in 0..Places
    BY <1>0 DEF Places
  <2>2. PICK q \in Nat : q = word \div Weight[2 * (k - 1)]
    BY <2>1, WeightIs, DivisionOf
  <2>3. Byte \in Nat \ {0}
    BY RecordAssumption DEF Byte
  <2>4. q % Byte \in Nat
    BY <2>3, DivisionOf
  <2> QED BY <2>2, <2>4
<1>2. \E g : g = [n \in 0..WordBytes |->
                   IF n = 0 THEN 0 ELSE g[n - 1] + ((word \div Weight[2 * (n - 1)]) % Byte)]
  <2>1. PICK g : g = [k \in 0..WordBytes |-> g[k]] /\ Recurs(g, 0, 1, term, WordBytes)
    <3> HIDE DEF term
    <3> QED BY <1>0, RecursExists
  <2>2. \A k \in 0..WordBytes : g[k] \in Nat
    <3> HIDE DEF term
    <3> QED BY <1>0, <1>1, <2>1, RecursType
  <2>3. ASSUME NEW k \in 0..WordBytes
        PROVE  g[k] = IF k = 0 THEN 0 ELSE g[k - 1] + ((word \div Weight[2 * (k - 1)]) % Byte)
    <3>1. CASE k = 0
      BY <2>1, <3>1 DEF Recurs
    <3>2. CASE k # 0
      <4>1. k \in 1..WordBytes /\ k - 1 \in 0..WordBytes
        BY <1>0, <3>2
      <4>2. g[k] = g[k - 1] * 1 + term[k]
        <5> HIDE DEF term
        <5> QED BY <2>1, <4>1 DEF Recurs
      <4>3. PICK d \in Nat : d = g[k - 1]
        BY <2>2, <4>1
      <4>4. PICK e \in Nat : e = term[k]
        BY <1>1, <4>1
      <4>5. g[k] = d + e
        <5> HIDE DEF term
        <5> QED BY <4>2, <4>3, <4>4
      <4>6. e = (word \div Weight[2 * (k - 1)]) % Byte
        BY <4>1, <4>4
      <4> QED BY Zenon, <3>2, <4>3, <4>5, <4>6
    <3> QED BY <3>1, <3>2
  <2>4. g = [k \in 0..WordBytes |->
               IF k = 0 THEN 0 ELSE g[k - 1] + ((word \div Weight[2 * (k - 1)]) % Byte)]
    BY Zenon, <2>1, <2>3
  <2> QED BY Zenon, <2>4
<1>3. s = [n \in 0..WordBytes |->
             IF n = 0 THEN 0 ELSE s[n - 1] + ((word \div Weight[2 * (n - 1)]) % Byte)]
  BY Zenon, <1>2
<1>4. ByteSum(word) = s[WordBytes]
  BY Zenon DEF ByteSum
<1> HIDE DEF s
<1>5. s[0] = 0
  BY <1>0, <1>3
<1>6. ASSUME NEW k \in 1..WordBytes PROVE s[k] = s[k - 1] + term[k]
  <2>1. k \in 0..WordBytes /\ k # 0
    BY <1>0
  <2>2. s[k] = IF k = 0 THEN 0 ELSE s[k - 1] + ((word \div Weight[2 * (k - 1)]) % Byte)
    BY Zenon, <1>3, <2>1
  <2>3. term[k] = (word \div Weight[2 * (k - 1)]) % Byte
    OBVIOUS
  <2> QED BY Zenon, <2>1, <2>2, <2>3
<1> HIDE DEF term
<1>7. ASSUME NEW m \in 0..WordBytes, s[m] \notin Nat PROVE FALSE
  <2> DEFINE T == {k \in 0..WordBytes : s[k] \notin Nat}
  <2>1. PICK x \in T : \A y \in T : x <= y
    <3>1. T \in SUBSET Nat /\ T # {}
      BY <1>0, <1>7
    <3> HIDE DEF T
    <3> QED BY <3>1, LeastElement
  <2>2. x \in 1..WordBytes /\ x - 1 \in 0..WordBytes
    BY <1>0, <1>5
  <2>3. s[x - 1] \in Nat
    BY <2>1, <2>2
  <2>4. s[x - 1] + term[x] \in Nat
    BY <1>1, <2>2, <2>3
  <2> QED BY <1>6, <2>2, <2>4
<1>8. Recurs(s, 0, 1, term, WordBytes)
  <2>1. ASSUME NEW k \in 1..WordBytes PROVE s[k] = s[k - 1] * 1 + term[k]
    <3>1. k - 1 \in 0..WordBytes
      BY <1>0
    <3>2. PICK d \in Nat : d = s[k - 1]
      BY <1>7, <3>1
    <3> QED BY <1>6, <3>2
  <2> QED BY <1>5, <2>1 DEF Recurs
<1> QED BY Zenon, <1>4, <1>8 DEF term

LEMMA ByteSumOf ==
    ASSUME NEW c \in [1..Places -> Digit]
    PROVE  \E s : /\ ByteSum(Value(c)) = s[WordBytes]
                 /\ Recurs(s, 0, 1, [n \in 1..WordBytes |-> Pair(c, n - 1)], WordBytes)
<1>0. Places \in Nat /\ WordBytes \in Nat
  BY RecordAssumption DEF Places
<1>1. Value(c) \in Nat
  <2>1. PICK v : /\ Value(c) = v[Places]
                 /\ \A k \in 0..Places : v[k] \in Nat
    BY <1>0, ValueIs
  <2> QED BY <1>0, <2>1
<1>2. [n \in 1..WordBytes |-> (Value(c) \div Weight[2 * (n - 1)]) % Byte]
      = [n \in 1..WordBytes |-> Pair(c, n - 1)]
  <2>1. ASSUME NEW n \in 1..WordBytes
        PROVE  (Value(c) \div Weight[2 * (n - 1)]) % Byte = Pair(c, n - 1)
    <3>1. n - 1 \in 0..(WordBytes - 1)
      BY <1>0
    <3> QED BY <3>1, BytesOf
  <2> QED BY Zenon, <2>1
<1> QED BY <1>1, <1>2, ByteSumIs

LEMMA SameDigits ==
    ASSUME NEW x \in Digit, NEW y \in Digit, NEW u \in Digit, NEW v \in Digit,
           x * Radix + y = u * Radix + v
    PROVE  x = u /\ y = v
<1>1. Radix \in Nat \ {0} /\ x \in Nat /\ u \in Nat
      /\ y \in 0..(Radix - 1) /\ v \in 0..(Radix - 1)
  BY RecordAssumption DEF Digit
<1>2. (x * Radix + y) \div Radix = x /\ (x * Radix + y) % Radix = y
  BY <1>1, DivisionIs
<1>3. (u * Radix + v) \div Radix = u /\ (u * Radix + v) % Radix = v
  BY <1>1, DivisionIs
<1> QED BY Zenon, <1>2, <1>3

(* The checksum tells a change of one digit.                               *)
LEMMA OneDigit ==
    ASSUME NEW c \in [1..Places -> Digit], NEW e \in [1..Places -> Digit],
           NEW i \in 1..Places, \A n \in 1..Places : n # i => c[n] = e[n],
           NEW k \in Nat, (k + ByteSum(Value(c))) % Byte = 0, (k + ByteSum(Value(e))) % Byte = 0
    PROVE  c = e
<1>0. Places \in Nat /\ WordBytes \in Nat /\ Places = 2 * WordBytes /\ Byte \in Nat \ {0}
  BY RecordAssumption DEF Places, Byte
<1>1. PICK j \in 0..(WordBytes - 1) : i = Places - 2 * j - 1 \/ i = Places - 2 * j
  <2>1. PICK q \in Nat, r \in 0..1 : Places - i = q * 2 + r
    <3>1. Places - i \in Nat
      BY <1>0
    <3>2. PICK d \in Nat : d = Places - i
      BY <3>1
    <3>3. PICK b \in Nat \ {0} : b = 2
      OBVIOUS
    <3>4. PICK q \in Nat, r \in 0..(b - 1) : d = q * b + r
      BY DivisionNamed
    <3> QED BY <3>2, <3>3, <3>4
  <2>2. q \in 0..(WordBytes - 1) /\ (i = Places - 2 * q - 1 \/ i = Places - 2 * q)
    BY <1>0, <2>1
  <2> QED BY <2>2
<1> DEFINE t == [n \in 1..WordBytes |-> Pair(c, n - 1)]
           u == [n \in 1..WordBytes |-> Pair(e, n - 1)]
<1>2. PICK s : ByteSum(Value(c)) = s[WordBytes] /\ Recurs(s, 0, 1, t, WordBytes)
  BY ByteSumOf
<1>3. PICK r : ByteSum(Value(e)) = r[WordBytes] /\ Recurs(r, 0, 1, u, WordBytes)
  BY ByteSumOf
<1>4. ASSUME NEW n \in 1..WordBytes PROVE t[n] \in Nat /\ u[n] \in Nat
  <2>1. n - 1 \in 0..(WordBytes - 1)
    BY <1>0
  <2>2. Pair(c, n - 1) \in 0..(Byte - 1) /\ Pair(e, n - 1) \in 0..(Byte - 1)
    BY <2>1, BytesOf
  <2> QED BY <1>0, <2>2
<1>5. ASSUME NEW n \in 1..WordBytes, n # j + 1 PROVE t[n] = u[n]
  <2>1. Places - 2 * (n - 1) - 1 \in 1..Places /\ Places - 2 * (n - 1) \in 1..Places
    BY <1>0
  <2>2. Places - 2 * (n - 1) - 1 # i /\ Places - 2 * (n - 1) # i
    BY <1>0, <1>1, <1>5
  <2>3. Pair(c, n - 1) = Pair(e, n - 1)
    BY <2>1, <2>2 DEF Pair
  <2> QED BY <2>3
<1>6. /\ j + 1 \in 1..WordBytes /\ t[j + 1] = Pair(c, j) /\ u[j + 1] = Pair(e, j)
      /\ Pair(c, j) \in 0..(Byte - 1) /\ Pair(e, j) \in 0..(Byte - 1)
  <2>1. j + 1 \in 1..WordBytes /\ j + 1 - 1 = j
    BY <1>0
  <2> QED BY <2>1, BytesOf
<1> HIDE DEF t, u
<1>7. PICK a \in Nat : s[WordBytes] = a + t[j + 1] /\ r[WordBytes] = a + u[j + 1]
  <2>1. PICK m \in 1..WordBytes : m = j + 1
    BY <1>6
  <2>2. Differ(t, u, m, WordBytes)
    BY <1>4, <1>5, <2>1 DEF Differ
  <2>3. WordBytes \in Nat /\ Recurs(s, 0, 1, t, WordBytes) /\ Recurs(r, 0, 1, u, WordBytes)
    BY <1>0, <1>2, <1>3
  <2>4. \E a \in Nat : s[WordBytes] = a + t[m] /\ r[WordBytes] = a + u[m]
    BY <2>2, <2>3, SumDiffers
  <2> QED BY <2>1, <2>4
<1>8. PICK x \in 0..(Byte - 1), y \in 0..(Byte - 1) : x = Pair(c, j) /\ y = Pair(e, j)
  BY <1>6
<1>9. ((k + a) + x) % Byte = 0 /\ ((k + a) + y) % Byte = 0 /\ k + a \in Nat
  <2>1. (k + a) + x = k + (a + x) /\ (k + a) + y = k + (a + y)
    BY <1>0
  <2> QED BY <1>2, <1>3, <1>6, <1>7, <1>8, <2>1
<1>10. x = y
  BY <1>0, <1>9, SameRest
<1>11. c[i] = e[i]
  <2>1. Places - 2 * j - 1 \in 1..Places /\ Places - 2 * j \in 1..Places
    BY <1>0
  <2>2. /\ c[Places - 2 * j - 1] \in Digit /\ c[Places - 2 * j] \in Digit
        /\ e[Places - 2 * j - 1] \in Digit /\ e[Places - 2 * j] \in Digit
    BY <2>1
  <2>3. c[Places - 2 * j - 1] = e[Places - 2 * j - 1] /\ c[Places - 2 * j] = e[Places - 2 * j]
    BY <1>8, <1>10, <2>2, SameDigits DEF Pair
  <2> QED BY <1>1, <2>3
<1>12. \A n \in 1..Places : c[n] = e[n]
  BY <1>11
<1>13. c = [n \in 1..Places |-> c[n]] /\ e = [n \in 1..Places |-> e[n]]
  OBVIOUS
<1> QED BY Zenon, <1>12, <1>13

-----------------------------------------------------------------------------
(* The digits of a number, and back.                                       *)

LEMMA DigitsType ==
    ASSUME NEW w \in Nat, NEW n \in 0..Places
    PROVE  Digits(w, n) \in [1..n -> Digit]
<1>0. Places \in Nat /\ Radix \in Nat \ {0}
  BY RecordAssumption DEF Places
<1>1. ASSUME NEW i \in 1..n PROVE (w \div Weight[n - i]) % Radix \in Digit
  <2>1. n - i \in 0..Places
    BY <1>0
  <2>2. PICK q \in Nat : q = w \div Weight[n - i]
    BY <2>1, WeightIs, DivisionOf
  <2> QED BY <1>0, <2>2, DivisionOf DEF Digit
<1> QED BY Zenon, <1>1 DEF Digits

LEMMA RoundTrip ==
    ASSUME NEW n \in 0..Places, NEW w \in Nat, w < Weight[n]
    PROVE  Value(Digits(w, n)) = w
<1> DEFINE c == Digits(w, n)
<1>0. Places \in Nat /\ Radix \in Nat \ {0} /\ n \in Nat
  BY RecordAssumption DEF Places
<1>1. c \in [1..n -> Digit]
  BY DigitsType
<1>2. ASSUME NEW i \in 1..n PROVE c[i] = (w \div Weight[n - i]) % Radix
  BY DEF Digits
<1> HIDE DEF c
<1>3. PICK v : /\ Recurs(v, 0, Radix, c, n) /\ Value(c) = v[n]
               /\ \A k \in 0..n : v[k] \in Nat
  BY <1>0, <1>1, ValueIs
<1>4. ASSUME NEW m \in 0..n, v[m] # w \div Weight[n - m] PROVE FALSE
  <2> DEFINE T == {k \in 0..n : v[k] # w \div Weight[n - k]}
  <2>1. PICK x \in T : \A y \in T : x <= y
    <3>1. T \in SUBSET Nat /\ T # {}
      BY <1>0, <1>4
    <3> HIDE DEF T
    <3> QED BY <3>1, LeastElement
  <2>2. x # 0
    <3>1. n - 0 = n /\ n \in 0..Places
      BY <1>0
    <3>2. PICK a \in Nat \ {0} : a = Weight[n]
      BY <3>1, WeightIs
    <3>3. w \div a = 0
      <4>1. w < a
        BY <3>2
      <4> QED BY <4>1
    <3> QED BY <1>3, <3>1, <3>2, <3>3 DEF Recurs
  <2>3. x \in 1..n /\ x - 1 \in 0..n /\ x - 1 \notin T
    BY <1>0, <2>1, <2>2
  <2>4. n - x \in 0..Places /\ n - x + 1 \in 1..Places /\ n - (x - 1) = n - x + 1
        /\ n - x + 1 - 1 = n - x
    BY <1>0, <2>3
  <2>5. PICK a \in Nat \ {0} : a = Weight[n - x]
    BY <2>4, WeightIs
  <2>6. Weight[n - x + 1] = a * Radix
    BY <2>4, <2>5, WeightIs
  <2>7. PICK q \in Nat : q = w \div a
    BY <2>5, DivisionOf
  <2>8. v[x - 1] = q \div Radix
    <3>1. v[x - 1] = w \div (a * Radix)
      BY <2>3, <2>4, <2>6
    <3> QED BY <1>0, <2>5, <2>7, <3>1, DivisionTwice
  <2>9. c[x] = q % Radix
    BY <1>2, <2>3, <2>5, <2>7
  <2>10. v[x] = (q \div Radix) * Radix + (q % Radix)
    BY <1>3, <2>3, <2>8, <2>9 DEF Recurs
  <2>11. v[x] = q
    BY <1>0, <2>10, DivisionOf
  <2> QED BY <2>5, <2>7, <2>11
<1>5. v[n] = w
  <2>1. n \in 0..n /\ n - n = 0
    BY <1>0
  <2>2. w \div 1 = w
    OBVIOUS
  <2> QED BY <1>4, <2>1, <2>2, WeightIs
<1> QED BY <1>3, <1>5 DEF c

LEMMA ByteWeight == Byte = Weight[2] /\ 2 \in 0..Places /\ Byte \in Nat \ {0}
<1>0. Places \in Nat /\ Radix \in Nat \ {0} /\ Places >= 2
  BY RecordAssumption DEF Places
<1>1. 1 \in 1..Places /\ 2 \in 1..Places /\ 2 - 1 = 1 /\ 1 - 1 = 0
  BY <1>0
<1>2. Weight[1] = 1 * Radix
  BY <1>1, WeightIs
<1>3. Weight[2] = 1 * Radix * Radix
  BY <1>1, <1>2, WeightIs
<1> QED BY <1>0, <1>3 DEF Byte

-----------------------------------------------------------------------------
(* What hexToString writes, and what dataCallback reads.                   *)

LEMMA ChecksumCompletes ==
    ASSUME NEW sum \in Nat
    PROVE  /\ (Byte - (sum % Byte)) % Byte \in 0..(Byte - 1)
           /\ (((Byte - (sum % Byte)) % Byte) + sum) % Byte = 0
<1>1. PICK b \in Nat \ {0} : b = Byte
  BY ByteWeight
<1>2. PICK q \in Nat, r \in 0..(b - 1) : sum = q * b + r /\ r = sum % b
  BY DivisionNamed
<1>3. CASE r = 0
  <2>1. b % b = 0 /\ b - r = b
    BY <1>2, <1>3
  <2>2. PICK x \in Nat : x = q * b
    OBVIOUS
  <2>3. 0 + sum = q * b + 0
    BY <1>2, <1>3, <2>2
  <2>4. (q * b + 0) % b = 0
    BY DivisionIs
  <2>5. PICK k \in 0..(b - 1) : k = 0
    OBVIOUS
  <2>6. k = (b - (sum % b)) % b
    BY <1>2, <2>1, <2>5
  <2>7. (k + sum) % b = 0
    BY <2>3, <2>4, <2>5
  <2> QED BY Zenon, <1>1, <2>6, <2>7
<1>4. CASE r # 0
  <2>1. b - r \in 0..(b - 1) /\ (b - r) % b = b - r
    BY <1>4
  <2>2. (b - r) + sum = (q + 1) * b + 0
    <3>1. PICK x \in Nat : x = q * b
      OBVIOUS
    <3>2. (q + 1) * b = x + b
      BY <3>1
    <3> QED BY <1>2, <3>1, <3>2
  <2>3. ((q + 1) * b + 0) % b = 0
    BY DivisionIs
  <2> QED BY <1>1, <1>2, <2>1, <2>2, <2>3
<1> QED BY <1>3, <1>4

LEMMA AsSequence ==
    ASSUME NEW n \in Nat, NEW c \in [1..n -> Digit]
    PROVE  c \in Seq(Digit) /\ Len(c) = n
OBVIOUS

LEMMA SameSequence ==
    ASSUME NEW n, NEW c \in [1..n -> Digit], NEW e \in [1..n -> Digit],
           \A i \in 1..n : c[i] = e[i]
    PROVE  c = e
<1>1. c = [i \in 1..n |-> c[i]] /\ e = [i \in 1..n |-> e[i]]
  OBVIOUS
<1> QED BY Zenon, <1>1

LEMMA Cut ==
    ASSUME NEW n \in Nat, NEW s \in [1..(n + 2) -> Digit], Len(s) = n + 2
    PROVE  /\ \A a \in [1..2 -> Digit] : (\A i \in 1..2 : s[i] = a[i]) => SubSeq(s, 1, 2) = a
           /\ \A c \in [1..n -> Digit] :
                  (\A i \in 1..n : s[i + 2] = c[i]) => SubSeq(s, 3, Len(s)) = c
<1>1. ASSUME NEW a \in [1..2 -> Digit], \A i \in 1..2 : s[i] = a[i]
      PROVE  SubSeq(s, 1, 2) = a
  <2>1. a \in Seq(Digit) /\ Len(a) = 2
    BY AsSequence
  <2>2. \A i \in 1..2 : s[i] \in Digit
    OBVIOUS
  <2>3. /\ SubSeq(s, 1, 2) \in Seq(Digit) /\ Len(SubSeq(s, 1, 2)) = 2
        /\ \A i \in 1..2 : SubSeq(s, 1, 2)[i] = s[1 + i - 1]
    BY <2>2, SubSeqProperties
  <2>4. \A i \in 1..2 : SubSeq(s, 1, 2)[i] = a[i]
    BY <1>1, <2>3
  <2> QED BY <2>1, <2>3, <2>4, SeqEqual
<1>2. ASSUME NEW c \in [1..n -> Digit], \A i \in 1..n : s[i + 2] = c[i]
      PROVE  SubSeq(s, 3, n + 2) = c
  <2>1. c \in Seq(Digit) /\ Len(c) = n
    BY AsSequence
  <2>2. \A i \in 3..(n + 2) : s[i] \in Digit
    OBVIOUS
  <2>3. /\ SubSeq(s, 3, n + 2) \in Seq(Digit)
        /\ Len(SubSeq(s, 3, n + 2)) = IF 3 <= n + 2 THEN n + 2 - 3 + 1 ELSE 0
        /\ \A i \in 1..(n + 2 - 3 + 1) : SubSeq(s, 3, n + 2)[i] = s[3 + i - 1]
    <3>1. 3 \in Int /\ n + 2 \in Int
      OBVIOUS
    <3> QED BY <2>2, <3>1, SubSeqProperties
  <2>4. Len(SubSeq(s, 3, n + 2)) = n /\ n + 2 - 3 + 1 = n
    BY <2>3
  <2>5. ASSUME NEW i \in 1..n PROVE SubSeq(s, 3, n + 2)[i] = c[i]
    <3>1. 3 + i - 1 = i + 2
      OBVIOUS
    <3> QED BY <1>2, <2>3, <2>4, <3>1
  <2> QED BY <2>1, <2>3, <2>4, <2>5, SeqEqual
<1> QED BY <1>1, <1>2

(* Two digits of the checksum and the digits of the word.                  *)
HasParts(s, a, c) == /\ s \in [1..(Places + 2) -> Digit] /\ Len(s) = Places + 2
                     /\ SubSeq(s, 1, 2) = a /\ SubSeq(s, 3, Len(s)) = c
                     /\ \A i \in 1..2 : s[i] = a[i]
                     /\ \A i \in 1..Places : s[i + 2] = c[i]

LEMMA Parts ==
    ASSUME NEW a \in [1..2 -> Digit], NEW c \in [1..Places -> Digit]
    PROVE  HasParts(a \o c, a, c)
<1> SUFFICES ASSUME NEW s, s = a \o c PROVE HasParts(s, a, c)
  OBVIOUS
<1>0. Places \in Nat
  BY RecordAssumption DEF Places
<1>1. a \in Seq(Digit) /\ Len(a) = 2 /\ c \in Seq(Digit) /\ Len(c) = Places
  BY <1>0, AsSequence
<1>2. /\ s \in Seq(Digit) /\ Len(s) = Places + 2
      /\ \A i \in 1..(Places + 2) : s[i] = IF i <= 2 THEN a[i] ELSE c[i - 2]
  <2>1. /\ s \in Seq(Digit) /\ Len(s) = Len(a) + Len(c)
        /\ \A i \in 1..(Len(a) + Len(c)) : s[i] = IF i <= Len(a) THEN a[i] ELSE c[i - Len(a)]
    BY <1>1, ConcatProperties
  <2>2. Len(a) + Len(c) = Places + 2
    BY <1>0, <1>1
  <2> QED BY <1>1, <2>1, <2>2
<1>3. \A i \in 1..2 : s[i] = a[i]
  BY <1>0, <1>2
<1>4. ASSUME NEW i \in 1..Places PROVE s[i + 2] = c[i]
  <2>1. i + 2 \in 1..(Places + 2) /\ ~(i + 2 <= 2) /\ i + 2 - 2 = i
    BY <1>0
  <2> QED BY <1>2, <2>1
<1>5. s \in [1..(Places + 2) -> Digit]
  BY <1>2, LenProperties
<1>6. SubSeq(s, 1, 2) = a
  BY <1>0, <1>2, <1>3, <1>5, <1>1, Cut
<1>7. SubSeq(s, 3, Len(s)) = c
  BY <1>0, <1>2, <1>4, <1>5, <1>1, Cut
<1> QED BY <1>2, <1>3, <1>4, <1>5, <1>6, <1>7 DEF HasParts

LEMMA Changed ==
    ASSUME NEW s \in [1..(Places + 2) -> Digit], NEW i \in 1..(Places + 2), NEW d \in Digit
    PROVE  \E a \in [1..2 -> Digit], c \in [1..Places -> Digit] :
               /\ SubSeq([s EXCEPT ![i] = d], 1, 2) = a
               /\ SubSeq([s EXCEPT ![i] = d], 3, Len([s EXCEPT ![i] = d])) = c
               /\ \A k \in 1..2 : k # i => a[k] = s[k]
               /\ \A k \in 1..Places : k + 2 # i => c[k] = s[k + 2]
<1>0. Places \in Nat
  BY RecordAssumption DEF Places
<1>1. PICK e : e = [s EXCEPT ![i] = d]
  OBVIOUS
<1>2. /\ e \in Seq(Digit) /\ Len(e) = Places + 2
      /\ \A k \in 1..(Places + 2) : e[k] \in Digit /\ (k # i => e[k] = s[k])
  <2>1. e \in [1..(Places + 2) -> Digit]
    BY <1>1
  <2>2. \A k \in 1..(Places + 2) : k # i => e[k] = s[k]
    BY <1>1
  <2>3. Places + 2 \in Nat
    BY <1>0
  <2> QED BY <2>1, <2>2, <2>3
<1>3. PICK a : a = [k \in 1..2 |-> e[k]]
  OBVIOUS
<1>4. PICK c : c = [k \in 1..Places |-> e[k + 2]]
  OBVIOUS
<1>5. a \in [1..2 -> Digit] /\ c \in [1..Places -> Digit]
  BY <1>0, <1>2, <1>3, <1>4
<1>6. SubSeq(e, 1, 2) = a /\ SubSeq(e, 3, Len(e)) = c
  <2>1. e \in [1..(Places + 2) -> Digit]
    BY <1>2, LenProperties
  <2>2. \A k \in 1..2 : e[k] = a[k]
    BY <1>3
  <2>3. \A k \in 1..Places : e[k + 2] = c[k]
    BY <1>4
  <2> QED BY <1>0, <1>2, <1>5, <2>1, <2>2, <2>3, Cut
<1>8. \A k \in 1..2 : k # i => a[k] = s[k]
  BY <1>0, <1>2, <1>3
<1>9. \A k \in 1..Places : k + 2 # i => c[k] = s[k + 2]
  BY <1>0, <1>2, <1>4
<1> QED BY Zenon, <1>1, <1>5, <1>6, <1>8, <1>9

(* A message with one character changed, or cut short, is not accepted     *)
(* unless it still says the same word.                                     *)
LEMMA NoneMistaken ==
    ASSUME NEW word \in 0..(WordRange - 1), NEW m,
           m \in {hexToString(word)} \cup Damaged(hexToString(word)), Correct(m)
    PROVE  Count(m) = word
<1>0. Places \in Nat /\ Places \in 0..Places /\ 2 \in 0..Places /\ word \in Nat
      /\ word < Weight[Places] /\ Byte = Weight[2] /\ Length = Places + 2
  <2>1. Places \in Nat /\ Length = Places + 2
    BY RecordAssumption DEF Places, Length
  <2>2. WordRange = Weight[Places] /\ Weight[Places] \in Nat
    BY <2>1, WeightIs DEF WordRange, Places
  <2> QED BY <2>1, <2>2, ByteWeight
<1>1. PICK c : c = Digits(word, Places)
  OBVIOUS
<1>2. c \in [1..Places -> Digit] /\ Value(c) = word
  BY <1>0, <1>1, DigitsType, RoundTrip
<1>3. PICK k \in 0..(Byte - 1) : k = (Byte - (ByteSum(word) % Byte)) % Byte
                                /\ (k + ByteSum(word)) % Byte = 0
  <2>1. ByteSum(word) \in Nat
    <3>1. PICK s : /\ ByteSum(word) = s[WordBytes]
                   /\ Recurs(s, 0, 1, [n \in 1..WordBytes |-> Pair(c, n - 1)], WordBytes)
      BY <1>2, ByteSumOf
    <3> DEFINE t == [n \in 1..WordBytes |-> Pair(c, n - 1)]
    <3>2. WordBytes \in Nat
      BY RecordAssumption
    <3>3. \A n \in 1..WordBytes : t[n] \in Nat
      <4> SUFFICES ASSUME NEW n \in 1..WordBytes PROVE t[n] \in Nat
        OBVIOUS
      <4>1. n - 1 \in 0..(WordBytes - 1)
        BY <3>2
      <4>2. Pair(c, n - 1) \in 0..(Byte - 1)
        BY <1>2, <4>1, BytesOf
      <4> QED BY <4>2, ByteWeight
    <3>4. Recurs(s, 0, 1, t, WordBytes)
      BY <3>1
    <3> HIDE DEF t
    <3>5. s[WordBytes] \in Nat
      BY <3>2, <3>3, <3>4, RecursType
    <3> QED BY <3>1, <3>5
  <2> QED BY <2>1, ChecksumCompletes
<1>4. k \in Nat /\ k < Weight[2]
  BY <1>0, ByteWeight
<1>5. PICK a : a = Digits(k, 2)
  OBVIOUS
<1>6. a \in [1..2 -> Digit] /\ Value(a) = k
  BY <1>0, <1>4, <1>5, DigitsType, RoundTrip
<1>7. PICK s : s = a \o c
  OBVIOUS
<1>8. hexToString(word) = s
  BY Zenon, <1>1, <1>3, <1>5, <1>7 DEF hexToString, Places
<1>9. /\ s \in [1..(Places + 2) -> Digit] /\ Len(s) = Places + 2
      /\ SubSeq(s, 1, 2) = a /\ SubSeq(s, 3, Len(s)) = c
      /\ \A i \in 1..2 : s[i] = a[i]
      /\ \A i \in 1..Places : s[i + 2] = c[i]
  <2>1. a \in [1..2 -> Digit] /\ c \in [1..Places -> Digit]
    BY <1>2, <1>6
  <2>2. HasParts(s, a, c)
    BY <1>7, <2>1, Parts
  <2> QED BY Zenon, <2>2 DEF HasParts
<1>10. CASE m = s
  BY Zenon, <1>2, <1>9, <1>10 DEF Count
<1>11. ASSUME NEW n \in 0..(Length - 1), m = SubSeq(s, 1, n) PROVE FALSE
  <2>1. Len(m) = n
    BY <1>0, <1>9, <1>11
  <2> QED BY <1>0, <2>1 DEF Correct
<1>12. ASSUME NEW i \in DOMAIN s, NEW d \in 0..(Radix - 1) \cup {Bad}, m = [s EXCEPT ![i] = d]
       PROVE  Count(m) = word
  <2>1. i \in 1..(Places + 2)
    BY <1>9
  <2>2. d \in Digit
    <3>1. m[i] = d /\ i \in DOMAIN m
      BY <1>9, <1>12
    <3>2. d # Bad
      BY <3>1 DEF Correct, Range
    <3> QED BY <3>2 DEF Digit
  <2>3. PICK b \in [1..2 -> Digit], e \in [1..Places -> Digit] :
            /\ SubSeq(m, 1, 2) = b /\ SubSeq(m, 3, Len(m)) = e
            /\ \A n \in 1..2 : n # i => b[n] = s[n]
            /\ \A n \in 1..Places : n + 2 # i => e[n] = s[n + 2]
    BY <1>9, <1>12, <2>1, <2>2, Changed
  <2>4. Count(m) = Value(e) /\ Checksum(m) = Value(b)
    BY Zenon, <2>3 DEF Count, Checksum
  <2>5. CASE i <= 2
    <3>1. \A n \in 1..Places : e[n] = c[n]
      BY <1>0, <1>9, <2>1, <2>3, <2>5
    <3>2. e = c
      BY <1>2, <3>1, SameSequence
    <3> QED BY <1>2, <2>4, <3>2
  <2>6. CASE i > 2
    <3>1. \A n \in 1..2 : b[n] = a[n]
      BY <1>9, <2>1, <2>3, <2>6
    <3>2. b = a
      BY <1>6, <3>1, SameSequence
    <3>3. PICK j \in 1..Places : i = j + 2
      <4>1. i - 2 \in 1..Places /\ i = (i - 2) + 2
        BY <1>0, <2>1, <2>6
      <4> QED BY <4>1
    <3>4. \A n \in 1..Places : n # j => c[n] = e[n]
      BY <1>0, <1>9, <2>3, <3>3
    <3>5. (k + ByteSum(Value(c))) % Byte = 0
      BY <1>2, <1>3
    <3>6. (k + ByteSum(Value(e))) % Byte = 0
      BY <1>6, <2>4, <3>2 DEF Correct
    <3>7. c = e
      BY <1>2, <1>4, <3>4, <3>5, <3>6, OneDigit
    <3> QED BY <1>2, <2>4, <3>7
  <2> QED BY <2>1, <2>5, <2>6, <1>0
<1> QED BY <1>8, <1>10, <1>11, <1>12 DEF Damaged

-----------------------------------------------------------------------------
(* The voltage is found where the ports before the battery's end.          *)

LEMMA PortsBelow ==
    ASSUME NEW ports \in SUBSET Port
    PROVE  Cardinality({p \in ports : p < BatteryPort}) = IF 0 \in ports THEN 1 ELSE 0
<1>1. {p \in ports : p < BatteryPort} = IF 0 \in ports THEN {0} ELSE {}
  <2>1. \A p \in ports : p < 1 <=> p = 0
    BY DEF Port
  <2>2. CASE 0 \in ports
    BY <2>1, <2>2 DEF BatteryPort
  <2>3. CASE 0 \notin ports
    BY <2>1, <2>3 DEF BatteryPort
  <2> QED BY <2>2, <2>3
<1>2. Cardinality({0}) = 1 /\ Cardinality({}) = 0
  BY FS_Singleton, FS_EmptySet
<1> QED BY <1>1, <1>2

LEMMA JoinNat ==
    ASSUME NEW b \in Seq(Nat), NEW f \in Seq(Nat)
    PROVE  /\ b \o f \in Seq(Nat) /\ Len(b \o f) = Len(b) + Len(f)
           /\ Len(b) \in Nat /\ Len(f) \in Nat
           /\ \A i \in 1..(Len(b) + Len(f)) :
                  (b \o f)[i] = IF i <= Len(b) THEN b[i] ELSE f[i - Len(b)]
BY ConcatProperties, LenProperties

LEMMA JoinThree ==
    ASSUME NEW b \in Seq(Nat), NEW f \in Seq(Nat), NEW d \in Seq(Nat)
    PROVE  (b \o f) \o d = b \o (f \o d)
BY ConcatAssociative

(* Some elements, two of interest and more.                                *)
After(s, b, f) == s[Len(b) + 1] = f[1] /\ s[Len(b) + 2] = f[2]

LEMMA Middle ==
    ASSUME NEW b \in Seq(Nat), NEW f \in Seq(Nat), NEW d \in Seq(Nat), Len(f) = 2
    PROVE  After(b \o f \o d, b, f)
<1>1. PICK x \in Seq(Nat) : x = b \o f
  BY JoinNat
<1>2. /\ Len(x) = Len(b) + 2 /\ Len(b) \in Nat
      /\ \A i \in 1..(Len(b) + 2) : x[i] = IF i <= Len(b) THEN b[i] ELSE f[i - Len(b)]
  <2>1. /\ Len(b \o f) = Len(b) + Len(f) /\ Len(b) \in Nat
        /\ \A i \in 1..(Len(b) + Len(f)) :
               (b \o f)[i] = IF i <= Len(b) THEN b[i] ELSE f[i - Len(b)]
    BY JoinNat
  <2> QED BY Zenon, <1>1, <2>1
<1>3. x[Len(b) + 1] = f[1] /\ x[Len(b) + 2] = f[2]
  <2>1. /\ Len(b) + 1 \in 1..(Len(b) + 2) /\ ~(Len(b) + 1 <= Len(b)) /\ Len(b) + 1 - Len(b) = 1
        /\ Len(b) + 2 \in 1..(Len(b) + 2) /\ ~(Len(b) + 2 <= Len(b)) /\ Len(b) + 2 - Len(b) = 2
    BY <1>2
  <2> QED BY <1>2, <2>1
<1>4. PICK y \in Seq(Nat) : y = x \o d
  BY JoinNat
<1>5. \A i \in 1..(Len(x) + Len(d)) : y[i] = IF i <= Len(x) THEN x[i] ELSE d[i - Len(x)]
  BY <1>4, JoinNat
<1>6. y[Len(b) + 1] = x[Len(b) + 1] /\ y[Len(b) + 2] = x[Len(b) + 2]
  <2>1. /\ Len(b) + 1 \in 1..(Len(x) + Len(d)) /\ Len(b) + 1 <= Len(x)
        /\ Len(b) + 2 \in 1..(Len(x) + Len(d)) /\ Len(b) + 2 <= Len(x)
    BY <1>2, LenProperties
  <2> QED BY <1>5, <2>1
<1>7. After(y, b, f)
  BY Zenon, <1>3, <1>6 DEF After
<1> QED BY <1>1, <1>4, <1>7

LEMMA VoltageFound ==
    ASSUME NEW voltage \in Nat, NEW s \in Samples(voltage)
    PROVE  getXBeeADC(s, BatteryPort) = voltage
<1>1. PICK digital \in BOOLEAN, others \in SUBSET Port :
          s = Sample(voltage, digital, {BatteryPort} \cup others)
  BY DEF Samples
<1>2. PICK ports \in SUBSET Port : ports = {BatteryPort} \cup others
  <2>1. BatteryPort \in Port
    BY DEF BatteryPort, Port
  <2> QED BY Zenon, <2>1
<1> DEFINE Of(p) == IF p \in ports THEN Reading(p, voltage) ELSE <<>>
           start == IF digital THEN <<0, 1>> ELSE <<>>
<1>3. /\ s.digital = digital /\ s.analogue = ports
      /\ s.bytes = start \o Of(0) \o Of(1) \o Of(2) \o Of(3) \o Of(4)
  <2>1. s = [digital |-> digital, analogue |-> ports,
             bytes |-> start \o Of(0) \o Of(1) \o Of(2) \o Of(3) \o Of(4)]
    BY Zenon, <1>1, <1>2 DEF Sample
  <2> HIDE DEF start, Of
  <2> QED BY <2>1
<1>4. PICK high \in Nat, low \in Nat : /\ high = voltage \div Byte /\ low = voltage % Byte
                                       /\ high * Byte + low = voltage
  <2>1. PICK d \in Nat \ {0} : d = Byte
    BY ByteWeight
  <2>2. PICK q \in Nat, r \in 0..(d - 1) :
            voltage = q * d + r /\ q = voltage \div d /\ r = voltage % d
    BY DivisionNamed
  <2>3. r \in Nat
    OBVIOUS
  <2> QED BY Zenon, <2>1, <2>2, <2>3
<1>5. ASSUME NEW p \in Port PROVE Of(p) \in Seq(Nat)
  <2>1. Byte - 1 \in Nat
    BY ByteWeight
  <2>2. <<high, low>> \in Seq(Nat) /\ <<p, Byte - 1>> \in Seq(Nat) /\ <<>> \in Seq(Nat)
    BY <2>1 DEF Port
  <2> QED BY <1>4, <2>2 DEF Reading
<1>6. Of(1) = <<high, low>>
  BY <1>2, <1>4 DEF Reading, BatteryPort
<1>7. Of(0) \in Seq(Nat) /\ Len(Of(0)) = IF 0 \in ports THEN 2 ELSE 0
  <2>1. 0 \in Port /\ 0 # BatteryPort
    BY DEF Port, BatteryPort
  <2> QED BY <1>5, <2>1 DEF Reading
<1>8. start \in Seq(Nat) /\ Len(start) = IF digital THEN 2 ELSE 0
  OBVIOUS
<1>9. PICK b \in Seq(Nat) : b = start \o Of(0) /\ Len(b) = Len(start) + Len(Of(0))
  <2> HIDE DEF start, Of
  <2> QED BY <1>7, <1>8, JoinNat
<1>10. PICK f \in Seq(Nat) : f = Of(1) /\ Len(f) = 2 /\ f[1] = high /\ f[2] = low
  <2>1. <<high, low>> \in Seq(Nat) /\ Len(<<high, low>>) = 2
        /\ <<high, low>>[1] = high /\ <<high, low>>[2] = low
    OBVIOUS
  <2> QED BY <1>6, <2>1
<1> DEFINE at(y) == y[Len(b) + 1] = high /\ y[Len(b) + 2] = low
<1>11. at(s.bytes)
  <2>1. PICK two \in Seq(Nat), three \in Seq(Nat), four \in Seq(Nat) :
            two = Of(2) /\ three = Of(3) /\ four = Of(4)
    <3>1. 2 \in Port /\ 3 \in Port /\ 4 \in Port
      BY DEF Port
    <3> HIDE DEF Of
    <3> QED BY <1>5, <3>1
  <2>2. s.bytes = b \o f \o two \o three \o four
    <3> HIDE DEF Of, start
    <3> QED BY Zenon, <1>3, <1>9, <1>10, <2>1
  <2>3. PICK tail \in Seq(Nat) : tail = two \o three \o four
                                 /\ b \o f \o two \o three \o four = b \o f \o tail
    <3>1. PICK x \in Seq(Nat) : x = b \o f
      BY JoinNat
    <3>2. PICK y \in Seq(Nat) : y = two \o three
      BY JoinNat
    <3>3. (x \o two) \o three = x \o y
      BY <3>2, JoinThree
    <3>4. (x \o y) \o four = x \o (y \o four)
      BY JoinThree
    <3>5. y \o four \in Seq(Nat)
      BY JoinNat
    <3> QED BY Zenon, <3>1, <3>2, <3>3, <3>4, <3>5
  <2>4. (b \o f \o tail)[Len(b) + 1] = f[1] /\ (b \o f \o tail)[Len(b) + 2] = f[2]
    <3>1. After(b \o f \o tail, b, f)
      BY <1>10, Middle
    <3> QED BY Zenon, <3>1 DEF After
  <2> QED BY Zenon, <1>10, <2>2, <2>3, <2>4
<1>12. Len(b) = (IF s.digital THEN 2 ELSE 0)
                + 2 * Cardinality({p \in s.analogue : p < BatteryPort})
  <2>1. Cardinality({p \in s.analogue : p < BatteryPort}) = IF 0 \in ports THEN 1 ELSE 0
    BY <1>3, PortsBelow
  <2>2. PICK k \in 0..1 : k = Cardinality({p \in s.analogue : p < BatteryPort})
                          /\ k = IF 0 \in ports THEN 1 ELSE 0
    BY <2>1
  <2> HIDE DEF Of, start
  <2>3. Len(Of(0)) = 2 * k
    <3>1. 2 * 1 = 2 /\ 2 * 0 = 0
      OBVIOUS
    <3> QED BY Zenon, <1>7, <2>2, <3>1
  <2>4. Len(start) = IF s.digital THEN 2 ELSE 0
    BY <1>3, <1>8
  <2>5. Len(b) = (IF s.digital THEN 2 ELSE 0) + 2 * k
    BY Zenon, <1>9, <2>3, <2>4
  <2> QED BY Zenon, <2>2, <2>5
<1>13. getXBeeADC(s, BatteryPort) = s.bytes[Len(b) + 1] * Byte + s.bytes[Len(b) + 2]
  BY Zenon, <1>12 DEF getXBeeADC
<1> QED BY Zenon, <1>4, <1>11, <1>13

-----------------------------------------------------------------------------
(* The word that is on its way is the one of the measurement, and so is    *)
(* the one that has been accepted.                                         *)
ExchangeInv ==
    /\ measured \in Measurements
    /\ stage = "sent" => message \in {hexToString(DataWord(measured))}
                                     \cup Damaged(hexToString(DataWord(measured)))
    /\ stage = "accepted" => dataField = DataWord(measured)

LEMMA RangeIs ==
    /\ WordRange \in Nat \ {0} /\ WordRange = CountRange * VoltageRange * StatusRange
    /\ CountRange \in Nat \ {0} /\ VoltageRange \in Nat \ {0} /\ StatusRange \in Nat \ {0}
<1>1. Places \in Nat /\ Places \in 0..Places
  BY RecordAssumption DEF Places
<1>2. WordRange \in Nat \ {0}
  BY <1>1, WeightIs DEF WordRange, Places
<1> QED BY <1>2, RecordAssumption

LEMMA WordType ==
    ASSUME NEW m \in Measurements
    PROVE  DataWord(m) \in 0..(WordRange - 1)
<1>1. m.count \in Nat /\ m.voltage \in Nat /\ m.status \in Nat
  BY RecordAssumption
<1>2. PICK v \in Nat : v = m.voltage % VoltageRange
  BY <1>1, RangeIs, DivisionOf
<1>3. PICK t \in Nat : t = m.status % StatusRange
  BY <1>1, RangeIs, DivisionOf
<1>4. PICK c \in Nat : c = CountRange
  BY RangeIs
<1>5. PICK r \in Nat : r = VoltageRange
  BY RangeIs
<1>6. PICK x \in Nat : x = v * c
  OBVIOUS
<1>7. PICK y \in Nat : y = t * c * r
  OBVIOUS
<1>8. m.count + x + y \in Nat
  BY <1>1
<1> QED BY <1>2, <1>3, <1>4, <1>5, <1>6, <1>7, <1>8, RangeIs, DivisionOf DEF DataWord

LEMMA ExchangeStep == ExchangeInv /\ [Next]_vars => ExchangeInv'
<1> SUFFICES ASSUME ExchangeInv, [Next]_vars PROVE ExchangeInv'
  OBVIOUS
<1>1. CASE UNCHANGED exchangeVars
  BY <1>1 DEF ExchangeInv, exchangeVars
<1>2. CASE Send
  <2>1. measured.voltage \in Nat /\ measured \in [count : Nat, voltage : Nat, status : Nat]
    BY RecordAssumption DEF ExchangeInv
  <2>2. PICK s \in Samples(measured.voltage) :
            message' \in {hexToString(DataWord([measured EXCEPT !.voltage
                                                  = getXBeeADC(s, BatteryPort)]))}
                         \cup Damaged(hexToString(DataWord([measured EXCEPT !.voltage
                                                              = getXBeeADC(s, BatteryPort)])))
    BY <1>2 DEF Send
  <2>3. getXBeeADC(s, BatteryPort) = measured.voltage
    BY <2>1, VoltageFound
  <2>4. [measured EXCEPT !.voltage = measured.voltage] = measured
    BY <2>1
  <2>5. message' \in {hexToString(DataWord(measured))}
                     \cup Damaged(hexToString(DataWord(measured)))
    BY Zenon, <2>2, <2>3, <2>4
  <2>6. stage' = "sent" /\ measured' = measured
    BY <1>2 DEF Send
  <2>7. stage' # "accepted"
    BY <2>6
  <2>8. message' \in {hexToString(DataWord(measured'))}
                     \cup Damaged(hexToString(DataWord(measured')))
    BY Zenon, <2>5, <2>6
  <2>9. measured' \in Measurements
    BY <2>6 DEF ExchangeInv
  <2> QED BY <2>7, <2>8, <2>9 DEF ExchangeInv
<1>3. CASE ReceiveCorrect
  <2>1. DataWord(measured) \in 0..(WordRange - 1)
    BY WordType DEF ExchangeInv
  <2>2. Count(message) = DataWord(measured)
    BY <1>3, <2>1, NoneMistaken DEF ReceiveCorrect, ExchangeInv
  <2>3. /\ measured' = measured /\ dataField' = DataWord(measured) /\ stage' = "accepted"
    BY <1>3, <2>2 DEF ReceiveCorrect
  <2>4. dataField' = DataWord(measured') /\ stage' # "sent" /\ measured' \in Measurements
    BY <2>3 DEF ExchangeInv
  <2> QED BY <2>4 DEF ExchangeInv
<1>4. CASE ReceiveIncorrect \/ Record
  BY <1>4 DEF ReceiveIncorrect, Record, ExchangeInv
<1> QED BY <1>1, <1>2, <1>3, <1>4 DEF Next, RecordIO, RecordTest, Restart, vars

(* A sum of multiples is taken apart by division.                          *)
Packed(x, y, z, c, v, s) == (x + y * c + z * c * v) % (c * v * s)

LEMMA TakenApart ==
    ASSUME NEW c \in Nat \ {0}, NEW v \in Nat \ {0}, NEW s \in Nat \ {0},
           NEW x \in 0..(c - 1), NEW y \in 0..(v - 1), NEW z \in 0..(s - 1)
    PROVE  /\ (Packed(x, y, z, c, v, s) \div c) % v = y
           /\ Packed(x, y, z, c, v, s) \div (c * v) = z
<1>1. PICK u \in Nat : u = z * v + y
  OBVIOUS
<1>2. x + y * c + z * c * v = u * c + x
  <2>1. u * c = z * c * v + y * c
    BY <1>1
  <2>2. PICK a \in Nat, b \in Nat : a = y * c /\ b = z * c * v
    OBVIOUS
  <2>3. x \in Nat
    OBVIOUS
  <2> QED BY <2>1, <2>2, <2>3
<1>3. u \div v = z /\ u % v = y
  BY <1>1, DivisionIs
<1>4. (u * c + x) \div c = u
  BY DivisionIs
<1>5. u * c + x < c * v * s
  <2>1. PICK d \in Nat : s = z + 1 + d
    <3>1. s - z - 1 \in Nat /\ s = z + 1 + (s - z - 1)
      OBVIOUS
    <3> QED BY <3>1
  <2>2. PICK e \in Nat : v = y + 1 + e
    <3>1. v - y - 1 \in Nat /\ v = y + 1 + (v - y - 1)
      OBVIOUS
    <3> QED BY <3>1
  <2>3. v * s = z * v + v + d * v /\ d * v \in Nat
    BY <2>1
  <2>4. PICK f \in Nat : v * s = u + 1 + f
    <3>1. PICK a \in Nat, b \in Nat : a = z * v /\ b = d * v
      OBVIOUS
    <3>2. v * s = (a + y) + 1 + (e + b) /\ e + b \in Nat
      BY <2>2, <2>3, <3>1
    <3> QED BY <1>1, <3>1, <3>2
  <2>5. PICK w \in Nat : w = v * s
    OBVIOUS
  <2>6. c * v * s = w * c
    BY <2>5
  <2>7. w * c = u * c + c + f * c /\ f * c \in Nat /\ u * c \in Nat
    BY <2>4, <2>5
  <2>8. PICK a \in Nat, b \in Nat : a = u * c /\ b = f * c
    OBVIOUS
  <2>9. a + x < a + c + b
    OBVIOUS
  <2> QED BY <2>6, <2>7, <2>8, <2>9
<1>6. PICK t \in Nat : t = u * c + x
  OBVIOUS
<1>7. PICK m \in Nat \ {0} : m = c * v * s
  OBVIOUS
<1>8. t % m = t
  BY <1>5, <1>6, <1>7
<1>9. t \div (c * v) = z
  BY <1>3, <1>4, <1>6, DivisionTwice
<1>10. (t \div c) % v = y
  BY <1>3, <1>4, <1>6
<1> QED BY Zenon, <1>2, <1>6, <1>7, <1>8, <1>9, <1>10 DEF Packed

LEMMA CountKept ==
    ASSUME NEW c \in Nat \ {0}, NEW v \in Nat \ {0}, NEW s \in Nat \ {0},
           NEW x \in Nat, NEW y \in Nat, NEW z \in Nat
    PROVE  Packed(x, y, z, c, v, s) % c = x % c
<1>1. PICK q \in Nat, r \in 0..(c - 1) : x = q * c + r /\ r = x % c
  BY DivisionNamed
<1>2. PICK p \in Nat : p = q + y + z * v
  OBVIOUS
<1>3. x + y * c + z * c * v = p * c + r
  <2>1. p * c = q * c + y * c + z * c * v
    BY <1>2
  <2>2. PICK a \in Nat, b \in Nat, d \in Nat : a = y * c /\ b = z * c * v /\ d = q * c
    OBVIOUS
  <2>3. r \in Nat
    OBVIOUS
  <2> QED BY <1>1, <2>1, <2>2, <2>3
<1>4. PICK t \in Nat : t = p * c + r
  OBVIOUS
<1>5. t % c = r
  BY <1>4, DivisionIs
<1>6. PICK w \in Nat \ {0} : w = v * s
  OBVIOUS
<1>7. c * v * s = c * w
  BY <1>6
<1>8. (t % (c * w)) % c = t % c
  BY RestOfMultiple
<1> QED BY Zenon, <1>1, <1>3, <1>4, <1>5, <1>7, <1>8 DEF Packed

(* For every radix, every word and all parts of it: whatever one changed   *)
(* character or a cut has done to a message on its way, and whatever       *)
(* samples the XBee has taken besides, what the base accepts is what the   *)
(* node has measured.                                                      *)
THEOREM AcceptedIsMeasured == Spec => []AcceptedGenuine
<1>1. Init => ExchangeInv
  BY DEF Init, ExchangeInv
<1>2. ExchangeInv => AcceptedGenuine
  <2> SUFFICES ASSUME ExchangeInv, stage = "accepted" PROVE AcceptedGenuine
    BY DEF AcceptedGenuine
  <2>1. measured.count \in Nat /\ measured.voltage \in Nat /\ measured.status \in Nat
    BY RecordAssumption DEF ExchangeInv
  <2>2. PICK x \in Nat : x = measured.count
    BY <2>1
  <2>3. PICK y \in 0..(VoltageRange - 1) : y = measured.voltage % VoltageRange
    BY <2>1, RangeIs, DivisionOf
  <2>4. PICK z \in 0..(StatusRange - 1) : z = measured.status % StatusRange
    BY <2>1, RangeIs, DivisionOf
  <2>5. dataField = Packed(x, y, z, CountRange, VoltageRange, StatusRange)
    <3>1. dataField = DataWord(measured)
      BY DEF ExchangeInv
    <3> QED BY Zenon, <3>1, <2>2, <2>3, <2>4, RangeIs DEF DataWord, Packed
  <2>6. dataField % CountRange = x % CountRange
    <3>1. y \in Nat /\ z \in Nat
      BY RangeIs
    <3> QED BY <2>5, <3>1, RangeIs, CountKept
  <2>7. ASSUME x < CountRange
        PROVE  (dataField \div CountRange) % VoltageRange = y
               /\ dataField \div (CountRange * VoltageRange) = z
    <3>1. x \in 0..(CountRange - 1)
      BY <2>7, RangeIs
    <3> QED BY <2>5, <3>1, RangeIs, TakenApart
  <2> QED BY <2>2, <2>3, <2>4, <2>6, <2>7 DEF AcceptedGenuine, Line
<1> QED BY <1>1, <1>2, ExchangeStep, PTL DEF Spec

=============================================================================
