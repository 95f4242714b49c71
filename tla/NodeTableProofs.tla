--------------------------- MODULE NodeTableProofs ---------------------------
(***************************************************************************)
(* Proofs about NodeTable for any addresses, any number of clients, any    *)
(* size of the table and any number of mishaps: that no node has two rows, *)
(* that a deleted node stays deleted, that each row has the connection of  *)
(* its node, and that a deletion removes the node that the client named,   *)
(* each as long as nothing of what the property exempts has happened.      *)
(***************************************************************************)
EXTENDS NodeTable, FiniteSetTheorems, TLAPS

-----------------------------------------------------------------------------
(* The lines that fillNodeTable reads: the definition by CHOOSE is good.   *)

(* Whether S are the lines read of the first n lines of file f.            *)
Reads(f, n, S) == \A i \in 1..n : i \in S <=> ~(i - 1 \in S /\ f[i - 1].blank)

ReadsOf(f) ==
    CHOOSE S \in SUBSET DOMAIN f :
        \A i \in DOMAIN f : i \in S <=> ~(i - 1 \in S /\ f[i - 1].blank)

LEMMA Least ==
    ASSUME NEW T, T \subseteq Nat, T # {}
    PROVE  \E m \in T : \A k \in T : m <= k
<1>1. PICK m \in T : \A k \in T : ~(<<k, m>> \in OpToRel(<, Nat))
  BY WFMin, NatLessThanWellFounded
<1>2. \A k \in T : <<k, m>> \in OpToRel(<, Nat) <=> k < m
  BY DEF OpToRel
<1>3. \A k \in T : m <= k
  <2> SUFFICES ASSUME NEW k \in T PROVE m <= k
    OBVIOUS
  <2>1. ~(k < m) /\ k \in Nat /\ m \in Nat
    BY <1>1, <1>2
  <2> QED BY <2>1
<1> QED BY <1>3

LEMMA ReadsExist ==
    ASSUME NEW f, Len(f) \in Nat
    PROVE  \E S \in SUBSET (1..Len(f)) : Reads(f, Len(f), S)
<1> DEFINE Good(n) == \E S \in SUBSET (1..n) : Reads(f, n, S)
           T == {n \in Nat : ~Good(n)}
<1>1. ASSUME T # {} PROVE FALSE
  <2> HIDE DEF Good
  <2>1. PICK m \in T : \A k \in T : m <= k
    BY <1>1, Least
  <2>2. Good(0)
    BY DEF Good, Reads
  <2>3. m \in Nat \ {0} /\ ~Good(m) /\ Good(m - 1)
    <3>1. m \in Nat /\ ~Good(m)
      BY <2>1
    <3>2. m # 0
      BY <3>1, <2>2
    <3>3. m - 1 \in Nat /\ ~(m <= m - 1)
      BY <3>1, <3>2
    <3> QED BY <2>1, <3>1, <3>2, <3>3
  <2>4. PICK S \in SUBSET (1..(m - 1)) : Reads(f, m - 1, S)
    BY <2>3 DEF Good
  <2> DEFINE R == IF m - 1 \in S /\ f[m - 1].blank THEN S ELSE S \cup {m}
  <2>5. R \in SUBSET (1..m)
    BY <2>3
  <2>6. Reads(f, m, R)
    <3>1. \A i \in 1..(m - 1) : (i \in R <=> i \in S) /\ (i - 1 \in R <=> i - 1 \in S)
      BY <2>3
    <3>2. m \in R <=> ~(m - 1 \in R /\ f[m - 1].blank)
      BY <2>3
    <3> HIDE DEF R
    <3>3. \A i \in 1..m : i = m \/ i \in 1..(m - 1)
      BY <2>3
    <3> QED BY <2>4, <3>1, <3>2, <3>3 DEF Reads
  <2> QED BY <2>3, <2>5, <2>6 DEF Good
<1> QED BY <1>1

LEMMA ReadsUnique ==
    ASSUME NEW f, NEW n \in Nat, NEW S, NEW R, Reads(f, n, S), Reads(f, n, R), 0 \notin S, 0 \notin R
    PROVE  \A i \in 1..n : i \in S <=> i \in R
<1> DEFINE T == {i \in 1..n : ~(i \in S <=> i \in R)}
<1>1. ASSUME T # {} PROVE FALSE
  <2>0. T \subseteq Nat
    OBVIOUS
  <2> HIDE DEF T
  <2>1. PICK m \in T : \A k \in T : m <= k
    BY <1>1, <2>0, Least
  <2>2. m \in 1..n /\ ~(m \in S <=> m \in R) /\ m - 1 \notin T
    BY <2>0, <2>1 DEF T
  <2>3. m - 1 \in S <=> m - 1 \in R
    BY <2>2 DEF T
  <2> QED BY <2>2, <2>3 DEF Reads
<1> QED BY <1>1

LEMMA ReadsOfType ==
    ASSUME NEW f \in Seq(Line)
    PROVE  ReadsOf(f) \in SUBSET (1..Len(f)) /\ Reads(f, Len(f), ReadsOf(f))
<1>1. Len(f) \in Nat /\ DOMAIN f = 1..Len(f)
  OBVIOUS
<1>2. \E S \in SUBSET DOMAIN f : \A i \in DOMAIN f : i \in S <=> ~(i - 1 \in S /\ f[i - 1].blank)
  BY <1>1, ReadsExist DEF Reads
<1>3. /\ ReadsOf(f) \in SUBSET DOMAIN f
      /\ \A i \in DOMAIN f : i \in ReadsOf(f) <=> ~(i - 1 \in ReadsOf(f) /\ f[i - 1].blank)
  BY <1>2 DEF ReadsOf
<1> QED BY <1>1, <1>3 DEF Reads

(* A line added at the end changes nothing for those before it.            *)
LEMMA ReadsOfAppend ==
    ASSUME NEW f \in Seq(Line), NEW l \in Line
    PROVE  \A i \in ReadsOf(Append(f, l)) : i \in ReadsOf(f) \/ i = Len(f) + 1
<1> DEFINE g == Append(f, l)
           n == Len(f)
<1>1. n \in Nat /\ g \in Seq(Line) /\ Len(g) = n + 1 /\ \A i \in 1..n : g[i] = f[i]
  OBVIOUS
<1> HIDE DEF g
<1>2. /\ ReadsOf(g) \in SUBSET (1..(n + 1)) /\ Reads(g, n + 1, ReadsOf(g))
      /\ ReadsOf(f) \in SUBSET (1..n) /\ Reads(f, n, ReadsOf(f))
  BY <1>1, ReadsOfType
<1>3. 0 \notin ReadsOf(g) /\ 0 \notin ReadsOf(f)
  BY <1>1, <1>2
<1>4. Reads(f, n, ReadsOf(g))
  <2> SUFFICES ASSUME NEW i \in 1..n
               PROVE  i \in ReadsOf(g) <=> ~(i - 1 \in ReadsOf(g) /\ f[i - 1].blank)
    BY DEF Reads
  <2>1. i \in ReadsOf(g) <=> ~(i - 1 \in ReadsOf(g) /\ g[i - 1].blank)
    BY <1>1, <1>2 DEF Reads
  <2>2. CASE i = 1
    BY <2>1, <2>2, <1>3
  <2>3. CASE i # 1
    <3>1. i - 1 \in 1..n
      BY <1>1, <2>3
    <3>2. g[i - 1] = f[i - 1]
      BY <1>1, <3>1
    <3> QED BY <2>1, <3>2
  <2> QED BY <2>2, <2>3
<1>5. \A i \in 1..n : i \in ReadsOf(g) <=> i \in ReadsOf(f)
  BY <1>1, <1>2, <1>3, <1>4, ReadsUnique
<1> QED BY <1>1, <1>2, <1>5 DEF g

LEMMA RowLinesIs == RowLines = ReadsOf(nodeFile) /\ RowLines' = ReadsOf(nodeFile')
BY DEF RowLines, ReadsOf

(* Of a set of lines no more are read than the table has rows.             *)
LEMMA FirstFew ==
    ASSUME NEW n \in Nat, NEW S \in SUBSET (1..n), NEW m \in Nat
    PROVE  LET T == {i \in S : Cardinality({j \in S : j < i}) <= m}
           IN  IsFiniteSet(T) /\ Cardinality(T) \in 0..(m + 1)
<1> DEFINE T == {i \in S : Cardinality({j \in S : j < i}) <= m}
           D == {n - i : i \in T}
<1>1. IsFiniteSet(1..n)
  BY FS_Interval
<1>2. IsFiniteSet(S) /\ IsFiniteSet(T)
  <2>1. T \in SUBSET (1..n)
    OBVIOUS
  <2> HIDE DEF T
  <2> QED BY <1>1, <2>1, FS_Subset
<1>3. Cardinality(T) \in Nat
  <2> HIDE DEF T
  <2> QED BY <1>2, FS_CardinalityType
<1>4. CASE T = {}
  <2>1. Cardinality(T) = 0
    <3> HIDE DEF T
    <3> QED BY <1>4, FS_EmptySet
  <2> HIDE DEF T
  <2>2. IsFiniteSet(T) /\ Cardinality(T) \in 0..(m + 1)
    BY <1>2, <2>1
  <2> QED BY <2>2 DEF T
<1>5. CASE T # {}
  <2>1. D \subseteq Nat /\ D # {}
    <3>1. \A i \in T : n - i \in Nat
      OBVIOUS
    <3> HIDE DEF T
    <3> QED BY <1>5, <3>1
  <2>2. PICK d \in D : \A e \in D : d <= e
    <3> HIDE DEF D
    <3> QED BY <2>1, Least
  <2>3. PICK k \in T : d = n - k
    OBVIOUS
  <2>4. \A i \in T : i <= k
    <3> SUFFICES ASSUME NEW i \in T PROVE i <= k
      OBVIOUS
    <3>1. n - k <= n - i
      BY <2>2, <2>3
    <3>2. i \in Nat /\ k \in Nat
      OBVIOUS
    <3> QED BY <3>1, <3>2
  <2> DEFINE B == {j \in S : j < k}
  <2>5. Cardinality(B) <= m /\ T \ {k} \subseteq B
    <3>1. Cardinality(B) <= m
      OBVIOUS
    <3>2. \A i \in T \ {k} : i \in S /\ i \in Nat /\ k \in Nat /\ i <= k /\ i # k
      BY <2>4
    <3> HIDE DEF T
    <3>3. \A i \in T \ {k} : i \in S /\ i < k
      BY <3>2
    <3> QED BY <3>1, <3>3
  <2>6. IsFiniteSet(B) /\ Cardinality(B) \in Nat
    <3>1. B \in SUBSET (1..n)
      OBVIOUS
    <3> HIDE DEF B
    <3> QED BY <1>1, <3>1, FS_Subset, FS_CardinalityType
  <2> HIDE DEF T, B, D
  <2>7. Cardinality(T \ {k}) <= Cardinality(B)
    BY <2>5, <2>6, FS_Subset
  <2>8. Cardinality(T \ {k}) = Cardinality(T) - 1
    BY <1>2, FS_RemoveElement
  <2>9. Cardinality(T) \in 0..(m + 1)
    BY <1>3, <2>5, <2>6, <2>7, <2>8
  <2> QED BY <1>2, <2>9 DEF T
<1> QED BY <1>4, <1>5

LEMMA LinesFit ==
    ASSUME nodeFile \in Seq(Line)
    PROVE  /\ IsFiniteSet(LinesRead) /\ Cardinality(LinesRead) \in 0..(MaxNodes + 1)
           /\ LinesRead \subseteq RowLines /\ RowLines \subseteq 1..Len(nodeFile)
<1>1. RowLines \in SUBSET (1..Len(nodeFile)) /\ Len(nodeFile) \in Nat /\ MaxNodes \in Nat
  BY RowLinesIs, ReadsOfType, TableAssumption
<1>2. IsFiniteSet(LinesRead) /\ Cardinality(LinesRead) \in 0..(MaxNodes + 1)
  BY <1>1, FirstFew DEF LinesRead
<1> QED BY <1>1, <1>2 DEF LinesRead

-----------------------------------------------------------------------------
(* The invariant.  Its first part holds in any case.                       *)

Identifying(t) == found[t].kind = "identify"

Search == [addr : Address \cup {None}, row : Rows, kind : {"identify", "delete", "enter"}]

Shown == Seq(Address \cup {None})

TableTypes == /\ nodeInfo \in [Rows -> Entry]
              /\ numberNodes \in -1..(MaxNodes + 2)
              /\ nodeFile \in Seq(Line)
              /\ serving \in BOOLEAN /\ listening \in BOOLEAN

FoundTypes == /\ found \in [Thread -> {Idle} \cup Search]
              /\ \A t \in Thread : Identifying(t) => found[t].row <= MaxNodes
              /\ found["libxbee"] # Idle => Identifying("libxbee")
              /\ Changing => numberNodes <= MaxNodes + 1

ViewTypes == /\ view \in [Client -> Shown]
             /\ tableLength \in [Client -> 0..(MaxNodes + 2)]
             /\ \A c \in Client : Len(view[c]) <= tableLength[c]

GhostTypes == /\ outdated \subseteq Client
              /\ blamed \subseteq {"overlapped", "unwritten", "stale"}
              /\ mishaps \in 0..MaxMishaps

Types == TableTypes /\ FoundTypes /\ ViewTypes /\ GhostTypes

(* Where the callback for address a works when the table is as it was when *)
(* the row was looked up.                                                  *)
Located(a, row) == IF \E r \in InUse : nodeInfo[r].addr = a
                   THEN row \in InUse /\ nodeInfo[row].addr = a
                   ELSE row = IF numberNodes < 0 THEN 0 ELSE numberNodes

(* A row looked up for an identification is still the row of the node, for *)
(* main identifies nodes only while it probes, and its callback thread     *)
(* only while main serves.                                                 *)
Turns == /\ listening => serving
         /\ Identifying("main") => ~serving
         /\ Identifying("libxbee") => serving
         /\ Changing => serving /\ ~Identifying("libxbee") /\ numberNodes <= MaxNodes
        /\ numberNodes <= MaxNodes + 1
         /\ \A t \in Thread : Identifying(t) => Located(found[t].addr, found[t].row)

(* The rows that hold a node: while one is deleted the last one still      *)
(* does, and while one is entered the next one does already; and those of  *)
(* them whose node can be in the file.                                     *)
Held == IF Changing THEN 0..numberNodes ELSE InUse

Filed == IF Deleting THEN 0..numberNodes ELSE InUse

DistinctHeld == \A r, s \in Held : nodeInfo[r].addr = nodeInfo[s].addr => r = s

(* The lines that a restart would read name different nodes of the table.  *)
DistinctLines == \A i, j \in RowLines : nodeFile[i].addr = nodeFile[j].addr => i = j

LinesFiled == \A i \in RowLines : \E r \in Filed : nodeInfo[r].addr = nodeFile[i].addr

Table == DistinctHeld /\ DistinctLines /\ LinesFiled

OwnCons == \A r \in Held : nodeInfo[r].con \in {None, nodeInfo[r].addr}

SpareRows == \A r \in Rows : r \notin Held => nodeInfo[r].con = None

(* A client without an outdated table sees the node of each row.           *)
ViewShows == \A c \in Client : c \notin outdated =>
                 /\ tableLength[c] <= numberNodes
                 /\ \A i \in 1..Len(view[c]) : view[c][i] = nodeInfo[i - 1].addr

(* The row of a deletion holds the node named, and nobody else has seen    *)
(* the table as it will be.                                                *)
RowNamed == Deleting => /\ found["main"].row \in 0..numberNodes
                        /\ nodeInfo[found["main"].row].addr = found["main"].addr
                        /\ \A c \in Client : c \notin outdated => Len(view[c]) = 0 /\ tableLength[c] = 0

Seen == numberNodes >= 0 /\ OwnCons /\ SpareRows /\ ViewShows /\ RowNamed

TInv == /\ "overlapped" \notin blamed => Turns
        /\ Spared({"overlapped", "unwritten"}) => Table
        /\ Spared({"overlapped", "stale"}) => Seen

Inv == Types /\ TInv

-----------------------------------------------------------------------------
(* What is used of the definitions.                                        *)

Ghosts == {"overlapped", "unwritten", "stale"}

LEMMA InUseRows ==
    ASSUME TableTypes
    PROVE  InUse \subseteq Rows /\ MaxNodes \in Nat /\ MaxNodes >= 1 /\ Rows \subseteq Nat /\ InUse \subseteq Nat
BY TableAssumption DEF TableTypes, InUse, Rows

LEMMA HeldRows ==
    ASSUME TableTypes, FoundTypes
    PROVE  Held \subseteq Rows /\ Held \subseteq Nat /\ Filed \subseteq Held /\ InUse \subseteq Held
<1>1. MaxNodes \in Nat
  BY InUseRows
<1>2. CASE Changing
  <2>1. numberNodes \in -1..(MaxNodes + 1)
    BY <1>1, <1>2 DEF TableTypes, FoundTypes
  <2>2. 0..numberNodes \subseteq Rows /\ InUse \subseteq 0..numberNodes
    BY <1>1, <2>1 DEF Rows, InUse
  <2> QED BY <1>2, <2>2, InUseRows DEF Held, Filed
<1>3. CASE ~Changing
  BY <1>3, InUseRows DEF Held, Filed, Changing, Deleting
<1> QED BY <1>2, <1>3

LEMMA BlameIs ==
    ASSUME GhostTypes, NEW what \in SUBSET Ghosts, Blame(what)
    PROVE  blamed' = blamed \cup what /\ blamed' \subseteq Ghosts /\ mishaps' \in 0..MaxMishaps
<1>1. MaxMishaps \in Nat
  BY TableAssumption
<1>2. mishaps' \in 0..MaxMishaps
  <2>1. CASE what = {}
    BY <2>1 DEF Blame, GhostTypes
  <2>2. CASE what # {}
    BY <1>1, <2>2 DEF Blame, GhostTypes
  <2> QED BY <2>1, <2>2
<1> QED BY <1>2 DEF Blame, GhostTypes, Ghosts

LEMMA FindsRow ==
    ASSUME TableTypes, NEW a
    PROVE  Located(a, findRowBy64BitAddress(a)) /\ findRowBy64BitAddress(a) \in 0..(MaxNodes + 2)
<1> DEFINE Hits == {r \in InUse : nodeInfo[r].addr = a}
<1>1. InUse \subseteq Nat /\ InUse \subseteq Rows /\ MaxNodes \in Nat
  BY InUseRows
<1>2. CASE Hits = {}
  <2>1. findRowBy64BitAddress(a) = IF numberNodes < 0 THEN 0 ELSE numberNodes
    BY <1>2 DEF findRowBy64BitAddress
  <2> QED BY <1>1, <1>2, <2>1 DEF Located, TableTypes
<1>3. CASE Hits # {}
  <2>1. \E r \in Hits : \A k \in Hits : r <= k
    BY <1>1, <1>3, Least
  <2>2. (CHOOSE r \in Hits : \A k \in Hits : r <= k) \in Hits
    BY <2>1
  <2>3. PICK h \in Hits : findRowBy64BitAddress(a) = h
    BY <1>3, <2>2 DEF findRowBy64BitAddress
  <2>4. h \in InUse /\ nodeInfo[h].addr = a
    OBVIOUS
  <2>5. h \in 0..(MaxNodes + 2)
    BY <1>1, <2>4 DEF Rows
  <2>6. Located(a, h)
    BY <2>4 DEF Located
  <2> QED BY <2>3, <2>5, <2>6
<1> QED BY <1>2, <1>3

LEMMA ConnectedEntry ==
    ASSUME NEW entry \in Entry, NEW open \in BOOLEAN
    PROVE  /\ Connected(entry, open) \in Entry /\ Connected(entry, open).addr = entry.addr
           /\ Connected(entry, open).con \in {None, entry.addr}
BY DEF Connected, Entry

LEMMA OpenedEntry ==
    ASSUME NEW entry \in Entry, NEW e \in Opened(entry)
    PROVE  /\ e \in Entry /\ e.addr = entry.addr
           /\ entry.con = None => e.con \in {None, entry.addr}
           /\ entry.con # None => e.con = entry.con
<1>1. CASE entry.con # None
  BY <1>1 DEF Opened
<1>2. CASE entry.con = None
  <2>1. PICK open \in BOOLEAN : e = Connected(entry, open)
    BY <1>2 DEF Opened
  <2> QED BY <1>2, <2>1, ConnectedEntry
<1> QED BY <1>1, <1>2

LEMMA ClosedEntry ==
    ASSUME NEW entry \in Entry
    PROVE  Closed(entry) \in Entry /\ Closed(entry).addr = entry.addr /\ Closed(entry).con = None
BY DEF Closed, Entry

LEMMA IdentifyBeginIs ==
    ASSUME Types, NEW t \in Thread, NEW a \in Address, IdentifyBegin(t, a)
    PROVE  \E f \in Search :
               /\ f.addr = a /\ f.row = findRowBy64BitAddress(a) /\ f.row <= MaxNodes /\ f.kind = "identify"
               /\ found[t] = Idle /\ found' = [found EXCEPT ![t] = f] /\ Identifies(t)
               /\ blamed' = blamed \cup (IF Changing THEN {"overlapped"} ELSE {})
               /\ blamed' \subseteq Ghosts /\ mishaps' \in 0..MaxMishaps
               /\ UNCHANGED <<nodeInfo, numberNodes, nodeFile, serving, listening, view, tableLength, outdated>>
<1>1. findRowBy64BitAddress(a) \in Rows /\ findRowBy64BitAddress(a) <= MaxNodes
  <2>1. findRowBy64BitAddress(a) \in 0..(MaxNodes + 2) /\ MaxNodes \in Nat
    BY FindsRow, InUseRows DEF Types
  <2> QED BY <2>1 DEF IdentifyBegin, Rows
<1>2. PICK f \in Search : f = [addr |-> a, row |-> findRowBy64BitAddress(a), kind |-> "identify"]
  BY <1>1 DEF Search
<1>3. PICK what \in SUBSET Ghosts : what = IF Changing THEN {"overlapped"} ELSE {}
  BY DEF Ghosts
<1>4. Blame(what)
  BY <1>3 DEF IdentifyBegin
<1>5. blamed' = blamed \cup what /\ blamed' \subseteq Ghosts /\ mishaps' \in 0..MaxMishaps
  BY <1>4, BlameIs DEF Types
<1>6. /\ found[t] = Idle /\ found' = [found EXCEPT ![t] = f] /\ Identifies(t)
      /\ UNCHANGED <<nodeInfo, numberNodes, nodeFile, serving, listening, view, tableLength, outdated>>
  BY <1>2 DEF IdentifyBegin, mainVars, clientVars
<1> QED BY <1>1, <1>2, <1>3, <1>5, <1>6

(* What the end of an identification does: entry e of node a in its row.   *)
LEMMA IdentifyEndIs ==
    ASSUME Types, NEW t \in Thread, IdentifyEnd(t)
    PROVE  \E a \in Address \cup {None}, row \in 0..MaxNodes, e \in Entry, l \in Line :
               /\ a = found[t].addr /\ row = found[t].row /\ Identifying(t)
               /\ e.addr = a /\ e.con \in {None, a} /\ l.addr = a
               /\ found' = [found EXCEPT ![t] = Idle]
               /\ nodeInfo' = [nodeInfo EXCEPT ![row] = e]
               /\ numberNodes' = IF row = numberNodes THEN numberNodes + 1 ELSE numberNodes
               /\ nodeFile' = nodeFile \/ (row = numberNodes /\ nodeFile' = Append(nodeFile, l))
               /\ UNCHANGED <<serving, listening, view, tableLength, outdated, blamed, mishaps>>
<1>1. Identifying(t)
  BY DEF IdentifyEnd, Ends, Identifying
<1>2. found[t] \in Search /\ found[t].row <= MaxNodes /\ MaxNodes \in Nat
  BY <1>1, InUseRows DEF Types, FoundTypes, Identifying, Idle
<1>3. PICK a \in Address \cup {None}, row \in 0..MaxNodes : a = found[t].addr /\ row = found[t].row
  BY <1>2 DEF Search, Rows
<1>4. row \in Rows /\ nodeInfo[row] \in Entry
  BY <1>2 DEF Types, TableTypes, Rows
<1>5. PICK blank \in BOOLEAN :
        /\ \E entry \in Opened(Closed([nodeInfo[row] EXCEPT !.addr = a, !.blank = blank])) :
               nodeInfo' = [nodeInfo EXCEPT ![row] = entry]
        /\ numberNodes' = IF row = numberNodes THEN numberNodes + 1 ELSE numberNodes
        /\ \/ row = numberNodes /\ nodeFile' = Append(nodeFile, [addr |-> a, blank |-> blank])
           \/ nodeFile' = nodeFile
  BY <1>3 DEF IdentifyEnd, SetRow
<1> DEFINE kept == [nodeInfo[row] EXCEPT !.addr = a, !.blank = blank]
<1>6. kept \in Entry /\ kept.addr = a
  BY <1>4 DEF Entry
<1> HIDE DEF kept
<1>7. PICK e \in Opened(Closed(kept)) : nodeInfo' = [nodeInfo EXCEPT ![row] = e]
  BY <1>5 DEF kept
<1>8. e \in Entry /\ e.addr = a /\ e.con \in {None, a}
  BY <1>6, OpenedEntry, ClosedEntry
<1>9. PICK l \in Line : l = [addr |-> a, blank |-> blank]
  BY DEF Line
<1>10. found' = [found EXCEPT ![t] = Idle]
       /\ UNCHANGED <<serving, listening, view, tableLength, outdated, blamed, mishaps>>
  BY DEF IdentifyEnd, Ends, mainVars, clientVars
<1>11. l.addr = a
  BY <1>9
<1>12. nodeFile' = nodeFile \/ (row = numberNodes /\ nodeFile' = Append(nodeFile, l))
  BY <1>5, <1>9
<1> QED BY <1>1, <1>3, <1>5, <1>7, <1>8, <1>10, <1>11, <1>12

(* A client whose table is up to date names a row in use.                  *)
LEMMA NamesIs ==
    ASSUME Types, NEW c \in Client, NEW cmd, NEW row \in Rows, Names(c, cmd, row)
    PROVE  /\ row + 1 \in 1..Len(view[c]) /\ row \in Nat /\ row <= numberNodes /\ numberNodes \in Nat
           /\ serving /\ found["main"] = Idle /\ view[c][row + 1] \in Address \cup {None}
           /\ Seen /\ c \notin outdated => row \in InUse /\ view[c][row + 1] = nodeInfo[row].addr
<1>1. row \in Nat /\ view[c] \in Shown /\ tableLength[c] \in Nat /\ numberNodes \in Int
  BY InUseRows DEF Types, ViewTypes, TableTypes
<1>2. row + 1 \in 1..Len(view[c]) /\ row <= numberNodes /\ serving /\ found["main"] = Idle
  BY <1>1 DEF Names, Accepted, Free, Shown
<1>3. view[c][row + 1] \in Address \cup {None}
  BY <1>1, <1>2 DEF Shown
<1>4. ASSUME Seen, c \notin outdated PROVE row \in InUse /\ view[c][row + 1] = nodeInfo[row].addr
  <2>1. /\ tableLength[c] <= numberNodes /\ Len(view[c]) <= tableLength[c] /\ Len(view[c]) \in Nat
        /\ view[c][row + 1] = nodeInfo[(row + 1) - 1].addr
    BY <1>1, <1>2, <1>4 DEF Seen, ViewShows, Types, ViewTypes, Shown
  <2>2. row \in InUse
    BY <1>1, <1>2, <2>1 DEF InUse
  <2> QED BY <1>1, <2>1, <2>2
<1> QED BY <1>1, <1>2, <1>3, <1>4

LEMMA CommandDIs ==
    ASSUME Types, NEW c \in Client, NEW row \in Rows, CommandD(c, row)
    PROVE  \E f \in Search :
               /\ f.addr = view[c][row + 1] /\ f.row = row /\ f.kind = "delete"
               /\ found' = [found EXCEPT !["main"] = f]
               /\ nodeInfo' = [nodeInfo EXCEPT ![row] = Closed(nodeInfo[row])]
               /\ numberNodes' = numberNodes - 1
               /\ view' = [view EXCEPT ![c] = <<>>] /\ tableLength' = [tableLength EXCEPT ![c] = 0]
               /\ outdated' = Client \ {c}
               /\ blamed' = blamed \cup Overlapped \cup Stale(c)
               /\ blamed' \subseteq Ghosts /\ mishaps' \in 0..MaxMishaps
               /\ UNCHANGED <<nodeFile, serving, listening>>
<1>1. Names(c, "D", row)
  BY DEF CommandD
<1>2. PICK f \in Search : f = [addr |-> view[c][row + 1], row |-> row, kind |-> "delete"]
  BY <1>1, NamesIs DEF Search
<1>3. PICK what \in SUBSET Ghosts : what = Overlapped \cup Stale(c)
  BY DEF Ghosts, Overlapped, Stale
<1>4. Blame(what)
  BY <1>3 DEF CommandD
<1>5. blamed' = blamed \cup what /\ blamed' \subseteq Ghosts /\ mishaps' \in 0..MaxMishaps
  BY <1>4, BlameIs DEF Types
<1>6. blamed' = blamed \cup Overlapped \cup Stale(c)
  BY <1>3, <1>5
<1>7. /\ found' = [found EXCEPT !["main"] = f]
      /\ nodeInfo' = [nodeInfo EXCEPT ![row] = Closed(nodeInfo[row])]
      /\ numberNodes' = numberNodes - 1
      /\ view' = [view EXCEPT ![c] = <<>>] /\ tableLength' = [tableLength EXCEPT ![c] = 0]
      /\ outdated' = Client \ {c}
      /\ UNCHANGED <<nodeFile, serving, listening>>
  BY <1>2 DEF CommandD, SetRow, Work, Resync, mainVars
<1> QED BY <1>2, <1>5, <1>6, <1>7

LEMMA CommandQIs ==
    ASSUME Types, NEW c \in Client, NEW row \in Rows, CommandQ(c, row)
    PROVE  \E e \in Entry :
               /\ e.addr = nodeInfo[row].addr /\ e.con \in {None, e.addr}
               /\ nodeInfo' = [nodeInfo EXCEPT ![row] = e]
               /\ blamed' = blamed \cup Stale(c) /\ blamed' \subseteq Ghosts /\ mishaps' \in 0..MaxMishaps
               /\ UNCHANGED <<numberNodes, nodeFile, serving, listening, found, view, tableLength, outdated>>
<1>1. PICK e \in Opened(Closed(nodeInfo[row])) : nodeInfo' = [nodeInfo EXCEPT ![row] = e]
  BY DEF CommandQ, SetRow
<1>2. e \in Entry /\ e.addr = nodeInfo[row].addr /\ e.con \in {None, e.addr}
  <2>1. nodeInfo[row] \in Entry
    BY DEF Types, TableTypes
  <2> QED BY <2>1, OpenedEntry, ClosedEntry
<1>3. PICK what \in SUBSET Ghosts : what = Stale(c)
  BY DEF Ghosts, Stale
<1>4. blamed' = blamed \cup what /\ blamed' \subseteq Ghosts /\ mishaps' \in 0..MaxMishaps
  <2>1. Blame(what)
    BY <1>3 DEF CommandQ
  <2> QED BY <2>1, BlameIs DEF Types
<1>5. UNCHANGED <<numberNodes, nodeFile, serving, listening, found, view, tableLength, outdated>>
  BY DEF CommandQ, mainVars, clientVars
<1> QED BY <1>1, <1>2, <1>3, <1>4, <1>5

LEMMA CommandEIs ==
    ASSUME Types, NEW c \in Client, NEW a \in Address, CommandE(c, a)
    PROVE  \E f \in Search, e \in Entry :
               /\ f.row = numberNodes /\ f.kind = "enter" /\ found' = [found EXCEPT !["main"] = f]
               /\ numberNodes \in 0..MaxNodes /\ numberNodes \in Rows
               /\ serving /\ found["main"] = Idle /\ \A r \in InUse : nodeInfo[r].addr # a
               /\ (nodeInfo[numberNodes].con = None => e.con \in {None, a})
               /\ nodeInfo' = [nodeInfo EXCEPT ![numberNodes] = e] /\ e.addr = a
               /\ blamed' = blamed \cup Overlapped /\ blamed' \subseteq Ghosts /\ mishaps' \in 0..MaxMishaps
               /\ UNCHANGED <<numberNodes, nodeFile, serving, listening, view, tableLength, outdated>>
<1>1. numberNodes \in 0..MaxNodes /\ numberNodes \in Rows /\ MaxNodes \in Nat
  BY TableAssumption DEF Types, TableTypes, CommandE, Accepted, Rows
<1>2. PICK f \in Search : f = [addr |-> a, row |-> numberNodes, kind |-> "enter"]
  BY <1>1 DEF Search
<1>3. \A r \in InUse : nodeInfo[r].addr # a
  <2>1. Located(a, numberNodes)
    BY FindsRow DEF CommandE, Types
  <2> QED BY <2>1, <1>1 DEF Located, InUse
<1> DEFINE base == [nodeInfo[numberNodes] EXCEPT !.addr = a]
<1>4. nodeInfo[numberNodes] \in Entry
  BY <1>1 DEF Types, TableTypes
<1>5. base \in Entry /\ base.addr = a /\ base.con = nodeInfo[numberNodes].con
  BY <1>4 DEF Entry
<1>6. PICK e \in Opened(base) : nodeInfo' = [nodeInfo EXCEPT ![numberNodes] = e]
  BY DEF CommandE, SetRow
<1> HIDE DEF base
<1>7. e \in Entry /\ e.addr = a /\ (nodeInfo[numberNodes].con = None => e.con \in {None, a})
  BY <1>5, <1>6, OpenedEntry
<1>8. PICK what \in SUBSET Ghosts : what = Overlapped
  BY DEF Ghosts, Overlapped
<1>9. blamed' = blamed \cup what /\ blamed' \subseteq Ghosts /\ mishaps' \in 0..MaxMishaps
  <2>1. Blame(what)
    BY <1>8 DEF CommandE
  <2> QED BY <2>1, BlameIs DEF Types
<1>10. /\ found' = [found EXCEPT !["main"] = f] /\ serving /\ found["main"] = Idle
       /\ UNCHANGED <<numberNodes, nodeFile, serving, listening, view, tableLength, outdated>>
  BY <1>2 DEF CommandE, Accepted, Free, Work, mainVars, clientVars
<1> QED BY <1>1, <1>2, <1>3, <1>6, <1>7, <1>8, <1>9, <1>10

(* The rest of a deletion: what is left in the table, and what in the file *)
(* when that was written.                                                  *)
LEMMA CompressedRows ==
    ASSUME TableTypes, numberNodes <= MaxNodes + 1, NEW row \in Rows
    PROVE  /\ CompressedFrom(row) \in [Rows -> Entry]
           /\ \A r \in InUse : CompressedFrom(row)[r] = IF r < row THEN nodeInfo[r] ELSE nodeInfo[r + 1]
           /\ \A r \in Rows : r >= numberNodes =>
                  CompressedFrom(row)[r].con = IF r = numberNodes THEN None ELSE nodeInfo[r].con
<1>1. /\ nodeInfo \in [Rows -> Entry] /\ MaxNodes \in Nat /\ row \in Nat
      /\ numberNodes \in -1..(MaxNodes + 1) /\ InUse \subseteq Rows /\ Rows \subseteq Nat
  BY InUseRows DEF TableTypes
<1> DEFINE moved(r) == Shifted(row, r)
<1>2. CompressedFrom(row) = [r \in Rows |-> IF r = numberNodes THEN [moved(r) EXCEPT !.con = None]
                                                               ELSE moved(r)]
  BY DEF CompressedFrom
<1>3. ASSUME NEW r \in Rows PROVE moved(r) \in Entry
  <2>1. CASE r >= row /\ r < numberNodes
    <3>1. r + 1 \in Rows
      BY <1>1, <2>1 DEF Rows
    <3> QED BY <1>1, <2>1, <3>1 DEF Shifted
  <2>2. CASE ~(r >= row /\ r < numberNodes)
    BY <1>1, <2>2 DEF Shifted
  <2> QED BY <2>1, <2>2
<1>4. ASSUME NEW r \in Rows, r >= numberNodes PROVE moved(r) = nodeInfo[r]
  <2>1. ~(r < numberNodes)
    BY <1>1, <1>4
  <2> QED BY <2>1 DEF Shifted
<1>5. ASSUME NEW r \in InUse
      PROVE  /\ r \in Rows /\ r # numberNodes
             /\ moved(r) = IF r < row THEN nodeInfo[r] ELSE nodeInfo[r + 1]
  <2>1. r \in Rows /\ r < numberNodes /\ r # numberNodes /\ r \in Nat
    BY <1>1 DEF InUse
  <2>2. r >= row <=> ~(r < row)
    BY <1>1, <2>1
  <2> QED BY <2>1, <2>2 DEF Shifted
<1> HIDE DEF moved
<1>6. ASSUME NEW r \in Rows
      PROVE  [moved(r) EXCEPT !.con = None] \in Entry /\ [moved(r) EXCEPT !.con = None].con = None
  BY <1>3 DEF Entry
<1>7. CompressedFrom(row) \in [Rows -> Entry]
  BY <1>2, <1>3, <1>6
<1>8. \A r \in InUse : CompressedFrom(row)[r] = IF r < row THEN nodeInfo[r] ELSE nodeInfo[r + 1]
  BY <1>2, <1>5
<1>9. ASSUME NEW r \in Rows, r >= numberNodes
      PROVE  CompressedFrom(row)[r].con = IF r = numberNodes THEN None ELSE nodeInfo[r].con
  <2>1. CASE r = numberNodes
    BY <1>2, <1>6, <2>1
  <2>2. CASE r # numberNodes
    BY <1>2, <1>4, <1>9, <2>2
  <2> QED BY <2>1, <2>2
<1> QED BY <1>7, <1>8, <1>9

LEMMA WrittenIs ==
    ASSUME nodeInfo' \in [Rows -> Entry], numberNodes \in -1..(MaxNodes + 1)
    PROVE  /\ Written \in Seq(Line) /\ Len(Written) = IF numberNodes < 0 THEN 0 ELSE numberNodes
           /\ \A i \in 1..numberNodes : Written[i].addr = nodeInfo'[i - 1].addr
<1>1. MaxNodes \in Nat
  BY TableAssumption
<1>2. PICK n \in Nat : n = IF numberNodes < 0 THEN 0 ELSE numberNodes
  BY <1>1
<1>3. 1..n = 1..numberNodes
  BY <1>1, <1>2
<1>4. \A i \in 1..n : i - 1 \in Rows
  <2>1. n <= MaxNodes + 1
    BY <1>1, <1>2
  <2> QED BY <1>1, <2>1 DEF Rows
<1>5. \A i \in 1..n : LineOf(nodeInfo'[i - 1]) \in Line /\ LineOf(nodeInfo'[i - 1]).addr = nodeInfo'[i - 1].addr
  BY <1>4 DEF LineOf, Line, Entry
<1>6. Written = [i \in 1..n |-> LineOf(nodeInfo'[i - 1])]
  BY <1>3 DEF Written
<1>7. Written \in Seq(Line) /\ Len(Written) = n
  BY <1>5, <1>6
<1>8. \A i \in 1..n : Written[i].addr = nodeInfo'[i - 1].addr
  BY <1>5, <1>6
<1> QED BY <1>2, <1>3, <1>7, <1>8

LEMMA DeletionIs ==
    ASSUME Types, deleteNodeTableRow
    PROVE  \E row \in Rows :
               /\ row = found["main"].row /\ Deleting /\ found' = [found EXCEPT !["main"] = Idle]
               /\ numberNodes \in -1..(MaxNodes + 1)
               /\ nodeInfo' \in [Rows -> Entry]
               /\ \A r \in InUse : nodeInfo'[r] = nodeInfo[IF r < row THEN r ELSE r + 1]
               /\ \A r \in Rows : r >= numberNodes =>
                      nodeInfo'[r].con = IF r = numberNodes THEN None ELSE nodeInfo[r].con
               /\ nodeFile' \in Seq(Line)
               /\ "unwritten" \notin blamed' =>
                      \A i \in 1..Len(nodeFile') : i - 1 \in InUse /\ nodeFile'[i].addr = nodeInfo'[i - 1].addr
               /\ blamed \subseteq blamed' /\ blamed' \subseteq Ghosts /\ mishaps' \in 0..MaxMishaps
               /\ UNCHANGED <<numberNodes, serving, listening, view, tableLength, outdated>>
<1>1. /\ found["main"].kind = "delete" /\ found' = [found EXCEPT !["main"] = Idle]
      /\ UNCHANGED <<numberNodes, serving, listening, view, tableLength, outdated>>
  BY DEF deleteNodeTableRow, Ends, mainVars, clientVars
<1>2. PICK row \in Rows : row = found["main"].row
  BY <1>1 DEF Types, FoundTypes, Search, Idle, Thread
<1>3. numberNodes \in -1..(MaxNodes + 1) /\ MaxNodes \in Nat /\ TableTypes
  BY <1>1, InUseRows DEF Types, TableTypes, FoundTypes, Changing
<1>4. nodeInfo' = CompressedFrom(row)
  BY <1>2 DEF deleteNodeTableRow
<1>5. /\ nodeInfo' \in [Rows -> Entry]
      /\ \A r \in InUse : nodeInfo'[r] = IF r < row THEN nodeInfo[r] ELSE nodeInfo[r + 1]
      /\ \A r \in Rows : r >= numberNodes =>
             nodeInfo'[r].con = IF r = numberNodes THEN None ELSE nodeInfo[r].con
  BY <1>3, <1>4, CompressedRows
<1>6. \A r \in InUse : nodeInfo'[r] = nodeInfo[IF r < row THEN r ELSE r + 1]
  BY <1>5
<1>7. /\ Written \in Seq(Line) /\ Len(Written) = IF numberNodes < 0 THEN 0 ELSE numberNodes
      /\ \A i \in 1..numberNodes : Written[i].addr = nodeInfo'[i - 1].addr
  BY <1>3, <1>5, WrittenIs
<1> DEFINE IsSaved ==
        /\ nodeFile' \in Seq(Line) /\ blamed \subseteq blamed' /\ blamed' \subseteq Ghosts
        /\ mishaps' \in 0..MaxMishaps
        /\ "unwritten" \notin blamed' =>
               \A i \in 1..Len(nodeFile') : i - 1 \in InUse /\ nodeFile'[i].addr = nodeInfo'[i - 1].addr
<1>8. IsSaved
  <2>1. ASSUME NEW n \in 0..Len(Written), nodeFile' = SubSeq(Written, 1, n), UNCHANGED <<blamed, mishaps>>
        PROVE  IsSaved
    <3>1. PICK w \in Seq(Line) : w = Written
      BY <1>7
    <3>2. n \in Nat /\ (n > 0 => n <= numberNodes) /\ n <= Len(w)
      BY <1>3, <1>7, <3>1
    <3>3. PICK f \in Seq(Line) : f = nodeFile' /\ Len(f) = n /\ \A i \in 1..n : f[i] = w[i]
      BY <2>1, <3>1, <3>2
    <3>4. ASSUME NEW i \in 1..n PROVE i - 1 \in InUse /\ f[i].addr = nodeInfo'[i - 1].addr
      <4>1. i \in 1..numberNodes /\ i - 1 \in 0..(numberNodes - 1)
        BY <1>3, <3>2
      <4> QED BY <1>7, <3>1, <3>3, <4>1 DEF InUse
    <3>5. blamed \subseteq blamed' /\ blamed' \subseteq Ghosts /\ mishaps' \in 0..MaxMishaps
      BY <2>1 DEF Types, GhostTypes, Ghosts
    <3> QED BY <3>3, <3>4, <3>5
  <2>2. ASSUME nodeFile' = nodeFile, Blame({"unwritten"}) PROVE IsSaved
    <3>1. PICK what \in SUBSET Ghosts : what = {"unwritten"}
      BY DEF Ghosts
    <3>2. blamed' = blamed \cup what /\ blamed' \subseteq Ghosts /\ mishaps' \in 0..MaxMishaps
      BY <2>2, <3>1, BlameIs DEF Types
    <3> QED BY <2>2, <3>1, <3>2 DEF Types, TableTypes
  <2>3. \/ \E n \in 0..Len(Written) : nodeFile' = SubSeq(Written, 1, n) /\ UNCHANGED <<blamed, mishaps>>
        \/ nodeFile' = nodeFile /\ Blame({"unwritten"})
    BY DEF deleteNodeTableRow, writeNodeFile
  <2> QED BY <2>1, <2>2, <2>3
<1> QED BY <1>1, <1>2, <1>3, <1>5, <1>6, <1>8 DEF Deleting

LEMMA CommandXIs ==
    ASSUME Types, CommandX
    PROVE  /\ nodeInfo' \in [Rows -> Entry] /\ \A r \in Rows : nodeInfo'[r].addr = nodeInfo[r].addr
           /\ \A r \in InUse : nodeInfo'[r].con \in {None, nodeInfo[r].addr}
           /\ \A r \in Rows : r \notin InUse => nodeInfo'[r].con = nodeInfo[r].con
           /\ serving /\ found["main"] = Idle /\ serving' = FALSE /\ listening' = FALSE
           /\ blamed' = blamed \cup Overlapped /\ blamed' \subseteq Ghosts /\ mishaps' \in 0..MaxMishaps
           /\ UNCHANGED <<numberNodes, nodeFile, found, view, tableLength, outdated>>
<1>1. PICK open \in SUBSET InUse :
          nodeInfo' = [r \in Rows |-> IF r \in InUse THEN Connected(nodeInfo[r], r \in open) ELSE nodeInfo[r]]
  BY DEF CommandX
<1>2. nodeInfo \in [Rows -> Entry] /\ InUse \subseteq Rows
  BY InUseRows DEF Types, TableTypes
<1>3. ASSUME NEW r \in InUse
      PROVE  nodeInfo'[r] \in Entry /\ nodeInfo'[r].addr = nodeInfo[r].addr /\ nodeInfo'[r].con \in {None, nodeInfo[r].addr}
  <2>1. nodeInfo'[r] = Connected(nodeInfo[r], r \in open) /\ nodeInfo[r] \in Entry
    BY <1>1, <1>2
  <2>2. (r \in open) \in BOOLEAN
    OBVIOUS
  <2> QED BY <2>1, <2>2, ConnectedEntry
<1>4. \A r \in Rows : r \notin InUse => nodeInfo'[r] = nodeInfo[r]
  BY <1>1
<1>5. nodeInfo' \in [Rows -> Entry] /\ \A r \in Rows : nodeInfo'[r].addr = nodeInfo[r].addr
  BY <1>1, <1>2, <1>3, <1>4
<1>6. PICK what \in SUBSET Ghosts : what = Overlapped
  BY DEF Ghosts, Overlapped
<1>7. blamed' = blamed \cup what /\ blamed' \subseteq Ghosts /\ mishaps' \in 0..MaxMishaps
  <2>1. Blame(what)
    BY <1>6 DEF CommandX
  <2> QED BY <2>1, BlameIs DEF Types
<1>8. /\ serving /\ found["main"] = Idle /\ serving' = FALSE /\ listening' = FALSE
      /\ UNCHANGED <<numberNodes, nodeFile, found, view, tableLength, outdated>>
  BY DEF CommandX, Accepted, Free, NewInstance, closeGlobalConnections, clientVars
<1> QED BY <1>3, <1>4, <1>5, <1>6, <1>7, <1>8

(* A restart makes a row of each of the n lines that it reads.             *)
Restarted(n, line) ==
    /\ n = Cardinality(LinesRead) /\ numberNodes' = n /\ InUse' = 0..(n - 1)
    /\ \A r, s \in 0..(n - 1) : line[r] = line[s] => r = s
    /\ \A i \in LinesRead : \E r \in 0..(n - 1) : line[r] = i
    /\ nodeInfo' \in [Rows -> Entry]
    /\ \A r \in 0..(n - 1) : /\ nodeInfo'[r].addr = nodeFile[line[r]].addr
                             /\ nodeInfo'[r].con \in {None, nodeInfo'[r].addr}
    /\ \A r \in Rows : r \notin 0..(n - 1) => nodeInfo'[r].con = None
    /\ serving' = FALSE /\ listening' = FALSE /\ found' = [t \in Thread |-> Idle]
    /\ view' = [c \in Client |-> <<>>] /\ tableLength' = [c \in Client |-> 0] /\ outdated' = {}
    /\ mishaps' \in 0..MaxMishaps /\ UNCHANGED <<nodeFile, blamed>>

LEMMA RestartIs ==
    ASSUME Types, Restart
    PROVE  \E n \in 0..(MaxNodes + 1) : \E line \in [0..(n - 1) -> LinesRead] : Restarted(n, line)
<1> DEFINE n == Cardinality(LinesRead)
           Row(l, r) == [Cleared EXCEPT !.addr = nodeFile[l[r]].addr, !.blank = FALSE]
<1>1. n \in 0..(MaxNodes + 1) /\ MaxNodes \in Nat /\ nodeFile \in Seq(Line)
  BY LinesFit, TableAssumption DEF Types, TableTypes
<1>2. /\ numberNodes' = n /\ serving' = FALSE /\ listening' = FALSE
      /\ found' = [t \in Thread |-> Idle] /\ view' = [c \in Client |-> <<>>]
      /\ tableLength' = [c \in Client |-> 0] /\ outdated' = {} /\ UNCHANGED <<nodeFile, blamed>>
  BY DEF Restart, NewInstance, closeGlobalConnections
<1>3. PICK line \in InOrder(LinesRead) :
          \E open \in SUBSET DOMAIN line :
              nodeInfo' = [r \in Rows |-> IF r \in DOMAIN line THEN Connected(Row(line, r), r \in open)
                                          ELSE Cleared]
  BY DEF Restart
<1>4. PICK open \in SUBSET DOMAIN line :
          nodeInfo' = [r \in Rows |-> IF r \in DOMAIN line THEN Connected(Row(line, r), r \in open)
                                      ELSE Cleared]
  BY <1>3
<1>5. /\ line \in [0..(n - 1) -> LinesRead] /\ DOMAIN line = 0..(n - 1)
      /\ \A r, s \in 0..(n - 1) : line[r] = line[s] => r = s
      /\ \A i \in LinesRead : \E r \in 0..(n - 1) : line[r] = i
  BY <1>3 DEF InOrder, Bijection, Injection, Surjection, IsInjective
<1>6. \A i \in LinesRead : nodeFile[i] \in Line
  BY <1>1, LinesFit
<1>7. ASSUME NEW r \in 0..(n - 1)
      PROVE  Row(line, r) \in Entry /\ Row(line, r).addr = nodeFile[line[r]].addr /\ Row(line, r).con = None
  BY <1>5, <1>6 DEF Cleared, Entry, Line
<1>8. Cleared \in Entry /\ Cleared.con = None
  BY DEF Cleared, Entry
<1>9. mishaps' \in 0..MaxMishaps
  <2>1. mishaps < MaxMishaps /\ mishaps' = mishaps + 1 /\ mishaps \in 0..MaxMishaps /\ MaxMishaps \in Nat
    BY TableAssumption DEF Restart, Types, GhostTypes
  <2> QED BY <2>1
<1> HIDE DEF Row, n
<1>10. ASSUME NEW r \in 0..(n - 1)
      PROVE  /\ r \in Rows /\ nodeInfo'[r] \in Entry /\ nodeInfo'[r].addr = nodeFile[line[r]].addr
             /\ nodeInfo'[r].con \in {None, nodeInfo'[r].addr}
  <2>1. r \in Rows
    BY <1>1 DEF Rows
  <2>2. PICK entry \in Entry : entry = Row(line, r)
    BY <1>7
  <2>3. nodeInfo'[r] = [entry EXCEPT !.con = IF r \in open THEN entry.addr ELSE None]
    BY <1>4, <1>5, <2>1, <2>2 DEF Connected
  <2>4. nodeInfo'[r] \in Entry /\ nodeInfo'[r].addr = entry.addr /\ nodeInfo'[r].con \in {None, entry.addr}
    BY <2>3 DEF Entry
  <2>5. entry.addr = nodeFile[line[r]].addr
    BY <1>7, <2>2
  <2> QED BY <2>1, <2>4, <2>5
<1>11. \A r \in Rows : r \notin 0..(n - 1) => nodeInfo'[r] = Cleared
  BY <1>5, <1>4
<1>12. nodeInfo' \in [Rows -> Entry]
  <2>1. \A r \in Rows : nodeInfo'[r] \in Entry
    BY <1>8, <1>10, <1>11
  <2> QED BY <1>4, <2>1
<1>13. InUse' = 0..(n - 1)
  BY <1>2 DEF InUse
<1>14. n = Cardinality(LinesRead)
  BY DEF n
<1>15. \A r \in Rows : r \notin 0..(n - 1) => nodeInfo'[r].con = None
  BY <1>8, <1>11
<1>16. /\ n = Cardinality(LinesRead) /\ numberNodes' = n /\ InUse' = 0..(n - 1)
       /\ nodeInfo' \in [Rows -> Entry]
       /\ serving' = FALSE /\ listening' = FALSE /\ found' = [t \in Thread |-> Idle]
       /\ view' = [c \in Client |-> <<>>] /\ tableLength' = [c \in Client |-> 0] /\ outdated' = {}
       /\ mishaps' \in 0..MaxMishaps /\ UNCHANGED <<nodeFile, blamed>>
  BY <1>2, <1>9, <1>12, <1>13, <1>14
<1>17. \A r \in 0..(n - 1) : /\ nodeInfo'[r].addr = nodeFile[line[r]].addr
                            /\ nodeInfo'[r].con \in {None, nodeInfo'[r].addr}
  BY <1>10
<1>18. Restarted(n, line)
  BY <1>5, <1>15, <1>16, <1>17 DEF Restarted
<1> QED BY <1>1, <1>5, <1>18


-----------------------------------------------------------------------------
(* The types.                                                              *)

LEMMA InitTypes == Init => Types
<1> SUFFICES ASSUME Init PROVE Types
  OBVIOUS
<1>1. MaxNodes \in Nat /\ MaxMishaps \in Nat
  BY TableAssumption
<1>2. TableTypes
  <2>1. nodeInfo = [r \in Rows |-> Cleared] /\ numberNodes = 0 /\ nodeFile = <<>> /\ serving = FALSE /\ listening = FALSE
    BY DEF Init
  <2>2. Cleared \in Entry
    BY DEF Cleared, Entry
  <2>3. nodeInfo \in [Rows -> Entry]
    BY <2>1, <2>2
  <2>4. numberNodes \in -1..(MaxNodes + 2) /\ nodeFile \in Seq(Line)
    BY <1>1, <2>1
  <2> QED BY <2>1, <2>3, <2>4 DEF TableTypes
<1>3. FoundTypes
  <2>1. found = [t \in Thread |-> Idle]
    BY DEF Init
  <2> QED BY <2>1 DEF FoundTypes, Identifying, Changing, Idle, Thread
<1>4. ViewTypes
  <2>1. view = [c \in Client |-> <<>>] /\ tableLength = [c \in Client |-> 0]
    BY DEF Init
  <2>2. <<>> \in Shown /\ Len(<<>>) = 0
    BY DEF Shown
  <2> QED BY <1>1, <2>1, <2>2 DEF ViewTypes
<1>5. GhostTypes
  <2>1. outdated = {} /\ blamed = {} /\ mishaps = 0
    BY DEF Init
  <2> QED BY <1>1, <2>1 DEF GhostTypes
<1> QED BY <1>2, <1>3, <1>4, <1>5 DEF Types

(* A thread begins to work, on a row, or ends.                             *)
LEMMA FoundKept ==
    ASSUME FoundTypes, NEW t \in Thread, NEW f \in {Idle} \cup Search, found' = [found EXCEPT ![t] = f],
           f.kind = "identify" => f.row <= MaxNodes,
           t = "libxbee" => f = Idle \/ f.kind = "identify",
           Changing' => numberNodes' <= MaxNodes + 1
    PROVE  FoundTypes'
<1>1. found' \in [Thread -> {Idle} \cup Search]
  BY DEF FoundTypes
<1>2. \A u \in Thread : found'[u] = IF u = t THEN f ELSE found[u]
  BY DEF FoundTypes
<1>3. \A u \in Thread : Identifying(u)' => found'[u].row <= MaxNodes
  BY <1>2 DEF FoundTypes, Identifying
<1>4. found'["libxbee"] # Idle => Identifying("libxbee")'
  BY <1>2 DEF FoundTypes, Identifying, Thread
<1> QED BY <1>1, <1>3, <1>4 DEF FoundTypes, Identifying

LEMMA SameFound ==
    ASSUME FoundTypes, found' = found, numberNodes' = numberNodes
    PROVE  FoundTypes'
<1>1. \A t \in Thread : Identifying(t)' <=> Identifying(t)
  BY DEF Identifying
<1>2. Changing' <=> Changing
  BY DEF Changing
<1> QED BY <1>1, <1>2 DEF FoundTypes, Thread

LEMMA IdentifyBeginTypes ==
    ASSUME Types, NEW t \in Thread, NEW a \in Address, IdentifyBegin(t, a)
    PROVE  Types'
<1>1. PICK f \in Search :
        /\ f.row <= MaxNodes /\ f.kind = "identify" /\ found' = [found EXCEPT ![t] = f]
        /\ blamed' \subseteq Ghosts /\ mishaps' \in 0..MaxMishaps
        /\ UNCHANGED <<nodeInfo, numberNodes, nodeFile, serving, listening, view, tableLength, outdated>>
  BY IdentifyBeginIs
<1>2. Changing' => Changing
  BY <1>1 DEF Changing, Types, FoundTypes, Thread
<1>3. FoundTypes'
  BY <1>1, <1>2, FoundKept DEF Types, FoundTypes
<1> QED BY <1>1, <1>3 DEF Types, TableTypes, ViewTypes, GhostTypes, Ghosts

LEMMA IdentifyEndTypes ==
    ASSUME Types, NEW t \in Thread, IdentifyEnd(t)
    PROVE  Types'
<1>1. PICK row \in 0..MaxNodes, e \in Entry, l \in Line :
        /\ found' = [found EXCEPT ![t] = Idle]
        /\ nodeInfo' = [nodeInfo EXCEPT ![row] = e]
        /\ numberNodes' = IF row = numberNodes THEN numberNodes + 1 ELSE numberNodes
        /\ nodeFile' = nodeFile \/ nodeFile' = Append(nodeFile, l)
        /\ UNCHANGED <<serving, listening, view, tableLength, outdated, blamed, mishaps>>
  BY IdentifyEndIs
<1>2. MaxNodes \in Nat /\ numberNodes \in -1..(MaxNodes + 2)
  BY TableAssumption DEF Types, TableTypes
<1>3. numberNodes' \in -1..(MaxNodes + 2) /\ (numberNodes' = numberNodes \/ numberNodes' <= MaxNodes + 1)
  BY <1>1, <1>2
<1>4. nodeInfo' \in [Rows -> Entry]
  BY <1>1 DEF Types, TableTypes
<1>5. nodeFile' \in Seq(Line)
  <2>1. nodeFile \in Seq(Line)
    BY DEF Types, TableTypes
  <2> QED BY <1>1, <2>1
<1>6. Changing' => Changing
  BY <1>1 DEF Changing, Types, FoundTypes, Thread, Idle
<1>7. Idle.kind = "none" /\ Idle \in {Idle} \cup Search
  BY DEF Idle
<1>8. FoundTypes'
  <2>1. Changing' => numberNodes' <= MaxNodes + 1
    BY <1>3, <1>6 DEF Types, FoundTypes
  <2> QED BY <1>1, <1>7, <2>1, FoundKept DEF Types
<1> QED BY <1>1, <1>3, <1>4, <1>5, <1>8 DEF Types, TableTypes, ViewTypes, GhostTypes

LEMMA CommandNTypes == ASSUME Types, NEW c \in Client, CommandN(c) PROVE Types'
<1>1. /\ numberNodes \in 0..(MaxNodes + 2)
      /\ view' = [view EXCEPT ![c] = <<>>] /\ tableLength' = [tableLength EXCEPT ![c] = numberNodes]
      /\ outdated' = outdated \ {c}
      /\ UNCHANGED <<nodeInfo, numberNodes, nodeFile, serving, listening, found, blamed, mishaps>>
  BY TableAssumption DEF CommandN, Accepted, Types, TableTypes, mainVars
<1>2. <<>> \in Shown /\ Len(<<>>) = 0
  BY DEF Shown
<1>3. ViewTypes'
  BY <1>1, <1>2 DEF Types, ViewTypes
<1>4. FoundTypes' /\ TableTypes'
  BY <1>1, SameFound DEF Types, TableTypes
<1> QED BY <1>1, <1>3, <1>4 DEF Types, GhostTypes

(* The row that a client asks for next is there, or refused.               *)
LEMMA CommandIIs ==
    ASSUME Types, NEW c \in Client, CommandI(c)
    PROVE  \E a \in Address \cup {None} :
               /\ view' = [view EXCEPT ![c] = Append(view[c], a)]
               /\ Len(view[c]) < tableLength[c] /\ Len(view[c]) \in Nat
               /\ Len(view[c]) <= numberNodes => a = nodeInfo[Len(view[c])].addr
               /\ serving /\ found["main"] = Idle
               /\ UNCHANGED <<nodeInfo, numberNodes, nodeFile, serving, listening, found, tableLength>>
               /\ UNCHANGED <<outdated, blamed, mishaps>>
<1>1. PICK row \in Nat : row = Len(view[c])
  BY DEF Types, ViewTypes, Shown
<1>2. /\ row < tableLength[c] /\ tableLength[c] \in 0..(MaxNodes + 2) /\ MaxNodes \in Nat
      /\ serving /\ found["main"] = Idle
  BY <1>1, TableAssumption DEF CommandI, Fetching, Free, Types, ViewTypes
<1>3. row \in Rows
  BY <1>2 DEF Rows
<1>4. nodeInfo[row].addr \in Address \cup {None}
  BY <1>3 DEF Types, TableTypes, Entry
<1>5. view' = [view EXCEPT ![c] = Append(@, IF Accepted(row) THEN nodeInfo[row].addr ELSE None)]
  BY <1>1 DEF CommandI
<1>6. PICK a \in Address \cup {None} : a = IF Accepted(row) THEN nodeInfo[row].addr ELSE None
  BY <1>4
<1>7. view' = [view EXCEPT ![c] = Append(view[c], a)]
  BY <1>5, <1>6
<1>8. Accepted(row) <=> row <= numberNodes
  BY <1>2 DEF Accepted, Free
<1>9. /\ UNCHANGED <<nodeInfo, numberNodes, nodeFile, serving, listening, found, tableLength>>
      /\ UNCHANGED <<outdated, blamed, mishaps>>
  BY DEF CommandI, mainVars
<1> QED BY <1>1, <1>2, <1>6, <1>7, <1>8, <1>9

LEMMA CommandITypes == ASSUME Types, NEW c \in Client, CommandI(c) PROVE Types'
<1>1. PICK a \in Address \cup {None} :
        /\ view' = [view EXCEPT ![c] = Append(view[c], a)]
        /\ Len(view[c]) < tableLength[c] /\ Len(view[c]) \in Nat
        /\ UNCHANGED <<nodeInfo, numberNodes, nodeFile, serving, listening, found, tableLength>>
        /\ UNCHANGED <<outdated, blamed, mishaps>>
  BY CommandIIs
<1>2. PICK v \in Shown : v = view[c]
  BY DEF Types, ViewTypes
<1>3. Append(v, a) \in Shown /\ Len(Append(v, a)) = Len(v) + 1
  BY DEF Shown
<1>4. PICK w \in Shown : w = Append(v, a) /\ Len(w) <= tableLength[c]
  <2>1. tableLength[c] \in 0..(MaxNodes + 2) /\ MaxNodes \in Nat
    BY TableAssumption DEF Types, ViewTypes
  <2>2. Len(v) + 1 <= tableLength[c]
    BY <1>1, <1>2, <2>1
  <2> QED BY <1>3, <2>2
<1>5. view' = [view EXCEPT ![c] = w]
  BY <1>1, <1>2, <1>4
<1>6. ViewTypes'
  BY <1>1, <1>4, <1>5 DEF Types, ViewTypes
<1>7. FoundTypes' /\ TableTypes'
  BY <1>1, SameFound DEF Types, TableTypes
<1> QED BY <1>1, <1>6, <1>7 DEF Types, GhostTypes

LEMMA CommandDTypes == ASSUME Types, NEW c \in Client, NEW row \in Rows, CommandD(c, row) PROVE Types'
<1>1. PICK f \in Search :
        /\ f.kind = "delete" /\ found' = [found EXCEPT !["main"] = f]
        /\ nodeInfo' = [nodeInfo EXCEPT ![row] = Closed(nodeInfo[row])]
        /\ numberNodes' = numberNodes - 1
        /\ view' = [view EXCEPT ![c] = <<>>] /\ tableLength' = [tableLength EXCEPT ![c] = 0]
        /\ outdated' = Client \ {c}
        /\ blamed' \subseteq Ghosts /\ mishaps' \in 0..MaxMishaps
        /\ UNCHANGED <<nodeFile, serving, listening>>
  BY CommandDIs
<1>2. numberNodes \in 0..(MaxNodes + 2) /\ MaxNodes \in Nat
  BY NamesIs, TableAssumption DEF CommandD, Types, TableTypes
<1>3. numberNodes' \in -1..(MaxNodes + 2) /\ numberNodes' <= MaxNodes + 1
  BY <1>1, <1>2
<1>4. nodeInfo' \in [Rows -> Entry]
  BY <1>1, ClosedEntry DEF Types, TableTypes
<1>5. ViewTypes'
  <2>1. <<>> \in Shown /\ Len(<<>>) = 0
    BY DEF Shown
  <2> QED BY <1>1, <1>2, <2>1 DEF Types, ViewTypes
<1>6. FoundTypes'
  BY <1>1, <1>3, FoundKept DEF Types, Thread
<1> QED BY <1>1, <1>3, <1>4, <1>5, <1>6 DEF Types, TableTypes, GhostTypes, Ghosts

LEMMA DeletionTypes == ASSUME Types, deleteNodeTableRow PROVE Types'
<1>1. /\ found' = [found EXCEPT !["main"] = Idle]
      /\ nodeInfo' \in [Rows -> Entry] /\ nodeFile' \in Seq(Line)
      /\ blamed' \subseteq Ghosts /\ mishaps' \in 0..MaxMishaps
      /\ UNCHANGED <<numberNodes, serving, listening, view, tableLength, outdated>>
  BY DeletionIs
<1>2. FoundTypes'
  BY <1>1, FoundKept DEF Types, FoundTypes, Changing, Idle, Thread
<1> QED BY <1>1, <1>2 DEF Types, TableTypes, ViewTypes, GhostTypes, Ghosts

LEMMA CommandQTypes == ASSUME Types, NEW c \in Client, NEW row \in Rows, CommandQ(c, row) PROVE Types'
<1>1. PICK e \in Entry :
        /\ nodeInfo' = [nodeInfo EXCEPT ![row] = e]
        /\ blamed' \subseteq Ghosts /\ mishaps' \in 0..MaxMishaps
        /\ UNCHANGED <<numberNodes, nodeFile, serving, listening, found, view, tableLength, outdated>>
  BY CommandQIs
<1>2. FoundTypes' /\ TableTypes'
  BY <1>1, SameFound DEF Types, TableTypes
<1> QED BY <1>1, <1>2 DEF Types, ViewTypes, GhostTypes, Ghosts

LEMMA CommandETypes == ASSUME Types, NEW c \in Client, NEW a \in Address, CommandE(c, a) PROVE Types'
<1>1. PICK f \in Search, e \in Entry :
        /\ f.kind = "enter" /\ found' = [found EXCEPT !["main"] = f]
        /\ numberNodes \in 0..MaxNodes /\ numberNodes \in Rows
        /\ nodeInfo' = [nodeInfo EXCEPT ![numberNodes] = e]
        /\ blamed' \subseteq Ghosts /\ mishaps' \in 0..MaxMishaps
        /\ UNCHANGED <<numberNodes, nodeFile, serving, listening, view, tableLength, outdated>>
  BY CommandEIs
<1>2. numberNodes' <= MaxNodes + 1
  BY <1>1, TableAssumption
<1>3. FoundTypes'
  BY <1>1, <1>2, FoundKept DEF Types, Thread
<1> QED BY <1>1, <1>3 DEF Types, TableTypes, ViewTypes, GhostTypes, Ghosts

LEMMA CommandEEndsIs ==
    ASSUME Types, CommandEEnds
    PROVE  /\ found["main"].kind = "enter" /\ found' = [found EXCEPT !["main"] = Idle]
           /\ numberNodes' = numberNodes + 1 /\ numberNodes \in -1..(MaxNodes + 1)
           /\ UNCHANGED <<nodeInfo, nodeFile, serving, listening, view, tableLength, outdated, blamed, mishaps>>
<1>1. MaxNodes \in Nat
  BY TableAssumption
<1> QED BY <1>1 DEF CommandEEnds, Ends, mainVars, clientVars, Types, TableTypes, FoundTypes, Changing

LEMMA CommandEEndsTypes == ASSUME Types, CommandEEnds PROVE Types'
<1>1. /\ found' = [found EXCEPT !["main"] = Idle]
      /\ numberNodes' = numberNodes + 1 /\ numberNodes \in -1..(MaxNodes + 1)
      /\ UNCHANGED <<nodeInfo, nodeFile, serving, listening, view, tableLength, outdated, blamed, mishaps>>
  BY CommandEEndsIs
<1>2. numberNodes' \in -1..(MaxNodes + 2)
  BY <1>1, TableAssumption
<1>3. FoundTypes'
  <2>1. ~Changing'
    BY <1>1 DEF Types, FoundTypes, Changing, Idle, Thread
  <2> QED BY <1>1, <2>1, FoundKept DEF Types, Idle, Thread
<1> QED BY <1>1, <1>2, <1>3 DEF Types, TableTypes, ViewTypes, GhostTypes

LEMMA CommandXTypes == ASSUME Types, CommandX PROVE Types'
<1>1. /\ nodeInfo' \in [Rows -> Entry] /\ serving' = FALSE /\ listening' = FALSE
      /\ blamed' \subseteq Ghosts /\ mishaps' \in 0..MaxMishaps
      /\ UNCHANGED <<numberNodes, nodeFile, found, view, tableLength, outdated>>
  BY CommandXIs
<1>2. FoundTypes' /\ TableTypes'
  BY <1>1, SameFound DEF Types, TableTypes
<1> QED BY <1>1, <1>2 DEF Types, ViewTypes, GhostTypes, Ghosts

LEMMA RestartTypes == ASSUME Types, Restart PROVE Types'
<1>1. PICK n \in 0..(MaxNodes + 1) :
        /\ numberNodes' = n /\ nodeInfo' \in [Rows -> Entry]
        /\ serving' = FALSE /\ listening' = FALSE /\ found' = [t \in Thread |-> Idle]
        /\ view' = [c \in Client |-> <<>>] /\ tableLength' = [c \in Client |-> 0] /\ outdated' = {}
        /\ mishaps' \in 0..MaxMishaps /\ UNCHANGED <<nodeFile, blamed>>
  BY RestartIs DEF Restarted
<1>2. numberNodes' \in -1..(MaxNodes + 2) /\ 0 \in 0..(MaxNodes + 2)
  BY <1>1, TableAssumption
<1>3. FoundTypes'
  BY <1>1 DEF FoundTypes, Identifying, Changing, Idle, Thread
<1>4. ViewTypes'
  <2>1. <<>> \in Shown /\ Len(<<>>) = 0
    BY DEF Shown
  <2> QED BY <1>1, <1>2, <2>1 DEF ViewTypes
<1> QED BY <1>1, <1>2, <1>3, <1>4 DEF Types, TableTypes, GhostTypes

LEMMA OpenIs ==
    ASSUME openGlobalConnections
    PROVE  /\ ~serving /\ found["main"] = Idle /\ serving' = TRUE /\ listening' \in BOOLEAN
           /\ UNCHANGED <<nodeInfo, numberNodes, nodeFile, found, view, tableLength, outdated, blamed, mishaps>>
BY DEF openGlobalConnections, clientVars

LEMMA OpenTypes == ASSUME Types, openGlobalConnections PROVE Types'
<1>1. FoundTypes' /\ TableTypes'
  BY OpenIs, SameFound DEF Types, TableTypes
<1> QED BY <1>1, OpenIs DEF Types, ViewTypes, GhostTypes

LEMMA StutterTypes == ASSUME Types, UNCHANGED vars PROVE Types'
<1>1. /\ UNCHANGED <<nodeInfo, numberNodes, nodeFile, serving, listening, found>>
      /\ UNCHANGED <<view, tableLength, outdated, blamed, mishaps>>
  BY DEF vars, mainVars, clientVars
<1>2. FoundTypes' /\ TableTypes'
  BY <1>1, SameFound DEF Types, TableTypes
<1> QED BY <1>1, <1>2 DEF Types, ViewTypes, GhostTypes

LEMMA TypesStep == Types /\ [Next]_vars => Types'
<1> SUFFICES ASSUME Types, [Next]_vars PROVE Types'
  OBVIOUS
<1>1. CASE Callback
  BY <1>1, IdentifyBeginTypes, IdentifyEndTypes DEF Callback
<1>2. CASE \E c \in Client : Command(c)
  BY <1>2, CommandNTypes, CommandITypes, CommandDTypes, CommandQTypes, CommandETypes DEF Command
<1>3. CASE openGlobalConnections \/ deleteNodeTableRow \/ CommandEEnds \/ CommandX \/ Restart
  BY <1>3, OpenTypes, DeletionTypes, CommandEEndsTypes, CommandXTypes, RestartTypes
<1> QED BY <1>1, <1>2, <1>3, StutterTypes DEF Next

(* However callbacks and commands interleave and whatever rows clients     *)
(* name: the count of the rows, what is looked up and what is named keep   *)
(* within the rows of the model.                                           *)
THEOREM TypeCorrectness == Spec => []TableTypeOK
<1>1. ASSUME Types PROVE TableTypeOK
  <2>1. \A t \in Thread : found[t].row \in Rows
    <3>1. Idle.row \in Rows
      BY TableAssumption DEF Idle, Rows
    <3> QED BY <1>1, <3>1 DEF Types, FoundTypes, Search
  <2> QED BY <1>1, <2>1 DEF Types, TableTypes, ViewTypes, GhostTypes, TableTypeOK, Shown
<1> QED BY <1>1, InitTypes, TypesStep, PTL DEF Spec

-----------------------------------------------------------------------------
(* What has happened stays noted.                                          *)

LEMMA BlamedGrows == ASSUME Types, [Next]_vars PROVE blamed \subseteq blamed'
<1>1. ASSUME NEW what, Blame(what) PROVE blamed \subseteq blamed'
  BY <1>1 DEF Blame
<1>2. CASE Callback
  BY <1>1, <1>2 DEF Callback, IdentifyBegin, IdentifyEnd
<1>3. CASE openGlobalConnections
  BY <1>3 DEF openGlobalConnections
<1>4. CASE \E c \in Client : Command(c)
  BY <1>1, <1>4 DEF Command, CommandN, CommandI, CommandD, CommandQ, CommandE
<1>5. CASE deleteNodeTableRow
  BY <1>5, DeletionIs
<1>6. CASE CommandEEnds \/ CommandX \/ Restart
  BY <1>1, <1>6 DEF CommandEEnds, CommandX, Restart
<1>7. CASE UNCHANGED vars
  BY <1>7 DEF vars
<1> QED BY <1>2, <1>3, <1>4, <1>5, <1>6, <1>7 DEF Next

-----------------------------------------------------------------------------
(* Callbacks and commands: a row that was looked up is used as it was.     *)

(* Nothing identifies itself, and main stays in its part of the program or *)
(* comes to the probe.                                                     *)
LEMMA NobodyIdentifies ==
    ASSUME Types, Types', \A t \in Thread : ~Identifying(t)', listening' => serving',
           numberNodes' <= MaxNodes + 1, Changing' => serving' /\ numberNodes' <= MaxNodes
    PROVE  Turns'
BY DEF Turns, Thread

(* The rows are as before, and so are those who are at work on them.       *)
LEMMA SameRows ==
    ASSUME Types, Turns, numberNodes' = numberNodes, found' = found, listening' => serving',
           serving' = serving, \A r \in Rows : nodeInfo'[r].addr = nodeInfo[r].addr
    PROVE  Turns'
<1>1. InUse' = InUse /\ InUse \subseteq Rows
  BY InUseRows DEF InUse, Types
<1>2. \A t \in Thread : Identifying(t)' <=> Identifying(t)
  BY DEF Identifying
<1>3. Changing' <=> Changing
  BY DEF Changing
<1>4. ASSUME NEW a, NEW row, Located(a, row) PROVE Located(a, row)'
  BY <1>1, <1>4 DEF Located
<1> QED BY <1>2, <1>3, <1>4 DEF Turns, Thread

LEMMA IdentifyBeginTurns ==
    ASSUME Types, Types', Turns, NEW t \in Thread, NEW a \in Address, IdentifyBegin(t, a),
           "overlapped" \notin blamed'
    PROVE  Turns'
<1>1. PICK f \in Search :
        /\ f.addr = a /\ f.row = findRowBy64BitAddress(a) /\ f.row <= MaxNodes /\ f.kind = "identify"
        /\ found[t] = Idle /\ found' = [found EXCEPT ![t] = f] /\ Identifies(t)
        /\ blamed' = blamed \cup (IF Changing THEN {"overlapped"} ELSE {})
        /\ UNCHANGED <<nodeInfo, numberNodes, nodeFile, serving, listening, view, tableLength, outdated>>
  BY IdentifyBeginIs
<1>2. ~Changing
  BY <1>1
<1>3. \A u \in Thread : found'[u] = IF u = t THEN f ELSE found[u]
  BY <1>1 DEF Types, FoundTypes
<1>4. ~Changing' /\ InUse' = InUse
  BY <1>1, <1>2, <1>3 DEF Changing, Thread, InUse
<1>5. ASSUME NEW u \in Thread, Identifying(u)' PROVE Located(found[u].addr, found[u].row)'
  <2>1. CASE u = t
    <3>1. Located(a, f.row)
      BY <1>1, FindsRow DEF Types
    <3>2. found'[u].addr = a /\ found'[u].row = f.row
      BY <1>1, <1>3, <2>1
    <3> QED BY <1>1, <1>4, <3>1, <3>2 DEF Located
  <2>2. CASE u # t
    <3>1. found'[u] = found[u] /\ Identifying(u)
      BY <1>3, <1>5, <2>2 DEF Identifying
    <3>2. Located(found[u].addr, found[u].row)
      BY <3>1 DEF Turns
    <3> QED BY <1>1, <1>4, <3>1, <3>2 DEF Located
  <2> QED BY <2>1, <2>2
<1>6. (Identifying("main")' => ~serving) /\ (Identifying("libxbee")' => serving)
  <2>1. CASE t = "main"
    <3>1. ~serving /\ ~Identifying("libxbee") /\ found'["libxbee"] = found["libxbee"]
      BY <1>1, <1>3, <2>1 DEF Identifies, Turns, Thread
    <3> QED BY <3>1 DEF Identifying
  <2>2. CASE t = "libxbee"
    <3>1. serving /\ ~Identifying("main") /\ found'["main"] = found["main"]
      BY <1>1, <1>3, <2>2 DEF Identifies, Turns, Thread
    <3> QED BY <3>1 DEF Identifying
  <2> QED BY <2>1, <2>2 DEF Thread
<1> QED BY <1>1, <1>4, <1>5, <1>6 DEF Turns

(* At the end of an identification no one else is at work.                 *)
LEMMA OnlyOne ==
    ASSUME Types, Turns, NEW t \in Thread, Identifying(t)
    PROVE  ~Changing /\ \A u \in Thread : u # t => ~Identifying(u)
BY DEF Turns, Thread, Identifying, Changing

LEMMA IdentifyEndTurns ==
    ASSUME Types, Types', Turns, NEW t \in Thread, IdentifyEnd(t)
    PROVE  Turns'
<1>1. PICK row \in 0..MaxNodes :
        /\ row = found[t].row /\ Identifying(t) /\ found' = [found EXCEPT ![t] = Idle]
        /\ numberNodes' = IF row = numberNodes THEN numberNodes + 1 ELSE numberNodes
        /\ UNCHANGED <<serving, listening>>
  BY IdentifyEndIs
<1>2. \A u \in Thread : found'[u] = IF u = t THEN Idle ELSE found[u]
  BY <1>1 DEF Types, FoundTypes
<1>3. \A u \in Thread : ~Identifying(u)'
  BY <1>1, <1>2, OnlyOne DEF Identifying, Idle
<1>4. ~Changing'
  BY <1>1, <1>2, OnlyOne DEF Changing, Idle, Thread
<1>5. numberNodes' <= MaxNodes + 1
  BY <1>1, TableAssumption DEF Turns, Types, TableTypes
<1> QED BY <1>1, <1>3, <1>4, <1>5, NobodyIdentifies DEF Turns


LEMMA CommandDTurns ==
    ASSUME Types, Types', Turns, NEW c \in Client, NEW row \in Rows, CommandD(c, row),
           "overlapped" \notin blamed'
    PROVE  Turns'
<1>1. PICK f \in Search :
        /\ f.kind = "delete" /\ found' = [found EXCEPT !["main"] = f] /\ numberNodes' = numberNodes - 1
        /\ blamed' = blamed \cup Overlapped \cup Stale(c)
        /\ UNCHANGED <<nodeFile, serving, listening>>
  BY CommandDIs
<1>2. serving /\ found["main"] = Idle
  BY NamesIs DEF CommandD
<1>3. found["libxbee"] = Idle
  BY <1>1 DEF Overlapped
<1>4. \A t \in Thread : ~Identifying(t)'
  BY <1>1, <1>3 DEF Identifying, Idle, Thread, Types, FoundTypes
<1>5. numberNodes' <= MaxNodes
  BY <1>1, TableAssumption DEF Turns, Types, TableTypes
<1>6. numberNodes' <= MaxNodes + 1
  BY <1>5, TableAssumption DEF Types, TableTypes
<1> QED BY <1>1, <1>2, <1>4, <1>5, <1>6, NobodyIdentifies DEF Turns

LEMMA CommandETurns ==
    ASSUME Types, Types', Turns, NEW c \in Client, NEW a \in Address, CommandE(c, a),
           "overlapped" \notin blamed'
    PROVE  Turns'
<1>1. PICK f \in Search :
        /\ f.kind = "enter" /\ found' = [found EXCEPT !["main"] = f]
        /\ numberNodes \in 0..MaxNodes /\ serving /\ found["main"] = Idle
        /\ blamed' = blamed \cup Overlapped
        /\ UNCHANGED <<numberNodes, nodeFile, serving, listening>>
  BY CommandEIs
<1>2. found["libxbee"] = Idle
  BY <1>1 DEF Overlapped
<1>3. \A t \in Thread : ~Identifying(t)'
  BY <1>1, <1>2 DEF Identifying, Idle, Thread, Types, FoundTypes
<1>4. numberNodes' <= MaxNodes /\ numberNodes' <= MaxNodes + 1
  BY <1>1, TableAssumption
<1> QED BY <1>1, <1>3, <1>4, NobodyIdentifies DEF Turns

(* Main ends what it is at, and nobody else is at work.                    *)
LEMMA MainEndsTurns ==
    ASSUME Types, Types', Turns, Changing, found' = [found EXCEPT !["main"] = Idle],
           serving' = serving, listening' = listening,
           numberNodes' = numberNodes \/ numberNodes' = numberNodes + 1
    PROVE  Turns'
<1>1. \A t \in Thread : ~Identifying(t)'
  BY DEF Turns, Identifying, Idle, Thread, Types, FoundTypes
<1>2. ~Changing'
  BY DEF Changing, Idle, Thread, Types, FoundTypes
<1>3. numberNodes' <= MaxNodes + 1
  BY TableAssumption DEF Turns, Types, TableTypes
<1> QED BY <1>1, <1>2, <1>3, NobodyIdentifies DEF Turns

LEMMA CommandXTurns ==
    ASSUME Types, Types', Turns, CommandX, "overlapped" \notin blamed'
    PROVE  Turns'
<1>1. /\ found["main"] = Idle /\ serving' = FALSE /\ listening' = FALSE
      /\ blamed' = blamed \cup Overlapped /\ UNCHANGED <<numberNodes, found>>
  BY CommandXIs
<1>2. found["libxbee"] = Idle
  BY <1>1 DEF Overlapped
<1>3. ~Changing' /\ \A t \in Thread : ~Identifying(t)'
  BY <1>1, <1>2 DEF Identifying, Changing, Idle, Thread
<1> QED BY <1>1, <1>3, NobodyIdentifies DEF Turns

LEMMA RestartTurns == ASSUME Types, Types', Restart PROVE Turns'
<1>1. PICK n \in 0..(MaxNodes + 1) :
        /\ numberNodes' = n /\ serving' = FALSE /\ listening' = FALSE /\ found' = [t \in Thread |-> Idle]
  BY RestartIs DEF Restarted
<1>2. ~Changing' /\ \A t \in Thread : ~Identifying(t)'
  BY <1>1 DEF Identifying, Changing, Idle, Thread
<1>3. numberNodes' <= MaxNodes + 1
  BY <1>1, TableAssumption
<1> QED BY <1>1, <1>2, <1>3, NobodyIdentifies

LEMMA OpenTurns == ASSUME Types, Types', Turns, openGlobalConnections PROVE Turns'
<1>1. ~Changing' /\ \A t \in Thread : ~Identifying(t)'
  BY OpenIs DEF Turns, Identifying, Changing, Idle, Thread
<1>2. numberNodes' = numberNodes /\ serving'
  BY OpenIs
<1> QED BY <1>1, <1>2, NobodyIdentifies DEF Turns

LEMMA TurnsStep ==
    ASSUME Types, Types', Turns, [Next]_vars, "overlapped" \notin blamed'
    PROVE  Turns'
<1>1. CASE Callback
  BY <1>1, IdentifyBeginTurns, IdentifyEndTurns DEF Callback
<1>2. CASE \E c \in Client : Command(c)
  <2>1. PICK c \in Client : Command(c)
    BY <1>2
  <2>2. CASE CommandN(c)
    BY <2>2, SameRows DEF CommandN, mainVars, Turns
  <2>3. CASE CommandI(c)
    BY <2>3, SameRows DEF CommandI, mainVars, Turns
  <2>4. ASSUME NEW row \in Rows, CommandQ(c, row) PROVE Turns'
    <3>1. PICK e \in Entry :
            /\ e.addr = nodeInfo[row].addr /\ nodeInfo' = [nodeInfo EXCEPT ![row] = e]
            /\ UNCHANGED <<numberNodes, serving, listening, found>>
      BY <2>4, CommandQIs
    <3>2. \A r \in Rows : nodeInfo'[r].addr = nodeInfo[r].addr
      BY <3>1 DEF Types, TableTypes
    <3> QED BY <3>1, <3>2, SameRows DEF Turns
  <2> QED BY <2>1, <2>2, <2>3, <2>4, CommandDTurns, CommandETurns DEF Command
<1>3. CASE deleteNodeTableRow
  <2>1. Changing
    BY <1>3, DeletionIs DEF Changing, Deleting
  <2> QED BY <1>3, <2>1, DeletionIs, MainEndsTurns
<1>4. CASE CommandEEnds
  <2>1. Changing
    BY <1>4, CommandEEndsIs DEF Changing
  <2> QED BY <1>4, <2>1, CommandEEndsIs, MainEndsTurns
<1>5. CASE openGlobalConnections \/ CommandX \/ Restart
  BY <1>5, OpenTurns, CommandXTurns, RestartTurns
<1>6. CASE UNCHANGED vars
  BY <1>6, SameRows DEF vars, mainVars, Turns
<1> QED BY <1>1, <1>2, <1>3, <1>4, <1>5, <1>6 DEF Next

-----------------------------------------------------------------------------
(* The table and its file.                                                 *)

LEMMA TableKept ==
    ASSUME Table, UNCHANGED nodeFile, Held' \subseteq Held, Filed \subseteq Filed',
           \A r \in Held' \cup Filed : nodeInfo'[r].addr = nodeInfo[r].addr
    PROVE  Table'
<1>1. RowLines' = RowLines
  BY RowLinesIs
<1>2. DistinctHeld'
  BY DEF Table, DistinctHeld
<1>3. DistinctLines'
  BY <1>1 DEF Table, DistinctLines
<1>4. LinesFiled'
  BY <1>1 DEF Table, LinesFiled
<1> QED BY <1>2, <1>3, <1>4 DEF Table

(* Without a change at work the rows held are those in use.                *)
LEMMA HeldInUse ==
    ASSUME ~Changing
    PROVE  Held = InUse /\ Filed = InUse
BY DEF Held, Filed, Changing, Deleting

LEMMA HeldInUseAfter ==
    ASSUME ~Changing'
    PROVE  Held' = InUse' /\ Filed' = InUse'
BY DEF Held, Filed, Changing, Deleting

LEMMA SameHeld ==
    ASSUME Table, UNCHANGED <<nodeFile, numberNodes>>, ~Changing, ~Changing',
           \A r \in InUse : nodeInfo'[r].addr = nodeInfo[r].addr
    PROVE  Table'
<1>1. InUse' = InUse
  BY DEF InUse
<1> QED BY <1>1, HeldInUse, HeldInUseAfter, TableKept

LEMMA IdentifyBeginTable ==
    ASSUME Types, Table, NEW t \in Thread, NEW a \in Address, IdentifyBegin(t, a),
           "overlapped" \notin blamed'
    PROVE  Table'
<1>1. PICK f \in Search :
        /\ f.kind = "identify" /\ found' = [found EXCEPT ![t] = f]
        /\ blamed' = blamed \cup (IF Changing THEN {"overlapped"} ELSE {})
        /\ UNCHANGED <<nodeInfo, numberNodes, nodeFile>>
  BY IdentifyBeginIs
<1>2. ~Changing /\ ~Changing'
  BY <1>1 DEF Changing, Thread, Types, FoundTypes
<1> QED BY <1>1, <1>2, SameHeld

(* A node that is entered: when it is new, it is so for the file as well.  *)
LEMMA NewRow ==
    ASSUME TableTypes, Table, NEW a, \A r \in InUse : nodeInfo[r].addr # a,
           numberNodes \in Nat, numberNodes' = numberNodes + 1, ~Changing, ~Changing',
           nodeInfo'[numberNodes].addr = a, \A r \in InUse : nodeInfo'[r].addr = nodeInfo[r].addr,
           NEW l \in Line, l.addr = a, nodeFile' = nodeFile \/ nodeFile' = Append(nodeFile, l)
    PROVE  Table'
<1>1. InUse' = InUse \cup {numberNodes} /\ numberNodes \notin InUse
  BY DEF InUse
<1>2. Held = InUse /\ Filed = InUse /\ Held' = InUse' /\ Filed' = InUse'
  BY HeldInUse, HeldInUseAfter
<1>3. DistinctHeld'
  BY <1>1, <1>2 DEF Table, DistinctHeld
<1>4. nodeFile \in Seq(Line) /\ Len(nodeFile) \in Nat
  BY DEF TableTypes
<1>5. CASE nodeFile' = nodeFile
  <2>1. RowLines' = RowLines
    BY <1>5, RowLinesIs
  <2>2. DistinctLines'
    BY <1>5, <2>1 DEF Table, DistinctLines
  <2>3. LinesFiled'
    <3> SUFFICES ASSUME NEW i \in RowLines PROVE \E r \in Filed' : nodeInfo'[r].addr = nodeFile[i].addr
      BY <1>5, <2>1 DEF LinesFiled
    <3>1. PICK r \in InUse : nodeInfo[r].addr = nodeFile[i].addr
      BY <1>2 DEF Table, LinesFiled
    <3> QED BY <1>1, <1>2, <3>1
  <2> QED BY <1>3, <2>2, <2>3 DEF Table
<1>6. CASE nodeFile' = Append(nodeFile, l)
  <2>1. \A i \in RowLines' : i \in RowLines \/ i = Len(nodeFile) + 1
    BY <1>4, <1>6, RowLinesIs, ReadsOfAppend
  <2>2. RowLines \subseteq 1..Len(nodeFile)
    BY <1>4, LinesFit
  <2>3. /\ \A i \in RowLines : nodeFile'[i] = nodeFile[i] /\ i # Len(nodeFile) + 1
        /\ nodeFile'[Len(nodeFile) + 1] = l
    BY <1>4, <1>6, <2>2
  <2>4. \A i \in RowLines : nodeFile[i].addr # a
    BY <1>2 DEF Table, LinesFiled
  <2>5. DistinctLines'
    <3> SUFFICES ASSUME NEW i \in RowLines', NEW j \in RowLines', nodeFile'[i].addr = nodeFile'[j].addr
                 PROVE  i = j
      BY DEF DistinctLines
    <3>1. CASE i \in RowLines /\ j \in RowLines
      BY <2>3, <3>1 DEF Table, DistinctLines
    <3>2. CASE i \notin RowLines \/ j \notin RowLines
      BY <2>1, <2>3, <2>4, <3>2
    <3> QED BY <3>1, <3>2
  <2>6. LinesFiled'
    <3> SUFFICES ASSUME NEW i \in RowLines' PROVE \E r \in Filed' : nodeInfo'[r].addr = nodeFile'[i].addr
      BY DEF LinesFiled
    <3>1. CASE i \in RowLines
      <4>1. PICK r \in InUse : nodeInfo[r].addr = nodeFile[i].addr
        BY <1>2, <3>1 DEF Table, LinesFiled
      <4> QED BY <1>1, <1>2, <2>3, <3>1, <4>1
    <3>2. CASE i = Len(nodeFile) + 1
      BY <1>1, <1>2, <2>3, <3>2
    <3> QED BY <2>1, <3>1, <3>2
  <2> QED BY <1>3, <2>5, <2>6 DEF Table
<1> QED BY <1>5, <1>6

(* What the end of an identification finds.                                *)
LEMMA IdentifyEndFinds ==
    ASSUME Types, Turns, NEW t \in Thread, IdentifyEnd(t)
    PROVE  \E a \in Address \cup {None}, row \in 0..MaxNodes, e \in Entry, l \in Line :
               /\ e.addr = a /\ e.con \in {None, a} /\ l.addr = a
               /\ nodeInfo' = [nodeInfo EXCEPT ![row] = e] /\ row \in Rows
               /\ UNCHANGED <<view, tableLength, outdated, blamed>>
               /\ ~Changing /\ ~Changing'
               /\ \/ UNCHANGED <<numberNodes, nodeFile>> /\ row \in InUse /\ nodeInfo[row].addr = a
                  \/ UNCHANGED <<numberNodes, nodeFile>> /\ numberNodes = -1 /\ row = 0
                  \/ /\ row = numberNodes /\ numberNodes \in Nat /\ numberNodes' = numberNodes + 1
                     /\ \A r \in InUse : nodeInfo[r].addr # a
                     /\ nodeFile' = nodeFile \/ nodeFile' = Append(nodeFile, l)
<1>1. PICK a \in Address \cup {None}, row \in 0..MaxNodes, e \in Entry, l \in Line :
        /\ a = found[t].addr /\ row = found[t].row /\ Identifying(t)
        /\ e.addr = a /\ e.con \in {None, a} /\ l.addr = a
        /\ found' = [found EXCEPT ![t] = Idle]
        /\ nodeInfo' = [nodeInfo EXCEPT ![row] = e]
        /\ numberNodes' = IF row = numberNodes THEN numberNodes + 1 ELSE numberNodes
        /\ nodeFile' = nodeFile \/ (row = numberNodes /\ nodeFile' = Append(nodeFile, l))
        /\ UNCHANGED <<serving, listening, view, tableLength, outdated, blamed, mishaps>>
  BY IdentifyEndIs
<1>2. ~Changing /\ ~Changing'
  BY <1>1, OnlyOne DEF Changing, Idle, Thread, Types, FoundTypes
<1>3. Located(a, row)
  BY <1>1 DEF Turns
<1>4. row \in Rows /\ MaxNodes \in Nat /\ numberNodes \in Int /\ numberNodes >= -1
  BY TableAssumption DEF Rows, Types, TableTypes
<1> DEFINE Cases ==
        \/ UNCHANGED <<numberNodes, nodeFile>> /\ row \in InUse /\ nodeInfo[row].addr = a
        \/ UNCHANGED <<numberNodes, nodeFile>> /\ numberNodes = -1 /\ row = 0
        \/ /\ row = numberNodes /\ numberNodes \in Nat /\ numberNodes' = numberNodes + 1
           /\ \A r \in InUse : nodeInfo[r].addr # a
           /\ nodeFile' = nodeFile \/ nodeFile' = Append(nodeFile, l)
<1>5. ASSUME \E r \in InUse : nodeInfo[r].addr = a
      PROVE  Cases
  <2>1. row \in InUse /\ nodeInfo[row].addr = a
    BY <1>3, <1>5 DEF Located
  <2>2. row # numberNodes
    BY <1>4, <2>1 DEF InUse
  <2> QED BY <1>1, <2>1, <2>2
<1>6. ASSUME ~\E r \in InUse : nodeInfo[r].addr = a
      PROVE  Cases
  <2>1. row = IF numberNodes < 0 THEN 0 ELSE numberNodes
    BY <1>3, <1>6 DEF Located
  <2>2. CASE numberNodes < 0
    <3>1. row = 0 /\ numberNodes = -1 /\ row # numberNodes
      BY <1>4, <2>1, <2>2
    <3> QED BY <1>1, <3>1
  <2>3. CASE numberNodes >= 0
    <3>1. row = numberNodes /\ numberNodes \in Nat
      BY <1>4, <2>1, <2>3
    <3> QED BY <1>1, <1>6, <3>1
  <2> QED BY <1>4, <2>2, <2>3
<1>7. Cases
  BY <1>5, <1>6
<1>8. /\ e.addr = a /\ e.con \in {None, a} /\ l.addr = a
      /\ nodeInfo' = [nodeInfo EXCEPT ![row] = e] /\ row \in Rows
      /\ UNCHANGED <<view, tableLength, outdated, blamed>>
      /\ ~Changing /\ ~Changing'
  BY <1>1, <1>2, <1>4
<1> QED BY <1>7, <1>8

LEMMA IdentifyEndTable ==
    ASSUME Types, Turns, Table, NEW t \in Thread, IdentifyEnd(t)
    PROVE  Table'
<1>1. PICK a \in Address \cup {None}, row \in 0..MaxNodes, e \in Entry, l \in Line :
        /\ e.addr = a /\ l.addr = a
        /\ nodeInfo' = [nodeInfo EXCEPT ![row] = e] /\ row \in Rows
        /\ ~Changing /\ ~Changing'
        /\ \/ UNCHANGED <<numberNodes, nodeFile>> /\ row \in InUse /\ nodeInfo[row].addr = a
           \/ UNCHANGED <<numberNodes, nodeFile>> /\ numberNodes = -1 /\ row = 0
           \/ /\ row = numberNodes /\ numberNodes \in Nat /\ numberNodes' = numberNodes + 1
              /\ \A r \in InUse : nodeInfo[r].addr # a
              /\ nodeFile' = nodeFile \/ nodeFile' = Append(nodeFile, l)
  BY IdentifyEndFinds
<1>2. InUse \subseteq Rows /\ \A r \in Rows : nodeInfo'[r] = IF r = row THEN e ELSE nodeInfo[r]
  BY <1>1, InUseRows DEF Types, TableTypes
<1>3. CASE UNCHANGED <<numberNodes, nodeFile>> /\ row \in InUse /\ nodeInfo[row].addr = a
  BY <1>1, <1>2, <1>3, SameHeld
<1>4. CASE UNCHANGED <<numberNodes, nodeFile>> /\ numberNodes = -1
  <2>1. InUse = {}
    BY <1>4 DEF InUse
  <2> QED BY <1>1, <1>4, <2>1, SameHeld
<1>5. CASE /\ row = numberNodes /\ numberNodes \in Nat /\ numberNodes' = numberNodes + 1
           /\ \A r \in InUse : nodeInfo[r].addr # a
           /\ nodeFile' = nodeFile \/ nodeFile' = Append(nodeFile, l)
  <2>1. numberNodes \notin InUse
    BY <1>5 DEF InUse
  <2>2. nodeInfo'[numberNodes].addr = a /\ \A r \in InUse : nodeInfo'[r].addr = nodeInfo[r].addr
    BY <1>1, <1>2, <1>5, <2>1
  <2> QED BY <1>1, <1>5, <2>2, NewRow DEF Types
<1> QED BY <1>1, <1>3, <1>4, <1>5

LEMMA CommandDTable ==
    ASSUME Types, Table, NEW c \in Client, NEW row \in Rows, CommandD(c, row)
    PROVE  Table'
<1>1. PICK f \in Search :
        /\ f.kind = "delete" /\ found' = [found EXCEPT !["main"] = f]
        /\ nodeInfo' = [nodeInfo EXCEPT ![row] = Closed(nodeInfo[row])]
        /\ numberNodes' = numberNodes - 1 /\ UNCHANGED nodeFile
  BY CommandDIs
<1>2. found["main"] = Idle
  BY NamesIs DEF CommandD
<1>3. ~Changing /\ Changing' /\ Deleting'
  BY <1>1, <1>2 DEF Changing, Deleting, Idle, Types, FoundTypes, Thread
<1>4. Held' = InUse /\ Filed' = InUse /\ Held = InUse /\ Filed = InUse
  BY <1>1, <1>3, HeldInUse DEF Held, Filed, InUse
<1>5. \A r \in InUse : nodeInfo'[r].addr = nodeInfo[r].addr
  BY <1>1, InUseRows, ClosedEntry DEF Types, TableTypes
<1> QED BY <1>1, <1>4, <1>5, TableKept

(* Each row that a deletion leaves was another one before.                 *)
LEMMA CameFrom ==
    ASSUME NEW n \in Int, NEW row \in Nat
    PROVE  LET from(r) == IF r < row THEN r ELSE r + 1
           IN  /\ \A r \in 0..(n - 1) : from(r) \in 0..n /\ from(r) # row
               /\ \A r, s \in 0..(n - 1) : from(r) = from(s) => r = s
               /\ row \in 0..n => \A q \in 0..n : q # row => \E r \in 0..(n - 1) : from(r) = q
<1> DEFINE from(r) == IF r < row THEN r ELSE r + 1
<1>1. \A r \in 0..(n - 1) : from(r) \in 0..n /\ from(r) # row
  OBVIOUS
<1>2. \A r, s \in 0..(n - 1) : from(r) = from(s) => r = s
  OBVIOUS
<1>3. ASSUME row \in 0..n, NEW q \in 0..n, q # row PROVE \E r \in 0..(n - 1) : from(r) = q
  <2>1. CASE q < row
    <3>1. q \in 0..(n - 1) /\ from(q) = q
      BY <1>3, <2>1
    <3> QED BY <3>1
  <2>2. CASE q > row
    <3>1. q - 1 \in 0..(n - 1) /\ from(q - 1) = q
      BY <1>3, <2>2
    <3> QED BY <3>1
  <2> QED BY <1>3, <2>1, <2>2
<1> QED BY <1>1, <1>2, <1>3

LEMMA DeletionTable ==
    ASSUME Types, Types', Table, deleteNodeTableRow, "unwritten" \notin blamed'
    PROVE  Table'
<1>1. PICK row \in Rows :
        /\ row = found["main"].row /\ Deleting /\ found' = [found EXCEPT !["main"] = Idle]
        /\ numberNodes \in -1..(MaxNodes + 1)
        /\ nodeInfo' \in [Rows -> Entry]
        /\ \A r \in InUse : nodeInfo'[r] = nodeInfo[IF r < row THEN r ELSE r + 1]
        /\ nodeFile' \in Seq(Line)
        /\ \A i \in 1..Len(nodeFile') : i - 1 \in InUse /\ nodeFile'[i].addr = nodeInfo'[i - 1].addr
        /\ numberNodes' = numberNodes
  BY DeletionIs
<1>2. ~Changing'
  BY <1>1 DEF Changing, Idle, Types, FoundTypes, Thread
<1>3. Held' = InUse' /\ Filed' = InUse' /\ Held = 0..numberNodes /\ InUse' = InUse
  BY <1>1, <1>2, HeldInUseAfter DEF Held, Deleting, Changing, InUse
<1> DEFINE from(r) == IF r < row THEN r ELSE r + 1
<1>4. row \in Nat /\ numberNodes \in Int
  BY InUseRows DEF Types, TableTypes
<1>5. /\ \A r \in InUse : from(r) \in Held
      /\ \A r, s \in InUse : from(r) = from(s) => r = s
  BY <1>3, <1>4, CameFrom DEF InUse
<1>6. \A r \in InUse : nodeInfo'[r] = nodeInfo[from(r)]
  BY <1>1
<1> HIDE DEF from
<1>7. DistinctHeld'
  BY <1>3, <1>5, <1>6 DEF Table, DistinctHeld
<1>8. RowLines' \subseteq 1..Len(nodeFile') /\ Len(nodeFile') \in Nat
  BY <1>1, RowLinesIs, ReadsOfType
<1>9. \A i \in RowLines' : i \in Nat /\ i - 1 \in InUse' /\ nodeFile'[i].addr = nodeInfo'[i - 1].addr
  BY <1>1, <1>3, <1>8
<1>10. DistinctLines'
  <2> SUFFICES ASSUME NEW i \in RowLines', NEW j \in RowLines', nodeFile'[i].addr = nodeFile'[j].addr
               PROVE  i = j
    BY DEF DistinctLines
  <2>1. i - 1 = j - 1
    BY <1>3, <1>7, <1>9 DEF DistinctHeld
  <2> QED BY <1>9, <2>1
<1>11. LinesFiled'
  BY <1>3, <1>9 DEF LinesFiled
<1> QED BY <1>7, <1>10, <1>11 DEF Table

LEMMA CommandETable ==
    ASSUME Types, Table, NEW c \in Client, NEW a \in Address, CommandE(c, a)
    PROVE  Table'
<1>1. PICK f \in Search, e \in Entry :
        /\ f.kind = "enter" /\ found' = [found EXCEPT !["main"] = f]
        /\ numberNodes \in 0..MaxNodes /\ numberNodes \in Rows
        /\ found["main"] = Idle /\ \A r \in InUse : nodeInfo[r].addr # a
        /\ e.addr = a /\ nodeInfo' = [nodeInfo EXCEPT ![numberNodes] = e]
        /\ UNCHANGED <<numberNodes, nodeFile>>
  BY CommandEIs
<1>2. ~Changing /\ Changing' /\ ~Deleting'
  BY <1>1 DEF Changing, Deleting, Idle, Types, FoundTypes, Thread
<1>3. numberNodes \in Nat
  BY <1>1
<1>4. 0..numberNodes = InUse \cup {numberNodes} /\ numberNodes \notin InUse
  BY <1>3 DEF InUse
<1>5. /\ Held = InUse /\ Filed = InUse /\ Held' = InUse \cup {numberNodes} /\ Filed' = InUse
  BY <1>1, <1>2, <1>4, HeldInUse DEF Held, Filed, InUse
<1>6. nodeInfo'[numberNodes].addr = a /\ \A r \in InUse : nodeInfo'[r] = nodeInfo[r]
  BY <1>1, <1>4, InUseRows DEF Types, TableTypes
<1>7. DistinctHeld'
  BY <1>1, <1>5, <1>6 DEF Table, DistinctHeld
<1>8. RowLines' = RowLines
  BY <1>1, RowLinesIs
<1>9. DistinctLines'
  BY <1>1, <1>8 DEF Table, DistinctLines
<1>10. LinesFiled'
  BY <1>1, <1>5, <1>6, <1>8 DEF Table, LinesFiled
<1> QED BY <1>7, <1>9, <1>10 DEF Table

LEMMA CommandEEndsTable == ASSUME Types, Table, CommandEEnds PROVE Table'
<1>1. /\ found["main"].kind = "enter" /\ found' = [found EXCEPT !["main"] = Idle]
      /\ numberNodes' = numberNodes + 1 /\ numberNodes \in -1..(MaxNodes + 1)
      /\ UNCHANGED <<nodeInfo, nodeFile>>
  BY CommandEEndsIs
<1>2. Changing /\ ~Deleting /\ ~Changing'
  BY <1>1 DEF Changing, Deleting, Idle, Types, FoundTypes, Thread
<1>3. Held = 0..numberNodes /\ Filed = InUse /\ Held' = InUse' /\ Filed' = InUse' /\ InUse' = 0..numberNodes
  BY <1>1, <1>2, HeldInUseAfter, TableAssumption DEF Held, Filed, InUse, Types, TableTypes
<1>4. InUse \subseteq 0..numberNodes
  BY DEF InUse, Types, TableTypes
<1> QED BY <1>1, <1>3, <1>4, TableKept

LEMMA CommandXTable == ASSUME Types, Table, CommandX PROVE Table'
<1>1. /\ \A r \in Rows : nodeInfo'[r].addr = nodeInfo[r].addr
      /\ found["main"] = Idle /\ UNCHANGED <<numberNodes, nodeFile, found>>
  BY CommandXIs
<1>2. ~Changing /\ ~Changing' /\ InUse \subseteq Rows
  BY <1>1, InUseRows DEF Changing, Idle, Types
<1> QED BY <1>1, <1>2, SameHeld

(* The table has room for every line that the file names a node by.        *)
LEMMA AllLinesRead ==
    ASSUME Types, Turns, Table
    PROVE  LinesRead = RowLines
<1>0. nodeFile \in Seq(Line) /\ MaxNodes \in Nat
  BY TableAssumption DEF Types, TableTypes
<1>1. /\ MaxNodes \in Nat /\ Len(nodeFile) \in Nat
      /\ LinesRead \subseteq RowLines /\ RowLines \subseteq 1..Len(nodeFile)
  BY <1>0, LinesFit
<1>2. IsFiniteSet(RowLines)
  <2>1. IsFiniteSet(1..Len(nodeFile))
    BY <1>1, FS_Interval
  <2> QED BY <1>1, <2>1, FS_Subset
<1>3. Filed \subseteq 0..MaxNodes
  <2>1. CASE Deleting
    <3>1. numberNodes <= MaxNodes /\ numberNodes \in Int
      BY <2>1 DEF Turns, Deleting, Changing, Types, TableTypes
    <3> QED BY <1>1, <2>1, <3>1 DEF Filed
  <2>2. CASE ~Deleting
    <3>1. numberNodes <= MaxNodes + 1 /\ numberNodes \in Int
      BY DEF Turns, Types, TableTypes
    <3> QED BY <1>1, <2>2, <3>1 DEF Filed, InUse
  <2> QED BY <2>1, <2>2
<1> DEFINE place == [i \in RowLines |-> CHOOSE r \in Filed : nodeInfo[r].addr = nodeFile[i].addr]
<1>4. \A i \in RowLines : place[i] \in Filed /\ nodeInfo[place[i]].addr = nodeFile[i].addr
  BY DEF Table, LinesFiled
<1> HIDE DEF place
<1>5. place \in [RowLines -> 0..MaxNodes]
  <2>1. DOMAIN place = RowLines /\ place = [i \in RowLines |-> place[i]]
    BY DEF place
  <2> QED BY <1>3, <1>4, <2>1
<1>6. \A i, j \in RowLines : place[i] = place[j] => i = j
  BY <1>4 DEF Table, DistinctLines
<1>7. IsFiniteSet(0..MaxNodes) /\ Cardinality(0..MaxNodes) = MaxNodes + 1
  BY <1>1, FS_Interval
<1>8. place \in Injection(RowLines, 0..MaxNodes)
  BY <1>5, <1>6 DEF Injection, IsInjective
<1>9. Cardinality(RowLines) <= MaxNodes + 1 /\ Cardinality(RowLines) \in Nat
  <2>1. Cardinality(RowLines) <= Cardinality(0..MaxNodes)
    BY <1>7, <1>8, FS_Injection
  <2> QED BY <1>2, <1>7, <2>1, FS_CardinalityType
<1>10. ASSUME NEW i \in RowLines PROVE i \in LinesRead
  <2> DEFINE B == {j \in RowLines : j < i}
  <2>1. B \subseteq RowLines \ {i}
    BY <1>1
  <2>2. IsFiniteSet(RowLines \ {i}) /\ Cardinality(RowLines \ {i}) = Cardinality(RowLines) - 1
    BY <1>2, FS_RemoveElement
  <2> HIDE DEF B
  <2>3. Cardinality(B) <= Cardinality(RowLines \ {i}) /\ Cardinality(B) \in Nat
    BY <2>1, <2>2, FS_Subset, FS_CardinalityType
  <2>4. Cardinality(B) <= MaxNodes
    BY <1>1, <1>9, <2>2, <2>3
  <2> QED BY <2>4 DEF LinesRead, B
<1> QED BY <1>1, <1>10

LEMMA RestartTable ==
    ASSUME Types, Turns, Table, Restart
    PROVE  Table'
<1>1. PICK n \in 0..(MaxNodes + 1) : \E line \in [0..(n - 1) -> LinesRead] : Restarted(n, line)
  BY RestartIs
<1>2. PICK line \in [0..(n - 1) -> LinesRead] : Restarted(n, line)
  BY <1>1
<1>3. /\ InUse' = 0..(n - 1) /\ UNCHANGED nodeFile /\ found' = [t \in Thread |-> Idle]
      /\ \A r, s \in 0..(n - 1) : line[r] = line[s] => r = s
      /\ \A i \in LinesRead : \E r \in 0..(n - 1) : line[r] = i
      /\ \A r \in 0..(n - 1) : nodeInfo'[r].addr = nodeFile[line[r]].addr
  BY <1>2 DEF Restarted
<1>4. Held' = InUse' /\ Filed' = InUse'
  <2>1. ~Changing'
    BY <1>3 DEF Changing, Idle, Thread
  <2> QED BY <2>1, HeldInUseAfter
<1>5. RowLines' = RowLines /\ LinesRead = RowLines
  BY <1>3, RowLinesIs, AllLinesRead
<1>6. DistinctHeld'
  <2> SUFFICES ASSUME NEW r \in InUse', NEW s \in InUse', nodeInfo'[r].addr = nodeInfo'[s].addr PROVE r = s
    BY <1>4 DEF DistinctHeld
  <2>1. line[r] \in RowLines /\ line[s] \in RowLines /\ nodeFile[line[r]].addr = nodeFile[line[s]].addr
    BY <1>3, <1>5
  <2>2. line[r] = line[s]
    BY <2>1 DEF Table, DistinctLines
  <2> QED BY <1>3, <2>2
<1>7. DistinctLines'
  BY <1>3, <1>5 DEF Table, DistinctLines
<1>8. LinesFiled'
  <2> SUFFICES ASSUME NEW i \in LinesRead PROVE \E r \in InUse' : nodeInfo'[r].addr = nodeFile[i].addr
    BY <1>3, <1>4, <1>5 DEF LinesFiled
  <2>1. PICK r \in 0..(n - 1) : line[r] = i
    BY <1>3
  <2> QED BY <1>3, <2>1
<1> QED BY <1>6, <1>7, <1>8 DEF Table

LEMMA SameTable ==
    ASSUME Table, UNCHANGED <<nodeInfo, nodeFile, numberNodes, found>>
    PROVE  Table'
<1>1. Held' = Held /\ Filed' = Filed
  BY DEF Held, Filed, InUse, Changing, Deleting
<1> QED BY <1>1, TableKept

LEMMA TableStep ==
    ASSUME Types, Types', Turns, Table, [Next]_vars, Spared({"overlapped", "unwritten"})'
    PROVE  Table'
<1>1. "overlapped" \notin blamed' /\ "unwritten" \notin blamed'
  BY DEF Spared
<1>2. CASE Callback
  BY <1>1, <1>2, IdentifyBeginTable, IdentifyEndTable DEF Callback
<1>3. CASE \E c \in Client : Command(c)
  <2>1. PICK c \in Client : Command(c)
    BY <1>3
  <2>2. CASE CommandN(c) \/ CommandI(c)
    BY <2>2, SameTable DEF CommandN, CommandI
  <2>3. ASSUME NEW row \in Rows, CommandQ(c, row) PROVE Table'
    <3>1. PICK e \in Entry :
            /\ e.addr = nodeInfo[row].addr /\ nodeInfo' = [nodeInfo EXCEPT ![row] = e]
            /\ UNCHANGED <<numberNodes, nodeFile, found>>
      BY <2>3, CommandQIs
    <3>2. \A r \in Rows : nodeInfo'[r].addr = nodeInfo[r].addr
      BY <3>1 DEF Types, TableTypes
    <3>3. Held' = Held /\ Filed' = Filed /\ Held \cup Filed \subseteq Rows
      BY <3>1, HeldRows DEF Held, Filed, InUse, Changing, Deleting, Types
    <3> QED BY <3>1, <3>2, <3>3, TableKept
  <2> QED BY <2>1, <2>2, <2>3, CommandDTable, CommandETable DEF Command
<1>4. CASE openGlobalConnections
  BY <1>4, OpenIs, SameTable
<1>5. CASE deleteNodeTableRow \/ CommandEEnds \/ CommandX \/ Restart
  BY <1>1, <1>5, DeletionTable, CommandEEndsTable, CommandXTable, RestartTable
<1>6. CASE UNCHANGED vars
  BY <1>6, SameTable DEF vars
<1> QED BY <1>2, <1>3, <1>4, <1>5, <1>6 DEF Next

-----------------------------------------------------------------------------
(* Connections, and what clients see and name.                             *)

(* Rows, connections and clients' tables stay as they are.                 *)
LEMMA SeenSame ==
    ASSUME Seen, ~Deleting', Held' = Held, UNCHANGED <<nodeInfo, numberNodes, view, tableLength, outdated>>
    PROVE  Seen'
<1>1. OwnCons' /\ SpareRows' /\ ViewShows'
  BY DEF Seen, OwnCons, SpareRows, ViewShows
<1> QED BY <1>1 DEF Seen, RowNamed

(* A client without an outdated table looks at rows in use.                *)
LEMMA SeenInUse ==
    ASSUME Types, Seen, NEW c \in Client, c \notin outdated, NEW i \in 1..Len(view[c])
    PROVE  i - 1 \in InUse /\ view[c][i] = nodeInfo[i - 1].addr
<1>1. tableLength[c] \in Nat /\ Len(view[c]) \in Nat /\ Len(view[c]) <= tableLength[c]
  BY DEF Types, ViewTypes, Shown
<1>2. tableLength[c] <= numberNodes /\ view[c][i] = nodeInfo[i - 1].addr
  BY DEF Seen, ViewShows
<1>3. numberNodes \in Int
  BY DEF Types, TableTypes
<1> QED BY <1>1, <1>2, <1>3 DEF InUse

(* The rows in use keep their nodes, and there are no fewer of them.       *)
LEMMA ViewKept ==
    ASSUME Types, Types', Seen, numberNodes' >= numberNodes, \A r \in InUse : nodeInfo'[r].addr = nodeInfo[r].addr,
           UNCHANGED <<view, tableLength, outdated>>
    PROVE  ViewShows'
<1> SUFFICES ASSUME NEW c \in Client, c \notin outdated
             PROVE  /\ tableLength[c] <= numberNodes'
                    /\ \A i \in 1..Len(view[c]) : view[c][i] = nodeInfo'[i - 1].addr
  BY DEF ViewShows
<1>1. tableLength[c] <= numberNodes /\ tableLength[c] \in Nat /\ numberNodes \in Int /\ numberNodes' \in Int
  BY DEF Seen, ViewShows, Types, TableTypes, ViewTypes
<1>2. tableLength[c] <= numberNodes'
  BY <1>1
<1>3. \A i \in 1..Len(view[c]) : view[c][i] = nodeInfo'[i - 1].addr
  BY SeenInUse
<1> QED BY <1>2, <1>3

LEMMA IdentifyBeginSeen ==
    ASSUME Types, Seen, NEW t \in Thread, NEW a \in Address, IdentifyBegin(t, a), "overlapped" \notin blamed'
    PROVE  Seen'
<1>1. PICK f \in Search :
        /\ f.kind = "identify" /\ found' = [found EXCEPT ![t] = f]
        /\ blamed' = blamed \cup (IF Changing THEN {"overlapped"} ELSE {})
        /\ UNCHANGED <<nodeInfo, numberNodes, nodeFile, serving, listening, view, tableLength, outdated>>
  BY IdentifyBeginIs
<1>2. ~Changing /\ ~Changing'
  BY <1>1 DEF Changing, Thread, Types, FoundTypes
<1>3. Held' = Held /\ ~Deleting'
  BY <1>1, <1>2, HeldInUse, HeldInUseAfter DEF InUse, Changing, Deleting
<1> QED BY <1>1, <1>3, SeenSame

LEMMA IdentifyEndSeen ==
    ASSUME Types, Types', Turns, Seen, NEW t \in Thread, IdentifyEnd(t)
    PROVE  Seen'
<1>1. PICK a \in Address \cup {None}, row \in 0..MaxNodes, e \in Entry, l \in Line :
        /\ e.addr = a /\ e.con \in {None, a} /\ l.addr = a
        /\ nodeInfo' = [nodeInfo EXCEPT ![row] = e] /\ row \in Rows
        /\ UNCHANGED <<view, tableLength, outdated, blamed>>
        /\ ~Changing /\ ~Changing'
        /\ \/ UNCHANGED <<numberNodes, nodeFile>> /\ row \in InUse /\ nodeInfo[row].addr = a
           \/ UNCHANGED <<numberNodes, nodeFile>> /\ numberNodes = -1 /\ row = 0
           \/ /\ row = numberNodes /\ numberNodes \in Nat /\ numberNodes' = numberNodes + 1
              /\ \A r \in InUse : nodeInfo[r].addr # a
              /\ nodeFile' = nodeFile \/ nodeFile' = Append(nodeFile, l)
  BY IdentifyEndFinds
<1>2. /\ InUse \subseteq Rows /\ \A r \in Rows : nodeInfo'[r] = IF r = row THEN e ELSE nodeInfo[r]
  BY <1>1, InUseRows DEF Types, TableTypes
<1>3. numberNodes \in Nat
  BY DEF Seen, Types, TableTypes
<1>4. Held = InUse /\ Held' = InUse' /\ ~Deleting'
  BY <1>1, HeldInUse, HeldInUseAfter DEF Deleting, Changing
<1>5. /\ numberNodes' \in Nat /\ numberNodes' >= numberNodes /\ InUse' = InUse \cup {row}
      /\ \A r \in InUse : nodeInfo'[r].addr = nodeInfo[r].addr
  <2>1. CASE numberNodes' = numberNodes /\ row \in InUse /\ nodeInfo[row].addr = a
    BY <1>1, <1>2, <1>3, <2>1 DEF InUse
  <2>2. CASE row = numberNodes /\ numberNodes' = numberNodes + 1
    <3>1. InUse' = InUse \cup {row} /\ row \notin InUse
      BY <1>3, <2>2 DEF InUse
    <3> QED BY <1>2, <1>3, <2>2, <3>1
  <2> QED BY <1>1, <1>3, <2>1, <2>2
<1>6. OwnCons'
  BY <1>1, <1>2, <1>4, <1>5 DEF Seen, OwnCons
<1>7. SpareRows'
  BY <1>1, <1>2, <1>4, <1>5 DEF Seen, SpareRows
<1>8. ViewShows'
  BY <1>1, <1>5, ViewKept
<1> QED BY <1>4, <1>5, <1>6, <1>7, <1>8 DEF Seen, RowNamed

LEMMA CommandNSeen == ASSUME Types, Seen, NEW c \in Client, CommandN(c) PROVE Seen'
<1>1. /\ view' = [view EXCEPT ![c] = <<>>] /\ tableLength' = [tableLength EXCEPT ![c] = numberNodes]
      /\ outdated' = outdated \ {c} /\ found["main"] = Idle
      /\ UNCHANGED <<nodeInfo, numberNodes, found>>
  BY DEF CommandN, Accepted, Free
<1>2. OwnCons' /\ SpareRows' /\ ~Deleting'
  BY <1>1 DEF Seen, OwnCons, SpareRows, Held, InUse, Changing, Deleting, Idle
<1>3. ViewShows'
  <2> SUFFICES ASSUME NEW d \in Client, d \notin outdated'
               PROVE  /\ tableLength'[d] <= numberNodes
                      /\ \A i \in 1..Len(view'[d]) : view'[d][i] = nodeInfo[i - 1].addr
    BY <1>1 DEF ViewShows
  <2>1. CASE d = c
    <3>1. tableLength'[d] = numberNodes /\ view'[d] = <<>> /\ numberNodes \in Int
      BY <1>1, <2>1 DEF Types, ViewTypes, TableTypes
    <3> QED BY <3>1
  <2>2. CASE d # c
    <3>1. d \notin outdated /\ tableLength'[d] = tableLength[d] /\ view'[d] = view[d]
      BY <1>1, <2>2 DEF Types, ViewTypes
    <3> QED BY <3>1 DEF Seen, ViewShows
  <2> QED BY <2>1, <2>2
<1> QED BY <1>1, <1>2, <1>3 DEF Seen, RowNamed

LEMMA CommandISeen == ASSUME Types, Seen, NEW c \in Client, CommandI(c) PROVE Seen'
<1>1. PICK a \in Address \cup {None} :
        /\ view' = [view EXCEPT ![c] = Append(view[c], a)]
        /\ Len(view[c]) < tableLength[c] /\ Len(view[c]) \in Nat
        /\ Len(view[c]) <= numberNodes => a = nodeInfo[Len(view[c])].addr
        /\ serving /\ found["main"] = Idle
        /\ UNCHANGED <<nodeInfo, numberNodes, nodeFile, serving, listening, found, tableLength>>
        /\ UNCHANGED <<outdated, blamed, mishaps>>
  BY CommandIIs
<1>2. OwnCons' /\ SpareRows' /\ ~Deleting'
  BY <1>1 DEF Seen, OwnCons, SpareRows, Held, InUse, Changing, Deleting, Idle
<1>3. ViewShows'
  <2> SUFFICES ASSUME NEW d \in Client, d \notin outdated
               PROVE  /\ tableLength[d] <= numberNodes
                      /\ \A i \in 1..Len(view'[d]) : view'[d][i] = nodeInfo[i - 1].addr
    BY <1>1 DEF ViewShows
  <2>1. tableLength[d] <= numberNodes /\ \A i \in 1..Len(view[d]) : view[d][i] = nodeInfo[i - 1].addr
    BY DEF Seen, ViewShows
  <2>2. CASE d = c
    <3>1. PICK v \in Shown : v = view[c]
      BY DEF Types, ViewTypes
    <3>2. view'[d] = Append(v, a) /\ Len(v) \in Nat
      BY <1>1, <2>2, <3>1 DEF Types, ViewTypes
    <3>3. Len(v) <= numberNodes
      <4>1. tableLength[c] \in Nat /\ numberNodes \in Int
        BY DEF Types, ViewTypes, TableTypes
      <4> QED BY <1>1, <2>1, <2>2, <3>1, <4>1
    <3>4. a = nodeInfo[Len(v)].addr
      BY <1>1, <3>1, <3>3
    <3>5. ASSUME NEW i \in 1..Len(Append(v, a)) PROVE Append(v, a)[i] = nodeInfo[i - 1].addr
      <4>1. CASE i \in 1..Len(v)
        <5>1. Append(v, a)[i] = v[i]
          BY <4>1 DEF Shown
        <5> QED BY <2>1, <2>2, <3>1, <4>1, <5>1
      <4>2. CASE i = Len(v) + 1
        <5>1. Append(v, a)[i] = a /\ i - 1 = Len(v)
          BY <3>2, <4>2 DEF Shown
        <5> QED BY <3>4, <5>1
      <4> QED BY <3>2, <4>1, <4>2 DEF Shown
    <3> QED BY <2>1, <3>2, <3>5
  <2>3. CASE d # c
    <3>1. view'[d] = view[d]
      BY <1>1, <2>3 DEF Types, ViewTypes
    <3> QED BY <2>1, <3>1
  <2> QED BY <2>2, <2>3
<1> QED BY <1>1, <1>2, <1>3 DEF Seen, RowNamed

LEMMA CommandDSeen ==
    ASSUME Types, Seen, NEW c \in Client, NEW row \in Rows, CommandD(c, row), "stale" \notin blamed'
    PROVE  Seen'
<1>1. PICK f \in Search :
        /\ f.addr = view[c][row + 1] /\ f.row = row /\ f.kind = "delete"
        /\ found' = [found EXCEPT !["main"] = f]
        /\ nodeInfo' = [nodeInfo EXCEPT ![row] = Closed(nodeInfo[row])]
        /\ numberNodes' = numberNodes - 1
        /\ view' = [view EXCEPT ![c] = <<>>] /\ tableLength' = [tableLength EXCEPT ![c] = 0]
        /\ outdated' = Client \ {c}
        /\ blamed' = blamed \cup Overlapped \cup Stale(c)
  BY CommandDIs
<1>2. c \notin outdated
  BY <1>1 DEF Stale
<1>3. found["main"] = Idle /\ row \in InUse /\ view[c][row + 1] = nodeInfo[row].addr /\ numberNodes \in Nat
  BY <1>2, NamesIs DEF CommandD
<1>4. ~Changing /\ Changing' /\ Deleting' /\ found'["main"] = f
  BY <1>1, <1>3 DEF Changing, Deleting, Idle, Types, FoundTypes, Thread
<1>5. Held = InUse /\ Held' = InUse /\ numberNodes' >= 0 /\ InUse = 0..numberNodes'
  BY <1>1, <1>3, <1>4, HeldInUse DEF Held, InUse
<1>6. nodeInfo[row] \in Entry /\ Closed(nodeInfo[row]).addr = nodeInfo[row].addr /\ Closed(nodeInfo[row]).con = None
  BY ClosedEntry DEF Types, TableTypes
<1>7. \A r \in Rows : /\ nodeInfo'[r].addr = nodeInfo[r].addr
                      /\ nodeInfo'[r].con = IF r = row THEN None ELSE nodeInfo[r].con
  BY <1>1, <1>6 DEF Types, TableTypes
<1>8. OwnCons' /\ SpareRows'
  BY <1>5, <1>7, InUseRows DEF Seen, OwnCons, SpareRows, Types
<1>9. \A d \in Client : d \notin outdated' => Len(view'[d]) = 0 /\ tableLength'[d] = 0 /\ view'[d] = <<>>
  BY <1>1 DEF Types, ViewTypes
<1>10. ViewShows'
  BY <1>5, <1>9 DEF ViewShows
<1>11. RowNamed'
  BY <1>1, <1>3, <1>4, <1>5, <1>7, <1>9 DEF RowNamed
<1> QED BY <1>5, <1>8, <1>10, <1>11 DEF Seen

LEMMA DeletionSeen == ASSUME Types, Seen, deleteNodeTableRow PROVE Seen'
<1>1. PICK row \in Rows :
        /\ row = found["main"].row /\ Deleting /\ found' = [found EXCEPT !["main"] = Idle]
        /\ \A r \in InUse : nodeInfo'[r] = nodeInfo[IF r < row THEN r ELSE r + 1]
        /\ \A r \in Rows : r >= numberNodes =>
               nodeInfo'[r].con = IF r = numberNodes THEN None ELSE nodeInfo[r].con
        /\ UNCHANGED <<numberNodes, serving, listening, view, tableLength, outdated>>
  BY DeletionIs
<1>2. ~Changing' /\ ~Deleting'
  BY <1>1 DEF Changing, Deleting, Idle, Types, FoundTypes, Thread
<1>3. numberNodes \in Nat /\ row \in 0..numberNodes /\ row \in Nat
  BY <1>1 DEF Seen, RowNamed, Types, TableTypes
<1>4. Held' = InUse /\ Held = 0..numberNodes
  BY <1>1, <1>2, HeldInUseAfter DEF Held, Changing, Deleting, InUse
<1> DEFINE from(r) == IF r < row THEN r ELSE r + 1
<1>5. \A r \in InUse : from(r) \in Held
  BY <1>3, <1>4, CameFrom DEF InUse
<1>6. \A r \in InUse : nodeInfo'[r] = nodeInfo[from(r)]
  BY <1>1
<1> HIDE DEF from
<1>7. OwnCons'
  BY <1>4, <1>5, <1>6 DEF Seen, OwnCons
<1>8. SpareRows'
  <2> SUFFICES ASSUME NEW r \in Rows, r \notin InUse PROVE nodeInfo'[r].con = None
    BY <1>4 DEF SpareRows
  <2>1. r \in Nat /\ r >= numberNodes
    BY <1>3, InUseRows DEF InUse, Types
  <2>2. CASE r = numberNodes
    BY <1>1, <2>1, <2>2
  <2>3. CASE r # numberNodes
    <3>1. r \notin Held
      BY <1>3, <1>4, <2>1, <2>3
    <3> QED BY <1>1, <2>1, <2>3, <3>1 DEF Seen, SpareRows
  <2> QED BY <2>2, <2>3
<1>9. ViewShows'
  <2>1. \A c \in Client : c \notin outdated => Len(view[c]) = 0 /\ tableLength[c] = 0
    BY <1>1 DEF Seen, RowNamed
  <2> QED BY <1>1, <1>3, <2>1 DEF ViewShows
<1> QED BY <1>1, <1>2, <1>3, <1>7, <1>8, <1>9 DEF Seen, RowNamed

LEMMA CommandQSeen ==
    ASSUME Types, Types', Seen, NEW c \in Client, NEW row \in Rows, CommandQ(c, row), "stale" \notin blamed'
    PROVE  Seen'
<1>1. PICK e \in Entry :
        /\ e.addr = nodeInfo[row].addr /\ e.con \in {None, e.addr}
        /\ nodeInfo' = [nodeInfo EXCEPT ![row] = e] /\ blamed' = blamed \cup Stale(c)
        /\ UNCHANGED <<numberNodes, nodeFile, serving, listening, found, view, tableLength, outdated>>
  BY CommandQIs
<1>2. found["main"] = Idle /\ row \in InUse /\ numberNodes \in Nat
  <2>1. c \notin outdated
    BY <1>1 DEF Stale
  <2> QED BY <2>1, NamesIs DEF CommandQ
<1>3. \A r \in Rows : nodeInfo'[r] = IF r = row THEN e ELSE nodeInfo[r]
  BY <1>1 DEF Types, TableTypes
<1>4. Held' = InUse /\ Held = InUse /\ InUse \subseteq Rows /\ ~Deleting'
  BY <1>1, <1>2, InUseRows DEF Held, InUse, Changing, Deleting, Idle, Types
<1>5. OwnCons' /\ SpareRows'
  BY <1>1, <1>2, <1>3, <1>4 DEF Seen, OwnCons, SpareRows
<1>6. ViewShows'
  BY <1>1, <1>2, <1>3, <1>4, ViewKept
<1> QED BY <1>1, <1>2, <1>4, <1>5, <1>6 DEF Seen, RowNamed

LEMMA CommandESeen ==
    ASSUME Types, Types', Seen, NEW c \in Client, NEW a \in Address, CommandE(c, a)
    PROVE  Seen'
<1>1. PICK f \in Search, e \in Entry :
        /\ f.kind = "enter" /\ found' = [found EXCEPT !["main"] = f]
        /\ numberNodes \in 0..MaxNodes /\ numberNodes \in Rows /\ found["main"] = Idle
        /\ e.addr = a /\ (nodeInfo[numberNodes].con = None => e.con \in {None, a})
        /\ nodeInfo' = [nodeInfo EXCEPT ![numberNodes] = e]
        /\ UNCHANGED <<numberNodes, nodeFile, serving, listening, view, tableLength, outdated>>
  BY CommandEIs
<1>2. ~Changing /\ Changing' /\ ~Deleting'
  BY <1>1 DEF Changing, Deleting, Idle, Types, FoundTypes, Thread
<1>3. numberNodes \in Nat
  BY <1>1
<1>4. numberNodes \notin InUse /\ 0..numberNodes = InUse \cup {numberNodes}
  BY <1>3 DEF InUse
<1>5. Held = InUse /\ Held' = InUse \cup {numberNodes} /\ InUse \subseteq Rows
  BY <1>1, <1>2, <1>4, HeldInUse, InUseRows DEF Held, Types
<1>6. \A r \in Rows : nodeInfo'[r] = IF r = numberNodes THEN e ELSE nodeInfo[r]
  BY <1>1 DEF Types, TableTypes
<1>7. e.con \in {None, a}
  BY <1>1, <1>4, <1>5 DEF Seen, SpareRows
<1>8. OwnCons' /\ SpareRows'
  BY <1>1, <1>5, <1>6, <1>7 DEF Seen, OwnCons, SpareRows
<1>9. ViewShows'
  BY <1>1, <1>3, <1>4, <1>5, <1>6, ViewKept
<1> QED BY <1>1, <1>2, <1>3, <1>8, <1>9 DEF Seen, RowNamed

LEMMA CommandEEndsSeen == ASSUME Types, Types', Seen, CommandEEnds PROVE Seen'
<1>1. /\ found["main"].kind = "enter" /\ found' = [found EXCEPT !["main"] = Idle]
      /\ numberNodes' = numberNodes + 1
      /\ UNCHANGED <<nodeInfo, nodeFile, serving, listening, view, tableLength, outdated, blamed, mishaps>>
  BY CommandEEndsIs
<1>2. Changing /\ ~Changing' /\ ~Deleting'
  BY <1>1 DEF Changing, Deleting, Idle, Types, FoundTypes, Thread
<1>3. numberNodes \in Nat /\ numberNodes' >= numberNodes /\ numberNodes' >= 0
  BY <1>1 DEF Seen, Types, TableTypes
<1>4. Held' = Held
  <2>1. Held' = InUse' /\ Held = 0..numberNodes
    BY <1>2, HeldInUseAfter DEF Held
  <2> QED BY <1>1, <1>3, <2>1 DEF InUse
<1>5. OwnCons' /\ SpareRows'
  BY <1>1, <1>4 DEF Seen, OwnCons, SpareRows
<1>6. ViewShows'
  BY <1>1, <1>3, ViewKept
<1> QED BY <1>2, <1>3, <1>5, <1>6 DEF Seen, RowNamed

LEMMA CommandXSeen == ASSUME Types, Types', Seen, CommandX PROVE Seen'
<1>1. /\ \A r \in Rows : nodeInfo'[r].addr = nodeInfo[r].addr
      /\ \A r \in InUse : nodeInfo'[r].con \in {None, nodeInfo[r].addr}
      /\ \A r \in Rows : r \notin InUse => nodeInfo'[r].con = nodeInfo[r].con
      /\ found["main"] = Idle
      /\ UNCHANGED <<numberNodes, nodeFile, found, view, tableLength, outdated>>
  BY CommandXIs
<1>2. Held' = InUse /\ Held = InUse /\ InUse \subseteq Rows /\ ~Deleting'
  BY <1>1, InUseRows DEF Held, InUse, Changing, Deleting, Idle, Types
<1>3. OwnCons' /\ SpareRows'
  BY <1>1, <1>2 DEF Seen, OwnCons, SpareRows
<1>4. ViewShows'
  <2>1. numberNodes' >= numberNodes
    BY <1>1 DEF Types, TableTypes
  <2> QED BY <1>1, <1>2, <2>1, ViewKept
<1> QED BY <1>1, <1>2, <1>3, <1>4 DEF Seen, RowNamed

LEMMA RestartSeen == ASSUME Types, Restart PROVE Seen'
<1>1. PICK n \in 0..(MaxNodes + 1) :
        /\ numberNodes' = n /\ InUse' = 0..(n - 1)
        /\ \A r \in 0..(n - 1) : nodeInfo'[r].con \in {None, nodeInfo'[r].addr}
        /\ \A r \in Rows : r \notin 0..(n - 1) => nodeInfo'[r].con = None
        /\ found' = [t \in Thread |-> Idle]
        /\ view' = [c \in Client |-> <<>>] /\ tableLength' = [c \in Client |-> 0]
  BY RestartIs DEF Restarted
<1>2. ~Changing' /\ ~Deleting'
  BY <1>1 DEF Changing, Deleting, Idle, Thread
<1>3. OwnCons' /\ SpareRows'
  BY <1>1, <1>2, HeldInUseAfter DEF OwnCons, SpareRows
<1>4. numberNodes' >= 0
  BY <1>1
<1>5. ViewShows'
  <2>1. \A c \in Client : tableLength'[c] = 0 /\ view'[c] = <<>>
    BY <1>1
  <2> QED BY <1>4, <2>1 DEF ViewShows
<1> QED BY <1>2, <1>3, <1>4, <1>5 DEF Seen, RowNamed

LEMMA SeenStutter ==
    ASSUME Seen, UNCHANGED <<nodeInfo, numberNodes, found, view, tableLength, outdated>>
    PROVE  Seen'
<1>1. Held' = Held /\ (Deleting' <=> Deleting)
  BY DEF Held, InUse, Changing, Deleting
<1>2. OwnCons' /\ SpareRows' /\ ViewShows'
  BY <1>1 DEF Seen, OwnCons, SpareRows, ViewShows
<1>3. RowNamed'
  BY <1>1 DEF Seen, RowNamed
<1> QED BY <1>2, <1>3 DEF Seen

LEMMA SeenStep ==
    ASSUME Types, Types', Turns, Seen, [Next]_vars, Spared({"overlapped", "stale"})'
    PROVE  Seen'
<1>1. "overlapped" \notin blamed' /\ "stale" \notin blamed'
  BY DEF Spared
<1>2. CASE Callback
  BY <1>1, <1>2, IdentifyBeginSeen, IdentifyEndSeen DEF Callback
<1>3. CASE \E c \in Client : Command(c)
  BY <1>1, <1>3, CommandNSeen, CommandISeen, CommandDSeen, CommandQSeen, CommandESeen DEF Command
<1>4. CASE openGlobalConnections
  BY <1>4, OpenIs, SeenStutter
<1>5. CASE deleteNodeTableRow \/ CommandEEnds \/ CommandX \/ Restart
  BY <1>5, DeletionSeen, CommandEEndsSeen, CommandXSeen, RestartSeen
<1>6. CASE UNCHANGED vars
  BY <1>6, SeenStutter DEF vars, clientVars
<1> QED BY <1>2, <1>3, <1>4, <1>5, <1>6 DEF Next

-----------------------------------------------------------------------------
(* The theorems.                                                           *)

LEMMA InitInv == Init => Inv
<1> SUFFICES ASSUME Init PROVE Inv
  OBVIOUS
<1>1. Types
  BY InitTypes
<1>2. /\ numberNodes = 0 /\ nodeFile = <<>> /\ found = [t \in Thread |-> Idle] /\ listening = FALSE
      /\ nodeInfo = [r \in Rows |-> Cleared] /\ tableLength = [c \in Client |-> 0] /\ view = [c \in Client |-> <<>>]
  BY DEF Init
<1>3. InUse = {} /\ ~Changing /\ ~Deleting /\ \A t \in Thread : ~Identifying(t)
  BY <1>2 DEF InUse, Changing, Deleting, Identifying, Idle, Thread
<1>4. Held = {} /\ Filed = {}
  BY <1>3, HeldInUse
<1>5. Turns
  BY <1>2, <1>3, TableAssumption DEF Turns, Thread
<1>6. RowLines = {}
  <2>1. nodeFile \in Seq(Line) /\ 1..Len(nodeFile) = {}
    BY <1>2
  <2> QED BY <2>1, LinesFit
<1>7. Table
  BY <1>4, <1>6 DEF Table, DistinctHeld, DistinctLines, LinesFiled
<1>8. \A c \in Client : tableLength[c] = 0 /\ view[c] = <<>>
  BY <1>2
<1>9. Seen
  <2>1. OwnCons /\ SpareRows
    BY <1>2, <1>4 DEF OwnCons, SpareRows, Cleared
  <2>2. ViewShows
    BY <1>2, <1>8 DEF ViewShows
  <2> QED BY <1>2, <1>3, <2>1, <2>2 DEF Seen, RowNamed
<1> QED BY <1>1, <1>5, <1>7, <1>9 DEF Inv, TInv

LEMMA InvStep == Inv /\ [Next]_vars => Inv'
<1> SUFFICES ASSUME Inv, [Next]_vars PROVE Inv'
  OBVIOUS
<1>1. Types /\ Types' /\ blamed \subseteq blamed'
  BY TypesStep, BlamedGrows DEF Inv
<1>2. "overlapped" \notin blamed' => Turns /\ Turns'
  BY <1>1, TurnsStep DEF Inv, TInv
<1>3. Spared({"overlapped", "unwritten"})' => Table'
  BY <1>1, <1>2, TableStep DEF Inv, TInv, Spared
<1>4. Spared({"overlapped", "stale"})' => Seen'
  BY <1>1, <1>2, SeenStep DEF Inv, TInv, Spared
<1> QED BY <1>1, <1>2, <1>3, <1>4 DEF Inv, TInv

THEOREM TableInvariant == Spec => []Inv
BY InitInv, InvStep, PTL DEF Spec

(* No node has two rows, unless one was entered in the middle of a change  *)
(* or the file could not be written: nodeIDCallback and 'E' look for the   *)
(* node first, and a restart reads a file without double lines.            *)
THEOREM RowsDistinct == Spec => []DistinctRows
<1>1. ASSUME Inv PROVE DistinctRows
  <2>1. InUse \subseteq Held
    BY <1>1, HeldRows DEF Inv, Types
  <2> QED BY <1>1, <2>1 DEF Inv, TInv, Table, DistinctHeld, DistinctRows
<1> QED BY <1>1, TableInvariant, PTL

(* What a restart would read from the file is in the table, so that a      *)
(* deleted node stays deleted, with the same exemptions.                   *)
THEOREM DeletedStaysDeleted == Spec => []DeletedForGood
<1>1. ASSUME Inv PROVE DeletedForGood
  <2> SUFFICES ASSUME Spared({"overlapped", "unwritten"}), ~Deleting, NEW i \in LinesRead
               PROVE  nodeFile[i].addr \in Registered
    BY DEF DeletedForGood
  <2>1. Filed = InUse
    BY DEF Filed
  <2>2. i \in RowLines
    BY <1>1, LinesFit DEF Inv, Types, TableTypes
  <2> QED BY <1>1, <2>1, <2>2 DEF Inv, TInv, Table, LinesFiled, Registered
<1> QED BY <1>1, TableInvariant, PTL

(* The connection of a row is that of its node, or none, unless a node was *)
(* entered in the middle of a change or a client named a row by a table    *)
(* from before a deletion.                                                 *)
THEOREM RowsOwnConnection == Spec => []ConnectionOfRow
<1>1. ASSUME Inv PROVE ConnectionOfRow
  <2>1. InUse \subseteq Held
    BY <1>1, HeldRows DEF Inv, Types
  <2> QED BY <1>1, <2>1 DEF Inv, TInv, Seen, OwnCons, ConnectionOfRow
<1> QED BY <1>1, TableInvariant, PTL

(* A deletion takes the node that its client saw out of the table, and     *)
(* leaves the others.                                                      *)
LEMMA DeletesOne ==
    ASSUME Inv, deleteNodeTableRow, Spared({"overlapped", "stale", "unwritten"})
    PROVE  Registered' = {nodeInfo[r].addr : r \in 0..numberNodes} \ {found["main"].addr}
<1>1. Types /\ Table /\ Seen
  BY DEF Inv, TInv, Spared
<1>2. PICK row \in Rows :
        /\ row = found["main"].row /\ Deleting
        /\ \A r \in InUse : nodeInfo'[r] = nodeInfo[IF r < row THEN r ELSE r + 1]
        /\ UNCHANGED <<numberNodes, serving, listening, view, tableLength, outdated>>
  BY <1>1, DeletionIs
<1>3. /\ numberNodes \in Nat /\ row \in 0..numberNodes /\ row \in Nat
      /\ nodeInfo[row].addr = found["main"].addr
  BY <1>1, <1>2 DEF Seen, RowNamed, Types, TableTypes
<1>4. Held = 0..numberNodes /\ InUse = 0..(numberNodes - 1) /\ InUse' = InUse
  BY <1>2 DEF Held, Changing, Deleting, InUse
<1> DEFINE from(r) == IF r < row THEN r ELSE r + 1
<1>5. /\ \A r \in InUse : from(r) \in Held /\ from(r) # row
      /\ \A q \in Held : q # row => \E r \in InUse : from(r) = q
  <2>1. PICK n \in Nat : n = numberNodes
    BY <1>3
  <2>2. row \in 0..n /\ row \in Nat /\ n \in Int
    BY <1>3, <2>1
  <2>3. /\ \A r \in 0..(n - 1) : from(r) \in 0..n /\ from(r) # row
        /\ \A q \in 0..n : q # row => \E r \in 0..(n - 1) : from(r) = q
    BY <2>2, CameFrom
  <2> HIDE DEF from
  <2> QED BY <1>4, <2>1, <2>3
<1>6. \A r \in InUse : nodeInfo'[r] = nodeInfo[from(r)]
  BY <1>2
<1> HIDE DEF from
<1>7. \A r, s \in Held : nodeInfo[r].addr = nodeInfo[s].addr => r = s
  BY <1>1 DEF Table, DistinctHeld
<1>8. Registered' = {nodeInfo[from(r)].addr : r \in InUse}
  BY <1>4, <1>6 DEF Registered
<1>9. {nodeInfo[from(r)].addr : r \in InUse} = {nodeInfo[r].addr : r \in Held} \ {nodeInfo[row].addr}
  <2>1. ASSUME NEW r \in InUse
        PROVE  nodeInfo[from(r)].addr \in {nodeInfo[q].addr : q \in Held} \ {nodeInfo[row].addr}
    BY <1>3, <1>4, <1>5, <1>7
  <2>2. ASSUME NEW q \in Held, nodeInfo[q].addr # nodeInfo[row].addr
        PROVE  nodeInfo[q].addr \in {nodeInfo[from(r)].addr : r \in InUse}
    <3>1. PICK r \in InUse : from(r) = q
      BY <1>5, <2>2
    <3> QED BY <3>1
  <2> QED BY <2>1, <2>2
<1> QED BY <1>3, <1>4, <1>8, <1>9

(* A deletion removes the node that the client saw in the row, and no      *)
(* other, whatever the other clients did to the table in the meantime,     *)
(* unless one of them deleted from it, a node was entered in the middle of *)
(* a change, or the file could not be written.                             *)
THEOREM DeletesTheNamed == Spec => DeletesNamed
<1>1. Inv /\ [Next]_vars =>
          [deleteNodeTableRow /\ Spared({"overlapped", "stale", "unwritten"}) =>
              Registered' = {nodeInfo[r].addr : r \in 0..numberNodes} \ {found["main"].addr}]_vars
  BY DeletesOne
<1> QED BY <1>1, TableInvariant, PTL DEF Spec, DeletesNamed

=============================================================================
