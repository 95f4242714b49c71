------------------------- MODULE ConfigDialogProofs -------------------------
(***************************************************************************)
(* Proofs about ConfigDialog for any values, any number of commands on     *)
(* their way and any number of faults: that a write of which nothing gets  *)
(* lost is saved, that it makes good for those that failed before, and     *)
(* that no parameter of the two kinds the window watches properly gets a   *)
(* value that nobody has entered.                                          *)
(***************************************************************************)
EXTENDS ConfigDialog, SequenceTheorems, TLAPS

Item == [name : Param \cup {"WR", "FR"}, value : Int]

DialogTypes == /\ pc \in {"closed", "idle", "refresh", "write"}
               /\ at \in Nat \ {0}
               /\ shown \in [Shown -> Int]
               /\ modified \in [Text -> BOOLEAN]
               /\ cached \in [Param \ Text -> Int]
               /\ changes \in BOOLEAN
               /\ toNode \in Seq(Item)
               /\ ram \in [Param -> Int] /\ perm \in [Param -> Int]
               /\ sent \in [Param -> Int]
               /\ clean \in BOOLEAN
               /\ wants \in [Text -> Int]
               /\ edited \subseteq Text /\ touched \subseteq Text

(* A widget is marked only when somebody has typed in it; the check box is *)
(* what was read last from the moment the refresh has passed it; and what  *)
(* is on its way to the node is there for a reason.                        *)
MarkedEntered == \A p \in Text : modified[p] => p \in touched /\ shown[p] \in Values

BoxKept == pc \in {"idle", "write"} \/ (pc = "refresh" /\ at > 2) => cached["JV"] = shown["JV"]

SetsEntered ==
    \A m \in 1..Len(toNode) :
        /\ toNode[m].name # "JV"
        /\ toNode[m].name \in Text => toNode[m].name \in touched /\ toNode[m].value \in Values

Entered == MarkedEntered /\ BoxKept /\ SetsEntered /\ OnlyEntered

(* Once the first n commands of a queue are taken, the parameter, of which *)
(* the node has a value, has value v; and those after them leave it alone. *)
Leaves(queue, value, n, p, v) ==
    \E k \in 0..n : /\ IF k = 0 THEN value = v ELSE queue[k] = Set(p, v)
                    /\ \A m \in (k + 1)..n : queue[m].name \notin {p, "FR"}

Keeps(queue, n, p) == \A m \in (n + 1)..Len(queue) : queue[m].name # p

(* What was sent will be in the node when a pass ends, and what the pass   *)
(* then has saved is saved, or will be.                                    *)
WillSave(p, v) ==
    \/ ram[p] = v /\ perm[p] = v /\ Keeps(toNode, 0, p)
    \/ \E n \in 1..Len(toNode) :
          toNode[n].name = "WR" /\ Leaves(toNode, ram[p], n - 1, p, v) /\ Keeps(toNode, n, p)

Written == clean => \A p \in Param : sent[p] # None =>
               IF pc = "write" THEN changes /\ Leaves(toNode, ram[p], Len(toNode), p, sent[p])
               ELSE WillSave(p, sent[p])

(* What the operator wants stays marked, and is what the last pass that    *)
(* has come by sent, but for what was typed since.                         *)
WantsMarked == \A p \in Text : wants[p] # None => modified[p] /\ shown[p] = wants[p]

Passed(p) == pc = "write" => \A i \in 1..Len(Parameters) : Parameters[i] = p => i < at

WantsSent == \A p \in Text \ edited : wants[p] # None /\ Passed(p) => sent[p] = wants[p]

-----------------------------------------------------------------------------
LEMMA Names ==
    /\ Param = {"ID", "JV", "SP", "D0", "IR"}
    /\ Shown = {"ID", "JV", "SP", "CH", "D0", "IR", "PR"}
    /\ Text \subseteq Param /\ Param \subseteq Shown
    /\ "WR" \notin Param /\ "FR" \notin Param
<1>1. DOMAIN Parameters = 1..5 /\ DOMAIN Queries = 1..7
  BY DEF Parameters, Queries
<1>2. Param = {"ID", "JV", "SP", "D0", "IR"}
  <2>1. ASSUME NEW p \in Param PROVE p \in {"ID", "JV", "SP", "D0", "IR"}
    <3>1. PICK i \in 1..5 : p = Parameters[i]
      BY <1>1 DEF Param, Range
    <3> QED BY <3>1 DEF Parameters
  <2>2. \A i \in 1..5 : Parameters[i] \in Param
    BY <1>1 DEF Param, Range
  <2> QED BY <2>1, <2>2 DEF Parameters
<1>3. Shown = {"ID", "JV", "SP", "CH", "D0", "IR", "PR"}
  <2>1. ASSUME NEW p \in Shown PROVE p \in {"ID", "JV", "SP", "CH", "D0", "IR", "PR"}
    <3>1. PICK i \in 1..7 : p = Queries[i]
      BY <1>1 DEF Shown, Range
    <3> QED BY <3>1 DEF Queries
  <2>2. \A i \in 1..7 : Queries[i] \in Shown
    BY <1>1 DEF Shown, Range
  <2> QED BY <2>1, <2>2 DEF Queries
<1> QED BY <1>2, <1>3 DEF Text

(* Where each of the passes is.                                            *)
LEMMA Passes ==
    /\ Len(Parameters) = 5 /\ Len(Queries) = 7
    /\ Parameters[1] = "ID" /\ Parameters[2] = "JV" /\ Parameters[3] = "SP"
    /\ Parameters[4] = "D0" /\ Parameters[5] = "IR"
    /\ \A i \in 1..5 : Parameters[i] \in Param
    /\ \A i \in 1..7 : Queries[i] \in Shown
    /\ Queries[1] = "ID" /\ Queries[2] = "JV" /\ \A i \in 3..7 : Queries[i] \notin {"ID", "JV"}
<1>1. DOMAIN Parameters = 1..5 /\ DOMAIN Queries = 1..7
  BY DEF Parameters, Queries
<1> QED BY <1>1, Names DEF Parameters, Queries

LEMMA ItemIs ==
    /\ \A p \in Param, v \in Int : Set(p, v) \in Item
    /\ \A name \in {"WR", "FR"} : Plain(name) \in Item
<1>1. \A p \in Param, v \in Int : [name |-> p, value |-> v] \in Item
  BY DEF Item
<1>2. None \in Int
  BY DEF None
<1>3. \A name \in {"WR", "FR"} : [name |-> name, value |-> None] \in Item
  BY <1>2 DEF Item
<1> QED BY <1>1, <1>3 DEF Set, Plain

(* A command that is sent waits behind the others, or is lost.             *)
LEMMA SendsIs ==
    ASSUME DialogTypes, NEW item \in Item, Sends(item)
    PROVE  /\ toNode' \in Seq(Item) /\ clean' \in BOOLEAN
           /\ \/ /\ Len(toNode') = Len(toNode) + 1 /\ Len(toNode) \in Nat
                 /\ toNode'[Len(toNode) + 1] = item
                 /\ \A m \in 1..Len(toNode) : toNode'[m] = toNode[m]
                 /\ clean' = clean
              \/ toNode' = toNode /\ clean' = (clean /\ pc # "write")
<1>1. toNode \in Seq(Item) /\ clean \in BOOLEAN
  BY DEF DialogTypes
<1>2. CASE toNode' = Append(toNode, item) /\ clean' = clean
  BY <1>1, <1>2
<1>3. CASE toNode' = toNode /\ clean' = (clean /\ pc # "write")
  BY <1>1, <1>3
<1> QED BY <1>2, <1>3 DEF Sends

LEMMA TakesIs ==
    ASSUME DialogTypes, NodeTakes
    PROVE  /\ Len(toNode) \in Nat /\ Len(toNode) >= 1 /\ toNode[1] \in Item
           /\ toNode' \in Seq(Item) /\ Len(toNode') = Len(toNode) - 1
           /\ \A m \in 1..Len(toNode') : toNode'[m] = toNode[m + 1] /\ m + 1 \in 1..Len(toNode)
           /\ toNode[1].name = "FR" => ram' = perm /\ perm' = perm
           /\ toNode[1].name = "WR" => ram' = ram /\ perm' = ram
           /\ toNode[1].name \notin {"FR", "WR"} =>
                  /\ toNode[1].name \in Param
                  /\ ram' = [ram EXCEPT ![toNode[1].name] = toNode[1].value] /\ perm' = perm
<1>1. toNode \in Seq(Item) /\ toNode # <<>> /\ toNode' = Tail(toNode)
  BY DEF DialogTypes, NodeTakes
<1>2. /\ Len(toNode) \in Nat /\ Len(toNode) >= 1 /\ toNode[1] \in Item /\ Head(toNode) = toNode[1]
      /\ toNode' \in Seq(Item) /\ Len(toNode') = Len(toNode) - 1
      /\ \A m \in 1..Len(toNode') : toNode'[m] = toNode[m + 1] /\ m + 1 \in 1..Len(toNode)
  BY <1>1
<1>3. toNode[1].name \in Param \cup {"WR", "FR"}
  BY <1>2 DEF Item
<1>4. /\ ram' = CASE toNode[1].name = "FR" -> perm
                  [] toNode[1].name = "WR" -> ram
                  [] OTHER -> [ram EXCEPT ![toNode[1].name] = toNode[1].value]
      /\ perm' = IF toNode[1].name = "WR" THEN ram ELSE perm
  BY <1>2 DEF NodeTakes
<1> QED BY <1>2, <1>3, <1>4

-----------------------------------------------------------------------------
LEMMA Constants ==
    /\ None \in Int /\ Original \in Int /\ Error \in Int /\ Values \subseteq Int
    /\ None \notin Values /\ Original \notin Values
BY DialogAssumption DEF None, Original, Error

LEMMA TypesInit == Init => DialogTypes
<1> SUFFICES ASSUME Init PROVE DialogTypes
  OBVIOUS
<1>1. pc = "closed" /\ at \in Nat \ {0} /\ toNode \in Seq(Item) /\ edited = {} /\ touched = {}
  BY DEF Init
<1>6. changes \in BOOLEAN
  BY DEF Init
<1>7. clean \in BOOLEAN
  BY DEF Init
<1>2. shown \in [Shown -> Int] /\ cached \in [Param \ Text -> Int]
  BY DEF Init
<1>3. modified \in [Text -> BOOLEAN]
  BY DEF Init
<1>4. ram \in [Param -> Int] /\ perm \in [Param -> Int]
  BY Constants DEF Init
<1>5. sent \in [Param -> Int] /\ wants \in [Text -> Int]
  BY Constants DEF Init
<1> QED BY <1>1, <1>2, <1>3, <1>4, <1>5, <1>6, <1>7 DEF DialogTypes

LEMMA TypesNext == DialogTypes /\ [Next]_vars => DialogTypes'
<1> SUFFICES ASSUME DialogTypes, [Next]_vars PROVE DialogTypes'
  OBVIOUS
<1> USE DEF windowVars, nodeVars, ghosts
<1>1. CASE Open
  <2>1. cached' \in [Param \ Text -> Int]
    BY <1>1, Constants DEF Open
  <2>2. shown' \in [Shown -> Int] /\ wants' \in [Text -> Int]
    BY <1>1, Constants DEF Open
  <2>3. modified' \in [Text -> BOOLEAN]
    BY <1>1 DEF Open
  <2> QED BY <1>1, <2>1, <2>2, <2>3 DEF Open, on_configButton_clicked, DialogTypes
<1>2. CASE Close
  BY <1>2 DEF Close, configDialogDone, DialogTypes
<1>3. CASE BeginRefresh
  BY <1>3 DEF BeginRefresh, Begins, DialogTypes
<1>4. CASE Refresh
  <2>1. at \in 1..7 /\ Queries[at] \in Shown /\ at' = at + 1
    <3>1. at \in Nat \ {0}
      BY DEF DialogTypes
    <3>2. at <= 7 /\ at' = at + 1
      BY <1>4, Passes DEF Refresh
    <3> QED BY <3>1, <3>2, Passes
  <2>2. \A p \in Shown : Failed(p) \in Int
    BY DEF Failed, Error, DialogTypes
  <2>3. shown' \in [Shown -> Int] /\ Verify \in Int
    BY <1>4, <2>1, <2>2, Names DEF Refresh, DialogTypes, Verify
  <2>4. cached' \in [Param \ Text -> Int]
    BY <1>4, <2>3 DEF Refresh, DialogTypes
  <2>5. modified' \in [Text -> BOOLEAN]
    BY <1>4 DEF Refresh, DialogTypes, AfterError
  <2>6. wants' \in [Text -> Int]
    BY <1>4, Constants DEF Refresh, DialogTypes
  <2> QED BY <1>4, <2>1, <2>3, <2>4, <2>5, <2>6 DEF Refresh, DialogTypes
<1>5. CASE BeginWrite
  <2>1. sent' \in [Param -> Int]
    BY <1>5, Constants DEF BeginWrite
  <2>2. changes' \in BOOLEAN
    BY <1>5 DEF BeginWrite
  <2>3. clean' \in BOOLEAN
    BY <1>5 DEF BeginWrite
  <2>4. pc' = "write" /\ at' \in Nat \ {0} /\ edited' = {}
    BY <1>5 DEF BeginWrite, Begins
  <2> QED BY <1>5, <2>1, <2>2, <2>3, <2>4 DEF BeginWrite, DialogTypes
<1>6. CASE Write
  <2>1. at \in 1..5 /\ Parameters[at] \in Param /\ at' = at + 1
    <3>1. at \in Nat \ {0}
      BY DEF DialogTypes
    <3>2. at <= 5 /\ at' = at + 1
      BY <1>6, Passes DEF Write
    <3> QED BY <3>1, <3>2, Passes
  <2> DEFINE p == Parameters[at]
  <2>2. shown[p] \in Int /\ Set(p, shown[p]) \in Item
    BY <2>1, Names, ItemIs DEF DialogTypes
  <2>3. p \notin Text => cached[p] \in Int
    BY <2>1 DEF DialogTypes
  <2>4. Differs(p) \in BOOLEAN
    BY <2>1 DEF Differs, DialogTypes
  <2>5. changes' \in BOOLEAN
    BY <1>6, <2>4 DEF Write, Changes, DialogTypes
  <2>6. CASE Differs(p)
    <3>1. /\ Sends(Set(p, shown[p]))
          /\ sent' = [sent EXCEPT ![p] = shown[p]]
          /\ edited' = edited \ {p}
          /\ modified' = IF p \in Text THEN [modified EXCEPT ![p] = AfterSend(p)] ELSE modified
          /\ cached' = IF p = "IR" THEN [cached EXCEPT ![p] = shown[p]] ELSE cached
      BY <1>6, <2>6 DEF Write
    <3>2. toNode' \in Seq(Item) /\ clean' \in BOOLEAN
      BY <2>2, <3>1, SendsIs
    <3>3. modified' \in [Text -> BOOLEAN]
      BY <3>1 DEF AfterSend, DialogTypes
    <3>4. cached' \in [Param \ Text -> Int] /\ sent' \in [Param -> Int] /\ edited' \subseteq Text
      BY <2>2, <3>1 DEF DialogTypes
    <3> HIDE DEF p
    <3> QED BY <1>6, <2>5, <3>2, <3>3, <3>4 DEF Write, DialogTypes
  <2>7. CASE ~Differs(p)
    BY <1>6, <2>5, <2>7 DEF Write, DialogTypes
  <2> QED BY <2>6, <2>7
<1>7. CASE EndPass
  <2>1. toNode' \in Seq(Item) /\ clean' \in BOOLEAN
    BY <1>7, ItemIs, SendsIs DEF EndPass, DialogTypes
  <2> QED BY <1>7, <2>1 DEF EndPass, DialogTypes
<1>8. CASE SoftReset
  <2>1. toNode' \in Seq(Item) /\ clean' \in BOOLEAN
    BY <1>8, ItemIs, SendsIs DEF SoftReset
  <2> QED BY <1>8, <2>1 DEF SoftReset, DialogTypes
<1>9. CASE NodeTakes
  <2>1. toNode' \in Seq(Item)
    BY <1>9, TakesIs
  <2>2. toNode[1].value \in Int
    BY <1>9, TakesIs DEF Item
  <2>3. ram' \in [Param -> Int] /\ perm' \in [Param -> Int]
    BY <1>9, <2>2, TakesIs DEF DialogTypes
  <2> QED BY <1>9, <2>1, <2>3 DEF NodeTakes, DialogTypes
<1>10. CASE PowerFails
  BY <1>10 DEF PowerFails, DialogTypes
<1>11. CASE \E p \in Text, v \in Values : Edit(p, v)
  <2>1. PICK p \in Text, v \in Values : Edit(p, v)
    BY <1>11
  <2>2. v \in Int /\ p \in Shown
    BY DialogAssumption, Names
  <2> QED BY <2>1, <2>2 DEF Edit, DialogTypes
<1>12. CASE UNCHANGED vars
  BY <1>12 DEF vars, DialogTypes
<1> QED BY <1>1, <1>2, <1>3, <1>4, <1>5, <1>6, <1>7, <1>8, <1>9, <1>10, <1>11, <1>12 DEF Next

-----------------------------------------------------------------------------
(* Nothing is written that nobody entered.                                 *)

Watched == Text \cup {"JV"}

LEMMA HeldIs ==
    OnlyEntered <=> \A p \in Watched :
        IF p \in touched THEN ram[p] \in Values \cup {Original} /\ perm[p] \in Values \cup {Original}
        ELSE ram[p] = Original /\ perm[p] = Original
BY DEF OnlyEntered, Watched

LEMMA EnteredInit == Init => Entered
<1> SUFFICES ASSUME Init PROVE Entered
  OBVIOUS
<1>1. MarkedEntered
  BY DEF Init, MarkedEntered
<1>2. BoxKept
  BY DEF Init, BoxKept
<1>3. SetsEntered
  BY DEF Init, SetsEntered
<1>4. \A p \in Watched : ram[p] = Original /\ perm[p] = Original
  BY Names DEF Init, Watched
<1> QED BY <1>1, <1>2, <1>3, <1>4, HeldIs DEF Entered

(* A command that is sent is a reset, a save, or sets what was entered.    *)
LEMMA SendsEntered ==
    ASSUME DialogTypes, SetsEntered, NEW item \in Item, Sends(item), touched' = touched,
           item.name # "JV",
           item.name \in Text => item.name \in touched /\ item.value \in Values
    PROVE  SetsEntered'
<1>1. CASE toNode' = toNode
  BY <1>1 DEF SetsEntered
<1>2. CASE toNode' # toNode
  <2>1. /\ Len(toNode') = Len(toNode) + 1 /\ Len(toNode) \in Nat
        /\ toNode'[Len(toNode) + 1] = item
        /\ \A m \in 1..Len(toNode) : toNode'[m] = toNode[m]
    BY <1>2, SendsIs
  <2>2. \A m \in 1..Len(toNode') : m \in 1..Len(toNode) \/ m = Len(toNode) + 1
    BY <2>1
  <2> QED BY <2>1, <2>2 DEF SetsEntered
<1> QED BY <1>1, <1>2

LEMMA EnteredNext == DialogTypes /\ Entered /\ [Next]_vars => Entered'
<1> SUFFICES ASSUME DialogTypes, Entered, [Next]_vars PROVE Entered'
  OBVIOUS
<1> USE DEF windowVars, nodeVars, ghosts
<1>0. MarkedEntered /\ BoxKept /\ SetsEntered /\ OnlyEntered
  BY DEF Entered
<1>a. touched' = touched /\ ram' = ram /\ perm' = perm => OnlyEntered'
  BY <1>0, HeldIs DEF OnlyEntered
<1>b. touched' = touched /\ toNode' = toNode => SetsEntered'
  BY <1>0 DEF SetsEntered
<1>c. touched' = touched /\ modified' = modified /\ shown' = shown => MarkedEntered'
  BY <1>0 DEF MarkedEntered
<1>d. Text = {"ID", "SP"}
  BY DEF Text
<1>1. CASE Open
  <2>1. MarkedEntered'
    BY <1>1 DEF Open, MarkedEntered
  <2>2. BoxKept'
    BY <1>1 DEF Open, on_configButton_clicked, BoxKept
  <2> QED BY <1>1, <1>a, <1>b, <2>1, <2>2 DEF Open, Entered
<1>2. CASE Close
  <2>1. BoxKept'
    BY <1>2 DEF Close, configDialogDone, BoxKept
  <2> QED BY <1>2, <1>a, <1>b, <1>c, <2>1 DEF Close, Entered
<1>3. CASE BeginRefresh
  <2>1. BoxKept'
    BY <1>3 DEF BeginRefresh, Begins, BoxKept
  <2> QED BY <1>3, <1>a, <1>b, <1>c, <2>1 DEF BeginRefresh, Entered
<1>4. CASE Refresh
  <2>1. at \in 1..7 /\ at' = at + 1 /\ Queries[at] \in Shown
    <3>1. at \in Nat \ {0}
      BY DEF DialogTypes
    <3>2. at <= 7 /\ at' = at + 1
      BY <1>4, Passes DEF Refresh
    <3> QED BY <3>1, <3>2, Passes
  <2> DEFINE p == Queries[at]
  <2>2. /\ pc = "refresh" /\ pc' = pc
        /\ shown' = [shown EXCEPT ![p] = Failed(p)]
        /\ modified' = IF p = "ID" THEN [modified EXCEPT ![p] = FALSE] ELSE modified
        /\ cached' = IF p = "JV" THEN [cached EXCEPT ![p] = shown["JV"]] ELSE cached
        /\ touched' = touched /\ toNode' = toNode /\ ram' = ram /\ perm' = perm
    BY <1>4 DEF Refresh, AfterError, Verify
  <2>3. (p = "JV" <=> at = 2) /\ (p = "ID" <=> at = 1)
    BY <2>1, Passes
  <2>4. p \in Shown /\ "JV" \in Shown /\ "SP" \in Shown /\ "JV" \in Param \ Text
    BY <2>1, Names DEF Text
  <2> HIDE DEF p
  <2>5. shown'["JV"] = shown["JV"] /\ shown'["SP"] = shown["SP"]
    BY <2>2, <2>4 DEF Failed, DialogTypes
  <2>6. BoxKept'
    BY <1>0, <2>1, <2>2, <2>3, <2>4, <2>5 DEF BoxKept, DialogTypes
  <2>7. MarkedEntered'
    <3> SUFFICES ASSUME NEW q \in Text, modified'[q] PROVE q \in touched /\ shown'[q] \in Values
      BY <2>2 DEF MarkedEntered
    <3>1. CASE p = "ID"
      <4>1. q # "ID"
        BY <2>2, <3>1, <1>d DEF DialogTypes
      <4>2. modified[q]
        BY <2>2, <3>1, <4>1 DEF DialogTypes
      <4> QED BY <1>0, <1>d, <2>5, <4>1, <4>2 DEF MarkedEntered
    <3>2. CASE p # "ID"
      <4>1. modified[q]
        BY <2>2, <3>2
      <4>2. shown'[q] = shown[q]
        BY <1>d, <2>2, <2>4, <2>5, <3>2, Names DEF DialogTypes
      <4> QED BY <1>0, <4>1, <4>2 DEF MarkedEntered
    <3> QED BY <3>1, <3>2
  <2> QED BY <1>a, <1>b, <2>2, <2>6, <2>7 DEF Entered
<1>5. CASE BeginWrite
  <2>1. BoxKept'
    BY <1>0, <1>5 DEF BeginWrite, Begins, BoxKept
  <2> QED BY <1>5, <1>a, <1>b, <1>c, <2>1 DEF BeginWrite, Entered
<1>6. CASE Write
  <2>1. at \in 1..5 /\ Parameters[at] \in Param
    <3>1. at \in Nat \ {0}
      BY DEF DialogTypes
    <3>2. at <= 5
      BY <1>6, Passes DEF Write
    <3> QED BY <3>1, <3>2, Passes
  <2> DEFINE p == Parameters[at]
  <2>2. pc = "write" /\ pc' = pc /\ shown' = shown /\ touched' = touched /\ ram' = ram /\ perm' = perm
    BY <1>6 DEF Write
  <2>3. CASE Differs(p)
    <3>1. /\ Sends(Set(p, shown[p]))
          /\ modified' = IF p \in Text THEN [modified EXCEPT ![p] = modified[p]] ELSE modified
          /\ cached' = IF p = "IR" THEN [cached EXCEPT ![p] = shown[p]] ELSE cached
      BY <1>6, <2>3 DEF Write, AfterSend
    <3>2. shown[p] \in Int /\ Set(p, shown[p]) \in Item
      BY <2>1, Names, ItemIs DEF DialogTypes
    <3>3. modified' = modified
      BY <3>1 DEF DialogTypes
    <3>4. cached'["JV"] = cached["JV"]
      BY <3>1 DEF DialogTypes
    <3>5. cached["JV"] = shown["JV"]
      BY <1>0, <2>2 DEF BoxKept
    <3>6. p # "JV" /\ (p \in Text => p \in touched /\ shown[p] \in Values)
      BY <1>0, <1>d, <2>3, <3>5 DEF Differs, MarkedEntered
    <3>7. SetsEntered'
      <4>1. Set(p, shown[p]).name = p /\ Set(p, shown[p]).value = shown[p]
        BY DEF Set
      <4> HIDE DEF p
      <4> QED BY <1>0, <2>2, <3>1, <3>2, <3>6, <4>1, SendsEntered
    <3>8. BoxKept'
      BY <2>2, <3>4, <3>5 DEF BoxKept
    <3> QED BY <1>a, <1>c, <2>2, <3>3, <3>7, <3>8 DEF Entered
  <2>4. CASE ~Differs(p)
    <3>1. modified' = modified /\ cached' = cached /\ toNode' = toNode
      BY <1>6, <2>4 DEF Write
    <3>2. BoxKept'
      BY <1>0, <2>2, <3>1 DEF BoxKept
    <3> QED BY <1>a, <1>b, <1>c, <2>2, <3>1, <3>2 DEF Entered
  <2> QED BY <2>3, <2>4
<1>7. CASE EndPass
  <2>1. /\ at > IF pc = "refresh" THEN 7 ELSE 5
        /\ pc \in {"refresh", "write"} /\ pc' = "idle"
        /\ touched' = touched /\ modified' = modified /\ shown' = shown /\ cached' = cached
        /\ ram' = ram /\ perm' = perm
    BY <1>7, Passes DEF EndPass
  <2>2. BoxKept'
    BY <1>0, <2>1 DEF BoxKept, DialogTypes
  <2>3. SetsEntered'
    <3>1. CASE toNode' = toNode
      BY <1>b, <2>1, <3>1
    <3>2. CASE Sends(Plain("WR"))
      <4>1. Plain("WR") \in Item /\ Plain("WR").name \notin Param /\ "JV" \in Param
        BY ItemIs, Names DEF Plain
      <4> QED BY <1>0, <2>1, <3>2, <4>1, Names, SendsEntered
    <3> QED BY <1>7, <3>1, <3>2 DEF EndPass
  <2> QED BY <1>a, <1>c, <2>1, <2>2, <2>3 DEF Entered
<1>8. CASE SoftReset
  <2>1. /\ pc' = pc /\ at' = at /\ cached' = cached /\ touched' = touched /\ modified' = modified
        /\ shown' = shown /\ ram' = ram /\ perm' = perm /\ Sends(Plain("FR"))
    BY <1>8 DEF SoftReset
  <2>2. BoxKept'
    BY <1>0, <2>1 DEF BoxKept
  <2>3. SetsEntered'
    <3>1. Plain("FR") \in Item /\ Plain("FR").name \notin Param /\ "JV" \in Param
      BY ItemIs, Names DEF Plain
    <3> QED BY <1>0, <2>1, <3>1, Names, SendsEntered
  <2> QED BY <1>a, <1>c, <2>1, <2>2, <2>3 DEF Entered
<1>9. CASE NodeTakes
  <2>1. /\ pc' = pc /\ at' = at /\ cached' = cached /\ touched' = touched /\ modified' = modified
        /\ shown' = shown
    BY <1>9 DEF NodeTakes
  <2>2. BoxKept'
    BY <1>0, <2>1 DEF BoxKept
  <2>3. SetsEntered'
    BY <1>0, <1>9, <2>1, TakesIs DEF SetsEntered
  <2>4. /\ toNode[1].name # "JV"
        /\ toNode[1].name \in Text => toNode[1].name \in touched /\ toNode[1].value \in Values
    <3>1. 1 \in 1..Len(toNode)
      BY <1>9, TakesIs
    <3> QED BY <1>0, <3>1 DEF SetsEntered
  <2>5. OnlyEntered'
    <3>1. \A p \in Watched : ram'[p] \in {ram[p], perm[p]} \/ (ram'[p] = toNode[1].value /\ toNode[1].name = p)
      BY <1>9, TakesIs, Names DEF Watched, DialogTypes
    <3>2. \A p \in Watched : perm'[p] \in {ram[p], perm[p]}
      BY <1>9, TakesIs
    <3>3. \A p \in Watched : p \in Text \/ p = "JV"
      BY DEF Watched
    <3>4. \A p \in Watched :
        IF p \in touched THEN ram'[p] \in Values \cup {Original} /\ perm'[p] \in Values \cup {Original}
        ELSE ram'[p] = Original /\ perm'[p] = Original
      BY <1>0, <2>4, <3>1, <3>2, <3>3, HeldIs
    <3> QED BY <2>1, <3>4 DEF OnlyEntered, Watched
  <2> QED BY <1>c, <2>1, <2>2, <2>3, <2>5 DEF Entered
<1>10. CASE PowerFails
  <2>1. /\ pc' = pc /\ at' = at /\ cached' = cached /\ touched' = touched /\ modified' = modified
        /\ shown' = shown /\ toNode' = toNode /\ ram' = perm /\ perm' = perm
    BY <1>10 DEF PowerFails
  <2>2. BoxKept'
    BY <1>0, <2>1 DEF BoxKept
  <2>3. OnlyEntered'
    BY <1>0, <2>1, HeldIs DEF OnlyEntered, Watched
  <2> QED BY <1>b, <1>c, <2>1, <2>2, <2>3 DEF Entered
<1>11. CASE \E p \in Text, v \in Values : Edit(p, v)
  <2>1. PICK p \in Text, v \in Values : Edit(p, v)
    BY <1>11
  <2>2. /\ pc' = pc /\ at' = at /\ cached' = cached /\ toNode' = toNode /\ ram' = ram /\ perm' = perm
        /\ shown' = [shown EXCEPT ![p] = v] /\ modified' = [modified EXCEPT ![p] = TRUE]
        /\ touched' = touched \cup {p}
    BY <2>1 DEF Edit
  <2>3. p # "JV" /\ p \in Shown
    BY Names DEF Text
  <2>4. BoxKept'
    BY <1>0, <2>2, <2>3 DEF BoxKept, DialogTypes
  <2>5. MarkedEntered'
    BY <1>0, <2>2, <2>3 DEF MarkedEntered, DialogTypes
  <2>6. SetsEntered'
    BY <1>0, <2>2 DEF SetsEntered
  <2>7. OnlyEntered'
    BY <1>0, <2>2, HeldIs DEF OnlyEntered, Watched
  <2> QED BY <2>4, <2>5, <2>6, <2>7 DEF Entered
<1>12. CASE UNCHANGED vars
  <2>1. BoxKept'
    BY <1>0, <1>12 DEF vars, BoxKept
  <2> QED BY <1>12, <1>a, <1>b, <1>c, <2>1 DEF vars, Entered
<1> QED BY <1>1, <1>2, <1>3, <1>4, <1>5, <1>6, <1>7, <1>8, <1>9, <1>10, <1>11, <1>12 DEF Next

-----------------------------------------------------------------------------
(* What a write sends is saved.                                            *)

LEMMA LeavesNone ==
    ASSUME NEW q, NEW value, NEW p, NEW v
    PROVE  Leaves(q, value, 0, p, v) <=> value = v
BY DEF Leaves

LEMMA LeavesSame ==
    ASSUME NEW q, NEW r, NEW n \in Nat, NEW value, NEW p, NEW v,
           \A m \in 1..n : r[m] = q[m], Leaves(q, value, n, p, v)
    PROVE  Leaves(r, value, n, p, v)
<1>1. PICK k \in 0..n : /\ IF k = 0 THEN value = v ELSE q[k] = Set(p, v)
                        /\ \A m \in (k + 1)..n : q[m].name \notin {p, "FR"}
  BY DEF Leaves
<1>2. \A m \in (k + 1)..n : m \in 1..n
  OBVIOUS
<1>3. k # 0 => k \in 1..n
  OBVIOUS
<1> QED BY <1>1, <1>2, <1>3 DEF Leaves

LEMMA LeavesMore ==
    ASSUME NEW q, NEW r, NEW n \in Nat, NEW value, NEW p, NEW v,
           \A m \in 1..n : r[m] = q[m], Leaves(q, value, n, p, v),
           r[n + 1].name \notin {p, "FR"}
    PROVE  Leaves(r, value, n + 1, p, v)
<1>1. PICK k \in 0..n : /\ IF k = 0 THEN value = v ELSE r[k] = Set(p, v)
                        /\ \A m \in (k + 1)..n : r[m].name \notin {p, "FR"}
  BY LeavesSame DEF Leaves
<1>2. \A m \in (k + 1)..(n + 1) : m \in (k + 1)..n \/ m = n + 1
  OBVIOUS
<1>3. k \in 0..(n + 1)
  OBVIOUS
<1> QED BY <1>1, <1>2, <1>3 DEF Leaves

LEMMA LeavesSet ==
    ASSUME NEW q, NEW n \in Nat, NEW value, NEW p, NEW v, q[n + 1] = Set(p, v)
    PROVE  Leaves(q, value, n + 1, p, v)
<1>1. n + 1 \in 0..(n + 1) /\ n + 1 # 0 /\ \A m \in (n + 1 + 1)..(n + 1) : FALSE
  OBVIOUS
<1> QED BY <1>1 DEF Leaves

LEMMA LeavesTaken ==
    ASSUME NEW q, NEW r, NEW n \in Nat \ {0}, NEW old, NEW new, NEW p, NEW v,
           \A m \in 1..(n - 1) : r[m] = q[m + 1],
           q[1] = Set(p, v) => new = v,
           q[1].name \notin {p, "FR"} => new = old,
           Leaves(q, old, n, p, v)
    PROVE  Leaves(r, new, n - 1, p, v)
<1>1. PICK k \in 0..n : /\ IF k = 0 THEN old = v ELSE q[k] = Set(p, v)
                        /\ \A m \in (k + 1)..n : q[m].name \notin {p, "FR"}
  BY DEF Leaves
<1>2. n - 1 \in Nat
  OBVIOUS
<1>3. CASE k = 0
  <2>1. new = v
    BY <1>1, <1>3
  <2>2. \A m \in 1..(n - 1) : r[m].name \notin {p, "FR"}
    BY <1>1, <1>3
  <2> QED BY <1>2, <2>1, <2>2 DEF Leaves
<1>4. CASE k = 1
  <2>1. new = v
    BY <1>1, <1>4
  <2>2. \A m \in 1..(n - 1) : r[m].name \notin {p, "FR"}
    BY <1>1, <1>4
  <2> QED BY <1>2, <2>1, <2>2 DEF Leaves
<1>5. CASE k > 1
  <2>1. k - 1 \in 1..(n - 1) /\ k - 1 \in 0..(n - 1) /\ k - 1 # 0
    BY <1>5
  <2>2. r[k - 1] = Set(p, v)
    BY <1>1, <1>5, <2>1
  <2>3. \A m \in (k - 1 + 1)..(n - 1) : r[m].name \notin {p, "FR"}
    <3> TAKE m \in (k - 1 + 1)..(n - 1)
    <3>1. m \in 1..(n - 1) /\ m + 1 \in (k + 1)..n
      BY <1>5
    <3> QED BY <1>1, <3>1
  <2> QED BY <2>1, <2>2, <2>3 DEF Leaves
<1> QED BY <1>3, <1>4, <1>5

(* The node takes the first command.                                       *)
LEMMA TakenLeaves ==
    ASSUME DialogTypes, NodeTakes, NEW p \in Param, NEW v, NEW n \in 1..Len(toNode),
           Leaves(toNode, ram[p], n, p, v)
    PROVE  Leaves(toNode', ram'[p], n - 1, p, v)
<1>1. toNode[1] = Set(p, v) => ram'[p] = v
  <2>1. toNode[1] = Set(p, v) => toNode[1].name = p /\ toNode[1].value = v
    BY DEF Set
  <2> QED BY <2>1, TakesIs, Names DEF DialogTypes
<1>2. toNode[1].name \notin {p, "FR"} => ram'[p] = ram[p]
  BY TakesIs DEF DialogTypes
<1>3. n \in Nat \ {0} /\ \A m \in 1..(n - 1) : toNode'[m] = toNode[m + 1]
  BY TakesIs
<1> QED BY <1>1, <1>2, <1>3, LeavesTaken

LEMMA TakenKeeps ==
    ASSUME DialogTypes, NodeTakes, NEW p, NEW n \in 1..Len(toNode), Keeps(toNode, n, p)
    PROVE  Keeps(toNode', n - 1, p)
<1>1. \A m \in (n - 1 + 1)..Len(toNode') : m \in 1..Len(toNode') /\ m + 1 \in (n + 1)..Len(toNode)
  BY TakesIs
<1> QED BY <1>1, TakesIs DEF Keeps

LEMMA TakenSaves ==
    ASSUME DialogTypes, NodeTakes, NEW p \in Param, NEW v, WillSave(p, v)
    PROVE  WillSave(p, v)'
<1>1. Len(toNode) \in Nat /\ Len(toNode) >= 1 /\ Len(toNode') = Len(toNode) - 1
  BY TakesIs
<1>2. CASE ram[p] = v /\ perm[p] = v /\ Keeps(toNode, 0, p)
  <2>1. toNode[1].name # p
    BY <1>1, <1>2 DEF Keeps
  <2>2. ram'[p] = v /\ perm'[p] = v
    BY <1>2, <2>1, TakesIs DEF DialogTypes
  <2>3. Keeps(toNode, 1, p)
    BY <1>1, <1>2 DEF Keeps
  <2>4. Keeps(toNode', 0, p)
    BY <1>1, <2>3, TakenKeeps
  <2> QED BY <2>2, <2>4 DEF WillSave
<1>3. CASE \E n \in 1..Len(toNode) :
              toNode[n].name = "WR" /\ Leaves(toNode, ram[p], n - 1, p, v) /\ Keeps(toNode, n, p)
  <2>1. PICK n \in 1..Len(toNode) :
              toNode[n].name = "WR" /\ Leaves(toNode, ram[p], n - 1, p, v) /\ Keeps(toNode, n, p)
    BY <1>3
  <2>2. Keeps(toNode', n - 1, p)
    BY <2>1, TakenKeeps
  <2>3. CASE n = 1
    <3>1. ram[p] = v
      BY <2>1, <2>3, LeavesNone
    <3>2. ram'[p] = v /\ perm'[p] = v
      BY <2>1, <2>3, <3>1, TakesIs
    <3> QED BY <2>2, <2>3, <3>2 DEF WillSave
  <2>4. CASE n > 1
    <3>1. n - 1 \in 1..Len(toNode) /\ n - 1 \in 1..Len(toNode')
      BY <1>1, <2>4
    <3>2. Leaves(toNode', ram'[p], n - 1 - 1, p, v)
      BY <2>1, <3>1, TakenLeaves
    <3>3. toNode'[n - 1].name = "WR"
      BY <2>1, <3>1, TakesIs
    <3> QED BY <2>2, <3>1, <3>2, <3>3 DEF WillSave
  <2> QED BY <2>3, <2>4
<1> QED BY <1>2, <1>3 DEF WillSave

(* A reset that is sent afterwards does no harm.                           *)
LEMMA ResetSaves ==
    ASSUME DialogTypes, Sends(Plain("FR")), ram' = ram, perm' = perm,
           NEW p \in Param, NEW v, WillSave(p, v)
    PROVE  WillSave(p, v)'
<1>1. CASE toNode' = toNode
  BY <1>1 DEF WillSave
<1>2. CASE toNode' # toNode
  <2>1. /\ Len(toNode') = Len(toNode) + 1 /\ Len(toNode) \in Nat
        /\ toNode'[Len(toNode) + 1].name # p
        /\ \A m \in 1..Len(toNode) : toNode'[m] = toNode[m]
    <3>1. Plain("FR") \in Item /\ Plain("FR").name = "FR" /\ "FR" # p
      BY ItemIs, Names DEF Plain
    <3> QED BY <1>2, <3>1, SendsIs
  <2>2. ASSUME NEW n \in 0..Len(toNode), Keeps(toNode, n, p)
        PROVE  Keeps(toNode', n, p)
    <3>1. \A m \in (n + 1)..Len(toNode') :
              m = Len(toNode) + 1 \/ (m \in 1..Len(toNode) /\ m \in (n + 1)..Len(toNode))
      BY <2>1
    <3> QED BY <2>1, <2>2, <3>1 DEF Keeps
  <2>3. CASE ram[p] = v /\ perm[p] = v /\ Keeps(toNode, 0, p)
    BY <2>1, <2>2, <2>3 DEF WillSave
  <2>4. CASE \E n \in 1..Len(toNode) :
                toNode[n].name = "WR" /\ Leaves(toNode, ram[p], n - 1, p, v) /\ Keeps(toNode, n, p)
    <3>1. PICK n \in 1..Len(toNode) :
                toNode[n].name = "WR" /\ Leaves(toNode, ram[p], n - 1, p, v) /\ Keeps(toNode, n, p)
      BY <2>4
    <3>2. n - 1 \in Nat /\ \A m \in 1..(n - 1) : m \in 1..Len(toNode)
      BY <2>1
    <3>3. Leaves(toNode', ram'[p], n - 1, p, v)
      BY <2>1, <3>1, <3>2, LeavesSame
    <3>4. n \in 1..Len(toNode') /\ n \in 0..Len(toNode)
      BY <2>1
    <3> QED BY <2>1, <2>2, <3>1, <3>3, <3>4 DEF WillSave
  <2> QED BY <2>3, <2>4 DEF WillSave
<1> QED BY <1>1, <1>2

LEMMA WrittenInit == Init => Written
<1> SUFFICES ASSUME Init, NEW p \in Param PROVE sent[p] = None
  BY DEF Written
<1> QED BY DEF Init

LEMMA WriteWritten == DialogTypes /\ Written /\ Write => Written'
<1> SUFFICES ASSUME DialogTypes, Written, Write, clean', NEW q \in Param, sent'[q] # None
             PROVE  changes' /\ Leaves(toNode', ram'[q], Len(toNode'), q, sent'[q])
  BY DEF Written, Write
<1>1. at \in 1..5 /\ Parameters[at] \in Param
  <2>1. at \in Nat \ {0}
    BY DEF DialogTypes
  <2>2. at <= 5
    BY Passes DEF Write
  <2> QED BY <2>1, <2>2, Passes
<1> DEFINE p == Parameters[at]
<1>2. pc = "write" /\ changes' = Changes(p) /\ ram' = ram
  BY DEF Write, nodeVars
<1>3. clean /\ sent[q] # None => changes /\ Leaves(toNode, ram[q], Len(toNode), q, sent[q])
  BY <1>2 DEF Written
<1>4. CASE Differs(p)
  <2>1. Sends(Set(p, shown[p])) /\ sent' = [sent EXCEPT ![p] = shown[p]]
    BY <1>4 DEF Write
  <2>2. Set(p, shown[p]) \in Item /\ Set(p, shown[p]).name = p
    BY <1>1, Names, ItemIs DEF DialogTypes, Set
  <2>3. /\ clean /\ Len(toNode') = Len(toNode) + 1 /\ Len(toNode) \in Nat
        /\ toNode'[Len(toNode) + 1] = Set(p, shown[p])
        /\ \A m \in 1..Len(toNode) : toNode'[m] = toNode[m]
    BY <1>2, <2>1, <2>2, SendsIs
  <2>4. changes'
    BY <1>2, <1>4 DEF Changes
  <2> HIDE DEF p
  <2>5. CASE q = p
    <3>1. sent'[q] = shown[p]
      BY <2>1, <2>5 DEF DialogTypes
    <3>2. Leaves(toNode', ram'[q], Len(toNode) + 1, q, sent'[q])
      BY <2>3, <2>5, <3>1, LeavesSet
    <3> QED BY <2>3, <2>4, <3>2
  <2>6. CASE q # p
    <3>1. sent'[q] = sent[q]
      BY <2>1, <2>6 DEF DialogTypes
    <3>2. toNode'[Len(toNode) + 1].name \notin {q, "FR"}
      BY <1>1, <2>2, <2>3, <2>6, Names DEF p
    <3>3. Leaves(toNode, ram[q], Len(toNode), q, sent[q])
      BY <1>3, <2>3, <3>1
    <3>4. Leaves(toNode', ram[q], Len(toNode) + 1, q, sent[q])
      BY <2>3, <3>2, <3>3, LeavesMore
    <3> QED BY <1>2, <2>3, <2>4, <3>1, <3>4
  <2> QED BY <2>5, <2>6
<1>5. CASE ~Differs(p)
  <2>1. sent' = sent /\ toNode' = toNode /\ clean' = clean
    BY <1>5 DEF Write
  <2>2. changes => changes'
    BY <1>2 DEF Changes
  <2> QED BY <1>2, <1>3, <2>1, <2>2
<1> QED BY <1>4, <1>5

LEMMA EndPassWritten == DialogTypes /\ Written /\ EndPass => Written'
<1> SUFFICES ASSUME DialogTypes, Written, EndPass, clean', NEW p \in Param, sent'[p] # None
             PROVE  WillSave(p, sent[p])'
  BY DEF Written, EndPass
<1>1. pc' = "idle" /\ ram' = ram /\ perm' = perm /\ sent' = sent
  BY DEF EndPass, nodeVars
<1>2. CASE pc # "write"
  <2>1. toNode' = toNode /\ clean' = clean
    BY <1>2 DEF EndPass
  <2> QED BY <1>1, <1>2, <2>1 DEF Written, WillSave
<1>3. CASE pc = "write"
  <2>1. clean
    BY <1>3, ItemIs, SendsIs DEF EndPass
  <2>2. changes /\ Leaves(toNode, ram[p], Len(toNode), p, sent[p])
    BY <1>1, <1>3, <2>1 DEF Written
  <2>3. /\ Len(toNode') = Len(toNode) + 1 /\ Len(toNode) \in Nat
        /\ toNode'[Len(toNode) + 1] = Plain("WR")
        /\ \A m \in 1..Len(toNode) : toNode'[m] = toNode[m]
    BY <1>3, <2>2, ItemIs, SendsIs DEF EndPass
  <2>4. Leaves(toNode', ram'[p], Len(toNode), p, sent'[p])
    BY <1>1, <2>2, <2>3, LeavesSame
  <2>5. Keeps(toNode', Len(toNode) + 1, p)
    BY <2>3 DEF Keeps
  <2>6. /\ Len(toNode) + 1 \in 1..Len(toNode') /\ Len(toNode) + 1 - 1 = Len(toNode)
        /\ toNode'[Len(toNode) + 1].name = "WR"
    BY <2>3 DEF Plain
  <2> DEFINE n == Len(toNode) + 1
  <2>7. /\ n \in 1..Len(toNode') /\ toNode'[n].name = "WR"
        /\ Leaves(toNode', ram'[p], n - 1, p, sent'[p]) /\ Keeps(toNode', n, p)
    BY <2>4, <2>5, <2>6
  <2> HIDE DEF n
  <2> QED BY <2>7 DEF WillSave
<1> QED BY <1>2, <1>3

LEMMA WrittenNext == DialogTypes /\ Written /\ [Next]_vars => Written'
<1> SUFFICES ASSUME DialogTypes, Written, [Next]_vars PROVE Written'
  OBVIOUS
<1> USE DEF windowVars, nodeVars, ghosts
<1>0. ASSUME /\ pc' # "write" /\ pc # "write" /\ clean' = clean /\ sent' = sent
             /\ toNode' = toNode /\ ram' = ram /\ perm' = perm
      PROVE  Written'
  BY <1>0 DEF Written, WillSave
<1>1. CASE Open
  BY <1>0, <1>1 DEF Open, on_configButton_clicked
<1>2. CASE Close
  BY <1>0, <1>2 DEF Close, configDialogDone
<1>3. CASE BeginRefresh
  BY <1>0, <1>3 DEF BeginRefresh, Begins
<1>4. CASE Refresh
  BY <1>0, <1>4 DEF Refresh
<1>5. CASE BeginWrite
  BY <1>5 DEF BeginWrite, Written
<1>6. CASE Write
  BY <1>6, WriteWritten
<1>7. CASE EndPass
  BY <1>7, EndPassWritten
<1>8. CASE SoftReset
  <2> SUFFICES ASSUME clean', NEW p \in Param, sent'[p] # None PROVE WillSave(p, sent[p])'
    BY <1>8 DEF SoftReset, Written
  <2>1. /\ pc = "idle" /\ Sends(Plain("FR")) /\ ram' = ram /\ perm' = perm /\ sent' = sent
    BY <1>8 DEF SoftReset
  <2>2. clean
    BY <2>1, ItemIs, SendsIs
  <2>3. WillSave(p, sent[p])
    BY <2>1, <2>2 DEF Written
  <2>4. ASSUME NEW v, v = sent[p] PROVE WillSave(p, v)'
    BY <2>1, <2>3, <2>4, ResetSaves
  <2> QED BY <2>1, <2>4 DEF WillSave
<1>9. CASE NodeTakes
  <2> SUFFICES ASSUME clean', NEW p \in Param, sent'[p] # None
               PROVE  IF pc' = "write"
                      THEN changes' /\ Leaves(toNode', ram'[p], Len(toNode'), p, sent'[p])
                      ELSE WillSave(p, sent[p])'
    BY DEF Written
  <2>1. pc' = pc /\ changes' = changes /\ sent' = sent /\ clean
    BY <1>9 DEF NodeTakes
  <2>2. CASE pc = "write"
    <3>1. changes /\ Leaves(toNode, ram[p], Len(toNode), p, sent[p])
      BY <2>1, <2>2 DEF Written
    <3>2. Len(toNode) \in 1..Len(toNode) /\ Len(toNode') = Len(toNode) - 1
      BY <1>9, TakesIs
    <3>3. Leaves(toNode', ram'[p], Len(toNode) - 1, p, sent[p])
      BY <1>9, <3>1, <3>2, TakenLeaves
    <3> QED BY <2>1, <2>2, <3>1, <3>2, <3>3
  <2>3. CASE pc # "write"
    <3>1. WillSave(p, sent[p])
      BY <2>1, <2>3 DEF Written
    <3>2. ASSUME NEW v, v = sent[p] PROVE WillSave(p, v)'
      BY <1>9, <3>1, <3>2, TakenSaves
    <3> QED BY <2>1, <2>3, <3>2 DEF WillSave
  <2> QED BY <2>2, <2>3
<1>10. CASE PowerFails
  <2> SUFFICES ASSUME clean', NEW p \in Param, sent'[p] # None
               PROVE  pc' # "write" /\ WillSave(p, sent[p])'
    BY DEF Written
  <2>1. /\ pc' = pc /\ sent' = sent /\ clean /\ pc # "write" /\ toNode = <<>> /\ toNode' = toNode
        /\ ram' = perm /\ perm' = perm
    BY <1>10 DEF PowerFails
  <2>2. WillSave(p, sent[p])
    BY <2>1 DEF Written
  <2>3. ram[p] = sent[p] /\ perm[p] = sent[p] /\ Keeps(toNode, 0, p)
    BY <2>1, <2>2 DEF WillSave
  <2> QED BY <2>1, <2>3 DEF WillSave
<1>11. CASE \E p \in Text, v \in Values : Edit(p, v)
  <2>1. PICK p \in Text, v \in Values : Edit(p, v)
    BY <1>11
  <2>2. /\ pc' = pc /\ changes' = changes /\ clean' = clean /\ sent' = sent
        /\ toNode' = toNode /\ ram' = ram /\ perm' = perm
    BY <2>1 DEF Edit
  <2> QED BY <2>2 DEF Written, WillSave
<1>12. CASE UNCHANGED vars
  BY <1>12 DEF vars, Written, WillSave
<1> QED BY <1>1, <1>2, <1>3, <1>4, <1>5, <1>6, <1>7, <1>8, <1>9, <1>10, <1>11, <1>12 DEF Next

-----------------------------------------------------------------------------
(* What the operator wants is sent by every pass that comes by.            *)

Wanted == WantsMarked /\ WantsSent

LEMMA WantedInit == Init => Wanted
<1> SUFFICES ASSUME Init, NEW p \in Text PROVE wants[p] = None
  BY DEF Wanted, WantsMarked, WantsSent
<1> QED BY DEF Init

LEMMA WantedNext == DialogTypes /\ Wanted /\ [Next]_vars => Wanted'
<1> SUFFICES ASSUME DialogTypes, Wanted, [Next]_vars PROVE Wanted'
  OBVIOUS
<1> USE DEF windowVars, nodeVars, ghosts
<1>0. WantsMarked /\ WantsSent
  BY DEF Wanted
<1>a. wants' = wants /\ modified' = modified /\ shown' = shown => WantsMarked'
  BY <1>0 DEF WantsMarked
<1>b. wants' = wants /\ edited' = edited /\ sent' = sent /\ pc # "write" /\ pc' # "write" => WantsSent'
  BY <1>0 DEF WantsSent, Passed
<1>c. wants' = wants /\ edited' = edited /\ sent' = sent /\ pc' = pc /\ at' = at => WantsSent'
  BY <1>0 DEF WantsSent, Passed
<1>d. Text = {"ID", "SP"}
  BY DEF Text
<1>1. CASE Open
  <2>1. \A p \in Text : wants'[p] = None
    BY <1>1 DEF Open
  <2> QED BY <2>1 DEF Wanted, WantsMarked, WantsSent
<1>2. CASE Close
  BY <1>2, <1>a, <1>b DEF Close, configDialogDone, Wanted
<1>3. CASE BeginRefresh
  BY <1>3, <1>a, <1>b DEF BeginRefresh, Begins, Wanted
<1>4. CASE Refresh
  <2>1. at \in 1..7 /\ Queries[at] \in Shown
    <3>1. at \in Nat \ {0}
      BY DEF DialogTypes
    <3>2. at <= 7
      BY <1>4, Passes DEF Refresh
    <3> QED BY <3>1, <3>2, Passes
  <2> DEFINE p == Queries[at]
  <2>2. /\ pc = "refresh" /\ pc' = pc /\ sent' = sent /\ edited' = edited
        /\ shown' = [shown EXCEPT ![p] = Failed(p)]
        /\ modified' = IF p = "ID" THEN [modified EXCEPT ![p] = FALSE] ELSE modified
        /\ wants' = IF p = "ID" THEN [wants EXCEPT ![p] = None] ELSE wants
    BY <1>4 DEF Refresh, AfterError
  <2>3. p \in Shown /\ "SP" \in Shown /\ "ID" \in Shown
    BY <2>1, Names
  <2> HIDE DEF p
  <2>4. shown'["SP"] = shown["SP"] /\ (p # "ID" => shown'["ID"] = shown["ID"])
    BY <2>2, <2>3 DEF Failed, DialogTypes
  <2>5. \A q \in Text : wants'[q] # None =>
            wants'[q] = wants[q] /\ modified'[q] = modified[q] /\ shown'[q] = shown[q]
    BY <1>d, <2>2, <2>4 DEF DialogTypes
  <2>6. WantsMarked'
    BY <1>0, <2>5 DEF WantsMarked
  <2>7. WantsSent'
    BY <1>0, <2>2, <2>5 DEF WantsSent, Passed
  <2> QED BY <2>6, <2>7 DEF Wanted
<1>5. CASE BeginWrite
  <2>1. pc' = "write" /\ at' = 1
    BY <1>5 DEF BeginWrite, Begins
  <2>2. \A p \in Text : \E i \in 1..Len(Parameters) : Parameters[i] = p
    BY <1>d, Passes
  <2>3. WantsSent'
    BY <2>1, <2>2 DEF WantsSent, Passed
  <2> QED BY <1>5, <1>a, <2>3 DEF BeginWrite, Wanted
<1>6. CASE Write
  <2>1. at \in 1..5 /\ Parameters[at] \in Param /\ at' = at + 1
    <3>1. at \in Nat \ {0}
      BY DEF DialogTypes
    <3>2. at <= 5 /\ at' = at + 1
      BY <1>6, Passes DEF Write
    <3> QED BY <3>1, <3>2, Passes
  <2> DEFINE p == Parameters[at]
  <2>2. pc = "write" /\ pc' = pc /\ shown' = shown /\ wants' = wants
    BY <1>6 DEF Write
  <2>3. /\ Differs(p) => /\ sent' = [sent EXCEPT ![p] = shown[p]]
                         /\ edited' = edited \ {p}
                         /\ modified' = IF p \in Text THEN [modified EXCEPT ![p] = modified[p]]
                                        ELSE modified
        /\ ~Differs(p) => sent' = sent /\ edited' = edited /\ modified' = modified
    BY <1>6 DEF Write, AfterSend
  <2>4. modified' = modified
    BY <2>3 DEF DialogTypes
  <2>5. WantsSent'
    <3> SUFFICES ASSUME NEW q \in Text, q \notin edited', wants[q] # None, Passed(q)'
                 PROVE  sent'[q] = wants[q]
      BY <2>2 DEF WantsSent
    <3>1. CASE q = p
      <4>1. modified[q] /\ shown[q] = wants[q]
        BY <1>0 DEF WantsMarked
      <4>2. Differs(p)
        BY <3>1, <4>1 DEF Differs
      <4> QED BY <2>1, <2>3, <3>1, <4>1, <4>2 DEF DialogTypes
    <3>2. CASE q # p
      <4>1. q \notin edited /\ sent'[q] = sent[q]
        <5>1. q \in Param /\ sent \in [Param -> Int]
          BY Names DEF DialogTypes
        <5> HIDE DEF p
        <5> QED BY <2>3, <3>2, <5>1
      <4>2. \A i \in 1..Len(Parameters) : Parameters[i] = q => i < at + 1 /\ i # at
        BY <2>1, <2>2, <3>2 DEF Passed
      <4>3. Passed(q)
        BY <2>1, <4>2, Passes DEF Passed
      <4> QED BY <1>0, <4>1, <4>3 DEF WantsSent
    <3> QED BY <3>1, <3>2
  <2> QED BY <1>a, <2>2, <2>4, <2>5 DEF Wanted
<1>7. CASE EndPass
  <2>1. /\ pc' = "idle" /\ wants' = wants /\ edited' = edited /\ sent' = sent
        /\ pc = "write" => at > Len(Parameters)
    BY <1>7 DEF EndPass
  <2>2. at \in Nat /\ Len(Parameters) = 5
    BY Passes DEF DialogTypes
  <2>3. \A p \in Text : Passed(p)
    BY <2>1, <2>2 DEF Passed
  <2>4. WantsSent'
    BY <1>0, <2>1, <2>3 DEF WantsSent
  <2> QED BY <1>7, <1>a, <2>4 DEF EndPass, Wanted
<1>8. CASE SoftReset
  BY <1>8, <1>a, <1>c DEF SoftReset, Wanted
<1>9. CASE NodeTakes
  BY <1>9, <1>a, <1>c DEF NodeTakes, Wanted
<1>10. CASE PowerFails
  BY <1>10, <1>a, <1>c DEF PowerFails, Wanted
<1>11. CASE \E p \in Text, v \in Values : Edit(p, v)
  <2>1. PICK p \in Text, v \in Values : Edit(p, v)
    BY <1>11
  <2>2. /\ pc' = pc /\ at' = at /\ sent' = sent
        /\ shown' = [shown EXCEPT ![p] = v] /\ modified' = [modified EXCEPT ![p] = TRUE]
        /\ wants' = [wants EXCEPT ![p] = v] /\ edited' = edited \cup {p}
    BY <2>1 DEF Edit
  <2>3. p \in Shown
    BY Names
  <2>4. WantsMarked'
    BY <1>0, <2>2, <2>3, Names DEF WantsMarked, DialogTypes
  <2>5. WantsSent'
    BY <1>0, <2>2 DEF WantsSent, Passed, DialogTypes
  <2> QED BY <2>4, <2>5 DEF Wanted
<1>12. CASE UNCHANGED vars
  BY <1>12, <1>a, <1>c DEF vars, Wanted
<1> QED BY <1>1, <1>2, <1>3, <1>4, <1>5, <1>6, <1>7, <1>8, <1>9, <1>10, <1>11, <1>12 DEF Next

-----------------------------------------------------------------------------
DialogInv == DialogTypes /\ Entered /\ Written /\ Wanted

(* The window's and the node's state have their types, what is marked or   *)
(* on its way was entered, and what was sent reaches the saved values: the *)
(* invariant the theorems below follow from.                               *)
THEOREM DialogInvariant == Spec => []DialogInv
<1>1. Init => DialogInv
  BY TypesInit, EnteredInit, WrittenInit, WantedInit DEF DialogInv
<1>2. DialogInv /\ [Next]_vars => DialogInv'
  BY TypesNext, EnteredNext, WrittenNext, WantedNext DEF DialogInv
<1> QED BY <1>1, <1>2, PTL DEF Spec

(* on_refreshDisplay_clicked and on_writeValuesButton_clicked change no    *)
(* text and no channel verification that the operator has not entered,     *)
(* however often a refresh fails.                                          *)
THEOREM NothingInvented == Spec => []OnlyEntered
<1>1. DialogInv => OnlyEntered
  BY DEF DialogInv, Entered
<1> QED BY <1>1, DialogInvariant, PTL

LEMMA SavedAtRest ==
    ASSUME DialogTypes, Written, AtRest, clean, NEW p \in Param, sent[p] # None
    PROVE  ram[p] = sent[p] /\ perm[p] = sent[p]
<1>1. WillSave(p, sent[p])
  BY DEF Written, AtRest
<1> QED BY <1>1 DEF WillSave, AtRest

(* The values that a write has sent, if nothing of it is lost, are in the  *)
(* node and in its permanent memory once it has taken them, and stay there *)
(* whatever resets, refreshes and edits follow, until the next write.      *)
THEOREM WritesAreSaved == Spec => []Saved
<1>1. DialogInv => Saved
  BY SavedAtRest DEF DialogInv, Saved
<1> QED BY <1>1, DialogInvariant, PTL

(* A write of which nothing is lost makes good for those that failed: what *)
(* the operator has typed stays marked, so that it is sent again.          *)
THEOREM FailuresMadeGood == Spec => []Retried
<1>1. DialogInv => Retried
  <2> SUFFICES ASSUME DialogInv, AtRest, clean, NEW p \in Text \ edited, wants[p] # None
               PROVE  ram[p] = wants[p] /\ perm[p] = wants[p]
    BY DEF Retried
  <2>1. Passed(p)
    BY DEF Passed, AtRest
  <2>2. sent[p] = wants[p]
    BY <2>1 DEF DialogInv, Wanted, WantsSent
  <2> QED BY <2>2, SavedAtRest, Names DEF DialogInv
<1> QED BY <1>1, DialogInvariant, PTL

=============================================================================
