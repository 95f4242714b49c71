------------------------ MODULE CommandSessionProofs ------------------------
(***************************************************************************)
(* Proofs about CommandSession for any windows, strict or not, any kinds   *)
(* of command, any patience and any bounds: that no answer is handed out   *)
(* twice when no query is served between the flag and the buffer of an     *)
(* answer, that a window then gets the answer to its own command if the    *)
(* operator heeds the manual, and that it notices it.                      *)
(***************************************************************************)
EXTENDS CommandSession, SequenceTheorems, TLAPS

(* The numbers of the commands, none and that of a buffer never filled.    *)
Label == 0..(MaxCommands + 1)

Item == [poll : BOOLEAN, kind : Kind, id : Label]

Place == [pc : {"idle", "command", "poll"}, kind : Kind \cup {AtRest.kind},
          id : 0..MaxCommands, response : Label, count : Nat]

SessionTypes == /\ rcvd \in [Kind -> BOOLEAN]
                /\ data \in [Kind -> Label]
                /\ copying \subseteq Item
                /\ answering \subseteq [window : Window, kind : Kind]
                /\ \A query, other \in answering : query = other
                /\ pending \subseteq Item
                /\ request \in [Window -> Seq(Item)]
                /\ reply \in [Window -> Seq(Item)]
                /\ window \in [Window -> Place]
                /\ \A w \in Window : window[w].pc # "idle" => window[w].kind \in Kind
                /\ commands \in 0..MaxCommands
                /\ handed \in [Id -> Nat]

(* Command i waits in a queue of requests, and no command does so twice.   *)
Waits(q, i) == \E m \in 1..Len(q) : ~q[m].poll /\ q[m].id = i

Once(q) == \A m, n \in 1..Len(q) : ~q[m].poll /\ ~q[n].poll /\ q[m].id = q[n].id => m = n

Pending(i) == \E item \in pending : item.id = i

Copying(i) == \E item \in copying : item.id = i

Kept(i) == \E k \in Kind : data[k] = i

(* A command, or its answer, is in one place: in the request that a window *)
(* has sent, on its way to the node and back, in the hands of a callback,  *)
(* or in the buffer of its kind, where it stays also when it is read.      *)
InOneRequest ==
    /\ \A w \in Window : Once(request[w])
    /\ \A w, v \in Window, i \in Label : Waits(request[w], i) /\ Waits(request[v], i) => w = v

Fresh(i) == i \in 1..commands /\ ~Copying(i) /\ ~Kept(i) /\ handed[i] = 0

RequestsFresh ==
    \A w \in Window, i \in Label : Waits(request[w], i) => Fresh(i) /\ ~Pending(i)

PendingOnce == /\ \A item \in pending : ~item.poll /\ Fresh(item.id)
               /\ \A p, q \in pending : p.id = q.id => p = q

CopyingOnce == /\ \A item \in copying : item.id \in 1..commands /\ ~Kept(item.id)
               /\ \A p, q \in copying : p.id = q.id => p = q

KeptOnce == /\ \A k \in Kind : data[k] \in 1..commands \cup {Blank}
            /\ \A j, k \in Kind : data[j] = data[k] /\ data[k] # Blank => j = k

HandedSoFar == \A i \in Id : handed[i] > 0 => i <= commands

Sole == InOneRequest /\ RequestsFresh /\ PendingOnce /\ CopyingOnce /\ KeptOnce /\ HandedSoFar

(* An answer that main will read, or has begun to read, and that was not   *)
(* handed over: main has seen the flag or will, and no callback is between *)
(* the flag and the buffer.                                                *)
FillingOf(k) == \E item \in copying : item.kind = k

ReadingOf(k) == \E query \in answering : query.kind = k

Live(k) == (rcvd[k] /\ ~FillingOf(k)) \/ ReadingOf(k)

Whole == /\ \A k \in Kind : Live(k) => data[k] \in Id /\ handed[data[k]] = 0
         /\ \A k \in Kind : FillingOf(k) => rcvd[k] /\ ~ReadingOf(k)
         /\ \A k \in Kind : ReadingOf(k) => ~rcvd[k]
         /\ \A item \in copying : handed[item.id] = 0
         /\ \A i \in Id : handed[i] \in {0, 1}

Untorn == "torn" \notin blamed => Whole

-----------------------------------------------------------------------------
(* Queues.                                                                 *)

LEMMA RestIs ==
    ASSUME NEW S, NEW q \in Seq(S), NEW r \in Rests(q)
    PROVE  /\ Len(q) >= 1 /\ Head(q) = q[1] /\ q[1] \in S /\ r \in Seq(S)
           /\ \E n \in 1..Len(q) : /\ Len(r) = Len(q) - n
                                   /\ \A m \in 1..Len(r) : r[m] = q[m + n] /\ m + n \in 1..Len(q)
<1>1. PICK n \in 1..Len(q) : r = SubSeq(q, n + 1, Len(q))
  BY DEF Rests
<1>2. Len(q) \in Nat /\ n \in Nat /\ n <= Len(q)
  OBVIOUS
<1>3. Len(q) >= 1 /\ Head(q) = q[1] /\ q[1] \in S
  BY <1>2
<1>4. r \in Seq(S) /\ Len(r) = Len(q) - n
  BY <1>1, <1>2
<1>5. \A m \in 1..Len(r) : r[m] = q[m + n] /\ m + n \in 1..Len(q)
  BY <1>1, <1>2, <1>4
<1> QED BY <1>3, <1>4, <1>5

LEMMA RestWaits ==
    ASSUME NEW q \in Seq(Item), Once(q), NEW r \in Rests(q)
    PROVE  /\ Once(r)
           /\ \A i : Waits(r, i) => Waits(q, i)
           /\ ~q[1].poll => Waits(q, q[1].id) /\ ~Waits(r, q[1].id)
<1>1. PICK n \in 1..Len(q) : /\ Len(r) = Len(q) - n
                             /\ \A m \in 1..Len(r) : r[m] = q[m + n] /\ m + n \in 1..Len(q)
  BY RestIs
<1>2. Len(q) \in Nat /\ Len(q) >= 1 /\ n \in Nat /\ n >= 1 /\ Len(r) \in Nat
  BY <1>1
<1>3. Once(r)
  <2> SUFFICES ASSUME NEW m \in 1..Len(r), NEW l \in 1..Len(r), ~r[m].poll, ~r[l].poll, r[m].id = r[l].id
               PROVE  m = l
    BY DEF Once
  <2>1. m + n = l + n
    BY <1>1 DEF Once
  <2> QED BY <1>2, <2>1
<1>4. \A i : Waits(r, i) => Waits(q, i)
  BY <1>1 DEF Waits
<1>5. ~q[1].poll => Waits(q, q[1].id) /\ ~Waits(r, q[1].id)
  <2> SUFFICES ASSUME ~q[1].poll PROVE Waits(q, q[1].id) /\ ~Waits(r, q[1].id)
    OBVIOUS
  <2>1. 1 \in 1..Len(q)
    BY <1>2
  <2>2. ASSUME NEW m \in 1..Len(r), ~r[m].poll, r[m].id = q[1].id PROVE FALSE
    <3>1. m + n = 1
      BY <1>1, <2>1, <2>2 DEF Once
    <3> QED BY <1>2, <3>1
  <2> QED BY <2>1, <2>2 DEF Waits
<1> QED BY <1>3, <1>4, <1>5

LEMMA AppendIs ==
    ASSUME NEW S, NEW q \in Seq(S), NEW item \in S
    PROVE  /\ Append(q, item) \in Seq(S) /\ Len(Append(q, item)) = Len(q) + 1 /\ Len(q) \in Nat
           /\ Append(q, item)[Len(q) + 1] = item
           /\ \A m \in 1..Len(q) : Append(q, item)[m] = q[m]
OBVIOUS

LEMMA AppendWaits ==
    ASSUME NEW q \in Seq(Item), NEW item \in Item
    PROVE  /\ \A i : Waits(Append(q, item), i) => Waits(q, i) \/ (~item.poll /\ item.id = i)
           /\ Once(q) /\ (item.poll \/ ~Waits(q, item.id)) => Once(Append(q, item))
<1> DEFINE r == Append(q, item)
<1>1. /\ Len(r) = Len(q) + 1 /\ Len(q) \in Nat /\ r[Len(q) + 1] = item
      /\ \A m \in 1..Len(q) : r[m] = q[m]
  BY AppendIs
<1> HIDE DEF r
<1>2. \A m \in 1..Len(r) : m \in 1..Len(q) \/ m = Len(q) + 1
  BY <1>1
<1>3. \A i : Waits(r, i) => Waits(q, i) \/ (~item.poll /\ item.id = i)
  BY <1>1, <1>2 DEF Waits
<1>4. Once(q) /\ (item.poll \/ ~Waits(q, item.id)) => Once(r)
  BY <1>1, <1>2 DEF Once, Waits
<1> QED BY <1>3, <1>4 DEF r

-----------------------------------------------------------------------------
(* What every action leaves well typed.                                    *)

LEMMA LabelsAre ==
    /\ MaxCommands \in Nat /\ NoId = 0 /\ Blank = MaxCommands + 1 /\ Id = 1..MaxCommands
    /\ NoId \in 0..MaxCommands /\ NoId \in Label /\ NoId \notin Id
    /\ Blank \in Label /\ Blank \notin Id /\ Id \subseteq Label
    /\ 0..MaxCommands \subseteq Label /\ \A i \in 0..MaxCommands : i # NoId => i \in Id
BY SessionAssumption DEF NoId, Blank, Id, Label

LEMMA PullIs ==
    ASSUME SessionTypes, NEW w \in Window, Pull(w)
    PROVE  /\ request' \in [Window -> Seq(Item)]
           /\ Head(request[w]) = request[w][1] /\ request[w][1] \in Item
           /\ request'[w] \in Rests(request[w])
           /\ \A v \in Window : v # w => request'[v] = request[v]
<1>1. request \in [Window -> Seq(Item)] /\ request[w] \in Seq(Item)
  BY DEF SessionTypes
<1>2. PICK rest \in Rests(request[w]) : request' = [request EXCEPT ![w] = rest]
  BY DEF Pull
<1>3. rest \in Seq(Item) /\ Head(request[w]) = request[w][1] /\ request[w][1] \in Item
  BY <1>1, RestIs
<1> QED BY <1>1, <1>2, <1>3

LEMMA AnswerIs ==
    ASSUME SessionTypes, NEW w \in Window, NEW item \in Item, Answer(w, item)
    PROVE  reply' \in [Window -> Seq(Item)]
BY DEF SessionTypes, Answer

LEMMA SendsIs ==
    ASSUME SessionTypes, NEW w \in Window, NEW item \in Item, Sends(w, item)
    PROVE  /\ request' \in [Window -> Seq(Item)] /\ reply' = reply
           /\ request'[w] \in {request[w], Append(request[w], item)}
           /\ \A v \in Window : v # w => request'[v] = request[v]
BY DEF SessionTypes, Sends

LEMMA AtRestIs == AtRest \in Place /\ AtRest.pc = "idle" /\ AtRest.response = NoId
BY LabelsAre DEF AtRest, Place

LEMMA LeaveTypes ==
    ASSUME SessionTypes, NEW w \in Window, NEW failed \in BOOLEAN, Leave(w, failed)
    PROVE  SessionTypes'
<1>1. /\ UNCHANGED <<rcvd, data, copying, answering, pending, request, reply, commands, handed>>
      /\ window' = [window EXCEPT ![w] = AtRest]
  BY DEF Leave, baseVars, bufferVars, lineVars
<1>2. window' \in [Window -> Place] /\ \A v \in Window : window'[v].pc # "idle" => window'[v].kind \in Kind
  BY <1>1, AtRestIs DEF SessionTypes
<1> QED BY <1>1, <1>2 DEF SessionTypes

LEMMA TypesInit == Init => SessionTypes
<1> SUFFICES ASSUME Init PROVE SessionTypes
  OBVIOUS
<1>1. window \in [Window -> Place] /\ \A w \in Window : window[w].pc = "idle"
  BY AtRestIs DEF Init
<1>2. /\ data \in [Kind -> Label] /\ handed \in [Id -> Nat] /\ commands \in 0..MaxCommands
      /\ rcvd \in [Kind -> BOOLEAN]
  BY LabelsAre DEF Init
<1>3. request \in [Window -> Seq(Item)] /\ reply \in [Window -> Seq(Item)]
  BY DEF Init
<1>4. copying = {} /\ answering = {} /\ pending = {}
  BY DEF Init
<1> QED BY <1>1, <1>2, <1>3, <1>4 DEF SessionTypes

(* What the base does on a query: it has nothing, or it resets the flag,   *)
(* and reads the buffer later.                                             *)
NoAnswer(w, k) == /\ k \in Kind /\ request[w][1].kind = k /\ request[w][1].poll /\ answering = {}
                  /\ Pull(w) /\ Answer(w, [poll |-> TRUE, kind |-> k, id |-> NoId])

Begins(w, k) == /\ k \in Kind /\ request[w][1].kind = k /\ request[w][1].poll /\ answering = {}
                /\ Pull(w) /\ rcvd[k]
                /\ rcvd' = [rcvd EXCEPT ![k] = FALSE]
                /\ answering' = {[window |-> w, kind |-> k]}
                /\ FillingOf(k) => "torn" \in blamed'

Hands(w, k, id) == /\ k \in Kind /\ id \in Label /\ [window |-> w, kind |-> k] \in answering
                   /\ id = data[k] \/ \E item \in copying : item.kind = k /\ item.id = id
                   /\ Answer(w, [poll |-> TRUE, kind |-> k, id |-> id])
                   /\ handed' = [i \in Id |-> IF i = id THEN handed[i] + 1 ELSE handed[i]]
                   /\ answering' = {}

LEMMA PollInVainIs ==
    ASSUME SessionTypes, NEW w \in Window, PollInVain(w)
    PROVE  \E k \in Kind : NoAnswer(w, k)
<1>1. PICK item \in Item : item = Head(request[w]) /\ item = request[w][1]
  BY PullIs DEF PollInVain, Query
<1>2. item.kind \in Kind
  BY <1>1 DEF Item
<1>3. NoAnswer(w, item.kind)
  BY <1>1, <1>2 DEF PollInVain, Query, NoAnswer, Reply
<1> QED BY <1>2, <1>3

LEMMA HandlePollIs ==
    ASSUME SessionTypes, NEW w \in Window, HandlePoll(w)
    PROVE  \E k \in Kind : Begins(w, k)
<1>1. PICK item \in Item : item = Head(request[w]) /\ item = request[w][1]
  BY PullIs DEF HandlePoll, Query
<1>2. PICK k \in Kind : k = item.kind
  BY <1>1 DEF Item
<1>3. /\ request[w][1].kind = k /\ request[w][1].poll /\ answering = {} /\ Pull(w) /\ rcvd[k]
      /\ rcvd' = [rcvd EXCEPT ![k] = FALSE]
      /\ answering' = {[window |-> w, kind |-> k]}
      /\ blamed' = IF Filling(k) # {} THEN blamed \cup {"torn"} ELSE blamed
  BY <1>1, <1>2 DEF HandlePoll, Query, Slot, FlagAfterPoll
<1>4. FillingOf(k) => Filling(k) # {}
  BY DEF FillingOf, Filling, Slot
<1> QED BY <1>3, <1>4 DEF Begins

LEMMA HandOverIs ==
    ASSUME SessionTypes, NEW w \in Window, HandOver(w)
    PROVE  \E k \in Kind : \E id \in Label : Hands(w, k, id)
<1>1. PICK query \in answering, id \in Id \cup {Blank} :
          /\ query.window = w /\ id \in Readable(Slot(query.kind))
          /\ Reply(w, query.kind, id)
          /\ handed' = [i \in Id |-> IF i = id THEN handed[i] + 1 ELSE handed[i]]
  BY DEF HandOver
<1>2. PICK k \in Kind : k = query.kind /\ query = [window |-> w, kind |-> k]
  BY <1>1 DEF SessionTypes
<1>3. id = data[k] \/ \E item \in copying : item.kind = k /\ item.id = id
  BY <1>1, <1>2 DEF Readable, Filling, Slot
<1>4. id \in Label
  BY LabelsAre
<1> QED BY <1>1, <1>2, <1>3, <1>4 DEF Hands, Reply, HandOver

LEMMA ReplyItem ==
    ASSUME NEW k \in Kind, NEW id \in Label
    PROVE  [poll |-> TRUE, kind |-> k, id |-> id] \in Item
BY DEF Item

LEMMA TypesBase ==
    ASSUME SessionTypes, NEW w \in Window, Handle(w)
    PROVE  SessionTypes'
<1>1. CASE HandleCommand(w)
  <2>1. Pull(w) /\ UNCHANGED <<rcvd, data, copying, answering, window, commands, handed>>
    BY <1>1 DEF HandleCommand, ghostVars, bufferVars
  <2>2. request' \in [Window -> Seq(Item)] /\ Head(request[w]) \in Item
    BY <2>1, PullIs
  <2>3. pending' \subseteq Item
    BY <1>1, <2>2 DEF HandleCommand, SessionTypes
  <2>4. reply' \in [Window -> Seq(Item)]
    <3>1. [Head(request[w]) EXCEPT !.id = NoId] \in Item
      BY <2>2, LabelsAre DEF Item
    <3> QED BY <3>1, <1>1, AnswerIs DEF HandleCommand
  <2> QED BY <2>1, <2>2, <2>3, <2>4 DEF SessionTypes
<1>2. CASE PollInVain(w)
  <2>1. PICK k \in Kind : NoAnswer(w, k)
    BY <1>2, PollInVainIs
  <2>2. request' \in [Window -> Seq(Item)]
    BY <2>1, PullIs DEF NoAnswer
  <2>3. reply' \in [Window -> Seq(Item)]
    BY <2>1, AnswerIs, ReplyItem, LabelsAre DEF NoAnswer
  <2>4. UNCHANGED <<rcvd, data, copying, answering, pending, window, commands, handed>>
    BY <1>2 DEF PollInVain, ghostVars, bufferVars
  <2> QED BY <2>2, <2>3, <2>4 DEF SessionTypes
<1>3. CASE HandlePoll(w)
  <2>1. PICK k \in Kind : Begins(w, k)
    BY <1>3, HandlePollIs
  <2>2. request' \in [Window -> Seq(Item)]
    BY <2>1, PullIs DEF Begins
  <2>3. UNCHANGED <<data, copying, pending, reply, window, commands, handed>>
    BY <1>3 DEF HandlePoll
  <2>4. rcvd' \in [Kind -> BOOLEAN]
    BY <2>1 DEF Begins, SessionTypes
  <2>5. answering' \subseteq [window : Window, kind : Kind] /\ \A query, other \in answering' : query = other
    BY <2>1 DEF Begins
  <2> QED BY <2>2, <2>3, <2>4, <2>5 DEF SessionTypes
<1>4. CASE HandOver(w)
  <2>1. PICK k \in Kind, id \in Label : Hands(w, k, id)
    BY <1>4, HandOverIs
  <2>2. reply' \in [Window -> Seq(Item)]
    BY <2>1, AnswerIs, ReplyItem DEF Hands
  <2>3. UNCHANGED <<rcvd, data, copying, pending, request, window, commands>>
    BY <1>4 DEF HandOver
  <2>4. handed' \in [Id -> Nat] /\ answering' = {}
    BY <2>1 DEF Hands, SessionTypes
  <2> QED BY <2>2, <2>3, <2>4 DEF SessionTypes
<1> QED BY <1>1, <1>2, <1>3, <1>4 DEF Handle

LEMMA TypesNode ==
    ASSUME SessionTypes, NEW item \in pending, NodeAnswers(item) \/ NodeSilent(item)
    PROVE  SessionTypes'
<1>1. item \in Item /\ pending' = pending \ {item}
      /\ UNCHANGED <<data, answering, request, reply, window, commands, handed>>
  BY DEF SessionTypes, NodeAnswers, NodeSilent, lineVars, ghostVars, bufferVars
<1>2. copying' \subseteq Item
  BY <1>1 DEF SessionTypes, NodeAnswers, NodeSilent, bufferVars
<1>3. rcvd' \in [Kind -> BOOLEAN]
  BY <1>1 DEF SessionTypes, NodeAnswers, NodeSilent, Slot, bufferVars
<1> QED BY <1>1, <1>2, <1>3 DEF SessionTypes

LEMMA FillTypes ==
    ASSUME SessionTypes, NEW item \in copying, FillBuffer(item)
    PROVE  SessionTypes'
<1>1. item \in Item /\ copying' = copying \ {item} /\ data' = [data EXCEPT ![item.kind] = item.id]
      /\ UNCHANGED <<rcvd, answering, pending, request, reply, window, commands, handed>>
  BY DEF SessionTypes, FillBuffer, lineVars, ghostVars, Slot
<1>2. item.id \in Label
  BY <1>1 DEF Item
<1>3. data' \in [Kind -> Label]
  BY <1>1, <1>2 DEF SessionTypes
<1> QED BY <1>1, <1>3 DEF SessionTypes

LEMMA TypesEnds == ASSUME SessionTypes, BaseEnds PROVE SessionTypes'
<1>1. /\ rcvd' = [k \in Kind |-> FALSE] /\ data' = [k \in Kind |-> Blank]
      /\ copying' = {} /\ answering' = {}
      /\ request' = [w \in Window |-> <<>>]
      /\ UNCHANGED <<pending, window, commands, handed>>
  BY DEF BaseEnds
<1>2. PICK lost \in SUBSET Window : reply' = [w \in Window |-> IF w \in lost THEN <<>> ELSE reply[w]]
  BY DEF BaseEnds
<1>3. reply' \in [Window -> Seq(Item)]
  BY <1>2 DEF SessionTypes
<1>4. data' \in [Kind -> Label] /\ rcvd' \in [Kind -> BOOLEAN] /\ request' \in [Window -> Seq(Item)]
  BY <1>1, LabelsAre
<1> QED BY <1>1, <1>3, <1>4 DEF SessionTypes

LEMMA ConnectTypes == ASSUME SessionTypes, NEW w \in Window, Connect(w) PROVE SessionTypes'
<1>1. reply' = [reply EXCEPT ![w] = <<>>]
      /\ UNCHANGED <<rcvd, data, copying, answering, pending, request, window, commands, handed>>
  BY DEF Connect, baseVars, bufferVars, ghostVars
<1>2. reply' \in [Window -> Seq(Item)]
  BY <1>1 DEF SessionTypes
<1> QED BY <1>1, <1>2 DEF SessionTypes

LEMMA ClickTypes ==
    ASSUME SessionTypes, NEW w \in Window, NEW k \in Kind, Click(w, k)
    PROVE  SessionTypes'
<1>1. /\ commands < MaxCommands /\ commands' = commands + 1
      /\ window' = [window EXCEPT ![w] = [window[w] EXCEPT !.pc = "command", !.kind = k,
                                                           !.id = commands + 1]]
      /\ Sends(w, [poll |-> FALSE, kind |-> k, id |-> commands + 1])
      /\ UNCHANGED <<rcvd, data, copying, answering, pending, handed>>
  BY DEF Click, baseVars, bufferVars
<1>2. commands + 1 \in 0..MaxCommands /\ commands' \in 0..MaxCommands
  BY <1>1, SessionAssumption DEF SessionTypes
<1>3. [poll |-> FALSE, kind |-> k, id |-> commands + 1] \in Item
  BY <1>2, LabelsAre DEF Item
<1>4. request' \in [Window -> Seq(Item)] /\ reply' = reply
  BY <1>1, <1>3, SendsIs
<1>5. window[w] \in Place
  BY DEF SessionTypes
<1>6. [window[w] EXCEPT !.pc = "command", !.kind = k, !.id = commands + 1] \in Place
  BY <1>2, <1>5 DEF Place
<1>7. window' \in [Window -> Place] /\ \A v \in Window : window'[v].pc # "idle" => window'[v].kind \in Kind
  <2>1. window' \in [Window -> Place]
    BY <1>1, <1>6 DEF SessionTypes
  <2>2. window'[w].kind = k
    BY <1>1, <1>5 DEF SessionTypes, Place
  <2>3. \A v \in Window : v # w => window'[v] = window[v]
    BY <1>1 DEF SessionTypes
  <2> QED BY <2>1, <2>2, <2>3 DEF SessionTypes
<1> QED BY <1>1, <1>2, <1>4, <1>7 DEF SessionTypes

LEMMA ReadTypes == ASSUME SessionTypes, NEW w \in Window, readXbeeProcess(w) PROVE SessionTypes'
<1>1. PICK rest \in Rests(reply[w]) : reply' = [reply EXCEPT ![w] = rest]
  BY DEF readXbeeProcess
<1>2. rest \in Seq(Item) /\ Head(reply[w]) = reply[w][1] /\ reply[w][1] \in Item
  <2>1. reply[w] \in Seq(Item)
    BY DEF SessionTypes
  <2> QED BY <2>1, RestIs
<1>3. reply' \in [Window -> Seq(Item)]
  BY <1>1, <1>2 DEF SessionTypes
<1>4. window' = window \/ window' = [window EXCEPT ![w].response = Head(reply[w]).id]
  BY DEF readXbeeProcess, Noted
<1>5. Head(reply[w]).id \in Label
  BY <1>2 DEF Item
<1>6. window' \in [Window -> Place] /\ \A v \in Window : window'[v].pc # "idle" => window'[v].kind \in Kind
  <2>1. CASE window' = window
    BY <2>1 DEF SessionTypes
  <2>2. CASE window' = [window EXCEPT ![w].response = Head(reply[w]).id]
    <3>1. /\ [window[w] EXCEPT !.response = Head(reply[w]).id] \in Place
          /\ [window[w] EXCEPT !.response = Head(reply[w]).id].pc = window[w].pc
          /\ [window[w] EXCEPT !.response = Head(reply[w]).id].kind = window[w].kind
      BY <1>5 DEF SessionTypes, Place
    <3> QED BY <2>2, <3>1 DEF SessionTypes
  <2> QED BY <1>4, <2>1, <2>2
<1>7. UNCHANGED <<rcvd, data, copying, answering, pending, request, commands, handed>>
  BY DEF readXbeeProcess, baseVars, bufferVars, ghostVars
<1> QED BY <1>3, <1>6, <1>7 DEF SessionTypes

(* A window that sends a query for the answer to its command.              *)
LEMMA PollTypes ==
    ASSUME SessionTypes, NEW w \in Window, BeginPolls(w) \/ PollAgain(w)
    PROVE  /\ SessionTypes' /\ reply' = reply
           /\ window'[w].pc = "poll" /\ window'[w].kind = window[w].kind /\ window'[w].id = window[w].id
           /\ window'[w].response = NoId /\ window[w].pc # "idle"
           /\ \A v \in Window : v # w => window'[v] = window[v]
           /\ Polls(w, window[w].kind)
<1>2. window[w].pc # "idle" /\ Polls(w, window[w].kind)
      /\ UNCHANGED <<rcvd, data, copying, answering, pending, commands, handed>>
  BY DEF BeginPolls, PollAgain, Resumed, baseVars, bufferVars, ghostVars
<1>3. [poll |-> TRUE, kind |-> window[w].kind, id |-> NoId] \in Item
  BY <1>2, ReplyItem, LabelsAre DEF SessionTypes
<1>4. request' \in [Window -> Seq(Item)] /\ reply' = reply
  BY <1>2, <1>3, SendsIs DEF Polls
<1>5. PICK p \in Place : /\ window' = [window EXCEPT ![w] = p] /\ p.pc = "poll"
                         /\ p.kind = window[w].kind /\ p.id = window[w].id /\ p.response = NoId
  <2>1. window[w] \in Place
    BY DEF SessionTypes
  <2>2. CASE BeginPolls(w)
    <3> DEFINE p == [window[w] EXCEPT !.pc = "poll", !.response = NoId]
    <3>1. window' = [window EXCEPT ![w] = p]
      BY <2>2 DEF BeginPolls, SessionTypes
    <3>2. /\ p \in Place /\ p.pc = "poll" /\ p.kind = window[w].kind /\ p.id = window[w].id
          /\ p.response = NoId
      BY <2>1, LabelsAre DEF Place
    <3> HIDE DEF p
    <3> QED BY <3>1, <3>2
  <2>3. CASE PollAgain(w)
    <3> DEFINE p == [window[w] EXCEPT !.count = IF @ <= Patience THEN @ + 1 ELSE @]
    <3>1. window' = [window EXCEPT ![w] = p]
      BY <2>3 DEF PollAgain, SessionTypes
    <3>2. p \in Place /\ p.pc = window[w].pc /\ p.kind = window[w].kind /\ p.id = window[w].id
          /\ p.response = window[w].response
      BY <2>1 DEF Place
    <3>3. window[w].pc = "poll" /\ window[w].response = NoId
      BY <2>3 DEF PollAgain, Resumed
    <3> HIDE DEF p
    <3> QED BY <3>1, <3>2, <3>3
  <2> QED BY <2>2, <2>3
<1>6. window' \in [Window -> Place] /\ window'[w] = p /\ \A v \in Window : v # w => window'[v] = window[v]
  BY <1>5 DEF SessionTypes
<1>7. \A v \in Window : window'[v].pc # "idle" => window'[v].kind \in Kind
  BY <1>2, <1>5, <1>6 DEF SessionTypes
<1>8. SessionTypes'
  BY <1>2, <1>4, <1>6, <1>7 DEF SessionTypes
<1> QED BY <1>2, <1>4, <1>5, <1>6, <1>8

LEMMA TypesStep == SessionTypes /\ [Next]_vars => SessionTypes'
<1> SUFFICES ASSUME SessionTypes, [Next]_vars PROVE SessionTypes'
  OBVIOUS
<1>1. ASSUME NEW w \in Window, Proceed(w) \/ SendTimesOut(w) PROVE SessionTypes'
  BY <1>1, PollTypes, LeaveTypes DEF Proceed, TimesOut, Answered, SendTimesOut, Return
<1>2. CASE init_socket \/ UNCHANGED vars
  BY <1>2 DEF init_socket, vars, baseVars, bufferVars, lineVars, ghostVars, SessionTypes
<1> QED BY <1>1, <1>2, TypesBase, TypesNode, FillTypes, TypesEnds, ConnectTypes, ClickTypes, ReadTypes DEF Next

-----------------------------------------------------------------------------
(* Each command is in one place.                                           *)

LEMMA SoleInit == Init => Sole
<1> SUFFICES ASSUME Init PROVE Sole
  OBVIOUS
<1>1. \A w \in Window : request[w] = <<>>
  BY DEF Init
<1>2. \A w \in Window : Once(request[w]) /\ \A i : ~Waits(request[w], i)
  BY <1>1 DEF Once, Waits
<1>3. InOneRequest /\ RequestsFresh
  BY <1>2 DEF InOneRequest, RequestsFresh
<1>4. PendingOnce /\ CopyingOnce /\ KeptOnce /\ HandedSoFar
  BY DEF Init, PendingOnce, CopyingOnce, KeptOnce, HandedSoFar
<1> QED BY <1>3, <1>4 DEF Sole

(* No command is added to the requests.                                    *)
LEMMA FewerWait ==
    ASSUME Sole, \A w \in Window : Once(request'[w]),
           \A w \in Window, i \in Label : Waits(request'[w], i) => Waits(request[w], i)
    PROVE  /\ InOneRequest'
           /\ UNCHANGED <<pending, copying, data, handed, commands>> => Sole'
<1>1. InOneRequest'
  BY DEF Sole, InOneRequest
<1>2. ASSUME UNCHANGED <<pending, copying, data, handed, commands>> PROVE Sole'
  <2>1. \A i : (Fresh(i)' <=> Fresh(i)) /\ (Pending(i)' <=> Pending(i)) /\ (Kept(i)' <=> Kept(i))
    BY <1>2 DEF Fresh, Pending, Copying, Kept
  <2>2. RequestsFresh'
    BY <2>1 DEF Sole, RequestsFresh
  <2>3. PendingOnce' /\ CopyingOnce'
    BY <1>2, <2>1 DEF Sole, PendingOnce, CopyingOnce
  <2>4. KeptOnce' /\ HandedSoFar'
    BY <1>2 DEF Sole, KeptOnce, HandedSoFar
  <2> QED BY <1>1, <2>2, <2>3, <2>4 DEF Sole
<1> QED BY <1>1, <1>2

LEMMA SameRequests ==
    ASSUME Sole, UNCHANGED <<request, pending, copying, data, handed, commands>>
    PROVE  Sole'
BY FewerWait DEF Sole, InOneRequest

LEMMA PullWaits ==
    ASSUME SessionTypes, Sole, NEW w \in Window, Pull(w)
    PROVE  /\ \A v \in Window : Once(request'[v])
           /\ \A v \in Window, i \in Label : Waits(request'[v], i) => Waits(request[v], i)
           /\ ~request[w][1].poll => /\ Waits(request[w], request[w][1].id)
                                     /\ \A v \in Window : ~Waits(request'[v], request[w][1].id)
<1>1. /\ request[w] \in Seq(Item) /\ Once(request[w]) /\ request'[w] \in Rests(request[w])
      /\ request[w][1] \in Item /\ \A v \in Window : v # w => request'[v] = request[v]
  BY PullIs DEF SessionTypes, Sole, InOneRequest
<1>2. /\ Once(request'[w]) /\ \A i : Waits(request'[w], i) => Waits(request[w], i)
      /\ ~request[w][1].poll => /\ Waits(request[w], request[w][1].id)
                                /\ ~Waits(request'[w], request[w][1].id)
  BY <1>1, RestWaits
<1>3. \A v \in Window : Once(request'[v])
  BY <1>1, <1>2 DEF Sole, InOneRequest
<1>4. \A v \in Window, i \in Label : Waits(request'[v], i) => Waits(request[v], i)
  BY <1>1, <1>2
<1>5. ASSUME ~request[w][1].poll, NEW v \in Window PROVE ~Waits(request'[v], request[w][1].id)
  <2>1. request[w][1].id \in Label
    BY <1>1 DEF Item
  <2>2. v # w => ~Waits(request[v], request[w][1].id)
    BY <1>2, <1>5, <2>1 DEF Sole, InOneRequest
  <2> QED BY <1>1, <1>2, <1>5, <2>2
<1> QED BY <1>2, <1>3, <1>4, <1>5

LEMMA HandleCommandSole ==
    ASSUME SessionTypes, Sole, NEW w \in Window, HandleCommand(w)
    PROVE  Sole'
<1>1. PICK item \in Item : item = request[w][1]
  BY PullIs DEF HandleCommand
<1>2. /\ Pull(w) /\ ~item.poll /\ pending' = pending \cup {item} /\ item.id \in Label
      /\ UNCHANGED <<copying, data, handed, commands>>
  BY <1>1, PullIs DEF HandleCommand, ghostVars, bufferVars, Item
<1>3. /\ \A v \in Window : Once(request'[v])
      /\ \A v \in Window, i \in Label : Waits(request'[v], i) => Waits(request[v], i)
      /\ Waits(request[w], item.id) /\ \A v \in Window : ~Waits(request'[v], item.id)
  BY <1>1, <1>2, PullWaits
<1>4. InOneRequest'
  BY <1>3, FewerWait
<1>5. Fresh(item.id) /\ ~Pending(item.id)
  BY <1>2, <1>3 DEF Sole, RequestsFresh
<1>6. \A i : (Fresh(i)' <=> Fresh(i)) /\ (Kept(i)' <=> Kept(i))
  BY <1>2 DEF Fresh, Copying, Kept
<1>7. RequestsFresh'
  <2> SUFFICES ASSUME NEW v \in Window, NEW i \in Label, Waits(request'[v], i)
               PROVE  Fresh(i) /\ ~Pending(i)'
    BY <1>6 DEF RequestsFresh
  <2>1. Fresh(i) /\ ~Pending(i) /\ i # item.id
    BY <1>3 DEF Sole, RequestsFresh
  <2> QED BY <2>1, <1>2 DEF Pending
<1>8. PendingOnce'
  <2>1. \A p \in pending : p.id # item.id
    BY <1>5 DEF Pending
  <2>2. \A p, q \in pending' : p.id = q.id => p = q
    BY <1>2, <2>1 DEF Sole, PendingOnce
  <2>3. \A p \in pending' : ~p.poll /\ Fresh(p.id)
    BY <1>2, <1>5 DEF Sole, PendingOnce
  <2> QED BY <1>6, <2>2, <2>3 DEF PendingOnce
<1>9. CopyingOnce' /\ KeptOnce' /\ HandedSoFar'
  BY <1>2, <1>6 DEF Sole, CopyingOnce, KeptOnce, HandedSoFar
<1> QED BY <1>4, <1>7, <1>8, <1>9 DEF Sole

LEMMA QuerySole ==
    ASSUME SessionTypes, Sole, NEW w \in Window, PollInVain(w) \/ HandlePoll(w)
    PROVE  Sole'
<1>1. Pull(w) /\ UNCHANGED <<pending, copying, data, handed, commands>>
  BY DEF PollInVain, HandlePoll, Query, ghostVars, bufferVars
<1> QED BY <1>1, PullWaits, FewerWait

(* What is handed over is in a buffer or on the way to one.                *)
LEMMA HandOverSole ==
    ASSUME SessionTypes, Sole, NEW w \in Window, HandOver(w)
    PROVE  Sole'
<1>1. PICK k \in Kind, id \in Label : Hands(w, k, id)
  BY HandOverIs
<1>2. UNCHANGED <<pending, copying, data, request, commands>>
  BY DEF HandOver
<1>3. \A i \in Id : handed[i] \in Nat /\ handed'[i] = IF i = id THEN handed[i] + 1 ELSE handed[i]
  BY <1>1 DEF Hands, SessionTypes
<1>4. (Kept(id) \/ Copying(id)) /\ (id \in Id => id \in 1..commands)
  <2>1. CASE id = data[k]
    BY <1>1, <2>1, LabelsAre DEF Kept, Sole, KeptOnce
  <2>2. CASE \E item \in copying : item.kind = k /\ item.id = id
    BY <2>2 DEF Copying, Sole, CopyingOnce
  <2> QED BY <1>1, <2>1, <2>2 DEF Hands
<1>5. \A i : (Pending(i)' <=> Pending(i)) /\ (Kept(i)' <=> Kept(i)) /\ (Copying(i)' <=> Copying(i))
  BY <1>2 DEF Pending, Copying, Kept
<1>6. 1..commands \subseteq Id
  BY LabelsAre DEF SessionTypes
<1>7. \A i \in Label : Fresh(i) => Fresh(i)'
  <2> SUFFICES ASSUME NEW i \in Label, Fresh(i) PROVE Fresh(i)'
    OBVIOUS
  <2>1. i # id /\ i \in Id
    BY <1>4, <1>6 DEF Fresh
  <2>2. handed'[i] = handed[i]
    BY <1>3, <2>1
  <2> QED BY <1>2, <1>5, <2>2 DEF Fresh
<1>8. InOneRequest' /\ RequestsFresh'
  BY <1>2, <1>5, <1>7 DEF Sole, InOneRequest, RequestsFresh
<1>9. PendingOnce' /\ CopyingOnce' /\ KeptOnce'
  <2>1. \A p \in pending : p.id \in Label
    BY DEF SessionTypes, Item
  <2>2. PendingOnce'
    BY <1>2, <1>7, <2>1 DEF Sole, PendingOnce
  <2> QED BY <1>2, <1>5, <2>2 DEF Sole, CopyingOnce, KeptOnce
<1>10. HandedSoFar'
  <2> SUFFICES ASSUME NEW i \in Id, handed'[i] > 0 PROVE i <= commands
    BY <1>2 DEF HandedSoFar
  <2>1. CASE i = id
    BY <1>4, <2>1
  <2>2. CASE i # id
    BY <1>3, <2>2 DEF Sole, HandedSoFar
  <2> QED BY <2>1, <2>2
<1> QED BY <1>8, <1>9, <1>10 DEF Sole

LEMMA NodeSole ==
    ASSUME SessionTypes, Sole, NEW item \in pending, NodeAnswers(item) \/ NodeSilent(item)
    PROVE  Sole'
<1>1. /\ item \in Item /\ pending' = pending \ {item}
      /\ UNCHANGED <<request, data, commands, handed>>
      /\ Fresh(item.id)
  BY DEF SessionTypes, Sole, PendingOnce, NodeAnswers, NodeSilent, lineVars, ghostVars, bufferVars
<1>2. copying' = copying \cup {item} \/ copying' = copying
  BY DEF NodeAnswers, NodeSilent, bufferVars
<1>3. \A p \in pending' : p \in pending /\ p.id # item.id
  BY <1>1 DEF Sole, PendingOnce
<1>4. ~Pending(item.id)'
  BY <1>3 DEF Pending
<1>5. \A i : /\ Pending(i)' => Pending(i)
             /\ Copying(i)' => Copying(i) \/ i = item.id
             /\ Kept(i)' <=> Kept(i)
  BY <1>1, <1>2 DEF Pending, Copying, Kept
<1>6. \A i : Fresh(i) /\ i # item.id => Fresh(i)'
  BY <1>1, <1>5 DEF Fresh
<1>7. InOneRequest'
  BY <1>1 DEF Sole, InOneRequest
<1>8. RequestsFresh'
  <2> SUFFICES ASSUME NEW v \in Window, NEW i \in Label, Waits(request[v], i)
               PROVE  Fresh(i)' /\ ~Pending(i)'
    BY <1>1 DEF RequestsFresh
  <2>1. Fresh(i) /\ ~Pending(i)
    BY DEF Sole, RequestsFresh
  <2>2. i # item.id
    BY <2>1 DEF Pending
  <2> QED BY <1>5, <1>6, <2>1, <2>2
<1>9. PendingOnce'
  <2>1. \A p \in pending' : ~p.poll /\ Fresh(p.id)'
    BY <1>3, <1>6 DEF Sole, PendingOnce
  <2> QED BY <1>3, <2>1 DEF Sole, PendingOnce
<1>10. CopyingOnce'
  <2>1. \A p \in copying' : p.id \in 1..commands /\ ~Kept(p.id)
    BY <1>1, <1>2 DEF Sole, CopyingOnce, Fresh
  <2>2. \A p \in copying : p.id # item.id
    BY <1>1 DEF Fresh, Copying
  <2>3. \A p, q \in copying' : p.id = q.id => p = q
    BY <1>2, <2>2 DEF Sole, CopyingOnce
  <2> QED BY <1>1, <1>5, <2>1, <2>3 DEF CopyingOnce
<1>11. KeptOnce' /\ HandedSoFar'
  BY <1>1 DEF Sole, KeptOnce, HandedSoFar
<1> QED BY <1>7, <1>8, <1>9, <1>10, <1>11 DEF Sole

LEMMA FillSole ==
    ASSUME SessionTypes, Sole, NEW item \in copying, FillBuffer(item)
    PROVE  Sole'
<1>1. /\ item.kind \in Kind /\ copying' = copying \ {item} /\ data' = [data EXCEPT ![item.kind] = item.id]
      /\ UNCHANGED <<pending, request, commands, handed>>
      /\ item.id \in 1..commands /\ ~Kept(item.id)
  BY DEF SessionTypes, FillBuffer, lineVars, ghostVars, Slot, Item, Sole, CopyingOnce
<1>2. \A k \in Kind : data'[k] = data[k] \/ (k = item.kind /\ data'[k] = item.id)
  BY <1>1 DEF SessionTypes
<1>3. \A p \in copying' : p \in copying /\ p.id # item.id
  BY <1>1 DEF Sole, CopyingOnce
<1>4. \A i : /\ Pending(i)' <=> Pending(i)
             /\ Copying(i)' => Copying(i)
             /\ Kept(i)' => Kept(i) \/ i = item.id
  BY <1>1, <1>2 DEF Pending, Copying, Kept
<1>5. \A i : Fresh(i) => Fresh(i)'
  <2>1. \A i : Fresh(i) => i # item.id
    BY DEF Fresh, Copying
  <2> QED BY <1>1, <1>4, <2>1 DEF Fresh
<1>6. InOneRequest' /\ RequestsFresh'
  BY <1>1, <1>4, <1>5 DEF Sole, InOneRequest, RequestsFresh
<1>7. PendingOnce'
  BY <1>1, <1>5 DEF Sole, PendingOnce
<1>8. CopyingOnce'
  <2> SUFFICES ASSUME NEW p \in copying' PROVE ~Kept(p.id)'
    BY <1>1, <1>3 DEF Sole, CopyingOnce
  <2>1. PICK i : i = p.id
    OBVIOUS
  <2>2. ~Kept(i) /\ i # item.id
    BY <1>3, <2>1 DEF Sole, CopyingOnce
  <2>3. ~Kept(i)'
    BY <1>4, <2>2
  <2>4. \A k \in Kind : data'[k] # p.id
    BY <2>1, <2>3 DEF Kept
  <2> QED BY <2>4, <1>1 DEF Kept
<1>9. KeptOnce'
  <2>1. \A k \in Kind : data'[k] \in 1..commands \cup {Blank}
    BY <1>1, <1>2 DEF Sole, KeptOnce
  <2>2. ASSUME NEW j \in Kind, NEW k \in Kind, data'[j] = data'[k], data'[k] # Blank PROVE j = k
    <3>1. \A l \in Kind : data[l] # item.id
      BY <1>1 DEF Kept
    <3> QED BY <1>2, <2>2, <3>1 DEF Sole, KeptOnce
  <2> QED BY <1>1, <2>1, <2>2 DEF KeptOnce, Blank
<1>10. HandedSoFar'
  BY <1>1 DEF Sole, HandedSoFar
<1> QED BY <1>6, <1>7, <1>8, <1>9, <1>10 DEF Sole

LEMMA EndsSole == ASSUME SessionTypes, Sole, BaseEnds PROVE Sole'
<1>1. /\ \A k \in Kind : data'[k] = Blank
      /\ \A w \in Window : request'[w] = <<>>
      /\ copying' = {} /\ UNCHANGED <<pending, commands, handed>>
  BY DEF BaseEnds
<1>2. \A w \in Window : Once(request'[w]) /\ \A i : ~Waits(request'[w], i)
  BY <1>1 DEF Once, Waits
<1>3. InOneRequest' /\ RequestsFresh'
  BY <1>2 DEF InOneRequest, RequestsFresh
<1>4. PendingOnce'
  <2> SUFFICES ASSUME NEW p \in pending PROVE \A k \in Kind : data'[k] # p.id
    BY <1>1 DEF Sole, PendingOnce, Fresh, Copying, Kept
  <2>1. p.id \in Id
    BY LabelsAre DEF Sole, PendingOnce, Fresh, SessionTypes
  <2> QED BY <1>1, <2>1, LabelsAre
<1>5. CopyingOnce' /\ KeptOnce' /\ HandedSoFar'
  BY <1>1 DEF Sole, CopyingOnce, KeptOnce, HandedSoFar, Blank
<1> QED BY <1>3, <1>4, <1>5 DEF Sole

LEMMA ClickSole ==
    ASSUME SessionTypes, Sole, NEW w \in Window, NEW k \in Kind, Click(w, k)
    PROVE  Sole'
<1>1. /\ commands < MaxCommands /\ commands' = commands + 1 /\ commands \in 0..MaxCommands
      /\ Sends(w, [poll |-> FALSE, kind |-> k, id |-> commands + 1])
      /\ UNCHANGED <<copying, data, pending, handed>>
  BY DEF Click, baseVars, bufferVars, SessionTypes
<1>2. PICK item \in Item : item = [poll |-> FALSE, kind |-> k, id |-> commands + 1]
  <2>1. commands + 1 \in Label
    BY <1>1, LabelsAre
  <2> QED BY <2>1 DEF Item
<1>3. /\ request'[w] \in {request[w], Append(request[w], item)}
      /\ \A v \in Window : v # w => request'[v] = request[v]
  BY <1>1, <1>2, SendsIs
<1>4. \A v \in Window, i \in Label : Waits(request[v], i) => i \in 1..commands
  BY DEF Sole, RequestsFresh, Fresh
<1>5. /\ ~item.poll /\ item.id = commands + 1 /\ item.id \in Label /\ item.id \notin 1..commands
      /\ \A v \in Window : ~Waits(request[v], item.id)
  BY <1>1, <1>2, <1>4, LabelsAre DEF Item
<1>6. /\ Once(request'[w])
      /\ \A i : Waits(request'[w], i) => Waits(request[w], i) \/ i = item.id
  <2>1. request[w] \in Seq(Item) /\ Once(request[w])
    BY DEF SessionTypes, Sole, InOneRequest
  <2>2. /\ Once(Append(request[w], item))
        /\ \A i : Waits(Append(request[w], item), i) => Waits(request[w], i) \/ item.id = i
    BY <1>5, <2>1, AppendWaits
  <2> QED BY <1>3, <2>1, <2>2
<1>7. InOneRequest'
  <2>1. \A v \in Window : Once(request'[v])
    BY <1>3, <1>6 DEF Sole, InOneRequest
  <2>2. \A v, u \in Window, i \in Label : Waits(request'[v], i) /\ Waits(request'[u], i) => v = u
    BY <1>3, <1>5, <1>6 DEF Sole, InOneRequest
  <2> QED BY <2>1, <2>2 DEF InOneRequest
<1>8. 1..commands \subseteq 1..commands' /\ item.id \in 1..commands' /\ item.id \in Id
  BY <1>1, <1>5, LabelsAre
<1>9. \A i : /\ Pending(i)' <=> Pending(i)
             /\ Copying(i)' <=> Copying(i)
             /\ Kept(i)' <=> Kept(i)
  BY <1>1 DEF Pending, Copying, Kept
<1>10. Fresh(item.id)' /\ ~Pending(item.id)
  <2>1. ~Pending(item.id)
    BY <1>5 DEF Pending, Sole, PendingOnce, Fresh
  <2>2. ~Kept(item.id) /\ ~Copying(item.id)
    BY <1>5, <1>8, LabelsAre DEF Kept, Copying, Sole, KeptOnce, CopyingOnce
  <2>3. handed[item.id] = 0
    <3>1. ~(item.id <= commands)
      BY <1>1, <1>5, LabelsAre
    <3>2. handed[item.id] \in Nat /\ ~(handed[item.id] > 0)
      BY <1>8, <3>1 DEF Sole, HandedSoFar, SessionTypes
    <3> QED BY <3>2
  <2>4. ~Kept(item.id)' /\ ~Copying(item.id)'
    <3>1. PICK i : i = item.id
      OBVIOUS
    <3>2. ~Kept(i)' /\ ~Copying(i)'
      BY <1>9, <2>2, <3>1
    <3> QED BY <3>1, <3>2 DEF Kept, Copying
  <2> QED BY <1>1, <1>8, <2>1, <2>3, <2>4 DEF Fresh
<1>11. \A i : Fresh(i) => Fresh(i)'
  BY <1>1, <1>8, <1>9 DEF Fresh
<1>12. RequestsFresh'
  <2> SUFFICES ASSUME NEW v \in Window, NEW i \in Label, Waits(request'[v], i)
               PROVE  Fresh(i)' /\ ~Pending(i)
    BY <1>9 DEF RequestsFresh
  <2>1. Waits(request[v], i) \/ i = item.id
    BY <1>3, <1>6
  <2>2. CASE Waits(request[v], i)
    BY <1>11, <2>2 DEF Sole, RequestsFresh
  <2>3. CASE i = item.id
    BY <1>10, <2>3 DEF Fresh, Copying, Kept
  <2> QED BY <2>1, <2>2, <2>3
<1>13. PendingOnce'
  BY <1>1, <1>11 DEF Sole, PendingOnce
<1>14. CopyingOnce' /\ KeptOnce'
  BY <1>1, <1>8, <1>9 DEF Sole, CopyingOnce, KeptOnce, Blank
<1>15. HandedSoFar'
  <2> SUFFICES ASSUME NEW i \in Id, handed[i] > 0 PROVE i <= commands'
    BY <1>1 DEF HandedSoFar
  <2>1. i <= commands
    BY DEF Sole, HandedSoFar
  <2> QED BY <1>1, <2>1 DEF Id
<1> QED BY <1>7, <1>12, <1>13, <1>14, <1>15 DEF Sole

LEMMA PollsSole ==
    ASSUME SessionTypes, Sole, NEW w \in Window, BeginPolls(w) \/ PollAgain(w)
    PROVE  Sole'
<1>1. /\ window[w].kind \in Kind /\ Polls(w, window[w].kind)
      /\ UNCHANGED <<copying, data, pending, handed, commands>>
  BY PollTypes DEF SessionTypes, BeginPolls, PollAgain, baseVars, bufferVars, ghostVars
<1>2. PICK item \in Item : item = [poll |-> TRUE, kind |-> window[w].kind, id |-> NoId]
  BY <1>1, ReplyItem, LabelsAre
<1>3. /\ request'[w] \in {request[w], Append(request[w], item)}
      /\ \A v \in Window : v # w => request'[v] = request[v]
  BY <1>1, <1>2, SendsIs DEF Polls
<1>4. request[w] \in Seq(Item) /\ Once(request[w]) /\ item.poll
  BY <1>2 DEF SessionTypes, Sole, InOneRequest
<1>5. Once(request'[w]) /\ \A i : Waits(request'[w], i) => Waits(request[w], i)
  <2>1. /\ Once(Append(request[w], item))
        /\ \A i : Waits(Append(request[w], item), i) => Waits(request[w], i)
    BY <1>4, AppendWaits
  <2> QED BY <1>3, <1>4, <2>1
<1>6. /\ \A v \in Window : Once(request'[v])
      /\ \A v \in Window, i \in Label : Waits(request'[v], i) => Waits(request[v], i)
  BY <1>3, <1>5 DEF Sole, InOneRequest
<1> QED BY <1>1, <1>6, FewerWait

LEMMA SoleStep == SessionTypes /\ Sole /\ [Next]_vars => Sole'
<1> SUFFICES ASSUME SessionTypes, Sole, [Next]_vars PROVE Sole'
  OBVIOUS
<1>1. ASSUME NEW w \in Window, Handle(w) PROVE Sole'
  BY <1>1, HandleCommandSole, QuerySole, HandOverSole DEF Handle
<1>2. ASSUME NEW w \in Window, NEW failed \in BOOLEAN, Leave(w, failed) PROVE Sole'
  BY <1>2, SameRequests DEF Leave, baseVars, bufferVars, lineVars
<1>3. ASSUME NEW w \in Window, Proceed(w) \/ SendTimesOut(w) PROVE Sole'
  BY <1>2, <1>3, PollsSole DEF Proceed, TimesOut, Answered, SendTimesOut, Return
<1>4. ASSUME NEW w \in Window, readXbeeProcess(w) \/ Connect(w) PROVE Sole'
  BY <1>4, SameRequests DEF readXbeeProcess, Connect, baseVars, bufferVars, ghostVars
<1>5. CASE init_socket \/ UNCHANGED vars
  BY <1>5, SameRequests DEF init_socket, vars, baseVars, bufferVars, lineVars, ghostVars
<1> QED BY <1>1, <1>3, <1>4, <1>5, NodeSole, FillSole, EndsSole, ClickSole DEF Next

-----------------------------------------------------------------------------
(* What is handed over when nothing is torn.                               *)

LEMMA BlamedGrows == [Next]_vars => blamed \subseteq blamed'
<1> SUFFICES ASSUME [Next]_vars PROVE blamed \subseteq blamed'
  OBVIOUS
<1>1. ASSUME NEW w \in Window, Handle(w) PROVE blamed \subseteq blamed'
  BY <1>1 DEF Handle, HandleCommand, PollInVain, HandlePoll, HandOver, ghostVars
<1>2. ASSUME NEW w \in Window PROVE /\ Proceed(w) => blamed \subseteq blamed'
                                    /\ SendTimesOut(w) => blamed \subseteq blamed'
                                    /\ readXbeeProcess(w) => blamed \subseteq blamed'
                                    /\ Connect(w) => blamed \subseteq blamed'
  BY DEF Proceed, BeginPolls, PollAgain, TimesOut, Answered, Return,
         Leave, SendTimesOut, readXbeeProcess, Connect, ghostVars
<1>3. ASSUME NEW w \in Window, NEW k \in Kind, Click(w, k) PROVE blamed \subseteq blamed'
  BY <1>3 DEF Click
<1>4. ASSUME NEW item \in pending, NodeAnswers(item) \/ NodeSilent(item) PROVE blamed \subseteq blamed'
  BY <1>4 DEF NodeAnswers, NodeSilent, ghostVars
<1>5. ASSUME NEW item \in copying, FillBuffer(item) PROVE blamed \subseteq blamed'
  BY <1>5 DEF FillBuffer, ghostVars
<1>6. CASE BaseEnds \/ init_socket \/ UNCHANGED vars
  BY <1>6 DEF BaseEnds, init_socket, vars, ghostVars
<1> QED BY <1>1, <1>2, <1>3, <1>4, <1>5, <1>6 DEF Next

LEMMA UntornInit == Init => Untorn
BY DEF Init, Untorn, Whole, Live, FillingOf, ReadingOf

LEMMA SameBuffers ==
    ASSUME Whole, UNCHANGED <<rcvd, data, copying, answering, handed>>
    PROVE  Whole'
BY DEF Whole, Live, FillingOf, ReadingOf

LEMMA HandlePollWhole ==
    ASSUME SessionTypes, Whole, NEW w \in Window, HandlePoll(w), "torn" \notin blamed'
    PROVE  Whole'
<1>1. PICK k \in Kind : Begins(w, k)
  BY HandlePollIs
<1>2. /\ rcvd[k] /\ ~FillingOf(k) /\ ~rcvd'[k] /\ \A j \in Kind : j # k => rcvd'[j] = rcvd[j]
      /\ answering = {} /\ answering' = {[window |-> w, kind |-> k]}
      /\ UNCHANGED <<data, copying, handed>>
  BY <1>1 DEF Begins, HandlePoll, SessionTypes
<1>3. \A j : (ReadingOf(j)' <=> j = k) /\ ~ReadingOf(j) /\ (FillingOf(j)' <=> FillingOf(j))
  BY <1>2 DEF ReadingOf, FillingOf
<1>4. \A j \in Kind : Live(j)' => Live(j)
  BY <1>2, <1>3 DEF Live
<1> QED BY <1>2, <1>3, <1>4 DEF Whole

(* The answer that is read is handed over the first time.                  *)
LEMMA HandOverReads ==
    ASSUME Whole, NEW w \in Window, NEW k \in Kind, NEW id \in Label, Hands(w, k, id)
    PROVE  Live(k) /\ id = data[k] /\ id \in Id /\ handed[id] = 0
<1>1. ReadingOf(k)
  BY DEF Hands, ReadingOf
<1>2. ~FillingOf(k)
  BY <1>1 DEF Whole
<1>3. id = data[k]
  BY <1>2 DEF Hands, FillingOf
<1> QED BY <1>1, <1>3 DEF Whole, Live

LEMMA HandOverWhole ==
    ASSUME SessionTypes, Sole, Whole, NEW w \in Window, HandOver(w)
    PROVE  Whole'
<1>1. PICK k \in Kind, id \in Label : Hands(w, k, id)
  BY HandOverIs
<1>2. id = data[k] /\ id \in Id /\ handed[id] = 0
  BY <1>1, HandOverReads
<1>3. UNCHANGED <<rcvd, data, copying>> /\ answering' = {}
  BY DEF HandOver
<1>4. \A i \in Id : handed'[i] = IF i = id THEN handed[i] + 1 ELSE handed[i]
  BY <1>1 DEF Hands
<1>5. [window |-> w, kind |-> k] \in answering
  BY <1>1 DEF Hands
<1>6. ReadingOf(k) /\ ~rcvd[k]
  BY <1>5 DEF Whole, ReadingOf
<1>7. \A j \in Kind : Live(j)' => Live(j) /\ j # k
  BY <1>3, <1>6 DEF Live, ReadingOf, FillingOf
<1>8. \A j \in Kind : Live(j)' => data'[j] \in Id /\ handed'[data'[j]] = 0
  <2> SUFFICES ASSUME NEW j \in Kind, Live(j)' PROVE data[j] \in Id /\ handed'[data[j]] = 0
    BY <1>3
  <2>1. data[j] \in Id /\ handed[data[j]] = 0 /\ j # k
    BY <1>7 DEF Whole
  <2>2. data[j] # id
    BY <1>2, <2>1, LabelsAre DEF Sole, KeptOnce
  <2> QED BY <1>4, <2>1, <2>2
<1>9. \A item \in copying : handed'[item.id] = 0
  <2> SUFFICES ASSUME NEW item \in copying PROVE handed'[item.id] = 0
    OBVIOUS
  <2>1. item.id \in 1..commands /\ ~Kept(item.id) /\ handed[item.id] = 0
    BY DEF Sole, CopyingOnce, Whole
  <2>2. item.id \in Id /\ item.id # id
    BY <1>2, <2>1, LabelsAre DEF Kept, SessionTypes
  <2> QED BY <1>4, <2>1, <2>2
<1>10. \A i \in Id : handed'[i] \in {0, 1}
  BY <1>2, <1>4 DEF Whole
<1>11. \A j \in Kind : (FillingOf(j)' <=> FillingOf(j)) /\ ~ReadingOf(j)'
  BY <1>3 DEF FillingOf, ReadingOf
<1> QED BY <1>3, <1>8, <1>9, <1>10, <1>11 DEF Whole

LEMMA NodeAnswersWhole ==
    ASSUME SessionTypes, Sole, Whole, NEW item \in pending, NodeAnswers(item), "torn" \notin blamed'
    PROVE  Whole'
<1>1. PICK k \in Kind : k = item.kind
  BY DEF SessionTypes, Item
<1>2. /\ copying' = copying \cup {item} /\ rcvd' = [rcvd EXCEPT ![k] = TRUE]
      /\ UNCHANGED <<data, answering, handed>> /\ ~ReadingOf(k)
  BY <1>1 DEF NodeAnswers, Slot, ReadingOf, ghostVars
<1>3. rcvd'[k] /\ \A j \in Kind : j # k => rcvd'[j] = rcvd[j]
  BY <1>2 DEF SessionTypes
<1>4. \A j : (FillingOf(j)' <=> FillingOf(j) \/ j = k) /\ (ReadingOf(j)' <=> ReadingOf(j))
  BY <1>1, <1>2 DEF FillingOf, ReadingOf
<1>5. \A j \in Kind : Live(j)' => Live(j)
  BY <1>2, <1>3, <1>4 DEF Live
<1>6. handed[item.id] = 0
  BY DEF Sole, PendingOnce, Fresh
<1>7. \A p \in copying' : handed'[p.id] = 0
  BY <1>2, <1>6 DEF Whole
<1> QED BY <1>2, <1>3, <1>4, <1>5, <1>7 DEF Whole

LEMMA FillWhole ==
    ASSUME SessionTypes, Sole, Whole, NEW item \in copying, FillBuffer(item)
    PROVE  Whole'
<1>1. PICK k \in Kind : k = item.kind
  BY DEF SessionTypes, Item
<1>2. /\ copying' = copying \ {item} /\ data' = [data EXCEPT ![k] = item.id]
      /\ UNCHANGED <<rcvd, answering, handed>>
  BY <1>1 DEF FillBuffer, Slot, ghostVars
<1>3. data'[k] = item.id /\ \A j \in Kind : j # k => data'[j] = data[j]
  BY <1>2 DEF SessionTypes
<1>4. /\ \A j : (FillingOf(j)' => FillingOf(j)) /\ (ReadingOf(j)' <=> ReadingOf(j))
      /\ \A j : j # k /\ FillingOf(j) => FillingOf(j)'
  BY <1>1, <1>2 DEF FillingOf, ReadingOf
<1>5. item.id \in Id /\ handed[item.id] = 0
  <2>1. item.id \in 1..commands
    BY DEF Sole, CopyingOnce
  <2> QED BY <2>1, LabelsAre DEF SessionTypes, Whole
<1>6. \A j \in Kind : Live(j)' => data'[j] \in Id /\ handed'[data'[j]] = 0
  <2> SUFFICES ASSUME NEW j \in Kind, Live(j)' PROVE data'[j] \in Id /\ handed[data'[j]] = 0
    BY <1>2
  <2>1. CASE j = k
    BY <1>3, <1>5, <2>1
  <2>2. CASE j # k
    <3>1. Live(j)
      BY <1>2, <1>4, <2>2 DEF Live
    <3> QED BY <1>3, <2>2, <3>1 DEF Whole
  <2> QED BY <2>1, <2>2
<1> QED BY <1>2, <1>4, <1>6 DEF Whole

LEMMA EndsWhole == ASSUME SessionTypes, Whole, BaseEnds PROVE Whole'
<1>1. copying' = {} /\ answering' = {} /\ UNCHANGED handed /\ \A k \in Kind : ~rcvd'[k]
  BY DEF BaseEnds
<1>2. \A k \in Kind : ~FillingOf(k)' /\ ~ReadingOf(k)' /\ ~Live(k)'
  BY <1>1 DEF FillingOf, ReadingOf, Live
<1> QED BY <1>1, <1>2 DEF Whole

LEMMA UntornStep == SessionTypes /\ Sole /\ Untorn /\ [Next]_vars => Untorn'
<1> SUFFICES ASSUME SessionTypes, Sole, Untorn, [Next]_vars, "torn" \notin blamed' PROVE Whole'
  BY DEF Untorn
<1>1. Whole
  BY BlamedGrows DEF Untorn
<1>2. ASSUME NEW w \in Window, HandleCommand(w) \/ PollInVain(w) PROVE Whole'
  BY <1>1, <1>2, SameBuffers DEF HandleCommand, PollInVain, bufferVars, ghostVars
<1>3. ASSUME NEW w \in Window, Handle(w) PROVE Whole'
  BY <1>1, <1>2, <1>3, HandlePollWhole, HandOverWhole DEF Handle
<1>4. ASSUME NEW w \in Window, Proceed(w) \/ SendTimesOut(w) PROVE Whole'
  BY <1>1, <1>4, SameBuffers DEF Proceed, BeginPolls, PollAgain, TimesOut, Answered, SendTimesOut,
     Return, Leave, baseVars, bufferVars, ghostVars
<1>5. ASSUME NEW w \in Window, readXbeeProcess(w) \/ Connect(w) PROVE Whole'
  BY <1>1, <1>5, SameBuffers DEF readXbeeProcess, Connect, baseVars, bufferVars, ghostVars
<1>6. ASSUME NEW w \in Window, NEW k \in Kind, Click(w, k) PROVE Whole'
  BY <1>1, <1>6, SameBuffers DEF Click, baseVars, bufferVars
<1>7. ASSUME NEW item \in pending, NodeSilent(item) PROVE Whole'
  BY <1>1, <1>7, SameBuffers DEF NodeSilent, bufferVars, ghostVars
<1>8. CASE init_socket \/ UNCHANGED vars
  BY <1>1, <1>8, SameBuffers DEF init_socket, vars, baseVars, bufferVars, ghostVars
<1>9. CASE BaseEnds
  BY <1>1, <1>9, EndsWhole
<1>10. ASSUME NEW item \in pending, NodeAnswers(item) PROVE Whole'
  BY <1>1, <1>10, NodeAnswersWhole
<1>11. ASSUME NEW item \in copying, FillBuffer(item) PROVE Whole'
  BY <1>1, <1>11, FillWhole
<1> QED BY <1>3, <1>4, <1>5, <1>6, <1>7, <1>8, <1>9, <1>10, <1>11 DEF Next

(* The inductive invariant: each command, or its answer, is in one place,  *)
(* and as long as no query is served between the flag and the buffer of an *)
(* answer, what main will read was not handed over.                        *)
THEOREM SessionInvariant == Spec => [](SessionTypes /\ Sole /\ Untorn)
<1> QED BY TypesInit, TypesStep, SoleInit, SoleStep, UntornInit, UntornStep, PTL DEF Spec

(* No answer is handed out twice, whatever windows ask for it, and also    *)
(* when answers overwrite each other, when the buffer keeps what was read, *)
(* and when the base ends and starts again, as long as no query is served  *)
(* while a callback of its kind is between flag and buffer.                *)
THEOREM AnswerHandedOnce == Spec => []HandedOnce
<1>1. SessionTypes /\ Untorn => HandedOnce
  <2> SUFFICES ASSUME Untorn, "torn" \notin blamed, NEW i \in Id PROVE handed[i] <= 1
    BY DEF HandedOnce
  <2>1. handed[i] \in {0, 1}
    BY DEF Untorn, Whole
  <2> QED BY <2>1
<1> QED BY <1>1, SessionInvariant, PTL

-----------------------------------------------------------------------------
(* Whose answer it is.                                                     *)

(* A response that a window holds has been handed over, and so has every   *)
(* answer on its way to one.                                               *)
Responses == \A w \in Window : /\ window[w].pc # "poll" => window[w].response = NoId
                               /\ window[w].response \in Id => handed[window[w].response] > 0

RepliesHanded ==
    \A w \in Window : \A m \in 1..Len(reply[w]) : reply[w][m].id \in Id => handed[reply[w][m].id] > 0

(* While the operator heeds the manual one window works with a kind, what  *)
(* it has sent and is sent is of its command, and each command on its way, *)
(* or its answer up to where main reads it, is that of a window at work.   *)
OnePerKind ==
    \A w, v \in Window :
        window[w].pc # "idle" /\ window[v].pc # "idle" /\ window[w].kind = window[v].kind => w = v

OwnRequests ==
    \A w \in Window : \A m \in 1..Len(request[w]) :
        /\ window[w].pc # "idle" => request[w][m].kind = window[w].kind
        /\ ~request[w][m].poll => window[w].pc # "idle" /\ request[w][m].id = window[w].id

OwnQueries ==
    \A query \in answering :
        window[query.window].pc # "idle" => query.kind = window[query.window].kind

OwnReplies ==
    \A w \in Window : window[w].pc # "idle" =>
        \A m \in 1..Len(reply[w]) : reply[w][m].id \in {NoId, window[w].id}

Owned(k, i) == \E w \in Window : window[w].pc # "idle" /\ window[w].kind = k /\ window[w].id = i

PendingOwned == \A item \in pending : Owned(item.kind, item.id)

CopyingOwned == \A item \in copying : Owned(item.kind, item.id)

KeptOwned == \A k \in Kind : Live(k) => Owned(k, data[k])

OwnResponse ==
    \A w \in Window : window[w].pc # "idle" => window[w].response \in {NoId, window[w].id}

Orderly == /\ OnePerKind /\ OwnRequests /\ OwnQueries /\ OwnReplies
           /\ PendingOwned /\ CopyingOwned /\ KeptOwned /\ OwnResponse

Heeded == {"hasty", "torn"} \cap blamed = {}

Own == Responses /\ RepliesHanded /\ (Heeded => Orderly)

LEMMA OwnInit == Init => Own
<1> SUFFICES ASSUME Init PROVE Own
  OBVIOUS
<1>1. \A w \in Window : window[w].pc = "idle" /\ window[w].response = NoId
  BY AtRestIs DEF Init
<1>2. \A w \in Window : 1..Len(request[w]) = {} /\ 1..Len(reply[w]) = {}
  BY DEF Init
<1>3. Responses /\ RepliesHanded
  BY <1>1, <1>2, LabelsAre DEF Responses, RepliesHanded
<1>4. OnePerKind /\ OwnRequests /\ OwnReplies /\ OwnResponse
  BY <1>1, <1>2 DEF OnePerKind, OwnRequests, OwnReplies, OwnResponse
<1>5. OwnQueries /\ PendingOwned /\ CopyingOwned /\ KeptOwned
  BY DEF Init, OwnQueries, PendingOwned, CopyingOwned, KeptOwned, Live, FillingOf, ReadingOf
<1> QED BY <1>3, <1>4, <1>5 DEF Own, Orderly

(* What was in the queue of which this is the rest.                        *)
LEMMA RestOf ==
    ASSUME NEW S, NEW q \in Seq(S), NEW r \in Rests(q), NEW m \in 1..Len(r)
    PROVE  \E l \in 1..Len(q) : r[m] = q[l]
BY RestIs

LEMMA AppendOf ==
    ASSUME NEW S, NEW q \in Seq(S), NEW item \in S, NEW m \in 1..Len(Append(q, item))
    PROVE  Append(q, item)[m] = item \/ \E l \in 1..Len(q) : Append(q, item)[m] = q[l]
<1>1. m \in 1..Len(q) \/ m = Len(q) + 1
  BY AppendIs
<1> QED BY <1>1, AppendIs

LEMMA PullOf ==
    ASSUME SessionTypes, NEW w \in Window, Pull(w)
    PROVE  /\ \A v \in Window : \A m \in 1..Len(request'[v]) :
                 \E l \in 1..Len(request[v]) : request'[v][m] = request[v][l]
           /\ 1 \in 1..Len(request[w])
<1>1. request[w] \in Seq(Item) /\ request'[w] \in Rests(request[w])
      /\ \A v \in Window : v # w => request'[v] = request[v]
  BY PullIs DEF SessionTypes
<1>2. \A m \in 1..Len(request'[w]) : \E l \in 1..Len(request[w]) : request'[w][m] = request[w][l]
  BY <1>1, RestOf
<1>3. Len(request[w]) >= 1 /\ Len(request[w]) \in Nat
  BY <1>1, RestIs
<1> QED BY <1>1, <1>2, <1>3

LEMMA PullOwn ==
    ASSUME SessionTypes, OwnRequests, NEW w \in Window, Pull(w), UNCHANGED window
    PROVE  OwnRequests'
<1> SUFFICES ASSUME NEW v \in Window, NEW m \in 1..Len(request'[v])
             PROVE  /\ window[v].pc # "idle" => request'[v][m].kind = window[v].kind
                    /\ ~request'[v][m].poll => window[v].pc # "idle" /\ request'[v][m].id = window[v].id
  BY DEF OwnRequests
<1>1. PICK l \in 1..Len(request[v]) : request'[v][m] = request[v][l]
  BY PullOf
<1> QED BY <1>1 DEF OwnRequests

LEMMA AnswerOf ==
    ASSUME SessionTypes, NEW w \in Window, NEW item \in Item, Answer(w, item)
    PROVE  \A v \in Window : \A m \in 1..Len(reply'[v]) :
               \/ v = w /\ reply'[v][m] = item
               \/ \E l \in 1..Len(reply[v]) : reply'[v][m] = reply[v][l]
<1>1. reply[w] \in Seq(Item) /\ reply'[w] = Append(reply[w], item)
      /\ \A v \in Window : v # w => reply'[v] = reply[v]
  BY DEF SessionTypes, Answer
<1> SUFFICES ASSUME NEW v \in Window, NEW m \in 1..Len(reply'[v])
             PROVE  \/ v = w /\ reply'[v][m] = item
                    \/ \E l \in 1..Len(reply[v]) : reply'[v][m] = reply[v][l]
  OBVIOUS
<1>2. CASE v = w
  BY <1>1, <1>2, AppendOf
<1>3. CASE v # w
  BY <1>1, <1>3
<1> QED BY <1>2, <1>3

LEMMA SendsOf ==
    ASSUME SessionTypes, NEW w \in Window, NEW item \in Item, Sends(w, item)
    PROVE  \A v \in Window : \A m \in 1..Len(request'[v]) :
               \/ v = w /\ request'[v][m] = item
               \/ \E l \in 1..Len(request[v]) : request'[v][m] = request[v][l]
<1>1. request[w] \in Seq(Item) /\ request'[w] \in {request[w], Append(request[w], item)}
      /\ \A v \in Window : v # w => request'[v] = request[v]
  BY SendsIs DEF SessionTypes
<1> SUFFICES ASSUME NEW v \in Window, NEW m \in 1..Len(request'[v])
             PROVE  \/ v = w /\ request'[v][m] = item
                    \/ \E l \in 1..Len(request[v]) : request'[v][m] = request[v][l]
  OBVIOUS
<1>2. CASE v = w /\ request'[w] = Append(request[w], item)
  BY <1>1, <1>2, AppendOf
<1>3. CASE v # w \/ request'[w] = request[w]
  BY <1>1, <1>3
<1> QED BY <1>1, <1>2, <1>3

(* What is owned stays so while the windows work at what they did.         *)
LEMMA SameWork ==
    ASSUME \A v \in Window : /\ window'[v].kind = window[v].kind /\ window'[v].id = window[v].id
                             /\ window'[v].pc = "idle" <=> window[v].pc = "idle"
    PROVE  \A k, i : Owned(k, i)' <=> Owned(k, i)
BY DEF Owned

LEMMA SameOwned ==
    ASSUME Orderly, UNCHANGED <<rcvd, data, copying, answering, pending>>,
           \A k, i : Owned(k, i) => Owned(k, i)'
    PROVE  PendingOwned' /\ CopyingOwned' /\ KeptOwned'
<1>1. \A k : Live(k)' <=> Live(k)
  BY DEF Live, FillingOf, ReadingOf
<1>2. PendingOwned'
  BY DEF Orderly, PendingOwned
<1>3. CopyingOwned'
  BY DEF Orderly, CopyingOwned
<1>4. KeptOwned'
  BY <1>1 DEF Orderly, KeptOwned
<1> QED BY <1>2, <1>3, <1>4

LEMMA HandleCommandOwn ==
    ASSUME SessionTypes, Own, NEW w \in Window, HandleCommand(w)
    PROVE  Own'
<1>1. PICK item \in Item : item = request[w][1]
  BY PullIs DEF HandleCommand
<1>2. PICK echo \in Item : echo = [item EXCEPT !.id = NoId]
  BY LabelsAre DEF Item
<1>3. /\ Pull(w) /\ ~item.poll /\ pending' = pending \cup {item} /\ Answer(w, echo)
      /\ UNCHANGED <<rcvd, data, copying, answering, window, handed, blamed>> /\ echo.id = NoId
  BY <1>1, <1>2, PullIs DEF HandleCommand, ghostVars, bufferVars, Item
<1>4. /\ \A v \in Window : \A m \in 1..Len(request'[v]) :
                 \E l \in 1..Len(request[v]) : request'[v][m] = request[v][l]
      /\ 1 \in 1..Len(request[w])
  BY <1>3, PullOf
<1>5. \A v \in Window : \A m \in 1..Len(reply'[v]) :
               \/ reply'[v][m].id = NoId
               \/ \E l \in 1..Len(reply[v]) : reply'[v][m] = reply[v][l]
  BY <1>3, AnswerOf
<1>6. Responses' /\ RepliesHanded'
  BY <1>3, <1>5, LabelsAre DEF Own, Responses, RepliesHanded
<1>7. ASSUME Heeded' PROVE Orderly'
  <2>1. Orderly
    BY <1>3, <1>7 DEF Own, Heeded
  <2>2. OnePerKind' /\ OwnResponse' /\ OwnQueries'
    BY <1>3, <2>1 DEF Orderly, OnePerKind, OwnResponse, OwnQueries
  <2>3. OwnRequests'
    BY <1>3, <2>1, PullOwn DEF Orderly
  <2>4. OwnReplies'
    BY <1>3, <1>5, <2>1 DEF Orderly, OwnReplies
  <2>5. Owned(item.kind, item.id)
    BY <1>1, <1>3, <1>4, <2>1 DEF Orderly, OwnRequests, Owned
  <2>6. \A k, i : Owned(k, i)' <=> Owned(k, i)
    BY <1>3 DEF Owned
  <2>7. \A k : Live(k)' <=> Live(k)
    BY <1>3 DEF Live, FillingOf, ReadingOf
  <2>8. PendingOwned'
    BY <1>3, <2>1, <2>5, <2>6 DEF Orderly, PendingOwned
  <2>9. CopyingOwned' /\ KeptOwned'
    BY <1>3, <2>1, <2>6, <2>7 DEF Orderly, CopyingOwned, KeptOwned
  <2> QED BY <2>2, <2>3, <2>4, <2>8, <2>9 DEF Orderly
<1> QED BY <1>6, <1>7 DEF Own

LEMMA PollInVainOwn ==
    ASSUME SessionTypes, Own, NEW w \in Window, PollInVain(w)
    PROVE  Own'
<1>1. PICK k \in Kind : NoAnswer(w, k)
  BY PollInVainIs
<1>2. PICK item \in Item : item = [poll |-> TRUE, kind |-> k, id |-> NoId]
  BY ReplyItem, LabelsAre
<1>3. /\ Pull(w) /\ Answer(w, item) /\ item.id = NoId
      /\ UNCHANGED <<rcvd, data, copying, answering, pending, window, handed, blamed>>
  BY <1>1, <1>2 DEF NoAnswer, PollInVain, ghostVars, bufferVars
<1>4. \A v \in Window : \A m \in 1..Len(reply'[v]) :
               \/ reply'[v][m].id = NoId
               \/ \E l \in 1..Len(reply[v]) : reply'[v][m] = reply[v][l]
  BY <1>3, AnswerOf
<1>5. Responses' /\ RepliesHanded'
  BY <1>3, <1>4, LabelsAre DEF Own, Responses, RepliesHanded
<1>6. ASSUME Heeded' PROVE Orderly'
  <2>1. Orderly
    BY <1>3, <1>6 DEF Own, Heeded
  <2>2. OnePerKind' /\ OwnResponse' /\ OwnQueries'
    BY <1>3, <2>1 DEF Orderly, OnePerKind, OwnResponse, OwnQueries
  <2>3. OwnRequests' /\ OwnReplies'
    BY <1>3, <1>4, <2>1, PullOwn DEF Orderly, OwnReplies
  <2>4. \A j, i : Owned(j, i) => Owned(j, i)'
    BY <1>3 DEF Owned
  <2>5. PendingOwned' /\ CopyingOwned' /\ KeptOwned'
    BY <1>3, <2>1, <2>4, SameOwned
  <2> QED BY <2>2, <2>3, <2>5 DEF Orderly
<1> QED BY <1>5, <1>6 DEF Own

(* The flag that is reset turns into a query that main has begun to answer.*)
LEMMA HandlePollOwn ==
    ASSUME SessionTypes, Untorn, Own, NEW w \in Window, HandlePoll(w), Heeded' => Heeded
    PROVE  Own'
<1>1. PICK k \in Kind : Begins(w, k)
  BY HandlePollIs
<1>2. /\ Pull(w) /\ rcvd[k] /\ answering' = {[window |-> w, kind |-> k]}
      /\ ~rcvd'[k] /\ \A j \in Kind : j # k => rcvd'[j] = rcvd[j]
      /\ FillingOf(k) => "torn" \in blamed'
      /\ UNCHANGED <<data, copying, pending, reply, window, handed>>
  BY <1>1 DEF Begins, HandlePoll, SessionTypes
<1>3. Responses' /\ RepliesHanded'
  BY <1>2 DEF Own, Responses, RepliesHanded
<1>4. ASSUME Heeded' PROVE Orderly'
  <2>1. Orderly /\ ~FillingOf(k)
    BY <1>2, <1>4 DEF Own, Heeded
  <2>2. OnePerKind' /\ OwnResponse' /\ OwnReplies'
    BY <1>2, <2>1 DEF Orderly, OnePerKind, OwnResponse, OwnReplies
  <2>3. OwnRequests'
    BY <1>2, <2>1, PullOwn DEF Orderly
  <2>4. window[w].pc # "idle" => window[w].kind = k
    <3>1. 1 \in 1..Len(request[w]) /\ request[w][1].kind = k
      BY <1>1, PullOf DEF Begins
    <3> QED BY <2>1, <3>1 DEF Orderly, OwnRequests
  <2>5. OwnQueries'
    BY <1>2, <2>4 DEF OwnQueries
  <2>6. \A j, i : Owned(j, i)' <=> Owned(j, i)
    BY <1>2 DEF Owned
  <2>7. \A j \in Kind : Live(j)' => Live(j)
    <3>1. \A j : ReadingOf(j)' <=> j = k
      BY <1>2 DEF ReadingOf
    <3>2. \A j : FillingOf(j)' <=> FillingOf(j)
      BY <1>2 DEF FillingOf
    <3> QED BY <1>2, <2>1, <3>1, <3>2 DEF Live
  <2>8. PendingOwned' /\ CopyingOwned' /\ KeptOwned'
    BY <1>2, <2>1, <2>6, <2>7 DEF Orderly, PendingOwned, CopyingOwned, KeptOwned
  <2> QED BY <2>2, <2>3, <2>5, <2>8 DEF Orderly
<1> QED BY <1>3, <1>4 DEF Own

LEMMA HandOverOwn ==
    ASSUME SessionTypes, Untorn, Own, NEW w \in Window, HandOver(w)
    PROVE  Own'
<1>1. PICK k \in Kind, id \in Label : Hands(w, k, id)
  BY HandOverIs
<1>2. PICK item \in Item : item = [poll |-> TRUE, kind |-> k, id |-> id]
  BY ReplyItem
<1>3. /\ Answer(w, item) /\ answering' = {} /\ [window |-> w, kind |-> k] \in answering
      /\ UNCHANGED <<rcvd, data, copying, pending, request, window, blamed>>
  BY <1>1, <1>2 DEF Hands, HandOver
<1>4. \A v \in Window : \A m \in 1..Len(reply'[v]) :
               \/ v = w /\ reply'[v][m].id = id
               \/ \E l \in 1..Len(reply[v]) : reply'[v][m] = reply[v][l]
  BY <1>2, <1>3, AnswerOf
<1>5. \A i \in Id : handed[i] \in Nat /\ (handed[i] > 0 \/ i = id => handed'[i] > 0)
  <2> SUFFICES ASSUME NEW i \in Id
               PROVE  handed[i] \in Nat /\ (handed[i] > 0 \/ i = id => handed'[i] > 0)
    OBVIOUS
  <2>1. handed[i] \in Nat
    BY DEF SessionTypes
  <2>2. handed'[i] = IF i = id THEN handed[i] + 1 ELSE handed[i]
    BY <1>1 DEF Hands
  <2> QED BY <2>1, <2>2
<1>6. Responses'
  BY <1>3, <1>5 DEF Own, Responses
<1>7. RepliesHanded'
  <2> SUFFICES ASSUME NEW v \in Window, NEW m \in 1..Len(reply'[v]), reply'[v][m].id \in Id
               PROVE  handed'[reply'[v][m].id] > 0
    BY DEF RepliesHanded
  <2> QED BY <1>4, <1>5 DEF Own, RepliesHanded
<1>8. ASSUME Heeded' PROVE Orderly'
  <2>1. Orderly /\ Whole
    BY <1>3, <1>8 DEF Own, Heeded, Untorn
  <2>2. OnePerKind' /\ OwnResponse' /\ OwnRequests' /\ OwnQueries'
    BY <1>3, <2>1 DEF Orderly, OnePerKind, OwnResponse, OwnRequests, OwnQueries
  <2>3. window[w].pc # "idle" => id = window[w].id
    <3> SUFFICES ASSUME window[w].pc # "idle" PROVE id = window[w].id
      OBVIOUS
    <3>1. PICK query \in answering : query = [window |-> w, kind |-> k]
      BY <1>3
    <3>2. window[w].kind = k
      BY <2>1, <3>1 DEF Orderly, OwnQueries
    <3>3. Live(k) /\ id = data[k]
      BY <1>1, <2>1, HandOverReads
    <3>4. PICK v \in Window : window[v].pc # "idle" /\ window[v].kind = k /\ window[v].id = id
      BY <2>1, <3>3 DEF Orderly, KeptOwned, Owned
    <3>5. v = w
      BY <2>1, <3>2, <3>4 DEF Orderly, OnePerKind
    <3> QED BY <3>4, <3>5
  <2>4. OwnReplies'
    BY <1>3, <1>4, <2>1, <2>3 DEF Orderly, OwnReplies
  <2>5. \A j, i : Owned(j, i)' <=> Owned(j, i)
    BY <1>3 DEF Owned
  <2>6. \A j \in Kind : Live(j)' => Live(j)
    BY <1>3 DEF Live, ReadingOf, FillingOf
  <2>7. PendingOwned' /\ CopyingOwned' /\ KeptOwned'
    BY <1>3, <2>1, <2>5, <2>6 DEF Orderly, PendingOwned, CopyingOwned, KeptOwned
  <2> QED BY <2>2, <2>4, <2>7 DEF Orderly
<1> QED BY <1>6, <1>7, <1>8 DEF Own

LEMMA NodeOwn ==
    ASSUME SessionTypes, Own, NEW item \in pending, NodeAnswers(item) \/ NodeSilent(item), Heeded' => Heeded
    PROVE  Own'
<1>1. PICK k \in Kind : k = item.kind
  BY DEF SessionTypes, Item
<1>2. /\ pending' = pending \ {item}
      /\ UNCHANGED <<data, answering, request, reply, window, handed>>
  BY DEF NodeAnswers, NodeSilent, lineVars, ghostVars, bufferVars
<1>3. \/ copying' = copying \cup {item} /\ rcvd' = [rcvd EXCEPT ![k] = TRUE]
      \/ copying' = copying /\ rcvd' = rcvd
  BY <1>1 DEF NodeAnswers, NodeSilent, Slot, bufferVars
<1>4. Responses' /\ RepliesHanded'
  BY <1>2 DEF Own, Responses, RepliesHanded
<1>5. \A j \in Kind : Live(j)' => Live(j)
  <2>1. \A j \in Kind : j # k => rcvd'[j] = rcvd[j]
    BY <1>3 DEF SessionTypes
  <2>2. \A j : FillingOf(j) => FillingOf(j)'
    BY <1>3 DEF FillingOf
  <2>3. rcvd' = rcvd \/ FillingOf(k)'
    BY <1>1, <1>3 DEF FillingOf
  <2>4. \A j : ReadingOf(j)' <=> ReadingOf(j)
    BY <1>2 DEF ReadingOf
  <2> QED BY <2>1, <2>2, <2>3, <2>4 DEF Live
<1>6. ASSUME Heeded' PROVE Orderly'
  <2>1. Orderly
    BY <1>6 DEF Own
  <2>2. OnePerKind' /\ OwnRequests' /\ OwnReplies'
    BY <1>2, <2>1 DEF Orderly, OnePerKind, OwnRequests, OwnReplies
  <2>3. OwnResponse' /\ OwnQueries'
    BY <1>2, <2>1 DEF Orderly, OwnResponse, OwnQueries
  <2>4. \A j, i : Owned(j, i)' <=> Owned(j, i)
    BY <1>2 DEF Owned
  <2>5. PendingOwned' /\ KeptOwned'
    BY <1>2, <1>5, <2>1, <2>4 DEF Orderly, PendingOwned, KeptOwned
  <2>6. CopyingOwned'
    BY <1>3, <2>1, <2>4 DEF Orderly, PendingOwned, CopyingOwned
  <2> QED BY <2>2, <2>3, <2>5, <2>6 DEF Orderly
<1> QED BY <1>4, <1>6 DEF Own

LEMMA FillOwn ==
    ASSUME SessionTypes, Own, NEW item \in copying, FillBuffer(item), Heeded' => Heeded
    PROVE  Own'
<1>1. PICK k \in Kind : k = item.kind
  BY DEF SessionTypes, Item
<1>2. /\ copying' = copying \ {item} /\ data' = [data EXCEPT ![k] = item.id]
      /\ UNCHANGED <<rcvd, answering, pending, request, reply, window, handed>>
  BY <1>1 DEF FillBuffer, Slot, lineVars, ghostVars
<1>3. data'[k] = item.id /\ \A j \in Kind : j # k => data'[j] = data[j]
  BY <1>2 DEF SessionTypes
<1>4. Responses' /\ RepliesHanded'
  BY <1>2 DEF Own, Responses, RepliesHanded
<1>5. \A j \in Kind : j # k /\ Live(j)' => Live(j)
  <2>1. \A j : j # k /\ FillingOf(j) => FillingOf(j)'
    BY <1>1, <1>2 DEF FillingOf
  <2>2. \A j : ReadingOf(j)' <=> ReadingOf(j)
    BY <1>2 DEF ReadingOf
  <2> QED BY <1>2, <2>1, <2>2 DEF Live
<1>6. ASSUME Heeded' PROVE Orderly'
  <2>1. Orderly
    BY <1>6 DEF Own
  <2>2. OnePerKind' /\ OwnRequests' /\ OwnReplies'
    BY <1>2, <2>1 DEF Orderly, OnePerKind, OwnRequests, OwnReplies
  <2>3. OwnResponse' /\ OwnQueries'
    BY <1>2, <2>1 DEF Orderly, OwnResponse, OwnQueries
  <2>4. \A j, i : Owned(j, i)' <=> Owned(j, i)
    BY <1>2 DEF Owned
  <2>5. PendingOwned' /\ CopyingOwned'
    BY <1>2, <2>1, <2>4 DEF Orderly, PendingOwned, CopyingOwned
  <2>6. Owned(k, item.id)
    BY <1>1, <2>1 DEF Orderly, CopyingOwned
  <2>7. KeptOwned'
    <3> SUFFICES ASSUME NEW j \in Kind, Live(j)' PROVE Owned(j, data'[j])
      BY <2>4 DEF KeptOwned, Owned
    <3>1. CASE j = k
      BY <1>3, <2>6, <3>1
    <3>2. CASE j # k
      BY <1>3, <1>5, <2>1, <3>2 DEF Orderly, KeptOwned
    <3> QED BY <3>1, <3>2
  <2> QED BY <2>2, <2>3, <2>5, <2>7 DEF Orderly
<1> QED BY <1>4, <1>6 DEF Own

LEMMA EndsOwn == ASSUME SessionTypes, Own, BaseEnds, Heeded' => Heeded PROVE Own'
<1>1. /\ copying' = {} /\ answering' = {}
      /\ \A k \in Kind : ~rcvd'[k]
      /\ \A w \in Window : 1..Len(request'[w]) = {}
      /\ UNCHANGED <<pending, window, handed>>
  BY DEF BaseEnds
<1>2. \A w \in Window : reply'[w] = reply[w] \/ 1..Len(reply'[w]) = {}
  <2>1. PICK lost \in SUBSET Window : reply' = [w \in Window |-> IF w \in lost THEN <<>> ELSE reply[w]]
    BY DEF BaseEnds
  <2> QED BY <2>1
<1>3. Responses' /\ RepliesHanded'
  BY <1>1, <1>2 DEF Own, Responses, RepliesHanded
<1>4. ASSUME Heeded' PROVE Orderly'
  <2>1. Orderly
    BY <1>4 DEF Own
  <2>2. OnePerKind' /\ OwnResponse'
    BY <1>1, <2>1 DEF Orderly, OnePerKind, OwnResponse
  <2>3. OwnRequests' /\ OwnReplies' /\ OwnQueries'
    BY <1>1, <1>2, <2>1 DEF Orderly, OwnRequests, OwnReplies, OwnQueries
  <2>4. \A j, i : Owned(j, i)' <=> Owned(j, i)
    BY <1>1 DEF Owned
  <2>5. PendingOwned' /\ CopyingOwned'
    BY <1>1, <2>1, <2>4 DEF Orderly, PendingOwned, CopyingOwned
  <2>6. KeptOwned'
    BY <1>1 DEF KeptOwned, Live, FillingOf, ReadingOf
  <2> QED BY <2>2, <2>3, <2>5, <2>6 DEF Orderly
<1> QED BY <1>3, <1>4 DEF Own

LEMMA BothEmpty ==
    ASSUME NEW S, NEW q \in Seq(S), NEW r \in Seq(S), q \o r = <<>>
    PROVE  1..Len(q) = {} /\ 1..Len(r) = {}
<1>1. Len(q \o r) = Len(q) + Len(r) /\ Len(q) \in Nat /\ Len(r) \in Nat
  OBVIOUS
<1>2. Len(q \o r) = 0
  OBVIOUS
<1>3. Len(q) = 0 /\ Len(r) = 0
  BY <1>1, <1>2
<1> QED BY <1>3

(* A click that heeds the manual is of a kind that nobody works with, in a *)
(* window without queries or answers of its last command.                  *)
LEMMA ClickOwn ==
    ASSUME SessionTypes, Own, NEW w \in Window, NEW k \in Kind, Click(w, k), Heeded' => Heeded
    PROVE  Own'
<1>1. /\ commands < MaxCommands /\ window[w].pc = "idle"
      /\ window' = [window EXCEPT ![w] = [window[w] EXCEPT !.pc = "command", !.kind = k,
                                                           !.id = commands + 1]]
      /\ Sends(w, [poll |-> FALSE, kind |-> k, id |-> commands + 1])
      /\ UNCHANGED <<rcvd, data, copying, answering, pending, handed>>
  BY DEF Click, baseVars, bufferVars
<1>2. PICK item \in Item : item = [poll |-> FALSE, kind |-> k, id |-> commands + 1]
  <2>1. commands \in 0..MaxCommands /\ commands < MaxCommands
    BY <1>1 DEF SessionTypes
  <2>2. commands + 1 \in Label
    BY <2>1, LabelsAre DEF Label
  <2> QED BY <2>2 DEF Item
<1>3. /\ window'[w].pc = "command" /\ window'[w].kind = k /\ window'[w].id = commands + 1
      /\ window'[w].response = window[w].response
      /\ \A v \in Window : v # w => window'[v] = window[v]
  <2>1. window[w] \in Place /\ window \in [Window -> Place]
    BY DEF SessionTypes
  <2> QED BY <1>1, <2>1 DEF Place
<1>4. reply' = reply /\ \A v \in Window : v # w => request'[v] = request[v]
  BY <1>1, <1>2, SendsIs
<1>5. \A v \in Window : \A m \in 1..Len(request'[v]) :
               \/ v = w /\ request'[v][m] = item
               \/ \E l \in 1..Len(request[v]) : request'[v][m] = request[v][l]
  BY <1>1, <1>2, SendsOf
<1>6. window[w].response = NoId
  BY <1>1 DEF Own, Responses
<1>7. Responses' /\ RepliesHanded'
  BY <1>1, <1>3, <1>4, <1>6, LabelsAre DEF Own, Responses, RepliesHanded
<1>8. ASSUME Heeded' PROVE Orderly'
  <2>1. Orderly
    BY <1>8 DEF Own
  <2>2. ~Outstanding(k) /\ ~Expecting(w)
    BY <1>8 DEF Click, Heeded, Hasty
  <2>3. 1..Len(request[w]) = {} /\ 1..Len(reply[w]) = {}
    <3>1. request[w] \in Seq(Item) /\ reply[w] \in Seq(Item)
      BY DEF SessionTypes
    <3> QED BY <2>2, <3>1, BothEmpty DEF Expecting
  <2>4. \A v \in Window : window[v].pc # "idle" => window[v].kind # k
    BY <2>2 DEF Outstanding
  <2>5. OnePerKind'
    BY <1>3, <2>1, <2>4 DEF Orderly, OnePerKind
  <2>6. OwnRequests'
    <3> SUFFICES ASSUME NEW v \in Window, NEW m \in 1..Len(request'[v])
                 PROVE  /\ window'[v].pc # "idle" => request'[v][m].kind = window'[v].kind
                        /\ ~request'[v][m].poll => /\ window'[v].pc # "idle"
                                                   /\ request'[v][m].id = window'[v].id
      BY DEF OwnRequests
    <3>1. CASE v = w
      BY <1>2, <1>3, <1>5, <2>3, <3>1
    <3>2. CASE v # w
      BY <1>3, <1>4, <2>1, <3>2 DEF Orderly, OwnRequests
    <3> QED BY <3>1, <3>2
  <2>7. OwnReplies' /\ OwnResponse'
    BY <1>3, <1>4, <1>6, <2>1, <2>3 DEF Orderly, OwnReplies, OwnResponse
  <2>8. OwnQueries'
    <3>1. \A query \in answering : query.window # w /\ query.window \in Window
      BY <2>2 DEF Expecting, SessionTypes
    <3> QED BY <1>1, <1>3, <2>1, <3>1 DEF Orderly, OwnQueries
  <2>9. \A j, i : Owned(j, i) => Owned(j, i)'
    BY <1>1, <1>3 DEF Owned
  <2>10. PendingOwned' /\ CopyingOwned' /\ KeptOwned'
    BY <1>1, <2>1, <2>9, SameOwned
  <2> QED BY <2>5, <2>6, <2>7, <2>8, <2>10 DEF Orderly
<1> QED BY <1>7, <1>8 DEF Own

LEMMA ConnectOwn ==
    ASSUME SessionTypes, Own, NEW w \in Window, Connect(w), Heeded' => Heeded
    PROVE  Own'
<1>1. /\ \A v \in Window : reply'[v] = reply[v] \/ 1..Len(reply'[v]) = {}
      /\ UNCHANGED <<rcvd, data, copying, answering, pending, request, window, handed>>
  BY DEF Connect, baseVars, bufferVars, ghostVars, SessionTypes
<1>2. Responses' /\ RepliesHanded'
  BY <1>1 DEF Own, Responses, RepliesHanded
<1>3. ASSUME Heeded' PROVE Orderly'
  <2>1. Orderly
    BY <1>3 DEF Own
  <2>2. OnePerKind' /\ OwnResponse' /\ OwnRequests'
    BY <1>1, <2>1 DEF Orderly, OnePerKind, OwnResponse, OwnRequests
  <2>3. OwnReplies' /\ OwnQueries'
    BY <1>1, <2>1 DEF Orderly, OwnReplies, OwnQueries
  <2>4. \A j, i : Owned(j, i) => Owned(j, i)'
    BY <1>1 DEF Owned
  <2>5. PendingOwned' /\ CopyingOwned' /\ KeptOwned'
    BY <1>1, <2>1, <2>4, SameOwned
  <2> QED BY <2>2, <2>3, <2>5 DEF Orderly
<1> QED BY <1>2, <1>3 DEF Own

(* A window that waits for an answer may get one that was handed over.     *)
LEMMA ReadOwn ==
    ASSUME SessionTypes, Own, NEW w \in Window, readXbeeProcess(w), Heeded' => Heeded
    PROVE  Own'
<1>1. PICK rest \in Rests(reply[w]) : reply' = [reply EXCEPT ![w] = rest]
  BY DEF readXbeeProcess
<1>2. /\ reply[w] \in Seq(Item) /\ Head(reply[w]) = reply[w][1] /\ 1 \in 1..Len(reply[w])
      /\ UNCHANGED <<request, rcvd, data, copying, answering, pending, handed>>
  BY RestIs DEF readXbeeProcess, SessionTypes, baseVars, bufferVars, ghostVars
<1>3. \A v \in Window : \A m \in 1..Len(reply'[v]) : \E l \in 1..Len(reply[v]) : reply'[v][m] = reply[v][l]
  <2>1. reply'[w] = rest /\ \A v \in Window : v # w => reply'[v] = reply[v]
    BY <1>1 DEF SessionTypes
  <2>2. \A m \in 1..Len(rest) : \E l \in 1..Len(reply[w]) : rest[m] = reply[w][l]
    BY <1>2, RestOf
  <2> QED BY <2>1, <2>2
<1>4. window' = window \/ (window[w].pc = "poll" /\ window' = [window EXCEPT ![w].response = reply[w][1].id])
  BY <1>2 DEF readXbeeProcess, Noted
<1>5. /\ \A v \in Window : /\ window'[v].kind = window[v].kind /\ window'[v].id = window[v].id
                           /\ window'[v].pc = window[v].pc
      /\ \A v \in Window : \/ window'[v].response = window[v].response
                           \/ v = w /\ window[v].pc = "poll" /\ window'[v].response = reply[v][1].id
  <2>1. CASE window' = window
    BY <2>1
  <2>2. CASE window[w].pc = "poll" /\ window' = [window EXCEPT ![w].response = reply[w][1].id]
    <3>1. window[w] \in Place /\ window \in [Window -> Place]
      BY DEF SessionTypes
    <3> QED BY <2>2, <3>1 DEF Place
  <2> QED BY <1>4, <2>1, <2>2
<1>6. RepliesHanded'
  BY <1>2, <1>3 DEF Own, RepliesHanded
<1>7. Responses'
  <2> SUFFICES ASSUME NEW v \in Window
               PROVE  /\ window'[v].pc # "poll" => window'[v].response = NoId
                      /\ window'[v].response \in Id => handed[window'[v].response] > 0
    BY <1>2 DEF Responses
  <2>1. CASE window'[v].response = window[v].response
    BY <1>5, <2>1 DEF Own, Responses
  <2>2. CASE v = w /\ window[v].pc = "poll" /\ window'[v].response = reply[v][1].id
    BY <1>2, <1>5, <2>2 DEF Own, RepliesHanded
  <2> QED BY <1>5, <2>1, <2>2
<1>8. ASSUME Heeded' PROVE Orderly'
  <2>1. Orderly
    BY <1>8 DEF Own
  <2>2. OnePerKind'
    BY <1>5, <2>1 DEF Orderly, OnePerKind
  <2>3. OwnRequests'
    BY <1>2, <1>5, <2>1 DEF Orderly, OwnRequests
  <2>4. OwnReplies'
    BY <1>3, <1>5, <2>1 DEF Orderly, OwnReplies
  <2>5. OwnResponse'
    BY <1>2, <1>5, <2>1 DEF Orderly, OwnReplies, OwnResponse
  <2>6. OwnQueries'
    BY <1>2, <1>5, <2>1 DEF Orderly, OwnQueries, SessionTypes
  <2>7. \A j, i : Owned(j, i)' <=> Owned(j, i)
    BY <1>5, SameWork
  <2>8. PendingOwned' /\ CopyingOwned' /\ KeptOwned'
    BY <1>2, <2>1, <2>7, SameOwned
  <2> QED BY <2>2, <2>3, <2>4, <2>5, <2>6, <2>8 DEF Orderly
<1> QED BY <1>6, <1>7, <1>8 DEF Own

LEMMA PollsOwn ==
    ASSUME SessionTypes, Own, NEW w \in Window, BeginPolls(w) \/ PollAgain(w), Heeded' => Heeded
    PROVE  Own'
<1>1. /\ reply' = reply /\ window'[w].pc = "poll" /\ window'[w].kind = window[w].kind
      /\ window'[w].id = window[w].id /\ window'[w].response = NoId /\ window[w].pc # "idle"
      /\ \A v \in Window : v # w => window'[v] = window[v]
      /\ Polls(w, window[w].kind) /\ window[w].kind \in Kind
      /\ UNCHANGED <<rcvd, data, copying, answering, pending, handed>>
  BY PollTypes DEF BeginPolls, PollAgain, baseVars, bufferVars, ghostVars, SessionTypes
<1>2. PICK item \in Item : item = [poll |-> TRUE, kind |-> window[w].kind, id |-> NoId]
  BY <1>1, ReplyItem, LabelsAre
<1>3. \A v \in Window : \A m \in 1..Len(request'[v]) :
               \/ v = w /\ request'[v][m] = item
               \/ \E l \in 1..Len(request[v]) : request'[v][m] = request[v][l]
  BY <1>1, <1>2, SendsOf DEF Polls
<1>4. \A v \in Window : /\ window'[v].kind = window[v].kind /\ window'[v].id = window[v].id
                        /\ window'[v].pc = "idle" <=> window[v].pc = "idle"
                        /\ window'[v].response \in {NoId, window[v].response}
                        /\ window'[v].pc # "poll" => window[v].pc # "poll"
  BY <1>1
<1>5. Responses' /\ RepliesHanded'
  BY <1>1, <1>4, LabelsAre DEF Own, Responses, RepliesHanded
<1>6. ASSUME Heeded' PROVE Orderly'
  <2>1. Orderly
    BY <1>6 DEF Own
  <2>2. OnePerKind'
    BY <1>4, <2>1 DEF Orderly, OnePerKind
  <2>3. OwnRequests'
    <3> SUFFICES ASSUME NEW v \in Window, NEW m \in 1..Len(request'[v])
                 PROVE  /\ window'[v].pc # "idle" => request'[v][m].kind = window'[v].kind
                        /\ ~request'[v][m].poll => /\ window'[v].pc # "idle"
                                                   /\ request'[v][m].id = window'[v].id
      BY DEF OwnRequests
    <3>1. CASE v = w /\ request'[v][m] = item
      BY <1>1, <1>2, <3>1
    <3>2. CASE \E l \in 1..Len(request[v]) : request'[v][m] = request[v][l]
      BY <1>4, <2>1, <3>2 DEF Orderly, OwnRequests
    <3> QED BY <1>3, <3>1, <3>2
  <2>4. OwnReplies' /\ OwnResponse'
    BY <1>1, <1>4, <2>1 DEF Orderly, OwnReplies, OwnResponse
  <2>5. OwnQueries'
    BY <1>1, <1>4, <2>1 DEF Orderly, OwnQueries, SessionTypes
  <2>6. \A j, i : Owned(j, i)' <=> Owned(j, i)
    BY <1>4, SameWork
  <2>7. PendingOwned' /\ CopyingOwned' /\ KeptOwned'
    BY <1>1, <2>1, <2>6, SameOwned
  <2> QED BY <2>2, <2>3, <2>4, <2>5, <2>7 DEF Orderly
<1> QED BY <1>5, <1>6 DEF Own

(* A window that ends with its answer leaves nothing of its command behind.*)
LEMMA LeaveOwn ==
    ASSUME SessionTypes, Sole, Untorn, Own, NEW w \in Window, NEW failed \in BOOLEAN, Leave(w, failed),
           failed \/ (window[w].pc # "idle" /\ window[w].response # NoId), Heeded' => Heeded
    PROVE  Own'
<1>1. /\ window'[w].pc = "idle" /\ window'[w].response = NoId
      /\ \A v \in Window : v # w => window'[v] = window[v]
      /\ UNCHANGED <<rcvd, data, copying, answering, pending, request, reply, handed>>
  BY AtRestIs DEF Leave, baseVars, bufferVars, lineVars, SessionTypes
<1>2. Responses' /\ RepliesHanded'
  BY <1>1, LabelsAre DEF Own, Responses, RepliesHanded
<1>3. ASSUME Heeded' PROVE Orderly'
  <2>1. Orderly /\ Whole /\ ~failed
    BY <1>3 DEF Own, Leave, Heeded, Untorn
  <2>2. PICK i \in Id : i = window[w].id /\ handed[i] > 0
    <3>1. window[w].response = window[w].id /\ window[w].response # NoId
      BY <2>1 DEF Orderly, OwnResponse
    <3>2. window[w].id \in Id
      BY <3>1, LabelsAre DEF SessionTypes, Place
    <3>3. handed[window[w].id] > 0
      BY <3>1, <3>2 DEF Own, Responses
    <3> QED BY <3>2, <3>3
  <2>3. handed[i] # 0
    BY <2>2 DEF SessionTypes
  <2>4. /\ \A m \in 1..Len(request[w]) : request[w][m].poll
        /\ \A item \in pending \cup copying : item.id # i
        /\ \A k \in Kind : Live(k) => data[k] # i
    <3>1. ~Waits(request[w], i)
      <4>1. i \in Label
        BY LabelsAre
      <4> QED BY <2>3, <4>1 DEF Sole, RequestsFresh, Fresh
    <3>2. \A m \in 1..Len(request[w]) : request[w][m].poll
      BY <2>1, <2>2, <3>1 DEF Waits, Orderly, OwnRequests
    <3>3. \A item \in pending : item.id # i
      BY <2>3 DEF Sole, PendingOnce, Fresh
    <3>4. \A item \in copying : item.id # i
      BY <2>1, <2>3 DEF Whole
    <3>5. \A k \in Kind : Live(k) => data[k] # i
      BY <2>1, <2>3 DEF Whole
    <3> QED BY <3>2, <3>3, <3>4, <3>5
  <2>5. OnePerKind' /\ OwnReplies' /\ OwnResponse'
    BY <1>1, <2>1 DEF Orderly, OnePerKind, OwnReplies, OwnResponse
  <2>6. OwnRequests'
    BY <1>1, <2>1, <2>4 DEF Orderly, OwnRequests
  <2>7. OwnQueries'
    BY <1>1, <2>1 DEF Orderly, OwnQueries, SessionTypes
  <2>8. \A k, j : Owned(k, j) /\ j # i => Owned(k, j)'
    BY <1>1, <2>2 DEF Owned
  <2>9. PendingOwned' /\ CopyingOwned'
    BY <1>1, <2>1, <2>4, <2>8 DEF Orderly, PendingOwned, CopyingOwned
  <2>10. KeptOwned'
    <3>1. \A k : Live(k)' <=> Live(k)
      BY <1>1 DEF Live, FillingOf, ReadingOf
    <3> QED BY <1>1, <2>1, <2>4, <2>8, <3>1 DEF Orderly, KeptOwned
  <2> QED BY <2>5, <2>6, <2>7, <2>9, <2>10 DEF Orderly
<1> QED BY <1>2, <1>3 DEF Own

LEMMA OwnStep == SessionTypes /\ Sole /\ Untorn /\ Own /\ [Next]_vars => Own'
<1> SUFFICES ASSUME SessionTypes, Sole, Untorn, Own, [Next]_vars PROVE Own'
  OBVIOUS
<1>0. Heeded' => Heeded
  BY BlamedGrows DEF Heeded
<1>1. ASSUME NEW w \in Window, Handle(w) PROVE Own'
  BY <1>0, <1>1, HandleCommandOwn, PollInVainOwn, HandlePollOwn, HandOverOwn DEF Handle
<1>2. ASSUME NEW w \in Window, Proceed(w) PROVE Own'
  <2>1. CASE BeginPolls(w) \/ PollAgain(w)
    BY <1>0, <2>1, PollsOwn
  <2>2. CASE TimesOut(w)
    BY <1>0, <2>2, LeaveOwn DEF TimesOut, Return
  <2>3. CASE Answered(w)
    <3>1. Leave(w, FALSE) /\ window[w].pc # "idle" /\ window[w].response # NoId
      BY <2>3 DEF Answered, Return, Resumed
    <3> QED BY <1>0, <3>1, LeaveOwn
  <2> QED BY <1>2, <2>1, <2>2, <2>3 DEF Proceed
<1>3. ASSUME NEW w \in Window, SendTimesOut(w) PROVE Own'
  BY <1>0, <1>3, LeaveOwn DEF SendTimesOut
<1>4. CASE init_socket \/ UNCHANGED vars
  <2>1. UNCHANGED <<rcvd, data, copying, answering, pending, request, reply, window, handed>>
    BY <1>4 DEF init_socket, vars, baseVars, bufferVars, lineVars, ghostVars
  <2>2. Responses' /\ RepliesHanded'
    BY <2>1 DEF Own, Responses, RepliesHanded
  <2>3. Orderly => OnePerKind' /\ OwnRequests' /\ OwnReplies' /\ OwnQueries' /\ OwnResponse'
    BY <2>1 DEF Orderly, OnePerKind, OwnRequests, OwnReplies, OwnQueries, OwnResponse
  <2>4. Orderly => PendingOwned' /\ CopyingOwned' /\ KeptOwned'
    BY <2>1, SameOwned DEF Owned
  <2> QED BY <1>0, <2>2, <2>3, <2>4 DEF Own, Orderly
<1> QED BY <1>0, <1>1, <1>2, <1>3, <1>4, NodeOwn, FillOwn, EndsOwn, ConnectOwn, ClickOwn, ReadOwn DEF Next

(* A window that gets an answer gets the one to its own command, however   *)
(* many windows work on top of each other and share the flags and buffers  *)
(* of the base, when no command is sent while an answer of its kind is     *)
(* outstanding or the window has queries on their way, none is given up,   *)
(* and no query is served between the flag and the buffer of an answer.    *)
THEOREM AnswerIsOwn == Spec => []OwnAnswer
<1>1. SessionTypes /\ Own => OwnAnswer
  BY DEF Own, Heeded, Orderly, OwnResponse, OwnAnswer
<1>2. Spec => [](SessionTypes /\ Sole /\ Untorn /\ Own)
  BY TypesInit, TypesStep, SoleInit, SoleStep, UntornInit, UntornStep, OwnInit, OwnStep, PTL DEF Spec
<1> QED BY <1>1, <1>2, PTL

-----------------------------------------------------------------------------
(* Whether the answer is noticed.  While nothing is to blame one window is *)
(* at work at most, and has one request or reply on its way, or a query    *)
(* that main has begun to answer, while its status is "sent", and none     *)
(* otherwise.                                                              *)
Linked == up /\ \A w \in Window : connected[w]

OneAtWork == /\ \A w \in Window : window[w].pc # "idle" => stack = <<w>>
             /\ stack = <<>> => comStatus # "sent"
             /\ stack # <<>> => \E w \in Window : window[w].pc # "idle"

Served(w) == \E query \in answering : query.window = w

OnTheWay ==
    \A w \in Window :
        IF window[w].pc # "idle" /\ comStatus = "sent"
        THEN \/ Len(request[w]) = 1 /\ Len(reply[w]) = 0 /\ ~Served(w)
             \/ Len(request[w]) = 0 /\ Len(reply[w]) = 1 /\ ~Served(w)
             \/ Len(request[w]) = 0 /\ Len(reply[w]) = 0 /\ Served(w)
        ELSE Len(request[w]) = 0 /\ Len(reply[w]) = 0 /\ ~Served(w)

(* Its answer is not handed over before it asks, and then it is in the     *)
(* reply to its query or has been read.                                    *)
Asks ==
    \A w \in Window :
        /\ window[w].pc # "idle" => window[w].id \in Id
        /\ window[w].pc = "command" => /\ \A m \in 1..Len(request[w]) : ~request[w][m].poll
                                       /\ handed[window[w].id] = 0 /\ ~Served(w)
        /\ window[w].pc = "poll" => /\ \A m \in 1..Len(request[w]) : request[w][m].poll
                                    /\ \A m \in 1..Len(reply[w]) : reply[w][m].poll

Gets ==
    \A w \in Window \ Strict : window[w].pc = "poll" /\ handed[window[w].id] > 0 =>
        /\ Len(request[w]) = 0 /\ ~Served(w)
        /\ IF Len(reply[w]) = 0 THEN window[w].response = window[w].id
                                ELSE reply[w][1].id = window[w].id

Calm == Linked /\ OneAtWork /\ OnTheWay /\ Asks /\ Gets

Noticing == blamed = {} => Calm

LEMMA CalmInit == Init => Noticing
<1> SUFFICES ASSUME Init PROVE Calm
  BY DEF Noticing
<1>1. \A w \in Window : window[w].pc = "idle" /\ Len(request[w]) = 0 /\ Len(reply[w]) = 0
  BY DEF Init, AtRest
<1>2. Linked /\ stack = <<>> /\ comStatus # "sent" /\ answering = {}
  BY DEF Init, Linked
<1>3. OneAtWork /\ OnTheWay
  BY <1>1, <1>2 DEF OneAtWork, OnTheWay, Served
<1>4. Asks /\ Gets
  BY <1>1 DEF Asks, Gets
<1> QED BY <1>2, <1>3, <1>4 DEF Calm

LEMMA NothingQueued ==
    ASSUME NEW S, NEW q \in Seq(S), Len(q) = 0
    PROVE  /\ q = <<>>
           /\ \A x \in S : Len(Append(q, x)) = 1 /\ Append(q, x)[1] = x
OBVIOUS

LEMMA OneWindow ==
    ASSUME OneAtWork, NEW w \in Window, window[w].pc # "idle"
    PROVE  stack = <<w>> /\ \A v \in Window : v # w => window[v].pc = "idle"
<1> SUFFICES ASSUME NEW v \in Window, window[v].pc # "idle" PROVE v = w
  BY DEF OneAtWork
<1>1. stack = <<w>> /\ stack = <<v>>
  BY DEF OneAtWork
<1> QED BY <1>1

(* The base takes the one request.                                         *)
LEMMA Taken ==
    ASSUME SessionTypes, Calm, NEW w \in Window, Pull(w)
    PROVE  /\ window[w].pc # "idle" /\ comStatus = "sent" /\ ~Served(w)
           /\ Len(request[w]) = 1 /\ Len(request'[w]) = 0 /\ Len(reply[w]) = 0
           /\ \A v \in Window : v # w => window[v].pc = "idle" /\ request'[v] = request[v]
<1>1. /\ request[w] \in Seq(Item) /\ request'[w] \in Rests(request[w])
      /\ \A v \in Window : v # w => request'[v] = request[v]
  BY PullIs DEF SessionTypes
<1>2. Len(request[w]) >= 1 /\ Len(request[w]) \in Nat
      /\ \E n \in 1..Len(request[w]) : Len(request'[w]) = Len(request[w]) - n
  <2>1. /\ Len(request[w]) >= 1
        /\ \E n \in 1..Len(request[w]) : /\ Len(request'[w]) = Len(request[w]) - n
                                         /\ \A m \in 1..Len(request'[w]) :
                                                /\ request'[w][m] = request[w][m + n]
                                                /\ m + n \in 1..Len(request[w])
    BY <1>1, RestIs
  <2> QED BY <1>1, <2>1
<1>3. window[w].pc # "idle" /\ comStatus = "sent" /\ Len(request[w]) = 1 /\ Len(reply[w]) = 0 /\ ~Served(w)
  BY <1>2 DEF Calm, OnTheWay
<1>4. Len(request'[w]) = 0
  BY <1>2, <1>3
<1>5. \A v \in Window : v # w => window[v].pc = "idle"
  BY <1>3, OneWindow DEF Calm
<1> QED BY <1>1, <1>3, <1>4, <1>5

LEMMA Answers ==
    ASSUME SessionTypes, NEW w \in Window, NEW item \in Item, Answer(w, item), Len(reply[w]) = 0
    PROVE  /\ Len(reply'[w]) = 1 /\ reply'[w][1] = item
           /\ \A v \in Window : v # w => reply'[v] = reply[v]
<1>1. reply[w] \in Seq(Item) /\ reply'[w] = Append(reply[w], item)
      /\ \A v \in Window : v # w => reply'[v] = reply[v]
  BY DEF SessionTypes, Answer
<1> QED BY <1>1, NothingQueued

LEMMA HandleCommandCalm ==
    ASSUME SessionTypes, Calm, NEW w \in Window, HandleCommand(w)
    PROVE  Calm'
<1>1. PICK echo \in Item : Answer(w, echo) /\ Pull(w) /\ ~request[w][1].poll
  <2>1. Head(request[w]) = request[w][1] /\ request[w][1] \in Item
    BY PullIs DEF HandleCommand
  <2>2. [request[w][1] EXCEPT !.id = NoId] \in Item
    BY <2>1, LabelsAre DEF Item
  <2> QED BY <2>1, <2>2 DEF HandleCommand
<1>2. UNCHANGED <<up, connected, window, stack, comStatus, handed, answering>>
  BY DEF HandleCommand, ghostVars, bufferVars
<1>3. /\ window[w].pc # "idle" /\ comStatus = "sent" /\ ~Served(w)
      /\ Len(request[w]) = 1 /\ Len(request'[w]) = 0 /\ Len(reply'[w]) = 1 /\ reply'[w][1] = echo
      /\ \A v \in Window : v # w => request'[v] = request[v] /\ reply'[v] = reply[v]
  BY <1>1, Taken, Answers
<1>4. window[w].pc = "command"
  <2>1. window[w].pc # "poll"
    BY <1>1, <1>3 DEF Calm, Asks
  <2> QED BY <1>3, <2>1 DEF SessionTypes, Place
<1>5. \A v : Served(v)' <=> Served(v)
  BY <1>2 DEF Served
<1>6. Linked' /\ OneAtWork'
  BY <1>2 DEF Calm, Linked, OneAtWork
<1>7. OnTheWay'
  BY <1>2, <1>3, <1>5 DEF Calm, OnTheWay
<1>8. Asks' /\ Gets'
  BY <1>2, <1>3, <1>4, <1>5 DEF Calm, Asks, Gets
<1> QED BY <1>6, <1>7, <1>8 DEF Calm

LEMMA PollInVainCalm ==
    ASSUME SessionTypes, Calm, NEW w \in Window, PollInVain(w)
    PROVE  Calm'
<1>1. PICK k \in Kind : NoAnswer(w, k)
  BY PollInVainIs
<1>2. PICK item \in Item : item = [poll |-> TRUE, kind |-> k, id |-> NoId]
  BY ReplyItem, LabelsAre
<1>3. Pull(w) /\ Answer(w, item) /\ item.poll /\ request[w][1].poll
      /\ UNCHANGED <<up, connected, window, stack, comStatus, handed, answering>>
  BY <1>1, <1>2 DEF NoAnswer, PollInVain, ghostVars, bufferVars
<1>4. /\ window[w].pc # "idle" /\ comStatus = "sent" /\ ~Served(w)
      /\ Len(request[w]) = 1 /\ Len(request'[w]) = 0 /\ Len(reply'[w]) = 1 /\ reply'[w][1] = item
      /\ \A v \in Window : v # w => /\ window[v].pc = "idle"
                                    /\ request'[v] = request[v] /\ reply'[v] = reply[v]
  BY <1>3, Taken, Answers
<1>5. window[w].pc = "poll"
  <2>1. window[w].pc # "command"
    BY <1>3, <1>4 DEF Calm, Asks
  <2> QED BY <1>4, <2>1 DEF SessionTypes, Place
<1>6. \A v : Served(v)' <=> Served(v)
  BY <1>3 DEF Served
<1>7. Linked' /\ OneAtWork'
  BY <1>3 DEF Calm, Linked, OneAtWork
<1>8. OnTheWay'
  BY <1>3, <1>4, <1>6 DEF Calm, OnTheWay
<1>9. Asks'
  BY <1>3, <1>4, <1>5 DEF Calm, Asks
<1>10. Gets'
  <2>1. w \notin Strict => ~(handed[window[w].id] > 0)
    BY <1>4, <1>5 DEF Calm, Gets
  <2> QED BY <1>3, <1>4, <2>1 DEF Gets
<1> QED BY <1>7, <1>8, <1>9, <1>10 DEF Calm

LEMMA HandlePollCalm ==
    ASSUME SessionTypes, Calm, NEW w \in Window, HandlePoll(w)
    PROVE  Calm'
<1>1. PICK k \in Kind : Begins(w, k)
  BY HandlePollIs
<1>2. /\ Pull(w) /\ request[w][1].poll /\ answering = {} /\ answering' = {[window |-> w, kind |-> k]}
      /\ UNCHANGED <<up, connected, reply, window, stack, comStatus, handed>>
  BY <1>1 DEF Begins, HandlePoll
<1>3. /\ window[w].pc # "idle" /\ comStatus = "sent"
      /\ Len(request[w]) = 1 /\ Len(request'[w]) = 0 /\ Len(reply[w]) = 0
      /\ \A v \in Window : v # w => window[v].pc = "idle" /\ request'[v] = request[v]
  BY <1>2, Taken
<1>4. window[w].pc = "poll"
  <2>1. window[w].pc # "command"
    BY <1>2, <1>3 DEF Calm, Asks
  <2> QED BY <1>3, <2>1 DEF SessionTypes, Place
<1>5. \A v : Served(v)' <=> v = w
  BY <1>2 DEF Served
<1>6. \A v : ~Served(v)
  BY <1>2 DEF Served
<1>7. Linked' /\ OneAtWork'
  BY <1>2 DEF Calm, Linked, OneAtWork
<1>8. OnTheWay'
  BY <1>2, <1>3, <1>5, <1>6 DEF Calm, OnTheWay
<1>9. Asks'
  BY <1>2, <1>3, <1>4 DEF Calm, Asks
<1>10. Gets'
  <2>1. w \notin Strict => ~(handed[window[w].id] > 0)
    BY <1>3, <1>4 DEF Calm, Gets
  <2> QED BY <1>2, <1>3, <2>1 DEF Gets
<1> QED BY <1>7, <1>8, <1>9, <1>10 DEF Calm

(* The reply to the query that main has begun to answer brings the answer  *)
(* of another command, or that of the window's, for the first time.        *)
LEMMA HandOverCalm ==
    ASSUME SessionTypes, Calm, NEW w \in Window, HandOver(w)
    PROVE  Calm'
<1>1. PICK k \in Kind, id \in Label : Hands(w, k, id)
  BY HandOverIs
<1>2. PICK item \in Item : item = [poll |-> TRUE, kind |-> k, id |-> id]
  BY ReplyItem
<1>3. /\ Answer(w, item) /\ answering' = {} /\ item.poll /\ item.id = id
      /\ handed' = [i \in Id |-> IF i = id THEN handed[i] + 1 ELSE handed[i]]
      /\ UNCHANGED <<up, connected, request, window, stack, comStatus>>
  BY <1>1, <1>2 DEF Hands, HandOver
<1>4. Served(w)
  <2>1. PICK query \in answering : query = [window |-> w, kind |-> k]
    BY <1>1 DEF Hands
  <2> QED BY <2>1 DEF Served
<1>5. /\ window[w].pc # "idle" /\ comStatus = "sent" /\ Len(request[w]) = 0 /\ Len(reply[w]) = 0
  BY <1>4 DEF Calm, OnTheWay
<1>6. window[w].pc = "poll"
  <2>1. window[w].pc # "command"
    BY <1>4 DEF Calm, Asks
  <2> QED BY <1>5, <2>1 DEF SessionTypes, Place
<1>7. \A v \in Window : v # w => window[v].pc = "idle"
  BY <1>5, OneWindow DEF Calm
<1>8. /\ Len(reply'[w]) = 1 /\ reply'[w][1] = item
      /\ \A v \in Window : v # w => reply'[v] = reply[v]
  BY <1>3, <1>5, Answers
<1>9. \A v : ~Served(v)'
  BY <1>3 DEF Served
<1>10. \A v \in Window : v # w => Len(request[v]) = 0 /\ Len(reply[v]) = 0
  BY <1>7 DEF Calm, OnTheWay
<1>11. Linked' /\ OneAtWork'
  BY <1>3 DEF Calm, Linked, OneAtWork
<1>12. OnTheWay'
  BY <1>3, <1>5, <1>7, <1>8, <1>9, <1>10 DEF OnTheWay
<1>13. Asks'
  BY <1>3, <1>6, <1>7, <1>8 DEF Calm, Asks
<1>14. Gets'
  <2> SUFFICES ASSUME w \notin Strict, handed'[window[w].id] > 0
               PROVE  item.id = window[w].id
    BY <1>3, <1>5, <1>7, <1>8, <1>9 DEF Gets
  <2>1. ~(handed[window[w].id] > 0)
    BY <1>4, <1>6 DEF Calm, Gets
  <2>2. window[w].id # id => handed'[window[w].id] = handed[window[w].id]
    BY <1>3, <1>5 DEF Calm, Asks
  <2> QED BY <1>3, <2>1, <2>2
<1> QED BY <1>11, <1>12, <1>13, <1>14 DEF Calm

LEMMA ClickCalm ==
    ASSUME SessionTypes, Sole, Calm, NEW w \in Window, NEW k \in Kind, Click(w, k), blamed' = {}
    PROVE  Calm'
<1>1. /\ commands < MaxCommands /\ window[w].pc = "idle"
      /\ window' = [window EXCEPT ![w] = [window[w] EXCEPT !.pc = "command", !.kind = k,
                                                           !.id = commands + 1]]
      /\ Sends(w, [poll |-> FALSE, kind |-> k, id |-> commands + 1])
      /\ stack' = Append(stack, w)
      /\ UNCHANGED <<up, answering, handed>>
  BY DEF Click, baseVars, bufferVars
<1>2. commands + 1 \in Id /\ ~(commands + 1 <= commands)
  <2>1. commands \in 0..MaxCommands /\ commands < MaxCommands
    BY <1>1 DEF SessionTypes
  <2> QED BY <2>1, LabelsAre
<1>3. PICK item \in Item : item = [poll |-> FALSE, kind |-> k, id |-> commands + 1]
  BY <1>2, LabelsAre DEF Item
<1>4. /\ window'[w].pc = "command" /\ window'[w].id = commands + 1
      /\ \A v \in Window : v # w => window'[v] = window[v]
  <2>1. window[w] \in Place /\ window \in [Window -> Place]
    BY DEF SessionTypes
  <2> QED BY <1>1, <2>1 DEF Place
<1>5. stack = <<>>
  BY DEF Click
<1>6. \A v \in Window : window[v].pc = "idle" /\ Len(request[v]) = 0 /\ Len(reply[v]) = 0 /\ ~Served(v)
  <2>1. \A v \in Window : window[v].pc = "idle"
    BY <1>5 DEF Calm, OneAtWork
  <2> QED BY <2>1 DEF Calm, OnTheWay
<1>7. /\ request' = [request EXCEPT ![w] = Append(request[w], item)]
      /\ comStatus' = "sent" /\ UNCHANGED <<connected, reply>>
  BY <1>1, <1>3 DEF Sends, Calm, Linked
<1>8. /\ Len(request'[w]) = 1 /\ request'[w][1] = item
      /\ \A v \in Window : v # w => request'[v] = request[v]
  <2>1. request[w] \in Seq(Item) /\ request \in [Window -> Seq(Item)]
    BY DEF SessionTypes
  <2> QED BY <1>6, <1>7, <2>1, NothingQueued
<1>9. handed[commands + 1] = 0
  <2>1. handed[commands + 1] \in Nat /\ ~(handed[commands + 1] > 0)
    BY <1>2 DEF Sole, HandedSoFar, SessionTypes
  <2> QED BY <2>1
<1>10. \A v : Served(v)' <=> Served(v)
  BY <1>1 DEF Served
<1>11. Linked'
  BY <1>1, <1>7 DEF Calm, Linked
<1>12. OneAtWork'
  <2>1. stack' = <<w>>
    BY <1>1, <1>5
  <2> QED BY <1>4, <1>6, <2>1 DEF OneAtWork
<1>13. OnTheWay'
  BY <1>4, <1>6, <1>7, <1>8, <1>10 DEF OnTheWay
<1>14. Asks'
  BY <1>1, <1>2, <1>3, <1>4, <1>6, <1>8, <1>9, <1>10 DEF Asks
<1>15. Gets'
  BY <1>4, <1>6 DEF Gets
<1> QED BY <1>11, <1>12, <1>13, <1>14, <1>15 DEF Calm

LEMMA ReadCalm ==
    ASSUME SessionTypes, Calm, NEW w \in Window, readXbeeProcess(w)
    PROVE  Calm'
<1>1. PICK rest \in Rests(reply[w]) : reply' = [reply EXCEPT ![w] = rest]
  BY DEF readXbeeProcess
<1>2. /\ reply[w] \in Seq(Item) /\ Len(reply[w]) \in Nat /\ Len(reply[w]) >= 1 /\ Head(reply[w]) = reply[w][1]
      /\ reply[w][1] \in Item /\ Len(rest) < Len(reply[w]) /\ Len(rest) \in Nat
  <2>1. reply[w] \in Seq(Item)
    BY DEF SessionTypes
  <2>2. /\ Len(reply[w]) >= 1 /\ Head(reply[w]) = reply[w][1] /\ reply[w][1] \in Item
        /\ rest \in Seq(Item)
        /\ \E n \in 1..Len(reply[w]) : /\ Len(rest) = Len(reply[w]) - n
                                       /\ \A m \in 1..Len(rest) : /\ rest[m] = reply[w][m + n]
                                                                  /\ m + n \in 1..Len(reply[w])
    BY <2>1, RestIs
  <2> QED BY <2>1, <2>2
<1>3. window[w].pc # "idle" /\ comStatus = "sent" /\ Len(request[w]) = 0 /\ Len(reply[w]) = 1 /\ ~Served(w)
  BY <1>2 DEF Calm, OnTheWay
<1>4. /\ Len(reply'[w]) = 0 /\ \A v \in Window : v # w => reply'[v] = reply[v]
      /\ comStatus' # "sent" /\ window' = Noted(w, reply[w][1])
      /\ UNCHANGED <<up, connected, request, stack, handed, answering>>
  BY <1>1, <1>2, <1>3 DEF readXbeeProcess, SessionTypes, baseVars, bufferVars, ghostVars
<1>5. \A v \in Window : v # w => window[v].pc = "idle"
  BY <1>3, OneWindow DEF Calm
<1>6. /\ \A v \in Window : /\ window'[v].pc = window[v].pc /\ window'[v].id = window[v].id
      /\ w \notin Strict /\ window[w].pc = "poll" /\ reply[w][1].poll
             => window'[w].response = reply[w][1].id
  <2>1. window[w] \in Place /\ window \in [Window -> Place]
    BY DEF SessionTypes
  <2> QED BY <1>4, <2>1 DEF Noted, Matches, Place
<1>7. \A v : Served(v)' <=> Served(v)
  BY <1>4 DEF Served
<1>8. Linked' /\ OneAtWork'
  BY <1>3, <1>4, <1>6 DEF Calm, Linked, OneAtWork
<1>9. OnTheWay'
  BY <1>3, <1>4, <1>5, <1>6, <1>7 DEF Calm, OnTheWay
<1>10. Asks'
  BY <1>4, <1>5, <1>6, <1>7 DEF Calm, Asks
<1>11. Gets'
  <2> SUFFICES ASSUME w \notin Strict, window[w].pc = "poll", handed[window[w].id] > 0
               PROVE  window'[w].response = window[w].id
    BY <1>3, <1>4, <1>5, <1>6, <1>7 DEF Gets
  <2>1. reply[w][1].poll
    BY <1>3 DEF Calm, Asks
  <2>2. reply[w][1].id = window[w].id
    BY <1>3 DEF Calm, Gets
  <2> QED BY <1>6, <2>1, <2>2
<1> QED BY <1>8, <1>9, <1>10, <1>11 DEF Calm

(* No query is sent after the answer was handed over.                      *)
LEMMA PollsCalm ==
    ASSUME SessionTypes, Calm, NEW w \in Window, BeginPolls(w) \/ PollAgain(w)
    PROVE  Calm'
<1>1. /\ window'[w].pc = "poll" /\ window'[w].id = window[w].id /\ window[w].pc # "idle"
      /\ \A v \in Window : v # w => window'[v] = window[v]
      /\ Polls(w, window[w].kind) /\ window[w].kind \in Kind
      /\ comStatus # "sent" /\ UNCHANGED <<up, answering, stack, handed>>
  BY PollTypes DEF BeginPolls, PollAgain, Resumed, baseVars, bufferVars, ghostVars, SessionTypes
<1>2. PICK item \in Item : item = [poll |-> TRUE, kind |-> window[w].kind, id |-> NoId]
  BY <1>1, ReplyItem, LabelsAre
<1>3. /\ request' = [request EXCEPT ![w] = Append(request[w], item)]
      /\ comStatus' = "sent" /\ UNCHANGED <<connected, reply>>
  BY <1>1, <1>2 DEF Polls, Sends, Calm, Linked
<1>4. \A v \in Window : Len(request[v]) = 0 /\ Len(reply[v]) = 0 /\ ~Served(v)
  BY <1>1 DEF Calm, OnTheWay
<1>5. /\ Len(request'[w]) = 1 /\ request'[w][1] = item
      /\ \A v \in Window : v # w => request'[v] = request[v]
  <2>1. request[w] \in Seq(Item) /\ request \in [Window -> Seq(Item)]
    BY DEF SessionTypes
  <2> QED BY <1>3, <1>4, <2>1, NothingQueued
<1>6. \A v \in Window : v # w => window[v].pc = "idle"
  BY <1>1, OneWindow DEF Calm
<1>7. w \notin Strict => ~(handed[window[w].id] > 0)
  <2> SUFFICES ASSUME w \notin Strict, handed[window[w].id] > 0 PROVE FALSE
    OBVIOUS
  <2>1. CASE BeginPolls(w)
    BY <2>1 DEF BeginPolls, Resumed, Calm, Asks
  <2>2. CASE PollAgain(w)
    <3>1. window[w].pc = "poll" /\ window[w].response = NoId
      BY <2>2 DEF PollAgain, Resumed
    <3>2. window[w].response = window[w].id /\ window[w].id \in Id
      BY <1>4, <3>1 DEF Calm, Gets, Asks
    <3> QED BY <3>1, <3>2, LabelsAre
  <2> QED BY <2>1, <2>2
<1>8. \A v : Served(v)' <=> Served(v)
  BY <1>1 DEF Served
<1>9. Linked'
  BY <1>1, <1>3 DEF Calm, Linked
<1>10. OneAtWork'
  <2>1. stack = <<w>>
    BY <1>1 DEF Calm, OneAtWork
  <2> QED BY <1>1, <1>6, <2>1 DEF OneAtWork
<1>11. OnTheWay'
  BY <1>1, <1>3, <1>4, <1>5, <1>6, <1>8 DEF OnTheWay
<1>12. Asks'
  BY <1>1, <1>2, <1>3, <1>4, <1>5, <1>6 DEF Calm, Asks
<1>13. Gets'
  BY <1>1, <1>6, <1>7 DEF Gets
<1> QED BY <1>9, <1>10, <1>11, <1>12, <1>13 DEF Calm

LEMMA LeaveCalm ==
    ASSUME SessionTypes, Calm, NEW w \in Window, Answered(w)
    PROVE  Calm'
<1>1. /\ window[w].pc # "idle" /\ comStatus # "sent" /\ Leave(w, FALSE)
      /\ UNCHANGED <<up, connected, request, reply, comStatus, handed, answering>>
  BY DEF Answered, Return, Resumed, Leave, baseVars, bufferVars, lineVars
<1>2. stack = <<w>> /\ \A v \in Window : v # w => window[v].pc = "idle"
  BY <1>1, OneWindow DEF Calm
<1>3. stack' = <<>>
  BY <1>1, <1>2 DEF Leave, Front
<1>4. \A v \in Window : window'[v].pc = "idle"
  BY <1>1, <1>2 DEF Leave, AtRest, SessionTypes
<1>5. Linked' /\ OneAtWork'
  BY <1>1, <1>3, <1>4 DEF Calm, Linked, OneAtWork
<1>6. OnTheWay'
  BY <1>1, <1>4 DEF Calm, OnTheWay, Served
<1>7. Asks' /\ Gets'
  BY <1>4 DEF Asks, Gets
<1> QED BY <1>5, <1>6, <1>7 DEF Calm

LEMMA CalmSame ==
    ASSUME Calm, UNCHANGED <<up, answering, connected, request, reply, window, stack, comStatus, handed>>
    PROVE  Calm'
<1>1. \A w : Served(w)' <=> Served(w)
  BY DEF Served
<1> QED BY <1>1 DEF Calm, Linked, OneAtWork, OnTheWay, Asks, Gets

LEMMA CalmStep == SessionTypes /\ Sole /\ Noticing /\ [Next]_vars => Noticing'
<1> SUFFICES ASSUME SessionTypes, Sole, Noticing, [Next]_vars, blamed' = {} PROVE Calm'
  BY DEF Noticing
<1>1. blamed = {}
  BY BlamedGrows
<1>2. Calm
  BY <1>1 DEF Noticing
<1>3. ASSUME NEW w \in Window, Handle(w) PROVE Calm'
  BY <1>2, <1>3, HandleCommandCalm, PollInVainCalm, HandlePollCalm, HandOverCalm DEF Handle
<1>4. ASSUME NEW w \in Window, Proceed(w) \/ SendTimesOut(w) PROVE Calm'
  <2>1. CASE BeginPolls(w) \/ PollAgain(w)
    BY <1>2, <2>1, PollsCalm
  <2>2. CASE Answered(w)
    BY <1>2, <2>2, LeaveCalm
  <2>3. CASE TimesOut(w) \/ SendTimesOut(w)
    BY <2>3 DEF TimesOut, SendTimesOut, Return, Leave
  <2> QED BY <1>4, <2>1, <2>2, <2>3 DEF Proceed
<1>5. ASSUME NEW item \in pending, NodeAnswers(item) \/ NodeSilent(item) PROVE Calm'
  BY <1>2, <1>5, CalmSame DEF NodeAnswers, NodeSilent, lineVars, ghostVars, bufferVars
<1>6. ASSUME NEW item \in copying, FillBuffer(item) PROVE Calm'
  BY <1>2, <1>6, CalmSame DEF FillBuffer, lineVars, ghostVars
<1>7. ASSUME NEW w \in Window, Connect(w) PROVE Calm'
  BY <1>2, <1>7 DEF Connect, Calm, Linked
<1>8. ~BaseEnds /\ ~init_socket
  BY <1>2 DEF BaseEnds, init_socket, Calm, Linked
<1>9. CASE UNCHANGED vars
  BY <1>2, <1>9, CalmSame DEF vars, baseVars, bufferVars, lineVars, ghostVars
<1> QED BY <1>2, <1>3, <1>4, <1>5, <1>6, <1>7, <1>8, <1>9, ReadCalm, ClickCalm DEF Next

(* While no window works on top of another, no command is sent too soon    *)
(* and none given up, no query comes between flag and buffer, and the base *)
(* does not end, a window that accepts the echo of a query has the answer  *)
(* to its command once the base has handed it over.                        *)
THEOREM AnswerIsNoticed == Spec => []AnswerNoticed
<1>1. SessionTypes /\ Noticing => AnswerNoticed
  <2> SUFFICES ASSUME SessionTypes, Noticing, blamed = {}, NEW w \in Window \ Strict,
                      window[w].pc = "poll", ~Expecting(w), handed[window[w].id] > 0
               PROVE  window[w].response = window[w].id
    BY DEF AnswerNoticed, Noticed
  <2>1. Len(reply[w]) = 0
    <3>1. request[w] \in Seq(Item) /\ reply[w] \in Seq(Item) /\ request[w] \o reply[w] = <<>>
      BY DEF SessionTypes, Expecting
    <3>2. 1..Len(reply[w]) = {} /\ Len(reply[w]) \in Nat
      BY <3>1, BothEmpty
    <3>3. 1 \notin 1..Len(reply[w])
      BY <3>2
    <3> QED BY <3>2, <3>3
  <2>2. Gets
    BY DEF Noticing, Calm
  <2> QED BY <2>1, <2>2 DEF Gets
<1>2. Spec => [](SessionTypes /\ Sole /\ Noticing)
  BY TypesInit, TypesStep, SoleInit, SoleStep, CalmInit, CalmStep, PTL DEF Spec
<1> QED BY <1>1, <1>2, PTL

=============================================================================
