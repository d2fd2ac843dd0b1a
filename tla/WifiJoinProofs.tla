---------------------------- MODULE WifiJoinProofs ----------------------------
(***************************************************************************)
(* Proofs about WifiJoin: the types; that JOIN_CONNECTING always has an    *)
(* owner, for any number of tasks; and, for a single task, that each event *)
(* counts for its own join.                                                *)
(***************************************************************************)
EXTENDS WifiJoin, NatLemmas, SequenceTheorems, TLAPS

PCs == {"idle", "busy", "mark", "register", "command", "settle",
        "wait", "check", "linked", "free", "detach", "unregister", "clear",
        "dhcp", "address", "assigned"}
TaskType == [pc : PCs, sec : {"open", "wpa"}, own : BOOLEAN, join : Joins,
             result : {None, "SUCCESS", "ERROR", "TIMEOUT"}, late : BOOLEAN]
SemaType == [Apps -> (SUBSET Joins) \cup {None}]
Links == {"down", "joining", "no network", "associated", "up"}

ApType == [link : Links, join : Joins,
           sec : {"open", "wpa"}, seen : SUBSET (Kinds \cup {"bad key"}),
           lost : SUBSET Kinds]

\* What the handlers and the queue leave behind.
SharedOK ==
  /\ sema \in SemaType
  /\ status \subseteq Flags
  /\ error \in Errors
  /\ joinData \in Apps \cup {None}
  /\ discSema \in {None, 0, 1}
  /\ dhcp \in {"off", "asking", "bound"}
  /\ UseThread => queue \in Seq(Events) /\ Len(queue) <= QueueSize

LEMMA TypeIs ==
  TypeOK <=> /\ task \in [Apps -> TaskType] /\ registered \subseteq Kinds
             /\ ap \in ApType /\ SharedOK
BY DEF TypeOK, TaskType, PCs, SemaType, ApType, Links, SharedOK

LEMMA TypeMade ==
  ASSUME task' \in [Apps -> TaskType], registered' \subseteq Kinds, ap' \in ApType, SharedOK'
  PROVE  TypeOK'
BY DEF TypeOK, TaskType, PCs, SemaType, ApType, Links, SharedOK

LEMMA EventIs ==
  ASSUME ap \in ApType, NEW kind \in Kinds, NEW reason \in Reasons
  PROVE  /\ Event(kind, reason) \in Events /\ Event(kind, reason).kind = kind
         /\ Event(kind, reason).join = ap.join /\ Event(kind, reason).reason = reason
BY DEF Event, Events, ApType
-----------------------------------------------------------------------------
(***************************************************************************)
(* The queue of the worker.                                                *)
(***************************************************************************)
LEMMA PendingIs ==
  ASSUME SharedOK
  PROVE  /\ ~UseThread => Pending = {}
         /\ Idle => Pending = {}
         /\ UseThread => /\ queue \in Seq(Events)
                         /\ Pending = {queue[i] : i \in 1 .. Len(queue)}
<1>1. ~UseThread => Idle
  BY DEF UseThread, Idle
<1>2. Idle => Pending = {}
  BY DEF Pending
<1>3. ASSUME UseThread PROVE Pending = {queue[i] : i \in 1 .. Len(queue)}
  <2>1. queue \in Seq(Events) /\ DOMAIN queue = 1 .. Len(queue)
    BY <1>3 DEF SharedOK
  <2>2. CASE Idle
    <3>1. queue = <<>>
      BY <1>3, <2>2 DEF Idle, UseThread
    <3> QED BY <1>2, <2>2, <3>1
  <2>3. CASE ~Idle
    BY <2>1, <2>3 DEF Pending
  <2> QED BY <2>2, <2>3
<1> QED BY <1>1, <1>2, <1>3 DEF SharedOK

\* A push: the event is in the queue, or the queue is as it was.
LEMMA Pushed ==
  ASSUME SharedOK, UseThread, NEW e \in Events,
         Push(e)
  PROVE  /\ queue' \in Seq(Events) /\ Len(queue') <= QueueSize /\ UseThread'
         /\ Pending \subseteq Pending' /\ Pending' \subseteq Pending \cup {e}
         /\ queue' = queue \/ e \in Pending'
<1>1. queue \in Seq(Events) /\ Len(queue) <= QueueSize /\ QueueSize \in Nat
  BY JoinAssumption DEF SharedOK
<1>2. CASE Len(queue) < QueueSize /\ queue' = Append(queue, e)
  <2> DEFINE q == Append(queue, e)
             z == Len(queue)
  <2>1. /\ q \in Seq(Events) /\ z \in Nat /\ Len(q) = z + 1
        /\ \A i \in 1 .. z : q[i] = queue[i]
        /\ q[z + 1] = e
    BY <1>1, AppendProperties
  <2> HIDE DEF q
  <2>2. queue' = q
    BY <1>2 DEF q
  <2>3. Len(queue') <= QueueSize
    BY <1>1, <1>2, <2>1, <2>2
  <2>4. UseThread'
    BY <2>1, <2>2, JoinAssumption DEF UseThread
  <2>5. Pending' = {q[i] : i \in 1 .. (z + 1)}
    <3>1. q # <<>> /\ DOMAIN q = 1 .. (z + 1)
      BY <2>1
    <3>2. ~Idle'
      BY <2>2, <2>4, <3>1 DEF Idle, UseThread
    <3> QED BY <2>2, <3>1, <3>2 DEF Pending
  <2>6. Pending = {queue[i] : i \in 1 .. z}
    BY PendingIs
  <2>7. 1 .. (z + 1) = (1 .. z) \cup {z + 1}
    BY <2>1
  <2> QED BY <2>1, <2>2, <2>3, <2>4, <2>5, <2>6, <2>7
<1>3. CASE UNCHANGED queue
  BY <1>1, <1>3 DEF UseThread, Pending, Idle
<1> QED BY <1>2, <1>3 DEF Push

\* A pop: the rest waits on.
LEMMA Popped ==
  ASSUME SharedOK, ~Idle, queue' = Tail(queue)
  PROVE  /\ UseThread /\ Len(queue) \in Nat \ {0} /\ Head(queue) = queue[1]
         /\ Head(queue) \in Events /\ Head(queue) \in Pending
         /\ queue' \in Seq(Events) /\ Len(queue') = Len(queue) - 1 /\ UseThread'
         /\ Len(queue') <= QueueSize
         /\ \A i \in 1 .. Len(queue') : queue'[i] = queue[i + 1]
         /\ Pending' \subseteq Pending /\ Pending \subseteq Pending' \cup {Head(queue)}
<1> DEFINE z == Len(queue)
<1>1. UseThread /\ queue # <<>>
  BY DEF Idle, UseThread
<1>2. queue \in Seq(Events) /\ z <= QueueSize /\ QueueSize \in Nat
  BY <1>1, JoinAssumption DEF SharedOK
<1>3. z \in Nat \ {0} /\ Head(queue) = queue[1] /\ \A i \in 1 .. z : queue[i] \in Events
  BY <1>1, <1>2, EmptySeq, ElementOfSeq
<1>4. /\ Tail(queue) \in Seq(Events) /\ Len(Tail(queue)) = z - 1
      /\ \A i \in 1 .. (z - 1) : Tail(queue)[i] = queue[i + 1]
  BY <1>1, <1>2, HeadTailProperties
<1>5. UseThread'
  BY <1>4, JoinAssumption DEF UseThread
<1>6. Pending = {queue[i] : i \in 1 .. z}
  BY <1>1, PendingIs
<1>7. Pending' = {queue'[i] : i \in 1 .. (z - 1)}
  <2>1. DOMAIN queue' = 1 .. (z - 1)
    BY <1>4
  <2>2. CASE queue' = <<>>
    <3>1. Len(queue') = 0 /\ Len(queue') = z - 1
      BY <1>4, <2>2, EmptySeq
    <3> HIDE DEF z
    <3>2. 1 .. (z - 1) = {}
      BY <1>3, <3>1
    <3>3. {queue'[i] : i \in 1 .. (z - 1)} = {}
      BY <3>2
    <3>4. Idle'
      BY <2>2 DEF Idle
    <3> QED BY <3>3, <3>4 DEF Pending
  <2>3. CASE queue' # <<>>
    <3>1. ~Idle'
      BY <1>5, <2>3 DEF Idle, UseThread
    <3> QED BY <2>1, <3>1 DEF Pending
  <2> QED BY <2>2, <2>3
<1> HIDE DEF z
<1>8. \A i \in 1 .. (z - 1) : i + 1 \in 1 .. z /\ queue'[i] = queue[i + 1]
  BY <1>3, <1>4
<1>9. \A i \in 1 .. z : i = 1 \/ (i - 1 \in 1 .. (z - 1) /\ queue'[i - 1] = queue[i])
  <2>1. \A i \in 1 .. z : i # 1 => i - 1 \in 1 .. (z - 1) /\ (i - 1) + 1 = i
    BY <1>3
  <2> QED BY <1>8, <2>1
<1>10. Pending' \subseteq Pending
  BY <1>6, <1>7, <1>8
<1>11. Pending \subseteq Pending' \cup {Head(queue)}
  <2>1. SUFFICES ASSUME NEW i \in 1 .. z PROVE queue[i] \in Pending' \cup {Head(queue)}
    BY <1>6
  <2>2. CASE i = 1
    BY <1>3, <2>2
  <2>3. CASE i # 1
    BY <1>7, <1>9, <2>3
  <2> QED BY <2>2, <2>3
<1>12. 1 \in 1 .. z /\ z - 1 <= QueueSize
  BY <1>2, <1>3
<1> QED BY <1>1, <1>3, <1>4, <1>5, <1>6, <1>8, <1>10, <1>11, <1>12 DEF z
-----------------------------------------------------------------------------
(***************************************************************************)
(* Types.                                                                  *)
(***************************************************************************)
LEMMA UpType ==
  ASSUME SharedOK, NEW e \in Events
  PROVE  Up(e) \in SemaType
<1>1. CASE joinData = None \/ sema[joinData] = None
  BY <1>1 DEF Up, SharedOK
<1>2. CASE ~(joinData = None \/ sema[joinData] = None)
  <2>1. joinData \in Apps /\ sema[joinData] \in SUBSET Joins /\ e.join \in Joins
    BY <1>2 DEF SharedOK, SemaType, Events
  <2>2. sema[joinData] \cup {e.join} \in SUBSET Joins
    BY <2>1
  <2>3. Up(e) = [sema EXCEPT ![joinData] = sema[joinData] \cup {e.join}]
    BY <1>2 DEF Up
  <2> QED BY <2>1, <2>2, <2>3 DEF SharedOK, SemaType
<1> QED BY <1>1, <1>2

LEMMA HandleType ==
  ASSUME SharedOK, NEW e \in Events, Handle(e)
  PROVE  /\ sema' \in SemaType /\ status' \subseteq Flags /\ error' \in Errors
         /\ joinData' = joinData /\ discSema' \in {None, 0, 1}
         /\ dhcp' \in {dhcp, "off"}
<1>1. CASE NoNetworkHdl(e)
  BY <1>1 DEF NoNetworkHdl, SharedOK, Flags
<1>2. CASE ConnectedHdl(e)
  BY <1>2, UpType DEF ConnectedHdl, SharedOK, Flags
<1>3. CASE HandshakeDoneHdl(e)
  BY <1>3, UpType DEF HandshakeDoneHdl, SharedOK, Flags
<1>4. CASE DisconnHdl(e)
  <2>1. error' \in Errors
    BY <1>4 DEF DisconnHdl, Blame, SharedOK, Errors
  <2>2. /\ discSema' \in {None, 0, 1} /\ status' = status /\ joinData' = joinData
        /\ sema' = Up(e) /\ dhcp' = "off"
    BY <1>4 DEF DisconnHdl, SharedOK
  <2> QED BY <2>1, <2>2, UpType DEF SharedOK
<1> QED BY <1>1, <1>2, <1>3, <1>4 DEF Handle

\* The three outcomes of wifi_indication.
LEMMA IndicateIs ==
  ASSUME NEW e, Indicate(e)
  PROVE  \/ e.kind \notin registered /\ UNCHANGED <<shared, queue>>
         \/ e.kind \in registered /\ ~UseThread /\ Handle(e) /\ UNCHANGED queue
         \/ /\ e.kind \in registered /\ UseThread /\ UNCHANGED shared
            /\ Push(e)
BY DEF Indicate

LEMMA IndicateType ==
  ASSUME SharedOK, NEW e \in Events, Indicate(e)
  PROVE  SharedOK' /\ joinData' = joinData /\ (UseThread' <=> UseThread)
<1>1. CASE UNCHANGED <<shared, queue>>
  BY <1>1 DEF SharedOK, shared, UseThread
<1>2. CASE ~UseThread /\ Handle(e) /\ UNCHANGED queue
  <2>1. /\ sema' \in SemaType /\ status' \subseteq Flags /\ error' \in Errors
        /\ joinData' = joinData /\ discSema' \in {None, 0, 1} /\ dhcp' \in {dhcp, "off"}
    BY <1>2, HandleType
  <2> QED BY <1>2, <2>1 DEF SharedOK, UseThread
<1>3. CASE /\ UseThread /\ UNCHANGED shared
           /\ Push(e)
  <2>1. queue' \in Seq(Events) /\ Len(queue') <= QueueSize /\ UseThread'
    BY <1>3, Pushed
  <2> QED BY <1>3, <2>1 DEF SharedOK, shared
<1> QED BY <1>1, <1>2, <1>3, IndicateIs

LEMMA DropType ==
  ASSUME SharedOK, ap \in ApType, Drop
  PROVE  SharedOK' /\ joinData' = joinData /\ (UseThread' <=> UseThread)
<1>1. Event("Disconnect", "other") \in Events
  BY EventIs DEF Kinds, Reasons
<1>2. CASE Connected
  BY <1>1, <1>2, IndicateType DEF Drop
<1>3. CASE ~Connected
  BY <1>3 DEF Drop, shared, SharedOK, UseThread
<1> QED BY <1>2, <1>3

\* The number of a new call.
LEMMA LatestIs ==
  ASSUME task \in [Apps -> TaskType]
  PROVE  /\ Latest \in Joins /\ \A a \in Apps : task[a].join <= Latest
         /\ Latest < MaxCalls => Latest + 1 \in Joins
<1> DEFINE T == {task[a].join : a \in Apps}
<1>1. T \in SUBSET (0 .. MaxCalls) /\ T # {} /\ MaxCalls \in Nat
  BY JoinAssumption DEF TaskType, Joins
<1> HIDE DEF T
<1>2. \E x \in T : \A y \in T : y <= x
  BY <1>1, NatMax
<1>3. \E x \in T : \A y \in T : x >= y
  BY <1>1, <1>2
<1>4. Max(T) \in T /\ \A y \in T : Max(T) >= y
  BY <1>3 DEF Max
<1>5. Latest = Max(T)
  BY DEF Latest, T
<1>6. Latest \in Joins /\ \A y \in T : y <= Latest
  BY <1>1, <1>4, <1>5 DEF Joins
<1>7. \A a \in Apps : task[a].join <= Latest
  BY <1>6 DEF T
<1>8. Latest < MaxCalls => Latest + 1 \in Joins
  BY <1>1, <1>6 DEF Joins
<1> QED BY <1>6, <1>7, <1>8

LEMMA EnterType ==
  ASSUME task \in [Apps -> TaskType], NEW a \in Apps, NEW pc \in PCs,
         NEW result \in {None, "SUCCESS", "ERROR", "TIMEOUT"}, Enter(a, pc, result),
         Latest < MaxCalls
  PROVE  /\ task' \in [Apps -> TaskType]
         /\ task'[a].pc = pc /\ task'[a].result = result
         /\ task'[a].late = task[a].late /\ task'[a].join = Latest + 1
         /\ \A b \in Apps : b # a => task'[b] = task[b]
<1>1. PICK s \in Securities, own \in Own :
        task' = [task EXCEPT ![a].join = Latest + 1, ![a].sec = s, ![a].own = own,
                   ![a].result = result, ![a].pc = pc]
  BY DEF Enter
<1>2. s \in {"open", "wpa"} /\ own \in BOOLEAN /\ Latest + 1 \in Joins /\ task[a] \in TaskType
  BY JoinAssumption, LatestIs
<1> DEFINE r == [task[a] EXCEPT !.join = Latest + 1, !.sec = s, !.own = own,
                                !.result = result, !.pc = pc]
<1>3. /\ r \in TaskType /\ r.pc = pc /\ r.result = result
      /\ r.late = task[a].late /\ r.join = Latest + 1
  BY <1>2 DEF TaskType
<1> HIDE DEF r
<1>4. task' = [task EXCEPT ![a] = r]
  <2>1. task'[a] = r
    BY <1>1, <1>2 DEF r
  <2>2. DOMAIN task' = Apps /\ task' = [b \in Apps |-> task'[b]] /\ \A b \in Apps : b # a => task'[b] = task[b]
    BY <1>1
  <2> QED BY <2>1, <2>2
<1> QED BY <1>3, <1>4

LEMMA GotoIs ==
  ASSUME task \in [Apps -> TaskType], NEW a \in Apps, NEW pc \in PCs, Goto(a, pc)
  PROVE  /\ task' \in [Apps -> TaskType]
         /\ task'[a].pc = pc /\ task'[a].join = task[a].join /\ task'[a].sec = task[a].sec
         /\ task'[a].result = task[a].result /\ task'[a].late = task[a].late
         /\ \A b \in Apps : b # a => task'[b] = task[b]
<1> DEFINE r == [task[a] EXCEPT !.pc = pc]
<1>1. task[a] \in TaskType
  OBVIOUS
<1>2. /\ r \in TaskType /\ r.pc = pc /\ r.join = task[a].join /\ r.sec = task[a].sec
      /\ r.result = task[a].result /\ r.late = task[a].late
  BY <1>1 DEF TaskType
<1>3. task' = [task EXCEPT ![a] = r]
  BY DEF Goto
<1> HIDE DEF r
<1> QED BY <1>2, <1>3

LEMMA ResultIs ==
  ASSUME task \in [Apps -> TaskType], NEW a \in Apps, NEW pc \in PCs,
         NEW result \in {None, "SUCCESS", "ERROR", "TIMEOUT"},
         task' = [task EXCEPT ![a].pc = pc, ![a].result = result]
  PROVE  /\ task' \in [Apps -> TaskType]
         /\ task'[a].pc = pc /\ task'[a].join = task[a].join /\ task'[a].sec = task[a].sec
         /\ task'[a].result = result /\ task'[a].late = task[a].late
         /\ \A b \in Apps : b # a => task'[b] = task[b]
<1> DEFINE r == [task[a] EXCEPT !.pc = pc, !.result = result]
<1>1. task[a] \in TaskType
  OBVIOUS
<1>2. /\ r \in TaskType /\ r.pc = pc /\ r.join = task[a].join /\ r.sec = task[a].sec
      /\ r.result = result /\ r.late = task[a].late
  BY <1>1 DEF TaskType
<1>3. task' = [task EXCEPT ![a] = r]
  OBVIOUS
<1> HIDE DEF r
<1>4. r \in TaskType
  BY <1>2
<1>5. task' \in [Apps -> TaskType]
  BY ONLY task \in [Apps -> TaskType], <1>3, <1>4
<1>6. task'[a] = r /\ \A b \in Apps : b # a => task'[b] = task[b]
  BY ONLY task \in [Apps -> TaskType], a \in Apps, <1>3
<1> QED BY <1>2, <1>5, <1>6

\* LwIP_DHCP is done.
LEMMA AssignedIs ==
  ASSUME task \in [Apps -> TaskType], NEW a \in Apps, Assigned(a)
  PROVE  /\ task' \in [Apps -> TaskType]
         /\ task'[a].pc = "idle" /\ task'[a].join = task[a].join /\ task'[a].sec = task[a].sec
         /\ task'[a].result = task[a].result /\ task'[a].late = (dhcp = "off")
         /\ \A b \in Apps : b # a => task'[b] = task[b]
<1> DEFINE r == [task[a] EXCEPT !.pc = "idle", !.late = (dhcp = "off")]
<1>1. task[a] \in TaskType /\ (dhcp = "off") \in BOOLEAN
  OBVIOUS
<1>2. /\ r \in TaskType /\ r.pc = "idle" /\ r.join = task[a].join /\ r.sec = task[a].sec
      /\ r.result = task[a].result /\ r.late = (dhcp = "off")
  BY <1>1 DEF TaskType, PCs
<1>3. task' = [task EXCEPT ![a] = r]
  BY DEF Assigned
<1> HIDE DEF r
<1> QED BY <1>2, <1>3

\* The driver reports an event and moves the link.
LEMMA DriverIs ==
  ASSUME ap \in ApType, Driver
  PROVE  \E kind \in Kinds, reason \in Reasons,
            link \in Links :
           /\ Report(kind, reason, link)
           /\ \/ kind = "NoNetwork" /\ ap.link = "joining" /\ link = "no network"
              \/ kind = "Disconnect" /\ ap.link # "down" /\ link = "down"
              \/ /\ kind = "Connect" /\ ap.link = "joining"
                 /\ link = IF ap.sec = "open" THEN "up" ELSE "associated"
              \/ kind = "Handshake" /\ ap.link = "associated" /\ link = "up"
           /\ reason = "handshake timeout" => kind = "Disconnect" /\ ap.link = "associated"
<1>1. CASE ap.link = "joining" /\ Report("NoNetwork", "other", "no network")
  BY <1>1 DEF Kinds, Reasons, Links
<1>2. CASE ap.link = "no network" /\ Report("Disconnect", "other", "down")
  BY <1>2 DEF Kinds, Reasons, Links
<1>3. CASE ap.link = "joining" /\ Report("Disconnect", "refused", "down")
  BY <1>3 DEF Kinds, Reasons, Links
<1>4. CASE /\ ap.link = "joining"
           /\ Report("Connect", "other", IF ap.sec = "open" THEN "up" ELSE "associated")
  <2> DEFINE link == IF ap.sec = "open" THEN "up" ELSE "associated"
  <2>1. link \in Links
    BY DEF Links
  <2> QED BY <1>4, <2>1 DEF Kinds, Reasons
<1>5. CASE ap.link = "associated" /\ Report("Handshake", "other", "up")
  BY <1>5 DEF Kinds, Reasons, Links
<1>6. CASE /\ ap.link = "associated"
           /\ \E r \in {"handshake timeout", "other"} : Report("Disconnect", r, "down")
  BY <1>6 DEF Kinds, Reasons, Links
<1>7. CASE ap.link = "up" /\ Report("Disconnect", "other", "down")
  BY <1>7 DEF Kinds, Reasons, Links
<1> QED BY <1>1, <1>2, <1>3, <1>4, <1>5, <1>6, <1>7 DEF Driver

\* What the handlers never get to see.
LEMMA LostIs ==
  ASSUME ap \in ApType, NEW e \in Events
  PROVE  /\ Lost(e) \in SUBSET Kinds /\ ap.lost \subseteq Lost(e)
         /\ UseThread /\ e.kind \in registered /\ queue' = queue => e.kind \in Lost(e)
BY DEF Lost, ApType, Events

LEMMA DroppedIs ==
  ASSUME ap \in ApType, ap' = Dropped
  PROVE  /\ ap' \in ApType /\ ap'.link = "down" /\ ap'.join = ap.join /\ ap'.sec = ap.sec
         /\ ap'.seen = ap.seen /\ ap.lost \subseteq ap'.lost
         /\ Connected => ap'.lost = Lost(Event("Disconnect", "other"))
<1> DEFINE e == Event("Disconnect", "other")
           lost == IF Connected THEN Lost(e) ELSE ap.lost
<1>1. e \in Events
  BY EventIs DEF Kinds, Reasons
<1>2. lost \in SUBSET Kinds /\ ap.lost \subseteq lost
  BY <1>1, LostIs DEF ApType
<1>3. ap' = [ap EXCEPT !.link = "down", !.lost = lost]
  BY DEF Dropped
<1>4. Connected => lost = Lost(Event("Disconnect", "other"))
  OBVIOUS
<1> HIDE DEF lost
<1> QED BY <1>2, <1>3, <1>4 DEF ApType, Links

LEMMA ReportType ==
  ASSUME TypeOK, NEW kind \in Kinds, NEW reason \in Reasons,
         NEW link \in Links,
         Report(kind, reason, link)
  PROVE  /\ TypeOK' /\ joinData' = joinData /\ (UseThread' <=> UseThread)
         /\ Indicate(Event(kind, reason)) /\ task' = task /\ registered' = registered
         /\ ap'.link = link /\ ap'.join = ap.join /\ ap'.sec = ap.sec
         /\ ap'.seen = ap.seen \cup {kind} /\ ap'.lost = Lost(Event(kind, reason))
<1>1. ap \in ApType /\ SharedOK
  BY TypeIs
<1>2. SharedOK' /\ joinData' = joinData /\ (UseThread' <=> UseThread)
  BY <1>1, EventIs, IndicateType DEF Report
<1>3. /\ ap' \in ApType /\ ap'.link = link /\ ap'.join = ap.join /\ ap'.sec = ap.sec
      /\ ap'.seen = ap.seen \cup {kind} /\ ap'.lost = Lost(Event(kind, reason))
  <2> DEFINE lost == Lost(Event(kind, reason))
  <2>1. lost \in SUBSET Kinds
    BY <1>1, EventIs, LostIs
  <2>2. ap' = [ap EXCEPT !.link = link, !.seen = ap.seen \cup {kind}, !.lost = lost]
    BY DEF Report
  <2> HIDE DEF lost
  <2>3. /\ ap' \in ApType /\ ap'.link = link /\ ap'.join = ap.join /\ ap'.sec = ap.sec
        /\ ap'.seen = ap.seen \cup {kind} /\ ap'.lost = lost
    BY <1>1, <2>1, <2>2 DEF ApType
  <2> QED BY <2>3 DEF lost
<1>4. Indicate(Event(kind, reason)) /\ task' = task /\ registered' = registered
  BY DEF Report
<1> QED BY <1>2, <1>3, <1>4, TypeIs, TypeMade

LEMMA WorkerType ==
  ASSUME TypeOK, Worker
  PROVE  /\ TypeOK' /\ joinData' = joinData /\ UseThread /\ UseThread'
         /\ Handle(Head(queue)) /\ Head(queue) \in Events
<1>1. SharedOK /\ ~Idle /\ queue' = Tail(queue) /\ Handle(Head(queue))
  BY TypeIs DEF Worker
<1>2. /\ UseThread /\ UseThread' /\ Head(queue) \in Events
      /\ queue' \in Seq(Events) /\ Len(queue') <= QueueSize
  BY <1>1, Popped
<1>3. SharedOK' /\ joinData' = joinData
  BY <1>1, <1>2, HandleType DEF SharedOK
<1> QED BY <1>1, <1>2, <1>3, TypeIs, TypeMade DEF Worker

\* What the start of a join makes of the record of the driver: a key that is
\* wrong is noted, one that is not is forgotten.
LEMMA KeyIs ==
  ASSUME ap \in ApType, NEW a, Mark(a) \/ Refuse(a) \/ GiveUp(a)
  PROVE  /\ ap' \in ApType /\ ap'.link = ap.link
         /\ \/ ap'.seen = ap.seen \ {"bad key"} /\ error' = "UNKNOWN"
            \/ ap'.seen = ap.seen \cup {"bad key"} /\ error' = "WRONG_PASSWORD"
<1>1. ASSUME NEW s \in SUBSET (Kinds \cup {"bad key"}), ap' = [ap EXCEPT !.seen = s]
      PROVE  ap' \in ApType /\ ap'.link = ap.link /\ ap'.seen = s
  BY <1>1 DEF ApType
<1>2. ap.seen \in SUBSET (Kinds \cup {"bad key"})
  BY DEF ApType
<1>3. /\ ap.seen \ {"bad key"} \in SUBSET (Kinds \cup {"bad key"})
      /\ ap.seen \cup {"bad key"} \in SUBSET (Kinds \cup {"bad key"})
  BY <1>2
<1>4. \/ ap' = [ap EXCEPT !.seen = ap.seen \ {"bad key"}] /\ error' = "UNKNOWN"
      \/ ap' = [ap EXCEPT !.seen = ap.seen \cup {"bad key"}] /\ error' = "WRONG_PASSWORD"
  BY DEF Mark, Refuse, GiveUp
<1> QED BY <1>1, <1>3, <1>4

LEMMA TypeStep == TypeOK /\ [Next]_vars => TypeOK'
<1> SUFFICES ASSUME TypeOK, [Next]_vars PROVE TypeOK'
  OBVIOUS
<1>0. task \in [Apps -> TaskType] /\ registered \subseteq Kinds /\ ap \in ApType /\ SharedOK
  BY TypeIs
<1> USE <1>0, TypeMade
<1>1. ASSUME NEW a \in Apps, Connect(a) PROVE TypeOK'
  <2>1. CASE Enter(a, "mark", None) /\ UNCHANGED <<shared, queue, ap, registered>>
    BY <1>1, <2>1, EnterType DEF Connect, shared, SharedOK, UseThread, PCs
  <2>2. CASE /\ Enter(a, "busy", None) /\ Drop /\ ap' = Dropped
             /\ UNCHANGED registered
    <3>1. task' \in [Apps -> TaskType]
      BY <1>1, <2>2, EnterType DEF Connect, PCs
    <3>2. ap' \in ApType
      BY <2>2, DroppedIs
    <3> QED BY <2>2, <3>1, <3>2, DropType
  <2>3. CASE Enter(a, "idle", "ERROR") /\ UNCHANGED <<shared, queue, ap, registered>>
    BY <1>1, <2>3, EnterType DEF Connect, shared, SharedOK, UseThread, PCs
  <2> QED BY <1>1, <2>1, <2>2, <2>3 DEF Connect
<1>2. ASSUME NEW a \in Apps, Progress(a) PROVE TypeOK'
  <2>1. CASE Poll(a)
    BY <2>1, GotoIs DEF Poll, shared, SharedOK, UseThread, PCs
  <2>2. CASE Mark(a)
    <3>1. sema' \in SemaType
      BY <2>2 DEF Mark, SharedOK, SemaType
    <3>2. ap' \in ApType
      BY <2>2, KeyIs
    <3> QED BY <2>2, <3>1, <3>2, GotoIs DEF Mark, SharedOK, UseThread, PCs, Flags, Errors
  <2>3. CASE Refuse(a)
    <3>1. task' \in [Apps -> TaskType]
      <4>1. task' = [task EXCEPT ![a].pc = "idle", ![a].result = "ERROR"]
        BY <2>3 DEF Refuse
      <4> QED BY <4>1, ResultIs DEF PCs
    <3>2. ap' \in ApType
      BY <2>3, KeyIs
    <3> QED BY <2>3, <3>1, <3>2 DEF Refuse, SharedOK, UseThread, Errors
  <2>13. CASE GiveUp(a)
    <3>1. task' \in [Apps -> TaskType]
      <4>1. task' = [task EXCEPT ![a].pc = "free", ![a].result = "ERROR"]
        BY <2>13 DEF GiveUp
      <4> QED BY <4>1, ResultIs DEF PCs
    <3>2. ap' \in ApType
      BY <2>13, KeyIs
    <3> QED BY <2>13, <3>1, <3>2 DEF GiveUp, SharedOK, UseThread, Errors, Flags
  <2>4. CASE Register(a)
    BY <2>4, GotoIs DEF Register, SharedOK, UseThread, PCs
  <2>5. CASE Command(a)
    <3>1. ap' \in ApType
      <4>1. CASE ap' = [link |-> "joining", join |-> task[a].join, sec |-> task[a].sec,
                        seen |-> {}, lost |-> {}]
        BY <4>1 DEF ApType, Links, TaskType
      <4>2. CASE ap' = ap
        BY <4>2
      <4> QED BY <2>5, <4>1, <4>2 DEF Command
    <3>2. SharedOK'
      <4>1. CASE Drop
        BY <4>1, DropType
      <4>2. CASE UNCHANGED <<shared, queue>>
        BY <4>2 DEF shared, SharedOK, UseThread
      <4> QED BY <2>5, <4>1, <4>2 DEF Command
    <3> QED BY <2>5, <3>1, <3>2, GotoIs DEF Command, PCs
  <2>6. CASE Attach(a)
    BY <2>6, GotoIs DEF Attach, SharedOK, UseThread, PCs
  <2>7. CASE Woken(a)
    BY <2>7, GotoIs DEF Woken, shared, SharedOK, UseThread, PCs
  <2>8. CASE Timeout(a) \/ Check(a)
    <3>1. \E pc \in PCs, result \in {None, "SUCCESS", "ERROR", "TIMEOUT"} : Finish(a, result, pc)
      BY <2>8 DEF Timeout, Check, PCs
    <3>2. task' \in [Apps -> TaskType]
      BY <3>1, ResultIs DEF Finish
    <3> QED BY <3>1, <3>2 DEF Finish, shared, SharedOK, UseThread
  <2>9. CASE Free(a)
    <3>1. sema' \in SemaType
      BY <2>9 DEF Free, SharedOK, SemaType
    <3> QED BY <2>9, <3>1, GotoIs DEF Free, SharedOK, UseThread, PCs
  <2>10. CASE Detach(a)
    BY <2>10, GotoIs DEF Detach, SharedOK, UseThread, PCs
  <2>11. CASE Unregister(a)
    BY <2>11, GotoIs DEF Unregister, shared, SharedOK, UseThread, PCs
  <2>12. CASE Clear(a)
    BY <2>12, GotoIs DEF Clear, SharedOK, UseThread, PCs
  <2> QED BY <1>2, <2>1, <2>2, <2>3, <2>4, <2>5, <2>6, <2>7, <2>8, <2>9, <2>10, <2>11, <2>12,
             <2>13 DEF Progress
<1>3. ASSUME NEW a \in Apps, Dhcp(a) PROVE TypeOK'
  <2>1. CASE DhcpStart(a)
    BY <2>1, GotoIs DEF DhcpStart, SharedOK, UseThread, PCs
  <2>2. CASE Look(a)
    <3>1. task' \in [Apps -> TaskType]
      BY <2>2, GotoIs DEF Look, PCs
    <3>2. SharedOK'
      BY <2>2 DEF Look, SharedOK, UseThread, Errors
    <3> QED BY <2>2, <3>1, <3>2 DEF Look
  <2>3. CASE Assigned(a)
    BY <2>3, AssignedIs DEF Assigned, SharedOK, UseThread, Errors
  <2> QED BY <1>3, <2>1, <2>2, <2>3 DEF Dhcp
<1>4. ASSUME NEW a \in Apps, Disconnect(a) PROVE TypeOK'
  <2>1. ap' \in ApType
    BY <1>4, DroppedIs DEF Disconnect
  <2> QED BY <1>4, <2>1, DropType DEF Disconnect
<1>5. CASE Worker
  BY <1>5, WorkerType
<1>6. CASE Driver
  BY <1>6, DriverIs, ReportType
<1>7. CASE UNCHANGED vars
  BY <1>7 DEF vars, SharedOK, UseThread
<1>8. CASE Lease
  BY <1>8 DEF Lease, SharedOK, UseThread
<1> QED BY <1>1, <1>2, <1>3, <1>4, <1>5, <1>6, <1>7, <1>8 DEF Next

LEMMA TypeInit == Init => TypeOK
<1> SUFFICES ASSUME Init PROVE TypeOK
  OBVIOUS
<1>1. task \in [Apps -> TaskType]
  BY JoinAssumption DEF Init, TaskType, PCs, Joins
<1>2. ap \in ApType
  BY JoinAssumption DEF Init, ApType, Links, Joins
<1>3. UseThread => queue \in Seq(Events) /\ Len(queue) <= QueueSize
  <2>1. UseThread => queue = <<>>
    BY DEF Init, UseThread
  <2>2. <<>> \in Seq(Events) /\ Len(<<>>) = 0 /\ 0 <= QueueSize
    BY EmptySeq, JoinAssumption
  <2> QED BY <2>1, <2>2
<1>4. SharedOK
  BY <1>3 DEF Init, SharedOK, SemaType, Errors
<1> QED BY <1>1, <1>2, <1>4, TypeIs DEF Init

\* Every variable of the join stays in its domain.
THEOREM JoinTypeCorrect == Spec => []TypeOK
<1> QED BY TypeInit, TypeStep, PTL DEF Spec
-----------------------------------------------------------------------------
(***************************************************************************)
(* JOIN_CONNECTING has an owner.  The worker outranks the tasks, or there  *)
(* is none: so a task takes a step only when no event waits.               *)
(***************************************************************************)
Prompt == WorkerFirst \/ ~UseThread

\* After join_user_data was set; while the handshake handler is registered;
\* while JOIN_CONNECTING is set.
Joined == {"wait", "check", "linked", "free", "detach"}
Listening == {"command", "settle", "unregister"} \cup Joined
Owning == {"register", "clear"} \cup Listening

OwnedInv ==
  /\ Prompt
  /\ "CONNECTING" \in status => \E a \in Apps : task[a].pc \in Owning
  /\ joinData # None => task[joinData].pc \in Joined
  /\ "Handshake" \in registered \/ (\E e \in Pending : e.kind = "Handshake") =>
       \E a \in Apps : task[a].pc \in Listening

LEMMA TurnIs ==
  ASSUME SharedOK, Prompt, NEW a \in Apps, NEW pc, At(a, pc)
  PROVE  Idle /\ Pending = {} /\ task[a].pc = pc
<1>1. ~UseThread => Idle
  BY DEF UseThread, Idle
<1> QED BY <1>1, PendingIs DEF Prompt, At, Turn

\* A command that ends an association leaves the status alone.
LEMMA DropIs ==
  ASSUME SharedOK, ap \in ApType, Drop
  PROVE  /\ status' = status /\ joinData' = joinData /\ (UseThread' <=> UseThread)
         /\ joinData = None => sema' = sema
         /\ \A f \in Pending' : f \in Pending \/ (f.kind = "Disconnect" /\ f.join = ap.join)
         /\ SharedOK'
<1> DEFINE e == Event("Disconnect", "other")
<1>1. e \in Events /\ e.kind = "Disconnect" /\ e.join = ap.join
  BY EventIs DEF Kinds, Reasons
<1>2. SharedOK' /\ joinData' = joinData /\ (UseThread' <=> UseThread)
  BY DropType
<1> HIDE DEF e
<1>3. CASE UNCHANGED <<shared, queue>>
  BY <1>2, <1>3 DEF shared, Pending, Idle
<1>4. CASE ~UseThread /\ Handle(e)
  <2>1. DisconnHdl(e)
    BY <1>1, <1>4 DEF Handle
  <2>2. Pending' = {}
    <3>1. Idle'
      BY <1>2, <1>4 DEF UseThread, Idle
    <3> QED BY <3>1 DEF Pending
  <2> QED BY <1>2, <2>1, <2>2 DEF DisconnHdl, Up
<1>5. CASE /\ UseThread /\ UNCHANGED shared
           /\ Push(e)
  <2>1. Pending' \subseteq Pending \cup {e}
    BY <1>1, <1>5, Pushed
  <2> QED BY <1>1, <1>2, <1>5, <2>1 DEF shared
<1>6. Connected => Indicate(e)
  BY DEF Drop, e
<1> QED BY <1>3, <1>4, <1>5, <1>6, IndicateIs DEF Drop

\* What a step of task a does with JOIN_CONNECTING, join_user_data and the
\* handlers.
Hands(a) ==
  /\ \/ task'[a].pc \in Owning
     \/ "CONNECTING" \notin status'
     \/ "CONNECTING" \in status /\ task[a].pc \notin Owning
  /\ \/ joinData' = None
     \/ joinData' = a /\ task'[a].pc \in Joined
     \/ joinData' = joinData /\ (joinData = a => task'[a].pc \in Joined)
  /\ \/ task'[a].pc \in Listening
     \/ "Handshake" \notin registered'
     \/ "Handshake" \in registered /\ task[a].pc \notin Listening

\* A step of a task in wifi_connect, or between its calls.
LEMMA OwnedByTask ==
  ASSUME TypeOK, OwnedInv, NEW a \in Apps,
         UseThread' <=> UseThread,
         \A f \in Pending' : f.kind # "Handshake",
         \A b \in Apps : b # a => task'[b] = task[b],
         Hands(a)
  PROVE  OwnedInv'
<1> USE DEF Hands
<1>1. Prompt'
  BY DEF OwnedInv, Prompt
<1>2. "CONNECTING" \in status' => \E b \in Apps : task'[b].pc \in Owning
  <2>1. SUFFICES ASSUME "CONNECTING" \in status', task'[a].pc \notin Owning
                 PROVE  \E b \in Apps : task'[b].pc \in Owning
    OBVIOUS
  <2>2. PICK b \in Apps : task[b].pc \in Owning
    BY <2>1 DEF OwnedInv
  <2>3. b # a
    BY <2>1, <2>2
  <2> QED BY <2>2, <2>3
<1>3. joinData' # None => task'[joinData'].pc \in Joined
  <2>1. CASE joinData' = a
    BY <2>1
  <2>2. CASE joinData' # a
    <3>1. joinData' # None => joinData' = joinData /\ joinData \in Apps \ {a}
      BY <2>2 DEF TypeOK
    <3> QED BY <3>1 DEF OwnedInv
  <2> QED BY <2>1, <2>2
<1>4. "Handshake" \in registered' \/ (\E e \in Pending' : e.kind = "Handshake") =>
        \E b \in Apps : task'[b].pc \in Listening
  <2>1. SUFFICES ASSUME "Handshake" \in registered', task'[a].pc \notin Listening
                 PROVE  \E b \in Apps : task'[b].pc \in Listening
    OBVIOUS
  <2>2. PICK b \in Apps : task[b].pc \in Listening
    BY <2>1 DEF OwnedInv
  <2>3. b # a
    BY <2>1, <2>2
  <2> QED BY <2>2, <2>3
<1> QED BY <1>1, <1>2, <1>3, <1>4 DEF OwnedInv, Prompt

\* A handler sets JOIN_CONNECTING during a join, or it is the handshake's.
LEMMA HandlerOwns ==
  ASSUME SharedOK, NEW e \in Events, Handle(e), "CONNECTING" \in status'
  PROVE  "CONNECTING" \in status \/ joinData # None \/ e.kind = "Handshake"
BY DEF Handle, NoNetworkHdl, ConnectedHdl, HandshakeDoneHdl, DisconnHdl

\* An event that comes, or is handled.
LEMMA OwnedByEvent ==
  ASSUME TypeOK, OwnedInv, UNCHANGED <<task, registered, joinData>>,
         UseThread' <=> UseThread,
         \A f \in Pending' : f \in Pending \/ f.kind \in registered,
         "CONNECTING" \in status' =>
           \/ "CONNECTING" \in status \/ joinData # None
           \/ "Handshake" \in registered \/ \E f \in Pending : f.kind = "Handshake"
  PROVE  OwnedInv'
<1>1. Listening \subseteq Owning /\ Joined \subseteq Owning
  BY DEF Owning, Listening
<1>2. joinData # None => joinData \in Apps
  BY DEF TypeOK
<1>3. "CONNECTING" \in status' => \E a \in Apps : task'[a].pc \in Owning
  BY <1>1, <1>2 DEF OwnedInv
<1>4. "Handshake" \in registered' \/ (\E e \in Pending' : e.kind = "Handshake") =>
        \E a \in Apps : task'[a].pc \in Listening
  BY DEF OwnedInv
<1> QED BY <1>3, <1>4 DEF OwnedInv, Prompt

LEMMA OwnedStep == TypeOK /\ OwnedInv /\ [Next]_vars => OwnedInv'
<1> SUFFICES ASSUME TypeOK, OwnedInv, [Next]_vars PROVE OwnedInv'
  OBVIOUS
<1>0. /\ task \in [Apps -> TaskType] /\ ap \in ApType /\ SharedOK /\ Prompt
      /\ joinData # None => joinData \in Apps /\ task[joinData].pc \in Joined
  BY TypeIs DEF OwnedInv, SharedOK
<1> USE <1>0
<1>1. ASSUME NEW a \in Apps, Connect(a) PROVE OwnedInv'
  <2>1. Pending = {} /\ task[a].pc = "idle"
    BY <1>1, TurnIs DEF Connect
  <2>2. CASE \/ Enter(a, "mark", None) /\ UNCHANGED <<shared, queue, ap>>
             \/ Enter(a, "idle", "ERROR") /\ UNCHANGED <<shared, queue, ap>>
    <3>1. /\ task'[a].pc \in {"idle", "mark"}
          /\ \A b \in Apps : b # a => task'[b] = task[b]
      BY <1>1, <2>2, EnterType DEF Connect, PCs
    <3>2. Pending' = {} /\ (UseThread' <=> UseThread)
      BY <2>1, <2>2 DEF Pending, Idle, UseThread
    <3>3. Hands(a)
      BY <1>1, <2>1, <2>2, <3>1, <3>2 DEF Hands, Connect, shared, Owning, Listening, Joined
    <3> QED BY <1>1, <2>1, <2>2, <3>1, <3>2, <3>3, OwnedByTask
  <2>3. CASE Enter(a, "busy", None) /\ Drop
    <3>1. task'[a].pc = "busy" /\ \A b \in Apps : b # a => task'[b] = task[b]
      BY <1>1, <2>3, EnterType DEF Connect, PCs
    <3>2. /\ status' = status /\ joinData' = joinData /\ (UseThread' <=> UseThread)
          /\ \A f \in Pending' : f.kind # "Handshake"
      BY <2>1, <2>3, DropIs
    <3>3. Hands(a)
      BY <1>1, <2>1, <3>1, <3>2 DEF Hands, Connect, Owning, Listening, Joined
    <3> QED BY <1>1, <2>1, <3>1, <3>2, <3>3, OwnedByTask
  <2> QED BY <1>1, <2>2, <2>3 DEF Connect
<1>2. ASSUME NEW a \in Apps, Command(a) PROVE OwnedInv'
  <2>1. Pending = {} /\ task[a].pc = "command"
    BY <1>2, TurnIs DEF Command
  <2>2. /\ status' = status /\ joinData' = joinData /\ (UseThread' <=> UseThread)
        /\ \A f \in Pending' : f.kind # "Handshake"
    <3>1. CASE Drop
      BY <2>1, <3>1, DropIs
    <3>2. CASE UNCHANGED <<shared, queue>>
      BY <2>1, <3>2 DEF shared, Pending, Idle, UseThread
    <3> QED BY <1>2, <3>1, <3>2 DEF Command
  <2>3. task'[a].pc = "settle" /\ \A b \in Apps : b # a => task'[b] = task[b]
    BY <1>2, GotoIs DEF Command, PCs
  <2>4. Hands(a)
    BY <1>2, <2>1, <2>2, <2>3 DEF Hands, Command, Owning, Listening, Joined
  <2> QED BY <1>2, <2>1, <2>2, <2>3, <2>4, OwnedByTask
<1>3. ASSUME NEW a \in Apps, Disconnect(a) PROVE OwnedInv'
  <2>1. Pending = {} /\ task[a].pc = "idle"
    BY <1>3, TurnIs DEF Disconnect
  <2>2. /\ status' = status /\ joinData' = joinData /\ (UseThread' <=> UseThread)
        /\ \A f \in Pending' : f.kind # "Handshake"
    BY <1>3, <2>1, DropIs DEF Disconnect
  <2>3. task' = task /\ registered' = registered
    BY <1>3 DEF Disconnect
  <2>4. Hands(a)
    BY <2>1, <2>2, <2>3 DEF Hands, Owning, Listening, Joined
  <2> QED BY <2>1, <2>2, <2>3, <2>4, OwnedByTask
<1>4. ASSUME NEW a \in Apps, Progress(a) \/ Dhcp(a), ~Command(a) PROVE OwnedInv'
  <2> DEFINE Here(from, to) ==
               /\ task[a].pc \in from /\ task'[a].pc \in to
               /\ \A b \in Apps : b # a => task'[b] = task[b]
               /\ UNCHANGED queue
  <2>1. ASSUME NEW from, NEW to, Here(from, to), Idle
        PROVE  (UseThread' <=> UseThread) /\ Pending' = {}
    BY <2>1 DEF Pending, Idle, UseThread
  <2>2. CASE Poll(a)
    <3>1. Here({"busy"}, {"mark"}) /\ Idle
      BY <2>2, GotoIs, TurnIs DEF Poll, PCs
    <3>2. Hands(a)
      BY <2>1, <2>2, <3>1 DEF Hands, Poll, shared, Owning, Listening, Joined
    <3> QED BY <2>1, <2>2, <3>1, <3>2, OwnedByTask
  <2>3. CASE Mark(a)
    <3>1. Here({"mark"}, {"register"}) /\ Idle
      BY <2>3, GotoIs, TurnIs DEF Mark, PCs
    <3>2. Hands(a)
      BY <2>1, <2>3, <3>1 DEF Hands, Mark, Owning, Listening, Joined
    <3> QED BY <2>1, <2>3, <3>1, <3>2, OwnedByTask
  <2>4. CASE Refuse(a)
    <3>1. Here({"mark"}, {"idle"}) /\ Idle
      <4>1. /\ task' = [task EXCEPT ![a].pc = "idle", ![a].result = "ERROR"]
            /\ UNCHANGED queue /\ At(a, "mark")
        BY <2>4 DEF Refuse
      <4>2. task'[a].pc = "idle" /\ \A b \in Apps : b # a => task'[b] = task[b]
        BY <4>1, ResultIs DEF PCs
      <4>3. Idle /\ task[a].pc = "mark"
        BY <4>1, TurnIs
      <4> QED BY <4>1, <4>2, <4>3
    <3>2. Hands(a)
      BY <2>1, <2>4, <3>1 DEF Hands, Refuse, Owning, Listening, Joined
    <3> QED BY <2>1, <2>4, <3>1, <3>2, OwnedByTask
  <2>5. CASE Register(a)
    <3>1. Here({"register"}, {"command"}) /\ Idle
      BY <2>5, GotoIs, TurnIs DEF Register, PCs
    <3>2. Hands(a)
      BY <2>1, <2>5, <3>1 DEF Hands, Register, Owning, Listening, Joined
    <3> QED BY <2>1, <2>5, <3>1, <3>2, OwnedByTask
  <2>6. CASE Attach(a)
    <3>1. Here({"settle"}, {"linked", "wait"}) /\ Idle
      BY <2>6, GotoIs, TurnIs DEF Attach, PCs
    <3>2. Hands(a)
      BY <2>1, <2>6, <3>1 DEF Hands, Attach, Owning, Listening, Joined
    <3> QED BY <2>1, <2>6, <3>1, <3>2, OwnedByTask
  <2>7. CASE Woken(a)
    <3>1. Here({"wait"}, {"check"}) /\ Idle
      BY <2>7, GotoIs, TurnIs DEF Woken, PCs
    <3>2. Hands(a)
      BY <2>1, <2>7, <3>1 DEF Hands, Woken, shared, Owning, Listening, Joined
    <3> QED BY <2>1, <2>7, <3>1, <3>2, OwnedByTask
  <2>8. CASE Timeout(a) \/ Check(a)
    <3>1. Here({"wait", "check", "linked"}, {"free"}) /\ Idle
      <4>1. PICK result \in {"SUCCESS", "ERROR", "TIMEOUT"} :
               task' = [task EXCEPT ![a].pc = "free", ![a].result = result]
        BY <2>8 DEF Timeout, Check, Finish
      <4>2. task'[a].pc = "free" /\ \A b \in Apps : b # a => task'[b] = task[b]
        BY <4>1, ResultIs DEF PCs
      <4>3. Idle /\ task[a].pc \in {"wait", "check", "linked"}
        BY <2>8, TurnIs DEF Timeout, Check
      <4> QED BY <2>8, <4>2, <4>3 DEF Timeout, Check, Finish
    <3>2. UNCHANGED <<shared, registered>>
      BY <2>8 DEF Timeout, Check, Finish
    <3>3. Hands(a)
      BY <2>1, <3>1, <3>2 DEF Hands, shared, Owning, Listening, Joined
    <3> QED BY <2>1, <3>1, <3>2, <3>3, OwnedByTask
  <2>9. CASE Free(a)
    <3>1. Here({"free"}, {"detach"}) /\ Idle
      BY <2>9, GotoIs, TurnIs DEF Free, PCs
    <3>2. Hands(a)
      BY <2>1, <2>9, <3>1 DEF Hands, Free, Owning, Listening, Joined
    <3> QED BY <2>1, <2>9, <3>1, <3>2, OwnedByTask
  <2>10. CASE Detach(a)
    <3>1. Here({"detach"}, {"unregister"}) /\ Idle
      BY <2>10, GotoIs, TurnIs DEF Detach, PCs
    <3>2. joinData' = None /\ None # a
      BY <2>10, JoinAssumption DEF Detach
    <3>3. Hands(a)
      BY <2>1, <2>10, <3>1, <3>2 DEF Hands, Detach, Owning, Listening, Joined
    <3> QED BY <2>1, <2>10, <3>1, <3>2, <3>3, OwnedByTask
  <2>11. CASE Unregister(a)
    <3>1. Here({"unregister"}, {"clear"}) /\ Idle
      BY <2>11, GotoIs, TurnIs DEF Unregister, PCs
    <3>2. Hands(a)
      BY <2>1, <2>11, <3>1 DEF Hands, Unregister, shared, Owning, Listening, Joined
    <3> QED BY <2>1, <2>11, <3>1, <3>2, OwnedByTask
  <2>12. CASE Clear(a)
    <3>1. Here({"clear"}, {"dhcp", "idle"}) /\ Idle
      BY <2>12, GotoIs, TurnIs DEF Clear, PCs
    <3>2. Hands(a)
      BY <2>1, <2>12, <3>1 DEF Hands, Clear, Owning, Listening, Joined
    <3> QED BY <2>1, <2>12, <3>1, <3>2, OwnedByTask
  <2>13. CASE Dhcp(a)
    <3>1. /\ task[a].pc \in {"dhcp", "address", "assigned"}
          /\ task'[a].pc \in {"idle", "address", "assigned"}
          /\ \A b \in Apps : b # a => task'[b] = task[b]
          /\ Idle /\ UNCHANGED <<status, joinData, registered, queue>>
      <4>1. CASE DhcpStart(a)
        BY <4>1, GotoIs, TurnIs DEF DhcpStart, PCs
      <4>2. CASE Look(a)
        <5>1. task[a].pc = "address" /\ Idle
          BY <4>2, TurnIs DEF Look
        <5>2. /\ task'[a].pc \in {"idle", "assigned"}
              /\ \A b \in Apps : b # a => task'[b] = task[b]
          BY <4>2, GotoIs DEF Look, PCs
        <5> QED BY <4>2, <5>1, <5>2 DEF Look
      <4>3. CASE Assigned(a)
        BY <4>3, AssignedIs, TurnIs DEF Assigned
      <4> QED BY <2>13, <4>1, <4>2, <4>3 DEF Dhcp
    <3>2. Here({"dhcp", "address", "assigned"}, {"idle", "address", "assigned"}) /\ Idle
      BY <3>1
    <3>3. Hands(a)
      BY <2>1, <3>1, <3>2 DEF Hands, Owning, Listening, Joined
    <3> QED BY <2>1, <3>1, <3>2, <3>3, OwnedByTask
  <2>14. CASE GiveUp(a)
    <3>1. Here({"mark"}, {"free"}) /\ Idle
      <4>1. /\ task' = [task EXCEPT ![a].pc = "free", ![a].result = "ERROR"]
            /\ UNCHANGED queue /\ At(a, "mark")
        BY <2>14 DEF GiveUp
      <4>2. task'[a].pc = "free" /\ \A b \in Apps : b # a => task'[b] = task[b]
        BY <4>1, ResultIs DEF PCs
      <4>3. Idle /\ task[a].pc = "mark"
        BY <4>1, TurnIs
      <4> QED BY <4>1, <4>2, <4>3
    <3>2. Hands(a)
      BY <2>1, <2>14, <3>1 DEF Hands, GiveUp, Owning, Listening, Joined
    <3> QED BY <2>1, <2>14, <3>1, <3>2, OwnedByTask
  <2> QED BY <1>4, <2>2, <2>3, <2>4, <2>5, <2>6, <2>7, <2>8, <2>9, <2>10, <2>11, <2>12, <2>13,
             <2>14 DEF Progress
<1>5. CASE Worker
  <2>1. /\ Handle(Head(queue)) /\ Head(queue) \in Events /\ UseThread /\ UseThread'
        /\ joinData' = joinData
    BY <1>5, WorkerType
  <2>2. Head(queue) \in Pending /\ Pending' \subseteq Pending
    BY <1>5, Popped DEF Worker
  <2>3. UNCHANGED <<task, registered>>
    BY <1>5 DEF Worker
  <2> QED BY <2>1, <2>2, <2>3, HandlerOwns, OwnedByEvent
<1>6. CASE Driver
  <2>1. PICK kind \in Kinds, reason \in Reasons,
             link \in Links :
          Report(kind, reason, link)
    BY <1>6, DriverIs
  <2> DEFINE e == Event(kind, reason)
  <2>2. /\ UNCHANGED <<task, registered, joinData>> /\ (UseThread' <=> UseThread)
        /\ Indicate(e) /\ e \in Events
    <3>1. e \in Events
      BY EventIs
    <3> QED BY <2>1, <3>1, ReportType
  <2> HIDE DEF e
  <2>3. CASE UNCHANGED <<shared, queue>>
    BY <2>2, <2>3, OwnedByEvent DEF shared, Pending, Idle
  <2>4. CASE e.kind \in registered /\ ~UseThread /\ Handle(e) /\ UNCHANGED queue
    <3>1. Pending' = Pending
      BY <2>4 DEF Pending, Idle
    <3> QED BY <2>2, <2>4, <3>1, HandlerOwns, OwnedByEvent
  <2>5. CASE /\ e.kind \in registered /\ UseThread /\ UNCHANGED shared
             /\ Push(e)
    <3>1. Pending' \subseteq Pending \cup {e}
      BY <2>2, <2>5, Pushed
    <3> QED BY <2>2, <2>5, <3>1, OwnedByEvent DEF shared
  <2> QED BY <2>2, <2>3, <2>4, <2>5, IndicateIs
<1>7. CASE UNCHANGED vars
  BY <1>7 DEF vars, OwnedInv, Prompt, Pending, Idle, UseThread
<1>8. CASE Lease
  BY <1>8 DEF Lease, OwnedInv, Prompt, Pending, Idle, UseThread
<1> QED BY <1>1, <1>2, <1>3, <1>4, <1>5, <1>6, <1>7, <1>8 DEF Next

LEMMA OwnedInit ==
  ASSUME Init, WorkerFirst \/ Threads \subseteq {FALSE}
  PROVE  OwnedInv
<1>1. Pending = {}
  BY DEF Init, Pending, Idle
<1>2. Prompt
  BY DEF Init, Prompt, UseThread
<1> QED BY <1>1, <1>2 DEF Init, OwnedInv

LEMMA OwnedMeans == TypeOK /\ OwnedInv => BusyOwned
<1>1. \A pc \in Owning : pc \notin {"idle", "busy", "mark", "dhcp", "address", "assigned"}
  BY DEF Owning, Listening, Joined
<1> QED BY <1>1 DEF OwnedInv, BusyOwned

\* JOIN_CONNECTING is set only while some call of wifi_connect will clear it,
\* for any number of tasks, when the handlers run in the driver's context or
\* in a worker that outranks the tasks (wifi_connect, wifi_indication).
THEOREM ConnectingIsOwned ==
  ASSUME WorkerFirst \/ Threads \subseteq {FALSE}
  PROVE  Spec => []BusyOwned
<1>1. Init => TypeOK /\ OwnedInv
  BY TypeInit, OwnedInit
<1>2. TypeOK /\ OwnedInv /\ [Next]_vars => (TypeOK /\ OwnedInv)'
  BY TypeStep, OwnedStep
<1> QED BY <1>1, <1>2, OwnedMeans, PTL DEF Spec
-----------------------------------------------------------------------------
(***************************************************************************)
(* One task that joins.  While its join is registered the queue holds only *)
(* what the driver reported of this join, and its semaphore is raised only *)
(* when the link is decided.                                               *)
(***************************************************************************)
\* Between the command and the end of the call.
Fresh == {"settle", "unregister", "clear"} \cup Joined

\* While the result is not known.
Undecided == {"busy", "mark", "register", "command", "settle", "wait", "check"}

QueueInv ==
  joinData # None =>
    \A e \in Pending : /\ e.join = ap.join
                       /\ ap.link # "joining"
                       /\ ap.link = "associated" => e.kind = "Connect"

\* Its call is not yet known to the driver.
Before == {"busy", "mark", "register", "command"}

CallInv(a) ==
  /\ task[a].pc \in Undecided => task[a].result = None
  /\ task[a].pc \in {"command", "settle"} \/ joinData # None => registered = Kinds
  /\ ap.join <= task[a].join
  /\ task[a].pc \in Before => ~Taken(a)
  /\ task[a].pc \in Fresh /\ Taken(a) => ap.sec = task[a].sec
  /\ task[a].pc \in {"register", "command", "settle"} => sema[a] = {}
  /\ task[a].pc \in {"wait", "check"} /\ Taken(a) =>
       /\ sema[a] \in SUBSET {task[a].join}
       /\ ap.link \in {"joining", "associated"} => sema[a] = {}
  /\ task[a].pc = "check" => sema[a] # {}

JoinInv(a) ==
  /\ ap.link = "associated" => ap.sec = "wpa"
  /\ QueueInv
  /\ CallInv(a)

\* Between events: the call of task a goes from one line to another.
LEMMA JoinByTask ==
  ASSUME NEW a, JoinInv(a), Pending' = {}, ap'.link = ap.link, ap'.sec = ap.sec,
         CallInv(a)'
  PROVE  JoinInv(a)'
BY DEF JoinInv, QueueInv

\* A handler wakes the registered join, an association only an open one.
LEMMA HandleWakes ==
  ASSUME SharedOK, NEW a \in Apps, NEW e \in Events, Handle(e), joinData \in {a, None}
  PROVE  \/ sema'[a] = sema[a]
         \/ /\ joinData = a /\ sema'[a] = sema[a] \cup {e.join}
            /\ e.kind # "NoNetwork" /\ (e.kind = "Connect" => task[a].sec = "open")
<1>1. sema \in [Apps -> (SUBSET Joins) \cup {None}]
  BY DEF SharedOK, SemaType
<1>2. Up(e)[a] = sema[a] \/ (joinData = a /\ Up(e)[a] = sema[a] \cup {e.join})
  BY <1>1 DEF Up
<1>3. CASE NoNetworkHdl(e)
  BY <1>3 DEF NoNetworkHdl
<1>4. CASE e.kind = "Connect" /\ ConnectedHdl(e)
  BY <1>2, <1>4 DEF ConnectedHdl
<1>5. CASE e.kind = "Handshake" /\ HandshakeDoneHdl(e)
  BY <1>2, <1>5 DEF HandshakeDoneHdl
<1>6. CASE e.kind = "Disconnect" /\ DisconnHdl(e)
  BY <1>2, <1>6 DEF DisconnHdl
<1> QED BY <1>3, <1>4, <1>5, <1>6 DEF Handle

\* An event of the driver's join is handled, once the link is where it says.
LEMMA CallByEvent ==
  ASSUME NEW a, task' = task, registered' = registered, joinData' = joinData,
         ap'.join = ap.join, ap'.sec = ap.sec,
         joinData = a => task[a].pc \in Joined,
         CallInv(a),
         \/ sema[a] = {}
         \/ ap'.link \notin {"joining", "associated"}
         \/ task[a].pc \notin {"wait", "check"}
         \/ ~Taken(a),
         \/ sema'[a] = sema[a]
         \/ /\ joinData = a /\ (Taken(a) => ap'.link \notin {"joining", "associated"})
            /\ sema'[a] = sema[a] \cup {ap.join}
  PROVE  CallInv(a)'
<1>0. Taken(a)' <=> Taken(a)
  BY DEF Taken
<1>1. CASE sema'[a] = sema[a]
  BY <1>0, <1>1 DEF CallInv
<1>2. CASE /\ joinData = a /\ (Taken(a) => ap'.link \notin {"joining", "associated"})
           /\ sema'[a] = sema[a] \cup {ap.join}
  <2>1. task[a].pc \in Joined /\ task[a].pc \in Fresh
    BY <1>2 DEF Fresh
  <2>2. task[a].pc \notin {"register", "command", "settle"} \cup Before
    BY <2>1 DEF Joined, Before
  <2>3. Taken(a) => ap.join = task[a].join
    BY DEF Taken
  <2> QED BY <1>0, <1>2, <2>1, <2>2, <2>3 DEF CallInv
<1> QED BY <1>1, <1>2

LEMMA JoinStep ==
  ASSUME NEW a, Apps = {a}, TypeOK, OwnedInv, JoinInv(a), [Next]_vars
  PROVE  JoinInv(a)'
<1>0. /\ a \in Apps /\ task \in [Apps -> TaskType] /\ ap \in ApType /\ SharedOK /\ Prompt
      /\ joinData \in {a, None} /\ (joinData = a => task[a].pc \in Joined)
      /\ a # None
  BY TypeIs, JoinAssumption DEF OwnedInv, SharedOK
<1> USE <1>0
<1>a. ap.join \in Nat /\ task[a].join \in Nat /\ task'[a].join \in Nat /\ ap'.join \in Nat
  <2>1. TypeOK'
    BY TypeStep
  <2>2. task'[a].join \in Joins /\ ap'.join \in Joins
    BY <2>1 DEF TypeOK
  <2>3. task[a].join \in Joins /\ ap.join \in Joins
    BY DEF TypeOK
  <2> QED BY <2>2, <2>3 DEF Joins
<1>1. ASSUME task'[a].pc \in {"idle", "mark", "busy"}, ap'.link # "associated" \/ ap' = ap,
             joinData' = None, task'[a].pc # "idle" => task'[a].result = None,
             ap'.join <= task'[a].join,
             task'[a].pc # "idle" => ap'.join < task'[a].join,
             task'[a].pc = "idle" \/ registered' = registered
      PROVE  JoinInv(a)'
  <2>1. task'[a].pc # "idle" => ~(ap'.join = task'[a].join)
    BY <1>1, <1>a
  <2> QED BY <1>1, <2>1
          DEF JoinInv, QueueInv, CallInv, Undecided, Fresh, Joined, Before, Taken, Before, Taken
<1>2. CASE Connect(a)
  <2>1. Pending = {} /\ task[a].pc = "idle" /\ joinData = None
    BY <1>2, TurnIs DEF Connect, Joined
  <2>2. ap.join <= task[a].join
    BY DEF JoinInv, CallInv
  <2>3. Latest \in Nat /\ task[a].join <= Latest
    BY LatestIs DEF Joins
  <2>4. CASE \/ Enter(a, "mark", None) /\ UNCHANGED <<shared, queue, ap>>
             \/ Enter(a, "idle", "ERROR") /\ UNCHANGED <<shared, queue, ap>>
    <3>1. /\ task'[a].pc = "idle" \/ (task'[a].pc = "mark" /\ task'[a].result = None)
          /\ task'[a].join = Latest + 1
      BY <1>2, <2>4, EnterType DEF Connect, PCs
    <3>2. ap'.join < task'[a].join /\ ap'.join <= task'[a].join
      BY <1>a, <2>2, <2>3, <2>4, <3>1
    <3> QED BY <1>1, <1>2, <2>1, <2>4, <3>1, <3>2 DEF shared, Connect
  <2>5. CASE Enter(a, "busy", None) /\ Drop /\ ap' = Dropped
    <3>1. task'[a].pc = "busy" /\ task'[a].result = None /\ task'[a].join = Latest + 1
      BY <1>2, <2>5, EnterType DEF Connect, PCs
    <3>2. joinData' = None
      BY <2>1, <2>5, DropIs
    <3>3. ap'.link = "down" /\ ap'.join = ap.join
      BY <2>5, DroppedIs
    <3>4. ap'.join < task'[a].join /\ ap'.join <= task'[a].join
      BY <1>a, <2>2, <2>3, <3>1, <3>3
    <3> QED BY <1>1, <1>2, <3>1, <3>2, <3>3, <3>4 DEF Connect
  <2> QED BY <1>2, <2>4, <2>5 DEF Connect
<1>3. CASE Command(a)
  <2>1. Pending = {} /\ task[a].pc = "command" /\ joinData = None
    BY <1>3, TurnIs DEF Command, Joined
  <2>2. joinData' = None /\ sema' = sema
    <3>1. CASE Drop
      BY <2>1, <3>1, DropIs
    <3>2. CASE UNCHANGED <<shared, queue>>
      BY <2>1, <3>2 DEF shared
    <3> QED BY <1>3, <3>1, <3>2 DEF Command
  <2>3. /\ task'[a].pc = "settle" /\ task'[a].join = task[a].join
        /\ task'[a].sec = task[a].sec /\ task'[a].result = task[a].result
    BY <1>3, GotoIs DEF Command, PCs
  <2>4. /\ registered' = registered /\ registered = Kinds /\ sema[a] = {}
        /\ task[a].result = None /\ ap.join <= task[a].join /\ ~Taken(a)
    BY <1>3, <2>1 DEF Command, JoinInv, CallInv, Undecided, Before
  <2>5. \/ ap'.link = "joining" /\ ap'.join = task[a].join /\ ap'.sec = task[a].sec
        \/ ap' = ap
    BY <1>3 DEF Command
  <2>6. /\ ap'.join <= task'[a].join
        /\ Taken(a)' => ap'.sec = task'[a].sec
        /\ ap'.link = "associated" => ap'.sec = "wpa"
    <3>1. task[a].join <= task[a].join
      BY <1>a
    <3> QED BY <2>3, <2>4, <2>5, <3>1 DEF Taken, JoinInv
  <2>7. CallInv(a)'
    BY <2>2, <2>3, <2>4, <2>6 DEF CallInv, Before
  <2> QED BY <2>2, <2>6, <2>7 DEF JoinInv, QueueInv
<1>4. CASE Disconnect(a)
  <2>1. Pending = {} /\ task[a].pc = "idle" /\ joinData = None
    BY <1>4, TurnIs DEF Disconnect, Joined
  <2>2. joinData' = None
    BY <1>4, <2>1, DropIs DEF Disconnect
  <2>3. ap'.link = "down" /\ ap'.join = ap.join /\ task' = task
    BY <1>4, DroppedIs DEF Disconnect
  <2> QED BY <1>1, <2>1, <2>2, <2>3 DEF JoinInv, CallInv
<1>5. ASSUME Progress(a) \/ Dhcp(a), ~Command(a) PROVE JoinInv(a)'
  <2> DEFINE Here(from, to) ==
               /\ task[a].pc \in from /\ task'[a].pc \in to
               /\ task'[a].join = task[a].join /\ task'[a].sec = task[a].sec
               /\ task'[a].pc # "idle" => \/ task'[a].result = task[a].result
                                         \/ task'[a].pc = "free"
               /\ Pending' = {}
  <2>1. CallInv(a)
    BY DEF JoinInv
  <2>2. Idle /\ UNCHANGED queue => Pending' = {}
    BY DEF Pending, Idle
  <2> USE <2>1, <2>2
  <2>3. CASE Poll(a)
    <3>1. Here({"busy"}, {"mark"})
      BY <2>3, GotoIs, TurnIs DEF Poll, PCs
    <3>2. ap' = ap /\ CallInv(a)'
      BY <2>3, <3>1 DEF Poll, shared, CallInv, Undecided, Fresh, Joined, Before, Taken
    <3> QED BY <3>1, <3>2, JoinByTask
  <2>4. CASE Mark(a)
    <3>1. Here({"mark"}, {"register"})
      BY <2>4, GotoIs, TurnIs DEF Mark, PCs
    <3>2. /\ ap'.link = ap.link /\ ap'.sec = ap.sec /\ ap'.join = ap.join /\ sema'[a] = {}
          /\ UNCHANGED <<joinData, registered>>
      BY <2>4 DEF Mark, SharedOK, SemaType, ApType
    <3>3. CallInv(a)'
      BY <3>1, <3>2 DEF CallInv, Undecided, Fresh, Joined, Before, Taken
    <3> QED BY <3>1, <3>2, <3>3, JoinByTask
  <2>5. CASE Refuse(a)
    <3>1. Here({"mark"}, {"idle"})
      BY <2>5, ResultIs, TurnIs DEF Refuse, PCs
    <3>2. /\ ap'.link = ap.link /\ ap'.sec = ap.sec /\ ap'.join = ap.join
          /\ UNCHANGED <<joinData, registered>>
      BY <2>5 DEF Refuse, ApType
    <3>3. CallInv(a)'
      BY <3>1, <3>2 DEF CallInv, Undecided, Fresh, Joined, Before, Taken
    <3> QED BY <3>1, <3>2, <3>3, JoinByTask
  <2>6. CASE Register(a)
    <3>1. Here({"register"}, {"command"})
      BY <2>6, GotoIs, TurnIs DEF Register, PCs
    <3>2. ap' = ap /\ CallInv(a)'
      BY <2>6, <3>1 DEF Register, CallInv, Undecided, Fresh, Joined, Before, Taken
    <3> QED BY <3>1, <3>2, JoinByTask
  <2>7. CASE Attach(a)
    <3>1. Here({"settle"}, {"linked", "wait"})
      BY <2>7, GotoIs, TurnIs DEF Attach, PCs
    <3>2. ap' = ap /\ CallInv(a)'
      BY <2>7, <3>1 DEF Attach, CallInv, Undecided, Fresh, Joined, Before, Taken
    <3> QED BY <3>1, <3>2, JoinByTask
  <2>8. CASE Woken(a)
    <3>1. Here({"wait"}, {"check"})
      BY <2>8, GotoIs, TurnIs DEF Woken, PCs
    <3>2. ap' = ap /\ CallInv(a)'
      BY <2>8, <3>1 DEF Woken, shared, CallInv, Undecided, Fresh, Joined, Before, Taken
    <3> QED BY <3>1, <3>2, JoinByTask
  <2>9. CASE Timeout(a) \/ Check(a)
    <3>1. PICK result \in {"SUCCESS", "ERROR", "TIMEOUT"} : Finish(a, result, "free")
      BY <2>9 DEF Timeout, Check
    <3>2. Idle /\ task[a].pc \in {"wait", "check", "linked"}
      BY <2>9, TurnIs DEF Timeout, Check
    <3>3. Here({"wait", "check", "linked"}, {"free"})
      BY <3>1, <3>2, ResultIs DEF Finish, PCs
    <3>4. ap' = ap /\ CallInv(a)'
      BY <3>1, <3>3 DEF Finish, shared, CallInv, Undecided, Fresh, Joined, Before, Taken
    <3> QED BY <3>3, <3>4, JoinByTask
  <2>10. CASE Free(a)
    <3>1. Here({"free"}, {"detach"})
      BY <2>10, GotoIs, TurnIs DEF Free, PCs
    <3>2. ap' = ap /\ CallInv(a)'
      BY <2>10, <3>1 DEF Free, CallInv, Undecided, Fresh, Joined, Before, Taken
    <3> QED BY <3>1, <3>2, JoinByTask
  <2>11. CASE Detach(a)
    <3>1. Here({"detach"}, {"unregister"})
      BY <2>11, GotoIs, TurnIs DEF Detach, PCs
    <3>2. ap' = ap /\ CallInv(a)'
      BY <2>11, <3>1 DEF Detach, CallInv, Undecided, Fresh, Joined, Before, Taken
    <3> QED BY <3>1, <3>2, JoinByTask
  <2>12. CASE Unregister(a)
    <3>1. Here({"unregister"}, {"clear"})
      BY <2>12, GotoIs, TurnIs DEF Unregister, PCs
    <3>2. ap' = ap /\ CallInv(a)'
      BY <2>12, <3>1 DEF Unregister, shared, CallInv, Undecided, Fresh, Joined, Before, Taken
    <3> QED BY <3>1, <3>2, JoinByTask
  <2>13. CASE Clear(a)
    <3>1. Here({"clear"}, {"dhcp", "idle"})
      BY <2>13, GotoIs, TurnIs DEF Clear, PCs
    <3>2. ap' = ap /\ CallInv(a)'
      BY <2>13, <3>1 DEF Clear, CallInv, Undecided, Fresh, Joined, Before, Taken
    <3> QED BY <3>1, <3>2, JoinByTask
  <2>14. CASE Dhcp(a)
    <3>1. /\ task[a].pc \in {"dhcp", "address", "assigned"}
          /\ task'[a].pc \in {"idle", "address", "assigned"}
          /\ task'[a].join = task[a].join /\ task'[a].sec = task[a].sec
          /\ Pending' = {} /\ UNCHANGED <<ap, sema, joinData, registered>>
      <4>1. CASE DhcpStart(a)
        BY <4>1, GotoIs, TurnIs DEF DhcpStart, PCs
      <4>2. CASE Look(a)
        <5>1. task[a].pc = "address" /\ Idle
          BY <4>2, TurnIs DEF Look
        <5>2. /\ task'[a].pc \in {"idle", "assigned"}
              /\ task'[a].join = task[a].join /\ task'[a].sec = task[a].sec
          BY <4>2, GotoIs DEF Look, PCs
        <5> QED BY <4>2, <5>1, <5>2 DEF Look
      <4>3. CASE Assigned(a)
        BY <4>3, AssignedIs, TurnIs DEF Assigned
      <4> QED BY <2>14, <4>1, <4>2, <4>3 DEF Dhcp
    <3>2. CallInv(a)'
      BY <3>1 DEF CallInv, Undecided, Fresh, Joined, Before, Taken
    <3> QED BY <3>1, <3>2, JoinByTask
  <2>15. CASE GiveUp(a)
    <3>1. Here({"mark"}, {"free"})
      BY <2>15, ResultIs, TurnIs DEF GiveUp, PCs
    <3>2. /\ ap'.link = ap.link /\ ap'.sec = ap.sec /\ ap'.join = ap.join
          /\ UNCHANGED <<joinData, registered>>
      BY <2>15 DEF GiveUp, ApType
    <3>3. CallInv(a)'
      BY <3>1, <3>2 DEF CallInv, Undecided, Fresh, Joined, Before, Taken
    <3> QED BY <3>1, <3>2, <3>3, JoinByTask
  <2> QED BY <1>5, <2>3, <2>4, <2>5, <2>6, <2>7, <2>8, <2>9, <2>10, <2>11, <2>12, <2>13, <2>14,
             <2>15 DEF Progress
<1>6. CASE Worker
  <2>1. /\ Handle(Head(queue)) /\ Head(queue) \in Events /\ joinData' = joinData
    BY <1>6, WorkerType
  <2>2. Head(queue) \in Pending /\ Pending' \subseteq Pending
    BY <1>6, Popped DEF Worker
  <2>3. UNCHANGED <<task, registered, ap>>
    BY <1>6 DEF Worker
  <2>4. \/ sema'[a] = sema[a]
        \/ /\ joinData = a /\ (Taken(a) => ap.link \notin {"joining", "associated"})
           /\ sema'[a] = sema[a] \cup {ap.join}
    <3>1. SUFFICES ASSUME sema'[a] # sema[a]
                   PROVE  /\ joinData = a /\ (Taken(a) => ap.link \notin {"joining", "associated"})
                          /\ sema'[a] = sema[a] \cup {ap.join}
      OBVIOUS
    <3> DEFINE e == Head(queue)
    <3>2. /\ joinData = a /\ sema'[a] = sema[a] \cup {e.join}
          /\ (e.kind = "Connect" => task[a].sec = "open")
      BY <2>1, <3>1, HandleWakes
    <3>3. /\ e.join = ap.join /\ ap.link # "joining"
          /\ ap.link = "associated" => e.kind = "Connect"
      BY <2>2, <3>2 DEF JoinInv, QueueInv
    <3> HIDE DEF e
    <3>4. Taken(a) => ap.sec = task[a].sec
      BY <3>2 DEF JoinInv, CallInv, Fresh
    <3> QED BY <3>2, <3>3, <3>4 DEF JoinInv
  <2>5. CallInv(a)'
    BY <2>1, <2>3, <2>4, CallByEvent DEF JoinInv, CallInv
  <2> QED BY <2>1, <2>2, <2>3, <2>5 DEF JoinInv, QueueInv
<1>7. CASE Driver
  <2>1. PICK kind \in Kinds, reason \in Reasons,
             link \in Links :
          /\ Report(kind, reason, link)
          /\ \/ kind = "NoNetwork" /\ ap.link = "joining" /\ link = "no network"
             \/ kind = "Disconnect" /\ ap.link # "down" /\ link = "down"
             \/ /\ kind = "Connect" /\ ap.link = "joining"
                /\ link = IF ap.sec = "open" THEN "up" ELSE "associated"
             \/ kind = "Handshake" /\ ap.link = "associated" /\ link = "up"
    BY <1>7, DriverIs
  <2> DEFINE e == Event(kind, reason)
  <2>2. /\ UNCHANGED <<task, registered, joinData>> /\ (UseThread' <=> UseThread)
        /\ Indicate(e) /\ ap'.link = link /\ ap'.join = ap.join /\ ap'.sec = ap.sec
    BY <2>1, ReportType
  <2>3. e \in Events /\ e.kind = kind /\ e.join = ap.join
    BY EventIs
  <2> HIDE DEF e
  <2>4. link = "associated" => kind = "Connect" /\ ap.link = "joining" /\ ap.sec = "wpa"
    BY <2>1 DEF ApType
  <2>5. link # "joining" /\ (ap.link = "associated" => link # "associated")
    BY <2>1
  <2>6. CASE UNCHANGED <<shared, queue>>
    <3>1. sema' = sema /\ Pending' = Pending
      BY <2>6 DEF shared, Pending, Idle
    <3>2. \/ sema[a] = {} \/ link \notin {"joining", "associated"}
          \/ task[a].pc \notin {"wait", "check"} \/ ~Taken(a)
      BY <2>4, <2>5 DEF JoinInv, CallInv
    <3>3. CallInv(a)'
      BY <2>2, <2>5, <3>1, <3>2, CallByEvent DEF JoinInv
    <3>4. QueueInv'
      BY <2>2, <2>4, <2>5, <3>1 DEF JoinInv, QueueInv
    <3> QED BY <2>2, <2>4, <3>3, <3>4 DEF JoinInv
  <2>7. CASE e.kind \in registered /\ ~UseThread /\ Handle(e) /\ UNCHANGED queue
    <3>1. Pending' = {}
      BY <2>2, <2>7 DEF Pending, Idle, UseThread
    <3>2. \/ sema[a] = {} \/ link \notin {"joining", "associated"}
          \/ task[a].pc \notin {"wait", "check"} \/ ~Taken(a)
      BY <2>4, <2>5 DEF JoinInv, CallInv
    <3>3. \/ sema'[a] = sema[a]
          \/ /\ joinData = a /\ (Taken(a) => link \notin {"joining", "associated"})
             /\ sema'[a] = sema[a] \cup {ap.join}
      <4>1. SUFFICES ASSUME sema'[a] # sema[a]
                     PROVE  /\ joinData = a /\ (Taken(a) => link # "associated")
                            /\ sema'[a] = sema[a] \cup {ap.join}
        BY <2>5
      <4>2. /\ joinData = a /\ sema'[a] = sema[a] \cup {e.join}
            /\ (e.kind = "Connect" => task[a].sec = "open")
        BY <2>3, <2>7, <4>1, HandleWakes
      <4>3. Taken(a) => ap.sec = task[a].sec
        BY <4>2 DEF JoinInv, CallInv, Fresh
      <4> QED BY <2>3, <2>4, <4>2, <4>3
    <3>4. CallInv(a)'
      BY <2>2, <2>5, <3>2, <3>3, CallByEvent DEF JoinInv
    <3> QED BY <2>2, <2>4, <3>1, <3>4 DEF JoinInv, QueueInv
  <2>8. CASE /\ e.kind \in registered /\ UseThread /\ UNCHANGED shared
             /\ Push(e)
    <3>1. Pending' \subseteq Pending \cup {e}
      BY <2>3, <2>8, Pushed
    <3>2. sema' = sema
      BY <2>8 DEF shared
    <3>3. \/ sema[a] = {} \/ link \notin {"joining", "associated"}
          \/ task[a].pc \notin {"wait", "check"} \/ ~Taken(a)
      BY <2>4, <2>5 DEF JoinInv, CallInv
    <3>4. CallInv(a)'
      BY <2>2, <2>5, <3>2, <3>3, CallByEvent DEF JoinInv
    <3>5. QueueInv'
      BY <2>2, <2>3, <2>4, <2>5, <3>1 DEF JoinInv, QueueInv
    <3> QED BY <2>2, <2>4, <3>4, <3>5 DEF JoinInv
  <2> QED BY <2>2, <2>3, <2>6, <2>7, <2>8, IndicateIs
<1>8. CASE UNCHANGED vars
  BY <1>8 DEF vars, JoinInv, QueueInv, CallInv, Taken, Pending, Idle
<1>9. CASE Lease
  BY <1>9 DEF Lease, JoinInv, QueueInv, CallInv, Taken, Pending, Idle
<1> QED BY <1>2, <1>3, <1>4, <1>5, <1>6, <1>7, <1>8, <1>9 DEF Next

LEMMA JoinInit ==
  ASSUME NEW a, Apps = {a}, Init
  PROVE  JoinInv(a)
BY DEF Init, JoinInv, QueueInv, CallInv, Undecided, Fresh, Joined, Before

LEMMA JoinMeans ==
  ASSUME NEW a, Apps = {a}, TypeOK, OwnedInv, JoinInv(a)
  PROVE  NoForeignWake /\ DisconnectBeforeJoin
<1>1. NoForeignWake
  BY DEF JoinInv, CallInv, NoForeignWake
<1>2. ASSUME joinData # None, NEW e \in Pending PROVE e.join = ap.join
  BY <1>2 DEF JoinInv, QueueInv
<1> QED BY <1>1, <1>2 DEF DisconnectBeforeJoin

\* A wait that ends with success was woken by an event of this join, and none
\* raises the semaphore between the association and the handshake.
LEMMA ReadyStep ==
  ASSUME NEW a, Apps = {a}, TypeOK, JoinInv(a), [Next]_vars,
         task[a].pc = "check", Taken(a), task'[a].result = "SUCCESS"
  PROVE  ap.link = "up"
<1>1. task[a].result = None /\ a \in Apps /\ task \in [Apps -> TaskType] /\ None # "SUCCESS"
  BY TypeIs, JoinAssumption DEF JoinInv, CallInv, Undecided
<1>2. task'[a].result # task[a].result /\ task' # task
  BY <1>1
<1>3. ~Worker /\ ~Driver /\ ~UNCHANGED vars /\ ~Disconnect(a) /\ ~Lease
  BY <1>2 DEF Worker, Driver, Report, vars, Disconnect, Lease
<1>4. ~Poll(a) /\ ~Mark(a) /\ ~Refuse(a) /\ ~Register(a) /\ ~Command(a) /\ ~Attach(a) /\ ~Connect(a)
      /\ ~Woken(a) /\ ~Timeout(a) /\ ~Free(a) /\ ~Detach(a) /\ ~Unregister(a) /\ ~Clear(a)
      /\ ~GiveUp(a) /\ ~Dhcp(a)
  BY DEF Poll, Mark, Refuse, Register, Command, Attach, Woken, Timeout, Free, Detach,
         Unregister, Clear, GiveUp, Dhcp, DhcpStart, Look, Assigned, Connect, At
<1>5. Check(a)
  BY <1>3, <1>4 DEF Next, Progress
<1>6. Finish(a, IF Connected THEN "SUCCESS" ELSE "ERROR", "free")
  BY <1>5 DEF Check, At
<1>7. Connected
  <2>1. SUFFICES ASSUME ~Connected PROVE FALSE
    OBVIOUS
  <2>2. task' = [task EXCEPT ![a].pc = "free", ![a].result = "ERROR"]
    BY <1>6, <2>1 DEF Finish
  <2>3. task'[a].result = "ERROR"
    BY <1>1, <2>2, ResultIs DEF PCs
  <2> QED BY <2>3
<1> QED BY <1>7 DEF Connected, JoinInv, CallInv

LEMMA JoinHolds ==
  ASSUME NEW a, Apps = {a}, WorkerFirst \/ Threads \subseteq {FALSE}
  PROVE  Spec => [](TypeOK /\ OwnedInv /\ JoinInv(a))
<1>1. Init => TypeOK /\ OwnedInv /\ JoinInv(a)
  BY TypeInit, OwnedInit, JoinInit
<1>2. TypeOK /\ OwnedInv /\ JoinInv(a) /\ [Next]_vars => (TypeOK /\ OwnedInv /\ JoinInv(a))'
  BY TypeStep, OwnedStep, JoinStep
<1> QED BY <1>1, <1>2, PTL DEF Spec

\* A task that waits for its join is woken only by events of this join: the
\* end of the association it replaced comes before join_user_data is set
\* (the wait for disconnect_sema in wifi_connect), and is not delayed beyond
\* it when no worker is outrun.
THEOREM WakesAreOwn ==
  ASSUME NEW a, Apps = {a}, WorkerFirst \/ Threads \subseteq {FALSE}
  PROVE  Spec => []NoForeignWake
<1>1. TypeOK /\ OwnedInv /\ JoinInv(a) => NoForeignWake
  BY JoinMeans
<1> QED BY <1>1, JoinHolds, PTL

\* join_user_data is never set while the disconnection of the association
\* that the join replaced waits for its handler.
THEOREM DisconnectionComesFirst ==
  ASSUME NEW a, Apps = {a}, WorkerFirst \/ Threads \subseteq {FALSE}
  PROVE  Spec => []DisconnectBeforeJoin
<1>1. TypeOK /\ OwnedInv /\ JoinInv(a) => DisconnectBeforeJoin
  BY JoinMeans
<1> QED BY <1>1, JoinHolds, PTL

\* wifi_connect says success only of a link that carries data, although it
\* asks whether the interface is associated.
THEOREM SuccessIsReady ==
  ASSUME NEW app, Apps = {app}, WorkerFirst \/ Threads \subseteq {FALSE}
  PROVE  Spec => ReadyOnSuccess
<1>1. TypeOK /\ JoinInv(app) /\ [Next]_vars =>
        [\A a \in Apps : task[a].pc = "check" /\ Taken(a) /\ task'[a].result = "SUCCESS"
                           => ap.link = "up"]_vars
  BY ReadyStep
<1>2. Init => TypeOK /\ OwnedInv /\ JoinInv(app)
  BY TypeInit, OwnedInit, JoinInit
<1>3. TypeOK /\ OwnedInv /\ JoinInv(app) /\ [Next]_vars => (TypeOK /\ OwnedInv /\ JoinInv(app))'
  BY TypeStep, OwnedStep, JoinStep
<1> QED BY <1>1, <1>2, <1>3, PTL DEF Spec, ReadyOnSuccess
-----------------------------------------------------------------------------
(***************************************************************************)
(* wifi_is_ready_to_transceive.                                            *)
(***************************************************************************)
\* The link is up, or its loss is on its way, or the event of that was lost.
Linked ==
  \/ ap.link = "up"
  \/ \E e \in Pending : e.kind = "Disconnect"
  \/ "Disconnect" \in ap.lost

Bound == {"address", "assigned"}

ReadyInv(a) ==
  /\ task[a].pc \in {"command", "settle", "wait", "check", "linked"} =>
       "Disconnect" \in registered
  /\ task[a].result = "SUCCESS" => "Disconnect" \in registered
  /\ task[a].pc \in {"dhcp"} \cup Bound => task[a].result = "SUCCESS"
  /\ task[a].pc = "assigned" => dhcp # "asking"
  /\ task[a].pc \in Bound /\ dhcp = "bound" => Linked
  /\ error = "NO_ERROR" =>
       /\ task[a].pc \in {"idle", "mark"}
       /\ "Disconnect" \in registered
       /\ Linked \/ task[a].late

\* No handler restores RTW_NO_ERROR, and the disconnection's takes it away and
\* stops the DHCP client.
LEMMA HandleError ==
  ASSUME NEW e \in Events, Handle(e)
  PROVE  /\ error' = "NO_ERROR" =>
              error = "NO_ERROR" /\ (joinData = None => e.kind # "Disconnect")
         /\ dhcp' = IF e.kind = "Disconnect" THEN "off" ELSE dhcp
<1>1. CASE e.kind # "Disconnect"
  BY <1>1 DEF Handle, NoNetworkHdl, ConnectedHdl, HandshakeDoneHdl
<1>2. CASE e.kind = "Disconnect"
  <2>1. error' = Blame(e) /\ dhcp' = "off"
    BY <1>2 DEF Handle, DisconnHdl
  <2> QED BY <1>2, <2>1 DEF Blame
<1> QED BY <1>1, <1>2

\* The driver reports the loss of the link, or something else.
LEMMA LinkStays ==
  ASSUME SharedOK, ap \in ApType, NEW e \in Events, Indicate(e), Lost(e) \subseteq ap'.lost,
         ap.link = "up" => e.kind = "Disconnect" /\ "Disconnect" \in registered,
         Linked
  PROVE  \/ Linked'
         \/ dhcp' = "off" /\ (joinData = None => error' # "NO_ERROR")
<1>1. ap.lost \subseteq ap'.lost
  BY LostIs
<1>2. CASE e.kind \notin registered /\ UNCHANGED <<shared, queue>>
  BY <1>1, <1>2 DEF Linked, shared, Pending, Idle
<1>3. CASE ~UseThread /\ Handle(e) /\ UNCHANGED queue
  <2>1. Pending = {}
    BY <1>3, PendingIs
  <2> QED BY <1>1, <1>3, <2>1, HandleError DEF Linked
<1>4. CASE e.kind \in registered /\ UseThread /\ UNCHANGED shared /\ Push(e)
  <2>1. Pending \subseteq Pending' /\ (queue' = queue \/ e \in Pending')
    BY <1>4, Pushed
  <2>2. queue' = queue => e.kind \in ap'.lost
    BY <1>4, LostIs
  <2> QED BY <1>1, <2>1, <2>2 DEF Linked
<1> QED BY <1>2, <1>3, <1>4, IndicateIs

LEMMA IndicateError ==
  ASSUME SharedOK, NEW e \in Events, Indicate(e)
  PROVE  (error' = "NO_ERROR" => error = "NO_ERROR") /\ dhcp' \in {dhcp, "off"}
<1>1. CASE UNCHANGED shared
  BY <1>1 DEF shared
<1>2. CASE Handle(e)
  BY <1>2, HandleError
<1> QED BY <1>1, <1>2, IndicateIs

\* The same of a command that ends the association.
LEMMA DropKeepsLink ==
  ASSUME SharedOK, ap \in ApType, Drop
  PROVE  /\ error' = "NO_ERROR" => error = "NO_ERROR"
         /\ dhcp' \in {dhcp, "off"}
         /\ Linked /\ ap' = Dropped /\ "Disconnect" \in registered =>
              \/ Linked'
              \/ dhcp' = "off" /\ (joinData = None => error' # "NO_ERROR")
<1> DEFINE e == Event("Disconnect", "other")
<1>1. e \in Events /\ e.kind = "Disconnect"
  BY EventIs DEF Kinds, Reasons
<1>2. CASE Connected
  <2>1. Indicate(e)
    BY <1>2 DEF Drop
  <2>2. ap' = Dropped => ap'.lost = Lost(e)
    BY <1>2, DroppedIs
  <2> HIDE DEF e
  <2>3. (error' = "NO_ERROR" => error = "NO_ERROR") /\ dhcp' \in {dhcp, "off"}
    BY <1>1, <2>1, IndicateError
  <2>4. Linked /\ ap' = Dropped /\ "Disconnect" \in registered =>
          \/ Linked'
          \/ dhcp' = "off" /\ (joinData = None => error' # "NO_ERROR")
    BY <1>1, <2>1, <2>2, LinkStays
  <2> QED BY <2>3, <2>4
<1>3. CASE ~Connected
  <2>1. UNCHANGED <<shared, queue>> /\ ap.link # "up"
    BY <1>3 DEF Drop, Connected
  <2>2. Pending' = Pending
    BY <2>1 DEF Pending, Idle
  <2>3. ap' = Dropped => ap.lost \subseteq ap'.lost
    BY DroppedIs
  <2> QED BY <2>1, <2>2, <2>3 DEF shared, Linked
<1> QED BY <1>2, <1>3

\* Nothing happens to the link and its events.
LEMMA LinkedSame ==
  ASSUME UNCHANGED <<ap, queue>>
  PROVE  Linked' <=> Linked
BY DEF Linked, Pending, Idle

LEMMA ReadyHolds ==
  ASSUME NEW a, Apps = {a}, TypeOK, OwnedInv, ReadyInv(a), [Next]_vars
  PROVE  ReadyInv(a)'
<1>0. /\ a \in Apps /\ task \in [Apps -> TaskType] /\ ap \in ApType /\ SharedOK /\ Prompt
      /\ joinData \in {a, None} /\ (joinData = a => task[a].pc \in Joined)
      /\ a # None /\ None # "SUCCESS"
  BY TypeIs, JoinAssumption DEF OwnedInv, SharedOK
<1> USE <1>0
<1>1. CASE Connect(a)
  <2>1. Idle /\ task[a].pc = "idle"
    BY <1>1, TurnIs DEF Connect
  <2>2. "CONNECTING" \notin status
    BY <2>1 DEF OwnedInv, Owning, Listening, Joined
  <2>3. Enter(a, "mark", None) /\ UNCHANGED <<shared, queue, ap, registered>> /\ Latest < MaxCalls
    BY <1>1, <2>2 DEF Connect
  <2>4. task'[a].pc = "mark" /\ task'[a].result = None /\ task'[a].late = task[a].late
    BY <2>3, EnterType DEF PCs
  <2>5. Linked' <=> Linked
    BY <2>3, LinkedSame
  <2> QED BY <2>1, <2>3, <2>4, <2>5 DEF ReadyInv, shared, Bound
<1>2. CASE Command(a)
  <2>1. /\ task[a].pc = "command" /\ task'[a].pc = "settle" /\ registered' = registered
        /\ task'[a].result = task[a].result
    BY <1>2, TurnIs, GotoIs DEF Command, PCs
  <2>2. error # "NO_ERROR" /\ "Disconnect" \in registered
    BY <2>1 DEF ReadyInv
  <2>3. error' # "NO_ERROR"
    <3>1. CASE Drop
      BY <2>2, <3>1, DropKeepsLink
    <3>2. CASE UNCHANGED shared
      BY <2>2, <3>2 DEF shared
    <3> QED BY <1>2, <3>1, <3>2 DEF Command
  <2> QED BY <2>1, <2>2, <2>3 DEF ReadyInv, Bound
<1>3. CASE Disconnect(a)
  <2>1. Idle /\ task[a].pc = "idle" /\ joinData = None
    BY <1>3, TurnIs DEF Disconnect, Joined
  <2>2. UNCHANGED <<task, registered>> /\ Drop /\ ap' = Dropped
    BY <1>3 DEF Disconnect
  <2>3. ASSUME error' = "NO_ERROR"
        PROVE  "Disconnect" \in registered /\ (Linked' \/ task[a].late)
    <3>1. "Disconnect" \in registered /\ (Linked \/ task[a].late)
      BY <2>2, <2>3, DropKeepsLink DEF ReadyInv
    <3> QED BY <2>1, <2>2, <2>3, <3>1, DropKeepsLink
  <2> QED BY <2>1, <2>2, <2>3 DEF ReadyInv, Bound
<1>4. ASSUME Progress(a), ~Command(a), ~Mark(a), ~Refuse(a), ~GiveUp(a) PROVE ReadyInv(a)'
  <2>1. task[a].pc \notin {"idle", "mark", "dhcp"} \cup Bound /\ error' = error
    BY <1>4 DEF Progress, Poll, Register, Attach, Woken, Timeout, Check, Finish, Free, Detach,
                Unregister, Clear, At, shared, Bound
  <2>2. error' # "NO_ERROR"
    BY <2>1 DEF ReadyInv
  <2>3. CASE Poll(a) \/ Register(a) \/ Attach(a) \/ Woken(a)
    <3>1. /\ task'[a].result = task[a].result
          /\ \/ task'[a].pc = "mark" /\ registered' = registered
             \/ registered' = Kinds /\ task'[a].pc \notin {"dhcp"} \cup Bound
             \/ /\ registered' = registered
                /\ task[a].pc \in {"settle", "wait"}
                /\ task'[a].pc \in {"wait", "linked", "check"}
      BY <2>3, GotoIs DEF Poll, Register, Attach, Woken, At, PCs, Bound
    <3> QED BY <2>2, <3>1 DEF ReadyInv, Kinds, Bound
  <2>4. CASE Timeout(a) \/ Check(a)
    <3>1. UNCHANGED registered /\ task[a].pc \in {"wait", "check", "linked"}
      BY <2>4 DEF Timeout, Check, Finish, At
    <3>2. PICK result \in {"SUCCESS", "ERROR", "TIMEOUT"} : Finish(a, result, "free")
      BY <2>4 DEF Timeout, Check
    <3>3. task'[a].pc = "free"
      BY <3>2, ResultIs DEF Finish, PCs
    <3> QED BY <2>2, <3>1, <3>3 DEF ReadyInv, Bound
  <2>5. CASE Free(a) \/ Detach(a) \/ Unregister(a) \/ Clear(a)
    <3>1. /\ task'[a].result = task[a].result
          /\ "Disconnect" \in registered => "Disconnect" \in registered'
          /\ task'[a].pc \in {"detach", "unregister", "clear", "dhcp", "idle"}
          /\ task'[a].pc = "dhcp" => task[a].result = "SUCCESS"
      BY <2>5, GotoIs DEF Free, Detach, Unregister, Clear, PCs
    <3> QED BY <2>2, <3>1 DEF ReadyInv, Bound
  <2> QED BY <1>4, <2>3, <2>4, <2>5 DEF Progress
<1>5. CASE Mark(a)
  <2>1. /\ task'[a].pc = "register" /\ task'[a].result = task[a].result
        /\ error' = "UNKNOWN" /\ registered' = registered
    BY <1>5, GotoIs DEF Mark, PCs
  <2> QED BY <2>1 DEF ReadyInv, Bound
<1>6. CASE Refuse(a) \/ GiveUp(a)
  <2>1. PICK pc \in {"idle", "free"} :
          task' = [task EXCEPT ![a].pc = pc, ![a].result = "ERROR"]
    BY <1>6 DEF Refuse, GiveUp
  <2>2. task'[a].pc \in {"idle", "free"} /\ task'[a].result = "ERROR"
    BY <2>1, ResultIs DEF PCs
  <2>3. error' # "NO_ERROR"
    BY <1>6 DEF Refuse, GiveUp
  <2> QED BY <2>2, <2>3 DEF ReadyInv, Bound
<1>7. CASE Dhcp(a)
  <2>1. CASE DhcpStart(a)
    <3>1. /\ task[a].pc = "dhcp" /\ task'[a].pc = "address"
          /\ task'[a].result = task[a].result
          /\ dhcp' = "asking" /\ UNCHANGED <<error, registered>>
      BY <2>1, GotoIs DEF DhcpStart, At, PCs
    <3> QED BY <3>1 DEF ReadyInv, Bound
  <2>2. CASE Look(a)
    <3>1. task[a].pc = "address" /\ UNCHANGED <<registered, ap, queue>>
      BY <2>2 DEF Look, At
    <3>2. /\ task'[a].result = task[a].result
          /\ \/ task'[a].pc = "idle" /\ error' \in {error, "DHCP_FAIL"}
             \/ task'[a].pc = "assigned" /\ dhcp = "bound" /\ UNCHANGED <<error, dhcp>>
      BY <2>2, GotoIs DEF Look, PCs
    <3>3. Linked' <=> Linked
      BY <3>1, LinkedSame
    <3> QED BY <3>1, <3>2, <3>3 DEF ReadyInv, Bound
  <2>3. CASE Assigned(a)
    <3>1. task[a].pc = "assigned" /\ UNCHANGED <<registered, ap, queue, dhcp>>
      BY <2>3 DEF Assigned, At
    <3>2. /\ task'[a].result = task[a].result /\ task'[a].pc = "idle"
          /\ task'[a].late = (dhcp = "off")
      BY <2>3, AssignedIs
    <3>3. Linked' <=> Linked
      BY <3>1, LinkedSame
    <3>4. dhcp \in {"off", "bound"} /\ (dhcp = "bound" => Linked) /\ "Disconnect" \in registered
      BY <3>1 DEF ReadyInv, Bound, SharedOK
    <3>5. Linked' \/ task'[a].late
      <4>1. CASE dhcp = "off"
        BY <3>2, <4>1
      <4>2. CASE dhcp = "bound"
        BY <3>3, <3>4, <4>2
      <4> QED BY <3>4, <4>1, <4>2
    <3> QED BY <3>1, <3>2, <3>4, <3>5 DEF ReadyInv, Bound
  <2> QED BY <1>7, <2>1, <2>2, <2>3 DEF Dhcp
<1>8. CASE Worker
  <2> DEFINE e == Head(queue)
  <2>1. /\ Handle(e) /\ e \in Events /\ joinData' = joinData
    BY <1>8, WorkerType
  <2>2. Pending \subseteq Pending' \cup {e}
    BY <1>8, Popped DEF Worker
  <2>3. UNCHANGED <<task, registered, ap>>
    BY <1>8 DEF Worker
  <2> HIDE DEF e
  <2>4. /\ error' = "NO_ERROR" =>
             error = "NO_ERROR" /\ (joinData = None => e.kind # "Disconnect")
        /\ dhcp' = IF e.kind = "Disconnect" THEN "off" ELSE dhcp
    BY <2>1, HandleError
  <2>5. e.kind # "Disconnect" /\ Linked => Linked'
    BY <2>2, <2>3 DEF Linked
  <2>6. task[a].pc \in {"idle", "mark"} => joinData = None
    BY DEF Joined
  <2> QED BY <2>3, <2>4, <2>5, <2>6 DEF ReadyInv
<1>9. CASE Driver
  <2>1. PICK kind \in Kinds, reason \in Reasons,
             link \in Links :
          /\ Report(kind, reason, link)
          /\ ap.link = "up" => kind = "Disconnect"
    BY <1>9, DriverIs
  <2> DEFINE e == Event(kind, reason)
  <2>2. /\ UNCHANGED <<task, registered, joinData>> /\ Indicate(e) /\ ap'.lost = Lost(e)
    BY <2>1, ReportType
  <2>3. e \in Events /\ e.kind = kind
    BY EventIs
  <2> HIDE DEF e
  <2>4. (error' = "NO_ERROR" => error = "NO_ERROR") /\ dhcp' \in {dhcp, "off"}
    BY <2>2, <2>3, IndicateError
  <2>5. Linked /\ "Disconnect" \in registered =>
          Linked' \/ (dhcp' = "off" /\ (joinData = None => error' # "NO_ERROR"))
    BY <2>1, <2>2, <2>3, LinkStays
  <2>6. task[a].pc \in {"idle", "mark"} => joinData = None
    BY DEF Joined
  <2> QED BY <2>2, <2>4, <2>5, <2>6 DEF ReadyInv, Bound
<1>10. CASE UNCHANGED vars
  <2>1. UNCHANGED <<task, registered, error, dhcp, ap, queue>>
    BY <1>10 DEF vars
  <2> QED BY <2>1, LinkedSame DEF ReadyInv
<1>11. CASE Lease
  <2>1. UNCHANGED <<task, registered, error>> /\ UNCHANGED <<ap, queue>> /\ Linked /\ dhcp = "asking"
    BY <1>11 DEF Lease, Linked
  <2>2. Linked'
    BY <2>1, LinkedSame
  <2> QED BY <2>1, <2>2 DEF ReadyInv
<1> QED BY <1>1, <1>2, <1>3, <1>4, <1>5, <1>6, <1>7, <1>8, <1>9, <1>10, <1>11 DEF Next

\* wifi_is_ready_to_transceive says yes only while the link is up or the
\* event of its loss is in the queue, but for a loss whose event found no
\* memory, or that came between the last two steps of LwIP_DHCP.
THEOREM ReadyIsLinked ==
  ASSUME NEW a, Apps = {a}, WorkerFirst \/ Threads \subseteq {FALSE}
  PROVE  Spec => []ReadyMeansLinked
<1>1. Init => TypeOK /\ OwnedInv /\ ReadyInv(a)
  <2>1. Init => ReadyInv(a)
    BY JoinAssumption DEF Init, ReadyInv, Bound
  <2> QED BY <2>1, TypeInit, OwnedInit
<1>2. TypeOK /\ OwnedInv /\ ReadyInv(a) /\ [Next]_vars => (TypeOK /\ OwnedInv /\ ReadyInv(a))'
  BY TypeStep, OwnedStep, ReadyHolds
<1>3. ReadyInv(a) => ReadyMeansLinked
  BY DEF ReadyInv, Linked, ReadyMeansLinked
<1> QED BY <1>1, <1>2, <1>3, PTL DEF Spec
-----------------------------------------------------------------------------
(***************************************************************************)
(* What error_flag accuses.  A disconnection is blamed on the key when the *)
(* flags say associated and no more; so the handshake's event, if it is    *)
(* not lost, must not come behind the disconnection.                       *)
(***************************************************************************)
Associated == {"COMPLETE", "CONNECTING"}
Shaken == {"COMPLETE", "HANDSHAKE_DONE", "CONNECTING"}

\* The handshake that the driver reported is the next to be handled, but for
\* the association.
HandshakeAhead ==
  /\ UseThread
  /\ \/ Len(queue) >= 1 /\ queue[1].kind = "Handshake"
     \/ Len(queue) >= 2 /\ queue[1].kind = "Connect" /\ queue[2].kind = "Handshake"

SeenInv ==
  /\ "Disconnect" \in ap.seen => ap.link = "down"
  /\ ap.link = "joining" => ap.seen \subseteq {"bad key"}
  /\ ap.link = "associated" => "Handshake" \notin ap.seen
  /\ BlameIsEarned
  /\ error = "4WAY_TIMEOUT" => "Disconnect" \in ap.seen

FreshInv(a) ==
  task[a].pc \in {"register", "command", "settle"} =>
    error = "UNKNOWN" /\ status \in {{"CONNECTING"}, Shaken}

StatusInv ==
  joinData # None =>
    /\ \A e \in Pending :
         /\ e.kind \in ap.seen
         /\ e.reason = "handshake timeout" => e.kind = "Disconnect" /\ "Handshake" \notin ap.seen
    /\ status = Associated => "Connect" \in ap.seen
    /\ "NO_NETWORKS" \in status => "NoNetwork" \in ap.seen
    /\ "Handshake" \in ap.seen \ ap.lost =>
         \/ HandshakeAhead
         \/ status # Associated /\ \A e \in Pending : e.kind # "Connect"
    /\ UseThread => \A i \in 1 .. Len(queue) : queue[i].kind = "Connect" => i = 1

BlameInv(a) == SeenInv /\ FreshInv(a) /\ StatusInv

LEMMA FlagSets == Shaken # Associated /\ {"NO_NETWORKS", "CONNECTING"} # Associated
BY DEF Shaken, Associated

\* What a handler does with the flags and the error.
LEMMA HandleFlags ==
  ASSUME NEW e \in Events, Handle(e)
  PROVE  /\ e.kind = "Handshake" => status' = Shaken
         /\ e.kind = "Connect" => status' = IF joinData # None THEN Associated ELSE status
         /\ e.kind = "NoNetwork" =>
              status' = IF joinData # None THEN {"NO_NETWORKS", "CONNECTING"} ELSE status
         /\ e.kind = "Disconnect" => status' = status
         /\ error' = IF e.kind = "Disconnect" THEN Blame(e) ELSE error
BY DEF Handle, NoNetworkHdl, ConnectedHdl, HandshakeDoneHdl, DisconnHdl, Shaken, Associated

LEMMA BlameIs ==
  ASSUME NEW e
  PROVE  \/ Blame(e) = error
         \/ Blame(e) = "UNKNOWN" /\ error = "NO_ERROR"
         \/ /\ joinData # None
            /\ \/ Blame(e) = "NONE_NETWORK" /\ "NO_NETWORKS" \in status
               \/ Blame(e) = "CONNECT_FAIL"
               \/ Blame(e) = "WRONG_PASSWORD" /\ status = Associated
               \/ /\ Blame(e) = "4WAY_TIMEOUT" /\ status = Associated
                  /\ e.reason = "handshake timeout"
BY DEF Blame, Associated

\* Without a join registered no handler accuses anything new.
LEMMA QuietError ==
  ASSUME NEW e \in Events, Handle(e), joinData = None
  PROVE  error' = error \/ error' = "UNKNOWN"
BY HandleFlags DEF Blame

LEMMA QuietIndicate ==
  ASSUME NEW e \in Events, Indicate(e), joinData = None
  PROVE  /\ error' = error \/ error' = "UNKNOWN"
         /\ status' = status \/ status' = Shaken
<1>1. CASE Handle(e)
  BY <1>1, QuietError, HandleFlags DEF Events, Kinds
<1>2. CASE UNCHANGED shared
  BY <1>2 DEF shared
<1> QED BY <1>1, <1>2 DEF Indicate

\* The accusation that a handler makes is earned, and the earlier ones remain.
LEMMA SeenByEvent ==
  ASSUME SeenInv, StatusInv, NEW kind \in Kinds,
         \/ ap'.seen = ap.seen /\ (ap'.link = ap.link \/ ap'.link = "down")
         \/ /\ ap'.seen = ap.seen \cup {kind} /\ ap.link # "down"
            /\ kind = "Disconnect" => ap'.link = "down",
         ap'.link = "joining" => ap'.seen \subseteq {"bad key"},
         ap'.link = "associated" => "Handshake" \notin ap'.seen,
         ap.lost \subseteq ap'.lost,
         \/ error' = error
         \/ error' = "UNKNOWN"
         \/ /\ joinData # None /\ "Disconnect" \in ap'.seen
            /\ \/ error' = "NONE_NETWORK" /\ "NO_NETWORKS" \in status
               \/ error' = "CONNECT_FAIL"
               \/ /\ error' = "4WAY_TIMEOUT"
                  /\ status = Associated /\ "Handshake" \notin ap'.seen
               \/ /\ error' = "WRONG_PASSWORD"
                  /\ status = Associated /\ "Handshake" \notin ap'.seen \ ap'.lost
  PROVE  SeenInv'
<1>1. ap.seen \subseteq ap'.seen
  OBVIOUS
<1>2. /\ "Disconnect" \in ap'.seen => ap'.link = "down"
      /\ ap'.link = "joining" => ap'.seen \subseteq {"bad key"}
      /\ ap'.link = "associated" => "Handshake" \notin ap'.seen
  BY DEF SeenInv
<1>3. "Disconnect" \in ap.seen => ap'.seen = ap.seen
  BY DEF SeenInv
<1>4. CASE error' = error
  <2>1. /\ error = "NONE_NETWORK" => "NoNetwork" \in ap'.seen
        /\ error = "4WAY_TIMEOUT" =>
             /\ "Connect" \in ap'.seen /\ "Handshake" \notin ap'.seen
             /\ "Disconnect" \in ap'.seen
    BY <1>1, <1>3 DEF SeenInv, BlameIsEarned
  <2>2. error = "WRONG_PASSWORD" =>
          \/ "bad key" \in ap'.seen
          \/ /\ {"Connect", "Disconnect"} \subseteq ap'.seen
             /\ "Handshake" \notin ap'.seen \ ap'.lost
    BY <1>1, <1>3 DEF SeenInv, BlameIsEarned
  <2> QED BY <1>2, <1>4, <2>1, <2>2 DEF SeenInv, BlameIsEarned
<1>5. CASE error' = "UNKNOWN"
  BY <1>2, <1>5 DEF SeenInv, BlameIsEarned
<1>6. CASE /\ joinData # None /\ "Disconnect" \in ap'.seen
           /\ \/ error' = "NONE_NETWORK" /\ "NO_NETWORKS" \in status
              \/ error' = "CONNECT_FAIL"
              \/ /\ error' = "4WAY_TIMEOUT"
                 /\ status = Associated /\ "Handshake" \notin ap'.seen
              \/ /\ error' = "WRONG_PASSWORD"
                 /\ status = Associated /\ "Handshake" \notin ap'.seen \ ap'.lost
  <2>1. /\ status = Associated => "Connect" \in ap'.seen
        /\ "NO_NETWORKS" \in status => "NoNetwork" \in ap'.seen
    BY <1>1, <1>6 DEF StatusInv
  <2> QED BY <1>2, <1>6, <2>1 DEF SeenInv, BlameIsEarned
<1> QED BY <1>4, <1>5, <1>6

\* A push, by position.
LEMMA PushedAt ==
  ASSUME SharedOK, UseThread, NEW e \in Events, Push(e)
  PROVE  /\ Len(queue) \in Nat /\ Len(queue) <= Len(queue')
         /\ \A i \in 1 .. Len(queue) : queue'[i] = queue[i]
         /\ \/ Len(queue') = Len(queue) + 1 /\ queue'[Len(queue) + 1] = e
            \/ queue' = queue
<1>1. queue \in Seq(Events) /\ Len(queue) \in Nat
  BY DEF SharedOK
<1>2. CASE queue' = Append(queue, e)
  BY <1>1, <1>2, AppendProperties
<1>3. CASE UNCHANGED queue
  BY <1>1, <1>3
<1> QED BY <1>2, <1>3 DEF Push

LEMMA PendingMade ==
  ASSUME SharedOK', UseThread'
  PROVE  Pending' = {queue'[i] : i \in 1 .. Len(queue')}
<1>1. queue' \in Seq(Events) /\ DOMAIN queue' = 1 .. Len(queue')
  BY DEF SharedOK
<1>2. CASE queue' = <<>>
  <2>1. Pending' = {}
    BY <1>2 DEF Pending, Idle
  <2> QED BY <1>2, <2>1
<1>3. CASE queue' # <<>>
  <2>1. ~Idle'
    BY <1>3 DEF Idle, UseThread
  <2> QED BY <1>1, <2>1 DEF Pending
<1> QED BY <1>2, <1>3

LEMMA PendingNone ==
  ASSUME SharedOK, UseThread, Pending = {}
  PROVE  Len(queue) = 0
<1>1. Pending = {queue[i] : i \in 1 .. Len(queue)} /\ Len(queue) \in Nat
  BY PendingIs
<1>2. 1 \notin 1 .. Len(queue)
  BY <1>1
<1> QED BY <1>1, <1>2

\* A push keeps what comes ahead, and an association comes first.
LEMMA PushedAhead ==
  ASSUME SharedOK, UseThread, NEW e \in Events,
         Push(e),
         \A i \in 1 .. Len(queue) : queue[i].kind = "Connect" => i = 1
  PROVE  /\ HandshakeAhead => HandshakeAhead'
         /\ Len(queue) = 0 \/ e.kind # "Connect" =>
              \A i \in 1 .. Len(queue') : queue'[i].kind = "Connect" => i = 1
         /\ e.kind = "Handshake" /\ (\A f \in Pending : f.kind = "Connect") =>
              HandshakeAhead' \/ queue' = queue
<1> DEFINE z == Len(queue)
           y == Len(queue')
<1>1. z \in Nat /\ UseThread'
  BY Pushed, PushedAt
<1>2. z <= y /\ \A i \in 1 .. z : queue'[i] = queue[i]
  BY PushedAt
<1>3. \/ y = z + 1 /\ queue'[z + 1] = e
      \/ queue' = queue /\ y = z
  <2>1. \/ y = z + 1 /\ queue'[z + 1] = e
        \/ queue' = queue
    BY PushedAt
  <2> QED BY <2>1
<1>4. HandshakeAhead <=> \/ z >= 1 /\ queue[1].kind = "Handshake"
                         \/ z >= 2 /\ queue[1].kind = "Connect" /\ queue[2].kind = "Handshake"
  BY DEF HandshakeAhead
<1>5. HandshakeAhead' <=> \/ y >= 1 /\ queue'[1].kind = "Handshake"
                          \/ y >= 2 /\ queue'[1].kind = "Connect" /\ queue'[2].kind = "Handshake"
  BY <1>1 DEF HandshakeAhead
<1>6. Pending = {queue[i] : i \in 1 .. z}
  BY PendingIs
<1>7. \A i \in 1 .. z : queue[i].kind = "Connect" => i = 1
  OBVIOUS
<1> HIDE DEF z, y
<1>8. y \in Nat
  BY <1>1, <1>3
<1>9. HandshakeAhead => HandshakeAhead'
  <2>1. /\ z >= 1 => y >= 1 /\ queue'[1] = queue[1]
        /\ z >= 2 => y >= 2 /\ queue'[2] = queue[2]
    <3>1. z >= 1 => 1 \in 1 .. z
      BY <1>1
    <3>2. z >= 2 => 2 \in 1 .. z
      BY <1>1
    <3>3. (z >= 1 => y >= 1) /\ (z >= 2 => y >= 2)
      BY <1>1, <1>2, <1>8
    <3> QED BY <1>2, <3>1, <3>2, <3>3
  <2>2. z >= 2 => z >= 1
    BY <1>1
  <2> QED BY <1>4, <1>5, <2>1, <2>2
<1>10. ASSUME z = 0 \/ e.kind # "Connect", NEW i \in 1 .. y, queue'[i].kind = "Connect"
       PROVE  i = 1
  <2>1. CASE i \in 1 .. z
    BY <1>2, <1>7, <1>10, <2>1
  <2>2. CASE i \notin 1 .. z
    <3>1. i \in Nat /\ 1 <= i /\ i <= y /\ z < i
      BY <1>1, <1>8, <1>10, <2>2
    <3>2. y # z
      BY <1>1, <1>8, <3>1
    <3>3. y = z + 1 /\ queue'[z + 1] = e
      BY <1>3, <3>2
    <3>4. i = z + 1
      BY <1>1, <3>1, <3>3
    <3>5. queue'[i] = e
      BY <3>4, <3>3
    <3>6. e.kind = "Connect"
      BY <1>10, <3>5
    <3>7. z = 0
      BY <1>10, <3>6
    <3> QED BY <3>4, <3>7
  <2> QED BY <2>1, <2>2
<1>11. ASSUME e.kind = "Handshake", \A f \in Pending : f.kind = "Connect", queue' # queue
       PROVE  HandshakeAhead'
  <2>1. \A i \in 1 .. z : i = 1 /\ queue[i].kind = "Connect"
    BY <1>6, <1>7, <1>11
  <2>2. z <= 1
    <3>1. SUFFICES ASSUME z > 1 PROVE FALSE
      BY <1>1
    <3>2. 2 \in 1 .. z
      BY <1>1, <3>1
    <3> QED BY <2>1, <3>2
  <2>4. y = z + 1 /\ queue'[z + 1] = e
    BY <1>3, <1>11
  <2>5. CASE z = 0
    BY <1>5, <1>11, <2>4, <2>5
  <2>6. CASE z = 1
    <3>1. queue'[1].kind = "Connect"
      BY <1>2, <2>1, <2>6
    <3> QED BY <1>5, <1>11, <2>4, <2>6, <3>1
  <2> QED BY <1>1, <2>2, <2>5, <2>6
<1> QED BY <1>9, <1>10, <1>11 DEF z, y

\* The flags say no more than the driver did.
LEMMA FlagsAreSeen ==
  ASSUME NEW e \in Events, Handle(e), joinData # None, StatusInv,
         NEW seen, ap.seen \subseteq seen, e.kind \in seen
  PROVE  /\ status' = Associated => "Connect" \in seen
         /\ "NO_NETWORKS" \in status' => "NoNetwork" \in seen
<1>0. /\ status = Associated => "Connect" \in seen
      /\ "NO_NETWORKS" \in status => "NoNetwork" \in seen
  BY DEF StatusInv
<1>1. CASE e.kind = "Connect"
  <2>1. status' = Associated
    BY <1>1, HandleFlags
  <2> QED BY <1>1, <2>1 DEF Associated
<1>2. CASE e.kind = "NoNetwork"
  <2>1. status' = {"NO_NETWORKS", "CONNECTING"}
    BY <1>2, HandleFlags
  <2> QED BY <1>2, <2>1 DEF Associated
<1>3. CASE e.kind = "Handshake"
  <2>1. status' = Shaken
    BY <1>3, HandleFlags
  <2> QED BY <2>1 DEF Associated, Shaken
<1>4. CASE e.kind = "Disconnect"
  BY <1>0, <1>4, HandleFlags
<1> QED BY <1>1, <1>2, <1>3, <1>4 DEF Events, Kinds

LEMMA BlameStep ==
  ASSUME NEW a, Apps = {a},
         TypeOK, OwnedInv, JoinInv(a), BlameInv(a), [Next]_vars
  PROVE  BlameInv(a)'
<1>0. /\ a \in Apps /\ task \in [Apps -> TaskType] /\ ap \in ApType /\ SharedOK /\ Prompt
      /\ joinData \in {a, None} /\ (joinData = a => task[a].pc \in Joined)
      /\ a # None
  BY TypeIs, JoinAssumption DEF OwnedInv, SharedOK
<1>i. SeenInv /\ FreshInv(a) /\ StatusInv
  BY DEF BlameInv
<1> USE <1>0, <1>i
<1>1. CASE Connect(a)
  <2>1. Idle /\ task[a].pc = "idle" /\ joinData = None
    BY <1>1, TurnIs DEF Connect, Joined
  <2>2. "CONNECTING" \notin status
    BY <2>1 DEF OwnedInv, Owning, Listening, Joined
  <2>3. Enter(a, "mark", None) /\ UNCHANGED <<shared, queue, ap, registered>> /\ Latest < MaxCalls
    BY <1>1, <2>2 DEF Connect
  <2>4. task'[a].pc = "mark"
    BY <2>3, EnterType DEF PCs
  <2>5. SeenInv'
    BY <2>3 DEF SeenInv, BlameIsEarned, shared
  <2> QED BY <2>1, <2>3, <2>4, <2>5 DEF BlameInv, FreshInv, StatusInv, shared, Fresh, Joined
<1>2. ASSUME Drop, joinData = None PROVE /\ error' = error \/ error' = "UNKNOWN"
                                         /\ status' = status \/ status' = Shaken
                                         /\ joinData' = None
  <2>1. CASE Indicate(Event("Disconnect", "other"))
    <3>1. Event("Disconnect", "other") \in Events
      BY EventIs DEF Kinds, Reasons
    <3> QED BY <1>2, <2>1, <3>1, QuietIndicate, DropIs
  <2>2. CASE UNCHANGED shared
    BY <1>2, <2>2 DEF shared
  <2> QED BY <1>2, <2>1, <2>2 DEF Drop
<1>3. CASE Command(a)
  <2>1. task[a].pc = "command" /\ joinData = None /\ task'[a].pc = "settle"
    BY <1>3, TurnIs, GotoIs DEF Command, Joined, PCs
  <2>2. \/ ap'.link = "joining" /\ ap'.seen = {} /\ ap'.lost = {}
        \/ ap' = ap
    BY <1>3 DEF Command
  <2>3. error = "UNKNOWN" /\ status \in {{"CONNECTING"}, Shaken}
    BY <2>1 DEF FreshInv
  <2>4. error' = "UNKNOWN" /\ status' \in {{"CONNECTING"}, Shaken} /\ joinData' = None
    <3>1. CASE Drop
      BY <1>2, <2>1, <2>3, <3>1
    <3>2. CASE UNCHANGED shared
      BY <2>1, <2>3, <3>2 DEF shared
    <3> QED BY <1>3, <3>1, <3>2 DEF Command
  <2>5. SeenInv'
    BY <2>2, <2>4 DEF SeenInv, BlameIsEarned
  <2> QED BY <2>1, <2>2, <2>4, <2>5 DEF BlameInv, FreshInv, StatusInv
<1>4. CASE Disconnect(a)
  <2>1. Idle /\ Pending = {} /\ task[a].pc = "idle" /\ joinData = None
    BY <1>4, TurnIs DEF Disconnect, Joined
  <2>2. /\ task' = task /\ ap'.link = "down" /\ ap'.seen = ap.seen
        /\ ap.lost \subseteq ap'.lost
    BY <1>4, DroppedIs DEF Disconnect
  <2>3. (error' = error \/ error' = "UNKNOWN") /\ joinData' = None
    BY <1>2, <1>4, <2>1 DEF Disconnect
  <2>4. SeenInv'
    BY <2>2, <2>3 DEF SeenInv, BlameIsEarned
  <2> QED BY <2>1, <2>2, <2>3, <2>4 DEF BlameInv, FreshInv, StatusInv, Fresh, Joined
<1>5. ASSUME Progress(a), ~Command(a), ~Mark(a), ~Refuse(a), ~GiveUp(a) PROVE BlameInv(a)'
  <2>1. UNCHANGED <<error, ap, queue>> /\ Idle
    BY <1>5 , TurnIs
       DEF Progress, Poll, Register, Attach, Woken, Timeout, Check, Finish, Free, Detach,
           Unregister, Clear, shared
  <2>2. SeenInv'
    BY <2>1 DEF SeenInv, BlameIsEarned
  <2>3. Pending' = {} /\ (UseThread' => Len(queue') = 0)
    BY <2>1 DEF Pending, Idle, UseThread
  <2>4. ASSUME NEW pc \in PCs, task'[a].pc = pc,
               pc \in {"register", "command", "settle"} =>
                 task[a].pc \in {"register", "command", "settle"} /\ status' = status
        PROVE  FreshInv(a)'
    BY <2>1, <2>4 DEF FreshInv
  <2>5. ASSUME joinData' # None => /\ "Handshake" \in ap.seen \ ap.lost => status' # Associated
                                   /\ status' = Associated => "Connect" \in ap.seen
                                   /\ "NO_NETWORKS" \in status' => "NoNetwork" \in ap.seen
        PROVE  StatusInv'
    <3>1. /\ \A e \in Pending' : FALSE
          /\ UseThread' => \A i \in 1 .. Len(queue') : FALSE
          /\ ap' = ap
      BY <2>1, <2>3
    <3>2. ASSUME joinData' # None
          PROVE  /\ "Handshake" \in ap'.seen \ ap'.lost => status' # Associated
                 /\ status' = Associated => "Connect" \in ap'.seen
                 /\ "NO_NETWORKS" \in status' => "NoNetwork" \in ap'.seen
      BY <2>5, <3>1, <3>2
    <3> QED BY <3>1, <3>2 DEF StatusInv
  <2>6. ASSUME joinData' = joinData, status' = status PROVE StatusInv'
    <3>1. Pending = {} /\ ~HandshakeAhead
      BY <2>1 DEF Pending, Idle, HandshakeAhead, UseThread
    <3> QED BY <2>5, <2>6, <3>1 DEF StatusInv
  <2>7. CASE Poll(a)
    <3>1. task'[a].pc = "mark"
      BY <2>7, GotoIs DEF Poll, PCs
    <3> QED BY <2>2, <2>4, <2>6, <2>7, <3>1 DEF BlameInv, Poll, shared, PCs, Fresh, Joined
  <2>8. CASE Register(a)
    <3>1. task'[a].pc = "command" /\ task[a].pc = "register"
      BY <2>8, GotoIs DEF Register, PCs, At
    <3> QED BY <2>2, <2>4, <2>6, <2>8, <3>1 DEF BlameInv, Register, PCs, Fresh, Joined
  <2>9. CASE Attach(a)
    <3>1. task'[a].pc \in {"linked", "wait"} /\ task[a].pc = "settle"
      BY <2>9, GotoIs DEF Attach, PCs, At
    <3>2. FreshInv(a)'
      BY <2>4, <2>9, <3>1 DEF PCs, Fresh, Joined
    <3>3. status' \in {{"CONNECTING"}, Shaken}
      BY <2>9, <3>1 DEF FreshInv, Attach
    <3>4. status' # Associated /\ "NO_NETWORKS" \notin status'
      BY <3>3 DEF Associated, Shaken
    <3> QED BY <2>2, <2>5, <3>2, <3>4 DEF BlameInv
  <2>10. CASE Woken(a)
    <3>1. task'[a].pc = "check" /\ task[a].pc = "wait"
      BY <2>10, GotoIs DEF Woken, PCs, At
    <3> QED BY <2>2, <2>4, <2>6, <2>10, <3>1 DEF BlameInv, Woken, shared, PCs, Fresh, Joined
  <2>11. CASE Timeout(a) \/ Check(a)
    <3>1. PICK result \in {"SUCCESS", "ERROR", "TIMEOUT"} : Finish(a, result, "free")
      BY <2>11 DEF Timeout, Check
    <3>2. task'[a].pc = "free" /\ task[a].pc \in Fresh
      BY <2>11, <3>1, ResultIs DEF Timeout, Check, Finish, At, PCs, Fresh, Joined
    <3>3. FreshInv(a)'
      BY <2>4, <3>2 DEF PCs
    <3> QED BY <2>2, <2>6, <3>1, <3>3 DEF BlameInv, Finish, shared
  <2>12. CASE Free(a)
    <3>1. task'[a].pc = "detach" /\ task[a].pc = "free"
      BY <2>12, GotoIs DEF Free, PCs, At
    <3> QED BY <2>2, <2>4, <2>6, <2>12, <3>1 DEF BlameInv, Free, PCs, Fresh, Joined
  <2>13. CASE Detach(a)
    <3>1. task'[a].pc = "unregister" /\ task[a].pc = "detach"
      BY <2>13, GotoIs DEF Detach, PCs, At
    <3> QED BY <2>2, <2>4, <2>5, <2>13, <3>1 DEF BlameInv, Detach, PCs, Fresh, Joined
  <2>14. CASE Unregister(a)
    <3>1. task'[a].pc = "clear" /\ task[a].pc = "unregister"
      BY <2>14, GotoIs DEF Unregister, PCs, At
    <3> QED BY <2>2, <2>4, <2>6, <2>14, <3>1 DEF BlameInv, Unregister, shared, PCs, Fresh, Joined
  <2>15. CASE Clear(a)
    <3>1. task'[a].pc \in {"dhcp", "idle"} /\ task[a].pc = "clear" /\ joinData' = None
      BY <2>15, GotoIs DEF Clear, PCs, At, Joined
    <3> QED BY <2>2, <2>4, <2>5, <3>1 DEF BlameInv, PCs, Fresh, Joined
  <2> QED BY <1>5, <2>7, <2>8, <2>9, <2>10, <2>11, <2>12, <2>13, <2>14, <2>15 DEF Progress
<1>6. CASE Mark(a)
  <2>1. /\ task'[a].pc = "register" /\ joinData' = None
        /\ status' = {"CONNECTING"} /\ error' = "UNKNOWN"
    BY <1>6, GotoIs DEF Mark, At, PCs, Joined
  <2>2. ap'.link = ap.link /\ ap'.seen = ap.seen \ {"bad key"}
    BY <1>6, <2>1, KeyIs
  <2> QED BY <2>1, <2>2 DEF BlameInv, SeenInv, BlameIsEarned, FreshInv, StatusInv, Fresh, Joined
<1>7. CASE Refuse(a) \/ GiveUp(a)
  <2>1. PICK pc \in {"idle", "free"} :
          task' = [task EXCEPT ![a].pc = pc, ![a].result = "ERROR"]
    BY <1>7 DEF Refuse, GiveUp
  <2>2. task'[a].pc \in {"idle", "free"} /\ joinData' = None
    BY <1>7, <2>1, ResultIs DEF Refuse, GiveUp, At, PCs, Joined
  <2>3. /\ ap'.link = ap.link /\ ap'.seen \ {"bad key"} \subseteq ap.seen
        /\ \/ error' = "UNKNOWN"
           \/ error' = "WRONG_PASSWORD" /\ "bad key" \in ap'.seen
    BY <1>7, KeyIs
  <2>4. "Disconnect" # "bad key" /\ "Handshake" # "bad key"
    OBVIOUS
  <2>5. SeenInv'
    BY <2>3, <2>4 DEF SeenInv, BlameIsEarned
  <2> QED BY <2>2, <2>5 DEF BlameInv, FreshInv, StatusInv
<1>8. CASE Dhcp(a)
  <2>1. /\ task'[a].pc \in {"idle", "address", "assigned"} /\ joinData' = None /\ ap' = ap
        /\ error' \in {error, "NO_ERROR", "DHCP_FAIL"}
    <3>1. CASE DhcpStart(a)
      BY <3>1, GotoIs DEF DhcpStart, At, PCs, Joined
    <3>2. CASE Look(a)
      BY <3>2, GotoIs DEF Look, At, PCs, Joined
    <3>3. CASE Assigned(a)
      BY <3>3, AssignedIs DEF Assigned, At, Joined
    <3> QED BY <1>8, <3>1, <3>2, <3>3 DEF Dhcp
  <2> QED BY <2>1 DEF BlameInv, SeenInv, BlameIsEarned, FreshInv, StatusInv
<1>9. CASE Worker
  <2> DEFINE e == Head(queue)
  <2>1. /\ Handle(e) /\ e \in Events /\ joinData' = joinData /\ UseThread /\ UseThread'
    BY <1>9, WorkerType
  <2>2. /\ Len(queue) \in Nat \ {0} /\ e = queue[1] /\ e \in Pending
        /\ Len(queue') = Len(queue) - 1 /\ Pending' \subseteq Pending
        /\ \A i \in 1 .. Len(queue') : queue'[i] = queue[i + 1]
    BY <1>9, Popped DEF Worker
  <2>3. UNCHANGED <<task, registered, ap>>
    BY <1>9 DEF Worker
  <2> HIDE DEF e
  <2>4. CASE joinData = None
    <3>1. error' = error \/ error' = "UNKNOWN"
      BY <2>1, <2>4, QuietError
    <3>2. status' = status \/ status' = Shaken
      BY <2>1, <2>4, HandleFlags DEF Events, Kinds
    <3>3. SeenInv'
      BY <2>3, <3>1 DEF SeenInv, BlameIsEarned
    <3>4. FreshInv(a)'
      BY <2>3, <3>1, <3>2 DEF FreshInv
    <3> QED BY <2>1, <2>4, <3>3, <3>4 DEF BlameInv, StatusInv
  <2>5. CASE joinData # None
    <3>1. task[a].pc \in Joined /\ e.kind \in ap.seen /\ ap.link # "joining"
      BY <2>2, <2>5 DEF StatusInv, JoinInv, QueueInv
    <3>2. \A i \in 1 .. Len(queue') : queue'[i].kind # "Connect"
      <4>1. ASSUME NEW i \in 1 .. Len(queue') PROVE i + 1 \in 1 .. Len(queue) /\ i + 1 # 1
        BY <2>2
      <4> QED BY <2>1, <2>2, <2>5, <4>1 DEF StatusInv
    <3>3. \A f \in Pending' : f.kind # "Connect"
      <4>1. SharedOK'
        BY <1>9, WorkerType DEF TypeOK, SharedOK, SemaType
      <4>2. Pending' = {queue'[i] : i \in 1 .. Len(queue')}
        BY <2>1, <4>1, PendingMade
      <4> QED BY <3>2, <4>2
    <3>4. "Handshake" \in ap.seen \ ap.lost /\ status' = Associated => HandshakeAhead'
      <4>1. SUFFICES ASSUME "Handshake" \in ap.seen \ ap.lost, status' = Associated
                     PROVE  HandshakeAhead'
        OBVIOUS
      <4>2. CASE e.kind = "Connect"
        <5>1. HandshakeAhead
          BY <2>2, <2>5, <4>1, <4>2 DEF StatusInv
        <5>2. Len(queue) >= 2 /\ queue[2].kind = "Handshake"
          BY <2>2, <4>2, <5>1 DEF HandshakeAhead
        <5>3. Len(queue') >= 1 /\ queue'[1] = queue[2]
          BY <2>2, <5>2
        <5> QED BY <2>1, <5>2, <5>3 DEF HandshakeAhead
      <4>3. CASE e.kind \in {"Handshake", "NoNetwork"}
        BY <2>1, <2>5, <4>1, <4>3, HandleFlags DEF Associated, Shaken
      <4>4. CASE e.kind = "Disconnect"
        <5>1. HandshakeAhead
          BY <2>1, <2>5, <4>1, <4>4, HandleFlags DEF StatusInv
        <5> QED BY <2>2, <4>4, <5>1 DEF HandshakeAhead
      <4> QED BY <2>1, <4>2, <4>3, <4>4 DEF Events, Kinds
    <3>5. /\ status' = Associated => "Connect" \in ap.seen
          /\ "NO_NETWORKS" \in status' => "NoNetwork" \in ap.seen
      BY <2>1, <2>5, <3>1, FlagsAreSeen
    <3>6. StatusInv'
      BY <2>2, <2>3, <2>5, <3>2, <3>3, <3>4, <3>5 DEF StatusInv
    <3>7. SeenInv'
      <4>1. CASE e.kind = "Disconnect"
        <5>1. /\ status = Associated => "Handshake" \notin ap.seen \ ap.lost
              /\ e.reason = "handshake timeout" => "Handshake" \notin ap.seen
          BY <2>2, <2>5, <4>1 DEF StatusInv, HandshakeAhead
        <5>2. error' = Blame(e)
          BY <2>1, <4>1, HandleFlags
        <5>3. /\ ap.link = "joining" => ap.seen \subseteq {"bad key"}
              /\ ap.link = "associated" => "Handshake" \notin ap.seen
          BY DEF SeenInv
        <5> QED BY <2>3, <2>5, <3>1, <4>1, <5>1, <5>2, <5>3, BlameIs, SeenByEvent DEF Kinds
      <4>2. CASE e.kind # "Disconnect"
        <5>1. /\ ap.link = "joining" => ap.seen \subseteq {"bad key"}
              /\ ap.link = "associated" => "Handshake" \notin ap.seen
          BY DEF SeenInv
        <5> QED BY <2>1, <2>3, <4>2, <5>1, HandleFlags, SeenByEvent DEF Kinds
      <4> QED BY <4>1, <4>2
    <3>8. FreshInv(a)'
      BY <2>3, <3>1 DEF FreshInv, Joined
    <3> QED BY <3>6, <3>7, <3>8 DEF BlameInv
  <2> QED BY <2>4, <2>5
<1>10. CASE Driver
  <2>1. PICK kind \in Kinds, reason \in Reasons,
             link \in Links :
          /\ Report(kind, reason, link)
          /\ \/ kind = "NoNetwork" /\ ap.link = "joining" /\ link = "no network"
             \/ kind = "Disconnect" /\ ap.link # "down" /\ link = "down"
             \/ /\ kind = "Connect" /\ ap.link = "joining"
                /\ link = IF ap.sec = "open" THEN "up" ELSE "associated"
             \/ kind = "Handshake" /\ ap.link = "associated" /\ link = "up"
          /\ reason = "handshake timeout" => kind = "Disconnect" /\ ap.link = "associated"
    BY <1>10, DriverIs
  <2>10. Report(kind, reason, link)
    BY <2>1
  <2>11. /\ joinData' = joinData /\ task' = task /\ registered' = registered
         /\ (UseThread' <=> UseThread)
         /\ Indicate(Event(kind, reason)) /\ ap'.link = link
         /\ ap'.seen = ap.seen \cup {kind} /\ ap'.lost = Lost(Event(kind, reason))
    BY ONLY TypeOK, <2>10, ReportType,
            kind \in Kinds, reason \in Reasons,
            link \in Links
  <2> DEFINE e == Event(kind, reason)
  <2>2. /\ UNCHANGED <<task, registered, joinData>> /\ (UseThread' <=> UseThread)
        /\ Indicate(e) /\ ap'.link = link /\ ap'.seen = ap.seen \cup {kind}
        /\ ap'.lost = Lost(e)
    BY <2>11, Zenon
  <2>3. e \in Events /\ e.kind = kind /\ e.reason = reason
    BY EventIs
  <2> HIDE DEF e
  <2>4. ap.link # "down" /\ link # "joining" /\ (kind = "Disconnect" => link = "down")
    BY <2>1
  <2>5. link = "associated" => "Handshake" \notin ap'.seen
    BY <2>1, <2>2 DEF SeenInv
  <2>8. ap.lost \subseteq ap'.lost
    BY <2>2, <2>3, LostIs
  <2>9. reason = "handshake timeout" => kind = "Disconnect" /\ "Handshake" \notin ap'.seen
    BY <2>1, <2>2 DEF SeenInv
  <2>6. CASE joinData = None
    <3>1. /\ error' = error \/ error' = "UNKNOWN"
          /\ status' = status \/ status' = Shaken
      BY <2>2, <2>3, <2>6, QuietIndicate
    <3>2. SeenInv'
      BY <2>2, <2>4, <2>5, <2>8, <3>1, SeenByEvent
    <3>3. FreshInv(a)'
      BY <2>2, <3>1 DEF FreshInv
    <3> QED BY <2>2, <2>6, <3>2, <3>3 DEF BlameInv, StatusInv
  <2>7. CASE joinData # None
    <3>1. task[a].pc \in Joined /\ e.kind \in registered
      BY <2>3, <2>7 DEF JoinInv, CallInv
    <3>2. FreshInv(a)'
      BY <2>2, <3>1 DEF FreshInv, Joined
    <3>3. ASSUME kind \in {"NoNetwork", "Connect"}
          PROVE  "Handshake" \notin ap'.seen /\ Pending = {}
      <4>1. ap.link = "joining"
        BY <2>1, <3>3
      <4>2. ap.seen \subseteq {"bad key"} /\ Pending = {}
        BY <2>7, <4>1 DEF SeenInv, JoinInv, QueueInv
      <4>3. "Handshake" # kind
        BY <3>3
      <4> QED BY <2>2, <4>2, <4>3
    <3>4. CASE ~UseThread /\ Handle(e) /\ UNCHANGED queue
      <4>1. Pending' = {} /\ ~UseThread' /\ ~HandshakeAhead
        BY <2>2, <3>4 DEF Pending, Idle, UseThread, HandshakeAhead
      <4>2. /\ status' = Associated => "Connect" \in ap'.seen
            /\ "NO_NETWORKS" \in status' => "NoNetwork" \in ap'.seen
        <5>1. ap.seen \subseteq ap'.seen /\ e.kind \in ap'.seen
          BY <2>2, <2>3
        <5> QED BY <2>3, <2>7, <3>4, <5>1, FlagsAreSeen
      <4>3. "Handshake" \in ap'.seen \ ap'.lost => status' # Associated
        <5>1. CASE kind \in {"NoNetwork", "Connect"}
          BY <3>3, <5>1
        <5>2. CASE kind = "Handshake"
          <6>1. status' = Shaken
            BY <2>3, <3>4, <5>2, HandleFlags
          <6> QED BY <6>1, FlagSets
        <5>3. CASE kind = "Disconnect"
          BY <2>2, <2>3, <2>7, <2>8, <3>4, <4>1, <5>3, HandleFlags DEF StatusInv
        <5> QED BY <5>1, <5>2, <5>3 DEF Kinds
      <4>4. StatusInv'
        BY <4>1, <4>2, <4>3 DEF StatusInv
      <4>5. SeenInv'
        <5>1. CASE kind = "Disconnect"
          <6>1. status = Associated => "Handshake" \notin ap'.seen \ ap'.lost
            BY <2>2, <2>7, <2>8, <4>1, <5>1 DEF StatusInv
          <6>2. error' = Blame(e) /\ "Disconnect" \in ap'.seen
            BY <2>2, <2>3, <3>4, <5>1, HandleFlags
          <6>3. e.reason = "handshake timeout" => "Handshake" \notin ap'.seen
            BY <2>3, <2>9
          <6> QED BY <2>2, <2>4, <2>5, <2>7, <2>8, <6>1, <6>2, <6>3, BlameIs, SeenByEvent
        <5>2. CASE kind # "Disconnect"
          BY <2>2, <2>3, <2>4, <2>5, <2>8, <3>4, <5>2, HandleFlags, SeenByEvent
        <5> QED BY <5>1, <5>2
      <4> QED BY <3>2, <4>4, <4>5 DEF BlameInv
    <3>5. CASE /\ UseThread /\ UNCHANGED shared
               /\ Push(e)
      <4>1. SeenInv'
        BY <2>2, <2>4, <2>5, <2>8, <3>5, SeenByEvent DEF shared
      <4>2. Pending' \subseteq Pending \cup {e}
        BY <2>3, <3>5, Pushed
      <4>3. \A i \in 1 .. Len(queue) : queue[i].kind = "Connect" => i = 1
        BY <2>7, <3>5 DEF StatusInv
      <4>4. e.kind # "Connect" \/ Len(queue) = 0
        BY <2>3, <3>3, <3>5, PendingNone
      <4>5. HandshakeAhead => HandshakeAhead'
        BY <2>3, <3>5, <4>3, PushedAhead
      <4>6. \A i \in 1 .. Len(queue') : queue'[i].kind = "Connect" => i = 1
        BY <2>3, <3>5, <4>3, <4>4, PushedAhead
      <4>7. \A f \in Pending' : f.kind \in ap'.seen
        BY <2>2, <2>3, <2>7, <4>2 DEF StatusInv
      <4>8. \A f \in Pending' : f.reason = "handshake timeout" =>
              f.kind = "Disconnect" /\ "Handshake" \notin ap'.seen
        <5>1. ASSUME NEW f \in Pending, f.reason = "handshake timeout"
              PROVE  f.kind = "Disconnect" /\ "Handshake" \notin ap'.seen
          <6>1. f.kind = "Disconnect" /\ "Handshake" \notin ap.seen
            BY <2>7, <5>1 DEF StatusInv
          <6>2. ap.link # "associated"
            BY <2>7, <5>1, <6>1 DEF JoinInv, QueueInv
          <6>3. kind # "Handshake"
            BY <2>1, <6>2
          <6> QED BY <2>2, <6>1, <6>3
        <5> QED BY <2>3, <2>9, <4>2, <5>1
      <4>9. "Handshake" \in ap'.seen \ ap'.lost =>
              \/ HandshakeAhead'
              \/ status' # Associated /\ \A f \in Pending' : f.kind # "Connect"
        <5>1. CASE kind \in {"NoNetwork", "Connect"}
          BY <3>3, <5>1
        <5>2. CASE kind = "Handshake"
          <6>1. \A f \in Pending : f.kind = "Connect"
            BY <2>1, <2>7, <5>2 DEF JoinInv, QueueInv
          <6>2. queue' = queue => "Handshake" \in ap'.lost
            BY <2>2, <2>3, <3>1, <3>5, <5>2, LostIs
          <6> QED BY <2>3, <3>5, <4>3, <5>2, <6>1, <6>2, PushedAhead
        <5>3. CASE kind = "Disconnect"
          BY <2>2, <2>3, <2>7, <2>8, <3>5, <4>2, <4>5, <5>3 DEF StatusInv, shared
        <5> QED BY <5>1, <5>2, <5>3 DEF Kinds
      <4>10. /\ status' = Associated => "Connect" \in ap'.seen
             /\ "NO_NETWORKS" \in status' => "NoNetwork" \in ap'.seen
        BY <2>2, <2>7, <3>5 DEF StatusInv, shared
      <4>11. StatusInv'
        BY <4>6, <4>7, <4>8, <4>9, <4>10 DEF StatusInv
      <4> QED BY <3>2, <4>1, <4>11 DEF BlameInv
    <3> QED BY <2>2, <2>3, <3>1, <3>4, <3>5, IndicateIs
  <2> QED BY <2>6, <2>7
<1>11. CASE UNCHANGED vars
  <2>1. SeenInv'
    BY <1>11 DEF vars, SeenInv, BlameIsEarned
  <2>2. StatusInv'
    BY <1>11 DEF vars, StatusInv, HandshakeAhead, Pending, Idle, UseThread
  <2> QED BY <1>11, <2>1, <2>2 DEF vars, BlameInv, FreshInv
<1>12. CASE Lease
  <2>1. UNCHANGED <<task, status, error, joinData, queue, ap>>
    BY <1>12 DEF Lease
  <2>2. SeenInv'
    BY <2>1 DEF SeenInv, BlameIsEarned
  <2>3. StatusInv'
    BY <2>1 DEF StatusInv, HandshakeAhead, Pending, Idle, UseThread
  <2> QED BY <2>1, <2>2, <2>3 DEF BlameInv, FreshInv
<1> QED BY <1>1, <1>3, <1>4, <1>5, <1>6, <1>7, <1>8, <1>9, <1>10, <1>11, <1>12 DEF Next

\* error_flag accuses the network, the key or the handshake only of what the
\* driver reported of the join it serves; the key also when the event of a good
\* handshake was lost, for want of memory or on a full queue.
THEOREM BlamesAreEarned ==
  ASSUME NEW a, Apps = {a}, WorkerFirst \/ Threads \subseteq {FALSE}
  PROVE  Spec => []BlameIsEarned
<1>1. Init => TypeOK /\ OwnedInv /\ JoinInv(a) /\ BlameInv(a)
  <2>1. Init => BlameInv(a)
    BY DEF Init, BlameInv, SeenInv, BlameIsEarned, FreshInv, StatusInv
  <2> QED BY <2>1, TypeInit, OwnedInit, JoinInit
<1>2. TypeOK /\ OwnedInv /\ JoinInv(a) /\ BlameInv(a) /\ [Next]_vars =>
        (TypeOK /\ OwnedInv /\ JoinInv(a) /\ BlameInv(a))'
  BY TypeStep, OwnedStep, JoinStep, BlameStep
<1>3. BlameInv(a) => BlameIsEarned
  BY DEF BlameInv, SeenInv
<1> QED BY <1>1, <1>2, <1>3, PTL DEF Spec
==============================================================================
