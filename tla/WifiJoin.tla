------------------------------ MODULE WifiJoin ------------------------------
(***************************************************************************)
(* Joining a Wi-Fi network: wifi_connect and wifi_disconnect of            *)
(* common/api/wifi/wifi_conf.c, the four event handlers wifi_connect       *)
(* registers, the dispatch of driver events in wifi_ind.c, and LwIP_DHCP   *)
(* of common/api/lwip_netconf.c, which the tasks call next.                *)
(*                                                                         *)
(* Application tasks call wifi_connect; the closed driver library answers  *)
(* with events.  The handlers and the tasks share three globals:           *)
(* rtw_join_status (status), error_flag (error) and join_user_data         *)
(* (joinData), and hand over through the semaphore of the join.  Handlers  *)
(* run in the driver's context, or, with CONFIG_WIFI_IND_USE_THREAD, in a  *)
(* worker thread behind a queue that never blocks the driver.              *)
(*                                                                         *)
(* A handler is one step: it neither blocks nor yields, and the tasks that *)
(* could preempt the driver's context do not run wifi_connect.  The driver *)
(* is external: its events are the ones the handlers are written for.      *)
(***************************************************************************)
EXTENDS Naturals, Sequences, FiniteSetsExt

CONSTANTS
  Apps,         \* the tasks that call wifi_connect
  Own,          \* whether a call may pass the caller's own semaphore, or must
  Securities,   \* the kinds of network: "open" (and WEP), "wpa"
  Threads,      \* CONFIG_WIFI_IND_USE_THREAD: the builds to look at
  WorkerFirst,  \* the worker outranks every task that calls wifi_connect
  QueueSize,    \* WIFI_MANAGER_Q_SZ
  MaxCalls,     \* bound: the calls of wifi_connect, of all tasks
  None

Kinds == {"NoNetwork", "Connect", "Handshake", "Disconnect"}
Reasons == {"refused", "handshake timeout", "other"}
Flags == {"CONNECTING", "COMPLETE", "HANDSHAKE_DONE", "NO_NETWORKS"}
Errors == {"NO_ERROR", "UNKNOWN", "NONE_NETWORK", "CONNECT_FAIL",
           "WRONG_PASSWORD", "4WAY_TIMEOUT", "DHCP_FAIL"}

(* The calls of wifi_connect, by number; an event carries that of its join. *)
Joins == 0 .. MaxCalls
Events == [kind : Kinds, reason : Reasons, join : Joins]

ASSUME JoinAssumption ==
  /\ Apps # {}
  /\ Own \subseteq BOOLEAN
  /\ Securities \subseteq {"open", "wpa"}
  /\ Threads \subseteq BOOLEAN
  /\ WorkerFirst \in BOOLEAN
  /\ QueueSize \in Nat \ {0}
  /\ MaxCalls \in Nat
  /\ None \notin Apps \cup {"SUCCESS", "ERROR", "TIMEOUT"} /\ None \notin Seq(Events)

VARIABLES
  task,        \* each task: where it is in wifi_connect, its locals, and late:
               \* it set RTW_NO_ERROR when its DHCP client was stopped (history)
  sema,        \* join_sema of each task: the joins whose events raised it, or None
  status,      \* rtw_join_status
  error,       \* error_flag
  joinData,    \* join_user_data: the task whose join is registered
  discSema,    \* disconnect_sema: None, or its count
  dhcp,        \* the DHCP client of lwIP: "off", "asking" or "bound"
  registered,  \* the events wifi_connect's handlers are registered for
  queue,       \* events on their way to the worker thread, None without it
  ap           \* the driver: its link, the join it serves, what it reported
               \* of that, and what of it never reached the handlers

vars == <<task, sema, status, error, joinData, discSema, dhcp, registered, queue, ap>>
shared == <<sema, status, error, joinData, discSema, dhcp>>

Init ==
  /\ task = [a \in Apps |-> [pc |-> "idle", sec |-> "open", own |-> FALSE,
                             join |-> 0, result |-> None, late |-> FALSE]]
  /\ sema = [a \in Apps |-> {}]
  /\ status = {}
  /\ error = "UNKNOWN"
  /\ joinData = None
  /\ discSema = None
  /\ dhcp = "off"
  /\ registered = {}
  /\ queue \in {IF thread THEN <<>> ELSE None : thread \in Threads}
  /\ ap = [link |-> "down", join |-> 0, sec |-> "open", seen |-> {}, lost |-> {}]

(* The latest call of wifi_connect. *)
Latest == Max({task[a].join : a \in Apps})

UseThread == queue # None
Idle == queue \in {<<>>, None}

Connected == ap.link \in {"associated", "up"}

(* The driver was told of the call of task a, and of no later one. *)
Taken(a) == ap.join = task[a].join

(***************************************************************************)
(* The handlers.  Up raises the semaphore of the registered join; raising  *)
(* a deleted one writes to freed memory, which changes nothing here.  The  *)
(* six flags JOIN_COMPLETE .. JOIN_LINK_READY are always set together.     *)
(***************************************************************************)
Up(e) == IF joinData = None \/ sema[joinData] = None THEN sema
         ELSE [sema EXCEPT ![joinData] = @ \cup {e.join}]

NoNetworkHdl(e) ==
  /\ status' = IF joinData # None THEN {"NO_NETWORKS", "CONNECTING"} ELSE status
  /\ UNCHANGED <<sema, error, joinData, discSema, dhcp>>

(* Mutant: the association wakes every join, not only an open one. *)
ConnectedHdlWakes(e) ==
  /\ status' = IF joinData # None THEN {"COMPLETE", "CONNECTING"} ELSE status
  /\ sema' = Up(e)
  /\ UNCHANGED <<error, joinData, discSema, dhcp>>

ConnectedHdl(e) ==
  /\ status' = IF joinData # None THEN {"COMPLETE", "CONNECTING"} ELSE status
  /\ sema' = IF joinData # None /\ task[joinData].sec = "open" THEN Up(e) ELSE sema
  /\ UNCHANGED <<error, joinData, discSema, dhcp>>

HandshakeDoneHdl(e) ==
  /\ status' = {"COMPLETE", "HANDSHAKE_DONE", "CONNECTING"}
  /\ sema' = Up(e)
  /\ UNCHANGED <<error, joinData, discSema, dhcp>>

(* Mutant: the driver's reason is stored in place of an error. *)
BlameReason(e) == IF joinData = None THEN error ELSE e.reason

(* Mutant: without a join, the loss of the link goes unrecorded. *)
BlameSilent(e) ==
  IF joinData = None THEN error
  ELSE IF "NO_NETWORKS" \in status THEN "NONE_NETWORK"
  ELSE IF status = {"CONNECTING"} THEN "CONNECT_FAIL"
  ELSE error

Blame(e) ==
  IF joinData = None THEN IF error = "NO_ERROR" THEN "UNKNOWN" ELSE error
  ELSE IF "NO_NETWORKS" \in status THEN "NONE_NETWORK"
  ELSE IF status = {"CONNECTING"} THEN "CONNECT_FAIL"
  ELSE IF status = {"COMPLETE", "CONNECTING"} /\ task[joinData].sec = "wpa"
  THEN IF e.reason = "handshake timeout" THEN "4WAY_TIMEOUT" ELSE "WRONG_PASSWORD"
  ELSE error

DisconnHdl(e) ==
  /\ error' = Blame(e)
  /\ sema' = Up(e)
  /\ discSema' = IF discSema = None THEN None ELSE 1
  /\ dhcp' = "off"
  /\ UNCHANGED <<status, joinData>>

Handle(e) ==
  \/ e.kind = "NoNetwork" /\ NoNetworkHdl(e)
  \/ e.kind = "Connect" /\ ConnectedHdl(e)
  \/ e.kind = "Handshake" /\ HandshakeDoneHdl(e)
  \/ e.kind = "Disconnect" /\ DisconnHdl(e)

(* rtw_send_event_to_worker gives up without memory for a copy of the      *)
(* event, which may be at any time, and on a full queue.                   *)
Push(e) ==
  \/ Len(queue) < QueueSize /\ queue' = Append(queue, e)
  \/ UNCHANGED queue

(* wifi_indication: nothing, a call, or a push. *)
Indicate(e) ==
  \/ /\ e.kind \notin registered
     /\ UNCHANGED <<shared, queue>>
  \/ /\ e.kind \in registered
     /\ ~UseThread
     /\ Handle(e)
     /\ UNCHANGED queue
  \/ /\ e.kind \in registered
     /\ UseThread
     /\ Push(e)
     /\ UNCHANGED shared

(* What was lost of the driver's join, when this step indicates e. *)
Lost(e) == IF UseThread /\ e.kind \in registered /\ UNCHANGED queue
           THEN ap.lost \cup {e.kind} ELSE ap.lost

Event(kind, reason) == [kind |-> kind, reason |-> reason, join |-> ap.join]

(* The worker thread calls the handler that was registered at the push. *)
Worker ==
  /\ ~Idle
  /\ Handle(Head(queue))
  /\ queue' = Tail(queue)
  /\ UNCHANGED <<task, registered, ap>>

-----------------------------------------------------------------------------
(***************************************************************************)
(* The driver (external).  Report sends one event and moves the link.      *)
(***************************************************************************)
Report(kind, reason, link) ==
  /\ Indicate(Event(kind, reason))
  /\ ap' = [ap EXCEPT !.link = link, !.seen = @ \cup {kind}, !.lost = Lost(Event(kind, reason))]
  /\ UNCHANGED <<task, registered>>

Driver ==
  \/ ap.link = "joining" /\ Report("NoNetwork", "other", "no network")
  \/ ap.link = "no network" /\ Report("Disconnect", "other", "down")
  \/ ap.link = "joining" /\ Report("Disconnect", "refused", "down")
  \/ /\ ap.link = "joining"
     /\ Report("Connect", "other", IF ap.sec = "open" THEN "up" ELSE "associated")
  \/ ap.link = "associated" /\ Report("Handshake", "other", "up")
  \/ /\ ap.link = "associated"
     /\ \E r \in {"handshake timeout", "other"} : Report("Disconnect", r, "down")
  \/ ap.link = "up" /\ Report("Disconnect", "other", "down")

(* The address of a network that answers. *)
Lease ==
  /\ dhcp = "asking"
  /\ ap.link = "up"
  /\ dhcp' = "bound"
  /\ UNCHANGED <<task, sema, status, error, joinData, discSema, registered, queue, ap>>

(* A command that ends the present association: the driver reports it.     *)
Drop ==
  IF Connected THEN Indicate(Event("Disconnect", "other"))
  ELSE UNCHANGED <<shared, queue>>

Dropped == [ap EXCEPT !.link = "down",
                      !.lost = IF Connected THEN Lost(Event("Disconnect", "other")) ELSE @]

-----------------------------------------------------------------------------
(* A task runs only when the worker has nothing to do, if that outranks it. *)
Turn == WorkerFirst => Idle

At(a, pc) == task[a].pc = pc /\ Turn

Goto(a, pc) == task' = [task EXCEPT ![a].pc = pc]

Enter(a, pc, result) ==
  \E s \in Securities, own \in Own :
    task' = [task EXCEPT ![a].join = Latest + 1, ![a].sec = s, ![a].own = own,
               ![a].result = result, ![a].pc = pc]

(* wifi_connect: a join under way is aborted and waited for, unless the    *)
(* driver turns wifi_disconnect down.                                      *)
Connect(a) ==
  /\ At(a, "idle")
  /\ Latest < MaxCalls
  /\ \/ /\ "CONNECTING" \notin status
        /\ Enter(a, "mark", None)
        /\ UNCHANGED <<shared, queue, ap>>
     \/ /\ "CONNECTING" \in status
        /\ Enter(a, "busy", None)
        /\ Drop
        /\ ap' = Dropped
     \/ /\ "CONNECTING" \in status
        /\ Enter(a, "idle", "ERROR")
        /\ UNCHANGED <<shared, queue, ap>>
  /\ UNCHANGED registered

(* Mutant: waits for every flag to clear, the ones of a joined network too. *)
PollAll(a) ==
  /\ At(a, "busy")
  /\ status = {}
  /\ Goto(a, "mark")
  /\ UNCHANGED <<shared, registered, queue, ap>>

Poll(a) ==
  /\ At(a, "busy")
  /\ "CONNECTING" \notin status
  /\ Goto(a, "mark")
  /\ UNCHANGED <<shared, registered, queue, ap>>

(* Mutant: JOIN_CONNECTING is added to the flags of the last join. *)
MarkKept(a) ==
  /\ At(a, "mark")
  /\ status' = status \cup {"CONNECTING"}
  /\ error' = "UNKNOWN"
  /\ sema' = [sema EXCEPT ![a] = {}]
  /\ ap' = [ap EXCEPT !.seen = @ \ {"bad key"}]
  /\ Goto(a, "register")
  /\ UNCHANGED <<joinData, discSema, dhcp, registered, queue>>

Mark(a) ==
  /\ At(a, "mark")
  /\ status' = {"CONNECTING"}
  /\ error' = "UNKNOWN"
  /\ sema' = [sema EXCEPT ![a] = {}]
  /\ ap' = [ap EXCEPT !.seen = @ \ {"bad key"}]
  /\ Goto(a, "register")
  /\ UNCHANGED <<joinData, discSema, dhcp, registered, queue>>

(* The early returns: a key of a wrong length, or no memory for the join. *)
Refuse(a) ==
  /\ At(a, "mark")
  /\ status' = {}
  /\ \/ error' = "WRONG_PASSWORD" /\ ap' = [ap EXCEPT !.seen = @ \cup {"bad key"}]
     \/ error' = "UNKNOWN" /\ ap' = [ap EXCEPT !.seen = @ \ {"bad key"}]
  /\ task' = [task EXCEPT ![a].pc = "idle", ![a].result = "ERROR"]
  /\ UNCHANGED <<sema, joinData, discSema, dhcp, registered, queue>>

(* No memory for the key or the semaphore: to the epilogue, which has no   *)
(* semaphore of this call to delete.                                       *)
GiveUp(a) ==
  /\ At(a, "mark")
  /\ status' = {"CONNECTING"}
  /\ error' = "UNKNOWN"
  /\ ap' = [ap EXCEPT !.seen = @ \ {"bad key"}]
  /\ task' = [task EXCEPT ![a].pc = "free", ![a].result = "ERROR"]
  /\ UNCHANGED <<sema, joinData, discSema, dhcp, registered, queue>>

(* Mutant: join_user_data is set before the command, not after it. *)
RegisterAttached(a) ==
  /\ At(a, "register")
  /\ registered' = Kinds
  /\ joinData' = a
  /\ discSema' = IF UseThread /\ Connected THEN 0 ELSE discSema
  /\ Goto(a, "command")
  /\ UNCHANGED <<sema, status, error, dhcp, queue, ap>>

Register(a) ==
  /\ At(a, "register")
  /\ registered' = Kinds
  /\ discSema' = IF UseThread /\ Connected THEN 0 ELSE discSema
  /\ Goto(a, "command")
  /\ UNCHANGED <<sema, status, error, joinData, dhcp, queue, ap>>

(* wifi_connect_local: the driver drops the old link and starts the join,  *)
(* or one of the commands fails before it is told of the network, and it   *)
(* goes on with what it had.  wifi_connect does not look at the result.    *)
Command(a) ==
  /\ At(a, "command")
  /\ \/ /\ Drop
        /\ ap' = [link |-> "joining", join |-> task[a].join, sec |-> task[a].sec,
                  seen |-> {}, lost |-> {}]
     \/ UNCHANGED <<shared, queue, ap>>
  /\ Goto(a, "settle")
  /\ UNCHANGED registered

(* At most 50 ms for the disconnection handler, when the link was up; then *)
(* join_user_data is set.                                                  *)
Attach(a) ==
  /\ At(a, "settle")
  /\ discSema' = None
  /\ joinData' = a
  /\ Goto(a, IF task[a].own THEN "linked" ELSE "wait")
  /\ UNCHANGED <<sema, status, error, dhcp, registered, queue, ap>>

Woken(a) ==
  /\ At(a, "wait")
  /\ sema[a] # {}
  /\ Goto(a, "check")
  /\ UNCHANGED <<shared, registered, queue, ap>>

Finish(a, result, pc) ==
  /\ task' = [task EXCEPT ![a].pc = pc, ![a].result = result]
  /\ UNCHANGED <<shared, registered, queue, ap>>

Timeout(a) == At(a, "wait") /\ Finish(a, "TIMEOUT", "free")

Check(a) ==
  \/ At(a, "check") /\ Finish(a, IF Connected THEN "SUCCESS" ELSE "ERROR", "free")
  \/ At(a, "linked") /\ Finish(a, "SUCCESS", "free")

(* The epilogue at label error, in its order. *)
Free(a) ==
  /\ At(a, "free")
  /\ sema' = IF task[a].own THEN sema ELSE [sema EXCEPT ![a] = None]
  /\ Goto(a, "detach")
  /\ UNCHANGED <<status, error, joinData, discSema, dhcp, registered, queue, ap>>

Detach(a) ==
  /\ At(a, "detach")
  /\ joinData' = None
  /\ Goto(a, "unregister")
  /\ UNCHANGED <<sema, status, error, discSema, dhcp, registered, queue, ap>>

(* Mutant: the handshake handler stays registered. *)
UnregisterTwo(a) ==
  /\ At(a, "unregister")
  /\ registered' = registered \ {"Connect", "NoNetwork"}
  /\ Goto(a, "clear")
  /\ UNCHANGED <<shared, queue, ap>>

Unregister(a) ==
  /\ At(a, "unregister")
  /\ registered' = registered \ {"Connect", "NoNetwork", "Handshake"}
  /\ Goto(a, "clear")
  /\ UNCHANGED <<shared, queue, ap>>

Clear(a) ==
  /\ At(a, "clear")
  /\ status' = status \ {"CONNECTING"}
  /\ Goto(a, IF task[a].result = "SUCCESS" THEN "dhcp" ELSE "idle")
  /\ UNCHANGED <<sema, error, joinData, discSema, dhcp, registered, queue, ap>>

(* LwIP_DHCP, which the tasks call next. *)
DhcpStart(a) ==
  /\ At(a, "dhcp")
  /\ dhcp' = "asking"
  /\ Goto(a, "address")
  /\ UNCHANGED <<sema, status, error, joinData, discSema, registered, queue, ap>>

(* The look at the client's state and address: stopped by the disconnection *)
(* handler, an address, or none after the last try.                         *)
Look(a) ==
  /\ At(a, "address")
  /\ \/ dhcp = "off" /\ Goto(a, "idle") /\ UNCHANGED <<error, dhcp>>
     \/ dhcp = "bound" /\ Goto(a, "assigned") /\ UNCHANGED <<error, dhcp>>
     \/ dhcp = "asking" /\ Goto(a, "idle") /\ error' = "DHCP_FAIL" /\ dhcp' = "off"
  /\ UNCHANGED <<sema, status, joinData, discSema, registered, queue, ap>>

(* RTW_NO_ERROR, a few calls after the address was read. *)
Assigned(a) ==
  /\ At(a, "assigned")
  /\ error' = "NO_ERROR"
  /\ task' = [task EXCEPT ![a].pc = "idle", ![a].late = (dhcp = "off")]
  /\ UNCHANGED <<sema, status, joinData, discSema, dhcp, registered, queue, ap>>

(* wifi_disconnect. *)
Disconnect(a) ==
  /\ At(a, "idle")
  /\ ap.link # "down"
  /\ Drop
  /\ ap' = Dropped
  /\ UNCHANGED <<task, registered>>

-----------------------------------------------------------------------------
Progress(a) ==
  \/ Poll(a) \/ Mark(a) \/ Refuse(a) \/ GiveUp(a) \/ Register(a) \/ Command(a)
  \/ Attach(a) \/ Woken(a) \/ Timeout(a) \/ Check(a) \/ Free(a) \/ Detach(a)
  \/ Unregister(a) \/ Clear(a)

Dhcp(a) == DhcpStart(a) \/ Look(a) \/ Assigned(a)

Next ==
  \/ \E a \in Apps : Connect(a) \/ Progress(a) \/ Dhcp(a) \/ Disconnect(a)
  \/ Worker
  \/ Driver
  \/ Lease

Spec == Init /\ [][Next]_vars

(* The scheduler runs a task that can run, and the worker; a call under way *)
(* goes on.  Nothing is asked of the driver: the wait has a timeout.        *)
FairSpec == Spec /\ WF_vars(Worker) /\ \A a \in Apps : WF_vars(Progress(a))

-----------------------------------------------------------------------------
Pending == IF Idle THEN {} ELSE {queue[i] : i \in DOMAIN queue}

(* Every variable stays in its domain. *)
TypeOK ==
  /\ task \in [Apps -> [pc : {"idle", "busy", "mark", "register", "command", "settle",
                    "wait", "check", "linked", "free", "detach", "unregister", "clear",
                    "dhcp", "address", "assigned"},
                   sec : {"open", "wpa"}, own : BOOLEAN, join : Joins,
                   result : {None, "SUCCESS", "ERROR", "TIMEOUT"}, late : BOOLEAN]]
  /\ sema \in [Apps -> (SUBSET Joins) \cup {None}]
  /\ status \subseteq Flags
  /\ error \in Errors
  /\ joinData \in Apps \cup {None}
  /\ discSema \in {None, 0, 1}
  /\ dhcp \in {"off", "asking", "bound"}
  /\ registered \subseteq Kinds
  /\ UseThread => queue \in Seq(Events) /\ Len(queue) <= QueueSize
  /\ ap \in [link : {"down", "joining", "no network", "associated", "up"}, join : Joins,
             sec : {"open", "wpa"}, seen : SUBSET (Kinds \cup {"bad key"}),
             lost : SUBSET Kinds]

(* A wifi_connect that waits for a join the driver took on is woken by     *)
(* events of this join, never by the end of the association it replaced:   *)
(* join_user_data is set only when the disconnection handler has been      *)
(* through.  A call whose commands failed waits for whatever comes.        *)
NoForeignWake ==
  \A a \in Apps :
    task[a].pc \in {"wait", "check"} /\ Taken(a) => sema[a] \subseteq {task[a].join}

(* JOIN_CONNECTING is set only while some call of wifi_connect will clear   *)
(* it: no handler that sets it again outlives the call's registration.      *)
BusyOwned ==
  "CONNECTING" \in status =>
    \E a \in Apps : task[a].pc \notin {"idle", "busy", "mark", "dhcp", "address", "assigned"}

(* When wifi_connect decides on the success of a join the driver took on,  *)
(* the link carries data: for WPA the handshake is over, the association   *)
(* alone is not enough.                                                    *)
ReadyOnSuccess ==
  [][\A a \in Apps : task[a].pc = "check" /\ Taken(a) /\ task'[a].result = "SUCCESS"
                        => ap.link = "up"]_vars

(* error_flag accuses the network, the key or the handshake only of what    *)
(* the driver reported about the join it serves; the key of a failed        *)
(* handshake also when the event of a good one was lost on the way.         *)
BlameIsEarned ==
  /\ error = "NONE_NETWORK" => "NoNetwork" \in ap.seen
  /\ error = "WRONG_PASSWORD" =>
       \/ "bad key" \in ap.seen
       \/ {"Connect", "Disconnect"} \subseteq ap.seen /\ "Handshake" \notin ap.seen \ ap.lost
  /\ error = "4WAY_TIMEOUT" => "Connect" \in ap.seen /\ "Handshake" \notin ap.seen

(* wifi_is_ready_to_transceive says yes, which is error_flag being         *)
(* RTW_NO_ERROR, only while the link is up or its loss is on its way.  Two *)
(* cases apart: the event of the loss never reached its handler, or that   *)
(* ran between LwIP_DHCP's look at the address and the assignment, which   *)
(* comes late.                                                             *)
ReadyMeansLinked ==
  error = "NO_ERROR" =>
    \/ ap.link = "up"
    \/ \E e \in Pending : e.kind = "Disconnect"
    \/ "Disconnect" \in ap.lost
    \/ \E a \in Apps : task[a].late

(* While join_user_data is set, a disconnection that waits for its handler *)
(* is that of the join the driver serves, never that of an association the *)
(* join replaced.                                                          *)
DisconnectBeforeJoin ==
  joinData # None =>
    \A e \in Pending : e.kind = "Disconnect" => e.join = ap.join

(* Every wifi_connect returns, one that waits for another join too. *)
Returns ==
  \A a \in Apps :
    task[a].pc # "idle" ~> task[a].pc \in {"idle", "dhcp", "address", "assigned"}
=============================================================================
