------------------------------ MODULE Mailbox ------------------------------
(***************************************************************************)
(* soc/realtek/8195a/misc/os/mailbox.c: queues of messages that tasks find *)
(* by an id, with a semaphore that wakes the receiving task.               *)
(*                                                                         *)
(* All mailboxes hang on one list, under a mutex; list and mutex are made  *)
(* by the first call of all.  A call is a walk from label to label: one    *)
(* label for each stretch between two accesses to what tasks share.  The   *)
(* walk over the list is one step; so is its change, but what is changed   *)
(* is the list as read when the mutex was taken.                           *)
(*                                                                         *)
(* The callers are those of rtl8195a_sdio_device.c: an owner that creates  *)
(* the mailbox and deletes it, a receiver that sleeps on the semaphore and *)
(* empties the mailbox without waiting, and senders with a timeout.        *)
(***************************************************************************)
EXTENDS Naturals, Sequences, SequencesExt, FiniteSets

CONSTANTS
  Owners,      \* tasks that create a mailbox; each has one id of its own ...
  IdOf,        \* ... IdOf[o]
  Receiver,    \* the task that receives, from Box
  Senders,     \* tasks that send to Box
  Box,         \* the id they use
  Handles,     \* memory for mailboxes
  Size,        \* MboxSize
  Ends,        \* how each sender sends: FALSE to the back, TRUE to the front
  MaxSends,    \* bound: the messages of each sender
  MaxWakes,    \* bound: wake-ups of the receiver for other reasons
  MaxMade,     \* bound: how often each owner creates its mailbox
  None

Tasks == Owners \cup Senders \cup {Receiver}
Ids == {IdOf[o] : o \in Owners}
Messages == [from : Senders, n : 1 .. MaxSends, front : BOOLEAN]
Mailboxes == [id : Ids, msgs : Seq(Messages)]

ASSUME MailboxAssumption ==
  /\ Owners \cap Senders = {} /\ Receiver \notin Owners \cup Senders
  /\ Box \in Ids /\ IdOf \in [Owners -> Ids] /\ IsInjective(IdOf)
  /\ Ends \in [Senders -> SUBSET BOOLEAN]
  /\ Size \in Nat \ {0} /\ {MaxSends, MaxWakes} \subseteq Nat /\ MaxMade \in [Owners -> Nat]
  /\ None \notin Tasks \cup Handles \cup {"create", "del", "send", "receive"}
  /\ None \notin Mailboxes

VARIABLES
  root,        \* MBox_Entry: isInitialed, the list, who holds the mutex
  memory,      \* each handle: None, or the id and the queue of a mailbox
  task,        \* each task: its label, and the locals of its call
  wake,        \* the receiver's semaphore
  sent,        \* the messages that Box's mailbox accepted
  got,         \* what the receiver was given from it, in order
  spurious     \* wake-ups for other reasons so far

vars == <<root, memory, task, wake, sent, got, spurious>>
history == <<sent, got, spurious>>

Init ==
  /\ root = [ready |-> FALSE, list |-> <<>>, lock |-> None]
  /\ memory = [h \in Handles |-> None]
  /\ task = [t \in Tasks |-> [pc |-> IF t = Receiver THEN "sleep" ELSE "idle",
                              op |-> None, hdl |-> None, seen |-> <<>>, calls |-> 0]]
  /\ wake = 0
  /\ sent = {}
  /\ got = <<>>
  /\ spurious = 0

IdUsed(t) == IF t \in Owners THEN IdOf[t] ELSE Box

At(t, pc) == task[t].pc = pc
Goto(t, pc) == task' = [task EXCEPT ![t].pc = pc]

(* Back from a call: the receiver sleeps again when there was no message.  *)
Return(t, hdl) ==
  task' = [task EXCEPT ![t].pc = IF t = Receiver THEN "sleep" ELSE "idle",
                       ![t].op = None, ![t].hdl = hdl, ![t].seen = <<>>]

-----------------------------------------------------------------------------
(***************************************************************************)
(* RtlMBoxIdToHdl.                                                         *)
(***************************************************************************)
(* The first call of the system runs alone: the drivers of the SDK create  *)
(* their mailbox at start-up, one after the other.                         *)
Alone(t) == \A u \in Tasks \ {t} : task[u].pc \in {"idle", "sleep"}

Call(t, op, calls) ==
  /\ root.ready \/ Alone(t)
  /\ task' = [task EXCEPT ![t].pc = IF root.ready THEN "lookup" ELSE "init",
                          ![t].op = op, ![t].calls = calls]

InitRoot(t) ==
  /\ At(t, "init")
  /\ root' = [ready |-> TRUE, list |-> <<>>, lock |-> None]
  /\ Goto(t, "lookup")
  /\ UNCHANGED <<memory, wake, history>>

Found(list, id) ==
  LET at == {i \in DOMAIN list : memory[list[i]].id = id}
  IN  IF at = {} THEN None ELSE list[Min(at)]

(* The walk, under the mutex; each call fails, or goes on, in its way.     *)
Lookup(t) ==
  LET h == Found(root.list, IdUsed(t)) IN
  /\ At(t, "lookup")
  /\ root.lock = None
  /\ \/ (task[t].op = "create") = (h # None) /\ Return(t, None)
     \/ task[t].op = "create" /\ h = None /\ Goto(t, "alloc")
     \/ /\ task[t].op # "create" /\ h # None
        /\ task' = [task EXCEPT ![t].pc = task[t].op, ![t].hdl = h]
  /\ UNCHANGED <<root, memory, wake, history>>

-----------------------------------------------------------------------------
(***************************************************************************)
(* RtlMailboxCreate and RtlMailboxDel.                                     *)
(***************************************************************************)
Create(o) ==
  /\ At(o, "idle") /\ task[o].hdl = None
  /\ task[o].calls < MaxMade[o]
  /\ Call(o, "create", task[o].calls + 1)
  /\ UNCHANGED <<root, memory, wake, history>>

(* RtlDownMutex, at label pc; the list as it is then.                      *)
Down(t, pc, next) ==
  /\ At(t, pc)
  /\ root.lock = None
  /\ root' = [root EXCEPT !.lock = t]
  /\ task' = [task EXCEPT ![t].pc = next, ![t].seen = root.list]

(* Memory for the mailbox and its queue, or neither.                       *)
Alloc(o) ==
  /\ At(o, "alloc")
  /\ \/ \E h \in Handles :
          /\ memory[h] = None
          /\ memory' = [memory EXCEPT ![h] = [id |-> IdOf[o], msgs |-> <<>>]]
          /\ task' = [task EXCEPT ![o].pc = "insert", ![o].hdl = h]
     \/ Return(o, None) /\ UNCHANGED memory
  /\ UNCHANGED <<root, wake, history>>

(* Mutant: the mutex is not taken.                                         *)
InsertUnlocked(o) ==
  /\ At(o, "insert")
  /\ task' = [task EXCEPT ![o].pc = "link", ![o].seen = root.list]
  /\ UNCHANGED <<root, memory, wake, history>>

Insert(o) == Down(o, "insert", "link") /\ UNCHANGED <<memory, wake, history>>

Link(o) ==
  /\ At(o, "link")
  /\ root' = [root EXCEPT !.list = Append(task[o].seen, task[o].hdl), !.lock = None]
  /\ Return(o, task[o].hdl)
  /\ UNCHANGED <<memory, wake, history>>

(* The owner deletes its mailbox when its users have stopped: RtlMailboxDel *)
(* leaves that to the caller.                                              *)
Users == Senders \cup {Receiver}
Stopped == \A t \in Users : task[t].pc \in {"idle", "sleep"}
Deleting == \E o \in Owners : IdOf[o] = Box /\ task[o].op = "del"
(* The receiving task is created when the mailbox is there.                *)
Started == \E o \in Owners : IdOf[o] = Box /\ task[o].hdl # None /\ task[o].op = None

Del(o) ==
  /\ At(o, "idle") /\ task[o].hdl # None
  /\ IdOf[o] = Box => Stopped
  /\ task' = [task EXCEPT ![o].pc = "unlink", ![o].op = "del"]
  /\ UNCHANGED <<root, memory, wake, history>>

Unlink(o) == Down(o, "unlink", "cut") /\ UNCHANGED <<memory, wake, history>>

(* RtlListDelete: the list without the entry of a mailbox that is in it.   *)
Without(list, h) == RemoveAt(list, CHOOSE i \in DOMAIN list : list[i] = h)

Cut(o) ==
  /\ At(o, "cut")
  /\ root' = [root EXCEPT !.list = Without(task[o].seen, task[o].hdl), !.lock = None]
  /\ Goto(o, "free")
  /\ UNCHANGED <<memory, wake, history>>

(* The messages left in it are gone, and so is the semaphore.              *)
Free(o) ==
  /\ At(o, "free")
  /\ memory' = [memory EXCEPT ![task[o].hdl] = None]
  /\ IF IdOf[o] = Box
     THEN wake' = 0 /\ sent' = {} /\ got' = <<>>
     ELSE UNCHANGED <<wake, sent, got>>
  /\ Return(o, None)
  /\ UNCHANGED <<root, spurious>>

-----------------------------------------------------------------------------
(***************************************************************************)
(* RtlMailboxSendToBack and RtlMailboxSendToFront, with a timeout.         *)
(***************************************************************************)
Send(s) ==
  /\ At(s, "idle") /\ ~Deleting
  /\ task[s].calls < MaxSends
  /\ Call(s, "send", task[s].calls + 1)
  /\ UNCHANGED <<root, memory, wake, history>>

Queue(h) == memory[h].msgs

(* A message goes into a mailbox that holds less than capacity of them.    *)
Place(s, capacity) ==
  \E front \in Ends[s] :
    LET h == task[s].hdl
        m == [from |-> s, n |-> task[s].calls, front |-> front] IN
    /\ At(s, "send")
    /\ Len(Queue(h)) < capacity
    /\ memory' = [memory EXCEPT ![h].msgs = IF front THEN <<m>> \o @ ELSE Append(@, m)]
    /\ sent' = sent \cup {m}
    /\ Goto(s, "raise")
    /\ UNCHANGED <<root, wake, got, spurious>>

(* Mutant: one message more than there is room for.                        *)
PutOver(s) == Place(s, Size + 1)

Put(s) == Place(s, Size)

(* The mailbox stayed full for the time given, which may be none.          *)
GiveUp(s) ==
  /\ At(s, "send")
  /\ Len(Queue(task[s].hdl)) = Size
  /\ Return(s, None)
  /\ UNCHANGED <<root, memory, wake, history>>

(* Mutant: the semaphore is left alone.                                    *)
RaiseNothing(s) ==
  /\ At(s, "raise")
  /\ Return(s, None)
  /\ UNCHANGED <<root, memory, wake, history>>

Raise(s) ==
  /\ At(s, "raise")
  /\ wake' = wake + 1
  /\ Return(s, None)
  /\ UNCHANGED <<root, memory, history>>

-----------------------------------------------------------------------------
(***************************************************************************)
(* The receiver, SDIO_RxTask: RtlDownSema, then RtlMailboxReceive without  *)
(* waiting until there is no message.                                      *)
(***************************************************************************)
Wake ==
  /\ At(Receiver, "sleep") /\ Started
  /\ wake > 0
  /\ wake' = wake - 1
  /\ Call(Receiver, "receive", 0)
  /\ UNCHANGED <<root, memory, history>>

(* Mutant: the message stays in the mailbox.                               *)
GetPeek ==
  LET msgs == Queue(task[Receiver].hdl) IN
  /\ At(Receiver, "receive")
  /\ \/ /\ msgs # <<>>
        /\ got' = Append(got, Head(msgs))
        /\ Goto(Receiver, "lookup")
        /\ UNCHANGED memory
     \/ msgs = <<>> /\ Return(Receiver, None) /\ UNCHANGED <<memory, got>>
  /\ UNCHANGED <<root, wake, sent, spurious>>

Get ==
  LET msgs == Queue(task[Receiver].hdl) IN
  /\ At(Receiver, "receive")
  /\ \/ /\ msgs # <<>>
        /\ memory' = [memory EXCEPT ![task[Receiver].hdl].msgs = Tail(@)]
        /\ got' = Append(got, Head(msgs))
        /\ Goto(Receiver, "lookup")
     \/ msgs = <<>> /\ Return(Receiver, None) /\ UNCHANGED <<memory, got>>
  /\ UNCHANGED <<root, wake, sent, spurious>>

(* The interrupts of the driver raise the same semaphore (external).       *)
Interrupt ==
  /\ spurious < MaxWakes
  /\ Started
  /\ spurious' = spurious + 1
  /\ wake' = wake + 1
  /\ UNCHANGED <<root, memory, task, sent, got>>

-----------------------------------------------------------------------------
Creating(o) == Alloc(o) \/ Insert(o) \/ Link(o) \/ Unlink(o) \/ Cut(o) \/ Free(o)
Sending(s) == Put(s) \/ GiveUp(s) \/ Raise(s)

(* A task that is in a call, or woken, goes on. *)
Step(t) ==
  \/ InitRoot(t) \/ Lookup(t)
  \/ t \in Owners /\ Creating(t)
  \/ t \in Senders /\ Sending(t)
  \/ t = Receiver /\ (Wake \/ Get)

Next ==
  \/ \E t \in Tasks : Step(t)
  \/ \E o \in Owners : Create(o) \/ Del(o)
  \/ \E s \in Senders : Send(s)
  \/ Interrupt

Spec == Init /\ [][Next]_vars

(* The scheduler runs every task that can run; nobody has to call.         *)
FairSpec == Spec /\ \A t \in Tasks : WF_vars(Step(t))

-----------------------------------------------------------------------------
(* Properties *)

Roots == [ready : BOOLEAN, list : Seq(Handles), lock : Tasks \cup {None}]
Locals ==
  [pc : {"idle", "sleep", "init", "lookup", "alloc", "insert", "link", "unlink", "cut",
         "free", "send", "raise", "receive"},
   op : {None, "create", "del", "send", "receive"},
   hdl : Handles \cup {None}, seen : Seq(Handles), calls : Nat]

(* The type invariant.                                                     *)
TypeOK ==
  /\ root \in Roots
  /\ memory \in [Handles -> Mailboxes \cup {None}]
  /\ \A h \in Handles : memory[h] # None => Len(memory[h].msgs) <= Size
  /\ task \in [Tasks -> Locals]
  /\ wake \in Nat /\ spurious \in 0 .. MaxWakes
  /\ sent \subseteq Messages /\ got \in Seq(Messages)

(* The list holds each mailbox whose creation has returned, once, until it *)
(* is deleted, and nothing that was freed: other tasks may create and      *)
(* delete theirs meanwhile ("the Mutex to protect the mailbox              *)
(* create/delete procedure", mailbox.h:77).                                *)
Listed ==
  /\ IsInjective(root.list)
  /\ \A h \in ToSet(root.list) : memory[h] # None
  /\ \A o \in Owners :
       task[o].pc = "idle" /\ task[o].hdl # None =>
         Found(root.list, IdOf[o]) = task[o].hdl

(* The messages that wait in the mailboxes of an id, in any of them.       *)
Waiting == LET used == {h \in Handles : memory[h] # None /\ memory[h].id = Box}
           IN  IF used = {} THEN <<>> ELSE Queue(CHOOSE h \in used : TRUE)

(* No wake-up is lost: while a message waits, the receiver is awake, or    *)
(* its semaphore is up, or a sender is about to raise it.                  *)
NoLostWakeup ==
  Waiting # <<>> =>
    \/ task[Receiver].pc # "sleep" \/ wake > 0
    \/ \E s \in Senders : task[s].pc = "raise"
    \/ Deleting

(* Every accepted message is given out once or waits, as long as the       *)
(* mailbox is there; those that one task sent to the back come out in the  *)
(* order of the calls.                                                     *)
Ordered ==
  LET all == got \o Waiting IN
  /\ IsInjective(all) /\ ToSet(all) = sent
  /\ \A i, j \in DOMAIN all :
       i < j /\ all[i].from = all[j].from /\ ~all[i].front /\ ~all[j].front =>
         all[i].n < all[j].n

(* Messages do not stay in the mailbox: the receiver empties it in the     *)
(* end, unless it is deleted under it.                                     *)
Drained == Waiting # <<>> ~> Waiting = <<>> \/ Deleting
=============================================================================
