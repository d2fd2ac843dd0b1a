--------------------------- MODULE MailboxProofs ---------------------------
(***************************************************************************)
(* Proofs about Mailbox, for any number of owners and senders: the types,  *)
(* the list of the mailboxes, that no wake-up of the receiver is lost, and *)
(* that each message comes out once, in its sender's order.                *)
(***************************************************************************)
EXTENDS Mailbox, NatLemmas, SequenceTheorems

Resting == {"idle", "sleep"}

\* What each kind of task does, and what it calls.
RoleInv ==
  /\ \A o \in Owners :
       \/ task[o].pc = "idle" /\ task[o].op = None
       \/ task[o].pc \in {"init", "lookup", "alloc", "insert", "link"} /\ task[o].op = "create"
       \/ task[o].pc \in {"unlink", "cut", "free"} /\ task[o].op = "del"
  /\ \A s \in Senders :
       \/ task[s].pc = "idle" /\ task[s].op = None
       \/ /\ task[s].pc \in {"init", "lookup", "send", "raise"} /\ task[s].op = "send"
          /\ task[s].calls \in 1 .. MaxSends
  /\ \/ task[Receiver].pc = "sleep" /\ task[Receiver].op = None
     \/ task[Receiver].pc \in {"init", "lookup", "receive"} /\ task[Receiver].op = "receive"

\* Before the list and its mutex are made, there is one call and no mailbox.
StartInv ==
  /\ ~root.ready => /\ root.lock = None /\ root.list = <<>>
                    /\ \A t \in Tasks : /\ task[t].pc \in Resting \cup {"init"}
                                        /\ task[t].hdl = None
  /\ \A t \in Tasks : task[t].pc = "init" =>
       ~root.ready /\ \A u \in Tasks \ {t} : task[u].pc \in Resting

\* Who changes the list holds the mutex, and read the list as it still is.
MutexInv ==
  /\ \A t \in Tasks : task[t].pc \in {"link", "cut"} =>
       root.lock = t /\ task[t].seen = root.list

\* The list: each mailbox in it once, and each is its owner's.
ListInv ==
  /\ IsInjective(root.list)
  /\ \A i \in DOMAIN root.list : \E o \in Owners : task[o].hdl = root.list[i]

\* The memory of an owner is its mailbox, in the list from its creation to
\* its deletion; no other memory is taken.
OwnerInv ==
  /\ \A o \in Owners :
       /\ task[o].pc \in {"init", "lookup", "alloc"} => task[o].hdl = None
       /\ task[o].pc \notin {"idle", "init", "lookup", "alloc"} => task[o].hdl # None
       /\ task[o].hdl # None => memory[task[o].hdl] # None /\ memory[task[o].hdl].id = IdOf[o]
       /\ task[o].pc \in {"idle", "unlink", "cut"} /\ task[o].hdl # None =>
            \E i \in DOMAIN root.list : root.list[i] = task[o].hdl
       /\ task[o].pc \in {"insert", "link", "free"} =>
            \A i \in DOMAIN root.list : root.list[i] # task[o].hdl
  /\ \A h \in Handles : memory[h] # None => \E o \in Owners : task[o].hdl = h

\* Who uses the mailbox finds it there, until the call is done.
UserInv ==
  /\ \A s \in Senders : task[s].pc # "idle" => ~Deleting
  /\ task[Receiver].pc # "sleep" => Started
  /\ \A u \in Users : task[u].pc \in {"send", "receive"} =>
       /\ task[u].hdl # None /\ memory[task[u].hdl] # None /\ memory[task[u].hdl].id = Box

MailInv ==
  /\ TypeOK /\ RoleInv /\ StartInv /\ MutexInv /\ ListInv /\ OwnerInv /\ UserInv
-----------------------------------------------------------------------------
(***************************************************************************)
(* A step of a task: its own locals change, nobody else's.                 *)
(***************************************************************************)
Moved(t, pc, op, hdl, seen, calls) ==
  /\ task' \in [Tasks -> Locals]
  /\ task'[t].pc = pc /\ task'[t].op = op /\ task'[t].hdl = hdl
  /\ task'[t].seen = seen /\ task'[t].calls = calls
  /\ \A u \in Tasks : u # t => task'[u] = task[u]

PCs == {"idle", "sleep", "init", "lookup", "alloc", "insert", "link", "unlink", "cut",
        "free", "send", "raise", "receive"}
Ops == {None, "create", "del", "send", "receive"}

LEMMA LocalsAre ==
  ASSUME TypeOK, NEW t \in Tasks
  PROVE  /\ task[t].pc \in PCs /\ task[t].op \in Ops /\ task[t].hdl \in Handles \cup {None}
         /\ task[t].seen \in Seq(Handles) /\ task[t].calls \in Nat
BY DEF TypeOK, Locals, PCs, Ops

\* EXCEPT on some fields of a task's locals, in the forms the actions use.
LEMMA GotoIs ==
  ASSUME TypeOK, NEW t \in Tasks, NEW pc \in PCs, Goto(t, pc)
  PROVE  Moved(t, pc, task[t].op, task[t].hdl, task[t].seen, task[t].calls)
<1>1. task \in [Tasks -> Locals]
  BY DEF TypeOK
<1>2. task' = [task EXCEPT ![t].pc = pc]
  BY DEF Goto
<1> QED BY <1>1, <1>2 DEF Moved, Locals, PCs

LEMMA ReturnIs ==
  ASSUME TypeOK, NEW t \in Tasks, NEW hdl \in Handles \cup {None}, Return(t, hdl)
  PROVE  Moved(t, IF t = Receiver THEN "sleep" ELSE "idle", None, hdl, <<>>, task[t].calls)
<1>1. task \in [Tasks -> Locals] /\ <<>> \in Seq(Handles)
  BY DEF TypeOK
<1> DEFINE pc == IF t = Receiver THEN "sleep" ELSE "idle"
<1>2. task' = [task EXCEPT ![t].pc = pc, ![t].op = None, ![t].hdl = hdl, ![t].seen = <<>>]
  BY DEF Return
<1>3. pc \in PCs
  BY DEF PCs
<1> HIDE DEF pc
<1>4. Moved(t, pc, None, hdl, <<>>, task[t].calls)
  <2> DEFINE r == [task[t] EXCEPT !.pc = pc, !.op = None, !.hdl = hdl, !.seen = <<>>]
  <2>1. task' = [task EXCEPT ![t] = r]
    BY <1>1, <1>2
  <2>2. /\ r \in Locals /\ r.pc = pc /\ r.op = None /\ r.hdl = hdl /\ r.seen = <<>>
        /\ r.calls = task[t].calls
    BY <1>1, <1>3 DEF Locals, PCs
  <2> QED BY <1>1, <2>1, <2>2 DEF Moved
<1> QED BY <1>4 DEF pc

LEMMA CallIs ==
  ASSUME TypeOK, NEW t \in Tasks, NEW op \in Ops, NEW calls \in Nat, Call(t, op, calls)
  PROVE  /\ Moved(t, IF root.ready THEN "lookup" ELSE "init", op, task[t].hdl, task[t].seen, calls)
         /\ root.ready \/ Alone(t)
<1>1. task \in [Tasks -> Locals]
  BY DEF TypeOK
<1> DEFINE pc == IF root.ready THEN "lookup" ELSE "init"
<1>2. task' = [task EXCEPT ![t].pc = pc, ![t].op = op, ![t].calls = calls]
  BY DEF Call
<1>3. pc \in PCs
  BY DEF PCs
<1> HIDE DEF pc
<1>4. Moved(t, pc, op, task[t].hdl, task[t].seen, calls)
  <2> DEFINE r == [task[t] EXCEPT !.pc = pc, !.op = op, !.calls = calls]
  <2>1. task' = [task EXCEPT ![t] = r]
    BY <1>1, <1>2
  <2>2. /\ r \in Locals /\ r.pc = pc /\ r.op = op /\ r.hdl = task[t].hdl
        /\ r.seen = task[t].seen /\ r.calls = calls
    BY <1>1, <1>3 DEF Locals, PCs, Ops
  <2> QED BY <1>1, <2>1, <2>2 DEF Moved
<1> QED BY <1>4 DEF pc, Call

LEMMA TakenIs ==
  ASSUME TypeOK, NEW t \in Tasks, NEW pc \in PCs, NEW hdl \in Handles \cup {None},
         task' = [task EXCEPT ![t].pc = pc, ![t].hdl = hdl]
  PROVE  Moved(t, pc, task[t].op, hdl, task[t].seen, task[t].calls)
<1>1. task \in [Tasks -> Locals]
  BY DEF TypeOK
<1> DEFINE r == [task[t] EXCEPT !.pc = pc, !.hdl = hdl]
<1>2. task' = [task EXCEPT ![t] = r]
  BY <1>1
<1>3. /\ r \in Locals /\ r.pc = pc /\ r.op = task[t].op /\ r.hdl = hdl
      /\ r.seen = task[t].seen /\ r.calls = task[t].calls
  BY <1>1 DEF Locals, PCs
<1> QED BY <1>1, <1>2, <1>3 DEF Moved

LEMMA MarkedIs ==
  ASSUME TypeOK, NEW t \in Tasks, NEW pc \in PCs, NEW op \in Ops,
         task' = [task EXCEPT ![t].pc = pc, ![t].op = op]
  PROVE  Moved(t, pc, op, task[t].hdl, task[t].seen, task[t].calls)
<1>1. task \in [Tasks -> Locals]
  BY DEF TypeOK
<1> DEFINE r == [task[t] EXCEPT !.pc = pc, !.op = op]
<1>2. task' = [task EXCEPT ![t] = r]
  BY <1>1
<1>3. /\ r \in Locals /\ r.pc = pc /\ r.op = op /\ r.hdl = task[t].hdl
      /\ r.seen = task[t].seen /\ r.calls = task[t].calls
  BY <1>1 DEF Locals, PCs, Ops
<1> QED BY <1>1, <1>2, <1>3 DEF Moved

LEMMA DownIs ==
  ASSUME TypeOK, NEW t \in Tasks, NEW pc, NEW next \in PCs, Down(t, pc, next)
  PROVE  /\ Moved(t, next, task[t].op, task[t].hdl, root.list, task[t].calls)
         /\ root' \in Roots /\ root'.ready = root.ready /\ root'.list = root.list /\ root'.lock = t
         /\ task[t].pc = pc /\ root.lock = None
<1>1. task \in [Tasks -> Locals] /\ root \in Roots
  BY DEF TypeOK
<1>2. task' = [task EXCEPT ![t].pc = next, ![t].seen = root.list]
  BY DEF Down
<1>3. root.list \in Seq(Handles)
  BY <1>1 DEF Roots
<1>4. Moved(t, next, task[t].op, task[t].hdl, root.list, task[t].calls)
  <2> DEFINE r == [task[t] EXCEPT !.pc = next, !.seen = root.list]
  <2>1. task' = [task EXCEPT ![t] = r]
    BY <1>1, <1>2
  <2>2. /\ r \in Locals /\ r.pc = next /\ r.op = task[t].op /\ r.hdl = task[t].hdl
        /\ r.seen = root.list /\ r.calls = task[t].calls
    BY <1>1, <1>3 DEF Locals, PCs
  <2> HIDE DEF r
  <2> QED BY <1>1, <2>1, <2>2 DEF Moved
<1>5. root' = [root EXCEPT !.lock = t] /\ task[t].pc = pc /\ root.lock = None
  BY DEF Down, At
<1> QED BY <1>1, <1>4, <1>5 DEF Roots
-----------------------------------------------------------------------------
(***************************************************************************)
(* Who is who.                                                             *)
(***************************************************************************)
LEMMA OneOwner ==
  ASSUME NEW o \in Owners, NEW p \in Owners, IdOf[o] = IdOf[p]
  PROVE  o = p
BY MailboxAssumption DEF IsInjective

LEMMA Roles ==
  /\ \A o \in Owners : o \in Tasks /\ o \notin Users /\ o # Receiver /\ o \notin Senders
  /\ \A s \in Senders : s \in Tasks /\ s \in Users /\ s # Receiver /\ s \notin Owners
  /\ Receiver \in Tasks /\ Receiver \in Users /\ Receiver \notin Owners
  /\ \A u \in Users : u \in Tasks /\ u \notin Owners
  /\ \A t \in Tasks : t \in Owners \/ t \in Users
BY MailboxAssumption DEF Tasks, Users

LEMMA NoneIs ==
  None \notin Handles /\ None \notin Mailboxes /\ None \notin Tasks /\ None \notin Owners
    /\ None # "create" /\ None # "del" /\ None # "send" /\ None # "receive"
BY MailboxAssumption DEF Tasks

\* The memory that is taken, and for which ids, stays.
Kept ==
  /\ memory' \in [Handles -> Mailboxes \cup {None}]
  /\ \A h \in Handles : /\ memory'[h] # None <=> memory[h] # None
                        /\ memory[h] # None => memory'[h].id = memory[h].id

LEMMA SameIsKept ==
  ASSUME TypeOK, memory' = memory
  PROVE  Kept
BY DEF TypeOK, Kept

\* The owners stay where they are, and so does the list.
LEMMA UserKeeps ==
  ASSUME MailInv, NEW u \in Users, NEW pc, NEW op, NEW hdl, NEW seen, NEW calls,
         Moved(u, pc, op, hdl, seen, calls), Kept, root' = root, pc \notin {"link", "cut"}
  PROVE  /\ MutexInv' /\ ListInv' /\ OwnerInv'
         /\ Deleting' <=> Deleting
         /\ Started' <=> Started
<1>1. \A o \in Owners : task'[o] = task[o]
  BY Roles DEF Moved
<1>2. MutexInv'
  BY Roles DEF MailInv, MutexInv, Moved
<1>3. ListInv'
  BY <1>1 DEF MailInv, ListInv
<1>4. \A o \in Owners : task[o].hdl \in Handles \cup {None}
  BY Roles, LocalsAre DEF MailInv
<1>5. OwnerInv'
  <2>1. ASSUME NEW o \in Owners, task[o].hdl # None
        PROVE  memory'[task[o].hdl] # None /\ memory'[task[o].hdl].id = IdOf[o]
    BY <1>4, <2>1 DEF MailInv, OwnerInv, Kept
  <2> QED BY <1>1, <2>1 DEF MailInv, OwnerInv, Kept
<1>6. (Deleting' <=> Deleting) /\ (Started' <=> Started)
  BY <1>1 DEF Deleting, Started
<1> QED BY <1>2, <1>3, <1>5, <1>6

\* A step after the start is no step of the start.
LEMMA AfterStart ==
  ASSUME MailInv, NEW t \in Tasks, NEW pc, NEW op, NEW hdl, NEW seen, NEW calls,
         Moved(t, pc, op, hdl, seen, calls), root.ready, root'.ready, pc # "init"
  PROVE  StartInv'
BY DEF MailInv, StartInv, Moved

LEMMA Ready ==
  ASSUME MailInv, NEW t \in Tasks, task[t].pc \notin Resting \cup {"init"} \/ task[t].hdl # None
  PROVE  root.ready
BY DEF MailInv, StartInv

\* The first call of all.
LEMMA FirstCall ==
  ASSUME MailInv, NEW t \in Tasks, NEW op, NEW hdl, NEW seen, NEW calls,
         hdl = task[t].hdl, op # "del", t # Receiver,
         Moved(t, "init", op, hdl, seen, calls), Alone(t), ~root.ready,
         root' = root, memory' = memory
  PROVE  StartInv' /\ MutexInv' /\ ListInv' /\ OwnerInv' /\ UserInv'
<1>1. \A u \in Tasks : u # t => task'[u] = task[u] /\ task[u].pc \in Resting
  BY DEF Moved, Alone, Resting
<1>2. task'[t].pc = "init" /\ task'[t].op = op /\ task'[t].hdl = hdl
  BY DEF Moved
<1>3. \A u \in Tasks : task'[u].hdl = task[u].hdl /\ task[u].hdl = None
  BY <1>1, <1>2 DEF MailInv, StartInv
<1>4. StartInv'
  BY <1>1, <1>2, <1>3 DEF MailInv, StartInv
<1>5. MutexInv'
  BY <1>1, <1>2 DEF MutexInv, Resting
<1>6. ListInv'
  BY <1>3, Roles DEF MailInv, ListInv
<1>7. OwnerInv'
  <2>1. \A o \in Owners : task'[o].hdl = None /\ task'[o].pc \in {"idle", "sleep", "init"}
    BY <1>1, <1>2, <1>3, Roles DEF Resting
  <2>2. \A o \in Owners : task'[o].pc # "sleep"
    BY <1>1, <1>2, Roles DEF MailInv, RoleInv
  <2>3. \A h \in Handles : memory[h] = None
    BY <1>3, <2>1, Roles, NoneIs DEF MailInv, OwnerInv
  <2> QED BY <2>1, <2>2, <2>3 DEF OwnerInv
<1>8. UserInv'
  <2>1. ~Deleting'
    <3>1. \A o \in Owners : task'[o].op # "del"
      BY <1>1, <1>2, Roles, NoneIs DEF MailInv, RoleInv, Resting
    <3> QED BY <3>1 DEF Deleting
  <2>2. task'[Receiver].pc = "sleep"
    BY <1>1, Roles DEF MailInv, RoleInv, Resting
  <2>3. \A u \in Users : task'[u].pc \notin {"send", "receive"}
    BY <1>1, <1>2, Roles DEF Resting
  <2> QED BY <2>1, <2>2, <2>3 DEF UserInv
<1> QED BY <1>4, <1>5, <1>6, <1>7, <1>8
-----------------------------------------------------------------------------
(***************************************************************************)
(* The walk over the list.                                                 *)
(***************************************************************************)
LEMMA RootIs ==
  ASSUME TypeOK
  PROVE  /\ root.list \in Seq(Handles) /\ root.ready \in BOOLEAN /\ root.lock \in Tasks \cup {None}
         /\ DOMAIN root.list = 1 .. Len(root.list) /\ Len(root.list) \in Nat
         /\ \A i \in DOMAIN root.list : root.list[i] \in Handles
<1>1. root.list \in Seq(Handles) /\ root.ready \in BOOLEAN /\ root.lock \in Tasks \cup {None}
  BY DEF TypeOK, Roots
<1>2. DOMAIN root.list = 1 .. Len(root.list) /\ Len(root.list) \in Nat
  BY <1>1, LenProperties
<1>3. \A i \in DOMAIN root.list : root.list[i] \in Handles
  BY <1>1, <1>2, ElementOfSeq
<1> QED BY <1>1, <1>2, <1>3

LEMMA FoundIs ==
  ASSUME TypeOK, NEW id
  PROVE  \/ /\ Found(root.list, id) = None
            /\ \A i \in DOMAIN root.list : memory[root.list[i]].id # id
         \/ \E i \in DOMAIN root.list :
              Found(root.list, id) = root.list[i] /\ memory[root.list[i]].id = id
<1> DEFINE at == {i \in DOMAIN root.list : memory[root.list[i]].id = id}
<1>1. CASE at = {}
  BY <1>1 DEF Found
<1>2. CASE at # {}
  <2>1. at \subseteq Nat
    BY RootIs
  <2>2. PICK i \in at : \A j \in at : i <= j
    <3> HIDE DEF at
    <3> QED BY <1>2, <2>1, NatMin
  <2>3. Min(at) \in at
    <3> HIDE DEF at
    <3> QED BY <2>2 DEF Min
  <2>4. Found(root.list, id) = root.list[Min(at)]
    BY <1>2 DEF Found
  <2> QED BY <2>3, <2>4
<1> QED BY <1>1, <1>2

\* A mailbox in the list is found by its id, and no other is.
LEMMA FoundOwn ==
  ASSUME MailInv, NEW o \in Owners, NEW i \in DOMAIN root.list, task[o].hdl = root.list[i]
  PROVE  Found(root.list, IdOf[o]) = task[o].hdl
<1>1. task[o].hdl \in Handles /\ task[o].hdl # None
  BY RootIs, NoneIs DEF MailInv
<1>2. memory[task[o].hdl].id = IdOf[o]
  BY <1>1 DEF MailInv, OwnerInv
<1>3. PICK j \in DOMAIN root.list :
        Found(root.list, IdOf[o]) = root.list[j] /\ memory[root.list[j]].id = IdOf[o]
  BY <1>2, FoundIs DEF MailInv
<1>4. PICK p \in Owners : task[p].hdl = root.list[j]
  BY DEF MailInv, ListInv
<1>5. task[p].hdl # None /\ IdOf[p] = IdOf[o]
  BY <1>3, <1>4, RootIs, NoneIs DEF MailInv, OwnerInv
<1>6. p = o
  BY <1>5, OneOwner
<1> QED BY <1>3, <1>4, <1>6

LEMMA FoundMailbox ==
  ASSUME MailInv, NEW id, Found(root.list, id) # None
  PROVE  /\ Found(root.list, id) \in Handles
         /\ memory[Found(root.list, id)] # None /\ memory[Found(root.list, id)].id = id
<1>1. PICK i \in DOMAIN root.list :
        Found(root.list, id) = root.list[i] /\ memory[root.list[i]].id = id
  BY FoundIs DEF MailInv
<1>2. root.list[i] \in Handles /\ root.list[i] # None
  BY RootIs, NoneIs DEF MailInv
<1>3. memory[root.list[i]] # None
  <2>1. PICK o \in Owners : task[o].hdl = root.list[i]
    BY DEF MailInv, ListInv
  <2> QED BY <1>2, <2>1 DEF MailInv, OwnerInv
<1> QED BY <1>1, <1>2, <1>3

\* The list as the property states it.
LEMMA ListIsRight ==
  ASSUME MailInv
  PROVE  Listed
<1>1. \A h \in ToSet(root.list) : memory[h] # None
  <2> SUFFICES ASSUME NEW i \in DOMAIN root.list PROVE memory[root.list[i]] # None
    BY DEF ToSet
  <2>1. PICK o \in Owners : task[o].hdl = root.list[i]
    BY DEF MailInv, ListInv
  <2> QED BY <2>1, RootIs, NoneIs DEF MailInv, OwnerInv
<1>2. ASSUME NEW o \in Owners, task[o].pc = "idle", task[o].hdl # None
      PROVE  Found(root.list, IdOf[o]) = task[o].hdl
  <2>1. PICK i \in DOMAIN root.list : root.list[i] = task[o].hdl
    BY <1>2 DEF MailInv, OwnerInv
  <2> QED BY <2>1, FoundOwn
<1> QED BY <1>1, <1>2 DEF Listed, MailInv, ListInv
-----------------------------------------------------------------------------
(***************************************************************************)
(* The steps of the users.                                                 *)
(***************************************************************************)
\* What its call may have become when a user has moved.
Uses(u, pc, op, hdl, calls) ==
  /\ u \in Senders =>
       \/ pc = "idle" /\ op = None
       \/ pc \in {"init", "lookup", "send", "raise"} /\ op = "send" /\ calls \in 1 .. MaxSends /\ ~Deleting
  /\ u = Receiver =>
       \/ pc = "sleep" /\ op = None
       \/ pc \in {"init", "lookup", "receive"} /\ op = "receive" /\ Started
  /\ pc \in {"send", "receive"} =>
       hdl \in Handles /\ memory[hdl] # None /\ memory[hdl].id = Box

LEMMA UserMoves ==
  ASSUME MailInv, NEW u \in Users, NEW pc, NEW op, NEW hdl, NEW seen, NEW calls,
         Moved(u, pc, op, hdl, seen, calls), Uses(u, pc, op, hdl, calls), Kept, root' = root
  PROVE  /\ RoleInv' /\ MutexInv' /\ ListInv' /\ OwnerInv' /\ UserInv'
         /\ root.ready /\ pc # "init" => StartInv'
<1>1. \A v \in Tasks : v # u => task'[v] = task[v]
  BY DEF Moved
<1>2. task'[u].pc = pc /\ task'[u].op = op /\ task'[u].hdl = hdl /\ task'[u].calls = calls
  BY DEF Moved
<1>3. u \in Senders \/ u = Receiver
  BY DEF Users
<1>4. pc \notin {"link", "cut"}
  BY <1>3 DEF Uses
<1>5. MutexInv' /\ ListInv' /\ OwnerInv' /\ (Deleting' <=> Deleting) /\ (Started' <=> Started)
  BY <1>4, UserKeeps
<1>6. RoleInv'
  <2>1. \A o \in Owners : task'[o] = task[o]
    BY <1>1, Roles
  <2>2. \A s \in Senders : \/ s = u \/ task'[s] = task[s]
    BY <1>1, Roles
  <2>3. Receiver = u \/ task'[Receiver] = task[Receiver]
    BY <1>1, Roles
  <2> QED BY <1>2, <2>1, <2>2, <2>3, Roles DEF MailInv, RoleInv, Uses
<1>7. UserInv'
  <2>1. \A s \in Senders : task'[s].pc # "idle" => ~Deleting
    BY <1>1, <1>2, Roles DEF MailInv, UserInv, Uses
  <2>2. task'[Receiver].pc # "sleep" => Started
    BY <1>1, <1>2, Roles DEF MailInv, UserInv, Uses
  <2>3. ASSUME NEW v \in Users, task'[v].pc \in {"send", "receive"}
        PROVE  /\ task'[v].hdl \in Handles /\ memory[task'[v].hdl] # None
               /\ memory[task'[v].hdl].id = Box
    <3>1. CASE v = u
      BY <1>2, <2>3, <3>1 DEF Uses
    <3>2. CASE v # u
      <4>1. task'[v] = task[v] /\ v \in Tasks
        BY <1>1, <3>2, Roles
      <4> QED BY <2>3, <4>1, LocalsAre, NoneIs DEF MailInv, UserInv
    <3> QED BY <3>1, <3>2
  <2>4. \A v \in Users : task'[v].pc \in {"send", "receive"} =>
          /\ task'[v].hdl # None /\ memory'[task'[v].hdl] # None /\ memory'[task'[v].hdl].id = Box
    BY <2>3, NoneIs DEF Kept
  <2> QED BY <1>5, <2>1, <2>2, <2>4 DEF UserInv
<1>8. ASSUME root.ready, pc # "init" PROVE StartInv'
  <2>1. u \in Tasks /\ root'.ready
    BY <1>8, Roles
  <2> QED BY <1>8, <2>1, AfterStart
<1> QED BY <1>5, <1>6, <1>7, <1>8

\* The types, when the memory and the histories are left alone.
LEMMA TypeKept ==
  ASSUME TypeOK, root' \in Roots, task' \in [Tasks -> Locals], memory' = memory, wake' \in Nat,
         UNCHANGED history
  PROVE  TypeOK'
BY DEF TypeOK, history

\* A call of any task that is not one of the system's first.
LEMMA SendStep ==
  ASSUME MailInv, NEW s \in Senders, Send(s)
  PROVE  MailInv'
<1> DEFINE c == task[s].calls + 1
<1>1. /\ task[s].pc = "idle" /\ ~Deleting /\ task[s].calls < MaxSends /\ Call(s, "send", c)
      /\ UNCHANGED <<root, memory, wake, history>>
  BY DEF Send, At
<1>2. TypeOK /\ s \in Tasks /\ s \in Users /\ s # Receiver /\ "send" \in Ops
  BY Roles DEF MailInv, Ops
<1>3. c \in 1 .. MaxSends /\ c \in Nat
  <2>1. task[s].calls \in Nat /\ MaxSends \in Nat
    BY <1>2, LocalsAre, MailboxAssumption
  <2> QED BY <1>1, <2>1
<1> DEFINE pc == IF root.ready THEN "lookup" ELSE "init"
<1> HIDE DEF c
<1>4. Moved(s, pc, "send", task[s].hdl, task[s].seen, c) /\ (root.ready \/ Alone(s))
  BY <1>1, <1>2, <1>3, CallIs
<1>5. Uses(s, pc, "send", task[s].hdl, c)
  BY <1>1, <1>2, <1>3 DEF Uses
<1>6. TypeOK'
  <2>1. task' \in [Tasks -> Locals] /\ root \in Roots /\ wake \in Nat
    BY <1>2, <1>4 DEF Moved, TypeOK
  <2> QED BY <1>1, <1>2, <2>1, TypeKept
<1>7. RoleInv' /\ MutexInv' /\ ListInv' /\ OwnerInv' /\ UserInv'
      /\ (root.ready /\ pc # "init" => StartInv')
  <2> HIDE DEF pc
  <2> QED BY <1>1, <1>2, <1>4, <1>5, SameIsKept, UserMoves
<1>8. CASE root.ready
  BY <1>6, <1>7, <1>8 DEF MailInv
<1>9. CASE ~root.ready
  <2>1. StartInv'
    BY <1>1, <1>2, <1>4, <1>9, FirstCall
  <2> QED BY <1>6, <1>7, <2>1 DEF MailInv
<1> QED BY <1>8, <1>9

LEMMA UserLookup ==
  ASSUME MailInv, NEW u \in Users, Lookup(u)
  PROVE  MailInv'
<1> DEFINE h == Found(root.list, IdUsed(u))
<1>1. task[u].pc = "lookup" /\ UNCHANGED <<root, memory, wake, history>>
  BY DEF Lookup, At
<1>2. /\ TypeOK /\ u \in Tasks /\ u \notin Owners /\ (u \in Senders \/ u = Receiver)
      /\ task[u].op \in {"send", "receive"} /\ task[u].op \in Ops
  BY <1>1, Roles DEF MailInv, RoleInv, Users, Ops
<1>3. IdUsed(u) = Box
  BY <1>2 DEF IdUsed
<1>4. \/ h = None /\ Return(u, None)
      \/ h # None /\ task' = [task EXCEPT ![u].pc = task[u].op, ![u].hdl = h]
  <2>1. task[u].op # "create"
    BY <1>2
  <2> QED BY <2>1 DEF Lookup
<1>5. root.ready
  BY <1>1, <1>2, Ready DEF Resting
<1>6. \E pc, op, hdl, seen, calls :
        Moved(u, pc, op, hdl, seen, calls) /\ Uses(u, pc, op, hdl, calls) /\ pc # "init"
  <2>1. CASE h = None /\ Return(u, None)
    <3> DEFINE pc == IF u = Receiver THEN "sleep" ELSE "idle"
    <3>1. Moved(u, pc, None, None, <<>>, task[u].calls)
      BY <1>2, <2>1, ReturnIs
    <3>2. Uses(u, pc, None, None, task[u].calls) /\ pc # "init"
      BY <1>2, Roles DEF Uses
    <3> QED BY <3>1, <3>2
  <2>2. CASE h # None /\ task' = [task EXCEPT ![u].pc = task[u].op, ![u].hdl = h]
    <3>1. h \in Handles /\ memory[h] # None /\ memory[h].id = Box
      BY <1>3, <2>2, FoundMailbox
    <3>2. task[u].op \in PCs
      BY <1>2 DEF PCs
    <3> HIDE DEF h
    <3>3. Moved(u, task[u].op, task[u].op, h, task[u].seen, task[u].calls)
      BY <1>2, <2>2, <3>1, <3>2, TakenIs
    <3>4. Uses(u, task[u].op, task[u].op, h, task[u].calls)
      BY <1>1, <1>2, <3>1, Roles DEF MailInv, RoleInv, UserInv, Uses
    <3> QED BY <1>2, <3>3, <3>4
  <2> QED BY <1>4, <2>1, <2>2
<1>7. TypeOK'
  <2>1. task' \in [Tasks -> Locals] /\ root \in Roots /\ wake \in Nat
    BY <1>2, <1>6 DEF Moved, TypeOK
  <2> QED BY <1>1, <1>2, <2>1, TypeKept
<1>8. RoleInv' /\ MutexInv' /\ ListInv' /\ OwnerInv' /\ UserInv' /\ StartInv'
  BY <1>1, <1>2, <1>5, <1>6, SameIsKept, UserMoves
<1> QED BY <1>7, <1>8 DEF MailInv

\* A call that is over.
LEMMA UserReturns ==
  ASSUME MailInv, NEW u \in Users, Return(u, None), Kept, root' = root, root.ready
  PROVE  /\ task' \in [Tasks -> Locals]
         /\ RoleInv' /\ MutexInv' /\ ListInv' /\ OwnerInv' /\ UserInv' /\ StartInv'
<1> DEFINE pc == IF u = Receiver THEN "sleep" ELSE "idle"
<1>1. Moved(u, pc, None, None, <<>>, task[u].calls)
  BY Roles, ReturnIs DEF MailInv
<1>2. Uses(u, pc, None, None, task[u].calls) /\ pc # "init"
  BY Roles DEF Uses
<1> HIDE DEF pc
<1> QED BY <1>1, <1>2, UserMoves DEF Moved

LEMMA GiveUpStep ==
  ASSUME MailInv, NEW s \in Senders, GiveUp(s)
  PROVE  MailInv'
<1>1. task[s].pc = "send" /\ Return(s, None) /\ UNCHANGED <<root, memory, wake, history>>
  BY DEF GiveUp, At
<1>2. TypeOK /\ s \in Users /\ root.ready /\ Kept /\ root \in Roots /\ wake \in Nat
  BY <1>1, Roles, Ready, SameIsKept DEF MailInv, Resting, TypeOK
<1> QED BY <1>1, <1>2, UserReturns, TypeKept DEF MailInv

LEMMA RaiseStep ==
  ASSUME MailInv, NEW s \in Senders, Raise(s)
  PROVE  MailInv'
<1>1. task[s].pc = "raise" /\ Return(s, None) /\ UNCHANGED <<root, memory, history>> /\ wake' = wake + 1
  BY DEF Raise, At
<1>2. TypeOK /\ s \in Users /\ root.ready /\ Kept /\ root \in Roots
  BY <1>1, Roles, Ready, SameIsKept DEF MailInv, Resting, TypeOK
<1>3. wake' \in Nat
  BY <1>1, <1>2 DEF TypeOK
<1> QED BY <1>1, <1>2, <1>3, UserReturns, TypeKept DEF MailInv

LEMMA WakeStep ==
  ASSUME MailInv, Wake
  PROVE  MailInv'
<1>1. /\ task[Receiver].pc = "sleep" /\ Started /\ wake > 0 /\ wake' = wake - 1
      /\ Call(Receiver, "receive", 0) /\ UNCHANGED <<root, memory, history>>
  BY DEF Wake, At
<1>2. TypeOK /\ Receiver \in Tasks /\ Receiver \in Users /\ "receive" \in Ops /\ 0 \in Nat
  BY Roles DEF MailInv, Ops
<1>3. root.ready
  BY <1>1, Roles, Ready DEF Started
<1>4. Moved(Receiver, "lookup", "receive", task[Receiver].hdl, task[Receiver].seen, 0)
  BY <1>1, <1>2, <1>3, CallIs
<1>5. Uses(Receiver, "lookup", "receive", task[Receiver].hdl, 0)
  BY <1>1, Roles DEF Uses
<1>6. TypeOK'
  <2>1. task' \in [Tasks -> Locals] /\ root \in Roots /\ wake' \in Nat
    BY <1>1, <1>2, <1>4 DEF Moved, TypeOK
  <2> QED BY <1>1, <1>2, <2>1, TypeKept
<1>7. RoleInv' /\ MutexInv' /\ ListInv' /\ OwnerInv' /\ UserInv' /\ StartInv'
  BY <1>1, <1>2, <1>3, <1>4, <1>5, SameIsKept, UserMoves
<1> QED BY <1>6, <1>7 DEF MailInv

\* A queue changes: the memory stays taken, for the same ids.
LEMMA QueueChanges ==
  ASSUME TypeOK, NEW h \in Handles, memory[h] # None, NEW q \in Seq(Messages), Len(q) <= Size,
         memory' = [memory EXCEPT ![h].msgs = q]
  PROVE  /\ Kept /\ memory'[h].msgs = q
         /\ \A g \in Handles : g # h => memory'[g] = memory[g]
         /\ \A g \in Handles : memory'[g] # None => Len(memory'[g].msgs) <= Size
<1>1. memory \in [Handles -> Mailboxes \cup {None}] /\ memory[h] \in Mailboxes
  BY DEF TypeOK
<1> DEFINE r == [memory[h] EXCEPT !.msgs = q]
<1>2. memory' = [memory EXCEPT ![h] = r]
  BY <1>1
<1>3. r \in Mailboxes /\ r.msgs = q /\ r.id = memory[h].id
  BY <1>1 DEF Mailboxes
<1>4. r # None
  BY <1>3, NoneIs
<1> HIDE DEF r
<1>5. memory' \in [Handles -> Mailboxes \cup {None}] /\ memory'[h] = r
      /\ \A g \in Handles : g # h => memory'[g] = memory[g]
  BY <1>1, <1>2, <1>3
<1>6. Kept
  BY <1>3, <1>4, <1>5 DEF Kept
<1>7. ASSUME NEW g \in Handles, memory'[g] # None PROVE Len(memory'[g].msgs) <= Size
  <2>1. CASE g = h
    BY <1>3, <1>5, <2>1
  <2>2. CASE g # h
    BY <1>5, <1>7, <2>2 DEF TypeOK
  <2> QED BY <2>1, <2>2
<1> QED BY <1>3, <1>5, <1>6, <1>7

LEMMA PutStep ==
  ASSUME MailInv, NEW s \in Senders, Put(s)
  PROVE  MailInv'
<1> DEFINE h == task[s].hdl
           c == task[s].calls
<1>1. PICK front \in Ends[s] :
        LET m == [from |-> s, n |-> c, front |-> front]
        IN  /\ task[s].pc = "send" /\ Len(memory[h].msgs) < Size
            /\ memory' = [memory EXCEPT ![h].msgs = IF front THEN <<m>> \o memory[h].msgs
                                                    ELSE Append(memory[h].msgs, m)]
            /\ sent' = sent \cup {m}
            /\ Goto(s, "raise") /\ UNCHANGED <<root, wake, got, spurious>>
  <2>1. task[s].hdl \in Handles
    <3>1. task[s].pc = "send" /\ s \in Users /\ s \in Tasks
      BY Roles DEF Put, Place, At
    <3> QED BY <3>1, LocalsAre DEF MailInv, UserInv
  <2>2. memory \in [Handles -> Mailboxes \cup {None}]
    BY DEF MailInv, TypeOK
  <2> QED BY <2>1, <2>2 DEF Put, Place, At, Queue
<1> DEFINE m == [from |-> s, n |-> c, front |-> front]
           q == IF front THEN <<m>> \o memory[h].msgs ELSE Append(memory[h].msgs, m)
<1>2. TypeOK /\ s \in Tasks /\ s \in Users /\ s # Receiver /\ root.ready /\ "raise" \in PCs
  BY <1>1, Roles, Ready DEF MailInv, Resting, PCs
<1>3. h \in Handles /\ memory[h] # None
  BY <1>1, <1>2, LocalsAre DEF MailInv, UserInv
<1>4. task[s].op = "send" /\ c \in 1 .. MaxSends /\ ~Deleting
  BY <1>1 DEF MailInv, RoleInv, UserInv
<1>5. m \in Messages
  <2>1. front \in BOOLEAN
    BY MailboxAssumption
  <2> QED BY <1>4, <2>1 DEF Messages
<1> HIDE DEF m
<1>6. q \in Seq(Messages) /\ Len(q) <= Size
  <2> DEFINE old == memory[h].msgs
             z == Len(old)
  <2>1. old \in Seq(Messages) /\ z \in Nat /\ z < Size /\ Size \in Nat
    BY <1>1, <1>2, <1>3, MailboxAssumption, LenProperties DEF TypeOK, Mailboxes
  <2> HIDE DEF old
  <2>2. Append(old, m) \in Seq(Messages) /\ Len(Append(old, m)) = z + 1
    BY <1>5, <2>1, AppendProperties
  <2>3. <<m>> \in Seq(Messages) /\ Len(<<m>>) = 1
    BY <1>5
  <2>4. <<m>> \o old \in Seq(Messages) /\ Len(<<m>> \o old) = 1 + z
    BY <2>1, <2>3, ConcatProperties
  <2>5. q = <<m>> \o old \/ q = Append(old, m)
    BY DEF old
  <2> HIDE DEF q
  <2>6. q \in Seq(Messages) /\ Len(q) \in {z + 1, 1 + z}
    BY <2>2, <2>4, <2>5
  <2> QED BY <2>1, <2>6
<1>7. memory' = [memory EXCEPT ![h].msgs = q] /\ sent' = sent \cup {m}
  BY <1>1 DEF m
<1> HIDE DEF q
<1>8. Kept /\ \A g \in Handles : memory'[g] # None => Len(memory'[g].msgs) <= Size
  BY <1>2, <1>3, <1>6, <1>7, QueueChanges
<1>9. Moved(s, "raise", "send", h, task[s].seen, c)
  BY <1>1, <1>2, <1>4, GotoIs
<1>10. Uses(s, "raise", "send", h, c)
  BY <1>2, <1>4 DEF Uses
<1>11. TypeOK'
  <2>1. sent' \subseteq Messages
    BY <1>2, <1>5, <1>7 DEF TypeOK
  <2>2. task' \in [Tasks -> Locals] /\ memory' \in [Handles -> Mailboxes \cup {None}]
    BY <1>8, <1>9 DEF Kept, Moved
  <2>3. /\ root' \in Roots /\ wake' \in Nat /\ spurious' \in 0 .. MaxWakes
        /\ got' \in Seq(Messages)
    <3>1. root' = root /\ wake' = wake /\ got' = got /\ spurious' = spurious
      BY <1>1
    <3> QED BY <1>2, <3>1 DEF TypeOK
  <2> QED BY <1>8, <2>1, <2>2, <2>3 DEF TypeOK
<1>12. RoleInv' /\ MutexInv' /\ ListInv' /\ OwnerInv' /\ UserInv' /\ StartInv'
  <2>1. root' = root /\ "raise" # "init"
    BY <1>1
  <2> HIDE DEF h, c
  <2> QED BY <1>2, <1>8, <1>9, <1>10, <2>1, UserMoves
<1> QED BY <1>11, <1>12 DEF MailInv

LEMMA GetStep ==
  ASSUME MailInv, Get
  PROVE  MailInv'
<1> DEFINE h == task[Receiver].hdl
           msgs == memory[h].msgs
<1>1. /\ task[Receiver].pc = "receive" /\ UNCHANGED <<root, wake, sent, spurious>>
      /\ \/ /\ msgs # <<>> /\ memory' = [memory EXCEPT ![h].msgs = Tail(@)]
            /\ got' = Append(got, Head(msgs)) /\ Goto(Receiver, "lookup")
         \/ msgs = <<>> /\ Return(Receiver, None) /\ UNCHANGED <<memory, got>>
  BY DEF Get, At, Queue
<1>2. TypeOK /\ Receiver \in Tasks /\ Receiver \in Users /\ root.ready /\ "lookup" \in PCs
  BY <1>1, Roles, Ready DEF MailInv, Resting, PCs
<1>3. h \in Handles /\ memory[h] # None
  BY <1>1, <1>2, LocalsAre DEF MailInv, UserInv
<1>4. task[Receiver].op = "receive" /\ Started
  BY <1>1 DEF MailInv, RoleInv, UserInv
<1>5. CASE msgs = <<>> /\ Return(Receiver, None) /\ UNCHANGED <<memory, got>>
  <2>1. root \in Roots /\ wake' \in Nat /\ UNCHANGED history
    BY <1>1, <1>2, <1>5 DEF TypeOK, history
  <2> QED BY <1>1, <1>2, <1>5, <2>1, UserReturns, SameIsKept, TypeKept DEF MailInv
<1>6. CASE /\ msgs # <<>> /\ memory' = [memory EXCEPT ![h].msgs = Tail(@)]
           /\ got' = Append(got, Head(msgs)) /\ Goto(Receiver, "lookup")
  <2> DEFINE q == Tail(msgs)
  <2>1. memory \in [Handles -> Mailboxes \cup {None}] /\ msgs \in Seq(Messages)
        /\ Len(msgs) <= Size /\ Size \in Nat
    BY <1>2, <1>3, MailboxAssumption DEF TypeOK, Mailboxes
  <2>2. memory' = [memory EXCEPT ![h].msgs = q]
    BY <1>3, <1>6, <2>1
  <2>3. q \in Seq(Messages) /\ Head(msgs) \in Messages /\ Len(q) = Len(msgs) - 1 /\ Len(msgs) \in Nat
    BY <1>6, <2>1, HeadTailProperties, LenProperties
  <2>4. Len(q) <= Size
    BY <2>1, <2>3
  <2> HIDE DEF q
  <2>5. Kept /\ \A g \in Handles : memory'[g] # None => Len(memory'[g].msgs) <= Size
    BY <1>2, <1>3, <2>2, <2>3, <2>4, QueueChanges
  <2>6. Moved(Receiver, "lookup", "receive", h, task[Receiver].seen, task[Receiver].calls)
    BY <1>2, <1>4, <1>6, GotoIs
  <2>7. Uses(Receiver, "lookup", "receive", h, task[Receiver].calls)
    BY <1>4, Roles DEF Uses
  <2>8. got' \in Seq(Messages)
    BY <1>2, <1>6, <2>3, AppendProperties DEF TypeOK
  <2>9. TypeOK'
    BY <1>1, <1>2, <2>5, <2>6, <2>8 DEF TypeOK, Kept, Moved
  <2>10. RoleInv' /\ MutexInv' /\ ListInv' /\ OwnerInv' /\ UserInv' /\ StartInv'
    BY <1>1, <1>2, <2>5, <2>6, <2>7, UserMoves
  <2> QED BY <2>9, <2>10 DEF MailInv
<1> QED BY <1>1, <1>5, <1>6

LEMMA InterruptStep ==
  ASSUME MailInv, Interrupt
  PROVE  MailInv'
<1>1. /\ spurious < MaxWakes /\ spurious' = spurious + 1 /\ wake' = wake + 1
      /\ UNCHANGED <<root, memory, task, sent, got>>
  BY DEF Interrupt
<1>2. TypeOK'
  <2>1. MaxWakes \in Nat
    BY MailboxAssumption
  <2>2. wake' \in Nat /\ spurious' \in 0 .. MaxWakes
    BY <1>1, <2>1 DEF MailInv, TypeOK
  <2> QED BY <1>1, <2>2 DEF MailInv, TypeOK
<1>3. RoleInv' /\ StartInv' /\ MutexInv' /\ ListInv' /\ OwnerInv'
  BY <1>1 DEF MailInv, RoleInv, StartInv, MutexInv, ListInv, OwnerInv
<1>4. UserInv'
  BY <1>1 DEF MailInv, UserInv, Deleting, Started
<1> QED BY <1>2, <1>3, <1>4 DEF MailInv
-----------------------------------------------------------------------------
(***************************************************************************)
(* The steps of the owners.                                                *)
(***************************************************************************)
\* Nobody uses a mailbox that is deleted; its owner's id tells which it is.
LEMMA Unused ==
  ASSUME MailInv, NEW o \in Owners, task[o].op # None, IdOf[o] = Box
  PROVE  /\ task[Receiver].pc = "sleep"
         /\ task[o].op = "del" => \A u \in Users : task[u].pc \in Resting
<1>1. ~Started
  <2> SUFFICES ASSUME NEW p \in Owners, IdOf[p] = Box, task[p].op = None PROVE FALSE
    BY DEF Started
  <2>1. p = o
    BY OneOwner
  <2> QED BY <2>1
<1>2. task[Receiver].pc = "sleep"
  BY <1>1 DEF MailInv, UserInv
<1>3. ASSUME task[o].op = "del" PROVE \A s \in Senders : task[s].pc = "idle"
  BY <1>3 DEF MailInv, UserInv, Deleting
<1> QED BY <1>2, <1>3 DEF Users, Resting

\* What the users rely on when an owner has moved.
LEMMA OwnerMoves ==
  ASSUME MailInv, NEW o \in Owners, NEW pc, NEW op, NEW hdl, NEW seen, NEW calls,
         Moved(o, pc, op, hdl, seen, calls),
         op = "del" /\ IdOf[o] = Box => task[o].op = "del" \/ Stopped,
         IdOf[o] = Box /\ task[o].op = None => (hdl # None /\ op = None) \/ task[o].hdl = None \/ Stopped,
         \A u \in Users : task[u].pc \in {"send", "receive"} =>
           memory'[task[u].hdl] = memory[task[u].hdl]
  PROVE  UserInv'
<1>1. \A t \in Tasks : t # o => task'[t] = task[t]
  BY DEF Moved
<1>2. task'[o].pc = pc /\ task'[o].op = op /\ task'[o].hdl = hdl
  BY DEF Moved
<1>3. \A u \in Users : task'[u] = task[u]
  BY <1>1, Roles
<1>4. \A p \in Owners : p # o => task'[p] = task[p]
  BY <1>1, Roles
<1>5. ASSUME NEW s \in Senders, task[s].pc # "idle" PROVE ~Deleting'
  <2> SUFFICES ASSUME NEW p \in Owners, IdOf[p] = Box, task'[p].op = "del" PROVE FALSE
    BY DEF Deleting
  <2>1. task[p].op # "del"
    BY <1>5 DEF MailInv, UserInv, Deleting
  <2>2. p = o
    BY <1>4, <2>1
  <2>3. Stopped
    BY <1>2, <2>1, <2>2
  <2>4. task[s].pc # "sleep"
    BY DEF MailInv, RoleInv
  <2> QED BY <1>5, <2>3, <2>4, Roles DEF Stopped
<1>6. ASSUME task[Receiver].pc # "sleep" PROVE Started'
  <2>1. PICK p \in Owners : IdOf[p] = Box /\ task[p].hdl # None /\ task[p].op = None
    BY <1>6 DEF MailInv, UserInv, Started
  <2>2. CASE p = o
    <3>1. ~Stopped
      <4>1. task[Receiver].pc # "idle"
        BY DEF MailInv, RoleInv
      <4> QED BY <1>6, <4>1, Roles DEF Stopped
    <3> QED BY <1>2, <2>1, <2>2, <3>1 DEF Started
  <2>3. CASE p # o
    BY <1>4, <2>1, <2>3 DEF Started
  <2> QED BY <2>2, <2>3
<1> QED BY <1>3, <1>5, <1>6, Roles DEF MailInv, UserInv

LEMMA OwnerRole ==
  ASSUME MailInv, NEW o \in Owners, NEW pc, NEW op, NEW hdl, NEW seen, NEW calls,
         Moved(o, pc, op, hdl, seen, calls),
         \/ pc = "idle" /\ op = None
         \/ pc \in {"init", "lookup", "alloc", "insert", "link"} /\ op = "create"
         \/ pc \in {"unlink", "cut", "free"} /\ op = "del"
  PROVE  RoleInv'
<1>1. /\ \A u \in Users : task'[u] = task[u]
      /\ \A p \in Owners : p # o => task'[p] = task[p]
  BY Roles DEF Moved
<1>2. task'[o].pc = pc /\ task'[o].op = op
  BY DEF Moved
<1>3. /\ \A s \in Senders : task'[s] = task[s]
      /\ task'[Receiver] = task[Receiver]
  BY <1>1, Roles
<1> QED BY <1>1, <1>2, <1>3 DEF MailInv, RoleInv

\* Two owners have not the same memory.
LEMMA Apart ==
  ASSUME MailInv, NEW o \in Owners, NEW p \in Owners, p # o, task[o].hdl # None
  PROVE  task[p].hdl # task[o].hdl
<1> SUFFICES ASSUME task[p].hdl = task[o].hdl PROVE FALSE
  OBVIOUS
<1>1. IdOf[p] = IdOf[o]
  BY DEF MailInv, OwnerInv
<1> QED BY <1>1, OneOwner

\* An owner moves, and neither the list nor the memory changes.
LEMMA OwnerQuiet ==
  ASSUME MailInv, NEW o \in Owners, NEW pc, NEW op, NEW seen, NEW calls,
         Moved(o, pc, op, task[o].hdl, seen, calls),
         memory' = memory, root'.list = root.list,
         pc \in {"init", "lookup", "alloc"} => task[o].hdl = None,
         pc \notin {"idle", "init", "lookup", "alloc"} => task[o].hdl # None,
         pc \in {"idle", "unlink", "cut"} /\ task[o].hdl # None =>
           \E i \in DOMAIN root.list : root.list[i] = task[o].hdl,
         pc \in {"insert", "link", "free"} =>
           \A i \in DOMAIN root.list : root.list[i] # task[o].hdl
  PROVE  ListInv' /\ OwnerInv'
<1>1. \A p \in Owners : p # o => task'[p] = task[p]
  BY Roles DEF Moved
<1>2. task'[o].pc = pc /\ task'[o].hdl = task[o].hdl
  BY DEF Moved
<1>3. \A p \in Owners : task'[p].hdl = task[p].hdl
  BY <1>1, <1>2
<1>4. ListInv'
  BY <1>3 DEF MailInv, ListInv
<1>5. OwnerInv'
  <2>1. \A h \in Handles : memory[h] # None => \E p \in Owners : task[p].hdl = h
    BY DEF MailInv, OwnerInv
  <2>2. ASSUME NEW p \in Owners, p # o
        PROVE  /\ task'[p].pc \in {"init", "lookup", "alloc"} => task'[p].hdl = None
               /\ task'[p].pc \notin {"idle", "init", "lookup", "alloc"} => task'[p].hdl # None
               /\ task'[p].hdl # None =>
                    memory[task'[p].hdl] # None /\ memory[task'[p].hdl].id = IdOf[p]
               /\ task'[p].pc \in {"idle", "unlink", "cut"} /\ task'[p].hdl # None =>
                    \E i \in DOMAIN root.list : root.list[i] = task'[p].hdl
               /\ task'[p].pc \in {"insert", "link", "free"} =>
                    \A i \in DOMAIN root.list : root.list[i] # task'[p].hdl
    BY <1>1, <2>2 DEF MailInv, OwnerInv
  <2>3. task[o].hdl # None => memory[task[o].hdl] # None /\ memory[task[o].hdl].id = IdOf[o]
    BY DEF MailInv, OwnerInv
  <2> QED BY <1>2, <1>3, <2>1, <2>2, <2>3 DEF OwnerInv
<1> QED BY <1>4, <1>5

LEMMA OwnerIs ==
  ASSUME MailInv, NEW o \in Owners
  PROVE  /\ TypeOK /\ o \in Tasks /\ o # Receiver /\ o \notin Users
         /\ task[o].hdl \in Handles \cup {None} /\ task[o].calls \in Nat
         /\ task[o].op # None <=> task[o].pc # "idle"
         /\ task[o].pc \in {"init", "lookup", "alloc", "insert", "link"} => task[o].op = "create"
         /\ task[o].pc \in {"unlink", "cut", "free"} => task[o].op = "del"
         /\ task[o].pc \notin {"idle", "init"} => root.ready
<1>1. TypeOK /\ o \in Tasks /\ o # Receiver /\ o \notin Users
  BY Roles DEF MailInv
<1>2. task[o].pc # "sleep"
  BY DEF MailInv, RoleInv
<1>3. task[o].pc \notin {"idle", "init"} => root.ready
  BY <1>1, <1>2, Ready DEF Resting
<1> QED BY <1>1, <1>3, LocalsAre, NoneIs DEF MailInv, RoleInv

LEMMA CreateStep ==
  ASSUME MailInv, NEW o \in Owners, Create(o)
  PROVE  MailInv'
<1> DEFINE c == task[o].calls + 1
           pc == IF root.ready THEN "lookup" ELSE "init"
<1>1. /\ task[o].pc = "idle" /\ task[o].hdl = None
      /\ Call(o, "create", c) /\ UNCHANGED <<root, memory, wake, history>>
  BY DEF Create, At
<1>2. TypeOK /\ o \in Tasks /\ o # Receiver /\ c \in Nat /\ "create" \in Ops /\ task[o].op = None
  BY <1>1, OwnerIs DEF Ops
<1> HIDE DEF c
<1>3. Moved(o, pc, "create", task[o].hdl, task[o].seen, c) /\ (root.ready \/ Alone(o))
  BY <1>1, <1>2, CallIs
<1>4. pc \in {"init", "lookup"}
  OBVIOUS
<1>5. TypeOK'
  <2>1. task' \in [Tasks -> Locals] /\ root \in Roots /\ wake \in Nat
    BY <1>2, <1>3 DEF Moved, TypeOK
  <2> QED BY <1>1, <1>2, <2>1, TypeKept
<1>6. RoleInv'
  <2> HIDE DEF pc
  <2> QED BY <1>3, <1>4, OwnerRole
<1>7. ListInv' /\ OwnerInv'
  <2> HIDE DEF pc
  <2> QED BY <1>1, <1>3, <1>4, OwnerQuiet
<1>8. UserInv'
  <2> HIDE DEF pc
  <2> QED BY <1>1, <1>3, OwnerMoves
<1>9. MutexInv'
  <2>1. \A t \in Tasks : t # o => task'[t] = task[t]
    BY <1>3 DEF Moved
  <2>2. task'[o].pc \notin {"link", "cut"}
    BY <1>3, <1>4 DEF Moved
  <2> QED BY <1>1, <2>1, <2>2 DEF MailInv, MutexInv
<1>10. StartInv'
  <2>1. CASE root.ready
    BY <1>1, <1>2, <1>3, <2>1, AfterStart
  <2>2. CASE ~root.ready
    BY <1>1, <1>2, <1>3, <2>2, FirstCall
  <2> QED BY <2>1, <2>2
<1> QED BY <1>5, <1>6, <1>7, <1>8, <1>9, <1>10 DEF MailInv

\* The mutex, when nobody else holds it.
LEMMA OwnerMutex ==
  ASSUME MailInv, NEW o \in Owners, NEW pc, NEW op, NEW hdl, NEW seen, NEW calls,
         Moved(o, pc, op, hdl, seen, calls),
         \/ root' = root /\ pc \notin {"link", "cut"}
         \/ root.lock = None /\ root'.lock = o /\ seen = root'.list
         \/ task[o].pc \in {"link", "cut"} /\ pc \notin {"link", "cut"}
  PROVE  MutexInv'
<1>1. \A t \in Tasks : t # o => task'[t] = task[t]
  BY DEF Moved
<1>2. task'[o].pc = pc /\ task'[o].seen = seen /\ o \in Tasks
  BY Roles DEF Moved
<1> SUFFICES ASSUME NEW t \in Tasks, task'[t].pc \in {"link", "cut"}
             PROVE  root'.lock = t /\ task'[t].seen = root'.list
  BY DEF MutexInv
<1>3. CASE t = o
  BY <1>2, <1>3 DEF MailInv, MutexInv
<1>4. CASE t # o
  <2>1. task'[t] = task[t] /\ task[t].pc \in {"link", "cut"}
    BY <1>1, <1>4
  <2>2. root.lock = t /\ task[t].seen = root.list
    BY <2>1 DEF MailInv, MutexInv
  <2>3. root.lock # None
    BY <2>2, NoneIs
  <2>4. task[o].pc \notin {"link", "cut"}
    BY <1>2, <1>4, <2>2 DEF MailInv, MutexInv
  <2>5. root' = root
    BY <2>3, <2>4
  <2> QED BY <2>1, <2>2, <2>5
<1> QED BY <1>3, <1>4

LEMMA OwnerLookup ==
  ASSUME MailInv, NEW o \in Owners, Lookup(o)
  PROVE  MailInv'
<1>1. task[o].pc = "lookup" /\ UNCHANGED <<root, memory, wake, history>>
  BY DEF Lookup, At
<1>2. TypeOK /\ o \in Tasks /\ o # Receiver /\ task[o].op = "create" /\ root.ready /\ task[o].hdl = None
  BY <1>1, OwnerIs DEF MailInv, OwnerInv
<1>3. Return(o, None) \/ Goto(o, "alloc")
  BY <1>2 DEF Lookup
<1>4. \E pc, op, seen, calls :
        /\ Moved(o, pc, op, task[o].hdl, seen, calls)
        /\ (pc = "idle" /\ op = None) \/ (pc = "alloc" /\ op = "create")
  <2>1. CASE Return(o, None)
    <3>1. Moved(o, "idle", None, None, <<>>, task[o].calls)
      BY <1>2, <2>1, ReturnIs
    <3> QED BY <1>2, <3>1
  <2>2. CASE Goto(o, "alloc")
    BY <1>2, <2>2, GotoIs DEF PCs
  <2> QED BY <1>3, <2>1, <2>2
<1>5. PICK pc, op, seen, calls :
        /\ Moved(o, pc, op, task[o].hdl, seen, calls)
        /\ (pc = "idle" /\ op = None) \/ (pc = "alloc" /\ op = "create")
  BY <1>4
<1>6. TypeOK'
  <2>1. task' \in [Tasks -> Locals] /\ root \in Roots /\ wake \in Nat
    BY <1>2, <1>5 DEF Moved, TypeOK
  <2> QED BY <1>1, <1>2, <2>1, TypeKept
<1>7. RoleInv'
  BY <1>5, OwnerRole
<1>8. ListInv' /\ OwnerInv'
  BY <1>1, <1>2, <1>5, OwnerQuiet
<1>9. UserInv'
  BY <1>1, <1>2, <1>5, OwnerMoves, NoneIs
<1>10. MutexInv'
  BY <1>1, <1>5, OwnerMutex
<1>11. StartInv'
  BY <1>1, <1>2, <1>5, AfterStart
<1> QED BY <1>6, <1>7, <1>8, <1>9, <1>10, <1>11 DEF MailInv

LEMMA InitStep ==
  ASSUME MailInv, NEW t \in Tasks, InitRoot(t)
  PROVE  MailInv'
<1>1. /\ task[t].pc = "init" /\ root' = [ready |-> TRUE, list |-> <<>>, lock |-> None]
      /\ Goto(t, "lookup") /\ UNCHANGED <<memory, wake, history>>
  BY DEF InitRoot, At
<1>2. TypeOK /\ ~root.ready /\ root.list = <<>> /\ root.lock = None /\ "lookup" \in PCs
      /\ \A u \in Tasks : task[u].hdl = None /\ (u # t => task[u].pc \in Resting)
  BY <1>1 DEF MailInv, StartInv, PCs
<1>3. Moved(t, "lookup", task[t].op, task[t].hdl, task[t].seen, task[t].calls)
  BY <1>1, <1>2, GotoIs
<1>4. /\ task'[t].pc = "lookup" /\ task'[t].op = task[t].op /\ task'[t].hdl = None
      /\ task'[t].calls = task[t].calls
      /\ \A u \in Tasks : u # t => task'[u] = task[u]
  BY <1>2, <1>3 DEF Moved
<1>5. /\ \A u \in Tasks : /\ task'[u].hdl = None /\ task'[u].op = task[u].op
                           /\ task'[u].calls = task[u].calls
      /\ \A u \in Tasks : u # t => task'[u].pc = task[u].pc /\ task[u].pc \in Resting
      /\ task'[t].pc = "lookup"
  BY <1>2, <1>4
<1>6. TypeOK'
  <2>1. task' \in [Tasks -> Locals] /\ root' \in Roots /\ wake' \in Nat
    BY <1>1, <1>2, <1>3 DEF Moved, TypeOK, Roots
  <2> QED BY <1>1, <1>2, <2>1, TypeKept
<1>7. RoleInv'
  BY <1>1, <1>4, <1>5, Roles DEF MailInv, RoleInv
<1>8. StartInv' /\ MutexInv'
  BY <1>1, <1>5 DEF StartInv, MutexInv, Resting
<1>9. root'.list = root.list
  BY <1>1, <1>2
<1>10. ListInv'
  BY <1>2, <1>5, <1>9, Roles DEF MailInv, ListInv
<1>11. OwnerInv'
  <2>1. \A o \in Owners : task'[o].pc \in {"idle", "lookup"} /\ task'[o].hdl = None
    BY <1>5, Roles DEF MailInv, RoleInv, Resting
  <2>2. \A h \in Handles : memory[h] = None
    BY <1>2, Roles, NoneIs DEF MailInv, OwnerInv
  <2> QED BY <1>1, <2>1, <2>2 DEF OwnerInv
<1>12. UserInv'
  <2>1. ~Deleting'
    <3>1. \A o \in Owners : task[o].op # "del"
      BY <1>1, <1>2, Roles, OwnerIs, NoneIs DEF Resting, MailInv, RoleInv
    <3> QED BY <1>5, <3>1, Roles DEF Deleting
  <2>2. task'[Receiver].pc = "sleep"
    <3>1. task[Receiver].pc = "sleep"
      BY <1>2, Roles DEF MailInv, UserInv, Started
    <3> QED BY <1>1, <1>5, <3>1, Roles
  <2>3. \A u \in Users : task'[u].pc \notin {"send", "receive"}
    BY <1>5, Roles DEF Resting
  <2> QED BY <2>1, <2>2, <2>3 DEF UserInv
<1> QED BY <1>6, <1>7, <1>8, <1>10, <1>11, <1>12 DEF MailInv

LEMMA DownStep ==
  ASSUME MailInv, NEW o \in Owners, Insert(o) \/ Unlink(o)
  PROVE  MailInv'
<1>1. PICK pc \in PCs, next \in {"link", "cut"} :
        Down(o, pc, next) /\ ((pc = "insert" /\ next = "link") \/ (pc = "unlink" /\ next = "cut"))
  BY DEF Insert, Unlink, PCs
<1>2. TypeOK /\ o \in Tasks /\ next \in PCs /\ UNCHANGED <<memory, wake, history>>
  BY <1>1, OwnerIs DEF PCs, Insert, Unlink
<1>3. /\ Moved(o, next, task[o].op, task[o].hdl, root.list, task[o].calls)
      /\ root' \in Roots /\ root'.ready = root.ready /\ root'.list = root.list /\ root'.lock = o
      /\ task[o].pc = pc /\ root.lock = None
  BY <1>1, <1>2, DownIs
<1>4. /\ root.ready /\ task[o].op # None
      /\ next = "link" => task[o].op = "create"
      /\ next = "cut" => task[o].op = "del"
  BY <1>1, <1>3, OwnerIs
<1>5. TypeOK'
  BY <1>2, <1>3, TypeKept DEF Moved, TypeOK
<1>6. RoleInv'
  BY <1>3, <1>4, OwnerRole
<1>7. ListInv' /\ OwnerInv'
  <2>1. /\ task[o].hdl # None
        /\ next = "cut" => \E i \in DOMAIN root.list : root.list[i] = task[o].hdl
        /\ next = "link" => \A i \in DOMAIN root.list : root.list[i] # task[o].hdl
    BY <1>1, <1>3 DEF MailInv, OwnerInv
  <2>2. next \in {"link", "cut"} /\ memory' = memory
    BY <1>2
  <2> QED BY <1>3, <2>1, <2>2, OwnerQuiet
<1>8. UserInv'
  BY <1>2, <1>3, <1>4, OwnerMoves
<1>9. MutexInv'
  BY <1>3, OwnerMutex
<1>10. StartInv'
  BY <1>2, <1>3, <1>4, AfterStart
<1> QED BY <1>5, <1>6, <1>7, <1>8, <1>9, <1>10 DEF MailInv

LEMMA DelStep ==
  ASSUME MailInv, NEW o \in Owners, Del(o)
  PROVE  MailInv'
<1>1. /\ task[o].pc = "idle" /\ task[o].hdl # None /\ (IdOf[o] = Box => Stopped)
      /\ task' = [task EXCEPT ![o].pc = "unlink", ![o].op = "del"]
      /\ UNCHANGED <<root, memory, wake, history>>
  BY DEF Del, At
<1>2. TypeOK /\ o \in Tasks /\ root.ready /\ task[o].hdl \in Handles \cup {None}
  BY <1>1, OwnerIs, Ready
<1>3. Moved(o, "unlink", "del", task[o].hdl, task[o].seen, task[o].calls)
  <2>1. "unlink" \in PCs /\ "del" \in Ops
    BY DEF PCs, Ops
  <2> QED BY <1>1, <1>2, <2>1, MarkedIs
<1>4. TypeOK'
  BY <1>1, <1>2, <1>3, TypeKept DEF Moved, TypeOK
<1>5. RoleInv'
  BY <1>3, OwnerRole
<1>6. ListInv' /\ OwnerInv'
  <2>1. \E i \in DOMAIN root.list : root.list[i] = task[o].hdl
    BY <1>1 DEF MailInv, OwnerInv
  <2>2. memory' = memory /\ root'.list = root.list
    BY <1>1
  <2> DEFINE pc == "unlink"
  <2>3. pc \in {"idle", "unlink", "cut"}
        /\ pc \notin {"init", "lookup", "alloc"} /\ pc \notin {"insert", "link", "free"}
    OBVIOUS
  <2>4. Moved(o, pc, "del", task[o].hdl, task[o].seen, task[o].calls) /\ task[o].hdl # None
    BY <1>1, <1>3
  <2> HIDE DEF pc
  <2> QED BY <2>1, <2>2, <2>3, <2>4, OwnerQuiet
<1>7. UserInv'
  BY <1>1, <1>3, OwnerMoves
<1>8. MutexInv'
  BY <1>1, <1>3, OwnerMutex
<1>9. StartInv'
  BY <1>1, <1>2, <1>3, AfterStart
<1> QED BY <1>4, <1>5, <1>6, <1>7, <1>8, <1>9 DEF MailInv

\* RtlListDelete takes out the one entry.
LEMMA WithoutIs ==
  ASSUME NEW S, NEW list \in Seq(S), IsInjective(list), NEW k \in DOMAIN list
  PROVE  LET rest == Without(list, list[k])
         IN  /\ rest \in Seq(S) /\ IsInjective(rest)
             /\ \A j \in DOMAIN rest : \E i \in DOMAIN list : i # k /\ rest[j] = list[i]
             /\ \A i \in DOMAIN list : i # k => \E j \in DOMAIN rest : rest[j] = list[i]
<1> DEFINE n == Len(list)
           front == SubSeq(list, 1, k - 1)
           back == SubSeq(list, k + 1, n)
           rest == Without(list, list[k])
<1>1. n \in Nat /\ DOMAIN list = 1 .. n /\ k \in 1 .. n /\ \A i \in 1 .. n : list[i] \in S
  BY LenProperties, ElementOfSeq
<1>2. (CHOOSE i \in DOMAIN list : list[i] = list[k]) = k
  BY DEF IsInjective
<1>3. rest = front \o back
  BY <1>2 DEF Without, RemoveAt
<1>4. /\ front \in Seq(S) /\ Len(front) = k - 1
      /\ \A i \in 1 .. (k - 1) : front[i] = list[i]
  <2>1. k - 1 \in Int /\ 1 \in Int /\ \A i \in 1 .. (k - 1) : list[i] \in S
    BY <1>1
  <2>2. /\ front \in Seq(S) /\ Len(front) = (IF 1 <= k - 1 THEN (k - 1) - 1 + 1 ELSE 0)
        /\ \A i \in 1 .. ((k - 1) - 1 + 1) : front[i] = list[1 + i - 1]
    BY <2>1, SubSeqProperties
  <2> HIDE DEF front
  <2>3. Len(front) = k - 1
    BY <1>1, <2>2
  <2>4. ASSUME NEW i \in 1 .. (k - 1) PROVE front[i] = list[i]
    <3>1. 1 + i - 1 = i /\ i \in 1 .. ((k - 1) - 1 + 1)
      BY <1>1
    <3> QED BY <2>2, <3>1
  <2> QED BY <2>2, <2>3, <2>4
<1>5. /\ back \in Seq(S) /\ Len(back) = n - k
      /\ \A i \in 1 .. (n - k) : back[i] = list[k + i]
  <2>1. k + 1 \in Int /\ n \in Int /\ \A i \in (k + 1) .. n : list[i] \in S
    BY <1>1
  <2> HIDE DEF n
  <2>2. /\ back \in Seq(S) /\ Len(back) = (IF k + 1 <= n THEN n - (k + 1) + 1 ELSE 0)
        /\ \A i \in 1 .. (n - (k + 1) + 1) : back[i] = list[(k + 1) + i - 1]
    BY <2>1, SubSeqProperties
  <2> HIDE DEF back
  <2>3. Len(back) = n - k
    BY <1>1, <2>2
  <2>4. ASSUME NEW i \in 1 .. (n - k) PROVE back[i] = list[k + i]
    <3>1. (k + 1) + i - 1 = k + i /\ i \in 1 .. (n - (k + 1) + 1)
      BY <1>1
    <3> QED BY <2>2, <3>1
  <2> QED BY <2>2, <2>3, <2>4
<1> HIDE DEF n, front, back
<1>6. /\ rest \in Seq(S) /\ Len(rest) = (k - 1) + (n - k)
      /\ \A i \in 1 .. ((k - 1) + (n - k)) : rest[i] = IF i <= k - 1 THEN front[i] ELSE back[i - (k - 1)]
  <2>1. /\ front \o back \in Seq(S) /\ Len(front \o back) = Len(front) + Len(back)
        /\ \A i \in 1 .. (Len(front) + Len(back)) :
             (front \o back)[i] = IF i <= Len(front) THEN front[i] ELSE back[i - Len(front)]
    BY <1>4, <1>5, ConcatProperties
  <2>2. Len(front) = k - 1 /\ Len(back) = n - k
    BY <1>4, <1>5
  <2> HIDE DEF rest
  <2> QED BY <1>3, <2>1, <2>2
<1> HIDE DEF rest
<1>7. DOMAIN rest = 1 .. (n - 1)
  <2>1. DOMAIN rest = 1 .. Len(rest)
    BY <1>6, LenProperties
  <2>2. Len(rest) = n - 1
    BY <1>1, <1>6
  <2> QED BY <2>1, <2>2
<1>8. \A j \in 1 .. (n - 1) : /\ j <= k - 1 => rest[j] = list[j]
                              /\ ~(j <= k - 1) => rest[j] = list[j + 1]
  <2> SUFFICES ASSUME NEW j \in 1 .. (n - 1)
               PROVE  /\ j <= k - 1 => rest[j] = list[j]
                      /\ ~(j <= k - 1) => rest[j] = list[j + 1]
    OBVIOUS
  <2>1. j \in 1 .. ((k - 1) + (n - k))
    BY <1>1
  <2>2. ASSUME j <= k - 1 PROVE rest[j] = list[j]
    <3>1. j \in 1 .. (k - 1)
      BY <1>1, <2>2
    <3> QED BY <1>4, <1>6, <2>1, <2>2, <3>1
  <2>3. ASSUME ~(j <= k - 1) PROVE rest[j] = list[j + 1]
    <3>1. j - (k - 1) \in 1 .. (n - k) /\ k + (j - (k - 1)) = j + 1
      BY <1>1, <2>3
    <3>2. rest[j] = back[j - (k - 1)]
      BY <1>6, <2>1, <2>3
    <3> QED BY <1>5, <3>1, <3>2
  <2> QED BY <2>2, <2>3
<1> DEFINE at(j) == IF j <= k - 1 THEN j ELSE j + 1
<1>9. \A j \in 1 .. (n - 1) : at(j) \in 1 .. n /\ at(j) # k /\ rest[j] = list[at(j)]
  BY <1>1, <1>8
<1>10. \A i, j \in 1 .. (n - 1) : at(i) = at(j) => i = j
  BY <1>1
<1>11. IsInjective(rest)
  <2> HIDE DEF at
  <2>1. \A i, j \in 1 .. n : list[i] = list[j] => i = j
    BY <1>1 DEF IsInjective
  <2> QED BY <1>7, <1>9, <1>10, <2>1 DEF IsInjective
<1>12. ASSUME NEW i \in DOMAIN list, i # k PROVE \E j \in DOMAIN rest : rest[j] = list[i]
  <2>1. CASE i <= k - 1
    BY <1>1, <1>7, <1>8, <2>1
  <2>2. CASE ~(i <= k - 1)
    <3> DEFINE j == i - 1
    <3>1. j \in 1 .. (n - 1) /\ ~(j <= k - 1) /\ j + 1 = i
      BY <1>1, <1>12, <2>2
    <3> HIDE DEF j
    <3> QED BY <1>7, <1>8, <3>1
  <2> QED BY <2>1, <2>2
<1>13. \A j \in DOMAIN rest : \E i \in DOMAIN list : i # k /\ rest[j] = list[i]
  <2> HIDE DEF at
  <2> QED BY <1>1, <1>7, <1>9
<1> QED BY <1>6, <1>11, <1>12, <1>13 DEF rest

\* An owner has put its mailbox on the list, or taken it off.
LEMMA OwnerRelists ==
  ASSUME MailInv, NEW o \in Owners, NEW pc, NEW op, NEW seen, NEW calls,
         Moved(o, pc, op, task[o].hdl, seen, calls),
         memory' = memory, task[o].hdl # None, IsInjective(root'.list),
         \A j \in DOMAIN root'.list :
           \/ root'.list[j] = task[o].hdl
           \/ \E i \in DOMAIN root.list : root'.list[j] = root.list[i],
         \A i \in DOMAIN root.list : root.list[i] # task[o].hdl =>
           \E j \in DOMAIN root'.list : root'.list[j] = root.list[i],
         \/ pc = "idle" /\ \E j \in DOMAIN root'.list : root'.list[j] = task[o].hdl
         \/ pc = "free" /\ \A j \in DOMAIN root'.list : root'.list[j] # task[o].hdl
  PROVE  ListInv' /\ OwnerInv'
<1>1. \A p \in Owners : p # o => task'[p] = task[p]
  BY Roles DEF Moved
<1>2. task'[o].pc = pc /\ task'[o].hdl = task[o].hdl
  BY DEF Moved
<1>3. \A p \in Owners : task'[p].hdl = task[p].hdl
  BY <1>1, <1>2
<1>4. ListInv'
  <2>1. ASSUME NEW j \in DOMAIN root'.list PROVE \E p \in Owners : task[p].hdl = root'.list[j]
    <3>1. CASE root'.list[j] = task[o].hdl
      BY <3>1
    <3>2. CASE \E i \in DOMAIN root.list : root'.list[j] = root.list[i]
      BY <3>2 DEF MailInv, ListInv
    <3> QED BY <3>1, <3>2
  <2> QED BY <1>3, <2>1 DEF ListInv
<1>5. OwnerInv'
  <2>1. \A h \in Handles : memory[h] # None => \E p \in Owners : task[p].hdl = h
    BY DEF MailInv, OwnerInv
  <2>2. \A p \in Owners : task[p].hdl # None =>
          memory[task[p].hdl] # None /\ memory[task[p].hdl].id = IdOf[p]
    BY DEF MailInv, OwnerInv
  <2>3. ASSUME NEW p \in Owners, p # o
        PROVE  /\ task[p].pc \in {"init", "lookup", "alloc"} => task[p].hdl = None
               /\ task[p].pc \notin {"idle", "init", "lookup", "alloc"} => task[p].hdl # None
    BY <2>3 DEF MailInv, OwnerInv
  <2>4. ASSUME NEW p \in Owners, p # o, task[p].pc \in {"idle", "unlink", "cut"}, task[p].hdl # None
        PROVE  \E j \in DOMAIN root'.list : root'.list[j] = task[p].hdl
    <3>1. PICK i \in DOMAIN root.list : root.list[i] = task[p].hdl
      BY <2>4 DEF MailInv, OwnerInv
    <3>2. root.list[i] # task[o].hdl
      BY <2>4, <3>1, Apart
    <3> QED BY <3>1, <3>2
  <2>5. ASSUME NEW p \in Owners, p # o, task[p].pc \in {"insert", "link", "free"},
               NEW j \in DOMAIN root'.list
        PROVE  root'.list[j] # task[p].hdl
    <3>1. task[p].hdl # None /\ \A i \in DOMAIN root.list : root.list[i] # task[p].hdl
      BY <2>5 DEF MailInv, OwnerInv
    <3>2. task[p].hdl # task[o].hdl
      BY <2>5, <3>1, Apart
    <3> QED BY <3>1, <3>2
  <2> QED BY <1>1, <1>2, <1>3, <2>1, <2>2, <2>3, <2>4, <2>5 DEF OwnerInv
<1> QED BY <1>4, <1>5

LEMMA LinkStep ==
  ASSUME MailInv, NEW o \in Owners, Link(o)
  PROVE  MailInv'
<1> DEFINE h == task[o].hdl
           old == root.list
           new == Append(old, h)
<1>1. /\ task[o].pc = "link" /\ Return(o, h) /\ UNCHANGED <<memory, wake, history>>
      /\ root' = [root EXCEPT !.list = Append(task[o].seen, h), !.lock = None]
  BY DEF Link, At
<1>2. TypeOK /\ o \in Tasks /\ o # Receiver /\ root.ready /\ task[o].op = "create"
      /\ h \in Handles \cup {None}
  BY <1>1, OwnerIs
<1>3. h # None /\ (\A i \in DOMAIN old : old[i] # h) /\ task[o].seen = old
  BY <1>1, <1>2 DEF MailInv, OwnerInv, MutexInv
<1>4. Moved(o, "idle", None, h, <<>>, task[o].calls)
  BY <1>1, <1>2, ReturnIs
<1>5. /\ new \in Seq(Handles) /\ Len(new) = Len(old) + 1 /\ Len(old) \in Nat
      /\ DOMAIN new = 1 .. (Len(old) + 1) /\ DOMAIN old = 1 .. Len(old)
      /\ (\A i \in 1 .. Len(old) : new[i] = old[i]) /\ new[Len(old) + 1] = h
  <2>1. old \in Seq(Handles) /\ h \in Handles /\ Len(old) \in Nat /\ DOMAIN old = 1 .. Len(old)
    BY <1>2, <1>3, RootIs
  <2>2. new \in Seq(Handles) /\ Len(new) = Len(old) + 1
    BY <2>1, AppendProperties
  <2>3. DOMAIN new = 1 .. Len(new)
    BY <2>2, LenProperties
  <2> QED BY <2>1, <2>2, <2>3, AppendProperties
<1>6. /\ root' \in Roots /\ root'.list = new /\ root'.ready
  BY <1>1, <1>2, <1>3, <1>5 DEF TypeOK, Roots
<1> DEFINE z == Len(old)
<1> HIDE DEF new, z
<1>7. /\ DOMAIN new = 1 .. (z + 1) /\ DOMAIN old = 1 .. z /\ z \in Nat
      /\ (\A i \in 1 .. z : new[i] = old[i]) /\ new[z + 1] = h
  BY <1>5 DEF z
<1>8. IsInjective(new)
  <2>1. \A i, j \in 1 .. z : old[i] = old[j] => i = j
    BY <1>7 DEF MailInv, ListInv, IsInjective
  <2>2. \A i \in 1 .. (z + 1) : i \in 1 .. z \/ i = z + 1
    BY <1>7
  <2>3. \A i \in 1 .. z : new[i] # h
    BY <1>3, <1>7
  <2>4. ASSUME NEW i \in 1 .. (z + 1), NEW j \in 1 .. (z + 1), new[i] = new[j] PROVE i = j
    BY <1>7, <2>1, <2>2, <2>3, <2>4
  <2> QED BY <1>7, <2>4 DEF IsInjective
<1>9. /\ \A j \in DOMAIN new : new[j] = h \/ \E i \in DOMAIN old : new[j] = old[i]
      /\ \A i \in DOMAIN old : \E j \in DOMAIN new : new[j] = old[i]
      /\ \E j \in DOMAIN new : new[j] = h
  <2>1. \A i \in 1 .. (z + 1) : i \in 1 .. z \/ i = z + 1
    BY <1>7
  <2>2. z + 1 \in 1 .. (z + 1) /\ \A i \in 1 .. z : i \in 1 .. (z + 1)
    BY <1>7
  <2> QED BY <1>7, <2>1, <2>2
<1>10. TypeOK'
  BY <1>1, <1>2, <1>4, <1>6, TypeKept DEF Moved, TypeOK
<1>11. RoleInv'
  BY <1>4, OwnerRole
<1>12. ListInv' /\ OwnerInv'
  <2>1. /\ IsInjective(root'.list)
        /\ \A j \in DOMAIN root'.list :
             root'.list[j] = h \/ \E i \in DOMAIN root.list : root'.list[j] = root.list[i]
        /\ \A i \in DOMAIN root.list : \E j \in DOMAIN root'.list : root'.list[j] = root.list[i]
        /\ \E j \in DOMAIN root'.list : root'.list[j] = h
    BY <1>6, <1>8, <1>9
  <2>2. memory' = memory
    BY <1>1
  <2> QED BY <1>3, <1>4, <2>1, <2>2, OwnerRelists
<1>13. UserInv'
  BY <1>1, <1>2, <1>4, OwnerMoves, NoneIs
<1>14. MutexInv'
  BY <1>1, <1>4, OwnerMutex
<1>15. StartInv'
  BY <1>2, <1>4, <1>6, AfterStart
<1> QED BY <1>10, <1>11, <1>12, <1>13, <1>14, <1>15 DEF MailInv

LEMMA CutStep ==
  ASSUME MailInv, NEW o \in Owners, Cut(o)
  PROVE  MailInv'
<1> DEFINE h == task[o].hdl
           old == root.list
           new == Without(old, h)
<1>1. /\ task[o].pc = "cut" /\ Goto(o, "free") /\ UNCHANGED <<memory, wake, history>>
      /\ root' = [root EXCEPT !.list = Without(task[o].seen, h), !.lock = None]
  BY DEF Cut, At
<1>2. TypeOK /\ o \in Tasks /\ o # Receiver /\ root.ready /\ task[o].op = "del"
      /\ h \in Handles \cup {None} /\ "free" \in PCs
  BY <1>1, OwnerIs DEF PCs
<1>3. h # None /\ (\E i \in DOMAIN old : old[i] = h) /\ task[o].seen = old
  BY <1>1, <1>2 DEF MailInv, OwnerInv, MutexInv
<1>4. Moved(o, "free", "del", h, task[o].seen, task[o].calls)
  BY <1>1, <1>2, GotoIs
<1>5. PICK k \in DOMAIN old : old[k] = h
  BY <1>3
<1>6. /\ new \in Seq(Handles) /\ IsInjective(new)
      /\ \A j \in DOMAIN new : \E i \in DOMAIN old : i # k /\ new[j] = old[i]
      /\ \A i \in DOMAIN old : i # k => \E j \in DOMAIN new : new[j] = old[i]
  <2>1. old \in Seq(Handles) /\ IsInjective(old)
    BY <1>2, RootIs DEF MailInv, ListInv
  <2> HIDE DEF old
  <2>2. new = Without(old, old[k])
    BY <1>5
  <2> HIDE DEF new
  <2> QED BY <1>5, <2>1, <2>2, WithoutIs
<1> HIDE DEF new
<1>7. /\ root' \in Roots /\ root'.list = new /\ root'.ready
  BY <1>1, <1>2, <1>3, <1>6 DEF TypeOK, Roots, new
<1>8. \A j \in DOMAIN new : new[j] # h
  BY <1>5, <1>6 DEF MailInv, ListInv, IsInjective
<1>9. TypeOK'
  BY <1>1, <1>2, <1>4, <1>7, TypeKept DEF Moved, TypeOK
<1>10. RoleInv'
  BY <1>4, OwnerRole
<1>11. ListInv' /\ OwnerInv'
  <2>1. \A i \in DOMAIN old : old[i] # h => \E j \in DOMAIN new : new[j] = old[i]
    BY <1>5, <1>6
  <2>2. /\ IsInjective(root'.list)
        /\ \A j \in DOMAIN root'.list :
             root'.list[j] = h \/ \E i \in DOMAIN root.list : root'.list[j] = root.list[i]
        /\ \A i \in DOMAIN root.list : root.list[i] # h =>
             \E j \in DOMAIN root'.list : root'.list[j] = root.list[i]
        /\ \A j \in DOMAIN root'.list : root'.list[j] # h
    BY <1>6, <1>7, <1>8, <2>1
  <2>3. memory' = memory
    BY <1>1
  <2> QED BY <1>3, <1>4, <2>2, <2>3, OwnerRelists
<1>12. UserInv'
  BY <1>1, <1>2, <1>4, OwnerMoves, NoneIs
<1>13. MutexInv'
  BY <1>1, <1>4, OwnerMutex
<1>14. StartInv'
  BY <1>2, <1>4, <1>7, AfterStart
<1> QED BY <1>9, <1>10, <1>11, <1>12, <1>13, <1>14 DEF MailInv

LEMMA AllocStep ==
  ASSUME MailInv, NEW o \in Owners, Alloc(o)
  PROVE  MailInv'
<1>1. /\ task[o].pc = "alloc" /\ UNCHANGED <<root, wake, history>>
      /\ \/ \E h \in Handles :
              /\ memory[h] = None
              /\ memory' = [memory EXCEPT ![h] = [id |-> IdOf[o], msgs |-> <<>>]]
              /\ task' = [task EXCEPT ![o].pc = "insert", ![o].hdl = h]
         \/ Return(o, None) /\ UNCHANGED memory
  BY DEF Alloc, At
<1>2. TypeOK /\ o \in Tasks /\ o # Receiver /\ root.ready /\ task[o].op = "create" /\ task[o].hdl = None
      /\ "insert" \in PCs
  BY <1>1, OwnerIs DEF MailInv, OwnerInv, PCs
<1>3. CASE Return(o, None) /\ UNCHANGED memory
  <2>1. Moved(o, "idle", None, task[o].hdl, <<>>, task[o].calls)
    BY <1>2, <1>3, ReturnIs
  <2>2. TypeOK'
    BY <1>1, <1>2, <1>3, <2>1, TypeKept DEF Moved, TypeOK
  <2>3. RoleInv'
    BY <2>1, OwnerRole
  <2>4. ListInv' /\ OwnerInv'
    <3> DEFINE pc == "idle"
    <3>1. pc \notin {"init", "lookup", "alloc"} /\ pc \in {"idle", "init", "lookup", "alloc"}
          /\ pc \notin {"insert", "link", "free"}
      OBVIOUS
    <3>2. Moved(o, pc, None, task[o].hdl, <<>>, task[o].calls) /\ root'.list = root.list
      BY <1>1, <2>1
    <3> HIDE DEF pc
    <3> QED BY <1>2, <1>3, <3>1, <3>2, OwnerQuiet
  <2>5. UserInv'
    BY <1>2, <1>3, <2>1, OwnerMoves, NoneIs
  <2>6. MutexInv'
    BY <1>1, <2>1, OwnerMutex
  <2>7. StartInv'
    BY <1>1, <1>2, <2>1, AfterStart
  <2> QED BY <2>2, <2>3, <2>4, <2>5, <2>6, <2>7 DEF MailInv
<1>4. ASSUME NEW h \in Handles, memory[h] = None,
             memory' = [memory EXCEPT ![h] = [id |-> IdOf[o], msgs |-> <<>>]],
             task' = [task EXCEPT ![o].pc = "insert", ![o].hdl = h]
      PROVE  MailInv'
  <2>1. Moved(o, "insert", "create", h, task[o].seen, task[o].calls)
    BY <1>2, <1>4, TakenIs
  <2> DEFINE new == [id |-> IdOf[o], msgs |-> <<>>]
  <2>2. new \in Mailboxes /\ new.id = IdOf[o] /\ Len(new.msgs) <= Size
    <3>1. <<>> \in Seq(Messages) /\ Len(<<>>) = 0 /\ Size \in Nat
      BY MailboxAssumption, EmptySeq
    <3>2. IdOf[o] \in Ids
      BY DEF Ids
    <3> QED BY <3>1, <3>2 DEF Mailboxes
  <2>3. new # None /\ h # None
    BY <2>2, NoneIs
  <2>4. memory \in [Handles -> Mailboxes \cup {None}] /\ memory' = [memory EXCEPT ![h] = new]
    BY <1>2, <1>4 DEF TypeOK
  <2> HIDE DEF new
  <2>5. /\ memory' \in [Handles -> Mailboxes \cup {None}] /\ memory'[h] = new
        /\ \A g \in Handles : g # h => memory'[g] = memory[g]
    BY <2>2, <2>4
  <2>6. TypeOK'
    <3>1. \A g \in Handles : memory'[g] # None => Len(memory'[g].msgs) <= Size
      <4> SUFFICES ASSUME NEW g \in Handles, memory'[g] # None PROVE Len(memory'[g].msgs) <= Size
        OBVIOUS
      <4>1. CASE g = h
        BY <2>2, <2>5, <4>1
      <4>2. CASE g # h
        BY <1>2, <2>5, <4>2 DEF TypeOK
      <4> QED BY <4>1, <4>2
    <3> QED BY <1>1, <1>2, <2>1, <2>5, <3>1 DEF TypeOK, Moved, history
  <2>7. RoleInv'
    BY <2>1, OwnerRole
  <2>8. /\ \A p \in Owners : p # o => task'[p] = task[p] /\ task[p].hdl # h
        /\ task'[o].pc = "insert" /\ task'[o].hdl = h /\ root' = root
    <3>1. \A p \in Owners : task[p].hdl # h
      BY <1>4, <2>3 DEF MailInv, OwnerInv
    <3> QED BY <1>1, <2>1, <3>1, Roles DEF Moved
  <2>9. \A i \in DOMAIN root.list : root.list[i] # h
    <3>1. ASSUME NEW i \in DOMAIN root.list PROVE \E p \in Owners : task[p].hdl = root.list[i]
      BY DEF MailInv, ListInv
    <3>2. task[o].hdl # h
      BY <1>2, <2>3
    <3> QED BY <2>8, <3>1, <3>2
  <2>10. ListInv'
    <3>1. ASSUME NEW i \in DOMAIN root.list PROVE \E p \in Owners : task'[p].hdl = root.list[i]
      <4>1. PICK p \in Owners : task[p].hdl = root.list[i]
        BY DEF MailInv, ListInv
      <4>2. p # o
        BY <1>2, <4>1, RootIs, NoneIs
      <4> QED BY <2>8, <4>1, <4>2
    <3> QED BY <2>8, <3>1 DEF MailInv, ListInv
  <2>11. OwnerInv'
    <3>1. ASSUME NEW p \in Owners, p # o
          PROVE  /\ task[p].pc \in {"init", "lookup", "alloc"} => task[p].hdl = None
                 /\ task[p].pc \notin {"idle", "init", "lookup", "alloc"} => task[p].hdl # None
                 /\ task[p].pc \in {"idle", "unlink", "cut"} /\ task[p].hdl # None =>
                      \E i \in DOMAIN root.list : root.list[i] = task[p].hdl
                 /\ task[p].pc \in {"insert", "link", "free"} =>
                      \A i \in DOMAIN root.list : root.list[i] # task[p].hdl
      BY DEF MailInv, OwnerInv
    <3>2. ASSUME NEW p \in Owners, p # o, task[p].hdl # None
          PROVE  memory'[task[p].hdl] # None /\ memory'[task[p].hdl].id = IdOf[p]
      <4>1. task[p].hdl \in Handles
        BY <3>2, OwnerIs
      <4>2. memory'[task[p].hdl] = memory[task[p].hdl]
        BY <2>5, <2>8, <3>2, <4>1
      <4> QED BY <3>2, <4>2 DEF MailInv, OwnerInv
    <3>3. ASSUME NEW g \in Handles, memory'[g] # None PROVE \E p \in Owners : task'[p].hdl = g
      <4>1. CASE g = h
        BY <2>8, <4>1
      <4>2. CASE g # h
        <5>1. PICK p \in Owners : task[p].hdl = g
          BY <2>5, <3>3, <4>2 DEF MailInv, OwnerInv
        <5>2. p # o
          BY <1>2, <5>1, NoneIs
        <5> QED BY <2>8, <5>1, <5>2
      <4> QED BY <4>1, <4>2
    <3> QED BY <2>2, <2>3, <2>5, <2>8, <2>9, <3>1, <3>2, <3>3 DEF OwnerInv
  <2>12. UserInv'
    <3>1. ASSUME NEW u \in Users, task[u].pc \in {"send", "receive"}
          PROVE  memory'[task[u].hdl] = memory[task[u].hdl]
      <4>1. task[u].hdl \in Handles /\ memory[task[u].hdl] # None
        BY <1>2, <3>1, Roles, LocalsAre DEF MailInv, UserInv
      <4> QED BY <1>4, <2>5, <4>1
    <3> QED BY <1>2, <2>1, <3>1, OwnerMoves, NoneIs
  <2>13. MutexInv'
    BY <1>1, <2>1, OwnerMutex
  <2>14. StartInv'
    BY <1>1, <1>2, <2>1, AfterStart
  <2> QED BY <2>6, <2>7, <2>10, <2>11, <2>12, <2>13, <2>14 DEF MailInv
<1> QED BY <1>1, <1>3, <1>4

\* The memory that is freed is nobody else's.
LEMMA FreeIs ==
  ASSUME MailInv, NEW o \in Owners, task[o].pc = "free"
  PROVE  /\ task[o].hdl \in Handles /\ memory[task[o].hdl] # None /\ memory[task[o].hdl].id = IdOf[o]
         /\ \A p \in Owners : p # o => task[p].hdl # task[o].hdl
         /\ \A i \in DOMAIN root.list : root.list[i] # task[o].hdl
         /\ \A u \in Users : task[u].pc \in {"send", "receive"} => task[u].hdl # task[o].hdl
<1>1. task[o].hdl # None /\ task[o].op = "del" /\ task[o].hdl \in Handles
  BY OwnerIs DEF MailInv, OwnerInv
<1>2. memory[task[o].hdl] # None /\ memory[task[o].hdl].id = IdOf[o]
      /\ \A i \in DOMAIN root.list : root.list[i] # task[o].hdl
  BY <1>1 DEF MailInv, OwnerInv
<1>3. \A p \in Owners : p # o => task[p].hdl # task[o].hdl
  BY <1>1, Apart
<1>4. ASSUME NEW u \in Users, task[u].pc \in {"send", "receive"}, task[u].hdl = task[o].hdl PROVE FALSE
  <2>1. IdOf[o] = Box
    BY <1>2, <1>4 DEF MailInv, UserInv
  <2> QED BY <1>1, <1>4, <2>1, Unused, NoneIs DEF Resting
<1> QED BY <1>1, <1>2, <1>3, <1>4

LEMMA FreeStep ==
  ASSUME MailInv, NEW o \in Owners, Free(o)
  PROVE  MailInv'
<1> DEFINE h == task[o].hdl
<1>1. /\ task[o].pc = "free" /\ UNCHANGED <<root, spurious>> /\ Return(o, None)
      /\ memory' = [memory EXCEPT ![h] = None]
      /\ \/ wake' = 0 /\ sent' = {} /\ got' = <<>>
         \/ UNCHANGED <<wake, sent, got>>
  BY DEF Free, At
<1>2. TypeOK /\ o \in Tasks /\ o # Receiver /\ root.ready /\ task[o].op = "del"
  BY <1>1, OwnerIs
<1>3. /\ h \in Handles /\ h # None
      /\ \A p \in Owners : p # o => task[p].hdl # h
      /\ \A i \in DOMAIN root.list : root.list[i] # h
      /\ \A u \in Users : task[u].pc \in {"send", "receive"} => task[u].hdl # h
  BY <1>1, FreeIs, NoneIs
<1>4. Moved(o, "idle", None, None, <<>>, task[o].calls)
  BY <1>1, <1>2, ReturnIs
<1>5. /\ memory' \in [Handles -> Mailboxes \cup {None}] /\ memory'[h] = None
      /\ \A g \in Handles : g # h => memory'[g] = memory[g]
  BY <1>1, <1>2, <1>3 DEF TypeOK
<1>6. /\ \A p \in Owners : p # o => task'[p] = task[p]
      /\ task'[o].pc = "idle" /\ task'[o].hdl = None /\ root' = root
  BY <1>1, <1>4, Roles DEF Moved
<1>7. TypeOK'
  <2>1. wake' \in Nat /\ sent' \subseteq Messages /\ got' \in Seq(Messages)
    <3>1. <<>> \in Seq(Messages)
      OBVIOUS
    <3>2. wake \in Nat /\ sent \subseteq Messages /\ got \in Seq(Messages)
      BY <1>2 DEF TypeOK
    <3>3. CASE wake' = 0 /\ sent' = {} /\ got' = <<>>
      <4>1. sent' \subseteq Messages /\ wake' \in Nat
        BY <3>3
      <4>2. got' \in Seq(Messages)
        BY <3>1, <3>3
      <4> QED BY <4>1, <4>2
    <3>4. CASE UNCHANGED <<wake, sent, got>>
      BY <3>2, <3>4
    <3> QED BY <1>1, <3>3, <3>4
  <2>2. \A g \in Handles : memory'[g] # None => Len(memory'[g].msgs) <= Size
    BY <1>2, <1>5 DEF TypeOK
  <2> QED BY <1>1, <1>2, <1>4, <1>5, <2>1, <2>2 DEF TypeOK, Moved
<1>8. RoleInv'
  BY <1>4, OwnerRole
<1>9. ListInv'
  <2>1. ASSUME NEW i \in DOMAIN root.list PROVE \E p \in Owners : task'[p].hdl = root.list[i]
    <3>1. PICK p \in Owners : task[p].hdl = root.list[i]
      BY DEF MailInv, ListInv
    <3>2. p # o
      BY <1>3, <3>1
    <3> QED BY <1>6, <3>1, <3>2
  <2> QED BY <1>6, <2>1 DEF MailInv, ListInv
<1>10. OwnerInv'
  <2>1. ASSUME NEW p \in Owners, p # o
        PROVE  /\ task[p].pc \in {"init", "lookup", "alloc"} => task[p].hdl = None
               /\ task[p].pc \notin {"idle", "init", "lookup", "alloc"} => task[p].hdl # None
               /\ task[p].pc \in {"idle", "unlink", "cut"} /\ task[p].hdl # None =>
                    \E i \in DOMAIN root.list : root.list[i] = task[p].hdl
               /\ task[p].pc \in {"insert", "link", "free"} =>
                    \A i \in DOMAIN root.list : root.list[i] # task[p].hdl
    BY DEF MailInv, OwnerInv
  <2>2. ASSUME NEW p \in Owners, p # o, task[p].hdl # None
        PROVE  memory'[task[p].hdl] # None /\ memory'[task[p].hdl].id = IdOf[p]
    <3>1. task[p].hdl \in Handles /\ task[p].hdl # h
      BY <1>3, <2>2, OwnerIs
    <3> QED BY <1>5, <2>2, <3>1 DEF MailInv, OwnerInv
  <2>3. ASSUME NEW g \in Handles, memory'[g] # None PROVE \E p \in Owners : task'[p].hdl = g
    <3>1. g # h /\ memory[g] # None
      BY <1>5, <2>3
    <3>2. PICK p \in Owners : task[p].hdl = g
      BY <3>1 DEF MailInv, OwnerInv
    <3>3. p # o
      BY <3>1, <3>2
    <3> QED BY <1>6, <3>2, <3>3
  <2> QED BY <1>6, <2>1, <2>2, <2>3 DEF OwnerInv
<1>11. UserInv'
  <2>1. ASSUME NEW u \in Users, task[u].pc \in {"send", "receive"}
        PROVE  memory'[task[u].hdl] = memory[task[u].hdl]
    <3>1. task[u].hdl \in Handles /\ task[u].hdl # h
      BY <1>2, <1>3, <2>1, Roles, LocalsAre, NoneIs DEF MailInv, UserInv
    <3> QED BY <1>5, <3>1
  <2> QED BY <1>2, <1>4, <2>1, OwnerMoves, NoneIs
<1>12. MutexInv'
  BY <1>4, <1>6, OwnerMutex
<1>13. StartInv'
  BY <1>2, <1>4, <1>6, AfterStart
<1> QED BY <1>7, <1>8, <1>9, <1>10, <1>11, <1>12, <1>13 DEF MailInv
-----------------------------------------------------------------------------
(***************************************************************************)
(* The invariant, and what follows from it.                                *)
(***************************************************************************)
LEMMA MailInit ==
  ASSUME Init
  PROVE  MailInv
<1>1. /\ root = [ready |-> FALSE, list |-> <<>>, lock |-> None]
      /\ memory = [h \in Handles |-> None]
      /\ \A t \in Tasks : /\ task[t].pc = (IF t = Receiver THEN "sleep" ELSE "idle")
                          /\ task[t].op = None /\ task[t].hdl = None
      /\ wake = 0 /\ spurious = 0 /\ sent = {} /\ got = <<>>
  BY DEF Init
<1>2. TypeOK
  <2>1. \A S : <<>> \in Seq(S)
    OBVIOUS
  <2>2. task \in [Tasks -> Locals]
    BY <2>1 DEF Init, Locals
  <2>3. MaxWakes \in Nat
    BY MailboxAssumption
  <2> QED BY <1>1, <2>1, <2>2, <2>3 DEF TypeOK, Roots
<1>3. RoleInv
  BY <1>1, Roles DEF RoleInv
<1>4. StartInv /\ MutexInv
  BY <1>1 DEF StartInv, MutexInv, Resting
<1>5. ListInv
  <2>1. DOMAIN root.list = {}
    BY <1>1
  <2> QED BY <2>1 DEF ListInv, IsInjective
<1>6. OwnerInv
  <2>1. \A o \in Owners : task[o].pc = "idle" /\ task[o].hdl = None
    BY <1>1, Roles
  <2>2. \A h \in Handles : memory[h] = None
    BY <1>1
  <2> QED BY <2>1, <2>2 DEF OwnerInv
<1>7. UserInv
  BY <1>1, Roles DEF UserInv
<1> QED BY <1>2, <1>3, <1>4, <1>5, <1>6, <1>7 DEF MailInv

LEMMA MailNext ==
  ASSUME MailInv, [Next]_vars
  PROVE  MailInv'
<1>1. CASE UNCHANGED vars
  <2>1. UNCHANGED <<root, memory, task, wake, sent, got, spurious>>
    BY <1>1 DEF vars
  <2>2. TypeOK' /\ RoleInv' /\ StartInv' /\ MutexInv'
    BY <2>1 DEF MailInv, TypeOK, RoleInv, StartInv, MutexInv
  <2>3. ListInv' /\ OwnerInv' /\ UserInv'
    BY <2>1 DEF MailInv, ListInv, OwnerInv, UserInv, Deleting, Started
  <2> QED BY <2>2, <2>3 DEF MailInv
<1>2. ASSUME NEW t \in Tasks, Step(t) PROVE MailInv'
  <2>1. CASE InitRoot(t)
    BY <2>1, InitStep
  <2>2. CASE Lookup(t)
    BY <2>2, Roles, UserLookup, OwnerLookup
  <2>3. CASE t \in Owners /\ Creating(t)
    BY <2>3, AllocStep, DownStep, LinkStep, CutStep, FreeStep DEF Creating
  <2>4. CASE t \in Senders /\ Sending(t)
    BY <2>4, PutStep, GiveUpStep, RaiseStep DEF Sending
  <2>5. CASE t = Receiver /\ (Wake \/ Get)
    BY <2>5, WakeStep, GetStep
  <2> QED BY <1>2, <2>1, <2>2, <2>3, <2>4, <2>5 DEF Step
<1>3. ASSUME NEW o \in Owners, Create(o) \/ Del(o) PROVE MailInv'
  BY <1>3, CreateStep, DelStep
<1>4. ASSUME NEW s \in Senders, Send(s) PROVE MailInv'
  BY <1>4, SendStep
<1>5. CASE Interrupt
  BY <1>5, InterruptStep
<1> QED BY <1>1, <1>2, <1>3, <1>4, <1>5 DEF Next

LEMMA MailInvariant == Spec => []MailInv
<1>1. Init => MailInv
  BY MailInit
<1>2. MailInv /\ [Next]_vars => MailInv'
  BY MailNext
<1> QED BY <1>1, <1>2, PTL DEF Spec

(* Whatever the drivers do with their mailboxes, in whatever order, every  *)
(* field stays what mailbox.c declares, and no mailbox holds more messages *)
(* than it was made for.                                                   *)
THEOREM MailTypeCorrect == Spec => []TypeOK
<1>1. MailInv => TypeOK
  BY DEF MailInv
<1> QED BY <1>1, MailInvariant, PTL

(* The list of RtlMBoxIdToHdl has each mailbox that was made, once, and    *)
(* nothing that was freed: it is read and changed under one mutex, and two *)
(* owners have two ids.                                                    *)
THEOREM MailboxesListed == Spec => []Listed
<1>1. MailInv => Listed
  BY ListIsRight
<1> QED BY <1>1, MailInvariant, PTL
-----------------------------------------------------------------------------
(***************************************************************************)
(* The messages that wait.                                                 *)
(***************************************************************************)
LEMMA WaitingIs ==
  ASSUME MailInv, NEW h \in Handles, memory[h] # None, memory[h].id = Box
  PROVE  Waiting = memory[h].msgs
<1> DEFINE used == {g \in Handles : memory[g] # None /\ memory[g].id = Box}
<1>1. ASSUME NEW g \in used PROVE g = h
  <2>1. PICK o \in Owners : task[o].hdl = h
    BY DEF MailInv, OwnerInv
  <2>2. PICK p \in Owners : task[p].hdl = g
    BY <1>1 DEF MailInv, OwnerInv
  <2>3. IdOf[o] = Box /\ IdOf[p] = Box
    BY <1>1, <2>1, <2>2, NoneIs DEF MailInv, OwnerInv
  <2>4. o = p
    BY <2>3, OneOwner
  <2> QED BY <2>1, <2>2, <2>4
<1>2. used = {h}
  BY <1>1
<1>3. (CHOOSE g \in used : TRUE) = h
  BY <1>2
<1> QED BY <1>2, <1>3 DEF Waiting, Queue

\* A step that leaves the mailboxes of the id alone leaves the messages.
LEMMA WaitingKept ==
  ASSUME \A h \in Handles :
           /\ (memory'[h] # None /\ memory'[h].id = Box) <=> (memory[h] # None /\ memory[h].id = Box)
           /\ memory[h] # None /\ memory[h].id = Box => memory'[h] = memory[h]
  PROVE  Waiting' = Waiting
<1> DEFINE used == {g \in Handles : memory[g] # None /\ memory[g].id = Box}
           next == {g \in Handles : memory'[g] # None /\ memory'[g].id = Box}
<1>1. next = used
  OBVIOUS
<1>2. Waiting = IF used = {} THEN <<>> ELSE memory[CHOOSE g \in used : TRUE].msgs
  BY DEF Waiting, Queue
<1>3. Waiting' = IF next = {} THEN <<>> ELSE memory'[CHOOSE g \in next : TRUE].msgs
  BY DEF Waiting, Queue
<1>4. \A g \in used : memory'[g] = memory[g]
  OBVIOUS
<1> HIDE DEF used, next
<1>5. used # {} => (CHOOSE g \in used : TRUE) \in used
  OBVIOUS
<1> QED BY <1>1, <1>2, <1>3, <1>4, <1>5

\* Messages that wait are noticed.
Noticed ==
  \/ task[Receiver].pc # "sleep" \/ wake > 0
  \/ \E s \in Senders : task[s].pc = "raise"
  \/ Deleting

\* A step that takes nothing of that away.
LEMMA StillNoticed ==
  ASSUME NoLostWakeup, Waiting' = Waiting, Noticed => Noticed'
  PROVE  NoLostWakeup'
BY DEF NoLostWakeup, Noticed

LEMMA WaitingSame ==
  ASSUME memory' = memory
  PROVE  Waiting' = Waiting
BY DEF Waiting, Queue

\* While the receiver is awake it finds its mailbox.
LEMMA ReceiverFinds ==
  ASSUME MailInv, task[Receiver].pc # "sleep"
  PROVE  Found(root.list, Box) # None
<1>1. PICK o \in Owners : IdOf[o] = Box /\ task[o].hdl # None /\ task[o].op = None
  BY DEF MailInv, UserInv, Started
<1>2. task[o].pc = "idle"
  BY <1>1, OwnerIs
<1>3. PICK i \in DOMAIN root.list : root.list[i] = task[o].hdl
  BY <1>1, <1>2 DEF MailInv, OwnerInv
<1> QED BY <1>1, <1>3, FoundOwn

\* Steps of an owner leave the receiver and the senders alone.
LEMMA OwnerNoticed ==
  ASSUME NEW o \in Owners, NEW pc, NEW op, NEW hdl, NEW seen, NEW calls,
         Moved(o, pc, op, hdl, seen, calls), wake' = wake, op = task[o].op \/ task[o].op # "del"
  PROVE  Noticed => Noticed'
<1>1. \A u \in Users : task'[u] = task[u]
  BY Roles DEF Moved
<1>2. \A p \in Owners : task[p].op = "del" => task'[p].op = "del"
  BY Roles DEF Moved
<1>3. Deleting => Deleting'
  BY <1>2 DEF Deleting
<1> QED BY <1>1, <1>3, Roles DEF Noticed

\* Steps of a user leave the owners alone.
LEMMA UserNoticed ==
  ASSUME NEW u \in Users, NEW pc, NEW op, NEW hdl, NEW seen, NEW calls,
         Moved(u, pc, op, hdl, seen, calls), wake' = wake, task[u].pc # "raise",
         u = Receiver => pc # "sleep"
  PROVE  Noticed => Noticed'
<1>1. \A t \in Tasks : t # u => task'[t] = task[t]
  BY DEF Moved
<1>2. task'[u].pc = pc
  BY DEF Moved
<1>3. Deleting => Deleting'
  BY <1>1, Roles DEF Deleting
<1>4. task[Receiver].pc # "sleep" => task'[Receiver].pc # "sleep"
  BY <1>1, <1>2, Roles
<1>5. \A s \in Senders : task[s].pc = "raise" => task'[s].pc = "raise"
  BY <1>1, Roles
<1> QED BY <1>3, <1>4, <1>5 DEF Noticed

LEMMA NoticedAwake ==
  ASSUME task'[Receiver].pc # "sleep" \/ wake' > 0 \/ \E s \in Senders : task'[s].pc = "raise"
  PROVE  NoLostWakeup'
BY DEF NoLostWakeup

LEMMA LookupWakes ==
  ASSUME MailInv, NoLostWakeup, NEW t \in Tasks, Lookup(t)
  PROVE  NoLostWakeup'
<1>1. task[t].pc = "lookup" /\ UNCHANGED <<root, memory, wake, history>> /\ TypeOK
  BY DEF Lookup, At, MailInv
<1>2. Waiting' = Waiting
  BY <1>1, WaitingSame
<1>3. CASE t \in Owners
  <2>1. task[t].op = "create" /\ t # Receiver
    BY <1>1, <1>3, OwnerIs
  <2>2. Return(t, None) \/ Goto(t, "alloc")
    BY <2>1 DEF Lookup
  <2>3. "alloc" \in PCs
    BY DEF PCs
  <2>4. \E pc, op, hdl, seen, calls : Moved(t, pc, op, hdl, seen, calls)
    BY <1>1, <2>2, <2>3, ReturnIs, GotoIs
  <2> QED BY <1>1, <1>2, <1>3, <2>1, <2>4, OwnerNoticed, StillNoticed
<1>4. CASE t \in Users
  <2> DEFINE h == Found(root.list, IdUsed(t))
  <2>1. task[t].op \in {"send", "receive"} /\ IdUsed(t) = Box
    BY <1>1, <1>4, Roles DEF MailInv, RoleInv, Users, IdUsed
  <2>2. \/ h = None /\ Return(t, None)
        \/ h # None /\ task' = [task EXCEPT ![t].pc = task[t].op, ![t].hdl = h]
    <3>1. task[t].op # "create"
      BY <2>1
    <3> QED BY <3>1 DEF Lookup
  <2>3. CASE h = None /\ Return(t, None)
    <3>1. t # Receiver
      BY <1>1, <2>1, <2>3, ReceiverFinds
    <3>2. Moved(t, "idle", None, None, <<>>, task[t].calls)
      BY <1>1, <2>3, <3>1, ReturnIs
    <3> QED BY <1>1, <1>2, <1>4, <3>1, <3>2, UserNoticed, StillNoticed
  <2>4. CASE h # None /\ task' = [task EXCEPT ![t].pc = task[t].op, ![t].hdl = h]
    <3>1. task[t].op \in PCs /\ h \in Handles /\ task[t].op # "sleep"
      BY <2>1, <2>4, FoundMailbox DEF PCs
    <3> HIDE DEF h
    <3>2. Moved(t, task[t].op, task[t].op, h, task[t].seen, task[t].calls)
      BY <1>1, <2>4, <3>1, TakenIs
    <3> QED BY <1>1, <1>2, <1>4, <3>1, <3>2, UserNoticed, StillNoticed
  <2> QED BY <2>2, <2>3, <2>4
<1> QED BY <1>3, <1>4, Roles

\* Steps of the owners that leave the memory alone.
Quiet(o) == Create(o) \/ Insert(o) \/ Unlink(o) \/ Link(o) \/ Cut(o) \/ Del(o)

LEMMA QuietIs ==
  ASSUME MailInv, NEW o \in Owners, Quiet(o)
  PROVE  /\ memory' = memory /\ wake' = wake /\ sent' = sent /\ got' = got
         /\ \E pc, op, hdl, seen, calls :
              Moved(o, pc, op, hdl, seen, calls) /\ (op = task[o].op \/ task[o].op # "del")
<1>1. TypeOK /\ o \in Tasks /\ o # Receiver /\ task[o].hdl \in Handles \cup {None}
  BY OwnerIs
<1>2. \E pc, op, hdl, seen, calls :
        /\ Moved(o, pc, op, hdl, seen, calls)
        /\ op = task[o].op \/ task[o].op # "del"
        /\ memory' = memory /\ wake' = wake /\ sent' = sent /\ got' = got
  <2>1. CASE Create(o)
    <3> DEFINE c == task[o].calls + 1
    <3>1. Call(o, "create", c) /\ UNCHANGED <<memory, wake, sent, got>> /\ task[o].pc = "idle"
      BY <2>1 DEF Create, At, history
    <3>2. c \in Nat /\ "create" \in Ops /\ task[o].op # "del"
      BY <3>1, OwnerIs, NoneIs DEF Ops
    <3> HIDE DEF c
    <3> QED BY <1>1, <3>1, <3>2, CallIs
  <2>2. CASE Insert(o) \/ Unlink(o)
    <3>1. PICK pc \in PCs, next \in PCs : Down(o, pc, next) /\ UNCHANGED <<memory, wake, sent, got>>
      BY <2>2 DEF Insert, Unlink, PCs, history
    <3> QED BY <1>1, <3>1, DownIs
  <2>3. CASE Link(o)
    <3>1. Return(o, task[o].hdl) /\ UNCHANGED <<memory, wake, sent, got>> /\ task[o].op # "del"
      BY <2>3, OwnerIs DEF Link, At, history
    <3> QED BY <1>1, <3>1, ReturnIs
  <2>4. CASE Cut(o)
    <3>1. Goto(o, "free") /\ UNCHANGED <<memory, wake, sent, got>> /\ "free" \in PCs
      BY <2>4 DEF Cut, PCs, history
    <3> QED BY <1>1, <3>1, GotoIs
  <2>5. CASE Del(o)
    <3>1. /\ task' = [task EXCEPT ![o].pc = "unlink", ![o].op = "del"] /\ UNCHANGED <<memory, wake, sent, got>>
          /\ task[o].op # "del" /\ "unlink" \in PCs /\ "del" \in Ops
      BY <1>1, <2>5, OwnerIs, NoneIs DEF Del, At, PCs, Ops, history
    <3>2. Moved(o, "unlink", "del", task[o].hdl, task[o].seen, task[o].calls)
      BY <1>1, <3>1, MarkedIs
    <3> QED BY <3>1, <3>2
  <2> QED BY <2>1, <2>2, <2>3, <2>4, <2>5 DEF Quiet
<1> QED BY <1>2

LEMMA OwnerWakes ==
  ASSUME MailInv, NoLostWakeup, NEW o \in Owners, Quiet(o)
  PROVE  NoLostWakeup'
BY QuietIs, WaitingSame, OwnerNoticed, StillNoticed

\* A mailbox that is new is empty, and its id had none.
LEMMA AllocIs ==
  ASSUME MailInv, NEW o \in Owners, Alloc(o)
  PROVE  /\ Waiting' = Waiting /\ wake' = wake /\ sent' = sent /\ got' = got
         /\ \E pc, op, hdl, seen, calls :
              Moved(o, pc, op, hdl, seen, calls) /\ (op = task[o].op \/ task[o].op # "del")
<1>1. TypeOK /\ o \in Tasks /\ o # Receiver /\ task[o].pc = "alloc" /\ task[o].op = "create"
      /\ task[o].hdl = None /\ UNCHANGED <<wake, sent, got>> /\ "insert" \in PCs
  BY OwnerIs DEF Alloc, At, MailInv, OwnerInv, PCs, history
<1>2. CASE Return(o, None) /\ UNCHANGED memory
  <2>1. Moved(o, "idle", None, None, <<>>, task[o].calls)
    BY <1>1, <1>2, ReturnIs
  <2> QED BY <1>1, <1>2, <2>1, WaitingSame
<1>3. ASSUME NEW h \in Handles, memory[h] = None,
             memory' = [memory EXCEPT ![h] = [id |-> IdOf[o], msgs |-> <<>>]],
             task' = [task EXCEPT ![o].pc = "insert", ![o].hdl = h]
      PROVE  /\ Waiting' = Waiting
             /\ \E pc, op, hdl, seen, calls :
                  Moved(o, pc, op, hdl, seen, calls) /\ (op = task[o].op \/ task[o].op # "del")
  <2>1. Moved(o, "insert", "create", h, task[o].seen, task[o].calls)
    BY <1>1, <1>3, TakenIs
  <2> DEFINE new == [id |-> IdOf[o], msgs |-> <<>>]
  <2>2. new.id = IdOf[o] /\ new.msgs = <<>>
    OBVIOUS
  <2>3. memory \in [Handles -> Mailboxes \cup {None}] /\ memory' = [memory EXCEPT ![h] = new]
    BY <1>1, <1>3 DEF TypeOK
  <2> HIDE DEF new
  <2>4. memory'[h] = new /\ \A g \in Handles : g # h => memory'[g] = memory[g]
    BY <2>3
  <2>5. CASE IdOf[o] # Box
    <3>1. Waiting' = Waiting
      BY <1>3, <2>2, <2>4, <2>5, WaitingKept
    <3> QED BY <1>1, <2>1, <3>1
  <2>6. CASE IdOf[o] = Box
    <3>1. ASSUME NEW g \in Handles, memory[g] # None, memory[g].id = Box PROVE FALSE
      <4>1. PICK p \in Owners : task[p].hdl = g
        BY <3>1 DEF MailInv, OwnerInv
      <4>2. IdOf[p] = Box
        BY <3>1, <4>1, NoneIs DEF MailInv, OwnerInv
      <4>3. p = o
        BY <2>6, <4>2, OneOwner
      <4> QED BY <1>1, <4>1, <4>3, NoneIs
    <3> DEFINE next == {g \in Handles : memory'[g] # None /\ memory'[g].id = Box}
    <3>2. next \subseteq {h}
      BY <2>4, <3>1
    <3>3. Waiting' = IF next = {} THEN <<>> ELSE memory'[CHOOSE g \in next : TRUE].msgs
      BY DEF Waiting, Queue
    <3> HIDE DEF next
    <3>4. next # {} => (CHOOSE g \in next : TRUE) = h
      BY <3>2
    <3>5. Waiting' = <<>>
      BY <2>2, <2>4, <3>3, <3>4
    <3>6. {g \in Handles : memory[g] # None /\ memory[g].id = Box} = {}
      BY <3>1
    <3>7. Waiting = <<>>
      BY <3>6 DEF Waiting
    <3> QED BY <1>1, <2>1, <3>5, <3>7
  <2> QED BY <2>5, <2>6
<1> QED BY <1>1, <1>2, <1>3 DEF Alloc

LEMMA AllocWakes ==
  ASSUME MailInv, NoLostWakeup, NEW o \in Owners, Alloc(o)
  PROVE  NoLostWakeup'
BY AllocIs, OwnerNoticed, StillNoticed

\* With the mailbox of the id its messages are gone; another leaves them.
LEMMA FreeIsOf ==
  ASSUME MailInv, NEW o \in Owners, Free(o)
  PROVE  /\ Moved(o, "idle", None, None, <<>>, task[o].calls)
         /\ IdOf[o] = Box => Waiting' = <<>> /\ sent' = {} /\ got' = <<>>
         /\ IdOf[o] # Box => Waiting' = Waiting /\ UNCHANGED <<wake, sent, got>>
<1> DEFINE h == task[o].hdl
<1>1. /\ task[o].pc = "free" /\ Return(o, None) /\ memory' = [memory EXCEPT ![h] = None]
      /\ IdOf[o] = Box => sent' = {} /\ got' = <<>>
      /\ IdOf[o] # Box => UNCHANGED <<wake, sent, got>>
  BY DEF Free, At
<1>2. /\ TypeOK /\ o \in Tasks /\ o # Receiver /\ h \in Handles
      /\ memory[h] # None /\ memory[h].id = IdOf[o]
  BY <1>1, OwnerIs, FreeIs
<1>3. memory'[h] = None /\ \A g \in Handles : g # h => memory'[g] = memory[g]
  BY <1>1, <1>2 DEF TypeOK
<1>4. ASSUME IdOf[o] = Box PROVE Waiting' = <<>>
  <2>1. ASSUME NEW g \in Handles, memory[g] # None, memory[g].id = Box PROVE g = h
    <3>1. PICK p \in Owners : task[p].hdl = g
      BY <2>1 DEF MailInv, OwnerInv
    <3>2. IdOf[p] = Box
      BY <2>1, <3>1, NoneIs DEF MailInv, OwnerInv
    <3> QED BY <1>4, <3>1, <3>2, OneOwner
  <2>2. {g \in Handles : memory'[g] # None /\ memory'[g].id = Box} = {}
    BY <1>3, <2>1
  <2>3. Waiting' = <<>>
    BY <2>2 DEF Waiting
  <2> QED BY <2>3
<1>5. IdOf[o] # Box => Waiting' = Waiting
  BY <1>2, <1>3, WaitingKept
<1>6. Moved(o, "idle", None, None, <<>>, task[o].calls)
  BY <1>1, <1>2, ReturnIs
<1> QED BY <1>1, <1>4, <1>5, <1>6

LEMMA FreeWakes ==
  ASSUME MailInv, NoLostWakeup, NEW o \in Owners, Free(o)
  PROVE  NoLostWakeup'
<1>1. CASE IdOf[o] = Box
  BY <1>1, FreeIsOf DEF NoLostWakeup
<1>2. CASE IdOf[o] # Box
  <2>1. Waiting' = Waiting /\ wake' = wake
    BY <1>2, FreeIsOf
  <2>2. Moved(o, "idle", None, None, <<>>, task[o].calls)
    BY FreeIsOf
  <2>3. Deleting => Deleting'
    BY <1>2, <2>2, Roles DEF Moved, Deleting
  <2>4. \A u \in Users : task'[u] = task[u]
    BY <2>2, Roles DEF Moved
  <2>5. Noticed => Noticed'
    BY <2>1, <2>3, <2>4, Roles DEF Noticed
  <2> QED BY <2>1, <2>5, StillNoticed
<1> QED BY <1>1, <1>2

LEMMA InitWakes ==
  ASSUME MailInv, NoLostWakeup, NEW t \in Tasks, InitRoot(t)
  PROVE  NoLostWakeup'
<1>1. /\ task[t].pc = "init" /\ Goto(t, "lookup") /\ memory' = memory /\ wake' = wake
      /\ TypeOK /\ "lookup" \in PCs
  BY DEF InitRoot, At, MailInv, PCs
<1>2. Moved(t, "lookup", task[t].op, task[t].hdl, task[t].seen, task[t].calls)
  BY <1>1, GotoIs
<1>3. Noticed => Noticed'
  BY <1>1, <1>2, Roles, OwnerNoticed, UserNoticed
<1> QED BY <1>1, <1>3, WaitingSame, StillNoticed

LEMMA SenderWakes ==
  ASSUME MailInv, NoLostWakeup, NEW s \in Senders, Send(s) \/ Put(s) \/ GiveUp(s) \/ Raise(s)
  PROVE  NoLostWakeup'
<1>1. TypeOK /\ s \in Tasks /\ s \in Users /\ s # Receiver /\ task[s].calls \in Nat
  BY Roles, LocalsAre DEF MailInv
<1>2. CASE Send(s)
  <2> DEFINE c == task[s].calls + 1
             pc == IF root.ready THEN "lookup" ELSE "init"
  <2>1. Call(s, "send", c) /\ memory' = memory /\ wake' = wake /\ task[s].pc # "raise"
    BY <1>2 DEF Send, At
  <2>2. c \in Nat /\ "send" \in Ops
    BY <1>1 DEF Ops
  <2> HIDE DEF c
  <2>3. Moved(s, pc, "send", task[s].hdl, task[s].seen, c)
    BY <1>1, <2>1, <2>2, CallIs
  <2> HIDE DEF pc
  <2> QED BY <1>1, <2>1, <2>3, WaitingSame, UserNoticed, StillNoticed
<1>3. CASE Put(s)
  <2>1. Goto(s, "raise") /\ "raise" \in PCs
    BY <1>3 DEF Put, Place, PCs
  <2>2. task'[s].pc = "raise"
    BY <1>1, <2>1, GotoIs DEF Moved
  <2> QED BY <2>2, NoticedAwake
<1>4. CASE GiveUp(s)
  <2>1. Return(s, None) /\ memory' = memory /\ wake' = wake /\ task[s].pc # "raise"
    BY <1>4 DEF GiveUp, At
  <2>2. Moved(s, "idle", None, None, <<>>, task[s].calls)
    BY <1>1, <2>1, ReturnIs
  <2> QED BY <1>1, <2>1, <2>2, WaitingSame, UserNoticed, StillNoticed
<1>5. CASE Raise(s)
  <2>1. wake' > 0
    BY <1>1, <1>5 DEF Raise, TypeOK
  <2> QED BY <2>1, NoticedAwake
<1> QED BY <1>2, <1>3, <1>4, <1>5

LEMMA ReceiverWakes ==
  ASSUME MailInv, NoLostWakeup, Wake \/ Get
  PROVE  NoLostWakeup'
<1>1. TypeOK /\ Receiver \in Tasks /\ Receiver \in Users
  BY Roles DEF MailInv
<1>2. CASE Wake
  <2> DEFINE pc == IF root.ready THEN "lookup" ELSE "init"
  <2>1. Call(Receiver, "receive", 0) /\ 0 \in Nat /\ "receive" \in Ops
    BY <1>2 DEF Wake, Ops
  <2>2. Moved(Receiver, pc, "receive", task[Receiver].hdl, task[Receiver].seen, 0)
    BY <1>1, <2>1, CallIs
  <2>3. task'[Receiver].pc # "sleep"
    BY <2>2 DEF Moved
  <2> QED BY <2>3, NoticedAwake
<1>3. CASE Get
  <2> DEFINE h == task[Receiver].hdl
             msgs == memory[h].msgs
  <2>1. /\ task[Receiver].pc = "receive"
        /\ Goto(Receiver, "lookup") \/ (msgs = <<>> /\ memory' = memory)
    BY <1>3 DEF Get, At, Queue
  <2>2. CASE Goto(Receiver, "lookup")
    <3>1. "lookup" \in PCs
      BY DEF PCs
    <3>2. task'[Receiver].pc # "sleep"
      BY <1>1, <2>2, <3>1, GotoIs DEF Moved
    <3> QED BY <3>2, NoticedAwake
  <2>3. CASE msgs = <<>> /\ memory' = memory
    <3>1. h \in Handles /\ memory[h] # None /\ memory[h].id = Box
      BY <1>1, <2>1, LocalsAre DEF MailInv, UserInv
    <3>2. Waiting = <<>>
      BY <2>3, <3>1, WaitingIs
    <3> QED BY <2>3, <3>2, WaitingSame DEF NoLostWakeup
  <2> QED BY <2>1, <2>2, <2>3
<1> QED BY <1>2, <1>3

LEMMA WakeNext ==
  ASSUME MailInv, NoLostWakeup, [Next]_vars
  PROVE  NoLostWakeup'
<1>1. CASE UNCHANGED vars
  <2>1. UNCHANGED <<memory, task, wake>>
    BY <1>1 DEF vars
  <2>2. Noticed => Noticed'
    BY <2>1 DEF Noticed, Deleting
  <2> QED BY <2>1, <2>2, WaitingSame, StillNoticed
<1>2. ASSUME NEW t \in Tasks, Step(t) PROVE NoLostWakeup'
  <2>1. CASE InitRoot(t)
    BY <2>1, InitWakes
  <2>2. CASE Lookup(t)
    BY <2>2, LookupWakes
  <2>3. CASE t \in Owners /\ Creating(t)
    BY <2>3, OwnerWakes, AllocWakes, FreeWakes DEF Creating, Quiet
  <2>4. CASE t \in Senders /\ Sending(t)
    BY <2>4, SenderWakes DEF Sending
  <2>5. CASE t = Receiver /\ (Wake \/ Get)
    BY <2>5, ReceiverWakes
  <2> QED BY <1>2, <2>1, <2>2, <2>3, <2>4, <2>5 DEF Step
<1>3. ASSUME NEW o \in Owners, Create(o) \/ Del(o) PROVE NoLostWakeup'
  BY <1>3, OwnerWakes DEF Quiet
<1>4. ASSUME NEW s \in Senders, Send(s) PROVE NoLostWakeup'
  BY <1>4, SenderWakes
<1>5. CASE Interrupt
  <2>1. wake' > 0
    BY <1>5 DEF Interrupt, MailInv, TypeOK
  <2> QED BY <2>1, NoticedAwake
<1> QED BY <1>1, <1>2, <1>3, <1>4, <1>5 DEF Next

(* A message that waits is always noticed: by the receiver that is awake,  *)
(* by its semaphore, or by the sender that is about to raise it; however   *)
(* many senders put their messages between the receiver's last look at the *)
(* mailbox and its wait, and whatever mailbox it was made anew.            *)
THEOREM WakeupsKept == Spec => []NoLostWakeup
<1>1. Init => NoLostWakeup
  <2> SUFFICES ASSUME Init PROVE Waiting = <<>>
    BY DEF NoLostWakeup
  <2>1. {h \in Handles : memory[h] # None /\ memory[h].id = Box} = {}
    BY DEF Init
  <2> QED BY <2>1 DEF Waiting
<1>2. MailInv /\ NoLostWakeup /\ [Next]_vars => NoLostWakeup'
  BY WakeNext
<1> QED BY <1>1, <1>2, MailInvariant, PTL DEF Spec
-----------------------------------------------------------------------------
(***************************************************************************)
(* The order of the messages.                                              *)
(***************************************************************************)
InOrder(all, accepted) ==
  /\ IsInjective(all) /\ ToSet(all) = accepted
  /\ \A i, j \in DOMAIN all :
       i < j /\ all[i].from = all[j].from /\ ~all[i].front /\ ~all[j].front =>
         all[i].n < all[j].n

\* `more` is `all` with m put in at place k.
PutIn(all, more, m, k) ==
  /\ k \in 1 .. Len(all) + 1 /\ Len(more) = Len(all) + 1 /\ more[k] = m
  /\ \A i \in 1 .. Len(all) : (i < k => more[i] = all[i]) /\ (i >= k => more[i + 1] = all[i])

\* m is its sender's latest.
Latest(m, accepted) == \A x \in accepted : x.from = m.from => x.n < m.n

\* A message not yet accepted may come at any place if it goes to the front, and
\* at the end if its sender's are all earlier.
LEMMA OneMore ==
  ASSUME NEW all \in Seq(Messages), NEW more \in Seq(Messages), NEW accepted, InOrder(all, accepted),
         NEW m \in Messages, m \notin accepted, NEW k, PutIn(all, more, m, k),
         m.front \/ (k = Len(all) + 1 /\ Latest(m, accepted))
  PROVE  InOrder(more, accepted \cup {m})
<1> USE DEF PutIn, Latest
<1> DEFINE Old(i) == IF i < k THEN i ELSE i - 1
           n == Len(all)
<1>1. n \in Nat /\ DOMAIN all = 1 .. n /\ DOMAIN more = 1 .. n + 1 /\ k \in 1 .. n + 1
  OBVIOUS
<1>2. ASSUME NEW i \in 1 .. n + 1, i # k
      PROVE  /\ Old(i) \in 1 .. n /\ more[i] = all[Old(i)]
             /\ \A j \in 1 .. n + 1 : j # k /\ i < j => Old(i) < Old(j)
  <2>1. CASE i < k
    BY <1>1, <2>1
  <2>2. CASE i > k
    <3>1. i - 1 \in 1 .. n /\ i - 1 >= k /\ (i - 1) + 1 = i
      BY <1>1, <2>2
    <3>2. more[(i - 1) + 1] = all[i - 1]
      BY <3>1
    <3> QED BY <1>1, <2>2, <3>1, <3>2
  <2> QED BY <1>1, <1>2, <2>1, <2>2
<1>3. accepted = {all[i] : i \in 1 .. n}
  BY <1>1 DEF InOrder, ToSet
<1>4. \A i \in 1 .. n + 1 : i # k => more[i] \in accepted /\ more[i] # m
  BY <1>2, <1>3
<1>5. \A i \in 1 .. n : \E j \in 1 .. n + 1 : j # k /\ more[j] = all[i]
  <2> HIDE DEF n, Old
  <2> SUFFICES ASSUME NEW i \in 1 .. n PROVE \E j \in 1 .. n + 1 : j # k /\ more[j] = all[i]
    OBVIOUS
  <2>1. CASE i < k
    <3>1. i \in 1 .. n + 1 /\ i # k /\ more[i] = all[i]
      BY <1>1, <2>1
    <3> QED BY <3>1
  <2>2. CASE i >= k
    <3>1. i + 1 \in 1 .. n + 1 /\ i + 1 # k /\ more[i + 1] = all[i]
      BY <1>1, <2>2
    <3> QED BY <3>1
  <2> QED BY <1>1, <2>1, <2>2
<1>6. IsInjective(more)
  <2> SUFFICES ASSUME NEW i \in 1 .. n + 1, NEW j \in 1 .. n + 1, i < j PROVE more[i] # more[j]
    BY <1>1 DEF IsInjective
  <2>1. CASE i = k \/ j = k
    BY <1>4, <2>1
  <2>2. CASE i # k /\ j # k
    <3>1. Old(i) \in 1 .. n /\ Old(j) \in 1 .. n /\ Old(i) # Old(j)
      BY <1>2, <2>2
    <3>2. all[Old(i)] # all[Old(j)]
      BY <1>1, <3>1 DEF InOrder, IsInjective
    <3> QED BY <1>2, <2>2, <3>2
  <2> QED BY <2>1, <2>2
<1>7. ToSet(more) = accepted \cup {m}
  <2>1. ToSet(more) = {more[i] : i \in 1 .. n + 1}
    BY <1>1 DEF ToSet
  <2>2. \A i \in 1 .. n + 1 : more[i] \in accepted \cup {m}
    BY <1>4
  <2>3. \A x \in accepted : \E i \in 1 .. n + 1 : more[i] = x
    BY <1>3, <1>5
  <2>4. \E i \in 1 .. n + 1 : more[i] = m
    BY <1>1
  <2> HIDE DEF n
  <2> QED BY <2>1, <2>2, <2>3, <2>4
<1>8. ASSUME NEW i \in 1 .. n + 1, NEW j \in 1 .. n + 1, i < j,
             more[i].from = more[j].from, ~more[i].front, ~more[j].front
      PROVE  more[i].n < more[j].n
  <2>1. CASE i # k /\ j # k
    <3>1. Old(i) \in 1 .. n /\ Old(j) \in 1 .. n /\ Old(i) < Old(j)
      BY <1>2, <1>8, <2>1
    <3>2. more[i] = all[Old(i)] /\ more[j] = all[Old(j)]
      BY <1>2, <2>1
    <3> HIDE DEF Old
    <3> QED BY <1>1, <1>8, <3>1, <3>2 DEF InOrder
  <2>2. CASE j = k
    BY <1>1, <1>4, <1>8, <2>2
  <2>3. CASE i = k
    BY <1>1, <1>8, <2>3
  <2> QED BY <2>1, <2>2, <2>3
<1> QED BY <1>1, <1>6, <1>7, <1>8 DEF InOrder

\* What was given out, and what waits, place by place.
LEMMA AllIs ==
  ASSUME NEW g \in Seq(Messages), NEW w \in Seq(Messages)
  PROVE  /\ g \o w \in Seq(Messages) /\ Len(g \o w) = Len(g) + Len(w)
         /\ \A i \in 1 .. Len(g) : (g \o w)[i] = g[i]
         /\ \A i \in 1 .. Len(w) : (g \o w)[Len(g) + i] = w[i]
<1>1. Len(g) \in Nat /\ Len(w) \in Nat
  OBVIOUS
<1>2. /\ g \o w \in Seq(Messages) /\ Len(g \o w) = Len(g) + Len(w)
      /\ \A i \in 1 .. Len(g) + Len(w) : (g \o w)[i] = IF i <= Len(g) THEN g[i] ELSE w[i - Len(g)]
  BY ConcatProperties
<1> QED BY <1>1, <1>2

LEMMA AddedLast ==
  ASSUME NEW g \in Seq(Messages), NEW w \in Seq(Messages), NEW accepted, InOrder(g \o w, accepted),
         NEW m \in Messages, m \notin accepted, \A x \in accepted : x.from = m.from => x.n < m.n
  PROVE  InOrder(g \o Append(w, m), accepted \cup {m})
<1> DEFINE all == g \o w  v == Append(w, m)  more == g \o v
<1>1. Len(g) \in Nat /\ Len(w) \in Nat
  OBVIOUS
<1>2. /\ v \in Seq(Messages) /\ Len(v) = Len(w) + 1 /\ v[Len(w) + 1] = m
      /\ \A i \in 1 .. Len(w) : v[i] = w[i]
  BY AppendProperties
<1> HIDE DEF v
<1>3. /\ all \in Seq(Messages) /\ Len(all) = Len(g) + Len(w)
      /\ \A i \in 1 .. Len(g) : all[i] = g[i]
      /\ \A i \in 1 .. Len(w) : all[Len(g) + i] = w[i]
  BY AllIs
<1>4. /\ more \in Seq(Messages) /\ Len(more) = Len(g) + Len(v)
      /\ \A i \in 1 .. Len(g) : more[i] = g[i]
      /\ \A i \in 1 .. Len(v) : more[Len(g) + i] = v[i]
  BY <1>2, AllIs
<1> HIDE DEF all, more
<1>5. Len(more) = Len(all) + 1 /\ Len(all) + 1 \in 1 .. Len(all) + 1 /\ Len(all) \in Nat
  BY <1>1, <1>2, <1>3, <1>4
<1>6. more[Len(all) + 1] = m
  <2>1. Len(w) + 1 \in 1 .. Len(v) /\ Len(g) + (Len(w) + 1) = Len(all) + 1
    BY <1>1, <1>2, <1>3
  <2> QED BY <1>2, <1>4, <2>1
<1>7. \A i \in 1 .. Len(all) : more[i] = all[i]
  <2> SUFFICES ASSUME NEW i \in 1 .. Len(all) PROVE more[i] = all[i]
    OBVIOUS
  <2>1. CASE i <= Len(g)
    BY <1>1, <1>3, <1>4, <2>1
  <2>2. CASE i > Len(g)
    <3> DEFINE j == i - Len(g)
    <3>1. j \in 1 .. Len(w) /\ j \in 1 .. Len(v) /\ i = Len(g) + j
      BY <1>1, <1>2, <1>3, <2>2
    <3> HIDE DEF j
    <3> QED BY <1>2, <1>3, <1>4, <3>1
  <2> QED BY <1>1, <1>3, <2>1, <2>2
<1>8. InOrder(all, accepted)
  BY DEF all
<1>9. InOrder(more, accepted \cup {m})
  <2>1. \A i \in 1 .. Len(all) : i < Len(all) + 1
    BY <1>5
  <2>2. PutIn(all, more, m, Len(all) + 1)
    BY <1>5, <1>6, <1>7, <2>1 DEF PutIn
  <2>3. Latest(m, accepted)
    BY DEF Latest
  <2> QED BY <1>3, <1>4, <1>8, <2>2, <2>3, OneMore
<1> QED BY <1>9 DEF more, v

LEMMA AddedFirst ==
  ASSUME NEW g \in Seq(Messages), NEW w \in Seq(Messages), NEW accepted, InOrder(g \o w, accepted),
         NEW m \in Messages, m \notin accepted, m.front
  PROVE  InOrder(g \o (<<m>> \o w), accepted \cup {m})
<1> DEFINE all == g \o w  v == <<m>> \o w  more == g \o v
<1>1. Len(g) \in Nat /\ Len(w) \in Nat
  OBVIOUS
<1>2. /\ v \in Seq(Messages) /\ Len(v) = Len(w) + 1 /\ v[1] = m
      /\ \A i \in 1 .. Len(w) : v[1 + i] = w[i]
  <2>1. <<m>> \in Seq(Messages) /\ Len(<<m>>) = 1 /\ <<m>>[1] = m /\ 1 \in 1 .. Len(<<m>>)
    OBVIOUS
  <2> DEFINE o == <<m>>
  <2>2. o \in Seq(Messages) /\ Len(o) = 1 /\ o[1] = m /\ 1 \in 1 .. Len(o)
    BY <2>1
  <2> HIDE DEF o
  <2>3. /\ o \o w \in Seq(Messages) /\ Len(o \o w) = 1 + Len(w) /\ (o \o w)[1] = m
        /\ \A i \in 1 .. Len(w) : (o \o w)[1 + i] = w[i]
    <3>1. /\ o \o w \in Seq(Messages) /\ Len(o \o w) = Len(o) + Len(w)
          /\ \A i \in 1 .. Len(o) : (o \o w)[i] = o[i]
          /\ \A i \in 1 .. Len(w) : (o \o w)[Len(o) + i] = w[i]
      BY <2>2, AllIs
    <3> QED BY <2>2, <3>1
  <2>4. 1 + Len(w) = Len(w) + 1
    BY <1>1
  <2> QED BY <2>3, <2>4 DEF o
<1> HIDE DEF v
<1>3. /\ all \in Seq(Messages) /\ Len(all) = Len(g) + Len(w)
      /\ \A i \in 1 .. Len(g) : all[i] = g[i]
      /\ \A i \in 1 .. Len(w) : all[Len(g) + i] = w[i]
  BY AllIs
<1>4. /\ more \in Seq(Messages) /\ Len(more) = Len(g) + Len(v)
      /\ \A i \in 1 .. Len(g) : more[i] = g[i]
      /\ \A i \in 1 .. Len(v) : more[Len(g) + i] = v[i]
  BY <1>2, AllIs
<1> HIDE DEF all, more
<1> DEFINE k == Len(g) + 1
<1>5. Len(more) = Len(all) + 1 /\ k \in 1 .. Len(all) + 1 /\ more[k] = m
  BY <1>1, <1>2, <1>3, <1>4
<1>6. \A i \in 1 .. Len(all) : (i < k => more[i] = all[i]) /\ (i >= k => more[i + 1] = all[i])
  <2> SUFFICES ASSUME NEW i \in 1 .. Len(all)
               PROVE  (i < k => more[i] = all[i]) /\ (i >= k => more[i + 1] = all[i])
    OBVIOUS
  <2>1. CASE i <= Len(g)
    BY <1>1, <1>3, <1>4, <2>1
  <2>2. CASE i > Len(g)
    <3> DEFINE j == i - Len(g)
    <3>1. /\ j \in 1 .. Len(w) /\ 1 + j \in 1 .. Len(v) /\ i = Len(g) + j
          /\ i + 1 = Len(g) + (1 + j)
      BY <1>1, <1>2, <1>3, <2>2
    <3>2. i >= k
      BY <1>1, <2>2
    <3> HIDE DEF j
    <3>3. more[i + 1] = v[1 + j] /\ v[1 + j] = w[j] /\ all[i] = w[j]
      BY <1>2, <1>3, <1>4, <3>1
    <3> QED BY <1>1, <2>2, <3>3
  <2> QED BY <1>1, <1>3, <2>1, <2>2
<1>7. InOrder(all, accepted)
  BY DEF all
<1>8. PutIn(all, more, m, k)
  BY <1>5, <1>6 DEF PutIn
<1> HIDE DEF k
<1>9. InOrder(more, accepted \cup {m})
  BY <1>3, <1>4, <1>7, <1>8, OneMore
<1> QED BY <1>9 DEF more, v

\* Giving out the first that waits leaves the whole as it is.
LEMMA GivenOut ==
  ASSUME NEW g \in Seq(Messages), NEW w \in Seq(Messages), w # <<>>
  PROVE  Append(g, Head(w)) \o Tail(w) = g \o w
<1> DEFINE h == Append(g, Head(w))  t == Tail(w)
<1>1. /\ t \in Seq(Messages) /\ Head(w) \in Messages /\ Head(w) = w[1] /\ Len(t) = Len(w) - 1
      /\ Len(w) \in Nat /\ Len(w) > 0 /\ Len(g) \in Nat /\ \A i \in 1 .. Len(t) : t[i] = w[i + 1]
  BY HeadTailProperties, LenProperties
<1>2. /\ h \in Seq(Messages) /\ Len(h) = Len(g) + 1 /\ h[Len(g) + 1] = w[1]
      /\ \A i \in 1 .. Len(g) : h[i] = g[i]
  BY <1>1, AppendProperties
<1> HIDE DEF h, t
<1>3. /\ h \o t \in Seq(Messages) /\ Len(h \o t) = Len(h) + Len(t)
      /\ \A i \in 1 .. Len(h) : (h \o t)[i] = h[i]
      /\ \A i \in 1 .. Len(t) : (h \o t)[Len(h) + i] = t[i]
  BY <1>1, <1>2, AllIs
<1>4. /\ g \o w \in Seq(Messages) /\ Len(g \o w) = Len(g) + Len(w)
      /\ \A i \in 1 .. Len(g) : (g \o w)[i] = g[i]
      /\ \A i \in 1 .. Len(w) : (g \o w)[Len(g) + i] = w[i]
  BY AllIs
<1> DEFINE new == h \o t  all == g \o w
<1> HIDE DEF new, all
<1>5. Len(new) = Len(all)
  BY <1>1, <1>2, <1>3, <1>4 DEF new, all
<1>6. ASSUME NEW i \in 1 .. Len(all) PROVE new[i] = all[i]
  <2>1. CASE i <= Len(g)
    BY <1>1, <1>2, <1>3, <1>4, <2>1 DEF new, all
  <2>2. CASE i = Len(g) + 1
    <3>1. 1 \in 1 .. Len(w) /\ i \in 1 .. Len(h)
      BY <1>1, <1>2, <2>2
    <3>2. all[i] = w[1] /\ new[i] = h[i]
      BY <1>3, <1>4, <2>2, <3>1 DEF new, all
    <3> QED BY <1>2, <2>2, <3>2
  <2>3. CASE i > Len(g) + 1
    <3> DEFINE j == i - (Len(g) + 1)
    <3>1. j \in 1 .. Len(t) /\ j + 1 \in 1 .. Len(w) /\ i = Len(g) + (j + 1) /\ i = Len(h) + j
      BY <1>1, <1>2, <1>4, <2>3 DEF all
    <3> HIDE DEF j
    <3>2. all[i] = w[j + 1] /\ new[i] = t[j] /\ t[j] = w[j + 1]
      BY <1>1, <1>3, <1>4, <3>1 DEF new, all
    <3> QED BY <3>2
  <2> QED BY <1>1, <1>4, <2>1, <2>2, <2>3 DEF all
<1>7. new \in Seq(Messages) /\ all \in Seq(Messages)
  BY <1>3, <1>4 DEF new, all
<1>8. new = all
  BY <1>5, <1>6, <1>7
<1> QED BY <1>8 DEF new, all, h, t

\* Every message accepted is of a call that has begun, and not of one that has
\* still to place its own.
Before == {"init", "lookup", "send"}
Past(s, n, tasks) == n <= tasks[s].calls /\ (tasks[s].pc \in Before => n < tasks[s].calls)
SentInv == \A m \in sent : Past(m.from, m.n, task)

OrderInv == InOrder(got \o Waiting, sent) /\ SentInv

LEMMA WaitingSeq ==
  ASSUME MailInv
  PROVE  Waiting \in Seq(Messages)
<1> DEFINE used == {g \in Handles : memory[g] # None /\ memory[g].id = Box}
<1>1. Waiting = IF used = {} THEN <<>> ELSE memory[CHOOSE g \in used : TRUE].msgs
  BY DEF Waiting, Queue
<1>2. \A g \in used : memory[g].msgs \in Seq(Messages)
  BY DEF MailInv, TypeOK, Mailboxes
<1>3. <<>> \in Seq(Messages)
  OBVIOUS
<1> HIDE DEF used
<1>4. used # {} => (CHOOSE g \in used : TRUE) \in used
  OBVIOUS
<1> QED BY <1>1, <1>2, <1>3, <1>4

\* The queue of the id's mailbox becomes another.
LEMMA WaitingBecomes ==
  ASSUME MailInv, NEW h \in Handles, memory[h] # None, memory[h].id = Box,
         NEW r \in Mailboxes, r.id = Box, memory' = [memory EXCEPT ![h] = r]
  PROVE  Waiting' = r.msgs
<1>1. memory \in [Handles -> Mailboxes \cup {None}]
  BY DEF MailInv, TypeOK
<1>2. memory'[h] = r /\ \A g \in Handles : g # h => memory'[g] = memory[g]
  BY <1>1
<1>3. ASSUME NEW g \in Handles, g # h, memory[g] # None, memory[g].id = Box PROVE FALSE
  <2>1. PICK o \in Owners : task[o].hdl = h
    BY DEF MailInv, OwnerInv
  <2>2. PICK p \in Owners : task[p].hdl = g
    BY <1>3 DEF MailInv, OwnerInv
  <2>3. IdOf[o] = Box /\ IdOf[p] = Box
    BY <1>3, <2>1, <2>2, NoneIs DEF MailInv, OwnerInv
  <2> QED BY <1>3, <2>1, <2>2, <2>3, OneOwner
<1>4. r # None
  BY NoneIs
<1> DEFINE next == {g \in Handles : memory'[g] # None /\ memory'[g].id = Box}
<1>5. next = {h}
  BY <1>2, <1>3, <1>4
<1>6. Waiting' = IF next = {} THEN <<>> ELSE memory'[CHOOSE g \in next : TRUE].msgs
  BY DEF Waiting, Queue
<1> HIDE DEF next
<1>7. (CHOOSE g \in next : TRUE) = h
  BY <1>5
<1> QED BY <1>2, <1>5, <1>6, <1>7

\* A step that accepts no message and gives none out.
LEMMA StillInOrder ==
  ASSUME MailInv, OrderInv, Waiting' = Waiting, sent' = sent, got' = got,
         \A s \in Senders : /\ task'[s].calls >= task[s].calls
                            /\ task'[s].pc \in Before =>
                                 task[s].pc \in Before \/ task'[s].calls > task[s].calls,
         \A s \in Senders : task[s].calls \in Nat /\ task'[s].calls \in Nat
  PROVE  OrderInv'
<1>1. \A m \in sent : m.from \in Senders /\ m.n \in Nat
  BY DEF MailInv, TypeOK, Messages
<1>2. SentInv'
  BY <1>1 DEF OrderInv, SentInv, Past
<1> QED BY <1>2 DEF OrderInv

\* A step of a task that is no sender, or of one that does not begin a call.
LEMMA MovedInOrder ==
  ASSUME MailInv, OrderInv, Waiting' = Waiting, sent' = sent, got' = got,
         NEW t \in Tasks, NEW pc, NEW op, NEW hdl, NEW seen, NEW calls,
         Moved(t, pc, op, hdl, seen, calls),
         t \in Senders => calls = task[t].calls /\ (pc \in Before => task[t].pc \in Before)
  PROVE  OrderInv'
<1>1. \A s \in Senders : s \in Tasks /\ task[s].calls \in Nat
  BY LocalsAre DEF MailInv, Tasks
<1>2. ASSUME NEW s \in Senders
      PROVE  task'[s].calls = task[s].calls /\ (task'[s].pc \in Before => task[s].pc \in Before)
  BY <1>1 DEF Moved
<1>3. \A s \in Senders : /\ task'[s].calls >= task[s].calls
                         /\ task'[s].pc \in Before =>
                              task[s].pc \in Before \/ task'[s].calls > task[s].calls
  BY <1>1, <1>2
<1>4. \A s \in Senders : task[s].calls \in Nat /\ task'[s].calls \in Nat
  BY <1>1, <1>2
<1> QED BY <1>3, <1>4, StillInOrder

LEMMA LookupInOrder ==
  ASSUME MailInv, OrderInv, NEW t \in Tasks, Lookup(t)
  PROVE  OrderInv'
<1>1. task[t].pc = "lookup" /\ UNCHANGED <<memory, sent, got>> /\ TypeOK
      /\ task[t].op \in Ops /\ task[t].hdl \in Handles \cup {None}
  BY LocalsAre DEF Lookup, At, MailInv, history
<1>2. Waiting' = Waiting
  BY <1>1, WaitingSame
<1> DEFINE h == Found(root.list, IdUsed(t))
<1>3. \/ Return(t, None)
      \/ Goto(t, "alloc")
      \/ /\ task[t].op # "create" /\ h # None
         /\ task' = [task EXCEPT ![t].pc = task[t].op, ![t].hdl = h]
  BY DEF Lookup
<1>4. CASE Return(t, None)
  <2> DEFINE pc == IF t = Receiver THEN "sleep" ELSE "idle"
  <2>1. Moved(t, pc, None, None, <<>>, task[t].calls)
    BY <1>1, <1>4, ReturnIs
  <2>2. pc \notin Before
    BY DEF Before
  <2> HIDE DEF pc
  <2> QED BY <1>1, <1>2, <2>1, <2>2, MovedInOrder
<1>5. CASE Goto(t, "alloc")
  <2>1. "alloc" \in PCs /\ "alloc" \notin Before
    BY DEF PCs, Before
  <2>2. Moved(t, "alloc", task[t].op, task[t].hdl, task[t].seen, task[t].calls)
    BY <1>1, <1>5, <2>1, GotoIs
  <2> QED BY <1>1, <1>2, <2>1, <2>2, MovedInOrder
<1>6. CASE /\ task[t].op # "create" /\ h # None
           /\ task' = [task EXCEPT ![t].pc = task[t].op, ![t].hdl = h]
  <2>1. t \in Users /\ IdUsed(t) = Box /\ task[t].op \in PCs
    BY <1>1, <1>6, Roles, OwnerIs DEF MailInv, RoleInv, Users, IdUsed, Tasks, PCs
  <2>2. h \in Handles
    BY <1>1, <1>6, <2>1, FoundMailbox
  <2> HIDE DEF h
  <2>3. Moved(t, task[t].op, task[t].op, h, task[t].seen, task[t].calls)
    BY <1>1, <1>6, <2>1, <2>2, TakenIs
  <2>4. task[t].pc \in Before
    BY <1>1 DEF Before
  <2> QED BY <1>1, <1>2, <2>3, <2>4, MovedInOrder
<1> QED BY <1>3, <1>4, <1>5, <1>6

LEMMA OwnerInOrder ==
  ASSUME MailInv, OrderInv, NEW o \in Owners, Quiet(o) \/ Alloc(o) \/ Free(o)
  PROVE  OrderInv'
<1>1. o \in Tasks /\ o \notin Senders
  BY MailboxAssumption DEF Tasks
<1>2. CASE Quiet(o)
  <2>1. Waiting' = Waiting
    BY <1>2, QuietIs, WaitingSame
  <2> QED BY <1>1, <1>2, <2>1, QuietIs, MovedInOrder
<1>3. CASE Alloc(o)
  BY <1>1, <1>3, AllocIs, MovedInOrder
<1>4. CASE Free(o)
  <2>1. CASE IdOf[o] # Box
    BY <1>1, <1>4, <2>1, FreeIsOf, MovedInOrder
  <2>2. CASE IdOf[o] = Box
    <3>1. Waiting' = <<>> /\ sent' = {} /\ got' = <<>>
      BY <1>4, <2>2, FreeIsOf
    <3>2. got' \o Waiting' = <<>>
      BY <3>1
    <3>3. InOrder(<<>>, {})
      BY DEF InOrder, IsInjective, ToSet
    <3> QED BY <3>1, <3>2, <3>3 DEF OrderInv, SentInv
  <2> QED BY <2>1, <2>2
<1> QED BY <1>2, <1>3, <1>4

LEMMA InitInOrder ==
  ASSUME MailInv, OrderInv, NEW t \in Tasks, InitRoot(t)
  PROVE  OrderInv'
<1>1. /\ task[t].pc = "init" /\ Goto(t, "lookup") /\ UNCHANGED <<memory, sent, got>>
      /\ TypeOK /\ "lookup" \in PCs
  BY DEF InitRoot, At, MailInv, PCs, history
<1>2. Moved(t, "lookup", task[t].op, task[t].hdl, task[t].seen, task[t].calls)
  BY <1>1, GotoIs
<1>3. task[t].pc \in Before
  BY <1>1 DEF Before
<1> QED BY <1>1, <1>2, <1>3, WaitingSame, MovedInOrder

LEMMA PutInOrder ==
  ASSUME MailInv, OrderInv, NEW s \in Senders, Put(s)
  PROVE  OrderInv'
<1> DEFINE h == task[s].hdl
           c == task[s].calls
           w == memory[h].msgs
<1>1. TypeOK /\ s \in Tasks /\ s \in Users /\ task[s].pc = "send" /\ "raise" \in PCs
  BY Roles DEF MailInv, PCs, Put, Place, At
<1>2. /\ h \in Handles /\ memory[h] # None /\ memory[h].id = Box
      /\ memory[h] \in Mailboxes /\ w \in Seq(Messages)
  BY <1>1, LocalsAre DEF MailInv, UserInv, TypeOK, Mailboxes
<1>3. PICK front \in Ends[s] :
        LET m == [from |-> s, n |-> c, front |-> front]
        IN  /\ memory' = [memory EXCEPT ![h].msgs = IF front THEN <<m>> \o w ELSE Append(w, m)]
            /\ sent' = sent \cup {m} /\ Goto(s, "raise") /\ got' = got
  <2>1. memory \in [Handles -> Mailboxes \cup {None}]
    BY <1>1 DEF TypeOK
  <2> QED BY <1>2, <2>1 DEF Put, Place, At, Queue
<1> DEFINE m == [from |-> s, n |-> c, front |-> front]
           q == IF front THEN <<m>> \o w ELSE Append(w, m)
<1>4. c \in 1 .. MaxSends /\ front \in BOOLEAN
  BY <1>1, MailboxAssumption DEF MailInv, RoleInv
<1>5. m \in Messages /\ m.from = s /\ m.n = c /\ m.front = front
  BY <1>4 DEF Messages
<1>6. /\ memory' = [memory EXCEPT ![h].msgs = q]
      /\ sent' = sent \cup {m} /\ Goto(s, "raise") /\ got' = got
  BY <1>3
<1>7. Waiting = w /\ got \in Seq(Messages)
  BY <1>1, <1>2, WaitingIs DEF TypeOK
<1>8. Waiting' = q
  <2>1. q \in Seq(Messages)
    <3> HIDE DEF m, w
    <3>1. Append(w, m) \in Seq(Messages) /\ <<m>> \in Seq(Messages)
      BY <1>2, <1>5, AppendProperties DEF w
    <3>2. <<m>> \o w \in Seq(Messages)
      BY <1>2, <3>1, ConcatProperties DEF w
    <3> QED BY <3>1, <3>2
  <2> HIDE DEF q
  <2> DEFINE r == [memory[h] EXCEPT !.msgs = q]
  <2>2. memory \in [Handles -> Mailboxes \cup {None}] /\ memory' = [memory EXCEPT ![h] = r]
    BY <1>1, <1>2, <1>6 DEF TypeOK
  <2>3. r \in Mailboxes /\ r.msgs = q /\ r.id = Box
    BY <1>2, <2>1 DEF Mailboxes
  <2> QED BY <1>2, <2>2, <2>3, WaitingBecomes
<1>9. \A x \in sent : x.from = s => x.n < c
  BY <1>1 DEF OrderInv, SentInv, Past, Before
<1>10. m \notin sent
  BY <1>4, <1>5, <1>9
<1>11. InOrder(got \o w, sent)
  BY <1>7 DEF OrderInv
<1>12. Moved(s, "raise", task[s].op, h, task[s].seen, c)
  BY <1>1, <1>6, GotoIs
<1> HIDE DEF m
<1>13. InOrder(got \o q, sent \cup {m})
  <2>1. CASE front
    <3>1. q = <<m>> \o w
      BY <2>1
    <3> HIDE DEF q, w
    <3> QED BY <1>2, <1>5, <1>7, <1>10, <1>11, <2>1, <3>1, AddedFirst DEF w
  <2>2. CASE ~front
    <3>1. q = Append(w, m)
      BY <2>2
    <3> HIDE DEF q, w
    <3> QED BY <1>2, <1>5, <1>7, <1>9, <1>10, <1>11, <3>1, AddedLast DEF w
  <2> QED BY <2>1, <2>2
<1> HIDE DEF q
<1>14. SentInv'
  <2> SUFFICES ASSUME NEW x \in sent' PROVE Past(x.from, x.n, task')
    BY DEF SentInv
  <2>1. \A u \in Senders : /\ task'[u].calls = task[u].calls
                           /\ task'[u].pc \in Before => task[u].pc \in Before
    BY <1>1, <1>12 DEF Moved, Before, Tasks
  <2>2. CASE x \in sent
    <3>1. x.from \in Senders /\ Past(x.from, x.n, task)
      BY <1>1, <2>2 DEF TypeOK, Messages, OrderInv, SentInv
    <3> QED BY <2>1, <3>1 DEF Past
  <2>3. CASE x = m
    <3>1. task'[s].calls = c /\ task'[s].pc \notin Before
      BY <1>1, <1>12 DEF Moved, Before
    <3> QED BY <1>4, <1>5, <2>3, <3>1 DEF Past
  <2> QED BY <1>6, <2>2, <2>3
<1> QED BY <1>6, <1>8, <1>13, <1>14 DEF OrderInv

LEMMA SenderInOrder ==
  ASSUME MailInv, OrderInv, NEW s \in Senders, Send(s) \/ GiveUp(s) \/ Raise(s)
  PROVE  OrderInv'
<1>1. TypeOK /\ s \in Tasks /\ s # Receiver /\ \A u \in Senders : u \in Tasks /\ task[u].calls \in Nat
  BY Roles, LocalsAre DEF MailInv, Tasks
<1>2. memory' = memory /\ sent' = sent /\ got' = got
  BY DEF Send, GiveUp, Raise, history
<1>3. Waiting' = Waiting
  BY <1>2, WaitingSame
<1>4. CASE Send(s)
  <2> DEFINE c == task[s].calls + 1
             pc == IF root.ready THEN "lookup" ELSE "init"
  <2>1. Call(s, "send", c) /\ c \in Nat /\ "send" \in Ops /\ c > task[s].calls
    BY <1>1, <1>4 DEF Send, Ops
  <2> HIDE DEF c
  <2>2. Moved(s, pc, "send", task[s].hdl, task[s].seen, c)
    BY <1>1, <2>1, CallIs
  <2> HIDE DEF pc
  <2>3. task'[s].calls = c /\ \A u \in Senders : u # s => task'[u] = task[u]
    BY <1>1, <2>2 DEF Moved
  <2>4. \A u \in Senders : /\ task'[u].calls >= task[u].calls
                           /\ task'[u].pc \in Before =>
                                task[u].pc \in Before \/ task'[u].calls > task[u].calls
    BY <1>1, <2>1, <2>3
  <2>5. \A u \in Senders : task[u].calls \in Nat /\ task'[u].calls \in Nat
    BY <1>1, <2>1, <2>3
  <2> QED BY <1>2, <1>3, <2>4, <2>5, StillInOrder
<1>5. CASE GiveUp(s) \/ Raise(s)
  <2>1. Return(s, None) /\ "idle" \notin Before
    BY <1>5 DEF GiveUp, Raise, Before
  <2>2. Moved(s, "idle", None, None, <<>>, task[s].calls)
    BY <1>1, <2>1, ReturnIs
  <2> QED BY <1>1, <1>2, <1>3, <2>1, <2>2, MovedInOrder
<1> QED BY <1>4, <1>5

LEMMA ReceiverInOrder ==
  ASSUME MailInv, OrderInv, Wake \/ Get
  PROVE  OrderInv'
<1>1. TypeOK /\ Receiver \in Tasks /\ Receiver \in Users /\ Receiver \notin Senders
  BY Roles, MailboxAssumption DEF MailInv
<1>2. CASE Wake
  <2> DEFINE pc == IF root.ready THEN "lookup" ELSE "init"
  <2>1. Call(Receiver, "receive", 0) /\ 0 \in Nat /\ "receive" \in Ops /\ UNCHANGED <<memory, sent, got>>
    BY <1>2 DEF Wake, Ops, history
  <2>2. Moved(Receiver, pc, "receive", task[Receiver].hdl, task[Receiver].seen, 0)
    BY <1>1, <2>1, CallIs
  <2> HIDE DEF pc
  <2> QED BY <1>1, <2>1, <2>2, WaitingSame, MovedInOrder
<1>3. CASE Get
  <2> DEFINE h == task[Receiver].hdl
             w == memory[h].msgs
  <2>1. /\ task[Receiver].pc = "receive" /\ sent' = sent
        /\ \/ /\ w # <<>> /\ memory' = [memory EXCEPT ![h].msgs = Tail(@)]
              /\ got' = Append(got, Head(w)) /\ Goto(Receiver, "lookup")
           \/ w = <<>> /\ Return(Receiver, None) /\ UNCHANGED <<memory, got>>
    BY <1>3 DEF Get, At, Queue
  <2>2. /\ h \in Handles /\ memory[h] # None /\ memory[h].id = Box
        /\ memory[h] \in Mailboxes /\ w \in Seq(Messages)
    BY <1>1, <2>1, LocalsAre DEF MailInv, UserInv, TypeOK, Mailboxes
  <2>3. CASE w = <<>> /\ Return(Receiver, None) /\ UNCHANGED <<memory, got>>
    <3>1. Moved(Receiver, "sleep", None, None, <<>>, task[Receiver].calls)
      BY <1>1, <2>3, ReturnIs
    <3> QED BY <1>1, <2>1, <2>3, <3>1, WaitingSame, MovedInOrder
  <2>4. CASE /\ w # <<>> /\ memory' = [memory EXCEPT ![h].msgs = Tail(@)]
             /\ got' = Append(got, Head(w)) /\ Goto(Receiver, "lookup")
    <3> DEFINE q == Tail(w)
               r == [memory[h] EXCEPT !.msgs = q]
    <3>1. memory \in [Handles -> Mailboxes \cup {None}] /\ memory' = [memory EXCEPT ![h] = r]
      BY <1>1, <2>2, <2>4 DEF TypeOK
    <3>2. r \in Mailboxes /\ r.msgs = q /\ r.id = Box
      <4>1. q \in Seq(Messages)
        <5> HIDE DEF w
        <5> QED BY <2>2, <2>4, HeadTailProperties
      <4> QED BY <2>2, <4>1 DEF Mailboxes
    <3> HIDE DEF q
    <3>3. Waiting' = q
      BY <2>2, <3>1, <3>2, WaitingBecomes
    <3>4. Waiting = w /\ got \in Seq(Messages)
      BY <1>1, <2>2, WaitingIs DEF TypeOK
    <3>5. Append(got, Head(w)) \o q = got \o w
      <4> HIDE DEF w
      <4> QED BY <2>2, <2>4, <3>4, GivenOut DEF q
    <3>6. got' \o Waiting' = got \o Waiting
      <4> HIDE DEF w
      <4> QED BY <2>4, <3>3, <3>4, <3>5
    <3>7. "lookup" \in PCs
      BY DEF PCs
    <3>8. Moved(Receiver, "lookup", task[Receiver].op, h, task[Receiver].seen, task[Receiver].calls)
      BY <1>1, <2>4, <3>7, GotoIs
    <3>9. \A s \in Senders : s \in Tasks /\ task'[s] = task[s]
      BY <1>1, <3>8 DEF Moved, Tasks
    <3>10. \A m \in sent : m.from \in Senders
      BY <1>1 DEF TypeOK, Messages
    <3>11. SentInv'
      BY <2>1, <3>9, <3>10 DEF OrderInv, SentInv, Past
    <3> QED BY <2>1, <3>6, <3>11 DEF OrderInv
  <2> QED BY <2>1, <2>3, <2>4
<1> QED BY <1>2, <1>3

LEMMA OrderNext ==
  ASSUME MailInv, OrderInv, [Next]_vars
  PROVE  OrderInv'
<1>1. ASSUME UNCHANGED <<memory, task, sent, got>> PROVE OrderInv'
  BY <1>1, WaitingSame DEF OrderInv, SentInv, Past
<1>2. ASSUME NEW t \in Tasks, Step(t) PROVE OrderInv'
  <2>1. CASE InitRoot(t)
    BY <2>1, InitInOrder
  <2>2. CASE Lookup(t)
    BY <2>2, LookupInOrder
  <2>3. CASE t \in Owners /\ Creating(t)
    BY <2>3, OwnerInOrder DEF Creating, Quiet
  <2>4. CASE t \in Senders /\ Sending(t)
    BY <2>4, PutInOrder, SenderInOrder DEF Sending
  <2>5. CASE t = Receiver /\ (Wake \/ Get)
    BY <2>5, ReceiverInOrder
  <2> QED BY <1>2, <2>1, <2>2, <2>3, <2>4, <2>5 DEF Step
<1>3. ASSUME NEW o \in Owners, Create(o) \/ Del(o) PROVE OrderInv'
  BY <1>3, OwnerInOrder DEF Quiet
<1>4. ASSUME NEW s \in Senders, Send(s) PROVE OrderInv'
  BY <1>4, SenderInOrder
<1> QED BY <1>1, <1>2, <1>3, <1>4 DEF Next, vars, Interrupt

(* Every message that was accepted is given out once or waits, and those   *)
(* that one task sent to the back are in the order of its calls: whichever *)
(* sender comes between two of them, to the front or to the back.          *)
THEOREM MessagesInOrder == Spec => []Ordered
<1>1. Init => OrderInv
  <2> SUFFICES ASSUME Init PROVE OrderInv
    OBVIOUS
  <2>1. {h \in Handles : memory[h] # None /\ memory[h].id = Box} = {}
    BY DEF Init
  <2>2. Waiting = <<>> /\ got = <<>> /\ sent = {}
    BY <2>1 DEF Waiting, Init
  <2>3. got \o Waiting = <<>>
    BY <2>2
  <2>4. InOrder(<<>>, {})
    BY DEF InOrder, IsInjective, ToSet
  <2> QED BY <2>2, <2>3, <2>4 DEF OrderInv, SentInv
<1>2. MailInv /\ OrderInv /\ [Next]_vars => OrderInv'
  BY OrderNext
<1>3. OrderInv => Ordered
  BY DEF OrderInv, InOrder, Ordered
<1> QED BY <1>1, <1>2, <1>3, MailInvariant, PTL DEF Spec
==============================================================================
