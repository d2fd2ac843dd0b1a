----------------------------- MODULE DeviceLock -----------------------------
(***************************************************************************)
(* One lock of device_lock.c: the mutex of a device is created by the      *)
(* first task that locks it, in a critical section entered after a test    *)
(* outside it.                                                             *)
(***************************************************************************)
EXTENDS Naturals

CONSTANTS Tasks, None

VARIABLES
  mutex_init, \* the bit of the device in mutex_init
  created,    \* how many mutexes were created: the last is in device_mutex
  at,         \* [Tasks -> where the task is in device_mutex_lock]
  holds       \* [Tasks -> the mutex it holds, 0 for none]

lockVars == <<mutex_init, created, at, holds>>

LockInit ==
  /\ mutex_init = FALSE /\ created = 0
  /\ at = [t \in Tasks |-> "out"] /\ holds = [t \in Tasks |-> 0]

Move(t, from, to) == at[t] = from /\ at' = [at EXCEPT ![t] = to]

\* The test of device_mutex_init outside the critical section.
Enter(t) ==
  /\ Move(t, "out", IF mutex_init THEN "take" ELSE "create")
  /\ UNCHANGED <<mutex_init, created, holds>>

\* Mutant: no second test.
CreateAlways(t) ==
  /\ Move(t, "create", "take")
  /\ created' = created + 1 /\ mutex_init' = TRUE
  /\ UNCHANGED holds

\* The critical section: a second test, the mutex, the bit.
Create(t) ==
  /\ Move(t, "create", "take")
  /\ created' = IF mutex_init THEN created ELSE created + 1
  /\ mutex_init' = TRUE
  /\ UNCHANGED holds

\* A wait of ten seconds that fails is repeated.
Take(t) ==
  /\ Move(t, "take", "in")
  /\ \A u \in Tasks : holds[u] # created
  /\ holds' = [holds EXCEPT ![t] = created]
  /\ UNCHANGED <<mutex_init, created>>

Unlock(t) ==
  /\ Move(t, "in", "out")
  /\ holds' = [holds EXCEPT ![t] = 0]
  /\ UNCHANGED <<mutex_init, created>>

Locking(t) == Enter(t) \/ Create(t) \/ Take(t)

\* The lock of a device is held by one task at a time, also when several
\* were the first to use it (the two tests of device_mutex_init).
Exclusive == \A t, u \in Tasks : at[t] = "in" /\ at[u] = "in" => t = u
=============================================================================
