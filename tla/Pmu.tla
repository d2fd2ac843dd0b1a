-------------------------------- MODULE Pmu --------------------------------
(***************************************************************************)
(* Tickless sleep of FreeRTOS on the RTL8195A (freertos_pmu_8195a.c): the  *)
(* wakelock and the mask of wake-up events, which tasks and interrupt      *)
(* handlers change with plain read-modify-write, the entry into sleep of   *)
(* the idle task, the table of sleep callbacks, and the correction of the  *)
(* kernel's tick count from a microsecond reading that wraps.              *)
(*                                                                         *)
(* A context is a task or an interrupt handler, numbered by priority: one  *)
(* runs only while none above it has something to do, and may be preempted *)
(* between any two steps.  The idle task is below them all.                *)
(***************************************************************************)
EXTENDS Integers, Sequences, FiniteSets

CONSTANTS
  Contexts,   \* 1..n, by priority
  Handlers,   \* those of them that are interrupt handlers, the topmost ones
  Locks,      \* bits of the wakelock
  Events,     \* bits of the wake-up mask
  OS, STIMER, \* the lock held from the start, the event of the system timer
  Uses,       \* [Contexts -> set of operations]
  Devices, Hooks,
  PerTick,    \* 1000: microseconds of a tick
  Wrap,       \* 2^32: the modulus of the reading in microseconds
  Counts,     \* 2^32: the modulus of the timer the reading is made from
  Eighth,     \* GTIMER_CLK_HZ / 8: what the timer counts in an eighth of a second
  EighthUs,   \* 125000: the microseconds of that
  MaxIdle,    \* the longest sleep, in ticks
  MaxLate,    \* how far a sleep may outlast its time, in microseconds
  MaxMissing, \* bound on the microseconds owed
  None

ASSUME PmuAssumption ==
  /\ IsFiniteSet(Contexts) /\ Contexts = 1..Cardinality(Contexts) /\ Handlers \subseteq Contexts
  /\ \A h \in Handlers, t \in Contexts \ Handlers : h > t
  /\ OS \in Locks /\ STIMER \in Events
  /\ Uses \in [Contexts -> SUBSET (({"acquire", "release"} \X Locks)
                                    \union ({"add", "del"} \X Events))]
  /\ {PerTick, Wrap, Counts, Eighth, EighthUs} \subseteq Nat \ {0}
  /\ {MaxIdle, MaxLate, MaxMissing} \subseteq Nat
  /\ MaxIdle * PerTick + MaxLate + MaxMissing < Wrap

VARIABLES
  word,      \* [Words -> set of bits]: wakelock and wakeup_event
  todo,      \* [Contexts -> the updates the context has still to make]
  read,      \* [Contexts -> the word it has loaded and not stored yet, or None]
  idle,      \* where the idle task is: "awake", "checked", "asleep"
  pended,    \* a task was made ready while the scheduler was suspended
  stime,     \* the expected idle time, in ticks
  before,    \* the timer when the sleep began
  missing_tick,
  table,     \* psm_dd_hook_infos
  told,      \* history: the words as the callers believe them
  risk,      \* history: <<word, bit>> changed in the middle of a lower update
  late,      \* history: locks taken by a handler since the idle task's check
  owed,      \* history: microseconds slept, less those stepped or lost in a wrap
  overstep,  \* history: vTaskStepTick was asked for more than stime
  astray,    \* history: the timer has rolled over in a sleep, or a sleep with no
             \* microsecond missing was over within one count of it
  regs,      \* history: [device -> hook] as registered
  suspended  \* history: the devices whose sleep hook was called last

locking == <<word, todo, read, told, risk>>
entering == <<idle, pended, stime, before>>
clock == <<missing_tick, owed, overstep, astray>>
drivers == <<table, regs>>
vars == <<locking, entering, clock, drivers, late, suspended>>

Words == {"wakelock", "wakeup_event"}
Bits == Locks \union Events
Update == [word : Words, clear : SUBSET Bits, set : SUBSET Bits]

(***************************************************************************)
(* The operations, as the updates they make one after the other.           *)
(***************************************************************************)
acquire_wakelock(l) == <<[word |-> "wakelock", clear |-> {}, set |-> {l}]>>
release_wakelock(l) == <<[word |-> "wakelock", clear |-> {l}, set |-> {}]>>
pmu_add_wakeup_event(e) == <<[word |-> "wakeup_event", clear |-> {}, set |-> {e}]>>
pmu_del_wakeup_event(e) ==
  <<[word |-> "wakeup_event", clear |-> {e}, set |-> {}],
    [word |-> "wakeup_event", clear |-> {}, set |-> {STIMER}]>>
OperationOf(o) ==
  CASE o[1] = "acquire" -> acquire_wakelock(o[2])
    [] o[1] = "release" -> release_wakelock(o[2])
    [] o[1] = "add" -> pmu_add_wakeup_event(o[2])
    [] o[1] = "del" -> pmu_del_wakeup_event(o[2])

Init ==
  /\ word = [w \in Words |-> IF w = "wakelock" THEN {OS} ELSE Events]
  /\ todo = [c \in Contexts |-> <<>>] /\ read = [c \in Contexts |-> None]
  /\ idle = "awake" /\ pended = FALSE /\ stime = 0 /\ before = 0
  /\ missing_tick = 0 /\ table = <<>>
  /\ told = word /\ risk = {} /\ late = {}
  /\ owed = 0 /\ overstep = FALSE /\ astray = FALSE
  /\ regs = <<>> /\ suspended = {}

Quiet(cs) == \A c \in cs : todo[c] = <<>>
Above(c) == {d \in Contexts : d > c}
Below(c) == {d \in Contexts : d < c}

(***************************************************************************)
(* Updates of the two words.                                               *)
(***************************************************************************)
\* A context starts an operation: the sleep masks the interrupts, and a
\* suspended scheduler runs no task.  A handler may make a task ready.
Call(c) ==
  /\ idle # "asleep" /\ (idle = "checked" => c \in Handlers)
  /\ Quiet({c} \union Above(c))
  /\ \E o \in Uses[c] : todo' = [todo EXCEPT ![c] = OperationOf(o)]
  /\ pended' \in {pended, idle = "checked"}
  /\ UNCHANGED <<word, read, told, risk, idle, stime, before, clock, drivers, late, suspended>>

Running(c) == todo[c] # <<>> /\ Quiet(Above(c))

Load(c) ==
  /\ Running(c) /\ read[c] = None
  /\ read' = [read EXCEPT ![c] = word[Head(todo[c]).word]]
  /\ UNCHANGED <<word, todo, told, risk, entering, clock, drivers, late, suspended>>

\* Mutant: the word is assigned, not changed.
Assigned(value, u) == u.set

Applied(value, u) == (value \ u.clear) \union u.set
Store(c) ==
  LET u == Head(todo[c])
      bits == {<<u.word, b>> : b \in u.clear \union u.set}
      midway == \E d \in Below(c) : read[d] # None /\ Head(todo[d]).word = u.word
  IN /\ Running(c) /\ read[c] # None
     /\ word' = [word EXCEPT ![u.word] = Applied(read[c], u)]
     /\ read' = [read EXCEPT ![c] = None]
     /\ todo' = [todo EXCEPT ![c] = Tail(@)]
     /\ told' = [told EXCEPT ![u.word] = (@ \ u.clear) \union u.set]
     /\ risk' = IF midway THEN risk \union bits ELSE risk \ bits
     /\ late' = IF idle = "checked" /\ u.word = "wakelock"
                THEN (late \ u.clear) \union u.set ELSE late
     /\ UNCHANGED <<entering, clock, drivers, suspended>>

(***************************************************************************)
(* The table of sleep callbacks, changed by tasks.                         *)
(***************************************************************************)
Awake == idle = "awake" /\ Quiet(Contexts)
RowsOf(dev) == {i \in 1..Len(table) : table[i].dev = dev}

pmu_register_sleep_callback(dev, hook) ==
  /\ Awake
  /\ LET row == [dev |-> dev, hook |-> hook]
     IN table' = IF RowsOf(dev) = {} THEN Append(table, row)
                 ELSE [i \in 1..Len(table) |-> IF i \in RowsOf(dev) THEN row ELSE table[i]]
  /\ regs' = [d \in DOMAIN regs \union {dev} |-> IF d = dev THEN hook ELSE regs[d]]
  /\ UNCHANGED <<locking, entering, clock, late, suspended>>

\* Mutant: the last row goes, whichever was asked for.
WithoutLast(i) == [j \in 1..(Len(table) - 1) |-> table[j]]
\* Mutant: the row is emptied, and still counted.
Emptied(i) == [table EXCEPT ![i] = [dev |-> None, hook |-> None]]

\* The last row moves into the place of the row that goes.
Without(i) == [j \in 1..(Len(table) - 1) |-> IF j = i THEN table[Len(table)] ELSE table[j]]
pmu_unregister_sleep_callback(dev) ==
  /\ Awake
  /\ \E i \in RowsOf(dev) : table' = Without(i)
  /\ regs' = [d \in DOMAIN regs \ {dev} |-> regs[d]]
  /\ UNCHANGED <<locking, entering, clock, late, suspended>>

(***************************************************************************)
(* The idle task.                                                          *)
(***************************************************************************)
\* Mutant: only the lock of the system is looked at.
OsIsReady == OS \notin word["wakelock"]

freertos_ready_to_sleep == word["wakelock"] = {}
\* With the scheduler suspended, interrupts still on.
Check ==
  /\ Awake /\ freertos_ready_to_sleep
  /\ idle' = "checked"
  /\ stime' \in 2..MaxIdle
  /\ UNCHANGED <<locking, pended, before, clock, drivers, late, suspended>>

\* Interrupts off: eTaskConfirmSleepModeStatus looks for tasks, not for locks.
Abort ==
  /\ idle = "checked" /\ Quiet(Contexts) /\ pended
  /\ idle' = "awake" /\ stime' = 0 /\ pended' = FALSE /\ late' = {}
  /\ UNCHANGED <<locking, before, clock, drivers, suspended>>

\* The time awake before it is any time, so the counter stands anywhere.
Sleep ==
  /\ idle = "checked" /\ Quiet(Contexts) /\ ~pended
  /\ idle' = "asleep"
  /\ before' \in 0..(Counts - 1)
  /\ suspended' = {table[i].dev : i \in 1..Len(table)}
  /\ UNCHANGED <<locking, pended, stime, clock, drivers, late>>

\* The microseconds of a count of the timer, in the arithmetic of the code.
Micros(count) == (count \div Eighth) * EighthUs + ((count % Eighth) * EighthUs) \div Eighth

us_ticker_read(count) == Micros(count % Counts) % Wrap

\* Two equal readings count as a wrap.
Passed(from, to) == IF to > from THEN to - from ELSE (Wrap - 1 - from) + to
\* Mutant: what a long sleep leaves is dropped.
LeftOfShort(passed) == passed % PerTick

\* A long sleep counts for stime and keeps the rest for later.
Credited(passed) == IF passed > stime * PerTick THEN stime * PerTick ELSE passed
Left(passed) ==
  IF passed > stime * PerTick THEN passed - stime * PerTick ELSE passed % PerTick
Wake(elapsed) ==
  LET from == us_ticker_read(before)
      to == us_ticker_read(before + elapsed)
      slept == Micros(before + elapsed) - Micros(before)
      passed == (Passed(from, to) + missing_tick) % Wrap
      wraps == IF to > from THEN 0 ELSE 1
      strays == before + elapsed >= Counts \/ (slept = 0 /\ missing_tick = 0)
      ticks == Credited(passed) \div PerTick
  IN /\ idle = "asleep"
     /\ slept <= stime * PerTick + MaxLate
     /\ missing_tick' = Left(passed)
     /\ overstep' = (overstep \/ ticks > stime)
     /\ astray' = (astray \/ strays)
     /\ owed' = IF astray' THEN 0 ELSE owed + slept - wraps - PerTick * ticks
     /\ owed' <= MaxMissing
     /\ suspended' = suspended \ {table[i].dev : i \in 1..Len(table)}
     /\ idle' = "awake" /\ stime' = 0 /\ before' = 0 /\ late' = {}
     /\ UNCHANGED <<locking, pended, drivers>>

Next ==
  \/ \E c \in Contexts : Call(c) \/ Load(c) \/ Store(c)
  \/ \E d \in Devices, h \in Hooks : pmu_register_sleep_callback(d, h)
  \/ \E d \in Devices : pmu_unregister_sleep_callback(d)
  \/ Check \/ Abort \/ Sleep
  \/ \E elapsed \in 0..(stime * PerTick + MaxLate) : Wake(elapsed)

Spec == Init /\ [][Next]_vars

(***************************************************************************)
(* Properties.                                                             *)
(***************************************************************************)
\* Types of the variables of freertos_pmu_8195a.c; in particular missing_tick and
\* the last load of a context stay in range.
TypeOK ==
  /\ word \in [Words -> SUBSET Bits] /\ told \in [Words -> SUBSET Bits]
  /\ todo \in [Contexts -> Seq(Update)] /\ \A c \in Contexts : Len(todo[c]) <= 2
  /\ read \in [Contexts -> (SUBSET Bits) \union {None}]
  /\ idle \in {"awake", "checked", "asleep"} /\ pended \in BOOLEAN
  /\ stime \in 0..MaxIdle /\ before \in 0..(Counts - 1)
  /\ missing_tick \in 0..(Wrap - 1) /\ owed \in Int /\ {astray, overstep} \subseteq BOOLEAN
  /\ table \in Seq([dev : Devices, hook : Hooks]) /\ suspended \subseteq Devices
  /\ risk \subseteq Words \X Bits /\ late \subseteq Locks

\* An update of a bit is lost only to a context of lower priority that was in
\* the middle of an update of the same word: the update of the lowest user is
\* never lost, nor is any other that interrupts none (the unlocked
\* read-modify-write of acquire_wakelock, release_wakelock and of the events).
OnlyPreemptingUpdatesAreLost ==
  \A w \in Words, b \in Bits :
    <<w, b>> \notin risk => (b \in word[w] <=> b \in told[w])

\* While a module holds a bit of the wakelock the system does not sleep, but
\* for the bits of an update that interrupted another, and of a handler that
\* took them after the idle task had looked and made no task ready; and no sleep
\* is without an end: the system timer wakes it, whatever was deleted from the
\* events and whoever was interrupted in it (pmu_del_wakeup_event).
SoundSleep ==
  idle = "asleep" =>
    /\ told["wakelock"] \subseteq late \union {l \in Locks : <<"wakelock", l>> \in risk}
    /\ STIMER \in word["wakeup_event"]

\* The ticks stepped and missing_tick make up all the time slept, less one
\* microsecond for each wrap of the reading, unless the timer below it rolls
\* over in the middle of a sleep, or a sleep that begins with no microsecond
\* missing is over before the reading moves, which passes for a whole wrap; and
\* vTaskStepTick is never asked for more than the expected idle time, which its
\* assertion forbids, gone astray or not.
Accounted == ~overstep /\ (~astray => owed = missing_tick)

\* The table holds one row per registered device, with its last hook; every
\* registered device is suspended during a sleep, and none after it
\* (pmu_register_sleep_callback, pmu_unregister_sleep_callback).
Registered ==
  /\ \A d \in Devices : Cardinality(RowsOf(d)) = IF d \in DOMAIN regs THEN 1 ELSE 0
  /\ \A i \in 1..Len(table) : table[i].hook = regs[table[i].dev]
  /\ suspended = IF idle = "asleep" THEN DOMAIN regs ELSE {}
=============================================================================
