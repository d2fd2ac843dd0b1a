------------------------------ MODULE PmuProofs ------------------------------
(***************************************************************************)
(* The tickless sleep, for any contexts, locks, events and devices, and    *)
(* any size of a tick, of the reading and of the counter below it.         *)
(***************************************************************************)
EXTENDS Pmu, NatLemmas, FiniteSetTheorems, SequenceTheorems

(***************************************************************************)
(* The invariants.  Doing is what a context may still have to make: an     *)
(* operation, or what is left of it.                                        *)
(***************************************************************************)
SetsTimer(u) == u.word = "wakeup_event" /\ STIMER \in u.set
ClearsTimer(u) == u.word = "wakeup_event" /\ STIMER \in u.clear

LocksOnly(u) == u.word = "wakelock" => u.clear \union u.set \subseteq Locks

Doing(s) ==
  /\ s \in Seq(Update) /\ Len(s) \in 0..2
  /\ Len(s) > 0 => LocksOnly(s[1]) /\ (ClearsTimer(s[1]) => Len(s) = 2)
  /\ Len(s) = 2 => LocksOnly(s[2]) /\ ~ClearsTimer(s[2]) /\ SetsTimer(s[2])

\* The context will put the system timer back.
Restores(c) == todo[c] # <<>> /\ SetsTimer(todo[c][Len(todo[c])])

DoingInv ==
  \A c \in Contexts : Doing(todo[c]) /\ (read[c] # None => todo[c] # <<>>)

UpdatesInv ==
  /\ \A c \in Contexts, b \in Bits :
       read[c] # None /\ <<Head(todo[c]).word, b>> \notin risk =>
         (b \in read[c] <=> b \in told[Head(todo[c]).word])
  /\ OnlyPreemptingUpdatesAreLost

TimerInv ==
  /\ STIMER \notin word["wakeup_event"] => \E c \in Contexts : Restores(c)
  /\ \A c \in Contexts :
       read[c] # None /\ Head(todo[c]).word = "wakeup_event" /\ STIMER \notin read[c] =>
         \E d \in Contexts : d <= c /\ Restores(d)

SleepInv ==
  /\ told["wakelock"] \subseteq Locks
  /\ idle = "asleep" => Quiet(Contexts)
  /\ idle # "awake" =>
       told["wakelock"] \subseteq late \union {l \in Locks : <<"wakelock", l>> \in risk}

ClockInv ==
  /\ Accounted
  /\ ~astray => missing_tick <= MaxMissing

TableInv ==
  /\ DOMAIN regs \subseteq Devices
  /\ \A i \in 1..Len(table) : table[i].dev \in DOMAIN regs /\ table[i].hook = regs[table[i].dev]
  /\ \A d \in DOMAIN regs : \E i \in 1..Len(table) : table[i].dev = d
  /\ \A i, j \in 1..Len(table) : table[i].dev = table[j].dev => i = j
  /\ suspended = IF idle = "asleep" THEN DOMAIN regs ELSE {}
-----------------------------------------------------------------------------


\* A single update that leaves the event of the system timer alone.
LEMMA SingleIs ==
  ASSUME NEW w \in Words, NEW l \in SUBSET Bits, NEW k \in SUBSET Bits,
         w = "wakelock" => l \union k \subseteq Locks,
         w = "wakeup_event" => STIMER \notin l
  PROVE  Doing(<<[word |-> w, clear |-> l, set |-> k]>>)
<1> DEFINE u == [word |-> w, clear |-> l, set |-> k]
<1>1. u \in Update /\ LocksOnly(u) /\ ~ClearsTimer(u)
  BY DEF Update, LocksOnly, ClearsTimer
<1> HIDE DEF u
<1>2. <<u>> \in Seq(Update) /\ Len(<<u>>) = 1 /\ <<u>>[1] = u
  BY <1>1
<1> QED
  BY <1>1, <1>2 DEF Doing, u

\* What is left to do is a short sequence of updates.
LEMMA DoingIs ==
  ASSUME NEW s, Doing(s)
  PROVE  s \in Seq(Update) /\ Len(s) <= 2
BY DEF Doing

\* The deletion of an event, which puts the system timer back.
LEMMA DelIs ==
  ASSUME NEW e \in Events
  PROVE  Doing(pmu_del_wakeup_event(e)) /\ pmu_del_wakeup_event(e) # <<>>
<1> DEFINE u == [word |-> "wakeup_event", clear |-> {e}, set |-> {}]
           v == [word |-> "wakeup_event", clear |-> {}, set |-> {STIMER}]
<1>1. u \in Update /\ v \in Update
  BY PmuAssumption DEF Update, Words, Bits
<1>2. SetsTimer(v) /\ ~ClearsTimer(v) /\ LocksOnly(u) /\ LocksOnly(v)
  BY DEF SetsTimer, ClearsTimer, LocksOnly
<1>3. pmu_del_wakeup_event(e) = <<u, v>>
  BY DEF pmu_del_wakeup_event
<1> HIDE DEF u, v
<1>4. /\ <<u, v>> \in Seq(Update) /\ Len(<<u, v>>) = 2
      /\ <<u, v>>[1] = u /\ <<u, v>>[2] = v
  BY <1>1
<1> QED
  BY <1>2, <1>3, <1>4 DEF Doing

\* An operation, from its start.
LEMMA OperationIs ==
  ASSUME NEW c \in Contexts, NEW o \in Uses[c]
  PROVE  Doing(OperationOf(o)) /\ OperationOf(o) # <<>>
<1>1. o \in ({"acquire", "release"} \X Locks) \union ({"add", "del"} \X Events)
  BY PmuAssumption
<1>2. \/ o[1] \in {"acquire", "release"} /\ o[2] \in Locks
      \/ o[1] \in {"add", "del"} /\ o[2] \in Events
  BY <1>1
<1>3. CASE o[1] = "acquire"
  <2>1. OperationOf(o) = <<[word |-> "wakelock", clear |-> {}, set |-> {o[2]}]>>
    BY <1>3 DEF OperationOf, acquire_wakelock
  <2> QED
    BY <1>2, <1>3, <2>1, SingleIs DEF Words, Bits
<1>4. CASE o[1] = "release"
  <2>1. OperationOf(o) = <<[word |-> "wakelock", clear |-> {o[2]}, set |-> {}]>>
    BY <1>4 DEF OperationOf, release_wakelock
  <2> QED
    BY <1>2, <1>4, <2>1, SingleIs DEF Words, Bits
<1>5. CASE o[1] = "add"
  <2>1. OperationOf(o) = <<[word |-> "wakeup_event", clear |-> {}, set |-> {o[2]}]>>
    BY <1>5 DEF OperationOf, pmu_add_wakeup_event
  <2> QED
    BY <1>2, <1>5, <2>1, SingleIs DEF Words, Bits
<1>6. CASE o[1] = "del"
  <2>1. o[2] \in Events
    BY <1>2, <1>6
  <2>2. OperationOf(o) = pmu_del_wakeup_event(o[2])
    BY <1>6 DEF OperationOf
  <2> QED
    BY <2>1, <2>2, DelIs
<1> QED BY <1>2, <1>3, <1>4, <1>5, <1>6

\* What is left when the first update has been made.
LEMMA RestIs ==
  ASSUME NEW s, Doing(s), s # <<>>
  PROVE  /\ Head(s) = s[1] /\ Head(s) \in Update /\ LocksOnly(Head(s)) /\ Doing(Tail(s))
         /\ ClearsTimer(Head(s)) => Tail(s) # <<>>
         /\ Tail(s) = <<>> => Len(s) = 1
         /\ Tail(s) # <<>> => /\ SetsTimer(s[Len(s)])
                              /\ Tail(s)[Len(Tail(s))] = s[Len(s)]
<1>1. s \in Seq(Update) /\ Len(s) \in {1, 2}
  BY DEF Doing
<1>2. /\ Head(s) = s[1] /\ Head(s) \in Update
      /\ Tail(s) \in Seq(Update) /\ Len(Tail(s)) = Len(s) - 1
      /\ \A i \in 1..Len(Tail(s)) : Tail(s)[i] = s[i + 1]
  BY <1>1, HeadTailProperties
<1>3. CASE Len(s) = 1
  <2>1. Tail(s) = <<>>
    <3>1. Len(Tail(s)) = 0
      BY <1>2, <1>3
    <3> QED
      BY <1>2, <3>1, EmptySeq
  <2>2. Doing(<<>>)
    BY DEF Doing
  <2>3. LocksOnly(s[1]) /\ ~ClearsTimer(s[1])
    BY <1>3 DEF Doing
  <2> QED
    BY <1>2, <1>3, <2>1, <2>2, <2>3
<1>4. CASE Len(s) = 2
  <2>1. Len(Tail(s)) = 1 /\ Tail(s)[1] = s[2] /\ Tail(s) # <<>>
    <3>1. Len(Tail(s)) = 1 /\ Tail(s)[1] = s[2]
      BY <1>2, <1>4
    <3>2. Tail(s) # <<>>
      <4>1. Len(<<>>) # 1
        OBVIOUS
      <4> QED
        BY <3>1, <4>1, Zenon
    <3> QED
      BY <3>1, <3>2
  <2>2. LocksOnly(s[1]) /\ LocksOnly(s[2]) /\ ~ClearsTimer(s[2]) /\ SetsTimer(s[2])
    BY <1>4 DEF Doing
  <2>3. Doing(Tail(s))
    BY <1>2, <2>1, <2>2 DEF Doing
  <2> QED
    BY <1>2, <1>4, <2>1, <2>2, <2>3
<1> QED BY <1>1, <1>3, <1>4

LEMMA DoingInvInductive ==
  ASSUME DoingInv, TypeOK, [Next]_vars
  PROVE  DoingInv'
<1>1. ASSUME NEW c \in Contexts, Call(c) PROVE DoingInv'
  <2>1. PICK o \in Uses[c] : todo' = [todo EXCEPT ![c] = OperationOf(o)]
    BY <1>1 DEF Call
  <2> QED BY <1>1, <2>1, OperationIs DEF Call, DoingInv, TypeOK
<1>2. ASSUME NEW c \in Contexts, Load(c) PROVE DoingInv'
  BY <1>2 DEF Load, Running, DoingInv, TypeOK
<1>3. ASSUME NEW c \in Contexts, Store(c) PROVE DoingInv'
  BY <1>3, RestIs DEF Store, Running, DoingInv, TypeOK
<1>4. CASE UNCHANGED locking
  BY <1>4 DEF locking, DoingInv
<1> QED
  BY <1>1, <1>2, <1>3, <1>4 DEF Next, vars, pmu_register_sleep_callback,
     pmu_unregister_sleep_callback, Check, Abort, Sleep, Wake

\* The bounds, one by one.
LEMMA BoundsAre ==
  /\ PerTick \in Nat \ {0} /\ Wrap \in Nat \ {0} /\ Counts \in Nat \ {0}
  /\ Eighth \in Nat \ {0} /\ EighthUs \in Nat \ {0}
  /\ MaxIdle \in Nat /\ MaxLate \in Nat /\ MaxMissing \in Nat
  /\ MaxIdle * PerTick + MaxLate + MaxMissing < Wrap
BY PmuAssumption

\* What a wake-up adds to missing_tick, and what it makes of it.
LEMMA LeftIs ==
  ASSUME TypeOK, NEW passed \in 0..(Wrap - 1)
  PROVE  Left(passed) \in 0..(Wrap - 1)
<1>1. stime \in Nat /\ PerTick \in Nat \ {0} /\ Wrap \in Nat \ {0}
  BY BoundsAre DEF TypeOK
<1>2. CASE passed > stime * PerTick
  <2>1. stime * PerTick \in Nat
    BY <1>1
  <2> QED BY <1>1, <1>2, <2>1 DEF Left
<1>3. CASE ~(passed > stime * PerTick)
  <2>1. passed % PerTick \in 0..(PerTick - 1) /\ passed \div PerTick \in Nat
        /\ passed = PerTick * (passed \div PerTick) + (passed % PerTick)
    <3>1. passed \in Nat
      BY <1>1
    <3> QED BY <1>1, <3>1, Division
  <2>2. \A q, r \in Nat : PerTick * q + r >= r
    BY <1>1
  <2>3. passed % PerTick <= passed
    BY <2>1, <2>2
  <2> QED BY <1>1, <1>3, <2>1, <2>3 DEF Left
<1> QED BY <1>2, <1>3

\* What it credits to the kernel is whole ticks or all of it.
LEMMA CreditedIs ==
  ASSUME TypeOK, NEW passed \in 0..(Wrap - 1)
  PROVE  Credited(passed) \in Nat /\ Credited(passed) \div PerTick \in Nat
<1>1. stime \in Nat /\ PerTick \in Nat \ {0} /\ passed \in Nat
  BY BoundsAre DEF TypeOK
<1>2. stime * PerTick \in Nat
  BY <1>1
<1>3. Credited(passed) \in Nat
  BY <1>1, <1>2 DEF Credited
<1> QED BY <1>1, <1>3, Division

\* The microseconds of a count: no less than one of them is lost to rounding.
LEMMA MicrosIs ==
  ASSUME NEW n \in Nat
  PROVE  /\ Micros(n) \in Nat
         /\ \E m \in 0..(Eighth - 1) : n * EighthUs = Eighth * Micros(n) + m
<1> DEFINE q == n \div Eighth
           r == n % Eighth
           d == (r * EighthUs) \div Eighth
           m == (r * EighthUs) % Eighth
<1>1. Eighth \in Nat \ {0} /\ EighthUs \in Nat \ {0}
  BY BoundsAre
<1>2. q \in Nat /\ r \in 0..(Eighth - 1) /\ n = Eighth * q + r
  BY <1>1, Division
<1> HIDE DEF q, r
<1>3. r * EighthUs \in Nat
  BY <1>1, <1>2
<1>4. d \in Nat /\ m \in 0..(Eighth - 1) /\ r * EighthUs = Eighth * d + m
  BY <1>1, <1>3, Division
<1>5. Micros(n) = q * EighthUs + d
  BY DEF Micros, q, r
<1> HIDE DEF d, m
<1>6. Micros(n) \in Nat
  BY <1>1, <1>2, <1>4, <1>5
<1>7. n * EighthUs = Eighth * Micros(n) + m
  <2>1. n * EighthUs = (Eighth * q) * EighthUs + r * EighthUs
    BY <1>1, <1>2
  <2>2. Eighth * Micros(n) = Eighth * (q * EighthUs) + Eighth * d
    BY <1>1, <1>2, <1>4, <1>5
  <2>3. (Eighth * q) * EighthUs = Eighth * (q * EighthUs)
    BY <1>1, <1>2
  <2> DEFINE u == Eighth * (q * EighthUs)
             v == Eighth * d
  <2>4. u \in Nat /\ v \in Nat
    BY <1>1, <1>2, <1>4
  <2>5. n * EighthUs = u + (v + m) /\ Eighth * Micros(n) = u + v
    BY <1>4, <2>1, <2>2, <2>3
  <2> HIDE DEF u, v
  <2> QED BY <1>1, <1>4, <2>4, <2>5
<1> QED BY <1>4, <1>6, <1>7

\* It never falls while the timer counts.
LEMMA MicrosGrow ==
  ASSUME NEW b \in Nat, NEW e \in Nat
  PROVE  Micros(b) <= Micros(b + e)
<1>1. Eighth \in Nat \ {0} /\ EighthUs \in Nat \ {0} /\ b + e \in Nat
  BY BoundsAre
<1>2. /\ Micros(b) \in Nat
      /\ \E m \in 0..(Eighth - 1) : b * EighthUs = Eighth * Micros(b) + m
  BY MicrosIs
<1>3. /\ Micros(b + e) \in Nat
      /\ \E m \in 0..(Eighth - 1) : (b + e) * EighthUs = Eighth * Micros(b + e) + m
  BY <1>1, MicrosIs
<1>4. (b + e) * EighthUs = b * EighthUs + e * EighthUs /\ e * EighthUs \in Nat
  BY <1>1
<1>5. ASSUME NEW x \in Nat, NEW y \in Nat, NEW m \in 0..(Eighth - 1), NEW k \in 0..(Eighth - 1),
             Eighth * x + m <= Eighth * y + k
      PROVE  x <= y
  <2>1. SUFFICES ASSUME y + 1 <= x PROVE FALSE
    BY <1>5
  <2>2. Eighth * (y + 1) <= Eighth * x
    BY <1>1, <2>1
  <2>3. Eighth * (y + 1) = Eighth * y + Eighth
    BY <1>1
  <2> DEFINE u == Eighth * x
             v == Eighth * y
  <2>4. u \in Nat /\ v \in Nat /\ v + Eighth <= u /\ u + m <= v + k
    BY <1>1, <1>5, <2>2, <2>3
  <2> HIDE DEF u, v
  <2> QED BY <1>1, <2>4
<1> DEFINE x == Micros(b)
           y == Micros(b + e)
           s == b * EighthUs
           t == (b + e) * EighthUs
<1>6. s \in Nat /\ t \in Nat /\ s <= t
  BY <1>1, <1>4
<1> HIDE DEF x, y, s, t
<1>7. PICK m \in 0..(Eighth - 1) : s = Eighth * x + m
  BY <1>2 DEF x, s
<1>8. PICK k \in 0..(Eighth - 1) : t = Eighth * y + k
  BY <1>3 DEF y, t
<1>9. x \in Nat /\ y \in Nat
  BY <1>2, <1>3 DEF x, y
<1> QED BY <1>5, <1>6, <1>7, <1>8, <1>9 DEF x, y

LEMMA ReadingIs ==
  ASSUME NEW n \in Nat
  PROVE  us_ticker_read(n) \in 0..(Wrap - 1)
<1>1. n % Counts \in Nat
  BY BoundsAre, Division
<1>2. Micros(n % Counts) \in Nat
  BY <1>1, MicrosIs
<1> QED BY <1>2, BoundsAre, Division DEF us_ticker_read

\* The steps, action by action, for the proofs of the invariants below.
LEMMA StepIs ==
  ASSUME [Next]_vars
  PROVE  \/ \E c \in Contexts : Call(c) \/ Load(c) \/ Store(c)
         \/ \E d \in Devices, h \in Hooks : pmu_register_sleep_callback(d, h)
         \/ \E d \in Devices : pmu_unregister_sleep_callback(d)
         \/ Check \/ Abort \/ Sleep
         \/ \E elapsed \in 0..(stime * PerTick + MaxLate) : Wake(elapsed)
         \/ UNCHANGED vars
BY DEF Next

\* The table without one of its rows.
LEMMA WithoutIs ==
  ASSUME NEW S, table \in Seq(S), NEW i \in 1..Len(table)
  PROVE  /\ Without(i) \in Seq(S) /\ Len(Without(i)) = Len(table) - 1
         /\ \A j \in 1..(Len(table) - 1) :
              Without(i)[j] = IF j = i THEN table[Len(table)] ELSE table[j]
<1> DEFINE n == Len(table)
<1>1. n \in Nat /\ n > 0 /\ \A j \in 1..n : table[j] \in S
  OBVIOUS
<1>2. Without(i) \in [1..(n - 1) -> S]
  BY <1>1 DEF Without
<1>3. n - 1 \in Nat
  BY <1>1
<1>4. Without(i) \in Seq(S)
  BY <1>2, <1>3, SeqDef
<1> QED
  BY <1>1, <1>2, <1>4 DEF Without

LEMMA TypeInductive ==
  ASSUME TypeOK, DoingInv, [Next]_vars
  PROVE  TypeOK'
<1>1. ASSUME NEW c \in Contexts, Call(c) PROVE TypeOK'
  <2>1. PICK o \in Uses[c] : todo' = [todo EXCEPT ![c] = OperationOf(o)]
    BY <1>1 DEF Call
  <2>2. OperationOf(o) \in Seq(Update) /\ Len(OperationOf(o)) <= 2
    BY OperationIs, DoingIs
  <2>3. todo' \in [Contexts -> Seq(Update)] /\ \A d \in Contexts : Len(todo'[d]) <= 2
    BY <2>1, <2>2 DEF TypeOK
  <2> QED BY <1>1, <2>3 DEF Call, TypeOK, clock, drivers
<1>2. ASSUME NEW c \in Contexts, Load(c) PROVE TypeOK'
  <2>1. Head(todo[c]).word \in Words
    BY <1>2, RestIs DEF Load, Running, DoingInv, Update
  <2> QED BY <1>2, <2>1 DEF Load, TypeOK, entering, clock, drivers
<1>3. ASSUME NEW c \in Contexts, Store(c) PROVE TypeOK'
  <2> DEFINE u == Head(todo[c])
  <2>1. /\ u \in Update /\ LocksOnly(u)
        /\ Tail(todo[c]) \in Seq(Update) /\ Len(Tail(todo[c])) <= 2
    <3>1. Doing(todo[c]) /\ todo[c] # <<>>
      BY <1>3 DEF Store, Running, DoingInv
    <3>2. u \in Update /\ LocksOnly(u) /\ Doing(Tail(todo[c]))
      BY <3>1, RestIs
    <3> QED BY <3>2, DoingIs
  <2>2. u.word \in Words /\ u.clear \in SUBSET Bits /\ u.set \in SUBSET Bits
    BY <2>1 DEF Update
  <2>3. read[c] \in SUBSET Bits
    BY <1>3 DEF Store, TypeOK
  <2> HIDE DEF u
  <2>4. /\ todo' = [todo EXCEPT ![c] = Tail(@)]
        /\ word' = [word EXCEPT ![u.word] = Applied(read[c], u)]
        /\ told' = [told EXCEPT ![u.word] = (@ \ u.clear) \union u.set]
        /\ read' = [read EXCEPT ![c] = None]
        /\ \/ risk' = risk \union {<<u.word, b>> : b \in u.clear \union u.set}
           \/ risk' = risk \ {<<u.word, b>> : b \in u.clear \union u.set}
        /\ late' = late \/ (u.word = "wakelock" /\ late' = (late \ u.clear) \union u.set)
        /\ UNCHANGED <<entering, clock, drivers, suspended>>
    BY <1>3 DEF Store, u
  <2>5. word' \in [Words -> SUBSET Bits] /\ told' \in [Words -> SUBSET Bits]
    BY <2>2, <2>3, <2>4 DEF TypeOK, Applied
  <2>6. todo' \in [Contexts -> Seq(Update)] /\ \A d \in Contexts : Len(todo'[d]) <= 2
    BY <2>1, <2>4 DEF TypeOK
  <2>7. read' \in [Contexts -> (SUBSET Bits) \union {None}]
    BY <2>4 DEF TypeOK
  <2>8. risk' \subseteq Words \X Bits
    BY <2>2, <2>4 DEF TypeOK
  <2>9. late' \subseteq Locks
    BY <2>1, <2>4 DEF TypeOK, LocksOnly
  <2> QED
    BY <2>4, <2>5, <2>6, <2>7, <2>8, <2>9 DEF TypeOK, entering, clock, drivers
<1>4. ASSUME NEW d \in Devices, NEW h \in Hooks, pmu_register_sleep_callback(d, h)
      PROVE  TypeOK'
  <2> DEFINE Row == [dev : Devices, hook : Hooks]
             row == [dev |-> d, hook |-> h]
             replaced == [i \in 1..Len(table) |-> IF i \in RowsOf(d) THEN row ELSE table[i]]
  <2>1. table' = Append(table, row) \/ table' = replaced
    BY <1>4 DEF pmu_register_sleep_callback
  <2>2. row \in Row /\ table \in Seq(Row)
    BY DEF TypeOK
  <2>3. Append(table, row) \in Seq(Row)
    BY <2>2
  <2>4. replaced \in [1..Len(table) -> Row] /\ Len(table) \in Nat
    <3>1. \A i \in 1..Len(table) : table[i] \in Row
      BY <2>2, ElementOfSeq
    <3> HIDE DEF Row, row
    <3> QED BY <2>2, <3>1
  <2>5. replaced \in Seq(Row)
    BY <2>4, SeqDef
  <2>6. table' \in Seq(Row)
    BY <2>1, <2>3, <2>5
  <2> QED
    BY <1>4, <2>6 DEF pmu_register_sleep_callback, TypeOK, locking, entering, clock
<1>5. ASSUME NEW d \in Devices, pmu_unregister_sleep_callback(d) PROVE TypeOK'
  <2>1. PICK i \in 1..Len(table) : table' = Without(i)
    BY <1>5 DEF pmu_unregister_sleep_callback, RowsOf
  <2>2. table' \in Seq([dev : Devices, hook : Hooks])
    BY <2>1, WithoutIs DEF TypeOK
  <2> QED
    BY <1>5, <2>2 DEF pmu_unregister_sleep_callback, TypeOK, locking, entering, clock
<1>6. CASE Check
  BY <1>6 DEF Check, TypeOK, locking, clock, drivers
<1>7. CASE Abort
  <2>1. stime' \in 0..MaxIdle
    BY <1>7, BoundsAre DEF Abort
  <2> QED BY <1>7, <2>1 DEF Abort, TypeOK, locking, clock, drivers
<1>8. CASE Sleep
  <2>1. suspended' \subseteq Devices
    <3>1. \A i \in 1..Len(table) : table[i] \in [dev : Devices, hook : Hooks]
      BY ElementOfSeq DEF TypeOK
    <3>2. \A i \in 1..Len(table) : table[i].dev \in Devices
      BY <3>1
    <3> QED BY <1>8, <3>2 DEF Sleep
  <2> QED BY <1>8, <2>1 DEF Sleep, TypeOK, locking, clock, drivers
<1>9. ASSUME NEW elapsed \in 0..(stime * PerTick + MaxLate), Wake(elapsed) PROVE TypeOK'
  <2> DEFINE from == us_ticker_read(before)
             to == us_ticker_read(before + elapsed)
             passed == (Passed(from, to) + missing_tick) % Wrap
  <2>1. stime * PerTick \in Nat /\ elapsed \in Nat /\ before \in Nat
    BY BoundsAre DEF TypeOK
  <2>2. from \in 0..(Wrap - 1) /\ to \in 0..(Wrap - 1)
    BY <2>1, ReadingIs
  <2>3. Passed(from, to) \in Nat
    BY <2>2, BoundsAre DEF Passed
  <2>4. passed \in 0..(Wrap - 1)
    <3>1. Passed(from, to) + missing_tick \in Nat
      BY <2>3 DEF TypeOK
    <3> QED BY <3>1, BoundsAre, Division
  <2>5. Left(passed) \in 0..(Wrap - 1)
    BY <2>4, LeftIs
  <2>6. missing_tick' \in 0..(Wrap - 1)
    BY <1>9, <2>5 DEF Wake
  <2> HIDE DEF passed, from, to
  <2>7. owed' \in Int
    <3>1. Micros(before) \in Int /\ Micros(before + elapsed) \in Int
      BY <2>1, MicrosIs
    <3>2. Credited(passed) \div PerTick \in Nat
      BY <2>4, CreditedIs
    <3> DEFINE slept == Micros(before + elapsed) - Micros(before)
               y == PerTick * (Credited(passed) \div PerTick)
    <3>3. slept \in Int /\ y \in Int
      BY <3>1, <3>2, BoundsAre
    <3>4. owed' \in {0, owed + slept - 0 - y, owed + slept - 1 - y}
      BY <1>9 DEF Wake, passed, from, to
    <3> HIDE DEF slept, y
    <3> QED BY <3>3, <3>4 DEF TypeOK
  <2>8. /\ UNCHANGED <<word, todo, read, told, risk, pended, table, regs>>
        /\ idle' = "awake" /\ stime' = 0 /\ before' = 0 /\ late' = {}
        /\ suspended' \subseteq suspended
    BY <1>9 DEF Wake, locking, drivers
  <2>9. astray' \in BOOLEAN /\ overstep' \in BOOLEAN
    <3> DEFINE more == Credited(passed) \div PerTick > stime
               strays == before + elapsed >= Counts
                  \/ (Micros(before + elapsed) - Micros(before) = 0 /\ missing_tick = 0)
    <3>1. overstep' = (overstep \/ more) /\ astray' = (astray \/ strays)
      BY <1>9 DEF Wake, passed, from, to
    <3>2. more \in BOOLEAN /\ strays \in BOOLEAN
      OBVIOUS
    <3> HIDE DEF more, strays
    <3> QED BY <3>1, <3>2
  <2>10. 0 \in 0..MaxIdle /\ 0 \in 0..(Counts - 1)
    BY BoundsAre
  <2> QED BY <2>6, <2>7, <2>8, <2>9, <2>10 DEF TypeOK
<1>10. CASE UNCHANGED vars
  BY <1>10 DEF vars, locking, entering, clock, drivers, TypeOK
<1> QED
  BY <1>1, <1>2, <1>3, <1>4, <1>5, <1>6, <1>7, <1>8, <1>9, <1>10, StepIs

\* The actions that touch neither word nor anybody's updates.
LEMMA LockingIs ==
  ASSUME [Next]_vars
  PROVE  \/ \E c \in Contexts : Call(c) \/ Load(c) \/ Store(c)
         \/ UNCHANGED locking
BY StepIs DEF pmu_register_sleep_callback, pmu_unregister_sleep_callback, Check, Abort,
   Sleep, Wake, vars

\* The priorities are an order.
LEMMA Ordered ==
  \A c, d \in Contexts : c \in Int /\ d \in Int /\ (d <= c \/ d > c) /\ (d <= c /\ d # c => d < c)
<1>1. Cardinality(Contexts) \in Nat /\ Contexts = 1..Cardinality(Contexts)
  BY PmuAssumption, FS_CardinalityType
<1> QED BY <1>1

\* A call, a load and a store, with the update that is made.
LEMMA CallIs ==
  ASSUME TypeOK, DoingInv, NEW c \in Contexts, Call(c)
  PROVE  /\ todo[c] = <<>> /\ read[c] = None
         /\ \A d \in Contexts \ {c} : todo'[d] = todo[d]
         /\ UNCHANGED <<word, read, told, risk, late>> /\ idle' = idle /\ idle # "asleep"
<1>1. todo[c] = <<>>
  BY DEF Call, Quiet
<1> QED
  BY <1>1 DEF Call, TypeOK, DoingInv

LEMMA LoadIs ==
  ASSUME TypeOK, DoingInv, NEW c \in Contexts, Load(c)
  PROVE  /\ Head(todo[c]).word \in Words /\ todo[c] # <<>>
         /\ read'[c] = word[Head(todo[c]).word]
         /\ \A d \in Contexts \ {c} : read'[d] = read[d]
         /\ \A d \in Contexts : todo[d] # <<>> => d <= c
         /\ UNCHANGED <<word, todo, told, risk, late>> /\ idle' = idle
<1>1. todo[c] # <<>> /\ \A d \in Contexts : d > c => todo[d] = <<>>
  BY DEF Load, Running, Quiet, Above
<1>2. Head(todo[c]).word \in Words
  BY <1>1, RestIs DEF DoingInv, Update
<1>4. \A d \in Contexts : todo[d] # <<>> => d <= c
  BY <1>1, Ordered
<1> QED
  BY <1>1, <1>2, <1>4 DEF Load, TypeOK, entering

LEMMA StoreIs ==
  ASSUME TypeOK, DoingInv, NEW c \in Contexts, Store(c)
  PROVE  LET u == Head(todo[c])
             bits == {<<u.word, b>> : b \in u.clear \union u.set}
             midway == \E d \in Contexts \ {c} : read[d] # None /\ Head(todo[d]).word = u.word
         IN /\ u \in Update /\ LocksOnly(u) /\ todo[c] # <<>> /\ read[c] # None
            /\ word' = [word EXCEPT ![u.word] = (read[c] \ u.clear) \union u.set]
            /\ told' = [told EXCEPT ![u.word] = (told[u.word] \ u.clear) \union u.set]
            /\ read'[c] = None /\ todo'[c] = Tail(todo[c])
            /\ \A d \in Contexts \ {c} : read'[d] = read[d] /\ todo'[d] = todo[d]
            /\ \A d \in Contexts : todo[d] # <<>> => d <= c
            /\ risk' = risk \union bits \/ (~midway /\ risk' = risk \ bits)
            /\ late' = IF idle = "checked" /\ u.word = "wakelock"
                       THEN (late \ u.clear) \union u.set ELSE late
            /\ idle' = idle
<1>1. todo[c] # <<>> /\ \A d \in Contexts : d > c => todo[d] = <<>>
  BY DEF Store, Running, Quiet, Above
<1>2. Head(todo[c]) \in Update /\ LocksOnly(Head(todo[c]))
  BY <1>1, RestIs DEF DoingInv
<1>4. \A d \in Contexts : todo[d] # <<>> => d <= c
  BY <1>1, Ordered
<1>5. ASSUME NEW d \in Contexts, d # c, read[d] # None PROVE d \in Below(c)
  <2>1. d <= c
    BY <1>4, <1>5 DEF DoingInv
  <2> QED BY <1>5, <2>1, Ordered DEF Below
<1> DEFINE u == Head(todo[c])
           bits == {<<u.word, b>> : b \in u.clear \union u.set}
           midway == \E d \in Contexts \ {c} : read[d] # None /\ Head(todo[d]).word = u.word
<1>6. risk' = risk \union bits \/ (~midway /\ risk' = risk \ bits)
  BY <1>5 DEF Store
<1>7. todo' = [todo EXCEPT ![c] = Tail(todo[c])] /\ read' = [read EXCEPT ![c] = None]
  BY DEF Store
<1>8. /\ read'[c] = None /\ todo'[c] = Tail(todo[c])
      /\ \A d \in Contexts \ {c} : read'[d] = read[d] /\ todo'[d] = todo[d]
  BY <1>7 DEF TypeOK
<1> QED
  BY <1>1, <1>2, <1>4, <1>6, <1>8 DEF Store, Applied, entering

LEMMA UpdatesInvInductive ==
  ASSUME TypeOK, DoingInv, UpdatesInv, [Next]_vars
  PROVE  UpdatesInv'
<1> DEFINE Seen(c, b) == read[c] # None /\ <<Head(todo[c]).word, b>> \notin risk =>
                           (b \in read[c] <=> b \in told[Head(todo[c]).word])
           Kept(w, b) == <<w, b>> \notin risk => (b \in word[w] <=> b \in told[w])
<1>1. ASSUME NEW c \in Contexts, Call(c) PROVE UpdatesInv'
  BY <1>1, CallIs DEF UpdatesInv, OnlyPreemptingUpdatesAreLost
<1>2. ASSUME NEW c \in Contexts, Load(c) PROVE UpdatesInv'
  <2>1. OnlyPreemptingUpdatesAreLost'
    BY <1>2, LoadIs DEF UpdatesInv, OnlyPreemptingUpdatesAreLost
  <2>2. ASSUME NEW d \in Contexts, NEW b \in Bits PROVE Seen(d, b)'
    BY <1>2, LoadIs DEF UpdatesInv, OnlyPreemptingUpdatesAreLost
  <2> QED BY <2>1, <2>2 DEF UpdatesInv
<1>3. ASSUME NEW c \in Contexts, Store(c) PROVE UpdatesInv'
  <2> DEFINE u == Head(todo[c])
  <2>1. u.word \in Words /\ read[c] # None
    BY <1>3, StoreIs DEF Update
  <2>2. ASSUME NEW w \in Words, NEW b \in Bits, <<w, b>> \notin risk'
        PROVE  \/ w = u.word /\ b \in u.clear \union u.set
               \/ <<w, b>> \notin risk
    BY <1>3, <2>2, StoreIs
  <2>3. ASSUME NEW w \in Words, NEW b \in Bits PROVE Kept(w, b)'
    <3>1. CASE w # u.word
      <4>1. word'[w] = word[w] /\ told'[w] = told[w]
        BY <1>3, <3>1, StoreIs DEF TypeOK
      <4> QED BY <2>2, <3>1, <4>1 DEF UpdatesInv, OnlyPreemptingUpdatesAreLost
    <3>2. CASE w = u.word
      <4>1. /\ word'[w] = (read[c] \ u.clear) \union u.set
            /\ told'[w] = (told[w] \ u.clear) \union u.set
        BY <1>3, <3>2, StoreIs DEF TypeOK
      <4>2. <<w, b>> \notin risk => (b \in read[c] <=> b \in told[w])
        BY <2>1, <3>2 DEF UpdatesInv
      <4> HIDE DEF u
      <4> QED BY <2>2, <3>2, <4>1, <4>2
    <3> QED BY <3>1, <3>2
  <2>4. ASSUME NEW d \in Contexts, NEW b \in Bits, d # c PROVE Seen(d, b)'
    <3> DEFINE w == Head(todo[d]).word
    <3>1. read'[d] = read[d] /\ Head(todo'[d]).word = w
      BY <1>3, <2>4, StoreIs
    <3>2. SUFFICES ASSUME read[d] # None, <<w, b>> \notin risk'
                   PROVE  b \in read[d] <=> b \in told'[w]
      BY <3>1
    <3>3. w \in Words
      BY <3>2, RestIs DEF DoingInv, Update
    <3>4. CASE w # u.word
      <4>1. told'[w] = told[w]
        BY <1>3, <3>3, <3>4, StoreIs DEF TypeOK
      <4>2. <<w, b>> \notin risk
        BY <2>2, <3>2, <3>3, <3>4
      <4> QED BY <3>2, <4>1, <4>2 DEF UpdatesInv
    <3>5. CASE w = u.word
      <4>1. <<w, b>> \notin risk /\ b \notin u.clear \union u.set
        BY <1>3, <2>4, <3>2, <3>5, StoreIs
      <4>2. told'[w] = (told[w] \ u.clear) \union u.set
        BY <1>3, <3>3, <3>5, StoreIs DEF TypeOK
      <4>3. b \in read[d] <=> b \in told[w]
        BY <3>2, <4>1 DEF UpdatesInv
      <4> HIDE DEF u, w
      <4> QED BY <4>1, <4>2, <4>3
    <3> QED BY <3>4, <3>5
  <2>5. \A b \in Bits : Seen(c, b)'
    BY <1>3, StoreIs
  <2>6. OnlyPreemptingUpdatesAreLost'
    BY <2>3 DEF OnlyPreemptingUpdatesAreLost
  <2> QED BY <2>4, <2>5, <2>6 DEF UpdatesInv
<1>4. CASE UNCHANGED locking
  BY <1>4 DEF locking, UpdatesInv, OnlyPreemptingUpdatesAreLost
<1> QED
  BY <1>1, <1>2, <1>3, <1>4, LockingIs

\* What a store leaves of a promise to restore the system timer.
LEMMA RestoresKept ==
  ASSUME TypeOK, DoingInv, NEW c \in Contexts, Store(c)
  PROVE  /\ \A d \in Contexts \ {c} : Restores(d) => Restores(d)'
         /\ Restores(c) /\ ~SetsTimer(Head(todo[c])) => Restores(c)'
         /\ ClearsTimer(Head(todo[c])) => Restores(c)'
<1> DEFINE s == todo[c]
<1>1. Doing(s) /\ s # <<>> /\ todo'[c] = Tail(s)
  BY StoreIs DEF DoingInv
<1>2. /\ Head(s) = s[1] /\ (ClearsTimer(Head(s)) => Tail(s) # <<>>)
      /\ Tail(s) = <<>> => Len(s) = 1
      /\ Tail(s) # <<>> => SetsTimer(s[Len(s)]) /\ Tail(s)[Len(Tail(s))] = s[Len(s)]
  BY <1>1, RestIs
<1>3. Tail(s) # <<>> => Restores(c)'
  BY <1>1, <1>2 DEF Restores
<1>4. Restores(c) /\ ~SetsTimer(Head(s)) => Tail(s) # <<>>
  BY <1>2 DEF Restores
<1>5. \A d \in Contexts \ {c} : Restores(d) => Restores(d)'
  BY StoreIs DEF Restores
<1> QED
  BY <1>2, <1>3, <1>4, <1>5

LEMMA TimerInvInductive ==
  ASSUME TypeOK, DoingInv, TimerInv, [Next]_vars
  PROVE  TimerInv'
<1> DEFINE Unset(c) == /\ read[c] # None /\ Head(todo[c]).word = "wakeup_event"
                       /\ STIMER \notin read[c]
           Covered(c) == \E d \in Contexts : d <= c /\ Restores(d)
<1>1. ASSUME NEW c \in Contexts, Call(c) PROVE TimerInv'
  <2>1. \A d \in Contexts : Restores(d) => Restores(d)'
    BY <1>1, CallIs DEF Restores
  <2>2. \A d \in Contexts : Unset(d)' => Unset(d)
    BY <1>1, CallIs
  <2>3. word' = word
    BY <1>1, CallIs
  <2> QED BY <2>1, <2>2, <2>3 DEF TimerInv
<1>2. ASSUME NEW c \in Contexts, Load(c) PROVE TimerInv'
  <2>1. \A d \in Contexts : Restores(d)' <=> Restores(d)
    BY <1>2, LoadIs DEF Restores
  <2>2. \A d \in Contexts \ {c} : Unset(d)' => Unset(d)
    BY <1>2, LoadIs
  <2>3. ASSUME Unset(c)' PROVE Covered(c)'
    <3>1. STIMER \notin word["wakeup_event"]
      BY <1>2, <2>3, LoadIs
    <3>2. PICK d \in Contexts : Restores(d)
      BY <3>1 DEF TimerInv
    <3>3. d <= c
      BY <1>2, <3>2, LoadIs DEF Restores
    <3> QED BY <2>1, <3>2, <3>3
  <2>4. word' = word
    BY <1>2, LoadIs
  <2> QED BY <2>1, <2>2, <2>3, <2>4 DEF TimerInv
<1>3. ASSUME NEW c \in Contexts, Store(c) PROVE TimerInv'
  <2> DEFINE u == Head(todo[c])
  <2>1. u.word \in Words /\ read[c] # None
    BY <1>3, StoreIs DEF Update
  <2>2. ASSUME STIMER \notin word'["wakeup_event"]
        PROVE  \E d \in Contexts : Restores(d)'
    <3>1. CASE u.word # "wakeup_event"
      <4>1. word'["wakeup_event"] = word["wakeup_event"] /\ ~SetsTimer(u)
        BY <1>3, <3>1, StoreIs DEF TypeOK, Words, SetsTimer
      <4>2. PICK d \in Contexts : Restores(d)
        BY <2>2, <4>1 DEF TimerInv
      <4> QED BY <1>3, <4>1, <4>2, RestoresKept
    <3>2. CASE u.word = "wakeup_event"
      <4>1. word'["wakeup_event"] = (read[c] \ u.clear) \union u.set
        BY <1>3, <2>1, <3>2, StoreIs DEF TypeOK
      <4>2. ~SetsTimer(u) /\ (STIMER \notin read[c] \/ ClearsTimer(u))
        BY <2>2, <3>2, <4>1 DEF SetsTimer, ClearsTimer
      <4>3. CASE ClearsTimer(u)
        BY <1>3, <4>3, RestoresKept
      <4>4. CASE STIMER \notin read[c]
        <5>1. PICK d \in Contexts : Restores(d)
          BY <2>1, <3>2, <4>4 DEF TimerInv
        <5> QED BY <1>3, <4>2, <5>1, RestoresKept
      <4> QED BY <4>2, <4>3, <4>4
    <3> QED BY <3>1, <3>2
  <2>3. ASSUME NEW e \in Contexts, Unset(e)' PROVE Covered(e)'
    <3>1. e # c /\ Unset(e) /\ e <= c
      BY <1>3, <2>3, StoreIs DEF DoingInv
    <3>2. PICK d \in Contexts : d <= e /\ Restores(d)
      BY <3>1 DEF TimerInv
    <3>3. d # c
      BY <3>1, <3>2, Ordered
    <3> QED BY <1>3, <3>2, <3>3, RestoresKept
  <2> QED BY <2>2, <2>3 DEF TimerInv
<1>4. CASE UNCHANGED locking
  BY <1>4 DEF locking, TimerInv, Restores
<1> QED
  BY <1>1, <1>2, <1>3, <1>4, LockingIs

LEMMA SleepInvInductive ==
  ASSUME TypeOK, DoingInv, OnlyPreemptingUpdatesAreLost, SleepInv, [Next]_vars
  PROVE  SleepInv'
<1>1. ASSUME NEW c \in Contexts, Call(c) PROVE SleepInv'
  BY <1>1, CallIs DEF SleepInv
<1>2. ASSUME NEW c \in Contexts, Load(c) PROVE SleepInv'
  BY <1>2, LoadIs DEF SleepInv, Quiet
<1>3. ASSUME NEW c \in Contexts, Store(c) PROVE SleepInv'
  <2> DEFINE u == Head(todo[c])
  <2>1. /\ u.word \in Words /\ LocksOnly(u) /\ idle' = idle /\ idle # "asleep"
        /\ late' = IF idle = "checked" /\ u.word = "wakelock"
                   THEN (late \ u.clear) \union u.set ELSE late
    BY <1>3, StoreIs DEF Update, SleepInv, Quiet
  <2>2. CASE u.word # "wakelock"
    <3>1. told'["wakelock"] = told["wakelock"]
      BY <1>3, <2>2, StoreIs DEF TypeOK, Words
    <3>2. \A l \in Locks : <<"wakelock", l>> \in risk => <<"wakelock", l>> \in risk'
      BY <1>3, <2>2, StoreIs
    <3> QED BY <2>1, <2>2, <3>1, <3>2 DEF SleepInv
  <2>3. CASE u.word = "wakelock"
    <3>1. told'["wakelock"] = (told["wakelock"] \ u.clear) \union u.set
      <4>1. told' = [told EXCEPT ![u.word] = (told[u.word] \ u.clear) \union u.set]
        BY <1>3, StoreIs
      <4> HIDE DEF u
      <4> QED BY <2>1, <2>3, <4>1 DEF TypeOK
    <3>2. \A l \in Locks : <<"wakelock", l>> \in risk /\ l \notin u.clear \union u.set
                             => <<"wakelock", l>> \in risk'
      BY <1>3, <2>3, StoreIs
    <3>3. u.clear \union u.set \subseteq Locks
      BY <2>1, <2>3 DEF LocksOnly
    <3> HIDE DEF u
    <3>4. told'["wakelock"] \subseteq Locks
      BY <3>1, <3>3 DEF SleepInv
    <3>5. ASSUME idle # "awake", NEW l \in told'["wakelock"]
          PROVE  l \in late' \/ <<"wakelock", l>> \in risk'
      <4>1. late' = (late \ u.clear) \union u.set
        <5>1. idle = "checked"
          BY <2>1, <3>5 DEF TypeOK
        <5> QED BY <2>1, <2>3, <5>1
      <4>2. CASE l \in u.set
        BY <4>1, <4>2
      <4>3. CASE l \notin u.set
        <5>1. l \in told["wakelock"] /\ l \notin u.clear
          BY <3>1, <4>3
        <5>2. l \in late \/ <<"wakelock", l>> \in risk
          BY <3>5, <5>1 DEF SleepInv
        <5> QED BY <3>2, <3>4, <4>1, <4>3, <5>1, <5>2
      <4> QED BY <4>2, <4>3
    <3> QED BY <2>1, <3>4, <3>5 DEF SleepInv
  <2> QED BY <2>2, <2>3
<1>4. CASE Check
  <2>1. word["wakelock"] = {} /\ UNCHANGED <<told, risk, late>> /\ idle' = "checked"
    BY <1>4 DEF Check, freertos_ready_to_sleep, locking
  <2>2. \A l \in Locks : l \in told["wakelock"] => <<"wakelock", l>> \in risk
    BY <2>1 DEF OnlyPreemptingUpdatesAreLost, Words, Bits
  <2> QED BY <2>1, <2>2 DEF SleepInv
<1>5. CASE Sleep
  BY <1>5 DEF Sleep, SleepInv, locking, Quiet
<1>6. CASE UNCHANGED <<told, risk, todo>> /\ idle' = "awake"
  BY <1>6 DEF SleepInv
<1>7. CASE UNCHANGED <<told, risk, todo, late, idle>>
  BY <1>7 DEF SleepInv, Quiet
<1> QED
  BY <1>1, <1>2, <1>3, <1>4, <1>5, <1>6, <1>7, StepIs DEF Abort, Wake, vars, locking,
     entering, pmu_register_sleep_callback, pmu_unregister_sleep_callback

(***************************************************************************)
(* The clock.                                                              *)
(***************************************************************************)
\* What passes by the reading: the time slept, less one for a wrap; or nearly
\* a wrap, for none.
LEMMA PassedIs ==
  ASSUME NEW u \in Nat, NEW e \in 0..(Wrap - 1)
  PROVE  LET from == u % Wrap
             to == (u + e) % Wrap
             wraps == IF to > from THEN 0 ELSE 1
         IN IF e = 0 THEN Passed(from, to) = Wrap - 1 /\ wraps = 1
            ELSE Passed(from, to) = e - wraps
<1>1. Wrap \in Nat \ {0} /\ u \in Nat /\ e \in Nat
  BY BoundsAre
<1> DEFINE a == u % Wrap
           z == (u + e) % Wrap
<1>2. a \in 0..(Wrap - 1)
  BY <1>1, Division
<1>3. z = IF a + e < Wrap THEN a + e ELSE a + e - Wrap
  <2>1. z = (a + e) % Wrap
    BY <1>1, RemainderOfSum
  <2> HIDE DEF a, z
  <2>2. (a + e) % Wrap = IF a + e < Wrap THEN a + e ELSE a + e - Wrap
    BY <1>1, <1>2, WrapsOnce
  <2> QED BY <2>1, <2>2
<1> HIDE DEF a, z
<1>4. CASE e = 0
  <2>1. z = a /\ ~(z > a)
    BY <1>1, <1>2, <1>3, <1>4
  <2>2. Passed(a, z) = Wrap - 1
    BY <1>1, <1>2, <2>1 DEF Passed
  <2> QED BY <1>4, <2>1, <2>2 DEF a, z
<1>5. CASE e # 0 /\ a + e < Wrap
  <2>1. z = a + e /\ z > a
    BY <1>1, <1>2, <1>3, <1>5
  <2>2. Passed(a, z) = e
    BY <1>1, <1>2, <2>1 DEF Passed
  <2> QED BY <1>1, <1>5, <2>1, <2>2 DEF a, z
<1>6. CASE e # 0 /\ ~(a + e < Wrap)
  <2>1. z = a + e - Wrap /\ ~(z > a)
    BY <1>1, <1>2, <1>3, <1>6
  <2>2. Passed(a, z) = e - 1
    BY <1>1, <1>2, <2>1 DEF Passed
  <2> QED BY <1>1, <1>6, <2>1, <2>2 DEF a, z
<1> QED BY <1>4, <1>5, <1>6

\* The ticks stepped are no more than expected; they and what is left are all
\* that has passed.
LEMMA TicksAre ==
  ASSUME TypeOK, NEW passed \in 0..(Wrap - 1)
  PROVE  LET ticks == Credited(passed) \div PerTick
         IN ticks \in Nat /\ ticks <= stime /\ Left(passed) = passed - PerTick * ticks
<1>1. stime \in Nat /\ PerTick \in Nat \ {0} /\ passed \in Nat
  BY BoundsAre DEF TypeOK
<1>2. CASE passed > stime * PerTick
  <2>1. (stime * PerTick) \div PerTick = stime /\ stime * PerTick = PerTick * stime
    BY <1>1
  <2>2. Credited(passed) \div PerTick = stime /\ Left(passed) = passed - stime * PerTick
    BY <1>2, <2>1 DEF Credited, Left
  <2> QED BY <1>1, <2>1, <2>2
<1>3. CASE ~(passed > stime * PerTick)
  <2>1. Credited(passed) = passed /\ Left(passed) = passed % PerTick
    BY <1>3 DEF Credited, Left
  <2> DEFINE q == passed \div PerTick
             r == passed % PerTick
  <2>2. q \in Nat /\ r \in 0..(PerTick - 1) /\ passed = PerTick * q + r
    BY <1>1, Division
  <2>3. passed <= stime * PerTick
    <3>1. stime * PerTick \in Nat
      BY <1>1
    <3> QED BY <1>1, <1>3, <3>1
  <2>4. q <= stime
    BY <1>1, <2>3, QuotientBound
  <2>5. r = passed - PerTick * q
    <3> DEFINE y == PerTick * q
    <3>1. y \in Nat /\ passed = y + r /\ r \in Nat
      <4> HIDE DEF q, r
      <4> QED BY <1>1, <2>2
    <3> HIDE DEF y, r
    <3>2. r = passed - y
      BY <1>1, <3>1
    <3> QED BY <3>2 DEF y
  <2> QED BY <2>1, <2>2, <2>4, <2>5
<1> QED BY <1>2, <1>3

LEMMA ClockInvInductive ==
  ASSUME TypeOK, ClockInv, [Next]_vars
  PROVE  ClockInv'
<1>1. ASSUME NEW elapsed \in 0..(stime * PerTick + MaxLate), Wake(elapsed)
      PROVE  ClockInv'
  <2> DEFINE from == us_ticker_read(before)
             to == us_ticker_read(before + elapsed)
             slept == Micros(before + elapsed) - Micros(before)
             passed == (Passed(from, to) + missing_tick) % Wrap
             wraps == IF to > from THEN 0 ELSE 1
             strays == before + elapsed >= Counts \/ (slept = 0 /\ missing_tick = 0)
             ticks == Credited(passed) \div PerTick
  <2>1. /\ stime \in Nat /\ stime * PerTick \in Nat /\ elapsed \in Nat /\ before \in Nat
        /\ missing_tick \in Nat /\ owed \in Int /\ before \in 0..(Counts - 1)
        /\ Wrap \in Nat \ {0} /\ Counts \in Nat
    BY BoundsAre DEF TypeOK
  <2>2. from \in 0..(Wrap - 1) /\ to \in 0..(Wrap - 1)
    BY <2>1, ReadingIs
  <2>3. Passed(from, to) \in Nat
    BY <2>1, <2>2 DEF Passed
  <2>4. passed \in 0..(Wrap - 1)
    <3>1. Passed(from, to) + missing_tick \in Nat
      BY <2>1, <2>3
    <3> QED BY <2>1, <3>1, Division
  <2>5. /\ missing_tick' = Left(passed) /\ slept <= stime * PerTick + MaxLate
        /\ overstep' = (overstep \/ ticks > stime) /\ astray' = (astray \/ strays)
        /\ owed' = IF astray' THEN 0 ELSE owed + slept - wraps - PerTick * ticks
        /\ owed' <= MaxMissing
    BY <1>1 DEF Wake
  <2>6. ticks \in Nat /\ ticks <= stime /\ Left(passed) = passed - PerTick * ticks
    BY <2>4, TicksAre
  <2>7. ~overstep'
    <3>1. ~(ticks > stime)
      <4> HIDE DEF ticks
      <4> QED BY <2>1, <2>6
    <3>2. ~overstep
      BY DEF ClockInv, Accounted
    <3> HIDE DEF ticks
    <3> QED BY <2>5, <3>1, <3>2, Zenon
  <2>8. ASSUME ~astray' PROVE owed' = missing_tick' /\ missing_tick' <= MaxMissing
    <3>0. ~astray /\ ~strays
      BY <2>5, <2>8, Zenon
    <3>1. /\ before + elapsed < Counts /\ (slept # 0 \/ missing_tick # 0)
          /\ owed = missing_tick /\ missing_tick <= MaxMissing
      <4>1. ~(before + elapsed >= Counts) /\ ~(slept = 0 /\ missing_tick = 0)
        BY <3>0
      <4>2. owed = missing_tick /\ missing_tick <= MaxMissing
        BY <3>0 DEF ClockInv, Accounted
      <4> HIDE DEF slept
      <4> QED BY <2>1, <4>1, <4>2
    <3>2. slept \in Nat /\ slept + missing_tick < Wrap
      <4>1. stime * PerTick <= MaxIdle * PerTick /\ MaxIdle * PerTick \in Nat
        BY BoundsAre DEF TypeOK
      <4>2. slept \in Nat
        <5>1. Micros(before) \in Nat /\ Micros(before + elapsed) \in Nat
          BY <2>1, MicrosIs
        <5>2. Micros(before) <= Micros(before + elapsed)
          BY <2>1, MicrosGrow
        <5> QED BY <5>1, <5>2
      <4> DEFINE y == stime * PerTick
                 z == MaxIdle * PerTick
      <4>3. /\ y \in Nat /\ z \in Nat /\ y <= z /\ slept <= y + MaxLate
            /\ z + MaxLate + MaxMissing < Wrap
        BY <2>1, <2>5, <4>1, BoundsAre
      <4> HIDE DEF y, z, slept
      <4> QED BY <2>1, <3>1, <4>2, <4>3, BoundsAre
    <3>3. IF slept = 0 THEN Passed(from, to) = Wrap - 1 /\ wraps = 1
          ELSE Passed(from, to) = slept - wraps
      <4> DEFINE u == Micros(before)
      <4>1. u \in Nat /\ Micros(before + elapsed) = u + slept /\ slept \in 0..(Wrap - 1)
        <5>1. Micros(before) \in Nat /\ Micros(before + elapsed) \in Nat
          BY <2>1, MicrosIs
        <5>2. Micros(before + elapsed) = Micros(before) + slept
          BY <5>1
        <5> HIDE DEF slept
        <5> QED BY <2>1, <3>2, <5>1, <5>2
      <4>2. before % Counts = before /\ (before + elapsed) % Counts = before + elapsed
        BY <2>1, <3>1
      <4>3. from = u % Wrap /\ to = (u + slept) % Wrap
        <5>1. from = Micros(before % Counts) % Wrap
              /\ to = Micros((before + elapsed) % Counts) % Wrap
          BY DEF us_ticker_read
        <5> HIDE DEF slept, from, to
        <5> QED BY <4>1, <4>2, <5>1
      <4> HIDE DEF u, slept, from, to
      <4> QED BY <4>1, <4>3, PassedIs
    <3>4. wraps \in {0, 1}
      OBVIOUS
    <3>5. passed = slept - wraps + missing_tick
      <4>1. passed = (Passed(from, to) + missing_tick) % Wrap
        OBVIOUS
      <4> HIDE DEF wraps, slept, passed, from, to
      <4>2. CASE slept = 0
        <5> DEFINE n == missing_tick - 1
        <5>1. n \in 0..(Wrap - 1) /\ missing_tick \in 0..(Wrap - 1)
          BY <2>1, <3>1, <3>2, <4>2
        <5>2. Passed(from, to) = Wrap - 1 /\ wraps = 1 /\ Wrap - 1 \in 0..(Wrap - 1)
          BY <2>1, <3>3, <4>2
        <5>3. ((Wrap - 1) + missing_tick) % Wrap =
                IF (Wrap - 1) + missing_tick < Wrap THEN (Wrap - 1) + missing_tick
                ELSE (Wrap - 1) + missing_tick - Wrap
          BY <2>1, <5>1, <5>2, WrapsOnce
        <5>4. passed = n
          BY <2>1, <4>1, <5>1, <5>2, <5>3
        <5> QED BY <2>1, <4>2, <5>2, <5>4
      <4>3. CASE slept # 0
        <5> DEFINE n == slept - wraps + missing_tick
        <5>1. n \in 0..(Wrap - 1)
          BY <2>1, <3>2, <3>4, <4>3
        <5>2. n = Passed(from, to) + missing_tick
          BY <3>3, <4>3
        <5> HIDE DEF n
        <5>3. n % Wrap = n
          BY <2>1, <5>1
        <5>4. passed = n
          BY <4>1, <5>2, <5>3
        <5> QED BY <5>4 DEF n
      <4> QED BY <4>2, <4>3
    <3>6. owed' = owed + slept - wraps - PerTick * ticks
      BY <2>5, <2>8
    <3>7. owed' = missing_tick'
      <4> DEFINE y == PerTick * ticks
      <4>1. y \in Nat
        BY <2>6, BoundsAre
      <4>2. missing_tick' = passed - y /\ owed' = owed + slept - wraps - y
        BY <2>5, <2>6, <3>6
      <4> HIDE DEF y, ticks, passed, wraps, slept
      <4> QED BY <2>1, <3>1, <3>2, <3>4, <3>5, <4>1, <4>2
    <3> QED BY <2>5, <3>7
  <2> QED BY <2>7, <2>8 DEF ClockInv, Accounted
<1>2. CASE UNCHANGED clock
  BY <1>2 DEF ClockInv, Accounted, clock
<1> QED
  BY <1>1, <1>2, StepIs DEF Call, Load, Store, Check, Abort, Sleep, vars,
     pmu_register_sleep_callback, pmu_unregister_sleep_callback

(***************************************************************************)
(* The table of callbacks.                                                 *)
(***************************************************************************)
LEMMA TableInvInductive ==
  ASSUME TypeOK, TableInv, [Next]_vars
  PROVE  TableInv'
<1>0. {table[i].dev : i \in 1..Len(table)} = DOMAIN regs
  <2>1. \A i \in 1..Len(table) : table[i].dev \in DOMAIN regs
    BY DEF TableInv
  <2>2. \A d \in DOMAIN regs : \E i \in 1..Len(table) : table[i].dev = d
    BY DEF TableInv
  <2> QED BY <2>1, <2>2
<1>1. /\ Len(table) \in Nat /\ \A i \in 1..Len(table) : table[i].dev \in Devices
  <2>1. \A i \in 1..Len(table) : table[i] \in [dev : Devices, hook : Hooks]
    BY ElementOfSeq DEF TypeOK
  <2> QED BY <2>1 DEF TypeOK
<1>2. ASSUME NEW d \in Devices, NEW h \in Hooks, pmu_register_sleep_callback(d, h)
      PROVE  TableInv'
  <2> DEFINE row == [dev |-> d, hook |-> h]
             n == Len(table)
  <2>1. /\ DOMAIN regs' = DOMAIN regs \union {d} /\ regs'[d] = h
        /\ \A e \in DOMAIN regs \ {d} : regs'[e] = regs[e]
        /\ idle = "awake" /\ suspended = {} /\ UNCHANGED <<idle, suspended>>
    BY <1>2 DEF pmu_register_sleep_callback, Awake, TableInv, entering
  <2>2. DOMAIN regs' \subseteq Devices /\ suspended' = {} /\ idle' = "awake"
    BY <2>1 DEF TableInv
  <2>3. CASE RowsOf(d) = {}
    <3>1. table' = Append(table, row)
      BY <1>2, <2>3 DEF pmu_register_sleep_callback
    <3>2. /\ Len(table') = n + 1 /\ table'[n + 1] = row
          /\ \A i \in 1..n : table'[i] = table[i]
      BY <3>1 DEF TypeOK
    <3>3. \A i \in 1..n : table[i].dev # d
      BY <2>3 DEF RowsOf
    <3>4. \A i \in 1..(n + 1) : i \in 1..n \/ i = n + 1
      BY <1>1
    <3>5. 1..n \subseteq 1..(n + 1) /\ n + 1 \in 1..(n + 1)
      BY <1>1
    <3>6. row.dev = d /\ row.hook = h
      OBVIOUS
    <3> HIDE DEF row, n
    <3>7. \A i \in 1..Len(table') :
            table'[i].dev \in DOMAIN regs' /\ table'[i].hook = regs'[table'[i].dev]
      BY <2>1, <3>2, <3>3, <3>4, <3>6 DEF TableInv, n
    <3>8. \A e \in DOMAIN regs' : \E i \in 1..Len(table') : table'[i].dev = e
      <4>1. table'[n + 1].dev = d /\ n + 1 \in 1..Len(table')
        BY <3>2, <3>5, <3>6
      <4>2. ASSUME NEW e \in DOMAIN regs PROVE \E i \in 1..Len(table') : table'[i].dev = e
        <5>1. PICK i \in 1..n : table[i].dev = e
          BY <4>2 DEF TableInv, n
        <5> QED BY <3>2, <3>5, <5>1
      <4>3. \A e \in DOMAIN regs' : e = d \/ e \in DOMAIN regs
        BY <2>1
      <4> QED BY <4>1, <4>2, <4>3
    <3>9. ASSUME NEW i \in 1..(n + 1), NEW j \in 1..(n + 1), table'[i].dev = table'[j].dev
          PROVE  i = j
      <4>1. CASE i \in 1..n /\ j \in 1..n
        BY <3>2, <3>9, <4>1 DEF TableInv, n
      <4>2. \A k \in 1..n : table'[k].dev # table'[n + 1].dev
        BY <3>2, <3>3, <3>6
      <4> QED BY <3>4, <3>9, <4>1, <4>2
    <3> QED BY <2>2, <3>2, <3>7, <3>8, <3>9 DEF TableInv
  <2>4. CASE RowsOf(d) # {}
    <3>1. table' = [i \in 1..n |-> IF i \in RowsOf(d) THEN row ELSE table[i]]
      BY <1>2, <2>4 DEF pmu_register_sleep_callback
    <3>2. /\ Len(table') = n
          /\ \A i \in 1..n : table'[i] = IF table[i].dev = d THEN row ELSE table[i]
      BY <1>1, <3>1 DEF RowsOf
    <3>3. PICK k \in 1..n : table[k].dev = d
      BY <2>4 DEF RowsOf
    <3>4. row.dev = d /\ row.hook = h
      OBVIOUS
    <3> HIDE DEF row, n
    <3>5. \A i \in 1..n : table'[i].dev = table[i].dev
      BY <3>2, <3>4
    <3>6. ASSUME NEW i \in 1..n
          PROVE  table'[i].dev \in DOMAIN regs' /\ table'[i].hook = regs'[table'[i].dev]
      <4>1. CASE table[i].dev = d
        BY <2>1, <3>2, <3>4, <4>1
      <4>2. CASE table[i].dev # d
        <5>1. table'[i] = table[i] /\ table[i].dev \in DOMAIN regs \ {d}
              /\ table[i].hook = regs[table[i].dev]
          BY <3>2, <4>2 DEF TableInv, n
        <5> QED BY <2>1, <5>1
      <4> QED BY <4>1, <4>2
    <3>7. ASSUME NEW e \in DOMAIN regs' PROVE \E i \in 1..n : table'[i].dev = e
      <4>1. CASE e = d
        BY <3>3, <3>5, <4>1
      <4>2. CASE e # d
        <5>1. e \in DOMAIN regs
          BY <2>1, <4>2
        <5>2. PICK i \in 1..n : table[i].dev = e
          BY <5>1 DEF TableInv, n
        <5> QED BY <3>5, <5>2
      <4> QED BY <4>1, <4>2
    <3>8. \A i, j \in 1..Len(table') : table'[i].dev = table'[j].dev => i = j
      BY <3>2, <3>5 DEF TableInv, n
    <3> QED BY <2>2, <3>2, <3>6, <3>7, <3>8 DEF TableInv
  <2> QED BY <2>3, <2>4
<1>3. ASSUME NEW d \in Devices, pmu_unregister_sleep_callback(d) PROVE TableInv'
  <2> DEFINE n == Len(table)
  <2>1. PICK k \in 1..n : table' = Without(k) /\ table[k].dev = d
    BY <1>3 DEF pmu_unregister_sleep_callback, RowsOf
  <2>2. /\ DOMAIN regs' = DOMAIN regs \ {d}
        /\ \A e \in DOMAIN regs \ {d} : regs'[e] = regs[e]
        /\ idle = "awake" /\ suspended = {} /\ UNCHANGED <<idle, suspended>>
    BY <1>3 DEF pmu_unregister_sleep_callback, Awake, TableInv, entering
  <2>3. /\ Len(table') = n - 1
        /\ \A j \in 1..(n - 1) : table'[j] = IF j = k THEN table[n] ELSE table[j]
    BY <2>1, WithoutIs DEF TypeOK
  \* Where a row of the new table comes from, and where one of the old goes.
  <2> DEFINE old(j) == IF j = k THEN n ELSE j
             new(i) == IF i = n THEN k ELSE i
  <2>4. \A j \in 1..(n - 1) : old(j) \in 1..n /\ old(j) # k /\ table'[j] = table[old(j)]
    BY <1>1, <2>3
  <2>5. \A i \in 1..n \ {k} : new(i) \in 1..(n - 1) /\ table'[new(i)] = table[i]
    BY <1>1, <2>3
  <2>6. \A i, j \in 1..(n - 1) : old(i) = old(j) => i = j
    BY <1>1
  <2> HIDE DEF n, old, new
  <2>7. \A i \in 1..n \ {k} : table[i].dev # d
    BY <2>1 DEF TableInv, n
  <2>8. \A j \in 1..Len(table') :
          table'[j].dev \in DOMAIN regs' /\ table'[j].hook = regs'[table'[j].dev]
    <3>1. SUFFICES ASSUME NEW j \in 1..(n - 1)
                   PROVE  table'[j].dev \in DOMAIN regs' /\ table'[j].hook = regs'[table'[j].dev]
      BY <2>3
    <3>2. old(j) \in 1..n \ {k} /\ table'[j] = table[old(j)]
      BY <2>4
    <3>3. /\ table[old(j)].dev \in DOMAIN regs /\ table[old(j)].hook = regs[table[old(j)].dev]
          /\ table[old(j)].dev # d
      BY <2>7, <3>2 DEF TableInv, n
    <3> QED BY <2>2, <3>2, <3>3
  <2>9. ASSUME NEW e \in DOMAIN regs' PROVE \E j \in 1..Len(table') : table'[j].dev = e
    <3>1. e \in DOMAIN regs /\ e # d
      BY <2>2
    <3>2. PICK i \in 1..n : table[i].dev = e
      BY <3>1 DEF TableInv, n
    <3>3. i # k
      BY <2>1, <3>1, <3>2
    <3> QED BY <2>3, <2>5, <3>2, <3>3
  <2>10. ASSUME NEW i \in 1..(n - 1), NEW j \in 1..(n - 1), table'[i].dev = table'[j].dev
         PROVE  i = j
    <3>1. table[old(i)].dev = table[old(j)].dev /\ old(i) \in 1..n /\ old(j) \in 1..n
      BY <2>4, <2>10
    <3>2. old(i) = old(j)
      BY <3>1 DEF TableInv, n
    <3> QED BY <2>6, <3>2
  <2>11. DOMAIN regs' \subseteq Devices /\ suspended' = {} /\ idle' = "awake"
    BY <2>2 DEF TableInv
  <2> QED BY <2>3, <2>8, <2>9, <2>10, <2>11 DEF TableInv
<1>4. CASE Sleep
  <2>1. suspended' = {table[i].dev : i \in 1..Len(table)} /\ idle' = "asleep"
        /\ UNCHANGED <<table, regs>>
    BY <1>4 DEF Sleep, drivers
  <2> QED BY <1>0, <2>1 DEF TableInv
<1>5. ASSUME NEW elapsed \in 0..(stime * PerTick + MaxLate), Wake(elapsed) PROVE TableInv'
  <2>1. /\ suspended' = suspended \ {table[i].dev : i \in 1..Len(table)}
        /\ idle = "asleep" /\ idle' = "awake" /\ UNCHANGED <<table, regs>>
    BY <1>5 DEF Wake, drivers
  <2>2. suspended = DOMAIN regs
    BY <2>1 DEF TableInv
  <2>3. suspended' = {} /\ idle' # "asleep"
    BY <1>0, <2>1, <2>2
  <2> QED BY <2>1, <2>3 DEF TableInv
<1>6. CASE UNCHANGED <<table, regs, suspended>> /\ (idle = "asleep" <=> idle' = "asleep")
  BY <1>6 DEF TableInv
<1>7. ASSUME NEW c \in Contexts, Call(c) \/ Load(c) \/ Store(c)
      PROVE  UNCHANGED <<table, regs, suspended, idle>>
  BY <1>7 DEF Call, Load, Store, drivers, entering
<1>8. ASSUME Check \/ Abort
      PROVE  UNCHANGED <<table, regs, suspended>> /\ idle # "asleep" /\ idle' # "asleep"
  BY <1>8 DEF Check, Abort, Awake, drivers
<1>9. ASSUME UNCHANGED vars PROVE UNCHANGED <<table, regs, suspended, idle>>
  BY <1>9 DEF vars, drivers, entering
<1> QED
  BY <1>2, <1>3, <1>4, <1>5, <1>6, <1>7, <1>8, <1>9, StepIs

LEMMA RegisteredHolds ==
  ASSUME TypeOK, TableInv
  PROVE  Registered
<1>1. ASSUME NEW d \in Devices
      PROVE  Cardinality(RowsOf(d)) = IF d \in DOMAIN regs THEN 1 ELSE 0
  <2>1. CASE d \in DOMAIN regs
    <3>1. PICK i \in 1..Len(table) : table[i].dev = d
      BY <2>1 DEF TableInv
    <3>2. RowsOf(d) = {i}
      BY <3>1 DEF TableInv, RowsOf
    <3> QED BY <2>1, <3>2, FS_Singleton
  <2>2. CASE d \notin DOMAIN regs
    <3>1. RowsOf(d) = {}
      BY <2>2 DEF TableInv, RowsOf
    <3> QED BY <2>2, <3>1, FS_EmptySet
  <2> QED BY <2>1, <2>2
<1> QED BY <1>1 DEF Registered, TableInv

(***************************************************************************)
(* The theorems.                                                           *)
(***************************************************************************)
PmuInv ==
  TypeOK /\ DoingInv /\ UpdatesInv /\ TimerInv /\ SleepInv /\ ClockInv /\ TableInv

LEMMA PmuInvInitially == Init => PmuInv
<1> SUFFICES ASSUME Init PROVE PmuInv
  OBVIOUS
<1>1. TypeOK
  <2>1. /\ OS \in Locks /\ 0 \in 0..MaxIdle /\ 0 \in 0..(Counts - 1) /\ 0 \in 0..(Wrap - 1)
    BY PmuAssumption, BoundsAre
  <2>2. word \in [Words -> SUBSET Bits] /\ told \in [Words -> SUBSET Bits]
    BY <2>1 DEF Init, Words, Bits
  <2>3. todo \in [Contexts -> Seq(Update)] /\ \A c \in Contexts : Len(todo[c]) <= 2
    BY DEF Init
  <2>4. table \in Seq([dev : Devices, hook : Hooks])
    BY DEF Init
  <2>5. read \in [Contexts -> (SUBSET Bits) \union {None}]
    BY DEF Init
  <2>6. /\ stime \in 0..MaxIdle /\ before \in 0..(Counts - 1)
        /\ missing_tick \in 0..(Wrap - 1) /\ owed \in Int
    BY <2>1 DEF Init
  <2>7. idle \in {"awake", "checked", "asleep"} /\ pended \in BOOLEAN
        /\ {astray, overstep} \subseteq BOOLEAN
    BY DEF Init
  <2>8. suspended \subseteq Devices /\ risk \subseteq Words \X Bits /\ late \subseteq Locks
    BY DEF Init
  <2> QED BY <2>2, <2>3, <2>4, <2>5, <2>6, <2>7, <2>8 DEF TypeOK
<1>2. DoingInv /\ UpdatesInv /\ TimerInv
  BY PmuAssumption DEF Init, DoingInv, Doing, UpdatesInv, OnlyPreemptingUpdatesAreLost,
     TimerInv, Words
<1>3. SleepInv /\ ClockInv /\ TableInv
  BY PmuAssumption DEF Init, SleepInv, ClockInv, Accounted, TableInv, Words
<1> QED BY <1>1, <1>2, <1>3 DEF PmuInv

LEMMA PmuInvStep == PmuInv /\ [Next]_vars => PmuInv'
<1> SUFFICES ASSUME PmuInv, [Next]_vars PROVE PmuInv'
  OBVIOUS
<1>1. TypeOK' /\ DoingInv'
  BY TypeInductive, DoingInvInductive DEF PmuInv
<1>2. UpdatesInv' /\ TimerInv'
  BY UpdatesInvInductive, TimerInvInductive DEF PmuInv
<1>3. SleepInv' /\ ClockInv' /\ TableInv'
  BY SleepInvInductive, ClockInvInductive, TableInvInductive DEF PmuInv, UpdatesInv
<1> QED BY <1>1, <1>2, <1>3 DEF PmuInv

THEOREM PmuInvariant == Spec => []PmuInv
BY PmuInvInitially, PmuInvStep, PTL DEF Spec

\* The variables keep their types: missing_tick stays below the modulus of the
\* reading, and a lock that is taken late is a lock.
THEOREM PmuTypeCorrect == Spec => []TypeOK
<1>1. PmuInv => TypeOK
  BY DEF PmuInv
<1> QED BY <1>1, PmuInvariant, PTL

\* A read-modify-write without a lock loses only the updates that interrupted
\* another of the same word, for any number of tasks and handlers: because
\* whoever is in the middle of an update when another stores is below it.
THEOREM UpdatesOfTheLowestAreKept == Spec => []OnlyPreemptingUpdatesAreLost
<1>1. PmuInv => OnlyPreemptingUpdatesAreLost
  BY DEF PmuInv, UpdatesInv
<1> QED BY <1>1, PmuInvariant, PTL

\* No sleep while a lock is held, but for the locks named, and none that the
\* system timer does not end.
THEOREM SleepIsSound == Spec => []SoundSleep
<1>1. PmuInv => SoundSleep
  <2> SUFFICES ASSUME PmuInv, idle = "asleep" PROVE SoundSleep
    BY DEF SoundSleep
  <2>1. told["wakelock"] \subseteq late \union {l \in Locks : <<"wakelock", l>> \in risk}
    BY DEF PmuInv, SleepInv
  <2>2. \A c \in Contexts : ~Restores(c)
    BY DEF PmuInv, SleepInv, Quiet, Restores
  <2>3. STIMER \in word["wakeup_event"]
    BY <2>2 DEF PmuInv, TimerInv
  <2> QED BY <2>1, <2>3 DEF SoundSleep
<1> QED BY <1>1, PmuInvariant, PTL

\* The time slept is accounted for, whatever the size of a tick, of the reading
\* and of the counter, if the reading outlasts a sleep.
THEOREM TimeIsAccounted == Spec => []Accounted
<1>1. PmuInv => Accounted
  BY DEF PmuInv, ClockInv
<1> QED BY <1>1, PmuInvariant, PTL

\* The table of callbacks and the devices registered are the same.
THEOREM TableIsRegistered == Spec => []Registered
<1>1. PmuInv => Registered
  BY RegisteredHolds DEF PmuInv
<1> QED BY <1>1, PmuInvariant, PTL
==============================================================================
