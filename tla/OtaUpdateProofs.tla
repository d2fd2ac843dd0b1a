-------------------------- MODULE OtaUpdateProofs --------------------------
(***************************************************************************)
(* Proofs about OtaUpdate for any layout, files, bounds and size of a      *)
(* sector, in four parts, each with its invariant:                         *)
(*   - the lock of the flash (LockInv): every step of the update, the      *)
(*     command and a reset moves it by an action of DeviceLock, puts it    *)
(*     back to its start, or leaves it alone;                              *)
(*   - the system data and their backup (DataInv);                         *)
(*   - the firmware (FirmInv);                                             *)
(*   - the images the boot loader finds, and the types (BootInv).          *)
(***************************************************************************)
EXTENDS OtaUpdate, NatLemmas, TLAPS

Users == {ota, console}

\* The type of the lock; no mutex before the bit is set; one who waits or holds
\* uses the last mutex created; one holder.  The last part alone is not
\* inductive: a second mutex would let in a second task.
LockInv ==
  /\ mutex_init \in BOOLEAN /\ created \in Nat
  /\ at \in [Users -> {"out", "create", "take", "in"}]
  /\ holds \in [Users -> Nat]
  /\ \A t \in Users : at[t] \in {"take", "in"} => mutex_init
  /\ \A t \in Users : at[t] = "in" => holds[t] = created
  /\ \A t, u \in Users : at[t] = "in" /\ at[u] = "in" => t = u

LockStep == \E t \in Users : Lock!Enter(t) \/ Lock!Create(t) \/ Lock!Take(t) \/ Lock!Unlock(t)
LockReset == /\ mutex_init' = FALSE /\ created' = 0
             /\ at' = [t \in Users |-> "out"] /\ holds' = [t \in Users |-> 0]

\* The lock's own steps keep the invariant (device_mutex_lock, device_mutex_unlock).
LEMMA LockStepKeeps == LockInv /\ LockStep => LockInv'
<1> SUFFICES ASSUME LockInv, NEW t \in Users,
                    Lock!Enter(t) \/ Lock!Create(t) \/ Lock!Take(t) \/ Lock!Unlock(t)
             PROVE  LockInv'
  BY DEF LockStep
<1> USE DEF LockInv, Lock!Move
<1>1. CASE Lock!Enter(t)
  BY <1>1 DEF Lock!Enter
<1>2. CASE Lock!Create(t)
  <2>1. CASE mutex_init
    BY <1>2, <2>1 DEF Lock!Create
  <2>2. CASE ~mutex_init
    BY <1>2, <2>2 DEF Lock!Create
  <2> QED BY <2>1, <2>2
<1>3. CASE Lock!Take(t)
  <2>1. \A u \in Users : at[u] # "in"
    BY <1>3 DEF Lock!Take, Users
  <2> QED BY <1>3, <2>1 DEF Lock!Take
<1>4. CASE Lock!Unlock(t)
  BY <1>4 DEF Lock!Unlock
<1> QED BY <1>1, <1>2, <1>3, <1>4

LEMMA LockResetKeeps == LockReset => LockInv'
<1> SUFFICES ASSUME LockReset PROVE LockInv'
  OBVIOUS
<1>1. mutex_init' \in BOOLEAN /\ created' \in Nat
  BY DEF LockReset
<1>2. \A t \in Users : at'[t] = "out" /\ holds'[t] = 0
  BY DEF LockReset
<1>3. at' \in [Users -> {"out", "create", "take", "in"}] /\ holds' \in [Users -> Nat]
  BY DEF LockReset
<1> QED BY <1>1, <1>2, <1>3 DEF LockInv

\* What each step of the system does to the lock.
LEMMA EachStep == Next => LockStep \/ LockReset \/ UNCHANGED locks
<1> SUFFICES ASSUME Next PROVE LockStep \/ LockReset \/ UNCHANGED locks
  OBVIOUS
<1>1. CASE LockFlash
  BY <1>1 DEF LockFlash, LockStep, Lock!Locking, Users
<1>2. CASE CommandLocks
  BY <1>2 DEF CommandLocks, LockStep, Lock!Locking, Users
<1>3. CASE Prepare \/ Reread
  BY <1>3 DEF Prepare, Reread, LockStep, Users
<1>4. CASE WriteAddress
  <2>1. Lock!Unlock(ota) \/ NoLock
    BY <1>4 DEF WriteAddress
  <2> QED BY <2>1 DEF NoLock, LockStep, Users
<1>5. CASE EraseRegion
  <2>1. Lock!Unlock(ota) \/ NoLock
    BY <1>5 DEF EraseRegion
  <2> QED BY <2>1 DEF NoLock, LockStep, Users
<1>6. CASE WriteCell \/ Look
  BY <1>6 DEF WriteCell, Look, LockStep, Users
<1>7. CASE Sign
  <2>1. Lock!Unlock(ota) \/ NoLock
    BY <1>7 DEF Sign
  <2> QED BY <2>1 DEF NoLock, LockStep, Users
<1>8. CASE WriteBack
  <2>1. Lock!Unlock(console) \/ NoLock
    BY <1>8 DEF WriteBack
  <2> QED BY <2>1 DEF NoLock, LockStep, Users
<1>9. CASE Reset \/ PowerLoss
  <2>1. Restart
    BY <1>9 DEF Reset, PowerLoss
  <2> QED BY <2>1 DEF Restart, LockReset, Users
<1>10. CASE Start \/ Command
  BY <1>10 DEF Start, Command, locks
<1>11. CASE Read \/ update_ota_checksum \/ ReadErase
  BY <1>11 DEF Read, update_ota_checksum, ReadErase, NoLock, locks
<1> QED BY <1>1, <1>2, <1>3, <1>4, <1>5, <1>6, <1>7, <1>8, <1>9, <1>10, <1>11 DEF Next

LEMMA LockInvInductive == Spec => []LockInv
<1>1. Init => LockInv
  <2> SUFFICES ASSUME Init PROVE LockInv
    OBVIOUS
  <2>1. mutex_init \in BOOLEAN /\ created \in Nat
    BY DEF Init
  <2>2. \A t \in Users : at[t] = "out" /\ holds[t] = 0
    BY DEF Init, Users
  <2>3. at \in [Users -> {"out", "create", "take", "in"}] /\ holds \in [Users -> Nat]
    BY DEF Init, Users
  <2> QED BY <2>1, <2>2, <2>3 DEF LockInv
<1>2. LockInv /\ [Next]_vars => LockInv'
  <2> SUFFICES ASSUME LockInv, [Next]_vars PROVE LockInv'
    OBVIOUS
  <2>1. CASE UNCHANGED locks
    BY <2>1 DEF locks, LockInv
  <2>2. CASE LockStep \/ LockReset
    BY <2>2, LockStepKeeps, LockResetKeeps
  <2>3. CASE UNCHANGED vars
    BY <2>1, <2>3 DEF vars, locks
  <2> QED BY <2>1, <2>2, <2>3, EachStep
<1> QED BY <1>1, <1>2, PTL DEF Spec

\* The lock of the flash is held by one of the two tasks at a time, whatever the
\* order in which they come first, after any number of resets (device_lock.c).
THEOREM FlashLockHeldOnce == Spec => []FlashLockExclusive
<1>1. LockInv => FlashLockExclusive
  BY DEF LockInv, FlashLockExclusive, Lock!Exclusive, Users
<1> QED BY <1>1, LockInvInductive, PTL
-----------------------------------------------------------------------------
(***************************************************************************)
(* The system data.                                                        *)
(***************************************************************************)
Numbers == /\ step \in Nat /\ size \in Nat /\ cstep \in Nat /\ spoilt \in BOOLEAN
           /\ DOMAIN flash = 0..Top

\* The first k cells of a copy are written, the first of them with the address,
\* the others still to be.
Progress(base, k) ==
  \A i \in 0 .. Sector - 1 :
    IF i < k THEN i # 0 => flash[base + i] = Cell("settings", i)
    ELSE flash[base + i] = Erased

\* Where write_ota_addr_to_system_data is: the original until the copy is
\* complete, the copy until the original is written again.
CopyInv ==
  phase = "address" /\ step > 0 /\ ~spoilt =>
    /\ step <= 2 * Sector + 2
    /\ step <= Sector + 1 => SettingsIn(OFFSET_DATA) /\ Progress(BACKUP_SECTOR, step - 1)
    /\ step > Sector + 1 => /\ Progress(BACKUP_SECTOR, Sector)
                            /\ Progress(OFFSET_DATA, step - Sector - 2)

\* SettingsKept alone is not inductive: it does not say that the copy is
\* complete when the original is erased.
DataInv == Numbers /\ CopyInv /\ SettingsKept

\* The system data and their backup; all that is below the update.
DataCells == 0 .. 2 * Sector - 1
BelowKept == \A a \in 0 .. OtaAddr - 1 : flash'[a] = flash[a]

LEMMA Erasing ==
  ASSUME NEW a \in Nat, EraseSector(a), DOMAIN flash = 0..Top
  PROVE  /\ DOMAIN flash' = 0..Top
         /\ \A b \in 0..Top : flash'[b] = IF b \in a .. a + Sector - 1 THEN Erased ELSE flash[b]
BY DEF EraseSector

LEMMA Programming ==
  ASSUME NEW a, NEW c, Program(a, c), DOMAIN flash = 0..Top
  PROVE  /\ DOMAIN flash' = 0..Top
         /\ \A b \in 0..Top : b # a => flash'[b] = flash[b]
         /\ a \in 0..Top /\ flash[a] = Erased /\ c.of # None => flash'[a] = c
BY DEF Program, Erased

LEMMA InFlash == DataCells \subseteq 0..Top
BY OtaAssumption DEF DataCells, Top, OtaAddr

\* SettingsIn depends on the data cells only.
LEMMA Unmoved ==
  ASSUME BelowKept
  PROVE  \A a \in {BACKUP_SECTOR, OFFSET_DATA} : SettingsIn(a) => SettingsIn(a)'
<1>1. \A a \in {BACKUP_SECTOR, OFFSET_DATA}, i \in 1..Sector - 1 : a + i \in 0 .. OtaAddr - 1
  BY OtaAssumption DEF BACKUP_SECTOR, OFFSET_DATA, OtaAddr
<1> QED BY <1>1 DEF SettingsIn, BelowKept

\* No step but the rewrite itself touches anything below the address of the update.
LEMMA Elsewhere ==
  ASSUME Numbers, Next, ~WriteAddress
  PROVE  /\ Numbers' /\ BelowKept /\ spoilt' = spoilt
         /\ phase' = "address" => step' = 0 \/ (phase' = phase /\ step' = step)
<1> DEFINE Goal == /\ Numbers' /\ BelowKept /\ spoilt' = spoilt
                   /\ phase' = "address" => step' = 0 \/ (phase' = phase /\ step' = step)
<1>0. /\ Sector \in Nat /\ OtaAddr \in Nat /\ OtaAddr > 2 * Sector
      /\ \A a \in 0 .. OtaAddr - 1 : a \in Nat /\ a < OtaAddr /\ a \in 0..Top
  BY OtaAssumption DEF OtaAddr, Top
<1>1. CASE UNCHANGED flash /\ spoilt' = spoilt /\ UNCHANGED <<phase, step, size, cstep>>
  BY <1>1 DEF Numbers, BelowKept, Top, OtaAddr
<1>2. CASE Start \/ Prepare \/ Reread \/ Read \/ update_ota_checksum
  <2>1. flash' = flash /\ spoilt' = spoilt /\ step' = 0 /\ size' \in {size, 0} /\ cstep' = cstep
    BY <1>2 DEF Start, Prepare, Reread, Read, update_ota_checksum, Go, Rest, NoOtaData,
                flashVars, cmdVars
  <2> QED BY <2>1 DEF Numbers, BelowKept, Top, OtaAddr
<1>3. CASE EraseRegion
  <2> DEFINE a == OtaAddr + step * Sector
  <2>1. step * Sector \in Nat
    BY <1>0 DEF Numbers
  <2>2. a \in Nat /\ a >= OtaAddr
    BY <1>0, <2>1
  <2>3. EraseSector(a) /\ spoilt' = spoilt /\ size' = size /\ cstep' = cstep
    BY <1>3 DEF EraseRegion, NoOtaData, cmdVars
  <2>4. step' \in Nat /\ phase' # "address"
    BY <1>3 DEF EraseRegion, InPhase, Go, Numbers
  <2> HIDE DEF a
  <2>5. DOMAIN flash' = 0..Top /\ BelowKept
    BY <1>0, <2>2, <2>3, Erasing DEF Numbers, BelowKept
  <2> QED BY <2>3, <2>4, <2>5 DEF Numbers, Top, OtaAddr
<1>4. CASE WriteCell
  <2>1. Program(OtaAddr + size, Cell(file, size)) /\ spoilt' = spoilt /\ cstep' = cstep
    BY <1>4 DEF WriteCell, Rest, cmdVars
  <2>2. size' = size + 1 /\ step' = 0 /\ phase' # "address"
    BY <1>4 DEF WriteCell, Go
  <2>3. \A a \in 0 .. OtaAddr - 1 : a # OtaAddr + size
    BY <1>0 DEF Numbers
  <2>4. DOMAIN flash' = 0..Top /\ BelowKept
    BY <1>0, <2>1, <2>3, Programming DEF Numbers, BelowKept
  <2> QED BY <2>1, <2>2, <2>4 DEF Numbers, Top, OtaAddr
<1>5. CASE Sign
  <2>1. /\ flash' = [flash EXCEPT ![OtaAddr] = Signed(@, IF step = 0 THEN "half" ELSE "run")]
        /\ spoilt' = spoilt /\ size' = size /\ cstep' = cstep
    BY <1>5 DEF Sign, NoOtaData, Rest, cmdVars
  <2>2. step' \in Nat /\ phase' # "address"
    BY <1>5 DEF Sign, Go, InPhase
  <2>3. DOMAIN flash' = 0..Top /\ BelowKept
    BY <1>0, <2>1 DEF Numbers, BelowKept
  <2> QED BY <2>1, <2>2, <2>3 DEF Numbers, Top, OtaAddr
<1>6. CASE Command \/ Look
  <2>1. flash' = flash /\ UNCHANGED <<phase, step, size, spoilt>>
    BY <1>6 DEF Command, Look, CommandRest, flashVars, otaVars
  <2>2. cstep' \in Nat
    BY <1>0, <1>6 DEF Command, Look
  <2> QED BY <2>1, <2>2 DEF Numbers, BelowKept, Top, OtaAddr
<1>7. CASE ReadErase
  <2>1. EraseSector(OtaAddr) /\ cstep' = 2 /\ UNCHANGED <<phase, step, size, spoilt>>
    BY <1>7 DEF ReadErase, CommandRest, otaVars
  <2>2. DOMAIN flash' = 0..Top /\ BelowKept
    BY <1>0, <2>1, Erasing DEF Numbers, BelowKept
  <2> QED BY <2>1, <2>2 DEF Numbers, Top, OtaAddr
<1>8. CASE WriteBack
  <2>1. /\ Program(OtaAddr + cstep - 2, buf[cstep - 1]) /\ cstep >= 2 /\ cstep' = cstep + 1
        /\ UNCHANGED <<phase, step, size, spoilt>>
    BY <1>0, <1>8 DEF WriteBack, CommandRest, otaVars, Numbers
  <2>2. \A a \in 0 .. OtaAddr - 1 : a # OtaAddr + cstep - 2
    BY <1>0, <2>1 DEF Numbers
  <2>3. DOMAIN flash' = 0..Top /\ BelowKept
    BY <1>0, <2>1, <2>2, Programming DEF Numbers, BelowKept
  <2> QED BY <2>1, <2>3 DEF Numbers, Top, OtaAddr
<1>9. CASE Reset \/ PowerLoss
  <2>1. Restart
    BY <1>9 DEF Reset, PowerLoss
  <2> QED BY <2>1 DEF Restart, flashVars, Numbers, BelowKept, Top, OtaAddr
<1>10. CASE LockFlash \/ CommandLocks
  BY <1>1, <1>10 DEF LockFlash, CommandLocks, flashVars, otaVars, cmdVars
<1> QED BY <1>2, <1>3, <1>4, <1>5, <1>6, <1>7, <1>8, <1>9, <1>10 DEF Next

\* The first step of the rewrite: the backup is erased, the original is there, or
\* the original has an address to take already.
LEMMA RewriteBegins ==
  ASSUME DataInv, WriteAddress, step = 0
  PROVE  DataInv'
<1>0. /\ Sector \in Nat /\ Sector > 1 /\ OFFSET_DATA = Sector /\ BACKUP_SECTOR = 0
      /\ DataCells \subseteq 0..Top /\ Numbers /\ DOMAIN flash = 0..Top
  BY OtaAssumption, InFlash DEF OFFSET_DATA, BACKUP_SECTOR, DataInv, Numbers
<1>1. /\ size' = size /\ cstep' = cstep
      /\ spoilt' = (spoilt \/ ~SettingsIn(OFFSET_DATA))
  BY DEF WriteAddress, NoOtaData, cmdVars
<1>2. CASE flash[OFFSET_DATA] = Erased
  <2>1. Program(OFFSET_DATA, Address) /\ phase' # "address" /\ step' = 0
    BY <1>2 DEF WriteAddress, Go
  <2>2. DOMAIN flash' = 0..Top /\ \A b \in DataCells : b # OFFSET_DATA => flash'[b] = flash[b]
    BY <1>0, <2>1, Programming
  <2>3. \A i \in 1..Sector - 1 : OFFSET_DATA + i \in DataCells /\ OFFSET_DATA + i # OFFSET_DATA
    BY <1>0 DEF DataCells
  <2>4. SettingsIn(OFFSET_DATA) => SettingsIn(OFFSET_DATA)'
    BY <2>2, <2>3 DEF SettingsIn
  <2> QED BY <1>0, <1>1, <2>1, <2>2, <2>4 DEF DataInv, Numbers, CopyInv, SettingsKept, Top, OtaAddr
<1>3. CASE flash[OFFSET_DATA] # Erased
  <2>1. Rewrite(0) /\ phase' = phase /\ step' = 1
    BY <1>0, <1>3 DEF WriteAddress
  <2>2. EraseSector(0)
    BY <1>0, <2>1 DEF Rewrite, BACKUP_SECTOR
  <2>3. /\ DOMAIN flash' = 0..Top
        /\ \A b \in 0..Sector - 1 : flash'[b] = Erased
        /\ \A b \in Sector..2 * Sector - 1 : flash'[b] = flash[b]
    <3>1. /\ DOMAIN flash' = 0..Top
          /\ \A b \in 0..Top : flash'[b] = IF b \in 0 .. 0 + Sector - 1 THEN Erased ELSE flash[b]
      BY <1>0, <2>2, Erasing
    <3>2. \A b \in 0..Sector - 1 : b \in 0..Top /\ b \in 0 .. 0 + Sector - 1
      BY <1>0 DEF DataCells
    <3>3. \A b \in Sector..2 * Sector - 1 : b \in 0..Top /\ b \notin 0 .. 0 + Sector - 1
      BY <1>0 DEF DataCells
    <3> QED BY <3>1, <3>2, <3>3
  <2>4. \A i \in 1..Sector - 1 : OFFSET_DATA + i \in Sector..2 * Sector - 1
    BY <1>0
  <2>5. SettingsIn(OFFSET_DATA) => SettingsIn(OFFSET_DATA)'
    BY <2>3, <2>4 DEF SettingsIn
  <2>6. Progress(BACKUP_SECTOR, step - 1)'
    BY <1>0, <2>1, <2>3 DEF Progress, BACKUP_SECTOR
  <2>7. Numbers'
    BY <1>0, <1>1, <2>1, <2>3 DEF Numbers, Top, OtaAddr
  <2>8. ~spoilt' => SettingsIn(OFFSET_DATA)
    BY <1>1
  <2> QED BY <1>0, <2>1, <2>5, <2>6, <2>7, <2>8 DEF DataInv, CopyInv, SettingsKept
<1> QED BY <1>2, <1>3

\* What the other steps have in common, but for the last.
LEMMA RewriteGoesOn ==
  ASSUME WriteAddress, Numbers, step # 0
  PROVE  /\ size' = size /\ cstep' = cstep /\ spoilt' = spoilt /\ phase = "address"
         /\ Rewrite(step)
         /\ step # 2 * Sector + 2 => phase' = phase /\ step' = step + 1
<1>1. size' = size /\ cstep' = cstep /\ phase = "address"
  BY DEF WriteAddress, NoOtaData, cmdVars, InPhase
<1>2. Rewrite(step) /\ (step # 2 * Sector + 2 => phase' = phase /\ step' = step + 1)
  BY DEF WriteAddress
<1>3. spoilt' = (spoilt \/ (step = 0 /\ ~SettingsIn(OFFSET_DATA)))
  BY DEF WriteAddress
<1>4. spoilt' = spoilt
  BY <1>3 DEF Numbers
<1> QED BY <1>1, <1>2, <1>4

\* The copy to the backup: what is written is what the original holds.
LEMMA RewriteSaves ==
  ASSUME DataInv, WriteAddress, step \in 1..Sector
  PROVE  DataInv'
<1>0. /\ Sector \in Nat /\ Sector > 1 /\ OFFSET_DATA = Sector /\ BACKUP_SECTOR = 0
      /\ DataCells \subseteq 0..Top /\ Numbers /\ DOMAIN flash = 0..Top /\ step \in Nat
  BY OtaAssumption, InFlash DEF OFFSET_DATA, BACKUP_SECTOR, DataInv, Numbers
<1>1. /\ size' = size /\ cstep' = cstep /\ spoilt' = spoilt /\ phase = "address"
      /\ Rewrite(step) /\ phase' = phase /\ step' = step + 1
  BY <1>0, RewriteGoesOn
<1>2. Program(step - 1, Saved(step - 1))
  BY <1>0, <1>1 DEF Rewrite
<1>3. DOMAIN flash' = 0..Top /\ \A b \in DataCells : b # step - 1 => flash'[b] = flash[b]
  BY <1>0, <1>2, Programming
<1>4. ASSUME ~spoilt
      PROVE  SettingsIn(OFFSET_DATA)' /\ Progress(BACKUP_SECTOR, step - 1)'
  <2>1. SettingsIn(OFFSET_DATA) /\ Progress(BACKUP_SECTOR, step - 1)
    BY <1>0, <1>1, <1>4 DEF DataInv, CopyInv
  <2>2. \A i \in 1..Sector - 1 : OFFSET_DATA + i \in DataCells /\ OFFSET_DATA + i # step - 1
    BY <1>0 DEF DataCells
  <2>3. SettingsIn(OFFSET_DATA)'
    BY <1>3, <2>1, <2>2 DEF SettingsIn
  <2>4. ASSUME step - 1 # 0 PROVE flash'[step - 1] = Cell("settings", step - 1)
    <3>1. Saved(step - 1) = Cell("settings", step - 1)
      BY <1>0, <2>1, <2>4 DEF Saved, SettingsIn
    <3>2. Cell("settings", step - 1).of # None
      BY OtaAssumption DEF Cell
    <3>3. step - 1 \in DataCells /\ flash[step - 1] = Erased
      BY <1>0, <2>1 DEF DataCells, Progress
    <3> QED BY <1>0, <1>2, <3>1, <3>2, <3>3, Programming
  <2>5. \A i \in 0..Sector - 1 : i \in DataCells
    BY <1>0 DEF DataCells
  <2>6. ASSUME NEW i \in 0..Sector - 1
        PROVE  IF i < step THEN i # 0 => flash'[i] = Cell("settings", i) ELSE flash'[i] = Erased
    <3>1. CASE i = step - 1
      BY <1>0, <2>4, <3>1
    <3>2. CASE i # step - 1
      <4>1. flash'[i] = flash[i]
        BY <1>3, <2>5, <3>2
      <4>2. i < step <=> i < step - 1
        BY <1>0, <3>2
      <4> QED BY <1>0, <2>1, <4>1, <4>2 DEF Progress
    <3> QED BY <3>1, <3>2
  <2>7. \A i \in 0..Sector - 1 : i < step <=> i < step' - 1
    BY <1>0, <1>1
  <2> QED BY <1>0, <2>3, <2>6, <2>7 DEF Progress, BACKUP_SECTOR
<1>5. Numbers'
  BY <1>0, <1>1, <1>3 DEF Numbers, Top, OtaAddr
<1>6. step' \in 2..Sector + 1 /\ step' - 1 = step
  BY <1>0, <1>1
<1> QED BY <1>0, <1>1, <1>4, <1>5, <1>6 DEF DataInv, CopyInv, SettingsKept

\* The original is erased when the copy is complete.
LEMMA RewriteErases ==
  ASSUME DataInv, WriteAddress, step = Sector + 1
  PROVE  DataInv'
<1>0. /\ Sector \in Nat /\ Sector > 1 /\ OFFSET_DATA = Sector /\ BACKUP_SECTOR = 0
      /\ DataCells \subseteq 0..Top /\ Numbers /\ DOMAIN flash = 0..Top
  BY OtaAssumption, InFlash DEF OFFSET_DATA, BACKUP_SECTOR, DataInv, Numbers
<1>1. /\ size' = size /\ cstep' = cstep /\ spoilt' = spoilt /\ phase = "address"
      /\ Rewrite(step) /\ phase' = phase /\ step' = Sector + 2
  BY <1>0, RewriteGoesOn
<1>2. EraseSector(Sector)
  BY <1>0, <1>1 DEF Rewrite, OFFSET_DATA
<1>3. /\ DOMAIN flash' = 0..Top
      /\ \A b \in 0..Sector - 1 : flash'[b] = flash[b]
      /\ \A b \in Sector..2 * Sector - 1 : flash'[b] = Erased
  <2>1. /\ DOMAIN flash' = 0..Top
        /\ \A b \in 0..Top : flash'[b] =
             IF b \in Sector .. Sector + Sector - 1 THEN Erased ELSE flash[b]
    BY <1>0, <1>2, Erasing
  <2>2. \A b \in 0..Sector - 1 : b \in 0..Top /\ b \notin Sector .. Sector + Sector - 1
    BY <1>0 DEF DataCells
  <2>3. \A b \in Sector..2 * Sector - 1 : b \in 0..Top /\ b \in Sector .. Sector + Sector - 1
    BY <1>0 DEF DataCells
  <2> QED BY <2>1, <2>2, <2>3
<1>4. ASSUME ~spoilt
      PROVE  /\ Progress(BACKUP_SECTOR, Sector)' /\ Progress(OFFSET_DATA, step - Sector - 2)'
             /\ SettingsIn(BACKUP_SECTOR)'
  <2>1. Progress(BACKUP_SECTOR, Sector)
    BY <1>0, <1>1, <1>4 DEF DataInv, CopyInv
  <2>2. \A i \in 0..Sector - 1 : OFFSET_DATA + i \in Sector..2 * Sector - 1
    BY <1>0
  <2>3. \A i \in 0..Sector - 1 : ~(i < step' - Sector - 2)
    BY <1>0, <1>1
  <2>4. Progress(OFFSET_DATA, step - Sector - 2)'
    BY <1>3, <2>2, <2>3 DEF Progress, OFFSET_DATA
  <2>5. Progress(BACKUP_SECTOR, Sector)'
    BY <1>0, <1>3, <2>1 DEF Progress
  <2>6. SettingsIn(BACKUP_SECTOR)'
    BY <1>0, <2>5 DEF Progress, SettingsIn
  <2> QED BY <2>4, <2>5, <2>6
<1>5. Numbers'
  BY <1>0, <1>1, <1>3 DEF Numbers, Top, OtaAddr
<1> QED BY <1>0, <1>1, <1>4, <1>5 DEF DataInv, CopyInv, SettingsKept

\* The original is written from the copy.
LEMMA RewriteRestores ==
  ASSUME DataInv, WriteAddress, step \in Sector + 2 .. 2 * Sector + 1
  PROVE  DataInv'
<1> DEFINE n == step - Sector - 2
<1>0. /\ Sector \in Nat /\ Sector > 1 /\ OFFSET_DATA = Sector /\ BACKUP_SECTOR = 0
      /\ DataCells \subseteq 0..Top /\ Numbers /\ DOMAIN flash = 0..Top /\ step \in Nat
      /\ n \in 0..Sector - 1
  BY OtaAssumption, InFlash DEF OFFSET_DATA, BACKUP_SECTOR, DataInv, Numbers
<1>1. /\ size' = size /\ cstep' = cstep /\ spoilt' = spoilt /\ phase = "address"
      /\ Rewrite(step) /\ phase' = phase /\ step' = step + 1
  BY <1>0, RewriteGoesOn
<1>2. Program(Sector + n, flash[n])
  BY <1>0, <1>1 DEF Rewrite, OFFSET_DATA, BACKUP_SECTOR
<1>3. DOMAIN flash' = 0..Top /\ \A b \in DataCells : b # Sector + n => flash'[b] = flash[b]
  BY <1>0, <1>2, Programming
<1>4. ASSUME ~spoilt
      PROVE  /\ Progress(BACKUP_SECTOR, Sector)' /\ Progress(OFFSET_DATA, step - Sector - 2)'
             /\ SettingsIn(BACKUP_SECTOR)'
  <2>1. Progress(BACKUP_SECTOR, Sector) /\ Progress(OFFSET_DATA, n)
    BY <1>0, <1>1, <1>4 DEF DataInv, CopyInv
  <2>2. \A i \in 0..Sector - 1 : i \in DataCells /\ i # Sector + n
    BY <1>0 DEF DataCells
  <2>3. Progress(BACKUP_SECTOR, Sector)'
    BY <1>0, <1>3, <2>1, <2>2 DEF Progress, BACKUP_SECTOR
  <2>4. SettingsIn(BACKUP_SECTOR)'
    BY <1>0, <2>3 DEF Progress, SettingsIn
  <2>5. ASSUME n # 0 PROVE flash'[Sector + n] = Cell("settings", n)
    <3>1. flash[n] = Cell("settings", n)
      BY <1>0, <2>1, <2>5 DEF Progress
    <3>2. Cell("settings", n).of # None
      BY OtaAssumption DEF Cell
    <3>3. Sector + n \in DataCells
      BY <1>0 DEF DataCells
    <3>4. ~(n < n) /\ flash[OFFSET_DATA + n] = Erased
      <4> HIDE DEF n
      <4> QED BY <1>0, <2>1 DEF Progress
    <3> QED BY <1>0, <1>2, <3>1, <3>2, <3>3, <3>4, Programming
  <2>6. ASSUME NEW i \in 0..Sector - 1
        PROVE  IF i < n + 1 THEN i # 0 => flash'[Sector + i] = Cell("settings", i)
               ELSE flash'[Sector + i] = Erased
    <3>1. CASE i = n
      BY <1>0, <2>5, <3>1
    <3>2. CASE i # n
      <4>1. flash'[Sector + i] = flash[Sector + i]
        <5> HIDE DEF n
        <5>1. Sector + i \in DataCells /\ Sector + i # Sector + n
          BY <1>0, <3>2 DEF DataCells
        <5> QED BY <1>3, <5>1
      <4>2. i < n + 1 <=> i < n
        BY <1>0, <3>2
      <4> QED BY <1>0, <2>1, <4>1, <4>2 DEF Progress
    <3> QED BY <3>1, <3>2
  <2>7. step' - Sector - 2 = n + 1
    BY <1>0, <1>1
  <2>8. Progress(OFFSET_DATA, step - Sector - 2)'
    BY <1>0, <2>6, <2>7 DEF Progress, OFFSET_DATA
  <2> QED BY <2>3, <2>4, <2>8
<1>5. Numbers'
  BY <1>0, <1>1, <1>3 DEF Numbers, Top, OtaAddr
<1>6. step' <= 2 * Sector + 2 /\ step' > Sector + 1
  BY <1>0, <1>1
<1> QED BY <1>0, <1>1, <1>4, <1>5, <1>6 DEF DataInv, CopyInv, SettingsKept

\* The backup is erased when the original is complete again.
LEMMA RewriteEnds ==
  ASSUME DataInv, WriteAddress, step = 2 * Sector + 2
  PROVE  DataInv'
<1>0. /\ Sector \in Nat /\ Sector > 1 /\ OFFSET_DATA = Sector /\ BACKUP_SECTOR = 0
      /\ DataCells \subseteq 0..Top /\ Numbers /\ DOMAIN flash = 0..Top
  BY OtaAssumption, InFlash DEF OFFSET_DATA, BACKUP_SECTOR, DataInv, Numbers
<1>1. /\ size' = size /\ cstep' = cstep /\ spoilt' = spoilt /\ phase = "address"
      /\ Rewrite(step)
  BY <1>0, RewriteGoesOn
<1>2. phase' # "address" /\ step' = 0
  BY <1>0 DEF WriteAddress, Go
<1>3. EraseSector(0)
  BY <1>0, <1>1 DEF Rewrite, BACKUP_SECTOR
<1>4. DOMAIN flash' = 0..Top /\ \A b \in Sector..2 * Sector - 1 : flash'[b] = flash[b]
  <2>1. /\ DOMAIN flash' = 0..Top
        /\ \A b \in 0..Top : flash'[b] = IF b \in 0 .. 0 + Sector - 1 THEN Erased ELSE flash[b]
    BY <1>0, <1>3, Erasing
  <2>2. \A b \in Sector..2 * Sector - 1 : b \in 0..Top /\ b \notin 0 .. 0 + Sector - 1
    BY <1>0 DEF DataCells
  <2> QED BY <2>1, <2>2
<1>5. ASSUME ~spoilt PROVE SettingsIn(OFFSET_DATA)'
  <2>1. Progress(OFFSET_DATA, Sector)
    BY <1>0, <1>1, <1>5 DEF DataInv, CopyInv
  <2>2. \A i \in 1..Sector - 1 : flash[Sector + i] = Cell("settings", i)
    BY <1>0, <2>1 DEF Progress
  <2>3. \A i \in 1..Sector - 1 : Sector + i \in Sector..2 * Sector - 1
    BY <1>0
  <2> QED BY <1>0, <1>4, <2>2, <2>3 DEF SettingsIn, OFFSET_DATA
<1>6. Numbers'
  BY <1>0, <1>1, <1>2, <1>4 DEF Numbers, Top, OtaAddr
<1> QED BY <1>1, <1>2, <1>5, <1>6 DEF DataInv, CopyInv, SettingsKept

LEMMA DataInvInductive == Spec => []DataInv
<1>1. Init => DataInv
  <2> SUFFICES ASSUME Init PROVE DataInv
    OBVIOUS
  <2>1. Sector \in Nat /\ Sector > 1 /\ flash = Factory /\ OFFSET_DATA = Sector
    BY OtaAssumption DEF Init, OFFSET_DATA
  <2>2. Numbers
    BY <2>1 DEF Init, Numbers, Factory
  <2>3. \A i \in 1..Sector - 1 :
          /\ OFFSET_DATA + i \in 0..Top
          /\ OFFSET_DATA + i \in OFFSET_DATA + 1 .. OFFSET_DATA + Sector - 1
          /\ OFFSET_DATA + i - OFFSET_DATA = i
    BY <2>1 DEF Top, OtaAddr
  <2>4. SettingsIn(OFFSET_DATA)
    BY <2>1, <2>3 DEF SettingsIn, Factory
  <2>5. CopyInv
    BY DEF Init, CopyInv
  <2> QED BY <2>2, <2>4, <2>5 DEF DataInv, SettingsKept
<1>2. DataInv /\ [Next]_vars => DataInv'
  <2> SUFFICES ASSUME DataInv, [Next]_vars PROVE DataInv'
    OBVIOUS
  <2>1. CASE WriteAddress
    <3>1. step \in Nat /\ Sector \in Nat /\ Numbers
      BY OtaAssumption DEF DataInv, Numbers
    <3>2. \/ step = 0 \/ step \in 1..Sector \/ step = Sector + 1
          \/ step \in Sector + 2 .. 2 * Sector + 1 \/ step = 2 * Sector + 2
      <4>1. step = 0 \/ Rewrite(step)
        BY <2>1, <3>1, RewriteGoesOn
      <4> QED BY <3>1, <4>1 DEF Rewrite
    <3> QED BY <2>1, <3>2, RewriteBegins, RewriteSaves, RewriteErases, RewriteRestores, RewriteEnds
  <2>2. CASE Next /\ ~WriteAddress
    <3>1. /\ Numbers' /\ BelowKept /\ spoilt' = spoilt
          /\ phase' = "address" => step' = 0 \/ (phase' = phase /\ step' = step)
      BY <2>2, Elsewhere DEF DataInv
    <3>2. SettingsKept'
      BY <3>1, Unmoved DEF DataInv, SettingsKept
    <3>3. CopyInv'
      <4> SUFFICES ASSUME phase' = "address", step' > 0, ~spoilt' PROVE CopyInv'
        BY DEF CopyInv
      <4>1. phase' = phase /\ step' = step /\ step \in Nat /\ Sector \in Nat
        BY <3>1, OtaAssumption DEF DataInv, Numbers
      <4>2. /\ step <= 2 * Sector + 2
            /\ step <= Sector + 1 => SettingsIn(OFFSET_DATA) /\ Progress(BACKUP_SECTOR, step - 1)
            /\ step > Sector + 1 => /\ Progress(BACKUP_SECTOR, Sector)
                                    /\ Progress(OFFSET_DATA, step - Sector - 2)
        BY <3>1, <4>1 DEF DataInv, CopyInv
      <4>3. /\ SettingsIn(OFFSET_DATA) => SettingsIn(OFFSET_DATA)'
            /\ Progress(BACKUP_SECTOR, step - 1) => Progress(BACKUP_SECTOR, step - 1)'
            /\ Progress(BACKUP_SECTOR, Sector) => Progress(BACKUP_SECTOR, Sector)'
            /\ Progress(OFFSET_DATA, step - Sector - 2) => Progress(OFFSET_DATA, step - Sector - 2)'
        <5>1. \A a \in {BACKUP_SECTOR, OFFSET_DATA}, i \in 0..Sector - 1 : flash'[a + i] = flash[a + i]
          BY <3>1, <4>1 DEF BelowKept, OtaAddr, BACKUP_SECTOR, OFFSET_DATA
        <5>2. SettingsIn(OFFSET_DATA) => SettingsIn(OFFSET_DATA)'
          BY <3>1, Unmoved
        <5> QED BY <4>1, <5>1, <5>2 DEF Progress
      <4> QED BY <4>1, <4>2, <4>3 DEF CopyInv
    <3> QED BY <3>1, <3>2, <3>3 DEF DataInv
  <2>3. CASE UNCHANGED vars
    BY <2>3 DEF vars, flashVars, otaVars, cmdVars, DataInv, Numbers, CopyInv, SettingsKept,
                SettingsIn, Progress, Top, OtaAddr
  <2> QED BY <2>1, <2>2, <2>3
<1> QED BY <1>1, <1>2, PTL DEF Spec

\* Whatever the layout, the files and the number of updates and failures: the
\* system data are in their sector or in the backup, until an update rewrites
\* them where they are not (write_ota_addr_to_system_data).
THEOREM SystemDataKept == Spec => []SettingsKept
<1>1. DataInv => SettingsKept
  BY DEF DataInv
<1> QED BY <1>1, DataInvInductive, PTL

-----------------------------------------------------------------------------
(***************************************************************************)
(* The firmware.                                                           *)
(***************************************************************************)
\* Below the address of the update nothing of the firmware moves; above it
\* nothing moves at all, and no command gets there, when the address is refused.
FirmInv ==
  /\ layout \in Layouts
  /\ \A a \in 2 * Sector .. OtaAddr - 1 : flash[a] = Factory[a]
  /\ ~Legal(OtaAddr) =>
       /\ phase \in {"none", "prepare"} /\ flash[OFFSET_DATA] = Erased
       /\ cstep \in {0, Sector + 2}
       /\ \A a \in OtaAddr..Top : flash[a] = Factory[a]

\* The rewrite of the system data stays below the firmware.
LEMMA RewriteBelow ==
  ASSUME WriteAddress, Numbers
  PROVE  \A a \in 2 * Sector..Top : flash'[a] = flash[a]
<1>0. /\ Sector \in Nat /\ Sector > 1 /\ OFFSET_DATA = Sector /\ BACKUP_SECTOR = 0
      /\ DOMAIN flash = 0..Top /\ step \in Nat
      /\ \A a \in 2 * Sector..Top : a \in 0..Top
  BY OtaAssumption DEF OFFSET_DATA, BACKUP_SECTOR, Numbers
<1>1. \/ Program(OFFSET_DATA, Address) \/ EraseSector(BACKUP_SECTOR) \/ EraseSector(OFFSET_DATA)
      \/ \E b \in 0..2 * Sector - 1 : \E c : Program(b, c)
  <2>1. Program(OFFSET_DATA, Address) \/ Rewrite(step)
    BY DEF WriteAddress
  <2>2. CASE step \in 1..Sector /\ Program(BACKUP_SECTOR + step - 1, Saved(step - 1))
    <3>1. BACKUP_SECTOR + step - 1 \in 0..2 * Sector - 1
      BY <1>0, <2>2
    <3> QED BY <2>2, <3>1
  <2>3. CASE /\ step \in Sector + 2 .. 2 * Sector + 1
             /\ LET i == step - Sector - 2 IN Program(OFFSET_DATA + i, flash[BACKUP_SECTOR + i])
    <3>1. OFFSET_DATA + (step - Sector - 2) \in 0..2 * Sector - 1
      BY <1>0, <2>3
    <3> QED BY <2>3, <3>1
  <2> QED BY <2>1, <2>2, <2>3 DEF Rewrite
<1>2. CASE EraseSector(BACKUP_SECTOR) \/ EraseSector(OFFSET_DATA)
  <2>1. PICK b \in {0, Sector} : EraseSector(b)
    BY <1>0, <1>2 DEF BACKUP_SECTOR, OFFSET_DATA
  <2>2. \A a \in 2 * Sector..Top : a \notin b .. b + Sector - 1
    BY <1>0
  <2>3. \A a \in 0..Top : flash'[a] = IF a \in b .. b + Sector - 1 THEN Erased ELSE flash[a]
    BY <1>0, <2>1, Erasing
  <2> QED BY <1>0, <2>2, <2>3
<1>3. ASSUME NEW b \in 0..2 * Sector - 1, NEW c, Program(b, c)
      PROVE  \A a \in 2 * Sector..Top : flash'[a] = flash[a]
  <2>1. \A a \in 2 * Sector..Top : a # b
    BY <1>0
  <2> QED BY <1>0, <1>3, <2>1, Programming
<1>4. OFFSET_DATA \in 0..2 * Sector - 1
  BY <1>0
<1> QED BY <1>1, <1>2, <1>3, <1>4

\* The layout is that of the device, and so is all that is computed from it.
LEMMA SameLayout ==
  ASSUME [Next]_vars
  PROVE  layout' = layout /\ Factory' = Factory /\ (Legal(OtaAddr) <=> Legal(OtaAddr)')
<1>1. layout' = layout
  <2>1. CASE Start \/ LockFlash \/ Prepare \/ WriteAddress \/ Reread \/ EraseRegion
    BY <2>1 DEF Start, LockFlash, Prepare, WriteAddress, Reread, EraseRegion, Rest, flashVars
  <2>2. CASE Read \/ WriteCell \/ update_ota_checksum \/ Sign
    BY <2>2 DEF Read, WriteCell, update_ota_checksum, Sign, Rest
  <2>3. CASE Command \/ CommandLocks \/ Look \/ ReadErase \/ WriteBack
    BY <2>3 DEF Command, CommandLocks, Look, ReadErase, WriteBack, CommandRest, flashVars
  <2>4. CASE Reset \/ PowerLoss
    BY <2>4 DEF Reset, PowerLoss, Restart, flashVars
  <2>5. CASE UNCHANGED vars
    BY <2>5 DEF vars, flashVars
  <2> QED BY <2>1, <2>2, <2>3, <2>4, <2>5 DEF Next
<1>2. Factory' = Factory
  BY <1>1 DEF Factory, FirmwareEnd, FirstLen
<1>3. Legal(OtaAddr) <=> Legal(OtaAddr)'
  BY <1>1 DEF Legal, LastImage, LastLen, FirstLen
<1> QED BY <1>1, <1>2, <1>3

\* A refused address stops update and command before they touch the flash.
LEMMA Refused ==
  ASSUME FirmInv, Numbers, Next, ~Legal(OtaAddr)
  PROVE  /\ phase' \in {"none", "prepare"} /\ cstep' \in {0, Sector + 2}
         /\ flash' = flash
<1>0. /\ phase \in {"none", "prepare"} /\ flash[OFFSET_DATA] = Erased
      /\ cstep \in {0, Sector + 2} /\ Sector \in Nat /\ Sector > 1
  BY OtaAssumption DEF FirmInv
<1>1. CASE Start \/ Prepare
  BY <1>0, <1>1 DEF Start, Prepare, Go, Rest, flashVars, cmdVars
<1>2. CASE LockFlash \/ CommandLocks
  BY <1>0, <1>2 DEF LockFlash, CommandLocks, flashVars, otaVars, cmdVars
<1>3. CASE WriteAddress \/ Reread \/ EraseRegion \/ Read \/ WriteCell \/ update_ota_checksum \/ Sign
  BY <1>0, <1>3 DEF WriteAddress, Reread, EraseRegion, Read, WriteCell, update_ota_checksum,
                    Sign, InPhase
<1>4. CASE Command \/ Look
  BY <1>0, <1>4 DEF Command, Look, CommandRest, flashVars, otaVars
<1>5. CASE ReadErase \/ WriteBack
  BY <1>0, <1>5 DEF ReadErase, WriteBack
<1>6. CASE Reset \/ PowerLoss
  BY <1>6 DEF Reset, PowerLoss, Restart, flashVars
<1> QED BY <1>1, <1>2, <1>3, <1>4, <1>5, <1>6 DEF Next

LEMMA FirmInvInductive == Spec => []FirmInv
<1>0. /\ Sector \in Nat /\ Sector > 1 /\ OFFSET_DATA = Sector /\ OtaAddr \in Nat
      /\ Top \in Nat /\ OFFSET_DATA \in 0..Top
      /\ \A a \in 2 * Sector .. OtaAddr - 1 : a \in 0 .. OtaAddr - 1 /\ a \in 2 * Sector..Top
  BY OtaAssumption DEF OFFSET_DATA, OtaAddr, Top
<1>1. Init => FirmInv
  <2> SUFFICES ASSUME Init PROVE FirmInv
    OBVIOUS
  <2>1. flash = Factory /\ layout \in Layouts /\ phase = "none" /\ cstep = 0
    BY DEF Init
  <2>2. flash[OFFSET_DATA] = Erased
    BY <1>0, <2>1 DEF Factory, IMAGE_2
  <2> QED BY <2>1, <2>2 DEF FirmInv
<1>2. FirmInv /\ DataInv /\ [Next]_vars => FirmInv'
  <2> SUFFICES ASSUME FirmInv, Numbers, [Next]_vars PROVE FirmInv'
    BY DEF DataInv
  <2>1. layout' = layout /\ Factory' = Factory /\ (Legal(OtaAddr) <=> Legal(OtaAddr)')
    BY SameLayout
  <2>2. CASE Next
    <3>1. \A a \in 2 * Sector .. OtaAddr - 1 : flash'[a] = flash[a]
      BY <1>0, <2>2, RewriteBelow, Elsewhere DEF BelowKept
    <3>2. \A a \in 2 * Sector .. OtaAddr - 1 : flash'[a] = Factory'[a]
      BY <2>1, <3>1 DEF FirmInv
    <3>3. ~Legal(OtaAddr) =>
            /\ phase' \in {"none", "prepare"} /\ cstep' \in {0, Sector + 2} /\ flash' = flash
      BY <2>2, Refused
    <3> QED BY <2>1, <3>2, <3>3 DEF FirmInv
  <2>3. CASE UNCHANGED vars
    BY <2>1, <2>3 DEF vars, flashVars, otaVars, cmdVars, FirmInv
  <2> QED BY <2>2, <2>3
<1> QED BY <1>1, <1>2, DataInvInductive, PTL DEF Spec

\* The firmware stays the boot loader's choice and keeps its cells, whatever the
\* layout, but for those that update_ota_prepare_addr gives away.
THEOREM FirmwareStays == Spec => []FirmwareKept
<1>1. FirmInv /\ DataInv => FirmwareKept
  <2> SUFFICES ASSUME FirmInv, DOMAIN flash = 0..Top PROVE FirmwareKept
    BY DEF DataInv, Numbers
  <2>0. /\ Sector \in Nat /\ Sector > 1 /\ IMAGE_2 = 2 * Sector /\ OtaAddr = 4 * Sector
        /\ Top = 8 * Sector - 1
    BY OtaAssumption DEF IMAGE_2, OtaAddr, Top
  <2>1. /\ Len(layout) \in {1, 2} /\ layout[1] \in Nat \ {0}
        /\ Len(layout) = 2 => layout[2] \in Nat \ {0}
    BY OtaAssumption DEF FirmInv
  <2>2. /\ FirmwareEnd = LastImage + LastLen /\ FirmwareEnd \in IMAGE_2 + 1 .. Top
        /\ LastImage \in Nat /\ LastLen \in Nat
    <3>1. layout[1] + (IF Len(layout) = 1 THEN 0 ELSE 1 + layout[2]) < 6 * Sector
      BY OtaAssumption DEF FirmInv
    <3>2. CASE Len(layout) = 1
      BY <2>0, <2>1, <3>1, <3>2 DEF FirmwareEnd, LastImage, LastLen, FirstLen
    <3>3. CASE Len(layout) = 2
      BY <2>0, <2>1, <3>1, <3>3 DEF FirmwareEnd, LastImage, LastLen, FirstLen
    <3> QED BY <2>1, <3>2, <3>3
  <2>3. Chosen(FALSE) = IMAGE_2
    <3>1. flash[IMAGE_2] = Factory[IMAGE_2] /\ flash[IMAGE_2 + 1] = Factory[IMAGE_2 + 1]
      BY <2>0 DEF FirmInv
    <3>2. Factory[IMAGE_2] = Signed(Cell(Firmware, 0), "run")
      BY <2>0 DEF Factory, OFFSET_DATA
    <3>3. Factory[IMAGE_2 + 1] = Cell(Firmware, 1)
      BY <2>0, <2>2 DEF Factory, OFFSET_DATA
    <3>4. None # "firmware" /\ Cell(Firmware, 1).of = "firmware" /\ Cell(Firmware, 1).n = 1
      BY OtaAssumption DEF Cell, Firmware
    <3>5. Accepted(IMAGE_2)
      BY <2>0, <3>1, <3>2, <3>3, <3>4 DEF Accepted, Signed, Cell, Firmware, Top, OtaAddr
    <3> QED BY <3>5 DEF Chosen
  <2>4. ASSUME NEW a \in IMAGE_2 .. FirmwareEnd
        PROVE  flash[a] = Factory[a] \/ (a >= OtaAddr /\ (a = FirmwareEnd \/ LastImage = OtaAddr))
    <3>1. CASE a < OtaAddr
      BY <2>0, <3>1 DEF FirmInv
    <3>2. CASE a >= OtaAddr /\ Legal(OtaAddr)
      BY <2>0, <2>2, <3>2 DEF Legal
    <3>3. CASE a >= OtaAddr /\ ~Legal(OtaAddr)
      <4>1. a \in OtaAddr..Top
        BY <2>0, <2>2, <3>3
      <4> QED BY <3>3, <4>1 DEF FirmInv
    <3> QED BY <2>0, <2>2, <3>1, <3>2, <3>3
  <2> QED BY <2>3, <2>4 DEF FirmwareKept
<1> QED BY <1>1, FirmInvInductive, DataInvInductive, PTL

-----------------------------------------------------------------------------
(***************************************************************************)
(* The images.  BootsWhole needs to know where both tasks are: what is     *)
(* received is behind what was written, also in the copy of the sector     *)
(* that the command has in RAM while it rewrites it, and nothing is        *)
(* programmed that was not erased.                                         *)
(***************************************************************************)
\* cmd_ota_image has erased the first sector of the image and not yet written all of it back.
Mid == cstep \in 2..Sector + 1
Receiving == {"erase", "read", "write", "check", "sign"}
CellType == [of : Values, n : 0..Top, sig : {"none", "half", "run", "swp"}]

\* Where the tasks are: in a phase that takes several steps, and in the rewrite of a
\* sector, the lock is kept; there is a file, and no more of it than it has.
PlaceInv ==
  /\ step > 0 => phase \in {"address", "erase", "sign"} /\ at[ota] = "in"
  /\ phase = "sign" => step < 2
  /\ Mid => cmd # None /\ at[console] = "in" /\ buf \in [1..Sector -> CellType]
  /\ phase \in Receiving => file \in Files /\ size <= FileLen
  /\ phase = "erase" => size = 0
  /\ phase = "write" => size < FileLen

\* What is programmed next was erased: the rest of a copy of the system data, of the
\* region of the update, of the sector that is rewritten.
ErasedIn(base, k) == \A i \in k..Sector - 1 : flash[base + i] = Erased
BlankInv ==
  /\ phase = "address" /\ step > 0 =>
       /\ step <= Sector + 1 => ErasedIn(BACKUP_SECTOR, step - 1)
       /\ step > Sector + 1 => ErasedIn(OFFSET_DATA, step - Sector - 2)
  /\ phase = "erase" => \A a \in OtaAddr .. OtaAddr + step * Sector - 1 : flash[a] = Erased
  /\ Mid => ErasedIn(OtaAddr, cstep - 2)

\* Only the address of the update can hold the begin of an image, and only of a file.
Placed(c, a) == c.of # None => IF a = OtaAddr THEN c.n = 0 => c.of \in Files ELSE c.n # 0
PlacedInv ==
  /\ \A a \in OtaAddr..Top : Placed(flash[a], a)
  /\ Mid => \A i \in 1..Sector : Placed(buf[i], OtaAddr + i - 1)

\* The region of the update as it is once the sector is written back.
ViewCell(i) == IF Mid /\ i \in cstep - 2 .. Sector - 1 THEN buf[i + 1] ELSE flash[OtaAddr + i]

\* What was received is there and nothing behind it; what was verified is all of the
\* file, or nothing.
FileInv ==
  phase \in Receiving \ {"erase"} =>
    /\ \A i \in size..FileLen - 1 : flash[OtaAddr + i].of = None /\ ViewCell(i).of = None
    /\ flash[OtaAddr].of \in {None, file} /\ ViewCell(0).of \in {None, file}
    /\ phase = "sign" =>
         /\ size \in {0, FileLen}
         /\ \A i \in 0..size - 1 : ViewCell(i).of = file /\ ViewCell(i).n = i

\* A signature stands before a whole image, or was left by the command; so one that
\* is there before the image.
HonestSign ==
  /\ flash[OtaAddr].of \in Files /\ flash[OtaAddr].n = 0
  /\ flash[OtaAddr].sig \in {"run", "swp"}
  => blind \/ WholeAt(OtaAddr)
SignInv ==
  /\ HonestSign
  /\ phase \in {"read", "write"} /\ flash[OtaAddr].of = None /\ flash[OtaAddr].sig # "none" => blind

BootInv == TypeOK /\ PlaceInv /\ BlankInv /\ PlacedInv /\ FileInv /\ SignInv

LEMMA Sizes ==
  /\ Sector \in Nat /\ Sector > 1 /\ BACKUP_SECTOR = 0 /\ OFFSET_DATA = Sector
  /\ IMAGE_2 = 2 * Sector /\ OtaAddr = 4 * Sector /\ Top = 8 * Sector - 1
  /\ OtaAddr \in 0..Top /\ Top \in Nat
BY OtaAssumption DEF BACKUP_SECTOR, OFFSET_DATA, IMAGE_2, OtaAddr, Top

\* The sectors update_ota_erase_upg_region counts hold a file and its checksum, and are no
\* more than there are.
LEMMA EraseCovers ==
  ASSUME file \in Files
  PROVE  /\ FileLen \in Nat /\ FileLen > 2 /\ FileLen <= 4 * Sector
         /\ EraseCount \in Nat /\ EraseCount <= 4 /\ EraseCount * Sector >= FileLen
<1>1. FileLen \in Nat /\ FileLen > 2 /\ FileLen <= 4 * Sector /\ Sector \in Nat \ {0}
  BY OtaAssumption DEF FileLen
<1> DEFINE L == FileLen
           x == L + Sector - 1
           q == x \div Sector
           r == x % Sector
<1>2. x \in Nat /\ EraseCount = q
  BY <1>1 DEF EraseCount, Sectors
<1>3. q \in Nat /\ r \in 0..Sector - 1 /\ x = Sector * q + r
  <2> HIDE DEF x
  <2> QED BY <1>1, <1>2, Division
<1>4. q * Sector >= L
  <2>1. L + Sector - 1 = Sector * q + r /\ L \in Nat
    BY <1>1, <1>3
  <2> HIDE DEF q, r, L
  <2> QED BY <1>1, <1>3, <2>1
<1>5. q <= 4
  <2>1. L + Sector - 1 = Sector * q + r /\ L \in Nat /\ L <= 4 * Sector
    BY <1>1, <1>3
  <2>2. ASSUME q >= 5 PROVE FALSE
    <3> HIDE DEF q, r, L
    <3>1. Sector * q >= Sector * 5
      BY <1>1, <1>3, <2>2
    <3> QED BY <1>1, <1>3, <2>1, <3>1
  <2> QED BY <1>3, <2>2
<1> QED BY <1>1, <1>2, <1>3, <1>4, <1>5

\* Cells.
LEMMA CellsAre ==
  /\ Erased \in CellType /\ Erased.of = None /\ Erased.sig = "none"
  /\ \A f \in Files, i \in 0..Top :
       /\ Cell(f, i) \in CellType /\ f # None
       /\ Cell(f, i).of = f /\ Cell(f, i).n = i /\ Cell(f, i).sig = "none"
  /\ Address \in CellType /\ Address.of # None
  /\ \A c \in CellType, s \in {"none", "half", "run", "swp"} :
       /\ Signed(c, s) \in CellType
       /\ Signed(c, s).of = c.of /\ Signed(c, s).n = c.n /\ Signed(c, s).sig = s
<1>1. 0 \in 0..Top
  BY Sizes
<1>2. None \notin Files /\ None # "address"
  BY OtaAssumption
<1>3. \A c \in CellType, s \in {"none", "half", "run", "swp"} :
        /\ Signed(c, s) \in CellType
        /\ Signed(c, s).of = c.of /\ Signed(c, s).n = c.n /\ Signed(c, s).sig = s
  BY DEF CellType, Signed
<1> QED BY <1>1, <1>2, <1>3 DEF CellType, Values, Erased, Cell, Address

\* An empty cell takes what is programmed, and a signature it has stays.
LEMMA Programmed ==
  ASSUME NEW a \in 0..Top, NEW c \in CellType, flash \in [0..Top -> CellType],
         Program(a, c), flash[a].of = None
  PROVE  /\ flash' \in [0..Top -> CellType]
         /\ \A b \in 0..Top : b # a => flash'[b] = flash[b]
         /\ flash'[a].of = c.of /\ (c.of # None => flash'[a].n = c.n)
         /\ flash[a].sig = "none" => flash'[a].sig = c.sig
         /\ c.of # None /\ flash[a].sig # "none" => flash'[a].sig = flash[a].sig
<1> DEFINE new == IF c.of = None THEN (IF c.sig = "none" THEN flash[a] ELSE Signed(flash[a], c.sig))
                  ELSE IF flash[a].sig = "none" THEN c ELSE Signed(c, flash[a].sig)
<1>1. flash' = [flash EXCEPT ![a] = new]
  BY DEF Program
<1>2. flash[a] \in CellType /\ c.sig \in {"none", "half", "run", "swp"}
      /\ flash[a].sig \in {"none", "half", "run", "swp"}
  BY DEF CellType
<1>3. /\ new \in CellType /\ new.of = c.of /\ (c.of # None => new.n = c.n)
      /\ flash[a].sig = "none" => new.sig = c.sig
      /\ c.of # None /\ flash[a].sig # "none" => new.sig = flash[a].sig
  BY <1>2, CellsAre
<1> HIDE DEF new
<1> QED BY <1>1, <1>3

LEMMA ErasedNow ==
  ASSUME NEW a \in Nat, EraseSector(a), flash \in [0..Top -> CellType]
  PROVE  /\ flash' \in [0..Top -> CellType]
         /\ \A b \in 0..Top : flash'[b] = IF b \in a .. a + Sector - 1 THEN Erased ELSE flash[b]
<1>1. flash' = [b \in 0..Top |-> IF b \in a .. a + Sector - 1 THEN Erased ELSE flash[b]]
  BY DEF EraseSector
<1>2. Erased \in CellType
  BY CellsAre
<1> QED BY <1>1, <1>2

\* A step that leaves the flash and the command's sector leaves what they hold.
LEMMA SameFlash ==
  ASSUME flash' = flash, buf' = buf, layout' = layout, Mid' <=> Mid, Mid => cstep' = cstep
  PROVE  /\ \A i \in Nat : ViewCell(i)' = ViewCell(i)
         /\ PlacedInv => PlacedInv'
         /\ Mid' /\ (Mid => ErasedIn(OtaAddr, cstep - 2)) => ErasedIn(OtaAddr, cstep - 2)'
         /\ WholeAt(OtaAddr) => WholeAt(OtaAddr)'
<1>1. ASSUME NEW i \in Nat PROVE ViewCell(i)' = ViewCell(i)
  <2>1. CASE Mid
    BY <2>1 DEF ViewCell, OtaAddr
  <2>2. CASE ~Mid
    BY <2>2 DEF ViewCell, OtaAddr
  <2> QED BY <2>1, <2>2
<1>2. PlacedInv => PlacedInv'
  BY DEF PlacedInv, Placed, OtaAddr, Top
<1>3. Mid' /\ (Mid => ErasedIn(OtaAddr, cstep - 2)) => ErasedIn(OtaAddr, cstep - 2)'
  BY DEF ErasedIn, OtaAddr
<1>4. WholeAt(OtaAddr) => WholeAt(OtaAddr)'
  BY DEF WholeAt, OtaAddr
<1> QED BY <1>1, <1>2, <1>3, <1>4

\* A step of the update task that only moves on: to nothing, or within what is
\* received; with the erased region or the verified file that it needs.
LEMMA OtaMoves ==
  ASSUME BootInv, Next,
         flash' = flash, blind' = blind, UNCHANGED <<layout, cmd, cstep, buf>>,
         at'[console] = at[console], DOMAIN at' = Users, DOMAIN holds' = Users,
         created' \in Nat, {mutex_init', spoilt'} \subseteq BOOLEAN,
         \/ phase' \in {"none", "prepare", "address", "reread"} /\ file' \in Files \union {None}
            /\ size' \in 0..Top
         \/ phase' = "erase" /\ file' \in Files /\ size' = 0
         \/ phase' \in {"read", "write", "check"} /\ phase \in {"read", "write"}
            /\ UNCHANGED <<file, size>> /\ (phase' = "write" => size < FileLen)
            /\ (phase' \in {"read", "write"} => phase = "read")
         \/ phase' = "sign" /\ phase = "check" /\ UNCHANGED <<file, size>> /\ Verified,
         step' = 0
  PROVE  BootInv'
<1>0. /\ TypeOK /\ PlaceInv /\ BlankInv /\ PlacedInv /\ FileInv /\ SignInv
      /\ Mid' <=> Mid
      /\ \A i \in Nat : ViewCell(i)' = ViewCell(i)
  BY SameFlash DEF BootInv, Mid
<1>1. TypeOK'
  <2>1. flash' \in [0..Top' -> [of : Values', n : 0..Top', sig : {"none", "half", "run", "swp"}]]
    BY <1>0 DEF TypeOK, Top, OtaAddr, Values
  <2>2. /\ phase' \in Locked \union {"none", "read", "check", "reset"} /\ step' \in 0..2 * Sector + 2
        /\ file' \in Files \union {None} /\ size' \in 0..Top
    <3>1. file \in Files \union {None} /\ size \in 0..Top
      BY <1>0 DEF TypeOK
    <3>2. 0 \in 0..Top /\ 0 \in 0..2 * Sector + 2
      BY Sizes
    <3>3. step' \in 0..2 * Sector + 2
      BY <3>2
    <3>4. phase' \in Locked \union {"none", "read", "check", "reset"}
      BY DEF Locked
    <3> QED BY <3>1, <3>2, <3>3, <3>4
  <2> QED BY <1>0, <2>1, <2>2 DEF TypeOK, Top, OtaAddr, Users
<1>2. PlaceInv'
  <2>1. phase' \in Receiving => file' \in Files /\ size' <= FileLen'
    BY <1>0, OtaAssumption DEF PlaceInv, Receiving, FileLen
  <2>2. Mid' => cmd' # None /\ at'[console] = "in" /\ buf' \in [1..Sector -> CellType']
    BY <1>0 DEF PlaceInv, CellType, Top, OtaAddr, Values
  <2> QED BY <2>1, <2>2 DEF PlaceInv, FileLen
<1>3. BlankInv'
  BY <1>0, SameFlash, Sizes DEF BlankInv
<1>4. PlacedInv'
  BY <1>0, SameFlash
<1>5. FileInv'
  <2> SUFFICES ASSUME phase' \in Receiving \ {"erase"} PROVE FileInv'
    BY DEF FileInv
  <2>1. /\ phase \in Receiving \ {"erase"} /\ file' = file /\ size' = size /\ FileLen' = FileLen
        /\ file \in Files /\ size \in Nat
    BY <1>0 DEF Receiving, FileLen, PlaceInv, TypeOK, Top
  <2>2. /\ \A i \in size..FileLen - 1 : flash[OtaAddr + i].of = None /\ ViewCell(i).of = None
        /\ flash[OtaAddr].of \in {None, file} /\ ViewCell(0).of \in {None, file}
    BY <1>0, <2>1 DEF FileInv
  <2>3. /\ \A i \in size..FileLen - 1 :
             flash[OtaAddr + i]'.of = None /\ ViewCell(i)'.of = None
        /\ flash[OtaAddr]'.of \in {None, file} /\ ViewCell(0)'.of \in {None, file}
    <3>1. \A i \in size..FileLen - 1 : i \in Nat
      BY <2>1
    <3> QED BY <1>0, <2>2, <3>1 DEF OtaAddr
  <2>4. ASSUME phase' = "sign"
        PROVE  /\ size \in {0, FileLen}
               /\ \A i \in 0..size - 1 : ViewCell(i).of = file /\ ViewCell(i).n = i
    <3>1. Verified
      BY <2>4
    <3>2. ASSUME NEW i \in 0..size - 1 PROVE ViewCell(i).of = file /\ ViewCell(i).n = i
      <4>1. flash[OtaAddr + i] = Cell(file, i) /\ flash[OtaAddr + i] # Erased
        <5>1. flash[OtaAddr + i] = Cell(file, i)
          BY <3>1 DEF Verified
        <5> QED BY <5>1, <2>1, OtaAssumption DEF Cell, Erased
      <4>2. ~(Mid /\ i \in cstep - 2 .. Sector - 1)
        BY <1>0, <4>1 DEF BlankInv, ErasedIn
      <4> QED BY <4>1, <4>2 DEF ViewCell, Cell
    <3> QED BY <3>1, <3>2 DEF Verified
  <2> QED BY <1>0, <2>1, <2>3, <2>4 DEF FileInv
<1>6. SignInv'
  BY <1>0, SameFlash DEF SignInv, HonestSign, OtaAddr
<1> QED BY <1>1, <1>2, <1>3, <1>4, <1>5, <1>6 DEF BootInv

LEMMA LockMoves ==
  ASSUME LockInv, NEW t \in Users, Lock!Locking(t) \/ Lock!Unlock(t) \/ UNCHANGED locks
  PROVE  /\ DOMAIN at' = Users /\ DOMAIN holds' = Users /\ created' \in Nat
         /\ mutex_init' \in BOOLEAN
         /\ \A u \in Users : u # t => at'[u] = at[u]
         /\ Lock!Locking(t) => at[t] # "in"
<1>1. LockInv'
  <2>1. CASE UNCHANGED locks
    BY <2>1 DEF locks, LockInv
  <2>2. CASE Lock!Locking(t) \/ Lock!Unlock(t)
    BY <2>2, LockStepKeeps DEF LockStep, Lock!Locking
  <2> QED BY <2>1, <2>2
<1>2. /\ \A u \in Users : u # t => at'[u] = at[u]
      /\ Lock!Locking(t) => at[t] # "in"
  BY DEF Lock!Locking, Lock!Enter, Lock!Create, Lock!Take, Lock!Unlock, Lock!Move, locks, LockInv
<1> QED BY <1>1, <1>2 DEF LockInv

\* The steps of the update that leave the flash alone.
LEMMA OtaQuiet ==
  ASSUME BootInv, LockInv, Start \/ Prepare \/ Reread \/ Read \/ update_ota_checksum
  PROVE  BootInv'
<1>0. TypeOK /\ PlaceInv /\ Next /\ ota \in Users /\ console \in Users /\ ota # console
  BY OtaAssumption DEF BootInv, Next, Users
<1>1. /\ flash' = flash /\ blind' = blind /\ spoilt' = spoilt
      /\ UNCHANGED <<layout, cmd, cstep, buf>> /\ step' = 0
      /\ Lock!Unlock(ota) \/ UNCHANGED locks
  <2>1. CASE Start
    BY <2>1 DEF Start, Go, flashVars, cmdVars
  <2>2. CASE Prepare \/ Reread \/ Read \/ update_ota_checksum
    BY <2>2 DEF Prepare, Reread, Read, update_ota_checksum, Go, NoLock, Rest, cmdVars
  <2> QED BY <2>1, <2>2
<1>2. /\ at'[console] = at[console] /\ DOMAIN at' = Users /\ DOMAIN holds' = Users
      /\ created' \in Nat /\ {mutex_init', spoilt'} \subseteq BOOLEAN
  BY <1>0, <1>1, LockMoves DEF TypeOK
<1> DEFINE Before == phase' \in {"none", "prepare", "address", "reread"}
                     /\ file' \in Files \union {None} /\ size' \in 0..Top
           Begin == phase' = "erase" /\ file' \in Files /\ size' = 0
           During == phase' \in {"read", "write", "check"} /\ phase \in {"read", "write"}
                     /\ UNCHANGED <<file, size>> /\ (phase' = "write" => size < FileLen)
                     /\ (phase' \in {"read", "write"} => phase = "read")
           End == phase' = "sign" /\ phase = "check" /\ UNCHANGED <<file, size>> /\ Verified
<1>3. Before \/ Begin \/ During \/ End
  <2>0. file \in Files \union {None} /\ size \in 0..Top /\ 0 \in 0..Top
    BY <1>0, Sizes DEF TypeOK
  <2>1. CASE Start \/ Prepare
    BY <2>0, <2>1 DEF Start, Prepare, Go, NoOtaData
  <2>2. CASE Reread
    BY <2>0, <2>2 DEF Reread, Go
  <2>3. CASE Read
    BY <2>0, <2>3 DEF Read, Go, NoOtaData, InPhase
  <2>4. CASE update_ota_checksum
    BY <2>0, <2>4 DEF update_ota_checksum, Go, NoOtaData, InPhase
  <2> QED BY <2>1, <2>2, <2>3, <2>4
<1> QED BY <1>0, <1>1, <1>2, <1>3, OtaMoves

\* Taking the lock, and the command's own steps that leave the flash alone.
LEMMA OtherQuiet ==
  ASSUME BootInv, LockInv, LockFlash \/ Command \/ CommandLocks \/ Look
  PROVE  BootInv'
<1>0. /\ TypeOK /\ PlaceInv /\ BlankInv /\ PlacedInv /\ FileInv /\ SignInv
      /\ ota \in Users /\ console \in Users /\ ota # console
  BY OtaAssumption DEF BootInv, Users
<1>1. UNCHANGED <<layout, flash, phase, step, file, size, buf, spoilt, blind>>
  BY DEF LockFlash, Command, CommandLocks, Look, CommandRest, flashVars, otaVars, cmdVars
<1>2. /\ \/ cstep' = cstep /\ cmd' = cmd
         \/ cmd = None /\ cstep' = 0 /\ cmd' \in {"run", "swp"}
         \/ cmd' = cmd /\ cstep = 0 /\ cstep' \in {1, Sector + 2}
      /\ cstep \in Nat /\ Sector \in Nat
  <2>1. cstep \in Nat /\ Sector \in Nat
    BY <1>0, Sizes DEF TypeOK
  <2>2. CASE LockFlash \/ CommandLocks
    BY <2>1, <2>2 DEF LockFlash, CommandLocks, cmdVars
  <2>3. CASE Command
    BY <2>1, <2>3 DEF Command
  <2>4. CASE Look
    BY <2>1, <2>4 DEF Look
  <2> QED BY <2>2, <2>3, <2>4
<1>3. (Mid' <=> Mid) /\ (Mid => cstep' = cstep /\ cmd' = cmd)
  BY <1>0, <1>2 DEF Mid, PlaceInv
<1>4. /\ \A i \in Nat : ViewCell(i)' = ViewCell(i)
      /\ PlacedInv' /\ (WholeAt(OtaAddr) => WholeAt(OtaAddr)')
      /\ Mid' => ErasedIn(OtaAddr, cstep - 2)'
  BY <1>0, <1>1, <1>3, SameFlash DEF BlankInv
<1>5. /\ DOMAIN at' = Users /\ DOMAIN holds' = Users /\ created' \in Nat
      /\ mutex_init' \in BOOLEAN /\ (at[ota] = "in" => at'[ota] = "in")
      /\ Mid /\ at[console] = "in" => at'[console] = "in"
  <2>1. CASE LockFlash
    <3>1. Lock!Locking(ota)
      BY <2>1 DEF LockFlash
    <3> QED BY <1>0, <3>1, LockMoves
  <2>2. CASE Command
    BY <1>0, <2>2, LockMoves DEF Command, locks
  <2>3. CASE CommandLocks
    <3>1. Lock!Locking(console)
      BY <2>3 DEF CommandLocks
    <3> QED BY <1>0, <3>1, LockMoves
  <2>4. CASE Look
    <3>1. Lock!Unlock(console) /\ ~Mid
      BY <2>4, Sizes DEF Look, Mid
    <3> QED BY <1>0, <3>1, LockMoves
  <2> QED BY <2>1, <2>2, <2>3, <2>4
<1>6. TypeOK'
  BY <1>0, <1>1, <1>2, <1>5 DEF TypeOK, Top, OtaAddr, Users, Values, Locked
<1>7. PlaceInv'
  BY <1>0, <1>1, <1>3, <1>5 DEF PlaceInv, CellType, Top, OtaAddr, Values, Receiving, FileLen
<1>8. BlankInv'
  BY <1>0, <1>1, <1>4 DEF BlankInv, ErasedIn, BACKUP_SECTOR, OFFSET_DATA, OtaAddr
<1>9. FileInv'
  <2> SUFFICES ASSUME phase' \in Receiving \ {"erase"} PROVE FileInv'
    BY DEF FileInv
  <2>1. size \in Nat /\ FileLen' = FileLen /\ phase \in Receiving \ {"erase"}
    BY <1>0, <1>1, Sizes DEF TypeOK, FileLen, Receiving
  <2>2. \A i \in size..FileLen - 1 : i \in Nat
    BY <2>1
  <2>3. \A i \in 0..size - 1 : i \in Nat
    BY <2>1
  <2> QED BY <1>0, <1>1, <1>4, <2>1, <2>2, <2>3 DEF FileInv, OtaAddr
<1>10. SignInv'
  BY <1>0, <1>1, <1>4 DEF SignInv, HonestSign, OtaAddr
<1> QED BY <1>4, <1>6, <1>7, <1>8, <1>9, <1>10 DEF BootInv

\* A reset: nothing is in flight.
LEMMA ResetQuiet ==
  ASSUME BootInv, Restart
  PROVE  BootInv'
<1>0. TypeOK /\ PlacedInv /\ SignInv /\ ~Mid'
  BY Sizes DEF BootInv, Restart, Mid
<1>1. /\ UNCHANGED <<layout, flash, spoilt, blind>> /\ phase' = "none" /\ step' = 0 /\ file' = None
      /\ size' = 0 /\ cmd' = None /\ cstep' = 0 /\ mutex_init' = FALSE /\ created' = 0
      /\ DOMAIN at' = Users /\ DOMAIN holds' = Users
  BY DEF Restart, flashVars, Users
<1>2. TypeOK'
  <2>1. 0 \in 0..Top /\ 0 \in 0..2 * Sector + 2 /\ 0 \in 0..Sector + 2 /\ 0 \in Nat
    BY Sizes
  <2>2. flash' \in [0..Top' -> [of : Values', n : 0..Top', sig : {"none", "half", "run", "swp"}]]
    BY <1>0, <1>1 DEF TypeOK, Top, OtaAddr, Values
  <2> QED BY <1>0, <1>1, <2>1, <2>2 DEF TypeOK, Top, OtaAddr, Users
<1>3. PlaceInv' /\ BlankInv' /\ FileInv'
  BY <1>0, <1>1 DEF PlaceInv, BlankInv, FileInv, Receiving
<1>4. PlacedInv'
  BY <1>0, <1>1 DEF PlacedInv, Placed, OtaAddr, Top
<1>5. SignInv'
  BY <1>0, <1>1 DEF SignInv, HonestSign, WholeAt, OtaAddr
<1> QED BY <1>2, <1>3, <1>4, <1>5 DEF BootInv

\* Who has the lock is alone with it.
LEMMA NotBoth ==
  ASSUME LockInv, PlaceInv, at[ota] = "in"
  PROVE  ~Mid
BY OtaAssumption DEF LockInv, PlaceInv, Users

\* A whole image lies in the flash that is modelled.
LEMMA FileFits ==
  ASSUME NEW f \in Files
  PROVE  Cells[f] \in Nat /\ Cells[f] > 1 /\ \A i \in 0..Cells[f] : OtaAddr + i \in OtaAddr..Top
BY OtaAssumption, Sizes

LEMMA RegionKept ==
  ASSUME PlacedInv, HonestSign, ~Mid', blind' = blind,
         \A a \in OtaAddr..Top : flash'[a] = flash[a]
  PROVE  PlacedInv' /\ HonestSign'
<1>0. OtaAddr \in OtaAddr..Top
  BY Sizes
<1>1. PlacedInv'
  BY DEF PlacedInv, Placed, OtaAddr, Top
<1>2. ASSUME flash[OtaAddr].of \in Files, WholeAt(OtaAddr) PROVE WholeAt(OtaAddr)'
  <2>1. \A i \in 0..Cells[flash[OtaAddr].of] - 1 : OtaAddr + i \in OtaAddr..Top
    BY <1>2, FileFits
  <2> QED BY <1>0, <1>2, <2>1 DEF WholeAt, OtaAddr
<1>3. flash'[OtaAddr] = flash[OtaAddr]
  BY <1>0
<1> QED BY <1>1, <1>2, <1>3 DEF HonestSign, OtaAddr

\* The rewrite of the system data programs what it erased.
LEMMA AddressPrograms ==
  ASSUME TypeOK, BlankInv, WriteAddress
  PROVE  /\ flash' \in [0..Top -> CellType]
         /\ phase' = "address" /\ step' = step + 1 => BlankInv'
         /\ \A a \in 2 * Sector..Top : flash'[a] = flash[a]
<1>0. /\ flash \in [0..Top -> CellType] /\ phase = "address" /\ step \in 0..2 * Sector + 2
      /\ Address \in CellType /\ Numbers
      /\ phase' = "address" \/ (phase' = "reread" /\ step' = 0)
  <2>1. flash \in [0..Top -> CellType] /\ step \in 0..2 * Sector + 2 /\ Numbers
    BY Sizes DEF TypeOK, CellType, Numbers
  <2>2. phase = "address" /\ (phase' = "address" \/ (phase' = "reread" /\ step' = 0))
    BY DEF WriteAddress, InPhase, Go
  <2> QED BY <2>1, <2>2, CellsAre
<1>1. \A a \in 2 * Sector..Top : flash'[a] = flash[a]
  BY <1>0, RewriteBelow
<1>2. cstep' = cstep
  BY DEF WriteAddress, cmdVars
<1>3. Mid' => ErasedIn(OtaAddr, cstep - 2)'
  <2>1. ASSUME Mid, ErasedIn(OtaAddr, cstep - 2) PROVE ErasedIn(OtaAddr, cstep - 2)'
    <3>1. \A i \in cstep - 2 .. Sector - 1 : OtaAddr + i \in 2 * Sector..Top
      BY <2>1, Sizes DEF Mid
    <3> QED BY <1>1, <1>2, <2>1, <3>1 DEF ErasedIn, OtaAddr
  <2> QED BY <1>2, <2>1 DEF BlankInv, Mid
<1> DEFINE Next1 == /\ step' <= Sector + 1 => ErasedIn(BACKUP_SECTOR, step - 1)'
                    /\ step' > Sector + 1 => ErasedIn(OFFSET_DATA, step - Sector - 2)'
           Goal == flash' \in [0..Top -> CellType] /\ (step' = step + 1 => Next1)
<1>4. ASSUME step = 0 /\ flash[OFFSET_DATA] = Erased PROVE Goal
  <2>1. Program(OFFSET_DATA, Address) /\ step' = 0
    BY <1>4 DEF WriteAddress, Go
  <2>2. OFFSET_DATA \in 0..Top
    BY Sizes
  <2>3. flash' \in [0..Top -> CellType]
    BY <1>0, <1>4, <2>1, <2>2, CellsAre, Programmed
  <2> QED BY <1>0, <1>4, <2>1, <2>3
<1>5. ASSUME step = 0 /\ flash[OFFSET_DATA] # Erased PROVE Goal
  <2>1. EraseSector(0)
    BY <1>5, Sizes DEF WriteAddress, Rewrite
  <2>2. /\ flash' \in [0..Top -> CellType]
        /\ \A b \in 0..Top : flash'[b] = IF b \in 0 .. 0 + Sector - 1 THEN Erased ELSE flash[b]
    BY <1>0, <2>1, ErasedNow
  <2>3. step' = step + 1 => Next1
    <3>1. \A i \in 0..Sector - 1 : 0 + i \in 0..Top /\ 0 + i \in 0 .. 0 + Sector - 1
      BY Sizes
    <3>2. \A i \in 0..Sector - 1 : flash'[0 + i] = Erased
      BY <2>2, <3>1
    <3> QED BY <1>5, <3>2, Sizes DEF ErasedIn, BACKUP_SECTOR
  <2> QED BY <2>2, <2>3
<1>6. ASSUME step \in 1..Sector PROVE Goal
  <2>1. Program(step - 1, Saved(step - 1)) /\ step - 1 \in 0..Top /\ Sector + (step - 1) \in 0..Top
    BY <1>6, Sizes DEF WriteAddress, Rewrite
  <2>2. Saved(step - 1) \in CellType
    BY <1>0, <2>1, Sizes DEF Saved
  <2>3. ErasedIn(0, step - 1)
    BY <1>0, <1>6, Sizes DEF BlankInv
  <2>4. flash[step - 1] = Erased
    <3>1. step - 1 \in step - 1 .. Sector - 1 /\ 0 + (step - 1) = step - 1
      BY <1>6, Sizes
    <3> QED BY <2>3, <3>1 DEF ErasedIn
  <2>5. /\ flash' \in [0..Top -> CellType]
        /\ \A b \in 0..Top : b # step - 1 => flash'[b] = flash[b]
    BY <1>0, <2>1, <2>2, <2>4, CellsAre, Programmed
  <2>6. step' = step + 1 => Next1
    <3> SUFFICES ASSUME step' = step + 1 PROVE Next1
      OBVIOUS
    <3>1. \A i \in step..Sector - 1 :
            /\ i \in step - 1 .. Sector - 1 /\ 0 + i \in 0..Top /\ 0 + i # step - 1
      BY <1>6, Sizes
    <3>2. \A i \in step..Sector - 1 : flash'[0 + i] = Erased
      BY <2>3, <2>5, <3>1 DEF ErasedIn
    <3>3. step' - 1 = step /\ step' <= Sector + 1
      BY <1>6, Sizes
    <3> QED BY <3>2, <3>3, Sizes DEF ErasedIn, BACKUP_SECTOR
  <2> QED BY <2>5, <2>6
<1>7. ASSUME step = Sector + 1 PROVE Goal
  <2>1. EraseSector(Sector) /\ step # 0
    BY <1>7, Sizes DEF WriteAddress, Rewrite
  <2>2. /\ flash' \in [0..Top -> CellType]
        /\ \A b \in 0..Top : flash'[b] =
             IF b \in Sector .. Sector + Sector - 1 THEN Erased ELSE flash[b]
    BY <1>0, <2>1, ErasedNow, Sizes
  <2>3. step' = step + 1 => Next1
    <3> SUFFICES ASSUME step' = step + 1 PROVE Next1
      OBVIOUS
    <3>1. \A i \in 0..Sector - 1 :
            Sector + i \in 0..Top /\ Sector + i \in Sector .. Sector + Sector - 1
      BY Sizes
    <3>2. \A i \in 0..Sector - 1 : flash'[Sector + i] = Erased
      BY <2>2, <3>1
    <3>3. step' - Sector - 2 = 0 /\ ~(step' <= Sector + 1)
      BY <1>7, Sizes
    <3> QED BY <3>2, <3>3, Sizes DEF ErasedIn, OFFSET_DATA
  <2> QED BY <2>2, <2>3
<1>8. ASSUME step \in Sector + 2 .. 2 * Sector + 1 PROVE Goal
  <2> DEFINE m == step - Sector - 2
  <2>1. /\ Program(Sector + m, flash[m]) /\ m \in 0..Sector - 1 /\ m \in 0..Top
        /\ Sector + m \in 0..Top
    BY <1>8, Sizes DEF WriteAddress, Rewrite
  <2>2. flash[m] \in CellType /\ ErasedIn(Sector, m)
    BY <1>0, <1>8, <2>1, Sizes DEF BlankInv
  <2>3. flash[Sector + m] = Erased
    <3>1. m \in m..Sector - 1
      BY <2>1
    <3> HIDE DEF m
    <3> QED BY <2>2, <3>1 DEF ErasedIn
  <2>4. /\ flash' \in [0..Top -> CellType]
        /\ \A b \in 0..Top : b # Sector + m => flash'[b] = flash[b]
    <3> HIDE DEF m
    <3> QED BY <1>0, <2>1, <2>2, <2>3, CellsAre, Programmed
  <2>5. step' = step + 1 => Next1
    <3> SUFFICES ASSUME step' = step + 1 PROVE Next1
      OBVIOUS
    <3>1. \A i \in m + 1 .. Sector - 1 :
            /\ i \in m..Sector - 1 /\ Sector + i \in 0..Top /\ Sector + i # Sector + m
      <4> HIDE DEF m
      <4> QED BY <2>1, Sizes
    <3>2. \A i \in m + 1 .. Sector - 1 : flash'[Sector + i] = Erased
      <4> HIDE DEF m
      <4> QED BY <2>2, <2>4, <3>1 DEF ErasedIn
    <3>3. step' - Sector - 2 = m + 1 /\ ~(step' <= Sector + 1)
      BY <1>8, Sizes
    <3> QED BY <3>2, <3>3, Sizes DEF ErasedIn, OFFSET_DATA
  <2> QED BY <2>4, <2>5
<1>9. ASSUME step = 2 * Sector + 2 PROVE Goal
  <2>1. EraseSector(0) /\ step' = 0
    BY <1>9, Sizes DEF WriteAddress, Rewrite, Go
  <2>2. flash' \in [0..Top -> CellType]
    BY <1>0, <2>1, ErasedNow
  <2> QED BY <1>9, <2>1, <2>2, Sizes
<1>10. Goal
  BY <1>0, <1>4, <1>5, <1>6, <1>7, <1>8, <1>9, Sizes
<1> HIDE DEF Next1
<1>11. ASSUME phase' = "address", step' = step + 1 PROVE BlankInv'
  BY <1>3, <1>10, <1>11 DEF BlankInv, Next1
<1> QED BY <1>1, <1>10, <1>11

\* The rewrite of the system data, and what it leaves alone.
LEMMA AddressKeeps ==
  ASSUME BootInv, LockInv, WriteAddress
  PROVE  BootInv'
<1>0. /\ TypeOK /\ PlaceInv /\ BlankInv /\ PlacedInv /\ HonestSign
      /\ ota \in Users /\ phase = "address" /\ at[ota] = "in"
  BY DEF BootInv, Users, SignInv, WriteAddress, InPhase, Locked
<1>1. /\ flash' \in [0..Top -> CellType]
      /\ phase' = "address" /\ step' = step + 1 => BlankInv'
      /\ \A a \in 2 * Sector..Top : flash'[a] = flash[a]
  BY <1>0, AddressPrograms
<1>2. /\ \/ phase' = "address" /\ step' = step + 1 /\ step # 2 * Sector + 2 /\ UNCHANGED locks
         \/ phase' = "reread" /\ step' = 0 /\ Lock!Unlock(ota)
      /\ UNCHANGED <<layout, file, size, cmd, cstep, buf, blind>> /\ spoilt' \in BOOLEAN
  <2>1. spoilt' = (spoilt \/ (step = 0 /\ ~SettingsIn(OFFSET_DATA))) /\ spoilt \in BOOLEAN
    BY <1>0 DEF WriteAddress, TypeOK
  <2>2. spoilt' \in BOOLEAN
    BY <2>1
  <2> QED BY <1>0, <2>2 DEF WriteAddress, Go, NoLock, NoOtaData, cmdVars
<1>3. ~Mid /\ ~Mid'
  BY <1>0, <1>2, NotBoth DEF Mid
<1>4. PlacedInv' /\ HonestSign'
  <2>1. \A a \in OtaAddr..Top : flash'[a] = flash[a]
    BY <1>1, Sizes
  <2> QED BY <1>0, <1>2, <1>3, <2>1, RegionKept
<1>5. TypeOK'
  <2>1. step' \in 0..2 * Sector + 2 /\ phase' \in Locked
    <3>1. step \in 0..2 * Sector + 2
      BY <1>0 DEF TypeOK
    <3> QED BY <1>2, <3>1, Sizes DEF Locked
  <2>2. /\ DOMAIN at' = Users /\ DOMAIN holds' = Users /\ created' \in Nat
        /\ mutex_init' \in BOOLEAN
    BY <1>0, <1>2, LockMoves
  <2>3. flash' \in [0..Top' -> [of : Values', n : 0..Top', sig : {"none", "half", "run", "swp"}]]
    BY <1>1 DEF CellType, Values, Top, OtaAddr
  <2> QED BY <1>0, <1>2, <2>1, <2>2, <2>3 DEF TypeOK, Users, Top, OtaAddr
<1>6. PlaceInv'
  <2>1. step' > 0 => phase' = "address" /\ at'[ota] = "in"
    BY <1>0, <1>2 DEF locks
  <2> QED BY <1>2, <1>3, <2>1 DEF PlaceInv, Receiving
<1>7. BlankInv'
  <2>1. CASE phase' = "reread"
    BY <1>3, <2>1 DEF BlankInv
  <2> QED BY <1>1, <1>2, <2>1
<1>8. FileInv' /\ SignInv'
  BY <1>2, <1>4 DEF FileInv, Receiving, SignInv
<1> QED BY <1>4, <1>5, <1>6, <1>7, <1>8 DEF BootInv

\* The regions that are erased one after the other.
LEMMA EraseKeeps ==
  ASSUME BootInv, LockInv, EraseRegion
  PROVE  BootInv'
<1> DEFINE base == OtaAddr + step * Sector
           len == (step + 1) * Sector
<1>0. /\ TypeOK /\ PlaceInv /\ BlankInv /\ PlacedInv
      /\ flash \in [0..Top -> CellType] /\ step \in 0..2 * Sector + 2
      /\ ota \in Users /\ phase = "erase" /\ at[ota] = "in" /\ file \in Files /\ size = 0
  BY DEF BootInv, Users, EraseRegion, InPhase, Locked, TypeOK, CellType, PlaceInv, Receiving
<1>1. /\ \/ step + 1 >= EraseCount /\ phase' = "read" /\ step' = 0 /\ Lock!Unlock(ota)
         \/ step + 1 < EraseCount /\ phase' = "erase" /\ step' = step + 1 /\ UNCHANGED locks
      /\ UNCHANGED <<layout, file, size, cmd, cstep, buf, spoilt>> /\ blind' = FALSE
      /\ EraseSector(base)
  <2>1. step \in Nat /\ EraseCount \in Nat
    BY <1>0, EraseCovers, Sizes
  <2> QED BY <1>0, <2>1 DEF EraseRegion, Go, NoLock, NoOtaData, cmdVars
<1>2. ~Mid /\ ~Mid'
  BY <1>0, <1>1, NotBoth DEF Mid
<1>3. /\ base \in Nat /\ base >= OtaAddr /\ base + Sector = OtaAddr + len /\ len \in Nat
      /\ len >= Sector
  <2>1. step * Sector \in Nat /\ (step + 1) * Sector = step * Sector + Sector
    BY <1>0, Sizes
  <2> DEFINE m == step * Sector
  <2> HIDE DEF m
  <2> QED BY <2>1, Sizes DEF m
<1>4. /\ flash' \in [0..Top -> CellType]
      /\ \A b \in 0..Top : flash'[b] = IF b \in base .. base + Sector - 1 THEN Erased ELSE flash[b]
  <2> HIDE DEF base
  <2> QED BY <1>0, <1>1, <1>3, ErasedNow
<1>5. \A a \in OtaAddr .. OtaAddr + len - 1 : a \in 0..Top => flash'[a] = Erased
  <2> SUFFICES ASSUME NEW a \in OtaAddr .. OtaAddr + len - 1, a \in 0..Top
               PROVE  flash'[a] = Erased
    OBVIOUS
  <2>1. CASE a < base
    <3>1. \A b \in OtaAddr .. base - 1 : flash[b] = Erased
      <4>1. phase = "erase" =>
              \A b \in OtaAddr .. OtaAddr + step * Sector - 1 : flash[b] = Erased
        BY <1>0, Zenon DEF BlankInv
      <4>2. base - 1 = OtaAddr + step * Sector - 1
        <5> DEFINE m == step * Sector
        <5>1. m \in Nat /\ OtaAddr \in Nat
          BY <1>0, Sizes
        <5>2. (OtaAddr + m) - 1 = OtaAddr + m - 1
          <6> HIDE DEF m
          <6> QED BY <5>1
        <5> QED BY <5>2
      <4> HIDE DEF base
      <4> QED BY <1>0, <4>1, <4>2
    <3> HIDE DEF base, len
    <3>2. a \in OtaAddr .. base - 1
      BY <1>3, <2>1, Sizes
    <3> QED BY <1>4, <3>1, <3>2
  <2>2. CASE a >= base
    <3>1. a \in base .. base + Sector - 1
      <4> HIDE DEF base, len
      <4> QED BY <1>3, <2>2, Sizes
    <3> HIDE DEF base
    <3> QED BY <1>4, <3>1
  <2>3. a < base \/ a >= base
    <3> HIDE DEF base, len
    <3> QED BY <1>3, Sizes
  <2> QED BY <2>1, <2>2, <2>3
<1>6. flash'[OtaAddr] = Erased
  <2>1. OtaAddr \in OtaAddr .. OtaAddr + len - 1
    <3> HIDE DEF len
    <3> QED BY <1>3, Sizes
  <2> QED BY <1>5, <2>1, Sizes
<1> HIDE DEF base, len
<1>7. TypeOK'
  <2>1. step' \in 0..2 * Sector + 2 /\ phase' \in Locked \union {"read"}
    <3>1. EraseCount \in Nat /\ EraseCount <= 4
      BY <1>0, EraseCovers
    <3> QED BY <1>0, <1>1, <3>1, Sizes DEF Locked
  <2>2. /\ DOMAIN at' = Users /\ DOMAIN holds' = Users /\ created' \in Nat
        /\ mutex_init' \in BOOLEAN
    BY <1>0, <1>1, LockMoves DEF TypeOK
  <2>3. flash' \in [0..Top' -> [of : Values', n : 0..Top', sig : {"none", "half", "run", "swp"}]]
    BY <1>4 DEF CellType, Values, Top, OtaAddr
  <2> QED BY <1>0, <1>1, <2>1, <2>2, <2>3 DEF TypeOK, Users, Top, OtaAddr
<1>8. PlaceInv'
  <2>1. step' > 0 => phase' = "erase" /\ at'[ota] = "in"
    BY <1>0, <1>1 DEF locks
  <2>2. size' = 0 /\ file' \in Files /\ size' <= FileLen'
    <3>1. FileLen' = FileLen
      BY <1>1 DEF FileLen
    <3> QED BY <1>0, <1>1, <3>1, EraseCovers
  <2> QED BY <1>1, <1>2, <2>1, <2>2 DEF PlaceInv
<1>9. BlankInv'
  <2>1. phase' = "erase" => step' = step + 1 /\ len = step' * Sector
    BY <1>1 DEF len
  <2>2. ASSUME phase' = "erase", NEW a \in OtaAddr .. OtaAddr + step' * Sector - 1
        PROVE  flash'[a] = Erased
    <3>1. step' < EraseCount /\ EraseCount <= 4 /\ EraseCount \in Nat /\ step' \in Nat
      BY <1>0, <1>1, <2>2, EraseCovers
    <3>2. step' * Sector <= 4 * Sector /\ step' * Sector \in Nat
      <4>1. \A x \in Nat : x <= 4 => x * Sector <= 4 * Sector /\ x * Sector \in Nat
        BY Sizes
      <4> QED BY <3>1, <4>1
    <3>3. a \in 0..Top
      <4> DEFINE m == step' * Sector
      <4>1. m \in Nat /\ m <= 4 * Sector /\ a \in OtaAddr .. OtaAddr + m - 1
        BY <3>2
      <4> HIDE DEF m
      <4> QED BY <4>1, Sizes
    <3> QED BY <1>5, <2>1, <2>2, <3>3
  <2> QED BY <1>1, <1>2, <2>2 DEF BlankInv, OtaAddr
<1>10. PlacedInv'
  <2>1. ASSUME NEW a \in OtaAddr..Top PROVE Placed(flash'[a], a)
    <3>1. a \in 0..Top
      BY Sizes
    <3>2. CASE flash'[a] = Erased
      BY <3>2, CellsAre DEF Placed
    <3>3. CASE flash'[a] = flash[a]
      BY <1>0, <3>3 DEF PlacedInv
    <3> QED BY <1>4, <3>1, <3>2, <3>3
  <2> QED BY <1>2, <2>1 DEF PlacedInv, Placed, OtaAddr, Top
<1>11. FileInv'
  <2> SUFFICES ASSUME phase' = "read" PROVE FileInv'
    BY <1>1 DEF FileInv, Receiving
  <2>1. FileLen' = FileLen /\ size' = 0 /\ len >= FileLen /\ FileLen <= 4 * Sector /\ FileLen \in Nat
    <3>1. (step + 1) * Sector >= EraseCount * Sector
      <4>1. EraseCount \in Nat /\ step + 1 \in Nat /\ step + 1 >= EraseCount
        BY <1>0, <1>1, EraseCovers
      <4>2. \A x, y \in Nat : x >= y => x * Sector >= y * Sector
        BY Sizes
      <4> QED BY <4>1, <4>2
    <3>2. EraseCount * Sector \in Nat /\ EraseCount * Sector >= FileLen
      BY <1>0, EraseCovers, Sizes
    <3>3. (step + 1) * Sector >= FileLen
      <4> DEFINE x == (step + 1) * Sector
                 y == EraseCount * Sector
      <4>1. x >= y /\ y >= FileLen /\ x \in Nat /\ y \in Nat /\ FileLen \in Nat
        BY <1>0, <1>3, <3>1, <3>2, EraseCovers DEF len
      <4> HIDE DEF x, y
      <4>2. x >= FileLen
        BY <4>1
      <4> QED BY <4>2 DEF x
    <3> QED BY <1>0, <1>1, <3>3, EraseCovers DEF len, FileLen
  <2>2. ASSUME NEW i \in 0..FileLen - 1 PROVE flash'[OtaAddr + i] = Erased
    <3>1. OtaAddr + i \in OtaAddr .. OtaAddr + len - 1 /\ OtaAddr + i \in 0..Top
      BY <1>3, <2>1, Sizes
    <3> QED BY <1>5, <3>1
  <2>3. \A i \in 0..FileLen - 1 : flash'[OtaAddr + i].of = None /\ ViewCell(i)'.of = None
    BY <1>2, <2>2, CellsAre DEF ViewCell, OtaAddr
  <2>4. flash'[OtaAddr].of = None /\ ViewCell(0)'.of = None
    <3>1. OtaAddr + 0 = OtaAddr
      BY Sizes
    <3> QED BY <1>2, <1>6, <3>1, CellsAre DEF ViewCell, OtaAddr
  <2> QED BY <2>1, <2>3, <2>4 DEF FileInv, OtaAddr
<1>12. SignInv'
  <2>1. None \notin Files
    BY OtaAssumption
  <2> QED BY <1>6, <2>1, CellsAre DEF SignInv, HonestSign, OtaAddr
<1> QED BY <1>7, <1>8, <1>9, <1>10, <1>11, <1>12 DEF BootInv

\* A cell of the file is programmed behind those that were.
LEMMA WriteKeeps ==
  ASSUME BootInv, LockInv, WriteCell
  PROVE  BootInv'
<1> DEFINE a == OtaAddr + size
           c == Cell(file, size)
<1>0. /\ TypeOK /\ PlaceInv /\ BlankInv /\ PlacedInv /\ FileInv /\ SignInv
      /\ flash \in [0..Top -> CellType]
      /\ ota \in Users /\ phase = "write" /\ at[ota] = "in" /\ file \in Files
      /\ size \in Nat /\ size < FileLen
  <2>1. TypeOK /\ PlaceInv /\ BlankInv /\ PlacedInv /\ FileInv /\ SignInv
    BY DEF BootInv
  <2>2. flash \in [0..Top -> CellType] /\ size \in Nat
    BY <2>1, Sizes DEF TypeOK, CellType
  <2>3. ota \in Users /\ phase = "write" /\ at[ota] = "in"
    BY DEF Users, WriteCell, InPhase, Locked
  <2> QED BY <2>1, <2>2, <2>3 DEF PlaceInv, Receiving
<1>1. /\ Program(a, c) /\ size' = size + 1 /\ step' = 0 /\ phase' \in {"check", "read"}
      /\ phase' = "read" => size' # FileLen
      /\ Lock!Unlock(ota) /\ UNCHANGED <<layout, file, cmd, cstep, buf, spoilt, blind>>
  BY DEF WriteCell, Go, Rest, cmdVars
<1>2. ~Mid /\ ~Mid'
  BY <1>0, <1>1, NotBoth DEF Mid
<1>3. /\ FileLen \in Nat /\ FileLen <= 4 * Sector /\ FileLen' = FileLen /\ FileLen = Cells[file] + 1
      /\ Cells[file] \in Nat
  BY <1>0, <1>1, EraseCovers, OtaAssumption DEF FileLen
<1>4. /\ a \in OtaAddr..Top /\ a \in 0..Top /\ size \in 0..Top /\ size + 1 \in 0..Top
      /\ a = OtaAddr <=> size = 0
  BY <1>0, <1>3, Sizes
<1>5. c \in CellType /\ c.of = file /\ c.n = size /\ c.sig = "none" /\ file # None
  BY <1>0, <1>4, CellsAre
<1>6. /\ \A i \in size..FileLen - 1 : flash[OtaAddr + i].of = None
      /\ flash[OtaAddr].of \in {None, file} /\ flash[a].of = None
  BY <1>0, <1>3 DEF FileInv, Receiving
<1> HIDE DEF c
<1>7. /\ flash' \in [0..Top -> CellType]
      /\ \A b \in 0..Top : b # a => flash'[b] = flash[b]
      /\ flash'[a].of = file /\ flash'[a].n = size
      /\ flash[a].sig = "none" => flash'[a].sig = "none"
      /\ flash[a].sig # "none" => flash'[a].sig = flash[a].sig
  <2> HIDE DEF a
  <2> QED BY <1>0, <1>1, <1>4, <1>5, <1>6, Programmed
<1>8. TypeOK'
  <2>1. size' \in 0..Top /\ 0 \in 0..2 * Sector + 2
    BY <1>1, <1>4, Sizes
  <2>2. /\ DOMAIN at' = Users /\ DOMAIN holds' = Users /\ created' \in Nat
        /\ mutex_init' \in BOOLEAN
    BY <1>0, <1>1, LockMoves
  <2>3. flash' \in [0..Top' -> [of : Values', n : 0..Top', sig : {"none", "half", "run", "swp"}]]
    BY <1>7 DEF CellType, Values, Top, OtaAddr
  <2> QED BY <1>0, <1>1, <2>1, <2>2, <2>3 DEF TypeOK, Users, Top, OtaAddr, Locked
<1>9. PlaceInv'
  <2>1. size' <= FileLen'
    BY <1>0, <1>1, <1>3
  <2> QED BY <1>0, <1>1, <1>2, <2>1 DEF PlaceInv
<1>10. BlankInv'
  BY <1>1, <1>2 DEF BlankInv
<1>11. PlacedInv'
  <2>1. ASSUME NEW b \in OtaAddr..Top PROVE Placed(flash'[b], b)
    <3>1. b \in 0..Top
      BY Sizes
    <3>2. CASE b # a
      BY <1>0, <1>7, <3>1, <3>2 DEF PlacedInv
    <3>3. CASE b = a
      BY <1>0, <1>4, <1>7, <3>3 DEF Placed
    <3> QED BY <3>2, <3>3
  <2> QED BY <1>2, <2>1 DEF PlacedInv, Placed, OtaAddr, Top
<1>12. FileInv'
  <2>1. ASSUME NEW i \in size' .. FileLen - 1 PROVE flash'[OtaAddr + i].of = None
    <3>1. i \in size..FileLen - 1 /\ OtaAddr + i \in 0..Top /\ OtaAddr + i # a
      BY <1>0, <1>1, <1>3, Sizes
    <3> HIDE DEF a
    <3> QED BY <1>6, <1>7, <3>1
  <2>2. flash'[OtaAddr].of \in {None, file}
    BY <1>4, <1>6, <1>7, Sizes
  <2>3. \A i \in Nat : ViewCell(i)' = flash'[OtaAddr + i]
    BY <1>2 DEF ViewCell, OtaAddr
  <2>4. OtaAddr + 0 = OtaAddr /\ \A i \in size' .. FileLen - 1 : i \in Nat
    BY <1>0, <1>1, Sizes
  <2> QED BY <1>1, <1>3, <2>1, <2>2, <2>3, <2>4 DEF FileInv, OtaAddr
<1>13. SignInv'
  <2>1. CASE size = 0
    <3>1. a = OtaAddr /\ flash'[OtaAddr].of = file /\ flash[OtaAddr].of = None
      BY <1>4, <1>6, <1>7, <2>1
    <3>2. flash'[OtaAddr].sig # "none" => blind
      BY <1>0, <1>7, <3>1 DEF SignInv, HonestSign
    <3>3. file \in Files /\ file # None /\ blind' = blind
      BY <1>0, <1>1, <1>5
    <3> QED BY <3>1, <3>2, <3>3 DEF SignInv, HonestSign, OtaAddr
  <2>2. CASE size # 0
    <3>1. flash'[OtaAddr] = flash[OtaAddr]
      BY <1>4, <1>7, <2>2, Sizes
    <3>2. ASSUME flash[OtaAddr].of \in Files, WholeAt(OtaAddr)
          PROVE  WholeAt(OtaAddr)'
      <4>1. flash[OtaAddr].of = file
        BY <1>0, <1>6, <3>2, CellsAre, Sizes, OtaAssumption
      <4>2. \A i \in 0..Cells[file] - 1 : flash[OtaAddr + i].of = file /\ flash[OtaAddr + i].n = i
        BY <3>2, <4>1 DEF WholeAt
      <4>3. ASSUME NEW i \in 0..Cells[file] - 1
            PROVE  OtaAddr + i \in 0..Top /\ OtaAddr + i # a
        <5>1. OtaAddr + i \in 0..Top
          BY <1>3, Sizes
        <5>2. flash[OtaAddr + i].of # flash[a].of
          BY <1>5, <1>6, <4>2
        <5> QED BY <5>1, <5>2
      <4>4. \A i \in 0..Cells[file] - 1 : flash'[OtaAddr + i] = flash[OtaAddr + i]
        <5> HIDE DEF a
        <5> QED BY <1>7, <4>3
      <4> QED BY <3>1, <4>1, <4>2, <4>4 DEF WholeAt, OtaAddr
    <3> QED BY <1>0, <1>1, <3>1, <3>2 DEF SignInv, HonestSign, OtaAddr
  <2> QED BY <2>1, <2>2
<1> QED BY <1>8, <1>9, <1>10, <1>11, <1>12, <1>13 DEF BootInv

\* The signature: of the image that was verified, which is all there, or of none.
LEMMA SignKeeps ==
  ASSUME BootInv, LockInv, Sign
  PROVE  BootInv'
<1> DEFINE s == IF step = 0 THEN "half" ELSE "run"
<1>0. /\ TypeOK /\ PlaceInv /\ BlankInv /\ PlacedInv /\ FileInv /\ SignInv
      /\ flash \in [0..Top -> CellType] /\ flash[OtaAddr] \in CellType
      /\ ota \in Users /\ phase = "sign" /\ at[ota] = "in" /\ file \in Files
      /\ size \in Nat /\ step \in {0, 1} /\ s \in {"none", "half", "run", "swp"}
  <2>1. TypeOK /\ PlaceInv /\ BlankInv /\ PlacedInv /\ FileInv /\ SignInv
    BY DEF BootInv
  <2>2. /\ flash \in [0..Top -> CellType] /\ flash[OtaAddr] \in CellType /\ size \in Nat
        /\ step \in Nat
    <3>1. flash \in [0..Top -> CellType] /\ size \in 0..Top /\ step \in 0..2 * Sector + 2
      BY <2>1 DEF TypeOK, CellType
    <3> QED BY <3>1, Sizes
  <2>3. ota \in Users /\ phase = "sign" /\ at[ota] = "in"
    BY DEF Users, Sign, InPhase, Locked
  <2>4. step < 2 /\ file \in Files
    BY <2>1, <2>3 DEF PlaceInv, Receiving
  <2> QED BY <2>1, <2>2, <2>3, <2>4
<1>1. /\ flash' = [flash EXCEPT ![OtaAddr] = Signed(@, s)]
      /\ \/ step = 1 /\ phase' = "reset" /\ step' = 0 /\ Lock!Unlock(ota)
         \/ step = 0 /\ phase' = "sign" /\ step' = 1 /\ UNCHANGED locks
      /\ UNCHANGED <<layout, file, size, cmd, cstep, buf, spoilt, blind>>
  BY <1>0 DEF Sign, Go, NoLock, NoOtaData, Rest, cmdVars
<1>2. ~Mid /\ ~Mid'
  BY <1>0, <1>1, NotBoth DEF Mid
<1>3. /\ flash' \in [0..Top -> CellType]
      /\ \A b \in 0..Top : b # OtaAddr => flash'[b] = flash[b]
      /\ flash'[OtaAddr].of = flash[OtaAddr].of /\ flash'[OtaAddr].n = flash[OtaAddr].n
      /\ flash'[OtaAddr].sig = s
  <2>1. /\ Signed(flash[OtaAddr], s) \in CellType
        /\ Signed(flash[OtaAddr], s).of = flash[OtaAddr].of
        /\ Signed(flash[OtaAddr], s).n = flash[OtaAddr].n /\ Signed(flash[OtaAddr], s).sig = s
    BY <1>0, CellsAre
  <2> HIDE DEF s
  <2> QED BY <1>0, <1>1, <2>1, Sizes
<1>4. \A b \in 0..Top : flash'[b].of = flash[b].of /\ flash'[b].n = flash[b].n
  BY <1>3
<1>5. TypeOK'
  <2>1. step' \in 0..2 * Sector + 2 /\ phase' \in {"reset", "sign"}
    BY <1>1, Sizes
  <2>2. /\ DOMAIN at' = Users /\ DOMAIN holds' = Users /\ created' \in Nat
        /\ mutex_init' \in BOOLEAN
    BY <1>0, <1>1, LockMoves
  <2>3. flash' \in [0..Top' -> [of : Values', n : 0..Top', sig : {"none", "half", "run", "swp"}]]
    BY <1>3 DEF CellType, Values, Top, OtaAddr
  <2> QED BY <1>0, <1>1, <2>1, <2>2, <2>3 DEF TypeOK, Users, Top, OtaAddr, Locked
<1>6. PlaceInv'
  <2>1. step' > 0 => phase' = "sign" /\ at'[ota] = "in"
    BY <1>0, <1>1 DEF locks
  <2> QED BY <1>0, <1>1, <1>2, <2>1 DEF PlaceInv, Receiving, FileLen
<1>7. BlankInv'
  BY <1>1, <1>2 DEF BlankInv
<1>8. PlacedInv'
  <2>1. \A b \in OtaAddr..Top : Placed(flash'[b], b)
    <3>1. \A b \in OtaAddr..Top : b \in 0..Top
      BY Sizes
    <3> QED BY <1>0, <1>4, <3>1 DEF PlacedInv, Placed
  <2> QED BY <1>2, <2>1 DEF PlacedInv, Placed, OtaAddr, Top
<1>9. /\ FileLen' = FileLen /\ size' = size /\ FileLen = Cells[file] + 1 /\ Cells[file] \in Nat
      /\ FileLen <= 4 * Sector /\ FileLen \in Nat /\ size <= FileLen
      /\ \A i \in 0..FileLen - 1 : OtaAddr + i \in 0..Top
      /\ OtaAddr + 0 = OtaAddr
  <2>1. FileLen' = FileLen /\ size' = size /\ FileLen = Cells[file] + 1 /\ Cells[file] \in Nat
        /\ FileLen <= 4 * Sector /\ FileLen \in Nat /\ size <= FileLen
    BY <1>0, <1>1, EraseCovers, OtaAssumption DEF FileLen, PlaceInv, Receiving
  <2> QED BY <2>1, Sizes
<1>10. /\ \A i \in size..FileLen - 1 : flash[OtaAddr + i].of = None
       /\ flash[OtaAddr].of \in {None, file}
       /\ size \in {0, FileLen}
       /\ \A i \in 0..size - 1 : flash[OtaAddr + i].of = file /\ flash[OtaAddr + i].n = i
  BY <1>0, <1>2 DEF FileInv, Receiving, ViewCell
<1>11. FileInv'
  <2>1. \A i \in Nat : ViewCell(i)' = flash'[OtaAddr + i]
    BY <1>2 DEF ViewCell, OtaAddr
  <2>2. \A i \in 0..FileLen - 1 : i \in Nat
    OBVIOUS
  <2>3. /\ \A i \in size..FileLen - 1 : i \in 0..FileLen - 1
        /\ \A i \in 0..size - 1 : i \in 0..FileLen - 1
    BY <1>0, <1>9
  <2>4. \A i \in size..FileLen - 1 : flash'[OtaAddr + i].of = None /\ ViewCell(i)'.of = None
    BY <1>4, <1>9, <1>10, <2>1, <2>2, <2>3
  <2>5. \A i \in 0..size - 1 : ViewCell(i)'.of = file /\ ViewCell(i)'.n = i
    BY <1>4, <1>9, <1>10, <2>1, <2>2, <2>3
  <2>6. flash'[OtaAddr].of \in {None, file} /\ ViewCell(0)'.of \in {None, file}
    BY <1>3, <1>9, <1>10, <2>1
  <2> QED BY <1>1, <1>9, <1>10, <2>4, <2>5, <2>6 DEF FileInv, OtaAddr
<1>12. SignInv'
  <2>1. ASSUME flash[OtaAddr].of \in Files PROVE WholeAt(OtaAddr)'
    <3>1. size = FileLen
      <4>1. ASSUME size = 0 PROVE FALSE
        <5>1. flash[OtaAddr + 0].of = None
          BY <1>9, <1>10, <4>1
        <5> QED BY <1>9, <2>1, <5>1, OtaAssumption
      <4> QED BY <1>10, <4>1
    <3>2. flash[OtaAddr].of = file
      BY <1>10, <2>1, OtaAssumption
    <3>3. \A i \in 0..Cells[file] - 1 :
            i \in 0..size - 1 /\ OtaAddr + i \in 0..Top
      BY <1>9, <3>1
    <3> QED BY <1>3, <1>4, <1>10, <3>2, <3>3, Sizes DEF WholeAt, OtaAddr
  <2> QED BY <1>1, <1>3, <2>1 DEF SignInv, HonestSign, OtaAddr
<1> QED BY <1>5, <1>6, <1>7, <1>8, <1>11, <1>12 DEF BootInv

\* The update is between two of its sections when the command is in one.
LEMMA CommandAlone ==
  ASSUME TypeOK, LockInv, PlaceInv, at[console] = "in"
  PROVE  step = 0 /\ at[ota] # "in"
<1>1. step \in Nat
  BY Sizes DEF TypeOK
<1>2. at[ota] # "in"
  BY OtaAssumption DEF LockInv, Users
<1> QED BY <1>1, <1>2 DEF PlaceInv

\* The command's sector goes to RAM, the flash is erased.
LEMMA ReadEraseKeeps ==
  ASSUME BootInv, LockInv, ReadErase
  PROVE  BootInv'
<1>0. /\ TypeOK /\ PlaceInv /\ BlankInv /\ PlacedInv /\ FileInv /\ SignInv
      /\ flash \in [0..Top -> CellType] /\ ~Mid /\ step = 0 /\ at[console] = "in"
      /\ cmd \in {None, "run", "swp"} /\ cmd # None
  <2>1. TypeOK /\ PlaceInv /\ BlankInv /\ PlacedInv /\ FileInv /\ SignInv
    BY DEF BootInv
  <2>2. cstep = 1 /\ at[console] = "in" /\ cmd # None
    BY DEF ReadErase
  <2>3. flash \in [0..Top -> CellType] /\ cmd \in {None, "run", "swp"}
    BY <2>1 DEF TypeOK, CellType
  <2> QED BY <2>1, <2>2, <2>3, CommandAlone, Sizes DEF Mid
<1>1. /\ buf' = [i \in 1..Sector |->
                   IF i = 1 THEN Signed(flash[OtaAddr], cmd) ELSE flash[OtaAddr + i - 1]]
      /\ EraseSector(OtaAddr) /\ cstep' = 2 /\ UNCHANGED locks
      /\ UNCHANGED <<layout, phase, step, file, size, cmd, spoilt, blind>>
  BY DEF ReadErase, NoLock, CommandRest, otaVars
<1>2. /\ flash' \in [0..Top -> CellType]
      /\ \A b \in 0..Top :
           flash'[b] = IF b \in OtaAddr .. OtaAddr + Sector - 1 THEN Erased ELSE flash[b]
  BY <1>0, <1>1, ErasedNow, Sizes
<1>3. \A i \in 0..Sector - 1 : flash'[OtaAddr + i] = Erased
  <2>1. \A i \in 0..Sector - 1 :
          OtaAddr + i \in OtaAddr .. OtaAddr + Sector - 1 /\ OtaAddr + i \in 0..Top
    BY Sizes
  <2> QED BY <1>2, <2>1
<1>4. \A i \in Sector .. 4 * Sector - 1 : flash'[OtaAddr + i] = flash[OtaAddr + i]
  <2>1. \A i \in Sector .. 4 * Sector - 1 :
          OtaAddr + i \notin OtaAddr .. OtaAddr + Sector - 1 /\ OtaAddr + i \in 0..Top
    BY Sizes
  <2> QED BY <1>2, <2>1
<1>5. \A i \in 1..Sector :
        /\ buf'[i] \in CellType
        /\ buf'[i].of = flash[OtaAddr + i - 1].of /\ buf'[i].n = flash[OtaAddr + i - 1].n
  <2> SUFFICES ASSUME NEW i \in 1..Sector
               PROVE  /\ buf'[i] \in CellType
                      /\ buf'[i].of = flash[OtaAddr + i - 1].of
                      /\ buf'[i].n = flash[OtaAddr + i - 1].n
    OBVIOUS
  <2>1. OtaAddr + i - 1 \in 0..Top /\ OtaAddr + 1 - 1 = OtaAddr
    BY Sizes
  <2>2. flash[OtaAddr + i - 1] \in CellType
    BY <1>0, <2>1
  <2>3. CASE i = 1
    <3>1. flash[OtaAddr] \in CellType /\ buf'[i] = Signed(flash[OtaAddr], cmd)
      BY <1>1, <2>1, <2>2, <2>3
    <3> QED BY <1>0, <2>1, <2>3, <3>1, CellsAre
  <2>4. CASE i # 1
    BY <1>1, <2>2, <2>4
  <2> QED BY <2>3, <2>4
<1>6. buf' \in [1..Sector -> CellType] /\ Mid'
  <2>1. cstep' \in 2..Sector + 1
    BY <1>1, Sizes
  <2>2. DOMAIN buf' = 1..Sector /\ buf' = [i \in 1..Sector |-> buf'[i]]
    BY <1>1
  <2> QED BY <1>5, <2>1, <2>2 DEF Mid
<1>7. TypeOK'
  <2>1. flash' \in [0..Top' -> [of : Values', n : 0..Top', sig : {"none", "half", "run", "swp"}]]
    BY <1>2 DEF CellType, Values, Top, OtaAddr
  <2>2. cstep' \in 0..Sector + 2
    BY <1>1, Sizes
  <2> QED BY <1>0, <1>1, <2>1, <2>2 DEF TypeOK, Top, OtaAddr, locks
<1>8. PlaceInv'
  BY <1>0, <1>1, <1>6 DEF PlaceInv, CellType, Values, Top, OtaAddr, Receiving, FileLen, locks
<1>9. BlankInv'
  <2>1. ErasedIn(OtaAddr, cstep - 2)'
    <3>1. cstep' - 2 = 0
      BY <1>1
    <3> QED BY <1>3, <3>1 DEF ErasedIn, OtaAddr
  <2>2. \A a \in OtaAddr .. OtaAddr + step' * Sector - 1 : flash'[a] = Erased
    <3>1. step' * Sector = 0
      BY <1>0, <1>1, Sizes
    <3> QED BY <3>1, Sizes
  <2>3. ~(step' > 0)
    BY <1>0, <1>1
  <2> QED BY <2>1, <2>2, <2>3 DEF BlankInv, OtaAddr
<1>10. PlacedInv'
  <2>1. ASSUME NEW b \in OtaAddr..Top PROVE Placed(flash'[b], b)
    <3>1. b \in 0..Top
      BY Sizes
    <3>2. CASE flash'[b] = Erased
      BY <3>2, CellsAre DEF Placed
    <3>3. CASE flash'[b] = flash[b]
      BY <1>0, <3>3 DEF PlacedInv
    <3> QED BY <1>2, <3>1, <3>2, <3>3
  <2>2. ASSUME NEW i \in 1..Sector PROVE Placed(buf'[i], OtaAddr + i - 1)
    <3>1. OtaAddr + i - 1 \in OtaAddr..Top
      BY Sizes
    <3>2. Placed(flash[OtaAddr + i - 1], OtaAddr + i - 1)
      BY <1>0, <3>1 DEF PlacedInv
    <3> QED BY <1>5, <3>2 DEF Placed
  <2> QED BY <2>1, <2>2 DEF PlacedInv, Placed, OtaAddr, Top
<1>11. \A i \in 0 .. 4 * Sector - 1 :
         /\ ViewCell(i) = flash[OtaAddr + i]
         /\ ViewCell(i)'.of = flash[OtaAddr + i].of /\ ViewCell(i)'.n = flash[OtaAddr + i].n
         /\ flash'[OtaAddr + i].of \in {None, flash[OtaAddr + i].of}
  <2> SUFFICES ASSUME NEW i \in 0 .. 4 * Sector - 1
               PROVE  /\ ViewCell(i) = flash[OtaAddr + i]
                      /\ ViewCell(i)'.of = flash[OtaAddr + i].of
                      /\ ViewCell(i)'.n = flash[OtaAddr + i].n
                      /\ flash'[OtaAddr + i].of \in {None, flash[OtaAddr + i].of}
    OBVIOUS
  <2>1. ViewCell(i) = flash[OtaAddr + i]
    BY <1>0 DEF ViewCell
  <2>2. CASE i < Sector
    <3>1. /\ i \in 0..Sector - 1 /\ i + 1 \in 1..Sector /\ OtaAddr + (i + 1) - 1 = OtaAddr + i
          /\ cstep' - 2 = 0
      BY <1>1, <2>2, Sizes
    <3>2. ViewCell(i)' = buf'[i + 1]
      BY <1>6, <3>1 DEF ViewCell
    <3>3. buf'[i + 1].of = flash[OtaAddr + i].of /\ buf'[i + 1].n = flash[OtaAddr + i].n
      BY <1>5, <3>1
    <3> QED BY <1>3, <2>1, <3>1, <3>2, <3>3, CellsAre
  <2>3. CASE i >= Sector
    <3>1. i \in Sector .. 4 * Sector - 1 /\ i \notin 0..Sector - 1 /\ cstep' - 2 = 0
      BY <1>1, <2>3, Sizes
    <3>2. ViewCell(i)' = flash'[OtaAddr + i]
      BY <3>1 DEF ViewCell, OtaAddr
    <3> QED BY <1>4, <2>1, <3>1, <3>2
  <2> QED BY <2>2, <2>3, Sizes
<1>12. FileInv'
  <2> SUFFICES ASSUME phase' \in Receiving \ {"erase"} PROVE FileInv'
    BY DEF FileInv
  <2>1. /\ phase \in Receiving \ {"erase"} /\ file \in Files /\ size \in Nat /\ size <= FileLen
        /\ FileLen' = FileLen /\ FileLen \in Nat /\ FileLen <= 4 * Sector
    <3>1. phase \in Receiving /\ phase # "erase" /\ FileLen' = FileLen
      BY <1>1 DEF FileLen, Receiving
    <3>2. file \in Files /\ size <= FileLen
      BY <1>0, <3>1 DEF PlaceInv
    <3>3. size \in Nat
      BY <1>0, Sizes DEF TypeOK
    <3> QED BY <3>1, <3>2, <3>3, EraseCovers
  <2>2. /\ \A i \in size..FileLen - 1 : i \in 0 .. 4 * Sector - 1
        /\ \A i \in 0..size - 1 : i \in 0 .. 4 * Sector - 1
        /\ 0 \in 0 .. 4 * Sector - 1 /\ OtaAddr + 0 = OtaAddr
    BY <2>1, Sizes
  <2>3. \A i \in size..FileLen - 1 : flash'[OtaAddr + i].of = None /\ ViewCell(i)'.of = None
    BY <1>0, <1>11, <2>1, <2>2 DEF FileInv
  <2>4. flash'[OtaAddr].of \in {None, file} /\ ViewCell(0)'.of \in {None, file}
    BY <1>0, <1>11, <2>1, <2>2 DEF FileInv
  <2>5. phase = "sign" =>
          /\ size \in {0, FileLen}
          /\ \A i \in 0..size - 1 : ViewCell(i)'.of = file /\ ViewCell(i)'.n = i
    BY <1>0, <1>11, <2>1, <2>2 DEF FileInv
  <2> QED BY <1>1, <2>1, <2>3, <2>4, <2>5 DEF FileInv, OtaAddr
<1>13. SignInv'
  <2>1. flash'[OtaAddr] = Erased /\ None \notin Files
    <3>1. OtaAddr + 0 = OtaAddr /\ 0 \in 0..Sector - 1
      BY Sizes
    <3> QED BY <1>3, <3>1, OtaAssumption
  <2> QED BY <2>1, CellsAre DEF SignInv, HonestSign, OtaAddr
<1> QED BY <1>7, <1>8, <1>9, <1>10, <1>12, <1>13 DEF BootInv

\* A cell of the command's sector goes back to where it was.
LEMMA WriteBackKeeps ==
  ASSUME BootInv, LockInv, WriteBack
  PROVE  BootInv'
<1> DEFINE k == cstep - 2
           a == OtaAddr + k
           c == buf[k + 1]
<1>0. /\ TypeOK /\ PlaceInv /\ BlankInv /\ PlacedInv /\ FileInv /\ SignInv
      /\ flash \in [0..Top -> CellType] /\ Mid /\ step = 0 /\ console \in Users
      /\ buf \in [1..Sector -> CellType] /\ at[console] = "in" /\ cmd # None
  <2>1. TypeOK /\ PlaceInv /\ BlankInv /\ PlacedInv /\ FileInv /\ SignInv
    BY DEF BootInv
  <2>2. Mid /\ at[console] = "in" /\ cmd # None
    BY DEF WriteBack, Mid
  <2>3. flash \in [0..Top -> CellType]
    BY <2>1 DEF TypeOK, CellType
  <2>4. buf \in [1..Sector -> CellType]
    BY <2>1, <2>2 DEF PlaceInv
  <2> QED BY <2>1, <2>2, <2>3, <2>4, CommandAlone DEF Users
<1>1. /\ cstep \in 2..Sector + 1 /\ cstep - 1 = k + 1 /\ OtaAddr + cstep - 2 = a
      /\ k \in 0..Sector - 1 /\ k + 1 \in 1..Sector /\ k \in Nat
      /\ a \in 0..Top /\ a \in OtaAddr..Top /\ (a = OtaAddr <=> k = 0)
      /\ OtaAddr + (k + 1) - 1 = a /\ cstep = k + 2
  BY <1>0, Sizes DEF Mid
<1>2. /\ Program(a, c) /\ cstep' = cstep + 1
      /\ blind' = LET f == flash'[OtaAddr].of IN f \notin Files \/ Part(f)
      /\ \/ cstep = Sector + 1 /\ Lock!Unlock(console)
         \/ cstep # Sector + 1 /\ UNCHANGED locks
      /\ UNCHANGED <<layout, phase, step, file, size, cmd, buf, spoilt>>
  BY <1>1 DEF WriteBack, NoLock, CommandRest, otaVars
<1>3. flash[a] = Erased /\ c \in CellType /\ Placed(c, a)
  <2>1. k \in k..Sector - 1
    BY <1>1
  <2>2. ErasedIn(OtaAddr, k)
    BY <1>0 DEF BlankInv
  <2> HIDE DEF k
  <2> QED BY <1>0, <1>1, <2>1, <2>2 DEF ErasedIn, PlacedInv
<1>4. /\ flash' \in [0..Top -> CellType]
      /\ \A b \in 0..Top : b # a => flash'[b] = flash[b]
      /\ flash'[a].of = c.of /\ (c.of # None => flash'[a].n = c.n)
  <2> HIDE DEF a, c
  <2> QED BY <1>0, <1>1, <1>2, <1>3, CellsAre, Programmed
<1>5. \/ Mid' /\ cstep # Sector + 1 /\ UNCHANGED locks
      \/ ~Mid' /\ cstep = Sector + 1
  BY <1>1, <1>2, Sizes DEF Mid
<1>6. TypeOK'
  <2>1. flash' \in [0..Top' -> [of : Values', n : 0..Top', sig : {"none", "half", "run", "swp"}]]
    BY <1>4 DEF CellType, Values, Top, OtaAddr
  <2>2. cstep' \in 0..Sector + 2
    BY <1>1, <1>2, Sizes
  <2>3. /\ DOMAIN at' = Users /\ DOMAIN holds' = Users /\ created' \in Nat
        /\ mutex_init' \in BOOLEAN
    BY <1>0, <1>2, LockMoves
  <2>4. blind' \in BOOLEAN
    BY <1>2
  <2> QED BY <1>0, <1>2, <2>1, <2>2, <2>3, <2>4 DEF TypeOK, Top, OtaAddr, Users
<1>7. PlaceInv'
  <2>1. Mid' => cmd' # None /\ at'[console] = "in" /\ buf' \in [1..Sector -> CellType']
    BY <1>0, <1>2, <1>5 DEF CellType, Values, Top, OtaAddr, locks
  <2> QED BY <1>0, <1>2, <2>1 DEF PlaceInv, Receiving, FileLen
<1>8. BlankInv'
  <2>1. ErasedIn(OtaAddr, cstep - 2)'
    <3>1. ASSUME NEW i \in k + 1 .. Sector - 1 PROVE flash'[OtaAddr + i] = Erased
      <4>1. i \in k..Sector - 1 /\ OtaAddr + i \in 0..Top /\ OtaAddr + i # a
        BY <1>1, Sizes
      <4>2. ErasedIn(OtaAddr, k)
        BY <1>0 DEF BlankInv
      <4> HIDE DEF k, a
      <4> QED BY <1>4, <4>1, <4>2 DEF ErasedIn
    <3>2. cstep' - 2 = k + 1
      BY <1>1, <1>2
    <3> HIDE DEF k
    <3> QED BY <3>1, <3>2 DEF ErasedIn, OtaAddr
  <2>2. \A b \in OtaAddr .. OtaAddr + step' * Sector - 1 : flash'[b] = Erased
    <3>1. step' * Sector = 0
      BY <1>0, <1>2, Sizes
    <3> QED BY <3>1, Sizes
  <2>3. ~(step' > 0)
    BY <1>0, <1>2
  <2> QED BY <2>1, <2>2, <2>3 DEF BlankInv, OtaAddr
<1>9. PlacedInv'
  <2>1. ASSUME NEW b \in OtaAddr..Top PROVE Placed(flash'[b], b)
    <3>1. b \in 0..Top
      BY Sizes
    <3>2. CASE b = a
      BY <1>3, <1>4, <3>2 DEF Placed
    <3>3. CASE b # a
      BY <1>0, <1>4, <3>1, <3>3 DEF PlacedInv
    <3> QED BY <3>2, <3>3
  <2>2. \A i \in 1..Sector : Placed(buf'[i], OtaAddr + i - 1)
    BY <1>0, <1>2 DEF PlacedInv
  <2> QED BY <2>1, <2>2 DEF PlacedInv, Placed, OtaAddr, Top
<1>10. \A i \in 0 .. 4 * Sector - 1 :
         /\ ViewCell(i)'.of = ViewCell(i).of
         /\ ViewCell(i).of # None => ViewCell(i)'.n = ViewCell(i).n
         /\ flash'[OtaAddr + i].of \in {flash[OtaAddr + i].of, ViewCell(i).of}
  <2> SUFFICES ASSUME NEW i \in 0 .. 4 * Sector - 1
               PROVE  /\ ViewCell(i)'.of = ViewCell(i).of
                      /\ ViewCell(i).of # None => ViewCell(i)'.n = ViewCell(i).n
                      /\ flash'[OtaAddr + i].of \in {flash[OtaAddr + i].of, ViewCell(i).of}
    OBVIOUS
  <2>1. OtaAddr + i \in 0..Top /\ (OtaAddr + i = a <=> i = k)
    BY <1>1, Sizes
  <2>2. CASE i = k
    <3>1. ViewCell(i) = c
      BY <1>0, <1>1, <2>2 DEF ViewCell
    <3>2. ViewCell(i)' = flash'[a]
      <4>1. ~(i \in cstep' - 2 .. Sector - 1)
        BY <1>1, <1>2, <2>2
      <4> QED BY <2>2, <4>1 DEF ViewCell, OtaAddr
    <3> QED BY <1>4, <2>1, <2>2, <3>1, <3>2
  <2>3. CASE i # k
    <3>1. flash'[OtaAddr + i] = flash[OtaAddr + i]
      <4> HIDE DEF a
      <4> QED BY <1>4, <2>1, <2>3
    <3>2. i \in cstep - 2 .. Sector - 1 <=> Mid' /\ i \in cstep' - 2 .. Sector - 1
      BY <1>1, <1>2, <1>5, <2>3, Sizes
    <3>3. ViewCell(i)' = ViewCell(i)
      BY <1>0, <1>2, <3>1, <3>2 DEF ViewCell, OtaAddr
    <3> QED BY <3>1, <3>3
  <2> QED BY <2>2, <2>3
<1>11. FileInv'
  <2> SUFFICES ASSUME phase' \in Receiving \ {"erase"} PROVE FileInv'
    BY DEF FileInv
  <2>1. /\ phase \in Receiving \ {"erase"} /\ file \in Files /\ size \in Nat /\ size <= FileLen
        /\ FileLen' = FileLen /\ FileLen \in Nat /\ FileLen <= 4 * Sector
    <3>1. phase \in Receiving /\ phase # "erase" /\ FileLen' = FileLen
      BY <1>2 DEF FileLen, Receiving
    <3>2. file \in Files /\ size <= FileLen
      BY <1>0, <3>1 DEF PlaceInv
    <3>3. size \in Nat
      BY <1>0, Sizes DEF TypeOK
    <3> QED BY <3>1, <3>2, <3>3, EraseCovers
  <2>2. /\ \A i \in size..FileLen - 1 : i \in 0 .. 4 * Sector - 1
        /\ \A i \in 0..size - 1 : i \in 0 .. 4 * Sector - 1
        /\ 0 \in 0 .. 4 * Sector - 1 /\ OtaAddr + 0 = OtaAddr
    BY <2>1, Sizes
  <2> HIDE DEF k, a, c
  <2>3. \A i \in size..FileLen - 1 : flash'[OtaAddr + i].of = None /\ ViewCell(i)'.of = None
    BY <1>0, <1>10, <2>1, <2>2 DEF FileInv
  <2>4. flash'[OtaAddr].of \in {None, file} /\ ViewCell(0)'.of \in {None, file}
    BY <1>0, <1>10, <2>1, <2>2 DEF FileInv
  <2>5. phase = "sign" =>
          /\ size \in {0, FileLen}
          /\ \A i \in 0..size - 1 : ViewCell(i)'.of = file /\ ViewCell(i)'.n = i
    <3>1. file # None
      BY <2>1, OtaAssumption
    <3> QED BY <1>0, <1>10, <2>1, <2>2, <3>1 DEF FileInv
  <2> QED BY <1>2, <2>1, <2>3, <2>4, <2>5 DEF FileInv, OtaAddr
<1>12. SignInv'
  <2>1. CASE flash'[OtaAddr].of \notin Files
    BY <1>2, <2>1 DEF SignInv, HonestSign, OtaAddr
  <2>2. CASE flash'[OtaAddr].of \in Files
    <3>1. flash'[OtaAddr].of # None
      BY <2>2, OtaAssumption
    <3>2. blind' \/ WholeAt(OtaAddr)'
      BY <1>2, <2>2 DEF Part, WholeAt, OtaAddr
    <3> QED BY <3>1, <3>2 DEF SignInv, HonestSign, OtaAddr
  <2> QED BY <2>1, <2>2
<1> QED BY <1>6, <1>7, <1>8, <1>9, <1>11, <1>12 DEF BootInv

LEMMA BootInvInit == Init => BootInv
<1> SUFFICES ASSUME Init PROVE BootInv
  OBVIOUS
<1>1. /\ flash = Factory /\ layout \in Layouts /\ phase = "none" /\ step = 0 /\ file = None
      /\ size = 0 /\ cmd = None /\ cstep = 0 /\ mutex_init = FALSE /\ created = 0
      /\ at = [t \in {ota, console} |-> "out"] /\ holds = [t \in {ota, console} |-> 0]
      /\ spoilt = FALSE /\ blind = FALSE
  BY DEF Init
<1>2. ASSUME NEW a \in 0..Top
      PROVE  /\ flash[a] \in CellType
             /\ a >= OtaAddr /\ flash[a].of # None => flash[a].n # 0
  <2>1. \A f \in Values, n \in 0..Top :
          /\ Cell(f, n) \in CellType /\ Signed(Cell(f, n), "run") \in CellType
          /\ Cell(f, n).n = n
    BY DEF Cell, Signed, CellType
  <2>2. "settings" \in Values /\ Firmware \in Values
    BY DEF Values
  <2>3. CASE a \in OFFSET_DATA + 1 .. OFFSET_DATA + Sector - 1
    <3>1. flash[a] = Cell("settings", a - OFFSET_DATA)
      BY <1>1, <2>3 DEF Factory
    <3>2. a - OFFSET_DATA \in 0..Top /\ ~(a >= OtaAddr)
      BY <2>3, Sizes
    <3> QED BY <2>1, <2>2, <3>1, <3>2
  <2>4. CASE a = IMAGE_2
    <3>1. flash[a] = Signed(Cell(Firmware, 0), "run")
      <4>1. a \notin OFFSET_DATA + 1 .. OFFSET_DATA + Sector - 1
        BY <2>4, Sizes
      <4> QED BY <1>1, <2>4, <4>1 DEF Factory
    <3>2. ~(a >= OtaAddr) /\ 0 \in 0..Top
      BY <2>4, Sizes
    <3> QED BY <2>1, <2>2, <3>1, <3>2
  <2>5. CASE /\ a \in IMAGE_2 .. FirmwareEnd /\ a # IMAGE_2
             /\ a \notin OFFSET_DATA + 1 .. OFFSET_DATA + Sector - 1
    <3>1. flash[a] = Cell(Firmware, a - IMAGE_2)
      BY <1>1, <2>5 DEF Factory
    <3>2. a - IMAGE_2 \in 0..Top /\ a - IMAGE_2 # 0
      BY <2>5, Sizes
    <3> QED BY <2>1, <2>2, <3>1, <3>2
  <2>6. CASE /\ a \notin IMAGE_2 .. FirmwareEnd /\ a # IMAGE_2
             /\ a \notin OFFSET_DATA + 1 .. OFFSET_DATA + Sector - 1
    <3>1. flash[a] = Erased
      BY <1>1, <2>6 DEF Factory
    <3> QED BY <3>1, CellsAre
  <2> QED BY <2>3, <2>4, <2>5, <2>6
<1>3. flash \in [0..Top -> CellType]
  <2>1. flash = [a \in 0..Top |-> flash[a]]
    BY <1>1 DEF Factory
  <2> QED BY <1>2, <2>1
<1>4. TypeOK
  <2>1. 0 \in 0..Top /\ 0 \in 0..2 * Sector + 2 /\ 0 \in 0..Sector + 2 /\ 0 \in Nat
    BY Sizes
  <2> QED BY <1>1, <1>3, <2>1 DEF TypeOK, CellType
<1>5. ~Mid
  BY <1>1, Sizes DEF Mid
<1>6. PlaceInv /\ BlankInv /\ FileInv
  BY <1>1, <1>5 DEF PlaceInv, BlankInv, FileInv, Receiving
<1>7. PlacedInv
  <2>1. \A a \in OtaAddr..Top : a \in 0..Top /\ a >= OtaAddr
    BY Sizes
  <2> QED BY <1>2, <1>5, <2>1 DEF PlacedInv, Placed
<1>8. SignInv
  <2>1. flash[OtaAddr].of \in Files => flash[OtaAddr].n # 0
    BY <1>2, Sizes, OtaAssumption
  <2> QED BY <1>1, <2>1 DEF SignInv, HonestSign
<1> QED BY <1>4, <1>6, <1>7, <1>8 DEF BootInv

LEMMA BootInvInductive == Spec => []BootInv
<1>1. BootInv /\ LockInv /\ [Next]_vars => BootInv'
  <2> SUFFICES ASSUME BootInv, LockInv, [Next]_vars PROVE BootInv'
    OBVIOUS
  <2>1. CASE Start \/ Prepare \/ Reread \/ Read \/ update_ota_checksum
    BY <2>1, OtaQuiet
  <2>2. CASE LockFlash \/ Command \/ CommandLocks \/ Look
    BY <2>2, OtherQuiet
  <2>3. CASE WriteAddress
    BY <2>3, AddressKeeps
  <2>4. CASE EraseRegion
    BY <2>4, EraseKeeps
  <2>5. CASE WriteCell
    BY <2>5, WriteKeeps
  <2>6. CASE Sign
    BY <2>6, SignKeeps
  <2>7. CASE ReadErase
    BY <2>7, ReadEraseKeeps
  <2>8. CASE WriteBack
    BY <2>8, WriteBackKeeps
  <2>9. CASE Reset \/ PowerLoss
    BY <2>9, ResetQuiet DEF Reset, PowerLoss
  <2>10. CASE UNCHANGED vars
    <3>1. /\ UNCHANGED <<layout, flash, phase, step, file, size, cmd, cstep, buf, spoilt, blind>>
          /\ UNCHANGED <<mutex_init, created, at, holds>>
      BY <2>10 DEF vars, flashVars, otaVars, cmdVars, locks
    <3>2. TypeOK' /\ PlaceInv'
      BY <3>1 DEF BootInv, TypeOK, PlaceInv, Mid, CellType, Receiving, FileLen, Locked, Top,
                  OtaAddr, Values
    <3>3. BlankInv' /\ PlacedInv'
      BY <3>1 DEF BootInv, BlankInv, PlacedInv, Placed, ErasedIn, Mid, Top, OtaAddr, BACKUP_SECTOR,
                  OFFSET_DATA
    <3>4. FileInv' /\ SignInv'
      BY <3>1 DEF BootInv, FileInv, SignInv, HonestSign, WholeAt, ViewCell, Mid, Receiving, FileLen, OtaAddr
    <3> QED BY <3>2, <3>3, <3>4 DEF BootInv
  <2> QED BY <2>1, <2>2, <2>3, <2>4, <2>5, <2>6, <2>7, <2>8, <2>9, <2>10 DEF Next
<1> QED BY <1>1, BootInvInit, LockInvInductive, PTL DEF Spec

\* Types, and with them that every step programs cells that were erased before,
\* whatever the order of the update, the command and the failures.
THEOREM OtaTypeCorrect == Spec => []TypeOK
<1>1. BootInv => TypeOK
  BY DEF BootInv
<1> QED BY <1>1, BootInvInductive, PTL

\* The image the system data do not name begins behind the firmware.
LEMMA SecondIs ==
  ASSUME layout \in Layouts
  PROVE  /\ Second \in Nat /\ FirmwareEnd \in Nat
         /\ Second > FirmwareEnd /\ Second >= 3 * Sector
<1>1. FirmwareEnd \in Nat /\ FirmwareEnd > IMAGE_2
  <2>1. /\ Len(layout) \in {1, 2} /\ layout[1] \in Nat \ {0}
        /\ Len(layout) = 2 => layout[2] \in Nat \ {0}
    BY OtaAssumption
  <2>2. CASE Len(layout) = 1
    BY <2>1, <2>2, Sizes DEF FirmwareEnd
  <2>3. CASE Len(layout) = 2
    BY <2>1, <2>3, Sizes DEF FirmwareEnd, FirstLen
  <2> QED BY <2>1, <2>2, <2>3
<1> DEFINE n == FirmwareEnd + 1 - IMAGE_2
           x == n + Sector - 1
           q == x \div Sector
           r == x % Sector
<1>2. n \in Nat /\ n > 1 /\ x \in Nat /\ Sectors(n) = q
  BY <1>1, Sizes DEF Sectors
<1>3. q \in Nat /\ r \in 0..Sector - 1 /\ x = Sector * q + r
  <2>1. Sector \in Nat \ {0} /\ x \in Nat
    BY <1>2, Sizes
  <2> HIDE DEF x
  <2> QED BY <2>1, Division
<1>4. q > 0
  <2>1. x >= Sector
    <3> HIDE DEF n
    <3> QED BY <1>2, Sizes
  <2>2. q = 0 => Sector * q = 0
    BY Sizes
  <2> HIDE DEF q, r, x
  <2> QED BY <1>3, <2>1, <2>2, Sizes
<1>5. Sector * q \in Nat /\ Sector * q >= n /\ Sector * q >= Sector
  <2>1. Sector * q \in Nat /\ Sector * q >= Sector
    <3> HIDE DEF q
    <3> QED BY <1>3, <1>4, Sizes
  <2>2. n + Sector - 1 = Sector * q + r
    BY <1>3
  <2> DEFINE y == Sector * q
  <2> HIDE DEF n, r, y
  <2> QED BY <1>2, <1>3, <2>1, <2>2, Sizes DEF y
<1>6. Second = IMAGE_2 + Sector * q
  BY <1>2 DEF Second
<1> DEFINE y == Sector * q
<1>7. y \in Nat /\ y >= FirmwareEnd + 1 - IMAGE_2 /\ y >= Sector /\ Second = IMAGE_2 + y
  BY <1>5, <1>6
<1> HIDE DEF y
<1> QED BY <1>1, <1>7, Sizes

\* Only a file can be accepted behind the firmware, and only at the address of the
\* update; then it is all there, or the command has signed it.
LEMMA AcceptedIsWhole ==
  ASSUME BootInv, FirmInv, NEW a \in {OtaAddr, Second}, Accepted(a)
  PROVE  blind \/ WholeAt(a)
<1>0. /\ flash \in [0..Top -> CellType] /\ PlacedInv /\ SignInv /\ layout \in Layouts
  BY DEF BootInv, TypeOK, CellType
<1>1. /\ a \in Nat /\ a + 1 \in 0..Top /\ flash[a].of # None /\ flash[a].n = 0
      /\ flash[a].sig \in {"run", "swp"}
  BY <1>0, SecondIs, Sizes DEF Accepted
<1>2. CASE a = OtaAddr
  <2>1. flash[a].of \in Files
    BY <1>0, <1>1, <1>2, Sizes DEF PlacedInv, Placed
  <2> QED BY <1>0, <1>1, <1>2, <2>1 DEF SignInv, HonestSign
<1>3. CASE a > OtaAddr
  <2>1. a \in OtaAddr..Top /\ a # OtaAddr
    BY <1>1, <1>3, Sizes
  <2> QED BY <1>0, <1>1, <2>1 DEF PlacedInv, Placed
<1>4. CASE a < OtaAddr
  <2>1. a = Second /\ a \in 2 * Sector .. OtaAddr - 1 /\ a > FirmwareEnd /\ a \in 0..Top
        /\ a >= 3 * Sector /\ FirmwareEnd \in Nat
    BY <1>0, <1>1, <1>4, SecondIs, Sizes
  <2>2. flash[a] = Factory[a]
    BY <2>1 DEF FirmInv
  <2>3. /\ a \notin OFFSET_DATA + 1 .. OFFSET_DATA + Sector - 1 /\ a # IMAGE_2
        /\ a \notin IMAGE_2 .. FirmwareEnd
    BY <2>1, Sizes
  <2>4. flash[a] = Erased
    BY <2>1, <2>2, <2>3 DEF Factory
  <2> QED BY <1>1, <2>4, CellsAre
<1> QED BY <1>1, <1>2, <1>3, <1>4, Sizes

\* Whenever power is lost, and whatever was received, failed or commanded before: the
\* boot loader loads the firmware, a whole image, one the command signed, or none.
THEOREM ImagesBootWhole == Spec => []BootsWhole
<1>1. BootInv /\ FirmInv => BootsWhole
  <2> SUFFICES ASSUME BootInv, FirmInv, NEW forced \in BOOLEAN,
                      Chosen(forced) \notin {None, IMAGE_2}, ~blind
               PROVE  WholeAt(Chosen(forced))
    BY DEF BootsWhole
  <2>1. Chosen(forced) \in {OtaAddr, Second} /\ Accepted(Chosen(forced))
    BY DEF Chosen
  <2> QED BY <2>1, AcceptedIsWhole
<1> QED BY <1>1, BootInvInductive, FirmInvInductive, PTL
=============================================================================
