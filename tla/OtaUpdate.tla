----------------------------- MODULE OtaUpdate -----------------------------
(***************************************************************************)
(* The over-the-air update of the RTL8195A (ota_8195a.c), the command that *)
(* changes the signature of the updated image, and the choice the boot     *)
(* loader makes between images (rtl_boot.c), with a loss of power between  *)
(* any two operations on the flash.  Both tasks take the device lock of    *)
(* the flash (device_lock.c).                                              *)
(*                                                                         *)
(* The flash is an array of cells of 16 bytes, the length of the header of *)
(* an image; a cell of the system data stands for its words.               *)
(***************************************************************************)
EXTENDS Integers, Sequences, FiniteSets

CONSTANTS
  Sector,      \* cells of a sector
  Files,       \* images a server may send
  Cells,       \* [image -> cells of it]: with its checksum it fits the flash modelled
  Layouts,     \* the images of the firmware: <<length>> or <<length, length>>
  MaxUpdates, MaxCommands, MaxFailures, \* bounds of a run
  ota, console, None

ASSUME OtaAssumption ==
  /\ Sector \in Nat /\ Sector > 1
  /\ \A f \in Files : Cells[f] \in Nat /\ Cells[f] > 1 /\ Cells[f] < 4 * Sector
  /\ {MaxUpdates, MaxCommands, MaxFailures} \subseteq Nat
  /\ Layouts \subseteq [1..1 -> Nat \ {0}] \union [1..2 -> Nat \ {0}]
  /\ \A l \in Layouts : l[1] + (IF Len(l) = 1 THEN 0 ELSE 1 + l[2]) < 6 * Sector
  /\ None \notin {"settings", "address", "firmware"} \union Files
  /\ ota # console

BACKUP_SECTOR == 0
OFFSET_DATA == Sector
IMAGE_2 == 2 * Sector
OtaAddr == 4 * Sector
Sectors(n) == (n + Sector - 1) \div Sector

VARIABLES
  layout, flash,
  phase, step,    \* the update task and its progress in the phase
  file, size,     \* what is received, and how many cells of it
  cmd, cstep, buf, \* the command, its progress, the sector it read
  mutex_init, created, at, holds,
  updates, commands, failures,
  spoilt,         \* history: system data were rewritten after a loss of power
  blind           \* history: cmd_ota_image left a signature where no whole image was

flashVars == <<layout, flash>>
otaVars == <<phase, step, file, size>>
cmdVars == <<cmd, cstep, buf>>
locks == <<mutex_init, created, at, holds>>
bounds == <<updates, commands, failures>>
vars == <<flashVars, otaVars, cmdVars, locks, bounds, spoilt, blind>>

Lock == INSTANCE DeviceLock WITH Tasks <- {ota, console}

(***************************************************************************)
(* The flash.                                                              *)
(***************************************************************************)
Erased == [of |-> None, n |-> 0, sig |-> "none"]
Cell(f, i) == [of |-> f, n |-> i, sig |-> "none"]
Signed(c, sig) == [c EXCEPT !.sig = sig]

Firmware == "firmware"
FirstLen == layout[1] + 1
FirmwareEnd == IF Len(layout) = 1 THEN IMAGE_2 + layout[1]
               ELSE IMAGE_2 + FirstLen + layout[2]
Top == OtaAddr + Sector * 4 - 1

Factory ==
  [a \in 0..Top |->
     IF a \in OFFSET_DATA + 1 .. OFFSET_DATA + Sector - 1 THEN Cell("settings", a - OFFSET_DATA)
     ELSE IF a = IMAGE_2 THEN Signed(Cell(Firmware, 0), "run")
     ELSE IF a \in IMAGE_2 .. FirmwareEnd THEN Cell(Firmware, a - IMAGE_2)
     ELSE Erased]

\* flash_write_word, flash_stream_write: only an erased cell takes a value; the
\* signature has words of its own.
Torn == Cell("torn", 0)
Program(a, c) ==
  flash' = [flash EXCEPT ![a] =
    IF c.of = None THEN (IF c.sig = "none" THEN @ ELSE Signed(@, c.sig))
    ELSE IF @.of = None THEN (IF @.sig = "none" THEN c ELSE Signed(c, @.sig))
    ELSE Torn]
EraseSector(a) ==
  flash' = [b \in DOMAIN flash |-> IF b \in a .. a + Sector - 1 THEN Erased ELSE flash[b]]

Init ==
  /\ layout \in Layouts /\ flash = Factory
  /\ phase = "none" /\ step = 0 /\ file = None /\ size = 0
  /\ cmd = None /\ cstep = 0 /\ buf = <<>>
  /\ mutex_init = FALSE /\ created = 0
  /\ at = [t \in {ota, console} |-> "out"] /\ holds = [t \in {ota, console} |-> 0]
  /\ updates = 0 /\ commands = 0 /\ failures = 0
  /\ spoilt = FALSE /\ blind = FALSE

(***************************************************************************)
(* The boot loader.                                                        *)
(***************************************************************************)
\* load_img2_head: a segment that can be, either signature, "RTKW" behind them.
Accepted(a) ==
  /\ a + 1 \in DOMAIN flash
  /\ flash[a].of \notin {None, "torn"} /\ flash[a].n = 0 /\ flash[a].sig \in {"run", "swp"}
  /\ flash[a + 1].of = flash[a].of /\ flash[a + 1].n = 1

\* The images follow each other on sectors; the system data name the last resort.
Second == IMAGE_2 + Sector * Sectors(FirmwareEnd + 1 - IMAGE_2)
Chosen(forced) ==
  IF Accepted(IMAGE_2) /\ ~forced THEN IMAGE_2
  ELSE IF Accepted(IMAGE_2) /\ Accepted(Second) THEN Second
  ELSE IF flash[OFFSET_DATA] # Erased /\ Accepted(OtaAddr) THEN OtaAddr ELSE None

(***************************************************************************)
(* The update task.  A phase of Locked is run with the lock of the flash.  *)
(***************************************************************************)
Locked == {"prepare", "address", "reread", "erase", "write", "sign"}
Go(p) == phase' = p /\ step' = 0
InPhase(p) == phase = p /\ (p \in Locked => at[ota] = "in")
NoLock == UNCHANGED locks
NoOtaData == UNCHANGED <<file, size>>
Rest == UNCHANGED <<layout, cmdVars, bounds, spoilt, blind>>

Start ==
  /\ phase = "none" /\ updates < MaxUpdates
  /\ Go("prepare") /\ updates' = updates + 1
  /\ UNCHANGED <<flashVars, file, size, cmdVars, locks, commands, failures, spoilt, blind>>

LockFlash ==
  /\ phase \in Locked /\ Lock!Locking(ota)
  /\ UNCHANGED <<flashVars, otaVars, cmdVars, bounds, spoilt, blind>>

\* The last of the firmware's images, and its length without the header.
LastImage == IF Len(layout) = 2 THEN IMAGE_2 + FirstLen ELSE IMAGE_2
LastLen == layout[Len(layout)]
\* Mutant: only the start of the image is looked at.
LegalStart(a) == a >= LastImage
Legal(a) == ~(a > LastImage /\ a < LastImage + LastLen) /\ a >= LastImage

Prepare ==
  /\ InPhase("prepare")
  /\ Go(IF Legal(OtaAddr) THEN "address" ELSE "none")
  /\ Lock!Unlock(ota) /\ NoOtaData /\ UNCHANGED flash /\ Rest

\* write_ota_addr_to_system_data: the steps of the copy and back.
Address == Cell("address", 0)
Saved(i) == IF i = 0 THEN Address ELSE flash[OFFSET_DATA + i]
\* Mutant: the system data are erased before they are saved.
RewriteErased(s) ==
  \/ s = 0 /\ EraseSector(OFFSET_DATA)
  \/ s \in 1..Sector /\ Program(BACKUP_SECTOR + s - 1, Saved(s - 1))
  \/ s = Sector + 1 /\ EraseSector(OFFSET_DATA)
  \/ s \in Sector + 2 .. 2 * Sector + 1
       /\ LET i == s - Sector - 2 IN Program(OFFSET_DATA + i, flash[BACKUP_SECTOR + i])
  \/ s = 2 * Sector + 2 /\ EraseSector(BACKUP_SECTOR)
Rewrite(s) ==
  \/ s \in {0, 2 * Sector + 2} /\ EraseSector(BACKUP_SECTOR)
  \/ s \in 1..Sector /\ Program(BACKUP_SECTOR + s - 1, Saved(s - 1))
  \/ s = Sector + 1 /\ EraseSector(OFFSET_DATA)
  \/ s \in Sector + 2 .. 2 * Sector + 1
       /\ LET i == s - Sector - 2 IN Program(OFFSET_DATA + i, flash[BACKUP_SECTOR + i])

SettingsIn(a) == \A i \in 1..Sector - 1 : flash[a + i] = Cell("settings", i)

WriteAddress ==
  /\ InPhase("address")
  /\ LET blank == step = 0 /\ flash[OFFSET_DATA] = Erased
         done == blank \/ step = 2 * Sector + 2
     IN /\ IF blank THEN Program(OFFSET_DATA, Address) ELSE Rewrite(step)
        /\ IF done THEN Go("reread") /\ Lock!Unlock(ota)
           ELSE phase' = phase /\ step' = step + 1 /\ NoLock
        /\ spoilt' = (spoilt \/ (step = 0 /\ ~SettingsIn(OFFSET_DATA)))
  /\ NoOtaData /\ UNCHANGED <<layout, cmdVars, bounds, blind>>

\* The address is read back, and the header of the transfer received.
Reread ==
  /\ InPhase("reread")
  /\ \/ flash[OFFSET_DATA] = Address /\ file' \in Files /\ Go("erase")
     \/ Go("none") /\ UNCHANGED file
  /\ size' = 0
  /\ Lock!Unlock(ota) /\ UNCHANGED flash /\ Rest

\* The checksum is sent behind the image.
FileLen == Cells[file] + 1
\* Mutant: a part of a sector is not counted.
EraseCountDown == FileLen \div Sector
EraseCount == Sectors(FileLen)

EraseRegion ==
  /\ InPhase("erase")
  /\ EraseSector(OtaAddr + step * Sector)
  /\ IF step + 1 >= EraseCount THEN Go("read") /\ Lock!Unlock(ota)
     ELSE phase' = phase /\ step' = step + 1 /\ NoLock
  /\ blind' = FALSE
  /\ NoOtaData /\ UNCHANGED <<layout, cmdVars, bounds, spoilt>>

\* A cell arrives, or the connection ends, or fails.
Read ==
  /\ InPhase("read")
  /\ \/ size < FileLen /\ Go("write")
     \/ Go("check")
     \/ size < FileLen /\ Go("none")
  /\ NoLock /\ NoOtaData /\ UNCHANGED flash /\ Rest

WriteCell ==
  /\ InPhase("write")
  /\ Program(OtaAddr + size, Cell(file, size))
  /\ size' = size + 1
  /\ Go(IF size' = FileLen THEN "check" ELSE "read")
  /\ Lock!Unlock(ota) /\ UNCHANGED file /\ Rest

\* Mutant: the sum is not compared.
NotVerified == TRUE

\* What is read back adds up to the checksum, the last cell that came: so for
\* all of the file, and for nothing at all, which adds up to nothing.
Verified ==
  size \in {0, FileLen} /\ \A i \in 0..size - 1 : flash[OtaAddr + i] = Cell(file, i)

update_ota_checksum ==
  /\ InPhase("check")
  /\ Go(IF Verified THEN "sign" ELSE "none")
  /\ NoLock /\ NoOtaData /\ UNCHANGED flash /\ Rest

\* The two words of the signature, then the reset.
Sign ==
  /\ InPhase("sign")
  /\ flash' = [flash EXCEPT ![OtaAddr] = Signed(@, IF step = 0 THEN "half" ELSE "run")]
  /\ IF step = 1 THEN Go("reset") /\ Lock!Unlock(ota)
     ELSE phase' = phase /\ step' = 1 /\ NoLock
  /\ NoOtaData /\ Rest

(***************************************************************************)
(* cmd_ota_image: the signature of the updated image is set or reset.      *)
(***************************************************************************)
CommandRest == UNCHANGED <<layout, otaVars, updates, failures, spoilt>>

Command ==
  /\ cmd = None /\ commands < MaxCommands
  /\ cmd' \in {"run", "swp"} /\ cstep' = 0 /\ commands' = commands + 1
  /\ UNCHANGED <<flashVars, otaVars, buf, locks, updates, failures, spoilt, blind>>

CommandLocks ==
  /\ cmd # None /\ cstep < Sector + 2 /\ Lock!Locking(console)
  /\ UNCHANGED <<flashVars, otaVars, cmdVars, bounds, spoilt, blind>>

\* The address of the image, in a section of its own.
Look ==
  /\ cmd # None /\ at[console] = "in" /\ cstep = 0
  /\ cstep' = IF flash[OFFSET_DATA] = Erased THEN Sector + 2 ELSE 1
  /\ Lock!Unlock(console) /\ UNCHANGED <<flash, cmd, buf, commands, blind>> /\ CommandRest

\* The sector is read and changed, erased, and written back.
ReadErase ==
  /\ cmd # None /\ at[console] = "in" /\ cstep = 1
  /\ buf' = [i \in 1..Sector |->
               IF i = 1 THEN Signed(flash[OtaAddr], cmd) ELSE flash[OtaAddr + i - 1]]
  /\ EraseSector(OtaAddr) /\ cstep' = 2
  /\ NoLock /\ UNCHANGED <<cmd, commands, blind>> /\ CommandRest

Part(f) == \E i \in 0..Cells[f] - 1 :
             flash'[OtaAddr + i].of # f \/ flash'[OtaAddr + i].n # i
WriteBack ==
  /\ cmd # None /\ at[console] = "in" /\ cstep \in 2..Sector + 1
  /\ Program(OtaAddr + cstep - 2, buf[cstep - 1])
  /\ cstep' = cstep + 1
  /\ blind' = LET f == flash'[OtaAddr].of IN f \notin Files \/ Part(f)
  /\ IF cstep = Sector + 1 THEN Lock!Unlock(console) ELSE NoLock
  /\ UNCHANGED <<cmd, buf, commands>> /\ CommandRest

(***************************************************************************)
(* A reset, by one of the tasks or by a loss of power.                     *)
(***************************************************************************)
Restart ==
  /\ phase' = "none" /\ step' = 0 /\ file' = None /\ size' = 0
  /\ cmd' = None /\ cstep' = 0 /\ buf' = <<>>
  /\ mutex_init' = FALSE /\ created' = 0
  /\ at' = [t \in {ota, console} |-> "out"] /\ holds' = [t \in {ota, console} |-> 0]
  /\ UNCHANGED <<flashVars, updates, commands, spoilt, blind>>

Reset == (phase = "reset" \/ (cmd # None /\ cstep = Sector + 2)) /\ Restart /\ UNCHANGED failures
PowerLoss == failures < MaxFailures /\ failures' = failures + 1 /\ Restart

Next ==
  \/ Start \/ LockFlash \/ Prepare \/ WriteAddress \/ Reread \/ EraseRegion
  \/ Read \/ WriteCell \/ update_ota_checksum \/ Sign
  \/ Command \/ CommandLocks \/ Look \/ ReadErase \/ WriteBack
  \/ Reset \/ PowerLoss

Spec == Init /\ [][Next]_vars

(***************************************************************************)
(* Properties.                                                             *)
(***************************************************************************)
Values == {None, "settings", "address", Firmware} \union Files

\* Types; in particular no cell is programmed that was not erased before (the
\* sectors update_ota_erase_upg_region counts are enough for the file).
TypeOK ==
  /\ layout \in Layouts
  /\ flash \in [0..Top -> [of : Values, n : 0..Top, sig : {"none", "half", "run", "swp"}]]
  /\ phase \in Locked \union {"none", "read", "check", "reset"}
  /\ step \in 0..2 * Sector + 2 /\ file \in Files \union {None} /\ size \in 0..Top
  /\ cmd \in {None, "run", "swp"} /\ cstep \in 0..Sector + 2
  /\ {mutex_init, spoilt, blind} \subseteq BOOLEAN
  /\ created \in Nat /\ DOMAIN at = {ota, console} /\ DOMAIN holds = {ota, console}

\* The lock of the flash is held by one of the tasks at a time, also after a
\* reset, when both may be the first to use it (device_mutex_init).
FlashLockExclusive == Lock!Exclusive

\* Whenever power is lost, the boot loader then loads the firmware, a whole
\* updated image, or none; but for an image that cmd_ota_image signed, or was
\* rewriting, when a part of it was not there (update_ota_checksum and
\* load_img2_head: what the first lets through empty the second refuses).
WholeAt(a) ==
  \A i \in 0..Cells[flash[a].of] - 1 :
    flash[a + i].of = flash[a].of /\ flash[a + i].n = i
BootsWhole ==
  \A forced \in BOOLEAN :
    LET a == Chosen(forced) IN a \in {None, IMAGE_2} \/ blind \/ WholeAt(a)

\* The firmware keeps the boot loader's first choice, and the update takes
\* nothing from it but a last cell at the very address of the update (the check
\* of update_ota_prepare_addr leaves out the header's length), or a third image
\* that begins there (the check asks for an address behind its begin).
FirmwareKept ==
  /\ Chosen(FALSE) = IMAGE_2
  /\ \A a \in IMAGE_2 .. FirmwareEnd :
       flash[a] = Factory[a] \/ (a >= OtaAddr /\ (a = FirmwareEnd \/ LastImage = OtaAddr))

\* A loss of power at any point leaves the system data in their sector or in
\* the backup of it, until an update rewrites them without restoring them
\* (write_ota_addr_to_system_data).
SettingsKept == ~spoilt => SettingsIn(OFFSET_DATA) \/ SettingsIn(BACKUP_SECTOR)
=============================================================================
