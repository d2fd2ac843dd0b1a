# Ameba1 SDK: TLA+ models and proofs

The repository is an SDK for the Realtek RTL8195A/8710A/8711A: FreeRTOS, lwIP,
a closed WLAN driver, and around them the code this project is about, which
stores settings in flash, joins networks, hands out addresses and manages
memory. Paths below are relative to `src/Ameba1_SDK/`.

## Inventory

| Component | State it keeps | Operations | Talks to | Hard part |
|---|---|---|---|---|
| **Flash configuration store** `common/mbed/targets/hal/rtl8195a/flash_eep.c` | flash banks, each a generation word and a log of records | `flash_write_cfg`, `flash_read_cfg`, pack | device lock, SPI flash | power failure between flash operations; flash words only lose bits; ends of banks |
| **Wi-Fi join** `common/api/wifi/wifi_conf.c` | `rtw_join_status`, `error_flag`, `join_user_data`, the semaphores | `wifi_connect`, `wifi_disconnect`, four event handlers | driver events, `LwIP_DHCP`, worker | events of an old association or a finished call; two callers |
| **Event dispatch** `common/api/wifi/wifi_ind.c` | table of handlers, worker queue | register, unregister, indicate | driver, worker thread | queue full, order against the tasks |
| **DHCP server** `common/network/dhcp/dhcps.c` | one state machine, one pending address, bitmap and client table | one UDP callback | lwIP, clients | interleaved exchanges, lost and late packets, edges of the bitmap |
| **TCM heap** `os/os_dep/tcm_heap.c` | list of free chunks | malloc, free | tasks (stacks, buffers) | long sequences of calls, exact fits, merging |
| **Device locks** `os/os_dep/device_lock.c` | mutexes, flags | lock, unlock | flash users, peripherals | creation on first use |
| **Mailboxes** `soc/realtek/8195a/misc/os/mailbox.c` | list of mailboxes, their queues | create, delete, send, receive | tasks, ISRs, a semaphore of the receiver | lookup, then insert; use after delete; wake-ups |
| **Power management** `soc/realtek/8195a/misc/os/freertos_pmu_8195a.c` | wakelock, wake-up events, callbacks, `missing_tick` | acquire, release, add, delete, register, unregister, sleep | idle task of FreeRTOS, drivers, `us_ticker.c` | unlocked read-modify-write, tick arithmetic across wraps |
| **OTA update** `soc/realtek/8195a/misc/platform/ota_8195a.c` | system data, second image, signature | update, signature command | device lock, flash, boot loader `rtl_boot.c` | power failure anywhere |
| Web server TCP `common/network/webserver/src/tcpsrv.c` | connections | lwIP callbacks | lwIP | lifecycle of a connection |
| MQTT client `common/application/mqtt/` | session, packet ids | connect, publish, yield | lwIP | third-party (Eclipse Paho) |

The last two, and FreeRTOS, lwIP, the WLAN driver and the register drivers, are
not modelled; the rest, in bold, is.

What makes each modelled component correct:

- store: what was written is read back while there is room; a failure loses at
  most the object being written; there is always one bank in force, and it is
  never erased; a full bank is packed and nothing is lost by it, which the code
  does not achieve;
- join: a caller is woken by its own join only, the error it reads is one that
  happened, "success" means a usable link, and every call returns;
- DHCP server: no two clients hold one address, a lease is marked in the
  table, and a client that goes on asking is served;
- heap: free chunks and blocks tile the memory, and NULL means there is no gap;
- mailboxes: the list holds what was created and nothing freed, messages come
  out once and in order, and a waiting message has somebody awake for it;
- power management: no sleep while a lock is held, no sleep without an end, no
  time lost, each registered driver told of each sleep;
- OTA: whatever the moment of a power failure, the boot loader starts a whole
  image or none, the firmware stays, and the system data are somewhere;
- device locks: one holder, also among those that come first.

`PROJECT.json` lists the hazards line by line with the properties that face them.

## Plan

1. `FlashEep` with its abstract map `KvStore`, and its proofs. *Done.*
2. `WifiJoin` (join, dispatch, worker). *Done for `wifi_connect`.*
3. `DhcpServer`. *Done.*
4. `TcmHeap` with its abstract allocator `TcmAlloc`. *Done.*
5. `Mailbox`: lazy initialisation, ids, deletion, wake-ups. *Done.*
6. `Pmu`: wakelock under preemption, callback table, tick arithmetic. *Done.*
7. `DeviceLock` and `OtaUpdate`: two users of one lock, power failures, the boot
   loader's choice. *Done.*
8. `wifi_connect_bssid` and the autoreconnect thread composed with `WifiJoin`.
9. Proofs. *Done* for every invariant and action property that a passing run
   checks, and for the two implementations: `TcmHeap` of `TcmAlloc`, `FlashEep`
   of `KvStore`, each without a hypothesis. Liveness stays with TLC. What is
   left: item 8, with its proofs, and the hazards without a property.

## Modules

`FlashEep`, `WifiJoin`, `DhcpServer`, `TcmHeap`, `Mailbox`, `Pmu` and
`OtaUpdate` are the components, each with an `MC...` module that names the
constants of its instances. `KvStore` and `TcmAlloc` are the abstract
specifications that `FlashEep` and `TcmHeap` implement (`StoreRefined`,
`Allocates`). `DeviceLock` is one lock of the device locks, which `OtaUpdate`
instantiates for the two tasks that use the flash. Each component has its
theorems in a module of its own, `FlashEepProofs`, `WifiJoinProofs`,
`DhcpServerProofs`, `TcmHeapProofs`, `MailboxProofs`, `PmuProofs` and
`OtaUpdateProofs`; `NatLemmas` holds the facts on numbers that several of them
cite: extrema, division and remainder, multiples, and that a function defined
from its values further up exists.

A definition named after a plausible bug and commented as one ("Mutant", "A
plausible bug") is not part of any specification: put in place of the definition
after it, it makes a property fail, which shows that the property is about the
code.

**FlashEep.** A flash word is the set of its bits that are 1, so programming
is intersection and erasing is the full set. `counter` is word 0 of each bank,
`mem` the rest. `call` and `at` are the parameters and the local variables of
the `flash_write_cfg` in flight; calls are serialised by
`device_mutex_lock(RT_DEV_LOCK_FLASH)`. Actions: `Write` (up to the first
program operation), `PackErase`, `PackCopy` (one pass of the copy loop),
`PackCount`, `PackNoMemory` (malloc returned NULL), `ProgramHeader`,
`ProgramData`, `Read`, `PowerLoss`. The walks over the log are recursive
functions with the limits of each loop of the code. `Copied` is the inner loop
of the pack: `wraddr` is never advanced (:373-375), so that every word read,
header or data, is programmed onto the one word behind the counter. `ReadOut`
are the words it reads, as many as the record at the scan has, from the last
record of its id on; near the end of a bank they reach into whatever lies
behind it (`Behind`). Sizes count words, as `align()` makes them; the bytes
within a word are not told apart.

`KvStore` is what a caller can rely on in spite of that: with room only the
entry written moves; a write that finds no room loses the whole map, of which
at most one key is left, with a body of erased words (`Repack`), or is dropped
and reported as a success (`Lose`).

**WifiJoin.** `task[a].pc` is the place of task `a` in `wifi_connect`, one
label for each stretch between accesses to shared variables. `ap` is the
driver (closed library, external): its link, the number of the join it serves
and the events it has reported for it, the last two for the properties only.
`Indicate` is `wifi_indication`: call the handler, or push into the queue of
the worker (`queue`, None in a build without
`CONFIG_WIFI_IND_USE_THREAD`). A handler is one step: handlers do not block,
and the driver's context and the worker outrank the callers, or `WorkerFirst`
is FALSE and the task's steps interleave with the worker's. Reasons in the
event are reduced to the three the handler tells apart. Three failures are
part of the model. `Push`: `rtw_send_event_to_worker` drops an event when it has
no memory for a copy (wifi_ind.c:45-47), which may be at any time, or when the
queue is full; `ap.lost` remembers the kinds lost of the driver's join.
`Command`: `wifi_connect_local` may fail before the driver is told anything
(wifi_conf.c:158-208), its result is ignored (:640), and the old association
goes on; `Taken(a)` says that the driver knows of the call of `a`. `GiveUp`: no
memory for the key or the semaphore leads to the epilogue, which deletes a
semaphore that was never created (:606, :622); that writes to memory the model
does not have. `DhcpStart`, `Look` and `Assigned` are `LwIP_DHCP`: it reads the
address (lwip_netconf.c:348), and a few calls later sets `RTW_NO_ERROR` (:383);
the disconnection handler may stop the DHCP client in between, and
`task[a].late` remembers that it did. `Lease` is the network's answer. The
semaphore of a join is the set of the
joins whose events raised it, so that a foreign wake-up can be seen.

**DhcpServer.** An address is the last byte of an IP address. `Serve(p)` is
the whole receive handler for one packet: options, state machine, answer,
table, reset. Two places where the C code shifts by too much are modelled by
what the build does: a shift by 32 or more sets no bit (fifth branch of
`mark_ip_in_table`), one by -1 sees none (`check_client_request_ip` for a
multiple of 32). `WordBits` makes the eight words of the bitmap small enough
to reach the edges. Clients and network are external; `delay`, chosen at the
start from `Networks`, says whether the network loses, duplicates and delays
packets to the server, each kind with bounds of its own.

**TcmHeap.** `FreeList` is the linked list from head to tail, `blocks` what
the callers hold. Each call runs in a critical section and is one action:
`Allocmem`, `AllocmemFails`, `Freemem`; `Malloc` adds the size word.
Addresses and sizes are bytes. A caller frees a block once, with its size.

**Mailbox.** `root` is `MBox_Entry`: the flag, the list and its mutex; `memory`
the mailboxes on the heap; `task[t].pc` the place of a task in its call. A
change of the list works on the list as read when the mutex was taken, so that
a missing mutex would show. The callers are the tasks of
`rtl8195a_sdio_device.c`. Two things are the callers' duty and assumed.
`Alone`: the first call of the system runs by itself; without it two tasks
initialise the list (mailbox.c:97-102) and one mailbox is lost from it. Each id
has one creator: the id is looked up (:152) and inserted (:177) in two critical
sections, so that two creators would both succeed, although mailbox.c:125-127
promises unique ids. And `Stopped`: a mailbox is deleted when nobody uses it;
`SDIO_Device_DeInit` deletes it with the hand-shake that stops its tasks
compiled out (rtl8195a_sdio_device.c:659-689). `RtlMailboxPeek` and
`RtlMailboxMsgWaiting` only read. The functions take a mutex also when called
from an interrupt handler (`IsFromISR`); no caller does so.

**Pmu.** A context is a task or an interrupt handler; its number is its
priority. `Load` and `Store` are the two halves of `wakelock |= lock_id` and
its kin, `todo` the halves still to come. `Check`, `Abort` and `Sleep` are the
idle task: the macros of `FreeRTOSConfig.h` look at the wakelock with the
scheduler suspended and interrupts on, and the last test before the sleep
(`eTaskConfirmSleepModeStatus`) looks for tasks only. `Wake` is all of the
code after `sleep_ex_selective`: the reading, `Passed`, `Credited`, `Left`,
`vTaskStepTick`, the hooks. `told` is what the callers believe of the two words,
`risk` the bits changed in the middle of somebody else's update.
`us_ticker_read` is computed as in us_ticker.c: the timer counts `Eighth` in
`EighthUs` microseconds (4096 in 125000, about 31 us a count) and rolls over
after `Counts` of them; `Micros` has the code's two roundings, and the result is
cut off at `Wrap` (2^32). `elapsed` is in counts and may be 0: then two readings
are equal, and `Passed` takes that for a whole wrap, as the code does (:119).

**OtaUpdate, DeviceLock.** A cell of `flash` stands for 16 bytes, the length of
an image's header, or for a stretch of system data. `phase` and `step` are the
update task's place, one step for each flash operation; `cmd`, `cstep` and
`buf` are `cmd_ota_image`. `Chosen` is `loadUserImges` of the boot loader:
`forced` is the pin that skips the first image. A torn cell is one that was
programmed twice. `Restart` is a reset or a loss of power: what is in RAM is
gone, the locks too. `layout` is the firmware on the device when the update comes:
one image or two, short, up to the update's address, past it, or with the second
beginning there.

## Runs

| Run | Question | Instance and bounds |
|---|---|---|
| `FlashEep_store` | does the store keep the promise of `KvStore`, and the banks their order? | 3 banks of 6 words, an id with an object of one word, one with objects of none and of two words, one that is only read; failing malloc, `Erased` = 5: more than once round |
| `FlashEep_pack` | *violated*: a pack keeps the other objects | two ids, so one other object, of one word |
| `WifiJoin_single` | does each event count for its own join, with failing commands and lost events? | one task, three calls, open and WPA, with and without its own semaphore, direct or through a worker that outranks it |
| `WifiJoin_two` | can two callers block each other? | two tasks, three calls in all, WPA, direct; fairness |
| `WifiJoin_hang` | *violated*: every call returns | one task, a worker below it; fairness |
| `DhcpServer_leases` | is an address ever given twice, and do leases stay latched under any network? | two clients, pool of three with the server's address in it; three transactions each over a reliable network, two over one that loses, duplicates and delays |
| `DhcpServer_joins` | does everybody get served? | three clients, pool of three across a word boundary; fairness |
| `DhcpServer_fifth` | *violated*: a lease is latched | pool in the fifth word |
| `TcmHeap_alloc` | is the list right after any sequence? | seven granules of two bytes, requests of 0 to 4 bytes: exact fits, splits, and both merges at once |
| `Mailbox_wakeups` | is a message lost, reordered, or left lying? | two owners, one of them twice; two senders of two messages, one to the front; room for two; a wake-up for another reason; fairness |
| `Pmu_sleep` | is a sleep begun with a lock held, without an end, or mistimed? | two tasks, one handler, two locks, two events, two devices; two counts of the timer in 5 us, a tick of 3 us, a wrap of 17 us, a timer of 13 counts (32 us), sleeps of up to 3 ticks and 2 us more, and of no count at all |
| `OtaUpdate_power` | what is left after power failures? | sectors of three cells, files of two and four cells, six layouts; two updates, one command, two failures |

The bounds are the smallest that reach every branch. Three banks are the
fewest for which "oldest" and "not current" differ; a bank holds one to three
records, so that packs happen with stale and live records, with an empty object
(whose header survives its copy), and with a copy that reads past the end of
the bank; the id that is only read is the one whose header a pack leaves when the words
it copies have no bit in common; three calls of
`wifi_connect` are a join, its replacement and one after it. A pool of three
with the server inside leaves two addresses for two clients. A file of four
cells with its checksum takes two sectors of three; two failures are one in an
update and one in the update that repeats it. In `Pmu_sleep` a sleep may
start at any count, since the time awake before it is any time, so that every
position of the two wraps against a sleep occurs, and a count is neither a
whole number of microseconds nor of ticks, so that the roundings show;
`MaxMissing` bounds what is owed to the kernel (a sleep after which it would be
more is left out), where the state would grow without end.
`CHECK_DEADLOCK FALSE` is set where a bound (generations, calls, transactions)
really stops the system; the heap never stops and is checked for deadlock.
Clients are symmetric in the two safety runs of the server, and no liveness
run uses symmetry.

### What the runs found

Each of the three violated runs is one property that a comment or a header
states and the code does not keep (`findings` in `PROJECT.json`):

- `pack_cfg_fmem` never advances `wraddr`, not even within one object: header and
  data of everything it copies are ANDed into the single word `fnewseg + 4`. One
  other object in the log, with one word of data, is enough to lose it
  (`FlashEep_pack`). A pack therefore keeps no object whose data are
  anything but erased words; the promise of `KvStore` says so.
- with the worker thread below the caller, a late handshake event marks the
  system as joining for ever, and the next `wifi_connect` never returns
  (`WifiJoin_hang`). The shell task of `log_service.c` has priority 5, the
  worker 4.
- addresses 129 to 160 are leased without being marked (`DhcpServer_fifth`).

More of the same can be seen by changing a constant of a run:

- `WifiJoin_single` with `WorkerFirst = FALSE`: `DisconnectBeforeJoin` fails,
  the 50 ms at wifi_conf.c:644 may be over before the handler has run.
- `WifiJoin_two` with `ReadyMeansLinked` as an invariant: a link lost while
  another task is joining leaves `error_flag` at `RTW_NO_ERROR`.
- `DhcpServer_leases` with `Unique` asked of the second network too: a
  duplicated REQUEST that arrives late can lease one address twice.
- An allocation failure in a pack (flash_eep.c:342) comes back as a small
  positive number that the caller takes for an address: words near flash
  address 5 are programmed and the call reports success. `KvStore` has an
  action for it, `Lose`: the write is dropped, and nothing else.
- A handshake's event that is dropped, for want of memory or on a full queue,
  leaves the status at "associated, no handshake yet", and a disconnection that
  comes later is blamed on the key. `BlameIsEarned` allows
  `RTW_WRONG_PASSWORD` in this case (`ap.lost`) and in no other.
- `wifi_is_ready_to_transceive` may say yes on a dead link: when the event of the
  loss was dropped, and when its handler ran between the look at the address and
  the assignment of `RTW_NO_ERROR` in `LwIP_DHCP`. `ReadyMeansLinked` names the
  two.
- After a `wifi_connect_local` that failed, `wifi_connect` waits all the same, and
  the end or the success of the old association wakes it: it can return
  `RTW_SUCCESS` for a network it never asked the driver to join.
  `NoForeignWake` and `ReadyOnSuccess` speak of joins that the driver took on.
- `DhcpServer_leases` with a third client: an INFORM of a bound client that
  arrives while another offer is pending is answered with an offer
  (dhcps.c:409-480, :569), which puts the informer's own address on offer; a
  third client's REQUEST for the offer that was pending is then acknowledged
  with that address. `Unique` and `OfferIsFree` speak of the time until then
  (`reoffered`).
- A semaphore that the caller passes to `wifi_connect` is never flagged: the
  call clears `join_user_data` and unregisters the handlers before it returns
  (wifi_conf.c:706-710), whereas wifi_conf.h:146 promises that it is.

Of the later modules:

- `Pmu`: "If any module acquire and hold a bit in wakelock, then the whole
  system won't enter sleep state" (freertos_pmu.h:65) holds but for two cases, which
  `SoundSleep` names: an update that interrupted another one of the same word is
  undone by it, and a handler that takes a lock between the idle task's look
  and the sleep, without making a task ready, comes too late.
- `Pmu`: each wrap of the reading costs a microsecond (:123). Two equal readings
  count as a whole wrap (:119), 4295 s: a sleep that is ended within a count of
  the timer, some 31 us, hands that out to the kernel over the sleeps that
  follow, although the comment at :126-129 expects rapid interrupts. With
  `missing_tick` above 0 the sum wraps too, and one microsecond is lost, no
  more. The timer itself rolls over every 36.4 hours, and a sleep across
  that moment is misjudged by about 2071 s. `Accounted` covers the time until one
  of these two happens (`astray`), and always that no more ticks are stepped than
  expected. The table of callbacks has eight rows and no check (:315), and is
  changed without a lock; in the model it has no bound and a change is one step.
- `OtaUpdate`: the check of the address leaves the header out of the length and
  lets the begin of an image pass (:129), so that a firmware that ends in the
  sixteen bytes at the update's address loses its last bytes, and a third image
  that begins exactly there is overwritten, although :112 asks for no overlap
  with the default image. `FirmwareKept` allows these two and nothing else.
- `OtaUpdate`: after a loss of power in the rewrite of the system data they
  exist in the backup sector only; nobody puts them back, and the next update
  erases the backup first. `SettingsKept` speaks of the time until then
  (`spoilt`).
- `OtaUpdate`: an empty download passes the checksum, 0 against 0, and is
  signed (:234); the boot loader refuses it for its header. `cmd_ota_image`
  signs whatever is there, and is not atomic: `blind` remembers it. The
  boot loader always prefers the image of the firmware, so that an update runs
  only with the pin that skips it, or when it is gone.

## Fairness

`WifiJoin` assumes weak fairness of the worker and of each task inside
`wifi_connect`: FreeRTOS runs a task that is ready, tasks of one priority
share time, and the polling loop sleeps a tick. Nothing is assumed of the
driver; the wait of a join ends by its timeout. No fairness is assumed of
`Connect`: nobody has to call. `DhcpServer` assumes that the stack
hands over every packet that arrived and that a client goes on trying, in a
network without loss (`Leave` FALSE, `Networks` only the reliable one): with
loss no server can promise an address. `Mailbox` assumes weak fairness of every
task inside a call and of the woken receiver, as the scheduler gives it;
nothing of who calls. `Pmu` and `OtaUpdate` have safety properties only.

## Proofs

Each theorem holds for every value of the constants that its module's named
`...Assumption` allows; TLC evaluates these on every run. A hypothesis of a
theorem itself stands in the table, and what happens without it is said below
or under "What the runs found". Every inductive invariant was checked by TLC on
the runs' instances before it was proved. Nothing is taken for granted.

| Module | Theorem | Statement | Hypothesis |
|---|---|---|---|
| `FlashEepProofs` | `TypeCorrect` | `Spec => []TypeOK` | |
| | `GenerationsUnique` | `Spec => []Generations` | |
| | `PackIsBehind` | `Spec => []PackBehindCurrent` | |
| | `CurrentIsNotErased` | `Spec => EraseSparesCurrent` | |
| | `PacksGoRound` | `Spec => []WearLevelled` | |
| | `AppendsAreClean` | `Spec => []CleanProgram` | |
| | `StoreIsKept` | `Spec => StoreRefined` | |
| `WifiJoinProofs` | `JoinTypeCorrect` | `Spec => []TypeOK` | |
| | `ConnectingIsOwned` | `Spec => []BusyOwned` | the worker outranks the tasks, or there is none |
| | `WakesAreOwn` | `Spec => []NoForeignWake` | the same, and one task |
| | `DisconnectionComesFirst` | `Spec => []DisconnectBeforeJoin` | the same |
| | `SuccessIsReady` | `Spec => ReadyOnSuccess` | the same |
| | `ReadyIsLinked` | `Spec => []ReadyMeansLinked` | the same |
| | `BlamesAreEarned` | `Spec => []BlameIsEarned` | the same |
| `DhcpServerProofs` | `DhcpTypeCorrect` | `Spec => []TypeOK` | |
| | `LeasesLatched` | `Spec => []Latched` | no address of the pool in the fifth word |
| | `OwnAddressesSpared` | `Spec => []OwnIsSpared` | no address of the server's own in the pool's fifth word |
| | `LeasesUnique` | `Spec => []Unique` | as for `LeasesLatched` |
| | `OffersFree` | `Spec => []OfferIsFree` | the same |
| `TcmHeapProofs` | `HeapTypeCorrect` | `Spec => []TypeOK` | |
| | `HeapTiled` | `Spec => []Tiled` | |
| | `HeapCoalesced` | `Spec => []Coalesced` | |
| | `HeapAllocates` | `Spec => Allocates` | |
| `MailboxProofs` | `MailTypeCorrect` | `Spec => []TypeOK` | |
| | `MailboxesListed` | `Spec => []Listed` | |
| | `WakeupsKept` | `Spec => []NoLostWakeup` | |
| | `MessagesInOrder` | `Spec => []Ordered` | |
| `PmuProofs` | `PmuTypeCorrect` | `Spec => []TypeOK` | |
| | `UpdatesOfTheLowestAreKept` | `Spec => []OnlyPreemptingUpdatesAreLost` | |
| | `SleepIsSound` | `Spec => []SoundSleep` | |
| | `TimeIsAccounted` | `Spec => []Accounted` | |
| | `TableIsRegistered` | `Spec => []Registered` | |
| `OtaUpdateProofs` | `OtaTypeCorrect` | `Spec => []TypeOK` | |
| | `FlashLockHeldOnce` | `Spec => []FlashLockExclusive` | |
| | `SystemDataKept` | `Spec => []SettingsKept` | |
| | `FirmwareStays` | `Spec => []FirmwareKept` | |
| | `ImagesBootWhole` | `Spec => []BootsWhole` | |

**FlashEep.** For every number of banks from two, every bank and object size,
with failing allocations and power failures. The first four rest on `IInv ==
TypeOK /\ InFlight /\ Generations /\ PackBehindCurrent`. Uniqueness of the
generations alone is not inductive: `PackCount` writes the generation of the old
bank less one, which is new only because the old bank is the current one, the
one with the smallest counter. That is `PackBehindCurrent`, and it needs in turn
that the target of a pack differs from the current bank: the lemma
`PackTargetIs`, from unique generations and from `InFlight`, which says that a
flash that is being written to has a generation at all. `InFlight` also keeps
the counter above 1 during a pack; the last generation before zero is the bound
of the model.

`WearLevelled` compares pairs of banks with `NumBanks`, and is not inductive: of
the banks in use one may be erased and used again. `WearInv` counts them
instead: the generations of K banks in use lie within K. A pack takes an erased
bank if there is one (K grows by one, and so does the spread), else the oldest
(the spread loses its largest member).

`CleanProgram` needs the form of a bank's log. `Log(log, S, e)` says that there
is a set `S` of addresses, each with a word that is not free and starts a record
that ends where the next begins, up to the end `e`, behind which all is free.
`LogInv` claims it of each bank, and follows the write in flight: a header is
programmed at the end of its log. A bank that is being packed holds nothing
behind its first word (`Begun`), and that is all there is to say about it: if
that word is not free it reads as a header of some id, made of what the copied
words have in common, and the walk takes it for one record with erased words
for data (`OneRecord`). The walks of the code are loops over the words, recursive
functions in the model. The lemma `Recursion` of `NatLemmas` gives such a
function its equation, and `WalkIs`, `SaveAddrIsEnd` and `LastInIs` then say
what each walk returns in a log.

`StoreIsKept` is the implementation of `KvStore`, step by step. Until the counter
of a pack is written the bank in force is not touched (`StoredKept`); when it is,
the store shows what `BegunShows` says of a bank that is `Begun`, at most one
object, of erased words: this is `Repack`. Appends go to the bank in force
(`AppendInv`), and what has been programmed is the last record of its id as far
as it has got (`WrittenInv`); `LookupKept` says that all other ids read as before.

**WifiJoin.** `OwnedInv` is for any number of tasks: `CONNECTING`,
`join_user_data` and the handlers for the handshake each have a task that is in
the part of `wifi_connect` that will undo them. Handlers in the driver's
context, or a worker that outranks the tasks, make it inductive: when a task
takes a step the queue is empty. Without this `WifiJoin_hang` shows the
violation. For a single task `JoinInv` adds what a waiting task relies on: while
`join_user_data` is set every event in the queue is of the driver's present
join, none is older than the start of an association, and, if the driver took
the call on, the semaphore has been raised by nobody while the join is still
going on. `ReadyInv` adds that `RTW_NO_ERROR` stands only with the link up, or its
loss in the queue or lost, or the DHCP client stopped before the assignment.
`BlameInv` follows `rtw_join_status` against what the driver has reported: a
status of "associated, no handshake yet" may be stale only while the handshake's
event is next in the queue, or when it is among `ap.lost`. None of them needs
a queue of some size or an event that arrives. With two tasks they
fail (see above), except for `BusyOwned`.

**DhcpServer.** `LeaseInv` says that no address that is marked, on offer or
leased lies in the fifth word, and that each lease is marked; `OwnInv` that the
server's own addresses are marked, in nobody's name, and not on offer. Both hold
over any network. `Unique` is about a prompt one, and needs both halves of
`PromptInv`: the network holds at most one DISCOVER or REQUEST of a client and it
is the one the client waits for (`PromptNet`); the table has the holder of an
address on record for it, and the address on offer has no holder (`Recorded`). The
step lemmas reduce the handler to what matters for leases: it offers,
acknowledges what is on offer or on record, or gives nothing out.

**TcmHeap.** `HeapInv` says of the list that its chunks are whole granules, in
order, and apart, so that none touches the next, and of each granule that it is
in a free chunk or in exactly one block. A free inserts a chunk that may touch its
neighbours on both sides (`ApartBut`), and the two merges restore the order.
`HeapAllocates` is the implementation of `TcmAlloc`, step by step: the first fit
is a gap, and if no chunk fits then there is no gap, because a gap in a list that
is coalesced lies in one chunk.

**Mailbox.** For any number of owners and senders. `MutexInv` is the core: who
changes the list holds the mutex, and the list is as it was read. `ListInv` and
`OwnerInv` make the list the set of what the owners hold, each id once, and
`UserInv` says that a mailbox in use is not deleted, from the callers' duty
`Stopped`. `NoLostWakeup` is then inductive with them: a message that waits has
the receiver awake, its semaphore raised, or its sender just before raising it.
For `Ordered` what was given out and what waits make one sequence (`OrderInv`),
with each accepted message once in it. A message that is put to the front goes to
the middle of it, one that is put to the back to its end; the latter keeps its
sender's order because a sender that is about to place a message has had only
those of its earlier calls accepted (`SentInv`).

**Pmu.** For any number of contexts, locks, events and devices, and any
length of a tick, width of the reading, rate and width of the timer below it.
`UpdatesInv` says that what a
context has read is what the callers believe but for the bits in `risk`; it holds
because a context that interrupts another is done before the other goes on.
`TimerInv` follows the system timer's event, which is deleted and added again,
through interruptions of every depth: when it is missing somebody is about
to put it back, and who read the word without it was interrupting him. `SleepInv`
carries the idle task's look at the wakelock to the sleep. `ClockInv` is `Accounted`
with the bound on the time carried over: `MicrosIs` and `MicrosGrow` say that the
conversion rounds down by less than a microsecond and never falls, `PassedIs`
what the code makes of two readings. `TableInv` is the table of callbacks against
the devices registered.

**OtaUpdate.** For every size of a sector, set of files and layouts, and any
number of updates, commands and failures. The lock needs `LockInv`: who waits
for or holds a mutex refers to the last one created, and the bit is set; two
holders could otherwise hold two mutexes. The system data need `DataInv`, which
follows the rewrite step by step: while the copy is made the original is whole,
when the original is erased the copy is complete, and the part written back equals
the copy. All other steps stay at the address of the update or above
(`Elsewhere`). The firmware needs `FirmInv`: if the address is refused, neither
task ever gets to the region of the update, because the system data hold no
address. `BootsWhole` needs `BootInv`, which knows where both tasks are
(`PlaceInv`); that what is programmed was erased (`BlankInv`); that a file's cells
lie at their own places from the update's address, in the flash and in the
command's copy of the sector in RAM (`PlacedInv`); that behind the part received
there is nothing of any file (`FileInv`); and that a signature stands before a whole image
or the command put it there (`SignInv`). The image that the boot loader chooses then
begins at the update's address or is the layout's own.

## Only model-checked, and why

- `Returns`, `Served`, `Drained`: liveness under fairness, out of the prover's
  reach.
- The three properties that fail are TLC's findings.

## Not modelled

`wifi_connect_bssid` (the protocol of `wifi_connect`, with the semaphore and
the join freed before `join_user_data` is cleared), EAP, P2P, access point
mode and scanning in `wifi_conf.c`; `dhcps_deinit` and a restart of the DHCP server; the
contents of DHCP messages; memory that is written after it was freed (a
deleted semaphore, the buffer of the pack, which is allocated too small at
flash_eep.c:337): the models say where it happens, not what it
destroys. In `ota_8195a.c` the sockets and the variants that are not built
(`HTTP_OTA_UPDATE`, `SWAP_UPDATE`, `CONFIG_CUSTOM_SIGNATURE`), the read-back
of the image without the lock (:373), a piece of less than four bytes at the end
of a block, and several callers of `update_ota_local`, which tests `TaskOTA`
before it creates the task. In `freertos_pmu_8195a.c` the statistics
(`configGENERATE_RUN_TIME_STATS` is 0) and calls of the registration while a
sleep is prepared (the drivers register at start-up). `device_mutex_free`, with
its inverted test (device_lock.c:43), is never called. `tcpsrv.c` keeps one
record for each lwIP connection, and its contract is that of the callbacks of lwIP,
third-party code. FreeRTOS, lwIP, mbed TLS, the
file systems, cJSON and Paho MQTT are third-party code; the drivers of the
peripherals are register access.
