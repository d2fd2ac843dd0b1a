----------------------------- MODULE FlashEep -----------------------------
(***************************************************************************)
(* common/mbed/targets/hal/rtl8195a/flash_eep.c: small configuration       *)
(* objects kept in a few flash sectors ("banks").  Word 0 of a bank is a   *)
(* count-down generation counter, the current bank is the one with the     *)
(* smallest; the rest is a log of records, a header word (id, size) and    *)
(* `size' data words; the last record of an id is its value.  A bank that  *)
(* is full is packed into the bank erased longest ago.                     *)
(*                                                                         *)
(* A flash word is the set of its bits that are 1.  Erasing sets all of    *)
(* them, programming can only clear bits: it intersects.  Sizes count      *)
(* words, as align() makes them.  Every step is one erase or one program   *)
(* operation of the writer (the copy loop of the pack: one object), so     *)
(* that PowerLoss may fall between any two.  Calls are serialised by       *)
(* device_mutex_lock(RT_DEV_LOCK_FLASH): at most one is in flight.         *)
(***************************************************************************)
EXTENDS Naturals, Sequences, FiniteSets, FiniteSetsExt

CONSTANTS NumBanks,    (* FMEMORY_SCFG_BANKS                                *)
          BankWords,   (* FMEMORY_SCFG_BANK_SIZE, in words                  *)
          MaxObj,      (* MAX_FOBJ_SIZE, in words                           *)
          Erased,      (* 0xFFFFFFFF read as a counter                      *)
          IdBits,      (* the bits of a header that hold the id ...         *)
          SizeBits,    (* ... and the size                                  *)
          SizeOf,      (* the number a set of size bits stands for          *)
          Ids,         (* ids the application uses                          *)
          Objects,     (* [Ids -> the objects it writes under an id]        *)
          HeapCanFail, (* may the malloc of the pack return NULL?           *)
          None         (* no value, no call                                 *)

Free == IdBits \cup SizeBits            \* fobj_x_free
Word == SUBSET Free
Banks == 0 .. NumBanks - 1
Addrs == 1 .. BankWords - 1

Calls == [key : Ids, val : Seq(Word)]    \* flash_write_cfg's id and *ptr

(* The next step of a call, with its local variables                       *)
Steps ==
    [step : {"pack"}]
    \cup [step : {"copy"}, to : Banks, from : Banks, scan : 1 .. BankWords + MaxObj]
    \cup [step : {"header"}, bank : Banks, addr : Addrs]
    \cup [step : {"data"}, bank : Banks, addr : Addrs, done : Nat]

ASSUME FlashAssumption ==
    /\ NumBanks \in Nat /\ NumBanks >= 2
    /\ MaxObj \in Nat /\ BankWords \in Nat /\ BankWords > MaxObj + 3
    /\ Erased \in Nat /\ Erased > 1
    /\ IdBits \cap SizeBits = {}
    /\ SizeOf \in [SUBSET SizeBits -> Nat] /\ SizeOf[SizeBits] > MaxObj
    /\ \A n \in 0 .. MaxObj : \E s \in SUBSET SizeBits : SizeOf[s] = n
    /\ Ids \subseteq SUBSET IdBits
    /\ Objects \in [Ids -> SUBSET Seq(Word)]
    /\ HeapCanFail \in BOOLEAN
    /\ None \notin Calls /\ None \notin Steps /\ None \notin Seq(Word)

VARIABLES counter,     (* [Banks -> word 0 of each bank]                    *)
          mem,         (* [Banks -> [Addrs -> Word]]                        *)
          call,        (* the flash_write_cfg in flight, or None            *)
          at,          (* where that call is: its next step                 *)
          stray,       (* was a word outside the banks programmed?          *)
          ret          (* what the last flash_write_cfg returned            *)

vars == <<counter, mem, call, at, stray, ret>>
-----------------------------------------------------------------------------
(* Words and headers *)

IdOf(w) == w \cap IdBits
Size(w) == SizeOf[w \cap SizeBits]
Header(id, n) == id \cup (CHOOSE s \in SUBSET SizeBits : SizeOf[s] = n)
Valid(w) == Size(w) <= MaxObj
RecLen(w) == 1 + (IF Valid(w) THEN Size(w) ELSE MaxObj)

(* Mutant: the search that stops at the first record of the id             *)
FirstRecord(b, id) ==
    LET from[a \in 1 .. BankWords + MaxObj] ==
          IF a >= BankWords - 1 \/ mem[b][a] = Free THEN 0
          ELSE IF Valid(mem[b][a]) /\ IdOf(mem[b][a]) = id THEN a
          ELSE from[a + RecLen(mem[b][a])]
    IN  from[1]

(* get_addr_fobj(base, obj, FALSE): the last record of the id, 0 if none.  *)
(* With TRUE it returns the first one, and the caller only asks for 0.     *)
LastRecord(b, id) ==
    LET from[a \in 1 .. BankWords + MaxObj] ==
          IF a >= BankWords - 1 \/ mem[b][a] = Free THEN 0
          ELSE LET later == from[a + RecLen(mem[b][a])] IN
               IF later # 0 THEN later
               ELSE IF Valid(mem[b][a]) /\ IdOf(mem[b][a]) = id THEN a ELSE 0
    IN  from[1]

(* Where a walk over the log of b that gives up at `limit' stops           *)
WalkEnd(b, limit) ==
    LET from[a \in 1 .. BankWords + MaxObj] ==
          IF a >= limit \/ mem[b][a] = Free THEN a ELSE from[a + RecLen(mem[b][a])]
    IN  from[1]

(* Mutants: the loop falls through to "return faddr"; and the bank end of  *)
(* get_addr_fobj, which does not count the record, is used as the limit.   *)
SaveAddrNoPack(b, n) == WalkEnd(b, BankWords - (n + 1))
SaveAddrBankEnd(b, n) ==
    LET stop == WalkEnd(b, BankWords - 1)
    IN  IF stop \in 1 .. BankWords - 2 THEN stop ELSE 0

(* get_addr_fobj_save: where a record with n data words goes, 0 if nowhere *)
SaveAddr(b, n) ==
    LET stop == WalkEnd(b, BankWords - (n + 1))
    IN  IF stop \in 1 .. BankWords - (n + 2) THEN stop ELSE 0

(* the data of a record at a, all of it inside the bank                    *)
Body(b) ==
    [a \in Addrs |->
        [i \in 1 .. Size(mem[b][a]) |-> IF a + i \in Addrs THEN mem[b][a + i] ELSE Free]]

(* flash_read_cfg on the log of each bank                                  *)
Lookup(id) ==
    [b \in Banks |-> LET a == LastRecord(b, id) IN IF a = 0 THEN None ELSE Body(b)[a]]
-----------------------------------------------------------------------------
(* Banks *)

Lowest(c) == CHOOSE b \in Banks : \A d \in Banks :
                c[b] < c[d] \/ (c[b] = c[d] /\ b <= d)

(* get_addr_bscfg(FALSE): the first bank with the smallest counter ...     *)
Current == Lowest(counter)
(* ... which formats a flash that is erased everywhere                     *)
Formatted ==
    IF \A b \in Banks : counter[b] = Erased
    THEN [counter EXCEPT ![0] = Erased - 1] ELSE counter

(* Mutants: the bank written last but one, and the one in force            *)
PackTargetRecent ==
    LET erased == {b \in Banks : counter[b] = Erased}
    IN  IF erased # {} THEN Max(erased)
        ELSE CHOOSE b \in Banks \ {Current} : \A d \in Banks \ {Current} :
                counter[b] <= counter[d]
PackTargetCurrent == Lowest(counter)

(* get_addr_bscfg(TRUE): the last erased bank, else the largest counter    *)
PackTarget ==
    LET erased == {b \in Banks : counter[b] = Erased}
    IN  IF erased # {} THEN Max(erased)
        ELSE CHOOSE b \in Banks : \A d \in Banks :
                counter[b] > counter[d] \/ (counter[b] = counter[d] /\ b <= d)

(* flash_read_cfg: what a reader that got the mutex is given               *)
Value(id) == Lookup(id)[Current]
-----------------------------------------------------------------------------
(* flash_write_cfg *)

Program(b, a, w) == mem' = [mem EXCEPT ![b][a] = @ \cap w]

Return(result) == call' = None /\ at' = None /\ ret' = result

(* _flash_write_cfg up to its first program operation                      *)
Write(id, val) ==
    /\ call = None
    /\ Len(val) <= MaxObj
    /\ counter' = Formatted
    /\ IF Value(id) = val
       THEN ret' = TRUE /\ UNCHANGED <<call, at>>       \* identical: nothing to write
       ELSE LET b == Current  a == SaveAddr(b, Len(val)) IN
            /\ call' = [key |-> id, val |-> val]
            /\ at' = IF a = 0 THEN [step |-> "pack"]
                     ELSE [step |-> "header", bank |-> b, addr |-> a]
            /\ UNCHANGED ret
    /\ UNCHANGED <<mem, stray>>

(* Mutant: the generation is programmed before the objects are copied      *)
PackEraseCounted ==
    /\ call # None /\ at.step = "pack"
    /\ counter[Current] > 1
    /\ counter' = [counter EXCEPT ![PackTarget] = counter[Current] - 1]
    /\ mem' = [mem EXCEPT ![PackTarget] = [a \in Addrs |-> Free]]
    /\ at' = [step |-> "copy", to |-> PackTarget, from |-> Current, scan |-> 1]
    /\ UNCHANGED <<call, stray, ret>>

(* pack_cfg_fmem up to and including the erase                             *)
PackErase ==
    /\ call # None /\ at.step = "pack"
    /\ counter[Current] > 1                             \* bound: Erased generations
    /\ counter' = [counter EXCEPT ![PackTarget] = Erased]
    /\ mem' = [mem EXCEPT ![PackTarget] = [a \in Addrs |-> Free]]
    /\ at' = [step |-> "copy", to |-> PackTarget, from |-> Current, scan |-> 1]
    /\ UNCHANGED <<call, stray, ret>>

(* malloc returned NULL: pack_cfg_fmem returns -(FMEM_MEM_ERR), which is 5 *)
(* and not 0, and the caller programs header and data at flash address 5   *)
PackNoMemory ==
    /\ HeapCanFail
    /\ call # None /\ at.step = "pack"
    /\ stray' = TRUE
    /\ Return(TRUE)
    /\ UNCHANGED <<counter, mem>>

(* The loop over the old log goes on while a header is there to look at    *)
Scanning ==
    /\ at.scan < BankWords - 2
    /\ mem[at.from][at.scan] # Free

(* What the loop reads for the record at scan: as many words as that       *)
(* record has, from the last record of its id on, which may be shorter and *)
(* near the end of the bank                                                *)
ReadOut(s, scan) ==
    LET rd == LastRecord(s, IdOf(mem[s][scan]))
    IN  rd .. rd + RecLen(mem[s][scan]) - 1

(* What lies behind bank s, if the loop reads that far: the next bank, its *)
(* counter first, or whatever the flash holds behind the last one          *)
Behind(s, scan) == IF ReadOut(s, scan) \subseteq Addrs THEN {Free} ELSE Word

(* The new bank after that: wraddr never moves, neither from one word of   *)
(* an object to the next nor from one object to the next, so that every    *)
(* word read is programmed onto the first word of the log                  *)
Copied(t, s, scan, behind) ==
    [mem[t] EXCEPT ![1] =
        {bit \in @ \cap behind :
            \A a \in ReadOut(s, scan) \cap Addrs : bit \in mem[s][a]}]

(* one pass of that loop; the overflow test of the code needs wraddr to    *)
(* move, so it never fires                                                 *)
PackCopy ==
    /\ call # None /\ at.step = "copy" /\ Scanning
    /\ LET w == mem[at.from][at.scan] IN
       /\ IF /\ Valid(w) /\ IdOf(w) # call.key
             /\ LastRecord(at.to, IdOf(w)) = 0
          THEN \E behind \in Behind(at.from, at.scan) :
                  mem' = [mem EXCEPT ![at.to] = Copied(at.to, at.from, at.scan, behind)]
          ELSE UNCHANGED mem
       /\ at' = [at EXCEPT !.scan = @ + RecLen(w)]
    /\ UNCHANGED <<counter, call, stray, ret>>

(* Mutant: the counter is carried over as it is                            *)
GenerationKept(c) == c
(* the new bank counts one generation down from the old one                *)
NextGeneration(c) == c - 1

(* the loop is over: the counter makes the new bank the current one        *)
PackCount ==
    /\ call # None /\ at.step = "copy" /\ ~Scanning
    /\ counter' = [counter EXCEPT ![at.to] = NextGeneration(counter[at.from])]
    /\ LET a == SaveAddr(at.to, Len(call.val)) IN
       IF a = 0 THEN Return(FALSE)                      \* FMEM_NOT_FOUND
       ELSE /\ at' = [step |-> "header", bank |-> at.to, addr |-> a]
            /\ UNCHANGED <<call, ret>>
    /\ UNCHANGED <<mem, stray>>

Advance(done) ==
    IF done = Len(call.val) THEN Return(TRUE)
    ELSE /\ at' = [step |-> "data", bank |-> at.bank, addr |-> at.addr, done |-> done]
         /\ UNCHANGED <<call, ret>>

ProgramHeader ==
    /\ call # None /\ at.step = "header"
    /\ Program(at.bank, at.addr, Header(call.key, Len(call.val)))
    /\ Advance(0)
    /\ UNCHANGED <<counter, stray>>

ProgramData ==
    /\ call # None /\ at.step = "data"
    /\ Program(at.bank, at.addr + at.done + 1, call.val[at.done + 1])
    /\ Advance(at.done + 1)
    /\ UNCHANGED <<counter, stray>>

(* flash_read_cfg writes nothing but the format of an erased flash         *)
Read(id) ==
    /\ call = None
    /\ counter' = Formatted
    /\ UNCHANGED <<mem, call, at, stray, ret>>

(* Power fails between two flash operations: the flash keeps its contents  *)
PowerLoss ==
    /\ call # None
    /\ Return(FALSE)
    /\ UNCHANGED <<counter, mem, stray>>
-----------------------------------------------------------------------------
Init ==
    /\ counter = [b \in Banks |-> Erased]
    /\ mem = [b \in Banks |-> [a \in Addrs |-> Free]]
    /\ call = None /\ at = None
    /\ stray = FALSE
    /\ ret = FALSE

Next ==
    \/ \E id \in Ids : Read(id) \/ \E val \in Objects[id] : Write(id, val)
    \/ PackErase \/ PackNoMemory \/ PackCopy \/ PackCount
    \/ ProgramHeader \/ ProgramData
    \/ PowerLoss

Spec == Init /\ [][Next]_vars
-----------------------------------------------------------------------------
(* Properties *)

(* The type invariant.                                                     *)
TypeOK ==
    /\ counter \in [Banks -> 0 .. Erased]
    /\ mem \in [Banks -> [Addrs -> Word]]
    /\ call \in {None} \cup Calls
    /\ at \in {None} \cup Steps
    /\ stray \in BOOLEAN /\ ret \in BOOLEAN

(* Two banks never carry the same generation, so "the bank with the        *)
(* smallest counter" of get_addr_bscfg names one bank, after any number of *)
(* packs and power failures.                                               *)
Generations ==
    \A b, d \in Banks : counter[b] = counter[d] /\ counter[b] # Erased => b = d

(* Packs go round all the banks: no bank that holds a generation is left   *)
(* NumBanks or more generations behind (get_addr_bscfg(TRUE) picks the     *)
(* oldest, or one a failure left erased).                                  *)
WearLevelled ==
    \A b, d \in Banks :
        counter[b] # Erased /\ counter[d] # Erased => counter[b] < counter[d] + NumBanks

(* While pack_cfg_fmem builds the new bank, the current bank is the old    *)
(* one and the new one still counts as erased: a power failure during the  *)
(* pack leaves the old log in force.                                       *)
PackBehindCurrent ==
    call # None /\ at.step = "copy" =>
        /\ at.from = Current /\ at.to # Current
        /\ counter[at.to] = Erased

(* A call knows its next step, and only a formatted flash is written to   *)
(* (_flash_write_cfg starts at get_addr_bscfg, which formats it).          *)
InFlight ==
    /\ call = None <=> at = None
    /\ call # None => \E b \in Banks : counter[b] # Erased
    /\ call # None /\ at.step = "copy" => counter[at.from] > 1

(* The inductive invariant behind the three above.                         *)
IInv == TypeOK /\ InFlight /\ Generations /\ PackBehindCurrent

(* The erase of pack_cfg_fmem never hits the bank in force.                *)
EraseSparesCurrent ==
    [][\A b \in Banks : counter[b] # Erased /\ counter'[b] = Erased => b # Current]_vars

(* Programming can only clear bits, so a record is written as given only   *)
(* onto free words: those the append is about to program are free, and the *)
(* whole record lies inside its bank.                                      *)
CleanProgram ==
    call # None /\ at.step \in {"header", "data"} =>
        LET first == at.addr + (IF at.step = "data" THEN at.done + 1 ELSE 0)
        IN  \A a \in first .. at.addr + Len(call.val) :
                a \in Addrs /\ mem[at.bank][a] = Free

(* "перепишем данные obj в новый сектор" (flash_eep.c:372): a write of one *)
(* id leaves what flash_read_cfg returns for every other id as it was.     *)
PackKeepsOthers ==
    [][\A id \in Ids : call # None /\ id # call.key => Value(id)' = Value(id)]_vars

(* The map the application sees: flash_write_cfg and power failures move   *)
(* what flash_read_cfg returns as KvStore allows.                          *)
Partial(v) == {[i \in 1 .. Len(v) |-> IF i <= n THEN v[i] ELSE Free] : n \in 0 .. Len(v)}
Blank == {[i \in 1 .. n |-> Free] : n \in 0 .. MaxObj}
Packing == call # None /\ at.step \in {"pack", "copy"}
Store ==
    INSTANCE KvStore WITH Keys <- Ids, store <- [id \in Ids |-> Value(id)],
                          full <- Packing, lost <- stray
StoreRefined == Store!Spec
=============================================================================
