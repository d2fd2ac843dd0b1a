--------------------------- MODULE FlashEepProofs ---------------------------
(* Proofs about FlashEep for any number of banks, any bank size, any ids   *)
(* and objects, with failing mallocs and power failures.                   *)
EXTENDS FlashEep, NatLemmas, FiniteSetTheorems

USE FlashAssumption

LEMMA BanksAre == NumBanks - 1 \in Nat /\ Banks = 0 .. (NumBanks - 1) /\ 0 \in Banks /\ 1 \in Banks
BY DEF Banks

LEMMA WordsAre ==
    /\ Free \in Word
    /\ Erased \in 0 .. Erased
    /\ \A w \in Word : Size(w) \in Nat /\ RecLen(w) \in 1 .. MaxObj + 1
BY DEF Word, Free, Size, RecLen, Valid

LEMMA MeetIsWord ==
    ASSUME NEW u \in Word, NEW w
    PROVE  u \cap w \in Word
BY DEF Word

(* get_addr_bscfg(FALSE) returns a bank no other has a smaller counter     *)
(* than.                                                                   *)
LEMMA LowestIs ==
    ASSUME NEW c \in [Banks -> Nat]
    PROVE  Lowest(c) \in Banks /\ \A d \in Banks : c[Lowest(c)] <= c[d]
<1>1. \E b \in Banks : \A d \in Banks : c[b] < c[d] \/ (c[b] = c[d] /\ b <= d)
  BY BanksAre, FirstMin
<1>2. /\ Lowest(c) \in Banks
      /\ \A d \in Banks : c[Lowest(c)] < c[d] \/ (c[Lowest(c)] = c[d] /\ Lowest(c) <= d)
  BY <1>1 DEF Lowest
<1>3. \A d \in Banks : c[d] \in Nat
  OBVIOUS
<1> QED BY <1>2, <1>3

(* get_addr_bscfg(TRUE): while a bank is erased the pack takes one of      *)
(* those; else it takes the bank of the largest generation.                *)
LEMMA PackTargetIsOldest ==
    ASSUME counter \in [Banks -> 0 .. Erased], NEW d \in Banks
    PROVE  /\ PackTarget \in Banks
           /\ counter[PackTarget] = Erased \/ counter[d] <= counter[PackTarget]
<1> DEFINE erased == {b \in Banks : counter[b] = Erased}
<1>1. CASE erased # {}
  <2>1. PICK x \in erased : \A y \in erased : y <= x
    <3>1. erased \subseteq 0 .. (NumBanks - 1) /\ NumBanks - 1 \in Nat
      BY BanksAre
    <3> DEFINE last == NumBanks - 1
    <3>2. last \in Nat /\ erased \in SUBSET (0 .. last) /\ erased # {}
      BY <1>1, <3>1
    <3> HIDE DEF erased, last
    <3>3. \E x \in erased : \A y \in erased : y <= x
      BY ONLY <3>2, NatMax
    <3> QED BY <3>3
  <2>2. \A y \in erased : x >= y
    BY <2>1, BanksAre
  <2>3. Max(erased) \in erased
    BY <2>2 DEF Max
  <2>4. PackTarget = Max(erased)
    BY <1>1 DEF PackTarget
  <2> QED BY <2>3, <2>4
<1>2. CASE erased = {}
  <2> DEFINE up == [b \in Banks |-> Erased - counter[b]]
             Oldest(t) == \A e \in Banks : counter[t] > counter[e] \/ (counter[t] = counter[e] /\ t <= e)
  <2>1. up \in [Banks -> Nat]
    OBVIOUS
  <2>2. PICK b \in Banks : \A e \in Banks : up[b] < up[e] \/ (up[b] = up[e] /\ b <= e)
    BY <2>1, BanksAre, FirstMin
  <2>3. ASSUME NEW e \in Banks
        PROVE  counter[b] > counter[e] \/ (counter[b] = counter[e] /\ b <= e)
    <3>1. Erased - counter[b] < Erased - counter[e]
          \/ (Erased - counter[b] = Erased - counter[e] /\ b <= e)
      BY <2>2
    <3>2. counter[b] \in 0 .. Erased /\ counter[e] \in 0 .. Erased
      OBVIOUS
    <3> QED BY <3>1, <3>2
  <2>4. PackTarget = CHOOSE t \in Banks : Oldest(t)
    BY <1>2 DEF PackTarget
  <2>5. PackTarget \in Banks /\ Oldest(PackTarget)
    BY <2>3, <2>4
  <2>6. counter[PackTarget] \in 0 .. Erased /\ counter[d] \in 0 .. Erased
    BY <2>5
  <2> QED BY <2>5, <2>6
<1> QED BY <1>1, <1>2

(* As soon as one bank holds a generation, the bank to pack into is        *)
(* another than the one in force.                                          *)
LEMMA PackTargetIs ==
    ASSUME counter \in [Banks -> 0 .. Erased], Generations,
           \E b \in Banks : counter[b] # Erased
    PROVE  PackTarget \in Banks /\ PackTarget # Current
<1> DEFINE t == PackTarget
           s == Current
<1>1. /\ s \in Banks /\ counter[s] # Erased
      /\ \A d \in Banks : counter[s] <= counter[d]
  <2>1. counter \in [Banks -> Nat]
    OBVIOUS
  <2>2. s \in Banks /\ \A d \in Banks : counter[s] <= counter[d]
    BY <2>1, LowestIs DEF Current
  <2>3. PICK b \in Banks : counter[b] # Erased
    OBVIOUS
  <2>4. counter[b] \in 0 .. Erased /\ counter[s] \in 0 .. Erased /\ counter[s] <= counter[b]
    BY <2>2
  <2> QED BY <2>2, <2>3, <2>4
<1>2. /\ t \in Banks
      /\ counter[t] = Erased \/ \A d \in Banks : counter[d] <= counter[t]
  <2>1. 0 \in Banks
    BY BanksAre
  <2> QED BY <2>1, PackTargetIsOldest
<1> HIDE DEF t, s
<1>3. CASE counter[t] = Erased
  BY <1>1, <1>2, <1>3 DEF t, s
<1>4. CASE counter[t] # Erased
  <2>1. \A d \in Banks : counter[d] \in 0 .. Erased /\ counter[d] <= counter[t] /\ counter[d] # Erased
    BY <1>2, <1>4
  <2>2. 0 \in Banks /\ 1 \in Banks /\ counter[0] # counter[1]
    BY <2>1, BanksAre DEF Generations
  <2>3. PICK d \in Banks : counter[d] # counter[s]
    BY <2>2
  <2>4. counter[s] <= counter[d] /\ counter[d] <= counter[t]
    BY <1>1, <2>1
  <2>5. counter[t] # counter[s]
    BY <1>1, <1>2, <2>1, <2>3, <2>4
  <2> QED BY <1>2, <2>5 DEF t, s
<1> QED BY <1>3, <1>4
-----------------------------------------------------------------------------
LEMMA FormattedIs ==
    ASSUME counter \in [Banks -> 0 .. Erased], Generations
    PROVE  /\ Formatted \in [Banks -> 0 .. Erased]
           /\ \E b \in Banks : Formatted[b] # Erased
           /\ \A b, d \in Banks : Formatted[b] = Formatted[d] /\ Formatted[b] # Erased => b = d
<1>1. CASE \A b \in Banks : counter[b] = Erased
  <2>1. Formatted = [counter EXCEPT ![0] = Erased - 1]
    BY <1>1 DEF Formatted
  <2>2. \A b \in Banks : Formatted[b] = IF b = 0 THEN Erased - 1 ELSE Erased
    BY <1>1, <2>1
  <2>3. Erased - 1 \in 0 .. Erased /\ Erased - 1 # Erased
    OBVIOUS
  <2> QED BY <2>1, <2>2, <2>3, BanksAre
<1>2. CASE ~ \A b \in Banks : counter[b] = Erased
  BY <1>2 DEF Formatted, Generations
<1> QED BY <1>1, <1>2

LEMMA SaveAddrIs ==
    ASSUME NEW b, NEW n \in 0 .. MaxObj, SaveAddr(b, n) # 0
    PROVE  SaveAddr(b, n) \in Addrs
BY DEF SaveAddr, Addrs

LEMMA HeaderIs ==
    ASSUME NEW id \in Ids, NEW n
    PROVE  Free \cap Header(id, n) \in Word /\ \A w \in Word : w \cap Header(id, n) \in Word
BY DEF Word

LEMMA InitIInv == Init => IInv
<1> SUFFICES ASSUME Init PROVE IInv
  OBVIOUS
<1>1. TypeOK
  <2>1. counter \in [Banks -> 0 .. Erased]
    BY WordsAre DEF Init
  <2>2. mem \in [Banks -> [Addrs -> Word]]
    BY WordsAre DEF Init
  <2> QED BY <2>1, <2>2 DEF Init, TypeOK
<1>2. InFlight /\ PackBehindCurrent /\ Generations
  BY DEF Init, InFlight, Generations, PackBehindCurrent
<1> QED BY <1>1, <1>2 DEF IInv

(* flash_write_cfg up to its first program operation                       *)
LEMMA WriteIInv ==
    ASSUME IInv, NEW id \in Ids, NEW val \in Objects[id], Write(id, val)
    PROVE  IInv'
<1> USE DEF IInv
<1>1. /\ counter' = Formatted
      /\ counter' \in [Banks -> 0 .. Erased]
      /\ \E b \in Banks : counter'[b] # Erased
      /\ Generations'
  BY FormattedIs DEF Write, TypeOK, Generations
<1>2. val \in Seq(Word) /\ Len(val) \in 0 .. MaxObj
  <2>1. val \in Seq(Word)
    OBVIOUS
  <2> QED BY <2>1 DEF Write
<1>3. CASE Value(id) = val
  <2>1. mem' = mem /\ call' = None /\ at' = None /\ stray' = stray /\ ret' = TRUE
    BY <1>3 DEF Write, InFlight
  <2> QED BY <1>1, <2>1 DEF TypeOK, InFlight, PackBehindCurrent
<1>4. CASE Value(id) # val
  <2> DEFINE a == SaveAddr(Current, Len(val))
  <2>1. /\ call' = [key |-> id, val |-> val]
        /\ at' = IF a = 0 THEN [step |-> "pack"] ELSE [step |-> "header", bank |-> Current, addr |-> a]
        /\ mem' = mem /\ stray' = stray /\ ret' = ret
    BY <1>4 DEF Write
  <2>2. call' \in Calls /\ call' # None
    BY <1>2, <2>1 DEF Calls
  <2>3. Current \in Banks
    <3>1. counter \in [Banks -> Nat]
      BY DEF TypeOK
    <3> QED BY <3>1, LowestIs DEF Current
  <2>4. a # 0 => a \in Addrs
    BY <1>2, SaveAddrIs
  <2>5. at' \in Steps /\ at' # None /\ at'.step # "copy"
    <3> HIDE DEF a
    <3>1. CASE a = 0
      BY <2>1, <3>1 DEF Steps
    <3>2. CASE a # 0
      BY <2>1, <2>3, <2>4, <3>2 DEF Steps
    <3> QED BY <3>1, <3>2
  <2> QED BY <1>1, <2>1, <2>2, <2>5 DEF TypeOK, InFlight, PackBehindCurrent
<1> QED BY <1>3, <1>4

(* Between its program operations a call changes neither counter nor the   *)
(* fact that it is in flight; what is left is that memory keeps its type.  *)
LEMMA ReturnIInv ==
    ASSUME IInv, Return(TRUE) \/ Return(FALSE),
           mem' \in [Banks -> [Addrs -> Word]], UNCHANGED counter, stray' \in BOOLEAN
    PROVE  IInv'
BY DEF IInv, TypeOK, InFlight, Generations, PackBehindCurrent, Return

LEMMA ProgramIs ==
    ASSUME mem \in [Banks -> [Addrs -> Word]], NEW b, NEW a, NEW w, Program(b, a, w)
    PROVE  mem' \in [Banks -> [Addrs -> Word]]
<1>1. CASE b \in Banks /\ a \in Addrs
  <2>1. mem[b][a] \in Word
    BY <1>1
  <2>2. mem[b][a] \cap w \in Word
    BY <2>1, MeetIsWord
  <2>3. mem' = [mem EXCEPT ![b] = [mem[b] EXCEPT ![a] = mem[b][a] \cap w]]
    BY DEF Program
  <2>4. [mem[b] EXCEPT ![a] = mem[b][a] \cap w] \in [Addrs -> Word]
    BY <1>1, <2>2
  <2> QED BY <1>1, <2>3, <2>4
<1>2. CASE b \in Banks /\ a \notin Addrs
  <2>1. mem' = [mem EXCEPT ![b] = [mem[b] EXCEPT ![a] = mem[b][a] \cap w]]
    BY DEF Program
  <2> DEFINE row == [mem[b] EXCEPT ![a] = mem[b][a] \cap w]
  <2>2. mem[b] \in [Addrs -> Word]
    BY <1>2
  <2>3. row \in [Addrs -> Word]
    BY <1>2, <2>2
  <2>4. mem' = [mem EXCEPT ![b] = row]
    BY <2>1
  <2> HIDE DEF row
  <2> QED BY <1>2, <2>3, <2>4
<1>3. CASE b \notin Banks
  <2> DEFINE row == [mem[b] EXCEPT ![a] = @ \cap w]
  <2>1. mem' = [mem EXCEPT ![b] = row]
    BY DEF Program
  <2> HIDE DEF row
  <2> QED BY <1>3, <2>1
<1> QED BY <1>1, <1>2, <1>3

LEMMA PackEraseIInv ==
    ASSUME IInv, PackErase
    PROVE  /\ IInv' /\ Current' = Current
           /\ \A b \in Banks : counter[b] # Erased /\ counter'[b] = Erased => b # Current
<1> DEFINE t == PackTarget  s == Current
<1>1. /\ counter \in [Banks -> 0 .. Erased] /\ counter \in [Banks -> Nat]
      /\ call # None /\ call \in Calls
  BY DEF IInv, TypeOK, PackErase
<1>2. t \in Banks /\ t # s
  BY <1>1, PackTargetIs DEF IInv, InFlight
<1>3. s \in Banks /\ \A d \in Banks : counter[s] <= counter[d]
  BY <1>1, LowestIs DEF Current
<1>4. /\ counter' = [counter EXCEPT ![t] = Erased]
      /\ at' = [step |-> "copy", to |-> t, from |-> s, scan |-> 1]
      /\ mem' = [mem EXCEPT ![t] = [a \in Addrs |-> Free]]
      /\ call' = call /\ stray' = stray /\ ret' = ret
      /\ counter[s] > 1
  BY DEF PackErase
<1>5. counter[s] # Erased
  <2>1. PICK b \in Banks : counter[b] # Erased
    BY <1>1 DEF IInv, InFlight
  <2>2. counter[b] \in 0 .. Erased /\ counter[s] \in 0 .. Erased /\ counter[s] <= counter[b]
    BY <1>1, <1>3
  <2> QED BY <2>1, <2>2
<1> HIDE DEF t, s
<1>6. \A b \in Banks : counter'[b] = IF b = t THEN Erased ELSE counter[b]
  BY <1>1, <1>4
<1>7. counter' \in [Banks -> 0 .. Erased] /\ counter' \in [Banks -> Nat]
  BY <1>1, <1>4, WordsAre
<1>8. Current' = s
  <2>1. Current' \in Banks /\ \A d \in Banks : counter'[Current'] <= counter'[d]
    BY <1>7, LowestIs DEF Current
  <2>2. counter'[Current'] <= counter[s]
    BY <1>2, <1>3, <1>6, <2>1
  <2>3. Current' # t
    <3>1. counter[s] \in 0 .. Erased
      BY <1>1, <1>3
    <3> QED BY <1>2, <1>5, <1>6, <2>2, <3>1
  <2>4. counter[Current'] <= counter[s] /\ counter[s] <= counter[Current']
    BY <1>3, <1>6, <2>1, <2>2, <2>3
  <2>5. counter[Current'] = counter[s]
    BY <1>1, <1>3, <2>1, <2>4
  <2> QED BY <1>3, <1>5, <2>1, <2>5 DEF IInv, Generations
<1>9. TypeOK'
  <2>1. at' \in Steps
    BY <1>2, <1>3, <1>4 DEF Steps
  <2>2. mem' \in [Banks -> [Addrs -> Word]]
    BY <1>4, WordsAre DEF IInv, TypeOK
  <2> QED BY <1>1, <1>4, <1>7, <2>1, <2>2 DEF IInv, TypeOK
<1>10. InFlight'
  <2>1. at' # None
    BY <1>2, <1>3, <1>4 DEF Steps
  <2> QED BY <1>1, <1>2, <1>3, <1>4, <1>5, <1>6, <2>1 DEF InFlight
<1>11. Generations'
  BY <1>6 DEF IInv, Generations
<1>12. PackBehindCurrent'
  BY <1>2, <1>4, <1>6, <1>8 DEF PackBehindCurrent
<1>13. \A b \in Banks : counter[b] # Erased /\ counter'[b] = Erased => b # s
  BY <1>2, <1>6
<1> QED BY <1>8, <1>9, <1>10, <1>11, <1>12, <1>13 DEF IInv, s

(* A pass of the copy loop changes at most the first word of the new log.  *)
LEMMA PackCopyIs ==
    ASSUME IInv, PackCopy
    PROVE  /\ mem' \in [Banks -> [Addrs -> Word]]
           /\ \A b \in Banks : b # at.to => mem'[b] = mem[b]
           /\ \A a \in Addrs : a # 1 => mem'[at.to][a] = mem[at.to][a]
<1>1. mem \in [Banks -> [Addrs -> Word]] /\ at \in Steps /\ at.step = "copy"
  BY DEF IInv, TypeOK, InFlight, PackCopy
<1>2. at.to \in Banks /\ 1 \in Addrs
  BY <1>1 DEF Steps, Addrs
<1>3. CASE UNCHANGED mem
  BY <1>1, <1>2, <1>3
<1>4. ASSUME NEW x, mem' = [mem EXCEPT ![at.to] = Copied(at.to, at.from, at.scan, x)]
      PROVE  \E w \in Word : mem' = [mem EXCEPT ![at.to] = [mem[at.to] EXCEPT ![1] = w]]
  <2> DEFINE w == {bit \in mem[at.to][1] \cap x :
                      \A a \in ReadOut(at.from, at.scan) \cap Addrs : bit \in mem[at.from][a]}
  <2>1. Copied(at.to, at.from, at.scan, x) = [mem[at.to] EXCEPT ![1] = w]
    BY DEF Copied
  <2>2. mem[at.to][1] \in Word /\ w \subseteq mem[at.to][1]
    BY <1>1, <1>2
  <2> HIDE DEF w
  <2>3. w \in Word
    BY <2>2 DEF Word
  <2> QED BY <1>4, <2>1, <2>3
<1>5. UNCHANGED mem \/ \E x : mem' = [mem EXCEPT ![at.to] = Copied(at.to, at.from, at.scan, x)]
  BY DEF PackCopy
<1>6. CASE \E w \in Word : mem' = [mem EXCEPT ![at.to] = [mem[at.to] EXCEPT ![1] = w]]
  <2>1. PICK w \in Word : mem' = [mem EXCEPT ![at.to] = [mem[at.to] EXCEPT ![1] = w]]
    BY <1>6
  <2> DEFINE row == [mem[at.to] EXCEPT ![1] = w]
  <2>2. row \in [Addrs -> Word] /\ \A a \in Addrs : a # 1 => row[a] = mem[at.to][a]
    BY <1>1, <1>2
  <2>3. mem' = [mem EXCEPT ![at.to] = row]
    BY <2>1
  <2> HIDE DEF row
  <2> QED BY <1>1, <1>2, <2>2, <2>3
<1> QED BY <1>3, <1>4, <1>5, <1>6

LEMMA PackCopyIInv ==
    ASSUME IInv, PackCopy
    PROVE  IInv'
<1> DEFINE w == mem[at.from][at.scan]
<1>1. /\ call \in Calls /\ call # None /\ at \in Steps /\ at.step = "copy"
      /\ at.scan < BankWords - 2
      /\ mem \in [Banks -> [Addrs -> Word]]
      /\ UNCHANGED <<counter, call, stray, ret>>
      /\ at' = [at EXCEPT !.scan = @ + RecLen(w)]
  BY DEF IInv, TypeOK, PackCopy, InFlight, Scanning
<1>2. /\ at \in [step : {"copy"}, to : Banks, from : Banks, scan : 1 .. BankWords + MaxObj]
  BY <1>1 DEF Steps
<1>3. w \in Word
  <2>1. at.from \in Banks /\ at.scan \in Addrs
    BY <1>1, <1>2 DEF Addrs
  <2> QED BY <1>1, <2>1
<1>4. at.scan + RecLen(w) \in 1 .. BankWords + MaxObj
  <2>1. RecLen(w) \in 1 .. MaxObj + 1
    BY <1>3, WordsAre
  <2> QED BY <1>1, <1>2, <2>1
<1>5. at' \in Steps /\ at'.step = "copy" /\ at'.to = at.to /\ at'.from = at.from /\ at' # None
  <2> DEFINE next == at.scan + RecLen(w)
  <2>1. at' = [at EXCEPT !.scan = next] /\ next \in 1 .. BankWords + MaxObj
    BY <1>1, <1>4
  <2> HIDE DEF next
  <2>2. /\ at' \in [step : {"copy"}, to : Banks, from : Banks, scan : 1 .. BankWords + MaxObj]
        /\ at'.step = "copy" /\ at'.to = at.to /\ at'.from = at.from
    BY <1>2, <2>1
  <2>3. at' \in Steps
    BY <2>2 DEF Steps
  <2> QED BY <2>2, <2>3
<1>6. mem' \in [Banks -> [Addrs -> Word]]
  BY PackCopyIs
<1> HIDE DEF w
<1>7. TypeOK'
  BY <1>1, <1>5, <1>6 DEF IInv, TypeOK
<1>8. InFlight' /\ Generations'
  BY <1>1, <1>5 DEF IInv, InFlight, Generations
<1>9. PackBehindCurrent'
  BY <1>1, <1>5 DEF IInv, PackBehindCurrent, Current, Lowest
<1> QED BY <1>7, <1>8, <1>9 DEF IInv

LEMMA PackCountIInv ==
    ASSUME IInv, PackCount
    PROVE  IInv'
<1>1. /\ call \in Calls /\ call # None /\ at \in Steps /\ at.step = "copy"
      /\ counter \in [Banks -> 0 .. Erased] /\ counter \in [Banks -> Nat]
      /\ at.from = Current /\ at.to # Current /\ counter[at.to] = Erased
      /\ counter[at.from] > 1
      /\ mem' = mem /\ stray' = stray
  BY DEF IInv, TypeOK, PackCount, InFlight, PackBehindCurrent
<1>2. at.to \in Banks /\ at.from \in Banks
  BY <1>1 DEF Steps
<1>3. \A d \in Banks : counter[at.from] <= counter[d]
  BY <1>1, LowestIs DEF Current
<1>4. counter' = [counter EXCEPT ![at.to] = counter[at.from] - 1]
  BY DEF PackCount, NextGeneration
<1>5. /\ counter[at.from] - 1 \in 0 .. Erased /\ counter[at.from] - 1 # Erased
      /\ \A d \in Banks : counter[at.from] - 1 # counter[d]
  <2>1. counter[at.from] \in 0 .. Erased /\ \A d \in Banks : counter[d] \in 0 .. Erased
    BY <1>1, <1>2
  <2> QED BY <1>1, <1>3, <2>1
<1>6. counter' \in [Banks -> 0 .. Erased]
  BY <1>1, <1>4, <1>5
<1>7. Generations'
  <2>1. \A b \in Banks : counter'[b] = IF b = at.to THEN counter[at.from] - 1 ELSE counter[b]
    BY <1>1, <1>4
  <2>2. Generations
    BY DEF IInv
  <2> QED BY <1>5, <2>1, <2>2 DEF Generations
<1>8. \E b \in Banks : counter'[b] # Erased
  BY <1>1, <1>2, <1>4, <1>5
<1> DEFINE a == SaveAddr(at.to, Len(call.val))
<1>9. CASE a = 0
  BY <1>1, <1>6, <1>7, <1>9
     DEF PackCount, Return, IInv, TypeOK, InFlight, PackBehindCurrent
<1>10. CASE a # 0
  <2>1. at' = [step |-> "header", bank |-> at.to, addr |-> a] /\ call' = call /\ ret' = ret
    BY <1>10 DEF PackCount
  <2>2. a \in Addrs
    BY <1>10 DEF SaveAddr, Addrs, Calls
  <2>3. at' \in Steps /\ at'.step # "copy" /\ at' # None
    <3> HIDE DEF a
    <3> QED BY <1>2, <2>1, <2>2 DEF Steps
  <2> QED BY <1>1, <1>6, <1>7, <1>8, <2>1, <2>3
          DEF IInv, TypeOK, InFlight, PackBehindCurrent
<1> QED BY <1>9, <1>10

(* A word of the record is programmed and the call goes on or returns.     *)
LEMMA AppendIInv ==
    ASSUME IInv, NEW done \in Nat, Advance(done), call # None,
           at.step \in {"header", "data"},
           mem' \in [Banks -> [Addrs -> Word]], UNCHANGED <<counter, stray>>
    PROVE  IInv'
<1>1. CASE done = Len(call.val)
  <2>1. Return(TRUE)
    BY <1>1 DEF Advance
  <2> QED BY <2>1, ReturnIInv DEF IInv, TypeOK
<1>2. CASE done # Len(call.val)
  <2>1. /\ at' = [step |-> "data", bank |-> at.bank, addr |-> at.addr, done |-> done]
        /\ call' = call /\ ret' = ret
    BY <1>2 DEF Advance
  <2>2. at \in Steps
    BY DEF IInv, TypeOK, InFlight
  <2>3. at.bank \in Banks /\ at.addr \in Addrs
    BY <2>2 DEF Steps
  <2>4. at' \in Steps /\ at' # None /\ at'.step # "copy"
    BY <2>1, <2>3 DEF Steps
  <2> QED BY <2>1, <2>4 DEF IInv, TypeOK, InFlight, Generations, PackBehindCurrent
<1> QED BY <1>1, <1>2

LEMMA ProgramHeaderIInv ==
    ASSUME IInv, ProgramHeader
    PROVE  IInv'
<1>1. mem' \in [Banks -> [Addrs -> Word]]
  BY ProgramIs DEF IInv, TypeOK, ProgramHeader
<1> QED BY <1>1, AppendIInv DEF ProgramHeader

LEMMA ProgramDataIInv ==
    ASSUME IInv, ProgramData
    PROVE  IInv'
<1>1. mem' \in [Banks -> [Addrs -> Word]]
  BY ProgramIs DEF IInv, TypeOK, ProgramData
<1>2. at \in Steps
  BY DEF IInv, TypeOK, InFlight, ProgramData
<1>3. at.done + 1 \in Nat
  BY <1>2 DEF Steps, ProgramData
<1> QED BY <1>1, <1>3, AppendIInv DEF ProgramData

LEMMA ReadIInv ==
    ASSUME IInv, NEW id \in Ids, Read(id)
    PROVE  IInv'
<1>1. /\ counter' = Formatted
      /\ counter' \in [Banks -> 0 .. Erased]
      /\ Generations'
  BY FormattedIs DEF Read, IInv, TypeOK, Generations
<1> QED BY <1>1 DEF Read, IInv, TypeOK, InFlight, PackBehindCurrent
-----------------------------------------------------------------------------
LEMMA NextIInv == IInv /\ [Next]_vars => IInv'
<1> SUFFICES ASSUME IInv, [Next]_vars PROVE IInv'
  OBVIOUS
<1>1. ASSUME NEW id \in Ids, Read(id) PROVE IInv'
  BY <1>1, ReadIInv
<1>2. ASSUME NEW id \in Ids, NEW val \in Objects[id], Write(id, val) PROVE IInv'
  BY <1>2, WriteIInv
<1>3. CASE PackErase
  BY <1>3, PackEraseIInv
<1>4. CASE PackNoMemory
  BY <1>4, ReturnIInv DEF PackNoMemory, IInv, TypeOK
<1>5. CASE PackCopy
  BY <1>5, PackCopyIInv
<1>6. CASE PackCount
  BY <1>6, PackCountIInv
<1>7. CASE ProgramHeader
  BY <1>7, ProgramHeaderIInv
<1>8. CASE ProgramData
  BY <1>8, ProgramDataIInv
<1>9. CASE PowerLoss
  BY <1>9, ReturnIInv DEF PowerLoss, IInv, TypeOK
<1>10. CASE UNCHANGED vars
  BY <1>10 DEF vars, IInv, TypeOK, InFlight, Generations, PackBehindCurrent, Current, Lowest
<1> QED
  BY <1>1, <1>2, <1>3, <1>4, <1>5, <1>6, <1>7, <1>8, <1>9, <1>10 DEF Next

LEMMA Inductive == Spec => []IInv
<1> QED BY InitIInv, NextIInv, PTL DEF Spec

(* Every reachable state is well typed: in particular an append always     *)
(* starts inside its bank.                                                 *)
THEOREM TypeCorrect == Spec => []TypeOK
<1>1. IInv => TypeOK
  BY DEF IInv
<1> QED BY <1>1, Inductive, PTL

(* No two banks ever carry the same generation.                            *)
THEOREM GenerationsUnique == Spec => []Generations
<1>1. IInv => Generations
  BY DEF IInv
<1> QED BY <1>1, Inductive, PTL

(* The pack works in an erased bank behind the one in force.               *)
THEOREM PackIsBehind == Spec => []PackBehindCurrent
<1>1. IInv => PackBehindCurrent
  BY DEF IInv
<1> QED BY <1>1, Inductive, PTL

(* No step erases the bank in force.                                       *)
THEOREM CurrentIsNotErased == Spec => EraseSparesCurrent
<1> DEFINE Spares == \A b \in Banks : counter[b] # Erased /\ counter'[b] = Erased => b # Current
<1>1. IInv /\ [Next]_vars => [Spares]_vars
  <2> SUFFICES ASSUME IInv, Next PROVE Spares
    OBVIOUS
  <2>1. CASE PackErase
    BY <2>1, PackEraseIInv
  <2>2. CASE UNCHANGED counter
    BY <2>2
  <2>3. CASE counter' = Formatted
    BY <2>3 DEF Formatted, IInv, TypeOK
  <2>4. CASE PackCount
    <3>1. at.to \in Banks => counter[at.to] = Erased
      BY <2>4 DEF PackCount, IInv, PackBehindCurrent
    <3>2. \A b \in Banks : b # at.to => counter'[b] = counter[b]
      BY <2>4 DEF PackCount, IInv, TypeOK
    <3> QED BY <3>1, <3>2
  <2> QED
    BY <2>1, <2>2, <2>3, <2>4
       DEF Next, Read, Write, PackNoMemory, PackCopy, ProgramHeader, ProgramData, PowerLoss
<1> QED BY <1>1, Inductive, PTL DEF Spec, EraseSparesCurrent
-----------------------------------------------------------------------------
(* Wear levelling.  The banks that hold a generation, and a bound that     *)
(* goes with their number: the pack that reuses the oldest one takes one   *)
(* away from both, the generation it counts adds one to both.              *)
InUse == {b \in Banks : counter[b] # Erased}
WearInv == \A b, d \in InUse : counter[b] < counter[d] + Cardinality(InUse)

LEMMA InUseIs ==
    /\ IsFiniteSet(Banks) /\ Cardinality(Banks) = NumBanks
    /\ IsFiniteSet(InUse) /\ Cardinality(InUse) \in 0 .. NumBanks
<1>1. /\ IsFiniteSet(0 .. (NumBanks - 1))
      /\ Cardinality(0 .. (NumBanks - 1)) = IF 0 > NumBanks - 1 THEN 0 ELSE (NumBanks - 1) - 0 + 1
  <2>1. 0 \in Int /\ NumBanks - 1 \in Int
    OBVIOUS
  <2> QED BY <2>1, FS_Interval
<1>2. IsFiniteSet(Banks) /\ Cardinality(Banks) = NumBanks
  BY <1>1, BanksAre
<1>3. InUse \in SUBSET Banks
  BY DEF InUse
<1>4. IsFiniteSet(InUse) /\ Cardinality(InUse) <= Cardinality(Banks)
  BY <1>2, <1>3, FS_Subset
<1>5. Cardinality(InUse) \in Nat
  BY <1>4, FS_CardinalityType
<1> QED BY <1>2, <1>4, <1>5

LEMMA WearInit == Init => WearInv
BY DEF Init, WearInv, InUse

LEMMA WearKept ==
    ASSUME WearInv, UNCHANGED counter
    PROVE  WearInv'
BY DEF WearInv, InUse

(* The first call formats one bank.                                        *)
LEMMA WearFormatted ==
    ASSUME TypeOK, WearInv, counter' = Formatted
    PROVE  WearInv'
<1>1. CASE \A b \in Banks : counter[b] = Erased
  <2>1. counter' = [counter EXCEPT ![0] = Erased - 1]
    BY <1>1 DEF Formatted
  <2>2. \A b \in Banks : counter'[b] = IF b = 0 THEN Erased - 1 ELSE Erased
    BY <1>1, <2>1 DEF TypeOK
  <2>3. Erased - 1 \in Nat /\ Erased - 1 # Erased
    OBVIOUS
  <2>4. InUse' = {0}
    BY <2>2, <2>3, BanksAre DEF InUse
  <2>5. Cardinality(InUse') = 1
    BY <2>4, FS_Singleton
  <2>6. counter'[0] \in Nat
    BY <2>2, <2>3, BanksAre
  <2>7. counter'[0] < counter'[0] + 1
    BY <2>6
  <2>8. \A b \in InUse' : b = 0
    BY <2>4
  <2> QED BY <2>5, <2>7, <2>8 DEF WearInv
<1>2. CASE ~ \A b \in Banks : counter[b] = Erased
  <2>1. counter' = counter
    BY <1>2 DEF Formatted
  <2> QED BY <2>1, WearKept
<1> QED BY <1>1, <1>2

(* The pack erases a bank that is erased, or the oldest of all.            *)
LEMMA WearErase ==
    ASSUME IInv, WearInv, PackErase
    PROVE  WearInv'
<1> DEFINE t == PackTarget
           k == Cardinality(InUse)
<1>1. counter \in [Banks -> 0 .. Erased] /\ Generations
  BY DEF IInv, TypeOK
<1>2. t \in Banks
  BY <1>1, PackTargetIs DEF IInv, InFlight, PackErase
<1>3. counter' = [counter EXCEPT ![t] = Erased]
  BY DEF PackErase
<1>4. counter[t] = Erased \/ \A d \in Banks : counter[d] <= counter[t]
  BY <1>1, PackTargetIsOldest
<1>5. k \in Nat /\ IsFiniteSet(InUse)
  BY InUseIs
<1> HIDE DEF t
<1>6. \A b \in Banks : counter'[b] = IF b = t THEN Erased ELSE counter[b]
  BY <1>1, <1>3
<1>7. CASE counter[t] = Erased
  <2>1. counter' = counter
    BY <1>1, <1>2, <1>3, <1>7
  <2> QED BY <2>1, WearKept
<1>8. CASE counter[t] # Erased
  <2>1. InUse' = InUse \ {t} /\ t \in InUse
    BY <1>2, <1>6, <1>8 DEF InUse
  <2>2. Cardinality(InUse') = k - 1
    BY <1>5, <2>1, FS_RemoveElement
  <2>3. ASSUME NEW b \in InUse', NEW d \in InUse'
        PROVE  counter'[b] < counter'[d] + Cardinality(InUse')
    <3>1. /\ b \in Banks /\ d \in Banks /\ b # t /\ b \in InUse /\ d \in InUse /\ d # t
          /\ counter'[b] = counter[b] /\ counter'[d] = counter[d]
      BY <1>6, <2>1 DEF InUse
    <3>2. counter[b] # counter[t] /\ counter[b] <= counter[t]
      BY <1>1, <1>2, <1>4, <1>8, <3>1 DEF Generations
    <3>3. counter[t] < counter[d] + k
      BY <2>1, <3>1 DEF WearInv
    <3>4. counter[b] \in Nat /\ counter[t] \in Nat /\ counter[d] \in Nat
      BY <1>1, <1>2, <3>1
    <3> HIDE DEF k
    <3> QED BY <1>5, <2>2, <3>1, <3>2, <3>3, <3>4
  <2> QED BY <2>3 DEF WearInv
<1> QED BY <1>7, <1>8

(* The new bank counts one generation down from the smallest.              *)
LEMMA WearCount ==
    ASSUME IInv, WearInv, PackCount
    PROVE  WearInv'
<1> DEFINE t == at.to
           c == counter[at.from]
           k == Cardinality(InUse)
<1>1. /\ counter \in [Banks -> 0 .. Erased] /\ counter \in [Banks -> Nat]
      /\ at.from = Current /\ counter[t] = Erased /\ c > 1
      /\ t \in Banks /\ at.from \in Banks
      /\ \E b \in Banks : counter[b] # Erased
  BY DEF IInv, TypeOK, PackCount, InFlight, PackBehindCurrent, Steps
<1>2. \A d \in Banks : c <= counter[d]
  BY <1>1, LowestIs DEF Current
<1>3. counter' = [counter EXCEPT ![t] = c - 1]
  BY DEF PackCount, NextGeneration
<1>4. k \in Nat /\ IsFiniteSet(InUse)
  BY InUseIs
<1>5. c \in Nat /\ c <= Erased /\ c - 1 \in Nat /\ c - 1 # Erased /\ c # Erased
  <2>1. PICK b \in Banks : counter[b] # Erased
    BY <1>1
  <2>2. c \in 0 .. Erased /\ counter[b] \in 0 .. Erased /\ c <= counter[b]
    BY <1>1, <1>2
  <2> HIDE DEF c
  <2> QED BY <1>1, <2>1, <2>2
<1>6. at.from \in InUse
  BY <1>1, <1>5 DEF InUse
<1> HIDE DEF t, c
<1>7. \A b \in Banks : counter'[b] = IF b = t THEN c - 1 ELSE counter[b]
  BY <1>1, <1>3
<1>8. InUse' = InUse \cup {t} /\ t \notin InUse
  BY <1>1, <1>5, <1>7 DEF InUse
<1>9. Cardinality(InUse') = k + 1
  BY <1>4, <1>8, FS_AddElement
<1>10. \A b \in InUse : counter[b] < c + k
  BY <1>6 DEF WearInv, c
<1>11. ASSUME NEW b \in InUse', NEW d \in InUse'
       PROVE  counter'[b] < counter'[d] + Cardinality(InUse')
  <2>1. b \in Banks /\ d \in Banks /\ (b # t => b \in InUse) /\ (d # t => d \in InUse)
    BY <1>8, <1>1 DEF InUse
  <2>2. counter[b] \in Nat /\ counter[d] \in Nat /\ c <= counter[d]
    BY <1>1, <1>2, <2>1
  <2>3. CASE b = t /\ d = t
    <3>1. counter'[b] = c - 1 /\ counter'[d] = c - 1
      BY <1>7, <2>1, <2>3
    <3> HIDE DEF k
    <3> QED BY <1>4, <1>5, <1>9, <3>1
  <2>4. CASE b = t /\ d # t
    <3>1. counter'[b] = c - 1 /\ counter'[d] = counter[d]
      BY <1>7, <2>1, <2>4
    <3> HIDE DEF k
    <3> QED BY <1>4, <1>5, <1>9, <2>2, <3>1
  <2>5. CASE b # t /\ d = t
    <3>1. counter'[b] = counter[b] /\ counter'[d] = c - 1 /\ counter[b] < c + k
      BY <1>7, <1>10, <2>1, <2>5
    <3> HIDE DEF k
    <3> QED BY <1>4, <1>5, <1>9, <2>2, <3>1
  <2>6. CASE b # t /\ d # t
    <3>1. counter'[b] = counter[b] /\ counter'[d] = counter[d] /\ counter[b] < counter[d] + k
      BY <1>7, <2>1, <2>6 DEF WearInv
    <3> HIDE DEF k
    <3> QED BY <1>4, <1>9, <2>2, <3>1
  <2> QED BY <2>3, <2>4, <2>5, <2>6
<1> QED BY <1>11 DEF WearInv

LEMMA WearInductive == IInv /\ WearInv /\ [Next]_vars => WearInv'
<1> SUFFICES ASSUME IInv, WearInv, [Next]_vars PROVE WearInv'
  OBVIOUS
<1>1. CASE counter' = Formatted
  BY <1>1, WearFormatted DEF IInv
<1>2. CASE PackErase
  BY <1>2, WearErase
<1>3. CASE PackCount
  BY <1>3, WearCount
<1>4. CASE UNCHANGED counter
  BY <1>4, WearKept
<1> QED
  BY <1>1, <1>2, <1>3, <1>4
     DEF Next, vars, Read, Write, PackNoMemory, PackCopy, ProgramHeader, ProgramData, PowerLoss

(* Packs go round all the banks: no bank in use is NumBanks generations    *)
(* behind another, however often the power fails in a pack.                *)
THEOREM PacksGoRound == Spec => []WearLevelled
<1>1. TypeOK /\ WearInv => WearLevelled
  <2> SUFFICES ASSUME TypeOK, WearInv,
                      NEW b \in Banks, NEW d \in Banks, counter[b] # Erased, counter[d] # Erased
               PROVE  counter[b] < counter[d] + NumBanks
    BY DEF WearLevelled
  <2>1. counter[b] < counter[d] + Cardinality(InUse)
    BY DEF WearInv, InUse
  <2>2. Cardinality(InUse) \in 0 .. NumBanks
    BY InUseIs
  <2>3. counter[b] \in Nat /\ counter[d] \in Nat
    BY DEF TypeOK
  <2> QED BY <2>1, <2>2, <2>3
<1>2. Spec => []WearInv
  BY WearInit, WearInductive, Inductive, PTL DEF Spec
<1> QED BY <1>1, <1>2, TypeCorrect, PTL

-----------------------------------------------------------------------------
(* The log of a bank.  The set of bits of a size, as Header sets them; a   *)
(* word that a record starts with: a header as written, or what a pack     *)
(* left on the first word of the log; a record that get_addr_fobj takes.   *)
Bits(n) == CHOOSE s \in SUBSET SizeBits : SizeOf[s] = n
IsHeader(w) == w \in Word /\ w # Free
Shown(log, a, id) == Valid(log[a]) /\ IdOf(log[a]) = id

(* The records of a log start at S, one behind the other up to e, and all  *)
(* is free from there.                                                     *)
Log(log, S, e) ==
    /\ S \subseteq Addrs /\ e \in Addrs
    /\ 1 \in S \cup {e}
    /\ \A a \in S :
          /\ IsHeader(log[a]) /\ a + RecLen(log[a]) \in S \cup {e}
          /\ \A c \in S \cup {e} : a < c => a + RecLen(log[a]) <= c
    /\ \A a \in Addrs : a >= e => log[a] = Free

(* The new bank of a pack holds nothing behind its first word.             *)
Begun(log) == \A a \in Addrs : a > 1 => log[a] = Free

LogsInv == \A b \in Banks : \E S \in SUBSET Addrs, e \in Addrs : Log(mem[b], S, e)
CallInv ==
    call # None => /\ call.key \in Ids /\ call.val \in Objects[call.key]
                   /\ Len(call.val) <= MaxObj
CopyInv ==
    call # None /\ at.step = "copy" =>
        /\ \E S \in SUBSET Addrs, e \in Addrs : Log(mem[at.from], S, e) /\ at.scan \in S \cup {e}
        /\ Begun(mem[at.to])
HeaderInv ==
    call # None /\ at.step = "header" =>
        /\ at.addr + Len(call.val) <= BankWords - 2
        /\ \E S \in SUBSET Addrs : Log(mem[at.bank], S, at.addr)
DataInv ==
    call # None /\ at.step = "data" =>
        /\ at.done < Len(call.val)
        /\ at.addr + Len(call.val) <= BankWords - 2
        /\ \E S \in SUBSET (1 .. at.addr) : Log(mem[at.bank], S, at.addr + Len(call.val) + 1)
        /\ \A a \in at.addr + at.done + 1 .. at.addr + Len(call.val) : mem[at.bank][a] = Free
LogInv == LogsInv /\ CallInv /\ CopyInv /\ HeaderInv /\ DataInv

LEMMA BitsAre ==
    ASSUME NEW n \in 0 .. MaxObj
    PROVE  Bits(n) \in SUBSET SizeBits /\ SizeOf[Bits(n)] = n
BY DEF Bits

LEMMA ValuesAre ==
    ASSUME NEW id \in Ids, NEW val \in Objects[id]
    PROVE  val \in Seq(Word) /\ Len(val) \in Nat
<1>1. Objects[id] \in SUBSET Seq(Word)
  OBVIOUS
<1> QED BY <1>1

LEMMA HeaderReads ==
    ASSUME NEW w, IsHeader(w)
    PROVE  w \in Word /\ w # Free /\ RecLen(w) \in 1 .. MaxObj + 1
BY WordsAre DEF IsHeader

(* A header reads as one: it is not free, and its record has the length it *)
(* was given.                                                              *)
LEMMA HeaderWritten ==
    ASSUME NEW id \in Ids, NEW val \in Objects[id], Len(val) <= MaxObj
    PROVE  /\ IsHeader(Header(id, Len(val))) /\ Valid(Header(id, Len(val)))
           /\ RecLen(Header(id, Len(val))) = 1 + Len(val)
           /\ IdOf(Header(id, Len(val))) = id /\ Size(Header(id, Len(val))) = Len(val)
<1> DEFINE n == Len(val)
           h == Header(id, n)
<1>1. n \in 0 .. MaxObj
  BY ValuesAre
<1>2. Bits(n) \in SUBSET SizeBits /\ SizeOf[Bits(n)] = n
  BY <1>1, BitsAre
<1>3. h = id \cup Bits(n)
  BY DEF Header, Bits
<1>4. id \subseteq IdBits
  OBVIOUS
<1>5. h \in Word /\ h \cap SizeBits = Bits(n) /\ IdOf(h) = id
  BY <1>2, <1>3, <1>4 DEF Word, Free, IdOf
<1>6. Size(h) = n
  BY <1>2, <1>5 DEF Size
<1> HIDE DEF n, h
<1>7. Valid(h) /\ RecLen(h) = 1 + n
  BY <1>1, <1>6 DEF Valid, RecLen
<1>8. h # Free
  <2>1. Free \cap SizeBits = SizeBits
    BY DEF Free
  <2>2. SizeOf[SizeBits] \in Nat /\ ~ SizeOf[SizeBits] <= MaxObj
    OBVIOUS
  <2>3. SUFFICES ASSUME h = Free PROVE FALSE
    OBVIOUS
  <2>4. SizeOf[SizeBits] = n
    BY <1>6, <2>1, <2>3 DEF Size
  <2> QED BY <1>1, <2>2, <2>4
<1> QED BY <1>5, <1>6, <1>7, <1>8 DEF IsHeader, n, h

(* The end of a log is free and behind all its records.                    *)
LEMMA LogIs ==
    ASSUME NEW log, NEW S, NEW e, Log(log, S, e)
    PROVE  /\ S \subseteq Addrs /\ e \in Addrs /\ S \cup {e} \subseteq 1 .. BankWords + MaxObj
           /\ log[e] = Free /\ \A a \in S : a < e
<1>1. S \subseteq Addrs /\ e \in Addrs
  BY DEF Log
<1>2. \A a \in Addrs : a \in Nat /\ a \in 1 .. BankWords + MaxObj
  BY DEF Addrs
<1>3. log[e] = Free
  <2>1. e >= e
    BY <1>1, <1>2
  <2> QED BY <1>1, <2>1 DEF Log
<1>4. ASSUME NEW a \in S PROVE a < e
  <2>1. log[a] # Free
    BY HeaderReads DEF Log
  <2>2. ~ a >= e
    BY <1>1, <2>1 DEF Log
  <2> QED BY <1>1, <1>2, <2>2
<1> QED BY <1>1, <1>2, <1>3, <1>4

(* The walk of get_addr_fobj_save goes from record to record and stops at  *)
(* the end of the log, or at one from the limit on.                        *)
LEMMA WalkIs ==
    ASSUME mem \in [Banks -> [Addrs -> Word]], NEW b \in Banks,
           NEW S, NEW e, Log(mem[b], S, e), NEW limit \in Int, limit < BankWords
    PROVE  /\ WalkEnd(b, limit) \in S \cup {e}
           /\ WalkEnd(b, limit) >= limit \/ mem[b][WalkEnd(b, limit)] = Free
<1> DEFINE M == BankWords + MaxObj
           log == mem[b]
           Stops(a) == a >= limit \/ log[a] = Free
           Walk(f) == f = [a \in 1 .. M |-> IF Stops(a) THEN a ELSE f[a + RecLen(log[a])]]
<1>1. M \in Nat /\ BankWords \in Nat /\ Addrs \subseteq 1 .. M
  BY DEF Addrs
<1>2. ASSUME NEW a \in 1 .. M, ~ Stops(a)
      PROVE  a + RecLen(log[a]) \in (a + 1) .. M
  <2>1. a \in Addrs
    BY <1>2 DEF Addrs
  <2>2. RecLen(log[a]) \in 1 .. MaxObj + 1
    BY <2>1, WordsAre
  <2>3. a < limit
    BY <1>2
  <2> DEFINE len == RecLen(log[a])
  <2> HIDE DEF len
  <2>4. a + len \in (a + 1) .. BankWords + MaxObj
    BY <2>2, <2>3 DEF len
  <2> QED BY <2>4 DEF len
<1>3. \E f : Walk(f)
  <2> DEFINE halt == {a \in 1 .. M : Stops(a)}
             next == [a \in 1 .. M |-> IF Stops(a) THEN a ELSE a + RecLen(log[a])]
             out == [a \in 1 .. M |-> a]
             same == [v \in 1 .. M |-> v]
             comb == [a \in 1 .. M |-> same]
  <2>1. Climbs(M, halt, next)
    <3>1. \A a \in 1 .. M : next[a] \in 1 .. M /\ (a \notin halt => a < next[a])
      <4> SUFFICES ASSUME NEW a \in 1 .. M PROVE next[a] \in 1 .. M /\ (a \notin halt => a < next[a])
        OBVIOUS
      <4>1. CASE Stops(a)
        BY <4>1
      <4>2. CASE ~ Stops(a)
        <5> DEFINE c == a + RecLen(log[a])
        <5>1. next[a] = c /\ c \in (a + 1) .. M
          BY <1>2, <4>2
        <5> HIDE DEF c, next
        <5> QED BY <5>1
      <4> HIDE DEF Stops
      <4> QED BY <4>1, <4>2
    <3>2. next = [a \in 1 .. M |-> next[a]]
      OBVIOUS
    <3>3. halt \in SUBSET (1 .. M)
      OBVIOUS
    <3> HIDE DEF next, Stops
    <3> QED BY <3>1, <3>2, <3>3 DEF Climbs
  <2>2. out \in [1 .. M -> 1 .. M] /\ same \in [1 .. M -> 1 .. M]
    OBVIOUS
  <2>3. comb \in [1 .. M -> [1 .. M -> 1 .. M]]
    <3> HIDE DEF same
    <3> QED BY <2>2
  <2> HIDE DEF halt, next, out, comb, M
  <2>4. \E f \in [1 .. M -> 1 .. M] : Solves(f, M, halt, next, out, comb)
    <3>1. M \in Nat
      BY <1>1
    <3>2. out \in [1 .. M -> 1 .. M]
      BY <2>2
    <3> QED BY ONLY <2>1, <2>3, <3>1, <3>2, Recursion
  <2>5. PICK f \in [1 .. M -> 1 .. M] :
           \A a \in 1 .. M : f[a] = IF a \in halt THEN out[a] ELSE comb[a][f[next[a]]]
    BY <2>4 DEF Solves
  <2>6. ASSUME NEW a \in 1 .. M
        PROVE  f[a] = IF Stops(a) THEN a ELSE f[a + RecLen(log[a])]
    <3>1. CASE Stops(a)
      <4>1. a \in halt /\ out[a] = a
        BY <3>1 DEF halt, out
      <4> QED BY <2>5, <3>1, <4>1
    <3>2. CASE ~ Stops(a)
      <4>1. a \notin halt /\ next[a] = a + RecLen(log[a]) /\ next[a] \in 1 .. M
        <5>1. a \notin halt /\ next[a] = a + RecLen(log[a])
          BY <3>2 DEF halt, next
        <5>2. next[a] \in 1 .. M
          BY <2>1 DEF Climbs
        <5> QED BY <5>1, <5>2
      <4>2. comb[a][f[next[a]]] = f[next[a]]
        <5>1. f[next[a]] \in 1 .. M
          BY <2>5, <4>1
        <5> QED BY <5>1 DEF comb
      <4>3. f[a] = comb[a][f[next[a]]]
        BY <2>5, <4>1
      <4> HIDE DEF Stops
      <4> QED BY <3>2, <4>1, <4>2, <4>3
    <3> HIDE DEF Stops
    <3> QED BY <3>1, <3>2
  <2> DEFINE w == [a \in 1 .. M |-> IF Stops(a) THEN a ELSE f[a + RecLen(log[a])]]
  <2>7. f = w
    <3>1. \A a \in 1 .. M : f[a] = w[a]
      BY <2>6
    <3>2. w = [a \in 1 .. M |-> w[a]] /\ f = [a \in 1 .. M |-> f[a]]
      BY <2>5
    <3> HIDE DEF w
    <3> QED BY <3>1, <3>2
  <2> HIDE DEF Stops
  <2> QED BY <2>7
<1> DEFINE g == CHOOSE f : Walk(f)
<1>4. WalkEnd(b, limit) = g[1]
  BY DEF WalkEnd
<1>5. Walk(g)
  <2> HIDE DEF Walk
  <2> QED BY <1>3
<1> DEFINE Good(a) == g[a] \in S \cup {e} /\ (g[a] >= limit \/ log[g[a]] = Free)
           T == {d \in 0 .. M : M - d \in S \cup {e} /\ ~ Good(M - d)}
<1>6. ASSUME NEW a \in S \cup {e}, \A c \in S \cup {e} : c > a => Good(c)
      PROVE  Good(a)
  <2>1. S \cup {e} \subseteq Addrs /\ S \cup {e} \subseteq 1 .. M
    BY LogIs
  <2>2. a \in 1 .. M /\ a \in Nat
    BY <2>1
  <2>3. g[a] = IF Stops(a) THEN a ELSE g[a + RecLen(log[a])]
    <3> HIDE DEF Stops, g
    <3> QED BY <1>5, <2>2
  <2>4. CASE Stops(a)
    <3>1. g[a] = a
      BY <2>3, <2>4
    <3> HIDE DEF g
    <3> QED BY <2>4, <3>1
  <2>5. CASE ~ Stops(a)
    <3>1. a \in S
      <4>1. log[e] = Free
        BY LogIs
      <4> QED BY <2>5, <4>1
    <3> DEFINE c == a + RecLen(log[a])
    <3>2. c \in S \cup {e} /\ c \in (a + 1) .. M
      BY <1>2, <2>2, <2>5, <3>1 DEF Log
    <3>3. c > a
      BY <2>2, <3>2
    <3>4. g[a] = g[c]
      BY <2>3, <2>5
    <3>5. Good(c)
      BY <1>6, <3>2, <3>3
    <3> HIDE DEF g, c
    <3> QED BY <3>4, <3>5
  <2> QED BY <2>4, <2>5
<1> HIDE DEF Good, g
<1>7. T = {}
  <2> SUFFICES ASSUME T # {} PROVE FALSE
    OBVIOUS
  <2>1. PICK x \in T : \A y \in T : x <= y
    <3>1. T \subseteq Nat
      OBVIOUS
    <3> HIDE DEF T
    <3> QED BY <3>1, NatMin
  <2>2. x \in 0 .. M /\ M - x \in S \cup {e} /\ ~ Good(M - x)
    OBVIOUS
  <2>3. ASSUME NEW c \in S \cup {e}, c > M - x PROVE Good(c)
    <3>1. c \in 1 .. M
      BY LogIs
    <3>2. M - c \in 0 .. M /\ M - (M - c) = c /\ ~ x <= M - c
      BY <1>1, <2>2, <2>3, <3>1
    <3>3. M - c \notin T
      <4>1. \A y \in T : x <= y
        BY <2>1
      <4> HIDE DEF T
      <4> QED BY <3>2, <4>1
    <3> QED BY <3>2, <3>3
  <2> QED BY <1>6, <2>2, <2>3
<1>8. Good(1)
  <2>1. M - 1 \in 0 .. M /\ M - (M - 1) = 1 /\ 1 \in S \cup {e}
    BY <1>1 DEF Log
  <2>2. M - 1 \notin T
    <3> HIDE DEF T
    <3> QED BY <1>7
  <2> HIDE DEF M
  <2> QED BY <2>1, <2>2
<1> QED BY <1>4, <1>8 DEF Good

(* get_addr_fobj_save: a record goes to the end of the log, with room for  *)
(* all of it.                                                              *)
LEMMA SaveAddrIsEnd ==
    ASSUME mem \in [Banks -> [Addrs -> Word]], NEW b \in Banks,
           NEW S, NEW e, Log(mem[b], S, e), NEW n \in 0 .. MaxObj, SaveAddr(b, n) # 0
    PROVE  SaveAddr(b, n) = e /\ e + n <= BankWords - 2
<1> DEFINE limit == BankWords - (n + 1)
           stop == WalkEnd(b, limit)
<1>1. limit \in Int /\ limit < BankWords
  OBVIOUS
<1>2. /\ stop \in S \cup {e}
      /\ stop >= limit \/ mem[b][stop] = Free
  BY <1>1, WalkIs
<1>3. stop \in 1 .. BankWords - (n + 2) /\ SaveAddr(b, n) = stop
  BY DEF SaveAddr
<1>4. ~ stop >= limit
  <2> HIDE DEF stop
  <2> QED BY <1>3
<1> HIDE DEF limit, stop
<1>5. stop \notin S
  BY <1>2, <1>4, HeaderReads DEF Log
<1>6. stop = e
  BY <1>2, <1>5
<1>7. e + n <= BankWords - 2
  BY <1>3, <1>6
<1> QED BY <1>3, <1>6, <1>7

(* What get_addr_fobj finds in a log, and the last of the records of an id *)
(* from the place a on, 0 if there is none.                                *)
LastIn(log, id) ==
    LET from[a \in 1 .. BankWords + MaxObj] ==
          IF a >= BankWords - 1 \/ log[a] = Free THEN 0
          ELSE LET later == from[a + RecLen(log[a])] IN
               IF later # 0 THEN later
               ELSE IF Valid(log[a]) /\ IdOf(log[a]) = id THEN a ELSE 0
    IN  from[1]
IsLast(log, S, id, a, r) ==
    \/ r = 0 /\ \A t \in S : a <= t => ~ Shown(log, t, id)
    \/ /\ r \in S /\ a <= r /\ Shown(log, r, id)
       /\ \A t \in S : Shown(log, t, id) => t <= r

(* The walk finds the last record of the id.                               *)
LEMMA LastInIs ==
    ASSUME NEW log \in [Addrs -> Word], NEW S, NEW e, Log(log, S, e), NEW id
    PROVE  IsLast(log, S, id, 1, LastIn(log, id))
<1> DEFINE M == BankWords + MaxObj
           Stops(a) == a >= BankWords - 1 \/ log[a] = Free
           own(a) == IF Valid(log[a]) /\ IdOf(log[a]) = id THEN a ELSE 0
           Rest(f, a) == f[a + RecLen(log[a])]
           Eq(f, a) == IF Stops(a) THEN 0
                       ELSE LET later == Rest(f, a) IN
                            IF later # 0 THEN later
                            ELSE IF Valid(log[a]) /\ IdOf(log[a]) = id THEN a ELSE 0
           Walk(f) == f = [a \in 1 .. M |-> Eq(f, a)]
<1>1. M \in Nat /\ BankWords \in Nat /\ Addrs \subseteq 1 .. M
  BY DEF Addrs
<1>2. ASSUME NEW a \in 1 .. M, ~ Stops(a)
      PROVE  a + RecLen(log[a]) \in (a + 1) .. M
  <2>1. a \in Addrs
    BY <1>2 DEF Addrs
  <2>2. RecLen(log[a]) \in 1 .. MaxObj + 1
    BY <2>1, WordsAre
  <2>3. a < BankWords - 1
    BY <1>2
  <2> DEFINE len == RecLen(log[a])
  <2> HIDE DEF len
  <2>4. a + len \in (a + 1) .. BankWords + MaxObj
    BY <2>2, <2>3 DEF len
  <2> QED BY <2>4 DEF len
<1>3. \E f : Walk(f)
  <2> DEFINE halt == {a \in 1 .. M : Stops(a)}
             next == [a \in 1 .. M |-> IF Stops(a) THEN a ELSE a + RecLen(log[a])]
             out == [a \in 1 .. M |-> 0]
             comb == [a \in 1 .. M |-> [v \in 0 .. M |-> IF v # 0 THEN v ELSE own(a)]]
  <2>1. Climbs(M, halt, next)
    <3>1. \A a \in 1 .. M : next[a] \in 1 .. M /\ (a \notin halt => a < next[a])
      <4> SUFFICES ASSUME NEW a \in 1 .. M PROVE next[a] \in 1 .. M /\ (a \notin halt => a < next[a])
        OBVIOUS
      <4>1. CASE Stops(a)
        BY <4>1
      <4>2. CASE ~ Stops(a)
        <5> DEFINE c == a + RecLen(log[a])
        <5>1. next[a] = c /\ c \in (a + 1) .. M
          BY <1>2, <4>2
        <5> HIDE DEF c, next
        <5> QED BY <5>1
      <4> HIDE DEF Stops
      <4> QED BY <4>1, <4>2
    <3>2. next = [a \in 1 .. M |-> next[a]]
      OBVIOUS
    <3>3. halt \in SUBSET (1 .. M)
      OBVIOUS
    <3> HIDE DEF next, Stops
    <3> QED BY <3>1, <3>2, <3>3 DEF Climbs
  <2>2. out \in [1 .. M -> 0 .. M]
    BY <1>1
  <2>3. comb \in [1 .. M -> [0 .. M -> 0 .. M]]
    <3>1. \A a \in 1 .. M : own(a) \in 0 .. M
      OBVIOUS
    <3> HIDE DEF own
    <3> QED BY <3>1
  <2>a. \A a \in 1 .. M, v \in 0 .. M : comb[a][v] = IF v # 0 THEN v ELSE own(a)
    OBVIOUS
  <2> HIDE DEF halt, next, out, comb, M
  <2>4. \E f \in [1 .. M -> 0 .. M] : Solves(f, M, halt, next, out, comb)
    <3>1. M \in Nat
      BY <1>1
    <3> QED BY ONLY <2>1, <2>2, <2>3, <3>1, Recursion
  <2>5. PICK f \in [1 .. M -> 0 .. M] :
           \A a \in 1 .. M : f[a] = IF a \in halt THEN out[a] ELSE comb[a][f[next[a]]]
    BY <2>4 DEF Solves
  <2>6. ASSUME NEW a \in 1 .. M
        PROVE  f[a] = Eq(f, a)
    <3>1. CASE Stops(a)
      <4>1. a \in halt /\ out[a] = 0
        BY <3>1 DEF halt, out
      <4> QED BY <2>5, <3>1, <4>1
    <3>2. CASE ~ Stops(a)
      <4>1. a \notin halt /\ next[a] = a + RecLen(log[a]) /\ next[a] \in 1 .. M
        <5>1. a \notin halt /\ next[a] = a + RecLen(log[a])
          BY <3>2 DEF halt, next
        <5>2. next[a] \in 1 .. M
          BY <2>1 DEF Climbs
        <5> QED BY <5>1, <5>2
      <4>2. f[next[a]] \in 0 .. M
        BY <2>5, <4>1
      <4>3. f[a] = comb[a][f[next[a]]]
        BY <2>5, <4>1
      <4>4. f[a] = IF f[next[a]] # 0 THEN f[next[a]] ELSE own(a)
        BY <2>a, <4>2, <4>3
      <4>5. f[next[a]] = Rest(f, a)
        BY <4>1
      <4> HIDE DEF Stops, Rest
      <4> QED BY <3>2, <4>4, <4>5
    <3> HIDE DEF Stops, Rest
    <3> QED BY <3>1, <3>2
  <2> DEFINE w == [a \in 1 .. M |-> Eq(f, a)]
  <2>7. f = w
    <3>1. \A a \in 1 .. M : f[a] = w[a]
      <4> HIDE DEF Eq
      <4> QED BY <2>6
    <3>2. w = [a \in 1 .. M |-> w[a]] /\ f = [a \in 1 .. M |-> f[a]]
      BY <2>5
    <3> HIDE DEF w
    <3> QED BY <3>1, <3>2
  <2> HIDE DEF Eq
  <2> QED BY <2>7
<1> DEFINE g == CHOOSE f : Walk(f)
<1>4. LastIn(log, id) = g[1]
  BY DEF LastIn
<1>5. Walk(g)
  <2> HIDE DEF Walk
  <2> QED BY <1>3
<1> HIDE DEF g
<1> DEFINE Good(a) == IsLast(log, S, id, a, g[a])
           T == {d \in 0 .. M : M - d \in S \cup {e} /\ ~ Good(M - d)}
<1>a. S \cup {e} \subseteq Addrs /\ S \cup {e} \subseteq 1 .. M /\ 0 \notin S /\ \A t \in S : t < e
  <2>1. 0 \notin 1 .. M
    OBVIOUS
  <2> QED BY <2>1, LogIs
<1>6. ASSUME NEW a \in S \cup {e}, \A c \in S \cup {e} : c > a => Good(c)
      PROVE  Good(a)
  <2>1. a \in 1 .. M /\ a \in Nat /\ a \in Addrs /\ \A t \in S : t \in Nat /\ t \in Addrs
    BY <1>a DEF Addrs
  <2>2. g[a] = Eq(g, a)
    <3> HIDE DEF Eq
    <3> QED BY <1>5, <2>1
  <2>3. CASE Stops(a)
    <3>1. g[a] = 0
      BY <2>2, <2>3
    <3>2. \A t \in S : ~ a <= t
      <4>1. CASE a >= BankWords - 1
        <5>1. e \in 1 .. BankWords - 1 /\ a \in Nat /\ BankWords \in Nat
          BY <1>a, <2>1 DEF Addrs
        <5> QED BY <1>a, <2>1, <4>1, <5>1
      <4>2. CASE log[a] = Free
        <5>1. a \notin S
          BY <4>2, HeaderReads DEF Log
        <5>2. a = e
          BY <5>1
        <5> QED BY <1>a, <2>1, <5>2
      <4> QED BY <2>3, <4>1, <4>2
    <3> HIDE DEF Stops
    <3> QED BY <3>1, <3>2 DEF IsLast
  <2>4. CASE ~ Stops(a)
    <3>1. a \in S
      <4>1. log[e] = Free
        BY LogIs
      <4> QED BY <2>4, <4>1
    <3> DEFINE c == a + RecLen(log[a])
    <3>2. c \in S \cup {e} /\ c \in (a + 1) .. M
      BY <1>2, <2>1, <2>4, <3>1 DEF Log
    <3>3. c > a /\ c \in Nat
      BY <2>1, <3>2
    <3>4. \A t \in S : a <= t => t = a \/ c <= t
      <4> SUFFICES ASSUME NEW t \in S, a <= t, t # a PROVE c <= t
        OBVIOUS
      <4>1. a < t
        BY <2>1
      <4> QED BY <3>1, <4>1 DEF Log
    <3>5. g[a] = IF g[c] # 0 THEN g[c] ELSE own(a)
      BY <2>2, <2>4
    <3>6. IsLast(log, S, id, c, g[c])
      BY <1>6, <3>2, <3>3
    <3>7. own(a) = IF Shown(log, a, id) THEN a ELSE 0
      BY DEF Shown
    <3> HIDE DEF c, own, Stops, Eq
    <3>8. CASE g[c] # 0
      <4>1. g[c] \in S /\ c <= g[c]
        BY <3>6, <3>8 DEF IsLast
      <4>2. g[c] \in Nat
        BY <2>1, <4>1
      <4>3. a <= g[c]
        BY <2>1, <3>3, <4>1, <4>2
      <4> QED BY <3>5, <3>6, <3>8, <4>1, <4>3 DEF IsLast
    <3>9. CASE g[c] = 0
      <4>1. \A t \in S : c <= t => ~ Shown(log, t, id)
        BY <1>a, <3>6, <3>9 DEF IsLast
      <4>2. CASE Shown(log, a, id)
        <5>1. g[a] = a
          BY <3>5, <3>7, <3>9, <4>2
        <5>2. ASSUME NEW t \in S, Shown(log, t, id) PROVE t <= a
          <6>1. ~ c <= t
            BY <4>1, <5>2
          <6>2. t = a \/ ~ a <= t
            BY <3>4, <6>1
          <6> QED BY <2>1, <6>2
        <5> QED BY <2>1, <3>1, <4>2, <5>1, <5>2 DEF IsLast
      <4>3. CASE ~ Shown(log, a, id)
        <5>1. g[a] = 0
          BY <3>5, <3>7, <3>9, <4>3
        <5> QED BY <3>4, <4>1, <4>3, <5>1 DEF IsLast
      <4> QED BY <4>2, <4>3
    <3> QED BY <3>8, <3>9
  <2> QED BY <2>3, <2>4
<1> HIDE DEF Good
<1>7. T = {}
  <2> SUFFICES ASSUME T # {} PROVE FALSE
    OBVIOUS
  <2>1. PICK x \in T : \A y \in T : x <= y
    <3>1. T \subseteq Nat
      OBVIOUS
    <3> HIDE DEF T
    <3> QED BY <3>1, NatMin
  <2>2. x \in 0 .. M /\ M - x \in S \cup {e} /\ ~ Good(M - x)
    OBVIOUS
  <2>3. ASSUME NEW c \in S \cup {e}, c > M - x PROVE Good(c)
    <3>1. c \in 1 .. M
      BY LogIs
    <3>2. M - c \in 0 .. M /\ M - (M - c) = c /\ ~ x <= M - c
      BY <1>1, <2>2, <2>3, <3>1
    <3>3. M - c \notin T
      <4>1. \A y \in T : x <= y
        BY <2>1
      <4> HIDE DEF T
      <4> QED BY <3>2, <4>1
    <3> QED BY <3>2, <3>3
  <2> QED BY <1>6, <2>2, <2>3
<1>8. Good(1)
  <2>1. M - 1 \in 0 .. M /\ M - (M - 1) = 1 /\ 1 \in S \cup {e}
    BY <1>1 DEF Log
  <2>2. M - 1 \notin T
    <3> HIDE DEF T
    <3> QED BY <1>7
  <2> HIDE DEF M
  <2> QED BY <2>1, <2>2
<1> QED BY <1>4, <1>8 DEF Good

(* The records of a log stay, and so does its end, while the headers of    *)
(* the records and the free words behind them are what they were.          *)
LEMMA LogKept ==
    ASSUME NEW old, NEW new, NEW S, NEW e, Log(old, S, e),
           \A a \in S : new[a] = old[a],
           \A a \in Addrs : a >= e => new[a] = Free
    PROVE  Log(new, S, e)
BY DEF Log

LEMMA EmptyLog ==
    ASSUME NEW log, \A a \in Addrs : log[a] = Free
    PROVE  Log(log, {}, 1)
<1>1. 1 \in Addrs
  BY DEF Addrs
<1> QED BY <1>1 DEF Log

(* A record is appended.                                                   *)
LEMMA LogGrows ==
    ASSUME NEW old, NEW new, NEW S, NEW e, Log(old, S, e), IsHeader(new[e]),
           NEW n \in Nat, RecLen(new[e]) = 1 + n, e + n <= BankWords - 2,
           \A a \in Addrs : a # e => new[a] = old[a]
    PROVE  Log(new, S \cup {e}, e + n + 1) /\ S \cup {e} \in SUBSET (1 .. e)
<1>1. /\ S \subseteq Addrs /\ e \in Addrs /\ e \in Nat
      /\ \A a \in Addrs : a \in Nat
  BY LogIs DEF Addrs
<1>2. ASSUME NEW a \in S PROVE a < e /\ a # e /\ a \in Nat /\ a \in 1 .. e
  <2>1. a \in Addrs /\ a < e
    BY LogIs
  <2> QED BY <1>1, <2>1 DEF Addrs
<1> DEFINE end == e + n + 1
<1>3. end \in Addrs /\ e < end /\ end \in Nat /\ e + RecLen(new[e]) = end
  <2>1. e \in 1 .. BankWords - 1
    BY <1>1 DEF Addrs
  <2>2. BankWords \in Nat /\ n \in Nat /\ e + n <= BankWords - 2
    OBVIOUS
  <2>3. end \in 1 .. (BankWords - 1) /\ e < end /\ end = e + (1 + n)
    BY ONLY <2>1, <2>2
  <2> HIDE DEF end
  <2> QED BY <2>3 DEF Addrs
<1> HIDE DEF end
<1>4. ASSUME NEW a \in S
      PROVE  /\ IsHeader(new[a]) /\ a + RecLen(new[a]) \in S \cup {e}
             /\ \A c \in (S \cup {e}) \cup {end} : a < c => a + RecLen(new[a]) <= c
  <2>1. new[a] = old[a]
    BY <1>1, <1>2
  <2>2. /\ IsHeader(old[a]) /\ a + RecLen(old[a]) \in S \cup {e}
        /\ \A c \in S \cup {e} : a < c => a + RecLen(old[a]) <= c
    BY DEF Log
  <2> DEFINE next == a + RecLen(old[a])
  <2>3. next <= end
    <3>1. next \in S \cup {e}
      BY <2>2
    <3>2. \A c \in S \cup {e} : c < end
      <4>1. e \in Nat /\ e < end /\ end \in Nat
        BY <1>1, <1>3
      <4>2. \A c \in S : c \in Nat /\ c < e
        BY <1>2
      <4> QED BY ONLY <4>1, <4>2
    <3>3. \A c \in S \cup {e} : c \in Nat
      BY <1>1, <1>2
    <3> HIDE DEF next
    <3> QED BY ONLY <1>3, <3>1, <3>2, <3>3
  <2> QED BY <2>1, <2>2, <2>3
<1>5. \A c \in (S \cup {e}) \cup {end} : e < c => e + RecLen(new[e]) <= c
  BY <1>1, <1>2, <1>3
<1>6. ASSUME NEW a \in Addrs, a >= end PROVE new[a] = Free
  <2>1. a \in Nat
    BY <1>1
  <2>2. a >= e /\ a # e
    BY <1>1, <1>3, <1>6, <2>1
  <2> QED BY <2>2 DEF Log
<1>7. 1 \in (S \cup {e}) \cup {end}
  BY DEF Log
<1>8. \A a \in S \cup {e} :
         /\ IsHeader(new[a]) /\ a + RecLen(new[a]) \in (S \cup {e}) \cup {end}
         /\ \A c \in (S \cup {e}) \cup {end} : a < c => a + RecLen(new[a]) <= c
  BY <1>3, <1>4, <1>5
<1>9. Log(new, S \cup {e}, end)
  BY <1>1, <1>3, <1>6, <1>7, <1>8 DEF Log
<1>10. S \cup {e} \in SUBSET (1 .. e)
  <2>1. e \in 1 .. e
    BY <1>1 DEF Addrs
  <2> QED BY <1>2, <2>1
<1> QED BY <1>9, <1>10 DEF end

LEMMA OneRecord ==
    ASSUME NEW log, IsHeader(log[1]), Begun(log)
    PROVE  Log(log, {1}, 1 + RecLen(log[1])) /\ 1 + RecLen(log[1]) \in Addrs
<1> DEFINE len == RecLen(log[1])
<1>1. len \in Nat /\ 1 + len \in Addrs /\ 1 \in Addrs
  <2>1. len \in 1 .. MaxObj + 1
    BY HeaderReads
  <2> HIDE DEF len
  <2> QED BY <2>1 DEF Addrs
<1>2. \A a \in Addrs : a >= 1 + len => log[a] = Free
  <2>1. \A a \in Addrs : a >= 1 + len => a > 1
    <3>1. len \in 1 .. MaxObj + 1
      BY HeaderReads
    <3> HIDE DEF len
    <3> QED BY <3>1 DEF Addrs
  <2> QED BY <2>1 DEF Begun
<1>3. \A c \in {1} \cup {1 + len} : 1 < c => 1 + len <= c
  <2> HIDE DEF len
  <2> QED BY <1>1
<1> QED BY <1>1, <1>2, <1>3 DEF Log

LEMMA BegunIsLog ==
    ASSUME NEW log \in [Addrs -> Word], Begun(log)
    PROVE  \E S \in SUBSET Addrs, e \in Addrs : Log(log, S, e)
<1>0. 1 \in Addrs /\ \A a \in Addrs : a = 1 \/ a > 1
  BY DEF Addrs
<1>1. CASE log[1] = Free
  <2>1. \A a \in Addrs : log[a] = Free
    BY <1>0, <1>1 DEF Begun
  <2>2. Log(log, {}, 1)
    BY <2>1, EmptyLog
  <2> QED BY <1>0, <2>2
<1>2. CASE log[1] # Free
  <2> DEFINE len == RecLen(log[1])
  <2>1. IsHeader(log[1])
    BY <1>0, <1>2 DEF IsHeader
  <2>2. Log(log, {1}, 1 + len) /\ 1 + len \in Addrs
    BY <2>1, OneRecord
  <2> HIDE DEF len
  <2> QED BY <1>0, <2>2
<1> QED BY <1>1, <1>2

LEMMA LogInvInit == Init => LogInv
<1> SUFFICES ASSUME Init PROVE LogInv
  OBVIOUS
<1>1. ASSUME NEW b \in Banks PROVE \E S \in SUBSET Addrs, e \in Addrs : Log(mem[b], S, e)
  <2>1. Log(mem[b], {}, 1) /\ 1 \in Addrs
    <3>1. \A a \in Addrs : mem[b][a] = Free
      BY DEF Init
    <3> QED BY <3>1, EmptyLog DEF Addrs
  <2> QED BY <2>1
<1> QED BY <1>1 DEF Init, LogInv, LogsInv, CallInv, CopyInv, HeaderInv, DataInv

LEMMA WriteLogInv ==
    ASSUME IInv, LogInv, NEW id \in Ids, NEW val \in Objects[id], Write(id, val)
    PROVE  LogInv'
<1>1. mem' = mem /\ LogsInv'
  BY DEF Write, LogInv, LogsInv
<1>2. CASE Value(id) = val
  <2>1. call' = None
    BY <1>2 DEF Write
  <2> QED BY <1>1, <2>1 DEF LogInv, CallInv, CopyInv, HeaderInv, DataInv
<1>3. CASE Value(id) # val
  <2> DEFINE a == SaveAddr(Current, Len(val))
  <2>1. /\ call' = [key |-> id, val |-> val] /\ Len(val) <= MaxObj
        /\ at' = IF a = 0 THEN [step |-> "pack"] ELSE [step |-> "header", bank |-> Current, addr |-> a]
    BY <1>3 DEF Write
  <2>2. Len(val) \in 0 .. MaxObj
    BY <2>1, ValuesAre
  <2>3. CallInv'
    BY <2>1 DEF CallInv
  <2>4. CASE a = 0
    BY <1>1, <2>1, <2>3, <2>4 DEF LogInv, CopyInv, HeaderInv, DataInv
  <2>5. CASE a # 0
    <3>1. Current \in Banks /\ mem \in [Banks -> [Addrs -> Word]]
      <4>1. counter \in [Banks -> Nat]
        BY DEF IInv, TypeOK
      <4> QED BY <4>1, LowestIs DEF Current, IInv, TypeOK
    <3>2. PICK S \in SUBSET Addrs, e \in Addrs : Log(mem[Current], S, e)
      BY <3>1 DEF LogInv, LogsInv
    <3>3. a = e /\ e + Len(val) <= BankWords - 2
      BY <2>2, <2>5, <3>1, <3>2, SaveAddrIsEnd
    <3>4. at' = [step |-> "header", bank |-> Current, addr |-> e]
      <4> HIDE DEF a
      <4> QED BY <2>1, <2>5, <3>3
    <3>5. HeaderInv'
      BY <1>1, <2>1, <3>2, <3>3, <3>4 DEF HeaderInv
    <3> QED BY <1>1, <2>3, <3>4, <3>5 DEF LogInv, CopyInv, DataInv
  <2> QED BY <2>4, <2>5
<1> QED BY <1>2, <1>3

LEMMA ReturnLogInv ==
    ASSUME LogsInv', Return(TRUE) \/ Return(FALSE)
    PROVE  LogInv'
BY DEF Return, LogInv, CallInv, CopyInv, HeaderInv, DataInv

LEMMA PackEraseLogInv ==
    ASSUME IInv, LogInv, PackErase
    PROVE  LogInv'
<1> DEFINE t == PackTarget
           s == Current
           blank == [a \in Addrs |-> Free]
<1>1. /\ counter \in [Banks -> 0 .. Erased] /\ counter \in [Banks -> Nat]
      /\ mem \in [Banks -> [Addrs -> Word]] /\ call # None
  BY DEF IInv, TypeOK, PackErase
<1>2. t \in Banks /\ t # s
  BY <1>1, PackTargetIs DEF IInv, InFlight
<1>3. s \in Banks
  BY <1>1, LowestIs DEF Current
<1>4. /\ mem' = [mem EXCEPT ![t] = blank] /\ call' = call
      /\ at' = [step |-> "copy", to |-> t, from |-> s, scan |-> 1]
  BY DEF PackErase
<1>5. \A a \in Addrs : blank[a] = Free
  OBVIOUS
<1> HIDE DEF t, s, blank
<1>6. mem'[t] = blank /\ \A b \in Banks : b # t => mem'[b] = mem[b]
  BY <1>1, <1>2, <1>4
<1>7. LogsInv'
  <2>1. Log(blank, {}, 1) /\ 1 \in Addrs
    BY <1>5, EmptyLog DEF Addrs
  <2> QED BY <1>6, <2>1 DEF LogInv, LogsInv
<1>8. CopyInv'
  <2>1. PICK S \in SUBSET Addrs, e \in Addrs : Log(mem[s], S, e)
    BY <1>3 DEF LogInv, LogsInv
  <2>2. mem'[s] = mem[s] /\ 1 \in S \cup {e}
    BY <1>2, <1>3, <1>6, <2>1 DEF Log
  <2>3. Log(mem'[s], S, e)
    BY <2>1, <2>2
  <2>4. \A a \in Addrs : mem'[t][a] = Free
    BY <1>5, <1>6
  <2> QED BY <1>4, <2>2, <2>3, <2>4 DEF CopyInv, Begun
<1> QED BY <1>4, <1>7, <1>8 DEF LogInv, CallInv, HeaderInv, DataInv

LEMMA PackCountLogInv ==
    ASSUME IInv, LogInv, PackCount
    PROVE  LogInv'
<1> DEFINE a == SaveAddr(at.to, Len(call.val))
<1>1. /\ call \in Calls /\ call # None /\ at \in Steps /\ at.step = "copy"
      /\ mem \in [Banks -> [Addrs -> Word]] /\ mem' = mem
  BY DEF IInv, TypeOK, PackCount, InFlight
<1>2. at.to \in Banks
  BY <1>1 DEF Steps
<1>3. LogsInv'
  BY <1>1 DEF LogInv, LogsInv
<1>4. CASE a = 0
  <2>1. Return(FALSE)
    BY <1>4 DEF PackCount
  <2> QED BY <1>3, <2>1, ReturnLogInv
<1>5. CASE a # 0
  <2>1. at' = [step |-> "header", bank |-> at.to, addr |-> a] /\ call' = call
    BY <1>5 DEF PackCount
  <2>2. Len(call.val) \in 0 .. MaxObj
    BY <1>1, ValuesAre DEF LogInv, CallInv
  <2>3. PICK S \in SUBSET Addrs, e \in Addrs : Log(mem[at.to], S, e)
    BY <1>2 DEF LogInv, LogsInv
  <2>4. a = e /\ e + Len(call.val) <= BankWords - 2
    BY <1>1, <1>2, <1>5, <2>2, <2>3, SaveAddrIsEnd
  <2> HIDE DEF a
  <2>5. HeaderInv'
    BY <1>1, <2>1, <2>3, <2>4 DEF HeaderInv
  <2> QED BY <1>3, <2>1, <2>5 DEF LogInv, CallInv, CopyInv, DataInv
<1> QED BY <1>4, <1>5

(* One pass of the copy loop: whatever lands on the first word of the new  *)
(* bank, nothing is behind it.                                             *)
LEMMA PackCopyLogInv ==
    ASSUME IInv, LogInv, PackCopy
    PROVE  LogInv'
<1> DEFINE from == mem[at.from]
           w == from[at.scan]
<1>1. /\ call \in Calls /\ call # None /\ at \in Steps /\ at.step = "copy"
      /\ w # Free /\ call' = call
      /\ mem \in [Banks -> [Addrs -> Word]]
      /\ at' = [at EXCEPT !.scan = @ + RecLen(w)]
      /\ at.from # at.to
  BY DEF IInv, TypeOK, PackCopy, InFlight, Scanning, PackBehindCurrent
<1>2. at \in [step : {"copy"}, to : Banks, from : Banks, scan : 1 .. BankWords + MaxObj]
  BY <1>1 DEF Steps
<1>3. PICK S \in SUBSET Addrs, e \in Addrs : Log(from, S, e) /\ at.scan \in S \cup {e}
  BY <1>1 DEF LogInv, CopyInv
<1>4. at.scan \in S
  <2>1. from[e] = Free
    BY <1>3, LogIs
  <2> QED BY <1>1, <1>3, <2>1
<1>5. at.scan + RecLen(w) \in S \cup {e}
  BY <1>3, <1>4 DEF Log
<1>6. mem' \in [Banks -> [Addrs -> Word]] /\ Begun(mem'[at.to])
  <2>1. Begun(mem[at.to])
    BY <1>1 DEF LogInv, CopyInv
  <2>2. \A a \in Addrs : a > 1 => a # 1
    BY DEF Addrs
  <2> QED BY <2>1, <2>2, PackCopyIs DEF Begun
<1>7. LogsInv'
  <2>1. \E T \in SUBSET Addrs, f \in Addrs : Log(mem'[at.to], T, f)
    <3>1. mem'[at.to] \in [Addrs -> Word]
      BY <1>2, <1>6
    <3> QED BY <1>6, <3>1, BegunIsLog
  <2> QED BY <2>1, PackCopyIs DEF LogInv, LogsInv
<1>8. CopyInv'
  <2> DEFINE next == at.scan + RecLen(w)
  <2>1. at' = [at EXCEPT !.scan = next]
    BY <1>1
  <2>2. next \in S \cup {e}
    BY <1>5
  <2> HIDE DEF next, w
  <2>3. at'.from = at.from /\ at'.to = at.to /\ at'.scan = next
    BY <1>2, <2>1
  <2>4. mem'[at.from] = mem[at.from]
    BY <1>1, <1>2, PackCopyIs
  <2> QED BY <1>3, <1>6, <2>2, <2>3, <2>4 DEF CopyInv
<1>9. at'.step = "copy"
  BY <1>1, <1>2
<1> QED BY <1>1, <1>7, <1>8, <1>9 DEF LogInv, CallInv, HeaderInv, DataInv

(* The call is about to program a word of its record, which is then what   *)
(* it was but for that word.                                               *)
LEMMA ProgramHeaderLogInv ==
    ASSUME IInv, LogInv, ProgramHeader
    PROVE  LogInv'
<1> DEFINE b == at.bank
           e == at.addr
           n == Len(call.val)
           h == Header(call.key, n)
<1>1. /\ call # None /\ call \in Calls /\ at \in Steps /\ at.step = "header"
      /\ mem \in [Banks -> [Addrs -> Word]]
      /\ mem' = [mem EXCEPT ![b][e] = @ \cap h] /\ Advance(0)
      /\ call.key \in Ids /\ call.val \in Objects[call.key] /\ n <= MaxObj
      /\ e + n <= BankWords - 2
  BY DEF IInv, TypeOK, InFlight, LogInv, CallInv, HeaderInv, ProgramHeader, Program
<1>2. b \in Banks /\ e \in Addrs /\ n \in Nat
  BY <1>1, ValuesAre DEF Steps
<1>3. PICK S \in SUBSET Addrs : Log(mem[b], S, e)
  BY <1>1 DEF LogInv, HeaderInv
<1>4. IsHeader(h) /\ RecLen(h) = 1 + n
  BY <1>1, HeaderWritten
<1> HIDE DEF b, e, n, h
<1>5. mem'[b][e] = h
  <2>1. mem[b][e] = Free
    BY <1>3, LogIs
  <2>2. h \subseteq Free
    BY <1>4, HeaderReads DEF Word
  <2>3. mem'[b][e] = mem[b][e] \cap h
    BY <1>1, <1>2
  <2> QED BY <2>1, <2>2, <2>3
<1>6. /\ \A a \in Addrs : a # e => mem'[b][a] = mem[b][a]
      /\ \A d \in Banks : d # b => mem'[d] = mem[d]
  BY <1>1, <1>2
<1> DEFINE end == e + n + 1
<1>7. Log(mem'[b], S \cup {e}, end) /\ S \cup {e} \in SUBSET (1 .. e)
  <2>1. IsHeader(mem'[b][e]) /\ RecLen(mem'[b][e]) = 1 + n /\ e + n <= BankWords - 2
    BY <1>1, <1>4, <1>5
  <2>2. \A a \in Addrs : a # e => mem'[b][a] = mem[b][a]
    BY <1>6
  <2>3. n \in Nat
    BY <1>2
  <2> DEFINE old == mem[b]  new == mem'[b]
  <2>4. Log(old, S, e) /\ IsHeader(new[e]) /\ \A a \in Addrs : a # e => new[a] = old[a]
    BY <1>3, <2>1, <2>2
  <2>5. RecLen(new[e]) = 1 + n /\ e + n <= BankWords - 2
    BY <2>1
  <2> HIDE DEF old, new
  <2>6. Log(new, S \cup {e}, e + n + 1) /\ S \cup {e} \in SUBSET (1 .. e)
    BY ONLY <2>3, <2>4, <2>5, LogGrows
  <2> QED BY <2>6 DEF new
<1>8. LogsInv'
  <2>1. S \cup {e} \in SUBSET Addrs /\ end \in Addrs
    BY <1>7, LogIs
  <2> QED BY <1>6, <1>7, <2>1 DEF LogInv, LogsInv
<1>9. CASE n = 0
  <2>1. Return(TRUE)
    BY <1>1, <1>9 DEF Advance, n
  <2> QED BY <1>8, <2>1, ReturnLogInv
<1>10. CASE n # 0
  <2>1. at' = [step |-> "data", bank |-> b, addr |-> e, done |-> 0] /\ call' = call
    BY <1>1, <1>10 DEF Advance, b, e, n
  <2>2. Len(call'.val) = n
    BY <2>1 DEF n
  <2>3. \A a \in e + 0 + 1 .. e + n : mem'[b][a] = Free
    <3> SUFFICES ASSUME NEW a \in e + 0 + 1 .. e + n PROVE mem'[b][a] = Free
      OBVIOUS
    <3>1. e \in Nat /\ \A c \in e + 0 + 1 .. e + n : c \in Addrs /\ c >= e /\ c # e
      BY <1>1, <1>2 DEF Addrs
    <3>2. a \in Addrs /\ a >= e /\ a # e
      BY <3>1
    <3> QED BY <1>3, <1>6, <3>2 DEF Log
  <2> HIDE DEF end
  <2>4. DataInv'
    <3>1. 0 < n
      BY <1>2, <1>10
    <3>2. at'.done = 0 /\ at'.addr = e /\ at'.bank = b
      BY <2>1
    <3> QED BY <1>1, <1>7, <2>2, <2>3, <3>1, <3>2 DEF DataInv, end
  <2>5. at'.step = "data"
    BY <2>1
  <2> QED BY <1>8, <2>1, <2>4, <2>5 DEF LogInv, CallInv, CopyInv, HeaderInv
<1> QED BY <1>9, <1>10

LEMMA ProgramDataLogInv ==
    ASSUME IInv, LogInv, ProgramData
    PROVE  LogInv'
<1> DEFINE b == at.bank
           e == at.addr
           done == at.done
           n == Len(call.val)
           w == call.val[done + 1]
           end == e + n + 1
           place == e + done + 1
<1>1. /\ call # None /\ call \in Calls /\ at \in Steps /\ at.step = "data"
      /\ mem \in [Banks -> [Addrs -> Word]]
      /\ mem' = [mem EXCEPT ![b][place] = @ \cap w] /\ Advance(done + 1)
      /\ call.key \in Ids /\ call.val \in Objects[call.key]
      /\ done < n /\ e + n <= BankWords - 2
      /\ \A a \in e + done + 1 .. e + n : mem[b][a] = Free
  BY DEF IInv, TypeOK, InFlight, LogInv, CallInv, DataInv, ProgramData, Program
<1>2. b \in Banks /\ e \in Addrs /\ n \in Nat /\ done \in Nat
  BY <1>1, ValuesAre DEF Steps
<1>3. PICK S \in SUBSET (1 .. e) : Log(mem[b], S, end)
  BY <1>1 DEF LogInv, DataInv
<1> HIDE DEF b, e, n, done, w
<1>4. /\ e \in 1 .. BankWords - 1 /\ end \in Nat
      /\ place \in Nat /\ place \in Addrs /\ e < place /\ place < end
  <2>1. /\ e \in 1 .. BankWords - 1 /\ done \in Nat /\ n \in Nat /\ BankWords \in Nat
        /\ done < n /\ e + n <= BankWords - 2
    BY <1>1, <1>2 DEF Addrs
  <2>2. /\ place \in 1 .. BankWords - 1 /\ place \in Nat /\ end \in Nat
        /\ e < place /\ place < end
    BY ONLY <2>1
  <2> HIDE DEF place, end
  <2> QED BY <2>1, <2>2 DEF Addrs
<1> HIDE DEF place, end
<1>5. /\ \A a \in Addrs : a # place => mem'[b][a] = mem[b][a]
      /\ \A d \in Banks : d # b => mem'[d] = mem[d]
  BY <1>1, <1>2
<1>6. Log(mem'[b], S, end)
  <2>1. \A a \in S : a \in Addrs /\ a # place
    <3>1. \A a \in 1 .. e : a # place
      BY <1>4
    <3>2. S \subseteq Addrs
      BY <1>3, LogIs
    <3> QED BY <3>1, <3>2
  <2>2. \A a \in Addrs : a >= end => a # place
    BY <1>4 DEF Addrs
  <2>3. \A a \in S : mem'[b][a] = mem[b][a]
    BY <1>5, <2>1
  <2>4. \A a \in Addrs : a >= end => mem'[b][a] = Free
    BY <1>3, <1>5, <2>2 DEF Log
  <2> QED BY <1>3, <2>3, <2>4, LogKept
<1>7. LogsInv'
  <2>1. S \in SUBSET Addrs /\ end \in Addrs
    BY <1>6, LogIs
  <2> QED BY <1>5, <1>6, <2>1 DEF LogInv, LogsInv
<1>8. CASE done + 1 = n
  <2>1. Return(TRUE)
    BY <1>1, <1>8 DEF Advance, n
  <2> QED BY <1>7, <2>1, ReturnLogInv
<1>9. CASE done + 1 # n
  <2>1. at' = [step |-> "data", bank |-> b, addr |-> e, done |-> done + 1] /\ call' = call
    BY <1>1, <1>9 DEF Advance, b, e, n
  <2>2. Len(call'.val) = n
    BY <2>1 DEF n
  <2>3. \A a \in e + (done + 1) + 1 .. e + n : mem'[b][a] = Free
    <3> SUFFICES ASSUME NEW a \in e + (done + 1) + 1 .. e + n PROVE mem'[b][a] = Free
      OBVIOUS
    <3>1. a \in Int /\ e + done + 1 < a /\ a <= e + n
      BY <1>2, <1>4
    <3>2. a # place /\ a \in e + done + 1 .. e + n
      BY <1>2, <1>4, <3>1 DEF place
    <3>3. a \in Addrs
      BY <1>1, <1>2, <1>4, <3>1 DEF Addrs
    <3> QED BY <1>1, <1>5, <3>2, <3>3
  <2>4. DataInv'
    <3>1. done + 1 < n
      BY <1>1, <1>2, <1>9
    <3>2. at'.done = done + 1 /\ at'.addr = e /\ at'.bank = b
      BY <2>1
    <3> QED BY <1>1, <1>3, <1>6, <2>2, <2>3, <3>1, <3>2 DEF DataInv, end
  <2>5. at'.step = "data"
    BY <2>1
  <2> QED BY <1>7, <2>1, <2>4, <2>5 DEF LogInv, CallInv, CopyInv, HeaderInv
<1> QED BY <1>8, <1>9

LEMMA NextLogInv == IInv /\ LogInv /\ [Next]_vars => LogInv'
<1> SUFFICES ASSUME IInv, LogInv, [Next]_vars PROVE LogInv'
  OBVIOUS
<1>1. ASSUME NEW id \in Ids, Read(id) PROVE LogInv'
  BY <1>1 DEF Read, LogInv, LogsInv, CallInv, CopyInv, HeaderInv, DataInv, Begun
<1>2. ASSUME NEW id \in Ids, NEW val \in Objects[id], Write(id, val) PROVE LogInv'
  BY <1>2, WriteLogInv
<1>3. CASE PackErase
  BY <1>3, PackEraseLogInv
<1>4. CASE PackNoMemory
  BY <1>4, ReturnLogInv DEF PackNoMemory, LogInv, LogsInv
<1>5. CASE PackCopy
  BY <1>5, PackCopyLogInv
<1>6. CASE PackCount
  BY <1>6, PackCountLogInv
<1>7. CASE ProgramHeader
  BY <1>7, ProgramHeaderLogInv
<1>8. CASE ProgramData
  BY <1>8, ProgramDataLogInv
<1>9. CASE PowerLoss
  BY <1>9, ReturnLogInv DEF PowerLoss, LogInv, LogsInv
<1>10. CASE UNCHANGED vars
  BY <1>10 DEF vars, LogInv, LogsInv, CallInv, CopyInv, HeaderInv, DataInv, Begun
<1> QED
  BY <1>1, <1>2, <1>3, <1>4, <1>5, <1>6, <1>7, <1>8, <1>9, <1>10 DEF Next

LEMMA LogInductive == Spec => []LogInv
BY LogInvInit, NextLogInv, Inductive, PTL DEF Spec

(* However often the power fails, during an append or a pack, and whatever *)
(* a pack leaves on the first word of its log, an append finds all the     *)
(* words of its record free and inside the bank.                           *)
THEOREM AppendsAreClean == Spec => []CleanProgram
<1>1. IInv /\ LogInv => CleanProgram
  <2> SUFFICES ASSUME IInv, LogInv, call # None, at.step \in {"header", "data"},
                      NEW a \in (at.addr + (IF at.step = "data" THEN at.done + 1 ELSE 0))
                                .. at.addr + Len(call.val)
               PROVE  a \in Addrs /\ mem[at.bank][a] = Free
    BY DEF CleanProgram
  <2>1. /\ at \in Steps /\ Len(call.val) \in Nat
    BY ValuesAre DEF IInv, TypeOK, InFlight, LogInv, CallInv
  <2>2. CASE at.step = "header"
    <3>1. at.addr \in 1 .. BankWords - 1 /\ at.addr + Len(call.val) <= BankWords - 2
      BY <2>1, <2>2 DEF Steps, Addrs, LogInv, HeaderInv
    <3>2. a \in Addrs /\ a >= at.addr
      BY <2>1, <2>2, <3>1 DEF Addrs
    <3> QED BY <2>2, <3>2 DEF LogInv, HeaderInv, Log
  <2>3. CASE at.step = "data"
    <3>1. at.addr \in 1 .. BankWords - 1 /\ at.done \in Nat /\ at.addr + Len(call.val) <= BankWords - 2
      BY <2>1, <2>3 DEF Steps, Addrs, LogInv, DataInv
    <3>2. a \in at.addr + at.done + 1 .. at.addr + Len(call.val)
      BY <2>1, <2>3, <3>1
    <3>3. a \in Addrs
      BY <2>1, <3>1, <3>2 DEF Addrs
    <3> QED BY <2>3, <3>2, <3>3 DEF LogInv, DataInv
  <2> QED BY <2>2, <2>3
<1> QED BY <1>1, LogInductive, Inductive, PTL

-----------------------------------------------------------------------------
(* What the records hold.                                                  *)
BodyIn(log) ==
    [a \in Addrs |->
        [i \in 1 .. Size(log[a]) |-> IF a + i \in Addrs THEN log[a + i] ELSE Free]]
LookupIn(log, id) ==
    LET a == LastIn(log, id) IN IF a = 0 THEN None ELSE BodyIn(log)[a]

(* An append goes to the bank in force, and what it has written is the     *)
(* last record of its id, as far as it has got.                            *)
AppendInv == call # None /\ at.step \in {"header", "data"} => at.bank = Current
WrittenInv ==
    call # None /\ at.step = "data" =>
        /\ LastIn(mem[at.bank], call.key) = at.addr
        /\ Size(mem[at.bank][at.addr]) = Len(call.val)
        /\ \A i \in 1 .. at.done : mem[at.bank][at.addr + i] = call.val[i]
StoreInv == AppendInv /\ WrittenInv

(* The bank in force is the first of the smallest counter.                 *)
LEMMA LowestUnique ==
    ASSUME NEW c \in [Banks -> Nat], NEW b \in Banks,
           \A d \in Banks : c[b] < c[d] \/ (c[b] = c[d] /\ b <= d)
    PROVE  Lowest(c) = b
<1> DEFINE Low(x) == \A d \in Banks : c[x] < c[d] \/ (c[x] = c[d] /\ x <= d)
           l == Lowest(c)
<1>1. Low(b)
  OBVIOUS
<1>2. l = CHOOSE x \in Banks : Low(x)
  BY DEF Lowest
<1>3. l \in Banks /\ Low(l)
  <2> HIDE DEF Low, l
  <2> QED BY <1>1, <1>2
<1> HIDE DEF l
<1>4. c[b] < c[l] \/ (c[b] = c[l] /\ b <= l)
  BY <1>1, <1>3
<1>5. c[l] < c[b] \/ (c[l] = c[b] /\ l <= b)
  BY <1>3
<1>6. c[b] \in Nat /\ c[l] \in Nat /\ b \in Nat /\ l \in Nat
  BY <1>3 DEF Banks
<1> QED BY <1>4, <1>5, <1>6 DEF l

(* Formatting a flash does not change which bank is in force.              *)
LEMMA FormattedCurrent ==
    ASSUME counter \in [Banks -> 0 .. Erased], counter' = Formatted
    PROVE  Current' = Current
<1>1. CASE \A b \in Banks : counter[b] = Erased
  <2>1. counter' = [counter EXCEPT ![0] = Erased - 1]
    BY <1>1 DEF Formatted
  <2>2. \A b \in Banks : counter'[b] = IF b = 0 THEN Erased - 1 ELSE Erased
    BY <1>1, <2>1
  <2>3. 0 \in Banks /\ \A d \in Banks : 0 <= d
    BY BanksAre DEF Banks
  <2>4. counter \in [Banks -> Nat] /\ counter' \in [Banks -> Nat]
    <3>1. Erased - 1 \in Nat /\ counter \in [Banks -> Nat]
      OBVIOUS
    <3> DEFINE first == Erased - 1
    <3>2. first \in Nat /\ counter' = [counter EXCEPT ![0] = first]
      BY <2>1, <3>1
    <3> HIDE DEF first
    <3> QED BY ONLY <3>1, <3>2
  <2>5. Lowest(counter) = 0
    BY <1>1, <2>3, <2>4, LowestUnique
  <2>6. \A d \in Banks : counter'[0] < counter'[d] \/ (counter'[0] = counter'[d] /\ 0 <= d)
    BY <2>2, <2>3
  <2>7. Lowest(counter') = 0
    BY <2>3, <2>4, <2>6, LowestUnique
  <2> QED BY <2>5, <2>7 DEF Current
<1>2. CASE ~ \A b \in Banks : counter[b] = Erased
  BY <1>2 DEF Formatted, Current
<1> QED BY <1>1, <1>2

(* The counter that a pack ends with puts the new bank in force.           *)
LEMMA CountedCurrent ==
    ASSUME IInv, PackCount
    PROVE  Current' = at.to
<1>1. /\ at \in Steps /\ at.step = "copy" /\ counter \in [Banks -> 0 .. Erased]
      /\ counter \in [Banks -> Nat] /\ at.from = Current /\ at.to # Current
      /\ counter[at.from] > 1
  BY DEF IInv, TypeOK, PackCount, InFlight, PackBehindCurrent
<1>2. at.to \in Banks /\ at.from \in Banks
  BY <1>1 DEF Steps
<1> DEFINE low == counter[at.from] - 1  t == at.to
<1>3. counter' = [counter EXCEPT ![t] = low]
  BY DEF PackCount, NextGeneration
<1>4. low \in Nat /\ \A d \in Banks : low < counter[d]
  <2>1. \A d \in Banks : counter[at.from] <= counter[d]
    BY <1>1, LowestIs DEF Current
  <2> QED BY <1>1, <1>2, <2>1
<1>5. t \in Banks
  BY <1>2
<1> HIDE DEF low, t
<1>6. counter' \in [Banks -> Nat]
  BY <1>1, <1>3, <1>4
<1>7. \A d \in Banks : counter'[t] < counter'[d] \/ (counter'[t] = counter'[d] /\ t <= d)
  <2>1. counter'[t] = low /\ \A d \in Banks : d # t => counter'[d] = counter[d]
    BY <1>1, <1>3, <1>5
  <2>2. t <= t
    BY <1>5 DEF Banks
  <2> QED BY <1>4, <2>1, <2>2
<1>8. Lowest(counter') = t
  BY <1>5, <1>6, <1>7, LowestUnique
<1> QED BY <1>8 DEF Current, t

(* Values, by what the log holds.                                          *)
LEMMA ValuesIn ==
    ASSUME NEW id
    PROVE  /\ Current \in Banks => Value(id) = LookupIn(mem[Current], id)
           /\ Current' \in Banks => Value(id)' = LookupIn(mem'[Current'], id)
BY DEF Value, Lookup, LookupIn, Body, BodyIn, LastRecord, LastIn

(* A record that is shown is as long as its header says.                   *)
LEMMA HeaderHolds ==
    ASSUME NEW w, IsHeader(w)
    PROVE  Size(w) \in Nat /\ (Valid(w) => RecLen(w) = 1 + Size(w) /\ Size(w) \in 0 .. MaxObj)
<1>1. w \in Word
  BY HeaderReads
<1>2. Size(w) \in Nat
  BY <1>1, WordsAre
<1> QED BY <1>2 DEF RecLen, Valid

(* The data of a record lie before the next one.                           *)
LEMMA RecordInside ==
    ASSUME NEW log, NEW S, NEW e, Log(log, S, e), NEW s \in S, Valid(log[s])
    PROVE  /\ IsHeader(log[s]) /\ s \in Nat \ {0} /\ Size(log[s]) \in Nat
           /\ \A c \in S \cup {e} : s < c => s + Size(log[s]) < c
           /\ \A i \in 0 .. Size(log[s]) : s + i \in Addrs /\ s + i < e
<1> DEFINE n == Size(log[s])
<1>1. IsHeader(log[s]) /\ \A c \in S \cup {e} : s < c => s + RecLen(log[s]) <= c
  BY DEF Log
<1>2. n \in Nat /\ RecLen(log[s]) = 1 + n
  BY <1>1, HeaderHolds
<1>3. s \in 1 .. BankWords - 1 /\ e \in 1 .. BankWords - 1 /\ s < e
      /\ \A c \in S \cup {e} : c \in Nat
  BY LogIs DEF Addrs
<1> HIDE DEF n
<1>4. \A c \in S \cup {e} : s < c => s + n < c
  <2>1. \A c \in S \cup {e} : s < c => s + (1 + n) <= c
    BY <1>1, <1>2
  <2> QED BY <1>2, <1>3, <2>1
<1>5. s + n < e
  BY <1>3, <1>4
<1>6. \A i \in 0 .. n : s + i \in 1 .. BankWords - 1 /\ s + i < e
  BY <1>2, <1>3, <1>5
<1> QED BY <1>1, <1>2, <1>3, <1>4, <1>6 DEF n, Addrs

(* The last record of an id is one place.                                  *)
LEMMA LastIsOne ==
    ASSUME NEW log, NEW S, NEW e, Log(log, S, e), NEW new, NEW T, NEW f, Log(new, T, f), NEW id,
           NEW r, IsLast(log, S, id, 1, r), NEW q, IsLast(new, T, id, 1, q),
           \A t : t \in S /\ Shown(log, t, id) <=> t \in T /\ Shown(new, t, id)
    PROVE  r = q
<1>1. /\ \A t \in S : t \in Nat /\ 1 <= t
      /\ \A t \in T : t \in Nat /\ 1 <= t
  BY LogIs DEF Addrs
<1>2. CASE r = 0
  BY <1>1, <1>2 DEF IsLast
<1>3. CASE r # 0
  <2>1. r \in S /\ Shown(log, r, id) /\ \A t \in S : Shown(log, t, id) => t <= r
    BY <1>3 DEF IsLast
  <2>2. r \in T /\ Shown(new, r, id) /\ 1 <= r
    BY <1>1, <2>1
  <2>3. q \in T /\ Shown(new, q, id) /\ \A t \in T : Shown(new, t, id) => t <= q
    BY <2>2 DEF IsLast
  <2>4. q \in S /\ Shown(log, q, id)
    BY <2>3
  <2>5. q <= r /\ r <= q
    BY <2>1, <2>2, <2>3, <2>4
  <2> QED BY <1>1, <2>1, <2>4, <2>5
<1> QED BY <1>2, <1>3

(* A log that gains no record of an id, and keeps those it has, still shows*)
(* the same object.                                                        *)
Keeps(log, S, new, T, id) ==
    /\ S \subseteq T /\ \A t \in T : Shown(new, t, id) => t \in S
    /\ \A s \in S : new[s] = log[s]
    /\ \A s \in S : Shown(log, s, id) =>
          \A i \in 0 .. Size(log[s]) : new[s + i] = log[s + i]

LEMMA LookupKept ==
    ASSUME NEW log \in [Addrs -> Word], NEW S, NEW e, Log(log, S, e),
           NEW new \in [Addrs -> Word], NEW T, NEW f, Log(new, T, f),
           NEW id, Keeps(log, S, new, T, id)
    PROVE  LookupIn(new, id) = LookupIn(log, id)
<1> USE DEF Keeps
<1> DEFINE r == LastIn(log, id)
           q == LastIn(new, id)
<1>1. IsLast(log, S, id, 1, r) /\ IsLast(new, T, id, 1, q)
  BY LastInIs
<1>2. \A t : t \in S /\ Shown(log, t, id) <=> t \in T /\ Shown(new, t, id)
  BY DEF Shown
<1> HIDE DEF r, q
<1>3. r = q
  BY <1>1, <1>2, LastIsOne
<1>4. CASE r = 0
  BY <1>3, <1>4 DEF LookupIn, r, q
<1>5. CASE r # 0
  <2>1. r \in S /\ Shown(log, r, id)
    BY <1>1, <1>5 DEF IsLast
  <2>2. new[r] = log[r] /\ \A i \in 0 .. Size(log[r]) : new[r + i] = log[r + i]
    BY <2>1
  <2> DEFINE n == Size(log[r])
  <2>3. Size(new[r]) = n /\ \A i \in 1 .. n : new[r + i] = log[r + i]
    <3>1. n \in Nat
      BY <2>1, RecordInside DEF Shown
    <3>2. \A i \in 1 .. n : i \in 0 .. n
      OBVIOUS
    <3> QED BY <2>2, <3>2
  <2> HIDE DEF n
  <2>4. BodyIn(new)[r] = BodyIn(log)[r]
    <3>1. r \in Addrs
      BY <2>1 DEF Log
    <3> QED BY <2>3, <3>1 DEF BodyIn, n
  <2> QED BY <1>3, <1>5, <2>4 DEF LookupIn, r, q
<1> QED BY <1>4, <1>5

DataAt(log, r) == [i \in 1 .. Size(log[r]) |-> log[r + i]]

(* The object whose record starts at r, if no later one has its id.        *)
LEMMA LookupAt ==
    ASSUME NEW log \in [Addrs -> Word], NEW S, NEW e, Log(log, S, e),
           NEW id, NEW r \in S, IsLast(log, S, id, 1, r)
    PROVE  /\ LastIn(log, id) = r /\ r # 0
           /\ LookupIn(log, id) = DataAt(log, r)
<1>0. r # 0 /\ Valid(log[r])
  <2>1. r \in Nat \ {0}
    BY LogIs DEF Addrs
  <2> QED BY <2>1 DEF IsLast, Shown
<1>1. r \in Nat \ {0} /\ \A i \in 0 .. Size(log[r]) : r + i \in Addrs
  BY <1>0, RecordInside
<1>2. IsLast(log, S, id, 1, LastIn(log, id))
  BY LastInIs
<1>3. LastIn(log, id) = r
  BY <1>2, LastIsOne
<1> DEFINE n == Size(log[r])
<1>4. \A i \in 1 .. n : r + i \in Addrs
  <2>1. n \in Nat
    BY <1>0, RecordInside
  <2>2. \A i \in 1 .. n : i \in 0 .. n
    OBVIOUS
  <2> QED BY <1>1, <2>2
<1>5. BodyIn(log)[r] = [i \in 1 .. n |-> log[r + i]]
  <2>1. r \in Addrs
    BY DEF Log
  <2>2. BodyIn(log)[r] = [i \in 1 .. n |-> IF r + i \in Addrs THEN log[r + i] ELSE Free]
    BY <2>1 DEF BodyIn, n
  <2> HIDE DEF n
  <2> QED BY <1>4, <2>2
<1> QED BY <1>1, <1>3, <1>5 DEF LookupIn, DataAt

(* Without a record an object is absent.                                   *)
LEMMA LookupNone ==
    ASSUME NEW log \in [Addrs -> Word], NEW S, NEW e, Log(log, S, e),
           NEW id, \A t \in S : ~ Shown(log, t, id)
    PROVE  LastIn(log, id) = 0 /\ LookupIn(log, id) = None
<1>1. IsLast(log, S, id, 1, LastIn(log, id))
  BY LastInIs
<1> QED BY <1>1 DEF IsLast, LookupIn

-----------------------------------------------------------------------------
(* What the abstract store holds.                                          *)
Stored == [id \in Ids |-> Value(id)]

(* A write that found no room is packing.                                  *)
LEMMA PackingIs ==
    /\ call # None /\ at.step \in {"pack", "copy"} => Packing = TRUE
    /\ call = None \/ at.step \in {"header", "data"} => Packing = FALSE
    /\ call' # None /\ at'.step \in {"pack", "copy"} => Packing' = TRUE
    /\ call' = None \/ at'.step \in {"header", "data"} => Packing' = FALSE
BY DEF Packing

(* The store shows what it did if the bank in force is as it was.          *)
LEMMA StoredKept ==
    ASSUME Current \in Banks, Current' = Current, mem'[Current] = mem[Current]
    PROVE  Stored' = Stored
<1>1. \A id \in Ids : Value(id)' = Value(id)
  BY ValuesIn
<1> QED BY <1>1 DEF Stored

(* A step of the code that the store does not see                          *)
LEMMA Stutters ==
    ASSUME Stored' = Stored, UNCHANGED <<call, ret, stray>>, Packing' = Packing
    PROVE  UNCHANGED Store!vars
BY DEF Stored, Store!vars

(* Which bank is in force is defined.                                      *)
LEMMA InForce ==
    ASSUME IInv
    PROVE  /\ Current \in Banks /\ mem[Current] \in [Addrs -> Word]
           /\ counter \in [Banks -> 0 .. Erased] /\ mem \in [Banks -> [Addrs -> Word]]
<1>1. counter \in [Banks -> Nat] /\ counter \in [Banks -> 0 .. Erased] /\ mem \in [Banks -> [Addrs -> Word]]
  BY DEF IInv, TypeOK
<1> QED BY <1>1, LowestIs DEF Current

(* After a call nothing is left to keep.                                   *)
LEMMA ReturnStore ==
    ASSUME Return(TRUE) \/ Return(FALSE)
    PROVE  StoreInv'
BY DEF Return, StoreInv, AppendInv, WrittenInv

(* An erased flash is an empty store.                                      *)
LEMMA InitStore == Init => StoreInv /\ Store!Init
<1> SUFFICES ASSUME Init PROVE StoreInv /\ Store!Init
  OBVIOUS
<1>1. call = None /\ ret = FALSE /\ stray = FALSE /\ mem = [b \in Banks |-> [a \in Addrs |-> Free]]
  BY DEF Init
<1>2. StoreInv
  BY <1>1 DEF StoreInv, AppendInv, WrittenInv
<1>3. ASSUME NEW id \in Ids PROVE Value(id) = None
  <2> DEFINE log == mem[Current]
  <2>1. Current \in Banks
    BY InitIInv, InForce
  <2>2. log \in [Addrs -> Word] /\ \A a \in Addrs : log[a] = Free
    BY <1>1, <2>1, WordsAre
  <2> HIDE DEF log
  <2>3. Log(log, {}, 1)
    BY <2>2, EmptyLog
  <2>4. LookupIn(log, id) = None
    BY <2>2, <2>3, LookupNone
  <2> QED BY <2>1, <2>4, ValuesIn DEF log
<1>4. Packing = FALSE
  BY <1>1, PackingIs
<1> QED BY <1>1, <1>2, <1>3, <1>4 DEF Store!Init

(* flash_read_cfg may format the flash, and changes no object.             *)
LEMMA ReadStore ==
    ASSUME IInv, StoreInv, NEW id \in Ids, Read(id)
    PROVE  StoreInv' /\ UNCHANGED Store!vars
<1>1. /\ call = None /\ counter' = Formatted /\ mem' = mem
      /\ UNCHANGED <<call, ret, stray>>
  BY DEF Read
<1>2. Current' = Current
  BY <1>1, InForce, FormattedCurrent
<1>3. Stored' = Stored
  BY <1>1, <1>2, InForce, StoredKept
<1>4. Packing' = Packing
  BY <1>1 DEF Packing
<1> QED BY <1>1, <1>3, <1>4, Stutters DEF StoreInv, AppendInv, WrittenInv

(* A write that finds the object is done; else it is in flight.            *)
LEMMA WriteStore ==
    ASSUME IInv, StoreInv, NEW id \in Ids, NEW val \in Objects[id], Write(id, val)
    PROVE  StoreInv' /\ (Store!Put(id, val) \/ Store!PutSame(id, val))
<1>1. call = None /\ counter' = Formatted /\ mem' = mem /\ stray' = stray
  BY DEF Write
<1>2. Current' = Current
  BY <1>1, InForce, FormattedCurrent
<1>3. Stored' = Stored
  BY <1>1, <1>2, InForce, StoredKept
<1>4. CASE Value(id) = val
  <2>1. ret' = TRUE /\ call' = call
    BY <1>4 DEF Write
  <2>2. Stored[id] = val
    BY <1>4 DEF Stored
  <2>3. Packing' = Packing
    BY <1>1, <2>1, PackingIs
  <2>5. Store!PutSame(id, val)
    BY <1>1, <1>3, <2>1, <2>2, <2>3 DEF Store!PutSame, Stored
  <2>4. StoreInv'
    BY <1>1, <2>1 DEF StoreInv, AppendInv, WrittenInv
  <2> QED BY <2>4, <2>5
<1>5. CASE Value(id) # val
  <2> DEFINE a == SaveAddr(Current, Len(val))
  <2>1. /\ call' = [key |-> id, val |-> val] /\ ret' = ret
        /\ at' = IF a = 0 THEN [step |-> "pack"] ELSE [step |-> "header", bank |-> Current, addr |-> a]
    BY <1>5 DEF Write
  <2>2. Store!Put(id, val)
    <3>1. Packing' \in BOOLEAN
      BY DEF Packing
    <3> QED BY <1>1, <1>3, <2>1, <3>1 DEF Store!Put, Stored
  <2> HIDE DEF a
  <2>3. at'.step = "pack" \/ (at'.step = "header" /\ at'.bank = Current)
    BY <2>1
  <2>4. StoreInv'
    BY <1>2, <2>3 DEF StoreInv, AppendInv, WrittenInv
  <2> QED BY <2>2, <2>4
<1> QED BY <1>4, <1>5

(* The pack erases a bank that is not in force.                            *)
LEMMA PackEraseStore ==
    ASSUME IInv, PackErase
    PROVE  StoreInv' /\ UNCHANGED Store!vars
<1> DEFINE t == PackTarget
           s == Current
           blank == [a \in Addrs |-> Free]
<1>1. /\ counter \in [Banks -> 0 .. Erased] /\ mem \in [Banks -> [Addrs -> Word]]
      /\ call # None /\ at.step = "pack" /\ s \in Banks
  BY InForce DEF PackErase
<1>2. t \in Banks /\ t # s
  BY <1>1, PackTargetIs DEF IInv, InFlight
<1>3. Current' = s
  BY PackEraseIInv
<1>4. /\ mem' = [mem EXCEPT ![t] = blank] /\ call' = call /\ ret' = ret /\ stray' = stray
      /\ at'.step = "copy"
  BY DEF PackErase
<1> HIDE DEF t, blank
<1>5. mem'[s] = mem[s]
  BY <1>1, <1>2, <1>4
<1>6. Stored' = Stored
  BY <1>3, <1>5, InForce, StoredKept
<1>7. Packing' = Packing
  BY <1>1, <1>4, PackingIs
<1> QED BY <1>4, <1>6, <1>7, Stutters DEF StoreInv, AppendInv, WrittenInv

(* Neither is the one it copies to.                                        *)
LEMMA PackCopyStore ==
    ASSUME IInv, PackCopy
    PROVE  StoreInv' /\ UNCHANGED Store!vars
<1>1. /\ call # None /\ at.step = "copy" /\ at \in Steps /\ at.to # Current
      /\ UNCHANGED <<counter, call, stray, ret>>
  BY DEF IInv, TypeOK, InFlight, PackCopy, PackBehindCurrent
<1>2. at'.step = "copy"
  <2> DEFINE next == at.scan + RecLen(mem[at.from][at.scan])
  <2>1. at' = [at EXCEPT !.scan = next]
    BY DEF PackCopy
  <2> HIDE DEF next
  <2> QED BY <1>1, <2>1 DEF Steps
<1>3. Current' = Current
  BY <1>1 DEF Current
<1>4. Stored' = Stored
  BY <1>1, <1>3, PackCopyIs, InForce, StoredKept
<1>5. Packing' = Packing
  BY <1>1, <1>2, PackingIs
<1> QED BY <1>1, <1>2, <1>4, <1>5, Stutters DEF StoreInv, AppendInv, WrittenInv

(* A pack without memory gives the write up.                               *)
LEMMA PackNoMemoryStore ==
    ASSUME IInv, PackNoMemory
    PROVE  StoreInv' /\ Store!Lose
<1>1. /\ call # None /\ call' = None /\ ret' = TRUE /\ stray' = TRUE
      /\ counter' = counter /\ mem' = mem /\ Return(TRUE) /\ at.step = "pack"
  BY DEF PackNoMemory, Return
<1>2. Stored' = Stored
  BY <1>1, InForce, StoredKept DEF Current
<1>3. Packing = TRUE /\ Packing' = FALSE
  BY <1>1, PackingIs
<1> QED BY <1>1, <1>2, <1>3, ReturnStore DEF Store!Lose, Stored

(* A power failure forgets the write and no object.                        *)
LEMMA PowerLossStore ==
    ASSUME IInv, PowerLoss
    PROVE  StoreInv' /\ Store!PowerLoss
<1>1. /\ call' = None /\ ret' = FALSE /\ stray' = stray
      /\ counter' = counter /\ mem' = mem /\ Return(FALSE)
  BY DEF PowerLoss, Return
<1>2. Stored' = Stored
  BY <1>1, InForce, StoredKept DEF Current
<1>3. Packing' = FALSE
  BY <1>1, PackingIs
<1> QED BY <1>1, <1>2, <1>3, ReturnStore DEF Store!PowerLoss, Stored

-----------------------------------------------------------------------------
(* What the new bank of a pack shows: at most one object, of erased words. *)
LEMMA BegunShows ==
    ASSUME NEW log \in [Addrs -> Word], Begun(log), NEW key \in Ids
    PROVE  \E k \in Ids, v \in Blank \cup {None} :
              \A id \in Ids : LookupIn(log, id) = IF id = k THEN v ELSE None
<1>0. 1 \in Addrs /\ \A a \in Addrs : a = 1 \/ a > 1
  BY DEF Addrs
<1>1. CASE log[1] = Free
  <2>1. \A a \in Addrs : log[a] = Free
    BY <1>0, <1>1 DEF Begun
  <2>2. Log(log, {}, 1)
    BY <2>1, EmptyLog
  <2>3. \A id \in Ids : LookupIn(log, id) = None
    BY <2>2, LookupNone
  <2> QED BY <2>3
<1>2. CASE log[1] # Free
  <2> DEFINE len == RecLen(log[1])
  <2>1. IsHeader(log[1])
    BY <1>0, <1>2 DEF IsHeader
  <2>2. Log(log, {1}, 1 + len)
    BY <2>1, OneRecord
  <2> HIDE DEF len
  <2>3. ASSUME NEW id \in Ids, ~ Shown(log, 1, id) PROVE LookupIn(log, id) = None
    BY <2>2, <2>3, LookupNone
  <2>4. CASE \A id \in Ids : ~ Shown(log, 1, id)
    <3>1. \A id \in Ids : LookupIn(log, id) = None
      BY <2>3, <2>4
    <3> QED BY <3>1
  <2>5. CASE \E id \in Ids : Shown(log, 1, id)
    <3>1. PICK k \in Ids : Shown(log, 1, k)
      BY <2>5
    <3>2. \A id \in Ids : id # k => LookupIn(log, id) = None
      BY <2>3, <3>1 DEF Shown
    <3>3. IsLast(log, {1}, k, 1, 1)
      BY <3>1 DEF IsLast
    <3>4. LookupIn(log, k) = DataAt(log, 1)
      BY <2>2, <3>3, LookupAt
    <3>5. Size(log[1]) \in 0 .. MaxObj
      BY <2>1, <3>1, HeaderHolds DEF Shown
    <3> DEFINE n == Size(log[1])
    <3>6. \A i \in 1 .. n : log[1 + i] = Free
      <4> HIDE DEF n
      <4>1. \A i \in 1 .. n : 1 + i \in Addrs /\ 1 + i > 1
        BY <3>5 DEF Addrs, n
      <4> QED BY <4>1 DEF Begun
    <3>7. DataAt(log, 1) \in Blank
      BY <3>5, <3>6 DEF DataAt, Blank
    <3> QED BY <3>2, <3>4, <3>7
  <2> QED BY <2>4, <2>5
<1> QED BY <1>1, <1>2

(* The steps of a write that move what is stored under its id.             *)
LEMMA Moves ==
    ASSUME NEW v, \A id \in Ids : Value(id)' = IF id = call.key THEN v ELSE Value(id)
    PROVE  Stored' = [Stored EXCEPT ![call.key] = v]
<1>1. Stored' = [id \in Ids |-> Value(id)']
  BY DEF Stored
<1> QED BY <1>1 DEF Stored

(* The new bank takes over, and shows next to nothing.                     *)
LEMMA PackCountStore ==
    ASSUME IInv, LogInv, PackCount
    PROVE  StoreInv' /\ Store!Repack
<1> DEFINE to == mem[at.to]
           a == SaveAddr(at.to, Len(call.val))
<1>1. /\ call # None /\ at \in Steps /\ at.step = "copy"
      /\ mem \in [Banks -> [Addrs -> Word]] /\ mem' = mem /\ stray' = stray
      /\ call.key \in Ids /\ Begun(to)
  BY DEF IInv, TypeOK, PackCount, InFlight, LogInv, CallInv, CopyInv
<1>2. at.to \in Banks /\ to \in [Addrs -> Word]
  BY <1>1 DEF Steps
<1>3. Current' = at.to
  BY CountedCurrent
<1>4. PICK k \in Ids, v \in Blank \cup {None} :
         \A id \in Ids : LookupIn(to, id) = IF id = k THEN v ELSE None
  <2> HIDE DEF to
  <2> QED BY <1>1, <1>2, BegunShows
<1>5. \A id \in Ids : Value(id)' = IF id = k THEN v ELSE None
  <2>1. mem'[Current'] = to /\ Current' \in Banks
    BY <1>1, <1>2, <1>3
  <2> HIDE DEF to
  <2> QED BY <1>4, <2>1, ValuesIn
<1>6. Stored' = [j \in Ids |-> IF j = k THEN v ELSE None]
  <2>1. Stored' = [id \in Ids |-> Value(id)']
    BY DEF Stored
  <2> QED BY <1>5, <2>1
<1>7. Packing = TRUE
  BY <1>1, PackingIs
<1>8. CASE a = 0
  <2>1. Return(FALSE)
    BY <1>8 DEF PackCount
  <2>2. call' = None /\ ret' = FALSE /\ Packing' = FALSE
    BY <2>1, PackingIs DEF Return
  <2>3. Store!Repack
    BY <1>1, <1>6, <1>7, <2>2 DEF Store!Repack, Stored
  <2> QED BY <2>1, <2>3, ReturnStore
<1>9. CASE a # 0
  <2>1. /\ at' = [step |-> "header", bank |-> at.to, addr |-> a]
        /\ call' = call /\ ret' = ret
    BY <1>9 DEF PackCount
  <2> HIDE DEF a
  <2>2. at'.step = "header" /\ at'.bank = Current'
    BY <1>3, <2>1
  <2>3. Packing' = FALSE
    BY <2>2, PackingIs
  <2>4. Store!Repack
    BY <1>1, <1>6, <1>7, <2>1, <2>3 DEF Store!Repack, Stored
  <2> QED BY <2>2, <2>4 DEF StoreInv, AppendInv, WrittenInv
<1> QED BY <1>8, <1>9

(* The object under the id of the write is the new one as far as it was    *)
(* programmed.                                                             *)
LEMMA Shows ==
    ASSUME NEW val \in Seq(Word), NEW k \in 0 .. Len(val),
           NEW f, f = [i \in 1 .. Len(val) |-> IF i <= k THEN val[i] ELSE Free]
    PROVE  f \in Partial(val) /\ (k = Len(val) => f = val)
<1>1. f \in Partial(val)
  BY DEF Partial
<1>2. ASSUME k = Len(val) PROVE f = val
  <2>1. f = [i \in 1 .. Len(val) |-> val[i]]
    BY <1>2
  <2>2. val = [i \in 1 .. Len(val) |-> val[i]]
    OBVIOUS
  <2> QED BY <2>1, <2>2
<1> QED BY <1>1, <1>2

(* From its header on a record hides the one before it.                    *)
LEMMA ProgramHeaderStore ==
    ASSUME IInv, LogInv, StoreInv, ProgramHeader
    PROVE  StoreInv' /\ (Store!Disturb \/ Store!Succeed)
<1> DEFINE b == at.bank
           e == at.addr
           n == Len(call.val)
           h == Header(call.key, n)
           old == mem[b]
           new == mem'[b]
           end == e + n + 1
<1>1. /\ call # None /\ call \in Calls /\ at \in Steps /\ at.step = "header"
      /\ mem \in [Banks -> [Addrs -> Word]] /\ counter' = counter /\ stray' = stray
      /\ mem' = [mem EXCEPT ![b][e] = @ \cap h] /\ Advance(0)
      /\ call.key \in Ids /\ call.val \in Objects[call.key] /\ n <= MaxObj
      /\ e + n <= BankWords - 2 /\ b = Current
  BY DEF IInv, TypeOK, InFlight, LogInv, CallInv, HeaderInv, ProgramHeader, Program, StoreInv, AppendInv
<1>2. b \in Banks /\ e \in Addrs /\ n \in Nat /\ call.val \in Seq(Word)
  BY <1>1, ValuesAre DEF Steps
<1>3. PICK S \in SUBSET Addrs : Log(old, S, e)
  BY <1>1 DEF LogInv, HeaderInv
<1>4. /\ IsHeader(h) /\ RecLen(h) = 1 + n /\ Valid(h)
      /\ IdOf(h) = call.key /\ Size(h) = n
  BY <1>1, HeaderWritten
<1>5. old \in [Addrs -> Word] /\ new \in [Addrs -> Word]
  <2>1. mem' \in [Banks -> [Addrs -> Word]]
    BY ProgramHeaderIInv DEF IInv, TypeOK
  <2> QED BY <1>1, <1>2, <2>1
<1> HIDE DEF h
<1>6. new[e] = h /\ \A x \in Addrs : x # e => new[x] = old[x]
  <2>1. old[e] = Free
    BY <1>3, LogIs
  <2>2. h \subseteq Free
    BY <1>4, HeaderReads DEF Word
  <2> HIDE DEF b, e
  <2>3. new[e] = old[e] \cap h /\ \A x \in Addrs : x # e => new[x] = old[x]
    BY <1>1, <1>2
  <2> HIDE DEF old, new
  <2> QED BY <2>1, <2>2, <2>3 DEF old, b, e
<1> HIDE DEF b, e, n, old, new, end
<1>7. Log(new, S \cup {e}, end)
  <2>1. Log(old, S, e) /\ IsHeader(new[e]) /\ \A x \in Addrs : x # e => new[x] = old[x]
    BY <1>3, <1>4, <1>6
  <2>2. n \in Nat /\ RecLen(new[e]) = 1 + n /\ e + n <= BankWords - 2
    BY <1>1, <1>2, <1>4, <1>6
  <2>3. Log(new, S \cup {e}, e + n + 1) /\ S \cup {e} \in SUBSET (1 .. e)
    BY ONLY <2>1, <2>2, LogGrows
  <2> QED BY <2>3 DEF end
<1>8. ASSUME NEW id \in Ids \ {call.key} PROVE LookupIn(new, id) = LookupIn(old, id)
  <2> DEFINE T == S \cup {e}
  <2>1. \A t \in T : Shown(new, t, id) => t \in S
    BY <1>4, <1>6 DEF Shown
  <2>2. ASSUME NEW s \in S, Shown(old, s, id), NEW i \in 0 .. Size(old[s])
        PROVE  new[s + i] = old[s + i]
    <3>1. s + i \in Addrs /\ s + i < e /\ e \in Nat
      BY <1>2, <1>3, <2>2, RecordInside DEF Addrs, Shown
    <3>2. s + i # e
      <4> DEFINE x == s + i
      <4> HIDE DEF x
      <4> QED BY <3>1 DEF x, Addrs
    <3> QED BY <1>6, <3>1, <3>2
  <2>3. \A s \in S : new[s] = old[s]
    <3>1. \A s \in S : s \in Addrs /\ s < e
      BY <1>3, LogIs
    <3>2. \A s \in S : s # e
      BY <1>2, <3>1 DEF Addrs
    <3> QED BY <1>6, <3>1, <3>2
  <2>4. Log(new, T, end) /\ S \subseteq T
    BY <1>7
  <2> HIDE DEF T
  <2>5. Keeps(old, S, new, T, id)
    BY <2>1, <2>2, <2>3, <2>4 DEF Keeps
  <2> QED BY <1>3, <1>5, <2>4, <2>5, LookupKept
<1>9. /\ LastIn(new, call.key) = e
      /\ LookupIn(new, call.key) = [i \in 1 .. n |-> new[e + i]]
  <2> DEFINE T == S \cup {e}
  <2>1. e \in T /\ IsLast(new, T, call.key, 1, e)
    <3>1. \A s \in S : s \in Addrs /\ s < e
      BY <1>3, LogIs
    <3>2. 1 <= e /\ \A t \in T : t <= e
      BY <1>2, <3>1 DEF Addrs
    <3> QED BY <1>4, <1>6, <3>2 DEF IsLast, Shown
  <2>2. Log(new, T, end)
    BY <1>7
  <2> HIDE DEF T
  <2>3. /\ LastIn(new, call.key) = e
        /\ LookupIn(new, call.key) = DataAt(new, e)
    BY <1>5, <2>1, <2>2, LookupAt
  <2> QED BY <1>4, <1>6, <2>3 DEF DataAt
<1>10. \A i \in 1 .. n : new[e + i] = Free
  <2> SUFFICES ASSUME NEW i \in 1 .. n PROVE new[e + i] = Free
    OBVIOUS
  <2>1. e + i \in Addrs /\ e + i >= e /\ e + i # e
    BY <1>1, <1>2 DEF Addrs
  <2> QED BY <1>3, <1>6, <2>1 DEF Log
<1> DEFINE shown == [i \in 1 .. n |-> IF i <= 0 THEN call.val[i] ELSE Free]
<1>11. LookupIn(new, call.key) = shown
  <2>1. \A i \in 1 .. n : ~ i <= 0
    BY <1>2
  <2> QED BY <1>9, <1>10, <2>1
<1>12. shown \in Partial(call.val) /\ (n = 0 => shown = call.val)
  <2>1. 0 \in 0 .. Len(call.val)
    BY <1>2
  <2> QED BY <1>2, <2>1, Shows DEF n
<1> HIDE DEF shown
<1>13. Current' = b
  BY <1>1 DEF Current
<1>14. \A id \in Ids : Value(id)' = LookupIn(new, id) /\ Value(id) = LookupIn(old, id)
  BY <1>1, <1>13, InForce, ValuesIn DEF old, new
<1>15. Stored' = [Stored EXCEPT ![call.key] = shown]
  <2>1. \A id \in Ids : Value(id)' = IF id = call.key THEN shown ELSE Value(id)
    BY <1>8, <1>11, <1>14
  <2> QED BY <2>1, Moves
<1>16. Packing = FALSE
  BY <1>1, PackingIs
<1>17. CASE n = 0
  <2>1. Return(TRUE)
    BY <1>1, <1>17 DEF Advance, n
  <2>2. call' = None /\ ret' = TRUE /\ Packing' = FALSE
    BY <2>1, PackingIs DEF Return
  <2>3. Stored' = [Stored EXCEPT ![call.key] = call.val]
    BY <1>12, <1>15, <1>17
  <2>4. Store!Succeed
    BY <1>1, <1>16, <2>2, <2>3 DEF Store!Succeed, Stored
  <2> QED BY <2>1, <2>4, ReturnStore
<1>18. CASE n # 0
  <2>1. /\ at' = [step |-> "data", bank |-> b, addr |-> e, done |-> 0]
        /\ call' = call /\ ret' = ret
    BY <1>1, <1>18 DEF Advance, b, e, n
  <2>2. at'.step = "data" /\ at'.bank = b /\ at'.addr = e /\ at'.done = 0
    BY <2>1
  <2>3. Packing' = FALSE
    BY <2>2, PackingIs
  <2>4. Store!Disturb
    BY <1>1, <1>12, <1>15, <1>16, <2>1, <2>3 DEF Store!Disturb, Stored
  <2>5. WrittenInv'
    BY <1>4, <1>6, <1>9, <2>1, <2>2 DEF WrittenInv, new, n
  <2> QED BY <1>13, <2>2, <2>4, <2>5 DEF StoreInv, AppendInv
<1> QED BY <1>17, <1>18

-----------------------------------------------------------------------------
(* Each word of data brings the object nearer to what was written.         *)
LEMMA ProgramDataStore ==
    ASSUME IInv, LogInv, StoreInv, ProgramData
    PROVE  StoreInv' /\ (Store!Disturb \/ Store!Succeed)
<1> DEFINE b == at.bank
           e == at.addr
           done == at.done
           val == call.val
           n == Len(val)
           w == val[done + 1]
           old == mem[b]
           new == mem'[b]
           end == e + n + 1
           place == e + done + 1
<1>1. /\ call # None /\ call \in Calls /\ at \in Steps /\ at.step = "data"
      /\ mem \in [Banks -> [Addrs -> Word]] /\ counter' = counter /\ stray' = stray
      /\ mem' = [mem EXCEPT ![b][place] = @ \cap w] /\ Advance(done + 1)
      /\ call.key \in Ids /\ val \in Objects[call.key]
      /\ done < n /\ e + n <= BankWords - 2 /\ b = Current
      /\ \A x \in e + done + 1 .. e + n : old[x] = Free
      /\ LastIn(old, call.key) = e /\ Size(old[e]) = n
      /\ \A i \in 1 .. done : old[e + i] = val[i]
  BY DEF IInv, TypeOK, InFlight, LogInv, CallInv, DataInv, ProgramData, Program,
         StoreInv, AppendInv, WrittenInv
<1>2. b \in Banks /\ e \in Addrs /\ n \in Nat /\ done \in Nat /\ val \in Seq(Word)
  BY <1>1, ValuesAre DEF Steps
<1>3. PICK S \in SUBSET (1 .. e) : Log(old, S, end)
  BY <1>1 DEF LogInv, DataInv
<1>4. old \in [Addrs -> Word] /\ new \in [Addrs -> Word]
  <2>1. mem' \in [Banks -> [Addrs -> Word]]
    BY ProgramDataIInv DEF IInv, TypeOK
  <2> QED BY <1>1, <1>2, <2>1
<1> HIDE DEF w
<1>5. /\ e \in 1 .. BankWords - 1 /\ end \in Nat /\ place \in Nat /\ place \in Addrs
      /\ e < place /\ place < end /\ place \in e + done + 1 .. e + n
  <2>1. /\ e \in 1 .. BankWords - 1 /\ done \in Nat /\ n \in Nat /\ BankWords \in Nat
        /\ done < n /\ e + n <= BankWords - 2
    BY <1>1, <1>2 DEF Addrs
  <2> HIDE DEF e, done, n
  <2>2. /\ place \in 1 .. BankWords - 1 /\ place \in Nat /\ end \in Nat
        /\ e < place /\ place < end /\ place \in e + done + 1 .. e + n
    BY ONLY <2>1
  <2> HIDE DEF place, end
  <2> QED BY <2>1, <2>2 DEF Addrs
<1>6. new[place] = w /\ \A x \in Addrs : x # place => new[x] = old[x]
  <2>1. old[place] = Free
    BY <1>1, <1>5
  <2>2. w \subseteq Free
    <3>1. done + 1 \in 1 .. n
      BY <1>1, <1>2
    <3>2. w \in Word
      BY <1>2, <3>1 DEF w
    <3> QED BY <3>2 DEF Word
  <2> HIDE DEF b, place
  <2>3. new[place] = old[place] \cap w /\ \A x \in Addrs : x # place => new[x] = old[x]
    <3>1. mem'[b] = [mem[b] EXCEPT ![place] = mem[b][place] \cap w] /\ mem[b] \in [Addrs -> Word]
      BY <1>1, <1>2
    <3> HIDE DEF w
    <3> QED BY <1>5, <3>1
  <2> HIDE DEF old, new
  <2> QED BY <2>1, <2>2, <2>3
<1> HIDE DEF b, e, done, val, n, old, new, end, place
<1>7. \A s \in S : s \in Addrs /\ s \in Nat /\ s <= e /\ s # place
  <2>1. \A s \in 1 .. e : s \in Nat /\ s <= e /\ s # place
    BY <1>5
  <2>2. S \subseteq Addrs
    BY <1>3, LogIs
  <2> QED BY <2>1, <2>2
<1>8. Log(new, S, end)
  <2>1. \A s \in S : new[s] = old[s]
    BY <1>6, <1>7
  <2>2. \A x \in Addrs : x >= end => x # place
    BY <1>5 DEF Addrs
  <2>3. \A x \in Addrs : x >= end => new[x] = Free
    BY <1>3, <1>6, <2>2 DEF Log
  <2> QED BY <1>3, <2>1, <2>3, LogKept
<1>9. e \in S /\ IsLast(old, S, call.key, 1, e)
  <2>1. IsLast(old, S, call.key, 1, LastIn(old, call.key))
    BY <1>3, <1>4, LastInIs
  <2>2. LastIn(old, call.key) = e /\ e # 0
    BY <1>1, <1>5 DEF old, e
  <2> QED BY <2>1, <2>2 DEF IsLast
<1>10. ASSUME NEW id \in Ids \ {call.key} PROVE LookupIn(new, id) = LookupIn(old, id)
  <2>1. ASSUME NEW s \in S, Shown(old, s, id), NEW i \in 0 .. Size(old[s])
        PROVE  new[s + i] = old[s + i]
    <3>1. s # e
      BY <1>9, <2>1 DEF IsLast, Shown
    <3>2. s < e
      BY <1>5, <1>7, <3>1
    <3>3. s + i \in Addrs /\ s \in Nat /\ Size(old[s]) \in Nat /\ s + Size(old[s]) < e
      BY <1>3, <1>9, <2>1, <3>2, RecordInside DEF Shown
    <3>4. s + i # place
      <4> DEFINE m == Size(old[s])
      <4>1. i \in 0 .. m /\ s \in Nat /\ m \in Nat /\ s + m < e
        BY <3>3
      <4> HIDE DEF m
      <4> QED BY <1>5, <4>1
    <3> QED BY <1>6, <3>3, <3>4
  <2>2. \A s \in S : new[s] = old[s]
    BY <1>6, <1>7
  <2>3. Keeps(old, S, new, S, id)
    BY <2>1, <2>2 DEF Keeps, Shown
  <2> QED BY <1>3, <1>4, <1>8, <2>3, LookupKept
<1>11. new[e] = old[e]
  BY <1>6, <1>7, <1>9
<1>12. LastIn(new, call.key) = e /\ LookupIn(new, call.key) = DataAt(new, e)
  <2>1. IsLast(new, S, call.key, 1, e)
    <3>1. \A s \in S : new[s] = old[s]
      BY <1>6, <1>7
    <3> QED BY <1>5, <1>9, <3>1 DEF IsLast, Shown
  <2> QED BY <1>4, <1>8, <1>9, <2>1, LookupAt
<1>13. Size(new[e]) = n
  BY <1>1, <1>11 DEF old, e, n, val
<1>14. ASSUME NEW i \in 1 .. n
       PROVE  new[e + i] = IF i <= done + 1 THEN val[i] ELSE Free
  <2>1. e + i \in Addrs /\ i \in Nat
    <3>1. e + n <= BankWords - 2 /\ BankWords \in Nat
      BY <1>1 DEF e, n, val
    <3>2. e + i \in 1 .. BankWords - 1 /\ i \in Nat
      BY ONLY <1>2, <1>5, <3>1, i \in 1 .. n
    <3> QED BY <3>2 DEF Addrs
  <2>2. CASE i = done + 1
    <3>1. e + i = place
      BY <1>2, <1>5, <2>2 DEF place
    <3> QED BY <1>2, <1>6, <2>2, <3>1 DEF w
  <2>3. CASE i # done + 1
    <3>1. e + i # place
      BY <1>2, <1>5, <2>1, <2>3 DEF place
    <3>2. new[e + i] = old[e + i]
      BY <1>6, <2>1, <3>1
    <3>3. CASE i <= done
      <4>1. i \in 1 .. done /\ i <= done + 1
        BY <1>2, <3>3
      <4>2. old[e + i] = val[i]
        BY <1>1, <4>1 DEF old, e, done, val
      <4> QED BY <3>2, <4>1, <4>2
    <3>4. CASE ~ i <= done
      <4>1. ~ i <= done + 1 /\ e + i \in e + done + 1 .. e + n
        BY <1>2, <1>5, <2>1, <2>3, <3>4
      <4>2. old[e + i] = Free
        BY <1>1, <4>1 DEF old, e, done, n, val
      <4> QED BY <3>2, <4>1, <4>2
    <3> QED BY <3>3, <3>4
  <2> QED BY <2>2, <2>3
<1> DEFINE k == done + 1
           shown == [i \in 1 .. n |-> IF i <= k THEN val[i] ELSE Free]
<1>15. LookupIn(new, call.key) = shown
  BY <1>12, <1>13, <1>14 DEF DataAt
<1>16. k \in 0 .. n /\ k \in 1 .. n
  BY <1>1, <1>2 DEF done, n, val
<1> HIDE DEF k
<1>17. shown \in Partial(val) /\ (k = n => shown = val)
  <2>1. shown = [i \in 1 .. Len(val) |-> IF i <= k THEN val[i] ELSE Free] /\ k \in 0 .. Len(val)
    BY <1>16 DEF n
  <2>2. val \in Seq(Word) /\ n = Len(val)
    BY <1>2 DEF n
  <2> HIDE DEF shown
  <2> QED BY <2>1, <2>2, Shows
<1> HIDE DEF shown
<1>18. Current' = b
  BY <1>1 DEF Current, b
<1>19. \A id \in Ids : Value(id)' = LookupIn(new, id) /\ Value(id) = LookupIn(old, id)
  <2>1. b \in Banks /\ Current = b /\ old = mem[b] /\ new = mem'[b]
    BY <1>1, <1>2 DEF b, old, new
  <2> QED BY <1>18, <2>1, ValuesIn
<1>20. Stored' = [Stored EXCEPT ![call.key] = shown]
  <2>1. \A id \in Ids : Value(id)' = IF id = call.key THEN shown ELSE Value(id)
    BY <1>10, <1>15, <1>19
  <2> QED BY <2>1, Moves
<1>a. Packing = FALSE
  BY <1>1, PackingIs
<1>21. CASE k = n
  <2>1. Return(TRUE)
    BY <1>1, <1>21 DEF Advance, k, n, val, done
  <2>2. Stored' = [Stored EXCEPT ![call.key] = call.val]
    BY <1>17, <1>20, <1>21 DEF val
  <2>3. call' = None /\ ret' = TRUE /\ Packing' = FALSE
    BY <2>1, PackingIs DEF Return
  <2>4. Store!Succeed
    BY <1>1, <1>a, <2>2, <2>3 DEF Store!Succeed, Stored
  <2> QED BY <2>1, <2>4, ReturnStore
<1>22. CASE k # n
  <2>1. /\ at' = [step |-> "data", bank |-> b, addr |-> e, done |-> k]
        /\ call' = call /\ ret' = ret
    BY <1>1, <1>22 DEF Advance, b, e, n, val, done, k
  <2>2. Store!Disturb
    <3>1. Packing' = FALSE
      BY <2>1, PackingIs
    <3> QED BY <1>1, <1>17, <1>20, <1>a, <2>1, <3>1 DEF Store!Disturb, Stored, val
  <2>3. at'.step = "data" /\ at'.bank = b /\ at'.addr = e /\ at'.done = k
    BY <2>1
  <2>4. \A i \in 1 .. k : new[e + i] = val[i]
    <3>1. \A i \in 1 .. k : i \in 1 .. n /\ i <= done + 1
      BY <1>2, <1>16 DEF k
    <3> QED BY <1>14, <3>1
  <2>5. WrittenInv'
    BY <1>12, <1>13, <2>1, <2>3, <2>4 DEF WrittenInv, new, n, val
  <2> QED BY <1>18, <2>2, <2>3, <2>5 DEF StoreInv, AppendInv
<1> QED BY <1>21, <1>22

(* Every step of the code is one of the store, or none.                    *)
LEMMA NextStore ==
    IInv /\ LogInv /\ StoreInv /\ [Next]_vars => StoreInv' /\ [Store!Next]_(Store!vars)
<1> SUFFICES ASSUME IInv, LogInv, StoreInv, [Next]_vars
             PROVE  StoreInv' /\ [Store!Next]_(Store!vars)
  OBVIOUS
<1>1. ASSUME NEW id \in Ids, Read(id) PROVE StoreInv' /\ UNCHANGED Store!vars
  BY <1>1, ReadStore
<1>2. ASSUME NEW id \in Ids, NEW val \in Objects[id], Write(id, val) PROVE StoreInv' /\ Store!Next
  BY <1>2, WriteStore DEF Store!Next
<1>3. CASE PackErase
  BY <1>3, PackEraseStore
<1>4. CASE PackNoMemory
  BY <1>4, PackNoMemoryStore DEF Store!Next
<1>5. CASE PackCopy
  BY <1>5, PackCopyStore
<1>6. CASE PackCount
  BY <1>6, PackCountStore DEF Store!Next
<1>7. CASE ProgramHeader
  BY <1>7, ProgramHeaderStore DEF Store!Next
<1>8. CASE ProgramData
  BY <1>8, ProgramDataStore DEF Store!Next
<1>9. CASE PowerLoss
  BY <1>9, PowerLossStore DEF Store!Next
<1>10. CASE UNCHANGED vars
  <2>1. /\ UNCHANGED <<counter, mem, call, at, stray, ret>>
    BY <1>10 DEF vars
  <2>2. Stored' = Stored
    BY <2>1, InForce, StoredKept DEF Current
  <2>3. UNCHANGED Store!vars
    BY <2>1, <2>2, Stutters DEF Packing
  <2>4. StoreInv'
    BY <2>1 DEF StoreInv, AppendInv, WrittenInv, Current
  <2> QED BY <2>3, <2>4
<1> QED
  BY <1>1, <1>2, <1>3, <1>4, <1>5, <1>6, <1>7, <1>8, <1>9, <1>10 DEF Next

LEMMA StoreInductive == Spec => []StoreInv
<1>1. Init => StoreInv
  BY InitStore
<1>2. IInv /\ LogInv /\ StoreInv /\ [Next]_vars => StoreInv'
  BY NextStore
<1> QED BY <1>1, <1>2, LogInductive, Inductive, PTL DEF Spec

(* Whenever the power fails, during a write or the pack that makes room    *)
(* for it, the code is the map of KvStore: while there is room only the    *)
(* object being written is touched, a success is one unless memory ran     *)
(* out, and a pack leaves at most one object, with erased words for data.  *)
THEOREM StoreIsKept == Spec => StoreRefined
<1>1. Init => Store!Init
  BY InitStore
<1>2. IInv /\ LogInv /\ StoreInv /\ [Next]_vars => [Store!Next]_(Store!vars)
  BY NextStore
<1> QED BY <1>1, <1>2, StoreInductive, LogInductive, Inductive, PTL DEF Spec, StoreRefined, Store!Spec
=============================================================================
