---------------------------- MODULE SyscallsProofs ----------------------------
(***************************************************************************)
(* Theorems on the system calls.  On Syscalls, for any size of memory, of  *)
(* buffers and of the signal table, any arguments and any number of calls. *)
(* On FdTable, for every size of the table, every set of host handles and  *)
(* every set of arguments: the table and the host agree, seeks and         *)
(* transfers report what they did.                                         *)
(***************************************************************************)
EXTENDS Syscalls, FdTable, WellFoundedInduction, TLAPS

-------------------------------------------------------------------------------
(* Syscalls.                                                                 *)

Cells == 0 .. MemWords - 1
Table == 1 .. SigMax - 1

\* The types of the variables the properties relate.
Shape ==
    /\ mem \in Memory
    /\ g_sigactions \in [Table -> Actions]
    /\ installed \in [Table -> SUBSET Actions]
    /\ \A p \in promised : p[1] \in Cells

IInv == Shape /\ ActionsInstalled /\ ResultsKept

\* The two ways a call leaves memory: it answers, having written only in the
\* buffers b it was given and left there what it promises; or it does not come
\* back, and memory is as it was.
Answers ==
    \E r, b, w :
      /\ Returns(r, b, w)
      /\ mem' \in Memory
      /\ \A x \in Cells : x \notin b => mem'[x] = mem[x]
      /\ \A p \in w : p[1] \in Nat /\ (p[1] < MemWords => mem'[p[1]] = p[2])
Quiet == UNCHANGED <<mem, promised>>

\* The signal table after a call: as it was, or as the call promises.
SignalsKept == UNCHANGED <<g_sigactions, installed>>
SignalsSet ==
    /\ g_sigactions' \in [Table -> Actions]
    /\ installed' \in [Table -> SUBSET Actions]
    /\ ActionsInstalled'

LEMMA Sizes ==
    /\ MemWords \in Nat /\ Addresses \in Nat /\ MemWords < Addresses /\ Addresses > 2
    /\ SigMax \in Nat /\ ActWords \in Nat /\ MaskWords \in Nat /\ UtsWords \in Nat
    /\ StatWords \in Nat
    /\ StubSlot \in Nat /\ StubSlot < Addresses - 2
    /\ Stub \in Word /\ ChunkSize \in Word /\ Noise \in Word /\ Text \in Word
    /\ 0 \in Word /\ 1 \in Word /\ Addresses - 1 \in Word
    /\ Values \subseteq Word /\ Pointers \subseteq Word
    /\ Memories \subseteq Memory /\ Lengths \subseteq Nat /\ Signals \subseteq Int
<1>1. /\ MemWords \in Nat /\ Addresses \in Nat /\ MemWords < Addresses
      /\ SigMax \in Nat /\ ActWords \in Nat /\ MaskWords \in Nat /\ UtsWords \in Nat
      /\ StatWords \in Nat
      /\ StubSlot \in Nat /\ StubSlot < Addresses - 2
      /\ Stub \in Word /\ ChunkSize \in Word /\ Noise \in Word /\ Text \in Word
      /\ Values \subseteq Word /\ Pointers \subseteq Word
      /\ Memories \subseteq Memory /\ Lengths \subseteq Nat /\ Signals \subseteq Int
  BY SyscallAssumption
<1>2. Addresses > 2 /\ 0 \in Word /\ 1 \in Word /\ Addresses - 1 \in Word
  BY <1>1 DEF Word
<1>3. QED
  BY <1>1, <1>2

-------------------------------------------------------------------------------
(* What one call does to memory.                                             *)

\* A call that is refused writes nothing.
LEMMA Refused ==
    ASSUME IInv, NEW r, Refuses(r)
    PROVE  Answers /\ SignalsKept
<1>1. Returns(r, {}, {}) /\ mem' = mem /\ SignalsKept
  BY DEF Refuses, Rest, KeepSignals, SignalsKept
<1>2. mem' \in Memory
  BY <1>1 DEF IInv, Shape
<1>3. QED
  BY <1>1, <1>2 DEF Answers

\* A buffer filled through guest_to_host: within memory all of it is written, and
\* no more; otherwise nothing is said.
LEMMA Filling ==
    ASSUME IInv, NEW addr \in Word, NEW n \in Nat, NEW v \in Word, NEW r, Fills(addr, n, v, r)
    PROVE  (Answers \/ Quiet) /\ SignalsKept
<1>1. CASE Overrun
  BY <1>1 DEF Overrun, Quiet, SignalsKept
<1>2. ASSUME Fits(addr, n), mem' = Filled(mem, Region(addr, n), v),
             Returns(r, Region(addr, n), Each(Region(addr, n), v)), Rest
      PROVE  Answers /\ SignalsKept
  <2>1. SignalsKept
    BY <1>2 DEF Rest, KeepSignals, SignalsKept
  <2>2. mem \in [Cells -> Word]
    BY DEF IInv, Shape, Memory, Cells
  <2>3. mem' = [x \in Cells |-> IF x \in Region(addr, n) THEN v ELSE mem[x]]
    BY <1>2, <2>2 DEF Filled
  <2>4. mem' \in Memory
    BY <2>2, <2>3 DEF Memory, Cells
  <2>5. \A p \in Each(Region(addr, n), v) :
           p[1] \in Nat /\ (p[1] < MemWords => mem'[p[1]] = p[2])
    <3> SUFFICES ASSUME NEW x \in Region(addr, n)
                 PROVE  x \in Nat /\ (x < MemWords => mem'[x] = v)
      BY DEF Each
    <3>1. x \in Nat
      BY DEF Region, Word
    <3>2. QED
      BY <2>3, <3>1, Sizes DEF Cells
  <2>6. QED
    BY <1>2, <2>1, <2>3, <2>4, <2>5 DEF Answers
<1>3. QED
  BY <1>1, <1>2 DEF Fills

\* Words written through mem_write32, which drops those outside memory.
LEMMA WordsWritten ==
    ASSUME IInv, NEW ecx \in Word, NEW n \in Nat, NEW v \in Word, Words(ecx, n, v)
    PROVE  Answers /\ SignalsKept
<1> DEFINE at == {Wrap(ecx + i) : i \in 0 .. n - 1}
<1>1. CASE Refuses(0)
  BY <1>1, Refused
<1>2. ASSUME mem' = Filled(mem, at, v), Returns(0, at, Each(at, v)), Rest
      PROVE  Answers /\ SignalsKept
  <2>1. at \subseteq Nat
    BY Sizes DEF Wrap, Word
  <2> HIDE DEF at
  <2>2. SignalsKept
    BY <1>2 DEF Rest, KeepSignals, SignalsKept
  <2>3. mem \in [Cells -> Word]
    BY DEF IInv, Shape, Memory, Cells
  <2>4. mem' = [x \in Cells |-> IF x \in at THEN v ELSE mem[x]]
    BY <1>2, <2>3 DEF Filled
  <2>5. mem' \in Memory
    BY <2>3, <2>4 DEF Memory, Cells
  <2>6. \A p \in Each(at, v) : p[1] \in Nat /\ (p[1] < MemWords => mem'[p[1]] = p[2])
    <3> SUFFICES ASSUME NEW x \in at
                 PROVE  x \in Nat /\ (x < MemWords => mem'[x] = v)
      BY DEF Each
    <3>1. QED
      BY <2>1, <2>4, Sizes DEF Cells
  <2>7. QED
    BY <1>2, <2>2, <2>4, <2>5, <2>6 DEF Answers
<1>3. QED
  BY <1>1, <1>2 DEF Words

-------------------------------------------------------------------------------
(* set_thread_area.                                                          *)

\* Addresses within one turn of the address space wrap at most once.
LEMMA WrapNear ==
    ASSUME NEW x \in Int, -Addresses <= x, x < 2 * Addresses
    PROVE  Wrap(x) = IF x < 0 THEN x + Addresses ELSE IF x < Addresses THEN x ELSE x - Addresses
<1>1. Addresses \in Nat /\ Addresses > 0
  BY Sizes
<1>2. x = Addresses * (x \div Addresses) + (x % Addresses) /\ x \div Addresses \in Int
      /\ x % Addresses \in 0 .. Addresses - 1
  BY <1>1
<1> DEFINE q == x \div Addresses
           r == x % Addresses
<1>3. q \in Int /\ r \in 0 .. Addresses - 1 /\ x = Addresses * q + r
  BY <1>2
<1> HIDE DEF q, r
<1>4. q = -1 \/ q = 0 \/ q = 1
  <2>1. q <= 1
    <3> SUFFICES ASSUME q >= 2 PROVE FALSE
      BY <1>3
    <3>1. Addresses * q >= Addresses * 2
      BY <1>1, <1>3
    <3>2. QED
      BY <1>1, <1>3, <3>1
  <2>2. q >= -1
    <3> SUFFICES ASSUME q <= -2 PROVE FALSE
      BY <1>3
    <3>1. Addresses * q <= Addresses * (-2)
      BY <1>1, <1>3
    <3>2. QED
      BY <1>1, <1>3, <3>1
  <2>3. QED
    BY <1>3, <2>1, <2>2
<1>5. r = IF x < 0 THEN x + Addresses ELSE IF x < Addresses THEN x ELSE x - Addresses
  BY <1>1, <1>3, <1>4
<1>6. QED
  BY <1>5 DEF r, Wrap

\* The slot and the two header words are three different words.
LEMMA AreaApart ==
    ASSUME NEW base \in Word
    PROVE  /\ Wrap(base + StubSlot) \in Word /\ Wrap(base - 2) \in Word /\ Wrap(base - 1) \in Word
           /\ Wrap(base + StubSlot) # Wrap(base - 2)
           /\ Wrap(base + StubSlot) # Wrap(base - 1)
           /\ Wrap(base - 2) # Wrap(base - 1)
<1>1. /\ base \in Nat /\ base < Addresses /\ Addresses \in Nat /\ Addresses > 2
      /\ StubSlot \in Nat /\ StubSlot < Addresses - 2
  BY Sizes DEF Word
<1>2. Wrap(base + StubSlot) = IF base + StubSlot < Addresses THEN base + StubSlot
                              ELSE base + StubSlot - Addresses
  BY <1>1, WrapNear
<1>3. Wrap(base - 2) = IF base < 2 THEN base - 2 + Addresses ELSE base - 2
  BY <1>1, WrapNear
<1>4. Wrap(base - 1) = IF base < 1 THEN base - 1 + Addresses ELSE base - 1
  BY <1>1, WrapNear
<1>5. QED
  BY <1>1, <1>2, <1>3, <1>4 DEF Word

\* One word through mem_write32.
LEMMA OneWord ==
    ASSUME NEW m \in Memory, NEW a \in Word, NEW v \in Word
    PROVE  /\ mem_write32(m, a, v) \in Memory
           /\ a < MemWords => mem_write32(m, a, v)[a] = v
           /\ \A x \in Cells : x # a => mem_write32(m, a, v)[x] = m[x]
BY Sizes DEF Memory, mem_write32, Cells, Word

\* set_thread_area: what is written where, the descriptor's own words included.
LEMMA ThreadArea ==
    ASSUME IInv, NEW desc \in Word, sys_set_thread_area(desc)
    PROVE  (Answers \/ Quiet) /\ SignalsKept
<1> DEFINE base == BaseAddr(mem, desc)
           m1 == IF mem[desc] = Addresses - 1 THEN [mem EXCEPT ![desc] = 0] ELSE mem
           m2 == WithSlot(m1, desc)
           m3 == WithPrevSize(m2, desc)
           m4 == WithSize(m3, desc)
           a1 == Wrap(base + StubSlot)
           a2 == Wrap(base - 2)
           a3 == Wrap(base - 1)
           area == AreaWords(base)
           hit == \E p \in area : p[1] = desc + 1
<1>1. CASE Refuses(EFAULT)
  BY <1>1, Refused
<1>2. CASE Overrun
  BY <1>2 DEF Overrun, Quiet, SignalsKept
<1>3. ASSUME Fits(desc, 2), mem' = m4, UNCHANGED status, KeepSignals,
             IF hit THEN Returns(0, DOMAIN mem, {})
             ELSE Returns(0, {desc} \cup {p[1] : p \in area}, area)
      PROVE  Answers /\ SignalsKept
  <2>1. SignalsKept
    BY <1>3 DEF KeepSignals, SignalsKept
  <2>2. /\ desc \in Cells /\ desc + 1 \in Cells /\ desc \in Nat
        /\ desc \in Word /\ desc + 1 \in Word
    BY <1>3, Sizes DEF Fits, Cells, Word
  <2>3. mem \in Memory
    BY DEF IInv, Shape
  <2>4. m1 \in Memory /\ \A x \in Cells : x # desc => m1[x] = mem[x]
    BY <2>2, <2>3, Sizes DEF Memory, Cells
  <2>5. base \in Word
    BY <2>2, <2>3 DEF BaseAddr, Memory, Cells
  <2>6. /\ a1 \in Word /\ a2 \in Word /\ a3 \in Word
        /\ a1 # a2 /\ a1 # a3 /\ a2 # a3
    BY <2>5, AreaApart
  <2>7. area = {<<a1, Stub>>, <<a2, 0>>, <<a3, ChunkSize>>}
    BY DEF AreaWords
  <2> HIDE DEF m1, m2, m3, m4, a1, a2, a3, area, base
  <2>w. Stub \in Word /\ 0 \in Word /\ ChunkSize \in Word
    BY Sizes
  <2>m. m1 \in Memory
    BY <2>4
  <2>8. m2 \in Memory
    <3>1. BaseAddr(m1, desc) \in Word
      BY <2>2, <2>4 DEF BaseAddr, Memory, Cells
    <3>2. Wrap(BaseAddr(m1, desc) + StubSlot) \in Word
      BY <3>1, AreaApart
    <3>3. QED
      BY <2>4, <3>2, OneWord, Sizes DEF m2, WithSlot
  <2>9. m3 \in Memory
    <3>1. BaseAddr(m2, desc) \in Word
      BY <2>2, <2>8 DEF BaseAddr, Memory, Cells
    <3>2. Wrap(BaseAddr(m2, desc) - 2) \in Word
      BY <3>1, AreaApart
    <3>3. QED
      BY <2>8, <3>2, OneWord, Sizes DEF m3, WithPrevSize
  <2>10. m4 \in Memory
    <3>1. BaseAddr(m3, desc) \in Word
      BY <2>2, <2>9 DEF BaseAddr, Memory, Cells
    <3>2. Wrap(BaseAddr(m3, desc) - 1) \in Word
      BY <3>1, AreaApart
    <3>3. QED
      BY <2>9, <3>2, OneWord, Sizes DEF m4, WithSize
  <2>11. CASE hit
    <3>1. Returns(0, Cells, {})
      BY <1>3, <2>3, <2>11 DEF Memory, Cells
    <3>2. QED
      BY <1>3, <2>1, <2>10, <3>1 DEF Answers
  <2>12. CASE ~hit
    <3>1. a1 # desc + 1 /\ a2 # desc + 1 /\ a3 # desc + 1
      BY <2>7, <2>12
    <3>2. BaseAddr(m1, desc) = base
      BY <2>2, <2>4 DEF BaseAddr, base
    <3>3. /\ a1 < MemWords => m2[a1] = Stub
          /\ \A x \in Cells : x # a1 => m2[x] = m1[x]
      <4>1. m2 = mem_write32(m1, a1, Stub)
        BY <3>2 DEF m2, WithSlot, a1
      <4>2. QED
        BY Zenon, <2>6, <2>m, <2>w, <4>1, OneWord
    <3>4. BaseAddr(m2, desc) = base
      BY <2>2, <3>1, <3>2, <3>3 DEF BaseAddr
    <3>5. /\ a2 < MemWords => m3[a2] = 0
          /\ \A x \in Cells : x # a2 => m3[x] = m2[x]
      <4>1. m3 = mem_write32(m2, a2, 0)
        BY <3>4 DEF m3, WithPrevSize, a2
      <4>2. QED
        BY Zenon, <2>6, <2>8, <2>w, <4>1, OneWord
    <3>6. BaseAddr(m3, desc) = base
      BY <2>2, <3>1, <3>4, <3>5 DEF BaseAddr
    <3>7. /\ a3 < MemWords => m4[a3] = ChunkSize
          /\ \A x \in Cells : x # a3 => m4[x] = m3[x]
      <4>1. m4 = mem_write32(m3, a3, ChunkSize)
        BY <3>6 DEF m4, WithSize, a3
      <4>2. QED
        BY Zenon, <2>6, <2>9, <2>w, <4>1, OneWord
    <3>8. Returns(0, {desc} \cup {p[1] : p \in area}, area)
      BY <1>3, <2>12
    <3>9. {p[1] : p \in area} = {a1, a2, a3}
      BY <2>7
    <3>10. \A x \in Cells : x \notin {desc} \cup {a1, a2, a3} => m4[x] = mem[x]
      BY <2>4, <3>3, <3>5, <3>7
    <3>11. a1 \in Nat /\ a2 \in Nat /\ a3 \in Nat
      BY <2>6, Sizes DEF Word
    <3>12. \A p \in area : p[1] \in Nat /\ (p[1] < MemWords => m4[p[1]] = p[2])
      <4>1. a1 < MemWords => m4[a1] = Stub
        BY <2>6, <3>3, <3>5, <3>7, <3>11, Sizes DEF Cells
      <4>2. a2 < MemWords => m4[a2] = 0
        BY <2>6, <3>5, <3>7, <3>11, Sizes DEF Cells
      <4>3. QED
        BY <2>7, <3>7, <3>11, <4>1, <4>2
    <3>13. QED
      BY <1>3, <2>1, <2>10, <3>8, <3>9, <3>10, <3>12 DEF Answers
  <2>13. QED
    BY <2>11, <2>12
<1>4. QED
  BY <1>1, <1>2, <1>3 DEF sys_set_thread_area

\* _llseek: two words through mem_write32, the second of which may wrap.
LEMMA LlseekResult ==
    ASSUME IInv, NEW ptr \in Word, llseek_result(ptr)
    PROVE  Answers /\ SignalsKept
<1> DEFINE next == Wrap(ptr + 1)
<1>1. CASE \E r : Refuses(r)
  BY <1>1, Refused
<1>2. ASSUME NEW v \in Values, mem' = mem_write32(mem_write32(mem, ptr, v), next, 0),
             Returns(0, {ptr, next}, {<<ptr, v>>, <<next, 0>>}), Rest
      PROVE  Answers /\ SignalsKept
  <2>1. SignalsKept
    BY <1>2 DEF Rest, KeepSignals, SignalsKept
  <2>2. next \in Word /\ next # ptr /\ ptr \in Nat
    <3>1. ptr \in Nat /\ ptr < Addresses /\ Addresses \in Nat /\ Addresses > 2
      BY Sizes DEF Word
    <3>2. next = IF ptr + 1 < Addresses THEN ptr + 1 ELSE ptr + 1 - Addresses
      BY <3>1, WrapNear
    <3>3. QED
      BY <3>1, <3>2 DEF Word
  <2> DEFINE m1 == mem_write32(mem, ptr, v)
             m2 == mem_write32(m1, next, 0)
  <2>3. mem \in Memory /\ v \in Word /\ 0 \in Word
    BY Sizes DEF IInv, Shape
  <2> HIDE DEF next
  <2>4. /\ m1 \in Memory /\ (ptr < MemWords => m1[ptr] = v)
        /\ \A x \in Cells : x # ptr => m1[x] = mem[x]
    BY <2>3, OneWord
  <2>5. mem' = m2
    BY <1>2
  <2> HIDE DEF m1
  <2>6. /\ m2 \in Memory /\ (next < MemWords => m2[next] = 0)
        /\ \A x \in Cells : x # next => m2[x] = m1[x]
    BY <2>2, <2>3, <2>4, OneWord
  <2> HIDE DEF m2
  <2>7. \A x \in Cells : x \notin {ptr, next} => mem'[x] = mem[x]
    BY <2>4, <2>5, <2>6
  <2>8. ptr < MemWords => mem'[ptr] = v
    BY <2>2, <2>4, <2>5, <2>6, Sizes DEF Cells
  <2>9. next \in Nat
    BY <2>2 DEF Word
  <2>10. \A p \in {<<ptr, v>>, <<next, 0>>} :
            p[1] \in Nat /\ (p[1] < MemWords => mem'[p[1]] = p[2])
    BY <2>2, <2>5, <2>6, <2>8, <2>9
  <2>11. QED
    BY <1>2, <2>1, <2>5, <2>6, <2>7, <2>10 DEF Answers
<1>3. QED
  BY <1>1, <1>2 DEF llseek_result

-------------------------------------------------------------------------------
(* rt_sigaction.                                                             *)

LEMMA Sigaction ==
    ASSUME IInv, NEW sig \in Int, NEW act \in Word, NEW oact \in Word,
           sys_rt_sigaction(sig, act, oact)
    PROVE  (Answers \/ Quiet) /\ (SignalsKept \/ SignalsSet)
<1> DEFINE m1 == IF oact # 0 THEN Copied(mem, oact, g_sigactions[sig]) ELSE mem
           given == IF oact # 0 THEN Region(oact, ActWords) ELSE {}
           old == {<<oact + i - 1, a[i]>> : a \in installed[sig], i \in 1 .. ActWords}
           gives == IF oact # 0 THEN old ELSE {}
           apart == given \cap Region(act, ActWords) = {}
           new == NewAction(m1, act)
<1>1. CASE \E r : Refuses(r)
  BY <1>1, Refused
<1>2. CASE Overrun
  BY <1>2 DEF Overrun, Quiet, SignalsKept
<1>3. ASSUME sig \in Table, oact # 0 => Fits(oact, ActWords), mem' = m1,
             NEW r, Returns(r, given, gives),
             \/ KeepSignals
             \/ /\ Fits(act, ActWords)
                /\ g_sigactions' = [g_sigactions EXCEPT ![sig] = new]
                /\ installed' = [installed EXCEPT
                                   ![sig] = IF apart THEN {ActionAt(mem, act)} ELSE {}]
      PROVE  Answers /\ (SignalsKept \/ SignalsSet)
  <2>1. /\ mem \in [Cells -> Word]
        /\ g_sigactions[sig] \in [1 .. ActWords -> Word]
        /\ installed[sig] \subseteq {g_sigactions[sig]}
    BY <1>3 DEF IInv, Shape, Memory, Cells, Actions, Table, ActionsInstalled
  <2>2. /\ act \in Nat /\ oact \in Nat /\ ActWords \in Nat /\ MemWords \in Nat
    BY Sizes DEF Word
  <2>3. m1 \in Memory
    <3>1. CASE oact = 0
      BY <2>1, <3>1 DEF Memory, Cells
    <3>2. CASE oact # 0
      <4>1. m1 = [x \in Cells |-> IF x \in Region(oact, ActWords)
                                  THEN g_sigactions[sig][x - oact + 1] ELSE mem[x]]
        BY <2>1, <3>2 DEF Copied
      <4>2. \A x \in Region(oact, ActWords) : x - oact + 1 \in 1 .. ActWords
        BY <2>2 DEF Region
      <4>3. QED
        BY <2>1, <4>1, <4>2 DEF Memory, Cells
    <3>3. QED
      BY <3>1, <3>2
  <2>4. \A x \in Cells : x \notin given => m1[x] = mem[x]
    BY <2>1 DEF Copied
  <2>5. \A p \in gives : p[1] \in Nat /\ (p[1] < MemWords => m1[p[1]] = p[2])
    <3>1. CASE oact = 0
      BY <3>1
    <3>2. CASE oact # 0
      <4> SUFFICES ASSUME NEW a \in installed[sig], NEW i \in 1 .. ActWords
                   PROVE  oact + i - 1 \in Nat
                          /\ (oact + i - 1 < MemWords => m1[oact + i - 1] = a[i])
        BY <3>2
      <4>1. a = g_sigactions[sig]
        BY <2>1
      <4> DEFINE x == oact + i - 1
      <4>2. x \in Nat /\ x \in Region(oact, ActWords) /\ x - oact + 1 = i
        BY <2>2 DEF Region
      <4>3. x < MemWords => x \in Cells
        BY <2>2, <4>2 DEF Cells
      <4> HIDE DEF x
      <4>4. x \in Cells => m1[x] = a[i]
        BY <2>1, <3>2, <4>1, <4>2 DEF Copied
      <4>5. QED
        BY <4>2, <4>3, <4>4 DEF x
    <3>3. QED
      BY <3>1, <3>2
  <2> HIDE DEF m1, given, gives
  <2>6. Answers
    BY <1>3, <2>3, <2>4, <2>5 DEF Answers
  <2>7. CASE KeepSignals
    BY <2>6, <2>7 DEF KeepSignals, SignalsKept
  <2>8. ASSUME Fits(act, ActWords), g_sigactions' = [g_sigactions EXCEPT ![sig] = new],
               installed' = [installed EXCEPT
                               ![sig] = IF apart THEN {ActionAt(mem, act)} ELSE {}]
        PROVE  SignalsSet
    <3>1. \A i \in 1 .. ActWords : act + i - 1 \in Cells /\ act + i - 1 \in Region(act, ActWords)
      BY <2>2, <2>8 DEF Fits, Cells, Region
    <3>2. new \in Actions
      BY <2>3, <3>1 DEF NewAction, Memory, Actions, Cells
    <3>3. ActionAt(mem, act) \in Actions
      BY <2>1, <3>1 DEF ActionAt, Actions
    <3>4. apart => ActionAt(mem, act) = new
      BY <2>4, <3>1 DEF ActionAt, NewAction
    <3> HIDE DEF new, apart
    <3>5. /\ g_sigactions' \in [Table -> Actions]
          /\ installed' \in [Table -> SUBSET Actions]
      BY <1>3, <2>8, <3>2, <3>3 DEF IInv, Shape
    <3>6. ActionsInstalled'
      <4> SUFFICES ASSUME NEW s \in Table PROVE installed'[s] \subseteq {g_sigactions'[s]}
        BY DEF ActionsInstalled, Table
      <4>1. CASE s = sig
        BY <1>3, <2>8, <3>4, <4>1 DEF IInv, Shape
      <4>2. CASE s # sig
        <5>1. installed'[s] = installed[s] /\ g_sigactions'[s] = g_sigactions[s]
          BY <2>8, <4>2 DEF IInv, Shape
        <5>2. QED
          BY <5>1 DEF IInv, ActionsInstalled, Table
      <4>3. QED
        BY <4>1, <4>2
    <3>7. QED
      BY <3>5, <3>6 DEF SignalsSet
  <2>9. QED
    BY <1>3, <2>6, <2>7, <2>8
<1>4. (\E r : Refuses(r)) \/ Overrun \/
        /\ sig \in Table /\ (oact # 0 => Fits(oact, ActWords)) /\ mem' = m1
        /\ \E r : Returns(r, given, gives)
        /\ \/ KeepSignals
           \/ /\ Fits(act, ActWords)
              /\ g_sigactions' = [g_sigactions EXCEPT ![sig] = new]
              /\ installed' = [installed EXCEPT
                                 ![sig] = IF apart THEN {ActionAt(mem, act)} ELSE {}]
  <2>1. \/ sig \notin 1 .. SigMax - 1 /\ Refuses(EINVAL)
        \/ sig \in 1 .. SigMax - 1 /\ oact # 0 /\ ~guest_to_host(oact) /\ Refuses(EFAULT)
        \/ /\ sig \in 1 .. SigMax - 1
           /\ \/ oact # 0 /\ guest_to_host(oact) /\ ~Fits(oact, ActWords)
              \/ /\ oact # 0 => Fits(oact, ActWords)
                 /\ act # 0 /\ guest_to_host(act) /\ ~Fits(act, ActWords)
           /\ Overrun
        \/ /\ sig \in 1 .. SigMax - 1
           /\ oact # 0 => Fits(oact, ActWords)
           /\ mem' = m1
           /\ \/ act # 0 /\ ~guest_to_host(act) /\ Returns(EFAULT, given, gives) /\ KeepSignals
              \/ act = 0 /\ Returns(0, given, gives) /\ KeepSignals
              \/ /\ act # 0 /\ Fits(act, ActWords)
                 /\ Returns(0, given, gives)
                 /\ g_sigactions' = [g_sigactions EXCEPT ![sig] = new]
                 /\ installed' = [installed EXCEPT
                                    ![sig] = IF apart THEN {ActionAt(mem, act)} ELSE {}]
           /\ UNCHANGED <<g_gs_base, status>>
    BY DEF sys_rt_sigaction
  <2> HIDE DEF m1, given, gives, apart, new
  <2>2. QED
    BY Zenon, <2>1 DEF Table
<1> HIDE DEF m1, given, gives, apart, new
<1>5. QED
  BY <1>1, <1>2, <1>3, <1>4

-------------------------------------------------------------------------------
(* Every step.                                                               *)

\* The guest's own stores.
LEMMA Store ==
    ASSUME IInv, NEW addr \in Cells, NEW v \in Word, GuestStore(addr, v)
    PROVE  Answers /\ SignalsKept
<1>1. /\ mem' = mem_write32(mem, addr, v) /\ Returns(eax, {addr}, {}) /\ SignalsKept
  BY DEF GuestStore, Rest, KeepSignals, SignalsKept
<1>2. mem \in Memory /\ addr \in Word
  BY Sizes DEF IInv, Shape, Cells, Word
<1>3. mem' \in Memory /\ \A x \in Cells : x # addr => mem'[x] = mem[x]
  BY <1>1, <1>2, OneWord
<1>4. QED
  BY <1>1, <1>3 DEF Answers

LEMMA EveryStep ==
    ASSUME IInv, [Next]_vars
    PROVE  (Answers \/ Quiet) /\ (SignalsKept \/ SignalsSet)
<1>1. CASE UNCHANGED vars
  BY <1>1 DEF vars, Quiet, SignalsKept
<1>2. CASE SignalStep
  <2>1. ASSUME NEW sig \in Signals, NEW act \in Pointers, NEW oact \in Pointers,
               sys_rt_sigaction(sig, act, oact)
        PROVE  (Answers \/ Quiet) /\ (SignalsKept \/ SignalsSet)
    <3>1. sig \in Int /\ act \in Word /\ oact \in Word
      BY Sizes
    <3>2. QED
      BY <2>1, <3>1, Sigaction
  <2>2. ASSUME NEW oset \in Pointers, NEW size \in Lengths, sys_rt_sigprocmask(oset, size)
        PROVE  (Answers \/ Quiet) /\ SignalsKept
    <3> DEFINE n == IF size < MaskWords THEN size ELSE MaskWords
    <3>1. oset \in Word /\ n \in Nat /\ 0 \in Word
      BY Sizes
    <3> HIDE DEF n
    <3>2. CASE Refuses(0) \/ Refuses(EFAULT)
      BY <3>2, Refused
    <3>3. CASE Fills(oset, n, 0, 0)
      BY <3>1, <3>3, Filling
    <3>4. QED
      BY <2>2, <3>2, <3>3 DEF sys_rt_sigprocmask, n
  <2>3. QED
    BY <1>2, <2>1, <2>2 DEF SignalStep
<1>3. CASE OtherStep
  <2>1. ASSUME NEW p \in Pointers, sys_set_tid_address(p)
        PROVE  (Answers \/ Quiet) /\ SignalsKept
    <3>1. p \in Word /\ 1 \in Word /\ 1 \in Nat
      BY Sizes
    <3>2. CASE Fills(p, 1, 1, 1)
      BY <3>1, <3>2, Filling
    <3>3. QED
      BY <2>1, <3>2, Refused DEF sys_set_tid_address
  <2>2. ASSUME NEW p \in Pointers, sys_set_thread_area(p)
        PROVE  (Answers \/ Quiet) /\ SignalsKept
    BY <2>2, ThreadArea, Sizes
  <2>3. ASSUME NEW p \in Pointers, sys_uname(p)
        PROVE  (Answers \/ Quiet) /\ SignalsKept
    <3>1. p \in Word /\ Text \in Word /\ UtsWords \in Nat
      BY Sizes
    <3>2. CASE Fills(p, UtsWords, Text, 0)
      BY <3>1, <3>2, Filling
    <3>3. QED
      BY <2>3, <3>2, Refused DEF sys_uname
  <2>4. ASSUME NEW p \in Pointers, clock_gettime(p) \/ clock_gettime64(p) \/ ugetrlimit(p)
        PROVE  (Answers \/ Quiet) /\ SignalsKept
    <3>1. p \in Word /\ 0 \in Word /\ Addresses - 1 \in Word /\ 2 \in Nat /\ 4 \in Nat
      BY Sizes
    <3>2. QED
      BY <2>4, <3>1, WordsWritten DEF clock_gettime, clock_gettime64, ugetrlimit
  <2>5. ASSUME NEW p \in Pointers, NEW len \in Lengths, getrandom(p, len)
        PROVE  (Answers \/ Quiet) /\ SignalsKept
    <3>1. p \in Word /\ Noise \in Word /\ len \in Nat
      BY Sizes
    <3>2. CASE Fills(p, len, Noise, len)
      BY <3>1, <3>2, Filling
    <3>3. QED
      BY <2>5, <3>2, Refused DEF getrandom
  <2>6. CASE getpid \/ getuid32 \/ nothing_to_do \/ stat64 \/ unimplemented
    BY <2>6, Refused DEF getpid, getuid32, nothing_to_do, stat64, unimplemented
  <2>7. CASE sys_exit \/ \E sig \in {6, 9} : tgkill(sig)
    <3>1. CASE Exits
      BY <3>1 DEF Exits, Quiet, SignalsKept
    <3>2. CASE Refuses(0)
      BY <3>2, Refused
    <3>3. QED
      BY <2>7, <3>1, <3>2 DEF sys_exit, tgkill
  <2>8. ASSUME NEW p \in Pointers, llseek_result(p)
        PROVE  (Answers \/ Quiet) /\ SignalsKept
    BY <2>8, LlseekResult, Sizes
  <2>9. ASSUME NEW p \in Pointers, fstat64_buffer(p)
        PROVE  (Answers \/ Quiet) /\ SignalsKept
    <3>1. p \in Word /\ StatWords \in Nat /\ 0 \in Word /\ Values \subseteq Word
      BY Sizes
    <3>2. ASSUME NEW v \in Word, NEW r, Fills(p, StatWords, v, r)
          PROVE  (Answers \/ Quiet) /\ SignalsKept
      BY <3>1, <3>2, Filling
    <3>3. QED
      BY <2>9, <3>1, <3>2, Refused DEF fstat64_buffer
  <2>10. ASSUME NEW p \in Pointers, NEW len \in Lengths, read_buffer(p, len)
         PROVE  (Answers \/ Quiet) /\ SignalsKept
    <3>1. p \in Word /\ len \in Nat /\ Values \subseteq Word
      BY Sizes
    <3>2. ASSUME NEW n \in 0 .. len, NEW v \in Values, Fills(p, n, v, n)
          PROVE  (Answers \/ Quiet) /\ SignalsKept
      BY <3>1, <3>2, Filling
    <3>3. QED
      BY <2>10, <3>2, Refused DEF read_buffer
  <2>11. QED
    BY <1>3, <2>1, <2>2, <2>3, <2>4, <2>5, <2>6, <2>7, <2>8, <2>9, <2>10 DEF OtherStep
<1>4. CASE \E addr \in 0 .. MemWords - 1, v \in Values : GuestStore(addr, v)
  BY <1>4, Store, Sizes DEF Cells
<1>5. QED
  BY <1>1, <1>2, <1>3, <1>4 DEF Next

LEMMA InitIInv == Init => IInv
<1> SUFFICES ASSUME Init PROVE IInv
  OBVIOUS
<1>1. NoAction \in Actions
  BY Sizes DEF NoAction, Actions
<1>2. Shape
  BY <1>1, Sizes DEF Init, Shape, Table
<1>3. ActionsInstalled /\ ResultsKept
  BY DEF Init, ActionsInstalled, ResultsKept
<1>4. QED
  BY <1>2, <1>3 DEF IInv

LEMMA NextIInv == IInv /\ [Next]_vars => IInv'
<1> SUFFICES ASSUME IInv, [Next]_vars PROVE IInv'
  OBVIOUS
<1>1. (Answers \/ Quiet) /\ (SignalsKept \/ SignalsSet)
  BY EveryStep
<1>2. /\ g_sigactions' \in [Table -> Actions]
      /\ installed' \in [Table -> SUBSET Actions]
      /\ ActionsInstalled'
  BY <1>1 DEF SignalsKept, SignalsSet, IInv, Shape, ActionsInstalled
<1>3. CASE Quiet
  BY <1>2, <1>3 DEF Quiet, IInv, Shape, ResultsKept
<1>4. CASE Answers
  <2>1. PICK r, b, w :
          /\ Returns(r, b, w)
          /\ mem' \in Memory
          /\ \A x \in Cells : x \notin b => mem'[x] = mem[x]
          /\ \A p \in w : p[1] \in Nat /\ (p[1] < MemWords => mem'[p[1]] = p[2])
    BY <1>4 DEF Answers
  <2>2. promised' = {p \in promised : p[1] \notin b} \cup {p \in w : p[1] < MemWords}
    BY <2>1 DEF Returns
  <2>3. \A p \in promised' : p[1] \in Cells /\ mem'[p[1]] = p[2]
    <3> SUFFICES ASSUME NEW p \in promised' PROVE p[1] \in Cells /\ mem'[p[1]] = p[2]
      OBVIOUS
    <3>1. CASE p \in promised /\ p[1] \notin b
      BY <2>1, <3>1 DEF IInv, Shape, ResultsKept
    <3>2. CASE p \in w /\ p[1] < MemWords
      BY <2>1, <3>2, Sizes DEF Cells
    <3>3. QED
      BY <2>2, <3>1, <3>2
  <2>4. QED
    BY <1>2, <2>1, <2>3 DEF IInv, Shape, ResultsKept
<1>5. QED
  BY <1>1, <1>3, <1>4

-------------------------------------------------------------------------------
(* The theorems.                                                             *)

\* The signal table holds, for every signal, the action of the last
\* rt_sigaction that succeeded, as the guest had prepared it.
THEOREM SignalTableExact == Spec => []ActionsInstalled
<1>1. IInv => ActionsInstalled
  BY DEF IInv
<1>2. QED
  BY <1>1, InitIInv, NextIInv, PTL DEF Spec

\* What dispatch_syscall leaves in guest memory stays there until the guest, or
\* a call that is given the address, writes over it.
THEOREM AnswersKept == Spec => []ResultsKept
<1>1. IInv => ResultsKept
  BY DEF IInv
<1>2. QED
  BY <1>1, InitIInv, NextIInv, PTL DEF Spec

\* No call of dispatch_syscall writes outside the buffers it was given.
THEOREM WritesInBuffers == Spec => OnlyBuffers
<1> DEFINE A == \A x \in 0 .. MemWords - 1 : mem'[x] # mem[x] => x \in bufs'
<1>1. IInv /\ [Next]_vars => [A]_vars
  <2> SUFFICES ASSUME IInv, [Next]_vars PROVE A
    OBVIOUS
  <2>1. Answers \/ Quiet
    BY EveryStep
  <2>2. CASE Quiet
    BY <2>2 DEF Quiet
  <2>3. CASE Answers
    BY <2>3 DEF Answers, Returns, Cells
  <2>4. QED
    BY <2>1, <2>2, <2>3
<1>2. QED
  BY <1>1, InitIInv, NextIInv, PTL DEF Spec, OnlyBuffers

-------------------------------------------------------------------------------
(* FdTable: alloc_fd.                                                        *)

\* Naturals are ordered without an infinite descent: a set of them has a least.
LEMMA LeastElement ==
    ASSUME NEW T, T \subseteq Nat, T # {}
    PROVE  \E x \in T : \A y \in T : x <= y
<1> DEFINE Less == {ss \in Nat \X Nat : ss[1] < ss[2]}
<1>1. IsWellFoundedOn(Less, Nat)
  BY NatLessThanWellFounded DEF OpToRel
<1> HIDE DEF Less
<1>2. PICK x \in T : \A y \in T : ~ (<<y, x>> \in Less)
  BY <1>1, WFMin
<1>3. ASSUME NEW y \in T
      PROVE  x <= y
  <2>1. x \in Nat /\ y \in Nat /\ ~ (<<y, x>> \in Less)
    BY <1>2
  <2>2. <<y, x>> \in Nat \X Nat /\ <<y, x>>[1] = y /\ <<y, x>>[2] = x
    BY <2>1
  <2>3. ~ (y < x)
    BY <2>1, <2>2, Zenon DEF Less
  <2>4. QED
    BY <2>1, <2>3
<1>4. QED
  BY <1>3

\* alloc_fd returns a free descriptor above the standard streams, or -1 when
\* there is none.
LEMMA AllocFd ==
    \/ alloc_fd = -1 /\ FreeFds = {}
    \/ alloc_fd \in FreeFds
<1>1. CASE FreeFds = {}
  BY <1>1 DEF alloc_fd
<1>2. CASE FreeFds # {}
  <2>1. FreeFds \subseteq Nat
    BY FdAssumption DEF FreeFds
  <2>2. \E i \in FreeFds : \A j \in FreeFds : i <= j
    BY <1>2, <2>1, LeastElement
  <2>3. QED
    BY <1>2, <2>2 DEF alloc_fd, FirstOf
<1>3. QED
  BY <1>1, <1>2

-------------------------------------------------------------------------------
(* The invariant.                                                            *)

\* The table is one, positions are those of handles.
FdShape ==
    /\ fd_table \in [Fd -> [used : BOOLEAN, handle : Handles]]
    /\ open \subseteq Handles
    /\ pos = [h \in Handles |-> pos[h]]

FdInv == FdShape /\ HandlesExact

LEMMA FdInitInv == FdInit => FdInv
<1> SUFFICES ASSUME FdInit
             PROVE  FdInv
  OBVIOUS
<1>1. Std \subseteq Fd /\ Std \subseteq Handles
  BY FdAssumption DEF Std, Fd
<1>2. FdShape
  <2>1. 0 \in Handles
    BY <1>1 DEF Std
  <2>2. \A f \in Fd : fd_table[f] \in [used : BOOLEAN, handle : Handles]
    BY <1>1, <2>1 DEF FdInit
  <2>3. fd_table \in [Fd -> [used : BOOLEAN, handle : Handles]]
    BY <2>2 DEF FdInit
  <2>4. open \subseteq Handles /\ pos = [h \in Handles |-> pos[h]]
    BY <1>1 DEF FdInit
  <2>5. QED
    BY <2>3, <2>4 DEF FdShape
<1>3. UsedFds = Std
  BY <1>1 DEF FdInit, UsedFds
<1>4. HandlesExact
  BY <1>1, <1>3 DEF FdInit, HandlesExact
<1>5. QED
  BY <1>2, <1>4 DEF FdInv

\* A call that touches neither the table nor the open handles.
LEMMA KeepsTable ==
    ASSUME FdInv, UNCHANGED <<fd_table, open>>, pos' = [h \in Handles |-> pos'[h]]
    PROVE  FdInv'
BY DEF FdInv, FdShape, HandlesExact, UsedFds

LEMMA ReturnInv ==
    ASSUME FdInv, NEW op, NEW r, Return(op, r)
    PROVE  FdInv'
BY DEF Return, FdInv, FdShape, HandlesExact, UsedFds

LEMMA AdvanceShape ==
    ASSUME FdInv, NEW h, NEW from, NEW n, Advance(h, from, n)
    PROVE  pos' = [x \in Handles |-> pos'[x]]
BY DEF FdInv, FdShape, Advance

LEMMA OpenInv ==
    ASSUME FdInv, NEW path_ok, NEW o_append, sys_open(path_ok, o_append)
    PROVE  FdInv'
<1>1. CASE \E r : Return("open", r)
  BY <1>1, ReturnInv
<1>2. ASSUME alloc_fd \in FreeFds, NEW h \in Handles \ open,
             open' = open \cup {h}, UNCHANGED pos,
             fd_table' = Install(alloc_fd, h)
      PROVE  FdInv'
  <2> DEFINE g == alloc_fd
  <2>1. g \in Fd /\ g \notin Std /\ g \notin UsedFds
    BY <1>2, FdAssumption DEF FreeFds, Fd, Std, UsedFds
  <2> HIDE DEF g
  <2>2. fd_table' = [fd_table EXCEPT ![g] = [used |-> TRUE, handle |-> h]]
    BY <1>2 DEF Install, g
  <2>3. FdShape'
    <3>1. [used |-> TRUE, handle |-> h] \in [used : BOOLEAN, handle : Handles]
      BY <1>2
    <3>2. fd_table' \in [Fd -> [used : BOOLEAN, handle : Handles]]
      BY <2>2, <3>1 DEF FdInv, FdShape
    <3>3. open' \subseteq Handles /\ pos' = [x \in Handles |-> pos'[x]]
      BY <1>2 DEF FdInv, FdShape
    <3>4. QED
      BY <3>2, <3>3 DEF FdShape
  <2>4. UsedFds' = UsedFds \cup {g}
    BY <2>1, <2>2 DEF UsedFds, FdInv, FdShape
  <2>5. /\ fd_table'[g] = [used |-> TRUE, handle |-> h]
        /\ \A f \in Fd : f # g => fd_table'[f] = fd_table[f]
    BY <2>1, <2>2 DEF FdInv, FdShape
  <2>6. UsedFds \subseteq Fd /\ Std \subseteq Fd
    BY FdAssumption DEF UsedFds, Std, Fd
  <2>7. \A f \in Std : fd_table'[f] = [used |-> TRUE, handle |-> f]
    BY <2>1, <2>5, <2>6 DEF FdInv, HandlesExact
  <2>8. open' = {fd_table'[f].handle : f \in UsedFds'}
    BY <1>2, <2>1, <2>4, <2>5, <2>6 DEF FdInv, HandlesExact
  <2>9. \A f, k \in UsedFds' : fd_table'[f].handle = fd_table'[k].handle => f = k
    BY <1>2, <2>1, <2>4, <2>5, <2>6 DEF FdInv, HandlesExact
  <2>10. QED
    BY <2>3, <2>7, <2>8, <2>9 DEF FdInv, HandlesExact
<1>3. QED
  BY <1>1, <1>2, AllocFd DEF sys_open

LEMMA CloseInv ==
    ASSUME FdInv, NEW fd \in Int, sys_close(fd)
    PROVE  FdInv'
<1>1. CASE \E r : Return("close", r)
  BY <1>1, ReturnInv
<1>2. ASSUME Valid(fd), fd > 2, open' = open \ {fd_table[fd].handle},
             fd_table' = Release(fd), pos' = [pos EXCEPT ![fd_table[fd].handle] = 0]
      PROVE  FdInv'
  <2>1. fd \in UsedFds /\ fd \in Fd /\ fd \notin Std
    BY <1>2, FdAssumption DEF Valid, UsedFds, Fd, Std
  <2>2. FdShape'
    BY <1>2, <2>1 DEF FdInv, FdShape, Release
  <2>3. /\ \A f \in Fd : f # fd => fd_table'[f] = fd_table[f]
        /\ ~fd_table'[fd].used
    BY <1>2, <2>1 DEF FdInv, FdShape, Release
  <2>4. UsedFds' = UsedFds \ {fd}
    BY <2>1, <2>3 DEF UsedFds
  <2>5. UsedFds \subseteq Fd /\ Std \subseteq Fd
    BY FdAssumption DEF UsedFds, Std, Fd
  <2>6. \A f \in Std : fd_table'[f] = [used |-> TRUE, handle |-> f]
    BY <2>1, <2>3, <2>5 DEF FdInv, HandlesExact
  <2>7. open' = {fd_table'[f].handle : f \in UsedFds'}
    BY <1>2, <2>1, <2>3, <2>4, <2>5 DEF FdInv, HandlesExact
  <2>8. \A f, k \in UsedFds' : fd_table'[f].handle = fd_table'[k].handle => f = k
    BY <2>3, <2>4, <2>5 DEF FdInv, HandlesExact
  <2>9. QED
    BY <2>2, <2>6, <2>7, <2>8 DEF FdInv, HandlesExact
<1>3. QED
  BY <1>1, <1>2 DEF sys_close

LEMMA ReadWriteInv ==
    ASSUME FdInv, NEW op, NEW fd, NEW buf_ok, NEW count, sys_rw(op, fd, buf_ok, count)
    PROVE  FdInv'
BY ReturnInv, AdvanceShape, KeepsTable DEF sys_rw

LEMMA SeekInv ==
    ASSUME FdInv, NEW op, NEW fd, NEW offset, NEW whole, NEW whence,
           lseek(op, fd, offset, whole, whence)
    PROVE  FdInv'
<1>1. CASE \E r : Return(op, r)
  BY <1>1, ReturnInv
<1>2. CASE /\ \E p : pos' = [pos EXCEPT ![fd_table[fd].handle] = p]
           /\ UNCHANGED <<fd_table, open>>
  <2>1. pos' = [h \in Handles |-> pos'[h]]
    BY <1>2 DEF FdInv, FdShape
  <2>2. QED
    BY <1>2, <2>1, KeepsTable
<1>3. QED
  BY <1>1, <1>2 DEF lseek

LEMMA LlseekInv ==
    ASSUME FdInv, NEW fd, NEW high, NEW low, NEW whence, sys_llseek(fd, high, low, whence)
    PROVE  FdInv'
BY ReturnInv, SeekInv DEF sys_llseek

LEMMA WritevInv ==
    ASSUME FdInv, NEW fd, NEW iov, sys_writev(fd, iov)
    PROVE  FdInv'
<1>1. PICK from, n : UNCHANGED pos \/ Advance(fd_table[fd].handle, from, n)
  BY DEF sys_writev
<1>2. pos' = [h \in Handles |-> pos'[h]]
  BY <1>1, AdvanceShape DEF FdInv, FdShape
<1>3. UNCHANGED <<fd_table, open>>
  BY DEF sys_writev
<1>4. QED
  BY <1>2, <1>3, KeepsTable

LEMMA FstatInv ==
    ASSUME FdInv, NEW fd, NEW buf_ok, sys_fstat64(fd, buf_ok)
    PROVE  FdInv'
BY ReturnInv DEF sys_fstat64

LEMMA FdStepInv == FdInv /\ [FdNext]_fd_vars => FdInv'
<1> SUFFICES ASSUME FdInv, [FdNext]_fd_vars
             PROVE  FdInv'
  OBVIOUS
<1>1. ASSUME NEW ok \in BOOLEAN, NEW app \in BOOLEAN, sys_open(ok, app) PROVE FdInv'
  BY <1>1, OpenInv
<1>2. ASSUME NEW fd \in Fds, sys_close(fd) PROVE FdInv'
  BY <1>2, CloseInv, FdAssumption
<1>3. ASSUME NEW op, NEW fd, NEW ok, NEW n, sys_rw(op, fd, ok, n) PROVE FdInv'
  BY <1>3, ReadWriteInv
<1>4. ASSUME NEW fd, NEW offset, NEW w, sys_lseek(fd, offset, w) PROVE FdInv'
  BY <1>4, SeekInv DEF sys_lseek
<1>5. ASSUME NEW fd, NEW high, NEW low, NEW w, sys_llseek(fd, high, low, w) PROVE FdInv'
  BY <1>5, LlseekInv
<1>6. ASSUME NEW fd, NEW iov, sys_writev(fd, iov) PROVE FdInv'
  BY <1>6, WritevInv
<1>7. ASSUME NEW fd, NEW ok, sys_fstat64(fd, ok) PROVE FdInv'
  BY <1>7, FstatInv
<1>8. CASE UNCHANGED fd_vars
  BY <1>8 DEF fd_vars, FdInv, FdShape, HandlesExact, UsedFds
<1>9. QED
  BY <1>1, <1>2, <1>3, <1>4, <1>5, <1>6, <1>7, <1>8 DEF FdNext

LEMMA FdInvariance == FdSpec => []FdInv
BY FdInitInv, FdStepInv, PTL DEF FdSpec

\* After any sequence of calls the table and the host agree: every descriptor
\* in use has an open handle of its own, no handle stays open that no
\* descriptor reaches, and sys_close never gives up the standard streams.
THEOREM HandlesAgree == FdSpec => []HandlesExact
<1>1. FdInv => HandlesExact
  BY DEF FdInv
<1>2. QED
  BY <1>1, FdInvariance, PTL

-------------------------------------------------------------------------------
(* Seeking.                                                                  *)

\* The cast to int32_t, on the numbers that fit and the ones just above.
LEMMA CastExact ==
    /\ \A x \in -Half .. Half - 1 : ToInt32(x) = x
    /\ \A x \in Half .. Modulus - 1 : ToInt32(x) = x - Modulus
<1>1. Half \in Nat /\ Half > 0 /\ Modulus = 2 * Half
  BY FdAssumption DEF Modulus
<1>2. ASSUME NEW x \in -Half .. Half - 1
      PROVE  ToInt32(x) = x
  <2>1. x + Half \in 0 .. Modulus - 1
    BY <1>1
  <2>2. (x + Half) % Modulus = x + Half
    BY <1>1, <2>1
  <2>3. QED
    BY <1>1, <2>2 DEF ToInt32
<1>3. ASSUME NEW x \in Half .. Modulus - 1
      PROVE  ToInt32(x) = x - Modulus
  <2>1. x + Half - Modulus \in 0 .. Modulus - 1
    BY <1>1
  <2>2. (x + Half) % Modulus = x + Half - Modulus
    BY <1>1, <2>1
  <2>3. QED
    BY <1>1, <2>2 DEF ToInt32
<1>4. QED
  BY <1>2, <1>3

\* What SeekHonest says of a step.
Honest ==
    last'.op \in {"lseek", "llseek"} =>
         /\ (last'.ret < 0 /\ FitsInt32(last'.moved)) => pos' = pos
         /\ (last'.ret >= 0 /\ FitsInt32(last'.moved) /\ FitsInt32(last'.whole)) =>
              /\ last'.ret = last'.moved
              /\ last'.moved = last'.base + last'.whole

LEMMA ReturnHonest ==
    ASSUME NEW op, NEW r \in Int, r < 0 \/ op \notin {"lseek", "llseek"}, Return(op, r)
    PROVE  Honest
BY DEF Return, Call, Honest

\* A seek is honest when the offset it uses is the one the guest means,
\* wherever that one fits.
LEMMA SeekHonestStep ==
    ASSUME NEW op, NEW fd, NEW offset, NEW whole, NEW whence,
           FitsInt32(whole) => offset = whole,
           lseek(op, fd, offset, whole, whence)
    PROVE  Honest
<1>1. CASE \E r \in {EBADF, EINVAL, ESPIPE} : Return(op, r)
  BY <1>1, ReturnHonest DEF EBADF, EINVAL, ESPIPE
<1>2. ASSUME NEW b, b + offset \in 0 .. MaxPos,
             last' = [op |-> op, ret |-> Reported(b + offset),
                      whole |-> whole, base |-> b, moved |-> b + offset]
      PROVE  Honest
  <2> DEFINE p == b + offset
  <2>1. p \in 0 .. MaxPos /\ p \in Int
    BY <1>2, FdAssumption
  <2>2. last'.ret = ToInt32(p) /\ last'.moved = p /\ last'.whole = whole /\ last'.base = b
    BY <1>2 DEF Reported
  <2>3. FitsInt32(whole) => p = b + whole
    OBVIOUS
  <2> HIDE DEF p
  <2>4. FitsInt32(p) => ToInt32(p) = p /\ p >= 0
    BY <2>1, CastExact, FdAssumption DEF FitsInt32
  <2>5. QED
    BY <2>1, <2>2, <2>3, <2>4 DEF Honest
<1>3. QED
  BY <1>1, <1>2 DEF lseek

LEMMA LlseekHonestStep ==
    ASSUME NEW fd, NEW high \in Highs, NEW low \in Lows, NEW whence,
           sys_llseek(fd, high, low, whence)
    PROVE  Honest
<1>1. CASE Return("llseek", EINVAL)
  BY <1>1, ReturnHonest DEF EINVAL
<1>2. CASE /\ high = 0 \/ high = Modulus - 1
           /\ lseek("llseek", fd, Narrow(low), Whole(high, low), whence)
  <2>1. /\ Half \in Nat /\ Half > 0 /\ Modulus = 2 * Half
        /\ low \in 0 .. Modulus - 1 /\ high \in 0 .. Modulus - 1
    BY FdAssumption DEF Modulus
  <2>2. Whole(high, low) = low \/ Whole(high, low) = low - Modulus
    BY <1>2, <2>1 DEF Whole
  <2>3. Narrow(low) = IF low < Half THEN low ELSE low - Modulus
    BY <2>1, CastExact DEF Narrow
  <2>4. FitsInt32(Whole(high, low)) => Narrow(low) = Whole(high, low)
    BY <2>1, <2>2, <2>3 DEF FitsInt32
  <2>5. QED
    BY <1>2, <2>4, SeekHonestStep
<1>3. QED
  BY <1>1, <1>2 DEF sys_llseek

\* A seek whose offset and position fit in 31 bits tells the guest the truth,
\* through sys_lseek and through the casts of _llseek: an error means the file
\* has not moved, a success that it is where the result says.
THEOREM SeeksHonest == FdSpec => SeekHonest
<1>1. FdNext => Honest
  <2> SUFFICES ASSUME FdNext
               PROVE  Honest
    OBVIOUS
  <2>1. CASE last'.op \notin {"lseek", "llseek"}
    BY <2>1 DEF Honest
  <2>2. ASSUME NEW fd \in Fds, NEW low \in Lows, NEW w \in 0 .. 3, sys_lseek(fd, ToInt32(low), w)
        PROVE  Honest
    BY <2>2, SeekHonestStep DEF sys_lseek
  <2>3. ASSUME NEW fd \in Fds, NEW high \in Highs, NEW low \in Lows, NEW w \in 0 .. 3,
               sys_llseek(fd, high, low, w)
        PROVE  Honest
    BY <2>3, LlseekHonestStep
  <2>4. QED
    BY <2>1, <2>2, <2>3
       DEF FdNext, sys_open, sys_close, sys_rw, sys_writev, sys_fstat64, Return, Call, Transfer
<1>2. QED
  BY <1>1, PTL DEF FdSpec, SeekHonest, Honest

-------------------------------------------------------------------------------
(* Transfers.                                                                *)

\* What TransferAccounted says of a step.
Accounted ==
    last'.op \in {"read", "write", "writev"} =>
         LET moved == {h \in Handles : pos'[h] # pos[h]} IN
         /\ \A h, k \in moved : h = k
         /\ (last'.ret >= 0 /\ FitsInt32(last'.whole)) =>
              \A h \in moved :
                /\ pos'[h] = last'.base + last'.ret
                /\ (last'.op = "read" \/ h \notin append) => last'.base = pos[h]
         /\ (last'.ret < 0 /\ last'.op # "writev") => moved = {}

LEMMA NothingMoved ==
    ASSUME UNCHANGED pos
    PROVE  Accounted
BY DEF Accounted

\* The host moves one file, to the end of what it transferred, which starts at
\* the file's position unless the call appends.
LEMMA AdvanceMoves ==
    ASSUME FdInv, NEW op, NEW h, NEW from \in Starts(op, h), NEW n, Advance(h, from, n),
           NEW k \in Handles, pos'[k] # pos[k]
    PROVE  /\ k = h /\ pos'[k] = from + n
           /\ (op = "read" \/ k \notin append) => from = pos[k]
<1>1. k = h /\ pos'[k] = from + n
  BY DEF FdInv, FdShape, Advance
<1>2. QED
  BY <1>1 DEF Starts

\* Where sys_writev stops: at an iovec, or past the last one.
LEMMA StopInRange ==
    ASSUME NEW fd, NEW iov \in IovLists, NEW ns
    PROVE  LET stop == StopAt(fd, iov, ns) IN
           /\ stop \in 1 .. Len(iov) + 1
           /\ \A i \in 1 .. Len(iov) : i < stop => ~Stops(fd, iov, ns, i)
<1> DEFINE S == {i \in 1 .. Len(iov) : Stops(fd, iov, ns, i)}
<1>1. Len(iov) \in Nat
  BY FdAssumption
<1>2. CASE S = {}
  BY <1>1, <1>2 DEF StopAt
<1>3. CASE S # {}
  <2>1. S \subseteq Nat
    BY <1>1
  <2>2. \E i \in S : \A j \in S : i <= j
    BY <1>3, <2>1, LeastElement
  <2> HIDE DEF S
  <2>3. FirstOf(S) \in S /\ \A j \in S : FirstOf(S) <= j
    BY <2>2 DEF FirstOf
  <2>4. StopAt(fd, iov, ns) = FirstOf(S)
    BY <1>3 DEF StopAt, S
  <2>5. QED
    BY <1>1, <2>1, <2>3, <2>4 DEF S
<1>4. QED
  BY <1>2, <1>3

LEMMA WritevAccounted ==
    ASSUME FdInv, NEW fd, NEW iov \in IovLists, sys_writev(fd, iov)
    PROVE  Accounted
<1> DEFINE h == fd_table[fd].handle
           Result(ns) == IF StopAt(fd, iov, ns) > Len(iov) THEN WritevTotal(iov, ns)
                         ELSE WritevError(fd, iov[StopAt(fd, iov, ns)])
           Done(ns) == TakenBefore(iov, ns, StopAt(fd, iov, ns))
<1>1. PICK ns \in [1 .. Len(iov) -> -1 .. MaxCount] :
        \/ UNCHANGED pos
        \/ \E from \in Starts("writev", h) :
             /\ Advance(h, from, Done(ns))
             /\ last' = Transfer("writev", Result(ns), from, Done(ns))
  BY DEF sys_writev
<1>2. CASE UNCHANGED pos
  BY <1>2, NothingMoved
<1>3. ASSUME NEW from \in Starts("writev", h), Advance(h, from, Done(ns)),
             last' = Transfer("writev", Result(ns), from, Done(ns))
      PROVE  Accounted
  <2> DEFINE stop == StopAt(fd, iov, ns)
             done == Done(ns)
  <2>1. last'.op = "writev" /\ last'.ret = Result(ns) /\ last'.whole = done /\ last'.base = from
    BY <1>3 DEF Transfer
  <2>2. stop \in 1 .. Len(iov) + 1 /\ Len(iov) \in Nat
    <3>1. StopAt(fd, iov, ns) \in 1 .. Len(iov) + 1
      BY StopInRange, Zenon
    <3>2. Len(iov) \in Nat
      BY FdAssumption
    <3>3. QED
      BY <3>1, <3>2
  <2>3. Result(ns) = ToInt32(done) \/ Result(ns) \in {EFAULT, EBADF, EIO}
    <3>1. CASE stop > Len(iov)
      <4>1. stop = Len(iov) + 1
        BY <2>2, <3>1
      <4>2. QED
        BY <3>1, <4>1 DEF WritevTotal
    <3>2. CASE ~(stop > Len(iov))
      BY <3>2 DEF WritevError
    <3>3. QED
      BY <3>1, <3>2
  <2> HIDE DEF h, Result, Done
  <2>4. FitsInt32(done) /\ last'.ret >= 0 => last'.ret = done
    <3>1. FitsInt32(done) => ToInt32(done) = done
      BY CastExact DEF FitsInt32
    <3>2. ~(EFAULT >= 0) /\ ~(EBADF >= 0) /\ ~(EIO >= 0)
      BY DEF EFAULT, EBADF, EIO
    <3>3. QED
      BY <2>1, <2>3, <3>1, <3>2
  <2>5. \A k \in Handles : pos'[k] # pos[k] =>
            k = h /\ pos'[k] = from + done /\ (k \notin append => from = pos[k])
    BY <1>3, AdvanceMoves
  <2> HIDE DEF done
  <2>6. QED
    BY <2>1, <2>4, <2>5 DEF Accounted
<1>4. QED
  BY <1>1, <1>2, <1>3

LEMMA ReadWriteAccounted ==
    ASSUME FdInv, NEW op \in {"read", "write"}, NEW fd, NEW buf_ok, NEW count \in 0 .. MaxCount,
           sys_rw(op, fd, buf_ok, count)
    PROVE  Accounted
<1> DEFINE h == fd_table[fd].handle
<1>1. CASE UNCHANGED pos
  BY <1>1, NothingMoved
<1>2. ASSUME NEW n \in 0 .. count, NEW from \in Starts(op, h), Advance(h, from, n),
             last' = Transfer(op, ToInt32(n), from, n)
      PROVE  Accounted
  <2>1. ToInt32(n) = n /\ n \in Nat
    BY CastExact, FdAssumption
  <2>2. last'.op = op /\ last'.ret = n /\ last'.base = from
    BY <1>2, <2>1 DEF Transfer
  <2> HIDE DEF h
  <2>3. \A k \in Handles : pos'[k] # pos[k] =>
              k = h /\ pos'[k] = from + n /\ (op = "read" \/ k \notin append => from = pos[k])
    BY <1>2, AdvanceMoves
  <2>4. QED
    BY <2>1, <2>2, <2>3 DEF Accounted
<1>3. QED
  BY <1>1, <1>2 DEF sys_rw, Return

\* Bytes are accounted for: a read, write or writev that succeeds has moved at
\* most one file, by the count it returns, from its position or, appending,
\* from the end of the file, however short the host's transfers were and
\* whatever the vector of buffers, as long as the sum of a writev fits in an
\* int32_t; a read or write that fails has moved none.
THEOREM TransfersAccounted == FdSpec => TransferAccounted
<1>1. FdInv /\ FdNext => Accounted
  <2> SUFFICES ASSUME FdInv, FdNext
               PROVE  Accounted
    OBVIOUS
  <2>1. CASE last'.op \notin {"read", "write", "writev"}
    BY <2>1 DEF Accounted
  <2>2. ASSUME NEW op \in {"read", "write"}, NEW fd \in Fds, NEW ok \in BOOLEAN,
               NEW n \in 0 .. MaxCount, sys_rw(op, fd, ok, n)
        PROVE  Accounted
    BY <2>2, ReadWriteAccounted, FdAssumption
  <2>3. ASSUME NEW fd \in Fds, NEW iov \in IovLists, sys_writev(fd, iov)
        PROVE  Accounted
    BY <2>3, WritevAccounted
  <2>4. QED
    BY <2>1, <2>2, <2>3
       DEF FdNext, sys_open, sys_close, sys_lseek, sys_llseek, lseek, sys_fstat64, Return, Call
<1>2. QED
  BY <1>1, FdInvariance, PTL DEF FdSpec, TransferAccounted, Accounted
===============================================================================
