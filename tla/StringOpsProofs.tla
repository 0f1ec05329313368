--------------------------- MODULE StringOpsProofs ---------------------------
(***************************************************************************)
(* Theorems on StringOps, for any memory, any pointers and counts and any  *)
(* width of bytes, words and addresses.                                    *)
(***************************************************************************)
EXTENDS StringOps, WellFoundedInduction, TLAPS

-------------------------------------------------------------------------------
(* Induction on the natural numbers, with the set where the claim holds.     *)

LEMMA Least ==
    ASSUME NEW T, T \subseteq Nat, T # {}
    PROVE  \E x \in T : \A y \in T : x <= y
<1> DEFINE R == {ss \in Nat \X Nat : ss[1] < ss[2]}
<1>1. IsWellFoundedOn(R, Nat)
  BY NatLessThanWellFounded DEF OpToRel
<1> HIDE DEF R
<1>2. PICK x \in T : \A y \in T : ~ (<<y, x>> \in R)
  BY <1>1, WFMin
<1>3. \A y \in T : <<y, x>>[1] = y /\ <<y, x>>[2] = x /\ <<y, x>> \in Nat \X Nat
  OBVIOUS
<1>4. \A y \in T : ~ (y < x)
  BY <1>2, <1>3, Zenon DEF R
<1>5. QED
  BY <1>2, <1>4

LEMMA Induction ==
    ASSUME NEW T, 0 \in T, \A n \in Nat : n \in T => n + 1 \in T
    PROVE  \A n \in Nat : n \in T
<1> DEFINE U == {n \in Nat : n \notin T}
<1> SUFFICES ASSUME U # {} PROVE FALSE
  OBVIOUS
<1>1. PICK x \in U : \A y \in U : x <= y
  BY Least
<1>2. x # 0 /\ x - 1 \in Nat
  BY <1>1
<1>3. x - 1 \in T
  BY <1>1, <1>2
<1>4. QED
  BY <1>1, <1>2, <1>3

-------------------------------------------------------------------------------
(* The bytes of a word.                                                      *)

LEMMA Sizes ==
    /\ MemSize \in Nat /\ WordBytes \in Nat /\ WordBytes > 0
    /\ ByteValues \in Nat /\ ByteValues > 0 /\ Addresses \in Nat /\ MemSize < Addresses
BY MemoryAssumption

\* The recursive functions of Value and Shifted.
High(m, addr, n) ==
    CHOOSE f : f = [k \in 0 .. n |->
                      IF k = 0 THEN 0 ELSE m[(addr + n) - k] + ByteValues * f[k - 1]]

Rests(val, k) ==
    CHOOSE f : f = [i \in 0 .. k |-> IF i = 0 THEN val ELSE f[i - 1] \div ByteValues]

LEMMA ValueIsHigh ==
    ASSUME NEW m, NEW addr, NEW n
    PROVE  Value(m, addr, n) = High(m, addr, n)[n]
BY DEF Value, High

LEMMA ShiftedIsRest ==
    ASSUME NEW val, NEW k
    PROVE  Shifted(val, k) = Rests(val, k)[k]
BY DEF Shifted, Rests

LEMMA HighDefined ==
    ASSUME NEW m, NEW addr, NEW n \in Nat
    PROVE  High(m, addr, n) = [k \in 0 .. n |->
             IF k = 0 THEN 0 ELSE m[(addr + n) - k] + ByteValues * High(m, addr, n)[k - 1]]
<1> DEFINE T == {j \in Nat : \E f : f = [k \in 0 .. j |->
                   IF k = 0 THEN 0 ELSE m[(addr + n) - k] + ByteValues * f[k - 1]]}
<1>1. 0 \in T
  <2> DEFINE f == [k \in 0 .. 0 |-> 0]
  <2>1. f = [k \in 0 .. 0 |-> IF k = 0 THEN 0 ELSE m[(addr + n) - k] + ByteValues * f[k - 1]]
    OBVIOUS
  <2>2. QED
    BY <2>1
<1>2. ASSUME NEW j \in Nat, j \in T PROVE j + 1 \in T
  <2>1. PICK f : f = [k \in 0 .. j |->
                   IF k = 0 THEN 0 ELSE m[(addr + n) - k] + ByteValues * f[k - 1]]
    BY <1>2
  <2> DEFINE g == [k \in 0 .. j + 1 |-> IF k = j + 1
                     THEN m[(addr + n) - k] + ByteValues * f[j] ELSE f[k]]
  <2>2. ASSUME NEW k \in 0 .. j + 1
        PROVE  g[k] = IF k = 0 THEN 0 ELSE m[(addr + n) - k] + ByteValues * g[k - 1]
    <3>1. CASE k = j + 1
      BY <3>1
    <3>2. CASE k # j + 1
      <4>1. k \in 0 .. j /\ g[k] = f[k] /\ (k # 0 => g[k - 1] = f[k - 1])
        BY <3>2
      <4>2. QED
        BY <4>1, <2>1
    <3>3. QED
      BY <3>1, <3>2
  <2> HIDE DEF g
  <2>3. g = [k \in 0 .. j + 1 |->
               IF k = 0 THEN 0 ELSE m[(addr + n) - k] + ByteValues * g[k - 1]]
    BY <2>2 DEF g
  <2>4. QED
    BY <2>3
<1> HIDE DEF T
<1>3. n \in T
  BY <1>1, <1>2, Induction
<1>4. \E f : f = [k \in 0 .. n |->
                   IF k = 0 THEN 0 ELSE m[(addr + n) - k] + ByteValues * f[k - 1]]
  BY <1>3 DEF T
<1>5. QED
  BY <1>4 DEF High

LEMMA RestsDefined ==
    ASSUME NEW val, NEW n \in Nat
    PROVE  Rests(val, n) = [i \in 0 .. n |->
             IF i = 0 THEN val ELSE Rests(val, n)[i - 1] \div ByteValues]
<1> DEFINE T == {j \in Nat : \E f : f = [i \in 0 .. j |->
                   IF i = 0 THEN val ELSE f[i - 1] \div ByteValues]}
<1>1. 0 \in T
  <2> DEFINE f == [i \in 0 .. 0 |-> val]
  <2>1. f = [i \in 0 .. 0 |-> IF i = 0 THEN val ELSE f[i - 1] \div ByteValues]
    OBVIOUS
  <2>2. QED
    BY <2>1
<1>2. ASSUME NEW j \in Nat, j \in T PROVE j + 1 \in T
  <2>1. PICK f : f = [i \in 0 .. j |-> IF i = 0 THEN val ELSE f[i - 1] \div ByteValues]
    BY <1>2
  <2> DEFINE g == [i \in 0 .. j + 1 |-> IF i = j + 1 THEN f[j] \div ByteValues ELSE f[i]]
  <2>2. ASSUME NEW i \in 0 .. j + 1
        PROVE  g[i] = IF i = 0 THEN val ELSE g[i - 1] \div ByteValues
    <3>1. CASE i = j + 1
      BY <3>1
    <3>2. CASE i # j + 1
      <4>1. i \in 0 .. j /\ g[i] = f[i] /\ (i # 0 => g[i - 1] = f[i - 1])
        BY <3>2
      <4>2. QED
        BY <4>1, <2>1
    <3>3. QED
      BY <3>1, <3>2
  <2> HIDE DEF g
  <2>3. g = [i \in 0 .. j + 1 |-> IF i = 0 THEN val ELSE g[i - 1] \div ByteValues]
    BY <2>2 DEF g
  <2>4. QED
    BY <2>3
<1> HIDE DEF T
<1>3. n \in T
  BY <1>1, <1>2, Induction
<1>4. \E f : f = [i \in 0 .. n |-> IF i = 0 THEN val ELSE f[i - 1] \div ByteValues]
  BY <1>3 DEF T
<1>5. QED
  BY <1>4 DEF Rests
\* The lowest byte of a number, and the number without it.
LEMMA LowByte ==
    ASSUME NEW w \in Nat, w > 0, NEW a \in 0 .. w - 1, NEW h \in Nat
    PROVE  (a + w * h) % w = a /\ (a + w * h) \div w = h
<1> DEFINE x == a + w * h
           q == x \div w
           r == x % w
           e == q - h
<1>1. x \in Nat /\ w * h \in Nat
  OBVIOUS
<1>2. x = w * q + r /\ r \in 0 .. w - 1 /\ q \in Int
  BY <1>1
<1>3. e \in Int /\ w * e = a - r /\ a - r \in -(w - 1) .. w - 1
  BY <1>2
<1> HIDE DEF e, x, r, q
<1>4. e = 0
  <2>1. CASE e >= 1
    BY <1>3, <2>1
  <2>2. CASE e <= -1
    BY <1>3, <2>2
  <2>3. QED
    BY <1>3, <2>1, <2>2
<1>5. a = r /\ q = h
  BY <1>2, <1>3, <1>4 DEF e
<1>6. QED
  BY <1>5 DEF q, r, x

\* One step of Value.
LEMMA HighStep ==
    ASSUME NEW m, NEW addr \in Nat, NEW n \in Nat,
           \A x \in addr .. addr + n - 1 : m[x] \in 0 .. ByteValues - 1
    PROVE  /\ High(m, addr, n)[0] = 0
           /\ \A k \in 0 .. n : High(m, addr, n)[k] \in Nat
           /\ \A k \in 0 .. n - 1 :
                /\ High(m, addr, n)[n - k] % ByteValues = m[addr + k]
                /\ High(m, addr, n)[n - k] \div ByteValues = High(m, addr, n)[(n - k) - 1]
<1> USE Sizes
<1> DEFINE f == High(m, addr, n)
<1>1. f = [k \in 0 .. n |-> IF k = 0 THEN 0 ELSE m[(addr + n) - k] + ByteValues * f[k - 1]]
  BY HighDefined
<1> HIDE DEF f
<1>2. /\ f[0] = 0
      /\ \A k \in 1 .. n : /\ f[k] = m[(addr + n) - k] + ByteValues * f[k - 1]
                           /\ m[(addr + n) - k] \in 0 .. ByteValues - 1
  BY <1>1
<1> DEFINE T == {k \in Nat : k <= n => f[k] \in Nat}
<1>3. \A k \in Nat : k \in T
  <2>1. 0 \in T
    BY <1>2
  <2>2. ASSUME NEW k \in Nat, k \in T PROVE k + 1 \in T
    <3>1. CASE k + 1 <= n
      <4>1. f[k] \in Nat /\ k + 1 \in 1 .. n /\ (k + 1) - 1 = k
        BY <2>2, <3>1
      <4>2. f[k + 1] = m[(addr + n) - (k + 1)] + ByteValues * f[k]
            /\ m[(addr + n) - (k + 1)] \in 0 .. ByteValues - 1
        BY <1>2, <4>1
      <4>3. QED
        BY <4>1, <4>2
    <3>2. QED
      BY <3>1
  <2> HIDE DEF T
  <2>3. QED
    BY <2>1, <2>2, Induction
<1>4. \A k \in 0 .. n : f[k] \in Nat
  BY <1>3
<1>5. ASSUME NEW k \in 0 .. n - 1
      PROVE  f[n - k] % ByteValues = m[addr + k] /\ f[n - k] \div ByteValues = f[(n - k) - 1]
  <2> DEFINE a == m[addr + k]
             h == f[(n - k) - 1]
  <2>1. n - k \in 1 .. n /\ (addr + n) - (n - k) = addr + k /\ (n - k) - 1 \in 0 .. n
    OBVIOUS
  <2>2. a \in 0 .. ByteValues - 1 /\ h \in Nat /\ f[n - k] = a + ByteValues * h
    BY <1>2, <1>4, <2>1
  <2> HIDE DEF a, h
  <2>3. (a + ByteValues * h) % ByteValues = a /\ (a + ByteValues * h) \div ByteValues = h
    BY <2>2, LowByte
  <2>4. QED
    BY <2>2, <2>3 DEF a, h
<1>6. QED
  BY <1>2, <1>4, <1>5 DEF f

\* The bytes that mem_write32 takes out of what mem_read32 read.
LEMMA BytesOfValue ==
    ASSUME NEW m, NEW addr \in Nat, NEW n \in Nat,
           \A x \in addr .. addr + n - 1 : m[x] \in 0 .. ByteValues - 1,
           NEW k \in 0 .. n - 1
    PROVE  Shifted(Value(m, addr, n), k) % ByteValues = m[addr + k]
<1> DEFINE f == High(m, addr, n)
           g == Rests(f[n], k)
<1>1. /\ \A j \in 0 .. n - 1 : /\ f[n - j] % ByteValues = m[addr + j]
                               /\ f[n - j] \div ByteValues = f[(n - j) - 1]
  BY HighStep
<1> HIDE DEF f
<1>2. g = [i \in 0 .. k |-> IF i = 0 THEN f[n] ELSE g[i - 1] \div ByteValues]
  BY RestsDefined
<1> HIDE DEF g
<1> DEFINE T == {j \in Nat : j <= k => g[j] = f[n - j]}
<1>3. 0 \in T
  BY <1>2
<1>4. ASSUME NEW j \in Nat, j \in T PROVE j + 1 \in T
  <2>1. CASE j + 1 <= k
    <3>1. g[j] = f[n - j] /\ j + 1 \in 0 .. k /\ j + 1 # 0 /\ (j + 1) - 1 = j /\ j \in 0 .. n - 1
      BY <1>4, <2>1
    <3>2. g[j + 1] = g[j] \div ByteValues
      BY <1>2, <3>1
    <3>3. f[n - j] \div ByteValues = f[(n - j) - 1] /\ (n - j) - 1 = n - (j + 1)
      BY <1>1, <3>1
    <3>4. QED
      BY <3>1, <3>2, <3>3
  <2>2. QED
    BY <2>1
<1> HIDE DEF T
<1>5. k \in T
  BY <1>3, <1>4, Induction
<1>6. g[k] = f[n - k]
  BY <1>5 DEF T
<1>7. Shifted(f[n], k) = g[k] /\ Value(m, addr, n) = f[n]
  BY ShiftedIsRest, ValueIsHigh DEF f, g
<1>8. QED
  BY <1>1, <1>6, <1>7
\* A shifted number is a number.
LEMMA ShiftedNat ==
    ASSUME NEW val \in Nat, NEW k \in Nat
    PROVE  Shifted(val, k) \in Nat
<1> USE Sizes
<1> DEFINE g == Rests(val, k)
<1>1. g = [i \in 0 .. k |-> IF i = 0 THEN val ELSE g[i - 1] \div ByteValues]
  BY RestsDefined
<1> HIDE DEF g
<1> DEFINE T == {j \in Nat : j <= k => g[j] \in Nat}
<1>2. 0 \in T
  BY <1>1
<1>3. ASSUME NEW j \in Nat, j \in T PROVE j + 1 \in T
  <2>1. CASE j + 1 <= k
    <3>1. g[j] \in Nat /\ j + 1 \in 0 .. k /\ j + 1 # 0 /\ (j + 1) - 1 = j
      BY <1>3, <2>1
    <3>2. g[j + 1] = g[j] \div ByteValues
      BY <1>1, <3>1
    <3>3. QED
      BY <3>1, <3>2
  <2>2. QED
    BY <2>1
<1> HIDE DEF T
<1>4. k \in T
  BY <1>2, <1>3, Induction
<1>5. g[k] \in Nat
  BY <1>4 DEF T
<1>6. QED
  BY <1>5, ShiftedIsRest DEF g

-------------------------------------------------------------------------------
(* The accessors.                                                            *)

LEMMA ReadByte ==
    ASSUME NEW m \in Memory, NEW addr \in Nat
    PROVE  mem_read8(m, addr) \in 0 .. ByteValues - 1
BY Sizes DEF Memory, mem_read8, check_bounds

LEMMA ReadWord ==
    ASSUME NEW m \in Memory, NEW addr \in Nat
    PROVE  mem_read32(m, addr) \in Nat
<1> USE Sizes
<1>1. CASE addr + WordBytes <= MemSize
  <2>1. \A x \in addr .. addr + WordBytes - 1 : m[x] \in 0 .. ByteValues - 1
    BY <1>1 DEF Memory
  <2>2. High(m, addr, WordBytes)[WordBytes] \in Nat
    BY <2>1, HighStep
  <2>3. QED
    BY <1>1, <2>2, ValueIsHigh DEF mem_read32, check_bounds
<1>2. QED
  BY <1>1 DEF mem_read32, check_bounds

\* A byte store changes its byte, if it is in memory.
LEMMA WriteByte ==
    ASSUME NEW m \in Memory, NEW addr \in Nat, NEW val \in 0 .. ByteValues - 1
    PROVE  /\ mem_write8(m, addr, val) \in Memory
           /\ \A x \in 0 .. MemSize - 1 :
                mem_write8(m, addr, val)[x] =
                  IF addr + 1 <= MemSize /\ x = addr THEN val ELSE m[x]
BY Sizes DEF Memory, mem_write8, check_bounds

\* A word store changes its bytes, if they are all in memory.
LEMMA WriteWord ==
    ASSUME NEW m \in Memory, NEW addr \in Nat, NEW val \in Nat
    PROVE  /\ mem_write32(m, addr, val) \in Memory
           /\ \A x \in 0 .. MemSize - 1 :
                mem_write32(m, addr, val)[x] =
                  IF addr + WordBytes <= MemSize /\ x \in addr .. addr + WordBytes - 1
                  THEN Shifted(val, x - addr) % ByteValues ELSE m[x]
<1> USE Sizes
<1> DEFINE b(x) == Shifted(val, x - addr) % ByteValues
<1>1. ASSUME NEW x \in addr .. addr + WordBytes - 1 PROVE b(x) \in 0 .. ByteValues - 1
  <2>1. x - addr \in Nat
    OBVIOUS
  <2>2. Shifted(val, x - addr) \in Nat
    BY <2>1, ShiftedNat
  <2>3. QED
    BY <2>2
<1> HIDE DEF b
<1>2. Stored(m, addr, WordBytes, val) =
        [x \in 0 .. MemSize - 1 |-> IF x \in addr .. addr + WordBytes - 1 THEN b(x) ELSE m[x]]
  BY DEF Stored, b
<1>3. /\ mem_write32(m, addr, val) \in Memory
      /\ \A x \in 0 .. MemSize - 1 :
           mem_write32(m, addr, val)[x] =
             IF addr + WordBytes <= MemSize /\ x \in addr .. addr + WordBytes - 1
             THEN b(x) ELSE m[x]
  <2>1. CASE addr + WordBytes <= MemSize
    <3>1. mem_write32(m, addr, val) = Stored(m, addr, WordBytes, val)
      BY <2>1 DEF mem_write32, check_bounds
    <3>2. QED
      BY <1>1, <1>2, <2>1, <3>1 DEF Memory
  <2>2. CASE ~ (addr + WordBytes <= MemSize)
    BY <2>2 DEF mem_write32, check_bounds
  <2>3. QED
    BY <2>1, <2>2
<1>4. QED
  BY <1>3 DEF b

-------------------------------------------------------------------------------
(* Pointers that wrap.                                                       *)

\* A multiple of the modulus does not change a remainder.
LEMMA ModMultiple ==
    ASSUME NEW w \in Nat, w > 0, NEW x \in Int, NEW q \in Int
    PROVE  (x + w * q) % w = x % w
<1> DEFINE y == x + w * q
           r == x % w
           s == y % w
           d == ((y \div w) - (x \div w)) - q
<1>1. x = w * (x \div w) + r /\ r \in 0 .. w - 1 /\ x \div w \in Int
  OBVIOUS
<1>2. y = w * (y \div w) + s /\ s \in 0 .. w - 1 /\ y \div w \in Int
  OBVIOUS
<1>3. d \in Int /\ r - s = w * d /\ r - s \in -(w - 1) .. w - 1
  BY <1>1, <1>2
<1> HIDE DEF d, r, s, y
<1>4. d = 0
  <2>1. CASE d >= 1
    BY <1>3, <2>1
  <2>2. CASE d <= -1
    BY <1>3, <2>2
  <2>3. QED
    BY <1>3, <2>1, <2>2
<1>5. r = s
  BY <1>1, <1>2, <1>3, <1>4
<1>6. QED
  BY <1>5 DEF r, s, y

LEMMA ModSum ==
    ASSUME NEW w \in Nat, w > 0, NEW x \in Int, NEW y \in Int
    PROVE  ((x % w) + y) % w = (x + y) % w
<1> DEFINE r == x % w
           d == x \div w
<1>1. x = w * d + r /\ r \in Int /\ d \in Int
  OBVIOUS
<1> HIDE DEF r, d
<1>2. x + y = (r + y) + w * d /\ r + y \in Int
  BY <1>1
<1>3. ((r + y) + w * d) % w = (r + y) % w
  BY <1>1, <1>2, ModMultiple
<1>4. QED
  BY <1>2, <1>3 DEF r

LEMMA ModSmall ==
    ASSUME NEW w \in Nat, NEW x \in 0 .. w - 1
    PROVE  x % w = x
OBVIOUS
-------------------------------------------------------------------------------
(* The loop invariant.                                                       *)

Starts == [mem : Memory, esi : 0 .. Addresses - 1, edi : 0 .. Addresses - 1,
           ecx : Nat, cf : BOOLEAN, zf : BOOLEAN]

Shape == TypeOK /\ start \in Starts /\ (rep => op \in Rep \cup {"scasb"})

\* The registers after any number of iterations.
Progress ==
    /\ ecx <= start.ecx
    /\ edi = (start.edi + Bytes) % Addresses
    /\ op \in {"movsb", "movsd", "cmpsb"} => esi = (start.esi + Bytes) % Addresses
    /\ pc = "done" /\ rep /\ op # "scasb" => ecx = 0

\* The part of a copy that is done: from the source as it was, or, from a
\* source d bytes below the destination, the first d bytes repeated.
Copied ==
    Moves /\ Inside(start.esi, Bytes) /\ Inside(start.edi, Bytes) =>
      LET d == start.edi - start.esi IN
      /\ d <= 0 => \A i \in 0 .. Bytes - 1 : mem[start.edi + i] = start.mem[start.esi + i]
      /\ d > 0 /\ (d >= Bytes \/ d % Unit(op) = 0) =>
           \A i \in 0 .. Bytes - 1 : mem[start.edi + i] = start.mem[start.esi + (i % d)]

\* A scan still running has met no byte equal to AL.
Scanning ==
    op = "scasb" /\ rep =>
      /\ pc = "run" => \A i \in 0 .. Made - 1 :
                         mem_read8(mem, (start.edi + i) % Addresses) # al
      /\ pc = "run" /\ Made > 0 => ~zf
      /\ Made = 0 => cf = start.cf /\ zf = start.zf

IInv == Shape /\ Progress /\ OnlyDestination /\ Copied /\ Scanning /\ ScanExact

LEMMA Units == Unit(op) \in Nat /\ Unit(op) > 0
BY Sizes DEF Unit

LEMMA Counted ==
    ASSUME Shape, Progress
    PROVE  Made \in Nat /\ Bytes \in Nat
<1>1. Made \in Nat
  BY DEF Shape, TypeOK, Starts, Progress, Made
<1> HIDE DEF Made
<1>2. QED
  BY <1>1, Units DEF Bytes

\* What every iteration does to the count.
LEMMA Advances ==
    ASSUME Shape, Progress, pc = "run", op' = op, rep' = rep, start' = start,
           rep => ecx > 0 /\ ecx' = ecx - 1, ~rep => ecx' = ecx /\ pc' = "done"
    PROVE  /\ Made \in Nat /\ Bytes \in Nat
           /\ Made' = Made + 1 /\ Bytes' = Bytes + Unit(op)
           /\ ecx' \in Nat /\ ecx' <= start.ecx
<1>1. /\ ecx \in Nat /\ start.ecx \in Nat /\ ecx <= start.ecx /\ rep \in BOOLEAN
      /\ rep' \in BOOLEAN
  BY DEF Shape, TypeOK, Starts, Progress
<1>2. Made \in Nat /\ Bytes \in Nat
  BY Counted
<1>3. Made' = Made + 1
  <2>1. CASE rep
    <3>1. Made = start.ecx - ecx /\ Made' = start.ecx - (ecx - 1)
      BY <2>1 DEF Made
    <3>2. QED
      BY <1>1, <3>1
  <2>2. CASE ~rep
    BY <2>2 DEF Made
  <2>3. QED
    BY <1>1, <2>1, <2>2
<1>4. ecx' \in Nat /\ ecx' <= start.ecx
  BY <1>1
<1>5. Bytes = Made * Unit(op) /\ Bytes' = Made' * Unit(op)
  BY DEF Bytes, Unit
<1>6. (Made + 1) * Unit(op) = Made * Unit(op) + Unit(op)
  BY <1>2, Units
<1>7. QED
  BY <1>2, <1>3, <1>4, <1>5, <1>6

\* A pointer after one more unit.
LEMMA PointerAdvances ==
    ASSUME NEW p \in Nat, NEW b \in Nat, NEW u \in Nat
    PROVE  /\ advance((p + b) % Addresses, u) = (p + (b + u)) % Addresses
           /\ advance((p + b) % Addresses, u) \in 0 .. Addresses - 1
<1> DEFINE x == p + b
<1>0. x \in Int /\ u \in Int /\ Addresses \in Nat /\ Addresses > 0
  BY Sizes
<1> HIDE DEF x
<1>1. ((x % Addresses) + u) % Addresses = (x + u) % Addresses
  BY <1>0, ModSum
<1>2. x + u = p + (b + u) /\ x + u \in Nat
  BY DEF x
<1>3. QED
  BY <1>0, <1>1, <1>2 DEF advance, x

-------------------------------------------------------------------------------
(* The invariant holds at the start.                                         *)

LEMMA InitInv == Init => IInv
<1> SUFFICES ASSUME Init PROVE IInv
  OBVIOUS
<1> USE Sizes, StringAssumption
<1>1. /\ pc = "run" /\ op \in Single /\ rep \in BOOLEAN
      /\ mem \in Memory /\ esi \in 0 .. Addresses - 1 /\ edi \in 0 .. Addresses - 1
      /\ ecx \in Nat /\ eax \in Nat /\ cf \in BOOLEAN /\ zf \in BOOLEAN
      /\ rep => op \in Rep \cup {"scasb"}
      /\ start = [mem |-> mem, esi |-> esi, edi |-> edi, ecx |-> ecx, cf |-> cf, zf |-> zf]
  BY DEF Init
<1>2. /\ start.mem = mem /\ start.esi = esi /\ start.edi = edi /\ start.ecx = ecx
      /\ start.cf = cf /\ start.zf = zf
  BY <1>1
<1>3. start \in Starts
  BY <1>1 DEF Starts
<1>4. Shape
  BY <1>1, <1>3 DEF Shape, TypeOK
<1>5. Made = 0 /\ Bytes = 0
  <2>1. Made = 0
    BY <1>1, <1>2 DEF Made
  <2>2. QED
    BY <2>1, Units DEF Bytes
<1>6. Progress
  <2>1. (edi + 0) % Addresses = edi /\ (esi + 0) % Addresses = esi
    BY <1>1
  <2>2. QED
    BY <1>1, <1>2, <1>5, <2>1 DEF Progress
<1>7. OnlyDestination
  BY <1>2 DEF OnlyDestination
<1>8. Copied
  BY <1>5 DEF Copied
<1>9. Scanning /\ ScanExact
  BY <1>1, <1>2, <1>5 DEF Scanning, ScanExact
<1>10. QED
  BY <1>4, <1>6, <1>7, <1>8, <1>9 DEF IInv
-------------------------------------------------------------------------------
(* Iterations that write.                                                    *)

\* A unit written at EDI lies in the destination, unless it lies nowhere.
LEMMA WritesThere ==
    ASSUME Shape, Progress, OnlyDestination, Writes, Writes', start' = start,
           Bytes \in Nat, NEW u \in Nat, Bytes' = Bytes + u,
           \A x \in 0 .. MemSize - 1 : mem'[x] # mem[x] => x \in edi .. edi + u - 1
    PROVE  OnlyDestination'
<1> USE Sizes
<1>1. edi = (start.edi + Bytes) % Addresses /\ start.edi \in Nat /\ edi \in Nat
  BY DEF Shape, TypeOK, Starts, Progress
<1> SUFFICES ASSUME NEW x \in 0 .. MemSize - 1, mem'[x] # start.mem[x]
             PROVE  \E i \in 0 .. Bytes' - 1 : x = (start.edi + i) % Addresses
  BY DEF OnlyDestination
<1>2. CASE mem'[x] # mem[x]
  <2> DEFINE k == x - edi
             y == start.edi + Bytes
  <2>1. k \in 0 .. u - 1 /\ x = edi + k
    BY <1>1, <1>2
  <2>2. y \in Int /\ k \in Int /\ edi = y % Addresses /\ Addresses > 0
    BY <1>1, <2>1
  <2> HIDE DEF k, y
  <2>3. ((y % Addresses) + k) % Addresses = (y + k) % Addresses
    BY <2>2, ModSum
  <2>4. x % Addresses = x
    OBVIOUS
  <2>5. x = (y + k) % Addresses
    BY <2>1, <2>2, <2>3, <2>4
  <2>6. y + k = start.edi + (Bytes + k) /\ Bytes + k \in 0 .. Bytes' - 1
    BY <1>1, <2>1 DEF y
  <2>7. QED
    BY <2>5, <2>6
<1>3. CASE mem'[x] = mem[x]
  <2>1. PICK i \in 0 .. Bytes - 1 : x = (start.edi + i) % Addresses
    BY <1>3 DEF OnlyDestination
  <2>2. QED
    BY <2>1
<1>4. QED
  BY <1>2, <1>3

\* The registers after one more iteration.
LEMMA RegistersAdvance ==
    ASSUME Shape, Progress, pc = "run", op' = op, rep' = rep, start' = start,
           rep => ecx > 0 /\ ecx' = ecx - 1, ~rep => ecx' = ecx /\ pc' = "done",
           rep => pc' = "run" \/ op = "scasb",
           edi' = advance(edi, Unit(op)),
           op \in {"movsb", "movsd", "cmpsb"} => esi' = advance(esi, Unit(op)),
           op \notin {"movsb", "movsd", "cmpsb"} => esi' = esi
    PROVE  /\ Progress' /\ edi' \in 0 .. Addresses - 1 /\ esi' \in 0 .. Addresses - 1
           /\ ecx' \in Nat
<1> DEFINE u == Unit(op)
           b == Bytes
<1>1. /\ b \in Nat /\ Bytes' = b + u /\ ecx' \in Nat /\ ecx' <= start.ecx
  BY Advances
<1>2. u \in Nat
  BY Units
<1>3. /\ start.edi \in Nat /\ edi = (start.edi + b) % Addresses
      /\ start.esi \in Nat /\ esi \in 0 .. Addresses - 1
      /\ op \in {"movsb", "movsd", "cmpsb"} => esi = (start.esi + b) % Addresses
  BY Sizes DEF Shape, TypeOK, Starts, Progress
<1> HIDE DEF u, b
<1>4. edi' = (start.edi + (b + u)) % Addresses /\ edi' \in 0 .. Addresses - 1
  <2>1. edi' = advance((start.edi + b) % Addresses, u)
    BY <1>3 DEF u
  <2>2. QED
    BY <1>1, <1>2, <1>3, <2>1, PointerAdvances
<1>5. CASE op \in {"movsb", "movsd", "cmpsb"}
  <2>1. esi' = advance((start.esi + b) % Addresses, u)
    BY <1>3, <1>5 DEF u
  <2>2. esi' = (start.esi + (b + u)) % Addresses /\ esi' \in 0 .. Addresses - 1
    BY <1>1, <1>2, <1>3, <2>1, PointerAdvances
  <2>3. QED
    BY <1>1, <1>4, <1>5, <2>2 DEF Progress
<1>6. CASE op \notin {"movsb", "movsd", "cmpsb"}
  BY <1>1, <1>3, <1>4, <1>6 DEF Progress
<1>7. QED
  BY <1>5, <1>6

\* What an iteration of MOVSB or MOVSD writes.
LEMMA MovedBytes ==
    ASSUME Shape, Move
    PROVE  /\ mem' \in Memory
           /\ \A x \in 0 .. MemSize - 1 : mem'[x] # mem[x] => x \in edi .. edi + Unit(op) - 1
           /\ esi + Unit(op) <= MemSize /\ edi + Unit(op) <= MemSize =>
                \A x \in 0 .. MemSize - 1 :
                  mem'[x] = IF x \in edi .. edi + Unit(op) - 1 THEN mem[esi + (x - edi)] ELSE mem[x]
<1> USE Sizes
<1>1. mem \in Memory /\ esi \in Nat /\ edi \in Nat
  BY DEF Shape, TypeOK
<1>2. CASE op = "movsb"
  <2> DEFINE v == mem_read8(mem, esi)
  <2>1. v \in 0 .. ByteValues - 1
    BY <1>1, ReadByte
  <2>2. mem' = mem_write8(mem, edi, v) /\ Unit(op) = 1
    BY <1>2 DEF Move, Unit
  <2>3. esi + 1 <= MemSize => v = mem[esi]
    BY DEF mem_read8, check_bounds
  <2> HIDE DEF v
  <2>4. /\ mem' \in Memory
        /\ \A x \in 0 .. MemSize - 1 :
             mem'[x] = IF edi + 1 <= MemSize /\ x = edi THEN v ELSE mem[x]
    BY <1>1, <2>1, <2>2, WriteByte
  <2>5. QED
    BY <1>1, <2>2, <2>3, <2>4
<1>3. CASE op = "movsd"
  <2> DEFINE v == mem_read32(mem, esi)
  <2>1. v \in Nat
    BY <1>1, ReadWord
  <2>2. mem' = mem_write32(mem, edi, v) /\ Unit(op) = WordBytes
    BY <1>3 DEF Move, Unit
  <2>3. ASSUME esi + WordBytes <= MemSize, NEW x \in edi .. edi + WordBytes - 1
        PROVE  Shifted(v, x - edi) % ByteValues = mem[esi + (x - edi)]
    <3> DEFINE k == x - edi
    <3>1. k \in 0 .. WordBytes - 1
      BY <1>1, <2>3
    <3>2. \A y \in esi .. esi + WordBytes - 1 : mem[y] \in 0 .. ByteValues - 1
      BY <1>1, <2>3 DEF Memory
    <3>3. v = Value(mem, esi, WordBytes)
      BY <2>3 DEF mem_read32, check_bounds
    <3> HIDE DEF k
    <3>4. Shifted(Value(mem, esi, WordBytes), k) % ByteValues = mem[esi + k]
      BY <1>1, <3>1, <3>2, BytesOfValue
    <3>5. QED
      BY <3>3, <3>4 DEF k
  <2> HIDE DEF v
  <2>4. /\ mem' \in Memory
        /\ \A x \in 0 .. MemSize - 1 :
             mem'[x] = IF edi + WordBytes <= MemSize /\ x \in edi .. edi + WordBytes - 1
                       THEN Shifted(v, x - edi) % ByteValues ELSE mem[x]
    <3>1. /\ mem_write32(mem, edi, v) \in Memory
          /\ \A x \in 0 .. MemSize - 1 :
               mem_write32(mem, edi, v)[x] =
                 IF edi + WordBytes <= MemSize /\ x \in edi .. edi + WordBytes - 1
                 THEN Shifted(v, x - edi) % ByteValues ELSE mem[x]
      BY <1>1, <2>1, WriteWord, Zenon
    <3>2. QED
      BY <2>2, <3>1, Zenon
  <2>5. QED
    BY <1>1, <2>2, <2>3, <2>4
<1>4. QED
  BY <1>2, <1>3 DEF Move, Iterates
\* One more unit of a copy.  Where the source still holds what it held, the
\* unit is the next one; where the copy has already written it, the unit is
\* the one that was copied d bytes before.
LEMMA CopyStep ==
    ASSUME Shape, Progress, OnlyDestination, Copied, Move,
           Bytes \in Nat, Bytes' = Bytes + Unit(op)
    PROVE  Copied'
<1> USE Sizes
<1> DEFINE b == Bytes
           u == Unit(op)
           s == start.esi
           t == start.edi
           d == t - s
           old == start.mem
<1>1. b \in Nat /\ u \in Nat /\ u > 0 /\ s \in Nat /\ t \in Nat /\ d \in Int
  BY Units DEF Shape, Starts
<1>2. op' = op /\ start' = start /\ Moves /\ Moves' /\ Unit(op)' = u /\ Bytes' = b + u
  BY DEF Move, Iterates, Moves, Unit
<1>3. esi = (s + b) % Addresses /\ edi = (t + b) % Addresses
  BY <1>2 DEF Progress, Moves
<1>4. \A x \in 0 .. MemSize - 1 :
        mem[x] # old[x] => \E i \in 0 .. b - 1 : x = (t + i) % Addresses
  BY DEF OnlyDestination
<1>5. s + b <= MemSize /\ t + b <= MemSize =>
        /\ d <= 0 => \A i \in 0 .. b - 1 : mem[t + i] = old[s + i]
        /\ d > 0 /\ (d >= b \/ d % u = 0) => \A i \in 0 .. b - 1 : mem[t + i] = old[s + (i % d)]
  BY <1>2 DEF Copied, Inside
<1>6. esi + u <= MemSize /\ edi + u <= MemSize =>
        \A x \in 0 .. MemSize - 1 :
          mem'[x] = IF x \in edi .. edi + u - 1 THEN mem[esi + (x - edi)] ELSE mem[x]
  BY MovedBytes
<1> HIDE DEF b, u, s, t, old
<1> SUFFICES ASSUME s + (b + u) <= MemSize, t + (b + u) <= MemSize
             PROVE  /\ d <= 0 => \A i \in 0 .. (b + u) - 1 : mem'[t + i] = old[s + i]
                    /\ d > 0 /\ (d >= b + u \/ d % u = 0) =>
                         \A i \in 0 .. (b + u) - 1 : mem'[t + i] = old[s + (i % d)]
  BY <1>2 DEF Copied, Inside, s, t, old
<1>7. s + b \in 0 .. Addresses - 1 /\ t + b \in 0 .. Addresses - 1
  BY <1>1
<1>8. esi = s + b /\ edi = t + b
  BY <1>3, <1>7, ModSmall
<1>9. ASSUME NEW i \in 0 .. b - 1 PROVE mem'[t + i] = mem[t + i]
  BY <1>1, <1>6, <1>8
<1>10. ASSUME NEW j \in 0 .. u - 1 PROVE mem'[t + (b + j)] = mem[s + (b + j)]
  <2>1. t + (b + j) \in 0 .. MemSize - 1 /\ t + (b + j) \in edi .. edi + u - 1
        /\ esi + ((t + (b + j)) - edi) = s + (b + j)
    BY <1>1, <1>8
  <2>2. QED
    BY <1>1, <1>6, <1>8, <2>1
\* Outside the part of the destination already written memory is as it was.
<1>11. ASSUME NEW x \in 0 .. MemSize - 1, x \notin t .. t + b - 1 PROVE mem[x] = old[x]
  <2>1. ASSUME NEW i \in 0 .. b - 1, x = (t + i) % Addresses PROVE FALSE
    <3>1. t + i \in 0 .. Addresses - 1
      BY <1>1
    <3>2. QED
      BY <1>1, <1>11, <2>1, <3>1, ModSmall
  <2>2. QED
    BY <1>4, <2>1
<1>12. CASE d <= 0
  <2>1. ASSUME NEW i \in 0 .. (b + u) - 1 PROVE mem'[t + i] = old[s + i]
    <3>1. CASE i < b
      <4>1. i \in 0 .. b - 1
        BY <1>1, <3>1
      <4>2. mem[t + i] = old[s + i]
        BY <1>1, <1>5, <1>12, <4>1
      <4>3. QED
        BY <1>9, <4>1, <4>2
    <3>2. CASE i >= b
      <4>1. i - b \in 0 .. u - 1 /\ b + (i - b) = i
        BY <1>1, <3>2
      <4>2. mem'[t + i] = mem[s + i]
        BY <1>10, <4>1
      <4>3. s + i \in 0 .. MemSize - 1 /\ s + i \notin t .. t + b - 1
        BY <1>1, <1>12, <3>2
      <4>4. QED
        BY <1>11, <4>2, <4>3
    <3>3. QED
      BY <1>1, <3>1, <3>2
  <2>2. QED
    BY <1>1, <1>12, <2>1
<1>13. ASSUME d > 0, d >= b + u \/ d % u = 0, NEW i \in 0 .. (b + u) - 1
       PROVE  mem'[t + i] = old[s + (i % d)]
  <2>1. CASE i < b
    <3>1. i \in 0 .. b - 1 /\ (d >= b \/ d % u = 0)
      BY <1>1, <1>13, <2>1
    <3>2. mem[t + i] = old[s + (i % d)]
      BY <1>1, <1>5, <1>13, <3>1
    <3>3. QED
      BY <1>9, <3>1, <3>2
  <2>2. CASE i >= b /\ i < d
    <3>1. i - b \in 0 .. u - 1 /\ b + (i - b) = i
      BY <1>1, <2>2
    <3>2. mem'[t + i] = mem[s + i]
      BY <1>10, <3>1
    <3>3. s + i \in 0 .. MemSize - 1 /\ s + i \notin t .. t + b - 1
      BY <1>1, <2>2
    <3>4. d \in Nat /\ i \in 0 .. d - 1
      BY <1>1, <1>13, <2>2
    <3> HIDE DEF d
    <3>5. i % d = i
      BY <3>4, ModSmall
    <3>6. QED
      BY <1>11, <3>2, <3>3, <3>5
  <2>3. CASE i >= b /\ i >= d
    <3>1. i - b \in 0 .. u - 1 /\ b + (i - b) = i
      BY <1>1, <2>3
    <3>2. mem'[t + i] = mem[s + i]
      BY <1>10, <3>1
    <3>3. d % u = 0
      BY <1>1, <1>13, <2>3
    <3>4. d >= u
      <4>1. CASE d < u
        <5>1. d \in 0 .. u - 1
          BY <1>1, <1>13, <4>1
        <5> HIDE DEF d
        <5>2. d % u = d
          BY <1>1, <5>1, ModSmall
        <5>3. QED
          BY <1>13, <3>3, <5>2, <5>1
      <4>2. QED
        BY <1>1, <4>1
    <3>5. i - d \in 0 .. b - 1 /\ s + i = t + (i - d)
      BY <1>1, <1>13, <2>3, <3>4
    <3>6. mem[t + (i - d)] = old[s + ((i - d) % d)]
      <4>1. \A k \in 0 .. b - 1 : mem[t + k] = old[s + (k % d)]
        BY <1>1, <1>5, <1>13, <3>3
      <4>2. QED
        BY <3>5, <4>1, Zenon
    <3>7. (i - d) % d = i % d
      <4>1. d \in Nat /\ i - d \in Int /\ (i - d) + d * 1 = i
        BY <1>1, <1>13
      <4> DEFINE y == i - d
      <4>2. y \in Int /\ y + d * 1 = i /\ 1 \in Int
        BY <4>1
      <4> HIDE DEF d, y
      <4>3. (y + d * 1) % d = y % d
        BY <1>13, <4>1, <4>2, ModMultiple
      <4>4. QED
        BY <4>2, <4>3 DEF y
    <3>8. QED
      BY <3>2, <3>5, <3>6, <3>7
  <2>4. QED
    BY <1>1, <2>1, <2>2, <2>3
<1>14. QED
  BY <1>1, <1>12, <1>13
-------------------------------------------------------------------------------
(* One lemma per action.                                                     *)

LEMMA KeepsMove ==
    ASSUME IInv, Move
    PROVE  IInv'
<1> USE DEF IInv
<1>1. /\ pc = "run" /\ op \in {"movsb", "movsd"} /\ op' = op /\ rep' = rep /\ start' = start
      /\ rep => ecx > 0 /\ ecx' = ecx - 1
      /\ ~rep => ecx' = ecx /\ pc' = "done"
      /\ rep => pc' = "run"
      /\ pc' \in {"run", "done"}
      /\ edi' = advance(edi, Unit(op)) /\ esi' = advance(esi, Unit(op))
      /\ eax' = eax /\ cf' = cf /\ zf' = zf
  BY DEF Move, Iterates, count_down, Again
<1>2. Bytes \in Nat /\ Bytes' = Bytes + Unit(op)
  BY <1>1, Advances
<1>3. Progress' /\ edi' \in 0 .. Addresses - 1 /\ esi' \in 0 .. Addresses - 1 /\ ecx' \in Nat
  BY <1>1, RegistersAdvance
<1>4. /\ mem' \in Memory
      /\ \A x \in 0 .. MemSize - 1 : mem'[x] # mem[x] => x \in edi .. edi + Unit(op) - 1
  BY MovedBytes
<1>5. Shape'
  BY <1>1, <1>3, <1>4 DEF Shape, TypeOK
<1>6. OnlyDestination'
  <2>1. Writes /\ Writes'
    BY <1>1 DEF Writes, Moves
  <2>2. QED
    BY <1>1, <1>2, <1>4, <2>1, Units, WritesThere
<1>7. Copied'
  BY <1>2, CopyStep
<1>8. Scanning' /\ ScanExact'
  BY <1>1 DEF Scanning, ScanExact
<1>9. QED
  BY <1>3, <1>5, <1>6, <1>7, <1>8

LEMMA KeepsStore ==
    ASSUME IInv, Store
    PROVE  IInv'
<1> USE Sizes DEF IInv
<1>1. /\ pc = "run" /\ op \in {"stosb", "stosd"} /\ op' = op /\ rep' = rep /\ start' = start
      /\ rep => ecx > 0 /\ ecx' = ecx - 1
      /\ ~rep => ecx' = ecx /\ pc' = "done"
      /\ rep => pc' = "run"
      /\ pc' \in {"run", "done"}
      /\ edi' = advance(edi, Unit(op)) /\ esi' = esi
      /\ eax' = eax /\ cf' = cf /\ zf' = zf
  BY DEF Store, Iterates, count_down, Again
<1>2. Bytes \in Nat /\ Bytes' = Bytes + Unit(op)
  BY <1>1, Advances
<1>3. Progress' /\ edi' \in 0 .. Addresses - 1 /\ esi' \in 0 .. Addresses - 1 /\ ecx' \in Nat
  BY <1>1, RegistersAdvance
<1>4. /\ mem' \in Memory
      /\ \A x \in 0 .. MemSize - 1 : mem'[x] # mem[x] => x \in edi .. edi + Unit(op) - 1
  <2>1. mem \in Memory /\ edi \in Nat /\ eax \in Nat
    BY DEF Shape, TypeOK
  <2>2. CASE op = "stosb"
    <3>1. al \in 0 .. ByteValues - 1
      BY <2>1 DEF al
    <3>2. mem' = mem_write8(mem, edi, al) /\ Unit(op) = 1
      BY <2>2 DEF Store, Unit
    <3> HIDE DEF al
    <3>3. /\ mem' \in Memory
          /\ \A x \in 0 .. MemSize - 1 :
               mem'[x] = IF edi + 1 <= MemSize /\ x = edi THEN al ELSE mem[x]
      BY <2>1, <3>1, <3>2, WriteByte
    <3>4. QED
      BY <2>1, <3>2, <3>3
  <2>3. CASE op = "stosd"
    <3>1. mem' = mem_write32(mem, edi, eax) /\ Unit(op) = WordBytes
      BY <2>3 DEF Store, Unit
    <3>2. /\ mem_write32(mem, edi, eax) \in Memory
          /\ \A x \in 0 .. MemSize - 1 :
               mem_write32(mem, edi, eax)[x] =
                 IF edi + WordBytes <= MemSize /\ x \in edi .. edi + WordBytes - 1
                 THEN Shifted(eax, x - edi) % ByteValues ELSE mem[x]
      BY <2>1, WriteWord, Zenon
    <3>3. QED
      BY <3>1, <3>2
  <2>4. QED
    BY <1>1, <2>2, <2>3
<1>5. Shape'
  BY <1>1, <1>3, <1>4 DEF Shape, TypeOK
<1>6. OnlyDestination'
  <2>1. Writes /\ Writes'
    BY <1>1 DEF Writes, Moves
  <2>2. QED
    BY <1>1, <1>2, <1>4, <2>1, Units, WritesThere
<1>7. Copied' /\ Scanning' /\ ScanExact'
  BY <1>1 DEF Copied, Moves, Scanning, ScanExact
<1>8. QED
  BY <1>3, <1>5, <1>6, <1>7

\* Memory that does not change is changed nowhere else.
LEMMA KeepsMemory ==
    ASSUME OnlyDestination, UNCHANGED <<mem, op, start>>, Bytes \in Nat,
           Bytes' \in Nat, Bytes <= Bytes'
    PROVE  OnlyDestination'
<1> SUFFICES ASSUME NEW x \in 0 .. MemSize - 1, mem[x] # start.mem[x]
             PROVE  Writes /\ \E i \in 0 .. Bytes' - 1 : x = (start.edi + i) % Addresses
  BY DEF OnlyDestination, Writes, Moves
<1>1. Writes /\ \E i \in 0 .. Bytes - 1 : x = (start.edi + i) % Addresses
  BY DEF OnlyDestination
<1> DEFINE b == Bytes
           c == Bytes'
<1>2. b \in Nat /\ c \in Nat /\ b <= c
  OBVIOUS
<1> HIDE DEF b, c
<1>3. \A i \in 0 .. b - 1 : i \in 0 .. c - 1
  BY <1>2
<1>4. QED
  BY <1>1, <1>3, Zenon DEF b, c

LEMMA KeepsScan ==
    ASSUME IInv, Scan
    PROVE  IInv'
<1> USE Sizes DEF IInv
<1> DEFINE b == mem_read8(mem, edi)
<1>1. /\ pc = "run" /\ op = "scasb" /\ op' = op /\ rep' = rep /\ start' = start
      /\ rep => ecx > 0 /\ ecx' = ecx - 1
      /\ ~rep => ecx' = ecx /\ pc' = "done"
      /\ pc' \in {"run", "done"}
      /\ edi' = advance(edi, 1) /\ esi' = esi
      /\ eax' = eax /\ mem' = mem
      /\ cf' = (al < b) /\ zf' = (al = b)
      /\ pc' = IF rep /\ al # b THEN "run" ELSE "done"
      /\ rep \in BOOLEAN
  BY DEF Scan, Iterates, count_down, Shape, TypeOK
<1>2. Unit(op) = 1
  BY <1>1 DEF Unit
<1>3. /\ Made \in Nat /\ Bytes \in Nat /\ Made' = Made + 1 /\ Bytes' = Bytes + 1
      /\ ecx' \in Nat
  BY <1>1, <1>2, Advances
<1>4. Progress' /\ edi' \in 0 .. Addresses - 1 /\ esi' \in 0 .. Addresses - 1
  BY <1>1, <1>2, RegistersAdvance
<1>5. Shape'
  BY <1>1, <1>3, <1>4 DEF Shape, TypeOK
<1>6. OnlyDestination'
  BY <1>1, <1>3, KeepsMemory
<1>7. Copied'
  BY <1>1 DEF Copied, Moves
<1>8. CASE rep
  <2> DEFINE at(i) == mem_read8(mem, (start.edi + i) % Addresses)
  <2>1. Bytes = Made
    BY <1>2, <1>3 DEF Bytes
  <2>2. edi = (start.edi + Made) % Addresses
    BY <2>1 DEF Progress
  <2>3. b = at(Made)
    BY <2>2
  <2>4. \A i \in 0 .. Made - 1 : at(i) # al
    BY <1>1, <1>8 DEF Scanning
  <2>5. al' = al /\ \A i : mem_read8(mem, (start.edi + i) % Addresses)' = at(i)
    BY <1>1 DEF al, mem_read8
  <2>6. start.ecx # 0
    BY <1>1, <1>8 DEF Shape, TypeOK, Starts, Progress
  <2> HIDE DEF b, at
  <2>7. \A i \in 0 .. Made : i # Made => i \in 0 .. Made - 1
    BY <1>3
  <2>8. Scanning'
    <3>1. pc' = "run" => \A i \in 0 .. Made' - 1 : at(i) # al
      BY <1>1, <1>3, <2>3, <2>4
    <3>2. pc' = "run" => ~zf'
      BY <1>1
    <3>3. Made' # 0
      BY <1>3
    <3>4. QED
      BY <1>1, <2>5, <3>1, <3>2, <3>3 DEF Scanning
  <2>9. ScanExact'
    <3>1. \A i \in 0 .. Made' - 2 : at(i) # al
      BY <1>3, <2>4
    <3>2. zf' <=> at(Made' - 1) = al
      <4>1. Made' - 1 = Made
        BY <1>3
      <4>2. QED
        BY <1>1, <2>3, <4>1
    <3>3. pc' = "done" => zf'
      BY <1>1, <1>8
    <3>4. QED
      BY <1>1, <2>5, <2>6, <3>1, <3>2, <3>3 DEF ScanExact
  <2>10. QED
    BY <1>4, <1>5, <1>6, <1>7, <2>8, <2>9
<1>9. CASE ~rep
  BY <1>1, <1>4, <1>5, <1>6, <1>7, <1>9 DEF Scanning, ScanExact
<1>10. QED
  BY <1>1, <1>8, <1>9

LEMMA KeepsCompare ==
    ASSUME IInv, Compare
    PROVE  IInv'
<1> USE DEF IInv
<1>1. /\ pc = "run" /\ op = "cmpsb" /\ op' = op /\ rep' = rep /\ start' = start
      /\ rep = FALSE /\ ecx' = ecx /\ pc' = "done"
      /\ edi' = advance(edi, 1) /\ esi' = advance(esi, 1)
      /\ eax' = eax /\ mem' = mem /\ cf' \in BOOLEAN /\ zf' \in BOOLEAN
  BY DEF Compare, Iterates, Again, Shape, TypeOK, Rep
<1>2. Unit(op) = 1
  BY <1>1 DEF Unit
<1>3. Bytes \in Nat /\ Bytes' = Bytes + 1
  BY <1>1, <1>2, Advances
<1>4. Progress' /\ edi' \in 0 .. Addresses - 1 /\ esi' \in 0 .. Addresses - 1 /\ ecx' \in Nat
  BY <1>1, <1>2, RegistersAdvance
<1>5. Shape'
  BY <1>1, <1>4 DEF Shape, TypeOK
<1>6. OnlyDestination'
  BY <1>1, <1>3, KeepsMemory
<1>7. Copied' /\ Scanning' /\ ScanExact'
  BY <1>1 DEF Copied, Moves, Scanning, ScanExact
<1>8. QED
  BY <1>4, <1>5, <1>6, <1>7

\* The loop ends with the count at zero, and only then.
LEMMA KeepsExhausted ==
    ASSUME IInv, Exhausted
    PROVE  IInv'
<1> USE DEF IInv
<1>1. /\ pc = "run" /\ rep = TRUE /\ ecx = 0 /\ pc' = "done"
      /\ UNCHANGED <<op, rep, mem, esi, edi, ecx, eax, cf, zf, start>>
  BY DEF Exhausted, Shape, TypeOK
<1>2. Made' = Made /\ Bytes' = Bytes /\ Made \in Nat /\ Bytes \in Nat /\ Made = start.ecx
  <2>1. Made \in Nat /\ Bytes \in Nat
    BY Counted
  <2>2. Made' = Made
    BY <1>1 DEF Made
  <2>3. Made = start.ecx
    BY <1>1 DEF Made, Shape, Starts
  <2>4. QED
    BY <1>1, <2>1, <2>2, <2>3 DEF Bytes, Unit
<1>3. Shape' /\ Progress'
  BY <1>1, <1>2 DEF Shape, TypeOK, Progress
<1>4. OnlyDestination'
  BY <1>1, <1>2, KeepsMemory
<1>5. Copied'
  BY <1>1, <1>2 DEF Copied, Moves, Inside, Unit
<1>6. Scanning'
  BY <1>1, <1>2 DEF Scanning
<1>7. ScanExact'
  <2>1. CASE op = "scasb"
    <3> DEFINE at(i) == mem_read8(mem, (start.edi + i) % Addresses)
    <3>1. \A i \in 0 .. Made - 1 : at(i) # al
      BY <1>1, <2>1 DEF Scanning
    <3>2. Made > 0 => ~zf
      BY <1>1, <2>1 DEF Scanning
    <3>3. Made = 0 => cf = start.cf /\ zf = start.zf
      BY <1>1, <2>1 DEF Scanning
    <3>4. al' = al /\ \A i : mem_read8(mem, (start.edi + i) % Addresses)' = at(i)
      BY <1>1 DEF al, mem_read8
    <3> HIDE DEF at
    <3>5. /\ \A i \in 0 .. Made - 2 : at(i) # al
          /\ Made > 0 => at(Made - 1) # al
      BY <1>2, <3>1
    <3>6. QED
      BY <1>1, <1>2, <3>2, <3>3, <3>4, <3>5 DEF ScanExact
  <2>2. QED
    BY <1>1, <2>1 DEF ScanExact
<1>8. QED
  BY <1>3, <1>4, <1>5, <1>6, <1>7

LEMMA KeepsStutter ==
    ASSUME IInv, UNCHANGED vars
    PROVE  IInv'
BY DEF IInv, vars, Shape, TypeOK, Progress, OnlyDestination, Copied, Scanning, ScanExact,
       Bytes, Made, Unit, Writes, Moves, Inside, al, mem_read8

LEMMA StepInv == IInv /\ [Next]_vars => IInv'
<1> SUFFICES ASSUME IInv, [Next]_vars PROVE IInv'
  OBVIOUS
<1>1. QED
  BY KeepsMove, KeepsStore, KeepsScan, KeepsCompare, KeepsExhausted, KeepsStutter
     DEF Next, Finished

LEMMA Invariant == Spec => []IInv
BY InitInv, StepInv, PTL DEF Spec
-------------------------------------------------------------------------------
(* Theorems.                                                                 *)

\* No string instruction changes a byte outside its destination at any point
\* of its loop, in a memory of any size, whatever wraps.
THEOREM DestinationOnly == Spec => []OnlyDestination
<1>1. IInv => OnlyDestination
  BY DEF IInv
<1>2. QED
  BY <1>1, Invariant, PTL

\* MOVSB and MOVSD, alone or under REP, copy the source as it was, or repeat
\* its first bytes over a destination that starts inside it, for every count.
THEOREM CopiesExact == Spec => []CopyExact
<1>1. IInv => CopyExact
  <2> SUFFICES ASSUME IInv, pc = "done", Moves,
                      Inside(start.esi, Bytes), Inside(start.edi, Bytes),
                      LET d == start.edi - start.esi
                      IN  (d <= 0 \/ d >= Bytes) \/ d % Unit(op) = 0,
                      NEW i \in 0 .. Bytes - 1
               PROVE  LET d == start.edi - start.esi IN
                      mem[start.edi + i] =
                        start.mem[start.esi + (IF d <= 0 \/ d >= Bytes THEN i ELSE i % d)]
    BY DEF CopyExact
  <2> DEFINE d == start.edi - start.esi
             b == Bytes
  <2>1. d \in Int /\ b \in Nat
    BY Counted DEF IInv, Shape, Starts
  <2>2. d <= 0 => \A k \in 0 .. b - 1 : mem[start.edi + k] = start.mem[start.esi + k]
    BY DEF IInv, Copied
  <2>3. d > 0 /\ (d >= b \/ d % Unit(op) = 0) =>
          \A k \in 0 .. b - 1 : mem[start.edi + k] = start.mem[start.esi + (k % d)]
    BY DEF IInv, Copied
  <2>4. (d <= 0 \/ d >= b) \/ d % Unit(op) = 0
    OBVIOUS
  <2>5. i \in 0 .. b - 1
    OBVIOUS
  <2> HIDE DEF d, b
  <2>6. d > 0 /\ d >= b => i % d = i
    BY <2>1, <2>5, ModSmall
  <2>7. mem[start.edi + i] = start.mem[start.esi + (IF d <= 0 \/ d >= b THEN i ELSE i % d)]
    <3>1. CASE d <= 0
      BY <2>2, <2>5, <3>1
    <3>2. CASE d > 0 /\ d >= b
      BY <2>1, <2>3, <2>5, <2>6, <3>2
    <3>3. CASE d > 0 /\ ~ (d >= b)
      <4>1. ~ (d <= 0)
        BY <2>1, <3>3
      <4>2. QED
        BY <2>3, <2>4, <2>5, <3>3, <4>1, Zenon
    <3>4. QED
      BY <2>1, <3>1, <3>2, <3>3
  <2>8. QED
    BY <2>7 DEF d, b
<1>2. QED
  BY <1>1, Invariant, PTL

\* A finished string instruction leaves EDI and ESI past the last unit and,
\* under REP, ECX at zero, for every count and however the pointers wrap.
THEOREM RegistersRight == Spec => []RegistersExact
<1>1. IInv => RegistersExact
  BY DEF IInv, Progress, RegistersExact
<1>2. QED
  BY <1>1, Invariant, PTL

\* REPNE SCASB stops at the first byte equal to AL or with the count used up,
\* and ZF tells which.
THEOREM ScansExact == Spec => []ScanExact
<1>1. IInv => ScanExact
  BY DEF IInv
<1>2. QED
  BY <1>1, Invariant, PTL
===============================================================================
