------------------------------ MODULE SimdProofs ------------------------------
(***************************************************************************)
(* Theorems on Simd, for any registers, memory, operands and immediates    *)
(* and any number of instructions.                                         *)
(***************************************************************************)
EXTENDS Simd, WellFoundedInduction, TLAPS

-------------------------------------------------------------------------------
(* Induction on the natural numbers, with the set where the claim holds.     *)

LEMMA Least ==
    ASSUME NEW T, T \subseteq Nat, T # {}
    PROVE  \E x \in T : \A y \in T : x <= y
<1> DEFINE R == {ss \in Nat \X Nat : ss[1] < ss[2]}
<1>1. IsWellFoundedOn(R, Nat)
  BY NatLessThanWellFounded DEF OpToRel
<1> HIDE DEF R
<1>2. PICK x \in T : \A y \in T : ~ (<<y, x>> \in R)
  BY <1>1, WFMin
<1>3. \A y \in T : <<y, x>>[1] = y /\ <<y, x>>[2] = x /\ <<y, x>> \in Nat \X Nat
  OBVIOUS
<1>4. \A y \in T : ~ (y < x)
  BY <1>2, <1>3, Zenon DEF R
<1>5. QED
  BY <1>2, <1>4

LEMMA Induction ==
    ASSUME NEW T, 0 \in T, \A n \in Nat : n \in T => n + 1 \in T
    PROVE  \A n \in Nat : n \in T
<1> DEFINE U == {n \in Nat : n \notin T}
<1> SUFFICES ASSUME U # {} PROVE FALSE
  OBVIOUS
<1>1. PICK x \in U : \A y \in U : x <= y
  BY Least
<1>2. x # 0 /\ x - 1 \in Nat
  BY <1>1
<1>3. x - 1 \in T
  BY <1>1, <1>2
<1>4. QED
  BY <1>1, <1>2, <1>3
-------------------------------------------------------------------------------
(* Powers of two.                                                            *)

\* The recursive function of Pow2.
Powers(n) == CHOOSE p : p = [i \in 0 .. n |-> IF i = 0 THEN 1 ELSE 2 * p[i - 1]]

\* Pow2 is that function.
LEMMA PowIsPower == ASSUME NEW n PROVE Pow2(n) = Powers(n)[n]
BY DEF Pow2, Powers

\* The recursive definition has a solution.
LEMMA PowersDefined ==
    ASSUME NEW n \in Nat
    PROVE  Powers(n) = [i \in 0 .. n |-> IF i = 0 THEN 1 ELSE 2 * Powers(n)[i - 1]]
<1> DEFINE T == {j \in Nat : \E f : f = [i \in 0 .. j |-> IF i = 0 THEN 1 ELSE 2 * f[i - 1]]}
<1>1. 0 \in T
  <2> DEFINE f == [i \in 0 .. 0 |-> 1]
  <2>1. f = [i \in 0 .. 0 |-> IF i = 0 THEN 1 ELSE 2 * f[i - 1]]
    OBVIOUS
  <2>2. QED
    BY <2>1
<1>2. ASSUME NEW j \in Nat, j \in T PROVE j + 1 \in T
  <2>1. PICK f : f = [i \in 0 .. j |-> IF i = 0 THEN 1 ELSE 2 * f[i - 1]]
    BY <1>2
  <2> DEFINE g == [i \in 0 .. j + 1 |-> IF i = j + 1 THEN 2 * f[j] ELSE f[i]]
  <2>2. ASSUME NEW i \in 0 .. j + 1
        PROVE  g[i] = IF i = 0 THEN 1 ELSE 2 * g[i - 1]
    <3>1. CASE i = j + 1
      BY <3>1
    <3>2. CASE i # j + 1
      <4>1. i \in 0 .. j /\ g[i] = f[i] /\ (i # 0 => g[i - 1] = f[i - 1])
        BY <3>2
      <4>2. QED
        BY <4>1, <2>1
    <3>3. QED
      BY <3>1, <3>2
  <2> HIDE DEF g
  <2>3. g = [i \in 0 .. j + 1 |-> IF i = 0 THEN 1 ELSE 2 * g[i - 1]]
    BY <2>2 DEF g
  <2>4. \E h : h = [i \in 0 .. j + 1 |-> IF i = 0 THEN 1 ELSE 2 * h[i - 1]]
    BY <2>3, Zenon
  <2>5. j + 1 \in Nat
    OBVIOUS
  <2>6. QED
    BY <2>4, <2>5, Zenon
<1> HIDE DEF T
<1>3. n \in T
  BY <1>1, <1>2, Induction
<1>4. \E f : f = [i \in 0 .. n |-> IF i = 0 THEN 1 ELSE 2 * f[i - 1]]
  BY <1>3 DEF T
<1>5. QED
  BY <1>4 DEF Powers

\* One more bit doubles the power.
LEMMA PowStep ==
    ASSUME NEW k \in Nat
    PROVE  Pow2(0) = 1 /\ Pow2(k + 1) = 2 * Pow2(k)
<1> DEFINE f == Powers(k)
           g == Powers(k + 1)
           z == Powers(0)
<1>1. /\ f = [i \in 0 .. k |-> IF i = 0 THEN 1 ELSE 2 * f[i - 1]]
      /\ g = [i \in 0 .. k + 1 |-> IF i = 0 THEN 1 ELSE 2 * g[i - 1]]
      /\ z = [i \in 0 .. 0 |-> IF i = 0 THEN 1 ELSE 2 * z[i - 1]]
  <2>1. k + 1 \in Nat /\ 0 \in Nat
    OBVIOUS
  <2>2. QED
    BY <2>1, PowersDefined, Zenon
<1>2. Pow2(0) = z[0] /\ Pow2(k) = f[k] /\ Pow2(k + 1) = g[k + 1]
  BY PowIsPower
<1> HIDE DEF f, g, z
<1> DEFINE T == {j \in Nat : j <= k => f[j] = g[j]}
<1>3. 0 \in T
  BY <1>1
<1>4. ASSUME NEW j \in Nat, j \in T PROVE j + 1 \in T
  <2>1. CASE j + 1 <= k
    <3>1. /\ f[j] = g[j] /\ j + 1 \in 0 .. k /\ j + 1 \in 0 .. k + 1 /\ j + 1 # 0
          /\ (j + 1) - 1 = j
      BY <1>4, <2>1
    <3>2. f[j + 1] = 2 * f[j] /\ g[j + 1] = 2 * g[j]
      BY <1>1, <3>1
    <3>3. QED
      BY <3>1, <3>2
  <2>2. QED
    BY <2>1
<1> HIDE DEF T
<1>5. k \in T
  BY <1>3, <1>4, Induction
<1>6. f[k] = g[k]
  BY <1>5 DEF T
<1>7. g[k + 1] = 2 * g[k] /\ z[0] = 1
  <2>1. k + 1 \in 0 .. k + 1 /\ k + 1 # 0 /\ (k + 1) - 1 = k
    OBVIOUS
  <2>2. QED
    BY <1>1, <2>1
<1>8. QED
  BY <1>2, <1>6, <1>7

\* Powers are positive.
LEMMA PowPositive ==
    ASSUME NEW k \in Nat
    PROVE  Pow2(k) \in Nat /\ Pow2(k) > 0
<1> DEFINE T == {j \in Nat : Pow2(j) \in Nat /\ Pow2(j) > 0}
<1>1. 0 \in T
  BY PowStep
<1>2. ASSUME NEW j \in Nat, j \in T PROVE j + 1 \in T
  <2>1. Pow2(j + 1) = 2 * Pow2(j)
    BY PowStep
  <2>2. QED
    BY <1>2, <2>1
<1> HIDE DEF T
<1>3. k \in T
  BY <1>1, <1>2, Induction
<1>4. QED
  BY <1>3 DEF T
-------------------------------------------------------------------------------
(* Sizes.                                                                    *)

LEMMA Sizes ==
    /\ MemSize \in Nat /\ Addresses \in Nat /\ MemSize < Addresses /\ Addresses >= 16
    /\ ByteBits \in Nat /\ ByteBits > 0 /\ ByteValues = Pow2(ByteBits)
    /\ Addrs \subseteq 0 .. Addresses - 1 /\ Imm8s \subseteq [0 .. 3 -> 0 .. 3]
    /\ Memories \subseteq Memory /\ Eaxs \subseteq Dword
BY SimdAssumption, MemoryAssumption

\* A byte has a top bit, which 0 lacks and the highest value has.
LEMMA TopBits ==
    /\ ByteValues \in Nat /\ ByteValues >= 2
    /\ 0 \in Byte /\ Ones \in Byte /\ ~TopBit(0) /\ TopBit(Ones)
<1>1. ByteBits - 1 \in Nat /\ (ByteBits - 1) + 1 = ByteBits
  BY Sizes
<1> DEFINE p == Pow2(ByteBits - 1)
<1>2. Pow2((ByteBits - 1) + 1) = 2 * p /\ p \in Nat /\ p > 0
  BY <1>1, PowStep, PowPositive
<1>3. ByteValues = 2 * p
  BY <1>1, <1>2, Sizes
<1> HIDE DEF p
<1> QED BY <1>2, <1>3 DEF TopBit, Ones, Byte

-------------------------------------------------------------------------------
(* PXOR.                                                                     *)

\* The recursive function of Xor.
HighBits(a, b) ==
    CHOOSE x : x = [n \in 0 .. ByteBits |->
                      IF n = 0 THEN 0
                      ELSE 2 * x[n - 1]
                             + (IF BitAt(a, ByteBits - n) # BitAt(b, ByteBits - n) THEN 1 ELSE 0)]

\* Xor is that function.
LEMMA XorIsHigh == ASSUME NEW a, NEW b PROVE Xor(a, b) = HighBits(a, b)[ByteBits]
BY DEF Xor, HighBits

\* The recursive definition has a solution.
LEMMA HighBitsDefined ==
    ASSUME NEW a, NEW b
    PROVE  HighBits(a, b) =
             [n \in 0 .. ByteBits |->
                IF n = 0 THEN 0
                ELSE 2 * HighBits(a, b)[n - 1]
                       + (IF BitAt(a, ByteBits - n) # BitAt(b, ByteBits - n) THEN 1 ELSE 0)]
<1> DEFINE e(n) == IF BitAt(a, ByteBits - n) # BitAt(b, ByteBits - n) THEN 1 ELSE 0
           T == {j \in Nat : \E f : f = [n \in 0 .. j |-> IF n = 0 THEN 0 ELSE 2 * f[n - 1] + e(n)]}
<1> HIDE DEF e
<1>1. 0 \in T
  <2> DEFINE f == [n \in 0 .. 0 |-> 0]
  <2>1. f = [n \in 0 .. 0 |-> IF n = 0 THEN 0 ELSE 2 * f[n - 1] + e(n)]
    OBVIOUS
  <2> QED BY <2>1
<1>2. ASSUME NEW j \in Nat, j \in T PROVE j + 1 \in T
  <2>1. PICK f : f = [n \in 0 .. j |-> IF n = 0 THEN 0 ELSE 2 * f[n - 1] + e(n)]
    BY <1>2
  <2> DEFINE g == [n \in 0 .. j + 1 |-> IF n = j + 1 THEN 2 * f[j] + e(n) ELSE f[n]]
  <2>2. ASSUME NEW n \in 0 .. j + 1
        PROVE  g[n] = IF n = 0 THEN 0 ELSE 2 * g[n - 1] + e(n)
    <3>1. CASE n = j + 1
      <4>1. g[n] = 2 * f[j] + e(n) /\ n - 1 = j /\ g[j] = f[j] /\ n # 0
        BY <3>1
      <4> QED BY <4>1
    <3>2. CASE n # j + 1
      <4>1. n \in 0 .. j /\ g[n] = f[n] /\ (n # 0 => g[n - 1] = f[n - 1])
        BY <3>2
      <4> QED BY <4>1, <2>1
    <3> QED BY <3>1, <3>2
  <2> HIDE DEF g
  <2>3. g = [n \in 0 .. j + 1 |-> IF n = 0 THEN 0 ELSE 2 * g[n - 1] + e(n)]
    BY <2>2 DEF g
  <2>4. \E f1 : f1 = [n \in 0 .. j + 1 |-> IF n = 0 THEN 0 ELSE 2 * f1[n - 1] + e(n)]
    BY <2>3, Zenon
  <2>5. j + 1 \in Nat
    OBVIOUS
  <2> QED BY <2>4, <2>5, Zenon
<1> HIDE DEF T
<1>3. ByteBits \in T
  BY <1>1, <1>2, Sizes, Induction
<1>4. \E f : f = [n \in 0 .. ByteBits |-> IF n = 0 THEN 0 ELSE 2 * f[n - 1] + e(n)]
  BY <1>3 DEF T
<1> QED BY <1>4, Zenon DEF HighBits, e

\* The exclusive or of two bytes is a byte, and of one with itself zero.
LEMMA XorForm ==
    ASSUME NEW a, NEW b
    PROVE  Xor(a, b) \in Byte /\ (a = b => Xor(a, b) = 0)
<1> DEFINE x == HighBits(a, b)
           e(n) == IF BitAt(a, ByteBits - n) # BitAt(b, ByteBits - n) THEN 1 ELSE 0
<1>1. x = [n \in 0 .. ByteBits |-> IF n = 0 THEN 0 ELSE 2 * x[n - 1] + e(n)]
  BY HighBitsDefined, Zenon
<1>2. \A n : (e(n) = 0 \/ e(n) = 1) /\ (a = b => e(n) = 0)
  OBVIOUS
<1> HIDE DEF x, e
<1> DEFINE T == {j \in Nat : j <= ByteBits =>
                   x[j] \in Nat /\ x[j] < Pow2(j) /\ (a = b => x[j] = 0)}
<1>3. 0 \in T
  <2>1. x[0] = 0 /\ Pow2(0) = 1
    BY <1>1, Sizes, PowStep
  <2> QED BY <2>1
<1>4. ASSUME NEW j \in Nat, j \in T PROVE j + 1 \in T
  <2>1. CASE j + 1 <= ByteBits
    <3>1. x[j] \in Nat /\ x[j] < Pow2(j) /\ (a = b => x[j] = 0)
      BY <1>4, <2>1, Sizes
    <3>2. Pow2(j + 1) = 2 * Pow2(j) /\ Pow2(j) \in Nat
      BY PowStep, PowPositive
    <3>3. x[j + 1] = 2 * x[j] + e(j + 1)
      <4>1. j + 1 \in 0 .. ByteBits /\ j + 1 # 0 /\ (j + 1) - 1 = j
        BY <2>1, Sizes
      <4> QED BY <1>1, <4>1
    <3>4. (e(j + 1) = 0 \/ e(j + 1) = 1) /\ (a = b => e(j + 1) = 0)
      BY <1>2
    <3> QED BY <3>1, <3>2, <3>3, <3>4
  <2> QED BY <2>1
<1> HIDE DEF T
<1>5. ByteBits \in T
  BY <1>3, <1>4, Sizes, Induction
<1>6. x[ByteBits] \in Nat /\ x[ByteBits] < Pow2(ByteBits) /\ (a = b => x[ByteBits] = 0)
  BY <1>5, Sizes DEF T
<1> QED BY <1>6, Sizes, XorIsHigh, TopBits DEF x, Byte

-------------------------------------------------------------------------------
(* Memory, in dwords.                                                        *)

Cells == 0 .. MemSize - 1
Places == 0 .. Addresses - 1

\* An address is one, and a small offset from it wraps at most once.
LEMMA Wraps ==
    ASSUME NEW a \in Places, NEW j \in 0 .. 15
    PROVE  /\ Address(a + j) \in Places
           /\ (a + j < Addresses => Address(a + j) = a + j)
           /\ (a + j >= Addresses => Address(a + j) = (a + j) - Addresses)
<1>1. Addresses \in Nat /\ Addresses > 0 /\ a \in Int /\ j \in Int /\ a >= 0 /\ a < Addresses
      /\ j >= 0 /\ j < Addresses
  BY Sizes DEF Places
<1> QED BY <1>1 DEF Address, Places

\* Twelve bytes on is four on from eight on.
LEMMA WrapsOn ==
    ASSUME NEW a \in Places
    PROVE  Address(Address(a + 8) + 4) = Address(a + 12)
<1>1. Address(a + 8) \in Places /\ 8 \in 0 .. 15 /\ 4 \in 0 .. 15 /\ 12 \in 0 .. 15
  BY Wraps
<1> DEFINE b == Address(a + 8)
<1>2. /\ (a + 8 < Addresses => b = a + 8)
      /\ (a + 8 >= Addresses => b = (a + 8) - Addresses)
  BY <1>1, Wraps
<1>3. /\ (a + 12 < Addresses => Address(a + 12) = a + 12)
      /\ (a + 12 >= Addresses => Address(a + 12) = (a + 12) - Addresses)
  BY <1>1, Wraps
<1> HIDE DEF b
<1>4. b \in Places
  BY <1>1 DEF b
<1>5. /\ (b + 4 < Addresses => Address(b + 4) = b + 4)
      /\ (b + 4 >= Addresses => Address(b + 4) = (b + 4) - Addresses)
  BY <1>1, <1>4, Wraps
<1>6. a \in Int /\ 0 <= a /\ a < Addresses /\ Addresses \in Int /\ Addresses >= 16 /\ b \in Int
  BY <1>4, Sizes DEF Places
<1> QED BY <1>2, <1>3, <1>5, <1>6 DEF b

\* What is read of memory is bytes.
LEMMA ReadBytes ==
    ASSUME NEW m \in Memory, NEW a \in Places
    PROVE  ReadDword(m, a) \in Dword /\ ReadQuad(m, a) \in Quad
<1>1. ASSUME NEW b \in Places PROVE ReadDword(m, b) \in Dword
  <2>1. ASSUME NEW i \in 0 .. 3
        PROVE  (IF check_bounds(b, 4) THEN m[b + i] ELSE 0) \in Byte
    <3>1. CASE check_bounds(b, 4)
      <4>1. b + i \in 0 .. MemSize - 1
        BY <3>1, Sizes DEF check_bounds, Places
      <4> QED BY <3>1, <4>1 DEF Memory, Byte
    <3>2. CASE ~check_bounds(b, 4)
      BY <3>2, TopBits
    <3> QED BY <3>1, <3>2
  <2> QED BY <2>1 DEF ReadDword, Dword
<1>2. Address(a + 4) \in Places /\ 4 \in 0 .. 15
  BY Wraps
<1>3. ReadDword(m, a) \in Dword /\ ReadDword(m, Address(a + 4)) \in Dword
  BY <1>1, <1>2
<1> QED BY <1>3 DEF ReadQuad, Dword, Quad, Lane

\* What is written of bytes is memory.
LEMMA WriteBytes ==
    ASSUME NEW m \in Memory, NEW a \in Places, NEW q \in Quad
    PROVE  /\ WriteDword(m, a, [i \in 0 .. 3 |-> q[i]]) \in Memory
           /\ WriteQuad(m, a, q) \in Memory
<1>1. ASSUME NEW n \in Memory, NEW b \in Places, NEW d \in Dword
      PROVE  WriteDword(n, b, d) \in Memory
  <2>1. DOMAIN n = 0 .. MemSize - 1
    BY DEF Memory
  <2>2. ASSUME NEW x \in 0 .. MemSize - 1
        PROVE  (IF check_bounds(b, 4) /\ x \in b .. b + 3 THEN d[x - b] ELSE n[x]) \in Byte
    <3>1. CASE check_bounds(b, 4) /\ x \in b .. b + 3
      <4>1. x - b \in 0 .. 3
        BY <3>1, Sizes DEF Places
      <4> QED BY <3>1, <4>1 DEF Dword
    <3>2. CASE ~(check_bounds(b, 4) /\ x \in b .. b + 3)
      BY <3>2 DEF Memory, Byte
    <3> QED BY <3>1, <3>2
  <2> QED BY <2>1, <2>2 DEF WriteDword, Memory, Byte
<1> DEFINE lo == [i \in 0 .. 3 |-> q[i]]
           hi == [i \in 0 .. 3 |-> q[i + 4]]
<1>2. lo \in Dword /\ hi \in Dword
  BY DEF Quad, Dword, Lane
<1>3. Address(a + 4) \in Places
  <2>1. 4 \in 0 .. 15
    OBVIOUS
  <2> QED BY <2>1, Wraps
<1> HIDE DEF lo, hi
<1>4. WriteDword(m, a, lo) \in Memory
  BY <1>1, <1>2
<1>5. WriteDword(WriteDword(m, a, lo), Address(a + 4), hi) \in Memory
  BY <1>1, <1>2, <1>3, <1>4
<1> QED BY <1>4, <1>5 DEF WriteQuad, lo, hi

\* The cells of the dword 4 * j bytes on from a, wrapped, that is inside.
Covers(a, j, x) == LET b == Address(a + 4 * j) IN b + 4 <= MemSize /\ x \in b .. b + 3

\* A cell of that dword is the (k % 4)-th of the (k \div 4)-th, with k its
\* distance from a: the dwords of sixteen bytes do not meet.
LEMMA CoversExact ==
    ASSUME NEW a \in Places, NEW j \in 0 .. 3, NEW x \in Cells
    PROVE  LET b == Address(a + 4 * j)
               k == (x - a) % Addresses
           IN  /\ k \in Nat /\ b \in Int
               /\ Covers(a, j, x) <=> (k \div 4 = j /\ b + 4 <= MemSize /\ b <= x)
               /\ Covers(a, j, x) => (x - b = k % 4)
<1> DEFINE b == Address(a + 4 * j)
           k == (x - a) % Addresses
<1>1. /\ a \in Int /\ 0 <= a /\ a < Addresses /\ x \in Int /\ 0 <= x /\ x < Addresses
      /\ Addresses \in Int /\ Addresses >= 16 /\ MemSize \in Int /\ j \in Int /\ 0 <= j /\ j <= 3
  BY Sizes DEF Places, Cells
<1>2. /\ b \in Places
      /\ (a + 4 * j < Addresses => b = a + 4 * j)
      /\ (a + 4 * j >= Addresses => b = (a + 4 * j) - Addresses)
  <2>1. 4 * j \in 0 .. 15
    OBVIOUS
  <2> QED BY <2>1, Wraps
<1>3. k \in Nat /\ k < Addresses /\ (x >= a => k = x - a) /\ (x < a => k = (x - a) + Addresses)
  BY <1>1
<1>4. Covers(a, j, x) <=> (b + 4 <= MemSize /\ b <= x /\ x <= b + 3)
  BY <1>1, <1>2 DEF Covers, Places
<1> HIDE DEF b, k
<1>5. b \in Int
  BY <1>2 DEF Places
<1>6. b <= x /\ x <= b + 3 => k = 4 * j + (x - b)
  BY <1>1, <1>2, <1>3, <1>5
<1>7. k \div 4 = j /\ b <= x => x <= b + 3
  BY <1>1, <1>2, <1>3, <1>5
<1>8. b <= x /\ x <= b + 3 => k \div 4 = j /\ x - b = k % 4
  BY <1>1, <1>3, <1>5, <1>6
<1>9. /\ k \in Nat /\ b \in Int
      /\ Covers(a, j, x) <=> (k \div 4 = j /\ b + 4 <= MemSize /\ b <= x)
      /\ Covers(a, j, x) => (x - b = k % 4)
  BY <1>3, <1>4, <1>5, <1>7, <1>8
<1> QED BY <1>9 DEF b, k

\* The two dwords of a quad, cell by cell.
LEMMA QuadCell ==
    ASSUME NEW m \in Memory, NEW a \in Places, NEW q \in Quad, NEW x \in Cells
    PROVE  WriteQuad(m, a, q)[x] =
             IF Covers(a, 1, x) THEN q[(x - Address(a + 4)) + 4]
             ELSE IF Covers(a, 0, x) THEN q[x - a] ELSE m[x]
<1> DEFINE lo == [i \in 0 .. 3 |-> q[i]]
           hi == [i \in 0 .. 3 |-> q[i + 4]]
           b == Address(a + 4)
           n == WriteDword(m, a, lo)
<1>1. n \in Memory /\ b \in Places /\ Address(a + 0) = a /\ a \in Int
  <2>1. 4 \in 0 .. 15 /\ 0 \in 0 .. 15 /\ a + 0 < Addresses /\ a + 0 = a /\ a \in Int
    BY Sizes DEF Places
  <2> QED BY <2>1, Wraps, WriteBytes
<1>2. /\ Covers(a, 1, x) <=> (b + 4 <= MemSize /\ x \in b .. b + 3)
      /\ Covers(a, 0, x) <=> (a + 4 <= MemSize /\ x \in a .. a + 3)
  <2>1. 4 * 1 = 4 /\ 4 * 0 = 0
    OBVIOUS
  <2> QED BY <1>1, <2>1 DEF Covers
<1>3. n[x] = IF a + 4 <= MemSize /\ x \in a .. a + 3 THEN lo[x - a] ELSE m[x]
  BY DEF WriteDword, check_bounds, Memory, Cells
<1>4. x \in a .. a + 3 => lo[x - a] = q[x - a]
  BY <1>1 DEF Cells
<1>5. x \in b .. b + 3 => hi[x - b] = q[(x - b) + 4]
  <2> HIDE DEF b
  <2>1. b \in Int /\ x \in Int
    BY <1>1 DEF Places, Cells
  <2> QED BY <2>1
<1>6. WriteQuad(m, a, q) = WriteDword(n, b, hi)
  BY DEF WriteQuad
<1> HIDE DEF n, lo, hi, b
<1>7. WriteDword(n, b, hi)[x] = IF b + 4 <= MemSize /\ x \in b .. b + 3 THEN hi[x - b] ELSE n[x]
  BY <1>1 DEF WriteDword, check_bounds, Memory, Cells
<1> QED BY <1>2, <1>3, <1>4, <1>5, <1>6, <1>7 DEF b

\* The words of a register in memory, cell by cell.
ByteOf(w, k) == w[k \div 2][1 + (k % 2)]

CellRight(m, a, w, n, x) ==
    /\ \A j \in 0 .. 3 :
         4 * j < 2 * n /\ Covers(a, j, x) =>
           WordsAt(m, a, w, n)[x] = ByteOf(w, 4 * j + (x - Address(a + 4 * j)))
    /\ (\A j \in 0 .. 3 : 4 * j < 2 * n => ~Covers(a, j, x)) => WordsAt(m, a, w, n)[x] = m[x]

LEMMA WordsCell ==
    ASSUME NEW m \in Memory, NEW a \in Places, NEW w, NEW n \in {4, 8}, NEW x \in Cells
    PROVE  CellRight(m, a, w, n, x)
<1> DEFINE k == (x - a) % Addresses
           h == k \div 4
           b == Address(a + 4 * h)
           W == WordsAt(m, a, w, n)[x]
<1>1. k \in Nat /\ h \in Nat /\ 4 * h <= k /\ k < 4 * h + 4 /\ k = 4 * h + (k % 4)
  BY Sizes DEF Places, Cells
<1>2. W = IF k < 2 * n /\ (b + 4 <= MemSize /\ b <= x) THEN ByteOf(w, k) ELSE m[x]
  BY DEF WordsAt, ByteOf, Memory, Cells
<1> HIDE DEF W
<1>3. ASSUME NEW j \in 0 .. 3, 4 * j < 2 * n, Covers(a, j, x)
      PROVE  W = ByteOf(w, 4 * j + (x - Address(a + 4 * j)))
  <2>1. /\ h = j /\ Address(a + 4 * j) + 4 <= MemSize /\ Address(a + 4 * j) <= x
        /\ x - Address(a + 4 * j) = k % 4
    BY <1>3, CoversExact
  <2>2. k = 4 * j + (x - Address(a + 4 * j)) /\ b = Address(a + 4 * j)
    BY <1>1, <2>1
  <2>3. k < 2 * n
    <3> HIDE DEF k, h
    <3> QED BY <1>1, <1>3, <2>1
  <2> QED BY <1>2, <2>1, <2>2, <2>3
<1>4. ASSUME \A j \in 0 .. 3 : 4 * j < 2 * n => ~Covers(a, j, x)
      PROVE  W = m[x]
  <2> SUFFICES ASSUME k < 2 * n, b + 4 <= MemSize, b <= x PROVE FALSE
    BY <1>2
  <2>1. h \in 0 .. 3 /\ 4 * h < 2 * n
    <3> HIDE DEF k, h
    <3> QED BY <1>1
  <2>2. Covers(a, h, x)
    <3> DEFINE g == h
    <3>1. g \in 0 .. 3 /\ k \div 4 = g /\ Address(a + 4 * g) + 4 <= MemSize /\ Address(a + 4 * g) <= x
      BY <2>1
    <3> HIDE DEF g
    <3>2. Covers(a, g, x)
      BY <3>1, CoversExact
    <3> QED BY <3>2 DEF g
  <2> QED BY <1>4, <2>1, <2>2
<1> QED BY <1>3, <1>4 DEF W, CellRight

\* Bytes of a word of a register.
LEMMA WordBytesOf ==
    ASSUME NEW w, NEW q \in Quad, NEW z \in {0, 4},
           \A i \in 0 .. 3 : w[z + i] = <<q[2 * i], q[2 * i + 1]>>,
           NEW k \in Lane
    PROVE  ByteOf(w, 2 * z + k) = q[k]
<1> DEFINE i == k \div 2
<1>1. /\ k \in 0 .. 7 /\ i \in 0 .. 3 /\ (k % 2 = 0 \/ k % 2 = 1)
      /\ k = 2 * i + (k % 2)
      /\ (2 * z + k) \div 2 = z + i /\ (2 * z + k) % 2 = k % 2
  BY DEF Lane
<1> HIDE DEF i
<1>2. ByteOf(w, 2 * z + k) = <<q[2 * i], q[2 * i + 1]>>[1 + (k % 2)]
  BY <1>1 DEF ByteOf
<1>3. CASE k % 2 = 0
  BY <1>1, <1>2, <1>3
<1>4. CASE k % 2 = 1
  BY <1>1, <1>2, <1>4
<1> QED BY <1>1, <1>3, <1>4

\* A store of eight bytes is the store of their four words.
LEMMA StoreQuad ==
    ASSUME NEW m \in Memory, NEW a \in Places, NEW q \in Quad, NEW w,
           \A i \in 0 .. 3 : w[i] = <<q[2 * i], q[2 * i + 1]>>
    PROVE  WriteQuad(m, a, q) = WordsAt(m, a, w, 4)
<1> DEFINE V == WriteQuad(m, a, q)
           W == WordsAt(m, a, w, 4)
<1>1. ASSUME NEW x \in Cells PROVE V[x] = W[x]
  <2> DEFINE b == Address(a + 4)
  <2>1. /\ V[x] = IF Covers(a, 1, x) THEN q[(x - b) + 4]
                  ELSE IF Covers(a, 0, x) THEN q[x - a] ELSE m[x]
        /\ Address(a + 4 * 0) = a /\ Address(a + 4 * 1) = b /\ a \in Int /\ x \in Int /\ b \in Int
    <3>1. 4 \in 0 .. 15 /\ 0 \in 0 .. 15 /\ a + 0 < Addresses /\ a + 0 = a /\ a \in Int
          /\ 4 * 0 = 0 /\ 4 * 1 = 4 /\ x \in Int
      BY Sizes DEF Places, Cells
    <3>2. b \in Places
      BY <3>1, Wraps
    <3>3. Address(a + 0) = a
      BY <3>1, Wraps
    <3>4. V[x] = IF Covers(a, 1, x) THEN q[(x - b) + 4]
                 ELSE IF Covers(a, 0, x) THEN q[x - a] ELSE m[x]
      BY QuadCell, Zenon
    <3> HIDE DEF V, b
    <3>5. b \in Int
      BY <3>2 DEF Places
    <3> QED BY <3>1, <3>3, <3>4, <3>5 DEF b
  <2>2. /\ Covers(a, 0, x) => W[x] = ByteOf(w, 4 * 0 + (x - a))
        /\ Covers(a, 1, x) => W[x] = ByteOf(w, 4 * 1 + (x - b))
        /\ ~Covers(a, 0, x) /\ ~Covers(a, 1, x) => W[x] = m[x]
    <3>1. 4 \in {4, 8} /\ 0 \in 0 .. 3 /\ 1 \in 0 .. 3 /\ 4 * 0 < 2 * 4 /\ 4 * 1 < 2 * 4
          /\ \A j \in 0 .. 3 : 4 * j < 2 * 4 => j = 0 \/ j = 1
      OBVIOUS
    <3> DEFINE n == 4
    <3>0. W = WordsAt(m, a, w, n) /\ n \in {4, 8}
      OBVIOUS
    <3> HIDE DEF n, W, V
    <3>2. /\ \A j \in 0 .. 3 :
                4 * j < 2 * n /\ Covers(a, j, x) =>
                  W[x] = ByteOf(w, 4 * j + (x - Address(a + 4 * j)))
          /\ (\A j \in 0 .. 3 : 4 * j < 2 * n => ~Covers(a, j, x)) => W[x] = m[x]
      <4>1. CellRight(m, a, w, n, x)
        BY <3>0, WordsCell
      <4> QED BY <3>0, <4>1 DEF CellRight
    <3>3. /\ Covers(a, 0, x) => W[x] = ByteOf(w, 4 * 0 + (x - Address(a + 4 * 0)))
          /\ Covers(a, 1, x) => W[x] = ByteOf(w, 4 * 1 + (x - Address(a + 4 * 1)))
      BY <3>1, <3>2 DEF n
    <3>4. ~Covers(a, 0, x) /\ ~Covers(a, 1, x) => W[x] = m[x]
      BY <3>1, <3>2 DEF n
    <3> QED BY <2>1, <3>3, <3>4
  <2>3. \A k \in Lane : ByteOf(w, 2 * 0 + k) = q[k]
    <3>1. 0 \in {0, 4} /\ \A i \in 0 .. 3 : w[0 + i] = <<q[2 * i], q[2 * i + 1]>>
      OBVIOUS
    <3> QED BY <3>1, WordBytesOf, Zenon
  <2>4. /\ Covers(a, 0, x) => x - a \in 0 .. 3
        /\ Covers(a, 1, x) => x - b \in 0 .. 3
    BY <2>1 DEF Covers
  <2> HIDE DEF V, W, b
  <2>5. CASE Covers(a, 1, x)
    <3>1. (x - b) + 4 \in Lane /\ 2 * 0 + ((x - b) + 4) = 4 * 1 + (x - b)
      BY <2>1, <2>4, <2>5 DEF Lane
    <3> QED BY <2>1, <2>2, <2>3, <2>5, <3>1
  <2>6. CASE Covers(a, 0, x) /\ ~Covers(a, 1, x)
    <3>1. x - a \in Lane /\ 2 * 0 + (x - a) = 4 * 0 + (x - a)
      BY <2>1, <2>4, <2>6 DEF Lane
    <3> QED BY <2>1, <2>2, <2>3, <2>6, <3>1
  <2> QED BY <2>1, <2>2, <2>5, <2>6
<1>2. V \in Memory
  BY WriteBytes
<1>3. W = [x \in Cells |-> W[x]]
  BY DEF WordsAt, Memory, Cells
<1> HIDE DEF V, W
<1>4. V = [x \in Cells |-> V[x]]
  BY <1>2 DEF Memory, Cells
<1> QED BY <1>1, <1>3, <1>4 DEF V, W

\* A store of sixteen bytes in two quads is the store of their eight words.
LEMMA StoreXmm ==
    ASSUME NEW m \in Memory, NEW a \in Places, NEW lo \in Quad, NEW hi \in Quad, NEW w,
           \A i \in 0 .. 3 : w[i] = <<lo[2 * i], lo[2 * i + 1]>>,
           \A i \in 0 .. 3 : w[4 + i] = <<hi[2 * i], hi[2 * i + 1]>>
    PROVE  WriteQuad(WriteQuad(m, a, lo), Address(a + 8), hi) = WordsAt(m, a, w, 8)
<1> DEFINE c == Address(a + 8)
           U == WriteQuad(m, a, lo)
           V == WriteQuad(U, c, hi)
           W == WordsAt(m, a, w, 8)
           b == Address(a + 4)
           d == Address(a + 12)
<1>0. /\ 4 \in 0 .. 15 /\ 8 \in 0 .. 15 /\ 12 \in 0 .. 15 /\ 0 \in 0 .. 15 /\ a + 0 < Addresses
      /\ a + 0 = a /\ a \in Int /\ 4 * 0 = 0 /\ 4 * 1 = 4 /\ 4 * 2 = 8 /\ 4 * 3 = 12
  BY Sizes DEF Places
<1>1. b \in Places /\ c \in Places /\ d \in Places /\ Address(a + 0) = a
  BY <1>0, Wraps
<1>2. Address(c + 4) = d
  BY WrapsOn
<1>3. U \in Memory
  BY WriteBytes
<1> HIDE DEF U, b, c, d
<1>4. Address(c + 0) = c /\ c + 0 = c
  <2>1. c + 0 < Addresses /\ c + 0 = c
    BY <1>1, Sizes DEF Places
  <2> QED BY <1>0, <1>1, <2>1, Wraps
<1>5. ASSUME NEW x \in Cells PROVE V[x] = W[x]
  <2>1. /\ U[x] = IF Covers(a, 1, x) THEN lo[(x - b) + 4]
                  ELSE IF Covers(a, 0, x) THEN lo[x - a] ELSE m[x]
        /\ V[x] = IF Covers(c, 1, x) THEN hi[(x - Address(c + 4)) + 4]
                  ELSE IF Covers(c, 0, x) THEN hi[x - c] ELSE U[x]
    BY <1>1, <1>3, QuadCell DEF U, b
  <2>2. (Covers(c, 1, x) <=> Covers(a, 3, x)) /\ (Covers(c, 0, x) <=> Covers(a, 2, x))
    BY <1>0, <1>2, <1>4 DEF Covers, c, d
  <2>3. /\ Covers(a, 0, x) => W[x] = ByteOf(w, 4 * 0 + (x - a))
        /\ Covers(a, 1, x) => W[x] = ByteOf(w, 4 * 1 + (x - b))
        /\ Covers(a, 2, x) => W[x] = ByteOf(w, 4 * 2 + (x - c))
        /\ Covers(a, 3, x) => W[x] = ByteOf(w, 4 * 3 + (x - d))
        /\ ~Covers(a, 0, x) /\ ~Covers(a, 1, x) /\ ~Covers(a, 2, x) /\ ~Covers(a, 3, x) => W[x] = m[x]
    <3>1. /\ 8 \in {4, 8} /\ 0 \in 0 .. 3 /\ 1 \in 0 .. 3 /\ 2 \in 0 .. 3 /\ 3 \in 0 .. 3
          /\ 4 * 0 < 2 * 8 /\ 4 * 1 < 2 * 8 /\ 4 * 2 < 2 * 8 /\ 4 * 3 < 2 * 8
          /\ \A j \in 0 .. 3 : j = 0 \/ j = 1 \/ j = 2 \/ j = 3
      OBVIOUS
    <3> DEFINE n == 8
    <3>0. W = WordsAt(m, a, w, n) /\ n \in {4, 8}
      OBVIOUS
    <3> HIDE DEF n, W, V
    <3>2. /\ \A j \in 0 .. 3 :
                4 * j < 2 * n /\ Covers(a, j, x) =>
                  W[x] = ByteOf(w, 4 * j + (x - Address(a + 4 * j)))
          /\ (\A j \in 0 .. 3 : 4 * j < 2 * n => ~Covers(a, j, x)) => W[x] = m[x]
      <4>1. CellRight(m, a, w, n, x)
        BY <3>0, WordsCell
      <4> QED BY <3>0, <4>1 DEF CellRight
    <3>3. /\ Address(a + 4 * 0) = a /\ Address(a + 4 * 1) = b
          /\ Address(a + 4 * 2) = c /\ Address(a + 4 * 3) = d
      BY <1>0, <1>1 DEF b, c, d
    <3>4. /\ Covers(a, 0, x) => W[x] = ByteOf(w, 4 * 0 + (x - Address(a + 4 * 0)))
          /\ Covers(a, 1, x) => W[x] = ByteOf(w, 4 * 1 + (x - Address(a + 4 * 1)))
          /\ Covers(a, 2, x) => W[x] = ByteOf(w, 4 * 2 + (x - Address(a + 4 * 2)))
          /\ Covers(a, 3, x) => W[x] = ByteOf(w, 4 * 3 + (x - Address(a + 4 * 3)))
      BY <3>1, <3>2 DEF n
    <3>5. ~Covers(a, 0, x) /\ ~Covers(a, 1, x) /\ ~Covers(a, 2, x) /\ ~Covers(a, 3, x) => W[x] = m[x]
      BY <3>1, <3>2 DEF n
    <3> QED BY <3>3, <3>4, <3>5
  <2>4. /\ \A k \in Lane : ByteOf(w, 2 * 0 + k) = lo[k]
        /\ \A k \in Lane : ByteOf(w, 2 * 4 + k) = hi[k]
    <3>1. 0 \in {0, 4} /\ 4 \in {0, 4} /\ \A i \in 0 .. 3 : w[0 + i] = <<lo[2 * i], lo[2 * i + 1]>>
      OBVIOUS
    <3> QED BY <3>1, WordBytesOf, Zenon
  <2>5. /\ Covers(a, 0, x) => x - a \in 0 .. 3
        /\ Covers(a, 1, x) => x - b \in 0 .. 3
        /\ Covers(a, 2, x) => x - c \in 0 .. 3
        /\ Covers(a, 3, x) => x - d \in 0 .. 3
    <3>1. a \in Int /\ b \in Int /\ c \in Int /\ d \in Int /\ x \in Int
      BY <1>0, <1>1 DEF Places, Cells
    <3>2. /\ Covers(a, 0, x) => x \in a .. a + 3
          /\ Covers(a, 1, x) => x \in b .. b + 3
          /\ Covers(a, 2, x) => x \in c .. c + 3
          /\ Covers(a, 3, x) => x \in d .. d + 3
      BY <1>0, <1>1 DEF Covers, b, c, d
    <3> QED BY <3>1, <3>2
  <2>6. /\ Covers(a, 0, x) => ~Covers(a, 2, x) /\ ~Covers(a, 3, x)
        /\ Covers(a, 1, x) => ~Covers(a, 2, x) /\ ~Covers(a, 3, x)
        /\ ~(Covers(a, 2, x) /\ Covers(a, 3, x)) /\ ~(Covers(a, 0, x) /\ Covers(a, 1, x))
    <3>1. \A j \in 0 .. 3 : Covers(a, j, x) => ((x - a) % Addresses) \div 4 = j
      BY CoversExact
    <3>2. 0 \in 0 .. 3 /\ 1 \in 0 .. 3 /\ 2 \in 0 .. 3 /\ 3 \in 0 .. 3
      OBVIOUS
    <3> DEFINE h == ((x - a) % Addresses) \div 4
    <3> HIDE DEF h
    <3>3. /\ (Covers(a, 0, x) => h = 0) /\ (Covers(a, 1, x) => h = 1)
          /\ (Covers(a, 2, x) => h = 2) /\ (Covers(a, 3, x) => h = 3)
      BY <3>1, <3>2 DEF h
    <3> QED BY <3>3
  <2>7. a \in Int /\ b \in Int /\ c \in Int /\ d \in Int /\ x \in Int
    BY <1>0, <1>1 DEF Places, Cells
  <2> HIDE DEF V, W
  <2>8. CASE Covers(a, 0, x)
    <3>1. x - a \in Lane /\ 2 * 0 + (x - a) = 4 * 0 + (x - a)
      BY <2>5, <2>7, <2>8 DEF Lane
    <3>2. V[x] = lo[x - a]
      BY <2>1, <2>2, <2>6, <2>8
    <3> QED BY <2>3, <2>4, <2>8, <3>1, <3>2
  <2>9. CASE Covers(a, 1, x)
    <3>1. (x - b) + 4 \in Lane /\ 2 * 0 + ((x - b) + 4) = 4 * 1 + (x - b)
      BY <2>5, <2>7, <2>9 DEF Lane
    <3>2. V[x] = lo[(x - b) + 4]
      BY <2>1, <2>2, <2>6, <2>9
    <3> QED BY <2>3, <2>4, <2>9, <3>1, <3>2
  <2>10. CASE Covers(a, 2, x)
    <3>1. x - c \in Lane /\ 2 * 4 + (x - c) = 4 * 2 + (x - c)
      BY <2>5, <2>7, <2>10 DEF Lane
    <3>2. V[x] = hi[x - c]
      BY <2>1, <2>2, <2>6, <2>10
    <3> QED BY <2>3, <2>4, <2>10, <3>1, <3>2
  <2>11. CASE Covers(a, 3, x)
    <3>1. (x - d) + 4 \in Lane /\ 2 * 4 + ((x - d) + 4) = 4 * 3 + (x - d)
      BY <2>5, <2>7, <2>11 DEF Lane
    <3>2. V[x] = hi[(x - d) + 4]
      BY <1>2, <2>1, <2>2, <2>11
    <3> QED BY <2>3, <2>4, <2>11, <3>1, <3>2
  <2> QED BY <2>1, <2>2, <2>3, <2>8, <2>9, <2>10, <2>11
<1>6. V \in Memory
  BY <1>1, <1>3, WriteBytes
<1>7. W = [x \in Cells |-> W[x]]
  BY DEF WordsAt, Memory, Cells
<1> HIDE DEF V, W
<1>8. V = [x \in Cells |-> V[x]]
  BY <1>6 DEF Memory, Cells
<1> QED BY <1>5, <1>7, <1>8 DEF U, V, W, c

-------------------------------------------------------------------------------
(* The inductive invariant.                                                  *)

Spreads == [n : 0 .. 8, char : Byte]
Words == [Lane -> Byte \X Byte]

\* The n low lanes of q are char; a scan with q finds the lanes of f.
Holds(q, s) == \A i \in Lane : i < s.n => q[i] = s.char
Finds(q, f) == f # {-1} => f = {i \in Lane : TopBit(q[i])}

Shape ==
    /\ TypeOK /\ ops \in Nat
    /\ spread \in [MmxRegs -> Spreads] /\ found \in [MmxRegs -> SUBSET (-1 .. 7)]
    /\ want \in [XmmRegs -> Words]

\* The histories tell the truth of every register.
SpreadHeld == \A r \in MmxRegs : Holds(mmx_regs[r], spread[r])
FoundHeld == \A r \in MmxRegs : Finds(mmx_regs[r], found[r])

IInv == Shape /\ SpreadHeld /\ FoundHeld /\ ScanMask /\ MovesExact

\* Nothing is known of a register that starts or is loaded from memory.
LEMMA NothingKnown ==
    /\ NoSpread \in Spreads /\ {-1} \in SUBSET (-1 .. 7)
    /\ \A q : Holds(q, NoSpread) /\ Finds(q, {-1})
<1>1. NoSpread \in Spreads /\ NoSpread.n = 0
  BY TopBits DEF NoSpread, Spreads
<1>2. \A q : Holds(q, NoSpread)
  BY <1>1 DEF Holds, Lane
<1>3. \A q : Finds(q, {-1})
  BY DEF Finds
<1> QED BY <1>1, <1>2, <1>3

\* The words of a register.
LEMMA WordsTyped == ASSUME NEW x \in XMMReg PROVE WordsOf(x) \in Words
<1>1. x.lo \in Quad /\ x.hi \in Quad
  BY DEF XMMReg
<1>2. ASSUME NEW i \in Lane
      PROVE  (IF i < 4 THEN <<x.lo[2 * i], x.lo[2 * i + 1]>>
              ELSE <<x.hi[2 * i - 8], x.hi[2 * i - 7]>>) \in Byte \X Byte
  <2>1. CASE i < 4
    <3>1. 2 * i \in Lane /\ 2 * i + 1 \in Lane
      BY <2>1 DEF Lane
    <3>2. x.lo[2 * i] \in Byte /\ x.lo[2 * i + 1] \in Byte
      BY <1>1, <3>1 DEF Quad
    <3> QED BY <2>1, <3>2
  <2>2. CASE ~(i < 4)
    <3>1. 2 * i - 8 \in Lane /\ 2 * i - 7 \in Lane
      BY <2>2 DEF Lane
    <3>2. x.hi[2 * i - 8] \in Byte /\ x.hi[2 * i - 7] \in Byte
      BY <1>1, <3>1 DEF Quad
    <3> QED BY <2>2, <3>2
  <2> QED BY <2>1, <2>2
<1> QED BY <1>2 DEF WordsOf, Words

LEMMA InitInv == Init => IInv
<1> SUFFICES ASSUME Init PROVE IInv
  OBVIOUS
<1>1. Zero \in Quad /\ [lo |-> Zero, hi |-> Zero] \in XMMReg
  BY TopBits DEF Zero, Quad, XMMReg
<1>2. ZeroWord \in Byte \X Byte
  BY TopBits DEF ZeroWord
<1>3. /\ mmx_regs = [r \in MmxRegs |-> Zero]
      /\ xmm_regs = [r \in XmmRegs |-> [lo |-> Zero, hi |-> Zero]]
      /\ mem \in Memories /\ eax \in Eaxs /\ ecx = {} /\ halted = FALSE /\ ops = 0
      /\ spread = [r \in MmxRegs |-> NoSpread] /\ found = [r \in MmxRegs |-> {-1}]
      /\ scanned = {-1}
      /\ want = [r \in XmmRegs |-> [i \in Lane |-> ZeroWord]] /\ image = mem
  BY DEF Init
<1>4. TypeOK
  BY <1>1, <1>3, Sizes DEF TypeOK
<1>5. Shape
  BY <1>2, <1>3, <1>4, NothingKnown DEF Shape, Words
<1>6. SpreadHeld /\ FoundHeld
  BY <1>3, NothingKnown DEF SpreadHeld, FoundHeld
<1>7. ScanMask
  BY <1>3 DEF ScanMask
<1>8. WordsOf([lo |-> Zero, hi |-> Zero]) = [i \in Lane |-> ZeroWord]
  <2>1. \A k \in Lane : Zero[k] = 0
    BY DEF Zero
  <2>2. ASSUME NEW i \in Lane
        PROVE  (IF i < 4 THEN <<Zero[2 * i], Zero[2 * i + 1]>>
                ELSE <<Zero[2 * i - 8], Zero[2 * i - 7]>>) = ZeroWord
    <3>1. CASE i < 4
      <4>1. 2 * i \in Lane /\ 2 * i + 1 \in Lane
        BY <3>1 DEF Lane
      <4> QED BY <3>1, <4>1, <2>1 DEF ZeroWord
    <3>2. CASE ~(i < 4)
      <4>1. 2 * i - 8 \in Lane /\ 2 * i - 7 \in Lane
        BY <3>2 DEF Lane
      <4> QED BY <3>2, <4>1, <2>1 DEF ZeroWord
    <3> QED BY <3>1, <3>2
  <2> QED BY <2>2 DEF WordsOf
<1>9. MovesExact
  BY <1>3, <1>8 DEF MovesExact
<1> QED BY <1>5, <1>6, <1>7, <1>9 DEF IInv

-------------------------------------------------------------------------------
(* The MMX instructions.                                                     *)

\* Setting a register to a quad of which spread and found tell the truth.
LEMMA SetMmxKeeps ==
    ASSUME IInv, ops' \in Nat, NEW r \in MmxRegs, NEW q \in Quad, NEW s \in Spreads,
           NEW f \in SUBSET (-1 .. 7), Holds(q, s), Finds(q, f), SetMmx(r, q, s, f)
    PROVE  IInv'
<1>1. /\ mmx_regs' = [mmx_regs EXCEPT ![r] = q]
      /\ spread' = [spread EXCEPT ![r] = s] /\ found' = [found EXCEPT ![r] = f]
      /\ UNCHANGED <<mem, image, eax, ecx, scanned, xmm_regs, want, halted>>
  BY DEF SetMmx, KeepXmm
<1>2. Shape
  BY DEF IInv
<1>3. /\ mmx_regs \in [MmxRegs -> Quad] /\ spread \in [MmxRegs -> Spreads]
      /\ found \in [MmxRegs -> SUBSET (-1 .. 7)]
  BY <1>2 DEF Shape, TypeOK
<1>4. /\ mmx_regs' \in [MmxRegs -> Quad] /\ spread' \in [MmxRegs -> Spreads]
      /\ found' \in [MmxRegs -> SUBSET (-1 .. 7)]
  BY <1>1, <1>3
<1>5. Shape'
  BY <1>1, <1>2, <1>4 DEF Shape, TypeOK
<1>6. \A t \in MmxRegs : /\ mmx_regs'[t] = IF t = r THEN q ELSE mmx_regs[t]
                         /\ spread'[t] = IF t = r THEN s ELSE spread[t]
                         /\ found'[t] = IF t = r THEN f ELSE found[t]
  BY <1>1, <1>3
<1>7. SpreadHeld'
  <2> SUFFICES ASSUME NEW t \in MmxRegs PROVE Holds(mmx_regs'[t], spread'[t])
    BY DEF SpreadHeld
  <2>1. Holds(mmx_regs[t], spread[t])
    BY DEF IInv, SpreadHeld
  <2> QED BY <1>6, <2>1
<1>8. FoundHeld'
  <2> SUFFICES ASSUME NEW t \in MmxRegs PROVE Finds(mmx_regs'[t], found'[t])
    BY DEF FoundHeld
  <2>1. Finds(mmx_regs[t], found[t])
    BY DEF IInv, FoundHeld
  <2> QED BY <1>6, <2>1
<1>9. ScanMask' /\ MovesExact'
  BY <1>1 DEF IInv, ScanMask, MovesExact
<1> QED BY <1>5, <1>7, <1>8, <1>9 DEF IInv

\* An operand in a register or in memory.
LEMMA MmxOperand ==
    ASSUME IInv, NEW rm \in RM(MmxRegs)
    PROVE  /\ MmxSource(rm) \in Quad /\ rm.mod3 \in BOOLEAN
           /\ rm.mod3 => rm.at \in MmxRegs /\ MmxSource(rm) = mmx_regs[rm.at]
           /\ ~rm.mod3 => rm.at \in Places /\ MmxSource(rm) = ReadQuad(mem, rm.at)
<1>1. mmx_regs \in [MmxRegs -> Quad] /\ mem \in Memory
  BY DEF IInv, Shape, TypeOK
<1>2. rm.mod3 \in BOOLEAN /\ (rm.mod3 => rm.at \in MmxRegs) /\ (~rm.mod3 => rm.at \in Places)
  BY Sizes DEF RM, Places
<1> QED BY <1>1, <1>2, ReadBytes DEF MmxSource

\* What is known of a register.
LEMMA MmxRegister ==
    ASSUME IInv, NEW r \in MmxRegs
    PROVE  /\ mmx_regs[r] \in Quad /\ spread[r] \in Spreads /\ found[r] \in SUBSET (-1 .. 7)
           /\ Holds(mmx_regs[r], spread[r]) /\ Finds(mmx_regs[r], found[r])
BY DEF IInv, Shape, TypeOK, SpreadHeld, FoundHeld

\* Unpacking takes bytes from the low halves.
LEMMA UnpackedTyped ==
    ASSUME NEW d \in Quad, NEW s \in Quad, NEW w \in {1, 2, 4}
    PROVE  Unpacked(d, s, w) \in Quad
<1>1. ASSUME NEW i \in Lane PROVE (i \div (2 * w)) * w + (i % w) \in Lane
  <2>1. i \in 0 .. 7
    BY DEF Lane
  <2>2. CASE w = 1
    BY <2>1, <2>2 DEF Lane
  <2>3. CASE w = 2
    BY <2>1, <2>3 DEF Lane
  <2>4. CASE w = 4
    BY <2>1, <2>4 DEF Lane
  <2> QED BY <2>2, <2>3, <2>4
<1>2. ASSUME NEW i \in Lane
      PROVE  LET at == (i \div (2 * w)) * w + (i % w)
             IN  (IF (i \div w) % 2 = 0 THEN d[at] ELSE s[at]) \in Byte
  <2> DEFINE at == (i \div (2 * w)) * w + (i % w)
  <2>1. at \in Lane
    BY <1>1
  <2> HIDE DEF at
  <2>2. d[at] \in Byte /\ s[at] \in Byte
    BY <2>1 DEF Quad
  <2>3. (IF (i \div w) % 2 = 0 THEN d[at] ELSE s[at]) \in Byte
    BY <2>2
  <2> QED BY <2>3 DEF at
<1> QED BY <1>2 DEF Unpacked, Quad

\* Unpacking a register with itself spreads its low bytes.
LEMMA UnpackedSpreads ==
    ASSUME NEW q \in Quad, NEW s \in Spreads, NEW w \in {1, 2, 4}, Holds(q, s)
    PROVE  Doubled(s, w) \in Spreads /\ Holds(Unpacked(q, q, w), Doubled(s, w))
<1> DEFINE whole == w * (s.n \div w)
           n == IF whole \in 1 .. 4 THEN 2 * whole ELSE s.n
           D == Doubled(s, w)
<1>1. s.n \in 0 .. 8 /\ s.char \in Byte
  BY DEF Spreads
<1>2. /\ w = 1 => whole = s.n
      /\ w = 2 => whole = 2 * (s.n \div 2)
      /\ w = 4 => whole = 4 * (s.n \div 4)
      /\ whole \in 0 .. 8
  BY <1>1
<1>3. n \in 0 .. 8
  BY <1>1, <1>2
<1>4. D \in Spreads
  BY <1>1, <1>2 DEF Doubled, Spreads
<1>5. D.n = n /\ D.char = s.char
  BY DEF Doubled, Spreads
<1>6. ASSUME NEW i \in Lane, i < n
      PROVE  LET at == (i \div (2 * w)) * w + (i % w) IN at \in Lane /\ at < s.n
  <2>1. i \in 0 .. 7
    BY DEF Lane
  <2>2. CASE w = 1
    BY <1>1, <1>2, <1>6, <2>1, <2>2 DEF Lane
  <2>3. CASE w = 2
    BY <1>1, <1>2, <1>6, <2>1, <2>3 DEF Lane
  <2>4. CASE w = 4
    BY <1>1, <1>2, <1>6, <2>1, <2>4 DEF Lane
  <2> QED BY <2>2, <2>3, <2>4
<1> HIDE DEF D, n
<1>7. ASSUME NEW i \in Lane, i < D.n PROVE Unpacked(q, q, w)[i] = D.char
  <2> DEFINE at == (i \div (2 * w)) * w + (i % w)
  <2>1. at \in Lane /\ at < s.n
    BY <1>5, <1>6, <1>7
  <2>2. Unpacked(q, q, w)[i] = q[at]
    BY DEF Unpacked
  <2> HIDE DEF at
  <2>3. q[at] = s.char
    BY <2>1 DEF Holds
  <2> QED BY <1>5, <2>2, <2>3
<1> QED BY <1>4, <1>7 DEF Holds, D

LEMMA KeepsUnpack ==
    ASSUME IInv, ops' \in Nat, NEW r \in MmxRegs, NEW rm \in RM(MmxRegs), NEW w \in {1, 2, 4},
           SetMmx(r, Unpacked(mmx_regs[r], MmxSource(rm), w), SelfSpread(r, rm, w), {-1})
    PROVE  IInv'
<1> DEFINE q == Unpacked(mmx_regs[r], MmxSource(rm), w)
           s == SelfSpread(r, rm, w)
           f == {-1}
<1>1. q \in Quad
  BY MmxOperand, MmxRegister, UnpackedTyped
<1>2. s \in Spreads /\ Holds(q, s)
  <2>1. CASE rm.mod3 /\ rm.at = r
    <3>1. MmxSource(rm) = mmx_regs[r] /\ s = Doubled(spread[r], w)
      BY <2>1, MmxOperand DEF SelfSpread
    <3> QED BY <3>1, MmxRegister, UnpackedSpreads
  <2>2. CASE ~(rm.mod3 /\ rm.at = r)
    BY <2>2, NothingKnown DEF SelfSpread
  <2> QED BY <2>1, <2>2
<1>3. f \in SUBSET (-1 .. 7) /\ Finds(q, f) /\ SetMmx(r, q, s, f)
  BY NothingKnown
<1> HIDE DEF q, s, f
<1> QED BY <1>1, <1>2, <1>3, SetMmxKeeps

LEMMA ShuffledTyped ==
    ASSUME NEW q \in Quad, NEW imm \in [0 .. 3 -> 0 .. 3]
    PROVE  /\ Shuffled(q, imm) \in Quad
           /\ \A i \in 0 .. 3 : /\ Shuffled(q, imm)[2 * i] = q[2 * imm[i]]
                                /\ Shuffled(q, imm)[2 * i + 1] = q[2 * imm[i] + 1]
<1>1. ASSUME NEW i \in Lane PROVE q[2 * imm[i \div 2] + (i % 2)] \in Byte
  <2>1. i \div 2 \in 0 .. 3 /\ i % 2 \in 0 .. 1
    BY DEF Lane
  <2>2. imm[i \div 2] \in 0 .. 3
    BY <2>1
  <2>3. 2 * imm[i \div 2] + (i % 2) \in Lane
    BY <2>1, <2>2 DEF Lane
  <2> QED BY <2>3 DEF Quad
<1>2. ASSUME NEW i \in 0 .. 3
      PROVE  /\ Shuffled(q, imm)[2 * i] = q[2 * imm[i]]
             /\ Shuffled(q, imm)[2 * i + 1] = q[2 * imm[i] + 1]
  <2>1. /\ 2 * i \in Lane /\ 2 * i + 1 \in Lane /\ (2 * i) \div 2 = i /\ (2 * i + 1) \div 2 = i
        /\ (2 * i) % 2 = 0 /\ (2 * i + 1) % 2 = 1
    BY DEF Lane
  <2>2. /\ Shuffled(q, imm)[2 * i] = q[2 * imm[(2 * i) \div 2] + ((2 * i) % 2)]
        /\ Shuffled(q, imm)[2 * i + 1] = q[2 * imm[(2 * i + 1) \div 2] + ((2 * i + 1) % 2)]
    BY <2>1 DEF Shuffled
  <2>3. imm[i] \in Int
    OBVIOUS
  <2> QED BY <2>1, <2>2, <2>3
<1> QED BY <1>1, <1>2 DEF Shuffled, Quad

LEMMA KeepsPshufw ==
    ASSUME IInv, ops' \in Nat, NEW r \in MmxRegs, NEW rm \in RM(MmxRegs), NEW imm \in Imm8s,
           op_pshufw(r, rm, imm)
    PROVE  IInv'
<1> DEFINE all == rm.mod3 /\ spread[rm.at].n >= 2 /\ imm = [i \in 0 .. 3 |-> 0]
           q == Shuffled(MmxSource(rm), imm)
           s == IF all THEN [spread[rm.at] EXCEPT !.n = 8] ELSE NoSpread
           f == {-1}
<1>0. imm \in [0 .. 3 -> 0 .. 3]
  BY Sizes
<1>1. q \in Quad
  BY <1>0, MmxOperand, ShuffledTyped
<1>2. s \in Spreads /\ Holds(q, s)
  <2>1. CASE all
    <3> DEFINE c == spread[rm.at]
               d == [c EXCEPT !.n = 8]
    <3>1. /\ MmxSource(rm) = mmx_regs[rm.at] /\ c \in Spreads
          /\ Holds(mmx_regs[rm.at], c) /\ c.n >= 2
      BY <2>1, MmxOperand, MmxRegister
    <3> HIDE DEF c
    <3>2. d \in Spreads /\ d.n = 8 /\ d.char = c.char /\ c.n \in Int
      BY <3>1 DEF Spreads
    <3>3. ASSUME NEW i \in Lane PROVE q[i] = c.char
      <4>1. i \div 2 \in 0 .. 3 /\ i % 2 \in 0 .. 1
        BY DEF Lane
      <4>2. imm[i \div 2] = 0
        BY <2>1, <4>1
      <4>3. q[i] = mmx_regs[rm.at][2 * imm[i \div 2] + (i % 2)]
        BY <3>1 DEF Shuffled
      <4>4. 2 * 0 + (i % 2) \in Lane /\ 2 * 0 + (i % 2) < c.n
        BY <3>1, <3>2, <4>1 DEF Lane
      <4> QED BY <3>1, <4>2, <4>3, <4>4 DEF Holds
    <3>4. s = d
      BY <2>1 DEF c
    <3> HIDE DEF s, d, q
    <3> QED BY <3>2, <3>3, <3>4 DEF Holds
  <2>2. CASE ~all
    <3>1. s = NoSpread
      BY <2>2
    <3> HIDE DEF s, q
    <3> QED BY <3>1, NothingKnown
  <2> HIDE DEF all, s, q
  <2> QED BY <2>1, <2>2
<1>3. f \in SUBSET (-1 .. 7) /\ Finds(q, f) /\ SetMmx(r, q, s, f)
  BY NothingKnown DEF op_pshufw
<1> HIDE DEF q, s, f
<1> QED BY <1>1, <1>2, <1>3, SetMmxKeeps

LEMMA KeepsMovdLoad ==
    ASSUME IInv, ops' \in Nat, NEW r \in MmxRegs, NEW rm \in RM(MmxRegs), op_movd_mm_rm32(r, rm)
    PROVE  IInv'
<1> DEFINE val == IF rm.mod3 THEN eax ELSE ReadDword(mem, rm.at)
           q == [i \in Lane |-> IF i < 4 THEN val[i] ELSE 0]
           s == [n |-> 1, char |-> val[0]]
           f == {-1}
<1>1. val \in Dword
  <2>1. eax \in Dword /\ mem \in Memory
    BY DEF IInv, Shape, TypeOK
  <2> QED BY <2>1, MmxOperand, ReadBytes
<1>2. SetMmx(r, q, s, f)
  BY DEF op_movd_mm_rm32
<1> HIDE DEF val
<1>3. q \in Quad
  BY <1>1, TopBits DEF Quad, Dword, Lane
<1>4. s \in Spreads /\ Holds(q, s)
  <2>1. val[0] \in Byte
    BY <1>1 DEF Dword
  <2>2. q[0] = val[0]
    BY DEF Lane
  <2>3. \A i \in Lane : i < 1 => i = 0
    BY DEF Lane
  <2>4. s \in Spreads /\ s.n = 1 /\ s.char = val[0]
    BY <2>1 DEF Spreads
  <2> HIDE DEF q, s
  <2> QED BY <2>2, <2>3, <2>4 DEF Holds
<1>5. f \in SUBSET (-1 .. 7) /\ Finds(q, f)
  BY NothingKnown
<1> HIDE DEF q, s, f
<1> QED BY <1>2, <1>3, <1>4, <1>5, SetMmxKeeps

LEMMA KeepsMovqLoad ==
    ASSUME IInv, ops' \in Nat, NEW r \in MmxRegs, NEW rm \in RM(MmxRegs), op_movq_mm_rm64(r, rm)
    PROVE  IInv'
<1> DEFINE q == MmxSource(rm)
           s == IF rm.mod3 THEN spread[rm.at] ELSE NoSpread
           f == IF rm.mod3 THEN found[rm.at] ELSE {-1}
<1>1. q \in Quad /\ SetMmx(r, q, s, f)
  BY MmxOperand DEF op_movq_mm_rm64
<1>2. s \in Spreads /\ Holds(q, s) /\ f \in SUBSET (-1 .. 7) /\ Finds(q, f)
  <2>1. CASE rm.mod3
    BY <2>1, MmxOperand, MmxRegister
  <2>2. CASE ~rm.mod3
    BY <2>2, NothingKnown
  <2> QED BY <2>1, <2>2
<1> HIDE DEF q, s, f
<1> QED BY <1>1, <1>2, SetMmxKeeps

\* The comparison of a register that is char in every lane.
LEMMA KeepsCompare ==
    ASSUME IInv, ops' \in Nat, NEW r \in MmxRegs, NEW rm \in RM(MmxRegs), op_pcmpeqb(r, rm)
    PROVE  IInv'
<1> DEFINE d == mmx_regs[r]
           m == MmxSource(rm)
           q == EqualBytes(d, m)
           s == NoSpread
           f == IF ~rm.mod3 /\ spread[r].n = 8
                THEN {i \in Lane : ReadQuad(mem, rm.at)[i] = spread[r].char} ELSE {-1}
<1>1. SetMmx(r, q, s, f)
  BY DEF op_pcmpeqb
<1>2. q \in Quad
  BY TopBits DEF EqualBytes, Quad
<1>3. s \in Spreads /\ Holds(q, s)
  BY NothingKnown
<1>4. f \in SUBSET (-1 .. 7) /\ Finds(q, f)
  <2>1. CASE ~rm.mod3 /\ spread[r].n = 8
    <3> DEFINE c == spread[r].char
               g == {i \in Lane : m[i] = c}
    <3>1. f = g
      BY <2>1, MmxOperand
    <3>2. \A i \in Lane : d[i] = c
      BY <2>1, MmxRegister DEF Holds, Lane
    <3>3. \A i \in Lane : q[i] = IF d[i] = m[i] THEN Ones ELSE 0
      BY DEF EqualBytes
    <3>4. g \in SUBSET (-1 .. 7)
      BY DEF Lane
    <3> HIDE DEF q, f, c, d, m
    <3>5. \A i \in Lane : TopBit(q[i]) <=> m[i] = c
      BY <3>2, <3>3, TopBits
    <3>6. g = {i \in Lane : TopBit(q[i])}
      BY <3>5
    <3> HIDE DEF g
    <3> QED BY <3>1, <3>4, <3>6 DEF Finds
  <2>2. CASE ~(~rm.mod3 /\ spread[r].n = 8)
    <3>1. f = {-1}
      BY <2>2
    <3> HIDE DEF f, q
    <3> QED BY <3>1, NothingKnown
  <2> QED BY <2>1, <2>2
<1> HIDE DEF q, s, f
<1> QED BY <1>1, <1>2, <1>3, <1>4, SetMmxKeeps

LEMMA KeepsPxor ==
    ASSUME IInv, ops' \in Nat, NEW r \in MmxRegs, NEW rm \in RM(MmxRegs), op_pxor_mm_mm(r, rm)
    PROVE  IInv'
<1> DEFINE d == mmx_regs[r]
           m == MmxSource(rm)
           q == [i \in Lane |-> Xor(d[i], m[i])]
           s == IF rm.mod3 /\ rm.at = r THEN [n |-> 8, char |-> 0] ELSE NoSpread
           f == {-1}
<1>1. SetMmx(r, q, s, f)
  BY DEF op_pxor_mm_mm
<1>2. q \in Quad
  BY XorForm DEF Quad
<1>3. s \in Spreads /\ Holds(q, s)
  <2>1. CASE rm.mod3 /\ rm.at = r
    <3>1. m = d
      BY <2>1, MmxOperand
    <3>2. \A i \in Lane : q[i] = 0
      BY <3>1, XorForm
    <3>3. s \in Spreads /\ s.n = 8 /\ s.char = 0
      BY <2>1, TopBits DEF Spreads
    <3> HIDE DEF q, s
    <3> QED BY <3>2, <3>3 DEF Holds
  <2>2. CASE ~(rm.mod3 /\ rm.at = r)
    <3>1. s = NoSpread
      BY <2>2
    <3> HIDE DEF q, s
    <3> QED BY <3>1, NothingKnown
  <2> QED BY <2>1, <2>2
<1>4. f \in SUBSET (-1 .. 7) /\ Finds(q, f)
  BY NothingKnown
<1> HIDE DEF q, s, f
<1> QED BY <1>1, <1>2, <1>3, <1>4, SetMmxKeeps

LEMMA KeepsMask ==
    ASSUME IInv, ops' \in Nat, NEW r \in MmxRegs, op_pmovmskb(r)
    PROVE  IInv'
<1>1. /\ ecx' = {i \in Lane : TopBit(mmx_regs[r][i])} /\ scanned' = found[r]
      /\ UNCHANGED <<mmx_regs, mem, image, eax, spread, found, xmm_regs, want, halted>>
  BY DEF op_pmovmskb, KeepXmm
<1>2. ecx' \subseteq Lane
  BY <1>1
<1>3. Shape'
  BY <1>1, <1>2 DEF IInv, Shape, TypeOK
<1>4. ScanMask'
  <2>1. Finds(mmx_regs[r], found[r])
    BY MmxRegister
  <2> QED BY <1>1, <2>1 DEF Finds, ScanMask
<1>5. SpreadHeld' /\ FoundHeld' /\ MovesExact'
  BY <1>1 DEF IInv, SpreadHeld, FoundHeld, MovesExact
<1> QED BY <1>3, <1>4, <1>5 DEF IInv

LEMMA KeepsMmxStored ==
    ASSUME IInv, ops' \in Nat, NEW m \in Memory, MmxStored(m)
    PROVE  IInv'
<1>1. /\ mem' = m /\ image' = m
      /\ UNCHANGED <<mmx_regs, eax, ecx, spread, found, scanned, xmm_regs, want, halted>>
  BY DEF MmxStored, KeepXmm
<1>2. Shape'
  BY <1>1 DEF IInv, Shape, TypeOK
<1> QED BY <1>1, <1>2 DEF IInv, SpreadHeld, FoundHeld, ScanMask, MovesExact

LEMMA KeepsMovdStore ==
    ASSUME IInv, ops' \in Nat, NEW r \in MmxRegs, NEW rm \in RM(MmxRegs), op_movd_rm32_mm(r, rm)
    PROVE  IInv'
<1> DEFINE val == [i \in 0 .. 3 |-> mmx_regs[r][i]]
<1>1. val \in Dword /\ mem \in Memory /\ mmx_regs[r] \in Quad
  <2>1. mmx_regs[r] \in Quad /\ mem \in Memory
    BY MmxRegister DEF IInv, Shape, TypeOK
  <2> QED BY <2>1 DEF Quad, Dword, Lane
<1>2. CASE rm.mod3
  <2>1. /\ eax' = val
        /\ UNCHANGED <<mmx_regs, mem, image, ecx, spread, found, scanned, xmm_regs, want, halted>>
    BY <1>2 DEF op_movd_rm32_mm, KeepXmm
  <2>2. Shape'
    BY <1>1, <2>1 DEF IInv, Shape, TypeOK
  <2> QED BY <2>1, <2>2 DEF IInv, SpreadHeld, FoundHeld, ScanMask, MovesExact
<1>3. CASE ~rm.mod3
  <2>1. MmxStored(WriteDword(mem, rm.at, val))
    BY <1>3 DEF op_movd_rm32_mm
  <2>2. WriteDword(mem, rm.at, val) \in Memory
    BY <1>1, <1>3, MmxOperand, WriteBytes
  <2> QED BY <2>1, <2>2, KeepsMmxStored
<1> QED BY <1>2, <1>3

LEMMA KeepsMovqStore ==
    ASSUME IInv, ops' \in Nat, NEW r \in MmxRegs, NEW rm \in RM(MmxRegs), op_movq_rm64_mm(r, rm)
    PROVE  IInv'
<1>1. mem \in Memory /\ mmx_regs[r] \in Quad
  BY MmxRegister DEF IInv, Shape, TypeOK
<1>2. CASE rm.mod3
  <2>1. SetMmx(rm.at, mmx_regs[r], spread[r], found[r])
    BY <1>2 DEF op_movq_rm64_mm
  <2> QED BY <1>2, <2>1, MmxOperand, MmxRegister, SetMmxKeeps
<1>3. CASE ~rm.mod3
  <2>1. MmxStored(WriteQuad(mem, rm.at, mmx_regs[r]))
    BY <1>3 DEF op_movq_rm64_mm
  <2>2. WriteQuad(mem, rm.at, mmx_regs[r]) \in Memory
    BY <1>1, <1>3, MmxOperand, WriteBytes
  <2> QED BY <2>1, <2>2, KeepsMmxStored
<1> QED BY <1>2, <1>3

LEMMA KeepsMmx == ASSUME IInv, ops' \in Nat, MmxStep PROVE IInv'
<1>1. PICK r \in MmxRegs :
        \/ op_pmovmskb(r)
        \/ \E rm \in RM(MmxRegs) :
             \/ op_punpcklbw(r, rm) \/ op_punpcklwd(r, rm) \/ op_punpckldq(r, rm)
             \/ op_movd_mm_rm32(r, rm) \/ op_movq_mm_rm64(r, rm)
             \/ op_pcmpeqb(r, rm) \/ op_pxor_mm_mm(r, rm)
             \/ op_movd_rm32_mm(r, rm) \/ op_movq_rm64_mm(r, rm)
             \/ \E imm \in Imm8s : op_pshufw(r, rm, imm)
  BY Zenon DEF MmxStep
<1>2. CASE op_pmovmskb(r)
  BY <1>2, KeepsMask
<1>3. ASSUME NEW rm \in RM(MmxRegs),
             op_punpcklbw(r, rm) \/ op_punpcklwd(r, rm) \/ op_punpckldq(r, rm)
      PROVE  IInv'
  <2> DEFINE does(w) == SetMmx(r, Unpacked(mmx_regs[r], MmxSource(rm), w), SelfSpread(r, rm, w), {-1})
  <2>1. does(1) \/ does(2) \/ does(4)
    BY <1>3 DEF op_punpcklbw, op_punpcklwd, op_punpckldq
  <2>2. PICK w \in {1, 2, 4} : does(w)
    BY <2>1
  <2> QED BY <2>2, KeepsUnpack
<1>4. ASSUME NEW rm \in RM(MmxRegs),
             \/ op_movd_mm_rm32(r, rm) \/ op_movq_mm_rm64(r, rm)
             \/ op_pcmpeqb(r, rm) \/ op_pxor_mm_mm(r, rm)
             \/ op_movd_rm32_mm(r, rm) \/ op_movq_rm64_mm(r, rm)
      PROVE  IInv'
  BY <1>4, KeepsMovdLoad, KeepsMovqLoad, KeepsCompare, KeepsPxor, KeepsMovdStore, KeepsMovqStore
<1>5. ASSUME NEW rm \in RM(MmxRegs), NEW imm \in Imm8s, op_pshufw(r, rm, imm) PROVE IInv'
  BY <1>5, KeepsPshufw
<1> QED BY <1>1, <1>2, <1>3, <1>4, <1>5

-------------------------------------------------------------------------------
(* The SSE instructions.                                                     *)

\* Setting a register and its words alike.
LEMMA SetXmmKeeps ==
    ASSUME IInv, ops' \in Nat, NEW r \in XmmRegs, NEW x \in XMMReg, NEW w, w = WordsOf(x),
           SetXmm(r, x, w)
    PROVE  IInv'
<1>1. /\ xmm_regs' = [xmm_regs EXCEPT ![r] = x] /\ want' = [want EXCEPT ![r] = w]
      /\ UNCHANGED <<mem, image, mmx_regs, eax, ecx, spread, found, scanned, halted>>
  BY DEF SetXmm, KeepMmx
<1>2. Shape
  BY DEF IInv
<1>3. xmm_regs \in [XmmRegs -> XMMReg] /\ want \in [XmmRegs -> Words] /\ w \in Words
  BY <1>2, WordsTyped DEF Shape, TypeOK
<1>4. xmm_regs' \in [XmmRegs -> XMMReg] /\ want' \in [XmmRegs -> Words]
  BY <1>1, <1>3
<1>5. Shape'
  BY <1>1, <1>2, <1>4 DEF Shape, TypeOK
<1>6. \A t \in XmmRegs : /\ xmm_regs'[t] = IF t = r THEN x ELSE xmm_regs[t]
                         /\ want'[t] = IF t = r THEN w ELSE want[t]
  BY <1>1, <1>3
<1>7. ASSUME NEW t \in XmmRegs PROVE WordsOf(xmm_regs'[t]) = want'[t]
  <2>1. WordsOf(xmm_regs[t]) = want[t]
    BY DEF IInv, MovesExact
  <2> QED BY <1>6, <2>1
<1>8. MovesExact'
  BY <1>1, <1>7 DEF IInv, MovesExact
<1> QED BY <1>1, <1>5, <1>8 DEF IInv, SpreadHeld, FoundHeld, ScanMask

\* Storing to memory and to its image alike.
LEMMA XmmStoredKeeps ==
    ASSUME IInv, ops' \in Nat, NEW m \in Memory, XmmStored(m, m)
    PROVE  IInv'
<1>1. /\ mem' = m /\ image' = m
      /\ UNCHANGED <<xmm_regs, want, mmx_regs, eax, ecx, spread, found, scanned, halted>>
  BY DEF XmmStored, KeepMmx
<1>2. Shape'
  BY <1>1 DEF IInv, Shape, TypeOK
<1> QED BY <1>1, <1>2 DEF IInv, SpreadHeld, FoundHeld, ScanMask, MovesExact

\* The words of a register by halves.
LEMMA WordsByHalf ==
    ASSUME NEW x \in XMMReg
    PROVE  /\ x.lo \in Quad /\ x.hi \in Quad
           /\ \A i \in 0 .. 3 : /\ WordsOf(x)[i] = <<x.lo[2 * i], x.lo[2 * i + 1]>>
                                /\ WordsOf(x)[4 + i] = <<x.hi[2 * i], x.hi[2 * i + 1]>>
<1>1. ASSUME NEW i \in 0 .. 3
      PROVE  /\ WordsOf(x)[i] = <<x.lo[2 * i], x.lo[2 * i + 1]>>
             /\ WordsOf(x)[4 + i] = <<x.hi[2 * i], x.hi[2 * i + 1]>>
  <2>1. /\ i \in Lane /\ i < 4 /\ 4 + i \in Lane /\ ~(4 + i < 4)
        /\ 2 * (4 + i) - 8 = 2 * i /\ 2 * (4 + i) - 7 = 2 * i + 1
    BY DEF Lane
  <2>2. WordsOf(x)[i] = <<x.lo[2 * i], x.lo[2 * i + 1]>>
    BY <2>1 DEF WordsOf
  <2>3. WordsOf(x)[4 + i] = <<x.hi[2 * (4 + i) - 8], x.hi[2 * (4 + i) - 7]>>
    BY <2>1 DEF WordsOf
  <2> QED BY <2>1, <2>2, <2>3
<1> QED BY <1>1 DEF XMMReg

\* Words by halves are the words of the register.
LEMMA WordsFromHalves ==
    ASSUME NEW x \in XMMReg, NEW w, w = [i \in Lane |-> w[i]],
           \A i \in 0 .. 3 : /\ w[i] = <<x.lo[2 * i], x.lo[2 * i + 1]>>
                             /\ w[4 + i] = <<x.hi[2 * i], x.hi[2 * i + 1]>>
    PROVE  w = WordsOf(x)
<1>1. ASSUME NEW i \in Lane PROVE w[i] = WordsOf(x)[i]
  <2>1. CASE i < 4
    <3>1. i \in 0 .. 3
      BY <2>1 DEF Lane
    <3> QED BY <3>1, WordsByHalf
  <2>2. CASE ~(i < 4)
    <3>1. i - 4 \in 0 .. 3 /\ 4 + (i - 4) = i
      BY <2>2 DEF Lane
    <3> DEFINE k == i - 4
    <3>2. k \in 0 .. 3 /\ 4 + k = i
      BY <3>1
    <3> HIDE DEF k
    <3> QED BY <3>2, WordsByHalf
  <2> QED BY <2>1, <2>2
<1>2. WordsOf(x) = [i \in Lane |-> WordsOf(x)[i]]
  BY DEF WordsOf
<1> QED BY <1>1, <1>2

\* An operand: its bytes, its words and its low quad.
LEMMA XmmOperand ==
    ASSUME IInv, NEW rm \in RM(XmmRegs)
    PROVE  /\ read_xmm_src(rm) \in XMMReg /\ Source(rm) = WordsOf(read_xmm_src(rm))
           /\ read_quad_src(rm) = read_xmm_src(rm).lo /\ rm.mod3 \in BOOLEAN
           /\ rm.mod3 => rm.at \in XmmRegs
           /\ ~rm.mod3 => rm.at \in Places
<1>1. xmm_regs \in [XmmRegs -> XMMReg] /\ mem \in Memory
  BY DEF IInv, Shape, TypeOK
<1>2. rm.mod3 \in BOOLEAN /\ (rm.mod3 => rm.at \in XmmRegs) /\ (~rm.mod3 => rm.at \in Places)
  BY Sizes DEF RM, Places
<1>3. CASE rm.mod3
  BY <1>1, <1>2, <1>3 DEF read_xmm_src, read_quad_src, Source, IInv, MovesExact
<1>4. CASE ~rm.mod3
  <2>1. Address(rm.at + 8) \in Places
    <3>1. 8 \in 0 .. 15
      OBVIOUS
    <3> QED BY <1>2, <1>4, <3>1, Wraps
  <2>2. ReadQuad(mem, rm.at) \in Quad /\ ReadQuad(mem, Address(rm.at + 8)) \in Quad
    BY <1>1, <1>2, <1>4, <2>1, ReadBytes
  <2>3. read_xmm_src(rm) \in XMMReg /\ read_xmm_src(rm).lo = ReadQuad(mem, rm.at)
    BY <1>4, <2>2 DEF read_xmm_src, XMMReg
  <2> QED BY <1>2, <1>4, <2>3 DEF read_quad_src, Source
<1> QED BY <1>2, <1>3, <1>4

LEMMA XmmRegister ==
    ASSUME IInv, NEW r \in XmmRegs
    PROVE  xmm_regs[r] \in XMMReg /\ want[r] = WordsOf(xmm_regs[r]) /\ want[r] \in Words
BY DEF IInv, Shape, TypeOK, MovesExact

\* A register made of two quads, and its words by halves.
LEMMA PairedKeeps ==
    ASSUME IInv, ops' \in Nat, NEW r \in XmmRegs, NEW lo \in Quad, NEW hi \in Quad, NEW w,
           w = [i \in Lane |-> w[i]],
           \A i \in 0 .. 3 : /\ w[i] = <<lo[2 * i], lo[2 * i + 1]>>
                             /\ w[4 + i] = <<hi[2 * i], hi[2 * i + 1]>>,
           SetXmm(r, [lo |-> lo, hi |-> hi], w)
    PROVE  IInv'
<1> DEFINE x == [lo |-> lo, hi |-> hi]
<1>1. x \in XMMReg /\ x.lo = lo /\ x.hi = hi /\ SetXmm(r, x, w)
  BY DEF XMMReg
<1> HIDE DEF x
<1>2. w = WordsOf(x)
  BY <1>1, WordsFromHalves
<1> QED BY <1>1, <1>2, SetXmmKeeps

\* Assigning one half keeps the other.
LEMMA HalfAssigned ==
    ASSUME NEW x \in XMMReg, NEW q
    PROVE  /\ [x EXCEPT !.lo = q] = [lo |-> q, hi |-> x.hi]
           /\ [x EXCEPT !.hi = q] = [lo |-> x.lo, hi |-> q]
BY DEF XMMReg

\* The words of the destination and of the operand, by halves.
LEMMA BothWords ==
    ASSUME IInv, NEW r \in XmmRegs, NEW rm \in RM(XmmRegs)
    PROVE  LET d == xmm_regs[r]
               s == read_xmm_src(rm)
           IN  /\ d \in XMMReg /\ d.lo \in Quad /\ d.hi \in Quad
               /\ s.lo \in Quad /\ s.hi \in Quad /\ read_quad_src(rm) = s.lo
               /\ \A i \in 0 .. 3 : /\ want[r][i] = <<d.lo[2 * i], d.lo[2 * i + 1]>>
                                    /\ want[r][4 + i] = <<d.hi[2 * i], d.hi[2 * i + 1]>>
                                    /\ Source(rm)[i] = <<s.lo[2 * i], s.lo[2 * i + 1]>>
                                    /\ Source(rm)[4 + i] = <<s.hi[2 * i], s.hi[2 * i + 1]>>
<1> DEFINE d == xmm_regs[r]
           s == read_xmm_src(rm)
<1>1. d \in XMMReg /\ want[r] = WordsOf(d)
  BY XmmRegister
<1>2. s \in XMMReg /\ Source(rm) = WordsOf(s) /\ read_quad_src(rm) = s.lo
  BY XmmOperand
<1> HIDE DEF d, s
<1>3. /\ d.lo \in Quad /\ d.hi \in Quad
      /\ \A i \in 0 .. 3 : /\ want[r][i] = <<d.lo[2 * i], d.lo[2 * i + 1]>>
                           /\ want[r][4 + i] = <<d.hi[2 * i], d.hi[2 * i + 1]>>
  BY <1>1, WordsByHalf
<1>4. /\ s.lo \in Quad /\ s.hi \in Quad
      /\ \A i \in 0 .. 3 : /\ Source(rm)[i] = <<s.lo[2 * i], s.lo[2 * i + 1]>>
                           /\ Source(rm)[4 + i] = <<s.hi[2 * i], s.hi[2 * i + 1]>>
  BY <1>2, WordsByHalf
<1> QED BY <1>1, <1>2, <1>3, <1>4 DEF d, s

\* The low quad of the operand becomes the high one: MOVHPS and PUNPCKLQDQ.
LEMMA KeepsHigh ==
    ASSUME IInv, ops' \in Nat, NEW r \in XmmRegs, NEW rm \in RM(XmmRegs),
           op_movhps_xmm_m64(r, rm) \/ op_punpcklqdq(r, rm)
    PROVE  IInv'
<1> DEFINE d == xmm_regs[r]
           s == read_xmm_src(rm)
           lo == d.lo
           hi == s.lo
           w == [i \in Lane |-> IF i < 4 THEN want[r][i] ELSE Source(rm)[i - 4]]
<1>1. d \in XMMReg /\ read_quad_src(rm) = s.lo /\ lo \in Quad /\ hi \in Quad
  BY BothWords
<1>2. SetXmm(r, [d EXCEPT !.hi = s.lo], w)
  BY <1>1 DEF op_movhps_xmm_m64, op_punpcklqdq
<1>3. [d EXCEPT !.hi = s.lo] = [lo |-> lo, hi |-> hi]
  <2> DEFINE q == s.lo
  <2> HIDE DEF d, q
  <2>1. [d EXCEPT !.hi = q] = [lo |-> d.lo, hi |-> q]
    BY <1>1, HalfAssigned
  <2> QED BY <2>1 DEF q
<1>4. SetXmm(r, [lo |-> lo, hi |-> hi], w)
  BY <1>2, <1>3
<1>5. ASSUME NEW i \in 0 .. 3
      PROVE  /\ w[i] = <<lo[2 * i], lo[2 * i + 1]>>
             /\ w[4 + i] = <<hi[2 * i], hi[2 * i + 1]>>
  <2>1. i \in Lane /\ i < 4 /\ 4 + i \in Lane /\ ~(4 + i < 4) /\ (4 + i) - 4 = i
    BY DEF Lane
  <2>2. w[i] = want[r][i] /\ w[4 + i] = Source(rm)[i]
    BY <2>1
  <2> HIDE DEF w
  <2> QED BY <2>2, BothWords
<1>6. w = [i \in Lane |-> w[i]]
  OBVIOUS
<1> HIDE DEF w, lo, hi
<1> QED BY <1>1, <1>4, <1>5, <1>6, PairedKeeps

\* The high quads of destination and operand: PUNPCKHQDQ.
LEMMA KeepsHighs ==
    ASSUME IInv, ops' \in Nat, NEW r \in XmmRegs, NEW rm \in RM(XmmRegs), op_punpckhqdq(r, rm)
    PROVE  IInv'
<1> DEFINE d == xmm_regs[r]
           s == read_xmm_src(rm)
           lo == d.hi
           hi == s.hi
           w == [i \in Lane |-> IF i < 4 THEN want[r][i + 4] ELSE Source(rm)[i]]
<1>1. lo \in Quad /\ hi \in Quad
  BY BothWords
<1>2. SetXmm(r, [lo |-> lo, hi |-> hi], w)
  BY DEF op_punpckhqdq, HighPair
<1>3. ASSUME NEW i \in 0 .. 3
      PROVE  /\ w[i] = <<lo[2 * i], lo[2 * i + 1]>>
             /\ w[4 + i] = <<hi[2 * i], hi[2 * i + 1]>>
  <2>1. i \in Lane /\ i < 4 /\ 4 + i \in Lane /\ ~(4 + i < 4) /\ i + 4 = 4 + i
    BY DEF Lane
  <2>2. w[i] = want[r][4 + i] /\ w[4 + i] = Source(rm)[4 + i]
    BY <2>1
  <2> HIDE DEF w
  <2> QED BY <2>2, BothWords
<1>4. w = [i \in Lane |-> w[i]]
  OBVIOUS
<1> HIDE DEF w, lo, hi
<1> QED BY <1>1, <1>2, <1>3, <1>4, PairedKeeps

\* The two forms that clear the high quad: MOVSD and MOVQ.
LEMMA ZeroQuad ==
    /\ Zero \in Quad
    /\ \A i \in 0 .. 3 : ZeroWord = <<Zero[2 * i], Zero[2 * i + 1]>>
<1>1. \A i \in 0 .. 3 : 2 * i \in Lane /\ 2 * i + 1 \in Lane
  BY DEF Lane
<1> QED BY <1>1, TopBits DEF Zero, ZeroWord, Quad

LEMMA KeepsMovsdLoad ==
    ASSUME IInv, ops' \in Nat, NEW r \in XmmRegs, NEW rm \in RM(XmmRegs), movsd_xmm_rm64(r, rm)
    PROVE  IInv'
<1> DEFINE lo == read_quad_src(rm)
           w == [i \in Lane |-> IF i < 4 THEN Source(rm)[i] ELSE ZeroWord]
<1>1. /\ lo \in Quad
      /\ \A i \in 0 .. 3 : Source(rm)[i] = <<lo[2 * i], lo[2 * i + 1]>>
  BY BothWords
<1>2. SetXmm(r, [lo |-> lo, hi |-> Zero], w)
  BY DEF movsd_xmm_rm64
<1> HIDE DEF lo
<1>3. ASSUME NEW i \in 0 .. 3
      PROVE  /\ w[i] = <<lo[2 * i], lo[2 * i + 1]>>
             /\ w[4 + i] = <<Zero[2 * i], Zero[2 * i + 1]>>
  <2>1. i \in Lane /\ i < 4 /\ 4 + i \in Lane /\ ~(4 + i < 4)
    BY DEF Lane
  <2>2. w[i] = Source(rm)[i] /\ w[4 + i] = ZeroWord
    BY <2>1
  <2> HIDE DEF w
  <2> QED BY <1>1, <2>2, ZeroQuad
<1>4. w = [i \in Lane |-> w[i]]
  OBVIOUS
<1> HIDE DEF w
<1> QED BY <1>1, <1>2, <1>3, <1>4, ZeroQuad, PairedKeeps

\* One register's words by halves.
LEMMA RegisterWords ==
    ASSUME IInv, NEW r \in XmmRegs
    PROVE  LET d == xmm_regs[r]
           IN  /\ d \in XMMReg /\ d.lo \in Quad /\ d.hi \in Quad /\ mem \in Memory /\ image = mem
               /\ \A i \in 0 .. 3 : /\ want[r][i] = <<d.lo[2 * i], d.lo[2 * i + 1]>>
                                    /\ want[r][4 + i] = <<d.hi[2 * i], d.hi[2 * i + 1]>>
<1> DEFINE d == xmm_regs[r]
<1>1. d \in XMMReg /\ want[r] = WordsOf(d)
  BY XmmRegister
<1>2. mem \in Memory /\ image = mem
  BY DEF IInv, Shape, TypeOK, MovesExact
<1> HIDE DEF d
<1>3. /\ d.lo \in Quad /\ d.hi \in Quad
      /\ \A i \in 0 .. 3 : /\ want[r][i] = <<d.lo[2 * i], d.lo[2 * i + 1]>>
                           /\ want[r][4 + i] = <<d.hi[2 * i], d.hi[2 * i + 1]>>
  BY <1>1, WordsByHalf
<1> QED BY <1>1, <1>2, <1>3 DEF d

\* A store of a quad with its words, and the same words in the image.
LEMMA QuadStoredKeeps ==
    ASSUME IInv, ops' \in Nat, mem \in Memory, image = mem, NEW a \in Places, NEW q \in Quad, NEW w,
           \A i \in 0 .. 3 : w[i] = <<q[2 * i], q[2 * i + 1]>>,
           XmmStored(WriteQuad(mem, a, q), WordsAt(image, a, w, 4))
    PROVE  IInv'
<1> DEFINE m == WriteQuad(mem, a, q)
<1>1. m \in Memory
  BY WriteBytes
<1>2. m = WordsAt(mem, a, w, 4)
  BY StoreQuad
<1>3. XmmStored(m, m)
  BY <1>2
<1> HIDE DEF m
<1> QED BY <1>1, <1>3, XmmStoredKeeps

LEMMA KeepsMovsdStore ==
    ASSUME IInv, ops' \in Nat, NEW r \in XmmRegs, NEW rm \in RM(XmmRegs), movsd_rm64_xmm(r, rm)
    PROVE  IInv'
<1> DEFINE lo == xmm_regs[r].lo
           w == [i \in Lane |-> IF i < 4 THEN want[r][i] ELSE ZeroWord]
<1>1. /\ lo \in Quad /\ mem \in Memory /\ image = mem
      /\ \A i \in 0 .. 3 : want[r][i] = <<lo[2 * i], lo[2 * i + 1]>>
  BY RegisterWords
<1>2. CASE rm.mod3
  <2>1. SetXmm(rm.at, [lo |-> lo, hi |-> Zero], w) /\ rm.at \in XmmRegs
    BY <1>2, XmmOperand DEF movsd_rm64_xmm
  <2> HIDE DEF lo
  <2>2. ASSUME NEW i \in 0 .. 3
        PROVE  /\ w[i] = <<lo[2 * i], lo[2 * i + 1]>>
               /\ w[4 + i] = <<Zero[2 * i], Zero[2 * i + 1]>>
    <3>1. i \in Lane /\ i < 4 /\ 4 + i \in Lane /\ ~(4 + i < 4)
      BY DEF Lane
    <3>2. w[i] = want[r][i] /\ w[4 + i] = ZeroWord
      BY <3>1
    <3> HIDE DEF w
    <3> QED BY <1>1, <3>2, ZeroQuad
  <2>3. w = [i \in Lane |-> w[i]]
    OBVIOUS
  <2> DEFINE t == rm.at
  <2>4. t \in XmmRegs /\ SetXmm(t, [lo |-> lo, hi |-> Zero], w)
    BY <2>1
  <2> HIDE DEF w, t
  <2> QED BY <1>1, <2>2, <2>3, <2>4, ZeroQuad, PairedKeeps
<1>3. CASE ~rm.mod3
  <2> DEFINE v == want[r]
             a == rm.at
  <2>1. XmmStored(WriteQuad(mem, a, lo), WordsAt(image, a, v, 4)) /\ a \in Places
    BY <1>3, XmmOperand DEF movsd_rm64_xmm
  <2>2. \A i \in 0 .. 3 : v[i] = <<lo[2 * i], lo[2 * i + 1]>>
    BY <1>1
  <2> HIDE DEF lo, v, a
  <2> QED BY <1>1, <2>1, <2>2, QuadStoredKeeps
<1> QED BY <1>2, <1>3

\* MOVHPS to memory, or in the register form to the low quad.
LEMMA KeepsMovhpsStore ==
    ASSUME IInv, ops' \in Nat, NEW r \in XmmRegs, NEW rm \in RM(XmmRegs), op_movhps_m64_xmm(r, rm)
    PROVE  IInv'
<1> DEFINE lo == xmm_regs[r].hi
<1>1. /\ lo \in Quad /\ mem \in Memory /\ image = mem
      /\ \A i \in 0 .. 3 : want[r][4 + i] = <<lo[2 * i], lo[2 * i + 1]>>
  BY RegisterWords
<1>2. CASE rm.mod3
  <2> DEFINE d == xmm_regs[rm.at]
             hi == d.hi
             w == [i \in Lane |-> IF i < 4 THEN want[r][i + 4] ELSE want[rm.at][i]]
  <2>1. SetXmm(rm.at, [d EXCEPT !.lo = lo], w) /\ rm.at \in XmmRegs
    BY <1>2, XmmOperand DEF op_movhps_m64_xmm
  <2>2. /\ d \in XMMReg /\ hi \in Quad
        /\ \A i \in 0 .. 3 : want[rm.at][4 + i] = <<hi[2 * i], hi[2 * i + 1]>>
    BY <2>1, RegisterWords
  <2>3. [d EXCEPT !.lo = lo] = [lo |-> lo, hi |-> hi]
    <3> HIDE DEF d, lo
    <3> QED BY <2>2, HalfAssigned
  <2>4. SetXmm(rm.at, [lo |-> lo, hi |-> hi], w)
    BY <2>1, <2>3
  <2>5. ASSUME NEW i \in 0 .. 3
        PROVE  /\ w[i] = <<lo[2 * i], lo[2 * i + 1]>>
               /\ w[4 + i] = <<hi[2 * i], hi[2 * i + 1]>>
    <3>1. i \in Lane /\ i < 4 /\ 4 + i \in Lane /\ ~(4 + i < 4) /\ i + 4 = 4 + i
      BY DEF Lane
    <3>2. w[i] = want[r][4 + i] /\ w[4 + i] = want[rm.at][4 + i]
      BY <3>1
    <3> HIDE DEF w, lo, hi
    <3> QED BY <1>1, <2>2, <3>2
  <2>6. w = [i \in Lane |-> w[i]]
    OBVIOUS
  <2> DEFINE t == rm.at
  <2>7. t \in XmmRegs /\ SetXmm(t, [lo |-> lo, hi |-> hi], w)
    BY <2>1, <2>4
  <2> HIDE DEF w, lo, hi, t
  <2> QED BY <1>1, <2>2, <2>5, <2>6, <2>7, PairedKeeps
<1>3. CASE ~rm.mod3
  <2> DEFINE v == [i \in 0 .. 3 |-> want[r][i + 4]]
             a == rm.at
  <2>1. XmmStored(WriteQuad(mem, a, lo), WordsAt(image, a, v, 4)) /\ a \in Places
    BY <1>3, XmmOperand DEF op_movhps_m64_xmm
  <2>2. \A i \in 0 .. 3 : v[i] = <<lo[2 * i], lo[2 * i + 1]>>
    <3>1. \A i \in 0 .. 3 : i + 4 = 4 + i
      OBVIOUS
    <3> HIDE DEF lo
    <3> QED BY <1>1, <3>1
  <2> HIDE DEF lo, v, a
  <2> QED BY <1>1, <2>1, <2>2, QuadStoredKeeps
<1> QED BY <1>2, <1>3

\* MOVUPS and MOVDQU.
LEMMA KeepsMovups ==
    ASSUME IInv, ops' \in Nat, NEW r \in XmmRegs, NEW rm \in RM(XmmRegs),
           op_movups_xmm_rm128(r, rm) \/ op_movups_rm128_xmm(r, rm)
    PROVE  IInv'
<1>1. CASE op_movups_xmm_rm128(r, rm)
  <2> DEFINE x == read_xmm_src(rm)
             w == Source(rm)
  <2>1. x \in XMMReg /\ w = WordsOf(x) /\ SetXmm(r, x, w)
    BY <1>1, XmmOperand DEF op_movups_xmm_rm128
  <2> HIDE DEF x, w
  <2> QED BY <2>1, SetXmmKeeps
<1>2. CASE op_movups_rm128_xmm(r, rm)
  <2> DEFINE x == xmm_regs[r]
             w == want[r]
             a == rm.at
  <2>1. x \in XMMReg /\ w = WordsOf(x) /\ mem \in Memory /\ image = mem
    BY XmmRegister, RegisterWords
  <2>2. CASE rm.mod3
    <3>1. SetXmm(a, x, w) /\ a \in XmmRegs
      BY <1>2, <2>2, XmmOperand DEF op_movups_rm128_xmm, write_xmm_dst
    <3> HIDE DEF x, w, a
    <3> QED BY <2>1, <3>1, SetXmmKeeps
  <2>3. CASE ~rm.mod3
    <3> DEFINE m == WriteQuad(WriteQuad(mem, a, x.lo), Address(a + 8), x.hi)
    <3>1. XmmStored(m, WordsAt(image, a, w, 8)) /\ a \in Places
      BY <1>2, <2>3, XmmOperand DEF op_movups_rm128_xmm, write_xmm_dst
    <3> HIDE DEF x, w, a
    <3>2. /\ x.lo \in Quad /\ x.hi \in Quad
          /\ \A i \in 0 .. 3 : w[i] = <<x.lo[2 * i], x.lo[2 * i + 1]>>
          /\ \A i \in 0 .. 3 : w[4 + i] = <<x.hi[2 * i], x.hi[2 * i + 1]>>
      BY <2>1, WordsByHalf
    <3> DEFINE lo == x.lo
               hi == x.hi
    <3>3. m = WordsAt(mem, a, w, 8)
      <4>1. lo \in Quad /\ hi \in Quad
            /\ (\A i \in 0 .. 3 : w[i] = <<lo[2 * i], lo[2 * i + 1]>>)
            /\ (\A i \in 0 .. 3 : w[4 + i] = <<hi[2 * i], hi[2 * i + 1]>>)
        BY <3>2
      <4>2. m = WriteQuad(WriteQuad(mem, a, lo), Address(a + 8), hi)
        OBVIOUS
      <4> HIDE DEF lo, hi, m
      <4> QED BY <2>1, <3>1, <4>1, <4>2, StoreXmm
    <3>4. m \in Memory
      <4> DEFINE n == WriteQuad(mem, a, lo)
                 b == Address(a + 8)
      <4>1. lo \in Quad /\ hi \in Quad /\ 8 \in 0 .. 15
        BY <3>2
      <4>2. m = WriteQuad(n, b, hi)
        OBVIOUS
      <4> HIDE DEF lo, hi, m
      <4>3. n \in Memory
        BY <2>1, <3>1, <4>1, WriteBytes
      <4>4. b \in Places
        BY <3>1, <4>1, Wraps
      <4> HIDE DEF n, b
      <4> QED BY <4>1, <4>2, <4>3, <4>4, WriteBytes
    <3>5. XmmStored(m, m)
      BY <2>1, <3>1, <3>3
    <3> HIDE DEF m
    <3> QED BY <3>4, <3>5, XmmStoredKeeps
  <2> QED BY <2>2, <2>3
<1> QED BY <1>1, <1>2

\* PSHUFLW and PSHUFHW.
LEMMA KeepsShuffle ==
    ASSUME IInv, ops' \in Nat, NEW r \in XmmRegs, NEW rm \in RM(XmmRegs), NEW imm \in Imm8s,
           pshuflw(r, rm, imm) \/ pshufhw(r, rm, imm)
    PROVE  IInv'
<1> DEFINE x == read_xmm_src(rm)
           S == Source(rm)
           l == x.lo
           h == x.hi
           L == Shuffled(x.lo, imm)
           H == Shuffled(x.hi, imm)
<1>1. imm \in [0 .. 3 -> 0 .. 3]
  BY Sizes
<1>2. /\ l \in Quad /\ h \in Quad
      /\ \A i \in 0 .. 3 : /\ S[i] = <<l[2 * i], l[2 * i + 1]>>
                           /\ S[4 + i] = <<h[2 * i], h[2 * i + 1]>>
  BY BothWords
<1>3. /\ L \in Quad /\ H \in Quad
      /\ \A i \in 0 .. 3 : /\ L[2 * i] = l[2 * imm[i]] /\ L[2 * i + 1] = l[2 * imm[i] + 1]
                           /\ H[2 * i] = h[2 * imm[i]] /\ H[2 * i + 1] = h[2 * imm[i] + 1]
  BY <1>1, <1>2, ShuffledTyped
<1>4. \A i \in 0 .. 3 : /\ imm[i] \in 0 .. 3 /\ i \in Lane /\ i < 4 /\ 4 + i \in Lane /\ ~(4 + i < 4)
                        /\ (4 + i) - 4 = i
  BY <1>1 DEF Lane
<1>5. CASE pshuflw(r, rm, imm)
  <2> DEFINE w == [i \in Lane |-> IF i < 4 THEN S[imm[i]] ELSE S[i]]
  <2>1. SetXmm(r, [lo |-> L, hi |-> h], w)
    BY <1>5 DEF pshuflw
  <2> HIDE DEF x, S, l, h, L, H
  <2>2. ASSUME NEW i \in 0 .. 3
        PROVE  /\ w[i] = <<L[2 * i], L[2 * i + 1]>>
               /\ w[4 + i] = <<h[2 * i], h[2 * i + 1]>>
    <3>1. w[i] = S[imm[i]] /\ w[4 + i] = S[4 + i]
      BY <1>4
    <3> HIDE DEF w
    <3> QED BY <1>2, <1>3, <1>4, <3>1
  <2>3. w = [i \in Lane |-> w[i]]
    OBVIOUS
  <2> HIDE DEF w
  <2> QED BY <1>2, <1>3, <2>1, <2>2, <2>3, PairedKeeps
<1>6. CASE pshufhw(r, rm, imm)
  <2> DEFINE w == [i \in Lane |-> IF i < 4 THEN S[i] ELSE S[4 + imm[i - 4]]]
  <2>1. SetXmm(r, [lo |-> l, hi |-> H], w)
    BY <1>6 DEF pshufhw
  <2> HIDE DEF x, S, l, h, L, H
  <2>2. ASSUME NEW i \in 0 .. 3
        PROVE  /\ w[i] = <<l[2 * i], l[2 * i + 1]>>
               /\ w[4 + i] = <<H[2 * i], H[2 * i + 1]>>
    <3>1. w[i] = S[i] /\ w[4 + i] = S[4 + imm[i]]
      BY <1>4
    <3> HIDE DEF w
    <3> QED BY <1>2, <1>3, <1>4, <3>1
  <2>3. w = [i \in Lane |-> w[i]]
    OBVIOUS
  <2> HIDE DEF w
  <2> QED BY <1>2, <1>3, <2>1, <2>2, <2>3, PairedKeeps
<1> QED BY <1>5, <1>6

LEMMA KeepsXmm == ASSUME IInv, ops' \in Nat, XmmStep PROVE IInv'
<1>1. CASE endbr32
  <2>1. UNCHANGED <<mmx_regs, xmm_regs, mem, eax, ecx, halted, spread, found, scanned, want, image>>
    BY <1>1 DEF endbr32, KeepMmx
  <2> QED BY <2>1 DEF IInv, Shape, TypeOK, SpreadHeld, FoundHeld, ScanMask, MovesExact
<1>2. CASE unhandled_sse
  <2>1. /\ UNCHANGED <<mmx_regs, xmm_regs, mem, eax, ecx, spread, found, scanned, want, image>>
        /\ halted' \in BOOLEAN
    BY <1>2 DEF unhandled_sse
  <2> QED BY <2>1 DEF IInv, Shape, TypeOK, SpreadHeld, FoundHeld, ScanMask, MovesExact
<1>3. ASSUME NEW r \in XmmRegs, NEW rm \in RM(XmmRegs),
             \/ op_movups_xmm_rm128(r, rm) \/ op_movups_rm128_xmm(r, rm)
             \/ op_movhps_xmm_m64(r, rm) \/ op_movhps_m64_xmm(r, rm)
             \/ op_punpcklqdq(r, rm) \/ op_punpckhqdq(r, rm)
             \/ movsd_xmm_rm64(r, rm) \/ movsd_rm64_xmm(r, rm)
             \/ \E imm \in Imm8s : pshuflw(r, rm, imm) \/ pshufhw(r, rm, imm)
      PROVE  IInv'
  BY <1>3, KeepsMovups, KeepsHigh, KeepsMovhpsStore, KeepsHighs, KeepsMovsdLoad, KeepsMovsdStore,
     KeepsShuffle
<1> QED BY <1>1, <1>2, <1>3, Zenon DEF XmmStep

-------------------------------------------------------------------------------
LEMMA StepInv == IInv /\ [Next]_vars => IInv'
<1> SUFFICES ASSUME IInv, [Next]_vars PROVE IInv'
  OBVIOUS
<1>1. CASE ops' = ops + 1 /\ (MmxStep \/ XmmStep)
  <2>1. ops' \in Nat
    BY <1>1 DEF IInv, Shape
  <2> QED BY <1>1, <2>1, KeepsMmx, KeepsXmm
<1>2. CASE UNCHANGED vars
  BY <1>2 DEF vars, IInv, Shape, TypeOK, SpreadHeld, FoundHeld, ScanMask, MovesExact
<1> QED BY <1>1, <1>2 DEF Next

\* The inductive invariant holds of every instruction sequence.
LEMMA Invariant == Spec => []IInv
<1> QED BY InitInv, StepInv, PTL DEF Spec

\* Registers and memory keep holding bytes, whatever is unpacked, shuffled,
\* compared, combined or moved between them.
THEOREM TypeCorrect == Spec => []TypeOK
<1>1. IInv => TypeOK
  BY DEF IInv, Shape
<1> QED BY <1>1, Invariant, PTL

\* The mask that PMOVMSKB gives after a scan is exactly the lanes of memory
\* that hold the character, for any characters, memory and instructions in
\* between (op_pcmpeqb, op_pmovmskb).
THEOREM MasksExact == Spec => []ScanMask
<1>1. IInv => ScanMask
  BY DEF IInv
<1> QED BY <1>1, Invariant, PTL

\* The SSE moves, unpacks and shuffles bring every word where the manual says,
\* in registers and in memory, for any overlap and at the end of memory
\* (read_xmm_src, write_xmm_dst and their callers).
THEOREM MovesRight == Spec => []MovesExact
<1>1. IInv => MovesExact
  BY DEF IInv
<1> QED BY <1>1, Invariant, PTL

===============================================================================
