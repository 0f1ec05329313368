--------------------------- MODULE CallStackProofs ---------------------------
(***************************************************************************)
(* Theorems on CallStack, for any memory and stack, any immediates and     *)
(* offsets, any number of instructions and any width of bytes and words.   *)
(***************************************************************************)
EXTENDS CallStack, WellFoundedInduction, TLAPS

-------------------------------------------------------------------------------
(* Induction on the natural numbers, with the set where the claim holds.     *)

LEMMA Least ==
    ASSUME NEW T, T \subseteq Nat, T # {}
    PROVE  \E x \in T : \A y \in T : x <= y
<1> DEFINE R == {ss \in Nat \X Nat : ss[1] < ss[2]}
<1>1. IsWellFoundedOn(R, Nat)
  BY NatLessThanWellFounded DEF OpToRel
<1> HIDE DEF R
<1>2. PICK x \in T : \A y \in T : ~ (<<y, x>> \in R)
  BY <1>1, WFMin
<1>3. \A y \in T : <<y, x>>[1] = y /\ <<y, x>>[2] = x /\ <<y, x>> \in Nat \X Nat
  OBVIOUS
<1>4. \A y \in T : ~ (y < x)
  BY <1>2, <1>3, Zenon DEF R
<1>5. QED
  BY <1>2, <1>4

LEMMA Induction ==
    ASSUME NEW T, 0 \in T, \A n \in Nat : n \in T => n + 1 \in T
    PROVE  \A n \in Nat : n \in T
<1> DEFINE U == {n \in Nat : n \notin T}
<1> SUFFICES ASSUME U # {} PROVE FALSE
  OBVIOUS
<1>1. PICK x \in U : \A y \in U : x <= y
  BY Least
<1>2. x # 0 /\ x - 1 \in Nat
  BY <1>1
<1>3. x - 1 \in T
  BY <1>1, <1>2
<1>4. QED
  BY <1>1, <1>2, <1>3

-------------------------------------------------------------------------------
(* The bytes of a word.                                                      *)

LEMMA Sizes ==
    /\ MemSize \in Nat /\ WordBytes \in Nat /\ WordBytes > 0
    /\ ByteValues \in Nat /\ ByteValues > 0 /\ Addresses \in Nat /\ MemSize < Addresses
BY MemoryAssumption

\* The recursive functions of Value, Shifted and Pow.
High(m, addr, n) ==
    CHOOSE f : f = [k \in 0 .. n |->
                      IF k = 0 THEN 0 ELSE m[(addr + n) - k] + ByteValues * f[k - 1]]

Rests(val, k) ==
    CHOOSE f : f = [i \in 0 .. k |-> IF i = 0 THEN val ELSE f[i - 1] \div ByteValues]

Powers(k) ==
    CHOOSE f : f = [i \in 0 .. k |-> IF i = 0 THEN 1 ELSE ByteValues * f[i - 1]]

LEMMA ValueIsHigh ==
    ASSUME NEW m, NEW addr, NEW n
    PROVE  Value(m, addr, n) = High(m, addr, n)[n]
BY DEF Value, High

LEMMA ShiftedIsRest ==
    ASSUME NEW val, NEW k
    PROVE  Shifted(val, k) = Rests(val, k)[k]
BY DEF Shifted, Rests

LEMMA PowIsPower ==
    ASSUME NEW k
    PROVE  Pow(k) = Powers(k)[k]
BY DEF Pow, Powers

LEMMA HighDefined ==
    ASSUME NEW m, NEW addr, NEW n \in Nat
    PROVE  High(m, addr, n) = [k \in 0 .. n |->
             IF k = 0 THEN 0 ELSE m[(addr + n) - k] + ByteValues * High(m, addr, n)[k - 1]]
<1> DEFINE T == {j \in Nat : \E f : f = [k \in 0 .. j |->
                   IF k = 0 THEN 0 ELSE m[(addr + n) - k] + ByteValues * f[k - 1]]}
<1>1. 0 \in T
  <2> DEFINE f == [k \in 0 .. 0 |-> 0]
  <2>1. f = [k \in 0 .. 0 |-> IF k = 0 THEN 0 ELSE m[(addr + n) - k] + ByteValues * f[k - 1]]
    OBVIOUS
  <2>2. QED
    BY <2>1
<1>2. ASSUME NEW j \in Nat, j \in T PROVE j + 1 \in T
  <2>1. PICK f : f = [k \in 0 .. j |->
                   IF k = 0 THEN 0 ELSE m[(addr + n) - k] + ByteValues * f[k - 1]]
    BY <1>2
  <2> DEFINE g == [k \in 0 .. j + 1 |-> IF k = j + 1
                     THEN m[(addr + n) - k] + ByteValues * f[j] ELSE f[k]]
  <2>2. ASSUME NEW k \in 0 .. j + 1
        PROVE  g[k] = IF k = 0 THEN 0 ELSE m[(addr + n) - k] + ByteValues * g[k - 1]
    <3>1. CASE k = j + 1
      BY <3>1
    <3>2. CASE k # j + 1
      <4>1. k \in 0 .. j /\ g[k] = f[k] /\ (k # 0 => g[k - 1] = f[k - 1])
        BY <3>2
      <4>2. QED
        BY <4>1, <2>1
    <3>3. QED
      BY <3>1, <3>2
  <2> HIDE DEF g
  <2>3. g = [k \in 0 .. j + 1 |->
               IF k = 0 THEN 0 ELSE m[(addr + n) - k] + ByteValues * g[k - 1]]
    BY <2>2 DEF g
  <2>4. QED
    BY <2>3
<1> HIDE DEF T
<1>3. n \in T
  BY <1>1, <1>2, Induction
<1>4. \E f : f = [k \in 0 .. n |->
                   IF k = 0 THEN 0 ELSE m[(addr + n) - k] + ByteValues * f[k - 1]]
  BY <1>3 DEF T
<1>5. QED
  BY <1>4 DEF High

LEMMA RestsDefined ==
    ASSUME NEW val, NEW n \in Nat
    PROVE  Rests(val, n) = [i \in 0 .. n |->
             IF i = 0 THEN val ELSE Rests(val, n)[i - 1] \div ByteValues]
<1> DEFINE T == {j \in Nat : \E f : f = [i \in 0 .. j |->
                   IF i = 0 THEN val ELSE f[i - 1] \div ByteValues]}
<1>1. 0 \in T
  <2> DEFINE f == [i \in 0 .. 0 |-> val]
  <2>1. f = [i \in 0 .. 0 |-> IF i = 0 THEN val ELSE f[i - 1] \div ByteValues]
    OBVIOUS
  <2>2. QED
    BY <2>1
<1>2. ASSUME NEW j \in Nat, j \in T PROVE j + 1 \in T
  <2>1. PICK f : f = [i \in 0 .. j |-> IF i = 0 THEN val ELSE f[i - 1] \div ByteValues]
    BY <1>2
  <2> DEFINE g == [i \in 0 .. j + 1 |-> IF i = j + 1 THEN f[j] \div ByteValues ELSE f[i]]
  <2>2. ASSUME NEW i \in 0 .. j + 1
        PROVE  g[i] = IF i = 0 THEN val ELSE g[i - 1] \div ByteValues
    <3>1. CASE i = j + 1
      BY <3>1
    <3>2. CASE i # j + 1
      <4>1. i \in 0 .. j /\ g[i] = f[i] /\ (i # 0 => g[i - 1] = f[i - 1])
        BY <3>2
      <4>2. QED
        BY <4>1, <2>1
    <3>3. QED
      BY <3>1, <3>2
  <2> HIDE DEF g
  <2>3. g = [i \in 0 .. j + 1 |-> IF i = 0 THEN val ELSE g[i - 1] \div ByteValues]
    BY <2>2 DEF g
  <2>4. QED
    BY <2>3
<1> HIDE DEF T
<1>3. n \in T
  BY <1>1, <1>2, Induction
<1>4. \E f : f = [i \in 0 .. n |-> IF i = 0 THEN val ELSE f[i - 1] \div ByteValues]
  BY <1>3 DEF T
<1>5. QED
  BY <1>4 DEF Rests

LEMMA PowersDefined ==
    ASSUME NEW n \in Nat
    PROVE  Powers(n) = [i \in 0 .. n |->
             IF i = 0 THEN 1 ELSE ByteValues * Powers(n)[i - 1]]
<1> DEFINE T == {j \in Nat : \E f : f = [i \in 0 .. j |->
                   IF i = 0 THEN 1 ELSE ByteValues * f[i - 1]]}
<1>1. 0 \in T
  <2> DEFINE f == [i \in 0 .. 0 |-> 1]
  <2>1. f = [i \in 0 .. 0 |-> IF i = 0 THEN 1 ELSE ByteValues * f[i - 1]]
    OBVIOUS
  <2>2. QED
    BY <2>1
<1>2. ASSUME NEW j \in Nat, j \in T PROVE j + 1 \in T
  <2>1. PICK f : f = [i \in 0 .. j |-> IF i = 0 THEN 1 ELSE ByteValues * f[i - 1]]
    BY <1>2
  <2> DEFINE g == [i \in 0 .. j + 1 |-> IF i = j + 1 THEN ByteValues * f[j] ELSE f[i]]
  <2>2. ASSUME NEW i \in 0 .. j + 1
        PROVE  g[i] = IF i = 0 THEN 1 ELSE ByteValues * g[i - 1]
    <3>1. CASE i = j + 1
      BY <3>1
    <3>2. CASE i # j + 1
      <4>1. i \in 0 .. j /\ g[i] = f[i] /\ (i # 0 => g[i - 1] = f[i - 1])
        BY <3>2
      <4>2. QED
        BY <4>1, <2>1
    <3>3. QED
      BY <3>1, <3>2
  <2> HIDE DEF g
  <2>3. g = [i \in 0 .. j + 1 |-> IF i = 0 THEN 1 ELSE ByteValues * g[i - 1]]
    BY <2>2 DEF g
  <2>4. QED
    BY <2>3
<1> HIDE DEF T
<1>3. n \in T
  BY <1>1, <1>2, Induction
<1>4. \E f : f = [i \in 0 .. n |-> IF i = 0 THEN 1 ELSE ByteValues * f[i - 1]]
  BY <1>3 DEF T
<1>5. QED
  BY <1>4 DEF Powers

\* Shifting by one more byte.
LEMMA ShiftedStep ==
    ASSUME NEW val, NEW k \in Nat
    PROVE  Shifted(val, 0) = val /\ Shifted(val, k + 1) = Shifted(val, k) \div ByteValues
<1> DEFINE f == Rests(val, k)
           g == Rests(val, k + 1)
           z == Rests(val, 0)
<1>1. /\ f = [i \in 0 .. k |-> IF i = 0 THEN val ELSE f[i - 1] \div ByteValues]
      /\ g = [i \in 0 .. k + 1 |-> IF i = 0 THEN val ELSE g[i - 1] \div ByteValues]
      /\ z = [i \in 0 .. 0 |-> IF i = 0 THEN val ELSE z[i - 1] \div ByteValues]
  <2>1. k + 1 \in Nat /\ 0 \in Nat
    OBVIOUS
  <2>2. QED
    BY <2>1, RestsDefined, Zenon
<1>2. Shifted(val, 0) = z[0] /\ Shifted(val, k) = f[k] /\ Shifted(val, k + 1) = g[k + 1]
  BY ShiftedIsRest
<1> HIDE DEF f, g, z
<1> DEFINE T == {j \in Nat : j <= k => f[j] = g[j]}
<1>3. 0 \in T
  BY <1>1
<1>4. ASSUME NEW j \in Nat, j \in T PROVE j + 1 \in T
  <2>1. CASE j + 1 <= k
    <3>1. /\ f[j] = g[j] /\ j + 1 \in 0 .. k /\ j + 1 \in 0 .. k + 1 /\ j + 1 # 0
          /\ (j + 1) - 1 = j
      BY <1>4, <2>1
    <3>2. f[j + 1] = f[j] \div ByteValues /\ g[j + 1] = g[j] \div ByteValues
      BY <1>1, <3>1
    <3>3. QED
      BY <3>1, <3>2
  <2>2. QED
    BY <2>1
<1> HIDE DEF T
<1>5. k \in T
  BY <1>3, <1>4, Induction
<1>6. f[k] = g[k]
  BY <1>5 DEF T
<1>7. g[k + 1] = g[k] \div ByteValues /\ z[0] = val
  <2>1. k + 1 \in 0 .. k + 1 /\ k + 1 # 0 /\ (k + 1) - 1 = k
    OBVIOUS
  <2>2. QED
    BY <1>1, <2>1
<1>8. QED
  BY <1>2, <1>6, <1>7

\* One more byte.
LEMMA PowStep ==
    ASSUME NEW k \in Nat
    PROVE  Pow(0) = 1 /\ Pow(k + 1) = ByteValues * Pow(k)
<1> DEFINE f == Powers(k)
           g == Powers(k + 1)
           z == Powers(0)
<1>1. /\ f = [i \in 0 .. k |-> IF i = 0 THEN 1 ELSE ByteValues * f[i - 1]]
      /\ g = [i \in 0 .. k + 1 |-> IF i = 0 THEN 1 ELSE ByteValues * g[i - 1]]
      /\ z = [i \in 0 .. 0 |-> IF i = 0 THEN 1 ELSE ByteValues * z[i - 1]]
  <2>1. k + 1 \in Nat /\ 0 \in Nat
    OBVIOUS
  <2>2. QED
    BY <2>1, PowersDefined, Zenon
<1>2. Pow(0) = z[0] /\ Pow(k) = f[k] /\ Pow(k + 1) = g[k + 1]
  BY PowIsPower
<1> HIDE DEF f, g, z
<1> DEFINE T == {j \in Nat : j <= k => f[j] = g[j]}
<1>3. 0 \in T
  BY <1>1
<1>4. ASSUME NEW j \in Nat, j \in T PROVE j + 1 \in T
  <2>1. CASE j + 1 <= k
    <3>1. /\ f[j] = g[j] /\ j + 1 \in 0 .. k /\ j + 1 \in 0 .. k + 1 /\ j + 1 # 0
          /\ (j + 1) - 1 = j
      BY <1>4, <2>1
    <3>2. f[j + 1] = ByteValues * f[j] /\ g[j + 1] = ByteValues * g[j]
      BY <1>1, <3>1
    <3>3. QED
      BY <3>1, <3>2
  <2>2. QED
    BY <2>1
<1> HIDE DEF T
<1>5. k \in T
  BY <1>3, <1>4, Induction
<1>6. f[k] = g[k]
  BY <1>5 DEF T
<1>7. g[k + 1] = ByteValues * g[k] /\ z[0] = 1
  <2>1. k + 1 \in 0 .. k + 1 /\ k + 1 # 0 /\ (k + 1) - 1 = k
    OBVIOUS
  <2>2. QED
    BY <1>1, <2>1
<1>8. QED
  BY <1>2, <1>6, <1>7

-------------------------------------------------------------------------------
(* Addresses that wrap.                                                      *)

\* A multiple of the modulus does not change a remainder.
LEMMA ModMultiple ==
    ASSUME NEW w \in Nat, w > 0, NEW x \in Int, NEW q \in Int
    PROVE  (x + w * q) % w = x % w
<1> DEFINE y == x + w * q
           r == x % w
           s == y % w
           d == ((y \div w) - (x \div w)) - q
<1>1. x = w * (x \div w) + r /\ r \in 0 .. w - 1 /\ x \div w \in Int
  OBVIOUS
<1>2. y = w * (y \div w) + s /\ s \in 0 .. w - 1 /\ y \div w \in Int
  OBVIOUS
<1>3. d \in Int /\ r - s = w * d /\ r - s \in -(w - 1) .. w - 1
  BY <1>1, <1>2
<1> HIDE DEF d, r, s, y
<1>4. d = 0
  <2>1. CASE d >= 1
    BY <1>3, <2>1
  <2>2. CASE d <= -1
    BY <1>3, <2>2
  <2>3. QED
    BY <1>3, <2>1, <2>2
<1>5. r = s
  BY <1>1, <1>2, <1>3, <1>4
<1>6. QED
  BY <1>5 DEF r, s, y

LEMMA ModSum ==
    ASSUME NEW w \in Nat, w > 0, NEW x \in Int, NEW y \in Int
    PROVE  ((x % w) + y) % w = (x + y) % w
<1> DEFINE r == x % w
           d == x \div w
<1>1. x = w * d + r /\ r \in Int /\ d \in Int
  OBVIOUS
<1> HIDE DEF r, d
<1>2. x + y = (r + y) + w * d /\ r + y \in Int
  BY <1>1
<1>3. ((r + y) + w * d) % w = (r + y) % w
  BY <1>1, <1>2, ModMultiple
<1>4. QED
  BY <1>2, <1>3 DEF r
-------------------------------------------------------------------------------
(* Reading what was written.                                                 *)

LEMMA DivBound ==
    ASSUME NEW w \in Nat, w > 0, NEW p \in Nat, NEW x \in Nat, x < w * p
    PROVE  x \div w \in Nat /\ x \div w < p
<1> DEFINE q == x \div w
           r == x % w
           e == q - p
<1>1. x = w * q + r /\ r \in Nat /\ q \in Nat
  OBVIOUS
<1>2. e \in Int /\ w * q = w * p + w * e
  BY <1>1
<1> HIDE DEF q, r, e
<1>3. ~ (e >= 0)
  <2>1. ASSUME e >= 0 PROVE w * e >= 0
    BY <1>2, <2>1
  <2> DEFINE we == w * e
             wp == w * p
             wq == w * q
  <2>2. we \in Int /\ wp \in Int /\ wq \in Int /\ wq = wp + we /\ x = wq + r /\ x < wp
    BY <1>1, <1>2
  <2>3. e >= 0 => we >= 0
    BY <2>1
  <2> HIDE DEF we, wp, wq
  <2>4. QED
    BY <1>1, <2>2, <2>3
<1>4. QED
  BY <1>1, <1>2, <1>3 DEF e, q

LEMMA PowPositive ==
    ASSUME NEW k \in Nat
    PROVE  Pow(k) \in Nat /\ Pow(k) > 0
<1> USE Sizes
<1> DEFINE T == {j \in Nat : Pow(j) \in Nat /\ Pow(j) > 0}
<1>1. 0 \in T
  BY PowStep
<1>2. ASSUME NEW j \in Nat, j \in T PROVE j + 1 \in T
  <2>1. Pow(j + 1) = ByteValues * Pow(j)
    BY PowStep
  <2>2. QED
    BY <1>2, <2>1
<1> HIDE DEF T
<1>3. k \in T
  BY <1>1, <1>2, Induction
<1>4. QED
  BY <1>3 DEF T

LEMMA PowSum ==
    ASSUME NEW a \in Nat, NEW b \in Nat
    PROVE  Pow(a + b) = Pow(a) * Pow(b)
<1> USE Sizes
<1> DEFINE T == {j \in Nat : Pow(a + j) = Pow(a) * Pow(j)}
<1>1. 0 \in T
  BY PowStep, PowPositive
<1>2. ASSUME NEW j \in Nat, j \in T PROVE j + 1 \in T
  <2> DEFINE p == Pow(a)
             q == Pow(j)
  <2>1. Pow(j + 1) = ByteValues * q
    BY PowStep
  <2>2. Pow((a + j) + 1) = ByteValues * Pow(a + j) /\ (a + j) + 1 = a + (j + 1)
    <3>1. a + j \in Nat
      OBVIOUS
    <3>2. QED
      BY <3>1, PowStep
  <2>3. Pow(a + j) = p * q /\ p \in Nat /\ q \in Nat
    BY <1>2, PowPositive
  <2> HIDE DEF p, q
  <2>4. ByteValues * (p * q) = p * (ByteValues * q)
    BY <2>3
  <2>5. QED
    BY <2>1, <2>2, <2>3, <2>4 DEF p
<1> HIDE DEF T
<1>3. b \in T
  BY <1>1, <1>2, Induction
<1>4. QED
  BY <1>3 DEF T

\* A value without its k lowest bytes.
LEMMA ShiftedBound ==
    ASSUME NEW n \in Nat, NEW val \in 0 .. Pow(n) - 1, NEW k \in 0 .. n
    PROVE  Shifted(val, k) \in 0 .. Pow(n - k) - 1
<1> USE Sizes
<1> DEFINE T == {j \in Nat : j <= n => Shifted(val, j) \in Nat /\ Shifted(val, j) < Pow(n - j)}
<1>1. 0 \in T
  <2>1. Shifted(val, 0) = val /\ n - 0 = n
    BY ShiftedStep
  <2>2. val \in Nat /\ val < Pow(n)
    BY PowPositive
  <2>3. QED
    BY <2>1, <2>2
<1>2. ASSUME NEW j \in Nat, j \in T PROVE j + 1 \in T
  <2>1. CASE j + 1 <= n
    <3> DEFINE x == Shifted(val, j)
               p == Pow(n - (j + 1))
    <3>1. Shifted(val, j + 1) = x \div ByteValues
      BY ShiftedStep
    <3>2. n - (j + 1) \in Nat /\ (n - (j + 1)) + 1 = n - j /\ j <= n
      BY <2>1
    <3>3. Pow(n - j) = ByteValues * p /\ p \in Nat
      BY <3>2, PowStep, PowPositive
    <3>4. x \in Nat /\ x < ByteValues * p
      BY <1>2, <3>2, <3>3
    <3> HIDE DEF x, p
    <3>5. x \div ByteValues \in Nat /\ x \div ByteValues < p
      BY <3>3, <3>4, DivBound
    <3>6. QED
      BY <3>1, <3>5 DEF p
  <2>2. QED
    BY <2>1
<1> HIDE DEF T
<1>3. k \in T
  BY <1>1, <1>2, Induction
<1>4. Shifted(val, k) \in Nat /\ Shifted(val, k) < Pow(n - k)
  BY <1>3 DEF T
<1>5. n - k \in Nat
  OBVIOUS
<1>6. QED
  BY <1>4, <1>5, PowPositive

LEMMA HighStep ==
    ASSUME NEW m, NEW addr \in Nat, NEW n \in Nat
    PROVE  /\ High(m, addr, n)[0] = 0
           /\ \A k \in 0 .. n - 1 :
                High(m, addr, n)[k + 1] =
                  m[(addr + n) - (k + 1)] + ByteValues * High(m, addr, n)[k]
<1> DEFINE f == High(m, addr, n)
<1>1. f = [k \in 0 .. n |-> IF k = 0 THEN 0 ELSE m[(addr + n) - k] + ByteValues * f[k - 1]]
  BY HighDefined
<1> HIDE DEF f
<1>2. f[0] = 0
  BY <1>1
<1>3. ASSUME NEW k \in 0 .. n - 1
      PROVE  f[k + 1] = m[(addr + n) - (k + 1)] + ByteValues * f[k]
  <2>1. k + 1 \in 0 .. n /\ k + 1 # 0 /\ (k + 1) - 1 = k
    OBVIOUS
  <2>2. QED
    BY <1>1, <2>1
<1>4. QED
  BY <1>2, <1>3 DEF f

\* Two memories with the same bytes hold the same word.
LEMMA ValueSame ==
    ASSUME NEW m, NEW l, NEW addr \in Nat, NEW n \in Nat,
           \A x \in addr .. addr + n - 1 : m[x] = l[x]
    PROVE  Value(m, addr, n) = Value(l, addr, n)
<1> DEFINE f == High(m, addr, n)
           g == High(l, addr, n)
<1>1. f[0] = 0 /\ g[0] = 0
  BY HighStep
<1>2. ASSUME NEW k \in 0 .. n - 1
      PROVE  /\ f[k + 1] = m[(addr + n) - (k + 1)] + ByteValues * f[k]
             /\ g[k + 1] = l[(addr + n) - (k + 1)] + ByteValues * g[k]
             /\ m[(addr + n) - (k + 1)] = l[(addr + n) - (k + 1)]
  <2>1. (addr + n) - (k + 1) \in addr .. addr + n - 1
    OBVIOUS
  <2>2. QED
    BY <2>1, HighStep
<1>3. Value(m, addr, n) = f[n] /\ Value(l, addr, n) = g[n]
  BY ValueIsHigh
<1> HIDE DEF f, g
<1> DEFINE T == {k \in Nat : k <= n => f[k] = g[k]}
<1>4. 0 \in T
  BY <1>1
<1>5. ASSUME NEW k \in Nat, k \in T PROVE k + 1 \in T
  <2>1. CASE k + 1 <= n
    <3>1. k \in 0 .. n - 1 /\ f[k] = g[k]
      BY <1>5, <2>1
    <3>2. QED
      BY <1>2, <3>1
  <2>2. QED
    BY <2>1
<1> HIDE DEF T
<1>6. n \in T
  BY <1>4, <1>5, Induction
<1>7. QED
  BY <1>3, <1>6 DEF T

\* A word is as wide as its bytes.
LEMMA ValueBound ==
    ASSUME NEW m, NEW addr \in Nat, NEW n \in Nat,
           \A x \in addr .. addr + n - 1 : m[x] \in 0 .. ByteValues - 1
    PROVE  Value(m, addr, n) \in 0 .. Pow(n) - 1
<1> USE Sizes
<1> DEFINE f == High(m, addr, n)
<1>1. f[0] = 0
  BY HighStep
<1>2. ASSUME NEW k \in 0 .. n - 1
      PROVE  /\ f[k + 1] = m[(addr + n) - (k + 1)] + ByteValues * f[k]
             /\ m[(addr + n) - (k + 1)] \in 0 .. ByteValues - 1
  <2>1. (addr + n) - (k + 1) \in addr .. addr + n - 1
    OBVIOUS
  <2>2. QED
    BY <2>1, HighStep
<1>3. Value(m, addr, n) = f[n]
  BY ValueIsHigh
<1> HIDE DEF f
<1> DEFINE T == {k \in Nat : k <= n => f[k] \in Nat /\ f[k] < Pow(k)}
<1>4. 0 \in T
  BY <1>1, PowStep
<1>5. ASSUME NEW k \in Nat, k \in T PROVE k + 1 \in T
  <2>1. CASE k + 1 <= n
    <3> DEFINE p == Pow(k)
               a == m[(addr + n) - (k + 1)]
               e == (p - f[k]) - 1
    <3>1. k \in 0 .. n - 1 /\ f[k] \in Nat /\ f[k] < p
      BY <1>5, <2>1
    <3>2. f[k + 1] = a + ByteValues * f[k] /\ a \in 0 .. ByteValues - 1
      BY <1>2, <3>1
    <3>3. Pow(k + 1) = ByteValues * p /\ p \in Nat
      BY PowStep, PowPositive
    <3> HIDE DEF p, a
    <3>4. e \in Nat /\ p = (f[k] + 1) + e
      BY <3>1, <3>3
    <3> HIDE DEF e
    <3>5. ByteValues * p = (ByteValues * f[k] + ByteValues) + ByteValues * e
      BY <3>1, <3>4
    <3>6. ByteValues * e \in Nat /\ ByteValues * f[k] \in Nat
      BY <3>1, <3>4
    <3>7. f[k + 1] \in Nat /\ f[k + 1] < ByteValues * p
      BY <3>2, <3>5, <3>6
    <3>8. QED
      BY <3>3, <3>7
  <2>2. QED
    BY <2>1
<1> HIDE DEF T
<1>6. n \in T
  BY <1>4, <1>5, Induction
<1>7. QED
  BY <1>3, <1>6, PowPositive DEF T

\* Writing a value and reading it back.
LEMMA ReadBack ==
    ASSUME NEW m, NEW addr \in Nat, NEW n \in Nat, NEW val \in 0 .. Pow(n) - 1,
           \A x \in addr .. addr + n - 1 : m[x] = Shifted(val, x - addr) % ByteValues
    PROVE  Value(m, addr, n) = val
<1> USE Sizes
<1> DEFINE f == High(m, addr, n)
           s(k) == Shifted(val, k)
<1>1. f[0] = 0
  BY HighStep
<1>2. ASSUME NEW k \in 0 .. n - 1
      PROVE  f[k + 1] = (s(n - (k + 1)) % ByteValues) + ByteValues * f[k]
  <2>1. (addr + n) - (k + 1) \in addr .. addr + n - 1
        /\ ((addr + n) - (k + 1)) - addr = n - (k + 1)
    OBVIOUS
  <2>2. f[k + 1] = m[(addr + n) - (k + 1)] + ByteValues * f[k]
    BY HighStep
  <2>3. QED
    BY <2>1, <2>2
<1>3. Value(m, addr, n) = f[n]
  BY ValueIsHigh
<1>4. ASSUME NEW k \in 0 .. n - 1
      PROVE  s(k) \in Nat /\ s(k + 1) = s(k) \div ByteValues
  <2>1. s(k + 1) = s(k) \div ByteValues
    BY ShiftedStep
  <2>2. s(k) \in 0 .. Pow(n - k) - 1 /\ n - k \in Nat
    BY ShiftedBound
  <2>3. QED
    BY <2>1, <2>2
<1>5. s(n) = 0 /\ s(0) = val
  <2>1. s(n) \in 0 .. Pow(n - n) - 1 /\ n - n = 0
    BY ShiftedBound
  <2>2. Pow(0) = 1
    BY PowStep
  <2>3. QED
    BY <2>1, <2>2, ShiftedStep
<1> HIDE DEF f, s
<1> DEFINE T == {k \in Nat : k <= n => f[k] = s(n - k)}
<1>6. 0 \in T
  BY <1>1, <1>5
<1>7. ASSUME NEW k \in Nat, k \in T PROVE k + 1 \in T
  <2>1. CASE k + 1 <= n
    <3> DEFINE j == n - (k + 1)
               x == s(j)
    <3>1. k \in 0 .. n - 1 /\ f[k] = s(n - k) /\ j \in 0 .. n - 1 /\ j + 1 = n - k
      BY <1>7, <2>1
    <3>2. f[k + 1] = (x % ByteValues) + ByteValues * f[k]
      BY <1>2, <3>1
    <3>3. x \in Nat /\ f[k] = x \div ByteValues
      BY <1>4, <3>1
    <3> HIDE DEF x
    <3>4. (x % ByteValues) + ByteValues * (x \div ByteValues) = x
      BY <3>3
    <3>5. QED
      BY <3>2, <3>3, <3>4 DEF x
  <2>2. QED
    BY <2>1
<1> HIDE DEF T
<1>8. n \in T
  BY <1>6, <1>7, Induction
<1>9. QED
  BY <1>3, <1>5, <1>8 DEF T
-------------------------------------------------------------------------------
(* The accessors.                                                            *)

LEMMA Half ==
    /\ HalfBytes \in Nat /\ HalfBytes > 0 /\ WordBytes = HalfBytes + HalfBytes
    /\ Pow(HalfBytes) \in Nat /\ Pow(HalfBytes) > 0
    /\ Addresses = Pow(HalfBytes) * Pow(HalfBytes)
    /\ ByteValues <= Pow(HalfBytes)
<1>1. HalfBytes \in Nat /\ HalfBytes > 0 /\ WordBytes = HalfBytes + HalfBytes
  BY Sizes, CallAssumption DEF HalfBytes
<1> HIDE DEF HalfBytes
<1>2. Pow(HalfBytes) \in Nat /\ Pow(HalfBytes) > 0
  BY <1>1, PowPositive
<1>3. Addresses = Pow(HalfBytes) * Pow(HalfBytes)
  <2>1. Pow(HalfBytes + HalfBytes) = Pow(HalfBytes) * Pow(HalfBytes)
    BY <1>1, PowSum
  <2>2. QED
    BY <1>1, <2>1, CallAssumption
<1>4. ByteValues <= Pow(HalfBytes)
  <2> DEFINE k == HalfBytes - 1
             p == Pow(k)
  <2>1. k \in Nat /\ k + 1 = HalfBytes
    BY <1>1
  <2> HIDE DEF k
  <2>2. p \in Nat /\ p > 0 /\ Pow(HalfBytes) = ByteValues * p
    BY <2>1, PowStep, PowPositive
  <2> HIDE DEF p
  <2>3. ByteValues * p >= ByteValues
    BY <2>2, Sizes
  <2>4. QED
    BY <2>2, <2>3
<1>5. QED
  BY <1>1, <1>2, <1>3, <1>4

LEMMA ReadWord ==
    ASSUME NEW m \in Memory, NEW addr \in Nat
    PROVE  mem_read32(m, addr) \in Words
<1> USE Sizes
<1>1. CASE addr + WordBytes <= MemSize
  <2>1. \A x \in addr .. addr + WordBytes - 1 : m[x] \in 0 .. ByteValues - 1
    BY <1>1 DEF Memory
  <2>2. Value(m, addr, WordBytes) \in 0 .. Pow(WordBytes) - 1
    BY <2>1, ValueBound
  <2>3. QED
    BY <1>1, <2>2, CallAssumption DEF mem_read32, check_bounds, Words
<1>2. CASE ~ (addr + WordBytes <= MemSize)
  BY <1>2 DEF mem_read32, check_bounds, Words
<1>3. QED
  BY <1>1, <1>2

LEMMA ReadHalf ==
    ASSUME NEW m \in Memory, NEW addr \in Nat
    PROVE  mem_read16(m, addr) \in 0 .. Pow(HalfBytes) - 1
<1> USE Sizes, Half
<1>1. CASE addr + HalfBytes <= MemSize
  <2>1. \A x \in addr .. addr + HalfBytes - 1 : m[x] \in 0 .. ByteValues - 1
    BY <1>1 DEF Memory
  <2>2. Value(m, addr, HalfBytes) \in 0 .. Pow(HalfBytes) - 1
    BY <2>1, ValueBound
  <2>3. QED
    BY <1>1, <2>2 DEF mem_read16, check_bounds
<1>2. CASE ~ (addr + HalfBytes <= MemSize)
  BY <1>2 DEF mem_read16, check_bounds
<1>3. QED
  BY <1>1, <1>2

\* A word that is written is read back, and the words above it are kept.
LEMMA WriteWord ==
    ASSUME NEW m \in Memory, NEW addr \in Nat, NEW val \in Words
    PROVE  LET new == mem_write32(m, addr, val) IN
           /\ new \in Memory
           /\ addr + WordBytes <= MemSize => mem_read32(new, addr) = val
           /\ \A b \in Nat : b >= addr + WordBytes => mem_read32(new, b) = mem_read32(m, b)
           /\ ~ (addr + WordBytes <= MemSize) => new = m
<1> USE Sizes
<1> DEFINE new == mem_write32(m, addr, val)
           s(x) == Shifted(val, x - addr) % ByteValues
<1>1. CASE addr + WordBytes <= MemSize
  <2>1. new = [x \in 0 .. MemSize - 1 |->
                 IF x \in addr .. addr + WordBytes - 1 THEN s(x) ELSE m[x]]
    BY <1>1 DEF mem_write32, check_bounds, Stored
  <2>2. val \in 0 .. Pow(WordBytes) - 1
    BY CallAssumption DEF Words
  <2>3. ASSUME NEW x \in addr .. addr + WordBytes - 1 PROVE s(x) \in 0 .. ByteValues - 1
    <3>1. x - addr \in 0 .. WordBytes
      OBVIOUS
    <3>2. Shifted(val, x - addr) \in 0 .. Pow(WordBytes - (x - addr)) - 1
      BY <2>2, <3>1, ShiftedBound
    <3>3. WordBytes - (x - addr) \in Nat
      BY <3>1
    <3>4. Pow(WordBytes - (x - addr)) \in Nat
      BY <3>3, PowPositive
    <3>5. Shifted(val, x - addr) \in Nat
      BY <3>2, <3>4
    <3>6. QED
      BY <3>5
  <2>4. \A x \in addr .. addr + WordBytes - 1 : new[x] = Shifted(val, x - addr) % ByteValues
    <3>1. addr .. addr + WordBytes - 1 \subseteq 0 .. MemSize - 1
      BY <1>1
    <3> HIDE DEF new
    <3>2. QED
      BY <2>1, <3>1
  <2> HIDE DEF s, new
  <2>5. new \in Memory
    BY <2>1, <2>3 DEF Memory
  <2>6. mem_read32(new, addr) = val
    <3>1. Value(new, addr, WordBytes) = val
      BY <2>2, <2>4, ReadBack
    <3>2. QED
      BY <1>1, <3>1 DEF mem_read32, check_bounds
  <2>7. ASSUME NEW b \in Nat, b >= addr + WordBytes
        PROVE  mem_read32(new, b) = mem_read32(m, b)
    <3>1. CASE b + WordBytes <= MemSize
      <4>1. \A x \in b .. b + WordBytes - 1 : new[x] = m[x]
        BY <2>1, <2>7, <3>1
      <4>2. Value(new, b, WordBytes) = Value(m, b, WordBytes)
        BY <4>1, ValueSame
      <4>3. QED
        BY <4>2 DEF mem_read32
    <3>2. CASE ~ (b + WordBytes <= MemSize)
      BY <3>2 DEF mem_read32, check_bounds
    <3>3. QED
      BY <3>1, <3>2
  <2>8. QED
    BY <1>1, <2>5, <2>6, <2>7 DEF new
<1>2. CASE ~ (addr + WordBytes <= MemSize)
  BY <1>2 DEF mem_write32, check_bounds
<1>3. QED
  BY <1>1, <1>2

-------------------------------------------------------------------------------
(* The inductive invariant.                                                  *)

\* Every word of the shadow lies a word below what ESP was, PUSH ESP stored
\* the address it wrote to, and there is one word at an address.
Entries ==
    /\ \A e \in shadow : /\ e.esp \in Words /\ e.at = Wrap(e.esp - WordBytes)
                         /\ e.kind = "esp" => e.val = e.at
    /\ \A e, f \in shadow : e.at = f.at => e = f

\* After LEAVE of a call's frame EBP is the caller's, as the word at ESP has it.
Frame == left => \A e \in shadow : e.at = esp => e.ebp = ebp

IInv == TypeOK /\ Entries /\ StackKept /\ Frame /\ FramesRestored /\ EspRoundTrip

LEMMA WrapWord ==
    ASSUME NEW x \in Int
    PROVE  Wrap(x) \in Words
BY Sizes DEF Wrap, Words

LEMMA WrapSum ==
    ASSUME NEW x \in Int, NEW y \in Int
    PROVE  Wrap(Wrap(x) + y) = Wrap(x + y)
<1>1. Addresses \in Nat /\ Addresses > 0
  BY Sizes
<1>2. ((x % Addresses) + y) % Addresses = (x + y) % Addresses
  BY <1>1, ModSum
<1>3. QED
  BY <1>2 DEF Wrap

LEMMA WrapSmall ==
    ASSUME NEW x \in Words
    PROVE  Wrap(x) = x
BY Sizes DEF Wrap, Words

\* ESP below zero wraps to the end of the address space, above memory.
LEMMA WrapDown ==
    ASSUME NEW p \in Words
    PROVE  \/ p >= WordBytes /\ Wrap(p - WordBytes) = p - WordBytes
           \/ p < WordBytes /\ Wrap(p - WordBytes) >= (p - WordBytes) + Addresses
<1> USE Sizes
<1> DEFINE x == p - WordBytes
<1>1. p \in 0 .. Addresses - 1 /\ x \in Int
  BY DEF Words
<1>2. CASE p >= WordBytes
  BY <1>1, <1>2 DEF Wrap
<1>3. CASE p < WordBytes
  <2> DEFINE q == x \div Addresses
             r == x % Addresses
  <2>1. x < 0
    BY <1>1, <1>3
  <2> HIDE DEF x
  <2>2. x = Addresses * q + r /\ r \in 0 .. Addresses - 1 /\ q \in Int
    BY <1>1
  <2> HIDE DEF q, r
  <2>3. q <= -1
    BY <2>1, <2>2
  <2>4. Addresses * q <= -Addresses
    BY <2>2, <2>3
  <2>5. r >= x + Addresses
    <3> DEFINE aq == Addresses * q
    <3>1. aq \in Int /\ x = aq + r /\ aq <= -Addresses
      BY <2>2, <2>4
    <3> HIDE DEF aq
    <3>2. QED
      BY <1>1, <2>2, <3>1
  <2>6. QED
    BY <1>3, <2>5 DEF r, x, Wrap
<1>4. QED
  BY <1>1, <1>2, <1>3

LEMMA InitInv == Init => IInv
<1> SUFFICES ASSUME Init PROVE IInv
  OBVIOUS
<1> USE Sizes, CallAssumption
<1>1. regs \in [Registers -> Words] /\ eip \in Words
  BY DEF Init, Words
<1>2. mem \in Memory
  BY DEF Init, Memory
<1>3. shadow = {} /\ left = FALSE /\ halted = FALSE /\ ops \in 0 .. MaxOps /\ back.kind = "none"
  BY DEF Init, None
<1>4. TypeOK /\ Entries /\ StackKept /\ Frame
  BY <1>1, <1>2, <1>3 DEF TypeOK, Entries, StackKept, Frame
<1>5. FramesRestored /\ EspRoundTrip
  BY <1>3 DEF FramesRestored, EspRoundTrip
<1>6. QED
  BY <1>4, <1>5 DEF IInv
-------------------------------------------------------------------------------
(* What the invariant needs of each kind of instruction.                     *)

\* A push writes below every word of the shadow, or nowhere.
LEMMA PushKeeps ==
    ASSUME IInv, NEW kind, NEW val \in Words, Push(kind, val),
           kind = "esp" => val = Wrap(esp - WordBytes),
           eip' \in Words, ops' \in 0 .. MaxOps
    PROVE  IInv'
<1> USE Sizes
<1> DEFINE at == Wrap(esp - WordBytes)
           n == [kind |-> kind, at |-> at, val |-> val, ebp |-> ebp, esp |-> esp]
<1>1. /\ regs \in [Registers -> Words] /\ esp \in Words /\ mem \in Memory /\ halted \in BOOLEAN
      /\ \A e \in shadow : e.at \in esp .. MemSize - WordBytes
  BY DEF IInv, TypeOK, esp, Registers
<1>2. esp \in 0 .. Addresses - 1
  BY <1>1 DEF Words
<1>3. at \in Words /\ at \in Nat
  BY <1>2, WrapWord DEF Words
<1>4. \/ esp >= WordBytes /\ at = esp - WordBytes
      \/ esp < WordBytes /\ at >= (esp - WordBytes) + Addresses
  BY <1>1, WrapDown
<1>5. /\ regs' = [regs EXCEPT !["esp"] = at] /\ mem' = mem_write32(mem, at, val)
      /\ shadow' = IF at + WordBytes <= MemSize THEN Kept(at) \cup {n} ELSE Kept(at)
      /\ left' = FALSE /\ back' = None /\ halted' = halted
  BY DEF Push, Remember, check_bounds
<1>6. n.at = at /\ n.val = val /\ n.esp = esp /\ n.kind = kind
  OBVIOUS
<1> HIDE DEF at, n
<1>7. regs' \in [Registers -> Words] /\ esp' = at
  BY <1>1, <1>3, <1>5 DEF esp, Registers
<1>8. ASSUME NEW e \in Kept(at)
      PROVE  e \in shadow /\ e.at \in Nat /\ e.at >= at + WordBytes /\ e.at <= MemSize - WordBytes
  <2>1. e \in shadow /\ e.at >= at
    BY DEF Kept
  <2>2. e.at \in esp .. MemSize - WordBytes
    BY <1>1, <2>1
  <2>3. QED
    BY <1>2, <1>3, <1>4, <2>1, <2>2
<1>9. /\ mem' \in Memory
      /\ at + WordBytes <= MemSize => mem_read32(mem', at) = val
      /\ \A b \in Nat : b >= at + WordBytes => mem_read32(mem', b) = mem_read32(mem, b)
  BY <1>1, <1>3, <1>5, WriteWord
<1>10. ASSUME NEW e \in shadow' PROVE e \in Kept(at) \/ (e = n /\ at + WordBytes <= MemSize)
  BY <1>5
<1>11. TypeOK'
  <2>1. ASSUME NEW e \in shadow' PROVE e.at \in at .. MemSize - WordBytes
    BY <1>3, <1>6, <1>8, <1>10
  <2>2. QED
    BY <1>1, <1>5, <1>7, <1>9, <2>1 DEF TypeOK
<1>12. StackKept'
  <2> SUFFICES ASSUME NEW e \in shadow' PROVE mem_read32(mem', e.at) = e.val
    BY DEF StackKept
  <2>1. CASE e = n /\ at + WordBytes <= MemSize
    BY <1>6, <1>9, <2>1
  <2>2. CASE e \in Kept(at)
    <3>1. e \in shadow /\ e.at \in Nat /\ e.at >= at + WordBytes
      BY <1>8, <2>2
    <3>2. mem_read32(mem, e.at) = e.val
      BY <3>1 DEF IInv, StackKept
    <3>3. QED
      BY <1>9, <3>1, <3>2
  <2>3. QED
    BY <1>10, <2>1, <2>2
<1>13. Entries'
  <2>1. ASSUME NEW e \in shadow'
        PROVE  /\ e.esp \in Words /\ e.at = Wrap(e.esp - WordBytes)
               /\ e.kind = "esp" => e.val = e.at
    <3>1. CASE e = n
      BY <1>1, <1>6, <3>1 DEF at
    <3>2. CASE e \in Kept(at)
      <4>1. e \in shadow
        BY <1>8, <3>2
      <4>2. QED
        BY <4>1 DEF IInv, Entries
    <3>3. QED
      BY <1>10, <3>1, <3>2
  <2>2. ASSUME NEW e \in shadow', NEW f \in shadow', e.at = f.at PROVE e = f
    <3>1. CASE e \in Kept(at) /\ f \in Kept(at)
      <4>1. e \in shadow /\ f \in shadow
        BY <1>8, <3>1
      <4>2. QED
        BY <2>2, <4>1 DEF IInv, Entries
    <3>2. ASSUME NEW g \in Kept(at) PROVE g.at # n.at
      BY <1>3, <1>6, <1>8
    <3>3. QED
      BY <1>10, <2>2, <3>1, <3>2
  <2>3. QED
    BY <2>1, <2>2 DEF Entries, Wrap
<1>14. Frame' /\ FramesRestored' /\ EspRoundTrip'
  BY <1>5 DEF Frame, FramesRestored, EspRoundTrip, None
<1>15. QED
  BY <1>11, <1>12, <1>13, <1>14 DEF IInv

\* An instruction that only moves ESP loses the words below it.
LEMMA PopKeeps ==
    ASSUME IInv, regs' \in [Registers -> Words], shadow' \subseteq Kept(regs'["esp"]),
           mem' = mem, halted' \in BOOLEAN, left' \in BOOLEAN,
           eip' \in Words, ops' \in 0 .. MaxOps,
           Frame', FramesRestored', EspRoundTrip'
    PROVE  IInv'
<1> USE Sizes
<1>1. regs \in [Registers -> Words] /\ mem \in Memory /\ esp \in Nat /\ regs'["esp"] \in Nat
  BY DEF IInv, TypeOK, Words, esp, Registers
<1>2. ASSUME NEW e \in shadow'
      PROVE  e \in shadow /\ e.at \in regs'["esp"] .. MemSize - WordBytes
  <2>1. e \in shadow /\ e.at >= regs'["esp"]
    BY DEF Kept
  <2>2. e.at \in esp .. MemSize - WordBytes
    BY <2>1 DEF IInv, TypeOK
  <2>3. QED
    BY <1>1, <2>1, <2>2
<1>3. TypeOK'
  BY <1>1, <1>2 DEF TypeOK, esp
<1>4. Entries'
  BY <1>2 DEF IInv, Entries, Wrap
<1>5. StackKept'
  BY <1>2 DEF IInv, StackKept
<1>6. QED
  BY <1>3, <1>4, <1>5 DEF IInv

LEMMA NoStackKeeps ==
    ASSUME IInv, NoStack, regs' \in [Registers -> Words], regs'["esp"] = regs["esp"],
           halted' \in BOOLEAN, eip' \in Words, ops' \in 0 .. MaxOps
    PROVE  IInv'
<1>1. /\ shadow' = shadow /\ mem' = mem /\ left' = FALSE /\ back' = None
  BY DEF NoStack
<1>2. shadow' \subseteq Kept(regs'["esp"])
  <2>1. \A e \in shadow : e.at \in esp .. MemSize - WordBytes
    BY DEF IInv, TypeOK
  <2>2. esp \in Int /\ regs'["esp"] = esp
    BY Sizes DEF IInv, TypeOK, Words, esp, Registers
  <2>3. \A e \in shadow : e.at >= regs'["esp"]
    BY <2>1, <2>2, Sizes
  <2>4. QED
    BY <1>1, <2>3 DEF Kept
<1>3. Frame' /\ FramesRestored' /\ EspRoundTrip'
  BY <1>1 DEF Frame, FramesRestored, EspRoundTrip, None
<1>4. QED
  BY <1>1, <1>2, <1>3, PopKeeps

\* The word of the shadow at ESP.
LEMMA TopKnown ==
    ASSUME IInv, Top(esp).kind # "none"
    PROVE  /\ Top(esp) \in shadow /\ Top(esp).at = esp
           /\ mem_read32(mem, esp) = Top(esp).val
           /\ Top(esp).esp \in Words /\ esp = Wrap(Top(esp).esp - WordBytes)
           /\ Top(esp).kind = "esp" => Top(esp).val = esp
           /\ left => Top(esp).ebp = ebp
<1>1. Top(esp) \in shadow /\ Top(esp).at = esp
  <2>1. CASE \E e \in shadow : e.at = esp
    <3>1. Top(esp) = CHOOSE e \in shadow : e.at = esp
      BY <2>1 DEF Top
    <3>2. QED
      BY <2>1, <3>1
  <2>2. CASE ~ \E e \in shadow : e.at = esp
    BY <2>2 DEF Top, None
  <2>3. QED
    BY <2>1, <2>2
<1> DEFINE e == Top(esp)
<1> HIDE DEF e
<1>2. e \in shadow /\ e.at = esp
  BY <1>1 DEF e
<1>3. QED
  BY <1>2 DEF IInv, StackKept, Entries, Frame, e
-------------------------------------------------------------------------------
(* One lemma per instruction.                                                *)

LEMMA Typed ==
    ASSUME IInv
    PROVE  /\ regs \in [Registers -> Words] /\ \A r \in Registers : regs[r] \in Words
           /\ esp \in Words /\ ebp \in Words /\ eip \in Words /\ esp \in Nat /\ ebp \in Nat
           /\ mem \in Memory /\ halted \in BOOLEAN
           /\ regs["esp"] = esp /\ regs["ebp"] = ebp
BY Sizes DEF IInv, TypeOK, esp, ebp, Words, Registers

LEMMA AfterWord ==
    ASSUME IInv, NEW n \in Int
    PROVE  after(n) \in Words
<1>1. eip + n \in Int
  BY Typed, Sizes DEF Words
<1>2. QED
  BY <1>1, WrapWord DEF after

LEMMA WrapEsp ==
    ASSUME IInv, NEW n \in Int
    PROVE  Wrap(esp + n) \in Words /\ Wrap(esp - n) \in Words /\ Wrap(ebp + n) \in Words
<1>1. esp + n \in Int /\ esp - n \in Int /\ ebp + n \in Int
  BY Typed
<1>2. QED
  BY <1>1, WrapWord

LEMMA SignExtendedWord ==
    ASSUME NEW w \in Nat, NEW v \in 0 .. w - 1, w <= Addresses
    PROVE  SignExtended(v, w) \in Words
<1>1. w \div 2 \in Nat
  OBVIOUS
<1>2. CASE v >= w \div 2
  BY <1>2, Sizes DEF SignExtended, Words
<1>3. CASE ~ (v >= w \div 2)
  BY <1>3, Sizes DEF SignExtended, Words
<1>4. QED
  BY <1>2, <1>3

\* The widths of the immediates.
LEMMA Widths == ByteValues <= Addresses /\ Pow(HalfBytes) <= Addresses
<1> DEFINE h == Pow(HalfBytes)
<1>1. h \in Nat /\ h > 0 /\ Addresses = h * h /\ ByteValues <= h
  BY Half
<1> HIDE DEF h
<1>2. h * h >= h
  BY <1>1
<1>3. QED
  BY <1>1, <1>2, Sizes DEF h

LEMMA KeepsPushes ==
    ASSUME IInv, ops' \in 0 .. MaxOps,
           \/ \E r \in Registers : op_push_r32(r) \/ ff_push(r)
           \/ op_push_sreg
           \/ \E imm \in Imm32s : op_push_imm32(imm)
           \/ \E imm \in Imm8s : op_push_imm8(imm) \/ ff_push16(imm)
    PROVE  IInv'
<1> USE Typed, Sizes, CallAssumption
<1>1. ASSUME NEW r \in Registers, op_push_r32(r) PROVE IInv'
  <2> DEFINE v == IF r = "esp" THEN Wrap(esp - WordBytes) ELSE regs[r]
  <2>1. Push(r, v) /\ eip' = after(1)
    BY <1>1 DEF op_push_r32
  <2>2. v \in Words
    BY WrapEsp
  <2>3. r = "esp" => v = Wrap(esp - WordBytes)
    OBVIOUS
  <2> HIDE DEF v
  <2>4. QED
    BY <2>1, <2>2, <2>3, AfterWord, PushKeeps
<1>2. ASSUME NEW r \in Registers, ff_push(r) PROVE IInv'
  <2>1. Push("word", regs[r]) /\ eip' = after(2) /\ regs[r] \in Words
    BY <1>2 DEF ff_push
  <2>2. QED
    BY <2>1, AfterWord, PushKeeps
<1>3. CASE op_push_sreg
  <2>1. Push("word", 0) /\ eip' = after(1) /\ 0 \in Words
    BY <1>3 DEF op_push_sreg, Words
  <2>2. QED
    BY <2>1, AfterWord, PushKeeps
<1>4. ASSUME NEW imm \in Imm32s, op_push_imm32(imm) PROVE IInv'
  <2>1. Push("word", imm) /\ eip' = after(1 + WordBytes) /\ imm \in Words
    BY <1>4 DEF op_push_imm32
  <2>2. QED
    BY <2>1, AfterWord, PushKeeps
<1>5. ASSUME NEW imm \in Imm8s, op_push_imm8(imm) PROVE IInv'
  <2> DEFINE v == SignExtended(imm, ByteValues)
  <2>1. Push("word", v) /\ eip' = after(2)
    BY <1>5 DEF op_push_imm8
  <2>2. v \in Words
    BY Widths, SignExtendedWord
  <2> HIDE DEF v
  <2>3. QED
    BY <2>1, <2>2, AfterWord, PushKeeps
<1>6. ASSUME NEW imm \in Imm8s, ff_push16(imm) PROVE IInv'
  <2> DEFINE w == Pow(HalfBytes)
             v == SignExtended(imm, w)
  <2>1. Push("word", v) /\ eip' = after(2)
    BY <1>6 DEF ff_push16
  <2>2. w \in Nat /\ imm \in 0 .. w - 1 /\ w <= Addresses
    BY Half, Widths
  <2> HIDE DEF w
  <2>3. v \in Words
    BY <2>2, SignExtendedWord
  <2> HIDE DEF v
  <2>4. QED
    BY <2>1, <2>3, AfterWord, PushKeeps
<1>7. QED
  BY <1>1, <1>2, <1>3, <1>4, <1>5, <1>6

LEMMA KeepsPops ==
    ASSUME IInv, ops' \in 0 .. MaxOps,
           op_pop_sreg \/ \E r \in Registers : op_pop_r32(r)
    PROVE  IInv'
<1> USE Typed, Sizes
<1>1. mem_read32(mem, esp) \in Words
  BY ReadWord
<1>2. ASSUME NEW r \in Registers, op_pop_r32(r) PROVE IInv'
  <2> DEFINE v == mem_read32(mem, esp)
             t == Top(esp)
             r1 == [regs EXCEPT ![r] = v]
             sp == Wrap(r1["esp"] + WordBytes)
  <2>1. /\ regs' = [r1 EXCEPT !["esp"] = sp]
        /\ back' = IF r = "esp" /\ t.kind = "esp" THEN t ELSE None
        /\ shadow' = Kept([r1 EXCEPT !["esp"] = sp]["esp"])
        /\ eip' = after(1) /\ left' = FALSE /\ mem' = mem /\ halted' = halted
    BY <1>2 DEF op_pop_r32, Takes
  <2>2. r1 \in [Registers -> Words] /\ r1["esp"] = IF r = "esp" THEN v ELSE esp
    BY <1>1 DEF Registers
  <2>3. sp \in Words
    <3>1. r1["esp"] + WordBytes \in Int
      BY <1>1, <2>2 DEF Words
    <3>2. QED
      BY <3>1, WrapWord
  <2>4. t.kind = "esp" => v = esp /\ t.esp \in Words /\ esp = Wrap(t.esp - WordBytes)
    BY TopKnown
  <2> HIDE DEF r1, sp
  <2>5. regs' \in [Registers -> Words] /\ regs'["esp"] = sp /\ shadow' = Kept(regs'["esp"])
    BY <2>1, <2>2, <2>3 DEF Registers
  <2> HIDE DEF v, t
  <2>6. Frame' /\ FramesRestored'
    BY <2>1 DEF Frame, FramesRestored, None
  <2>7. EspRoundTrip'
    <3>1. CASE r = "esp" /\ t.kind = "esp"
      <4> DEFINE o == t.esp
      <4>1. o \in Words /\ o \in Int
        BY <2>4, <3>1 DEF Words
      <4>2. sp = Wrap(Wrap(o - WordBytes) + WordBytes)
        BY <2>2, <2>4, <3>1 DEF sp
      <4> HIDE DEF o
      <4>3. o - WordBytes \in Int /\ (o - WordBytes) + WordBytes = o
        BY <4>1
      <4>4. Wrap(Wrap(o - WordBytes) + WordBytes) = Wrap((o - WordBytes) + WordBytes)
        BY <4>3, WrapSum
      <4>5. sp = o
        BY <4>1, <4>2, <4>3, <4>4, WrapSmall
      <4>6. QED
        BY <2>1, <2>5, <3>1, <4>5 DEF EspRoundTrip, esp, o
    <3>2. CASE ~ (r = "esp" /\ t.kind = "esp")
      BY <2>1, <3>2 DEF EspRoundTrip, None
    <3>3. QED
      BY <3>1, <3>2
  <2>8. QED
    <3>1. eip' \in Words
      BY <2>1, AfterWord
    <3>2. shadow' \subseteq Kept(regs'["esp"]) /\ left' \in BOOLEAN /\ halted' \in BOOLEAN
      BY <2>1, <2>5
    <3>3. QED
      BY <2>1, <2>5, <2>6, <2>7, <3>1, <3>2, PopKeeps, Zenon
<1>3. CASE op_pop_sreg
  <2> DEFINE sp == Wrap(esp + WordBytes)
  <2>1. /\ regs' = [regs EXCEPT !["esp"] = sp] /\ back' = None /\ shadow' = Kept(sp)
        /\ eip' = after(1) /\ left' = FALSE /\ mem' = mem /\ halted' = halted
    BY <1>3 DEF op_pop_sreg, Takes
  <2>2. sp \in Words
    BY WrapEsp
  <2> HIDE DEF sp
  <2>3. regs' \in [Registers -> Words] /\ regs'["esp"] = sp
    BY <2>1, <2>2 DEF Registers
  <2>4. Frame' /\ FramesRestored' /\ EspRoundTrip'
    BY <2>1 DEF Frame, FramesRestored, EspRoundTrip, None
  <2>5. QED
    <3>1. eip' \in Words
      BY <2>1, AfterWord
    <3>2. shadow' \subseteq Kept(regs'["esp"]) /\ left' \in BOOLEAN /\ halted' \in BOOLEAN
      BY <2>1, <2>3
    <3>3. QED
      BY <2>1, <2>3, <2>4, <3>1, <3>2, PopKeeps, Zenon
<1>4. QED
  BY <1>2, <1>3
\* The return address and the registers of the call are those of its push.
LEMMA KeepsReturn ==
    ASSUME IInv, ops' \in 0 .. MaxOps, NEW imm \in Nat, Return(imm)
    PROVE  IInv'
<1> USE Typed, Sizes
<1> DEFINE sp == Wrap(esp + WordBytes + imm)
           t == Top(esp)
<1>1. /\ eip' = mem_read32(mem, esp) /\ regs' = [regs EXCEPT !["esp"] = sp]
      /\ back' = IF t.kind = "ret"
                 THEN [kind |-> "ret", val |-> t.val, ebp |-> t.ebp, esp |-> t.esp,
                       imm |-> imm, framed |-> left]
                 ELSE None
      /\ shadow' = Kept(sp) /\ left' = FALSE /\ mem' = mem /\ halted' = halted
  BY DEF Return
<1>2. sp \in Words /\ eip' \in Words
  <2>1. esp + WordBytes + imm \in Int
    OBVIOUS
  <2>2. QED
    BY <1>1, <2>1, WrapWord, ReadWord
<1>3. t.kind = "ret" => /\ mem_read32(mem, esp) = t.val /\ t.esp \in Words
                        /\ esp = Wrap(t.esp - WordBytes) /\ (left => t.ebp = ebp)
  BY TopKnown
<1>4. t.kind = "ret" => sp = Wrap(t.esp + imm)
  <2> SUFFICES ASSUME t.kind = "ret" PROVE sp = Wrap(t.esp + imm)
    OBVIOUS
  <2> DEFINE o == t.esp
             x == o - WordBytes
             y == WordBytes + imm
  <2>1. o \in Int /\ x \in Int /\ y \in Int /\ x + y = o + imm /\ esp = Wrap(x)
    BY <1>3 DEF Words
  <2>2. sp = Wrap(Wrap(x) + y)
    <3>1. esp + WordBytes + imm = esp + y
      OBVIOUS
    <3>2. QED
      BY <2>1, <3>1
  <2> HIDE DEF o, x, y
  <2>3. Wrap(Wrap(x) + y) = Wrap(x + y)
    BY <2>1, WrapSum
  <2> HIDE DEF sp
  <2>4. QED
    BY <2>1, <2>2, <2>3 DEF o
<1> HIDE DEF sp, t
<1>5. /\ regs' \in [Registers -> Words] /\ regs'["esp"] = sp /\ regs'["ebp"] = ebp
      /\ esp' = sp /\ ebp' = ebp
  BY <1>1, <1>2 DEF Registers, esp, ebp
<1>6. FramesRestored'
  <2>1. CASE t.kind = "ret"
    <3>1. /\ back'.val = t.val /\ back'.esp = t.esp /\ back'.ebp = t.ebp
          /\ back'.imm = imm /\ back'.framed = left
      BY <1>1, <2>1
    <3>2. QED
      BY <1>1, <1>3, <1>4, <1>5, <2>1, <3>1 DEF FramesRestored, Wrap
  <2>2. CASE t.kind # "ret"
    BY <1>1, <2>2 DEF FramesRestored, None
  <2>3. QED
    BY <2>1, <2>2
<1>7. Frame' /\ EspRoundTrip'
  BY <1>1 DEF Frame, EspRoundTrip, None
<1>8. shadow' \subseteq Kept(regs'["esp"]) /\ left' \in BOOLEAN /\ halted' \in BOOLEAN
  BY <1>1, <1>5
<1>9. QED
  BY <1>1, <1>2, <1>5, <1>6, <1>7, <1>8, PopKeeps, Zenon

\* LEAVE of the frame of a call puts ESP on its return address and gives EBP
\* the value the caller had.
LEMMA KeepsLeave ==
    ASSUME IInv, ops' \in 0 .. MaxOps, op_leave
    PROVE  IInv'
<1> USE Typed, Sizes
<1> DEFINE sp == Wrap(ebp + WordBytes)
           v == mem_read32(mem, ebp)
<1>1. /\ regs' = [regs EXCEPT !["ebp"] = v, !["esp"] = sp] /\ shadow' = Kept(sp)
      /\ left' = CallFrame /\ back' = None /\ eip' = after(1) /\ mem' = mem /\ halted' = halted
  BY DEF op_leave
<1>2. sp \in Words /\ v \in Words /\ eip' \in Words
  BY <1>1, WrapEsp, ReadWord, AfterWord
<1>3. ASSUME CallFrame, NEW e \in shadow, e.at = sp PROVE e.ebp = v
  <2>1. PICK saved \in shadow, ret \in shadow :
          /\ saved.at = ebp /\ ret.at = ebp + WordBytes /\ ret.ebp = saved.val
    BY <1>3 DEF CallFrame
  <2>2. v = saved.val
    BY <2>1 DEF IInv, StackKept
  <2>3. ret.at \in Words
    <3>1. ret.at \in esp .. MemSize - WordBytes
      BY DEF IInv, TypeOK
    <3>2. QED
      BY <3>1 DEF Words
  <2>4. ret.at = sp
    BY <2>1, <2>3, WrapSmall
  <2>5. e = ret
    BY <1>3, <2>4 DEF IInv, Entries
  <2>6. QED
    BY <2>1, <2>2, <2>5
<1> HIDE DEF sp, v
<1>4. /\ regs' \in [Registers -> Words] /\ regs'["esp"] = sp /\ esp' = sp /\ ebp' = v
  BY <1>1, <1>2 DEF Registers, esp, ebp
<1>5. Frame'
  BY <1>1, <1>3, <1>4 DEF Frame, Kept
<1>6. FramesRestored' /\ EspRoundTrip'
  BY <1>1 DEF FramesRestored, EspRoundTrip, None
<1>7. shadow' \subseteq Kept(regs'["esp"]) /\ left' \in BOOLEAN /\ halted' \in BOOLEAN
  BY <1>1, <1>4 DEF CallFrame
<1>8. QED
  BY <1>1, <1>2, <1>4, <1>5, <1>6, <1>7, PopKeeps, Zenon

LEMMA KeepsLeave16 ==
    ASSUME IInv, ops' \in 0 .. MaxOps, op_leave16
    PROVE  IInv'
<1> USE Typed, Sizes
<1> DEFINE h == Pow(HalfBytes)
           sp == (esp \div h) * h + (ebp % h)
           v == (ebp \div h) * h + mem_read16(mem, sp)
           top == Wrap(sp + HalfBytes)
<1>1. /\ regs' = [regs EXCEPT !["esp"] = top, !["ebp"] = v] /\ shadow' = Kept(top)
      /\ left' = FALSE /\ back' = None /\ eip' = after(2) /\ mem' = mem /\ halted' = halted
  BY DEF op_leave16
<1>2. h \in Nat /\ h > 0 /\ Addresses = h * h /\ HalfBytes \in Nat
  BY Half
<1>3. sp \in Nat
  <2> HIDE DEF h
  <2>1. esp \div h \in Nat /\ ebp % h \in Nat
    BY <1>2
  <2>2. (esp \div h) * h \in Nat
    BY <1>2, <2>1
  <2>3. QED
    BY <2>1, <2>2
<1>4. mem_read16(mem, sp) \in 0 .. h - 1
  <2> HIDE DEF sp
  <2>1. QED
    BY <1>3, ReadHalf
<1>5. v \in Words
  <2> DEFINE q == ebp \div h
             r == mem_read16(mem, sp)
  <2>1. ebp < h * h
    BY <1>2 DEF Words
  <2> HIDE DEF h, sp
  <2>2. q \in Nat /\ q < h
    BY <1>2, <2>1, DivBound
  <2>3. r \in 0 .. h - 1
    BY <1>4
  <2> HIDE DEF q, r
  <2> DEFINE e == (h - 1) - q
  <2>4. e \in Nat /\ h = (q + 1) + e
    BY <1>2, <2>2
  <2> HIDE DEF e
  <2>5. h * h = (q * h + h) + e * h /\ e * h \in Nat /\ q * h \in Nat
    BY <1>2, <2>2, <2>4
  <2>6. q * h + r \in Nat /\ q * h + r < h * h
    BY <1>2, <2>3, <2>5
  <2>7. QED
    BY <1>2, <2>6 DEF Words, q, r
<1>6. top \in Words /\ eip' \in Words
  <2>1. sp + HalfBytes \in Int
    BY <1>2, <1>3
  <2>2. QED
    BY <1>1, <2>1, WrapWord, AfterWord
<1> HIDE DEF h, sp, v, top
<1>7. regs' \in [Registers -> Words] /\ regs'["esp"] = top
  BY <1>1, <1>5, <1>6 DEF Registers
<1>8. Frame' /\ FramesRestored' /\ EspRoundTrip'
  BY <1>1 DEF Frame, FramesRestored, EspRoundTrip, None
<1>9. shadow' \subseteq Kept(regs'["esp"]) /\ left' \in BOOLEAN /\ halted' \in BOOLEAN
  BY <1>1, <1>7
<1>10. QED
  BY <1>1, <1>6, <1>7, <1>8, <1>9, PopKeeps, Zenon
LEMMA KeepsCalls ==
    ASSUME IInv, ops' \in 0 .. MaxOps,
           ff_call("eax") \/ \E offset \in Offsets : op_call_rel32(offset)
    PROVE  IInv'
<1> USE Typed, Sizes
<1>1. ASSUME NEW offset \in Offsets, op_call_rel32(offset) PROVE IInv'
  <2> DEFINE v == after(1 + WordBytes)
  <2>1. Push("ret", v) /\ eip' = after(1 + WordBytes + offset)
    BY <1>1 DEF op_call_rel32
  <2>2. 1 + WordBytes + offset \in Int /\ 1 + WordBytes \in Int
    BY CallAssumption
  <2>3. v \in Words
    BY <2>2, AfterWord
  <2>4. eip' \in Words
    BY <2>1, <2>2, AfterWord
  <2> HIDE DEF v
  <2>5. QED
    BY <2>1, <2>3, <2>4, PushKeeps
<1>2. CASE ff_call("eax")
  <2> DEFINE v == after(2)
  <2>1. Push("ret", v) /\ eip' = regs["eax"]
    BY <1>2 DEF ff_call
  <2>2. v \in Words
    BY AfterWord
  <2>3. eip' \in Words
    BY <2>1 DEF Registers
  <2> HIDE DEF v
  <2>4. QED
    BY <2>1, <2>2, <2>3, PushKeeps
<1>3. QED
  BY <1>1, <1>2

LEMMA KeepsJumps ==
    ASSUME IInv, ops' \in 0 .. MaxOps,
           \/ \E offset \in Offsets :
                \/ op_jmp_short(offset) \/ op_jmp_near(offset)
                \/ op_jcc_short(offset) \/ op_jcc_near(offset) \/ op_jecxz(offset)
           \/ ff_jmp("eax") \/ op_mov_ebp_esp \/ ff_unhandled
    PROVE  IInv'
<1> USE Typed, Sizes, CallAssumption
<1>1. ASSUME NEW n \in Int, eip' = after(n), NoStack, UNCHANGED <<regs, halted>> PROVE IInv'
  <2>1. eip' \in Words
    BY <1>1, AfterWord
  <2>2. QED
    BY <1>1, <2>1, NoStackKeeps
<1>2. ASSUME NEW offset \in Offsets,
             \/ op_jmp_short(offset) \/ op_jmp_near(offset)
             \/ op_jcc_short(offset) \/ op_jcc_near(offset) \/ op_jecxz(offset)
      PROVE  IInv'
  <2>1. /\ 2 + offset \in Int /\ 2 + 0 \in Int /\ 1 + WordBytes + offset \in Int
        /\ 2 + WordBytes + offset \in Int /\ 2 + WordBytes \in Int
    OBVIOUS
  <2>2. /\ NoStack /\ UNCHANGED <<regs, halted>>
        /\ \/ eip' = after(2 + offset) \/ eip' = after(2 + 0) \/ eip' = after(1 + WordBytes + offset)
           \/ eip' = after(2 + WordBytes + offset) \/ eip' = after(2 + WordBytes)
    BY <1>2 DEF op_jmp_short, op_jmp_near, op_jcc_short, op_jcc_near, op_jecxz
  <2>3. QED
    BY <1>1, <2>1, <2>2
<1>3. CASE ff_jmp("eax")
  <2>1. eip' = regs["eax"] /\ NoStack /\ UNCHANGED <<regs, halted>>
    BY <1>3 DEF ff_jmp
  <2>2. eip' \in Words
    BY <2>1 DEF Registers
  <2>3. QED
    BY <2>1, <2>2, NoStackKeeps
<1>4. CASE op_mov_ebp_esp
  <2>1. regs' = [regs EXCEPT !["ebp"] = esp] /\ eip' = after(2) /\ NoStack /\ halted' = halted
    BY <1>4 DEF op_mov_ebp_esp
  <2>2. eip' \in Words
    BY <2>1, AfterWord
  <2>3. regs' \in [Registers -> Words] /\ regs'["esp"] = regs["esp"]
    BY <2>1 DEF Registers
  <2>4. QED
    BY <2>1, <2>2, <2>3, NoStackKeeps
<1>5. CASE ff_unhandled
  <2>1. halted' = TRUE /\ eip' = after(2) /\ NoStack /\ regs' = regs
    BY <1>5 DEF ff_unhandled
  <2>2. eip' \in Words
    BY <2>1, AfterWord
  <2>3. QED
    BY <2>1, <2>2, NoStackKeeps
<1>6. QED
  BY <1>2, <1>3, <1>4, <1>5

LEMMA KeepsStutter ==
    ASSUME IInv, UNCHANGED vars
    PROVE  IInv'
BY DEF IInv, vars, TypeOK, Entries, StackKept, Frame, FramesRestored, EspRoundTrip,
       esp, ebp, Wrap, mem_read32

LEMMA StepInv == IInv /\ [Next]_vars => IInv'
<1> SUFFICES ASSUME IInv, [Next]_vars PROVE IInv'
  OBVIOUS
<1>1. CASE UNCHANGED vars
  BY <1>1, KeepsStutter
<1>2. CASE ~Ended /\ ops' = ops + 1 /\ (StackStep \/ ControlStep)
  <2>1. ops' \in 0 .. MaxOps
    BY <1>2, CallAssumption DEF IInv, TypeOK, Ended
  <2>2. CASE StackStep
    BY <2>1, <2>2, KeepsPushes, KeepsPops DEF StackStep
  <2>3. CASE ControlStep
    <3>1. 0 \in Nat /\ \A imm \in Pops : imm \in Nat
      BY CallAssumption
    <3>2. CASE op_ret \/ \E imm \in Pops : op_ret_imm16(imm)
      BY <2>1, <3>1, <3>2, KeepsReturn DEF op_ret, op_ret_imm16
    <3>3. CASE op_leave \/ op_leave16
      BY <2>1, <3>3, KeepsLeave, KeepsLeave16
    <3>4. QED
      BY <2>1, <2>3, <3>2, <3>3, KeepsCalls, KeepsJumps DEF ControlStep
  <2>4. QED
    BY <1>2, <2>2, <2>3
<1>3. QED
  BY <1>1, <1>2 DEF Next

LEMMA Invariant == Spec => []IInv
BY InitInv, StepInv, PTL DEF Spec

-------------------------------------------------------------------------------
(* Theorems.                                                                 *)

\* The registers and memory keep their widths, and the words of the shadow lie
\* between ESP and the end of memory, however ESP moves and wraps.
THEOREM TypeCorrect == Spec => []TypeOK
<1>1. IInv => TypeOK
  BY DEF IInv
<1>2. QED
  BY <1>1, Invariant, PTL

\* A word stays what was pushed for as long as ESP is not above it.
THEOREM WordsKept == Spec => []StackKept
<1>1. IInv => StackKept
  BY DEF IInv
<1>2. QED
  BY <1>1, Invariant, PTL

\* RET gives back the address, the stack pointer and, after LEAVE, the frame
\* pointer of the call, whatever ran in between.
THEOREM CallsReturn == Spec => []FramesRestored
<1>1. IInv => FramesRestored
  BY DEF IInv
<1>2. QED
  BY <1>1, Invariant, PTL

\* POP ESP undoes PUSH ESP.
THEOREM EspUndone == Spec => []EspRoundTrip
<1>1. IInv => EspRoundTrip
  BY DEF IInv
<1>2. QED
  BY <1>1, Invariant, PTL
===============================================================================
