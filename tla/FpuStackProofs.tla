---------------------------- MODULE FpuStackProofs ----------------------------
(***************************************************************************)
(* FpuStack implements FpuManual, for any number of registers, any width   *)
(* of words, any memory and any number of instructions.                    *)
(***************************************************************************)
EXTENDS FpuStack, TLAPS

\* ST(i) and the depth as the refinement maps them.
ST == [i \in Index |-> fpu_stack[phys(i)]]
Depth == (-fpu_top) % Registers

\* The invariant the refinement needs: fpu_top is a register's number.
Shape == fpu_top \in Index /\ fpu_stack = [i \in Index |-> fpu_stack[i]]

-------------------------------------------------------------------------------
(* The arithmetic of register numbers.                                       *)

LEMMA Sizes == Registers \in Nat /\ Registers > 0
BY FpuAssumption

USE Sizes

\* Numbers within one turn of the stack wrap at most once.
LEMMA WrapNear ==
    ASSUME NEW x \in Int, -Registers <= x, x < 2 * Registers
    PROVE  x % Registers = IF x < 0 THEN x + Registers
                           ELSE IF x < Registers THEN x ELSE x - Registers
<1>1. x = Registers * (x \div Registers) + (x % Registers) /\ x \div Registers \in Int
      /\ x % Registers \in 0 .. Registers - 1
  OBVIOUS
<1> DEFINE q == x \div Registers
           r == x % Registers
<1>2. q \in Int /\ r \in 0 .. Registers - 1 /\ x = Registers * q + r
  BY <1>1
<1> HIDE DEF q, r
<1>3. q = -1 \/ q = 0 \/ q = 1
  <2>1. q <= 1
    <3> SUFFICES ASSUME q >= 2 PROVE FALSE
      BY <1>2
    <3>1. Registers * q >= Registers * 2
      BY <1>2
    <3>2. QED
      BY <1>2, <3>1
  <2>2. q >= -1
    <3> SUFFICES ASSUME q <= -2 PROVE FALSE
      BY <1>2
    <3>1. Registers * q <= Registers * (-2)
      BY <1>2
    <3>2. QED
      BY <1>2, <3>1
  <2>3. QED
    BY <1>2, <2>1, <2>2
<1>4. r = IF x < 0 THEN x + Registers ELSE IF x < Registers THEN x ELSE x - Registers
  BY <1>2, <1>3
<1>5. QED
  BY <1>4 DEF r

\* ST(0) is fpu_top, and the ST(i) are different registers.
LEMMA PhysExact ==
    ASSUME NEW t \in Index, NEW i \in Index
    PROVE  (t + i) % Registers = IF t + i < Registers THEN t + i ELSE t + i - Registers
<1> DEFINE x == t + i
<1>1. x \in Int /\ -Registers <= x /\ x < 2 * Registers /\ x >= 0
  BY DEF Index
<1> HIDE DEF x
<1>2. x % Registers = IF x < 0 THEN x + Registers
                      ELSE IF x < Registers THEN x ELSE x - Registers
  BY <1>1, WrapNear
<1>3. x % Registers = IF x < Registers THEN x ELSE x - Registers
  BY <1>1, <1>2
<1>4. QED
  BY <1>3 DEF x, Index

LEMMA BelowExact ==
    ASSUME NEW t \in Index
    PROVE  /\ (t - 1) % Registers = IF t = 0 THEN Registers - 1 ELSE t - 1
           /\ (t + 1) % Registers = IF t = Registers - 1 THEN 0 ELSE t + 1
           /\ (-t) % Registers = IF t = 0 THEN 0 ELSE Registers - t
<1>1. /\ t - 1 \in Int /\ -Registers <= t - 1 /\ t - 1 < 2 * Registers
      /\ t + 1 \in Int /\ -Registers <= t + 1 /\ t + 1 < 2 * Registers
      /\ -t \in Int /\ -Registers <= -t /\ -t < 2 * Registers
  BY DEF Index
<1> DEFINE x == t - 1
           y == t + 1
           z == -t
<1>2. x % Registers = IF x < 0 THEN x + Registers
                      ELSE IF x < Registers THEN x ELSE x - Registers
  <2> HIDE DEF x
  <2>1. QED
    BY <1>1, WrapNear DEF x
<1>3. y % Registers = IF y < 0 THEN y + Registers
                      ELSE IF y < Registers THEN y ELSE y - Registers
  <2> HIDE DEF y
  <2>1. QED
    BY <1>1, WrapNear DEF y
<1>4. z % Registers = IF z < 0 THEN z + Registers
                      ELSE IF z < Registers THEN z ELSE z - Registers
  <2> HIDE DEF z
  <2>1. QED
    BY <1>1, WrapNear DEF z
<1>5. QED
  BY <1>2, <1>3, <1>4 DEF Index

-------------------------------------------------------------------------------
(* The refinement of the three things a handler does to the stack.           *)

LEMMA PushRefines ==
    ASSUME Shape, NEW v, Push(v)
    PROVE  Manual!Push(v) /\ Shape'
<1>1. /\ fpu_top' = below /\ fpu_stack' = [fpu_stack EXCEPT ![below] = v]
  BY DEF Push
<1>2. fpu_top \in Index /\ below = IF fpu_top = 0 THEN Registers - 1 ELSE fpu_top - 1
  BY BelowExact DEF Shape, below
<1>3. below \in Index
  BY <1>2 DEF Index
<1>4. fpu_stack' = [i \in Index |-> IF i = below THEN v ELSE fpu_stack[i]]
  BY <1>1 DEF Shape
<1>5. ST' = [i \in Index |-> IF i = 0 THEN v ELSE ST[i - 1]]
  <2>1. ST' = [i \in Index |-> fpu_stack'[(fpu_top' + i) % Registers]]
    BY DEF ST, phys
  <2>2. ASSUME NEW i \in Index
        PROVE  fpu_stack'[(fpu_top' + i) % Registers] = IF i = 0 THEN v ELSE ST[i - 1]
    <3>1. (below + i) % Registers
            = IF below + i < Registers THEN below + i ELSE below + i - Registers
      BY <1>3, PhysExact
    <3>2. (below + i) % Registers \in Index
      BY <1>3, <3>1 DEF Index
    <3>3. CASE i = 0
      <4>1. (below + i) % Registers = below
        BY <1>3, <3>1, <3>3 DEF Index
      <4>2. QED
        BY <1>1, <1>3, <1>4, <3>3, <4>1
    <3>4. CASE i # 0
      <4>1. i - 1 \in Index
        BY <3>4 DEF Index
      <4>2. (fpu_top + (i - 1)) % Registers
              = IF fpu_top + (i - 1) < Registers THEN fpu_top + (i - 1)
                ELSE fpu_top + (i - 1) - Registers
        BY <1>2, <4>1, PhysExact
      <4>3. /\ (below + i) % Registers = (fpu_top + (i - 1)) % Registers
            /\ (below + i) % Registers # below
        BY <1>2, <3>1, <3>4, <4>2 DEF Index
      <4>4. QED
        BY <1>1, <1>4, <3>2, <3>4, <4>1, <4>3 DEF ST, phys
    <3>5. QED
      BY <3>3, <3>4
  <2>3. QED
    BY <2>1, <2>2
<1>6. Depth' = (Depth + 1) % Registers
  <2>1. Depth = IF fpu_top = 0 THEN 0 ELSE Registers - fpu_top
    BY <1>2, BelowExact DEF Depth
  <2>2. Depth' = IF below = 0 THEN 0 ELSE Registers - below
    BY <1>1, <1>3, BelowExact DEF Depth
  <2>3. Depth \in Index
    BY <1>2, <2>1 DEF Index
  <2>4. (Depth + 1) % Registers = IF Depth = Registers - 1 THEN 0 ELSE Depth + 1
    BY <2>3, BelowExact
  <2> HIDE DEF Depth
  <2>5. QED
    BY <1>2, <2>1, <2>2, <2>4 DEF Index
<1>7. Shape'
  BY <1>1, <1>3, <1>4 DEF Shape
<1>8. QED
  BY <1>5, <1>6, <1>7 DEF Manual!Push, ST, Depth, Index, Manual!Index

\* A pop, of the registers s that the handler leaves.
LEMMA PopRefines ==
    ASSUME Shape, Pop, NEW s, fpu_stack' = s, s = [i \in Index |-> s[i]]
    PROVE  Manual!Popped([i \in Index |-> s[phys(i)]]) /\ Shape'
<1> DEFINE S == [i \in Index |-> s[phys(i)]]
<1>1. fpu_top' = above
  BY DEF Pop
<1>2. fpu_top \in Index /\ above = IF fpu_top = Registers - 1 THEN 0 ELSE fpu_top + 1
  BY BelowExact DEF Shape, above
<1>3. above \in Index
  BY <1>2 DEF Index
<1>4. ST' = [i \in Index |-> S[(i + 1) % Registers]]
  <2>1. ST' = [i \in Index |-> s[(above + i) % Registers]]
    BY <1>1 DEF ST, phys
  <2>2. ASSUME NEW i \in Index
        PROVE  s[(above + i) % Registers] = S[(i + 1) % Registers]
    <3> DEFINE j == (i + 1) % Registers
    <3>1. (above + i) % Registers
            = IF above + i < Registers THEN above + i ELSE above + i - Registers
      BY <1>3, PhysExact
    <3>2. j = IF i = Registers - 1 THEN 0 ELSE i + 1
      BY BelowExact
    <3>3. j \in Index
      BY <3>2 DEF Index
    <3> HIDE DEF j
    <3>4. (fpu_top + j) % Registers
            = IF fpu_top + j < Registers THEN fpu_top + j ELSE fpu_top + j - Registers
      BY <1>2, <3>3, PhysExact
    <3>5. (above + i) % Registers = (fpu_top + j) % Registers
      BY <1>2, <3>1, <3>2, <3>4 DEF Index
    <3>6. QED
      BY <3>3, <3>5 DEF phys, j
  <2>3. QED
    BY <2>1, <2>2
<1>5. Depth' = (Depth - 1) % Registers
  <2>1. Depth = IF fpu_top = 0 THEN 0 ELSE Registers - fpu_top
    BY <1>2, BelowExact DEF Depth
  <2>2. Depth' = IF above = 0 THEN 0 ELSE Registers - above
    BY <1>1, <1>3, BelowExact DEF Depth
  <2>3. Depth \in Index
    BY <1>2, <2>1 DEF Index
  <2>4. (Depth - 1) % Registers = IF Depth = 0 THEN Registers - 1 ELSE Depth - 1
    BY <2>3, BelowExact
  <2> HIDE DEF Depth
  <2> DEFINE d == Depth
             e == Depth'
  <2>5. d \in 0 .. Registers - 1
    BY <2>3 DEF Index
  <2>6. e = IF d = 0 THEN Registers - 1 ELSE d - 1
    BY <1>2, <2>1, <2>2 DEF Index
  <2>7. QED
    BY <2>4, <2>6
<1>6. Shape'
  BY <1>1, <1>3 DEF Shape
<1>7. QED
  BY <1>4, <1>5, <1>6 DEF Manual!Popped, ST, Depth, Index, Manual!Index

\* The registers move under the stack: s for fpu_stack, fpu_top unchanged.
LEMMA KeptRefines ==
    ASSUME Shape, UNCHANGED fpu_top, NEW s, fpu_stack' = s, s = [i \in Index |-> s[i]]
    PROVE  Manual!Kept([i \in Index |-> s[phys(i)]]) /\ Shape'
<1>1. Shape'
  BY DEF Shape
<1>2. ST' = [i \in Index |-> s[phys(i)]]
  BY DEF ST, phys
<1>3. Depth' = Depth
  BY DEF Depth
<1>4. QED
  BY <1>1, <1>2, <1>3 DEF Manual!Kept, ST, Depth

\* Writing the register of ST(i) is writing ST(i).
LEMMA PhysType ==
    ASSUME Shape, NEW i \in Index
    PROVE  phys(i) \in Index
<1>1. phys(i) = IF fpu_top + i < Registers THEN fpu_top + i ELSE fpu_top + i - Registers
  BY PhysExact DEF Shape, phys
<1>2. QED
  BY <1>1 DEF Shape, Index

LEMMA PhysInjective ==
    ASSUME Shape, NEW i \in Index, NEW j \in Index, i # j
    PROVE  phys(i) # phys(j)
<1>1. fpu_top \in Index
  BY DEF Shape
<1>2. phys(i) = IF fpu_top + i < Registers THEN fpu_top + i ELSE fpu_top + i - Registers
  BY PhysExact DEF Shape, phys
<1>3. phys(j) = IF fpu_top + j < Registers THEN fpu_top + j ELSE fpu_top + j - Registers
  BY PhysExact DEF Shape, phys
<1>4. QED
  BY <1>1, <1>2, <1>3 DEF Index

LEMMA PhysDistinct ==
    ASSUME Shape
    PROVE  \A i, j \in Index : phys(i) \in Index /\ (phys(i) = phys(j) => i = j)
BY PhysType, PhysInjective

\* ST(0) is the register fpu_top.
LEMMA TopIsSt0 ==
    ASSUME Shape
    PROVE  0 \in Index /\ phys(0) = fpu_top /\ ST[0] = st0
<1>1. 0 \in Index
  BY DEF Index
<1>2. phys(0) = IF fpu_top + 0 < Registers THEN fpu_top + 0 ELSE fpu_top + 0 - Registers
  BY <1>1, PhysExact DEF Shape, phys
<1>3. phys(0) = fpu_top
  BY <1>2 DEF Shape, Index
<1>4. QED
  BY <1>1, <1>3 DEF ST, st0

-------------------------------------------------------------------------------
(* The two specifications move and convert the same data.                    *)

LEMMA SameSets ==
    /\ Manual!Index = Index /\ Manual!Address = Address /\ Manual!Zero = Zero
BY DEF Manual!Index, Index, Manual!Address, Address, Manual!Zero, Zero

LEMMA SameLoads ==
    ASSUME NEW a
    PROVE  /\ Manual!Widened(Manual!mem_read32(mem, a)) = Widened(mem_read32(mem, a))
           /\ Manual!mem_read64(mem, a) = mem_read64(mem, a)
           /\ Manual!FromInt16(Manual!mem_read16(mem, a)) = FromInt16(mem_read16(mem, a))
           /\ Manual!FromInt(Manual!mem_read32(mem, a)) = FromInt(mem_read32(mem, a))
           /\ Manual!FromInt64(Manual!mem_read64(mem, a)) = FromInt64(mem_read64(mem, a))
<1> USE DEF Manual!mem_read32, mem_read32, Manual!mem_read16, mem_read16,
            Manual!mem_read64, mem_read64, Manual!second, second
<1>1. Manual!Widened(Manual!mem_read32(mem, a)) = Widened(mem_read32(mem, a))
  BY DEF Manual!Widened, Widened
<1>2. Manual!mem_read64(mem, a) = mem_read64(mem, a)
  OBVIOUS
<1>3. \A w : Manual!FromInt(w) = FromInt(w)
  BY DEF Manual!FromInt, FromInt
<1>4. Manual!FromInt16(Manual!mem_read16(mem, a)) = FromInt16(mem_read16(mem, a))
  BY <1>3 DEF Manual!FromInt16, FromInt16, Manual!Extended, Extended, Manual!Long, Long
<1>5. Manual!FromInt(Manual!mem_read32(mem, a)) = FromInt(mem_read32(mem, a))
  BY <1>3
<1>6. Manual!FromInt64(Manual!mem_read64(mem, a)) = FromInt64(mem_read64(mem, a))
  <2>1. \A d : Manual!FromInt64(d) = FromInt64(d)
    BY <1>3 DEF Manual!FromInt64, FromInt64, Manual!LongSign, LongSign, Manual!Long, Long
  <2>2. QED
    BY <1>2, <2>1
<1>7. QED
  BY <1>1, <1>2, <1>4, <1>5, <1>6

LEMMA SameStores ==
    ASSUME Shape, NEW a
    PROVE  /\ Manual!Float(a) = AsFloat(a) /\ Manual!Int16(a) = AsInt16(a)
           /\ Manual!Int32(a) = AsInt(a)
           /\ Manual!Int64(a) = {mem_write64(mem, a, d) : d \in ToInt64(st0)}
           /\ Manual!mem_write64(mem, a, ST[0]) = mem_write64(mem, a, st0)
           /\ \A w : Manual!mem_write16(mem, a, w) = mem_write16(mem, a, w)
<1>1. ST[0] = st0
  BY TopIsSt0
<1>2. \A w : Manual!mem_write32(mem, a, w) = mem_write32(mem, a, w)
  BY DEF Manual!mem_write32, mem_write32
<1>3. \A w : Manual!mem_write16(mem, a, w) = mem_write16(mem, a, w)
  BY DEF Manual!mem_write16, mem_write16
<1>4. \A d : Manual!mem_write64(mem, a, d) = mem_write64(mem, a, d)
  BY DEF Manual!mem_write64, mem_write64, Manual!mem_write32, mem_write32,
         Manual!second, second
<1>5. Manual!Word = Word /\ Manual!Double = Double
  BY DEF Manual!Word, Word, Manual!Double, Double, Manual!Long, Long
<1>6. Manual!Narrowed(st0) = Narrowed(st0)
  <2>1. Manual!FloatsOf(st0) = FloatsOf(st0)
    BY <1>5 DEF Manual!FloatsOf, FloatsOf
  <2>2. QED
    BY <1>5, <2>1 DEF Manual!Narrowed, Narrowed
<1>7. Manual!IntsOf(st0) = IntsOf(st0)
  BY <1>5 DEF Manual!IntsOf, IntsOf
<1>8. Manual!ToInt(st0) = ToInt(st0)
  BY <1>5, <1>7 DEF Manual!ToInt, ToInt
<1>9. Manual!ToInt16(st0) = ToInt16(st0)
  <2>1. \A h : Manual!Extended(h) = Extended(h)
    BY DEF Manual!Extended, Extended, Manual!Long, Long
  <2>2. Manual!Int16sOf(st0) = Int16sOf(st0)
    BY <2>1 DEF Manual!Int16sOf, Int16sOf
  <2>3. QED
    BY <2>2 DEF Manual!ToInt16, ToInt16
<1>10. Manual!ToInt64(st0) = ToInt64(st0)
  <2>1. \A w : Manual!LongSign(w) = LongSign(w)
    BY DEF Manual!LongSign, LongSign, Manual!Long, Long
  <2>2. QED
    BY <1>5, <1>7, <2>1 DEF Manual!ToInt64, ToInt64
<1>11. Manual!Float(a) = AsFloat(a)
  BY <1>1, <1>2, <1>6 DEF Manual!Float, AsFloat, ST
<1>12. Manual!Int16(a) = AsInt16(a)
  BY <1>1, <1>3, <1>9 DEF Manual!Int16, AsInt16, ST
<1>13. Manual!Int32(a) = AsInt(a)
  BY <1>1, <1>2, <1>8 DEF Manual!Int32, AsInt, ST
<1>14. Manual!Int64(a) = {mem_write64(mem, a, d) : d \in ToInt64(st0)}
  BY <1>1, <1>4, <1>10 DEF Manual!Int64, ST
<1>15. QED
  BY <1>1, <1>3, <1>4, <1>11, <1>12, <1>13, <1>14

-------------------------------------------------------------------------------
(* Loads, stores and stores with P.                                          *)

LEMMA LoadRefines ==
    ASSUME Shape, NEW name, NEW operand, Is(name, operand), NEW vs, NEW v \in vs, Push(v)
    PROVE  Manual!Load(name, operand, vs) /\ Shape'
<1>1. Manual!Push(v) /\ Shape'
  BY PushRefines
<1>2. UNCHANGED <<mem, top_field>> /\ Manual!Is(name, operand)
  BY DEF Push, NoMemory, Is, Manual!Is
<1>3. QED
  BY <1>1, <1>2 DEF Manual!Load

LEMMA StoreRefines ==
    ASSUME Shape, NEW name, NEW operand, Is(name, operand), NEW ms, StoreOnly(ms)
    PROVE  Manual!Store(name, operand, ms) /\ Shape'
<1>1. fpu_stack' = fpu_stack /\ fpu_stack = [i \in Index |-> fpu_stack[i]] /\ UNCHANGED fpu_top
  BY DEF StoreOnly, Store, Shape
<1>2. Manual!Kept(ST) /\ Shape'
  BY <1>1, KeptRefines DEF ST
<1>3. mem' \in ms /\ UNCHANGED top_field /\ Manual!Is(name, operand)
  BY DEF StoreOnly, Store, Is, Manual!Is
<1>4. QED
  BY <1>2, <1>3 DEF Manual!Store, ST

LEMMA StorePopRefines ==
    ASSUME Shape, NEW name, NEW operand, Is(name, operand), NEW ms, StorePop(ms)
    PROVE  Manual!StorePop(name, operand, ms) /\ Shape'
<1>1. fpu_stack' = fpu_stack /\ fpu_stack = [i \in Index |-> fpu_stack[i]] /\ Pop
  BY DEF StorePop, Store, Shape
<1>2. Manual!Popped(ST) /\ Shape'
  BY <1>1, PopRefines DEF ST
<1>3. mem' \in ms /\ UNCHANGED top_field /\ Manual!Is(name, operand)
  BY DEF StorePop, Store, Is, Manual!Is
<1>4. QED
  BY <1>2, <1>3 DEF Manual!StorePop, ST

-------------------------------------------------------------------------------
(* The instructions.                                                         *)

\* FLD ST(i) reads the register that is ST(i) before the push.
LEMMA FldRefines ==
    ASSUME Shape, NEW i \in Index, fld_st(i)
    PROVE  Manual!Load("fld_st", i, {ST[i]}) /\ Shape'
<1>1. fpu_top \in Index
  BY DEF Shape
<1>2. below = IF fpu_top = 0 THEN Registers - 1 ELSE fpu_top - 1
  BY <1>1, BelowExact DEF below
<1>3. (fpu_top + i) % Registers
        = IF fpu_top + i < Registers THEN fpu_top + i ELSE fpu_top + i - Registers
  BY <1>1, PhysExact
<1> DEFINE x == below + 1 + i
<1>4. x = IF fpu_top = 0 THEN Registers + i ELSE fpu_top + i
  BY <1>1, <1>2 DEF Index
<1>5. x \in Int /\ -Registers <= x /\ x < 2 * Registers /\ x >= 0
  BY <1>1, <1>4 DEF Index
<1> HIDE DEF x
<1>6. x % Registers = IF x < 0 THEN x + Registers
                      ELSE IF x < Registers THEN x ELSE x - Registers
  BY <1>5, WrapNear
<1>7. x % Registers = (fpu_top + i) % Registers
  BY <1>1, <1>3, <1>4, <1>5, <1>6 DEF Index
<1>8. fpu_stack[x % Registers] \in {ST[i]}
  BY <1>7 DEF ST, phys
<1>9. Is("fld_st", i) /\ Push(fpu_stack[x % Registers])
  BY DEF fld_st, x
<1>10. QED
  BY <1>8, <1>9, LoadRefines

\* FXCH, where ST(i) may be ST(0) itself.
LEMMA FxchRefines ==
    ASSUME Shape, NEW i \in Index, fxch(i)
    PROVE  Manual!RegisterStep /\ Shape'
<1> DEFINE s1 == [fpu_stack EXCEPT ![phys(0)] = fpu_stack[phys(i)]]
           s2 == [s1 EXCEPT ![phys(i)] = st0]
           S == [ST EXCEPT ![0] = ST[i], ![i] = ST[0]]
<1>1. 0 \in Index /\ phys(0) = fpu_top /\ ST[0] = st0
  BY TopIsSt0
<1>2. fpu_stack = [j \in Index |-> fpu_stack[j]] /\ ST[i] = fpu_stack[phys(i)]
  BY DEF Shape, ST
<1>2a. \A j, k \in Index : phys(j) \in Index /\ (phys(j) = phys(k) => j = k)
  BY PhysDistinct
<1>3. s1 = [j \in Index |-> IF j = phys(0) THEN fpu_stack[phys(i)] ELSE fpu_stack[j]]
  BY <1>2
<1>4. fpu_stack' = s2 /\ UNCHANGED fpu_top
  BY <1>1 DEF fxch
<1> HIDE DEF s1
<1>5. s2 = [j \in Index |-> IF j = phys(i) THEN st0 ELSE s1[j]]
  BY <1>3
<1> HIDE DEF s2
<1>6. s2 = [j \in Index |-> s2[j]]
  BY <1>5
<1>7a. [j \in Index |-> s2[phys(j)]] = S
  <2>1. \A j \in Index : s2[phys(j)] = IF j = i THEN st0 ELSE IF j = 0 THEN fpu_stack[phys(i)]
                                       ELSE fpu_stack[phys(j)]
    BY <1>1, <1>3, <1>5, <1>2a
  <2>2. QED
    BY <1>1, <1>2, <2>1 DEF ST
<1>7. Manual!Kept(S) /\ Shape'
  BY <1>4, <1>6, <1>7a, KeptRefines
<1>8. Manual!Register /\ Manual!Is("fxch", i)
  BY DEF fxch, NoMemory, Manual!Register, Is, Manual!Is
<1> HIDE DEF S
<1>9. \E k \in Manual!Index :
        Manual!Is("fxch", k) /\ Manual!Kept([ST EXCEPT ![0] = ST[k], ![k] = ST[0]])
        /\ Manual!Register
  BY <1>7, <1>8, SameSets DEF S
<1>10. QED
  BY <1>7, <1>9 DEF Manual!RegisterStep, ST

\* FSTP ST(i): ST(0) is copied, then popped.
LEMMA FstpRefines ==
    ASSUME Shape, NEW i \in Index, fstp_st(i)
    PROVE  Manual!RegisterStep /\ Shape'
<1> DEFINE s == [fpu_stack EXCEPT ![phys(i)] = st0]
<1>1. ST[0] = st0 /\ fpu_stack = [j \in Index |-> fpu_stack[j]]
  BY TopIsSt0 DEF Shape
<1>2. fpu_stack' = s /\ Pop
  BY DEF fstp_st
<1>3. /\ s = [j \in Index |-> s[j]]
      /\ [j \in Index |-> s[phys(j)]] = [ST EXCEPT ![i] = ST[0]]
  <2>1. \A j, k \in Index : phys(j) \in Index /\ (phys(j) = phys(k) => j = k)
    BY PhysDistinct
  <2>2. s = [j \in Index |-> IF j = phys(i) THEN st0 ELSE fpu_stack[j]]
    BY <1>1
  <2> HIDE DEF s
  <2>3. s = [j \in Index |-> s[j]]
    BY <2>2
  <2>4. \A j \in Index : s[phys(j)] = IF j = i THEN st0 ELSE fpu_stack[phys(j)]
    BY <2>1, <2>2
  <2>5. QED
    BY <1>1, <2>3, <2>4 DEF ST
<1> HIDE DEF s
<1>4. Manual!Popped([ST EXCEPT ![i] = ST[0]]) /\ Shape'
  BY <1>2, <1>3, PopRefines
<1>5. Manual!Register /\ Manual!Is("fstp_st", i)
  BY DEF fstp_st, NoMemory, Manual!Register, Is, Manual!Is
<1>6. \E k \in Manual!Index :
        Manual!Is("fstp_st", k) /\ Manual!Popped([ST EXCEPT ![k] = ST[0]]) /\ Manual!Register
  BY <1>4, <1>5, SameSets
<1>7. QED
  BY <1>4, <1>6 DEF Manual!RegisterStep, ST

\* FCHS, FSQRT ...: a result replaces ST(0).
LEMMA ComputeRefines ==
    ASSUME Shape, compute
    PROVE  Manual!RegisterStep /\ Shape'
<1>1. PICK v \in Results : SetSt0(v)
  BY DEF compute
<1> DEFINE s == [fpu_stack EXCEPT ![phys(0)] = v]
<1>2. 0 \in Index /\ phys(0) = fpu_top /\ fpu_stack = [j \in Index |-> fpu_stack[j]]
  BY TopIsSt0 DEF Shape
<1>3. fpu_stack' = s /\ UNCHANGED fpu_top
  BY <1>1, <1>2 DEF SetSt0
<1>4. /\ s = [j \in Index |-> s[j]]
      /\ [j \in Index |-> s[phys(j)]] = [ST EXCEPT ![0] = v]
  <2>1. \A j, k \in Index : phys(j) \in Index /\ (phys(j) = phys(k) => j = k)
    BY PhysDistinct
  <2>2. s = [j \in Index |-> IF j = phys(0) THEN v ELSE fpu_stack[j]]
    BY <1>2
  <2> HIDE DEF s
  <2>3. s = [j \in Index |-> s[j]]
    BY <2>2
  <2>4. \A j \in Index : s[phys(j)] = IF j = 0 THEN v ELSE fpu_stack[phys(j)]
    BY <1>2, <2>1, <2>2
  <2>5. QED
    BY <1>2, <2>3, <2>4 DEF ST
<1> HIDE DEF s
<1>5. Manual!Kept([ST EXCEPT ![0] = v]) /\ Shape'
  BY <1>3, <1>4, KeptRefines
<1>6. Manual!Register /\ Manual!Is("compute", 0)
  BY <1>1 DEF compute, SetSt0, NoMemory, Manual!Register, Is, Manual!Is
<1>7. QED
  BY <1>1, <1>5, <1>6 DEF Manual!RegisterStep, ST

\* FYL2X: a result replaces ST(1), and ST(0) is popped.
LEMMA Fyl2xRefines ==
    ASSUME Shape, fyl2x
    PROVE  Manual!RegisterStep /\ Shape'
<1>1. PICK v \in Results : fpu_stack' = [fpu_stack EXCEPT ![above] = v] /\ Pop /\ NoMemory
  BY DEF fyl2x
<1> DEFINE one == 1 % Registers
           s == [fpu_stack EXCEPT ![phys(one)] = v]
<1>2. one = IF Registers = 1 THEN 0 ELSE 1
  <2>1. 0 \in Index
    BY DEF Index
  <2>2. (0 + 1) % Registers = IF 0 = Registers - 1 THEN 0 ELSE 0 + 1
    BY <2>1, BelowExact
  <2>3. QED
    BY <2>2
<1>3. one \in Index
  BY <1>2 DEF Index
<1>4. fpu_top \in Index /\ fpu_stack = [j \in Index |-> fpu_stack[j]]
  BY DEF Shape
<1> HIDE DEF one
<1>5. phys(one) = above
  <2>1. above = IF fpu_top = Registers - 1 THEN 0 ELSE fpu_top + 1
    BY <1>4, BelowExact DEF above
  <2>2. phys(one) = IF fpu_top + one < Registers THEN fpu_top + one ELSE fpu_top + one - Registers
    BY <1>3, <1>4, PhysExact DEF phys
  <2>3. QED
    BY <1>2, <1>4, <2>1, <2>2 DEF Index
<1>6. fpu_stack' = s
  BY <1>1, <1>5
<1>7. /\ s = [j \in Index |-> s[j]]
      /\ [j \in Index |-> s[phys(j)]] = [ST EXCEPT ![one] = v]
  <2>1. \A j, k \in Index : phys(j) \in Index /\ (phys(j) = phys(k) => j = k)
    BY PhysDistinct
  <2>2. s = [j \in Index |-> IF j = phys(one) THEN v ELSE fpu_stack[j]]
    BY <1>4
  <2> HIDE DEF s
  <2>3. s = [j \in Index |-> s[j]]
    BY <2>2
  <2>4. \A j \in Index : s[phys(j)] = IF j = one THEN v ELSE fpu_stack[phys(j)]
    BY <1>3, <2>1, <2>2
  <2>5. QED
    BY <1>3, <2>3, <2>4 DEF ST
<1> HIDE DEF s
<1>8. Manual!Popped([ST EXCEPT ![one] = v]) /\ Shape'
  BY <1>1, <1>6, <1>7, PopRefines
<1>9. Manual!Register /\ Manual!Is("fyl2x", 0)
  BY <1>1 DEF fyl2x, NoMemory, Manual!Register, Is, Manual!Is
<1>10. QED
  BY <1>1, <1>8, <1>9 DEF Manual!RegisterStep, ST, one

\* FINCSTP.
LEMMA PopOnlyRefines ==
    ASSUME Shape, fincstp
    PROVE  Manual!RegisterStep /\ Shape'
<1>1. fpu_stack' = fpu_stack /\ fpu_stack = [j \in Index |-> fpu_stack[j]] /\ Pop
  BY DEF fincstp, Shape
<1>2. Manual!Popped(ST) /\ Shape'
  BY <1>1, PopRefines DEF ST
<1>3. Manual!Register /\ Manual!Is("fincstp", 0)
  BY DEF fincstp, NoMemory, Manual!Register, Is, Manual!Is
<1>4. QED
  BY <1>2, <1>3 DEF Manual!RegisterStep, ST

\* FNSTSW AX reports, in TOP, how far the stack has come down.
LEMMA FnstswRefines ==
    ASSUME Shape, fnstsw_ax
    PROVE  Manual!RegisterStep /\ Shape'
<1>1. /\ top_field' = fpu_top /\ UNCHANGED <<fpu_stack, fpu_top, mem>>
      /\ Manual!Is("fnstsw_ax", 0)
  BY DEF fnstsw_ax, NoStack, Is, Manual!Is
<1>2. Shape' /\ ST' = ST /\ Depth' = Depth
  BY <1>1 DEF Shape, ST, Depth, phys
<1>3. fpu_top = (-Depth) % Registers
  <2>1. fpu_top \in Index
    BY DEF Shape
  <2>2. Depth = IF fpu_top = 0 THEN 0 ELSE Registers - fpu_top
    BY <2>1, BelowExact DEF Depth
  <2>3. Depth \in Index
    BY <2>1, <2>2 DEF Index
  <2>4. (-Depth) % Registers = IF Depth = 0 THEN 0 ELSE Registers - Depth
    BY <2>3, BelowExact
  <2> DEFINE d == Depth
  <2> HIDE DEF Depth
  <2>5. fpu_top = IF d = 0 THEN 0 ELSE Registers - d
    BY <2>1, <2>2 DEF Index
  <2>6. QED
    BY <2>4, <2>5
<1>4. QED
  BY <1>1, <1>2, <1>3 DEF Manual!RegisterStep, ST, Depth

\* The codes that have nothing to do.
LEMMA NothingRefines ==
    ASSUME Shape, Skip
    PROVE  Manual!RegisterStep /\ Shape'
<1>1. UNCHANGED <<fpu_stack, fpu_top, mem, top_field>> /\ Manual!Is("none", 0)
  BY DEF Skip, NoStack, NoMemory, Is, Manual!Is
<1>2. Shape' /\ ST' = ST /\ Depth' = Depth
  BY <1>1 DEF Shape, ST, Depth, phys
<1>3. QED
  BY <1>1, <1>2 DEF Manual!RegisterStep, ST, Depth

\* The instructions that are not carried out keep the stack a stack.
LEMMA IgnoredKeeps ==
    ASSUME Shape,
           \/ Ignored(IgnoredD9) \/ Ignored(IgnoredD9Memory) \/ Ignored(IgnoredDB)
           \/ Ignored(IgnoredDD) \/ Unhandled
    PROVE  Shape' /\ insn'[1] \in NotCarriedOut
<1>1. UNCHANGED <<fpu_stack, fpu_top>>
  BY DEF Ignored, Unhandled, NoStack
<1>2. \E name \in NotCarriedOut : insn' = <<name, 0>>
  BY DEF Ignored, Unhandled, Is, NotCarriedOut
<1>3. QED
  BY <1>1, <1>2 DEF Shape

LEMMA StubKeeps ==
    ASSUME Shape, NEW a, fld_m80 \/ fstp_m80 \/ fnstsw_m16(a)
    PROVE  Shape' /\ insn'[1] \in NotCarriedOut
<1>1. CASE fld_m80
  BY <1>1, PushRefines DEF fld_m80, Is, NotCarriedOut
<1>2. CASE fstp_m80
  <2>1. fpu_stack' = fpu_stack /\ fpu_stack = [j \in Index |-> fpu_stack[j]] /\ Pop
    BY <1>2 DEF fstp_m80, Shape
  <2>2. Shape'
    BY <2>1, PopRefines
  <2>3. QED
    BY <1>2, <2>2 DEF fstp_m80, Is, NotCarriedOut
<1>3. CASE fnstsw_m16(a)
  <2>1. Shape'
    BY <1>3 DEF fnstsw_m16, StoreOnly, Store, Shape
  <2>2. QED
    BY <1>3, <2>1 DEF fnstsw_m16, Is, NotCarriedOut
<1>4. QED
  BY <1>1, <1>2, <1>3

-------------------------------------------------------------------------------
(* The refinement.                                                           *)

\* A constant or a register is loaded, or an address is.
LEMMA LoadStepRefines ==
    ASSUME Shape,
           \/ fld_constant \/ \E i \in Index : fld_st(i)
           \/ \E a \in Address : fld_m32(a) \/ fld_m64(a) \/ fild_m16(a) \/ fild_m32(a) \/ fild_m64(a)
    PROVE  Manual!LoadStep /\ Shape'
<1>1. CASE fld_constant
  <2>1. PICK v \in Constants \cup {Zero} : Is("constant", 0) /\ Push(v)
    BY <1>1 DEF fld_constant
  <2>2. Manual!Load("constant", 0, Constants \cup {Zero}) /\ Shape'
    BY <2>1, LoadRefines
  <2>3. QED
    BY <2>2, SameSets DEF Manual!LoadStep
<1>2. ASSUME NEW i \in Index, fld_st(i) PROVE Manual!LoadStep /\ Shape'
  <2>1. Manual!Load("fld_st", i, {ST[i]}) /\ Shape'
    BY <1>2, FldRefines
  <2>2. QED
    BY <2>1, SameSets DEF Manual!LoadStep, ST
<1>3. ASSUME NEW a \in Address,
             fld_m32(a) \/ fld_m64(a) \/ fild_m16(a) \/ fild_m32(a) \/ fild_m64(a)
      PROVE  Manual!LoadStep /\ Shape'
  <2> DEFINE v1 == Widened(mem_read32(mem, a))
             v2 == mem_read64(mem, a)
             v3 == FromInt16(mem_read16(mem, a))
             v4 == FromInt(mem_read32(mem, a))
  <2>1. CASE fld_m32(a)
    <3>1. Is("fld_m32", a) /\ Push(v1) /\ v1 \in {v1}
      BY <2>1 DEF fld_m32
    <3> HIDE DEF v1
    <3>2. Manual!Load("fld_m32", a, {v1}) /\ Shape'
      BY <3>1, LoadRefines
    <3>3. QED
      BY <3>2, SameSets, SameLoads DEF Manual!LoadStep, v1
  <2>2. CASE fld_m64(a)
    <3>1. Is("fld_m64", a) /\ Push(v2) /\ v2 \in {v2}
      BY <2>2 DEF fld_m64
    <3> HIDE DEF v2
    <3>2. Manual!Load("fld_m64", a, {v2}) /\ Shape'
      BY <3>1, LoadRefines
    <3>3. QED
      BY <3>2, SameSets, SameLoads DEF Manual!LoadStep, v2
  <2>3. CASE fild_m16(a)
    <3>1. Is("fild_m16", a) /\ Push(v3) /\ v3 \in {v3}
      BY <2>3 DEF fild_m16
    <3> HIDE DEF v3
    <3>2. Manual!Load("fild_m16", a, {v3}) /\ Shape'
      BY <3>1, LoadRefines
    <3>3. QED
      BY <3>2, SameSets, SameLoads DEF Manual!LoadStep, v3
  <2>4. CASE fild_m32(a)
    <3>1. Is("fild_m32", a) /\ Push(v4) /\ v4 \in {v4}
      BY <2>4 DEF fild_m32
    <3> HIDE DEF v4
    <3>2. Manual!Load("fild_m32", a, {v4}) /\ Shape'
      BY <3>1, LoadRefines
    <3>3. QED
      BY <3>2, SameSets, SameLoads DEF Manual!LoadStep, v4
  <2>5. CASE fild_m64(a)
    <3>1. PICK v \in FromInt64(mem_read64(mem, a)) : Is("fild_m64", a) /\ Push(v)
      BY <2>5 DEF fild_m64
    <3>2. Manual!Load("fild_m64", a, FromInt64(mem_read64(mem, a))) /\ Shape'
      BY <3>1, LoadRefines
    <3>3. QED
      BY <3>2, SameSets, SameLoads DEF Manual!LoadStep
  <2>6. QED
    BY <1>3, <2>1, <2>2, <2>3, <2>4, <2>5
<1>4. QED
  BY <1>1, <1>2, <1>3

LEMMA StoreStepRefines ==
    ASSUME Shape, NEW a \in Address,
           \/ fst_m32(a) \/ fstp_m32(a) \/ fst_m64(a) \/ fstp_m64(a) \/ fist_m16(a) \/ fistp_m16(a)
           \/ fist_m32(a) \/ fistp_m32(a) \/ fistp_m64(a) \/ fnstcw(a)
    PROVE  Manual!StoreStep /\ Shape'
<1> DEFINE long == {mem_write64(mem, a, d) : d \in ToInt64(st0)}
<1>1. CASE fst_m32(a)
  <2>1. Manual!Store("fst_m32", a, AsFloat(a)) /\ Shape'
    BY <1>1, StoreRefines DEF fst_m32
  <2>2. QED
    BY <2>1, SameSets, SameStores DEF Manual!StoreStep
<1>2. CASE fstp_m32(a)
  <2>1. Manual!StorePop("fstp_m32", a, AsFloat(a)) /\ Shape'
    BY <1>2, StorePopRefines DEF fstp_m32
  <2>2. QED
    BY <2>1, SameSets, SameStores DEF Manual!StoreStep
<1>3. CASE fst_m64(a)
  <2>1. Manual!Store("fst_m64", a, AsDouble(a)) /\ Shape'
    BY <1>3, StoreRefines DEF fst_m64
  <2>2. QED
    BY <2>1, SameSets, SameStores DEF Manual!StoreStep, AsDouble, ST
<1>4. CASE fstp_m64(a)
  <2>1. Manual!StorePop("fstp_m64", a, AsDouble(a)) /\ Shape'
    BY <1>4, StorePopRefines DEF fstp_m64
  <2>2. QED
    BY <2>1, SameSets, SameStores DEF Manual!StoreStep, AsDouble, ST
<1>5. CASE fist_m16(a)
  <2>1. Manual!Store("fist_m16", a, AsInt16(a)) /\ Shape'
    BY <1>5, StoreRefines DEF fist_m16
  <2>2. QED
    BY <2>1, SameSets, SameStores DEF Manual!StoreStep
<1>6. CASE fistp_m16(a)
  <2>1. Manual!StorePop("fistp_m16", a, AsInt16(a)) /\ Shape'
    BY <1>6, StorePopRefines DEF fistp_m16
  <2>2. QED
    BY <2>1, SameSets, SameStores DEF Manual!StoreStep
<1>7. CASE fist_m32(a)
  <2>1. Manual!Store("fist_m32", a, AsInt(a)) /\ Shape'
    BY <1>7, StoreRefines DEF fist_m32
  <2>2. QED
    BY <2>1, SameSets, SameStores DEF Manual!StoreStep
<1>8. CASE fistp_m32(a)
  <2>1. Manual!StorePop("fistp_m32", a, AsInt(a)) /\ Shape'
    BY <1>8, StorePopRefines DEF fistp_m32
  <2>2. QED
    BY <2>1, SameSets, SameStores DEF Manual!StoreStep
<1>9. CASE fistp_m64(a)
  <2>1. Is("fistp_m64", a) /\ StorePop(long)
    BY <1>9 DEF fistp_m64
  <2>2. Manual!Int64(a) = long
    BY SameStores
  <2> HIDE DEF long
  <2>3. Manual!StorePop("fistp_m64", a, long) /\ Shape'
    BY <2>1, StorePopRefines
  <2>4. QED
    BY <2>2, <2>3, SameSets DEF Manual!StoreStep
<1>10. CASE fnstcw(a)
  <2>1. Manual!Store("fnstcw", a, {mem_write16(mem, a, ControlWord)}) /\ Shape'
    BY <1>10, StoreRefines DEF fnstcw
  <2>2. QED
    BY <2>1, SameSets, SameStores DEF Manual!StoreStep
<1>11. QED
  BY <1>1, <1>2, <1>3, <1>4, <1>5, <1>6, <1>7, <1>8, <1>9, <1>10

LEMMA StepRefines ==
    ASSUME Shape, [Next]_vars
    PROVE  Shape' /\ [insn'[1] \in NotCarriedOut \/ Manual!Next]_(Manual!vars)
<1>1. CASE UNCHANGED vars
  <2>1. Shape' /\ ST' = ST /\ Depth' = Depth
    BY <1>1 DEF vars, Shape, ST, Depth, phys
  <2>2. QED
    BY <1>1, <2>1 DEF vars, Manual!vars, ST, Depth
<1>2. CASE op_d9_register
  <2>1. CASE fld_constant \/ \E i \in Index : fld_st(i)
    BY <2>1, LoadStepRefines DEF Manual!Next
  <2>2. CASE \E i \in Index : fxch(i)
    BY <2>2, FxchRefines DEF Manual!Next
  <2>3. CASE compute
    BY <2>3, ComputeRefines DEF Manual!Next
  <2>4. CASE fyl2x
    BY <2>4, Fyl2xRefines DEF Manual!Next
  <2>5. CASE fincstp
    BY <2>5, PopOnlyRefines DEF Manual!Next
  <2>6. CASE Skip
    BY <2>6, NothingRefines DEF Manual!Next
  <2>7. CASE Ignored(IgnoredD9) \/ Unhandled
    BY <2>7, IgnoredKeeps
  <2>8. QED
    BY <1>2, <2>1, <2>2, <2>3, <2>4, <2>5, <2>6, <2>7 DEF op_d9_register
<1>3. ASSUME NEW a \in Address, op_d9_memory(a) \/ op_db(a) \/ op_dd(a) \/ op_df(a)
      PROVE  Shape' /\ (insn'[1] \in NotCarriedOut \/ Manual!Next)
  <2>1. CASE fld_m32(a) \/ fld_m64(a) \/ fild_m16(a) \/ fild_m32(a) \/ fild_m64(a)
    BY <2>1, LoadStepRefines DEF Manual!Next
  <2>2. CASE \/ fst_m32(a) \/ fstp_m32(a) \/ fst_m64(a) \/ fstp_m64(a) \/ fist_m16(a)
             \/ fistp_m16(a) \/ fist_m32(a) \/ fistp_m32(a) \/ fistp_m64(a) \/ fnstcw(a)
    BY <2>2, StoreStepRefines DEF Manual!Next
  <2>3. CASE fld_m80 \/ fstp_m80 \/ fnstsw_m16(a)
    BY <2>3, StubKeeps
  <2>4. CASE \E i \in Index : fstp_st(i)
    BY <2>4, FstpRefines DEF Manual!Next
  <2>5. CASE fnstsw_ax
    BY <2>5, FnstswRefines DEF Manual!Next
  <2>6. CASE Skip
    BY <2>6, NothingRefines DEF Manual!Next
  <2>7. CASE Ignored(IgnoredD9Memory) \/ Ignored(IgnoredDB) \/ Ignored(IgnoredDD) \/ Unhandled
    BY <2>7, IgnoredKeeps
  <2>8. QED
    BY <1>3, <2>1, <2>2, <2>3, <2>4, <2>5, <2>6, <2>7 DEF op_d9_memory, op_db, op_dd, op_df
<1>4. QED
  BY <1>1, <1>2, <1>3 DEF Next

LEMMA InitRefines == Init => Shape /\ Manual!Init
<1> SUFFICES ASSUME Init PROVE Shape /\ Manual!Init
  OBVIOUS
<1>1. fpu_top = 0 /\ fpu_stack = [i \in Index |-> Zero]
  BY DEF Init
<1>2. 0 \in Index
  BY DEF Index
<1>3. Shape
  BY <1>1, <1>2 DEF Shape
<1>4. \A i \in Index : phys(i) \in Index
  BY <1>3, PhysType
<1>5. ST = [i \in Index |-> Zero]
  BY <1>1, <1>4 DEF ST
<1>6. Depth = 0
  <2>1. (-fpu_top) % Registers = IF fpu_top = 0 THEN 0 ELSE Registers - fpu_top
    BY <1>1, <1>2, BelowExact
  <2>2. QED
    BY <1>1, <2>1 DEF Depth
<1>7. QED
  BY <1>3, <1>5, <1>6, SameSets DEF Init, Manual!Init, ST, Depth

\* The x87 handlers, which keep ST(0) in the register fpu_top and count it
\* round, implement the stack of ST(i) of the processor manual: every load,
\* store, exchange and pop that they carry out, past the last register too and
\* whatever came before.  The instructions of NotCarriedOut are left out.
THEOREM StackRefinesManual == Spec => ImplementsManual
<1>1. Init => Shape /\ Manual!Init
  BY InitRefines
<1>2. Shape /\ [Next]_vars
        => Shape' /\ [insn'[1] \in NotCarriedOut \/ Manual!Next]_(Manual!vars)
  BY StepRefines
<1>3. QED
  BY <1>1, <1>2, PTL DEF Spec, ImplementsManual
===============================================================================
