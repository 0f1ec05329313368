----------------------------- MODULE DecodeProofs -----------------------------
(***************************************************************************)
(* Theorems on Decode, for any depth of prefixes, any contents of the      *)
(* registers, any set of operands and any width of bytes and addresses.    *)
(***************************************************************************)
EXTENDS Decode, SequenceTheorems, TLAPS

-------------------------------------------------------------------------------
(* Arithmetic of addresses.                                                  *)

\* A multiple of the modulus does not change a remainder.
LEMMA ModMultiple ==
    ASSUME NEW w \in Nat, w > 0, NEW x \in Int, NEW q \in Int
    PROVE  (x + w * q) % w = x % w
<1>1. x = w * (x \div w) + (x % w) /\ x % w \in 0 .. w - 1 /\ x \div w \in Int
  OBVIOUS
<1>2. (x + w * q) = w * ((x + w * q) \div w) + ((x + w * q) % w)
      /\ (x + w * q) % w \in 0 .. w - 1 /\ (x + w * q) \div w \in Int
  OBVIOUS
<1> DEFINE d == (x + w * q) \div w - (x \div w) - q
           r == (x % w) - ((x + w * q) % w)
<1>3. d \in Int /\ r \in -(w - 1) .. w - 1 /\ r = w * d
  BY <1>1, <1>2
<1> HIDE DEF d, r
<1>4. r = 0
  <2>1. CASE d >= 1
    BY <1>3, <2>1
  <2>2. CASE d <= -1
    BY <1>3, <2>2
  <2>3. QED
    BY <1>3, <2>1, <2>2
<1>5. QED
  BY <1>1, <1>2, <1>4 DEF r

LEMMA ModSum ==
    ASSUME NEW w \in Nat, w > 0, NEW x \in Int, NEW y \in Int
    PROVE  ((x % w) + y) % w = (x + y) % w
<1>1. x = w * (x \div w) + (x % w) /\ x % w \in Int /\ x \div w \in Int
  OBVIOUS
<1> DEFINE r == x % w
           d == x \div w
<1>2. r + y \in Int /\ r \in Int /\ d \in Int
  BY <1>1
<1>3. x + y = (r + y) + w * d
  BY <1>1
<1> HIDE DEF r, d
<1>4. ((r + y) + w * d) % w = (r + y) % w
  BY <1>2, ModMultiple
<1>5. QED
  BY <1>3, <1>4 DEF r

-------------------------------------------------------------------------------
(* parse_modrm and resolve_rm_addr against the encoding.                     *)

Encodings == [mod: 0 .. 3, rm: 0 .. 7, base: 0 .. 7, index: 0 .. 7, scale: 0 .. 3,
              disp: 0 .. Addresses - 1]

\* parse_modrm consumes the bytes that the encoding has, for every operand.
LEMMA OperandLength ==
    ASSUME NEW e \in Encodings
    PROVE  parse_modrm(e).bytes = OperandBytes(e)
BY DEF Encodings, parse_modrm, OperandBytes, DispBytes, Bare, BaseField

\* The cast of a displacement byte is the signed displacement, up to a wrap.
LEMMA ByteDisplacement ==
    ASSUME NEW e \in Encodings
    PROVE  /\ SignExtended(e.disp) \in Int /\ Signed(e) \in Int
           /\ SignExtended(e.disp) = Signed(e) \/ SignExtended(e.disp) = Signed(e) + Addresses
<1> DEFINE B == ByteValues
           h == ByteValues \div 2
           d == e.disp
           b == d % B
<1>1. B \in Nat /\ B > 0 /\ d \in Nat /\ Addresses \in Nat
  BY DecodeAssumption DEF Encodings
<1>2. h \in Nat /\ (B = 2 * h \/ B = 2 * h + 1)
  BY <1>1
<1>3. b \in 0 .. B - 1
  BY <1>1
<1>4. (d + h) % B = (b + h) % B
  <2> HIDE DEF B, h, d
  <2>1. d \in Int /\ h \in Int
    BY <1>1, <1>2
  <2>2. ((d % B) + h) % B = (d + h) % B
    BY <1>1, <2>1, ModSum
  <2>3. QED
    BY <2>2
<1>5. (b + h) % B = IF b + h < B THEN b + h ELSE b + h - B
  BY <1>1, <1>2, <1>3
<1>6. Signed(e) = IF b + h < B THEN b ELSE b - B
  BY <1>1, <1>2, <1>3, <1>4, <1>5 DEF Signed
<1>7. SignExtended(d) = IF 2 * b >= B THEN Addresses + b - B ELSE b
  BY DEF SignExtended
<1> HIDE DEF B, h, d, b
<1>8. QED
  BY <1>1, <1>2, <1>3, <1>6, <1>7 DEF d

LEMMA ScaleType == \A k \in 0 .. 3 : 2 ^ k \in Nat
<1>1. 2 ^ 0 \in Nat /\ 2 ^ 1 \in Nat /\ 2 ^ 2 \in Nat /\ 2 ^ 3 \in Nat
  OBVIOUS
<1>2. \A k \in 0 .. 3 : k = 0 \/ k = 1 \/ k = 2 \/ k = 3
  OBVIOUS
<1>3. QED
  BY <1>1, <1>2

\* The address an encoding stands for is a remainder.
LEMMA EffectiveSum ==
    ASSUME NEW e \in Encodings
    PROVE  \E x \in Int : Effective(e) = x % Addresses
<1> DEFINE base == IF Bare(e) THEN 0 ELSE Regs[BaseField(e)]
           index == IF e.rm = 4 /\ e.index # 4 THEN Regs[e.index] * 2^e.scale ELSE 0
           disp == IF DispBytes(e) = 1 THEN Signed(e) ELSE IF DispBytes(e) = 4 THEN e.disp ELSE 0
<1>1. base \in Int
  BY DecodeAssumption DEF Encodings, BaseField
<1>2. index \in Int
  <2>1. 2^e.scale \in Nat
    BY ScaleType DEF Encodings
  <2>2. Regs[e.index] \in Nat
    BY DecodeAssumption DEF Encodings
  <2>3. Regs[e.index] * 2^e.scale \in Int
    BY <2>1, <2>2
  <2>4. QED
    BY <2>3
<1>3. disp \in Int
  BY ByteDisplacement DEF Encodings
<1>4. Effective(e) = (base + index + disp) % Addresses
  BY DEF Effective
<1> HIDE DEF base, index, disp
<1>5. base + index + disp \in Int
  BY <1>1, <1>2, <1>3
<1>6. QED
  BY <1>4, <1>5

\* Memory operands: resolve_rm_addr, segment included, finds the address the
\* encoding stands for.
LEMMA OperandAddress ==
    ASSUME NEW e \in Encodings, e.mod # 3, NEW s \in Int
    PROVE  (Address(parse_modrm(e)) + s) % Addresses = (Effective(e) + s) % Addresses
<1> DEFINE m == parse_modrm(e)
           base == IF Bare(e) THEN 0 ELSE Regs[BaseField(e)]
           index == IF e.rm = 4 /\ e.index # 4 THEN Regs[e.index] * 2^e.scale ELSE 0
           disp == IF DispBytes(e) = 1 THEN Signed(e) ELSE IF DispBytes(e) = 4 THEN e.disp ELSE 0
           wrapped == IF e.rm = 4 /\ e.index # 4 THEN index % Addresses ELSE 0
           cast == IF DispBytes(e) = 1 THEN SignExtended(e.disp) ELSE disp
<1>1. Addresses \in Nat /\ Addresses > 0
  BY DecodeAssumption
<1>2. base \in Int
  BY DecodeAssumption DEF Encodings, BaseField
<1>3. index \in Int
  <2>1. 2^e.scale \in Nat
    BY ScaleType DEF Encodings
  <2>2. Regs[e.index] \in Nat
    BY DecodeAssumption DEF Encodings
  <2> HIDE DEF index
  <2>3. QED
    BY <2>1, <2>2 DEF index
<1>4. disp \in Int /\ cast \in Int /\ (cast = disp \/ cast = disp + Addresses)
  BY <1>1, ByteDisplacement DEF Encodings, DispBytes
<1>5. wrapped \in Int /\ wrapped = index % Addresses
  BY <1>1, <1>3
<1>6. Effective(e) = (base + index + disp) % Addresses
  BY DEF Effective
<1>7. Address(m) = base + wrapped + cast
  <2>1. /\ m.enc = e
        /\ m.has_sib <=> e.rm = 4
        /\ m.has_disp <=> DispBytes(e) > 0
        /\ DispBytes(e) > 0 => m.disp = cast
    <3>1. m.enc = e
      BY DEF parse_modrm
    <3>2. m.has_sib <=> e.rm = 4
      BY DEF parse_modrm
    <3>3. m.has_disp <=> DispBytes(e) > 0
      <4> DEFINE four == e.mod = 2 \/ (e.mod = 0 /\ (e.rm = 5 \/ ((e.mod # 3 /\ e.rm = 4) /\ e.base = 5)))
                 width == IF e.mod = 1 THEN 1 ELSE IF four THEN 4 ELSE 0
      <4>1. m.has_disp <=> width > 0
        BY Zenon DEF parse_modrm
      <4>2. width > 0 <=> DispBytes(e) > 0
        BY DEF DispBytes, Bare, BaseField, Encodings
      <4>3. QED
        BY <4>1, <4>2
    <3>4. ASSUME DispBytes(e) > 0 PROVE m.disp = cast
      BY <3>4 DEF parse_modrm, DispBytes, Bare, BaseField, Encodings
    <3>5. QED
      BY <3>1, <3>2, <3>3, <3>4
  <2>2. DispBytes(e) \in Int /\ (~ DispBytes(e) > 0 => cast = 0)
    BY DEF DispBytes, Bare, BaseField, Encodings
  <2>3. CASE e.rm = 4
    <3>1. SibBase(e) = base
      BY <2>3 DEF SibBase, Bare, BaseField, Encodings
    <3>2. SibIndex(e) = wrapped
      BY <2>3 DEF SibIndex
    <3> HIDE DEF m, base, wrapped, cast
    <3>3. QED
      BY <1>2, <1>4, <1>5, <2>1, <2>2, <2>3, <3>1, <3>2 DEF Address
  <2>4. CASE e.rm # 4
    <3>1. PlainBase(e) = base /\ wrapped = 0
      BY <2>4 DEF PlainBase, Bare, BaseField, Encodings
    <3> HIDE DEF m, base, wrapped, cast
    <3>2. QED
      BY <1>2, <1>4, <1>5, <2>1, <2>2, <2>4, <3>1 DEF Address
  <2>5. QED
    BY <2>3, <2>4
<1> HIDE DEF base, index, disp, wrapped, cast, m
<1> DEFINE sum == base + index + disp
           rest == base + cast + s
           total == sum + s
<1>8. sum \in Int /\ rest \in Int /\ total \in Int
  BY <1>2, <1>3, <1>4
<1>9. /\ base + wrapped + cast + s = (index % Addresses) + rest
      /\ index + rest = total \/ index + rest = total + Addresses * 1
  BY <1>1, <1>2, <1>3, <1>4, <1>5
<1>10. total = sum + s
  OBVIOUS
<1>11. Effective(e) = sum % Addresses
  BY <1>6
<1> HIDE DEF sum, rest, total
<1>12. (Effective(e) + s) % Addresses = total % Addresses
  BY <1>1, <1>8, <1>10, <1>11, ModSum
<1>13. ((index % Addresses) + rest) % Addresses = (index + rest) % Addresses
  BY <1>1, <1>3, <1>8, ModSum
<1>14. (total + Addresses * 1) % Addresses = total % Addresses
  <2>1. \A q \in Int : (total + Addresses * q) % Addresses = total % Addresses
    BY <1>1, <1>8, ModMultiple
  <2>2. QED
    BY <2>1
<1>15. QED
  BY <1>7, <1>9, <1>12, <1>13, <1>14 DEF m
-------------------------------------------------------------------------------
(* The invariant.                                                            *)

Prefixes == {"66", "gs", "67", "none"}

\* The handlers' names and immediates.
Names == {"none", "mov_eax_mem", "movs", "inc_r32", "jmp_short",
          "ret_imm16", "mov_r32_imm32", "call_rel32", "mov_sreg_rm16",
          "lea_r32_m", "mov_r32_rm32", "add_rm32_r32", "mov_rm8_imm8",
          "op_83", "op_81", "mov_rm32_imm32"}
Imms == {"none", "imm8", "imm16", "imm32", "sized"}

\* The record of an instruction.
Records == [op : Names, imm : Imms, taken : Int, due : Int, ea : Int,
            touched : Seq(Int), seg : Nat, narrow : BOOLEAN, short : BOOLEAN]

\* The types of the variables.
Shape ==
    /\ pc \in {"fetch", "prefix", "operand", "return"}
    /\ prefixes \in Seq(Prefixes)
    /\ g_operand_size_16 \in {0, 1}
    /\ g_gs_base \in Nat /\ g_seg_override \in Nat
    /\ Address(mrm) \in Int
    /\ left \in Nat
    /\ did \in Records

\* Whatever the handlers are doing, a global that is set has a prefix handler
\* on the stack that will clear it: this is what carries the two globals
\* through the handlers' returns, where PrefixScoped says nothing of them.
Owned ==
    /\ g_operand_size_16 = 1 => InForce("66")
    /\ g_seg_override # 0 => InForce("gs")
    /\ pc = "fetch" => prefixes = <<>>

\* A handler that has not resolved its operand yet is about to resolve it to
\* the right address, where FirstAccess claims one.
FirstDue ==
    pc = "operand" /\ left > 0 /\ did.touched = <<>> /\ ~did.short /\ ~SegmentMisses =>
        (Address(mrm) + g_seg_override) % Addresses = did.ea

IInv == Shape /\ Owned /\ PrefixScoped /\ FirstDue /\ FirstAccess /\ InStep

\* The sum in resolve_rm_addr is a number, for every operand.
LEMMA AddressType ==
    ASSUME NEW e \in Encodings
    PROVE  Address(parse_modrm(e)) \in Int
<1> DEFINE m == parse_modrm(e)
<1>1. m.enc = e
  BY DEF parse_modrm
<1>2. m.disp \in Int
  <2>1. SignExtended(e.disp) \in Int /\ e.disp \in Int
    BY ByteDisplacement DEF Encodings
  <2>2. QED
    BY <2>1 DEF parse_modrm
<1>3. SibBase(e) \in Int /\ PlainBase(e) \in Int
  BY DecodeAssumption DEF SibBase, PlainBase, Encodings
<1>4. SibIndex(e) \in Int
  <2>1. 2^e.scale \in Nat
    BY ScaleType DEF Encodings
  <2>2. Regs[e.index] \in Nat
    BY DecodeAssumption DEF Encodings
  <2>3. Regs[e.index] * 2^e.scale \in Nat
    BY <2>1, <2>2
  <2>4. (Regs[e.index] * 2^e.scale) % Addresses \in Int
    BY <2>3, DecodeAssumption
  <2>5. QED
    BY <2>4 DEF SibIndex
<1> HIDE DEF m
<1>5. QED
  BY <1>1, <1>2, <1>3, <1>4 DEF Address, m

LEMMA NoOperandAddress == Address(parse_modrm(NoOperand)) \in Int
<1>1. NoOperand \in Encodings
  BY DecodeAssumption DEF NoOperand, Encodings
<1>2. QED
  BY <1>1, AddressType

\* A prefix handler adds its own prefix to those in force, and takes it away
\* when it returns.
LEMMA PrefixPushed ==
    ASSUME Shape, NEW p \in Prefixes, prefixes' = Append(prefixes, p), NEW q
    PROVE  InForce(q)' <=> InForce(q) \/ p = q
<1>1. /\ Len(prefixes) \in Nat /\ Len(prefixes') = Len(prefixes) + 1
      /\ \A n \in 1 .. Len(prefixes) : prefixes'[n] = prefixes[n]
      /\ prefixes'[Len(prefixes) + 1] = p
  BY DEF Shape
<1>2. QED
  BY <1>1 DEF InForce

LEMMA PrefixPopped ==
    ASSUME Shape, prefixes # <<>>, prefixes' = SubSeq(prefixes, 1, Len(prefixes) - 1)
    PROVE  /\ prefixes' \in Seq(Prefixes)
           /\ prefixes[Len(prefixes)] \in Prefixes
           /\ \A q : InForce(q) /\ prefixes[Len(prefixes)] # q => InForce(q)'
<1>1. Len(prefixes) \in Nat /\ Len(prefixes) > 0
  BY DEF Shape
<1>2. /\ Len(prefixes') = Len(prefixes) - 1
      /\ \A n \in 1 .. Len(prefixes) - 1 : prefixes'[n] = prefixes[n]
      /\ prefixes' \in Seq(Prefixes)
  <2> DEFINE k == Len(prefixes) - 1
  <2>1. k \in Int /\ k >= 0
    BY <1>1
  <2>2. \A n \in 1 .. k : prefixes[n] \in Prefixes
    BY <1>1 DEF Shape
  <2> HIDE DEF k
  <2>3. /\ SubSeq(prefixes, 1, k) \in Seq(Prefixes)
        /\ Len(SubSeq(prefixes, 1, k)) = IF 1 <= k THEN k - 1 + 1 ELSE 0
        /\ \A n \in 1 .. k - 1 + 1 : SubSeq(prefixes, 1, k)[n] = prefixes[1 + n - 1]
    BY <2>1, <2>2, SubSeqProperties
  <2>4. prefixes' = SubSeq(prefixes, 1, k)
    BY DEF k
  <2>5. Len(prefixes') = k /\ \A n \in 1 .. k : prefixes'[n] = prefixes[n]
    BY <2>1, <2>3, <2>4
  <2>6. QED
    BY <2>3, <2>4, <2>5 DEF k
<1>3. prefixes[Len(prefixes)] \in Prefixes
  BY <1>1 DEF Shape
<1>4. ASSUME NEW q, InForce(q), prefixes[Len(prefixes)] # q
      PROVE  InForce(q)'
  <2>1. PICK n \in 1 .. Len(prefixes) : prefixes[n] = q
    BY <1>4 DEF InForce
  <2>2. n \in 1 .. Len(prefixes')
    BY <1>1, <1>2, <1>4, <2>1
  <2>3. QED
    BY <1>1, <1>2, <2>1, <2>2 DEF InForce
<1>5. QED
  BY <1>2, <1>3, <1>4

\* What a handler about to run finds in the globals.
LEMMA AtOpcode ==
    ASSUME IInv, Reading
    PROVE  /\ g_operand_size_16 = 1 <=> InForce("66")
           /\ g_seg_override = SegmentBase /\ SegmentBase \in Nat
<1>1. CASE pc = "fetch"
  <2>1. ~ InForce("66") /\ ~ InForce("gs")
    BY <1>1 DEF IInv, Owned, InForce
  <2>2. QED
    BY <1>1, <2>1 DEF IInv, PrefixScoped, SegmentBase, Shape
<1>2. CASE pc = "prefix"
  BY <1>2 DEF IInv, PrefixScoped, SegmentBase, Shape
<1>3. QED
  BY <1>1, <1>2 DEF Reading

\* The record of an instruction that runs has its type.
LEMMA DidType ==
    ASSUME NEW i, i.op \in Names, i.imm \in Imms, NEW mod \in Int,
           NEW taken \in Int, NEW due \in Int, NEW ea \in Int,
           NEW touched \in Seq(Int), SegmentBase \in Nat
    PROVE  Did(i, mod, taken, due, ea, touched) \in Records
<1>1. (ea + SegmentOf(i)) % Addresses \in Int
  BY DecodeAssumption DEF SegmentOf
<1>2. InForce("66") \in BOOLEAN /\ (mod # 3 /\ InForce("67")) \in BOOLEAN
  BY DEF InForce
<1>3. QED
  BY <1>1, <1>2 DEF Did, Records

\* An instruction that is not recorded.
LEMMA NoDidType ==
    ASSUME SegmentBase \in Nat
    PROVE  /\ NoDid \in Records /\ NoDid.taken = NoDid.due /\ NoDid.touched = <<>>
<1>1. NoInsn.op \in Names /\ NoInsn.imm \in Imms /\ <<>> \in Seq(Int) /\ 0 \in Int
      /\ 3 \in Int
  BY DEF NoInsn, Insn, Names, Imms
<1>2. NoDid \in Records
  BY <1>1, DidType DEF NoDid
<1>3. NoDid.taken = NoDid.due /\ NoDid.touched = <<>>
  BY DEF NoDid, Did
<1>4. QED
  BY <1>2, <1>3

-------------------------------------------------------------------------------
(* The steps.                                                                *)

\* A prefix handler starts.
LEMMA PrefixStep ==
    ASSUME IInv, op_prefix_66 \/ op_prefix_gs \/ op_prefix_67 \/ op_prefix_none
    PROVE  IInv'
<1>1. PICK p \in Prefixes :
        /\ Prefix(p)
        /\ g_operand_size_16' = IF p = "66" THEN 1 ELSE g_operand_size_16
        /\ g_seg_override' = IF p = "gs" THEN g_gs_base ELSE g_seg_override
  BY DEF Prefixes, op_prefix_66, op_prefix_gs, op_prefix_67, op_prefix_none
<1> USE DEF Prefix
<1>2. Shape
  BY DEF IInv
<1>3. \A q : InForce(q)' <=> InForce(q) \/ p = q
  BY <1>1, <1>2, PrefixPushed
<1>4. /\ g_operand_size_16 = 1 <=> InForce("66")
      /\ g_seg_override = SegmentBase /\ SegmentBase \in Nat
  BY <1>1, AtOpcode
<1>5. Shape'
  <2>1. prefixes' \in Seq(Prefixes)
    BY <1>1, <1>2 DEF Shape
  <2>2. (Address(mrm) \in Int)'
    BY <1>1, <1>2 DEF Shape, Address
  <2>3. QED
    BY <1>1, <1>2, <2>1, <2>2 DEF Shape
<1>6. (g_operand_size_16 = 1 <=> InForce("66"))' /\ (g_seg_override = SegmentBase)'
  BY <1>1, <1>2, <1>3, <1>4 DEF SegmentBase, Shape
<1>7. Owned' /\ PrefixScoped' /\ FirstDue'
  BY <1>1, <1>6 DEF Owned, PrefixScoped, FirstDue, SegmentBase
<1>8. FirstAccess' /\ InStep'
  BY <1>1 DEF IInv, FirstAccess, InStep, SegmentMisses
<1>9. QED
  BY <1>5, <1>7, <1>8 DEF IInv

\* A handler starts: the facts that hold whichever handler it is.
LEMMA ExecuteStep ==
    ASSUME IInv, NEW d, NEW m, NEW resolves \in Nat, Execute(d, m, resolves),
           g_seg_override' \in {0, g_seg_override}, g_gs_base' \in Nat
    PROVE  /\ Owned' /\ PrefixScoped'
           /\ (d \in Records /\ Address(m) \in Int) => Shape'
<1>1. /\ g_operand_size_16 = 1 <=> InForce("66")
      /\ g_seg_override = SegmentBase /\ SegmentBase \in Nat
  BY AtOpcode DEF Execute
<1>2. \A q : InForce(q)' <=> InForce(q)
  BY DEF Execute, InForce
<1>3. Owned' /\ PrefixScoped'
  BY <1>1, <1>2 DEF Execute, Owned, PrefixScoped, SegmentBase
<1>4. ASSUME d \in Records, Address(m) \in Int
      PROVE  Shape'
  <2>1. Address(mrm)' = Address(m)
    BY DEF Execute, Address
  <2>2. QED
    BY <1>4, <2>1 DEF IInv, Shape, Execute
<1>5. QED
  BY <1>3, <1>4

\* The immediate of a handler: consumed as encoded, but for an imm32 behind the
\* operand size prefix.
LEMMA Immediate ==
    ASSUME NEW i \in Handlers, g_operand_size_16 = 1 <=> InForce("66")
    PROVE  /\ Consumed(i) \in Int /\ Encoded(i) \in Int
           /\ i.op \in Names /\ i.imm \in Imms /\ i.resolves \in Nat
           /\ Consumed(i) = Encoded(i) \/ (InForce("66") /\ i.imm = "imm32")
<1>1. /\ i.imm \in Imms
      /\ i.op \in Names /\ i.resolves \in Nat
  <2>1. CASE i = Insn("inc_r32", FALSE, 0, "none")
    BY <2>1 DEF Insn, Names, Imms
  <2>2. CASE i = Insn("jmp_short", FALSE, 0, "imm8")
    BY <2>2 DEF Insn, Names, Imms
  <2>3. CASE i = Insn("ret_imm16", FALSE, 0, "imm16")
    BY <2>3 DEF Insn, Names, Imms
  <2>4. CASE i = Insn("mov_r32_imm32", FALSE, 0, "imm32")
    BY <2>4 DEF Insn, Names, Imms
  <2>5. CASE i = Insn("call_rel32", FALSE, 0, "imm32")
    BY <2>5 DEF Insn, Names, Imms
  <2>6. CASE i = Insn("mov_sreg_rm16", TRUE, 0, "none")
    BY <2>6 DEF Insn, Names, Imms
  <2>7. CASE i = Insn("lea_r32_m", TRUE, 1, "none")
    BY <2>7 DEF Insn, Names, Imms
  <2>8. CASE i = Insn("mov_r32_rm32", TRUE, 1, "none")
    BY <2>8 DEF Insn, Names, Imms
  <2>9. CASE i = Insn("add_rm32_r32", TRUE, 2, "none")
    BY <2>9 DEF Insn, Names, Imms
  <2>10. CASE i = Insn("mov_rm8_imm8", TRUE, 1, "imm8")
    BY <2>10 DEF Insn, Names, Imms
  <2>11. CASE i = Insn("op_83", TRUE, 2, "imm8")
    BY <2>11 DEF Insn, Names, Imms
  <2>12. CASE i = Insn("op_81", TRUE, 2, "sized")
    BY <2>12 DEF Insn, Names, Imms
  <2>13. CASE i = Insn("mov_rm32_imm32", TRUE, 1, "imm32")
    BY <2>13 DEF Insn, Names, Imms
  <2>14. QED
    BY <2>1, <2>2, <2>3, <2>4, <2>5, <2>6, <2>7, <2>8, <2>9, <2>10, <2>11, <2>12, <2>13 DEF Handlers
<1>2. Consumed(i) \in Int /\ Encoded(i) \in Int
  BY <1>1 DEF Imms, Consumed, Encoded
<1>3. ASSUME i.imm # "imm32" \/ ~ InForce("66")
      PROVE  Consumed(i) = Encoded(i)
  BY <1>1, <1>3 DEF Imms, Consumed, Encoded
<1>4. QED
  BY <1>1, <1>2, <1>3

\* A handler with a ModRM operand.
LEMMA ModrmStep ==
    ASSUME IInv, NEW i \in Handlers, NEW e \in Operands, execute_modrm(i, e)
    PROVE  IInv'
<1> DEFINE m == parse_modrm(e)
           taken == m.bytes + Consumed(i)
           due == OperandDue(e) + Encoded(i)
           d == Did(i, e.mod, taken, due, Effective(e), <<>>)
           resolves == IF e.mod = 3 THEN 0 ELSE i.resolves
<1>1. e \in Encodings
  BY DecodeAssumption DEF Encodings
<1>2. /\ Execute(d, m, resolves)
      /\ UNCHANGED <<g_seg_override, g_gs_base, halted>>
  BY DEF execute_modrm
<1>3. /\ g_operand_size_16 = 1 <=> InForce("66")
      /\ g_seg_override = SegmentBase /\ SegmentBase \in Nat
  BY <1>2, AtOpcode DEF Execute
<1>4. /\ Consumed(i) \in Int /\ Encoded(i) \in Int
      /\ i.op \in Names /\ i.imm \in Imms /\ i.resolves \in Nat
      /\ Consumed(i) = Encoded(i) \/ (InForce("66") /\ i.imm = "imm32")
  BY <1>3, Immediate
<1>5. /\ m.bytes \in Int /\ OperandDue(e) \in Int
      /\ m.bytes = OperandDue(e) \/ (e.mod # 3 /\ InForce("67"))
  <2>1. OperandBytes(e) \in Int
    BY <1>1 DEF OperandBytes, DispBytes, Bare, BaseField, Encodings
  <2>2. m.bytes = OperandBytes(e)
    BY <1>1, OperandLength
  <2>3. ShortOperandBytes(e) \in Int
    BY <1>1 DEF ShortOperandBytes, Encodings
  <2>4. e.mod = 3 => ShortOperandBytes(e) = OperandBytes(e)
    BY <1>1 DEF ShortOperandBytes, OperandBytes, DispBytes, Bare, BaseField, Encodings
  <2> HIDE DEF m
  <2>5. QED
    BY <2>1, <2>2, <2>3, <2>4 DEF OperandDue
<1>6. /\ taken \in Int /\ due \in Int
      /\ taken = due \/ (e.mod # 3 /\ InForce("67")) \/ (InForce("66") /\ i.imm = "imm32")
  <2> HIDE DEF m
  <2>1. QED
    BY <1>4, <1>5
<1>7. Effective(e) \in Int
  <2>1. PICK x \in Int : Effective(e) = x % Addresses
    BY <1>1, EffectiveSum
  <2>2. QED
    BY <2>1, DecodeAssumption
<1>8. Address(m) \in Int
  BY <1>1, AddressType
<1>9. resolves \in Nat
  BY <1>4
<1>10. (Address(m) + SegmentBase) % Addresses = (Effective(e) + SegmentBase) % Addresses
          \/ e.mod = 3
  BY <1>1, <1>3, OperandAddress
<1> HIDE DEF m, taken, due
<1>11. /\ d \in Records
       /\ d.op = i.op /\ d.imm = i.imm /\ d.taken = taken /\ d.due = due
       /\ d.touched = <<>> /\ d.seg = SegmentBase /\ d.narrow = InForce("66")
       /\ d.short = (e.mod # 3 /\ InForce("67"))
       /\ d.ea = (Effective(e) + SegmentOf(i)) % Addresses
  <2>1. <<>> \in Seq(Int) /\ e.mod \in Int
    BY <1>1 DEF Encodings
  <2>2. d \in Records
    BY <1>3, <1>4, <1>6, <1>7, <2>1, DidType
  <2>3. QED
    BY <2>2 DEF Did
<1>12. ~(d.seg # 0 /\ d.op \in {"lea_r32_m", "movs"}) => SegmentOf(i) = SegmentBase
  BY <1>11 DEF SegmentOf
<1> HIDE DEF d, resolves
<1>13. Shape' /\ Owned' /\ PrefixScoped'
  <2>1. g_seg_override' \in {0, g_seg_override} /\ g_gs_base' \in Nat
    BY <1>2 DEF IInv, Shape
  <2>2. QED
    BY <1>2, <1>8, <1>9, <1>11, <2>1, ExecuteStep
<1>14. did' = d /\ mrm' = m /\ left' = resolves
  BY <1>2 DEF Execute
<1>15. FirstDue'
  <2>1. Address(mrm)' = Address(m)
    BY <1>14 DEF Address
  <2>2. resolves > 0 => e.mod # 3
    BY DEF resolves
  <2>3. QED
    BY <1>2, <1>3, <1>10, <1>11, <1>12, <1>14, <2>1, <2>2 DEF FirstDue, SegmentMisses
<1>16. FirstAccess'
  BY <1>11, <1>14 DEF FirstAccess
<1>17. InStep'
  BY <1>6, <1>11, <1>14 DEF InStep
<1>18. QED
  BY <1>13, <1>15, <1>16, <1>17 DEF IInv

\* A handler that makes no use of ModRM.
LEMMA OtherStep ==
    ASSUME IInv, NEW d \in Records, Execute(d, mrm, 0),
           g_seg_override' \in {0, g_seg_override}, g_gs_base' \in Nat,
           d.taken = d.due \/ d.short \/ (d.narrow /\ d.imm = "imm32"),
           d.touched = <<>> \/ d.touched[1] = d.ea
               \/ (d.seg # 0 /\ d.op \in {"lea_r32_m", "movs"})
    PROVE  IInv'
<1>1. Shape' /\ Owned' /\ PrefixScoped'
  <2>1. Address(mrm) \in Int /\ 0 \in Nat
    BY DEF IInv, Shape
  <2>2. QED
    BY <2>1, ExecuteStep
<1>2. did' = d /\ left' = 0
  BY DEF Execute
<1>3. FirstDue' /\ FirstAccess'
  BY <1>2 DEF FirstDue, FirstAccess, SegmentMisses
<1>4. InStep'
  BY <1>2 DEF InStep
<1>5. QED
  BY <1>1, <1>3, <1>4 DEF IInv

LEMMA PlainStep ==
    ASSUME IInv, NEW i \in Handlers, execute_plain(i)
    PROVE  IInv'
<1> DEFINE d == Did(i, 3, Consumed(i), Encoded(i), 0, <<>>)
<1>1. (g_operand_size_16 = 1 <=> InForce("66")) /\ SegmentBase \in Nat
  BY AtOpcode DEF execute_plain, Execute
<1>2. /\ Consumed(i) \in Int /\ Encoded(i) \in Int /\ i.op \in Names /\ i.imm \in Imms
      /\ Consumed(i) = Encoded(i) \/ (InForce("66") /\ i.imm = "imm32")
  BY <1>1, Immediate
<1>3. /\ d \in Records /\ d.touched = <<>> /\ d.imm = i.imm /\ d.narrow = InForce("66")
      /\ d.taken = Consumed(i) /\ d.due = Encoded(i)
  <2>1. <<>> \in Seq(Int) /\ 0 \in Int /\ 3 \in Int
    OBVIOUS
  <2>2. d \in Records
    BY <1>1, <1>2, <2>1, DidType
  <2>3. QED
    BY <2>2 DEF Did
<1>4. g_gs_base' \in Nat /\ g_seg_override' = g_seg_override /\ Execute(d, mrm, 0)
  BY DEF execute_plain, IInv, Shape
<1> HIDE DEF d
<1>5. QED
  BY <1>2, <1>3, <1>4, OtherStep

LEMMA SystemStep ==
    ASSUME IInv, (\E b \in GsBases : set_gs_base(b)) \/ op_unimplemented
    PROVE  IInv'
<1>1. Execute(NoDid, mrm, 0) /\ g_seg_override' = g_seg_override
  BY DEF set_gs_base, op_unimplemented
<1>2. g_gs_base' \in Nat
  BY DecodeAssumption DEF set_gs_base, op_unimplemented, IInv, Shape
<1>3. SegmentBase \in Nat
  BY <1>1, AtOpcode DEF Execute
<1>4. QED
  BY <1>1, <1>2, <1>3, NoDidType, OtherStep

LEMMA MovEaxStep ==
    ASSUME IInv, NEW a \in Nat, op_mov_eax_mem(a)
    PROVE  IInv'
<1> DEFINE to == (a + g_seg_override) % Addresses
           d == Did(MovEax, 0, 4, AddressDue, a, <<to>>)
<1>1. Execute(d, mrm, 0) /\ g_seg_override' = 0 /\ UNCHANGED g_gs_base
  BY DEF op_mov_eax_mem
<1>2. g_seg_override = SegmentBase /\ SegmentBase \in Nat
  BY <1>1, AtOpcode DEF Execute
<1>3. to \in Int
  BY <1>2, DecodeAssumption
<1>4. /\ MovEax.op = "mov_eax_mem" /\ MovEax.imm = "none"
      /\ MovEax.op \in Names /\ MovEax.imm \in Imms
  BY DEF MovEax, Insn, Names, Imms
<1>5. AddressDue \in Int /\ (AddressDue = 4 \/ InForce("67"))
  BY DEF AddressDue
<1>6. (a + SegmentOf(MovEax)) % Addresses = to
  BY <1>2, <1>4 DEF SegmentOf
<1>7. /\ d \in Records /\ d.taken = 4 /\ d.due = AddressDue /\ d.touched = <<to>>
      /\ (d.short <=> InForce("67")) /\ d.ea = to
  <2>1. <<to>> \in Seq(Int) /\ 0 \in Int /\ 4 \in Int /\ a \in Int
    BY <1>3
  <2> HIDE DEF to
  <2>2. d \in Records
    BY <1>2, <1>4, <1>5, <2>1, DidType
  <2>3. /\ d.taken = 4 /\ d.due = AddressDue /\ d.touched = <<to>>
        /\ d.short = (0 # 3 /\ InForce("67")) /\ d.ea = (a + SegmentOf(MovEax)) % Addresses
    BY DEF Did
  <2> HIDE DEF d
  <2>4. d.short <=> InForce("67")
    <3>1. 0 # 3
      OBVIOUS
    <3>2. QED
      BY <2>3, <3>1, Zenon
  <2>5. QED
    BY <1>6, <2>2, <2>3, <2>4
<1> HIDE DEF d, to
<1>8. g_gs_base' \in Nat /\ g_seg_override' \in {0, g_seg_override}
  BY <1>1 DEF IInv, Shape
<1>9. QED
  BY <1>1, <1>5, <1>7, <1>8, OtherStep

LEMMA MovsStep ==
    ASSUME IInv, NEW touched \in {<<>>, <<Regs[6]>>}, op_movs(touched)
    PROVE  IInv'
<1> DEFINE d == Did(Movs, 0, 0, 0, Regs[6], touched)
<1>1. Execute(d, mrm, 0) /\ g_seg_override' = g_seg_override /\ UNCHANGED g_gs_base
  BY DEF op_movs
<1>2. SegmentBase \in Nat
  BY <1>1, AtOpcode DEF Execute
<1>3. Regs[6] \in Nat /\ Regs[6] < Addresses /\ Addresses \in Nat
  BY DecodeAssumption
<1>4. /\ Movs.op = "movs" /\ Movs.imm = "none"
      /\ Movs.op \in Names /\ Movs.imm \in Imms
  BY DEF Movs, Insn, Names, Imms
<1>5. SegmentOf(Movs) = SegmentBase
  BY <1>4 DEF SegmentOf
<1>6. SegmentBase = 0 => (Regs[6] + SegmentBase) % Addresses = Regs[6]
  BY <1>2, <1>3
<1>7. /\ d \in Records /\ d.taken = 0 /\ d.due = 0 /\ d.touched = touched
      /\ d.op = "movs" /\ d.seg = SegmentBase
      /\ d.ea = (Regs[6] + SegmentBase) % Addresses
  <2>1. touched \in Seq(Int) /\ 0 \in Int /\ Regs[6] \in Int
    <3>1. CASE touched = <<>>
      BY <1>3, <3>1
    <3>2. CASE touched = <<Regs[6]>>
      BY <1>3, <3>2
    <3>3. QED
      BY <3>1, <3>2
  <2>2. d \in Records
    BY <1>2, <1>4, <2>1, DidType
  <2>3. QED
    BY <1>4, <1>5, <2>2 DEF Did
<1> HIDE DEF d
<1>8. touched = <<>> \/ touched[1] = Regs[6]
  OBVIOUS
<1>9. g_gs_base' \in Nat /\ g_seg_override' \in {0, g_seg_override}
  BY <1>1 DEF IInv, Shape
<1>10. QED
  BY <1>1, <1>6, <1>7, <1>8, <1>9, OtherStep

LEMMA AppendFirst ==
    ASSUME NEW s \in Seq(Int), NEW x \in Int
    PROVE  /\ Append(s, x) \in Seq(Int) /\ Append(s, x) # <<>>
           /\ Append(s, x)[1] = IF s = <<>> THEN x ELSE s[1]
<1>1. CASE s = <<>>
  BY <1>1
<1>2. CASE s # <<>>
  <2>1. Len(s) \in Nat /\ Len(s) > 0
    BY <1>2
  <2>2. QED
    BY <1>2, <2>1
<1>3. QED
  BY <1>1, <1>2

\* A handler resolves its operand, for the first time or again.
LEMMA ResolveStep ==
    ASSUME IInv, resolve_rm_addr
    PROVE  IInv'
<1> DEFINE to == (Address(mrm) + g_seg_override) % Addresses
<1>1. /\ pc = "operand" /\ left > 0 /\ g_seg_override' = 0 /\ left' = left - 1
      /\ did' = [did EXCEPT !.touched = Append(did.touched, to)]
      /\ UNCHANGED <<pc, prefixes, g_operand_size_16, g_gs_base, mrm, halted>>
  BY DEF resolve_rm_addr
<1>2. Shape
  BY DEF IInv
<1>3. to \in Int
  <2>1. Address(mrm) + g_seg_override \in Int
    BY <1>2 DEF Shape
  <2>2. QED
    BY <2>1, DecodeAssumption
<1>4. did.touched = <<>> /\ ~did.short /\ ~SegmentMisses => to = did.ea
  BY <1>1 DEF IInv, FirstDue
<1> HIDE DEF to
<1> DEFINE t == Append(did.touched, to)
<1>5. /\ t \in Seq(Int) /\ t # <<>>
      /\ t[1] = IF did.touched = <<>> THEN to ELSE did.touched[1]
  <2>1. did.touched \in Seq(Int)
    BY <1>2 DEF Shape, Records
  <2>2. QED
    BY <1>3, <2>1, AppendFirst
<1> HIDE DEF t
<1>6. /\ did'.touched = t /\ did'.ea = did.ea /\ did'.taken = did.taken
      /\ did'.due = did.due /\ did'.narrow = did.narrow /\ did'.op = did.op
      /\ did'.imm = did.imm /\ did'.seg = did.seg /\ did'.short = did.short
      /\ did' \in Records
  BY <1>1, <1>2, <1>5 DEF Shape, t, Records
<1>7. Shape'
  <2>1. Address(mrm)' = Address(mrm)
    BY <1>1 DEF Address
  <2>2. left' \in Nat
    BY <1>1, <1>2 DEF Shape
  <2>3. QED
    BY <1>1, <1>2, <1>6, <2>1, <2>2 DEF Shape
<1>8. Owned' /\ PrefixScoped'
  <2>1. \A q : InForce(q)' <=> InForce(q)
    BY <1>1 DEF InForce
  <2>2. QED
    BY <1>1, <2>1 DEF IInv, Owned, PrefixScoped
<1>9. FirstDue'
  BY <1>5, <1>6 DEF FirstDue
<1>10. FirstAccess'
  BY <1>4, <1>5, <1>6 DEF IInv, FirstAccess, SegmentMisses
<1>11. InStep'
  BY <1>6 DEF IInv, InStep
<1>12. QED
  BY <1>7, <1>8, <1>9, <1>10, <1>11 DEF IInv

\* The handler returns into a prefix handler, which undoes its own effect.
LEMMA ReturnStep ==
    ASSUME IInv, return_to_prefix
    PROVE  IInv'
<1> DEFINE p == prefixes[Len(prefixes)]
<1>1. /\ prefixes # <<>> /\ prefixes' = SubSeq(prefixes, 1, Len(prefixes) - 1)
      /\ g_operand_size_16' = SizeAfter(p) /\ g_seg_override' = SegAfter(p)
      /\ pc' = "return" /\ UNCHANGED <<g_gs_base, mrm, left, halted, did>>
  BY DEF return_to_prefix
<1>2. Shape
  BY DEF IInv
<1>3. /\ prefixes' \in Seq(Prefixes)
      /\ \A q : InForce(q) /\ p # q => InForce(q)'
  BY <1>1, <1>2, PrefixPopped
<1> HIDE DEF p
<1>4. Shape'
  <2>1. Address(mrm)' = Address(mrm)
    BY <1>1 DEF Address
  <2>2. QED
    BY <1>1, <1>2, <1>3, <2>1 DEF Shape, SizeAfter, SegAfter
<1>5. Owned'
  BY <1>1, <1>3 DEF IInv, Owned, SizeAfter, SegAfter
<1>6. PrefixScoped' /\ FirstDue'
  BY <1>1 DEF PrefixScoped, FirstDue
<1>7. FirstAccess' /\ InStep'
  BY <1>1 DEF IInv, FirstAccess, InStep, SegmentMisses
<1>8. QED
  BY <1>4, <1>5, <1>6, <1>7 DEF IInv

\* The last handler returns into the loop.
LEMMA LoopStep ==
    ASSUME IInv, return_to_emulate
    PROVE  IInv'
<1>1. /\ prefixes = <<>> /\ pc' = "fetch" /\ mrm' = parse_modrm(NoOperand) /\ did' = NoDid
      /\ UNCHANGED <<prefixes, g_operand_size_16, g_seg_override, g_gs_base, left, halted>>
  BY DEF return_to_emulate
<1>2. Shape /\ Owned
  BY DEF IInv
<1>3. ~ InForce("66") /\ ~ InForce("gs") /\ ~ InForce("66")' /\ ~ InForce("gs")'
  BY <1>1 DEF InForce
<1>4. g_operand_size_16 = 0 /\ g_seg_override = 0
  BY <1>2, <1>3 DEF Shape, Owned
<1>5. NoDid \in Records /\ NoDid.taken = NoDid.due /\ NoDid.touched = <<>>
  <2>1. SegmentBase \in Nat
    BY <1>2 DEF SegmentBase, Shape
  <2>2. QED
    BY <2>1, NoDidType
<1>6. Shape'
  <2>1. (Address(mrm) \in Int)'
    BY <1>1, NoOperandAddress DEF Address
  <2>2. QED
    BY <1>1, <1>2, <1>5, <2>1 DEF Shape
<1>7. Owned' /\ PrefixScoped' /\ FirstDue'
  BY <1>1, <1>3, <1>4 DEF Owned, PrefixScoped, FirstDue
<1>8. FirstAccess' /\ InStep'
  BY <1>1, <1>5 DEF FirstAccess, InStep
<1>9. QED
  BY <1>6, <1>7, <1>8 DEF IInv

-------------------------------------------------------------------------------
(* The theorems.                                                             *)

LEMMA InitIInv == Init => IInv
<1> SUFFICES ASSUME Init PROVE IInv
  OBVIOUS
<1>1. /\ pc = "fetch" /\ prefixes = <<>> /\ g_operand_size_16 = 0 /\ g_seg_override = 0
      /\ g_gs_base = 0 /\ mrm = parse_modrm(NoOperand) /\ left = 0 /\ did = NoDid
  BY DEF Init
<1>2. ~ InForce("66") /\ ~ InForce("gs")
  BY <1>1 DEF InForce
<1>3. NoDid \in Records /\ NoDid.taken = NoDid.due /\ NoDid.touched = <<>>
  <2>1. SegmentBase \in Nat
    BY <1>2 DEF SegmentBase
  <2>2. QED
    BY <2>1, NoDidType
<1>4. Shape
  <2>1. Address(mrm) \in Int
    BY <1>1, NoOperandAddress
  <2>2. QED
    BY <1>1, <1>3, <2>1 DEF Shape
<1>5. Owned /\ PrefixScoped /\ FirstDue
  BY <1>1, <1>2 DEF Owned, PrefixScoped, FirstDue
<1>6. FirstAccess /\ InStep
  BY <1>1, <1>3 DEF FirstAccess, InStep
<1>7. QED
  BY <1>4, <1>5, <1>6 DEF IInv

LEMMA NextIInv == IInv /\ [Next]_vars => IInv'
<1> SUFFICES ASSUME IInv, [Next]_vars PROVE IInv'
  OBVIOUS
<1>1. CASE op_prefix_66 \/ op_prefix_gs \/ op_prefix_67 \/ op_prefix_none
  BY <1>1, PrefixStep
<1>2. CASE \E i \in Handlers, e \in Operands : execute_modrm(i, e)
  BY <1>2, ModrmStep
<1>3. CASE \E i \in Handlers : execute_plain(i)
  BY <1>3, PlainStep
<1>4. CASE \E e \in Operands : op_mov_eax_mem(e.disp)
  <2>1. \A e \in Operands : e.disp \in Nat
    BY DecodeAssumption
  <2>2. QED
    BY <1>4, <2>1, MovEaxStep
<1>5. CASE (\E b \in GsBases : set_gs_base(b)) \/ op_unimplemented
  BY <1>5, SystemStep
<1>6. CASE resolve_rm_addr
  BY <1>6, ResolveStep
<1>7. CASE return_to_prefix
  BY <1>7, ReturnStep
<1>8. CASE return_to_emulate
  BY <1>8, LoopStep
<1>9. CASE \E touched \in {<<>>, <<Regs[6]>>} : op_movs(touched)
  BY <1>9, MovsStep
<1>10. CASE UNCHANGED vars
  BY <1>10 DEF vars, IInv, Shape, Owned, PrefixScoped, FirstDue, FirstAccess, InStep,
             InForce, SegmentBase, SegmentMisses, Address
<1>11. QED
  BY <1>1, <1>2, <1>3, <1>4, <1>5, <1>6, <1>7, <1>8, <1>9, <1>10 DEF Next, Stopped

\* However prefixes nest, a handler sees the operand size and the segment its
\* own prefixes ask for (op_prefix_66 and op_prefix_gs set the globals, run the
\* next opcode and clear them), and no instruction leaves them to the next.
THEOREM PrefixesScoped == Spec => []PrefixScoped
<1>1. IInv => PrefixScoped
  BY DEF IInv
<1>2. QED
  BY <1>1, InitIInv, NextIInv, PTL DEF Spec

\* A handler first addresses its operand where the i386 does: parse_modrm and
\* resolve_rm_addr add base, scaled index, signed displacement and segment right
\* for every operand, any contents of the registers and any prefixes, but for
\* 16-bit addressing and for a GS base before LEA, MOVS and CMPS.
THEOREM OperandsAddressed == Spec => []FirstAccess
<1>1. IInv => FirstAccess
  BY DEF IInv
<1>2. QED
  BY <1>1, InitIInv, NextIInv, PTL DEF Spec

\* The handlers consume the bytes that the encoding has, but for 16-bit
\* addressing and for immediates and branch offsets that are always taken as
\* four bytes behind an operand size prefix.
THEOREM DecoderInStep == Spec => []InStep
<1>1. IInv => InStep
  BY DEF IInv
<1>2. QED
  BY <1>1, InitIInv, NextIInv, PTL DEF Spec
===============================================================================
