-------------------------------- MODULE Decode --------------------------------
(***************************************************************************)
(* Fetching and decoding (cpu.c, ops.c): the emulation loop, the prefix    *)
(* handlers, which run the next opcode from inside themselves and undo     *)
(* their effect afterwards, the two globals they pass to the handlers,     *)
(* g_operand_size_16 and g_seg_override, and the operand parse_modrm reads *)
(* and resolve_rm_addr turns into an address.  resolve_rm_addr consumes    *)
(* the override, so an instruction that resolves its operand twice, once   *)
(* to read and once to write, finds it only the first time.                *)
(*                                                                         *)
(* Handlers are told apart by what they do here: whether they have a ModRM *)
(* byte, how often they resolve its operand and what immediate they take;  *)
(* the MOVs at an absolute address and the string handlers are their own.  *)
(* Any program may run.  Addresses have Addresses values, bytes ByteValues.*)
(***************************************************************************)
EXTENDS Integers, Sequences

CONSTANTS GsBases,       \* values set_thread_area gives the GS base
          MaxPrefixes,   \* bound: prefixes of one instruction
          Addresses,     \* 2^32 in the code
          ByteValues,    \* 2^8 in the code
          Regs,          \* the contents of cpu->regs, which decoding only reads
          Operands       \* encoded ModRM operands that programs use

\* An operand as encoded: the fields of the ModRM byte, those of the SIB byte
\* that follows it where there is one, and the displacement that follows them.
ASSUME DecodeAssumption ==
    /\ GsBases \subseteq Nat \ {0} /\ MaxPrefixes \in Nat
    /\ Addresses \in Nat \ {0} /\ ByteValues \in Nat \ {0}
    /\ Regs \in [0 .. 7 -> 0 .. Addresses - 1]
    /\ Operands \subseteq [mod: 0 .. 3, rm: 0 .. 7, base: 0 .. 7, index: 0 .. 7,
                          scale: 0 .. 3, disp: 0 .. Addresses - 1]

VARIABLES pc,            \* fetch, prefix, operand or return
          prefixes,      \* the prefix handlers running, outermost first
          g_operand_size_16,
          g_seg_override,
          g_gs_base,
          mrm,           \* the handler's ModRM, as parse_modrm left it
          left,          \* resolve_rm_addr calls the handler still makes
          halted,
          did            \* history: the instruction that runs

vars == <<pc, prefixes, g_operand_size_16, g_seg_override, g_gs_base, mrm, left,
          halted, did>>

\* modrm: a ModRM byte follows.  resolves: calls of resolve_rm_addr on a memory
\* operand.  imm: none, a byte, two, four (imm32), or by operand size (sized).
Insn(op, modrm, resolves, imm) ==
    [op |-> op, modrm |-> modrm, resolves |-> resolves, imm |-> imm]

\* op_81 alone sizes its immediate; the other handlers with a 32-bit immediate
\* or branch offset do not look at g_operand_size_16.  F2 and F3 before 0F are
\* handlers with a ModRM byte like the rest of 0F.  STOS and SCAS, which address
\* ES:EDI whatever the prefixes, are among those without operand bytes.
Handlers ==
    { Insn("inc_r32", FALSE, 0, "none"),           \* 40-5F, 91-97, 99, AA, AB, AE, C3, C9, ...
      Insn("jmp_short", FALSE, 0, "imm8"),         \* 70-7F, E3, EB, 6A, 0C, 24, CD, ENDBR, ...
      Insn("ret_imm16", FALSE, 0, "imm16"),        \* C2
      Insn("mov_r32_imm32", FALSE, 0, "imm32"),    \* B8-BF, 05, 0D, 25, 2D, 3D, 68, A9
      Insn("call_rel32", FALSE, 0, "imm32"),       \* E8, E9, 0F 80-8F
      Insn("mov_sreg_rm16", TRUE, 0, "none"),      \* 8E, the stubs of D9, DB and DD
      Insn("lea_r32_m", TRUE, 1, "none"),          \* 8D
      Insn("mov_r32_rm32", TRUE, 1, "none"),       \* 89, 8B, 39, 85, FF/2, FF/6, F2 0F 10, ...
      Insn("add_rm32_r32", TRUE, 2, "none"),       \* 01, 09, 11, 87, D3, F7/3, FF/0, ...
      Insn("mov_rm8_imm8", TRUE, 1, "imm8"),       \* C6, 6B, F6/0, 0F 70, ...
      Insn("op_83", TRUE, 2, "imm8"),              \* 80, 83, C0, C1, 0F A4
      Insn("op_81", TRUE, 2, "sized"),
      Insn("mov_rm32_imm32", TRUE, 1, "imm32") }   \* C7, 69, F7/0

NoInsn == Insn("none", FALSE, 0, "none")

\* The operand of a handler without a ModRM byte: a register.
NoOperand == [mod |-> 3, rm |-> 0, base |-> 0, index |-> 0, scale |-> 0, disp |-> 0]

-------------------------------------------------------------------------------
\* The (int8_t) cast of a displacement byte, as a 32-bit value.
SignExtended(d) ==
    LET b == d % ByteValues
    IN  IF 2 * b >= ByteValues THEN Addresses + b - ByteValues ELSE b

\* Mutated form of parse_modrm: only rm = 5 is taken for a bare displacement.
parse_modrm_plain(e) ==
    LET sib == e.mod # 3 /\ e.rm = 4
        four == e.mod = 2 \/ (e.mod = 0 /\ e.rm = 5)
        width == IF e.mod = 1 THEN 1 ELSE IF four THEN 4 ELSE 0
    IN  [enc |-> e, has_sib |-> sib, has_disp |-> width > 0,
         disp |-> IF width = 1 THEN SignExtended(e.disp) ELSE IF four THEN e.disp ELSE 0,
         bytes |-> 1 + (IF sib THEN 1 ELSE 0) + width]

\* What parse_modrm finds, and the bytes it moves EIP over.
parse_modrm(e) ==
    LET sib == e.mod # 3 /\ e.rm = 4
        four == e.mod = 2 \/ (e.mod = 0 /\ (e.rm = 5 \/ (sib /\ e.base = 5)))
        width == IF e.mod = 1 THEN 1 ELSE IF four THEN 4 ELSE 0
    IN  [enc |-> e, has_sib |-> sib, has_disp |-> width > 0,
         disp |-> IF width = 1 THEN SignExtended(e.disp) ELSE IF four THEN e.disp ELSE 0,
         bytes |-> 1 + (IF sib THEN 1 ELSE 0) + width]

\* The sum in resolve_rm_addr, before the segment is added.
SibBase(e) == IF e.base = 5 /\ e.mod = 0 THEN 0 ELSE Regs[e.base]
SibIndex(e) == IF e.index = 4 THEN 0 ELSE (Regs[e.index] * 2^e.scale) % Addresses
PlainBase(e) == IF e.mod = 0 /\ e.rm = 5 THEN 0 ELSE Regs[e.rm]
Address(m) ==
    (IF m.has_sib THEN SibBase(m.enc) + SibIndex(m.enc) ELSE PlainBase(m.enc))
        + (IF m.has_disp THEN m.disp ELSE 0)

\* The reference, as the i386 manual tabulates it: mod tells the width of the
\* displacement; the base is the register the last of the two bytes names; in
\* both tables base EBP with mod 0 stands for "no base, four byte displacement".
BaseField(e) == IF e.rm = 4 THEN e.base ELSE e.rm
Bare(e) == e.mod = 0 /\ BaseField(e) = 5
DispBytes(e) == IF Bare(e) THEN 4 ELSE <<0, 1, 4, 0>>[e.mod + 1]
OperandBytes(e) == 1 + DispBytes(e) + (IF e.rm = 4 /\ e.mod < 3 THEN 1 ELSE 0)
Signed(e) == ((e.disp + ByteValues \div 2) % ByteValues) - ByteValues \div 2
Effective(e) ==
    LET terms == << IF Bare(e) THEN 0 ELSE Regs[BaseField(e)],
                    IF e.rm = 4 /\ e.index # 4 THEN Regs[e.index] * 2^e.scale ELSE 0,
                    IF DispBytes(e) = 1 THEN Signed(e)
                    ELSE IF DispBytes(e) = 4 THEN e.disp ELSE 0 >>
    IN  (terms[1] + terms[2] + terms[3]) % Addresses

\* The same table under the address size prefix: no SIB byte, displacements of
\* two bytes, and rm 6 with mod 0 for "no base".
ShortOperandBytes(e) ==
    1 + IF e.mod = 0 /\ e.rm = 6 THEN 2 ELSE <<0, 1, 2, 0>>[e.mod + 1]

-------------------------------------------------------------------------------
InForce(p) == \E n \in 1 .. Len(prefixes) : prefixes[n] = p

\* Bytes of immediate a handler consumes.
Consumed(i) ==
    CASE i.imm = "none" -> 0
      [] i.imm = "imm8" -> 1
      [] i.imm = "imm16" -> 2
      [] i.imm = "sized" /\ g_operand_size_16 = 1 -> 2
      [] OTHER -> 4

\* The reference: the bytes the i386 encodes for an immediate, for a ModRM
\* operand and for an absolute address.
Encoded(i) ==
    IF i.imm \in {"none", "imm8", "imm16"} THEN Consumed(i)
    ELSE IF InForce("66") THEN 2 ELSE 4
OperandDue(e) == IF InForce("67") THEN ShortOperandBytes(e) ELSE OperandBytes(e)
AddressDue == IF InForce("67") THEN 2 ELSE 4

\* The segment base the prefixes give an operand; LEA computes an offset, which
\* has no segment.
SegmentBase == IF InForce("gs") THEN g_gs_base ELSE 0
SegmentOf(i) == IF i.op = "lea_r32_m" THEN 0 ELSE SegmentBase

\* due, taken: the bytes after the opcode, as encoded and as consumed; ea: the
\* address of the operand under 32-bit addressing; touched: the addresses the
\* handler resolved it to; seg, narrow, short: what its prefixes ask for, a
\* segment, 16-bit operands and 16-bit addressing of a memory operand.  mod is
\* that of ModRM, 3 where there is no operand in memory.
Did(i, mod, taken, due, ea, touched) ==
    [op |-> i.op, imm |-> i.imm, taken |-> taken, due |-> due,
     ea |-> (ea + SegmentOf(i)) % Addresses, touched |-> touched,
     seg |-> SegmentBase, narrow |-> InForce("66"), short |-> mod # 3 /\ InForce("67")]

NoDid == Did(NoInsn, 3, 0, 0, 0, <<>>)

Init ==
    /\ pc = "fetch" /\ prefixes = <<>>
    /\ g_operand_size_16 = 0 /\ g_seg_override = 0 /\ g_gs_base = 0
    /\ mrm = parse_modrm(NoOperand) /\ left = 0 /\ halted = FALSE
    /\ did = NoDid

-------------------------------------------------------------------------------
\* An opcode is read at the loop's head or inside a prefix handler.
Reading == pc \in {"fetch", "prefix"} /\ ~halted

Prefix(p) ==
    /\ Reading /\ Len(prefixes) < MaxPrefixes
    /\ prefixes' = Append(prefixes, p)
    /\ pc' = "prefix"
    /\ UNCHANGED <<g_gs_base, mrm, left, halted, did>>

op_prefix_66 ==
    /\ Prefix("66")
    /\ g_operand_size_16' = 1
    /\ UNCHANGED g_seg_override

op_prefix_gs ==
    /\ Prefix("gs")
    /\ g_seg_override' = g_gs_base
    /\ UNCHANGED g_operand_size_16

\* The address size prefix sets nothing: it runs the next opcode, like 26, 2E,
\* 36, 3E, 64 (segments with base 0 in the flat model) and F0.
op_prefix_67 == Prefix("67") /\ UNCHANGED <<g_operand_size_16, g_seg_override>>
op_prefix_none == Prefix("none") /\ UNCHANGED <<g_operand_size_16, g_seg_override>>

Execute(d, m, resolves) ==
    /\ Reading
    /\ did' = d
    /\ mrm' = m
    /\ left' = resolves
    /\ pc' = "operand"
    /\ UNCHANGED <<prefixes, g_operand_size_16>>

\* A handler with a ModRM operand e: a register, which it does not resolve, or
\* memory.  LEA of a register is no instruction.
execute_modrm(i, e) ==
    LET m == parse_modrm(e)
    IN  /\ i.modrm /\ (i.op = "lea_r32_m" => e.mod # 3)
        /\ Execute(Did(i, e.mod, m.bytes + Consumed(i), OperandDue(e) + Encoded(i),
                       Effective(e), <<>>),
                   m, IF e.mod = 3 THEN 0 ELSE i.resolves)
        /\ UNCHANGED <<g_seg_override, g_gs_base, halted>>

\* A handler without one.
execute_plain(i) ==
    /\ ~i.modrm
    /\ Execute(Did(i, 3, Consumed(i), Encoded(i), 0, <<>>), mrm, 0)
    /\ UNCHANGED <<g_seg_override, g_gs_base, halted>>

\* MOV between EAX or AL and [imm32]: an address, which takes four bytes
\* whatever the operand size, and the override, which the handlers clear.
MovEax == Insn("mov_eax_mem", FALSE, 0, "none")
op_mov_eax_mem(a) ==
    /\ Execute(Did(MovEax, 0, 4, AddressDue, a, <<(a + g_seg_override) % Addresses>>),
               mrm, 0)
    /\ g_seg_override' = 0
    /\ UNCHANGED <<g_gs_base, halted>>

\* MOVS and CMPS, with REP or without: their source is at ESI, in the segment
\* of the prefixes; the handlers neither add the override nor clear it.  A zero
\* count touches nothing.
Movs == Insn("movs", FALSE, 0, "none")
op_movs(touched) ==
    /\ Execute(Did(Movs, 0, 0, 0, Regs[6], touched), mrm, 0)
    /\ UNCHANGED <<g_seg_override, g_gs_base, halted>>

\* INT 80 with set_thread_area.
set_gs_base(b) ==
    /\ Execute(NoDid, mrm, 0)
    /\ g_gs_base' = b
    /\ UNCHANGED <<g_seg_override, halted>>

\* op_unimplemented, op_hlt, F2 or F3 before anything unknown: the loop ends
\* once the prefix handlers return.
op_unimplemented ==
    /\ Execute(NoDid, mrm, 0)
    /\ halted' = TRUE
    /\ UNCHANGED <<g_seg_override, g_gs_base>>

\* Mutated form of resolve_rm_addr: the override is dropped, not added.
resolve_flat ==
    /\ pc = "operand" /\ left > 0
    /\ did' = [did EXCEPT !.touched = Append(@, Address(mrm) % Addresses)]
    /\ g_seg_override' = 0
    /\ left' = left - 1
    /\ UNCHANGED <<pc, prefixes, g_operand_size_16, g_gs_base, mrm, halted>>

resolve_rm_addr ==
    /\ pc = "operand" /\ left > 0
    /\ did' = [did EXCEPT !.touched = Append(@, (Address(mrm) + g_seg_override) % Addresses)]
    /\ g_seg_override' = 0
    /\ left' = left - 1
    /\ UNCHANGED <<pc, prefixes, g_operand_size_16, g_gs_base, mrm, halted>>

\* Mutated form of SizeAfter: the operand size stays.
SizeStays(p) == g_operand_size_16

\* What the prefix handler p leaves in the globals as it returns.
SizeAfter(p) == IF p = "66" THEN 0 ELSE g_operand_size_16
SegAfter(p) == IF p = "gs" THEN 0 ELSE g_seg_override

\* A handler returns into the innermost prefix handler, which returns too.
return_to_prefix ==
    /\ pc \in {"operand", "return"} /\ left = 0 /\ prefixes # <<>>
    /\ prefixes' = SubSeq(prefixes, 1, Len(prefixes) - 1)
    /\ g_operand_size_16' = SizeAfter(prefixes[Len(prefixes)])
    /\ g_seg_override' = SegAfter(prefixes[Len(prefixes)])
    /\ pc' = "return"
    /\ UNCHANGED <<g_gs_base, mrm, left, halted, did>>

\* The last handler returns into emulate(), and its locals are gone.
return_to_emulate ==
    /\ pc \in {"operand", "return"} /\ left = 0 /\ prefixes = <<>>
    /\ pc' = "fetch"
    /\ mrm' = parse_modrm(NoOperand)
    /\ did' = NoDid
    /\ UNCHANGED <<prefixes, g_operand_size_16, g_seg_override, g_gs_base, left, halted>>

Stopped == pc = "fetch" /\ halted /\ UNCHANGED vars

Next ==
    \/ op_prefix_66
    \/ op_prefix_gs
    \/ op_prefix_67
    \/ op_prefix_none
    \/ \E i \in Handlers, e \in Operands : execute_modrm(i, e)
    \/ \E i \in Handlers : execute_plain(i)
    \/ \E e \in Operands : op_mov_eax_mem(e.disp)
    \/ \E touched \in {<<>>, <<Regs[6]>>} : op_movs(touched)
    \/ \E b \in GsBases : set_gs_base(b)
    \/ op_unimplemented
    \/ resolve_rm_addr
    \/ return_to_prefix
    \/ return_to_emulate
    \/ Stopped

Spec == Init /\ [][Next]_vars

-------------------------------------------------------------------------------
\* The globals hold what the code stores in them.
TypeOK ==
    /\ pc \in {"fetch", "prefix", "operand", "return"}
    /\ prefixes \in Seq({"66", "gs", "67", "none"}) /\ Len(prefixes) <= MaxPrefixes
    /\ g_operand_size_16 \in 0 .. 1
    /\ g_gs_base \in GsBases \cup {0}
    /\ g_seg_override \in GsBases \cup {0}
    /\ mrm.enc \in Operands \cup {NoOperand}
    /\ left \in 0 .. 2 /\ halted \in BOOLEAN
    /\ did.touched \in Seq(0 .. Addresses - 1)

\* "op_prefix_66 sets this before calling execute_opcode and clears it after":
\* however prefixes nest, a handler sees the operand size and, until it has
\* resolved an operand, the segment that its own prefixes ask for, and no
\* instruction leaves either behind for the next one, not even one that
\* stopped the CPU or changed the GS base.
PrefixScoped ==
    /\ pc = "fetch" => g_operand_size_16 = 0 /\ g_seg_override = 0
    /\ pc \in {"prefix", "operand"} => (g_operand_size_16 = 1 <=> InForce("66"))
    /\ pc = "prefix" => g_seg_override = SegmentBase

\* Handlers whose source the segment prefix does not reach as on the i386: LEA
\* adds the base to an offset, MOVS and CMPS leave it out.
SegmentMisses == did.seg # 0 /\ did.op \in {"lea_r32_m", "movs"}

\* A handler first addresses its operand where the i386 does: base, scaled
\* index and displacement, signed and wrapped, in the segment of its prefixes,
\* whatever they are and however they nest.  Left out: 16-bit addressing, which
\* the decoder does not have, and a GS base before LEA, MOVS or CMPS.
FirstAccess ==
    did.touched # <<>> /\ ~did.short /\ ~SegmentMisses => did.touched[1] = did.ea

\* The handlers stay in step with the encoding: the next opcode is read after
\* the last byte of ModRM, SIB, displacement and immediate.  Left out: 16-bit
\* addressing, and the operand size prefix before a handler that takes its
\* immediate or branch offset as four bytes.
InStep ==
    \/ did.taken = did.due
    \/ did.short
    \/ did.narrow /\ did.imm = "imm32"

\* "address size override prefix": 16-bit addressing is decoded as such.
AddressSizeHonoured == did.short => did.taken = did.due

\* "GS segment override prefix": LEA, MOVS and CMPS too find the operand the
\* i386 finds.
SegmentReaches ==
    did.touched # <<>> /\ ~did.short => did.touched[1] = did.ea

\* "GS segment override prefix": an instruction that reads and then writes its
\* operand writes what it read.
SameOperand ==
    \A m, n \in 1 .. Len(did.touched) : did.touched[m] = did.touched[n]
===============================================================================
