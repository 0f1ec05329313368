------------------------------- MODULE FpuStack -------------------------------
(***************************************************************************)
(* The x87 escapes D9, DB, DD and DF (ops.c): eight registers in fpu_stack *)
(* and fpu_top, the one that is ST(0).  Shown to implement FpuManual, the  *)
(* stack of ST(i) a program counts on, but for the instructions that the   *)
(* handlers accept and do not carry out, which are named.  FCHS, FSCALE    *)
(* ... compute one of Results; addresses are any, inside memory or not.    *)
(***************************************************************************)
EXTENDS FpuData

CONSTANT MaxOps        \* bound: instructions

ASSUME BoundAssumption == MaxOps \in Nat

VARIABLES fpu_stack, fpu_top, mem,
          top_field,   \* bits 11 to 13 of AX, as FNSTSW AX last set them
          halted,
          insn,        \* history: the last instruction and its operand
          ops          \* instructions so far

vars == <<fpu_stack, fpu_top, mem, top_field, halted, insn, ops>>

Index == 0 .. Registers - 1

below == (fpu_top - 1) % Registers
above == (fpu_top + 1) % Registers
phys(i) == (fpu_top + i) % Registers
st0 == fpu_stack[fpu_top]

NoMemory == UNCHANGED <<mem, top_field, halted>>
NoStack == UNCHANGED <<fpu_stack, fpu_top>>

Push(v) == fpu_top' = below /\ fpu_stack' = [fpu_stack EXCEPT ![below] = v] /\ NoMemory
Pop == fpu_top' = above
SetSt0(v) == fpu_stack' = [fpu_stack EXCEPT ![fpu_top] = v] /\ UNCHANGED fpu_top /\ NoMemory
Is(name, operand) == insn' = <<name, operand>>
Skip == Is("none", 0) /\ NoStack /\ NoMemory
Unhandled == Is("unhandled", 0) /\ halted' = TRUE /\ NoStack /\ UNCHANGED <<mem, top_field>>

\* An instruction that the manual gives an effect on the registers, on memory or
\* on what is stored later, and the code none.
Ignored(names) == (\E name \in names : Is(name, 0)) /\ NoStack /\ NoMemory

\* A store of one of ms, with and without P.
Store(ms) == mem' \in ms /\ UNCHANGED <<fpu_stack, top_field, halted>>
StoreOnly(ms) == Store(ms) /\ UNCHANGED fpu_top
StorePop(ms) == Store(ms) /\ Pop

-------------------------------------------------------------------------------
(* D9, register forms.                                                       *)

\* Mutated form of fld_st: the index is not corrected for the push.
fld_st_late(i) == Is("fld_st", i) /\ Push(fpu_stack[(below + i) % Registers])

\* FLD ST(i): fpu_top is decremented first, then the register is read one above.
fld_st(i) == Is("fld_st", i) /\ Push(fpu_stack[(below + 1 + i) % Registers])

fxch(i) ==
    /\ Is("fxch", i)
    /\ fpu_stack' = [fpu_stack EXCEPT ![fpu_top] = fpu_stack[phys(i)], ![phys(i)] = st0]
    /\ UNCHANGED fpu_top /\ NoMemory

\* FCHS, FABS, F2XM1, FPREM, FSCALE, FRNDINT (which is given a square root) and
\* FSIN (which is rounded).
compute == Is("compute", 0) /\ \E v \in Results : SetSt0(v)

fld_constant == Is("constant", 0) /\ \E v \in Constants \cup {Zero} : Push(v)

\* FYL2X: the result goes to ST(1), then ST(0) is popped.
fyl2x ==
    Is("fyl2x", 0) /\ \E v \in Results : fpu_stack' = [fpu_stack EXCEPT ![above] = v] /\ Pop /\ NoMemory

fincstp == Is("fincstp", 0) /\ Pop /\ UNCHANGED fpu_stack /\ NoMemory

\* FTST, FXAM and the reserved codes have nothing to do; the rest of subcodes 6
\* and 7 is ignored.
IgnoredD9 == {"fptan", "fpatan", "fxtract", "fprem1", "fdecstp", "fyl2xp1", "fsqrt",
              "fsincos", "fcos"}
op_d9_register ==
    \/ \E i \in Index : fld_st(i) \/ fxch(i)
    \/ compute \/ fld_constant \/ fyl2x \/ fincstp \/ Ignored(IgnoredD9) \/ Skip
    \/ Unhandled

-------------------------------------------------------------------------------
(* D9, memory forms: floats.                                                 *)

fld_m32(a) == Is("fld_m32", a) /\ Push(Widened(mem_read32(mem, a)))
AsFloat(a) == {mem_write32(mem, a, w) : w \in Narrowed(st0)}
fst_m32(a) == Is("fst_m32", a) /\ StoreOnly(AsFloat(a))
fstp_m32(a) == Is("fstp_m32", a) /\ StorePop(AsFloat(a))
fnstcw(a) == Is("fnstcw", a) /\ StoreOnly({mem_write16(mem, a, ControlWord)})

IgnoredD9Memory == {"fldenv", "fldcw", "fnstenv"}
op_d9_memory(a) ==
    \/ fld_m32(a) \/ fst_m32(a) \/ fstp_m32(a) \/ fnstcw(a)
    \/ Ignored(IgnoredD9Memory) \/ Unhandled

-------------------------------------------------------------------------------
(* DB: 32-bit integers.  FUCOMI and FCLEX have nothing to do, FCMOVcc and    *)
(* FINIT are ignored; the 80-bit forms push zero and pop without a store.    *)

fild_m32(a) == Is("fild_m32", a) /\ Push(FromInt(mem_read32(mem, a)))
AsInt(a) == {mem_write32(mem, a, w) : w \in ToInt(st0)}
fist_m32(a) == Is("fist_m32", a) /\ StoreOnly(AsInt(a))
fistp_m32(a) == Is("fistp_m32", a) /\ StorePop(AsInt(a))
fld_m80 == Is("fld_m80", 0) /\ Push(Zero)
fstp_m80 == Is("fstp_m80", 0) /\ Pop /\ UNCHANGED fpu_stack /\ NoMemory

IgnoredDB == {"fcmov", "finit"}
op_db(a) ==
    \/ fild_m32(a) \/ fist_m32(a) \/ fistp_m32(a) \/ fld_m80 \/ fstp_m80
    \/ Ignored(IgnoredDB) \/ Skip \/ Unhandled

-------------------------------------------------------------------------------
(* DD: doubles.  FFREE and FUCOM have nothing to do; FST ST(i), FRSTOR and   *)
(* FSAVE are ignored, and FNSTSW m16 stores zero.                            *)

fld_m64(a) == Is("fld_m64", a) /\ Push(mem_read64(mem, a))
AsDouble(a) == {mem_write64(mem, a, st0)}
fst_m64(a) == Is("fst_m64", a) /\ StoreOnly(AsDouble(a))
fstp_m64(a) == Is("fstp_m64", a) /\ StorePop(AsDouble(a))
fstp_st(i) == Is("fstp_st", i) /\ fpu_stack' = [fpu_stack EXCEPT ![phys(i)] = st0] /\ Pop /\ NoMemory
fnstsw_m16(a) == Is("fnstsw_m16", a) /\ StoreOnly({mem_write16(mem, a, 0)})

IgnoredDD == {"fst_st", "frstor", "fsave"}
op_dd(a) ==
    \/ fld_m64(a) \/ fst_m64(a) \/ fstp_m64(a) \/ fnstsw_m16(a)
    \/ \E i \in Index : fstp_st(i)
    \/ Ignored(IgnoredDD) \/ Skip \/ Unhandled

-------------------------------------------------------------------------------
(* DF: 16- and 64-bit integers, and the status word.                         *)

fnstsw_ax == Is("fnstsw_ax", 0) /\ top_field' = fpu_top /\ NoStack /\ UNCHANGED <<mem, halted>>
fild_m16(a) == Is("fild_m16", a) /\ Push(FromInt16(mem_read16(mem, a)))
AsInt16(a) == {mem_write16(mem, a, w) : w \in ToInt16(st0)}
fist_m16(a) == Is("fist_m16", a) /\ StoreOnly(AsInt16(a))
fistp_m16(a) == Is("fistp_m16", a) /\ StorePop(AsInt16(a))
fild_m64(a) == Is("fild_m64", a) /\ \E v \in FromInt64(mem_read64(mem, a)) : Push(v)
fistp_m64(a) == Is("fistp_m64", a) /\ StorePop({mem_write64(mem, a, d) : d \in ToInt64(st0)})

op_df(a) ==
    \/ fnstsw_ax \/ fild_m16(a) \/ fist_m16(a) \/ fistp_m16(a) \/ fild_m64(a) \/ fistp_m64(a)
    \/ Unhandled

-------------------------------------------------------------------------------
Init ==
    /\ fpu_stack = [i \in Index |-> Zero] /\ fpu_top = 0
    /\ mem \in Memories
    /\ top_field = 0 /\ halted = FALSE /\ insn = <<"none", 0>> /\ ops = 0

Ended == halted \/ ops = MaxOps

Next ==
    \/ /\ ~Ended /\ ops' = ops + 1
       /\ \/ op_d9_register
          \/ \E a \in Address : op_d9_memory(a) \/ op_db(a) \/ op_dd(a) \/ op_df(a)
    \/ Ended /\ UNCHANGED vars

Spec == Init /\ [][Next]_vars

-------------------------------------------------------------------------------
\* fpu_top stays a register's number and the registers and memory their widths.
TypeOK ==
    /\ fpu_stack \in [Index -> Double] /\ fpu_top \in Index
    /\ mem \in Memory /\ top_field \in Index
    /\ halted \in BOOLEAN /\ ops \in 0 .. MaxOps

\* The instructions the handlers accept and do not carry out, or stop at.
NotCarriedOut ==
    IgnoredD9 \cup IgnoredD9Memory \cup IgnoredDB \cup IgnoredDD
        \cup {"fld_m80", "fstp_m80", "fnstsw_m16", "unhandled"}

\* With ST(i) the register i above fpu_top, every load, store, exchange and pop
\* that the handlers carry out, in any order, past the eighth register, through
\* integers, floats and doubles in memory and whatever was ignored before, is a
\* step of the stack of the manual, and FNSTSW AX reports the register that is
\* ST(0).  The instructions of NotCarriedOut are left out.
Manual == INSTANCE FpuManual WITH
              st <- [i \in Index |-> fpu_stack[phys(i)]],
              depth <- (-fpu_top) % Registers

ImplementsManual ==
    Manual!Init /\ [][insn'[1] \in NotCarriedOut \/ Manual!Next]_(Manual!vars)

\* "FXTRACT", "F2XM1, FYL2X, FPTAN etc", "FINIT": every instruction that has
\* a handler does as the manual says.
AllCarriedOut == Manual!Spec
===============================================================================
