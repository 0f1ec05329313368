------------------------------ MODULE FpuManual ------------------------------
(***************************************************************************)
(* The register stack as a program sees it, in the terms of the processor  *)
(* manual: st[i] is ST(i), a load pushes, a store with P pops, and TOP in  *)
(* the status word counts down as values are pushed.  What an instruction  *)
(* computes is any of Results.  Condition codes and tags are left out, and *)
(* with them FINIT, FCMOVcc, the 80-bit forms and the loads and stores of  *)
(* the environment, the control word (but for its default) and the status  *)
(* word in memory.                                                         *)
(***************************************************************************)
EXTENDS FpuData

VARIABLES st, mem, depth, top_field, insn

vars == <<st, mem, depth, top_field, insn>>

Index == 0 .. Registers - 1

Push(v) == /\ st' = [i \in Index |-> IF i = 0 THEN v ELSE st[i - 1]]
           /\ depth' = (depth + 1) % Registers

\* s without its ST(0).
Popped(s) == st' = [i \in Index |-> s[(i + 1) % Registers]] /\ depth' = (depth - 1) % Registers

Kept(s) == st' = s /\ UNCHANGED depth

Is(name, operand) == insn' = <<name, operand>>

-------------------------------------------------------------------------------
(* name pushes one of vs, or stores and leaves one of ms.                    *)

Load(name, operand, vs) ==
    Is(name, operand) /\ (\E v \in vs : Push(v)) /\ UNCHANGED <<mem, top_field>>

Store(name, operand, ms) ==
    Is(name, operand) /\ mem' \in ms /\ Kept(st) /\ UNCHANGED top_field

StorePop(name, operand, ms) ==
    Is(name, operand) /\ mem' \in ms /\ Popped(st) /\ UNCHANGED top_field

Register == UNCHANGED <<mem, top_field>>

Float(a) == {mem_write32(mem, a, w) : w \in Narrowed(st[0])}
Int16(a) == {mem_write16(mem, a, w) : w \in ToInt16(st[0])}
Int32(a) == {mem_write32(mem, a, w) : w \in ToInt(st[0])}
Int64(a) == {mem_write64(mem, a, d) : d \in ToInt64(st[0])}

LoadStep ==
    \/ Load("constant", 0, Constants \cup {Zero})
    \/ \E i \in Index : Load("fld_st", i, {st[i]})
    \/ \E a \in Address :
         \/ Load("fld_m32", a, {Widened(mem_read32(mem, a))})
         \/ Load("fld_m64", a, {mem_read64(mem, a)})
         \/ Load("fild_m16", a, {FromInt16(mem_read16(mem, a))})
         \/ Load("fild_m32", a, {FromInt(mem_read32(mem, a))})
         \/ Load("fild_m64", a, FromInt64(mem_read64(mem, a)))

StoreStep ==
    \E a \in Address :
      \/ Store("fst_m32", a, Float(a)) \/ StorePop("fstp_m32", a, Float(a))
      \/ Store("fst_m64", a, {mem_write64(mem, a, st[0])})
      \/ StorePop("fstp_m64", a, {mem_write64(mem, a, st[0])})
      \/ Store("fist_m16", a, Int16(a)) \/ StorePop("fistp_m16", a, Int16(a))
      \/ Store("fist_m32", a, Int32(a)) \/ StorePop("fistp_m32", a, Int32(a))
      \/ StorePop("fistp_m64", a, Int64(a))
      \/ Store("fnstcw", a, {mem_write16(mem, a, ControlWord)})

\* none: the instructions that leave registers and memory alone, FTST, FXAM,
\* FUCOM, FUCOMI, FCLEX and FFREE.
RegisterStep ==
    \/ \E i \in Index : Is("fxch", i) /\ Kept([st EXCEPT ![0] = st[i], ![i] = st[0]]) /\ Register
    \/ \E i \in Index : Is("fstp_st", i) /\ Popped([st EXCEPT ![i] = st[0]]) /\ Register
    \/ \E v \in Results :
         \/ Is("compute", 0) /\ Kept([st EXCEPT ![0] = v]) /\ Register
         \/ Is("fyl2x", 0) /\ Popped([st EXCEPT ![1 % Registers] = v]) /\ Register
    \/ Is("fincstp", 0) /\ Popped(st) /\ Register
    \/ Is("fnstsw_ax", 0) /\ top_field' = (-depth) % Registers /\ UNCHANGED <<st, mem, depth>>
    \/ Is("none", 0) /\ UNCHANGED <<st, mem, depth, top_field>>

\* Instructions on registers that have no handler of their own in the emulator:
\* FPTAN, FXTRACT and FSINCOS replace ST(0) and push, FPATAN and FYL2XP1 leave
\* their result in ST(1) and pop, FDECSTP turns the stack, FST ST(i) copies.
OtherRegisterStep ==
    \/ \E i \in Index : Is("fst_st", i) /\ Kept([st EXCEPT ![i] = st[0]]) /\ Register
    \/ \E v \in Results, name \in {"fprem1", "fsqrt", "fcos"} :
         Is(name, 0) /\ Kept([st EXCEPT ![0] = v]) /\ Register
    \/ \E v \in Results, name \in {"fpatan", "fyl2xp1"} :
         Is(name, 0) /\ Popped([st EXCEPT ![1 % Registers] = v]) /\ Register
    \/ \E v, w \in Results, name \in {"fptan", "fxtract", "fsincos"} :
         /\ Is(name, 0) /\ depth' = (depth + 1) % Registers /\ Register
         /\ st' = [i \in Index |-> IF i = 0 THEN w ELSE IF i = 1 THEN v ELSE st[i - 1]]
    \/ /\ Is("fdecstp", 0) /\ depth' = (depth + 1) % Registers /\ Register
       /\ st' = [i \in Index |-> st[(i - 1) % Registers]]

-------------------------------------------------------------------------------
Init ==
    /\ st = [i \in Index |-> Zero] /\ depth = 0 /\ top_field = 0
    /\ mem \in Memories /\ insn = <<"none", 0>>

Next == LoadStep \/ StoreStep \/ RegisterStep \/ OtherRegisterStep

Spec == Init /\ [][Next]_vars
===============================================================================
