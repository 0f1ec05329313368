------------------------------ MODULE CallStack ------------------------------
(***************************************************************************)
(* The stack and the control transfers (ops.c): PUSH, POP, CALL, RET,      *)
(* LEAVE, the jumps and the subcodes 2, 4, 6 and 7 of FF, on ESP, EBP, one *)
(* more register and guest memory.  ESP may be anywhere, outside memory    *)
(* and at odd addresses too.                                               *)
(*                                                                         *)
(* shadow is history: the words pushed and still at or above ESP, with     *)
(* what the registers were when they were pushed.                          *)
(***************************************************************************)
EXTENDS GuestMemory

CONSTANTS StackTop,     \* ESP at the start
          Imm8s,        \* immediates
          Imm32s,
          Offsets,      \* of relative jumps and calls, signed
          Pops,         \* immediates of RET imm16
          MaxOps        \* bound: instructions

Words == 0 .. Addresses - 1

ASSUME CallAssumption ==
    /\ Addresses = Pow(WordBytes) /\ WordBytes % 2 = 0
    /\ StackTop \in Words /\ Imm8s \subseteq 0 .. ByteValues - 1 /\ Imm32s \subseteq Words
    /\ Offsets \subseteq Int /\ Pops \subseteq Nat /\ MaxOps \in Nat

Registers == {"eax", "ebp", "esp"}

VARIABLES regs, eip, mem, halted,
          shadow,
          left,       \* history: LEAVE has just taken down the frame of a call
          back,       \* history: the shadow of the word the last instruction took
          ops         \* instructions so far

vars == <<regs, eip, mem, halted, shadow, left, back, ops>>

\* Mutated form of Wrap: ESP and EIP are not 32 bits wide.
no_wrap(x) == x

Wrap(x) == x % Addresses

esp == regs["esp"]
ebp == regs["ebp"]
after(len) == Wrap(eip + len)     \* past an instruction of len bytes

SignExtended(v, w) == IF v >= w \div 2 THEN v + Addresses - w ELSE v

-------------------------------------------------------------------------------
(* History.                                                                  *)

None == [kind |-> "none"]

\* A word is gone once ESP is above it.
Kept(sp) == {e \in shadow : e.at >= sp}

\* A word pushed outside memory is lost.
Remember(kind, at, val) ==
    /\ shadow' = IF check_bounds(at, WordBytes)
                 THEN Kept(at) \cup {[kind |-> kind, at |-> at, val |-> val,
                                       ebp |-> ebp, esp |-> esp]}
                 ELSE Kept(at)
    /\ left' = FALSE /\ back' = None

\* The word of the shadow at sp, if there is one.
Top(sp) ==
    IF \E e \in shadow : e.at = sp THEN CHOOSE e \in shadow : e.at = sp ELSE None

Takes(e, sp) == back' = e /\ shadow' = Kept(sp)

-------------------------------------------------------------------------------
(* Pushes: ESP is decremented, then the word is written.                     *)

\* Mutated form of Push: the word is written where ESP was.
PushAbove(kind, val) ==
    LET at == Wrap(esp - WordBytes) IN
    /\ regs' = [regs EXCEPT !["esp"] = at]
    /\ mem' = mem_write32(mem, esp, val)
    /\ Remember(kind, at, val)
    /\ UNCHANGED halted

Push(kind, val) ==
    LET at == Wrap(esp - WordBytes) IN
    /\ regs' = [regs EXCEPT !["esp"] = at]
    /\ mem' = mem_write32(mem, at, val)
    /\ Remember(kind, at, val)
    /\ UNCHANGED halted

\* Mutated form of op_push_r32: the register is read before ESP changes.
push_r32_early(reg) ==
    /\ Push(reg, regs[reg])
    /\ eip' = after(1)

\* The register is read after ESP is decremented, so PUSH ESP stores the new value.
op_push_r32(reg) ==
    /\ Push(reg, IF reg = "esp" THEN Wrap(esp - WordBytes) ELSE regs[reg])
    /\ eip' = after(1)

op_push_sreg == Push("word", 0) /\ eip' = after(1)

op_push_imm32(imm) == Push("word", imm) /\ eip' = after(1 + WordBytes)

op_push_imm8(imm) == Push("word", SignExtended(imm, ByteValues)) /\ eip' = after(2)

\* FF /6 and /7 read their operand first.
ff_push(reg) == Push("word", regs[reg]) /\ eip' = after(2)

ff_push16(v) == Push("word", SignExtended(v, Pow(HalfBytes))) /\ eip' = after(2)

-------------------------------------------------------------------------------
(* Pops.                                                                     *)

\* POP ESP adds four to the word it has just loaded.
op_pop_r32(reg) ==
    LET r1 == [regs EXCEPT ![reg] = mem_read32(mem, esp)]
        r2 == [r1 EXCEPT !["esp"] = Wrap(r1["esp"] + WordBytes)]
    IN  /\ regs' = r2
        /\ Takes(IF reg = "esp" /\ Top(esp).kind = "esp" THEN Top(esp) ELSE None, r2["esp"])
        /\ eip' = after(1) /\ left' = FALSE
        /\ UNCHANGED <<mem, halted>>

op_pop_sreg ==
    /\ regs' = [regs EXCEPT !["esp"] = Wrap(esp + WordBytes)]
    /\ Takes(None, Wrap(esp + WordBytes))
    /\ eip' = after(1) /\ left' = FALSE
    /\ UNCHANGED <<mem, halted>>

-------------------------------------------------------------------------------
(* Calls and returns.                                                        *)

op_call_rel32(offset) ==
    Push("ret", after(1 + WordBytes)) /\ eip' = after(1 + WordBytes + offset)

\* FF /2.
ff_call(reg) == Push("ret", after(2)) /\ eip' = regs[reg]

\* RET and RET imm16 (imm bytes of arguments).
Return(imm) ==
    LET sp == Wrap(esp + WordBytes + imm) IN
    /\ eip' = mem_read32(mem, esp)
    /\ regs' = [regs EXCEPT !["esp"] = sp]
    /\ back' = IF Top(esp).kind = "ret"
               THEN [kind |-> "ret", val |-> Top(esp).val, ebp |-> Top(esp).ebp,
                     esp |-> Top(esp).esp, imm |-> imm, framed |-> left]
               ELSE None
    /\ shadow' = Kept(sp) /\ left' = FALSE
    /\ UNCHANGED <<mem, halted>>

op_ret == Return(0)
op_ret_imm16(imm) == Return(imm)

\* The saved EBP is at EBP, and under it the return address of a call made with it.
CallFrame ==
    \E saved, ret \in shadow :
       /\ saved.at = ebp /\ saved.kind = "ebp"
       /\ ret.at = ebp + WordBytes /\ ret.kind = "ret"
       /\ ret.ebp = saved.val

\* Mutated form of op_leave: EBP is loaded before ESP is.
leave_swapped ==
    /\ regs' = [regs EXCEPT !["ebp"] = mem_read32(mem, esp),
                            !["esp"] = Wrap(ebp + WordBytes)]
    /\ shadow' = Kept(Wrap(ebp + WordBytes))
    /\ left' = CallFrame /\ back' = None /\ eip' = after(1)
    /\ UNCHANGED <<mem, halted>>

op_leave ==
    /\ regs' = [regs EXCEPT !["ebp"] = mem_read32(mem, ebp),
                            !["esp"] = Wrap(ebp + WordBytes)]
    /\ shadow' = Kept(Wrap(ebp + WordBytes))
    /\ left' = CallFrame /\ back' = None /\ eip' = after(1)
    /\ UNCHANGED <<mem, halted>>

\* 66 LEAVE moves the low halves only.
op_leave16 ==
    LET h == Pow(HalfBytes)
        sp == (esp \div h) * h + (ebp % h)
    IN  /\ regs' = [regs EXCEPT !["esp"] = Wrap(sp + HalfBytes),
                                !["ebp"] = (ebp \div h) * h + mem_read16(mem, sp)]
        /\ shadow' = Kept(Wrap(sp + HalfBytes))
        /\ left' = FALSE /\ back' = None /\ eip' = after(2)
        /\ UNCHANGED <<mem, halted>>

-------------------------------------------------------------------------------
(* Jumps, and the instructions between them.                                 *)

NoStack == UNCHANGED <<mem, shadow>> /\ left' = FALSE /\ back' = None

op_jmp_short(offset) == eip' = after(2 + offset) /\ NoStack /\ UNCHANGED <<regs, halted>>
op_jmp_near(offset) ==
    eip' = after(1 + WordBytes + offset) /\ NoStack /\ UNCHANGED <<regs, halted>>

\* The flags, or ECX, decide.
op_jcc_short(offset) == op_jmp_short(offset) \/ op_jmp_short(0)
op_jcc_near(offset) ==
    (eip' = after(2 + WordBytes + offset) \/ eip' = after(2 + WordBytes))
      /\ NoStack /\ UNCHANGED <<regs, halted>>
op_jecxz(offset) == op_jmp_short(offset) \/ op_jmp_short(0)

\* FF /4.
ff_jmp(reg) == eip' = regs[reg] /\ NoStack /\ UNCHANGED <<regs, halted>>

\* MOV EBP, ESP.
op_mov_ebp_esp ==
    /\ regs' = [regs EXCEPT !["ebp"] = esp]
    /\ eip' = after(2) /\ NoStack
    /\ UNCHANGED halted

\* FF /3 and /5.
ff_unhandled == halted' = TRUE /\ eip' = after(2) /\ NoStack /\ UNCHANGED regs

-------------------------------------------------------------------------------
Init ==
    /\ regs = [r \in Registers |-> IF r = "esp" THEN StackTop ELSE 0]
    /\ eip = 0 /\ halted = FALSE
    /\ mem = [x \in 0 .. MemSize - 1 |-> 0]
    /\ shadow = {} /\ left = FALSE /\ back = None /\ ops = 0

StackStep ==
    \/ \E r \in Registers : op_push_r32(r) \/ ff_push(r) \/ op_pop_r32(r)
    \/ op_push_sreg \/ op_pop_sreg
    \/ \E imm \in Imm32s : op_push_imm32(imm)
    \/ \E imm \in Imm8s : op_push_imm8(imm) \/ ff_push16(imm)

ControlStep ==
    \/ \E offset \in Offsets :
         \/ op_call_rel32(offset)
         \/ op_jmp_short(offset) \/ op_jmp_near(offset)
         \/ op_jcc_short(offset) \/ op_jcc_near(offset) \/ op_jecxz(offset)
    \/ ff_call("eax") \/ ff_jmp("eax")
    \/ op_ret \/ (\E imm \in Pops : op_ret_imm16(imm))
    \/ op_leave \/ op_leave16 \/ op_mov_ebp_esp \/ ff_unhandled

Ended == halted \/ ops = MaxOps

Next ==
    \/ ~Ended /\ ops' = ops + 1 /\ (StackStep \/ ControlStep)
    \/ Ended /\ UNCHANGED vars

Spec == Init /\ [][Next]_vars

-------------------------------------------------------------------------------
\* The registers and memory keep their widths however ESP wraps round.
TypeOK ==
    /\ regs \in [Registers -> Words] /\ eip \in Words
    /\ mem \in Memory
    /\ halted \in BOOLEAN /\ left \in BOOLEAN /\ ops \in 0 .. MaxOps
    /\ \A e \in shadow : e.at \in esp .. MemSize - WordBytes

\* Whatever is pushed, called, left or returned from, in whatever order, a word
\* on the stack is what was pushed there for as long as ESP is not above it:
\* it is what a POP, RET or LEAVE at its address loads.
StackKept ==
    \A e \in shadow : mem_read32(mem, e.at) = e.val

\* A return to where a call pushed its address continues after the call, with
\* ESP as it was before it (past the arguments, for RET imm16); and a function
\* that saved EBP and ends with LEAVE, RET gives its caller's EBP back,
\* whatever it left on the stack.
FramesRestored ==
    back.kind = "ret" =>
      /\ eip = back.val /\ esp = Wrap(back.esp + back.imm)
      /\ back.framed => ebp = back.ebp

\* POP ESP of the word that PUSH ESP stored leaves ESP as it was before the
\* push: the one stores the decremented pointer, the other adds four to it.
EspRoundTrip ==
    back.kind = "esp" => esp = back.esp
===============================================================================
