--------------------------------- MODULE Alu ---------------------------------
(***************************************************************************)
(* The arithmetic flags of the emulated CPU (ops.c): what each integer     *)
(* handler does to EFLAGS, and what the conditional instructions later     *)
(* read from it.  One action is one handler, or one subcode of a group     *)
(* handler.                                                                *)
(*                                                                         *)
(* The operands are any register or memory contents.  Widths are           *)
(* parameters: Byte, Half and Long are 2^8, 2^16 and 2^32 in the code.     *)
(* The bitwise operations reach every result, so they are modelled by the  *)
(* result.  Two history variables remember what the flags ought to mean:   *)
(* cmp, the comparison they were last set by, and chain, the multi-word    *)
(* addition or subtraction whose carry they hold.                          *)
(***************************************************************************)
EXTENDS Flags

CONSTANT HalfArgs    \* operands of 16 bits

ASSUME ArgsAssumption == HalfArgs \subseteq 0 .. Half - 1

VARIABLES halted,    \* cpu->halted
          cmp,       \* history: the comparison the flags hold
          chain      \* history: the multi-word operation whose carry CF is

vars == <<eflags, halted, cmp, chain>>

-------------------------------------------------------------------------------
(* Carries.                                                                  *)

\* CF after an addition with carry in c; the group handlers use the first
\* disjunct alone.
carry_out(a, r, c) == r < a \/ (c = 1 /\ r = a)

\* Mutated form of borrow_out: b + c is compared as if it did not wrap round.
borrow_wraps(a, b, c) == a < (b + c) % Long

\* CF after a long subtraction with borrow in c; b + c may wrap round.
borrow_out(a, b, c) == a < (b + c) % Long \/ (c = 1 /\ b = Long - 1)

\* Mutated form of Extended: the sign bit is counted twice.
extended_too_far(b, w) == IF b >= Byte \div 2 THEN b + w - (Byte \div 2) ELSE b

\* 8-bit immediates are sign extended to the operand size w.
Extended(b, w) == IF b >= Byte \div 2 THEN b + w - Byte ELSE b

-------------------------------------------------------------------------------
(* History.  gap is x + y - z (or x - y - z): the two numbers, less the words *)
(* of the result stored so far; weight is the value of the next word.         *)

NoCmp == [kind |-> "none", a |-> 0, b |-> 0]
NoChain == [kind |-> "none", width |-> Long, gap |-> 0, weight |-> 1, words |-> 0,
            group |-> FALSE]

Compared(kind, a, b) == cmp' = [kind |-> kind, a |-> a, b |-> b]

Starts(kind, w, d) ==
    chain' = [kind |-> kind, width |-> w, gap |-> d, weight |-> w, words |-> 1,
              group |-> FALSE]

\* The next word of the chain, when this is one; d is what the word contributes.
Continues(kind, w, d, group) ==
    chain' = IF chain.kind = kind /\ chain.width = w /\ chain.words < MaxWords
             THEN [chain EXCEPT !.gap = @ + chain.weight * d, !.weight = @ * w,
                                !.words = @ + 1, !.group = @ \/ group]
             ELSE NoChain

Forget == cmp' = NoCmp /\ chain' = NoChain

-------------------------------------------------------------------------------
(* The two-operand handlers that set all flags.                              *)

AddFlags(a, b, r, c) ==
    set_of_add(ZeroSignParity(set_cf(eflags, carry_out(a, r, c)), r), a, b, r)

SubFlags(a, b, r, p) ==
    set_of_sub(ZeroSignParity(set_cf(eflags, p), r), a, b, r)

\* 01, 03, 05 and (w = Byte) 00, 02.
op_add(w, a, b) ==
    LET r == (a + b) % w IN
    /\ eflags' = AddFlags(a, b, r, 0)
    /\ Starts("add", w, a + b - r) /\ cmp' = NoCmp
    /\ UNCHANGED halted

\* 11, 13 and (w = Byte) 10, 12.
op_adc(w, a, b) ==
    LET r == (a + b + eflags.cf) % w IN
    /\ eflags' = AddFlags(a, b, r, eflags.cf)
    /\ Continues("add", w, a + b - r, FALSE) /\ cmp' = NoCmp
    /\ UNCHANGED halted

\* 19, 1B.
op_sbb(a, b) ==
    LET r == (a - b - eflags.cf) % Long IN
    /\ eflags' = SubFlags(a, b, r, borrow_out(a, b, eflags.cf))
    /\ Continues("sub", Long, a - b - r, FALSE) /\ cmp' = NoCmp
    /\ UNCHANGED halted

\* 29, 2B, 2D and (w = Byte) subcode 5 of 80.
op_sub(w, a, b) ==
    LET r == (a - b) % w IN
    /\ eflags' = SubFlags(a, b, r, a < b)
    /\ Starts("sub", w, a - b - r) /\ Compared(IF w = Long THEN "long" ELSE "byte", a, b)
    /\ UNCHANGED halted

\* 39, 3B, 3D and (w = Byte) 38, 3A, 3C.
op_cmp(w, a, b) ==
    /\ eflags' = SubFlags(a, b, (a - b) % w, a < b)
    /\ Compared(IF w = Long THEN "long" ELSE "byte", a, b) /\ chain' = NoChain
    /\ UNCHANGED halted

\* INC and DEC leave CF alone.
op_inc(a) ==
    LET r == (a + 1) % Long IN
    /\ eflags' = set_of_add(ZeroSignParity(eflags, r), a, 1, r)
    /\ cmp' = NoCmp
    /\ UNCHANGED <<halted, chain>>

op_dec(a) ==
    LET r == (a - 1) % Long IN
    /\ eflags' = set_of_sub(ZeroSignParity(eflags, r), a, 1, r)
    /\ cmp' = NoCmp
    /\ UNCHANGED <<halted, chain>>

\* NEG sets no PF, and on a byte no OF.
op_neg(w, a) ==
    LET r == (-a) % w
        f == ZeroSign(set_cf(eflags, a # 0), r)
    IN  /\ eflags' = IF w = Long THEN set_of_sub(f, 0, a, r) ELSE f
        /\ Forget /\ UNCHANGED halted

\* The 2- and 3-operand IMULs set ZF and SF only.
op_imul(r) == eflags' = ZeroSign(eflags, r) /\ Forget /\ UNCHANGED halted

\* AND, OR, XOR, TEST with result r: OF keeps its value, and in XOR r/m32,r32
\* and TEST r/m32,r32 (keeps_cf) so does CF.
op_logic(w, r, keeps_cf) ==
    LET f == ZeroSignParity(eflags, r) IN
    /\ eflags' = IF keeps_cf THEN f ELSE set_cf(f, FALSE)
    /\ Compared(IF w = Long THEN "test" ELSE "testb", r, 0)
    /\ chain' = NoChain
    /\ UNCHANGED halted

\* 09, 0B, 0D and (w = Byte) 0C.
op_or(w, r) == op_logic(w, r, FALSE)

\* 21, 23, 25 and (w = Byte) 20, 22, 24.
op_and(w, r) == op_logic(w, r, FALSE)

\* 31 keeps CF; 33 and (w = Byte) 30, 34 clear it.
op_xor(w, r, keeps_cf) == op_logic(w, r, keeps_cf)

\* 85 keeps CF; A9, F7 and (w = Byte) 84, A8, F6 clear it.
op_test(w, r, keeps_cf) == op_logic(w, r, keeps_cf)

\* MOV, LEA, PUSH, POP, XCHG, NOT, MOVZX, Jcc, SETcc, CMOVcc ... keep the flags.
op_flagless == UNCHANGED vars

-------------------------------------------------------------------------------
(* The immediate groups.                                                     *)

\* 80: ADC and SBB do what ADD and SUB do.
group_80_adc(a, imm) ==
    LET r == (a + imm) % Byte IN
    /\ eflags' = AddFlags(a, imm, r, 0)
    /\ Continues("add", Byte, a + imm - r, TRUE) /\ cmp' = NoCmp
    /\ UNCHANGED halted

group_80_sbb(a, imm) ==
    LET r == (a - imm) % Byte IN
    /\ eflags' = SubFlags(a, imm, r, a < imm)
    /\ Continues("sub", Byte, a - imm - r, TRUE) /\ cmp' = NoCmp
    /\ UNCHANGED halted

op_80_group(reg, a, imm) ==
    \/ reg = 0 /\ op_add(Byte, a, imm)
    \/ reg = 2 /\ group_80_adc(a, imm)
    \/ reg = 3 /\ group_80_sbb(a, imm)
    \/ reg = 5 /\ op_sub(Byte, a, imm)
    \/ reg = 7 /\ op_cmp(Byte, a, imm)
    \/ reg \in {1, 4, 6} /\ \E r \in ByteArgs : op_logic(Byte, r, FALSE)

\* 81 and 83 on a long operand never set PF.
GroupAdd(a, imm, r) == set_of_add(ZeroSign(set_cf(eflags, r < a), r), a, imm, r)
GroupSub(a, imm, r, p) == set_of_sub(ZeroSign(set_cf(eflags, p), r), a, imm, r)

group_add(a, imm) ==
    LET r == (a + imm) % Long IN
    /\ eflags' = GroupAdd(a, imm, r)
    /\ Starts("add", Long, a + imm - r) /\ cmp' = NoCmp
    /\ UNCHANGED halted

group_sub(a, imm) ==
    LET r == (a - imm) % Long IN
    /\ eflags' = GroupSub(a, imm, r, a < imm)
    /\ Starts("sub", Long, a - imm - r) /\ Compared("long", a, imm)
    /\ UNCHANGED halted

group_cmp(a, b) ==
    /\ eflags' = GroupSub(a, b, (a - b) % Long, a < b)
    /\ Compared("long", a, b) /\ chain' = NoChain
    /\ UNCHANGED halted

\* CMPXCHG compares EAX with the destination, and leaves PF alone too.
op_cmpxchg(eax, dst) == group_cmp(eax, dst)

group_logic(r) ==
    /\ eflags' = set_cf(ZeroSign(eflags, r), FALSE)
    /\ Compared("test", r, 0) /\ chain' = NoChain
    /\ UNCHANGED halted

op_81(reg, a, imm) ==
    \/ reg = 0 /\ group_add(a, imm)
    \/ reg = 5 /\ group_sub(a, imm)
    \/ reg = 7 /\ group_cmp(a, imm)
    \/ reg \in {1, 4, 6} /\ \E r \in LongArgs : group_logic(r)

\* 83 has ADC and SBB, and takes a carry or borrow out of result < a and of
\* a < imm + CF.
group_83_adc(a, imm) ==
    LET r == (a + imm + eflags.cf) % Long IN
    /\ eflags' = GroupAdd(a, imm, r)
    /\ Continues("add", Long, a + imm - r, TRUE) /\ cmp' = NoCmp
    /\ UNCHANGED halted

group_83_sbb(a, imm) ==
    LET r == (a - imm - eflags.cf) % Long IN
    /\ eflags' = GroupSub(a, imm, r, a < (imm + eflags.cf) % Long)
    /\ Continues("sub", Long, a - imm - r, TRUE) /\ cmp' = NoCmp
    /\ UNCHANGED halted

op_83(reg, a, imm) ==
    \/ op_81(reg, a, imm)
    \/ reg = 2 /\ group_83_adc(a, imm)
    \/ reg = 3 /\ group_83_sbb(a, imm)

\* 66 81 and 66 83 set ZF and SF, CMP also CF.  Here r << 16 makes SF right.
HalfZeroSign(f, r) == set_sf(set_zf(f, r), r * (Long \div Half))

half_result(r) ==
    /\ eflags' = HalfZeroSign(eflags, r)
    /\ Forget /\ UNCHANGED halted

half_cmp(a, imm) ==
    /\ eflags' = HalfZeroSign(set_cf(eflags, a < imm), (a - imm) % Half)
    /\ Compared("half", a, imm) /\ chain' = NoChain
    /\ UNCHANGED halted

group_half(reg, a, imm) ==
    \/ reg = 0 /\ half_result((a + imm) % Half)
    \/ reg = 5 /\ half_result((a - imm) % Half)
    \/ reg = 7 /\ half_cmp(a, imm)
    \/ reg \in {1, 4, 6} /\ \E r \in HalfArgs : half_result(r)

\* The subcodes 81 and the 16-bit groups do not know stop the CPU.
group_unhandled == halted' = TRUE /\ UNCHANGED <<eflags, cmp, chain>>

-------------------------------------------------------------------------------
Init ==
    /\ eflags = NoFlags
    /\ halted = FALSE
    /\ cmp = NoCmp /\ chain = NoChain

LongStep ==
    \/ \E a, b \in LongArgs :
         \/ op_add(Long, a, b)
         \/ op_adc(Long, a, b)
         \/ op_sbb(a, b)
         \/ op_sub(Long, a, b)
         \/ op_cmp(Long, a, b)
         \/ \E reg \in 0 .. 7 : op_81(reg, a, b)
         \/ op_cmpxchg(a, b)
    \/ \E a \in LongArgs, b \in ByteArgs, reg \in 0 .. 7 :
         op_83(reg, a, Extended(b, Long))
    \/ \E a \in LongArgs : op_inc(a) \/ op_dec(a) \/ op_neg(Long, a) \/ op_imul(a)
    \/ \E r \in LongArgs : op_or(Long, r) \/ op_and(Long, r)
    \/ \E r \in LongArgs, keeps_cf \in BOOLEAN :
         op_xor(Long, r, keeps_cf) \/ op_test(Long, r, keeps_cf)

ByteStep ==
    \/ \E a, b \in ByteArgs :
         \/ op_add(Byte, a, b)
         \/ op_adc(Byte, a, b)
         \/ op_cmp(Byte, a, b)
         \/ \E reg \in 0 .. 7 : op_80_group(reg, a, b)
    \/ \E a \in ByteArgs : op_neg(Byte, a)
    \/ \E r \in ByteArgs :
         op_or(Byte, r) \/ op_and(Byte, r) \/ op_xor(Byte, r, FALSE) \/ op_test(Byte, r, FALSE)

HalfStep ==
    \/ \E a, b \in HalfArgs, reg \in 0 .. 7 : group_half(reg, a, b)
    \/ \E a \in HalfArgs, b \in ByteArgs, reg \in 0 .. 7 :
         group_half(reg, a, Extended(b, Half))

Next ==
    \/ ~halted /\ (LongStep \/ ByteStep \/ HalfStep \/ op_flagless \/ group_unhandled)
    \/ halted /\ UNCHANGED vars

Spec == Init /\ [][Next]_vars

-------------------------------------------------------------------------------
(* What the conditional instructions read: Jcc short and near, CMOVcc, SETcc. *)
(* The conditions on OF or PF alone test that flag and are not listed.        *)

Taken(cc) ==
    CASE cc = "B"  -> eflags.cf = 1
      [] cc = "AE" -> eflags.cf = 0
      [] cc = "E"  -> eflags.zf = 1
      [] cc = "NE" -> eflags.zf = 0
      [] cc = "BE" -> eflags.cf = 1 \/ eflags.zf = 1
      [] cc = "A"  -> eflags.cf = 0 /\ eflags.zf = 0
      [] cc = "S"  -> eflags.sf = 1
      [] cc = "NS" -> eflags.sf = 0
      [] cc = "L"  -> eflags.sf # eflags.of
      [] cc = "GE" -> eflags.sf = eflags.of
      [] cc = "LE" -> eflags.zf = 1 \/ eflags.sf # eflags.of
      [] cc = "G"  -> eflags.zf = 0 /\ eflags.sf = eflags.of

Unsigned == {"B", "AE", "E", "NE", "BE", "A"}
Signed == {"L", "GE", "LE", "G"}
OfSign == {"S", "NS"}

Width(kind) == IF kind \in {"byte", "testb"} THEN Byte
               ELSE IF kind = "half" THEN Half ELSE Long

\* The reference: what cc means for operands a and b of width w.
Holds(cc, a, b, w) ==
    CASE cc = "B"  -> a < b
      [] cc = "AE" -> a >= b
      [] cc = "E"  -> a = b
      [] cc = "NE" -> a # b
      [] cc = "BE" -> a <= b
      [] cc = "A"  -> a > b
      [] cc = "S"  -> (a - b) % w >= w \div 2
      [] cc = "NS" -> (a - b) % w < w \div 2
      [] cc = "L"  -> ToSigned(a, w) < ToSigned(b, w)
      [] cc = "GE" -> ToSigned(a, w) >= ToSigned(b, w)
      [] cc = "LE" -> ToSigned(a, w) <= ToSigned(b, w)
      [] cc = "G"  -> ToSigned(a, w) > ToSigned(b, w)

Agrees(cc) == Taken(cc) <=> Holds(cc, cmp.a, cmp.b, Width(cmp.kind))

\* The flags are bits and the histories have their types.
TypeOK ==
    /\ eflags \in Eflags
    /\ halted \in BOOLEAN
    /\ cmp \in [kind : {"none", "long", "byte", "half", "test", "testb"},
                a : 0 .. Long - 1, b : 0 .. Long - 1]
    /\ chain \in [kind : {"none", "add", "sub"}, width : {Byte, Long}, gap : Int,
                  weight : Nat, words : Nat, group : BOOLEAN]

\* A branch, SETcc or CMOVcc after a comparison, with any number of
\* instructions that set no flags between them, goes the way of the numbers
\* compared: every condition after a long SUB, CMP or CMPXCHG, the unsigned
\* conditions after a byte or 16-bit one, the zero and sign tests after a
\* long logical operation, the zero test after one on bytes.
CompareBranch ==
    /\ cmp.kind = "long" => \A cc \in Unsigned \cup Signed \cup OfSign : Agrees(cc)
    /\ cmp.kind \in {"byte", "half"} => \A cc \in Unsigned : Agrees(cc)
    /\ cmp.kind = "test" => \A cc \in {"E", "NE"} \cup OfSign : Agrees(cc)
    /\ cmp.kind = "testb" => \A cc \in {"E", "NE"} : Agrees(cc)

\* CF is the carry (the borrow) of the whole multi-word number, however long
\* it is and wherever INC, DEC and the instructions that set no flags come
\* between its words.
Exact ==
    /\ chain.kind = "add" => chain.gap = eflags.cf * chain.weight
    /\ chain.kind = "sub" => chain.gap = -(eflags.cf * chain.weight)

\* Exact, for chains built from ADD/ADC and SUB/SBB of registers and memory.
ChainExact == ~chain.group => Exact

\* "ADC", "SBB" in the immediate groups: Exact for every chain.
GroupChainExact == Exact

\* "overflow if signs of operands differ and result sign differs from a": a
\* signed condition after a byte comparison goes the way of the numbers.
ByteSigned == cmp.kind = "byte" => \A cc \in Signed : Agrees(cc)
===============================================================================
