------------------------------- MODULE WideOps -------------------------------
(***************************************************************************)
(* Shifts, rotates, multiplication and division (ops.c): the groups C0,    *)
(* C1, D0 to D3, SHLD, CDQ and the multiplying and dividing subcodes of F6 *)
(* and F7, on EAX, EDX and EFLAGS.  A long operand is EAX and a byte       *)
(* operand AL; a second operand is any register or memory contents.        *)
(*                                                                         *)
(* hist is history: the series of instructions whose joint result the      *)
(* registers hold, if they hold one.                                       *)
(***************************************************************************)
EXTENDS Flags

CONSTANTS ByteBits, LongBits,   \* 8 and 32
          Counts,               \* shift counts before they are masked
          MaxTotal,             \* bound: places a series of shifts moves
          MaxOps                \* bound: instructions

\* 1 << n
Pow2(n) ==
    LET p[i \in 0 .. n] == IF i = 0 THEN 1 ELSE 2 * p[i - 1]
    IN  p[n]

ASSUME WideAssumption ==
    /\ ByteBits \in Nat /\ LongBits \in Nat
    /\ Byte = Pow2(ByteBits) /\ Half = Byte * Byte /\ Long = Pow2(LongBits)
    /\ Counts \subseteq Nat /\ MaxTotal \in Nat /\ MaxOps \in Nat

VARIABLES eax, edx,
          status,        \* running, halted (cpu->halted) or died (the emulator)
          hist,
          ops            \* instructions so far

wide_vars == <<eax, edx, eflags, status, hist, ops>>

al == eax % Byte

\* set_reg8 and the masks of F6 keep the rest of EAX.
WithAl(v) == (eax \div Byte) * Byte + v
WithAx(v) == (eax \div Half) * Half + v

-------------------------------------------------------------------------------
(* History.                                                                  *)

NoHist == [kind |-> "none"]

Names == <<"rol", "ror", "", "", "shl", "shr", "shl", "sar">>
Name(reg) == Names[reg + 1]

\* One more shift of the same kind on the same operand, or the first one.
Shifted(bits, reg, v, n) ==
    LET again == /\ hist.kind = "shift" /\ hist.bits = bits /\ hist.name = Name(reg)
                 /\ hist.total + n <= MaxTotal
    IN  hist' = [kind |-> "shift", bits |-> bits, name |-> Name(reg),
                 from |-> IF again THEN hist.from ELSE v,
                 total |-> IF again THEN hist.total + n ELSE n, last |-> n]

\* A step of a multi-word division: the quotient word q of <<edx, eax>> by b.
Divided(b, q) ==
    hist' = IF edx >= b THEN NoHist
            ELSE IF /\ hist.kind = "div" /\ hist.by = b /\ hist.words < MaxWords
                 THEN [hist EXCEPT !.num = @ * Long + eax, !.quo = @ * Long + q,
                                   !.words = @ + 1]
                 ELSE [kind |-> "div", by |-> b, num |-> edx * Long + eax, quo |-> q,
                       words |-> 2]

Multiplied(w, signed, b) ==
    hist' = [kind |-> "mul", w |-> w, signed |-> signed, by |-> b,
             a |-> eax % w, high |-> eax \div Half]

\* Division by the factor of the product just made.
Undoes(w, signed, b) ==
    hist.kind = "mul" /\ hist.w = w /\ hist.signed = signed /\ hist.by = b

-------------------------------------------------------------------------------
(* The shift groups.                                                         *)

\* x86 masks the count to five bits.
masked(n) == n % LongBits

Shl(v, n, bits) == (v * Pow2(n)) % Pow2(bits)

\* A byte rotated by more than 8 shifts right by a negative number, which
\* gives 0 on the hosts the code is built for.
Shr(v, n) == IF n < 0 THEN 0 ELSE v \div Pow2(n)

Sar(v, n, bits) == (ToSigned(v, Pow2(bits)) \div Pow2(n)) % Pow2(bits)

\* The two parts of a rotate have no bit in common.  A long rotated by 0 shifts
\* by 32, undefined in C: whether that gives 0 or v, the two parts together
\* are v.
ShiftResult(reg, v, n, bits) ==
    CASE reg = 0 -> Shl(v, n, bits) + Shr(v, bits - n)
      [] reg = 1 -> Shr(v, n) + (IF n > bits THEN 0 ELSE Shl(v, bits - n, bits))
      [] reg \in {4, 6} -> Shl(v, n, bits)
      [] reg = 5 -> Shr(v, n)
      [] reg = 7 -> Sar(v, n, bits)

\* Mutated form of ShiftCarry: SHR takes the bit that stays.
carry_kept(reg, v, n, bits, r) ==
    CASE reg = 0 -> r % 2 = 1
      [] reg = 1 -> r \div Pow2(bits - 1) = 1
      [] reg \in {4, 6} -> n # 0 /\ Shr(v, bits - n) % 2 = 1
      [] reg \in {5, 7} -> n # 0 /\ Shr(v, n) % 2 = 1

ShiftCarry(reg, v, n, bits, r) ==
    CASE reg = 0 -> r % 2 = 1
      [] reg = 1 -> r \div Pow2(bits - 1) = 1
      [] reg \in {4, 6} -> n # 0 /\ Shr(v, bits - n) % 2 = 1
      [] reg \in {5, 7} -> n # 0 /\ Shr(v, n - 1) % 2 = 1

\* The rotates set CF alone, the shifts ZF and SF too.
ShiftFlags(reg, v, n, bits, r) ==
    LET f == set_cf(eflags, ShiftCarry(reg, v, n, bits, r))
    IN  IF reg \in {0, 1} THEN f ELSE ZeroSign(f, r)

\* RCL and RCR are not implemented.
unhandled(reg) == reg \in {2, 3} /\ status' = "halted" /\ UNCHANGED <<eax, edx, eflags, hist>>

\* The byte groups set PF last.
shift_byte(reg, n) ==
    \/ unhandled(reg)
    \/ LET r == ShiftResult(reg, al, n, ByteBits) IN
       /\ reg \notin {2, 3}
       /\ eax' = WithAl(r)
       /\ eflags' = set_pf(ShiftFlags(reg, al, n, ByteBits, r), r)
       /\ IF n > ByteBits /\ reg \in {0, 1, 7} THEN hist' = NoHist
          ELSE Shifted(ByteBits, reg, al, n)
       /\ UNCHANGED <<edx, status>>

\* SHL EAX by the count of the SHLD before it completes a shift of EDX:EAX.
shift_long(reg, n) ==
    \/ unhandled(reg)
    \/ LET r == ShiftResult(reg, eax, n, LongBits) IN
       /\ reg \notin {2, 3}
       /\ eax' = r
       /\ eflags' = ShiftFlags(reg, eax, n, LongBits, r)
       /\ IF hist.kind = "pair" /\ hist.pending > 0
          THEN hist' = IF reg \in {4, 6} /\ n = hist.pending
                       THEN [hist EXCEPT !.total = @ + n, !.pending = 0] ELSE NoHist
          ELSE Shifted(LongBits, reg, eax, n)
       /\ UNCHANGED <<edx, status>>

op_c0_group(reg, imm) == shift_byte(reg, masked(imm))
op_d2_group(reg, ecx) == shift_byte(reg, masked(ecx))
op_d0_group(reg) == shift_byte(reg, 1)

op_c1_group(reg, imm) == shift_long(reg, masked(imm))
op_d3_group(reg, ecx) == shift_long(reg, masked(ecx))
op_d1_group(reg) == shift_long(reg, 1)

\* Mutated form of ShldResult: the low bits of the source come in.
ShldLow(dst, src, n) == Shl(dst, n, LongBits) + (src % Pow2(n))

ShldResult(dst, src, n) == Shl(dst, n, LongBits) + Shr(src, LongBits - n)

\* SHLD EDX, EAX, imm8.
op_shld_rm32_r32_imm8(imm) ==
    LET n == masked(imm)
        r == ShldResult(edx, eax, n)
        again == hist.kind = "pair" /\ hist.pending = 0 /\ hist.total + n <= MaxTotal
    IN  \/ n = 0 /\ UNCHANGED <<eax, edx, eflags, status, hist>>
        \/ /\ n # 0
           /\ edx' = r
           /\ eflags' = set_of_sub(ZeroSignParity(set_cf(eflags, Shr(edx, LongBits - n) % 2 = 1), r),
                                   edx, eax, r)
           /\ hist' = [kind |-> "pair", pending |-> n,
                       from |-> IF again THEN hist.from ELSE edx * Long + eax,
                       total |-> IF again THEN hist.total ELSE 0]
           /\ UNCHANGED <<eax, status>>

-------------------------------------------------------------------------------
(* The F6 and F7 groups.  Of the flags only CF is set, by the products.      *)

\* C division rounds toward zero.
TruncDiv(a, b) ==
    LET abs(x) == IF x < 0 THEN -x ELSE x
        q == abs(a) \div abs(b)
    IN  IF (a < 0) = (b < 0) THEN q ELSE -q

TruncMod(a, b) == a - b * TruncDiv(a, b)

BitAt(x, i) == (x \div Pow2(i)) % 2

\* Bitwise or of two 16-bit numbers.
Or(x, y) ==
    LET low[n \in 0 .. 2 * ByteBits] ==
          IF n = 0 THEN 0
          ELSE low[n - 1] + Pow2(n - 1) * Bit(BitAt(x, n - 1) = 1 \/ BitAt(y, n - 1) = 1)
    IN  low[2 * ByteBits]

Product(p) == /\ eax' = p % Long
              /\ edx' = (p \div Long) % Long
              /\ eflags' = set_cf(eflags, edx' # 0)
              /\ UNCHANGED status

\* Mutated form of mul_long: EDX keeps its value.
mul_low(b) == /\ eax' = (eax * b) % Long
              /\ eflags' = set_cf(eflags, eax * b >= Long)
              /\ Multiplied(Long, FALSE, b)
              /\ UNCHANGED <<edx, status>>

mul_long(b) == Product(eax * b) /\ Multiplied(Long, FALSE, b)

imul_long(b) ==
    Product((ToSigned(eax, Long) * ToSigned(b, Long)) % (Long * Long)) /\ Multiplied(Long, TRUE, b)

mul_byte(b) ==
    LET p == al * b IN
    /\ eax' = WithAx(p)
    /\ eflags' = set_cf(eflags, p \div Byte # 0)
    /\ Multiplied(Byte, FALSE, b)
    /\ UNCHANGED <<edx, status>>

imul_byte(b) ==
    LET p == ToSigned(al, Byte) * ToSigned(b, Byte) IN
    /\ eax' = WithAx(p % Half)
    /\ eflags' = set_cf(eflags, p \div Byte # -BitAt(p, ByteBits - 1))
    /\ Multiplied(Byte, TRUE, b)
    /\ UNCHANGED <<edx, status>>

Undone == hist' = [kind |-> "undone", w |-> hist.w, a |-> hist.a, high |-> hist.high]

\* A zero divisor stops the CPU in every form but DIV r/m32.
divide_by_zero(b) == b = 0 /\ status' = "halted" /\ UNCHANGED <<eax, edx, eflags, hist>>

\* Mutated form of div_long: EDX is not part of the dividend.
div_low(b) ==
    \/ b = 0 /\ UNCHANGED <<eax, edx, eflags, status, hist>>
    \/ /\ b # 0
       /\ eax' = eax \div b
       /\ edx' = eax % b
       /\ IF Undoes(Long, FALSE, b) THEN Undone ELSE Divided(b, eax \div b)
       /\ UNCHANGED <<eflags, status>>

\* The quotient is cut to 32 bits; a zero divisor is skipped.
div_long(b) ==
    LET n == edx * Long + eax IN
    \/ b = 0 /\ UNCHANGED <<eax, edx, eflags, status, hist>>
    \/ /\ b # 0
       /\ eax' = (n \div b) % Long
       /\ edx' = n % b
       /\ IF Undoes(Long, FALSE, b) THEN Undone ELSE Divided(b, (n \div b) % Long)
       /\ UNCHANGED <<eflags, status>>

\* The most negative dividend by -1 overflows int64_t: the host traps, or the
\* quotient wraps round.
idiv_long(b) ==
    LET n == ToSigned(edx * Long + eax, Long * Long)
        d == ToSigned(b, Long)
    IN  \/ divide_by_zero(b)
        \/ /\ d = -1 /\ n = -((Long * Long) \div 2)
           /\ status' = "died"
           /\ UNCHANGED <<eax, edx, eflags, hist>>
        \/ /\ d # 0
           /\ eax' = TruncDiv(n, d) % Long
           /\ edx' = TruncMod(n, d) % Long
           /\ IF Undoes(Long, TRUE, b) THEN Undone
              ELSE hist' = IF hist.kind = "cdq" THEN [kind |-> "idiv", num |-> n, by |-> d]
                           ELSE NoHist
           /\ UNCHANGED <<eflags, status>>

\* A quotient of more than 8 bits is or'ed into the remainder.
div_byte(b) ==
    LET n == eax % Half IN
    \/ divide_by_zero(b)
    \/ /\ b # 0
       /\ eax' = WithAx(Or((n % b) * Byte, n \div b))
       /\ IF Undoes(Byte, FALSE, b) THEN Undone ELSE hist' = NoHist
       /\ UNCHANGED <<edx, eflags, status>>

idiv_byte(b) ==
    LET n == ToSigned(eax % Half, Half)
        d == ToSigned(b, Byte)
    IN  \/ divide_by_zero(b)
        \/ /\ d # 0
           /\ eax' = WithAx((TruncMod(n, d) % Byte) * Byte + (TruncDiv(n, d) % Byte))
           /\ IF Undoes(Byte, TRUE, b) THEN Undone ELSE hist' = NoHist
           /\ UNCHANGED <<edx, eflags, status>>

\* Mutated form of op_cdq: EDX is cleared.
cdq_zero == /\ edx' = 0
            /\ hist' = [kind |-> "cdq"]
            /\ UNCHANGED <<eax, eflags, status>>

op_cdq == /\ edx' = IF Sign(eax) THEN Long - 1 ELSE 0
          /\ hist' = [kind |-> "cdq"]
          /\ UNCHANGED <<eax, eflags, status>>

\* MOV EAX, imm32 brings the next word of a long division.
mov_eax(v) == /\ eax' = v
              /\ hist' = IF hist.kind = "div" THEN hist ELSE NoHist
              /\ UNCHANGED <<edx, eflags, status>>

mov_edx(v) == edx' = v /\ hist' = NoHist /\ UNCHANGED <<eax, eflags, status>>

-------------------------------------------------------------------------------
\* The registers as earlier instructions may have left them.
WideInit ==
    /\ eax \in LongArgs /\ edx \in LongArgs /\ eflags = NoFlags
    /\ status = "running" /\ hist = NoHist /\ ops = 0

ShiftStep ==
    \E reg \in 0 .. 7 :
       \/ op_d0_group(reg) \/ op_d1_group(reg)
       \/ \E n \in Counts : \/ op_c0_group(reg, n) \/ op_d2_group(reg, n)
                            \/ op_c1_group(reg, n) \/ op_d3_group(reg, n)

WideStep ==
    \/ \E n \in Counts : op_shld_rm32_r32_imm8(n)
    \/ \E b \in LongArgs :
         \/ mul_long(b) \/ imul_long(b) \/ div_long(b) \/ idiv_long(b)
         \/ mov_eax(b) \/ mov_edx(b)
    \/ \E b \in ByteArgs : mul_byte(b) \/ imul_byte(b) \/ div_byte(b) \/ idiv_byte(b)
    \/ op_cdq

Ended == status # "running" \/ ops = MaxOps

WideNext ==
    \/ ~Ended /\ ops' = ops + 1 /\ (ShiftStep \/ WideStep)
    \/ Ended /\ UNCHANGED wide_vars

WideSpec == WideInit /\ [][WideNext]_wide_vars

-------------------------------------------------------------------------------
\* The registers keep their width whatever is shifted, multiplied or divided.
WideTypeOK ==
    /\ eax \in 0 .. Long - 1 /\ edx \in 0 .. Long - 1
    /\ eflags \in Eflags
    /\ status \in {"running", "halted", "died"} /\ ops \in 0 .. MaxOps
    /\ hist.kind \in {"none", "shift", "pair", "div", "mul", "undone", "cdq", "idiv"}

\* Bit i of the number x seen without end in both directions: a rotated number
\* repeats, a shifted one is continued by zeros or (SAR) by its sign.
Endless(name, x, i, bits) ==
    CASE name \in {"rol", "ror"} -> BitAt(x, i % bits)
      [] name \in {"shl", "shr"} -> IF i \in 0 .. bits - 1 THEN BitAt(x, i) ELSE 0
      [] name = "sar" -> IF i >= bits THEN BitAt(x, bits - 1)
                         ELSE IF i >= 0 THEN BitAt(x, i) ELSE 0

\* Shifts (rotates) one after the other move the operand by the sum of their
\* counts, by immediate, by CL or by one, and CF is the last bit pushed out at
\* the end; a count of zero or of the whole width in between changes nothing.
\* ZF is that of the result.
ShiftsCompose ==
    hist.kind = "shift" =>
      LET v == IF hist.bits = LongBits THEN eax ELSE al
          left == hist.name \in {"rol", "shl"}
          move == IF left THEN -hist.total ELSE hist.total
          bit(i) == Endless(hist.name, hist.from, i + move, hist.bits)
      IN  /\ \A i \in 0 .. hist.bits - 1 : BitAt(v, i) = bit(i)
          /\ hist.last > 0 => eflags.cf = bit(IF left THEN hist.bits ELSE -1)
          /\ hist.name \in {"shl", "shr", "sar"} => eflags.zf = Bit(v = 0)

\* SHLD and SHL by the same counts, repeated, shift EDX:EAX as one number.
PairShift ==
    hist.kind = "pair" /\ hist.pending = 0 =>
      edx * Long + eax = (hist.from * Pow2(hist.total)) % (Long * Long)

\* DIV, repeated with the remainder left in EDX and the next word in EAX,
\* divides a number of any length: quotient and remainder are exact.
LongDivision ==
    hist.kind = "div" => hist.num = hist.quo * hist.by + edx /\ edx < hist.by

\* A product is exact in EDX:EAX or AX, and dividing by the same factor gives
\* the other one back with no remainder, signed or not, leaving the rest of
\* EAX as it was.
ProductsUndone ==
    LET num(x, w, signed) == IF signed THEN ToSigned(x, w) ELSE x
        wide == IF hist.w = Long THEN edx * Long + eax ELSE eax % Half
    IN  /\ hist.kind = "mul" =>
             num(wide, hist.w * hist.w, hist.signed)
               = num(hist.a, hist.w, hist.signed) * num(hist.by, hist.w, hist.signed)
        /\ hist.kind = "undone" => wide = hist.a
        /\ hist.kind \in {"mul", "undone"} /\ hist.w = Byte => eax \div Half = hist.high

\* CDQ and IDIV divide EAX as C does: the quotient rounds toward zero, the
\* remainder has the sign of the dividend; the one quotient too large for EAX
\* wraps round.
SignedDivision ==
    hist.kind = "idiv" =>
      LET q == ToSigned(eax, Long)
          r == ToSigned(edx, Long)
          size(x) == IF x < 0 THEN -x ELSE x
      IN  \/ hist.num = -(Long \div 2) /\ hist.by = -1
          \/ /\ hist.num = q * hist.by + r
             /\ size(r) < size(hist.by)
             /\ r # 0 => (r < 0 <=> hist.num < 0)
===============================================================================
