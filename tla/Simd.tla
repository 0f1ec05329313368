--------------------------------- MODULE Simd ---------------------------------
(***************************************************************************)
(* The MMX and SSE instructions (ops.c): moves between mmx_regs, xmm_regs  *)
(* and memory, the unpacks and shuffles, PCMPEQB, PMOVMSKB and PXOR.  A    *)
(* 64-bit value is a Quad, eight bytes from the lowest; an XMM register a  *)
(* lo and a hi.  Memory is read and written in dwords, each of them zero   *)
(* or dropped where it is outside.  An operand r/m is a register or an     *)
(* address.  The two register files share nothing but memory: a behaviour  *)
(* uses one of them.                                                       *)
(***************************************************************************)
EXTENDS GuestMemory

CONSTANTS ByteBits,     \* 8
          MmxRegs, XmmRegs,  \* register numbers
          Addrs,        \* addresses of operands
          Imm8s,        \* of the shuffles, as the four indices 0 .. 3
          Memories,     \* initial contents
          Eaxs,         \* values of the general register, as four bytes
          MmxOps, XmmOps     \* bounds: instructions

Byte == 0 .. ByteValues - 1
Lane == 0 .. 7
Quad == [Lane -> Byte]
Dword == [0 .. 3 -> Byte]
XMMReg == [lo : Quad, hi : Quad]

\* 2^n.
Pow2(n) ==
    LET p[i \in 0 .. n] == IF i = 0 THEN 1 ELSE 2 * p[i - 1]
    IN  p[n]

ASSUME SimdAssumption ==
    /\ ByteBits \in Nat \ {0} /\ ByteValues = Pow2(ByteBits)
    /\ Addresses >= 16      \* 2^32, an operand meets itself nowhere
    /\ WordBytes = 4 /\ Addrs \subseteq 0 .. Addresses - 1
    /\ Imm8s \subseteq [0 .. 3 -> 0 .. 3]
    /\ Memories \subseteq Memory /\ Eaxs \subseteq Dword
    /\ MmxOps \in Nat /\ XmmOps \in Nat

VARIABLES mmx_regs, xmm_regs, mem,
          eax,        \* the r32 of MOVD
          ecx,        \* the lanes PMOVMSKB found set
          halted,
          unit,       \* the register file this behaviour uses
          ops,        \* instructions so far
          spread,     \* history: [n, char] for each MMX register, its n low lanes are char
          found,      \* history: the lanes a scan with it should find, or {-1}
          scanned,    \* history: found, of the register PMOVMSKB took
          want, image \* history: the words of each XMM register, and memory, as the
                      \* manual describes each move

vars == <<mmx_regs, xmm_regs, mem, eax, ecx, halted, unit, ops,
          spread, found, scanned, want, image>>

Zero == [i \in Lane |-> 0]
Ones == ByteValues - 1
TopBit(b) == b >= ByteValues \div 2

ReadDword(m, a) == [i \in 0 .. 3 |-> IF check_bounds(a, 4) THEN m[a + i] ELSE 0]
Address(a) == a % Addresses

\* (uint64_t)mem_read32(addr) | ((uint64_t)mem_read32(addr + 4) << 32)
ReadQuad(m, a) ==
    [i \in Lane |-> IF i < 4 THEN ReadDword(m, a)[i] ELSE ReadDword(m, Address(a + 4))[i - 4]]

WriteDword(m, a, d) ==
    [x \in DOMAIN m |-> IF check_bounds(a, 4) /\ x \in a .. a + 3 THEN d[x - a] ELSE m[x]]

WriteQuad(m, a, q) ==
    WriteDword(WriteDword(m, a, [i \in 0 .. 3 |-> q[i]]), Address(a + 4), [i \in 0 .. 3 |-> q[i + 4]])

RM(regs) == [mod3 : {TRUE}, at : regs] \cup [mod3 : {FALSE}, at : Addrs]

-------------------------------------------------------------------------------
(* MMX.                                                                      *)

NoSpread == [n |-> 0, char |-> 0]

MmxSource(rm) == IF rm.mod3 THEN mmx_regs[rm.at] ELSE ReadQuad(mem, rm.at)

KeepXmm == UNCHANGED <<xmm_regs, want, halted, unit>>

SetMmx(r, q, s, f) ==
    /\ mmx_regs' = [mmx_regs EXCEPT ![r] = q]
    /\ spread' = [spread EXCEPT ![r] = s] /\ found' = [found EXCEPT ![r] = f]
    /\ UNCHANGED <<mem, image, eax, ecx, scanned>> /\ KeepXmm

\* Unpacking a register with itself doubles each unit of w bytes of its low half.
Doubled(s, w) ==
    LET whole == w * (s.n \div w) IN
    IF whole \in 1 .. 4 THEN [s EXCEPT !.n = 2 * whole] ELSE s

SelfSpread(r, rm, w) == IF rm.mod3 /\ rm.at = r THEN Doubled(spread[r], w) ELSE NoSpread

\* PUNPCKLBW, PUNPCKLWD, PUNPCKLDQ: units of w bytes, from dst and src in turn.
Unpacked(dst, src, w) ==
    [i \in Lane |->
       LET at == (i \div (2 * w)) * w + (i % w) IN IF (i \div w) % 2 = 0 THEN dst[at] ELSE src[at]]

op_punpcklbw(r, rm) == SetMmx(r, Unpacked(mmx_regs[r], MmxSource(rm), 1), SelfSpread(r, rm, 1), {-1})
op_punpcklwd(r, rm) == SetMmx(r, Unpacked(mmx_regs[r], MmxSource(rm), 2), SelfSpread(r, rm, 2), {-1})
op_punpckldq(r, rm) == SetMmx(r, Unpacked(mmx_regs[r], MmxSource(rm), 4), SelfSpread(r, rm, 4), {-1})

\* The four 16-bit words of q, taken at the indices of imm.
Shuffled(q, imm) == [i \in Lane |-> q[2 * imm[i \div 2] + (i % 2)]]

op_pshufw(r, rm, imm) ==
    SetMmx(r, Shuffled(MmxSource(rm), imm),
           IF rm.mod3 /\ spread[rm.at].n >= 2 /\ imm = [i \in 0 .. 3 |-> 0]
           THEN [spread[rm.at] EXCEPT !.n = 8] ELSE NoSpread, {-1})

\* MOVD mm, r/m32 clears the upper dword.
op_movd_mm_rm32(r, rm) ==
    LET val == IF rm.mod3 THEN eax ELSE ReadDword(mem, rm.at) IN
    SetMmx(r, [i \in Lane |-> IF i < 4 THEN val[i] ELSE 0], [n |-> 1, char |-> val[0]], {-1})

op_movq_mm_rm64(r, rm) ==
    SetMmx(r, MmxSource(rm), IF rm.mod3 THEN spread[rm.at] ELSE NoSpread,
           IF rm.mod3 THEN found[rm.at] ELSE {-1})

\* Mutated form of EqualBytes: only the low dword is compared.
EqualBytesLow(dst, src) == [i \in Lane |-> IF i < 4 /\ dst[i] = src[i] THEN Ones ELSE 0]

EqualBytes(dst, src) == [i \in Lane |-> IF dst[i] = src[i] THEN Ones ELSE 0]

\* A scan compares memory with a register that is char in every lane.
op_pcmpeqb(r, rm) ==
    SetMmx(r, EqualBytes(mmx_regs[r], MmxSource(rm)), NoSpread,
           IF ~rm.mod3 /\ spread[r].n = 8
           THEN {i \in Lane : ReadQuad(mem, rm.at)[i] = spread[r].char} ELSE {-1})

\* a ^ b, from the highest bit: x[n] is that of the n highest bits.
BitAt(v, k) == (v \div Pow2(k)) % 2
Xor(a, b) ==
    LET x[n \in 0 .. ByteBits] ==
          IF n = 0 THEN 0
          ELSE 2 * x[n - 1]
                 + (IF BitAt(a, ByteBits - n) # BitAt(b, ByteBits - n) THEN 1 ELSE 0)
    IN  x[ByteBits]

\* PXOR of a register with itself puts zero in every lane.
op_pxor_mm_mm(r, rm) ==
    SetMmx(r, [i \in Lane |-> Xor(mmx_regs[r][i], MmxSource(rm)[i])],
           IF rm.mod3 /\ rm.at = r THEN [n |-> 8, char |-> 0] ELSE NoSpread, {-1})

op_pmovmskb(r) ==
    /\ ecx' = {i \in Lane : TopBit(mmx_regs[r][i])}
    /\ scanned' = found[r]
    /\ UNCHANGED <<mmx_regs, mem, image, eax, spread, found>> /\ KeepXmm

\* A store to memory of the dword or quad at the low end of register r.
MmxStored(m) ==
    /\ mem' = m /\ image' = m
    /\ UNCHANGED <<mmx_regs, eax, ecx, spread, found, scanned>> /\ KeepXmm

op_movd_rm32_mm(r, rm) ==
    LET val == [i \in 0 .. 3 |-> mmx_regs[r][i]] IN
    \/ /\ rm.mod3 /\ eax' = val
       /\ UNCHANGED <<mmx_regs, mem, image, ecx, spread, found, scanned>> /\ KeepXmm
    \/ ~rm.mod3 /\ MmxStored(WriteDword(mem, rm.at, val))

\* 0F 7F and 0F D6.
op_movq_rm64_mm(r, rm) ==
    \/ rm.mod3 /\ SetMmx(rm.at, mmx_regs[r], spread[r], found[r])
    \/ ~rm.mod3 /\ MmxStored(WriteQuad(mem, rm.at, mmx_regs[r]))

MmxStep ==
    \E r \in MmxRegs :
      \/ op_pmovmskb(r)
      \/ \E rm \in RM(MmxRegs) :
           \/ op_punpcklbw(r, rm) \/ op_punpcklwd(r, rm) \/ op_punpckldq(r, rm)
           \/ op_movd_mm_rm32(r, rm) \/ op_movq_mm_rm64(r, rm)
           \/ op_pcmpeqb(r, rm) \/ op_pxor_mm_mm(r, rm)
           \/ op_movd_rm32_mm(r, rm) \/ op_movq_rm64_mm(r, rm)
           \/ \E imm \in Imm8s : op_pshufw(r, rm, imm)

-------------------------------------------------------------------------------
(* SSE, with what the manual says of each move as a choice of words.         *)

KeepMmx == UNCHANGED <<mmx_regs, eax, ecx, spread, found, scanned, halted, unit>>

read_xmm_src(rm) ==
    IF rm.mod3 THEN xmm_regs[rm.at]
    ELSE [lo |-> ReadQuad(mem, rm.at), hi |-> ReadQuad(mem, Address(rm.at + 8))]

read_quad_src(rm) == IF rm.mod3 THEN xmm_regs[rm.at].lo ELSE ReadQuad(mem, rm.at)

WordsOf(x) ==
    [i \in Lane |-> IF i < 4 THEN <<x.lo[2 * i], x.lo[2 * i + 1]>>
                    ELSE <<x.hi[2 * i - 8], x.hi[2 * i - 7]>>]

\* The words of an operand.
Source(rm) == IF rm.mod3 THEN want[rm.at] ELSE WordsOf(read_xmm_src(rm))

ZeroWord == <<0, 0>>

SetXmm(r, x, w) ==
    /\ xmm_regs' = [xmm_regs EXCEPT ![r] = x]
    /\ want' = [want EXCEPT ![r] = w]
    /\ UNCHANGED <<mem, image>> /\ KeepMmx

\* Words n of a register in memory at a, the dwords outside left out.
WordsAt(m, a, w, n) ==
    [x \in DOMAIN m |->
       LET k == (x - a) % Addresses
           whole == Address(a + 4 * (k \div 4)) + 4 <= MemSize
                      /\ Address(a + 4 * (k \div 4)) <= x
       IN  IF k < 2 * n /\ whole THEN w[k \div 2][1 + (k % 2)] ELSE m[x]]

XmmStored(m, i) == mem' = m /\ image' = i /\ UNCHANGED <<xmm_regs, want>> /\ KeepMmx

\* MOVUPS and MOVDQU.
op_movups_xmm_rm128(r, rm) == SetXmm(r, read_xmm_src(rm), Source(rm))

write_xmm_dst(rm, x, w) ==
    \/ rm.mod3 /\ SetXmm(rm.at, x, w)
    \/ ~rm.mod3 /\ XmmStored(WriteQuad(WriteQuad(mem, rm.at, x.lo), Address(rm.at + 8), x.hi),
                             WordsAt(image, rm.at, w, 8))

op_movups_rm128_xmm(r, rm) == write_xmm_dst(rm, xmm_regs[r], want[r])

\* MOVHPS and MOVLHPS: the low quad of the source becomes the high one.
op_movhps_xmm_m64(r, rm) ==
    SetXmm(r, [xmm_regs[r] EXCEPT !.hi = read_quad_src(rm)],
           [i \in Lane |-> IF i < 4 THEN want[r][i] ELSE Source(rm)[i - 4]])

\* The register form writes the high quad into the low one of the destination.
op_movhps_m64_xmm(r, rm) ==
    \/ rm.mod3 /\ SetXmm(rm.at, [xmm_regs[rm.at] EXCEPT !.lo = xmm_regs[r].hi],
                         [i \in Lane |-> IF i < 4 THEN want[r][i + 4] ELSE want[rm.at][i]])
    \/ ~rm.mod3 /\ XmmStored(WriteQuad(mem, rm.at, xmm_regs[r].hi),
                             WordsAt(image, rm.at, [i \in 0 .. 3 |-> want[r][i + 4]], 4))

op_punpcklqdq(r, rm) ==
    SetXmm(r, [xmm_regs[r] EXCEPT !.hi = read_xmm_src(rm).lo],
           [i \in Lane |-> IF i < 4 THEN want[r][i] ELSE Source(rm)[i - 4]])

\* Mutated form of HighPair: the two halves are assigned in the other order.
HighPairSwapped(dst, rm) == [lo |-> read_xmm_src(rm).hi, hi |-> read_xmm_src(rm).hi]

\* lo takes the high quad of the destination before that is overwritten.
HighPair(dst, rm) == [lo |-> dst.hi, hi |-> read_xmm_src(rm).hi]

op_punpckhqdq(r, rm) ==
    SetXmm(r, HighPair(xmm_regs[r], rm),
           [i \in Lane |-> IF i < 4 THEN want[r][i + 4] ELSE Source(rm)[i]])

\* MOVSD xmm, xmm/m64 and MOVQ xmm, xmm/m64 clear the high quad, in the register
\* forms too.  want follows the code here and in the next: the manual's MOVSD
\* between registers keeps the high quad.
movsd_xmm_rm64(r, rm) ==
    SetXmm(r, [lo |-> read_quad_src(rm), hi |-> Zero],
           [i \in Lane |-> IF i < 4 THEN Source(rm)[i] ELSE ZeroWord])

movsd_rm64_xmm(r, rm) ==
    \/ rm.mod3 /\ SetXmm(rm.at, [lo |-> xmm_regs[r].lo, hi |-> Zero],
                         [i \in Lane |-> IF i < 4 THEN want[r][i] ELSE ZeroWord])
    \/ ~rm.mod3 /\ XmmStored(WriteQuad(mem, rm.at, xmm_regs[r].lo), WordsAt(image, rm.at, want[r], 4))

\* Each shuffles one half of the source and takes the other as it is.
pshuflw(r, rm, imm) ==
    LET src == read_xmm_src(rm) IN
    SetXmm(r, [lo |-> Shuffled(src.lo, imm), hi |-> src.hi],
           [i \in Lane |-> IF i < 4 THEN Source(rm)[imm[i]] ELSE Source(rm)[i]])

pshufhw(r, rm, imm) ==
    LET src == read_xmm_src(rm) IN
    SetXmm(r, [lo |-> src.lo, hi |-> Shuffled(src.hi, imm)],
           [i \in Lane |-> IF i < 4 THEN Source(rm)[i] ELSE Source(rm)[4 + imm[i - 4]]])

\* ENDBR32 does nothing; an unknown F2 0F or F3 0F code halts.
endbr32 == UNCHANGED <<xmm_regs, want, mem, image>> /\ KeepMmx
unhandled_sse ==
    /\ halted' = TRUE
    /\ UNCHANGED <<xmm_regs, want, mem, image, mmx_regs, eax, ecx, spread, found, scanned, unit>>

XmmStep ==
    \/ endbr32 \/ unhandled_sse
    \/ \E r \in XmmRegs, rm \in RM(XmmRegs) :
         \/ op_movups_xmm_rm128(r, rm) \/ op_movups_rm128_xmm(r, rm)
         \/ op_movhps_xmm_m64(r, rm) \/ op_movhps_m64_xmm(r, rm)
         \/ op_punpcklqdq(r, rm) \/ op_punpckhqdq(r, rm)
         \/ movsd_xmm_rm64(r, rm) \/ movsd_rm64_xmm(r, rm)
         \/ \E imm \in Imm8s : pshuflw(r, rm, imm) \/ pshufhw(r, rm, imm)

-------------------------------------------------------------------------------
Init ==
    /\ mmx_regs = [r \in MmxRegs |-> Zero]
    /\ xmm_regs = [r \in XmmRegs |-> [lo |-> Zero, hi |-> Zero]]
    /\ mem \in Memories /\ eax \in Eaxs /\ ecx = {} /\ halted = FALSE
    /\ unit \in {"mmx", "xmm"} /\ ops = 0
    /\ spread = [r \in MmxRegs |-> NoSpread] /\ found = [r \in MmxRegs |-> {-1}] /\ scanned = {-1}
    /\ want = [r \in XmmRegs |-> [i \in Lane |-> ZeroWord]] /\ image = mem

Ended == halted \/ ops = (IF unit = "mmx" THEN MmxOps ELSE XmmOps)

Next ==
    \/ /\ ~Ended /\ ops' = ops + 1
       /\ \/ unit = "mmx" /\ MmxStep
          \/ unit = "xmm" /\ XmmStep
    \/ Ended /\ UNCHANGED vars

Spec == Init /\ [][Next]_vars

-------------------------------------------------------------------------------
\* Registers and memory hold bytes.
TypeOK ==
    /\ mmx_regs \in [MmxRegs -> Quad] /\ xmm_regs \in [XmmRegs -> XMMReg]
    /\ mem \in Memory /\ eax \in Dword /\ ecx \subseteq Lane
    /\ halted \in BOOLEAN

\* The scan of strlen and memchr: a character brought into every lane, by
\* MOVD, PUNPCKLBW, PUNPCKLWD and PUNPCKLDQ or by PSHUFW, in any register and
\* with other instructions in between, compared with eight bytes of memory by
\* PCMPEQB, gives a mask from PMOVMSKB of exactly the lanes that hold it.
ScanMask == scanned # {-1} => ecx = scanned

\* Every word of an XMM register, and every byte of memory, is the one that the
\* moves, unpacks and shuffles so far should have brought there, also when
\* source and destination are one register, when the sixteen bytes overlap
\* what was stored before, and when they reach past the end of memory.  MOVSD
\* between registers is taken to clear the high quad, as in the code.
MovesExact ==
    /\ \A r \in XmmRegs : WordsOf(xmm_regs[r]) = want[r]
    /\ mem = image
===============================================================================
