------------------------------- MODULE FpuData -------------------------------
(***************************************************************************)
(* What the x87 handlers (ops.c) move and convert.  Guest memory is taken  *)
(* in 32-bit words and addresses count words.  A double is its two words,  *)
(* low and high.  Which doubles a float and a 32-bit integer convert to is *)
(* a parameter.  Those conversions are exact, and the opposite ones undo   *)
(* them; every other one rounds, or is undefined in C, and its result is   *)
(* left open.                                                              *)
(***************************************************************************)
EXTENDS Integers

CONSTANTS Registers,    \* 8, the registers of the stack
          Half,         \* 2^16
          MemWords,     \* words of guest memory
          Addresses,    \* 2^30, the number of word addresses
          Memories,     \* initial contents
          Widen,        \* (double) of the float with these bits
          OfInt,        \* (double) of the int32_t with these bits
          Constants,    \* the doubles FLD1, FLDPI ... push
          Results,      \* what FSQRT, FPREM ... may compute
          ControlWord   \* 0x037F

Long == Half * Half
Word == 0 .. Long - 1
Double == Word \X Word
Memory == [0 .. MemWords - 1 -> Word]
Address == 0 .. Addresses - 1

ASSUME FpuAssumption ==
    /\ Registers \in Nat \ {0} /\ Half \in Nat \ {0, 1}
    /\ MemWords \in Nat /\ Addresses \in Nat /\ MemWords < Addresses
    /\ Memories \subseteq Memory /\ Constants \cup Results \subseteq Double
    /\ Widen \in [Word -> Double] /\ OfInt \in [Word -> Double]
    /\ ControlWord \in 0 .. Half - 1

Zero == <<0, 0>>

mem_read32(m, a) == IF a < MemWords THEN m[a] ELSE 0
mem_read16(m, a) == mem_read32(m, a) % Half
mem_write32(m, a, w) == IF a < MemWords THEN [m EXCEPT ![a] = w] ELSE m
mem_write16(m, a, v) ==
    IF a < MemWords THEN [m EXCEPT ![a] = (@ \div Half) * Half + v] ELSE m

\* Two dwords, each read as zero or dropped on its own outside memory.
second(a) == (a + 1) % Addresses
mem_read64(m, a) == <<mem_read32(m, a), mem_read32(m, second(a))>>
mem_write64(m, a, d) == mem_write32(mem_write32(m, a, d[1]), second(a), d[2])

Widened(w) == Widen[w]
FloatsOf(d) == {w \in Word : Widen[w] = d}
Narrowed(d) == IF FloatsOf(d) # {} THEN FloatsOf(d) ELSE Word

FromInt(w) == OfInt[w]
IntsOf(d) == {w \in Word : OfInt[w] = d}
ToInt(d) == IF IntsOf(d) # {} THEN IntsOf(d) ELSE Word

\* int16_t to int32_t.
Extended(h) == IF h < Half \div 2 THEN h ELSE h + Long - Half
FromInt16(h) == FromInt(Extended(h))
Int16sOf(d) == {h \in 0 .. Half - 1 : OfInt[Extended(h)] = d}
ToInt16(d) == IF Int16sOf(d) # {} THEN Int16sOf(d) ELSE 0 .. Half - 1

\* int32_t to int64_t; a double has 53 bits for a wider one.
LongSign(w) == IF w < Long \div 2 THEN 0 ELSE Long - 1
FromInt64(d) == IF d[2] = LongSign(d[1]) THEN {FromInt(d[1])} ELSE Results
ToInt64(d) == IF IntsOf(d) # {} THEN {<<w, LongSign(w)>> : w \in IntsOf(d)} ELSE Double
===============================================================================
