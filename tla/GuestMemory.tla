------------------------------ MODULE GuestMemory ------------------------------
(***************************************************************************)
(* The accessors of guest memory (mem.c) as operators on a memory m, a     *)
(* function from 0 .. MemSize - 1 to bytes.  An address is a uint32_t and  *)
(* may lie outside; the bound is checked in size_t, which does not wrap.   *)
(* A dword is WordBytes bytes and a word half of them, little endian; each *)
(* is read and written as a whole or not at all.                           *)
(***************************************************************************)
EXTENDS Integers

CONSTANTS MemSize,     \* bytes of guest memory
          WordBytes,   \* 4
          ByteValues,  \* 2^8
          Addresses    \* 2^32, the number of addresses

HalfBytes == WordBytes \div 2

ASSUME MemoryAssumption ==
    /\ MemSize \in Nat /\ WordBytes \in Nat \ {0} /\ ByteValues \in Nat \ {0}
    /\ Addresses \in Nat /\ MemSize < Addresses

Memory == [0 .. MemSize - 1 -> 0 .. ByteValues - 1]

check_bounds(addr, width) == addr + width <= MemSize

mem_read8(m, addr) == IF check_bounds(addr, 1) THEN m[addr] ELSE 0

\* Mutated form of mem_write8: an address outside is folded back inside.
mem_write8_folds(m, addr, val) == [m EXCEPT ![addr % MemSize] = val]

mem_write8(m, addr, val) ==
    IF check_bounds(addr, 1) THEN [m EXCEPT ![addr] = val] ELSE m

\* Values of k bytes.
Pow(k) ==
    LET p[i \in 0 .. k] == IF i = 0 THEN 1 ELSE ByteValues * p[i - 1]
    IN  p[k]

\* The value of n bytes of m from addr on, little endian: high[k] is that of
\* the last k of them.
Value(m, addr, n) ==
    LET high[k \in 0 .. n] ==
          IF k = 0 THEN 0 ELSE m[(addr + n) - k] + ByteValues * high[k - 1]
    IN  high[n]

\* val shifted right by k bytes.
Shifted(val, k) ==
    LET rest[i \in 0 .. k] == IF i = 0 THEN val ELSE rest[i - 1] \div ByteValues
    IN  rest[k]

Stored(m, addr, n, val) ==
    [x \in 0 .. MemSize - 1 |->
       IF x \in addr .. addr + n - 1 THEN Shifted(val, x - addr) % ByteValues ELSE m[x]]

mem_read16(m, addr) ==
    IF check_bounds(addr, HalfBytes) THEN Value(m, addr, HalfBytes) ELSE 0

mem_write16(m, addr, val) ==
    IF check_bounds(addr, HalfBytes) THEN Stored(m, addr, HalfBytes, val) ELSE m

\* Mutated form of mem_read32: the bytes are read big endian.
mem_read32_big(m, addr) ==
    LET high[k \in 0 .. WordBytes] ==
          IF k = 0 THEN 0 ELSE high[k - 1] * ByteValues + m[addr + k - 1]
    IN  IF check_bounds(addr, WordBytes) THEN high[WordBytes] ELSE 0

mem_read32(m, addr) ==
    IF check_bounds(addr, WordBytes) THEN Value(m, addr, WordBytes) ELSE 0

mem_write32(m, addr, val) ==
    IF check_bounds(addr, WordBytes) THEN Stored(m, addr, WordBytes, val) ELSE m
===============================================================================
