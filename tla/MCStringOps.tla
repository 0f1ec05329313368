----------------------------- MODULE MCStringOps -----------------------------
(* Five bytes of three values and dwords of two bytes, in an address space   *)
(* of eight: copies that overlap either way, leave memory and wrap round.    *)
EXTENDS StringOps

MCMemories ==
    {[x \in 0 .. MemSize - 1 |-> x % 3], [x \in 0 .. MemSize - 1 |-> (x + 2) % 3],
     [x \in 0 .. MemSize - 1 |-> IF x < 2 THEN x + 1 ELSE 0]}
===============================================================================
