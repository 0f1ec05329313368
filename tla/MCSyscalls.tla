------------------------------ MODULE MCSyscalls ------------------------------
(* Twelve words of memory; a thread descriptor at 1 for a block at 8, and one *)
(* at 5 whose block (base 2) has its slot on the descriptor's own base.       *)
EXTENDS Syscalls

MCMemories ==
    { [x \in 0 .. MemWords - 1 |->
         CASE x = 1 -> Addresses - 1 [] x = 2 -> 8 [] x = 5 -> 3 [] x = 6 -> 2
           [] OTHER -> 0] }

MCPointers == {0, 1, 5, 11, 14}
MCLengths == {2}
MCSignals == {0, 1, 2, 3}
MCValues == {9}
===============================================================================
