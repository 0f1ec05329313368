----------------------------- MODULE MCFpuStack -----------------------------
(***************************************************************************)
(* Three registers, so that the stack wraps round within a few pushes, and *)
(* 2-bit words; two words of memory, one address past them and the last    *)
(* one, whose second dword is the first of memory.  Floats and integers    *)
(* have doubles of their own, 0 and 1 the same ones.                       *)
(***************************************************************************)
EXTENDS FpuStack

MCMemories == {[x \in {0, 1} |-> IF x = 0 THEN lo ELSE 3 - lo] : lo \in {1, 3}}
MCWiden == [w \in 0 .. 3 |-> (<< <<0, 0>>, <<0, 3>>, <<2, 2>>, <<2, 1>> >>)[w + 1]]
MCOfInt == [w \in 0 .. 3 |-> (<< <<0, 0>>, <<0, 3>>, <<1, 3>>, <<3, 2>> >>)[w + 1]]
MCConstants == {<<2, 1>>}
MCResults == {<<1, 2>>, <<1, 3>>}
===============================================================================
