-------------------------------- MODULE MCSimd --------------------------------
(***************************************************************************)
(* One MMX register and two XMM registers, twenty bytes of memory: the     *)
(* sixteen bytes at 6 have their last dword outside, and of the ones at 60 *)
(* the first dword is outside and the others start at address 0, so that   *)
(* the two overlap.  The longest scan takes six instructions.              *)
(***************************************************************************)
EXTENDS Simd

MCMemories == {[x \in 0 .. 19 |-> x % 3]}
MCImm8s == {[i \in 0 .. 3 |-> 0], [i \in 0 .. 3 |-> 3 - i]}
MCEaxs == {[i \in 0 .. 3 |-> 1 + i]}
===============================================================================
