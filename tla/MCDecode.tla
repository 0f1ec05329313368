------------------------------- MODULE MCDecode -------------------------------
(* Up to three prefixes in any order and two GS bases.  Addresses of six   *)
(* bits, bytes of three.  Operands pair every mod with a plain base register,*)
(* EBP and the SIB escape, the SIB bytes with and without base and index,    *)
(* and displacements of either sign as a byte.                               *)
EXTENDS Decode

MCRegs == [r \in 0 .. 7 |-> (<<9, 0, 0, 0, 50, 21, 13, 0>>)[r + 1]]

Encoding(mod, rm, base, index, scale, disp) ==
    [mod |-> mod, rm |-> rm, base |-> base, index |-> index, scale |-> scale,
     disp |-> disp]

MCOperands ==
    { Encoding(mod, rm, 0, 0, 0, d) : mod \in 0 .. 3, rm \in {0, 5}, d \in {3, 39} }
    \cup { Encoding(mod, 4, b, i, sc, d) : mod \in 0 .. 2, b \in {0, 4, 5},
                                          i \in {4, 5}, sc \in {0, 3}, d \in {3, 39} }
===============================================================================
