-------------------------------- MODULE Flags --------------------------------
(***************************************************************************)
(* EFLAGS and the helpers of ops.c that set it, as operators on a record   *)
(* of the five flags the code keeps.  Widths are parameters: Byte, Half    *)
(* and Long are 2^8, 2^16 and 2^32 in the code.                            *)
(***************************************************************************)
EXTENDS Integers

CONSTANTS Byte, Half, Long,     \* number of values of each width
          ByteArgs, LongArgs,   \* operands
          MaxWords              \* bound: words of a multi-word operation

VARIABLE eflags                 \* the five flags the code keeps, 0 or 1

ASSUME WidthAssumption ==
    /\ Byte \in Nat /\ Half \in Nat /\ Long \in Nat
    /\ 2 <= Byte /\ 2 * Byte <= Half /\ 2 * Half <= Long
    /\ Byte % 2 = 0 /\ Half % 2 = 0 /\ Long % 2 = 0 /\ Long % Half = 0
    /\ ByteArgs \subseteq 0 .. Byte - 1 /\ LongArgs \subseteq 0 .. Long - 1
    /\ MaxWords \in Nat

Eflags == [cf : 0 .. 1, pf : 0 .. 1, zf : 0 .. 1, sf : 0 .. 1, of : 0 .. 1]

\* init_cpu clears the whole structure.
NoFlags == [cf |-> 0, pf |-> 0, zf |-> 0, sf |-> 0, of |-> 0]

ToSigned(x, w) == IF x >= w \div 2 THEN x - w ELSE x

Bit(p) == IF p THEN 1 ELSE 0

(* Every helper tests bit 31, whatever the operand's width.                  *)

Sign(x) == x >= Long \div 2

set_cf(f, p) == [f EXCEPT !.cf = Bit(p)]
set_zf(f, r) == [f EXCEPT !.zf = Bit(r = 0)]
set_sf(f, r) == [f EXCEPT !.sf = Bit(Sign(r))]

EvenParity(b) ==
    LET odd[n \in 0 .. Byte - 1] == IF n = 0 THEN 0 ELSE ((n % 2) + odd[n \div 2]) % 2
    IN  odd[b] = 0

\* PF is set when the low byte has an even number of ones.
set_pf(f, r) == [f EXCEPT !.pf = Bit(EvenParity(r % Byte))]

set_of_add(f, a, b, r) ==
    [f EXCEPT !.of = Bit(Sign(a) = Sign(b) /\ Sign(a) # Sign(r))]

\* Mutated form of set_of_sub: the overflow of an addition.
of_sub_like_add(f, a, b, r) == set_of_add(f, a, b, r)

set_of_sub(f, a, b, r) ==
    [f EXCEPT !.of = Bit(Sign(a) # Sign(b) /\ Sign(a) # Sign(r))]

ZeroSign(f, r) == set_sf(set_zf(f, r), r)
ZeroSignParity(f, r) == set_pf(ZeroSign(f, r), r)
===============================================================================
